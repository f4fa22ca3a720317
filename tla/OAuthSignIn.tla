----------------------------- MODULE OAuthSignIn -----------------------------
(***************************************************************************)
(* Signing in with GitHub.  An attempt starts in a tab; its PKCE verifier  *)
(* travels in one cookie that all tabs of a browser share; GitHub sends    *)
(* the tab back to the callback route with a code that the identity        *)
(* service exchanges only together with that attempt's verifier, and only  *)
(* once.  Requests read the browser's cookies when they leave it,          *)
(* responses change them when they arrive, and tabs are not synchronized:  *)
(* other tabs, reloads, a callback address opened in another browser,      *)
(* expiry and lost responses come between any two steps.                   *)
(***************************************************************************)
EXTENDS WebConfig, Naturals

CONSTANTS
    Attempts,  \* presses of "Sign in with GitHub"; each has a verifier of its own
    Browsers,
    MaxOpenings,  \* bound: requests for the callback route
    MaxRenewals,  \* bound: renewals of session cookies
    Deployments,  \* the environments the server may run with
    None

ASSUME SignInAssumption ==
    /\ None \notin Attempts \cup Browsers \cup {"fresh", "spent"}
    /\ MaxOpenings \in Nat /\ MaxRenewals \in Nat
    /\ Deployments \subseteq Environments

VARIABLES
    env,       \* the server's environment
    home,      \* the browser an attempt is made in
    stage,     \* how far an attempt is
    code,      \* the code GitHub issued for an attempt
    cookie,    \* a browser's PKCE cookie: the attempt whose verifier it holds
    session,   \* a browser's session cookies: the attempt that brought them
    callback,  \* the requests for the callback route, and their answers
    renewal,   \* the requests that renew session cookies
    expired    \* the browsers that have dropped a PKCE cookie for its age

vars == <<env, home, stage, code, cookie, session, callback, renewal, expired>>

Openings == 1..MaxOpenings
Renewals == 1..MaxRenewals

Init ==
    /\ env \in Deployments
    /\ home = [a \in Attempts |-> None]
    /\ stage = [a \in Attempts |-> "idle"]
    /\ code = [a \in Attempts |-> None]
    /\ cookie = [b \in Browsers |-> None]
    /\ session = [b \in Browsers |-> None]
    /\ callback = [n \in Openings |-> None]
    /\ renewal = [n \in Renewals |-> None]
    /\ expired = {}

-----------------------------------------------------------------------------
(* Starting: the server action, and its response in the browser.           *)

\* What signInWithOAuth returned: an error, something that is not an address
\* of GitHub's authorization page with a verifier of 43 to 128 characters, or
\* a start.
StartReplies == {"error", "malformed", "start"}

ParseOAuthStart(reply) == reply = "start"

\* The user presses the button; AuthControls offers it to a page that was
\* rendered without a user, which another tab may have changed since.
SignInWithGitHub(a, b) ==
    /\ stage[a] = "idle"
    /\ home' = [home EXCEPT ![a] = b]
    /\ \E reply \in StartReplies :
          stage' = [stage EXCEPT ![a] =
                      IF ParsesAsAuthConfig(env) /\ ParseOAuthStart(reply)
                        THEN "redirected" ELSE "unavailable"]
    /\ UNCHANGED <<env, code, cookie, session, callback, renewal, expired>>

\* The response sets the cookie, over whatever it held, and leads to GitHub.
LeaveForGitHub(a) ==
    /\ stage[a] = "redirected"
    /\ stage' = [stage EXCEPT ![a] = "at GitHub"]
    /\ cookie' = [cookie EXCEPT ![home[a]] = a]
    /\ UNCHANGED <<env, home, code, session, callback, renewal, expired>>

-----------------------------------------------------------------------------
(* GitHub and the identity service.                                        *)

\* The user agrees, and the tab is sent back with a code, or with an error.
GitHubReturns(a) ==
    /\ stage[a] = "at GitHub"
    /\ \/ stage' = [stage EXCEPT ![a] = "granted"] /\ code' = [code EXCEPT ![a] = "fresh"]
       \/ stage' = [stage EXCEPT ![a] = "denied"] /\ UNCHANGED code
    /\ UNCHANGED <<env, home, cookie, session, callback, renewal, expired>>

\* An exchange succeeds for a fresh code with the verifier of its attempt.
Exchanges(request) ==
    code[request.attempt] = "fresh" /\ request.verifier = request.attempt

-----------------------------------------------------------------------------
(* The callback route.                                                     *)

\* Mutant: with sameSite "strict" the redirect from GitHub carries no cookie.
MutSentCookie(a, b) == None

\* Mutant: the verifier travels in the address instead of a cookie.
MutVerifierInAddress(a, b) == a

\* The verifier that comes with a request from b for the callback of a.
SentCookie(a, b) == cookie[b]

\* A tab opens the address GitHub led to: the first time, again by a reload or
\* from the history, or in another browser the address was carried to.
OpenCallback(a, b, n) ==
    /\ stage[a] \in {"granted", "denied"}
    /\ callback[n] = None /\ \A m \in 1..(n - 1) : callback[m] # None
    /\ callback' = [callback EXCEPT ![n] =
          [attempt |-> a, browser |-> b, verifier |-> SentCookie(a, b),
           outcome |-> "pending", arrived |-> FALSE, broken |-> FALSE]]
    /\ UNCHANGED <<env, home, stage, code, cookie, session, renewal, expired>>

Pending(n) == callback[n] # None /\ callback[n].outcome = "pending"

Reply(n, outcome, broken) ==
    callback' = [callback EXCEPT ![n].outcome = outcome, ![n].broken = broken]

ParseOAuthCallback(request) ==
    stage[request.attempt] = "granted" /\ request.verifier # None

NotConfigured(n) ==
    /\ Pending(n) /\ ~ParsesAsAuthConfig(env)
    /\ Reply(n, "unconfigured", FALSE)
    /\ UNCHANGED <<env, home, stage, code, cookie, session, renewal, expired>>

RefuseCallback(n) ==
    /\ Pending(n) /\ ParsesAsAuthConfig(env)
    /\ ~ParseOAuthCallback(callback[n])
    /\ Reply(n, "oauth_failed", FALSE)
    /\ UNCHANGED <<env, home, stage, code, cookie, session, renewal, expired>>

\* Mutant: an exchange that is refused throws past the handler.
MutExchange(n) ==
    /\ Pending(n) /\ ParsesAsAuthConfig(env) /\ ParseOAuthCallback(callback[n])
    /\ Exchanges(callback[n])
    /\ Reply(n, "signed_in", FALSE)
    /\ code' = [code EXCEPT ![callback[n].attempt] = "spent"]
    /\ UNCHANGED <<env, home, stage, cookie, session, renewal, expired>>

\* The exchange, which may also fail by itself (the service is away, the code
\* is too old, the reply is lost), before or after it has spent the code.
ExchangeOAuthCode(n) ==
    /\ Pending(n) /\ ParsesAsAuthConfig(env) /\ ParseOAuthCallback(callback[n])
    /\ \/ /\ Exchanges(callback[n])
          /\ Reply(n, "signed_in", FALSE)
          /\ code' = [code EXCEPT ![callback[n].attempt] = "spent"]
       \/ ~Exchanges(callback[n]) /\ Reply(n, "oauth_failed", FALSE) /\ UNCHANGED code
       \/ /\ Reply(n, "oauth_failed", TRUE)
          /\ code' = [code EXCEPT ![callback[n].attempt] =
                        IF Exchanges(callback[n]) THEN "spent" ELSE @]
       \/ Reply(n, "oauth_failed", TRUE) /\ UNCHANGED code
    /\ UNCHANGED <<env, home, stage, cookie, session, renewal, expired>>

\* Mutant: a successful callback returns before it clears the cookie.
MutClearsCookie(outcome) == outcome = "oauth_failed"

\* Every answer of the route but the one for a missing configuration clears
\* the PKCE cookie, whichever attempt's verifier it holds by then.
ClearsCookie(outcome) == outcome # "unconfigured"

CallbackArrives(n) ==
    LET c == callback[n]
    IN /\ c # None /\ c.outcome # "pending" /\ ~c.arrived
       /\ callback' = [callback EXCEPT ![n].arrived = TRUE]
       /\ cookie' = IF ClearsCookie(c.outcome)
                      THEN [cookie EXCEPT ![c.browser] = None] ELSE cookie
       /\ session' = IF c.outcome = "signed_in"
                       THEN [session EXCEPT ![c.browser] = c.attempt] ELSE session
       /\ UNCHANGED <<env, home, stage, code, renewal, expired>>

\* The browser drops the cookie after ten minutes.
CookieExpires(b) ==
    /\ cookie[b] # None
    /\ cookie' = [cookie EXCEPT ![b] = None]
    /\ expired' = expired \cup {b}
    /\ UNCHANGED <<env, home, stage, code, session, callback, renewal>>

-----------------------------------------------------------------------------
(* The session afterwards.                                                 *)

\* signOut leads back to the verify page whether or not it succeeded.
SignOut(b) ==
    /\ session[b] # None /\ ParsesAsAuthConfig(env)
    /\ session' = [session EXCEPT ![b] = None]
    /\ UNCHANGED <<env, home, stage, code, cookie, callback, renewal, expired>>

\* Mutant: a renewal is asked for without looking whether there is a session.
MutAskRenewal(b, n) ==
    /\ ParsesAsAuthConfig(env)
    /\ renewal[n] = None /\ \A m \in 1..(n - 1) : renewal[m] # None
    /\ renewal' = [renewal EXCEPT ![n] =
                     [browser |-> b, session |-> session[b], arrived |-> FALSE]]
    /\ UNCHANGED <<env, home, stage, code, cookie, session, callback, expired>>

\* Every page request passes updateSession, and the SDK may post to the refresh
\* route: both may answer with new cookies for the session they were sent.
AskRenewal(b, n) ==
    /\ session[b] # None /\ ParsesAsAuthConfig(env)
    /\ renewal[n] = None /\ \A m \in 1..(n - 1) : renewal[m] # None
    /\ renewal' = [renewal EXCEPT ![n] =
                     [browser |-> b, session |-> session[b], arrived |-> FALSE]]
    /\ UNCHANGED <<env, home, stage, code, cookie, session, callback, expired>>

\* The new cookies arrive, late perhaps, or the service has ended the session.
RenewalArrives(n) ==
    LET r == renewal[n]
    IN /\ r # None /\ ~r.arrived
       /\ renewal' = [renewal EXCEPT ![n].arrived = TRUE]
       /\ \E s \in {r.session, None} : session' = [session EXCEPT ![r.browser] = s]
       /\ UNCHANGED <<env, home, stage, code, cookie, callback, expired>>

\* A new deployment has another environment; it is read for every request.
Redeploy ==
    /\ env' \in Deployments \ {env}
    /\ UNCHANGED <<home, stage, code, cookie, session, callback, renewal, expired>>

-----------------------------------------------------------------------------
ServerSteps ==
    \E n \in Openings : NotConfigured(n) \/ RefuseCallback(n) \/ ExchangeOAuthCode(n)

Next ==
    \/ ServerSteps \/ Redeploy
    \/ \E a \in Attempts :
          \/ LeaveForGitHub(a) \/ GitHubReturns(a)
          \/ \E b \in Browsers : SignInWithGitHub(a, b)
          \/ \E b \in Browsers, n \in Openings : OpenCallback(a, b, n)
    \/ \E n \in Openings : CallbackArrives(n)
    \/ \E b \in Browsers :
          \/ CookieExpires(b) \/ SignOut(b)
          \/ \E n \in Renewals : AskRenewal(b, n)
    \/ \E n \in Renewals : RenewalArrives(n)

\* The platform runs the server's handlers to their end, and the service's
\* client settles every call; users, GitHub and networks owe nothing.
Spec == Init /\ [][Next]_vars /\ WF_vars(ServerSteps)

-----------------------------------------------------------------------------
Callback ==
    [attempt: Attempts, browser: Browsers, verifier: Attempts \cup {None},
     outcome: {"pending", "unconfigured", "oauth_failed", "signed_in"},
     arrived: BOOLEAN, broken: BOOLEAN]

ASSUME NoneAssumption == None \notin Callback

Renewal == [browser: Browsers, session: Attempts, arrived: BOOLEAN]

TypeOK ==
    /\ env \in Deployments
    /\ home \in [Attempts -> Browsers \cup {None}]
    /\ stage \in [Attempts -> {"idle", "unavailable", "redirected",
                               "at GitHub", "granted", "denied"}]
    /\ code \in [Attempts -> {None, "fresh", "spent"}]
    /\ cookie \in [Browsers -> Attempts \cup {None}]
    /\ session \in [Browsers -> Attempts \cup {None}]
    /\ callback \in [Openings -> Callback \cup {None}]
    /\ renewal \in [Renewals -> Renewal \cup {None}]
    /\ expired \subseteq Browsers

\* A browser is only ever signed in by an attempt that was made in it and that
\* GitHub granted: not by a callback address from another browser, not by a
\* renewal, however late, and not by a code that was exchanged before.
SessionsAreOwn ==
    \A b \in Browsers : session[b] # None =>
        home[session[b]] = b /\ code[session[b]] = "spent"

\* A failure has a cause outside the code: whoever makes one attempt in a
\* browser, opens its callback once and there, in time, and meets neither a
\* denial nor a failure of the service, is never told that it failed.
LoneAttemptSucceeds ==
    \A n \in Openings :
        LET c == callback[n]
        IN c # None /\ c.outcome = "oauth_failed" =>
             \/ stage[c.attempt] = "denied" \/ c.broken
             \/ c.browser \in expired \/ c.browser # home[c.attempt]
             \/ \E a \in Attempts \ {c.attempt} :
                   home[a] = c.browser /\ stage[a] \in {"at GitHub", "granted", "denied"}
             \/ \E m \in Openings \ {n} :
                   callback[m] # None /\ callback[m].browser = c.browser

SignsIn(n, b) ==
    callback[n] # None /\ callback[n].outcome = "signed_in" /\ callback[n].browser = b

\* A verifier that has served does not stay behind: a browser holds one whose
\* code was exchanged only until the answer of that exchange arrives.
SpentVerifiersGo ==
    \A b \in Browsers, n \in Openings :
        SignsIn(n, b) /\ cookie[b] = callback[n].attempt => ~callback[n].arrived

\* Every request for the callback route is answered, whatever the cookie, the
\* code, the environment and the service do.
EveryCallbackAnswered == \A n \in Openings : Pending(n) ~> ~Pending(n)
=============================================================================
