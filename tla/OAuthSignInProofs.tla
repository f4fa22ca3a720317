-------------------------- MODULE OAuthSignInProofs --------------------------
(***************************************************************************)
(* Signing in for any number of attempts, browsers, openings of a callback *)
(* address and renewals: nobody is signed in by another browser's attempt. *)
(* Argument: a verifier gets into a browser's cookie only by the answer to *)
(* an attempt of that browser, the service exchanges a code only with the  *)
(* verifier of its attempt, and a renewal keeps whose session it renews.   *)
(* The second part is about failures: a cookie loses a verifier, and a     *)
(* code its use, only by something that is remembered as a cause, so that  *)
(* an attempt that met none of them still has both.                        *)
(***************************************************************************)
EXTENDS OAuthSignIn, TLAPS

\* An attempt that was begun belongs to a browser, and only a granted one has
\* a code.
AttemptsFit ==
    \A a \in Attempts :
        /\ stage[a] # "idle" => home[a] \in Browsers
        /\ code[a] # None => stage[a] = "granted"

\* An attempt of browser b that was begun: home no longer changes.
BegunIn(a, b) == stage[a] # "idle" /\ home[a] = b

CookiesFit == \A b \in Browsers : cookie[b] # None => BegunIn(cookie[b], b)

CallbackFits(c) ==
    /\ c.verifier # None => BegunIn(c.verifier, c.browser)
    /\ c.outcome = "signed_in" => c.verifier = c.attempt /\ code[c.attempt] = "spent"

CallbacksFit == \A n \in Openings : callback[n] # None => CallbackFits(callback[n])

\* The session of attempt a is one that b may have.
MayHave(b, a) == home[a] = b /\ code[a] = "spent"

SessionsFit == \A b \in Browsers : session[b] # None => MayHave(b, session[b])

RenewalsFit ==
    \A n \in Renewals :
        renewal[n] # None => MayHave(renewal[n].browser, renewal[n].session)

IInv ==
    TypeOK /\ AttemptsFit /\ CookiesFit /\ CallbacksFit /\ SessionsFit /\ RenewalsFit

-----------------------------------------------------------------------------
LEMMA InitInv == Init => IInv
BY SignInAssumption
   DEF Init, IInv, TypeOK, AttemptsFit, CookiesFit, CallbacksFit, SessionsFit, RenewalsFit

\* While no attempt moves to another browser and no code is given back, what
\* was said of cookies, answers and sessions stays true of those unchanged.
LEMMA FactsLast ==
    ASSUME IInv,
           \A a \in Attempts : stage[a] # "idle" => stage'[a] # "idle" /\ home'[a] = home[a],
           \A a \in Attempts : code[a] = "spent" => code'[a] = "spent"
    PROVE  /\ \A a \in Attempts : \A b : BegunIn(a, b) => BegunIn(a, b)'
           /\ \A a \in Attempts : \A b : MayHave(b, a) => MayHave(b, a)'
           /\ \A c \in Callback : CallbackFits(c) => CallbackFits(c)'
<1>1. \A a \in Attempts : \A b : BegunIn(a, b) => BegunIn(a, b)'
  BY DEF BegunIn
<1>2. \A a \in Attempts : code[a] = "spent" => stage[a] # "idle"
  BY SignInAssumption DEF IInv, AttemptsFit
<1>3. \A a \in Attempts : \A b : MayHave(b, a) => MayHave(b, a)'
  BY <1>2 DEF MayHave
<1>4. \A c \in Callback : CallbackFits(c) => CallbackFits(c)'
  BY <1>1 DEF CallbackFits, Callback
<1> QED BY <1>1, <1>3, <1>4

\* Steps that change neither attempts nor codes: what they put into a cookie,
\* a callback, a session or a renewal has to fit.
LEMMA OtherStep ==
    ASSUME IInv, TypeOK', UNCHANGED <<home, stage, code>>,
           \A b \in Browsers : cookie'[b] \in {cookie[b], None},
           \A n \in Openings :
              \/ callback'[n] = callback[n]
              \/ callback'[n] # None => CallbackFits(callback[n])',
           \A b \in Browsers :
              \/ session'[b] \in {session[b], None}
              \/ MayHave(b, session'[b]),
           \A n \in Renewals :
              \/ renewal'[n] = renewal[n]
              \/ MayHave(renewal'[n].browser, renewal'[n].session)
    PROVE  IInv'
<1>1. AttemptsFit'
  BY DEF IInv, AttemptsFit
<1>2. CookiesFit'
  BY DEF IInv, CookiesFit, BegunIn
<1>3. CallbacksFit'
  BY DEF IInv, CallbacksFit, CallbackFits, BegunIn
<1>4. SessionsFit'
  BY DEF IInv, SessionsFit, MayHave
<1>5. RenewalsFit'
  BY DEF IInv, RenewalsFit, MayHave
<1> QED BY <1>1, <1>2, <1>3, <1>4, <1>5 DEF IInv

-----------------------------------------------------------------------------
(* The steps of an attempt.                                                *)

LEMMA SignInStep ==
    ASSUME IInv, NEW a \in Attempts, NEW b \in Browsers, SignInWithGitHub(a, b)
    PROVE  IInv'
<1>1. /\ stage[a] = "idle" /\ home' = [home EXCEPT ![a] = b]
      /\ stage' \in {[stage EXCEPT ![a] = "redirected"], [stage EXCEPT ![a] = "unavailable"]}
      /\ UNCHANGED <<env, code, cookie, session, callback, renewal, expired>>
  BY DEF SignInWithGitHub
<1>2. TypeOK'
  BY <1>1 DEF IInv, TypeOK
<1>3. \A x \in Attempts : stage[x] # "idle" => stage'[x] # "idle" /\ home'[x] = home[x]
  BY <1>1 DEF IInv, TypeOK
<1>4. AttemptsFit'
  BY <1>1 DEF IInv, TypeOK, AttemptsFit
<1>5. /\ \A x \in Attempts : \A y : BegunIn(x, y) => BegunIn(x, y)'
      /\ \A x \in Attempts : \A y : MayHave(y, x) => MayHave(y, x)'
      /\ \A c \in Callback : CallbackFits(c) => CallbackFits(c)'
  BY <1>1, <1>3, FactsLast
<1>6. CookiesFit' /\ CallbacksFit' /\ SessionsFit' /\ RenewalsFit'
  BY <1>1, <1>5 DEF IInv, TypeOK, CookiesFit, CallbacksFit, SessionsFit, RenewalsFit, Renewal
<1> QED BY <1>2, <1>4, <1>6 DEF IInv

LEMMA LeaveStep ==
    ASSUME IInv, NEW a \in Attempts, LeaveForGitHub(a)
    PROVE  IInv'
<1>1. /\ stage[a] = "redirected" /\ stage' = [stage EXCEPT ![a] = "at GitHub"]
      /\ cookie' = [cookie EXCEPT ![home[a]] = a]
      /\ UNCHANGED <<env, home, code, session, callback, renewal, expired>>
  BY DEF LeaveForGitHub
<1>2. home[a] \in Browsers
  BY <1>1 DEF IInv, AttemptsFit
<1>3. TypeOK'
  BY <1>1, <1>2 DEF IInv, TypeOK
<1>4. \A x \in Attempts : stage[x] # "idle" => stage'[x] # "idle" /\ home'[x] = home[x]
  BY <1>1 DEF IInv, TypeOK
<1>5. AttemptsFit'
  BY <1>1, SignInAssumption DEF IInv, TypeOK, AttemptsFit
<1>6. /\ \A x \in Attempts : \A y : BegunIn(x, y) => BegunIn(x, y)'
      /\ \A x \in Attempts : \A y : MayHave(y, x) => MayHave(y, x)'
      /\ \A c \in Callback : CallbackFits(c) => CallbackFits(c)'
  BY <1>1, <1>4, FactsLast
<1>7. CookiesFit'
  <2> SUFFICES ASSUME NEW b \in Browsers, cookie'[b] # None
               PROVE  BegunIn(cookie[b], b)'
    BY DEF CookiesFit
  <2>1. CASE b = home[a]
    BY <1>1, <2>1 DEF IInv, TypeOK, BegunIn
  <2>2. CASE b # home[a]
    BY <1>1, <1>6, <2>2 DEF IInv, TypeOK, CookiesFit
  <2> QED BY <2>1, <2>2
<1>8. CallbacksFit' /\ SessionsFit' /\ RenewalsFit'
  BY <1>1, <1>6 DEF IInv, TypeOK, CallbacksFit, SessionsFit, RenewalsFit, Renewal
<1> QED BY <1>3, <1>5, <1>7, <1>8 DEF IInv

LEMMA GitHubStep ==
    ASSUME IInv, NEW a \in Attempts, GitHubReturns(a)
    PROVE  IInv'
<1>1. /\ stage[a] = "at GitHub"
      /\ \/ stage' = [stage EXCEPT ![a] = "granted"] /\ code' = [code EXCEPT ![a] = "fresh"]
         \/ stage' = [stage EXCEPT ![a] = "denied"] /\ UNCHANGED code
      /\ UNCHANGED <<env, home, cookie, session, callback, renewal, expired>>
  BY DEF GitHubReturns
<1>2. code[a] = None
  BY <1>1 DEF IInv, AttemptsFit
<1>3. TypeOK'
  BY <1>1 DEF IInv, TypeOK
<1>4. \A x \in Attempts : stage[x] # "idle" => stage'[x] # "idle" /\ home'[x] = home[x]
  BY <1>1 DEF IInv, TypeOK
<1>5. \A x \in Attempts : code[x] = "spent" => code'[x] = "spent"
  BY <1>1, <1>2, SignInAssumption DEF IInv, TypeOK
<1>6. AttemptsFit'
  BY <1>1, <1>2 DEF IInv, TypeOK, AttemptsFit
<1>7. /\ \A x \in Attempts : \A y : BegunIn(x, y) => BegunIn(x, y)'
      /\ \A x \in Attempts : \A y : MayHave(y, x) => MayHave(y, x)'
      /\ \A c \in Callback : CallbackFits(c) => CallbackFits(c)'
  BY <1>4, <1>5, FactsLast
<1>8. CookiesFit' /\ CallbacksFit' /\ SessionsFit' /\ RenewalsFit'
  BY <1>1, <1>7 DEF IInv, TypeOK, CookiesFit, CallbacksFit, SessionsFit, RenewalsFit, Renewal
<1> QED BY <1>3, <1>6, <1>8 DEF IInv

-----------------------------------------------------------------------------
(* The steps of the callback route and of its answers.                     *)

\* An answer to request n that is not "signed_in", or is and may be.
LEMMA ReplyStep ==
    ASSUME IInv, NEW n \in Openings, Pending(n), NEW broken \in BOOLEAN,
           NEW outcome \in {"unconfigured", "oauth_failed", "signed_in"},
           Reply(n, outcome, broken),
           code' \in {code, [code EXCEPT ![callback[n].attempt] = "spent"]},
           code' # code => code[callback[n].attempt] = "fresh",
           outcome = "signed_in" =>
              /\ callback[n].verifier = callback[n].attempt
              /\ code'[callback[n].attempt] = "spent",
           UNCHANGED <<env, home, stage, cookie, session, renewal, expired>>
    PROVE  IInv'
<1> DEFINE c == callback[n]
<1>1. c \in Callback /\ c # None /\ callback \in [Openings -> Callback \cup {None}]
  BY DEF IInv, TypeOK, Pending
<1>2. /\ callback' \in [Openings -> Callback \cup {None}]
      /\ callback'[n] = [c EXCEPT !.outcome = outcome, !.broken = broken]
      /\ \A m \in Openings \ {n} : callback'[m] = callback[m]
  BY <1>1 DEF Reply, Callback
<1>3. /\ callback'[n].verifier = c.verifier /\ callback'[n].browser = c.browser
      /\ callback'[n].attempt = c.attempt /\ callback'[n].outcome = outcome
  BY <1>1, <1>2 DEF Callback
<1>4. code \in [Attempts -> {None, "fresh", "spent"}] /\ c.attempt \in Attempts
  BY <1>1 DEF IInv, TypeOK, Callback
<1>5. /\ code' \in [Attempts -> {None, "fresh", "spent"}]
      /\ \A x \in Attempts : code[x] = "spent" => code'[x] = "spent"
      /\ \A x \in Attempts : code'[x] # None => code[x] # None
  BY <1>4, SignInAssumption
<1>6. TypeOK'
  BY <1>2, <1>5 DEF IInv, TypeOK
<1>7. AttemptsFit'
  BY <1>5 DEF IInv, AttemptsFit
<1>8. /\ \A x \in Attempts : \A y : BegunIn(x, y) => BegunIn(x, y)'
      /\ \A x \in Attempts : \A y : MayHave(y, x) => MayHave(y, x)'
      /\ \A d \in Callback : CallbackFits(d) => CallbackFits(d)'
  BY <1>5, FactsLast
<1>9. CookiesFit' /\ SessionsFit' /\ RenewalsFit'
  BY <1>8 DEF IInv, TypeOK, CookiesFit, SessionsFit, RenewalsFit, Renewal
<1>10. CallbackFits(callback[n])'
  BY <1>1, <1>3, <1>8 DEF IInv, CallbacksFit, CallbackFits, Callback
<1>11. CallbacksFit'
  BY <1>1, <1>2, <1>8, <1>10 DEF IInv, CallbacksFit
<1> QED BY <1>6, <1>7, <1>9, <1>11 DEF IInv

LEMMA ServerStep ==
    ASSUME IInv, NEW n \in Openings,
           NotConfigured(n) \/ RefuseCallback(n) \/ ExchangeOAuthCode(n)
    PROVE  IInv'
<1>1. CASE NotConfigured(n)
  BY <1>1, ReplyStep DEF NotConfigured
<1>2. CASE RefuseCallback(n)
  BY <1>2, ReplyStep DEF RefuseCallback
<1>3. CASE ExchangeOAuthCode(n)
  <2>1. Pending(n) /\ UNCHANGED <<env, home, stage, cookie, session, renewal, expired>>
    BY <1>3 DEF ExchangeOAuthCode
  <2>2. callback[n].attempt \in Attempts /\ code = [code EXCEPT ![callback[n].attempt] = @]
    BY <2>1 DEF IInv, TypeOK, Callback, Pending
  <2>3. CASE /\ Exchanges(callback[n]) /\ Reply(n, "signed_in", FALSE)
             /\ code' = [code EXCEPT ![callback[n].attempt] = "spent"]
    <3>1. code'[callback[n].attempt] = "spent"
      BY <2>2, <2>3 DEF IInv, TypeOK
    <3> QED BY <2>1, <2>3, <3>1, ReplyStep DEF Exchanges
  <2>4. CASE Reply(n, "oauth_failed", FALSE) /\ UNCHANGED code
    BY <2>1, <2>4, ReplyStep
  <2>5. CASE /\ Reply(n, "oauth_failed", TRUE)
             /\ code' = [code EXCEPT ![callback[n].attempt] =
                           IF Exchanges(callback[n]) THEN "spent" ELSE @]
    <3>1. CASE Exchanges(callback[n])
      BY <2>1, <2>5, <3>1, ReplyStep DEF Exchanges
    <3>2. CASE ~Exchanges(callback[n])
      <4>1. code' = code
        BY <2>2, <2>5, <3>2
      <4> QED BY <2>1, <2>5, <4>1, ReplyStep
    <3> QED BY <3>1, <3>2
  <2>6. CASE Reply(n, "oauth_failed", TRUE) /\ UNCHANGED code
    BY <2>1, <2>6, ReplyStep
  <2> QED BY <1>3, <2>3, <2>4, <2>5, <2>6 DEF ExchangeOAuthCode
<1> QED BY <1>1, <1>2, <1>3

LEMMA OpenStep ==
    ASSUME IInv, NEW a \in Attempts, NEW b \in Browsers, NEW n \in Openings,
           OpenCallback(a, b, n)
    PROVE  IInv'
<1> DEFINE c == [attempt |-> a, browser |-> b, verifier |-> cookie[b],
                 outcome |-> "pending", arrived |-> FALSE, broken |-> FALSE]
<1>1. /\ callback' = [callback EXCEPT ![n] = c]
      /\ UNCHANGED <<env, home, stage, code, cookie, session, renewal, expired>>
  BY DEF OpenCallback, SentCookie
<1>2. c \in Callback /\ c.verifier = cookie[b] /\ c.browser = b /\ c.outcome = "pending"
  BY DEF IInv, TypeOK, Callback
<1>3. CallbackFits(c)
  BY <1>2 DEF IInv, CookiesFit, CallbackFits
<1> HIDE DEF c
<1>4. TypeOK'
  BY <1>1, <1>2 DEF IInv, TypeOK
<1>5. \A m \in Openings : callback'[m] = callback[m] \/ CallbackFits(callback[m])'
  BY <1>1, <1>3 DEF IInv, TypeOK, CallbackFits, BegunIn
<1> QED BY <1>1, <1>4, <1>5, OtherStep

LEMMA ArriveStep ==
    ASSUME IInv, NEW n \in Openings, CallbackArrives(n)
    PROVE  IInv'
<1> DEFINE c == callback[n]
<1>1. /\ c # None /\ c.outcome # "pending" /\ callback' = [callback EXCEPT ![n].arrived = TRUE]
      /\ cookie' \in {cookie, [cookie EXCEPT ![c.browser] = None]}
      /\ session' = IF c.outcome = "signed_in"
                      THEN [session EXCEPT ![c.browser] = c.attempt] ELSE session
      /\ UNCHANGED <<env, home, stage, code, renewal, expired>>
  BY DEF CallbackArrives
<1>2. c \in Callback /\ CallbackFits(c)
  BY <1>1 DEF IInv, TypeOK, CallbacksFit
<1>3. callback'[n] = [c EXCEPT !.arrived = TRUE] /\ \A m \in Openings \ {n} : callback'[m] = callback[m]
  BY <1>1 DEF IInv, TypeOK
<1>4. callback'[n] \in Callback /\ CallbackFits(callback[n])'
  <2>1. /\ callback'[n] \in Callback
        /\ callback'[n].attempt = c.attempt /\ callback'[n].browser = c.browser
        /\ callback'[n].verifier = c.verifier /\ callback'[n].outcome = c.outcome
    BY <1>2, <1>3 DEF Callback
  <2> HIDE DEF c
  <2> QED BY <1>1, <1>2, <2>1 DEF CallbackFits, BegunIn
<1>5. c.outcome = "signed_in" => MayHave(c.browser, c.attempt)
  BY <1>2, SignInAssumption DEF CallbackFits, Callback, BegunIn, MayHave
<1>6. c.browser \in Browsers /\ c.attempt \in Attempts
  BY <1>2 DEF Callback
<1> HIDE DEF c
<1>7. TypeOK'
  <2>1. cookie' \in [Browsers -> Attempts \cup {None}]
    BY <1>1 DEF IInv, TypeOK
  <2>2. session' \in [Browsers -> Attempts \cup {None}]
    BY <1>1, <1>6 DEF IInv, TypeOK
  <2>3. callback' \in [Openings -> Callback \cup {None}]
    BY <1>1, <1>3, <1>4 DEF IInv, TypeOK
  <2> QED BY <1>1, <2>1, <2>2, <2>3 DEF IInv, TypeOK
<1>8. \A b \in Browsers : cookie'[b] \in {cookie[b], None}
  BY <1>1 DEF IInv, TypeOK
<1>9. \A m \in Openings : callback'[m] = callback[m] \/ CallbackFits(callback[m])'
  BY <1>3, <1>4
<1>10. \A b \in Browsers : session'[b] \in {session[b], None} \/ MayHave(b, session'[b])
  BY <1>1, <1>5, <1>6 DEF IInv, TypeOK
<1> QED BY <1>1, <1>7, <1>8, <1>9, <1>10, OtherStep

-----------------------------------------------------------------------------
(* Expiry, sign-out, renewals and redeployment.                            *)

LEMMA AskStep ==
    ASSUME IInv, NEW b \in Browsers, NEW n \in Renewals, AskRenewal(b, n)
    PROVE  IInv'
<1> DEFINE r == [browser |-> b, session |-> session[b], arrived |-> FALSE]
<1>1. /\ session[b] # None /\ renewal' = [renewal EXCEPT ![n] = r]
      /\ UNCHANGED <<env, home, stage, code, cookie, session, callback, expired>>
  BY DEF AskRenewal
<1>2. r \in Renewal /\ MayHave(r.browser, r.session)
  BY <1>1 DEF IInv, TypeOK, Renewal, SessionsFit
<1> HIDE DEF r
<1>3. TypeOK'
  BY <1>1, <1>2 DEF IInv, TypeOK
<1>4. \A m \in Renewals :
         renewal'[m] = renewal[m] \/ MayHave(renewal'[m].browser, renewal'[m].session)
  BY <1>1, <1>2 DEF IInv, TypeOK
<1> QED BY <1>1, <1>3, <1>4, OtherStep

LEMMA RenewalStep ==
    ASSUME IInv, NEW n \in Renewals, RenewalArrives(n)
    PROVE  IInv'
<1> DEFINE r == renewal[n]
<1>1. PICK s \in {r.session, None} :
         /\ r # None /\ renewal' = [renewal EXCEPT ![n].arrived = TRUE]
         /\ session' = [session EXCEPT ![r.browser] = s]
         /\ UNCHANGED <<env, home, stage, code, cookie, callback, expired>>
  BY DEF RenewalArrives
<1>2. r \in Renewal /\ MayHave(r.browser, r.session)
  BY <1>1 DEF IInv, TypeOK, RenewalsFit
<1>3. renewal'[n] = [r EXCEPT !.arrived = TRUE] /\ \A m \in Renewals \ {n} : renewal'[m] = renewal[m]
  BY <1>1 DEF IInv, TypeOK
<1>4. /\ renewal'[n] \in Renewal
      /\ MayHave(renewal'[n].browser, renewal'[n].session)
      /\ r.browser \in Browsers /\ s \in Attempts \cup {None}
  BY <1>2, <1>3 DEF Renewal
<1> HIDE DEF r
<1>5. TypeOK'
  <2>1. renewal' \in [Renewals -> Renewal \cup {None}]
    BY <1>1, <1>3, <1>4 DEF IInv, TypeOK
  <2>2. session' \in [Browsers -> Attempts \cup {None}]
    BY <1>1, <1>4 DEF IInv, TypeOK
  <2> QED BY <1>1, <2>1, <2>2 DEF IInv, TypeOK
<1>6. \A b \in Browsers : session'[b] \in {session[b], None} \/ MayHave(b, session'[b])
  BY <1>1, <1>2, <1>4 DEF IInv, TypeOK
<1>7. \A m \in Renewals :
         renewal'[m] = renewal[m] \/ MayHave(renewal'[m].browser, renewal'[m].session)
  BY <1>3, <1>4
<1> QED BY <1>1, <1>5, <1>6, <1>7, OtherStep

LEMMA StepInv == IInv /\ [Next]_vars => IInv'
<1> SUFFICES ASSUME IInv, [Next]_vars PROVE IInv'
  OBVIOUS
<1>1. CASE ServerSteps
  BY <1>1, ServerStep DEF ServerSteps
<1>2. CASE Redeploy
  <2>1. TypeOK'
    BY <1>2 DEF Redeploy, IInv, TypeOK
  <2> QED BY <1>2, <2>1, OtherStep DEF Redeploy
<1>3. ASSUME NEW b \in Browsers, CookieExpires(b) PROVE IInv'
  <2>1. TypeOK' /\ \A x \in Browsers : cookie'[x] \in {cookie[x], None}
    BY <1>3 DEF CookieExpires, IInv, TypeOK
  <2> QED BY <1>3, <2>1, OtherStep DEF CookieExpires
<1>4. ASSUME NEW b \in Browsers, SignOut(b) PROVE IInv'
  <2>1. TypeOK' /\ \A x \in Browsers : session'[x] \in {session[x], None}
    BY <1>4 DEF SignOut, IInv, TypeOK
  <2> QED BY <1>4, <2>1, OtherStep DEF SignOut
<1>5. CASE UNCHANGED vars
  BY <1>5, OtherStep DEF vars, IInv, TypeOK
<1> QED BY <1>1, <1>2, <1>3, <1>4, <1>5, SignInStep, LeaveStep, GitHubStep, OpenStep,
           ArriveStep, AskStep, RenewalStep DEF Next

-----------------------------------------------------------------------------
\* Nothing the state holds is ever out of shape: in particular only a session
\* is ever renewed (proxy.ts, api/auth/refresh/route.ts).
THEOREM Invariant == Spec => []IInv
BY InitInv, StepInv, PTL DEF Spec

THEOREM TypeCorrect == Spec => []TypeOK
<1>1. IInv => TypeOK
  BY DEF IInv
<1> QED BY <1>1, Invariant, PTL

\* A browser is signed in only by an attempt made in it whose code was
\* exchanged, whatever the tabs, reloads, other browsers, late answers and
\* renewals do (api/auth/callback/route.ts, auth/actions.ts).
THEOREM SessionsOwn == Spec => []SessionsAreOwn
<1>1. IInv => SessionsAreOwn
  BY DEF IInv, SessionsFit, MayHave, SessionsAreOwn
<1> QED BY <1>1, Invariant, PTL

-----------------------------------------------------------------------------
(* Why an attempt fails.                                                   *)

\* The cookie was set for an attempt that was at GitHub.
Left(a) == stage[a] \in {"at GitHub", "granted", "denied"}

\* What may have taken the verifier of an attempt from browser b: its age,
\* another attempt there, or a callback that is opened there.
Disturbed(a, b, openings) ==
    \/ b \in expired
    \/ \E x \in Attempts \ {a} : home[x] = b /\ Left(x)
    \/ \E m \in openings : callback[m] # None /\ callback[m].browser = b

VerifiersKept ==
    \A a \in Attempts :
        Left(a) => cookie[home[a]] = a \/ Disturbed(a, home[a], Openings)

\* Request n brings the verifier of its attempt unless something took it.
BroughtBy(n, c) ==
    /\ stage[c.attempt] \in {"granted", "denied"}
    /\ c.outcome = "pending" => ~c.arrived
    /\ c.browser = home[c.attempt] =>
          c.verifier = c.attempt \/ Disturbed(c.attempt, c.browser, Openings \ {n})

RequestsFit == \A n \in Openings : callback[n] # None => BroughtBy(n, callback[n])

\* A granted attempt has a code, which only a request that brought its
\* verifier has spent.
Spends(m, a) ==
    /\ callback[m] # None /\ callback[m].outcome # "pending"
    /\ callback[m].attempt = a /\ callback[m].verifier = a

CodesFit ==
    \A a \in Attempts :
        /\ stage[a] = "granted" => code[a] # None
        /\ code[a] = "spent" => \E m \in Openings : Spends(m, a)

CauseInv ==
    IInv /\ VerifiersKept /\ RequestsFit /\ CodesFit /\ LoneAttemptSucceeds /\ SpentVerifiersGo

LEMMA CauseInit == Init => CauseInv
BY InitInv, SignInAssumption
   DEF Init, CauseInv, VerifiersKept, RequestsFit, CodesFit, LoneAttemptSucceeds,
       SpentVerifiersGo, SignsIn, Left

\* What excuses answer c of request n for saying that the attempt failed.
Excused(n, c) ==
    \/ stage[c.attempt] = "denied" \/ c.broken
    \/ c.browser \in expired \/ c.browser # home[c.attempt]
    \/ \E a \in Attempts \ {c.attempt} :
          home[a] = c.browser /\ stage[a] \in {"at GitHub", "granted", "denied"}
    \/ \E m \in Openings \ {n} :
          callback[m] # None /\ callback[m].browser = c.browser

\* Attempts go on, cookies that expired stay expired, requests stay made.
GoesOn ==
    /\ \A a \in Attempts : Left(a) => Left(a)' /\ home'[a] = home[a]
    /\ \A a \in Attempts : stage[a] = "denied" => stage'[a] = "denied"
    /\ \A a \in Attempts : stage[a] = "granted" => stage'[a] = "granted"
    /\ expired \subseteq expired'
    /\ \A m \in Openings : callback[m] # None =>
          callback'[m] # None /\ callback'[m].browser = callback[m].browser

\* What disturbed an attempt, and what excuses an answer, lasts.
LEMMA CausesLast ==
    ASSUME IInv, GoesOn
    PROVE  /\ \A a \in Attempts : \A b, S :
                S \subseteq Openings /\ Disturbed(a, b, S) => Disturbed(a, b, S)'
           /\ \A n, c : c \in Callback /\ BroughtBy(n, c) => BroughtBy(n, c)'
           /\ \A n, c : c \in Callback /\ BroughtBy(n, c) /\ Excused(n, c) => Excused(n, c)'
<1>1. ASSUME NEW a \in Attempts, NEW b, NEW S, S \subseteq Openings, Disturbed(a, b, S)
      PROVE  Disturbed(a, b, S)'
  <2>1. CASE b \in expired
    BY <2>1 DEF GoesOn, Disturbed
  <2>2. CASE \E x \in Attempts \ {a} : home[x] = b /\ Left(x)
    BY <2>2 DEF GoesOn, Disturbed
  <2>3. CASE \E m \in S : callback[m] # None /\ callback[m].browser = b
    BY <1>1, <2>3 DEF GoesOn, Disturbed
  <2> QED BY <1>1, <2>1, <2>2, <2>3 DEF Disturbed
<1>2. ASSUME NEW n, NEW c \in Callback, BroughtBy(n, c)
      PROVE  BroughtBy(n, c)' /\ home'[c.attempt] = home[c.attempt]
  <2>1. c.attempt \in Attempts /\ Left(c.attempt)
    BY <1>2 DEF Callback, BroughtBy, Left
  <2>2. home'[c.attempt] = home[c.attempt] /\ stage'[c.attempt] \in {"granted", "denied"}
    BY <1>2, <2>1 DEF GoesOn, BroughtBy
  <2>3. Openings \ {n} \subseteq Openings
    OBVIOUS
  <2>4. Disturbed(c.attempt, c.browser, Openings \ {n})
           => Disturbed(c.attempt, c.browser, Openings \ {n})'
    BY <1>1, <2>1, <2>3
  <2> QED BY <1>2, <2>2, <2>4 DEF BroughtBy
<1>3. ASSUME NEW n, NEW c \in Callback, BroughtBy(n, c), Excused(n, c)
      PROVE  Excused(n, c)'
  <2>1. c.attempt \in Attempts /\ home'[c.attempt] = home[c.attempt]
    BY <1>2, <1>3 DEF Callback
  <2>2. CASE stage[c.attempt] = "denied" \/ c.broken \/ c.browser \in expired
             \/ c.browser # home[c.attempt]
    BY <2>1, <2>2 DEF GoesOn, Excused
  <2>3. CASE \E a \in Attempts \ {c.attempt} :
                home[a] = c.browser /\ stage[a] \in {"at GitHub", "granted", "denied"}
    BY <2>3 DEF GoesOn, Excused, Left
  <2>4. CASE \E m \in Openings \ {n} : callback[m] # None /\ callback[m].browser = c.browser
    BY <2>4 DEF GoesOn, Excused
  <2> QED BY <1>3, <2>2, <2>3, <2>4 DEF Excused
<1> QED BY <1>1, <1>2, <1>3

\* A verifier that stays in its cookie, or was disturbed, is accounted for.
LEMMA KeptLast ==
    ASSUME CauseInv, GoesOn, NEW x \in Attempts, Left(x),
           cookie'[home[x]] = cookie[home[x]]
    PROVE  (cookie[home[x]] = x \/ Disturbed(x, home[x], Openings))'
<1>1. cookie[home[x]] = x \/ Disturbed(x, home[x], Openings)
  BY DEF CauseInv, VerifiersKept
<1>2. home'[x] = home[x]
  BY DEF GoesOn
<1>3. PICK h : h = home[x]
  OBVIOUS
<1>4. Disturbed(x, h, Openings) => Disturbed(x, h, Openings)'
  BY CausesLast DEF CauseInv
<1> QED BY <1>1, <1>2, <1>3, <1>4 DEF Disturbed

\* Steps that leave the requests of the callback route alone.
LEMMA CausesElsewhere ==
    ASSUME CauseInv, IInv', GoesOn, UNCHANGED callback,
           VerifiersKept', CodesFit', SpentVerifiersGo'
    PROVE  CauseInv'
<1>1. \A n \in Openings : callback[n] # None => callback[n] \in Callback
  BY DEF CauseInv, IInv, TypeOK
<1>2. RequestsFit'
  BY <1>1, CausesLast DEF CauseInv, RequestsFit, BroughtBy
<1>3. LoneAttemptSucceeds'
  <2> SUFFICES ASSUME NEW n \in Openings, callback[n] # None,
                      callback[n].outcome = "oauth_failed"
               PROVE  Excused(n, callback[n])'
    BY DEF LoneAttemptSucceeds, Excused
  <2>1. PICK c : c = callback[n]
    OBVIOUS
  <2>2. c \in Callback /\ Excused(n, c) /\ BroughtBy(n, c)
    BY <1>1, <2>1 DEF CauseInv, LoneAttemptSucceeds, Excused, RequestsFit
  <2>3. Excused(n, c)'
    BY <2>2, CausesLast DEF CauseInv
  <2> QED BY <2>1, <2>3 DEF Excused
<1> QED BY <1>2, <1>3 DEF CauseInv

LEMMA CauseSignIn ==
    ASSUME CauseInv, IInv', NEW a \in Attempts, NEW b \in Browsers, SignInWithGitHub(a, b)
    PROVE  CauseInv'
<1>1. /\ stage[a] = "idle" /\ home' = [home EXCEPT ![a] = b]
      /\ stage' \in {[stage EXCEPT ![a] = "redirected"], [stage EXCEPT ![a] = "unavailable"]}
      /\ UNCHANGED <<env, code, cookie, session, callback, renewal, expired>>
  BY DEF SignInWithGitHub
<1>2. /\ \A x \in Attempts \ {a} : stage'[x] = stage[x] /\ home'[x] = home[x]
      /\ stage'[a] \in {"redirected", "unavailable"}
  BY <1>1 DEF CauseInv, IInv, TypeOK
<1>3. \A x \in Attempts : Left(x)' => x # a /\ Left(x)
  BY <1>2 DEF Left
<1>4. GoesOn
  BY <1>1, <1>2 DEF GoesOn, Left
<1>5. VerifiersKept'
  BY <1>1, <1>2, <1>3, <1>4, KeptLast DEF VerifiersKept
<1>6. CodesFit' /\ SpentVerifiersGo'
  BY <1>1, <1>2 DEF CauseInv, CodesFit, SpentVerifiersGo, SignsIn, Spends
<1> QED BY <1>1, <1>4, <1>5, <1>6, CausesElsewhere

LEMMA CauseLeave ==
    ASSUME CauseInv, IInv', NEW a \in Attempts, LeaveForGitHub(a)
    PROVE  CauseInv'
<1>1. /\ stage[a] = "redirected" /\ stage' = [stage EXCEPT ![a] = "at GitHub"]
      /\ cookie' = [cookie EXCEPT ![home[a]] = a]
      /\ UNCHANGED <<env, home, code, session, callback, renewal, expired>>
  BY DEF LeaveForGitHub
<1>2. /\ home[a] \in Browsers /\ stage'[a] = "at GitHub"
      /\ \A x \in Attempts \ {a} : stage'[x] = stage[x]
  BY <1>1 DEF CauseInv, IInv, TypeOK, AttemptsFit
<1>3. GoesOn
  BY <1>1, <1>2 DEF GoesOn, Left
<1>4. VerifiersKept'
  <2> SUFFICES ASSUME NEW x \in Attempts, Left(x)'
               PROVE  (cookie[home[x]] = x \/ Disturbed(x, home[x], Openings))'
    BY DEF VerifiersKept
  <2>1. CASE x = a
    BY <1>1, <1>2, <2>1 DEF CauseInv, IInv, TypeOK
  <2>2. CASE x # a /\ home[x] = home[a]
    BY <1>1, <1>2, <2>2 DEF Disturbed, Left
  <2>3. CASE x # a /\ home[x] # home[a]
    <3>1. Left(x) /\ home[x] \in Browsers
      BY <1>2, <2>3 DEF Left, CauseInv, IInv, AttemptsFit
    <3>2. cookie'[home[x]] = cookie[home[x]]
      BY <1>1, <2>3, <3>1 DEF CauseInv, IInv, TypeOK
    <3> QED BY <1>3, <3>1, <3>2, KeptLast
  <2> QED BY <2>1, <2>2, <2>3
<1>5. CodesFit'
  BY <1>1, <1>2 DEF CauseInv, CodesFit, Spends
<1>6. SpentVerifiersGo'
  <2> SUFFICES ASSUME NEW b \in Browsers, NEW n \in Openings, SignsIn(n, b),
                      cookie'[b] = callback[n].attempt
               PROVE  ~callback[n].arrived
    BY <1>1 DEF SpentVerifiersGo, SignsIn
  <2>1. callback[n].attempt # a
    BY <1>1 DEF SignsIn, CauseInv, RequestsFit, BroughtBy
  <2>2. cookie[b] = callback[n].attempt
    BY <1>1, <2>1 DEF CauseInv, IInv, TypeOK
  <2> QED BY <2>2 DEF CauseInv, SpentVerifiersGo
<1> QED BY <1>1, <1>3, <1>4, <1>5, <1>6, CausesElsewhere

LEMMA CauseGitHub ==
    ASSUME CauseInv, IInv', NEW a \in Attempts, GitHubReturns(a)
    PROVE  CauseInv'
<1>1. /\ stage[a] = "at GitHub"
      /\ \/ stage' = [stage EXCEPT ![a] = "granted"] /\ code' = [code EXCEPT ![a] = "fresh"]
         \/ stage' = [stage EXCEPT ![a] = "denied"] /\ UNCHANGED code
      /\ UNCHANGED <<env, home, cookie, session, callback, renewal, expired>>
  BY DEF GitHubReturns
<1>2. /\ \A x \in Attempts \ {a} : stage'[x] = stage[x] /\ code'[x] = code[x]
      /\ \/ stage'[a] = "granted" /\ code'[a] = "fresh"
         \/ stage'[a] = "denied" /\ code'[a] = code[a]
  BY <1>1 DEF CauseInv, IInv, TypeOK
<1>3. code[a] = None
  BY <1>1 DEF CauseInv, IInv, AttemptsFit
<1>4. GoesOn /\ \A x \in Attempts : Left(x)' => Left(x)
  BY <1>1, <1>2 DEF GoesOn, Left
<1>5. VerifiersKept'
  BY <1>1, <1>4, KeptLast DEF VerifiersKept
<1>6. CodesFit'
  BY <1>1, <1>2, <1>3, SignInAssumption DEF CauseInv, CodesFit, Spends
<1>7. SpentVerifiersGo'
  BY <1>1 DEF CauseInv, SpentVerifiersGo, SignsIn
<1> QED BY <1>1, <1>4, <1>5, <1>6, <1>7, CausesElsewhere

\* Request n is answered.
LEMMA CauseReply ==
    ASSUME CauseInv, IInv', NEW n \in Openings, Pending(n), NEW broken \in BOOLEAN,
           NEW outcome \in {"unconfigured", "oauth_failed", "signed_in"},
           Reply(n, outcome, broken),
           \/ UNCHANGED code
           \/ /\ Exchanges(callback[n])
              /\ code' = [code EXCEPT ![callback[n].attempt] = "spent"],
           outcome = "oauth_failed" =>
              broken \/ ~ParseOAuthCallback(callback[n]) \/ ~Exchanges(callback[n]),
           UNCHANGED <<env, home, stage, cookie, session, renewal, expired>>
    PROVE  CauseInv'
<1>1. PICK c : c = callback[n]
  OBVIOUS
<1>2. c \in Callback /\ c # None /\ c.outcome = "pending" /\ BroughtBy(n, c) /\ ~c.arrived
  BY <1>1 DEF CauseInv, IInv, TypeOK, Pending, RequestsFit, BroughtBy
<1>3. \A m \in Openings \ {n} : callback'[m] = callback[m]
  BY DEF CauseInv, IInv, TypeOK, Reply
<1>4. PICK d : d = callback'[n]
  OBVIOUS
<1>5. /\ d.attempt = c.attempt /\ d.browser = c.browser /\ d.verifier = c.verifier
      /\ d.outcome = outcome /\ d.broken = broken /\ d.arrived = c.arrived
  BY <1>1, <1>2, <1>4 DEF CauseInv, IInv, TypeOK, Reply, Callback
<1>6. d # None /\ d \in Callback
  <2>1. d = [c EXCEPT !.outcome = outcome, !.broken = broken]
    BY <1>1, <1>4 DEF CauseInv, IInv, TypeOK, Reply
  <2>2. d \in Callback
    BY <1>2, <2>1 DEF Callback
  <2> QED BY <2>2, NoneAssumption
<1>7. GoesOn
  BY <1>1, <1>3, <1>4, <1>5, <1>6 DEF GoesOn, Left
<1>8. VerifiersKept'
  BY <1>7, KeptLast DEF VerifiersKept, Left
<1>9. \A m \in Openings : \A x : Spends(m, x) => Spends(m, x)'
  BY <1>1, <1>2, <1>3 DEF Spends
<1>10. CodesFit'
  <2>1. c.attempt \in Attempts
    BY <1>2 DEF Callback
  <2>2. CASE UNCHANGED code
    BY <1>9, <2>2 DEF CauseInv, CodesFit
  <2>3. CASE Exchanges(c) /\ code' = [code EXCEPT ![c.attempt] = "spent"]
    <3>1. Spends(n, c.attempt)'
      BY <1>1, <1>4, <1>5, <1>6, <2>3 DEF Spends, Exchanges
    <3>2. /\ code'[c.attempt] = "spent"
          /\ \A x \in Attempts \ {c.attempt} : code'[x] = code[x]
      BY <2>1, <2>3 DEF CauseInv, IInv, TypeOK
    <3>3. \A x \in Attempts \ {c.attempt} :
             code[x] = "spent" => \E m \in Openings : Spends(m, x)'
      BY <1>9 DEF CauseInv, CodesFit
    <3>4. \A x \in Attempts : code'[x] = "spent" => \E m \in Openings : Spends(m, x)'
      BY <3>1, <3>2, <3>3
    <3>5. \A x \in Attempts : stage'[x] = "granted" => code'[x] # None
      BY <3>2, SignInAssumption DEF CauseInv, CodesFit
    <3> QED BY <3>4, <3>5 DEF CodesFit
  <2> QED BY <1>1, <2>2, <2>3
<1>11. RequestsFit'
  <2> SUFFICES ASSUME NEW m \in Openings, callback'[m] # None
               PROVE  BroughtBy(m, callback[m])'
    BY DEF RequestsFit
  <2>1. CASE m = n
    <3>1. BroughtBy(n, c)'
      BY <1>2, <1>7, CausesLast DEF CauseInv
    <3> QED BY <1>2, <1>4, <1>5, <2>1, <3>1 DEF BroughtBy
  <2>2. CASE m # n
    <3>1. PICK e : e = callback[m]
      OBVIOUS
    <3>2. e \in Callback /\ BroughtBy(m, e) /\ e = callback'[m]
      BY <1>3, <2>2, <3>1 DEF CauseInv, RequestsFit, IInv, TypeOK
    <3>3. BroughtBy(m, e)'
      BY <1>7, <3>2, CausesLast DEF CauseInv
    <3> QED BY <3>2, <3>3 DEF BroughtBy
  <2> QED BY <2>1, <2>2
<1>12. outcome = "oauth_failed" => Excused(n, d)
  <2> SUFFICES ASSUME outcome = "oauth_failed", ~d.broken, d.browser = home[c.attempt],
                      stage[c.attempt] = "granted"
               PROVE  Excused(n, d)
    BY <1>2, <1>5 DEF Excused, BroughtBy
  <2>1. c.attempt \in Attempts
    BY <1>2 DEF Callback
  <2>2. CASE Disturbed(c.attempt, c.browser, Openings \ {n})
    BY <1>5, <2>2 DEF Disturbed, Excused, Left
  <2>3. CASE c.verifier = c.attempt
    <3>0. ~ParseOAuthCallback(c) \/ ~Exchanges(c)
      BY <1>1, <1>5
    <3>1. code[c.attempt] = "spent"
      <4>1. ParseOAuthCallback(c)
        BY <2>1, <2>3, SignInAssumption DEF ParseOAuthCallback
      <4>2. code[c.attempt] # "fresh"
        BY <2>3, <3>0, <4>1 DEF Exchanges
      <4>3. code[c.attempt] # None
        BY <2>1 DEF CauseInv, CodesFit
      <4> QED BY <2>1, <4>2, <4>3 DEF CauseInv, IInv, TypeOK
    <3>2. PICK m \in Openings : Spends(m, c.attempt)
      BY <2>1, <3>1 DEF CauseInv, CodesFit
    <3>3. m # n /\ callback[m] # None
      BY <1>1, <1>2, <3>2 DEF Spends
    <3>4. callback[m].browser = home[c.attempt]
      BY <2>1, <3>2, SignInAssumption
         DEF Spends, CauseInv, IInv, CallbacksFit, CallbackFits, BegunIn
    <3> QED BY <3>3, <3>4 DEF Excused
  <2> QED BY <1>2, <1>5, <2>2, <2>3 DEF BroughtBy
<1>13. LoneAttemptSucceeds'
  <2> SUFFICES ASSUME NEW m \in Openings, callback'[m] # None,
                      callback'[m].outcome = "oauth_failed"
               PROVE  Excused(m, callback[m])'
    BY DEF LoneAttemptSucceeds, Excused
  <2>1. PICK e : e = callback'[m]
    OBVIOUS
  <2>2. e \in Callback /\ Excused(m, e) /\ BroughtBy(m, e)
    <3>1. CASE m = n
      <4>1. e = d /\ outcome = "oauth_failed"
        BY <1>4, <1>5, <2>1, <3>1
      <4>2. BroughtBy(n, d)
        BY <1>2, <1>5, <4>1 DEF BroughtBy
      <4> QED BY <1>6, <1>12, <3>1, <4>1, <4>2
    <3>2. CASE m # n
      <4>1. e = callback[m]
        BY <1>3, <2>1, <3>2
      <4>2. e \in Callback /\ BroughtBy(m, e)
        BY <2>1, <4>1 DEF CauseInv, RequestsFit, IInv, TypeOK
      <4>3. Excused(m, e)
        BY <2>1, <4>1 DEF CauseInv, LoneAttemptSucceeds, Excused
      <4> QED BY <4>2, <4>3
    <3> QED BY <3>1, <3>2
  <2>3. Excused(m, e)'
    BY <1>7, <2>2, CausesLast DEF CauseInv
  <2> QED BY <2>1, <2>3 DEF Excused
<1>14. SpentVerifiersGo'
  BY <1>2, <1>3, <1>4, <1>5 DEF CauseInv, SpentVerifiersGo, SignsIn
<1> QED BY <1>8, <1>10, <1>11, <1>13, <1>14 DEF CauseInv

LEMMA CauseOpen ==
    ASSUME CauseInv, IInv', NEW a \in Attempts, NEW b \in Browsers, NEW n \in Openings,
           OpenCallback(a, b, n)
    PROVE  CauseInv'
<1>1. PICK c : c = [attempt |-> a, browser |-> b, verifier |-> cookie[b],
                    outcome |-> "pending", arrived |-> FALSE, broken |-> FALSE]
  OBVIOUS
<1>2. /\ stage[a] \in {"granted", "denied"} /\ callback[n] = None
      /\ callback' = [callback EXCEPT ![n] = c]
      /\ UNCHANGED <<env, home, stage, code, cookie, session, renewal, expired>>
  BY <1>1 DEF OpenCallback, SentCookie
<1>3. /\ c.attempt = a /\ c.browser = b /\ c.verifier = cookie[b]
      /\ c.outcome = "pending" /\ ~c.arrived
  BY <1>1
<1>4. c \in Callback /\ c # None
  <2>1. cookie[b] \in Attempts \cup {None}
    BY DEF CauseInv, IInv, TypeOK
  <2>2. c \in Callback
    BY <1>1, <2>1 DEF Callback
  <2> QED BY <2>2, NoneAssumption
<1>5. callback'[n] = c /\ \A m \in Openings \ {n} : callback'[m] = callback[m]
  BY <1>2 DEF CauseInv, IInv, TypeOK
<1>6. GoesOn
  BY <1>2, <1>5 DEF GoesOn, Left
<1>7. VerifiersKept'
  BY <1>2, <1>6, KeptLast DEF VerifiersKept, Left
<1>8. CodesFit'
  BY <1>2, <1>5 DEF CauseInv, CodesFit, Spends
<1>9. BroughtBy(n, c)'
  <2> SUFFICES ASSUME b = home[a], cookie[b] # a
               PROVE  Disturbed(a, b, Openings \ {n})'
    BY <1>2, <1>3 DEF BroughtBy
  <2>1. Disturbed(a, b, Openings)
    BY <1>2 DEF CauseInv, VerifiersKept, Left
  <2>2. Disturbed(a, b, Openings \ {n})
    BY <1>2, <2>1 DEF Disturbed
  <2>3. Openings \ {n} \subseteq Openings
    OBVIOUS
  <2> QED BY <1>6, <2>2, <2>3, CausesLast DEF CauseInv
<1>10. ASSUME NEW m \in Openings \ {n}, callback[m] # None
       PROVE  BroughtBy(m, callback[m])' /\ (Excused(m, callback[m]) => Excused(m, callback[m])')
  <2>1. PICK e : e = callback[m]
    OBVIOUS
  <2>2. e \in Callback /\ BroughtBy(m, e) /\ callback'[m] = e
    BY <1>5, <1>10, <2>1 DEF CauseInv, RequestsFit, IInv, TypeOK
  <2>3. BroughtBy(m, e)' /\ (Excused(m, e) => Excused(m, e)')
    BY <1>6, <2>2, CausesLast DEF CauseInv
  <2> QED BY <2>1, <2>2, <2>3 DEF BroughtBy, Excused
<1>11. RequestsFit'
  BY <1>5, <1>9, <1>10 DEF RequestsFit, BroughtBy
<1>12. LoneAttemptSucceeds'
  <2> SUFFICES ASSUME NEW m \in Openings, callback'[m] # None,
                      callback'[m].outcome = "oauth_failed"
               PROVE  Excused(m, callback[m])'
    BY DEF LoneAttemptSucceeds, Excused
  <2>1. m # n /\ callback[m] # None /\ callback[m].outcome = "oauth_failed"
    BY <1>3, <1>5
  <2>2. Excused(m, callback[m])
    BY <2>1 DEF CauseInv, LoneAttemptSucceeds, Excused
  <2> QED BY <1>10, <2>1, <2>2
<1>13. SpentVerifiersGo'
  BY <1>2, <1>3, <1>5 DEF CauseInv, SpentVerifiersGo, SignsIn
<1> QED BY <1>7, <1>8, <1>11, <1>12, <1>13 DEF CauseInv

LEMMA CauseArrive ==
    ASSUME CauseInv, IInv', NEW n \in Openings, CallbackArrives(n)
    PROVE  CauseInv'
<1>1. PICK c : c = callback[n]
  OBVIOUS
<1>2. /\ c # None /\ c.outcome # "pending" /\ ~c.arrived
      /\ callback' = [callback EXCEPT ![n].arrived = TRUE]
      /\ cookie' = IF c.outcome # "unconfigured"
                      THEN [cookie EXCEPT ![c.browser] = None] ELSE cookie
      /\ UNCHANGED <<env, home, stage, code, renewal, expired>>
  BY <1>1 DEF CallbackArrives, ClearsCookie
<1>3. c \in Callback /\ BroughtBy(n, c)
  BY <1>1, <1>2 DEF CauseInv, RequestsFit, IInv, TypeOK
<1>4. PICK d : d = callback'[n]
  OBVIOUS
<1>5. d = [c EXCEPT !.arrived = TRUE] /\ \A m \in Openings \ {n} : callback'[m] = callback[m]
  BY <1>1, <1>2, <1>4 DEF CauseInv, IInv, TypeOK
<1>6. /\ d.attempt = c.attempt /\ d.browser = c.browser /\ d.verifier = c.verifier
      /\ d.outcome = c.outcome /\ d.broken = c.broken
  BY <1>3, <1>5 DEF Callback
<1>7. d \in Callback /\ d # None
  <2>1. d \in Callback
    BY <1>3, <1>5 DEF Callback
  <2> QED BY <2>1, NoneAssumption
<1>8. GoesOn
  BY <1>1, <1>2, <1>4, <1>5, <1>6, <1>7 DEF GoesOn, Left
<1>9. VerifiersKept'
  <2> SUFFICES ASSUME NEW x \in Attempts, Left(x)'
               PROVE  (cookie[home[x]] = x \/ Disturbed(x, home[x], Openings))'
    BY DEF VerifiersKept
  <2>1. Left(x) /\ home[x] \in Browsers
    BY <1>2 DEF Left, CauseInv, IInv, AttemptsFit
  <2>2. CASE home[x] = c.browser
    BY <1>2, <1>4, <1>6, <1>7, <2>2 DEF Disturbed
  <2>3. CASE home[x] # c.browser
    <3>1. cookie'[home[x]] = cookie[home[x]]
      BY <1>2, <2>1, <2>3 DEF CauseInv, IInv, TypeOK
    <3> QED BY <1>8, <2>1, <3>1, KeptLast
  <2> QED BY <2>2, <2>3
<1>10. CodesFit'
  <2>1. \A x : Spends(n, x) => Spends(n, x)'
    BY <1>1, <1>4, <1>6, <1>7 DEF Spends
  <2>2. \A m \in Openings \ {n} : \A x : Spends(m, x) => Spends(m, x)'
    BY <1>5 DEF Spends
  <2>3. \A x : (\E m \in Openings : Spends(m, x)) => \E m \in Openings : Spends(m, x)'
    BY <2>1, <2>2
  <2> QED BY <1>2, <2>3 DEF CauseInv, CodesFit
<1>11. ASSUME NEW m \in Openings, callback'[m] # None
       PROVE  /\ BroughtBy(m, callback[m])'
              /\ callback'[m].outcome = "oauth_failed" => Excused(m, callback[m])'
  <2>1. PICK e : e = callback[m]
    OBVIOUS
  <2>2. PICK f : f = callback'[m]
    OBVIOUS
  <2>3. /\ f.attempt = e.attempt /\ f.browser = e.browser /\ f.verifier = e.verifier
        /\ f.outcome = e.outcome /\ f.broken = e.broken /\ e # None
        /\ f = e \/ e.outcome # "pending"
    BY <1>1, <1>2, <1>4, <1>5, <1>6, <1>11, <2>1, <2>2
  <2>4. e \in Callback /\ BroughtBy(m, e)
    BY <2>1, <2>3 DEF CauseInv, RequestsFit, IInv, TypeOK
  <2>5. e.outcome = "oauth_failed" => Excused(m, e)
    BY <2>1, <2>3 DEF CauseInv, LoneAttemptSucceeds, Excused
  <2>6. BroughtBy(m, e)' /\ (Excused(m, e) => Excused(m, e)')
    BY <1>8, <2>4, CausesLast DEF CauseInv
  <2>7. BroughtBy(m, f)'
    BY <2>3, <2>6 DEF BroughtBy
  <2>8. f.outcome = "oauth_failed" => Excused(m, f)'
    BY <2>3, <2>5, <2>6 DEF Excused
  <2> QED BY <2>2, <2>7, <2>8 DEF BroughtBy, Excused
<1>12. RequestsFit' /\ LoneAttemptSucceeds'
  BY <1>11 DEF RequestsFit, LoneAttemptSucceeds, Excused
<1>13. SpentVerifiersGo'
  <2> SUFFICES ASSUME NEW b \in Browsers, NEW m \in Openings, SignsIn(m, b)',
                      cookie'[b] = callback'[m].attempt
               PROVE  ~callback'[m].arrived
    BY DEF SpentVerifiersGo
  <2>1. callback'[m].attempt \in Attempts
    BY DEF SignsIn, IInv, TypeOK, Callback
  <2>2. CASE m = n
    <3>1. c.outcome = "signed_in" /\ c.browser = b
      BY <1>4, <1>6, <2>2 DEF SignsIn
    <3>2. cookie'[b] = None
      BY <1>2, <3>1 DEF CauseInv, IInv, TypeOK
    <3> QED BY <2>1, <3>2, SignInAssumption
  <2>3. CASE m # n
    <3>1. callback'[m] = callback[m] /\ SignsIn(m, b)
      BY <1>5, <2>3 DEF SignsIn
    <3>2. cookie'[b] \in {cookie[b], None}
      BY <1>2 DEF CauseInv, IInv, TypeOK
    <3> QED BY <2>1, <3>1, <3>2, SignInAssumption DEF CauseInv, SpentVerifiersGo
  <2> QED BY <2>2, <2>3
<1> QED BY <1>9, <1>10, <1>12, <1>13 DEF CauseInv

LEMMA CauseExpires ==
    ASSUME CauseInv, IInv', NEW b \in Browsers, CookieExpires(b)
    PROVE  CauseInv'
<1>1. /\ cookie' = [cookie EXCEPT ![b] = None] /\ expired' = expired \cup {b}
      /\ UNCHANGED <<env, home, stage, code, session, callback, renewal>>
  BY DEF CookieExpires
<1>2. GoesOn
  BY <1>1 DEF GoesOn, Left
<1>3. VerifiersKept'
  <2> SUFFICES ASSUME NEW x \in Attempts, Left(x)'
               PROVE  (cookie[home[x]] = x \/ Disturbed(x, home[x], Openings))'
    BY DEF VerifiersKept
  <2>1. Left(x) /\ home[x] \in Browsers
    BY <1>1 DEF Left, CauseInv, IInv, AttemptsFit
  <2>2. CASE home[x] = b
    BY <1>1, <2>2 DEF Disturbed
  <2>3. CASE home[x] # b
    <3>1. cookie'[home[x]] = cookie[home[x]]
      BY <1>1, <2>1, <2>3 DEF CauseInv, IInv, TypeOK
    <3> QED BY <1>2, <2>1, <3>1, KeptLast
  <2> QED BY <2>2, <2>3
<1>4. CodesFit'
  BY <1>1 DEF CauseInv, CodesFit, Spends
<1>5. SpentVerifiersGo'
  <2> SUFFICES ASSUME NEW x \in Browsers, NEW m \in Openings, SignsIn(m, x),
                      cookie'[x] = callback[m].attempt
               PROVE  ~callback[m].arrived
    BY <1>1 DEF SpentVerifiersGo, SignsIn
  <2>1. callback[m].attempt \in Attempts
    BY DEF SignsIn, CauseInv, IInv, TypeOK, Callback
  <2>2. cookie[x] = callback[m].attempt
    BY <1>1, <2>1, SignInAssumption DEF CauseInv, IInv, TypeOK
  <2> QED BY <2>2 DEF CauseInv, SpentVerifiersGo
<1> QED BY <1>1, <1>2, <1>3, <1>4, <1>5, CausesElsewhere

LEMMA CauseOther ==
    ASSUME CauseInv, IInv', UNCHANGED <<home, stage, code, cookie, callback, expired>>
    PROVE  CauseInv'
<1>1. GoesOn
  BY DEF GoesOn, Left
<1>2. VerifiersKept'
  BY <1>1, KeptLast DEF VerifiersKept, Left
<1>3. CodesFit' /\ SpentVerifiersGo'
  BY DEF CauseInv, CodesFit, Spends, SpentVerifiersGo, SignsIn
<1> QED BY <1>1, <1>2, <1>3, CausesElsewhere

LEMMA CauseServer ==
    ASSUME CauseInv, IInv', NEW n \in Openings,
           NotConfigured(n) \/ RefuseCallback(n) \/ ExchangeOAuthCode(n)
    PROVE  CauseInv'
<1>1. CASE NotConfigured(n)
  BY <1>1, CauseReply DEF NotConfigured
<1>2. CASE RefuseCallback(n)
  BY <1>2, CauseReply DEF RefuseCallback
<1>3. CASE ExchangeOAuthCode(n)
  <2>1. Pending(n) /\ UNCHANGED <<env, home, stage, cookie, session, renewal, expired>>
    BY <1>3 DEF ExchangeOAuthCode
  <2>2. code = [code EXCEPT ![callback[n].attempt] = @]
    BY DEF CauseInv, IInv, TypeOK
  <2>3. CASE /\ Exchanges(callback[n]) /\ Reply(n, "signed_in", FALSE)
             /\ code' = [code EXCEPT ![callback[n].attempt] = "spent"]
    BY <2>1, <2>3, CauseReply
  <2>4. CASE ~Exchanges(callback[n]) /\ Reply(n, "oauth_failed", FALSE) /\ UNCHANGED code
    BY <2>1, <2>4, CauseReply
  <2>5. CASE /\ Reply(n, "oauth_failed", TRUE)
             /\ code' = [code EXCEPT ![callback[n].attempt] =
                           IF Exchanges(callback[n]) THEN "spent" ELSE @]
    <3>1. CASE Exchanges(callback[n])
      BY <2>1, <2>5, <3>1, CauseReply
    <3>2. CASE ~Exchanges(callback[n])
      <4>1. code' = code
        BY <2>2, <2>5, <3>2
      <4> QED BY <2>1, <2>5, <4>1, CauseReply
    <3> QED BY <3>1, <3>2
  <2>6. CASE Reply(n, "oauth_failed", TRUE) /\ UNCHANGED code
    BY <2>1, <2>6, CauseReply
  <2> QED BY <1>3, <2>3, <2>4, <2>5, <2>6 DEF ExchangeOAuthCode
<1> QED BY <1>1, <1>2, <1>3

LEMMA CauseStep == CauseInv /\ [Next]_vars => CauseInv'
<1> SUFFICES ASSUME CauseInv, [Next]_vars PROVE CauseInv'
  OBVIOUS
<1>1. IInv'
  BY StepInv DEF CauseInv
<1>2. CASE ServerSteps
  BY <1>1, <1>2, CauseServer DEF ServerSteps
<1>3. CASE Redeploy
  BY <1>1, <1>3, CauseOther DEF Redeploy
<1>4. ASSUME NEW b \in Browsers, NEW n \in Renewals, AskRenewal(b, n) PROVE CauseInv'
  BY <1>1, <1>4, CauseOther DEF AskRenewal
<1>5. ASSUME NEW n \in Renewals, RenewalArrives(n) PROVE CauseInv'
  BY <1>1, <1>5, CauseOther DEF RenewalArrives
<1>6. ASSUME NEW b \in Browsers, SignOut(b) PROVE CauseInv'
  BY <1>1, <1>6, CauseOther DEF SignOut
<1>7. CASE UNCHANGED vars
  BY <1>1, <1>7, CauseOther DEF vars
<1> QED BY <1>1, <1>2, <1>3, <1>4, <1>5, <1>6, <1>7, CauseSignIn, CauseLeave, CauseGitHub,
           CauseOpen, CauseArrive, CauseExpires DEF Next

\* Whatever takes a verifier from its cookie, or spends a code, leaves a trace:
\* the invariant behind the next two theorems holds in every reachable state.
THEOREM CausesKnown == Spec => []CauseInv
BY CauseInit, CauseStep, PTL DEF Spec

\* Whoever makes one attempt in a browser, opens its callback once and there,
\* in time, and meets no failure of the service is never told that it failed
\* (api/auth/callback/route.ts).
THEOREM LoneAttempts == Spec => []LoneAttemptSucceeds
<1>1. CauseInv => LoneAttemptSucceeds
  BY DEF CauseInv
<1> QED BY <1>1, CausesKnown, PTL

\* A verifier whose code was exchanged is gone from the cookie once the answer
\* of that exchange is there.
THEOREM VerifiersGo == Spec => []SpentVerifiersGo
<1>1. CauseInv => SpentVerifiersGo
  BY DEF CauseInv
<1> QED BY <1>1, CausesKnown, PTL
=============================================================================
