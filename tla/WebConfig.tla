------------------------------ MODULE WebConfig ------------------------------
(***************************************************************************)
(* How the web server reads its environment: the values are looked at anew *)
(* for every request, and a value that does not parse counts as missing.   *)
(* Used by the sign-in and by the routes that call hosted functions.       *)
(***************************************************************************)

\* What an environment variable that should hold an origin may hold: nothing,
\* blanks, an https origin, a plain http origin on this machine, a plain http
\* origin elsewhere, an https address that has more than an origin (path,
\* query, fragment or credentials), or no address at all.
OriginValues ==
    {"unset", "blank", "https", "local http", "http", "https with more", "no address"}

KeyValues == {"unset", "blank", "key"}

Environments ==
    [baseUrl: OriginValues, anonKey: KeyValues, appUrl: OriginValues,
     production: BOOLEAN]

IsSet(value) == value \notin {"unset", "blank"}

\* An origin the server will talk to or redirect to.
ParsesAsAppUrl(value) == value \in {"https", "local http"}

ParsesAsServiceUrl(value) == IsSet(value) /\ ParsesAsAppUrl(value)

\* Without an address of its own the application is at localhost, but not in
\* production.
AppUrl(env) == IF IsSet(env.appUrl) THEN env.appUrl ELSE "local http"

ParsesAsAuthConfig(env) ==
    /\ ParsesAsServiceUrl(env.baseUrl)
    /\ IsSet(env.anonKey)
    /\ IsSet(env.appUrl) \/ ~env.production
    /\ ParsesAsAppUrl(AppUrl(env))

\* Cookies are marked secure exactly when the application is at https.
SecureCookies(env) == AppUrl(env) = "https"
=============================================================================
