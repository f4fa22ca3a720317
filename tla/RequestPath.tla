----------------------------- MODULE RequestPath -----------------------------
(***************************************************************************)
(* One request to verify or to inspect, from the HTTP message to the       *)
(* answer: the web route (message, body, settings, call of the hosted      *)
(* function with the shared secret), the hosted function (method, secret,  *)
(* message, body, RPC endpoint, SDK, receipt), the route's look at the     *)
(* reply, the page, and the public receipt.  Hosted functions are also     *)
(* called directly.  Meanwhile the operator replaces settings one by one,  *)
(* and the network and the database fail.                                  *)
(***************************************************************************)
EXTENDS VerificationPath, InspectionPath, HostedConfig, WebConfig

CONSTANTS
    Scenarios,   \* requests with the settings they meet
    Updates,     \* settings the operator may write: [place, key, value]
    MaxUpdates   \* bound: settings written

\* A message is as it should be, or has one flaw.
Flaws == {"none", "preflight", "method", "media type", "declared length",
          "streamed length", "syntax"}

InspectBodies == [signature: Texts(Signatures), cluster: Clusters \cup {"unknown"},
                  more: BOOLEAN]

Requests ==
    [operation: {"verify"}, to: {"web", "hosted"}, flaw: Flaws, trusted: BOOLEAN,
     body: VerifyBodies(Clusters)] \cup
    [operation: {"inspect"}, to: {"web", "hosted"}, flaw: Flaws, trusted: BOOLEAN,
     body: InspectBodies]

WebEnvironments ==
    [baseUrl: OriginValues, anonKey: KeyValues, appUrl: OriginValues,
     production: BOOLEAN, secret: SecretValues]

Settings ==
    [place: {"web"}, key: {"secret"}, value: SecretValues] \cup
    [place: {"web"}, key: {"baseUrl", "appUrl"}, value: OriginValues] \cup
    [place: {"web"}, key: {"anonKey"}, value: KeyValues] \cup
    [place: {"hosted"}, key: {"secret"}, value: SecretValues \cup {"empty", "two lines"}] \cup
    [place: {"hosted"}, key: {"legacy"}, value: RpcValues] \cup
    [place: {"hosted"}, key: {"binding"}, value: {"unset", "unknown"} \cup Clusters]

ASSUME ScenariosAssumption ==
    /\ Scenarios \subseteq [web: WebEnvironments, hosted: HostedEnvironments,
                            request: Requests]
    /\ Updates \subseteq Settings /\ MaxUpdates \in Nat
    /\ Clusters \subseteq {"mainnet-beta", "devnet", "testnet"}

VARIABLES
    web,       \* the web server's environment
    hosted,    \* the hosted functions' environment
    request,   \* the request as its caller sent it
    supplied,  \* the secret in the header that reached the hosted function
    answering, \* the cluster that answers at the RPC endpoint that was chosen
    status,    \* the status of the caller's answer
    trouble,   \* history: what disturbed the request
    updates    \* settings written

requestVars == <<web, hosted, request, supplied, answering, status, trouble, updates>>
vars == <<stage, refused, input, result, row, requestVars>>

Init ==
    /\ PathInit
    /\ \E s \in Scenarios : web = s.web /\ hosted = s.hosted /\ request = s.request
    /\ supplied = None /\ answering = None /\ status = None
    /\ trouble = {} /\ updates = 0

-----------------------------------------------------------------------------
(* Handlers check one thing after the other; the first that fails decides. *)

FlawStatus(flaw) ==
    CASE flaw = "preflight" -> 204
      [] flaw = "method" -> 405
      [] flaw = "media type" -> 415
      [] flaw \in {"declared length", "streamed length"} -> 413
      [] OTHER -> 400

Check(holds, otherwise) == [holds |-> holds, status |-> otherwise]

FirstFailure(checks) ==
    LET k == SelectInSeq(checks, LAMBDA c : ~c.holds)
    IN IF k = 0 THEN None ELSE checks[k].status

\* A caller answered by its own request; nothing else moves.
Finish(code) ==
    /\ stage' = "answered" /\ status' = code
    /\ UNCHANGED <<refused, input, result, row, web, hosted, request, supplied,
                   answering, trouble, updates>>

-----------------------------------------------------------------------------
(* The web route.                                                          *)

ValidateBrowserInspectTransactionInput(r) ==
    /\ ~r.more /\ r.cluster # "unknown" /\ r.signature.core \in Signatures

WebValidates(r) ==
    IF r.operation = "verify" THEN ValidateBrowserVerifyEventInput(r.body)
    ELSE ValidateBrowserInspectTransactionInput(r.body)

\* Mutant: inspections are forwarded as they were typed.
MutForwarded(r) == IF r.operation = "verify" THEN BrowserInput(r.body) ELSE r.body

Forwarded(r) ==
    IF r.operation = "verify" THEN BrowserInput(r.body)
    ELSE [r.body EXCEPT !.signature = Trim(@)]

AdapterConfigured ==
    IsSet(web.anonKey) /\ HoldsSecret(web.secret) /\ ParsesAsServiceUrl(web.baseUrl)

WebChecks ==
    << Check(request.flaw = "none", FlawStatus(request.flaw)),
       Check(WebValidates(request), 400),
       Check(AdapterConfigured, 503) >>

SendToWeb ==
    stage = "start" /\ request.to = "web" /\ stage' = "web"
    /\ UNCHANGED <<refused, input, result, row, requestVars>>

WebRefuses == stage = "web" /\ FirstFailure(WebChecks) # None /\ Finish(FirstFailure(WebChecks))

WebForwards ==
    /\ stage = "web" /\ FirstFailure(WebChecks) = None
    /\ stage' = "hosted" /\ input' = Forwarded(request)
    /\ supplied' = HeaderValue(web.secret)
    /\ UNCHANGED <<refused, result, row, web, hosted, request, answering, status,
                   trouble, updates>>

IsAnswer(res) ==
    IF request.operation = "verify" THEN IsVerificationResult(res)
    ELSE IsTransactionInspection(res)

\* Whatever the hosted function answers but a result is one failure to the page.
AnswerOf(broken) ==
    IF ~broken /\ refused = None /\ IsAnswer(result) THEN 200 ELSE 502

WebAnswers ==
    stage = "replied" /\ request.to = "web" /\ Finish(AnswerOf(FALSE))

\* The hosted function is not reached, redirects, or its reply is lost.
NetworkFails ==
    /\ stage \in {"hosted", "replied"} /\ request.to = "web"
    /\ stage' = "answered" /\ status' = AnswerOf(TRUE)
    /\ trouble' = trouble \cup {"network"}
    /\ UNCHANGED <<refused, input, result, row, web, hosted, request, supplied,
                   answering, updates>>

-----------------------------------------------------------------------------
(* The hosted functions.                                                   *)

SendToHosted ==
    /\ stage = "start" /\ request.to = "hosted"
    /\ stage' = "hosted" /\ input' = request.body
    /\ supplied' = IF request.trusted THEN HeaderValue(hosted.secret) ELSE "none"
    /\ UNCHANGED <<refused, result, row, web, hosted, request, answering, status,
                   trouble, updates>>

\* The pattern takes every text of 64 to 88 base58 characters, and no blanks.
ValidateInspectTransactionInput(r) ==
    /\ ~r.more /\ r.cluster # "unknown"
    /\ r.signature.core \in Signatures \cup {"almost"} /\ ~r.signature.padded

\* The flaw of the message that arrives: the web server's call has none.
Flaw == IF request.to = "web" THEN "none" ELSE request.flaw

Secured ==
    << Check(Flaw \notin {"preflight", "method"}, FlawStatus(Flaw)),
       Check(HoldsSecret(hosted.secret), 500),
       Check(Authenticates(supplied, hosted), 401) >>

\* The endpoint of an unknown cluster is never looked up: the body is refused
\* before.
EndpointFound == input.cluster \in Clusters => AppliesServerRpcUrl(input.cluster, hosted)

\* verify-event reads its body without a look at its type and length.
VerifyChecks ==
    Secured \o
    << Check(Flaw # "syntax", 400),
       Check(ValidateVerifyEventInput(input), 400),
       Check(EndpointFound, 500) >>

InspectChecks ==
    Secured \o
    << Check(Flaw = "none", FlawStatus(Flaw)),
       Check(ValidateInspectTransactionInput(input), 400),
       Check(EndpointFound, 500) >>

HostedFailure ==
    FirstFailure(IF request.operation = "verify" THEN VerifyChecks ELSE InspectChecks)

HostedRefuses ==
    /\ stage = "hosted" /\ HostedFailure # None
    /\ Refuse("hosted", HostedFailure)
    /\ UNCHANGED requestVars

HostedAccepts ==
    /\ stage = "hosted" /\ HostedFailure = None
    /\ stage' = IF request.operation = "verify" THEN "verifying" ELSE "inspecting"
    /\ answering' = Answering(input.cluster, hosted)
    /\ UNCHANGED <<refused, input, result, row, web, hosted, request, supplied, status,
                   trouble, updates>>

Verify == VerifyEvent(answering) /\ UNCHANGED requestVars

\* inspectTransaction: nothing of the log, or the log of the transaction.
InspectsLog ==
    /\ stage = "inspecting"
    /\ \/ result' = InspectNothing(input, "RPC_UNAVAILABLE")
       \/ /\ Verifies(input, answering)
          /\ \/ \E reason \in {"TX_NOT_FOUND", "TX_NOT_FINALIZED", "METADATA_MISSING",
                               "LOGS_UNAVAILABLE"} : result' = InspectNothing(input, reason)
             \/ \E log \in Logs, failed \in BOOLEAN : \E read \in InspectLogs(log) :
                   result' = InspectTransaction(input, failed, log, read)
    /\ stage' = "replied"
    /\ UNCHANGED <<refused, input, row, requestVars>>

StoreReceipt == hosted.database /\ Persist /\ UNCHANGED requestVars

\* Without its settings, or when the database fails, the receipt is not stored
\* and verifyAndPersist throws.
StoreFails ==
    /\ stage = "persisting"
    /\ Refuse("database", 500)
    /\ trouble' = IF hosted.database THEN trouble \cup {"database"} ELSE trouble
    /\ UNCHANGED <<web, hosted, request, supplied, answering, status, updates>>

HostedAnswers ==
    /\ stage = "replied" /\ request.to = "hosted"
    /\ Finish(IF refused # None THEN refused.status ELSE 200)

-----------------------------------------------------------------------------
(* The page, and the receipt later.                                        *)

MatchesRequest ==
    IF request.operation = "verify" THEN ResultMatchesRequest(result, request.body)
    ELSE result.signature = Trim(request.body.signature) /\ result.cluster = request.body.cluster

PageShows ==
    /\ stage = "answered" /\ request.to = "web" /\ status = 200
    /\ stage' = IF MatchesRequest THEN "shown" ELSE "turned down"
    /\ UNCHANGED <<refused, input, result, row, requestVars>>

\* Somebody opens the receipt on its public page.
Reread ==
    /\ stage = "shown" /\ row # None
    /\ stage' = IF IsPublicReceipt(row) THEN "reread" ELSE "turned down"
    /\ UNCHANGED <<refused, input, result, row, requestVars>>

-----------------------------------------------------------------------------
(* The operator: settings change one at a time, and no request waits.      *)

\* configure-insforge-secret takes one line that is not empty; blanks pass.
UpdateSecret(u) ==
    /\ u.place = "hosted" /\ u.value \notin {"empty", "two lines"}
    /\ hosted' = [hosted EXCEPT ![u.key] = u.value]
    /\ UNCHANGED web

\* A new deployment of the web server has the new value.
DeployWeb(u) ==
    /\ u.place = "web" /\ web' = [web EXCEPT ![u.key] = u.value]
    /\ UNCHANGED hosted

Update ==
    /\ updates < MaxUpdates /\ updates' = updates + 1
    /\ \E u \in Updates : UpdateSecret(u) \/ DeployWeb(u)
    /\ trouble' = IF stage = "start" THEN trouble ELSE trouble \cup {"update"}
    /\ UNCHANGED <<stage, refused, input, result, row, request, supplied, answering, status>>

Next ==
    \/ SendToWeb \/ WebRefuses \/ WebForwards \/ WebAnswers \/ NetworkFails
    \/ SendToHosted \/ HostedRefuses \/ HostedAccepts \/ HostedAnswers
    \/ Verify \/ InspectsLog \/ StoreReceipt \/ StoreFails
    \/ PageShows \/ Reread \/ Update

Spec == Init /\ [][Next]_vars

-----------------------------------------------------------------------------
Statuses == {200, 204, 400, 401, 405, 413, 415, 500, 502, 503}

Refusals == [part: {"hosted", "record", "table", "read-back", "database"},
             status: Statuses \ {200, 502, 503}]

ReceiptIds ==
    {2} \X Clusters \X {"finalized"} \X Texts(Signatures) \X Texts(ProgramIds) \X
    {"anchor-log", "anchor-cpi"} \X Discriminators \X Event

VerificationResults ==
    [signature: Texts(Signatures), cluster: Clusters, program: Texts(ProgramIds),
     commitment: {"finalized"}, slot: {None, 0},
     verdict: {"verified", "rejected", "indeterminate"},
     reason: Reasons \cup NoLogReasons \cup {"CPI_EVENT_UNSUPPORTED", "INVALID_REQUEST"},
     event: Event \cup {NoEvent}, receipt: ReceiptIds \cup {None}]

Inspections ==
    [signature: Texts(Signatures), cluster: Clusters, log: LogRecords,
     reason: NoLogReasons \cup
             {"LOGS_INCOMPLETE", "NO_SUPPORTED_LOG_EVENT", "CANDIDATES_FOUND"},
     logsStatus: {"available", "incomplete", "unavailable"}, invoked: Nat,
     candidates: SUBSET Nat]

ASSUME NoneAssumption ==
    None \notin Int \cup {"none", "stripped"} \cup SecretValues \cup Clusters \cup
              VerifyBodies(Clusters) \cup InspectBodies \cup Refusals \cup ReceiptIds \cup
              VerificationResults \cup Inspections

TypeOK ==
    /\ stage \in {"start", "web", "hosted", "verifying", "inspecting", "persisting",
                  "replied", "answered", "shown", "reread", "turned down"}
    /\ refused \in Refusals \cup {None}
    /\ input = None <=> supplied = None
    /\ answering \in Clusters \cup {None}
    /\ status \in Statuses \cup {None}
    /\ result # None => /\ answering # None
                        /\ result \in IF request.operation = "verify"
                                      THEN VerificationResults ELSE Inspections
    /\ result # None /\ request.operation = "verify" =>
          (result.receipt = None <=> result.event = NoEvent)
    /\ row # None => result # None /\ result.receipt = row.receipt
    /\ trouble \subseteq {"network", "database", "update"}
    /\ updates \in 0..MaxUpdates

\* The hosted function would do the work of a request once its blanks are gone.
SoundRequest ==
    LET body == [request.body EXCEPT !.signature = Trim(@)]
    IN /\ request.flaw = "none" /\ BoundedString(body.signature)
       /\ IF request.operation = "verify"
            THEN ValidateVerifyEventInput(body) /\ BoundedString(body.program)
            ELSE ValidateInspectTransactionInput(body) /\ body.signature.core # "almost"

\* Everything the documents ask to be set is set as they ask, and the two
\* servers have the same secret.
SoundSettings ==
    /\ web.baseUrl \in {"https", "local http"} /\ web.anonKey = "key"
    /\ web.secret = hosted.secret /\ web.secret \in {"first", "second"}
    /\ hosted.database
    /\ "unusable" \notin {hosted.rpc[c] : c \in Clusters} \cup {hosted.legacy}
    /\ hosted.legacy # "unset" => hosted.binding \in Clusters

\* The route's validator turns an inspection down.
TurnedDown == result # None /\ request.operation = "inspect" /\ ~IsTransactionInspection(result)

\* The page's user is told to mend a request only if the request is at fault,
\* never for a setting, a rotation of the secret, or what another part refused;
\* and a sound request over sound settings is served, whatever cluster it is for
\* and whichever parts look at it, unless something failed or was replaced while
\* it was under way (or the route's validator turns down the inspection, see
\* InspectionLimitsAgree and CandidatesAreBase64).
SoundRequestsAreServed ==
    request.to = "web" /\ SoundRequest /\ status # None =>
        /\ status \notin 400..499
        /\ SoundSettings /\ trouble = {} => status = 200 \/ TurnedDown

\* Validators refuse requests, never results: nothing is spent on a request
\* that verifyEvent calls invalid, and once a verification has begun no later
\* part turns its result or its receipt down, whatever blanks and spellings the
\* request came with; and every variable keeps its type.
OwnWorkIsAccepted ==
    /\ TypeOK
    /\ request.operation = "verify" /\ result # None =>
          /\ result.reason # "INVALID_REQUEST"
          /\ refused # None => refused.part = "database"
          /\ status \in {None, 200} \/ trouble # {} \/ refused # None
          /\ stage # "turned down"

\* Whatever order the operator writes an endpoint and its binding in, and
\* whichever cluster an endpoint really serves, a conclusion about a cluster was
\* read from that cluster; in between there is none.
ConclusionsComeFromCluster ==
    result # None /\ result.reason # "RPC_UNAVAILABLE" => answering = request.body.cluster

OneSliceLines == \A k \in DOMAIN result.log.data : Len(result.log.data[k]) = 1

\* The reader's limits and the route's are numbers of two packages, and so are
\* atob and the pattern BASE64: whatever a transaction that logs Anchor events
\* logs of them, also at a limit and one beyond it, the page is answered, with
\* every event that has a discriminator or with none (docs 51, 58-60).  The
\* exception: a reading that ends at the 129th program has listed it before
\* counting, and the route answers 502.
InspectionLimitsAgree ==
    /\ request.operation = "inspect" /\ result # None /\ status # None
    /\ result.logsStatus # "unavailable" /\ trouble = {} /\ OneSliceLines
    => LET events == {k \in DOMAIN result.log.data : result.log.data[k][1] >= 8}
           within == /\ result.log.whole /\ result.log.lines <= 2048
                     /\ result.log.bytes <= 262144 /\ result.log.programs <= 128
                     /\ Cardinality(events) <= 128
       IN /\ status = IF request.to = "web" /\ result.invoked > 128 THEN 502 ELSE 200
          /\ result.candidates = IF within THEN events ELSE {}

\* docs/transaction-inspection.md 37: a candidate has base64 bytes, as the
\* route's validator understands base64.
CandidatesAreBase64 ==
    request.operation = "inspect" /\ result # None =>
        \A k \in result.candidates : IsBase64(result.log.data[k])
=============================================================================
