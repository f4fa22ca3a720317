-------------------------- MODULE RequestPathProofs --------------------------
(***************************************************************************)
(* What the caller of a request may count on, for all texts, settings,     *)
(* logs and updates.  The invariant follows the request: what reached the  *)
(* hosted function is what was sent, what is worked on was accepted, the   *)
(* result is one that verifyEvent or inspectTransaction has for it, and a  *)
(* status that tells of a failure names a cause.  Each validator further   *)
(* on is then shown to take what the part before it makes.                 *)
(***************************************************************************)
EXTENDS RequestPath, SequenceTheorems, FiniteSetTheorems, TLAPS

-----------------------------------------------------------------------------
(* The inductive invariant.                                                *)

\* The route refuses the request whatever the settings are.
AtFault == request.flaw # "none" \/ ~WebValidates(request)

\* No setting was written since the request left its caller.
Settled == "update" \notin trouble

\* What reaches the hosted function, from the route or from a caller.
Sent == IF request.to = "web" THEN Forwarded(request) ELSE request.body

Accepted(r) ==
    IF request.operation = "verify" THEN ValidateVerifyEventInput(r)
    ELSE ValidateInspectTransactionInput(r)

\* Environments stay of their kind, and nothing is ever turned down further on.
SettingsFit ==
    /\ web \in WebEnvironments /\ hosted \in HostedEnvironments /\ request \in Requests
    /\ trouble \subseteq {"network", "database", "update"} /\ updates \in 0..MaxUpdates
    /\ stage \in {"start", "web", "hosted", "verifying", "inspecting", "persisting",
                  "replied", "answered", "shown", "reread"}
    /\ stage = "web" => request.to = "web"

\* What reached the hosted function is what was sent, with the secret of the
\* web server or of the caller.
InputFits ==
    /\ stage \in {"start", "web"} => input = None
    /\ stage \notin {"start", "web", "answered"} => input # None
    /\ input = None => supplied = None /\ answering = None /\ refused = None
    /\ input # None =>
          /\ input = Sent /\ supplied \in SecretValues \cup {"none", "stripped"}
          /\ request.to = "web" =>
                /\ ~AtFault
                /\ Settled => AdapterConfigured /\ supplied = HeaderValue(web.secret)

\* Only what the hosted function accepts is worked on.
AcceptedFits ==
    /\ answering = None => result = None
    /\ answering # None => input # None /\ Accepted(input) /\ answering \in Clusters
    /\ stage = "hosted" => answering = None
    /\ stage \in {"verifying", "inspecting", "persisting"} => answering # None
    /\ stage \in {"verifying", "persisting"} => request.operation = "verify"
    /\ stage = "inspecting" => request.operation = "inspect"

Concluded(reason) == reason = "RPC_UNAVAILABLE" \/ answering = input.cluster

\* A result is one that verifyEvent has for the request that reached it.
VerdictFits(res) ==
    \E reason \in Reasons \cup NoLogReasons \cup {"CPI_EVENT_UNSUPPORTED"},
       event \in Locations \cup {NoEvent} :
          res = ResultOf(input, reason, event) /\ Concluded(reason)

\* The same of inspectTransaction.
InspectionFits(res) ==
    \/ \E reason \in NoLogReasons : res = InspectNothing(input, reason) /\ Concluded(reason)
    \/ /\ answering = input.cluster
       /\ \E log \in Logs, failed \in BOOLEAN : \E read \in InspectLogs(log) :
             res = InspectTransaction(input, failed, log, read)

ResultFits ==
    /\ result # None =>
          IF request.operation = "verify" THEN VerdictFits(result) ELSE InspectionFits(result)
    /\ stage \in {"hosted", "verifying", "inspecting"} => result = None /\ refused = None
    /\ stage = "persisting" => result # None /\ result.receipt # None /\ refused = None
    /\ stage = "replied" => result # None \/ refused # None

\* The hosted function refuses only what fails one of its checks, and the
\* database only verifications, when it is not set up or fails.
RefusalsFit ==
    refused # None =>
        /\ refused \in Refusals /\ refused.part \in {"hosted", "database"}
        /\ refused.part = "hosted" => result = None /\ (Settled => HostedFailure # None)
        /\ refused.part = "database" =>
              request.operation = "verify" /\ (trouble # {} \/ ~hosted.database)

\* Every status tells of a result, of a failure on the way, of a request at fault
\* or of missing settings.
StatusFits ==
    /\ status # None => stage \in {"answered", "shown", "reread"} /\ status \in Statuses
    /\ status # None /\ request.to = "hosted" => refused # None \/ status = 200
    /\ status # None /\ request.to = "web" =>
          \/ status = 200 /\ refused = None /\ result # None /\ IsAnswer(result)
          \/ /\ status = 502
             /\ \/ "network" \in trouble \/ refused # None
                \/ result # None /\ ~IsAnswer(result)
          \/ /\ input = None /\ status \notin {200, 502}
             /\ AtFault \/ (status = 503 /\ (Settled => ~AdapterConfigured))
    /\ stage = "shown" => result # None /\ status # None

\* A stored row is the record of the result, fit for its public page.
RowFits ==
    row # None => /\ request.operation = "verify" /\ result # None
                  /\ row = BuildReceiptRecord /\ IsPublicReceipt(row)

PathInv ==
    /\ SettingsFit /\ InputFits /\ AcceptedFits /\ ResultFits /\ RefusalsFit
    /\ StatusFits /\ RowFits

-----------------------------------------------------------------------------
(* Requests and what is made of them.                                      *)

LEMMA RequestParts ==
    ASSUME request \in Requests
    PROVE  /\ request.operation \in {"verify", "inspect"} /\ request.to \in {"web", "hosted"}
           /\ request.flaw \in Flaws /\ request.trusted \in BOOLEAN
           /\ request.operation = "verify" => request.body \in VerifyBodies(Clusters)
           /\ request.operation = "inspect" => request.body \in InspectBodies
BY DEF Requests

LEMMA TrimFits ==
    ASSUME NEW cores, NEW t \in Texts(cores)
    PROVE  /\ Trim(t) \in Texts(cores) /\ Trim(t).core = t.core /\ Trim(t).padded = FALSE
BY DEF Texts, Trim

LEMMA VerifyBodyParts ==
    ASSUME NEW r \in VerifyBodies(Clusters)
    PROVE  /\ r.signature \in Texts(Signatures) /\ r.program \in Texts(ProgramIds)
           /\ r.cluster \in Clusters \cup {"unknown"}
           /\ r.format \in {"anchor-log", "anchor-cpi", "unknown"}
           /\ r.discriminator \in Discriminators \cup {"upper case", "short"}
           /\ r.commitment \in {None, "finalized", "confirmed"} /\ r.rpcUrl \in BOOLEAN
BY DEF VerifyBodies

\* What the route forwards of a verification is trimmed, with the commitment set.
LEMMA BrowserInputFits ==
    ASSUME NEW r \in VerifyBodies(Clusters)
    PROVE  /\ BrowserInput(r) \in VerifyBodies(Clusters)
           /\ BrowserInput(r).signature = Trim(r.signature)
           /\ BrowserInput(r).program = Trim(r.program)
           /\ BrowserInput(r).cluster = r.cluster /\ BrowserInput(r).format = r.format
           /\ BrowserInput(r).discriminator = r.discriminator
           /\ BrowserInput(r).rpcUrl = r.rpcUrl /\ BrowserInput(r).commitment = "finalized"
<1>1. Trim(r.signature) \in Texts(Signatures) /\ Trim(r.program) \in Texts(ProgramIds)
  BY VerifyBodyParts, TrimFits
<1> QED BY <1>1 DEF VerifyBodies, BrowserInput

LEMMA InspectTrimFits ==
    ASSUME NEW r \in InspectBodies
    PROVE  LET q == [r EXCEPT !.signature = Trim(@)]
           IN /\ q \in InspectBodies /\ q.signature = Trim(r.signature)
              /\ q.cluster = r.cluster /\ q.more = r.more
<1>1. Trim(r.signature) \in Texts(Signatures)
  BY TrimFits DEF InspectBodies
<1> QED BY <1>1 DEF InspectBodies

\* What reaches the hosted function is a request again, about the same cluster;
\* from the web route its texts are trimmed.
LEMMA SentFits ==
    ASSUME request \in Requests
    PROVE  /\ request.operation = "verify" => Sent \in VerifyBodies(Clusters)
           /\ request.operation = "inspect" => Sent \in InspectBodies
           /\ Sent.cluster = request.body.cluster /\ Sent # None
           /\ request.to = "web" => Sent.signature = Trim(request.body.signature)
           /\ request.to = "web" /\ request.operation = "verify" =>
                 Sent.program = Trim(request.body.program)
<1>1. CASE request.operation = "verify"
  BY <1>1, RequestParts, BrowserInputFits, NoneAssumption DEF Sent, Forwarded
<1>2. CASE request.operation = "inspect"
  BY <1>2, RequestParts, InspectTrimFits, NoneAssumption DEF Sent, Forwarded
<1> QED BY <1>1, <1>2, RequestParts

-----------------------------------------------------------------------------
(* Checks.                                                                 *)

\* The first of a few checks that fails decides.
LEMMA FirstFailureFits ==
    ASSUME NEW n \in 0..6, NEW checks, Len(checks) = n,
           \A k \in 1..n : checks[k].holds \in BOOLEAN /\ checks[k].status # None
    PROVE  /\ FirstFailure(checks) = None <=> \A k \in 1..n : checks[k].holds
           /\ FirstFailure(checks) # None =>
                 \E k \in 1..n : ~checks[k].holds /\ FirstFailure(checks) = checks[k].status
<1> DEFINE I == {i \in 1..n : ~checks[i].holds}
<1>1. SelectInSeq(checks, LAMBDA c : ~c.holds) = IF I # {} THEN Min(I) ELSE 0
  BY DEF SelectInSeq
<1>2. ASSUME I # {} PROVE Min(I) \in I
  <2>1. \E i \in I : \A j \in I : i <= j
    <3>1. I \subseteq 1..6
      OBVIOUS
    <3> HIDE DEF I
    <3> QED
      BY <1>2, <3>1
  <2> QED BY <2>1 DEF Min
<1> HIDE DEF I
<1>3. CASE I = {}
  <2>1. \A k \in 1..n : checks[k].holds
    BY <1>3 DEF I
  <2>2. FirstFailure(checks) = None
    BY <1>1, <1>3 DEF FirstFailure
  <2> QED BY <2>1, <2>2
<1>4. CASE I # {}
  <2>1. PICK k : k = Min(I)
    OBVIOUS
  <2>2. k \in 1..n /\ ~checks[k].holds
    BY <1>2, <1>4, <2>1 DEF I
  <2>3. FirstFailure(checks) = checks[k].status
    BY <1>1, <1>4, <2>1, <2>2 DEF FirstFailure
  <2> QED BY <2>2, <2>3
<1> QED BY <1>3, <1>4

LEMMA FlawStatusFits ==
    ASSUME NEW flaw \in Flaws
    PROVE  FlawStatus(flaw) \in Statuses \ {200, 500, 502, 503}
<1>1. FlawStatus(flaw) \in {204, 405, 415, 413, 400}
  <2>1. flaw = "preflight" => FlawStatus(flaw) = 204
    BY DEF FlawStatus
  <2>2. flaw = "method" => FlawStatus(flaw) = 405
    BY DEF FlawStatus
  <2>3. flaw = "media type" => FlawStatus(flaw) = 415
    BY DEF FlawStatus
  <2>4. flaw \in {"declared length", "streamed length"} => FlawStatus(flaw) = 413
    BY DEF FlawStatus
  <2>5. flaw \in {"none", "syntax"} => FlawStatus(flaw) = 400
    BY DEF FlawStatus
  <2> QED BY <2>1, <2>2, <2>3, <2>4, <2>5 DEF Flaws
<1> QED BY <1>1 DEF Statuses

LEMMA StatusesAreNotNone == \A code \in Statuses : code # None
<1>1. Statuses \subseteq Int
  BY DEF Statuses
<1> QED BY <1>1, NoneAssumption

\* The route refuses what is at fault, and while its settings are missing.
LEMMA WebFailure ==
    ASSUME request \in Requests
    PROVE  /\ FirstFailure(WebChecks) = None <=> ~AtFault /\ AdapterConfigured
           /\ FirstFailure(WebChecks) # None =>
                 /\ FirstFailure(WebChecks) \in Statuses \ {200, 502}
                 /\ AtFault \/ (FirstFailure(WebChecks) = 503 /\ ~AdapterConfigured)
<1> DEFINE checks == WebChecks
<1>1. /\ Len(checks) = 3
      /\ checks[1] = Check(request.flaw = "none", FlawStatus(request.flaw))
      /\ checks[2] = Check(WebValidates(request), 400)
      /\ checks[3] = Check(AdapterConfigured, 503)
  BY DEF WebChecks
<1>2. /\ checks[1].status \in Statuses \ {200, 502}
      /\ checks[2].status \in Statuses \ {200, 502}
      /\ checks[3].status = 503 /\ checks[3].status \in Statuses \ {200, 502}
  BY <1>1, RequestParts, FlawStatusFits DEF Statuses, Check
<1>3. /\ checks[1].holds \in BOOLEAN /\ checks[2].holds \in BOOLEAN
      /\ checks[3].holds \in BOOLEAN
      /\ checks[1].holds <=> request.flaw = "none"
      /\ checks[2].holds <=> WebValidates(request)
      /\ checks[3].holds <=> AdapterConfigured
  <2>1. WebValidates(request) \in BOOLEAN /\ AdapterConfigured \in BOOLEAN
    BY DEF WebValidates, AdapterConfigured, ValidateBrowserVerifyEventInput,
           ValidateBrowserInspectTransactionInput
  <2>3. /\ checks[1].holds \in BOOLEAN
        /\ checks[1].holds <=> request.flaw = "none"
    <3>1. checks[1].holds = (request.flaw = "none")
      BY <1>1 DEF Check
    <3> QED BY <3>1, Zenon
  <2>4. /\ checks[2].holds \in BOOLEAN
        /\ checks[2].holds <=> WebValidates(request)
    BY <1>1, <2>1 DEF Check
  <2>5. /\ checks[3].holds \in BOOLEAN
        /\ checks[3].holds <=> AdapterConfigured
    BY <1>1, <2>1 DEF Check
  <2> QED BY <2>3, <2>4, <2>5
<1> HIDE DEF checks
<1>4. \A k \in 1..3 : checks[k].holds \in BOOLEAN /\ checks[k].status # None
  <2>1. checks[1].status # None /\ checks[2].status # None /\ checks[3].status # None
    BY <1>2, StatusesAreNotNone
  <2> QED BY <1>3, <2>1
<1>5. /\ FirstFailure(checks) = None <=> \A k \in 1..3 : checks[k].holds
      /\ FirstFailure(checks) # None =>
            \E k \in 1..3 : ~checks[k].holds /\ FirstFailure(checks) = checks[k].status
  BY <1>1, <1>4, FirstFailureFits
<1>6. (\A k \in 1..3 : checks[k].holds) <=> ~AtFault /\ AdapterConfigured
  BY <1>3 DEF AtFault
<1>7. FirstFailure(checks) # None =>
         /\ FirstFailure(checks) \in Statuses \ {200, 502}
         /\ AtFault \/ (FirstFailure(checks) = 503 /\ ~AdapterConfigured)
  BY <1>2, <1>3, <1>5 DEF AtFault
<1> QED BY <1>5, <1>6, <1>7 DEF checks

\* What a hosted function asks of the message and its secret.
Admitted ==
    /\ IF request.operation = "verify" THEN Flaw \notin {"preflight", "method", "syntax"}
       ELSE Flaw = "none"
    /\ HoldsSecret(hosted.secret) /\ Authenticates(supplied, hosted)

\* A hosted function works on what it admits, accepts and finds an endpoint for.
LEMMA HostedFailureFits ==
    ASSUME request \in Requests
    PROVE  /\ HostedFailure = None <=> Admitted /\ Accepted(input) /\ EndpointFound
           /\ HostedFailure # None => HostedFailure \in Statuses \ {200, 502, 503}
<1> DEFINE Fits(s) == s \in Statuses \ {200, 502, 503}
<1>0. Flaw \in Flaws
  BY RequestParts DEF Flaw, Flaws
<1>1. \A s : Fits(s) => s # None
  BY StatusesAreNotNone
<1>2. Fits(400) /\ Fits(500) /\ Fits(401) /\ Fits(FlawStatus(Flaw))
  BY <1>0, FlawStatusFits DEF Statuses
<1>4. /\ ValidateVerifyEventInput(input) \in BOOLEAN /\ EndpointFound \in BOOLEAN
      /\ ValidateInspectTransactionInput(input) \in BOOLEAN
      /\ HoldsSecret(hosted.secret) \in BOOLEAN /\ Authenticates(supplied, hosted) \in BOOLEAN
  BY DEF ValidateVerifyEventInput, EndpointFound, ValidateInspectTransactionInput,
         HoldsSecret, Authenticates
<1> DEFINE checks == IF request.operation = "verify" THEN VerifyChecks ELSE InspectChecks
<1>5. /\ Len(checks) = 6
      /\ checks[1] = Check(Flaw \notin {"preflight", "method"}, FlawStatus(Flaw))
      /\ checks[2] = Check(HoldsSecret(hosted.secret), 500)
      /\ checks[3] = Check(Authenticates(supplied, hosted), 401)
      /\ checks[4] = IF request.operation = "verify" THEN Check(Flaw # "syntax", 400)
                     ELSE Check(Flaw = "none", FlawStatus(Flaw))
      /\ checks[5] = IF request.operation = "verify"
                     THEN Check(ValidateVerifyEventInput(input), 400)
                     ELSE Check(ValidateInspectTransactionInput(input), 400)
      /\ checks[6] = Check(EndpointFound, 500)
  <2>1. CASE request.operation = "verify"
    BY <2>1 DEF VerifyChecks, Secured
  <2>2. CASE request.operation # "verify"
    BY <2>2 DEF InspectChecks, Secured
  <2> QED BY <2>1, <2>2
<1> HIDE DEF checks
<1>6. /\ Fits(checks[1].status) /\ Fits(checks[2].status) /\ Fits(checks[3].status)
      /\ Fits(checks[4].status) /\ Fits(checks[5].status) /\ Fits(checks[6].status)
  BY <1>2, <1>5 DEF Check
<1>7. /\ checks[1].holds \in BOOLEAN /\ checks[2].holds \in BOOLEAN
      /\ checks[3].holds \in BOOLEAN /\ checks[6].holds \in BOOLEAN
      /\ checks[1].holds <=> Flaw \notin {"preflight", "method"}
      /\ checks[2].holds <=> HoldsSecret(hosted.secret)
      /\ checks[3].holds <=> Authenticates(supplied, hosted)
      /\ checks[6].holds <=> EndpointFound
  <2>2. checks[1].holds \in BOOLEAN /\ (checks[1].holds <=> Flaw \notin {"preflight", "method"})
    <3>1. checks[1].holds = (Flaw \notin {"preflight", "method"})
      BY <1>5 DEF Check
    <3> QED BY <3>1, Zenon
  <2>3. checks[2].holds \in BOOLEAN /\ (checks[2].holds <=> HoldsSecret(hosted.secret))
    BY <1>4, <1>5 DEF Check
  <2>4. checks[3].holds \in BOOLEAN /\ (checks[3].holds <=> Authenticates(supplied, hosted))
    BY <1>4, <1>5 DEF Check
  <2>5. checks[6].holds \in BOOLEAN /\ (checks[6].holds <=> EndpointFound)
    BY <1>4, <1>5 DEF Check
  <2> QED BY <2>2, <2>3, <2>4, <2>5
<1>8. /\ checks[4].holds \in BOOLEAN /\ checks[5].holds \in BOOLEAN
      /\ checks[4].holds <=> IF request.operation = "verify" THEN Flaw # "syntax"
                             ELSE Flaw = "none"
      /\ checks[5].holds <=> Accepted(input)
  <2>1. CASE request.operation = "verify"
    <3>1. checks[4].holds \in BOOLEAN /\ (checks[4].holds <=> Flaw # "syntax")
      <4>1. checks[4].holds = (Flaw # "syntax")
        BY <1>5, <2>1 DEF Check
      <4> QED BY <4>1, Zenon
    <3>2. checks[5].holds \in BOOLEAN /\ (checks[5].holds <=> ValidateVerifyEventInput(input))
      <4>1. checks[5] = Check(ValidateVerifyEventInput(input), 400)
        BY <1>5, <2>1, Zenon
      <4> QED BY <1>4, <4>1 DEF Check
    <3> QED BY <2>1, <3>1, <3>2, Zenon DEF Accepted
  <2>2. CASE request.operation # "verify"
    <3>1. checks[4].holds \in BOOLEAN /\ (checks[4].holds <=> Flaw = "none")
      <4>1. checks[4].holds = (Flaw = "none")
        BY <1>5, <2>2 DEF Check
      <4> QED BY <4>1, Zenon
    <3>2. checks[5].holds \in BOOLEAN /\ (checks[5].holds <=> ValidateInspectTransactionInput(input))
      <4>1. checks[5] = Check(ValidateInspectTransactionInput(input), 400)
        BY <1>5, <2>2, Zenon
      <4> QED BY <1>4, <4>1 DEF Check
    <3> QED BY <2>2, <3>1, <3>2, Zenon DEF Accepted
  <2> QED BY <2>1, <2>2
<1>9. \A k \in 1..6 : checks[k].holds \in BOOLEAN /\ Fits(checks[k].status)
  BY <1>6, <1>7, <1>8
<1>10. /\ FirstFailure(checks) = None <=> \A k \in 1..6 : checks[k].holds
       /\ FirstFailure(checks) # None =>
             \E k \in 1..6 : ~checks[k].holds /\ FirstFailure(checks) = checks[k].status
  <2>1. \A k \in 1..6 : checks[k].holds \in BOOLEAN /\ checks[k].status # None
    BY <1>1, <1>9
  <2> HIDE DEF Fits
  <2> QED BY <1>5, <2>1, FirstFailureFits
<1>11. (\A k \in 1..6 : checks[k].holds) <=>
          checks[1].holds /\ checks[2].holds /\ checks[3].holds /\ checks[4].holds
          /\ checks[5].holds /\ checks[6].holds
  OBVIOUS
<1>12. (\A k \in 1..6 : checks[k].holds) <=> Admitted /\ Accepted(input) /\ EndpointFound
  BY <1>7, <1>8, <1>11 DEF Admitted
<1>13. FirstFailure(checks) # None => Fits(FirstFailure(checks))
  BY <1>9, <1>10
<1> QED BY <1>10, <1>12, <1>13 DEF checks, HostedFailure

-----------------------------------------------------------------------------
(* Endpoints.                                                              *)

\* An endpoint that is found answers for some cluster.
LEMMA AnsweringFits ==
    ASSUME hosted \in HostedEnvironments, input.cluster \in Clusters, EndpointFound
    PROVE  Answering(input.cluster, hosted) \in Clusters
<1>1. hosted.rpc[input.cluster] \in RpcValues /\ hosted.legacy \in RpcValues
  BY DEF HostedEnvironments
<1>2. Addressed(input.cluster, hosted) \in RpcValues
  BY <1>1 DEF Addressed, RpcValues
<1>3. Addressed(input.cluster, hosted) # "unusable"
  BY DEF EndpointFound, AppliesServerRpcUrl
<1> QED BY <1>2, <1>3 DEF Answering, RpcValues

-----------------------------------------------------------------------------
(* Results.                                                                *)

\* A set of at most two indices has a first.
LEMMA FirstFits ==
    ASSUME NEW indices \in SUBSET {1, 2}, indices # {}
    PROVE  First(indices) \in indices
<1>1. \E i \in indices : \A j \in indices : i <= j
  <2>1. CASE 1 \in indices
    BY <2>1
  <2>2. CASE 1 \notin indices
    <3>1. indices = {2}
      BY <2>2
    <3> QED BY <3>1
  <2> QED BY <2>1, <2>2
<1> QED BY <1>1 DEF First

\* An attribution names one of the located events, or none.
LEMMA AttributionFits ==
    ASSUME NEW located \in {<<>>} \cup [{1} -> Locations] \cup [{1, 2} -> Locations],
           NEW program, NEW disc
    PROVE  /\ Reason(located, program, disc) \in Reasons
           /\ AttributedEvent(located, program, disc) \in Locations \cup {NoEvent}
<1>1. DOMAIN located \in SUBSET {1, 2} /\ \A i \in DOMAIN located : located[i] \in Locations
  OBVIOUS
<1>2. /\ MatchingDiscriminator(located, disc) \in SUBSET DOMAIN located
      /\ MatchingProgram(located, program, disc) \in SUBSET DOMAIN located
  BY DEF MatchingDiscriminator, MatchingProgram
<1>3. Reason(located, program, disc) = "VERIFIED" => MatchingProgram(located, program, disc) # {}
  BY DEF Reason
<1>4. Reason(located, program, disc) = "PROGRAM_MISMATCH" =>
         MatchingDiscriminator(located, disc) # {}
  BY DEF Reason
<1>5. Reason(located, program, disc) \in Reasons
  BY DEF Reason, Reasons
<1>6. CASE Reason(located, program, disc) = "VERIFIED"
  <2>1. First(MatchingProgram(located, program, disc)) \in DOMAIN located
    BY <1>1, <1>2, <1>3, <1>6, FirstFits
  <2>2. AttributedEvent(located, program, disc)
           = located[First(MatchingProgram(located, program, disc))]
    BY <1>6 DEF AttributedEvent
  <2> QED BY <1>1, <1>5, <2>1, <2>2
<1>7. CASE Reason(located, program, disc) = "PROGRAM_MISMATCH"
  <2>1. First(MatchingDiscriminator(located, disc)) \in DOMAIN located
    BY <1>1, <1>2, <1>4, <1>7, FirstFits
  <2>2. AttributedEvent(located, program, disc)
           = located[First(MatchingDiscriminator(located, disc))]
    BY <1>7 DEF AttributedEvent
  <2> QED BY <1>1, <1>5, <2>1, <2>2
<1>8. CASE Reason(located, program, disc) \notin {"VERIFIED", "PROGRAM_MISMATCH"}
  BY <1>5, <1>8 DEF AttributedEvent
<1> QED BY <1>6, <1>7, <1>8

\* What verifyEvent may answer for a request that was accepted.
LEMMA ResultOfFits ==
    ASSUME NEW r \in VerifyBodies(Clusters), ValidateVerifyEventInput(r),
           NEW reason \in Reasons \cup NoLogReasons \cup {"CPI_EVENT_UNSUPPORTED"},
           NEW event \in Locations \cup {NoEvent}
    PROVE  LET res == ResultOf(r, reason, event)
           IN /\ res \in VerificationResults /\ res # None
              /\ res.receipt = None <=> event = NoEvent
              /\ res.receipt = ReceiptOf(r, event) /\ res.event = event
              /\ res.signature = r.signature /\ res.cluster = r.cluster
              /\ res.program = r.program /\ res.commitment = "finalized"
              /\ res.reason = reason /\ res.reason # "INVALID_REQUEST"
              /\ res.verdict = VerdictByReasonCode(reason)
              /\ IsVerificationResult(res)
<1> DEFINE res == ResultOf(r, reason, event)
           slot == IF reason \in {"INVALID_REQUEST", "RPC_UNAVAILABLE", "TX_NOT_FOUND"}
                   THEN None ELSE 0
           verdict == IF reason = "TX_FAILED" THEN "rejected" ELSE Verdict(reason)
<1>1. /\ r.cluster \in Clusters /\ r.format \in {"anchor-log", "anchor-cpi"}
      /\ r.discriminator \in Discriminators
      /\ r.signature \in Texts(Signatures) /\ r.program \in Texts(ProgramIds)
  BY VerifyBodyParts DEF ValidateVerifyEventInput, WellFormed
<1>2. /\ event # NoEvent => event \in Event
      /\ NoEvent \notin Event
  BY LocationsAssumption, NoEventAssumption DEF Event
<1>3. /\ event # NoEvent => ReceiptOf(r, event) \in ReceiptIds
      /\ event = NoEvent => ReceiptOf(r, event) = None
  BY <1>1, <1>2 DEF ReceiptOf, CreateVerificationReceiptId, ReceiptIds
<1>4. None \notin ReceiptIds /\ None \notin VerificationResults
  BY NoneAssumption
<1>5. verdict = VerdictByReasonCode(reason) /\ verdict \in {"verified", "rejected", "indeterminate"}
  BY DEF Verdict, VerdictByReasonCode, Reasons, NoLogReasons
<1>6. slot \in {None, 0}
  OBVIOUS
<1>7. res = [signature |-> r.signature, cluster |-> r.cluster, program |-> r.program,
             commitment |-> "finalized", slot |-> slot, verdict |-> verdict,
             reason |-> reason, event |-> event, receipt |-> ReceiptOf(r, event)]
  BY DEF ResultOf
<1>8. reason # "INVALID_REQUEST"
  BY DEF Reasons, NoLogReasons
<1> HIDE DEF res, slot, verdict
<1>9. res \in VerificationResults
  BY <1>1, <1>2, <1>3, <1>5, <1>6, <1>7 DEF VerificationResults
<1>10. IsVerificationResult(res)
  BY <1>1, <1>5, <1>7, ScenariosAssumption DEF IsVerificationResult
<1>11. res.receipt = None <=> event = NoEvent
  BY <1>3, <1>4, <1>7
<1> QED BY <1>4, <1>5, <1>7, <1>8, <1>9, <1>10, <1>11 DEF res

\* What inspectLogs may give.
LEMMA ReadingFits ==
    ASSUME NEW log \in Logs, NEW read \in InspectLogs(log)
    PROVE  /\ read.logsStatus \in {"available", "incomplete"}
           /\ read.invoked \in Nat /\ read.candidates \in SUBSET Nat
           /\ ReadsToTheEnd(log) =>
                 read.invoked = log.programs /\ read.candidates = Candidates(log)
           /\ ~ReadsToTheEnd(log) => read.invoked \in Met(log) /\ read.candidates = {}
<1>1. log.programs \in Nat /\ log.data \in Seq(Seq(Nat))
  BY LogsAssumption DEF LogRecords
<1>2. Candidates(log) \in SUBSET Nat
  BY <1>1 DEF Candidates
<1>3. CASE ReadsToTheEnd(log)
  BY <1>1, <1>2, <1>3 DEF InspectLogs
<1>4. CASE ~ReadsToTheEnd(log)
  <2>1. Met(log) \subseteq Nat
    BY DEF Met, MaxPrograms
  <2> QED BY <1>4, <2>1 DEF InspectLogs
<1> QED BY <1>3, <1>4

\* What inspectTransaction may answer.
LEMMA InspectionsFit ==
    ASSUME NEW r \in InspectBodies, r.cluster # "unknown"
    PROVE  /\ \A reason \in NoLogReasons :
                 LET res == InspectNothing(r, reason)
                 IN /\ res \in Inspections /\ res # None /\ res.reason = reason
                    /\ res.signature = r.signature /\ res.cluster = r.cluster
                    /\ res.logsStatus = "unavailable"
           /\ \A log \in Logs, failed \in BOOLEAN : \A read \in InspectLogs(log) :
                 LET res == InspectTransaction(r, failed, log, read)
                 IN /\ res \in Inspections /\ res # None
                    /\ res.signature = r.signature /\ res.cluster = r.cluster
                    /\ res.log = log /\ res.logsStatus = read.logsStatus
                    /\ res.invoked = read.invoked /\ res.candidates = read.candidates
<1>1. r.signature \in Texts(Signatures) /\ r.cluster \in Clusters
  BY DEF InspectBodies
<1>2. None \notin Inspections
  BY NoneAssumption
<1>3. ASSUME NEW reason \in NoLogReasons
      PROVE  LET res == InspectNothing(r, reason)
             IN /\ res \in Inspections /\ res # None /\ res.reason = reason
                /\ res.signature = r.signature /\ res.cluster = r.cluster
                /\ res.logsStatus = "unavailable"
  <2>1. NoLog \in LogRecords
    BY DEF NoLog, LogRecords
  <2>2. InspectNothing(r, reason) \in Inspections
    BY <1>1, <2>1 DEF InspectNothing, Inspections
  <2> QED BY <1>2, <2>2 DEF InspectNothing
<1>4. ASSUME NEW log \in Logs, NEW failed \in BOOLEAN, NEW read \in InspectLogs(log)
      PROVE  LET res == InspectTransaction(r, failed, log, read)
             IN /\ res \in Inspections /\ res # None
                /\ res.signature = r.signature /\ res.cluster = r.cluster
                /\ res.log = log /\ res.logsStatus = read.logsStatus
                /\ res.invoked = read.invoked /\ res.candidates = read.candidates
  <2>1. log \in LogRecords
    BY LogsAssumption
  <2>2. /\ read.logsStatus \in {"available", "incomplete"}
        /\ read.invoked \in Nat /\ read.candidates \in SUBSET Nat
    BY ReadingFits
  <2>3. InspectTransaction(r, failed, log, read) \in Inspections
    BY <1>1, <2>1, <2>2 DEF InspectTransaction, Inspections, NoLogReasons
  <2> QED BY <1>2, <2>3 DEF InspectTransaction
<1> QED BY <1>3, <1>4

-----------------------------------------------------------------------------
(* What depends on some of the variables only stays when they do.          *)

LEMMA Kept ==
    ASSUME UNCHANGED request
    PROVE  /\ Sent' = Sent /\ (AtFault' <=> AtFault)
           /\ UNCHANGED input => (Accepted(input)' <=> Accepted(input))
           /\ UNCHANGED web => (AdapterConfigured' <=> AdapterConfigured)
           /\ UNCHANGED trouble => (Settled' <=> Settled)
           /\ UNCHANGED <<hosted, supplied, input>> => HostedFailure' = HostedFailure
           /\ UNCHANGED <<input, answering, result>> =>
                 /\ VerdictFits(result)' <=> VerdictFits(result)
                 /\ InspectionFits(result)' <=> InspectionFits(result)
           /\ UNCHANGED result => (IsAnswer(result)' <=> IsAnswer(result))
           /\ UNCHANGED <<input, result>> => BuildReceiptRecord' = BuildReceiptRecord
<1>1. Sent' = Sent /\ (AtFault' <=> AtFault)
  BY DEF Sent, AtFault
<1>2. UNCHANGED input => (Accepted(input)' <=> Accepted(input))
  BY DEF Accepted
<1>3. UNCHANGED web => (AdapterConfigured' <=> AdapterConfigured)
  BY DEF AdapterConfigured
<1>4. UNCHANGED trouble => (Settled' <=> Settled)
  BY DEF Settled
<1>5. UNCHANGED <<hosted, supplied, input>> => HostedFailure' = HostedFailure
  BY DEF HostedFailure, VerifyChecks, InspectChecks, Secured, Flaw, EndpointFound
<1>6. ASSUME UNCHANGED <<input, answering, result>>
      PROVE  /\ VerdictFits(result)' <=> VerdictFits(result)
             /\ InspectionFits(result)' <=> InspectionFits(result)
  BY <1>6 DEF VerdictFits, InspectionFits, Concluded
<1>7. UNCHANGED result => (IsAnswer(result)' <=> IsAnswer(result))
  BY DEF IsAnswer
<1>8. UNCHANGED <<input, result>> => BuildReceiptRecord' = BuildReceiptRecord
  BY DEF BuildReceiptRecord
<1> QED BY <1>1, <1>2, <1>3, <1>4, <1>5, <1>6, <1>7, <1>8

\* The request that is worked on.
LEMMA WorkFits ==
    ASSUME PathInv, answering # None
    PROVE  /\ input # None /\ input = Sent /\ input.cluster = request.body.cluster
           /\ request.operation \in {"verify", "inspect"}
           /\ request.operation = "verify" =>
                 input \in VerifyBodies(Clusters) /\ ValidateVerifyEventInput(input)
           /\ request.operation = "inspect" =>
                 /\ input \in InspectBodies /\ input.cluster # "unknown"
                 /\ ValidateInspectTransactionInput(input)
<1>1. input # None /\ input = Sent /\ Accepted(input) /\ request \in Requests
  BY DEF PathInv, SettingsFit, InputFits, AcceptedFits
<1> QED BY <1>1, SentFits, RequestParts DEF Accepted, ValidateInspectTransactionInput

\* A result of a verification.
LEMMA VerdictParts ==
    ASSUME PathInv, result # None, request.operation = "verify"
    PROVE  /\ answering # None /\ result \in VerificationResults
           /\ result.receipt = None <=> result.event = NoEvent
           /\ result.receipt = ReceiptOf(input, result.event)
           /\ result.event \in Locations \cup {NoEvent}
           /\ result.signature = input.signature /\ result.cluster = input.cluster
           /\ result.program = input.program /\ result.commitment = "finalized"
           /\ result.reason # "INVALID_REQUEST" /\ Concluded(result.reason)
           /\ result.verdict = VerdictByReasonCode(result.reason)
           /\ IsVerificationResult(result)
<1>1. answering # None
  BY DEF PathInv, AcceptedFits
<1>2. PICK reason \in Reasons \cup NoLogReasons \cup {"CPI_EVENT_UNSUPPORTED"},
           event \in Locations \cup {NoEvent} :
              result = ResultOf(input, reason, event) /\ Concluded(reason)
  BY DEF PathInv, ResultFits, VerdictFits
<1>3. input \in VerifyBodies(Clusters) /\ ValidateVerifyEventInput(input)
  BY <1>1, WorkFits
<1> HIDE DEF PathInv
<1> QED BY <1>1, <1>2, <1>3, ResultOfFits

\* A result of an inspection.
LEMMA InspectionParts ==
    ASSUME PathInv, result # None, request.operation = "inspect"
    PROVE  /\ answering # None /\ result \in Inspections
           /\ result.signature = input.signature /\ result.cluster = input.cluster
           /\ result.reason = "RPC_UNAVAILABLE" \/ answering = input.cluster
           /\ \/ result.logsStatus = "unavailable"
              \/ /\ result.log \in Logs
                 /\ \E read \in InspectLogs(result.log) :
                       /\ result.logsStatus = read.logsStatus
                       /\ result.invoked = read.invoked
                       /\ result.candidates = read.candidates
<1>1. answering # None
  BY DEF PathInv, AcceptedFits
<1>2. input \in InspectBodies /\ input.cluster # "unknown"
  BY <1>1, WorkFits
<1>3. InspectionFits(result)
  BY DEF PathInv, ResultFits
<1>4. CASE \E reason \in NoLogReasons :
              result = InspectNothing(input, reason) /\ Concluded(reason)
  BY <1>1, <1>2, <1>4, InspectionsFit DEF Concluded
<1>5. CASE /\ answering = input.cluster
           /\ \E log \in Logs, failed \in BOOLEAN : \E read \in InspectLogs(log) :
                 result = InspectTransaction(input, failed, log, read)
  <2>1. PICK log \in Logs, failed \in BOOLEAN :
              \E read \in InspectLogs(log) :
                 result = InspectTransaction(input, failed, log, read)
    BY <1>5
  <2>2. PICK read \in InspectLogs(log) :
              result = InspectTransaction(input, failed, log, read)
    BY <2>1
  <2> QED BY <1>1, <1>2, <1>5, <2>1, <2>2, InspectionsFit
<1> QED BY <1>3, <1>4, <1>5 DEF InspectionFits

-----------------------------------------------------------------------------
(* One lemma per step.                                                     *)

LEMMA InitPathInv == Init => PathInv
<1> SUFFICES ASSUME Init PROVE PathInv
  OBVIOUS
<1>1. web \in WebEnvironments /\ hosted \in HostedEnvironments /\ request \in Requests
  BY ScenariosAssumption DEF Init
<1>2. /\ stage = "start" /\ refused = None /\ input = None /\ result = None /\ row = None
      /\ supplied = None /\ answering = None /\ status = None /\ trouble = {} /\ updates = 0
  BY DEF Init, PathInit
<1>3. SettingsFit
  BY <1>1, <1>2, ScenariosAssumption DEF SettingsFit
<1>4. InputFits /\ AcceptedFits
  BY <1>2 DEF InputFits, AcceptedFits
<1>5. ResultFits /\ RefusalsFit /\ StatusFits /\ RowFits
  BY <1>2 DEF ResultFits, RefusalsFit, StatusFits, RowFits
<1> QED BY <1>3, <1>4, <1>5 DEF PathInv

LEMMA SendToWebInv == ASSUME PathInv, SendToWeb PROVE PathInv'
<1>1. /\ stage = "start" /\ request.to = "web" /\ stage' = "web"
      /\ UNCHANGED <<refused, input, result, row, web, hosted, request, supplied,
                     answering, status, trouble, updates>>
  BY DEF SendToWeb, requestVars
<1>2. /\ input = None /\ answering = None /\ result = None /\ refused = None
      /\ status = None /\ row = None
  BY <1>1 DEF PathInv, InputFits, AcceptedFits, StatusFits, RowFits
<1>3. SettingsFit'
  BY <1>1 DEF PathInv, SettingsFit
<1>4. InputFits' /\ AcceptedFits'
  BY <1>1, <1>2 DEF PathInv, InputFits, AcceptedFits
<1>5. ResultFits' /\ RefusalsFit' /\ StatusFits' /\ RowFits'
  BY <1>1, <1>2 DEF ResultFits, RefusalsFit, StatusFits, RowFits
<1> QED BY <1>3, <1>4, <1>5 DEF PathInv

\* An answer disturbs only what is said of the status.
LEMMA FinishInv ==
    ASSUME PathInv, NEW code, Finish(code), StatusFits'
    PROVE  PathInv'
<1>1. /\ stage' = "answered" /\ status' = code
      /\ UNCHANGED <<refused, input, result, row, web, hosted, request, supplied,
                     answering, trouble, updates>>
  BY DEF Finish
<1>2. SettingsFit'
  BY <1>1 DEF PathInv, SettingsFit
<1>3. InputFits' /\ AcceptedFits'
  BY <1>1, Kept DEF PathInv, InputFits, AcceptedFits
<1>4. ResultFits' /\ RefusalsFit'
  BY <1>1, Kept DEF PathInv, ResultFits, RefusalsFit
<1>5. RowFits'
  BY <1>1, Kept DEF PathInv, RowFits
<1> QED BY <1>2, <1>3, <1>4, <1>5 DEF PathInv

LEMMA WebRefusesInv == ASSUME PathInv, WebRefuses PROVE PathInv'
<1>1. PICK code : code = FirstFailure(WebChecks)
  OBVIOUS
<1>2. stage = "web" /\ code # None /\ Finish(code)
  BY <1>1 DEF WebRefuses
<1>3. /\ stage' = "answered" /\ status' = code
      /\ UNCHANGED <<refused, input, result, row, web, hosted, request, supplied,
                     answering, trouble, updates>>
  BY <1>2 DEF Finish
<1>4. request.to = "web" /\ input = None
  BY <1>2 DEF PathInv, SettingsFit, InputFits
<1>5. /\ code \in Statuses \ {200, 502}
      /\ AtFault \/ (code = 503 /\ ~AdapterConfigured)
  BY <1>1, <1>2, WebFailure DEF PathInv, SettingsFit
<1>6. StatusFits'
  BY <1>3, <1>4, <1>5, Kept DEF StatusFits
<1> QED BY <1>2, <1>6, FinishInv

LEMMA WebForwardsInv == ASSUME PathInv, WebForwards PROVE PathInv'
<1>1. /\ stage = "web" /\ stage' = "hosted" /\ input' = Forwarded(request)
      /\ supplied' = HeaderValue(web.secret)
      /\ UNCHANGED <<refused, result, row, web, hosted, request, answering, status,
                     trouble, updates>>
  BY DEF WebForwards
<1>2. /\ input = None /\ answering = None /\ result = None /\ refused = None
      /\ status = None /\ row = None /\ request.to = "web" /\ request \in Requests
      /\ web \in WebEnvironments
  BY <1>1 DEF PathInv, SettingsFit, InputFits, AcceptedFits, StatusFits, RowFits
<1>3. ~AtFault /\ AdapterConfigured
  BY <1>2, WebFailure DEF WebForwards
<1>4. input' = Sent /\ input' # None
  BY <1>1, <1>2, SentFits DEF Sent
<1>5. supplied' \in SecretValues \cup {"none", "stripped"}
  BY <1>1, <1>2 DEF HeaderValue, WebEnvironments
<1>6. SettingsFit'
  BY <1>1 DEF PathInv, SettingsFit
<1>7. InputFits' /\ AcceptedFits'
  BY <1>1, <1>2, <1>3, <1>4, <1>5, Kept DEF InputFits, AcceptedFits
<1>8. ResultFits' /\ RefusalsFit' /\ StatusFits' /\ RowFits'
  BY <1>1, <1>2 DEF ResultFits, RefusalsFit, StatusFits, RowFits
<1> QED BY <1>6, <1>7, <1>8 DEF PathInv

LEMMA WebAnswersInv == ASSUME PathInv, WebAnswers PROVE PathInv'
<1>1. PICK code : code = AnswerOf(FALSE)
  OBVIOUS
<1>2. stage = "replied" /\ request.to = "web" /\ Finish(code)
  BY <1>1 DEF WebAnswers
<1>3. /\ stage' = "answered" /\ status' = code
      /\ UNCHANGED <<refused, input, result, row, web, hosted, request, supplied,
                     answering, trouble, updates>>
  BY <1>2 DEF Finish
<1>4. result # None \/ refused # None
  BY <1>2 DEF PathInv, ResultFits
<1>5. \/ code = 200 /\ refused = None /\ result # None /\ IsAnswer(result)
      \/ code = 502 /\ (refused # None \/ (result # None /\ ~IsAnswer(result)))
  BY <1>1, <1>4 DEF AnswerOf
<1>6. StatusFits'
  BY <1>2, <1>3, <1>5, Kept DEF StatusFits, Statuses
<1> QED BY <1>2, <1>6, FinishInv

LEMMA NetworkFailsInv == ASSUME PathInv, NetworkFails PROVE PathInv'
<1>1. /\ stage \in {"hosted", "replied"} /\ request.to = "web" /\ stage' = "answered"
      /\ status' = 502 /\ trouble' = trouble \cup {"network"}
      /\ UNCHANGED <<refused, input, result, row, web, hosted, request, supplied,
                     answering, updates>>
  BY DEF NetworkFails, AnswerOf
<1>2. Settled' <=> Settled
  BY <1>1 DEF Settled
<1>3. SettingsFit'
  BY <1>1 DEF PathInv, SettingsFit
<1>4. InputFits' /\ AcceptedFits'
  BY <1>1, <1>2, Kept DEF PathInv, InputFits, AcceptedFits
<1>5. ResultFits' /\ RefusalsFit'
  BY <1>1, <1>2, Kept DEF PathInv, ResultFits, RefusalsFit
<1>6. StatusFits'
  BY <1>1, Kept DEF StatusFits, Statuses
<1>7. RowFits'
  BY <1>1, Kept DEF PathInv, RowFits
<1> QED BY <1>3, <1>4, <1>5, <1>6, <1>7 DEF PathInv

LEMMA SendToHostedInv == ASSUME PathInv, SendToHosted PROVE PathInv'
<1>1. /\ stage = "start" /\ request.to = "hosted" /\ stage' = "hosted"
      /\ input' = request.body
      /\ supplied' = IF request.trusted THEN HeaderValue(hosted.secret) ELSE "none"
      /\ UNCHANGED <<refused, result, row, web, hosted, request, answering, status,
                     trouble, updates>>
  BY DEF SendToHosted
<1>2. /\ input = None /\ answering = None /\ result = None /\ refused = None
      /\ status = None /\ row = None /\ request \in Requests
      /\ hosted \in HostedEnvironments
  BY <1>1 DEF PathInv, SettingsFit, InputFits, AcceptedFits, StatusFits, RowFits
<1>3. input' = Sent /\ input' # None
  BY <1>1, <1>2, SentFits DEF Sent
<1>4. supplied' \in SecretValues \cup {"none", "stripped"}
  BY <1>1, <1>2 DEF HeaderValue, HostedEnvironments
<1>5. SettingsFit'
  BY <1>1 DEF PathInv, SettingsFit
<1>6. InputFits' /\ AcceptedFits'
  BY <1>1, <1>2, <1>3, <1>4, Kept DEF InputFits, AcceptedFits
<1>7. ResultFits' /\ RefusalsFit' /\ StatusFits' /\ RowFits'
  BY <1>1, <1>2 DEF ResultFits, RefusalsFit, StatusFits, RowFits
<1> QED BY <1>5, <1>6, <1>7 DEF PathInv

LEMMA HostedRefusesInv == ASSUME PathInv, HostedRefuses PROVE PathInv'
<1>1. PICK code : code = HostedFailure
  OBVIOUS
<1>2. /\ stage = "hosted" /\ stage' = "replied"
      /\ refused' = [part |-> "hosted", status |-> code]
      /\ UNCHANGED <<input, result, row, web, hosted, request, supplied,
                     answering, status, trouble, updates>>
  BY <1>1 DEF HostedRefuses, Refuse, requestVars
<1>3. code # None /\ HostedFailure # None /\ code \in Statuses \ {200, 502, 503}
  BY <1>1, HostedFailureFits DEF HostedRefuses, PathInv, SettingsFit
<1>4. /\ input # None /\ answering = None /\ result = None /\ status = None /\ row = None
  BY <1>2 DEF PathInv, InputFits, AcceptedFits, StatusFits, RowFits
<1>5. /\ refused' \in Refusals /\ refused' # None /\ refused'.part = "hosted"
  BY <1>2, <1>3, NoneAssumption DEF Refusals
<1>6. SettingsFit'
  BY <1>2 DEF PathInv, SettingsFit
<1>7. InputFits' /\ AcceptedFits'
  BY <1>2, <1>4, Kept DEF PathInv, InputFits, AcceptedFits
<1>8. ResultFits' /\ RefusalsFit'
  BY <1>2, <1>3, <1>4, <1>5, Kept DEF ResultFits, RefusalsFit
<1>9. StatusFits' /\ RowFits'
  BY <1>2, <1>4 DEF StatusFits, RowFits
<1> QED BY <1>6, <1>7, <1>8, <1>9 DEF PathInv

LEMMA HostedAcceptsInv == ASSUME PathInv, HostedAccepts PROVE PathInv'
<1>1. /\ stage = "hosted" /\ HostedFailure = None
      /\ stage' = IF request.operation = "verify" THEN "verifying" ELSE "inspecting"
      /\ answering' = Answering(input.cluster, hosted)
      /\ UNCHANGED <<refused, input, result, row, web, hosted, request, supplied, status,
                     trouble, updates>>
  BY DEF HostedAccepts
<1>2. /\ input # None /\ answering = None /\ result = None /\ status = None /\ row = None
      /\ refused = None /\ request \in Requests /\ hosted \in HostedEnvironments
      /\ input = Sent
  BY <1>1 DEF PathInv, SettingsFit, InputFits, AcceptedFits, ResultFits, StatusFits, RowFits
<1>3. request.operation \in {"verify", "inspect"}
  BY <1>2, RequestParts
<1>4. Accepted(input) /\ EndpointFound
  BY <1>1, <1>2, HostedFailureFits
<1>5. input.cluster \in Clusters
  <2>1. CASE request.operation = "verify"
    BY <1>2, <1>4, <2>1, SentFits, VerifyBodyParts
    DEF Accepted, ValidateVerifyEventInput, WellFormed
  <2>2. CASE request.operation = "inspect"
    BY <1>2, <1>4, <2>2, SentFits
    DEF Accepted, ValidateInspectTransactionInput, InspectBodies
  <2> QED BY <1>3, <2>1, <2>2
<1>6. answering' \in Clusters /\ answering' # None
  BY <1>1, <1>2, <1>4, <1>5, AnsweringFits, NoneAssumption
<1>7. SettingsFit'
  BY <1>1 DEF PathInv, SettingsFit
<1>8. InputFits'
  BY <1>1, <1>2, Kept DEF PathInv, InputFits
<1>9. AcceptedFits'
  BY <1>1, <1>2, <1>3, <1>4, <1>6, Kept DEF AcceptedFits
<1>10. ResultFits' /\ RefusalsFit' /\ StatusFits' /\ RowFits'
  BY <1>1, <1>2 DEF ResultFits, RefusalsFit, StatusFits, RowFits
<1> QED BY <1>7, <1>8, <1>9, <1>10 DEF PathInv

\* verifyEvent answers with a verdict on the request it was given.
LEMMA VerifyConcludes ==
    ASSUME input \in VerifyBodies(Clusters), ValidateVerifyEventInput(input),
           VerifyEvent(answering)
    PROVE  \E reason \in Reasons \cup NoLogReasons \cup {"CPI_EVENT_UNSUPPORTED"},
              event \in Locations \cup {NoEvent} :
                 result' = ResultOf(input, reason, event) /\ Concluded(reason)
<1>1. ~IsInvalid(input)
  <2>1. input.signature.core # "" /\ input.program.core # ""
    BY DEF ValidateVerifyEventInput, IsNonEmptyString
  <2>2. /\ input.signature # [core |-> "", padded |-> FALSE]
        /\ input.program # [core |-> "", padded |-> FALSE]
    <3>1. [core |-> "", padded |-> FALSE].core = ""
      OBVIOUS
    <3> QED BY <2>1, <3>1, Zenon
  <2> QED BY <2>2 DEF IsInvalid, ValidateVerifyEventInput, WellFormed
<1>2. CASE result' = ResultOf(input, "RPC_UNAVAILABLE", NoEvent)
  BY <1>2 DEF NoLogReasons, Concluded
<1>3. CASE /\ Verifies(input, answering)
           /\ \E reason \in NoLogReasons : result' = ResultOf(input, reason, NoEvent)
  BY <1>3 DEF Verifies, Concluded
<1>4. CASE /\ Verifies(input, answering)
           /\ result' = ResultOf(input, "CPI_EVENT_UNSUPPORTED", NoEvent)
  BY <1>4 DEF Verifies, Concluded
<1>5. CASE /\ Verifies(input, answering)
           /\ \E located \in {<<>>} \cup [{1} -> Locations] \cup [{1, 2} -> Locations] :
                 result' = ResultOf(input,
                     Reason(located, Expected(input.program), input.discriminator),
                     AttributedEvent(located, Expected(input.program), input.discriminator))
  <2>1. PICK located \in {<<>>} \cup [{1} -> Locations] \cup [{1, 2} -> Locations] :
           result' = ResultOf(input,
               Reason(located, Expected(input.program), input.discriminator),
               AttributedEvent(located, Expected(input.program), input.discriminator))
    BY <1>5
  <2>2. /\ Reason(located, Expected(input.program), input.discriminator) \in Reasons
        /\ AttributedEvent(located, Expected(input.program), input.discriminator)
              \in Locations \cup {NoEvent}
    BY AttributionFits
  <2>3. Concluded(Reason(located, Expected(input.program), input.discriminator))
    BY <1>5 DEF Verifies, Concluded
  <2> QED BY <2>1, <2>2, <2>3
<1> QED BY <1>1, <1>2, <1>3, <1>4, <1>5 DEF VerifyEvent

LEMMA VerifyInv == ASSUME PathInv, Verify PROVE PathInv'
<1>1. /\ stage = "verifying" /\ VerifyEvent(answering)
      /\ stage' = IF result'.receipt = None THEN "replied" ELSE "persisting"
      /\ UNCHANGED <<refused, input, row, web, hosted, request, supplied,
                     answering, status, trouble, updates>>
  BY DEF Verify, VerifyEvent, requestVars
<1>2. /\ answering # None /\ result = None /\ refused = None /\ request.operation = "verify"
      /\ status = None /\ row = None
  BY <1>1 DEF PathInv, AcceptedFits, ResultFits, StatusFits, RowFits
<1>3. input # None /\ input \in VerifyBodies(Clusters) /\ ValidateVerifyEventInput(input)
  BY <1>2, WorkFits
<1>4. PICK reason \in Reasons \cup NoLogReasons \cup {"CPI_EVENT_UNSUPPORTED"},
           event \in Locations \cup {NoEvent} :
              result' = ResultOf(input, reason, event) /\ Concluded(reason)
  BY <1>1, <1>3, VerifyConcludes
<1>5. result' # None
  BY <1>3, <1>4, ResultOfFits
<1>6. VerdictFits(result)'
  BY <1>1, <1>4 DEF VerdictFits, Concluded
<1>7. SettingsFit'
  BY <1>1 DEF PathInv, SettingsFit
<1>8. InputFits' /\ AcceptedFits'
  BY <1>1, <1>2, <1>3, Kept DEF PathInv, InputFits, AcceptedFits
<1>9. ResultFits'
  BY <1>1, <1>2, <1>5, <1>6 DEF ResultFits
<1>10. RefusalsFit' /\ StatusFits' /\ RowFits'
  BY <1>1, <1>2 DEF RefusalsFit, StatusFits, RowFits
<1> QED BY <1>7, <1>8, <1>9, <1>10 DEF PathInv

LEMMA InspectsLogInv == ASSUME PathInv, InspectsLog PROVE PathInv'
<1>1. /\ stage = "inspecting" /\ stage' = "replied"
      /\ UNCHANGED <<refused, input, row, web, hosted, request, supplied,
                     answering, status, trouble, updates>>
  BY DEF InspectsLog, requestVars
<1>2. /\ answering # None /\ result = None /\ refused = None /\ request.operation = "inspect"
      /\ status = None /\ row = None
  BY <1>1 DEF PathInv, AcceptedFits, ResultFits, StatusFits, RowFits
<1>3. input # None /\ input \in InspectBodies /\ input.cluster # "unknown"
  BY <1>2, WorkFits
<1>4. \/ \E reason \in NoLogReasons :
            result' = InspectNothing(input, reason) /\ Concluded(reason)
      \/ /\ answering = input.cluster
         /\ \E log \in Logs, failed \in BOOLEAN : \E read \in InspectLogs(log) :
               result' = InspectTransaction(input, failed, log, read)
  BY DEF InspectsLog, Verifies, Concluded, NoLogReasons
<1>5. result' # None
  BY <1>3, <1>4, InspectionsFit
<1>6. InspectionFits(result)'
  BY <1>1, <1>4 DEF InspectionFits, Concluded
<1>7. SettingsFit'
  BY <1>1 DEF PathInv, SettingsFit
<1>8. InputFits' /\ AcceptedFits'
  BY <1>1, <1>2, <1>3, Kept DEF PathInv, InputFits, AcceptedFits
<1>9. ResultFits'
  BY <1>1, <1>2, <1>5, <1>6 DEF ResultFits
<1>10. RefusalsFit' /\ StatusFits' /\ RowFits'
  BY <1>1, <1>2 DEF RefusalsFit, StatusFits, RowFits
<1> QED BY <1>7, <1>8, <1>9, <1>10 DEF PathInv

\* What verifyEvent answers for an accepted request passes every check between
\* it and the public page.
LEMMA ReceiptPasses ==
    ASSUME PathInv, result # None, result.receipt # None, request.operation = "verify"
    PROVE  /\ MatchesInput /\ IdentityCheck(BuildReceiptRecord)
           /\ IsStoredVerificationReceipt(BuildReceiptRecord)
           /\ IsPublicReceipt(BuildReceiptRecord)
<1>1. /\ answering # None /\ result.event # NoEvent
      /\ result.receipt = CreateVerificationReceiptId(input, result.event)
      /\ result.signature = input.signature /\ result.cluster = input.cluster
      /\ result.program = input.program /\ result.commitment = "finalized"
      /\ result.verdict = VerdictByReasonCode(result.reason)
  BY VerdictParts DEF ReceiptOf
<1>2. ValidateVerifyEventInput(input) /\ input \in VerifyBodies(Clusters)
  BY <1>1, WorkFits
<1>3. /\ input.signature.core # "" /\ input.program.core # ""
      /\ input.format \in {"anchor-log", "anchor-cpi"}
      /\ input.discriminator \in Discriminators
      /\ input.cluster \in {"mainnet-beta", "devnet", "testnet"}
  BY <1>2, VerifyBodyParts, ScenariosAssumption
  DEF ValidateVerifyEventInput, WellFormed, IsNonEmptyString
<1>4. PICK r : r = BuildReceiptRecord
  OBVIOUS
<1>5. /\ r.receipt = result.receipt /\ r.signature = input.signature
      /\ r.cluster = input.cluster /\ r.commitment = "finalized"
      /\ r.verdict = result.verdict /\ r.reason = result.reason
      /\ r.program = input.program /\ r.format = input.format
      /\ r.discriminator = input.discriminator /\ r.event = result.event
  BY <1>1, <1>4 DEF BuildReceiptRecord
<1>6. MatchesInput
  BY <1>1 DEF MatchesInput
<1>7. r.verdict \in {"verified", "rejected", "indeterminate"}
  BY <1>1, <1>5 DEF VerdictByReasonCode
<1>8. IdentityCheck(r)
  BY <1>1, <1>3, <1>5, <1>7 DEF IdentityCheck
<1>9. r.receipt = CreateVerificationReceiptId(r, r.event)
  BY <1>1, <1>5 DEF CreateVerificationReceiptId
<1>10. IsStoredVerificationReceipt(r)
  BY <1>3, <1>5, <1>8, <1>9 DEF IsStoredVerificationReceipt, IsNonEmptyString
<1>11. IsPublicReceipt(r)
  BY <1>1, <1>5, <1>10 DEF IsPublicReceipt
<1> QED BY <1>4, <1>6, <1>8, <1>10, <1>11

LEMMA StoreReceiptInv == ASSUME PathInv, StoreReceipt PROVE PathInv'
<1>1. stage = "persisting" /\ Persist
      /\ UNCHANGED <<web, hosted, request, supplied, answering, status, trouble, updates>>
  BY DEF StoreReceipt, Persist, requestVars
<1>2. /\ result # None /\ result.receipt # None /\ refused = None /\ answering # None
      /\ request.operation = "verify" /\ status = None
  BY <1>1 DEF PathInv, AcceptedFits, ResultFits, StatusFits
<1>3. /\ MatchesInput /\ IdentityCheck(BuildReceiptRecord)
      /\ IsStoredVerificationReceipt(BuildReceiptRecord)
      /\ IsPublicReceipt(BuildReceiptRecord)
  BY <1>2, ReceiptPasses
<1>4. /\ row' = BuildReceiptRecord /\ stage' = "replied"
      /\ UNCHANGED <<refused, input, result>>
  BY <1>1, <1>3 DEF Persist
<1>5. input # None
  BY <1>2, WorkFits
<1>6. SettingsFit'
  BY <1>1, <1>4 DEF PathInv, SettingsFit
<1>7. InputFits' /\ AcceptedFits'
  BY <1>1, <1>2, <1>4, <1>5, Kept DEF PathInv, InputFits, AcceptedFits
<1>8. ResultFits'
  BY <1>1, <1>2, <1>4, Kept DEF PathInv, ResultFits
<1>9. RefusalsFit' /\ StatusFits'
  BY <1>1, <1>2, <1>4 DEF RefusalsFit, StatusFits
<1>10. RowFits'
  <2>1. IsPublicReceipt(row)'
    BY <1>3, <1>4
  <2> QED BY <1>1, <1>2, <1>4, <2>1, Kept DEF RowFits
<1> QED BY <1>6, <1>7, <1>8, <1>9, <1>10 DEF PathInv

LEMMA StoreFailsInv == ASSUME PathInv, StoreFails PROVE PathInv'
<1>1. /\ stage = "persisting" /\ stage' = "replied"
      /\ refused' = [part |-> "database", status |-> 500]
      /\ trouble' = IF hosted.database THEN trouble \cup {"database"} ELSE trouble
      /\ UNCHANGED <<input, result, row, web, hosted, request, supplied, answering, status,
                     updates>>
  BY DEF StoreFails, Refuse
<1>2. /\ result # None /\ refused = None /\ answering # None
      /\ request.operation = "verify" /\ status = None
  BY <1>1 DEF PathInv, AcceptedFits, ResultFits, StatusFits
<1>3. /\ refused' \in Refusals /\ refused' # None /\ refused'.part = "database"
      /\ Settled' <=> Settled
  BY <1>1, NoneAssumption DEF Refusals, Statuses, Settled
<1>4. input # None
  BY <1>2, WorkFits
<1>5. SettingsFit'
  BY <1>1 DEF PathInv, SettingsFit
<1>6. InputFits' /\ AcceptedFits'
  BY <1>1, <1>2, <1>3, <1>4, Kept DEF PathInv, InputFits, AcceptedFits
<1>7. ResultFits'
  BY <1>1, <1>2, <1>3, Kept DEF PathInv, ResultFits
<1>8. RefusalsFit'
  <2>1. trouble' # {} \/ ~hosted'.database
    BY <1>1
  <2> QED BY <1>1, <1>2, <1>3, <2>1 DEF RefusalsFit
<1>9. StatusFits'
  BY <1>1, <1>2 DEF StatusFits
<1>10. RowFits'
  BY <1>1, Kept DEF PathInv, RowFits
<1> QED BY <1>5, <1>6, <1>7, <1>8, <1>9, <1>10 DEF PathInv

LEMMA HostedAnswersInv == ASSUME PathInv, HostedAnswers PROVE PathInv'
<1>1. PICK code : code = IF refused # None THEN refused.status ELSE 200
  OBVIOUS
<1>2. stage = "replied" /\ request.to = "hosted" /\ Finish(code)
  BY <1>1 DEF HostedAnswers
<1>3. /\ stage' = "answered" /\ status' = code
      /\ UNCHANGED <<refused, input, result, row, web, hosted, request, supplied,
                     answering, trouble, updates>>
  BY <1>2 DEF Finish
<1>4. code \in Statuses /\ (refused # None \/ code = 200)
  <2>1. refused # None => refused \in Refusals
    BY DEF PathInv, RefusalsFit
  <2> QED BY <1>1, <2>1 DEF Refusals, Statuses
<1>5. StatusFits'
  BY <1>2, <1>3, <1>4 DEF StatusFits
<1> QED BY <1>2, <1>5, FinishInv

\* A later look at an answer only moves the stage.
LEMMA LookInv ==
    ASSUME PathInv, stage' \in {"shown", "reread"}, stage \in {"answered", "shown"},
           result # None, status # None,
           UNCHANGED <<refused, input, result, row, requestVars>>
    PROVE  PathInv'
<1>1. UNCHANGED <<refused, input, result, row, web, hosted, request, supplied,
                  answering, status, trouble, updates>>
  BY DEF requestVars
<1>2. input # None
  BY WorkFits DEF PathInv, AcceptedFits
<1>3. SettingsFit'
  BY <1>1 DEF PathInv, SettingsFit
<1>4. InputFits' /\ AcceptedFits'
  BY <1>1, <1>2, Kept DEF PathInv, InputFits, AcceptedFits
<1>5. ResultFits' /\ RefusalsFit'
  BY <1>1, Kept DEF PathInv, ResultFits, RefusalsFit
<1>6. StatusFits'
  BY <1>1, Kept DEF PathInv, StatusFits
<1>7. RowFits'
  BY <1>1, Kept DEF PathInv, RowFits
<1> QED BY <1>3, <1>4, <1>5, <1>6, <1>7 DEF PathInv

\* The page finds its own request in every answer it gets.
LEMMA PageShowsInv == ASSUME PathInv, PageShows PROVE PathInv'
<1>1. /\ stage = "answered" /\ request.to = "web" /\ status = 200
      /\ stage' = IF MatchesRequest THEN "shown" ELSE "turned down"
      /\ UNCHANGED <<refused, input, result, row, requestVars>>
  BY DEF PageShows
<1>2. status # None
  <2>1. 200 \in Statuses /\ status = 200
    BY <1>1 DEF Statuses
  <2> QED BY <2>1, StatusesAreNotNone
<1>3. result # None
  <2>1. status = 200 /\ request.to = "web"
    BY <1>1
  <2> QED BY <1>2, <2>1 DEF PathInv, StatusFits
<1>4. answering # None
  BY <1>3 DEF PathInv, AcceptedFits
<1>5. /\ request \in Requests /\ input = Sent /\ input.cluster = request.body.cluster
      /\ request.operation \in {"verify", "inspect"}
  BY <1>4, WorkFits DEF PathInv, SettingsFit
<1>6. MatchesRequest
  <2>1. CASE request.operation = "verify"
    BY <1>1, <1>3, <1>5, <2>1, SentFits, VerdictParts DEF MatchesRequest, ResultMatchesRequest
  <2>2. CASE request.operation = "inspect"
    BY <1>1, <1>3, <1>5, <2>2, SentFits, InspectionParts DEF MatchesRequest
  <2> QED BY <1>5, <2>1, <2>2
<1>7. stage' = "shown"
  BY <1>1, <1>6
<1> QED BY <1>1, <1>2, <1>3, <1>7, LookInv

LEMMA RereadInv == ASSUME PathInv, Reread PROVE PathInv'
<1>1. /\ stage = "shown" /\ row # None
      /\ stage' = IF IsPublicReceipt(row) THEN "reread" ELSE "turned down"
      /\ UNCHANGED <<refused, input, result, row, requestVars>>
  BY DEF Reread
<1>2. result # None /\ IsPublicReceipt(row)
  BY <1>1 DEF PathInv, RowFits
<1>3. stage' = "reread"
  BY <1>1, <1>2
<1>4. status # None
  BY <1>1 DEF PathInv, StatusFits
<1> QED BY <1>1, <1>2, <1>3, <1>4, LookInv

\* A setting that is written keeps the environments what they are.
LEMMA UpdateFits ==
    ASSUME web \in WebEnvironments, hosted \in HostedEnvironments,
           NEW u \in Settings, UpdateSecret(u) \/ DeployWeb(u)
    PROVE  web' \in WebEnvironments /\ hosted' \in HostedEnvironments
<1>1. CASE DeployWeb(u)
  <2>1. web' = [web EXCEPT ![u.key] = u.value] /\ hosted' = hosted /\ u.place = "web"
    BY <1>1 DEF DeployWeb
  <2>2. \/ u.key = "secret" /\ u.value \in SecretValues
        \/ u.key = "baseUrl" /\ u.value \in OriginValues
        \/ u.key = "appUrl" /\ u.value \in OriginValues
        \/ u.key = "anonKey" /\ u.value \in KeyValues
    BY <2>1 DEF Settings
  <2>3. CASE u.key = "secret"
    BY <2>1, <2>2, <2>3 DEF WebEnvironments
  <2>4. CASE u.key = "baseUrl"
    BY <2>1, <2>2, <2>4 DEF WebEnvironments
  <2>5. CASE u.key = "appUrl"
    BY <2>1, <2>2, <2>5 DEF WebEnvironments
  <2>6. CASE u.key = "anonKey"
    BY <2>1, <2>2, <2>6 DEF WebEnvironments
  <2> QED BY <2>1, <2>2, <2>3, <2>4, <2>5, <2>6
<1>2. CASE UpdateSecret(u)
  <2>1. /\ hosted' = [hosted EXCEPT ![u.key] = u.value] /\ web' = web /\ u.place = "hosted"
        /\ u.value \notin {"empty", "two lines"}
    BY <1>2 DEF UpdateSecret
  <2>2. \/ u.key = "secret" /\ u.value \in SecretValues
        \/ u.key = "legacy" /\ u.value \in RpcValues
        \/ u.key = "binding" /\ u.value \in {"unset", "unknown"} \cup Clusters
    BY <2>1 DEF Settings
  <2>3. CASE u.key = "secret"
    BY <2>1, <2>2, <2>3 DEF HostedEnvironments
  <2>4. CASE u.key = "legacy"
    BY <2>1, <2>2, <2>4 DEF HostedEnvironments
  <2>5. CASE u.key = "binding"
    BY <2>1, <2>2, <2>5 DEF HostedEnvironments
  <2> QED BY <2>1, <2>2, <2>3, <2>4, <2>5
<1> QED BY <1>1, <1>2

\* A request that is under way is unsettled from then on.
LEMMA UpdateInv == ASSUME PathInv, Update PROVE PathInv'
<1>1. /\ updates < MaxUpdates /\ updates' = updates + 1
      /\ trouble' = IF stage = "start" THEN trouble ELSE trouble \cup {"update"}
      /\ UNCHANGED <<stage, refused, input, result, row, request, supplied, answering,
                     status>>
  BY DEF Update
<1>2. web' \in WebEnvironments /\ hosted' \in HostedEnvironments
  <2>1. PICK u \in Updates : UpdateSecret(u) \/ DeployWeb(u)
    BY DEF Update
  <2> QED BY <2>1, UpdateFits, ScenariosAssumption DEF PathInv, SettingsFit
<1>3. SettingsFit'
  BY <1>1, <1>2, ScenariosAssumption DEF PathInv, SettingsFit
<1>4. stage # "start" => ~Settled'
  BY <1>1 DEF Settled
<1>5. stage = "start" =>
         /\ input = None /\ answering = None /\ result = None /\ refused = None
         /\ status = None /\ row = None
  BY DEF PathInv, InputFits, AcceptedFits, StatusFits, RowFits
<1>6. InputFits' /\ AcceptedFits'
  BY <1>1, <1>4, <1>5, Kept DEF PathInv, InputFits, AcceptedFits
<1>7. ResultFits'
  BY <1>1, Kept DEF PathInv, ResultFits
<1>8. RefusalsFit'
  <2>1. stage # "start" => trouble' # {}
    BY <1>1
  <2> QED BY <1>1, <1>4, <1>5, <2>1, Kept DEF PathInv, RefusalsFit
<1>9. StatusFits'
  <2>1. "network" \in trouble => "network" \in trouble'
    BY <1>1
  <2> QED BY <1>1, <1>4, <1>5, <2>1, Kept DEF PathInv, StatusFits
<1>10. RowFits'
  BY <1>1, Kept DEF PathInv, RowFits
<1> QED BY <1>3, <1>6, <1>7, <1>8, <1>9, <1>10 DEF PathInv

LEMMA StutterPathInv == ASSUME PathInv, UNCHANGED vars PROVE PathInv'
<1>1. UNCHANGED <<stage, refused, input, result, row, web, hosted, request, supplied,
                  answering, status, trouble, updates>>
  BY DEF vars, requestVars
<1>2. SettingsFit' /\ AcceptedFits'
  BY <1>1, Kept DEF PathInv, SettingsFit, AcceptedFits
<1>3. InputFits'
  BY <1>1, Kept DEF PathInv, InputFits
<1>4. ResultFits' /\ RefusalsFit'
  BY <1>1, Kept DEF PathInv, ResultFits, RefusalsFit
<1>5. StatusFits'
  BY <1>1, Kept DEF PathInv, StatusFits
<1>6. RowFits'
  BY <1>1, Kept DEF PathInv, RowFits
<1> QED BY <1>2, <1>3, <1>4, <1>5, <1>6 DEF PathInv

\* Whatever the settings and their updates, a request is only worked on as it
\* was sent and accepted, and whatever goes wrong has a cause.
THEOREM Invariant == Spec => []PathInv
<1>1. Init => PathInv
  BY InitPathInv
<1>2. PathInv /\ [Next]_vars => PathInv'
  BY SendToWebInv, WebRefusesInv, WebForwardsInv, WebAnswersInv, NetworkFailsInv,
     SendToHostedInv, HostedRefusesInv, HostedAcceptsInv, HostedAnswersInv, VerifyInv,
     InspectsLogInv, StoreReceiptInv, StoreFailsInv, PageShowsInv, RereadInv, UpdateInv,
     StutterPathInv
  DEF Next
<1> QED BY <1>1, <1>2, PTL DEF Spec

-----------------------------------------------------------------------------
(* What follows from it.                                                   *)

LEMMA PathTypeOK == PathInv => TypeOK
<1> SUFFICES ASSUME PathInv PROVE TypeOK
  OBVIOUS
<1>1. /\ stage \in {"start", "web", "hosted", "verifying", "inspecting", "persisting",
                    "replied", "answered", "shown", "reread", "turned down"}
      /\ trouble \subseteq {"network", "database", "update"} /\ updates \in 0..MaxUpdates
  BY DEF PathInv, SettingsFit
<1>2. refused \in Refusals \cup {None} /\ status \in Statuses \cup {None}
  BY DEF PathInv, RefusalsFit, StatusFits
<1>3. input = None <=> supplied = None
  <2>1. None \notin SecretValues \cup {"none", "stripped"}
    BY NoneAssumption
  <2> QED BY <2>1 DEF PathInv, InputFits
<1>4. answering \in Clusters \cup {None}
  BY DEF PathInv, AcceptedFits
<1>5. request.operation \in {"verify", "inspect"}
  BY RequestParts DEF PathInv, SettingsFit
<1>6. result # None =>
         /\ answering # None
         /\ result \in IF request.operation = "verify" THEN VerificationResults
                       ELSE Inspections
  <2>1. CASE request.operation = "verify"
    BY <2>1, VerdictParts
  <2>2. CASE request.operation = "inspect"
    BY <2>2, InspectionParts
  <2> QED BY <1>5, <2>1, <2>2
<1>7. result # None /\ request.operation = "verify" =>
         (result.receipt = None <=> result.event = NoEvent)
  BY VerdictParts
<1>8. row # None => result # None /\ result.receipt = row.receipt
  BY DEF PathInv, RowFits, BuildReceiptRecord
<1> QED BY <1>1, <1>2, <1>3, <1>4, <1>6, <1>7, <1>8 DEF TypeOK

\* Every variable of the path keeps its type.
THEOREM TypeCorrect == Spec => []TypeOK
BY Invariant, PathTypeOK, PTL

\* No later part turns down what verifyEvent concluded about a request that was
\* accepted, for all texts, spellings and settings.
THEOREM NothingIsTurnedDown == Spec => []OwnWorkIsAccepted
<1>1. PathInv => OwnWorkIsAccepted
  <2> SUFFICES ASSUME PathInv PROVE OwnWorkIsAccepted
    OBVIOUS
  <2>1. TypeOK
    BY PathTypeOK
  <2>2. ASSUME request.operation = "verify", result # None
        PROVE  /\ result.reason # "INVALID_REQUEST"
               /\ refused # None => refused.part = "database"
               /\ status \in {None, 200} \/ trouble # {} \/ refused # None
               /\ stage # "turned down"
    <3>1. result.reason # "INVALID_REQUEST" /\ IsVerificationResult(result)
      BY <2>2, VerdictParts
    <3>2. refused # None => refused.part = "database"
      BY <2>2 DEF PathInv, RefusalsFit
    <3>3. stage # "turned down"
      BY DEF PathInv, SettingsFit
    <3>4. input # None /\ request.to \in {"web", "hosted"}
      BY <2>2, VerdictParts, WorkFits, RequestParts DEF PathInv, SettingsFit
    <3>5. status \in {None, 200} \/ trouble # {} \/ refused # None
      BY <2>2, <3>1, <3>4 DEF PathInv, StatusFits, IsAnswer
    <3> QED BY <3>1, <3>2, <3>3, <3>5
  <2> QED BY <2>1, <2>2 DEF OwnWorkIsAccepted
<1> QED BY <1>1, Invariant, PTL

\* Whatever order the settings are written in, a conclusion about a cluster was
\* read from that cluster.
THEOREM ConclusionsAreReadThere == Spec => []ConclusionsComeFromCluster
<1>1. PathInv => ConclusionsComeFromCluster
  <2> SUFFICES ASSUME PathInv, result # None, result.reason # "RPC_UNAVAILABLE"
               PROVE  answering = request.body.cluster
    BY DEF ConclusionsComeFromCluster
  <2>1. answering # None
    BY DEF PathInv, AcceptedFits
  <2>2. input.cluster = request.body.cluster /\ request.operation \in {"verify", "inspect"}
    BY <2>1, WorkFits
  <2> QED BY <2>2, VerdictParts, InspectionParts DEF Concluded
<1> QED BY <1>1, Invariant, PTL

-----------------------------------------------------------------------------
(* Sound requests.                                                         *)

\* The body a sound request has once its blanks are gone differs in no more
\* than the signature.
LEMMA TrimmedBody ==
    ASSUME request \in Requests
    PROVE  LET body == [request.body EXCEPT !.signature = Trim(@)]
           IN /\ body.signature = Trim(request.body.signature)
              /\ body.signature.core = request.body.signature.core
              /\ body.cluster = request.body.cluster
              /\ request.operation = "verify" =>
                    /\ WellFormed(body) <=> WellFormed(request.body)
                    /\ body.program = request.body.program
              /\ request.operation = "inspect" => body.more = request.body.more
<1>1. CASE request.operation = "verify"
  <2>1. PICK r \in VerifyBodies(Clusters) : r = request.body
    BY <1>1, RequestParts
  <2>2. Trim(r.signature).core = r.signature.core
    BY VerifyBodyParts, TrimFits
  <2>3. PICK body : body = [r EXCEPT !.signature = Trim(@)]
    OBVIOUS
  <2>4. /\ body.signature = Trim(r.signature) /\ body.program = r.program
        /\ body.cluster = r.cluster /\ body.format = r.format
        /\ body.discriminator = r.discriminator /\ body.commitment = r.commitment
        /\ body.rpcUrl = r.rpcUrl
    BY <2>3 DEF VerifyBodies
  <2>5. WellFormed(body) <=> WellFormed(r)
    BY <2>4 DEF WellFormed
  <2> QED BY <1>1, <2>1, <2>2, <2>3, <2>4, <2>5
<1>2. CASE request.operation = "inspect"
  <2>1. PICK r \in InspectBodies : r = request.body
    BY <1>2, RequestParts
  <2>2. Trim(r.signature).core = r.signature.core
    BY TrimFits DEF InspectBodies
  <2> QED BY <1>2, <2>1, <2>2, InspectTrimFits
<1> QED BY <1>1, <1>2, RequestParts

\* The web route finds no fault with a sound request, and forwards what the
\* hosted function accepts.
LEMMA SoundIsForwarded ==
    ASSUME request \in Requests, request.to = "web", SoundRequest
    PROVE  ~AtFault /\ Accepted(Sent)
<1>1. PICK body : body = [request.body EXCEPT !.signature = Trim(@)]
  OBVIOUS
<1>2. /\ request.flaw = "none" /\ BoundedString(body.signature)
      /\ IF request.operation = "verify"
           THEN ValidateVerifyEventInput(body) /\ BoundedString(body.program)
           ELSE ValidateInspectTransactionInput(body) /\ body.signature.core # "almost"
  BY <1>1 DEF SoundRequest
<1>3. body.signature = Trim(request.body.signature)
      /\ body.signature.core = request.body.signature.core
      /\ body.cluster = request.body.cluster
  BY <1>1, TrimmedBody
<1>4. CASE request.operation = "verify"
  <2>1. PICK r \in VerifyBodies(Clusters) : r = request.body
    BY <1>4, RequestParts
  <2>2. /\ WellFormed(r) /\ BoundedString(r.signature) /\ BoundedString(r.program)
    BY <1>1, <1>2, <1>3, <1>4, <2>1, TrimmedBody
    DEF ValidateVerifyEventInput, BoundedString
  <2>3. ~AtFault
    BY <1>2, <1>4, <2>1, <2>2 DEF AtFault, WebValidates, ValidateBrowserVerifyEventInput
  <2>4. PICK q : q = BrowserInput(r)
    OBVIOUS
  <2>5. /\ q.signature = Trim(r.signature) /\ q.program = Trim(r.program)
        /\ q.cluster = r.cluster /\ q.format = r.format
        /\ q.discriminator = r.discriminator /\ q.rpcUrl = r.rpcUrl
        /\ q.commitment = "finalized"
    BY <2>4, BrowserInputFits
  <2>6. q.signature.core = r.signature.core /\ q.program.core = r.program.core
    <3>1. /\ Trim(r.signature).core = r.signature.core
          /\ Trim(r.program).core = r.program.core
      BY VerifyBodyParts, TrimFits
    <3> QED BY <2>5, <3>1
  <2>7. ValidateVerifyEventInput(q)
    BY <2>2, <2>5, <2>6
    DEF ValidateVerifyEventInput, WellFormed, IsNonEmptyString, BoundedString
  <2>8. Sent = q
    BY <1>4, <2>1, <2>4 DEF Sent, Forwarded
  <2> QED BY <1>4, <2>3, <2>7, <2>8 DEF Accepted
<1>5. CASE request.operation = "inspect"
  <2>1. PICK r \in InspectBodies : r = request.body
    BY <1>5, RequestParts
  <2>2. body.more = r.more /\ body.signature \in Texts(Signatures)
    BY <1>1, <1>3, <1>5, <2>1, TrimmedBody, TrimFits DEF InspectBodies
  <2>3. ValidateInspectTransactionInput(body)
    BY <1>2, <1>5
  <2>4. ~r.more /\ r.cluster # "unknown" /\ r.signature.core \in Signatures
    BY <1>2, <1>3, <1>5, <2>1, <2>2, <2>3 DEF ValidateInspectTransactionInput
  <2>5. ~AtFault
    BY <1>2, <1>5, <2>1, <2>4 DEF AtFault, WebValidates, ValidateBrowserInspectTransactionInput
  <2>6. Sent = body
    BY <1>1, <1>5 DEF Sent, Forwarded
  <2> QED BY <1>5, <2>3, <2>5, <2>6 DEF Accepted
<1> QED BY <1>4, <1>5, RequestParts

\* Over sound settings the hosted function then works on it.
LEMMA SoundIsAccepted ==
    ASSUME PathInv, request.to = "web", SoundRequest, SoundSettings, Settled, input # None
    PROVE  HostedFailure = None
<1>1. request \in Requests /\ input = Sent /\ supplied = HeaderValue(web.secret)
  BY DEF PathInv, SettingsFit, InputFits
<1>2. Accepted(input)
  BY <1>1, SoundIsForwarded
<1>3. Admitted
  BY <1>1 DEF Admitted, Flaw, SoundSettings, HeaderValue, HoldsSecret, Authenticates
<1>4. EndpointFound
  <2> SUFFICES ASSUME input.cluster \in Clusters
               PROVE  AppliesServerRpcUrl(input.cluster, hosted)
    BY DEF EndpointFound
  <2>1. hosted.rpc[input.cluster] # "unusable" /\ hosted.legacy # "unusable"
    BY DEF SoundSettings
  <2>2. Addressed(input.cluster, hosted) # "unusable"
    BY <2>1 DEF Addressed
  <2> QED BY <2>2 DEF AppliesServerRpcUrl, SoundSettings
<1> QED BY <1>1, <1>2, <1>3, <1>4, HostedFailureFits

\* The page's user is told to mend a request only if it is at fault, and a
\* sound request over sound settings is served unless something failed or was
\* replaced meanwhile.
THEOREM SoundRequestsServed == Spec => []SoundRequestsAreServed
<1>1. PathInv => SoundRequestsAreServed
  <2> SUFFICES ASSUME PathInv, request.to = "web", SoundRequest, status # None
               PROVE  /\ status \notin 400..499
                      /\ SoundSettings /\ trouble = {} => status = 200 \/ TurnedDown
    BY DEF SoundRequestsAreServed
  <2>1. request \in Requests
    BY DEF PathInv, SettingsFit
  <2>2. ~AtFault
    BY <2>1, SoundIsForwarded
  <2>3. \/ status = 200
        \/ /\ status = 502
           /\ \/ "network" \in trouble \/ refused # None
              \/ result # None /\ ~IsAnswer(result)
        \/ input = None /\ status = 503 /\ (Settled => ~AdapterConfigured)
    BY <2>2 DEF PathInv, StatusFits
  <2>4. status \notin 400..499
    BY <2>3
  <2>5. ASSUME SoundSettings, trouble = {}, status # 200
        PROVE  TurnedDown
    <3>1. Settled /\ AdapterConfigured
      BY <2>5 DEF Settled, SoundSettings, AdapterConfigured, IsSet, HoldsSecret,
                  ParsesAsServiceUrl, ParsesAsAppUrl
    <3>2. refused = None
      <4> SUFFICES ASSUME refused # None PROVE FALSE
        OBVIOUS
      <4>1. input # None
        BY DEF PathInv, InputFits
      <4>2. HostedFailure = None
        BY <2>5, <3>1, <4>1, SoundIsAccepted
      <4>3. hosted.database
        BY <2>5 DEF SoundSettings
      <4> QED BY <2>5, <3>1, <4>2, <4>3 DEF PathInv, RefusalsFit
    <3>3. result # None /\ ~IsAnswer(result)
      BY <2>3, <2>5, <3>1, <3>2
    <3>4. request.operation = "inspect"
      BY <2>1, <3>3, RequestParts, VerdictParts DEF IsAnswer
    <3> QED BY <3>3, <3>4 DEF IsAnswer, TurnedDown
  <2> QED BY <2>4, <2>5
<1> QED BY <1>1, Invariant, PTL

-----------------------------------------------------------------------------
(* Anchor events.                                                          *)

\* The total of one size is that size.
LEMMA TotalOfOne ==
    ASSUME NEW line \in Seq(Nat), Len(line) = 1
    PROVE  Total(line) = line[1]
<1>1. Total(line) = MapThenFoldSet(+, 0, LAMBDA i : line[i],
                                  LAMBDA s : CHOOSE x \in s : TRUE, DOMAIN line)
  BY DEF Total, FoldSeq, FoldFunction, FoldFunctionOnSet
<1>2. DOMAIN line = {1} /\ line[1] \in Nat
  <2>1. DOMAIN line = 1..1
    OBVIOUS
  <2>2. 1..1 = {1}
    OBVIOUS
  <2>3. line[1] \in Nat
    <3>1. 1 \in 1..Len(line)
      OBVIOUS
    <3> QED BY <3>1, ElementOfSeq
  <2> QED BY <2>1, <2>2, <2>3
<1> DEFINE Iterates(h) ==
        h = [s \in SUBSET {1} |->
               IF s = {} THEN 0
               ELSE line[CHOOSE x \in s : TRUE] + h[s \ {CHOOSE x \in s : TRUE}]]
      sum == [s \in SUBSET {1} |-> IF s = {} THEN 0 ELSE line[1]]
      iter == CHOOSE h : Iterates(h)
<1>3. MapThenFoldSet(+, 0, LAMBDA i : line[i], LAMBDA s : CHOOSE x \in s : TRUE, {1})
         = iter[{1}]
  BY Zenon DEF MapThenFoldSet
<1>4. Iterates(sum)
  <2>1. \A s \in SUBSET {1} : s = {} \/ s = {1}
    OBVIOUS
  <2>2. (CHOOSE x \in {1} : TRUE) = 1
    OBVIOUS
  <2>3. {1} \ {1} = {}
    OBVIOUS
  <2>4. sum[{}] = 0 /\ sum[{1}] = line[1]
    OBVIOUS
  <2>5. ASSUME NEW s \in SUBSET {1}
        PROVE  sum[s] = IF s = {} THEN 0
                        ELSE line[CHOOSE x \in s : TRUE] + sum[s \ {CHOOSE x \in s : TRUE}]
    <3>1. CASE s = {}
      BY <2>4, <3>1
    <3>2. CASE s = {1}
      <4>1. sum[s] = line[1] /\ s # {} /\ (CHOOSE x \in s : TRUE) = 1
        BY <2>2, <2>4, <3>2
      <4>2. sum[s \ {CHOOSE x \in s : TRUE}] = 0
        BY <2>2, <2>3, <2>4, <3>2
      <4>3. line[CHOOSE x \in s : TRUE] + sum[s \ {CHOOSE x \in s : TRUE}] = line[1] + 0
        BY <4>1, <4>2, Zenon
      <4>4. line[1] + 0 = line[1]
        BY <1>2
      <4> QED BY <4>1, <4>3, <4>4, Zenon
    <3> QED BY <2>1, <3>1, <3>2
  <2> QED BY <2>5, Zenon
<1>5. Iterates(iter)
  <2>1. \E h : Iterates(h)
    BY <1>4
  <2> HIDE DEF Iterates
  <2> QED BY <2>1
<1>6. iter[{1}] = line[1]
  <2>1. /\ (CHOOSE x \in {1} : TRUE) = 1 /\ {1} \ {1} = {}
        /\ {} \in SUBSET {1} /\ {1} \in SUBSET {1} /\ {1} # {}
    OBVIOUS
  <2> HIDE DEF iter
  <2>2. iter[{}] = 0
    BY <1>5
  <2>3. iter[{1}] = line[CHOOSE x \in {1} : TRUE] + iter[{1} \ {CHOOSE x \in {1} : TRUE}]
    BY <1>5
  <2>4. iter[{1}] = line[1] + iter[{}]
    BY <2>1, <2>3, Zenon
  <2> QED BY <1>2, <2>2, <2>4
<1> QED BY <1>1, <1>2, <1>3, <1>6

\* A line of one slice decodes, passes the pattern, and is as large as the slice.
LEMMA OneSlice ==
    ASSUME NEW line \in Seq(Nat), Len(line) = 1
    PROVE  Decodes(line) /\ IsBase64(line) /\ (IsCandidate(line) <=> line[1] >= 8)
<1>1. DOMAIN line = 1..1 /\ line # <<>>
  <2>1. DOMAIN line = 1..Len(line)
    OBVIOUS
  <2>2. line # <<>>
    <3>1. line = <<>> <=> Len(line) = 0
      BY EmptySeq
    <3>2. Len(line) # 0
      OBVIOUS
    <3> QED BY <3>1, <3>2
  <2> QED BY <2>1, <2>2
<1>2. PaddedAtEnd(line)
  <2>1. \A i, j \in 1..1 : ~(i < j)
    OBVIOUS
  <2> QED BY <1>1, <2>1 DEF PaddedAtEnd
<1>3. Blanks(line) = 0
  BY <1>1 DEF Blanks
<1>4. Size(line) = line[1]
  BY TotalOfOne DEF Size
<1> QED BY <1>2, <1>3, <1>4 DEF Decodes, IsBase64, IsCandidate

\* What a log of single slices may be read as passes the route, by the limits
\* of both, but for the number of programs: no reading offers more candidates,
\* and no line within the bytes of a log is longer than the route allows.
LEMMA ReadingIsTaken ==
    ASSUME NEW log \in Logs, NEW read \in InspectLogs(log),
           \A k \in DOMAIN log.data : Len(log.data[k]) = 1
    PROVE  /\ Cardinality(read.candidates) <= MaxListed
           /\ \A k \in read.candidates : k \in DOMAIN log.data /\ IsLogEventCandidate(log.data[k])
<1>1. /\ log.programs \in Nat /\ log.lines \in Nat /\ log.bytes \in Nat
      /\ \A k \in DOMAIN log.data : log.data[k] \in Seq(Nat)
  BY LogsAssumption DEF LogRecords
<1>2. CASE ReadsToTheEnd(log)
  <2>1. read.candidates = Candidates(log)
    BY <1>2, ReadingFits
  <2>2. Cardinality(read.candidates) <= MaxListed
    BY <1>2, <2>1 DEF ReadsToTheEnd, MaxCandidates, MaxListed
  <2>3. ASSUME NEW k \in read.candidates
        PROVE  k \in DOMAIN log.data /\ IsLogEventCandidate(log.data[k])
    <3>1. k \in DOMAIN log.data
      BY <2>1 DEF Candidates
    <3>2. TextLength(log.data[k]) \in 0..log.bytes
      BY <3>1, LogsAssumption
    <3>3. log.bytes <= 262144
      BY <1>2 DEF ReadsToTheEnd, MaxBytes
    <3>4. TextLength(log.data[k]) <= MaxDataChars
      BY <1>1, <3>2, <3>3 DEF MaxDataChars
    <3> QED BY <1>1, <3>1, <3>4, OneSlice DEF IsLogEventCandidate
  <2> QED BY <2>2, <2>3
<1>3. CASE ~ReadsToTheEnd(log)
  <2>1. read.candidates = {}
    BY <1>3, ReadingFits
  <2>2. Cardinality({}) = 0
    BY FS_EmptySet
  <2> QED BY <2>1, <2>2 DEF MaxListed
<1> QED BY <1>2, <1>3

\* The reader's limits and the route's agree on every log of Anchor events,
\* whatever the number, sizes and paddings of the events, but for a 129th program.
THEOREM LimitsAgree == Spec => []InspectionLimitsAgree
<1>1. PathInv => InspectionLimitsAgree
  <2> SUFFICES ASSUME PathInv, request.operation = "inspect", result # None,
                      status # None, result.logsStatus # "unavailable", trouble = {},
                      OneSliceLines
               PROVE  LET events == {k \in DOMAIN result.log.data : result.log.data[k][1] >= 8}
                          within == /\ result.log.whole /\ result.log.lines <= 2048
                                    /\ result.log.bytes <= 262144
                                    /\ result.log.programs <= 128
                                    /\ Cardinality(events) <= 128
                      IN /\ status = IF request.to = "web" /\ result.invoked > 128
                                        THEN 502 ELSE 200
                         /\ result.candidates = IF within THEN events ELSE {}
    BY DEF InspectionLimitsAgree
  <2>1. PICK log \in Logs : log = result.log
    BY InspectionParts
  <2>2. PICK read \in InspectLogs(log) :
              result.invoked = read.invoked /\ result.candidates = read.candidates
    BY <2>1, InspectionParts
  <2>3. /\ \A k \in DOMAIN log.data : Len(log.data[k]) = 1
        /\ \A k \in DOMAIN log.data : log.data[k] \in Seq(Nat)
    BY <2>1, LogsAssumption DEF OneSliceLines, LogRecords
  <2>4. IsAnswer(result) <=> ~(result.invoked > 128)
    <3>1. /\ Cardinality(result.candidates) <= MaxListed
          /\ \A k \in result.candidates : IsLogEventCandidate(result.log.data[k])
      BY <2>1, <2>2, <2>3, ReadingIsTaken
    <3>2. result.invoked \in Nat
      BY <2>2, ReadingFits
    <3> QED BY <3>1, <3>2 DEF IsAnswer, IsTransactionInspection, MaxListed
  <2>5. status = IF request.to = "web" /\ result.invoked > 128 THEN 502 ELSE 200
    <3>1. refused = None
      BY DEF PathInv, RefusalsFit
    <3>2. input # None /\ request.to \in {"web", "hosted"}
      BY InspectionParts, WorkFits, RequestParts DEF PathInv, SettingsFit
    <3> QED BY <2>4, <3>1, <3>2 DEF PathInv, StatusFits
  <2> DEFINE events == {k \in DOMAIN log.data : log.data[k][1] >= 8}
             within == /\ log.whole /\ log.lines <= 2048 /\ log.bytes <= 262144
                       /\ log.programs <= 128 /\ Cardinality(events) <= 128
  <2>6. Candidates(log) = events
    BY <2>3, OneSlice DEF Candidates
  <2>7. within <=> ReadsToTheEnd(log)
    <3>1. \A k \in DOMAIN log.data : Decodes(log.data[k])
      BY <2>3, OneSlice
    <3> HIDE DEF events
    <3> QED BY <2>3, <2>6, <3>1
            DEF ReadsToTheEnd, MaxLines, MaxBytes, MaxPrograms, MaxCandidates
  <2>8. read.candidates = IF within THEN events ELSE {}
    <3> HIDE DEF events, within
    <3> QED BY <2>6, <2>7, ReadingFits
  <2> QED BY <2>1, <2>2, <2>5, <2>8
<1> QED BY <1>1, Invariant, PTL
==============================================================================
