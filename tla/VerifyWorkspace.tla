-------------------------- MODULE VerifyWorkspace --------------------------
(***************************************************************************)
(* The verify page (apps/web/components/verify-workspace.tsx): the fields, *)
(* the inspection of a transaction, the choice of a candidate and the      *)
(* verification, with one request in flight at a time.  React runs a       *)
(* handler, or the code after an await, without interruption and renders   *)
(* before the next one, so each is one step.  A request goes through a web *)
(* route to a hosted function and comes back as a result or as an error,   *)
(* or never: no code of the page or of the routes limits its time.         *)
(***************************************************************************)
EXTENDS Naturals

CONSTANTS
    SignatureTexts, ProgramTexts, DiscriminatorTexts,  \* what the fields hold
    Clean,           \* the text after trimming (and lower-casing)
    Signatures, Programs, Discriminators,  \* the complete ones among them
    Clusters,
    Empty,           \* the request the page starts with
    Example,         \* the requests of the two examples, by kind
    MaxCandidates,   \* bound: candidates in an inspection
    None

Texts == SignatureTexts \cup ProgramTexts \cup DiscriminatorTexts

Request == [signature: SignatureTexts, cluster: Clusters,
            program: ProgramTexts, discriminator: DiscriminatorTexts]

ASSUME WorkspaceAssumption ==
    /\ Signatures \subseteq SignatureTexts
    /\ Programs \subseteq ProgramTexts
    /\ Discriminators \subseteq DiscriminatorTexts
    /\ Clean \in [Texts -> Texts]
    /\ \A x \in SignatureTexts : Clean[x] \in SignatureTexts
    /\ \A x \in ProgramTexts : Clean[x] \in ProgramTexts
    /\ \A x \in DiscriminatorTexts : Clean[x] \in DiscriminatorTexts
    /\ \A x \in Texts : Clean[Clean[x]] = Clean[x]
    /\ Empty \in Request
    /\ Example \in [{"success", "failure"} -> Request]
    /\ MaxCandidates \in Nat

VARIABLES
    request,       \* the fields
    inspection,    \* the inspection shown, with the request it answers
    verification,  \* the verification shown, with the request it answers
    error,         \* the phase that failed, or None
    loading,       \* the phase in flight, as the page shows it
    submitting,    \* the guard every handler looks at
    selected,      \* the position of the chosen candidate
    example,       \* the example the page says it loaded
    pending        \* the requests in flight

outcomes == <<inspection, verification, selected, error>>
vars == <<request, outcomes, loading, submitting, example, pending>>

InspectionRequest == [signature: Signatures, cluster: Clusters]

InspectionResult == [signature: Signatures, cluster: Clusters,
                     candidates: {0..(n - 1) : n \in 0..MaxCandidates}]

VerificationRequest == [signature: Signatures, cluster: Clusters,
                        program: Programs, discriminator: Discriminators]

VerificationResult == [signature: Signatures, cluster: Clusters, program: Programs]

ASSUME NoneAssumption ==
    None \notin {"inspection", "verification"}
                \cup [request: InspectionRequest, result: InspectionResult]

normalizeRequest(r) ==
    [r EXCEPT !.signature = Clean[@], !.program = Clean[@], !.discriminator = Clean[@]]

normalizeInspectionRequest(r) ==
    [signature |-> Clean[r.signature], cluster |-> r.cluster]

inspectionMatchesRequest(result, r) ==
    result.signature = r.signature /\ result.cluster = r.cluster

\* The discriminator and the format are not compared.
resultMatchesRequest(result, r) ==
    /\ result.signature = r.signature /\ result.cluster = r.cluster
    /\ result.program = r.program

Init ==
    /\ request = Empty
    /\ inspection = None /\ verification = None /\ error = None
    /\ loading = None /\ submitting = FALSE /\ selected = None /\ example = None
    /\ pending = {}

-----------------------------------------------------------------------------
(* What the user does to the page.                                         *)

clearOutcomes ==
    inspection' = None /\ verification' = None /\ selected' = None /\ error' = None

\* Mutant: the fields can be edited while a request is in flight.
MutUpdateIdentity(signature, cluster) ==
    /\ request' = [request EXCEPT !.signature = signature, !.cluster = cluster]
    /\ clearOutcomes
    /\ example' = None
    /\ UNCHANGED <<loading, submitting, pending>>

updateIdentity(signature, cluster) ==
    /\ ~submitting
    /\ request' = [request EXCEPT !.signature = signature, !.cluster = cluster]
    /\ clearOutcomes
    /\ example' = None
    /\ UNCHANGED <<loading, submitting, pending>>

\* The fields of the second form, which is there once there is an inspection.
updateVerificationFields(program, discriminator) ==
    /\ ~submitting /\ inspection # None
    /\ request' = [request EXCEPT !.program = program, !.discriminator = discriminator]
    /\ selected' = None /\ verification' = None /\ error' = None
    /\ example' = None
    /\ UNCHANGED <<inspection, loading, submitting, pending>>

loadExample(kind) ==
    /\ ~submitting
    /\ request' = Example[kind]
    /\ clearOutcomes
    /\ example' = kind
    /\ UNCHANGED <<loading, submitting, pending>>

chooseCandidate(position) ==
    /\ ~submitting /\ inspection # None
    /\ position \in inspection.result.candidates
    /\ selected' = position /\ verification' = None /\ error' = None
    /\ UNCHANGED <<request, inspection, loading, submitting, example, pending>>

\* Mutant: a retry leaves the earlier error behind.
MutSubmit(phase, submitted) ==
    /\ submitting' = TRUE
    /\ loading' = phase
    /\ verification' = None
    /\ pending' = pending \cup {[phase |-> phase, request |-> submitted]}
    /\ UNCHANGED error

Submit(phase, submitted) ==
    /\ submitting' = TRUE
    /\ loading' = phase
    /\ error' = None /\ verification' = None
    /\ pending' = pending \cup {[phase |-> phase, request |-> submitted]}

\* An incomplete signature only marks the field.
submitInspection ==
    LET submitted == normalizeInspectionRequest(request)
    IN /\ ~submitting
       /\ submitted.signature \in Signatures
       /\ request' = [request EXCEPT !.signature = submitted.signature]
       /\ Submit("inspection", submitted)
       /\ inspection' = None /\ selected' = None
       /\ UNCHANGED example

submitVerification ==
    LET submitted == normalizeRequest(request)
    IN /\ ~submitting /\ inspection # None
       /\ submitted.program \in Programs
       /\ submitted.discriminator \in Discriminators
       /\ request' = submitted
       /\ Submit("verification", submitted)
       /\ UNCHANGED <<inspection, selected, example>>

-----------------------------------------------------------------------------
(* What comes back.                                                        *)

\* The finally block.
Settle(p) ==
    /\ pending' = pending \ {p}
    /\ submitting' = FALSE /\ loading' = None
    /\ UNCHANGED <<request, example>>

\* The route or the function answers an error, the network fails, the body
\* does not parse, or it is no result.
Fails(p) ==
    /\ p \in pending
    /\ error' = p.phase
    /\ UNCHANGED <<inspection, verification, selected>>
    /\ Settle(p)

\* A result of another request is thrown away: Fails.  The first candidate is
\* selected; inspectLogs numbers them from zero.
InspectionArrives(p, result) ==
    /\ p \in pending /\ p.phase = "inspection"
    /\ inspectionMatchesRequest(result, p.request)
    /\ inspection' = [request |-> p.request, result |-> result]
    /\ selected' = IF result.candidates = {} THEN selected ELSE 0
    /\ UNCHANGED <<verification, error>>
    /\ Settle(p)

VerificationArrives(p, result) ==
    /\ p \in pending /\ p.phase = "verification"
    /\ resultMatchesRequest(result, p.request)
    /\ verification' = [request |-> p.request, result |-> result]
    /\ UNCHANGED <<inspection, selected, error>>
    /\ Settle(p)

Reply ==
    \E p \in pending :
        \/ Fails(p)
        \/ \E result \in InspectionResult : InspectionArrives(p, result)
        \/ \E result \in VerificationResult : VerificationArrives(p, result)

UserActs ==
    \/ \E signature \in SignatureTexts, cluster \in Clusters :
          updateIdentity(signature, cluster)
    \/ \E program \in ProgramTexts, discriminator \in DiscriminatorTexts :
          updateVerificationFields(program, discriminator)
    \/ \E kind \in {"success", "failure"} : loadExample(kind)
    \/ \E position \in 0..MaxCandidates : chooseCandidate(position)
    \/ submitInspection
    \/ submitVerification

Next == UserActs \/ Reply

Spec == Init /\ [][Next]_vars

-----------------------------------------------------------------------------
\* The types; and what the page shows as busy is the one request in flight:
\* `submitting` (tsx 33) admits no second one.
TypeOK ==
    /\ request \in Request
    /\ inspection \in [request: InspectionRequest, result: InspectionResult] \cup {None}
    /\ verification \in [request: VerificationRequest, result: VerificationResult]
                        \cup {None}
    /\ error \in {"inspection", "verification", None}
    /\ selected \in 0..MaxCandidates \cup {None}
    /\ example \in {"success", "failure", None}
    /\ pending \subseteq [phase: {"inspection"}, request: InspectionRequest]
                         \cup [phase: {"verification"}, request: VerificationRequest]
    /\ submitting <=> loading # None
    /\ submitting <=> pending # {}
    /\ \A p \in pending : pending = {p} /\ p.phase = loading

\* What is shown belongs to what is in the fields: an inspection is of the
\* transaction entered, a verification is of that inspected transaction and of
\* the identity entered, an example is named only while it is there, and the
\* candidate chosen is one of the inspection shown.  It takes the guards of
\* every handler: a fetch outlives many renders.  Every variable keeps its type,
\* and what is busy is one request.
OutcomesBelongToFields ==
    /\ TypeOK
    /\ inspection # None =>
          /\ inspection.request = normalizeInspectionRequest(request)
          /\ inspectionMatchesRequest(inspection.result, inspection.request)
    /\ verification # None =>
          /\ inspection # None
          /\ verification.request = normalizeRequest(request)
          /\ inspectionMatchesRequest(verification.result, inspection.request)
          /\ verification.result.program = Clean[request.program]
    /\ example # None => normalizeRequest(request) = normalizeRequest(Example[example])
    /\ selected # None => inspection # None /\ selected \in inspection.result.candidates

\* Mutually exclusive outcomes: an error says that no new verdict was
\* established, so no verdict is there beside it; a failed inspection leaves
\* nothing to verify.
ErrorExcludesVerdict ==
    /\ error # None => verification = None /\ ~submitting
    /\ error = "inspection" => inspection = None
    /\ error = "verification" => inspection # None
=============================================================================
