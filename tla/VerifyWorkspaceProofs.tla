----------------------- MODULE VerifyWorkspaceProofs -----------------------
(***************************************************************************)
(* What the verify page shows always belongs to what is in its fields, for *)
(* all texts, cleanings and results.  The argument is about the request in *)
(* flight: every handler is guarded by `submitting', so that while one is  *)
(* out the fields cannot move away from it and no outcome is shown beside  *)
(* it; the answer that comes back is then about the fields as they are.    *)
(***************************************************************************)
EXTENDS VerifyWorkspace, TLAPS

\* The request in flight is the one the fields make, and what it will decide
\* is not on the page.
FlightFits ==
    \A p \in pending :
        /\ error = None /\ verification = None
        /\ p.phase = "inspection" =>
              /\ inspection = None /\ selected = None
              /\ p.request = normalizeInspectionRequest(request)
        /\ p.phase = "verification" =>
              /\ inspection # None
              /\ p.request = normalizeRequest(request)

IInv == OutcomesBelongToFields /\ ErrorExcludesVerdict /\ FlightFits

-----------------------------------------------------------------------------
LEMMA Normalized ==
    ASSUME NEW r \in Request
    PROVE  /\ normalizeRequest(r) \in Request
           /\ normalizeRequest(r) =
                 [signature |-> Clean[r.signature], cluster |-> r.cluster,
                  program |-> Clean[r.program], discriminator |-> Clean[r.discriminator]]
           /\ normalizeRequest(normalizeRequest(r)) = normalizeRequest(r)
           /\ Clean[Clean[r.signature]] = Clean[r.signature]
           /\ Clean[r.signature] \in SignatureTexts
<1>1. /\ r.signature \in SignatureTexts /\ r.cluster \in Clusters
      /\ r.program \in ProgramTexts /\ r.discriminator \in DiscriminatorTexts
  BY DEF Request
<1>2. /\ Clean[r.signature] \in SignatureTexts /\ Clean[r.program] \in ProgramTexts
      /\ Clean[r.discriminator] \in DiscriminatorTexts
      /\ Clean[Clean[r.signature]] = Clean[r.signature]
      /\ Clean[Clean[r.program]] = Clean[r.program]
      /\ Clean[Clean[r.discriminator]] = Clean[r.discriminator]
  <2>1. r.signature \in Texts /\ r.program \in Texts /\ r.discriminator \in Texts
    BY <1>1 DEF Texts
  <2> QED BY <1>1, <2>1, WorkspaceAssumption
<1>3. ASSUME NEW x \in Request,
             /\ Clean[x.signature] \in SignatureTexts /\ Clean[x.program] \in ProgramTexts
             /\ Clean[x.discriminator] \in DiscriminatorTexts
      PROVE  /\ normalizeRequest(x) \in Request
             /\ normalizeRequest(x).signature = Clean[x.signature]
             /\ normalizeRequest(x).cluster = x.cluster
             /\ normalizeRequest(x).program = Clean[x.program]
             /\ normalizeRequest(x).discriminator = Clean[x.discriminator]
  BY <1>3 DEF normalizeRequest, Request
<1>4. PICK q \in Request :
         /\ q = normalizeRequest(r)
         /\ q.signature = Clean[r.signature] /\ q.cluster = r.cluster
         /\ q.program = Clean[r.program] /\ q.discriminator = Clean[r.discriminator]
  BY <1>2, <1>3
<1>5. q = [signature |-> Clean[r.signature], cluster |-> r.cluster,
           program |-> Clean[r.program], discriminator |-> Clean[r.discriminator]]
  BY <1>4 DEF Request
<1>6. normalizeRequest(q) = q
  <2>1. PICK n \in Request :
           /\ n = normalizeRequest(q)
           /\ n.signature = Clean[q.signature] /\ n.cluster = q.cluster
           /\ n.program = Clean[q.program] /\ n.discriminator = Clean[q.discriminator]
    BY <1>2, <1>3, <1>4
  <2>2. /\ n.signature = q.signature /\ n.cluster = q.cluster
        /\ n.program = q.program /\ n.discriminator = q.discriminator
    BY <1>2, <1>4, <2>1
  <2>3. n = q
    BY <2>2 DEF Request
  <2> QED BY <2>1, <2>3
<1> QED BY <1>2, <1>4, <1>5, <1>6

LEMMA InitInv == Init => IInv
<1> SUFFICES ASSUME Init PROVE IInv
  OBVIOUS
<1> USE DEF Init
<1>1. TypeOK
  BY WorkspaceAssumption, NoneAssumption DEF TypeOK
<1>2. OutcomesBelongToFields
  BY <1>1 DEF OutcomesBelongToFields
<1>3. ErrorExcludesVerdict
  BY NoneAssumption DEF ErrorExcludesVerdict
<1> QED BY <1>2, <1>3 DEF IInv, FlightFits

\* What the page guards: with no request shown as in flight there is none.
LEMMA Idle ==
    ASSUME IInv, ~submitting
    PROVE  pending = {} /\ loading = None
BY DEF IInv, OutcomesBelongToFields, TypeOK

\* With one in flight it is the only one, and nothing is shown beside it.
LEMMA InFlight ==
    ASSUME IInv, NEW p \in pending
    PROVE  /\ pending = {p} /\ submitting /\ error = None /\ verification = None
           /\ p \in [phase: {"inspection"}, request: InspectionRequest]
                    \cup [phase: {"verification"}, request: VerificationRequest]
BY DEF IInv, OutcomesBelongToFields, TypeOK, FlightFits

-----------------------------------------------------------------------------
(* One lemma per handler.                                                  *)

\* A handler that only moves the fields and clears every outcome.
LEMMA ClearsInv ==
    ASSUME IInv, ~submitting, clearOutcomes, request' \in Request,
           UNCHANGED <<loading, submitting, pending>>,
           example' \in {"success", "failure", None},
           example' # None => request' = Example[example']
    PROVE  IInv'
<1>1. pending = {} /\ loading = None /\ pending' = {} /\ loading' = None /\ ~submitting'
  BY Idle
<1>2. inspection' = None /\ verification' = None /\ selected' = None /\ error' = None
  BY DEF clearOutcomes
<1>3. TypeOK'
  BY <1>1, <1>2 DEF TypeOK
<1>4. OutcomesBelongToFields'
  BY <1>2, <1>3 DEF OutcomesBelongToFields
<1>5. ErrorExcludesVerdict'
  BY <1>1, <1>2, NoneAssumption DEF ErrorExcludesVerdict
<1> QED BY <1>1, <1>4, <1>5 DEF IInv, FlightFits

LEMMA FieldsInv ==
    ASSUME IInv, NEW program \in ProgramTexts, NEW discriminator \in DiscriminatorTexts,
           updateVerificationFields(program, discriminator)
    PROVE  IInv'
<1>1. /\ ~submitting /\ inspection # None
      /\ request' = [request EXCEPT !.program = program, !.discriminator = discriminator]
      /\ selected' = None /\ verification' = None /\ error' = None /\ example' = None
      /\ UNCHANGED <<inspection, loading, submitting, pending>>
  BY DEF updateVerificationFields
<1>2. OutcomesBelongToFields /\ TypeOK
  BY DEF IInv, OutcomesBelongToFields
<1>3. pending' = {} /\ loading' = None /\ ~submitting'
  BY <1>1, Idle
<1>4. /\ request' \in Request
      /\ request'.signature = request.signature /\ request'.cluster = request.cluster
  BY <1>1, <1>2 DEF TypeOK, Request
<1>5. TypeOK'
  BY <1>1, <1>2, <1>3, <1>4 DEF TypeOK
<1>6. normalizeInspectionRequest(request') = normalizeInspectionRequest(request)
  BY <1>4 DEF normalizeInspectionRequest
<1>7. OutcomesBelongToFields'
  BY <1>1, <1>2, <1>5, <1>6 DEF OutcomesBelongToFields
<1>8. ErrorExcludesVerdict'
  BY <1>1, NoneAssumption DEF ErrorExcludesVerdict
<1> QED BY <1>3, <1>7, <1>8 DEF IInv, FlightFits

LEMMA ChooseInv ==
    ASSUME IInv, NEW position \in 0..MaxCandidates, chooseCandidate(position)
    PROVE  IInv'
<1>1. /\ ~submitting /\ inspection # None
      /\ position \in inspection.result.candidates
      /\ selected' = position /\ verification' = None /\ error' = None
      /\ UNCHANGED <<request, inspection, loading, submitting, example, pending>>
  BY DEF chooseCandidate
<1>2. OutcomesBelongToFields /\ TypeOK
  BY DEF IInv, OutcomesBelongToFields
<1>3. pending' = {} /\ loading' = None /\ ~submitting'
  BY <1>1, Idle
<1>4. TypeOK'
  BY <1>1, <1>2, <1>3 DEF TypeOK
<1>5. OutcomesBelongToFields'
  BY <1>1, <1>2, <1>4 DEF OutcomesBelongToFields
<1>6. ErrorExcludesVerdict'
  BY <1>1, NoneAssumption DEF ErrorExcludesVerdict
<1> QED BY <1>3, <1>5, <1>6 DEF IInv, FlightFits

LEMMA SubmitInspectionInv ==
    ASSUME IInv, submitInspection
    PROVE  IInv'
<1> DEFINE submitted == normalizeInspectionRequest(request)
           p == [phase |-> "inspection", request |-> submitted]
<1>1. /\ ~submitting /\ submitted.signature \in Signatures
      /\ request' = [request EXCEPT !.signature = submitted.signature]
      /\ submitting' = TRUE /\ loading' = "inspection"
      /\ error' = None /\ verification' = None
      /\ pending' = pending \cup {p}
      /\ inspection' = None /\ selected' = None /\ example' = example
  BY DEF submitInspection, Submit
<1>2. OutcomesBelongToFields /\ TypeOK /\ request \in Request
  BY DEF IInv, OutcomesBelongToFields, TypeOK
<1>3. pending' = {p}
  BY <1>1, Idle
<1>4. submitted = [signature |-> Clean[request.signature], cluster |-> request.cluster]
  BY DEF normalizeInspectionRequest
<1>5. submitted \in InspectionRequest
  BY <1>1, <1>2, <1>4 DEF InspectionRequest, Request
<1>6. p \in [phase: {"inspection"}, request: InspectionRequest]
  BY <1>5
<1>7. /\ request' \in Request
      /\ request' = [signature |-> Clean[request.signature], cluster |-> request.cluster,
                     program |-> request.program, discriminator |-> request.discriminator]
  <2>1. Clean[request.signature] \in SignatureTexts
    BY <1>2, Normalized
  <2> QED BY <1>1, <1>2, <1>4, <2>1 DEF Request
<1>8. /\ normalizeInspectionRequest(request') = submitted
      /\ normalizeRequest(request') = normalizeRequest(request)
  <2>1. Clean[Clean[request.signature]] = Clean[request.signature]
    BY <1>2, Normalized
  <2>2. normalizeInspectionRequest(request') = submitted
    BY <1>4, <1>7, <2>1 DEF normalizeInspectionRequest
  <2>3. normalizeRequest(request') = normalizeRequest(request)
    BY <1>2, <1>7, <2>1, Normalized
  <2> QED BY <2>2, <2>3
<1>9. TypeOK'
  <2>1. pending' \subseteq [phase: {"inspection"}, request: InspectionRequest]
                           \cup [phase: {"verification"}, request: VerificationRequest]
    BY <1>3, <1>6
  <2>2. /\ submitting' <=> pending' # {}
        /\ \A q \in pending' : pending' = {q} /\ q.phase = loading'
    <3>1. p.phase = loading'
      BY <1>1
    <3>2. submitting'
      BY <1>1, Zenon
    <3> HIDE DEF p
    <3> QED BY <1>3, <3>1, <3>2
  <2> QED BY <1>1, <1>2, <1>7, <2>1, <2>2, NoneAssumption DEF TypeOK
<1>10. OutcomesBelongToFields'
  BY <1>1, <1>2, <1>8, <1>9 DEF OutcomesBelongToFields
<1>11. ErrorExcludesVerdict'
  BY <1>1, NoneAssumption DEF ErrorExcludesVerdict
<1>12. FlightFits'
  BY <1>1, <1>3, <1>8 DEF FlightFits
<1> QED BY <1>10, <1>11, <1>12 DEF IInv

LEMMA SubmitVerificationInv ==
    ASSUME IInv, submitVerification
    PROVE  IInv'
<1> DEFINE submitted == normalizeRequest(request)
           p == [phase |-> "verification", request |-> submitted]
<1>1. /\ ~submitting /\ inspection # None
      /\ submitted.program \in Programs /\ submitted.discriminator \in Discriminators
      /\ request' = submitted
      /\ submitting' = TRUE /\ loading' = "verification"
      /\ error' = None /\ verification' = None
      /\ pending' = pending \cup {p}
      /\ inspection' = inspection /\ selected' = selected /\ example' = example
  BY DEF submitVerification, Submit
<1>2. OutcomesBelongToFields /\ TypeOK /\ request \in Request
  BY DEF IInv, OutcomesBelongToFields, TypeOK
<1>3. pending' = {p}
  BY <1>1, Idle
<1>4. /\ submitted \in Request
      /\ submitted = [signature |-> Clean[request.signature], cluster |-> request.cluster,
                      program |-> Clean[request.program],
                      discriminator |-> Clean[request.discriminator]]
      /\ normalizeRequest(submitted) = submitted
      /\ Clean[Clean[request.signature]] = Clean[request.signature]
  BY <1>2, Normalized
<1>5. /\ inspection.request = normalizeInspectionRequest(request)
      /\ inspection \in [request: InspectionRequest, result: InspectionResult]
  BY <1>1, <1>2 DEF OutcomesBelongToFields, TypeOK
<1>6. submitted.signature \in Signatures
  <2>1. inspection.request.signature \in Signatures
    BY <1>5 DEF InspectionRequest
  <2>2. inspection.request.signature = Clean[request.signature]
    BY <1>5 DEF normalizeInspectionRequest
  <2> QED BY <1>4, <2>1, <2>2
<1>7. submitted \in VerificationRequest
  BY <1>1, <1>2, <1>4, <1>6 DEF VerificationRequest, Request
<1>8. normalizeInspectionRequest(request') = normalizeInspectionRequest(request)
  BY <1>1, <1>4 DEF normalizeInspectionRequest
<1>9. TypeOK'
  <2> HIDE DEF submitted
  <2>1. pending' \subseteq [phase: {"inspection"}, request: InspectionRequest]
                           \cup [phase: {"verification"}, request: VerificationRequest]
    BY <1>3, <1>7
  <2>2. /\ submitting' <=> pending' # {}
        /\ \A q \in pending' : pending' = {q} /\ q.phase = loading'
    <3>1. p.phase = loading'
      BY <1>1
    <3>2. submitting'
      BY <1>1, Zenon
    <3> HIDE DEF p
    <3> QED BY <1>3, <3>1, <3>2
  <2> QED BY <1>1, <1>2, <1>4, <2>1, <2>2, NoneAssumption DEF TypeOK
<1>10. normalizeRequest(request') = normalizeRequest(request)
  BY <1>1, <1>4
<1>11. OutcomesBelongToFields'
  BY <1>1, <1>2, <1>8, <1>9, <1>10 DEF OutcomesBelongToFields
<1>12. ErrorExcludesVerdict'
  BY <1>1, NoneAssumption DEF ErrorExcludesVerdict
<1>13. FlightFits'
  BY <1>1, <1>3, <1>10 DEF FlightFits
<1> QED BY <1>11, <1>12, <1>13 DEF IInv

LEMMA FailsInv ==
    ASSUME IInv, NEW p \in pending, Fails(p)
    PROVE  IInv'
<1>1. /\ error' = p.phase /\ UNCHANGED <<inspection, verification, selected, request, example>>
      /\ pending' = pending \ {p} /\ ~submitting' /\ loading' = None
  BY DEF Fails, Settle
<1>2. /\ OutcomesBelongToFields /\ TypeOK /\ FlightFits
  BY DEF IInv, OutcomesBelongToFields
<1>3. /\ pending' = {} /\ verification = None
      /\ p.phase = "inspection" \/ p.phase = "verification"
  BY <1>1, InFlight
<1>4. TypeOK'
  BY <1>1, <1>2, <1>3 DEF TypeOK
<1>5. OutcomesBelongToFields'
  BY <1>1, <1>2, <1>4 DEF OutcomesBelongToFields
<1>6. ErrorExcludesVerdict'
  BY <1>1, <1>2, <1>3 DEF ErrorExcludesVerdict, FlightFits
<1> QED BY <1>3, <1>5, <1>6 DEF IInv, FlightFits

LEMMA InspectionArrivesInv ==
    ASSUME IInv, NEW p \in pending, NEW result \in InspectionResult,
           InspectionArrives(p, result)
    PROVE  IInv'
<1>1. /\ p.phase = "inspection" /\ inspectionMatchesRequest(result, p.request)
      /\ inspection' = [request |-> p.request, result |-> result]
      /\ selected' = IF result.candidates = {} THEN selected ELSE 0
      /\ UNCHANGED <<verification, error, request, example>>
      /\ pending' = pending \ {p} /\ ~submitting' /\ loading' = None
  BY DEF InspectionArrives, Settle
<1>2. /\ OutcomesBelongToFields /\ TypeOK /\ FlightFits
  BY DEF IInv, OutcomesBelongToFields
<1>3. /\ pending' = {} /\ verification' = None /\ error' = None
      /\ p.request \in InspectionRequest
  BY <1>1, InFlight
<1>4. selected = None /\ p.request = normalizeInspectionRequest(request)
  BY <1>1, <1>2 DEF FlightFits
<1>5. result.candidates # {} => 0 \in result.candidates
  <2>1. PICK n \in 0..MaxCandidates : result.candidates = 0..(n - 1)
    BY DEF InspectionResult
  <2> QED BY <2>1, WorkspaceAssumption
<1>6. selected' = None \/ (selected' = 0 /\ 0 \in result.candidates)
  BY <1>1, <1>4, <1>5
<1>7. TypeOK'
  <2>1. inspection' \in [request: InspectionRequest, result: InspectionResult]
    BY <1>1, <1>3
  <2>2. selected' \in 0..MaxCandidates \cup {None}
    BY <1>6, WorkspaceAssumption
  <2> QED BY <1>1, <1>2, <1>3, <2>1, <2>2 DEF TypeOK
<1>8. OutcomesBelongToFields'
  <2>1. /\ inspection'.request = p.request /\ inspection'.result = result
    BY <1>1
  <2>2. selected' # None => inspection' # None /\ selected' \in result.candidates
    <3>1. inspection' # None
      BY <1>1, <1>3, NoneAssumption
    <3> QED BY <1>6, <3>1
  <2> QED BY <1>1, <1>2, <1>3, <1>4, <1>7, <2>1, <2>2 DEF OutcomesBelongToFields
<1>9. ErrorExcludesVerdict'
  BY <1>1, <1>3, NoneAssumption DEF ErrorExcludesVerdict
<1> QED BY <1>3, <1>8, <1>9 DEF IInv, FlightFits

LEMMA VerificationArrivesInv ==
    ASSUME IInv, NEW p \in pending, NEW result \in VerificationResult,
           VerificationArrives(p, result)
    PROVE  IInv'
<1>1. /\ p.phase = "verification" /\ resultMatchesRequest(result, p.request)
      /\ verification' = [request |-> p.request, result |-> result]
      /\ UNCHANGED <<inspection, selected, error, request, example>>
      /\ pending' = pending \ {p} /\ ~submitting' /\ loading' = None
  BY DEF VerificationArrives, Settle
<1>2. /\ OutcomesBelongToFields /\ TypeOK /\ FlightFits /\ request \in Request
  BY DEF IInv, OutcomesBelongToFields, TypeOK
<1>3. pending' = {} /\ error' = None /\ p.request \in VerificationRequest
  BY <1>1, InFlight
<1>4. inspection # None /\ p.request = normalizeRequest(request)
  BY <1>1, <1>2 DEF FlightFits
<1>5. /\ p.request.signature = Clean[request.signature]
      /\ p.request.cluster = request.cluster
      /\ p.request.program = Clean[request.program]
  BY <1>2, <1>4, Normalized
<1>6. /\ inspection.request.signature = Clean[request.signature]
      /\ inspection.request.cluster = request.cluster
  BY <1>2, <1>4 DEF OutcomesBelongToFields, normalizeInspectionRequest
<1>7. TypeOK'
  <2>1. verification' \in [request: VerificationRequest, result: VerificationResult]
    BY <1>1, <1>3
  <2> QED BY <1>1, <1>2, <1>3, <2>1 DEF TypeOK
<1>8. OutcomesBelongToFields'
  <2>1. /\ verification'.request = normalizeRequest(request')
        /\ inspectionMatchesRequest(verification'.result, inspection'.request)
        /\ verification'.result.program = Clean[request'.program]
    BY <1>1, <1>4, <1>5, <1>6 DEF resultMatchesRequest, inspectionMatchesRequest
  <2> QED BY <1>1, <1>2, <1>4, <1>7, <2>1 DEF OutcomesBelongToFields
<1>9. ErrorExcludesVerdict'
  BY <1>1, <1>3, NoneAssumption DEF ErrorExcludesVerdict
<1> QED BY <1>3, <1>8, <1>9 DEF IInv, FlightFits

LEMMA StepInv == IInv /\ [Next]_vars => IInv'
<1> SUFFICES ASSUME IInv, [Next]_vars PROVE IInv'
  OBVIOUS
<1>1. request \in Request
  BY DEF IInv, OutcomesBelongToFields, TypeOK
<1>2. ASSUME NEW signature \in SignatureTexts, NEW cluster \in Clusters,
             updateIdentity(signature, cluster)
      PROVE  IInv'
  <2>1. request' \in Request
    BY <1>1, <1>2 DEF updateIdentity, Request
  <2> QED BY <1>2, <2>1, ClearsInv DEF updateIdentity
<1>3. ASSUME NEW kind \in {"success", "failure"}, loadExample(kind) PROVE IInv'
  <2>1. Example[kind] \in Request
    BY WorkspaceAssumption
  <2> QED BY <1>3, <2>1, ClearsInv DEF loadExample
<1>4. CASE UNCHANGED vars
  <2>1. UNCHANGED <<request, inspection, verification, selected, error, loading,
                    submitting, example, pending>>
    BY <1>4 DEF vars, outcomes
  <2> QED BY <2>1 DEF IInv, OutcomesBelongToFields, TypeOK, ErrorExcludesVerdict, FlightFits
<1>5. ASSUME NEW p \in pending,
             \/ Fails(p)
             \/ \E result \in InspectionResult : InspectionArrives(p, result)
             \/ \E result \in VerificationResult : VerificationArrives(p, result)
      PROVE  IInv'
  BY <1>5, FailsInv, InspectionArrivesInv, VerificationArrivesInv
<1> QED BY <1>2, <1>3, <1>4, <1>5, FieldsInv, ChooseInv, SubmitInspectionInv,
           SubmitVerificationInv DEF Next, UserActs, Reply

-----------------------------------------------------------------------------
(* The theorems.                                                           *)

\* Every run of the page keeps its outcomes on its fields and the one request
\* in flight on both: the invariant of the handlers of verify-workspace.tsx.
THEOREM Invariant == Spec => []IInv
<1> QED BY InitInv, StepInv, PTL DEF Spec

\* No late answer, edit, example or choice can leave on the page an inspection
\* of another transaction, a verdict of another identity, or a candidate of
\* another inspection.
THEOREM OutcomesStay == Spec => []OutcomesBelongToFields
<1>1. IInv => OutcomesBelongToFields
  BY DEF IInv
<1> QED BY <1>1, Invariant, PTL

\* An error is never shown beside a verdict, nor while a request is out; one of
\* the inspection leaves nothing to verify, one of the verification leaves the
\* inspection it was asked for.
THEOREM ErrorsStandAlone == Spec => []ErrorExcludesVerdict
<1>1. IInv => ErrorExcludesVerdict
  BY DEF IInv
<1> QED BY <1>1, Invariant, PTL
=============================================================================
