------------------------- MODULE InspectTransaction -------------------------
(***************************************************************************)
(* inspectTransaction (packages/sdk/src/inspect-transaction.ts) beside     *)
(* verifyEvent: the verify page first inspects a transaction, offers the   *)
(* events found, and then has one of them verified.  Both calls fetch in   *)
(* the same way (VerifyEvent), each for itself, while the cluster moves    *)
(* on.  What inspectLogs makes of a log is in InspectLogs and LogReading;  *)
(* here a whole log gives its events and a cut one is incomplete.          *)
(***************************************************************************)
EXTENDS VerifyEvent

CONSTANT Inspection   \* stands for the request of a call that inspects

ASSUME InspectionAssumption == Inspection \notin Requests \cup {None}

VARIABLE inspections  \* history: what calls that inspected returned

inspectVars == <<vars, inspections>>

InspectInit == Init /\ inspections = {}

\* Mutant: a transaction that is only confirmed is inspected like a final one.
MutInspectedReason(st, tx, finality, logsStatus) ==
    IF tx = None
      THEN IF st # None /\ finality # "finalized" THEN "TX_NOT_FINALIZED" ELSE "TX_NOT_FOUND"
    ELSE IF tx.meta = None THEN "METADATA_MISSING"
    ELSE IF tx.meta.logMessages = None THEN "LOGS_UNAVAILABLE"
    ELSE IF tx.meta.err THEN "TX_FAILED"
    ELSE IF logsStatus = "incomplete" THEN "LOGS_INCOMPLETE"
    ELSE IF tx.meta.logMessages.events # <<>> THEN "CANDIDATES_FOUND"
    ELSE "NO_SUPPORTED_LOG_EVENT"

\* The reason code of a fetch that succeeded: the early returns, in order.
InspectedReason(st, tx, finality, logsStatus) ==
    IF tx = None
      THEN IF st # None /\ finality # "finalized" THEN "TX_NOT_FINALIZED" ELSE "TX_NOT_FOUND"
    ELSE IF finality # "finalized" THEN "TX_NOT_FINALIZED"
    ELSE IF tx.meta = None THEN "METADATA_MISSING"
    ELSE IF tx.meta.logMessages = None THEN "LOGS_UNAVAILABLE"
    ELSE IF tx.meta.err THEN "TX_FAILED"
    ELSE IF logsStatus = "incomplete" THEN "LOGS_INCOMPLETE"
    ELSE IF tx.meta.logMessages.events # <<>> THEN "CANDIDATES_FOUND"
    ELSE "NO_SUPPORTED_LOG_EVENT"

Outcome(err) == IF err THEN "failed" ELSE "succeeded"

Unavailable ==
    [finality |-> "unknown", execution |-> "unknown", slot |-> None,
     reason |-> "RPC_UNAVAILABLE", logsStatus |-> "unavailable", candidates |-> <<>>]

Invalid == [Unavailable EXCEPT !.reason = "INVALID_REQUEST"]

\* Mutant: the line that says the log was cut is skipped.
MutReadLog(log) == [logsStatus |-> "available", candidates |-> log.events]

ReadLog(log) ==
    [logsStatus |-> IF log.truncated THEN "incomplete" ELSE "available",
     candidates |-> IF log.truncated THEN <<>> ELSE log.events]

Finality(st) ==
    IF st # None /\ st.confirmationStatus # None THEN st.confirmationStatus ELSE "unknown"

\* What the replies of a fetch that succeeded amount to.
Inspected(st, tx) ==
    LET finality == Finality(st)
        read == tx # None /\ finality = "finalized" /\ tx.meta # None
        logs == IF read /\ tx.meta.logMessages # None
                THEN ReadLog(tx.meta.logMessages)
                ELSE [logsStatus |-> "unavailable", candidates |-> <<>>]
    IN [finality   |-> finality,
        execution  |-> IF read THEN Outcome(tx.meta.err)
                       ELSE IF st # None THEN Outcome(st.err) ELSE "unknown",
        slot       |-> IF tx # None THEN tx.slot
                       ELSE IF st # None THEN st.slot ELSE None,
        reason     |-> InspectedReason(st, tx, finality, logs.logsStatus),
        logsStatus |-> logs.logsStatus,
        candidates |-> logs.candidates]

\* A call that inspects: the genesis check leaves first, as in Call, but for a
\* signature or a cluster that is none.
Inspect ==
    /\ phase = "idle" /\ calls < MaxCalls
    /\ calls' = calls + 1
    /\ \/ phase' = "genesis" /\ request' = Inspection /\ UNCHANGED inspections
       \/ inspections' = inspections \cup {Invalid} /\ UNCHANGED <<phase, request>>
    /\ UNCHANGED <<clusterVars, status, transaction, answers>>

ReturnInspection(found) ==
    /\ inspections' = inspections \cup {found}
    /\ phase' = "idle" /\ request' = None
    /\ status' = None /\ transaction' = None
    /\ UNCHANGED <<clusterVars, answers, calls>>

\* The catch block: nothing of what had been read is returned.
InspectionFails ==
    /\ request = Inspection
    /\ phase = "genesis" \/ status = Waiting \/ transaction = Waiting
    /\ ReturnInspection(Unavailable)

ConcludeInspection ==
    /\ request = Inspection
    /\ phase = "reading" /\ status # Waiting /\ transaction # Waiting
    /\ ReturnInspection(IF Inconsistent(status, transaction) THEN Unavailable
                        ELSE Inspected(status, transaction))

InspectNext ==
    \/ Next /\ UNCHANGED inspections
    \/ Inspect \/ InspectionFails \/ ConcludeInspection

\* The timeout of every request fires, and a settled Promise.all is resumed, in
\* a call that inspects as in one that verifies.
InspectSpec ==
    /\ InspectInit /\ [][InspectNext]_inspectVars
    /\ WF_inspectVars((RequestFails /\ UNCHANGED inspections) \/ InspectionFails)
    /\ WF_inspectVars((Conclude /\ UNCHANGED inspections) \/ ConcludeInspection)

-----------------------------------------------------------------------------
InspectTypeOK ==
    /\ ClusterTypeOK /\ CallTypeOK
    /\ request \in Requests \cup {None, Inspection}
    /\ inspections \subseteq
          [finality: {"processed", "confirmed", "finalized", "unknown"},
           execution: {"succeeded", "failed", "unknown"},
           slot: Slots \cup {None},
           reason: {"CANDIDATES_FOUND", "NO_SUPPORTED_LOG_EVENT", "LOGS_INCOMPLETE",
                    "LOGS_UNAVAILABLE", "METADATA_MISSING", "TX_FAILED",
                    "TX_NOT_FOUND", "TX_NOT_FINALIZED", "RPC_UNAVAILABLE",
                    "INVALID_REQUEST"},
           logsStatus: {"available", "unavailable", "incomplete"},
           candidates: Histories \cup {<<>>}]

\* An inspection that calls a transaction finalized, or finds anything in its
\* log, tells of the landing that is final: its slot, its outcome and every
\* event, whichever forks and lagging nodes answered the two reads; and
\* every variable keeps its type.
InspectionsAreFinal ==
    /\ InspectTypeOK
    /\ \A i \in inspections :
          \/ i.finality = "finalized" \/ i.logsStatus # "unavailable"
          \/ i.reason \in {"TX_FAILED", "METADATA_MISSING", "LOGS_UNAVAILABLE"}
          => /\ latest.state = "finalized"
             /\ i.slot = latest.slot /\ i.execution = Outcome(latest.err)
             /\ i.logsStatus = "available" => i.candidates = latest.events
             /\ i.logsStatus # "available" => i.candidates = <<>>

\* What an inspection offers can be relied on: verifying a candidate of a
\* successful transaction is never answered with "rejected", and nothing that
\* was not offered is ever verified, however late the second fetch is (for
\* logs that reach the verification whole).
OfferedCandidateVerifies ==
    \A i \in inspections, answer \in answers :
        LET res == answer.result
            offered == \E k \in DOMAIN i.candidates :
                /\ i.candidates[k].emitter = answer.request.program
                /\ DiscOf[i.candidates[k].data] = answer.request.discriminator
        IN i.reason \in {"CANDIDATES_FOUND", "NO_SUPPORTED_LOG_EVENT"} /\ res.whole
           => (res.verdict = "verified" <=> offered)
=============================================================================
