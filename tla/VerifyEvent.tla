---------------------------- MODULE VerifyEvent ----------------------------
(***************************************************************************)
(* verifyEvent (packages/sdk/src/verify-event.ts) and the evidence it      *)
(* fetches (packages/sdk/src/transaction/fetch.ts): the genesis check,     *)
(* then two requests in flight together, then a conclusion from both       *)
(* replies.  Calls are repeated, as users and webhook redelivery repeat    *)
(* them, while the cluster moves on.  A call keeps no state: `answers' is  *)
(* a history.                                                              *)
(***************************************************************************)
EXTENDS Attribution, SolanaCluster

CONSTANTS
    Requests,   \* [program, discriminator, format] records
    Waiting,    \* a reply that has not arrived
    MaxCalls    \* bound: calls made

ASSUME RequestsAssumption ==
    /\ Requests \subseteq [program: Programs, discriminator: Discriminators,
                           format: {"anchor-log", "anchor-cpi", "unknown"}]
    /\ Histories \subseteq Seq(Event) /\ None \notin Requests

VARIABLES
    phase,        \* "idle", "genesis" or "reading"
    request,      \* the request of the call under way
    status,       \* reply to getSignatureStatuses
    transaction,  \* reply to getTransaction
    answers,      \* history: the conclusive results, with their requests
    calls         \* calls made

callVars == <<phase, request, status, transaction, answers, calls>>
vars == <<clusterVars, callVars>>

CallInit ==
    /\ phase = "idle" /\ request = None
    /\ status = None /\ transaction = None
    /\ answers = {} /\ calls = 0

Conclusive(res) == res.verdict # "indeterminate"

\* verifyEvent returns: no call is under way any more.
Return(r, res) ==
    /\ answers' = IF Conclusive(res)
                  THEN answers \cup {[request |-> r, result |-> res]}
                  ELSE answers
    /\ phase' = "idle" /\ request' = None
    /\ status' = None /\ transaction' = None

NoResult(reason) ==
    [verdict |-> "indeterminate", reason |-> reason, slot |-> None,
     event |-> NoEvent, whole |-> TRUE]

ValidRequest(r) == r.format \in {"anchor-log", "anchor-cpi"}

Call(r) ==
    /\ phase = "idle" /\ calls < MaxCalls
    /\ calls' = calls + 1
    /\ IF ValidRequest(r)
         THEN /\ phase' = "genesis" /\ request' = r
              /\ UNCHANGED <<status, transaction, answers>>
         ELSE Return(r, NoResult("INVALID_REQUEST"))
    /\ UNCHANGED clusterVars

\* The endpoint is on the requested cluster; both requests leave together.
GenesisMatches ==
    /\ phase = "genesis"
    /\ phase' = "reading" /\ status' = Waiting /\ transaction' = Waiting
    /\ UNCHANGED <<clusterVars, request, answers, calls>>

StatusArrives ==
    /\ phase = "reading" /\ status = Waiting
    /\ \E v \in seen : status' \in StatusReplies(v)
    /\ UNCHANGED <<clusterVars, phase, request, transaction, answers, calls>>

TransactionArrives ==
    /\ phase = "reading" /\ transaction = Waiting
    /\ \E v \in seen : transaction' \in TransactionReplies(v)
    /\ UNCHANGED <<clusterVars, phase, request, status, answers, calls>>

\* Mutant: getTransaction has no timeout.
MutRequestFails ==
    /\ request \in Requests
    /\ phase = "genesis" \/ status = Waiting
    /\ Return(request, NoResult("RPC_UNAVAILABLE"))
    /\ UNCHANGED <<clusterVars, calls>>

\* A wrong genesis hash, an HTTP or JSON-RPC error, an invalid or oversized
\* body, or the 15 second timeout.  The first failure settles Promise.all.
RequestFails ==
    /\ request \in Requests
    /\ phase = "genesis" \/ status = Waiting \/ transaction = Waiting
    /\ Return(request, NoResult("RPC_UNAVAILABLE"))
    /\ UNCHANGED <<clusterVars, calls>>

\* Mutant: the slots of the two replies are not compared.
MutInconsistent(st, tx) ==
    st # None /\ tx # None /\ tx.meta # None /\ st.err # tx.meta.err

\* The two replies contradict each other.
Inconsistent(st, tx) ==
    /\ st # None /\ tx # None
    /\ \/ st.slot # tx.slot
       \/ (tx.meta # None /\ st.err # tx.meta.err)

\* Mutant: the confirmation status is not looked at.
MutFetchedReason(r, st, tx) ==
    IF Inconsistent(st, tx) THEN "RPC_UNAVAILABLE"
    ELSE IF tx = None THEN "TX_NOT_FOUND"
    ELSE IF tx.meta = None THEN "METADATA_MISSING"
    ELSE IF tx.meta.err THEN "TX_FAILED"
    ELSE IF tx.meta.logMessages = None THEN "LOGS_UNAVAILABLE"
    ELSE IF r.format = "anchor-cpi" THEN "CPI_EVENT_UNSUPPORTED"
    ELSE Reason(tx.meta.logMessages.events, r.program, r.discriminator)

FetchedReason(r, st, tx) ==
    IF Inconsistent(st, tx) THEN "RPC_UNAVAILABLE"
    ELSE IF tx = None THEN "TX_NOT_FOUND"
    ELSE IF st = None THEN "TX_NOT_FINALIZED"
    ELSE IF st.confirmationStatus # "finalized" THEN "TX_NOT_FINALIZED"
    ELSE IF tx.meta = None THEN "METADATA_MISSING"
    ELSE IF tx.meta.err THEN "TX_FAILED"
    ELSE IF tx.meta.logMessages = None THEN "LOGS_UNAVAILABLE"
    ELSE IF r.format = "anchor-cpi" THEN "CPI_EVENT_UNSUPPORTED"
    ELSE Reason(tx.meta.logMessages.events, r.program, r.discriminator)

Conclusion(r, st, tx) ==
    LET reason == FetchedReason(r, st, tx)
    IN IF reason \in {"RPC_UNAVAILABLE", "TX_NOT_FOUND"} THEN NoResult(reason)
       ELSE [verdict |-> IF reason = "TX_FAILED" THEN "rejected" ELSE Verdict(reason),
             reason  |-> reason,
             slot    |-> tx.slot,
             event   |-> IF reason \in Reasons
                         THEN AttributedEvent(tx.meta.logMessages.events,
                                              r.program, r.discriminator)
                         ELSE NoEvent,
             whole   |-> reason \notin Reasons \/ ~tx.meta.logMessages.truncated]

Conclude ==
    /\ request \in Requests
    /\ phase = "reading" /\ status # Waiting /\ transaction # Waiting
    /\ Return(request, Conclusion(request, status, transaction))
    /\ UNCHANGED <<clusterVars, calls>>

-----------------------------------------------------------------------------
CallNext ==
    \/ \E r \in Requests : Call(r)
    \/ GenesisMatches \/ StatusArrives \/ TransactionArrives
    \/ RequestFails \/ Conclude

Init == ClusterInit /\ CallInit
Next == \/ ClusterNext /\ UNCHANGED callVars
        \/ CallNext
Spec == Init /\ [][Next]_vars

-----------------------------------------------------------------------------
Result == [verdict: {"verified", "rejected", "indeterminate"},
           reason: Reasons \cup {"INVALID_REQUEST", "RPC_UNAVAILABLE",
               "TX_NOT_FOUND", "TX_NOT_FINALIZED", "METADATA_MISSING",
               "TX_FAILED", "LOGS_UNAVAILABLE", "CPI_EVENT_UNSUPPORTED"},
           slot: Slots \cup {None},
           event: Event \cup {NoEvent},
           whole: BOOLEAN]

CallTypeOK ==
    /\ phase \in {"idle", "genesis", "reading"}
    /\ request = None <=> phase = "idle"
    /\ answers \subseteq [request: Requests, result: Result]
    /\ calls \in Nat

\* A verified or rejected answer describes the one finalized landing of the
\* transaction, however the two reads raced with forks and lagging nodes: its
\* slot and outcome are the finalized ones, and the event it names was emitted.
ConclusionsAreFinal ==
    \A answer \in answers :
        LET res == answer.result
        IN /\ latest.state = "finalized"
           /\ res.slot = latest.slot
           /\ latest.err <=> res.reason = "TX_FAILED"
           /\ res.event # NoEvent =>
                 \E k \in DOMAIN latest.events : latest.events[k] = res.event

\* Two conclusive answers to one request, however far apart, are the same
\* answer when the logs behind them were whole, and so a repeated delivery finds
\* its own stored receipt.  Cut logs can lead to different events, but never to
\* one receipt id (it binds request and event) with two slots or verdicts.
ConclusionsAgree ==
    \A answer, repeat \in answers :
        LET a == answer.result
            b == repeat.result
        IN /\ answer.request = repeat.request
           /\ (a.whole /\ b.whole) \/ (a.event = b.event /\ a.event # NoEvent)
           => /\ a.verdict = b.verdict /\ a.reason = b.reason
              /\ a.slot = b.slot /\ a.event = b.event

\* Every call returns, one that inspects too, whatever the provider does.
CallsReturn == phase # "idle" ~> phase = "idle"
=============================================================================
