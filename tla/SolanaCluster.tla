--------------------------- MODULE SolanaCluster ---------------------------
(***************************************************************************)
(* The cluster as the verifier's RPC provider sees it, for one transaction *)
(* signature.  External to the repository: modelled from the replies that  *)
(* packages/sdk/src/transaction/fetch.ts accepts and the cases it tells    *)
(* apart.  The transaction may land on a fork that is dropped and land     *)
(* again in a later slot, with another outcome; only a finalized landing   *)
(* is permanent.  A provider answers each request from some node, which    *)
(* may lag behind: a reply describes any view the cluster has had.         *)
(***************************************************************************)
EXTENDS Naturals, Sequences

CONSTANTS
    Slots,      \* slot numbers
    Histories,  \* the event sequences a transaction may emit
    None        \* null, undefined, absent

ASSUME SlotsAssumption == Slots \subseteq Nat

ASSUME NoneAssumption == None \notin {"processed", "confirmed", "finalized"}

VARIABLES
    latest,  \* the cluster's current view of the signature
    seen     \* every view it has had: what a lagging node may still answer

Absent == [state |-> "absent"]

Landing == [state: {"processed", "confirmed", "finalized"},
            slot: Slots, err: BOOLEAN, events: Histories]

View == Landing \cup {Absent}

clusterVars == <<latest, seen>>

ClusterTypeOK ==
    /\ latest \in View
    /\ seen \subseteq View /\ latest \in seen

ClusterInit == latest = Absent /\ seen = {Absent}

Become(view) ==
    /\ latest' = view
    /\ seen' = seen \cup {view}

\* The transaction is executed in a slot later than any it landed in before.
Land(s, err, events) ==
    /\ latest = Absent
    /\ \A v \in seen \ {Absent} : v.slot < s
    /\ Become([state |-> "processed", slot |-> s, err |-> err, events |-> events])

Advance ==
    /\ latest.state \in {"processed", "confirmed"}
    /\ Become([latest EXCEPT
          !.state = IF @ = "processed" THEN "confirmed" ELSE "finalized"])

\* The fork is abandoned.
DropFork ==
    /\ latest.state \in {"processed", "confirmed"}
    /\ Become(Absent)

ClusterNext ==
    \/ \E s \in Slots, err \in BOOLEAN, events \in Histories : Land(s, err, events)
    \/ Advance
    \/ DropFork

-----------------------------------------------------------------------------
\* What a provider may answer to getSignatureStatuses from a view.  An old
\* node states no confirmation status.
StatusReplies(v) ==
    IF v = Absent THEN {None}
    ELSE [slot: {v.slot}, err: {v.err}, confirmationStatus: {v.state, None}]

\* A log as delivered: its located events, and whether lines were dropped.
LogReplies(events) ==
    {[events |-> events, truncated |-> FALSE]} \cup
    {[events |-> SubSeq(events, 1, n), truncated |-> TRUE] : n \in 0..Len(events)}

\* What it may answer to getTransaction: an archive node may have lost the
\* metadata or the logs, and a node that ignores the requested commitment
\* answers before the landing is finalized.
TransactionReplies(v) ==
    IF v = Absent THEN {None}
    ELSE (IF v.state = "finalized" THEN {} ELSE {None}) \cup
         [slot: {v.slot},
          meta: {None} \cup [err: {v.err},
                             logMessages: {None} \cup LogReplies(v.events)]]
=============================================================================
