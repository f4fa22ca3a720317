------------------------------ MODULE TaskBag ------------------------------
(***************************************************************************)
(* What a bounded concurrent map promises, whatever its workers do: every  *)
(* task is started once, at most Limit of them run together, each ends     *)
(* with an outcome of its own, and the map is over when all have ended.    *)
(***************************************************************************)
EXTENDS Naturals, FiniteSets

CONSTANTS Tasks, Limit, Outcomes

VARIABLES
    accepted,  \* the tasks to run
    running,   \* the tasks started and not ended
    outcome,   \* the outcome of every task that ended
    over       \* the caller has been answered

TaskBagInit ==
    /\ accepted = {} /\ running = {}
    /\ outcome = [t \in {} |-> "none"]
    /\ over = FALSE

Ended == DOMAIN outcome
Fresh == accepted \ (running \cup Ended)

\* The batch is known and the first of its tasks start.
Accept(tasks, first) ==
    /\ accepted = {} /\ ~over
    /\ first \subseteq tasks /\ Cardinality(first) <= Limit
    /\ accepted' = tasks /\ running' = first
    /\ UNCHANGED <<outcome, over>>

\* A task ends, and the room it leaves may be taken at once.
End(t, result, next) ==
    /\ t \in running
    /\ next \subseteq Fresh /\ Cardinality(next) <= 1
    /\ running' = (running \ {t}) \cup next
    /\ outcome' = [s \in Ended \cup {t} |-> IF s = t THEN result ELSE outcome[s]]
    /\ UNCHANGED <<accepted, over>>

Finish ==
    /\ ~over /\ Ended = accepted
    /\ over' = TRUE
    /\ UNCHANGED <<accepted, running, outcome>>

TaskBagNext ==
    \/ \E tasks \in SUBSET Tasks : \E first \in SUBSET tasks : Accept(tasks, first)
    \/ \E t \in running, result \in Outcomes, next \in SUBSET Fresh :
          End(t, result, next)
    \/ Finish

TaskBagSpec == TaskBagInit /\ [][TaskBagNext]_<<accepted, running, outcome, over>>
=============================================================================
