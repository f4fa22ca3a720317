---------------------------- MODULE DevnetFixture ----------------------------
(***************************************************************************)
(* Runs of generate-devnet-fixtures: each submits one transaction that     *)
(* succeeds and one that fails after emitting its event, waits until the   *)
(* cluster has finalized them, and replaces the fixture file.  Meanwhile   *)
(* transactions get lost, land on forks that are dropped, and land again;  *)
(* nodes lag, calls fail, runs overlap and are interrupted at any point.   *)
(***************************************************************************)
EXTENDS Naturals

CONSTANTS
    Runs,
    Slots,
    MaxPolls,  \* how often a run asks before its two minutes are over
    None

ASSUME FixtureAssumption ==
    Slots \subseteq Nat /\ MaxPolls \in Nat /\ None \notin Runs /\ None \notin Slots

\* INSTRUCTIONS: what each transaction's instruction does and is expected to.
Kinds == {"success", "failure"}
Succeeds(kind) == kind = "success"

\* A run's transactions have signatures of their own.
Txs == Runs \X Kinds

VARIABLES
    chain,   \* the cluster's view of each transaction
    stage,   \* how far a run is
    polls,   \* how often it may still ask
    found,   \* the slots of the transactions it has captured
    tmp,     \* its temporary file
    output   \* the fixture file

fixtureVars == <<chain, stage, polls, found, tmp, output>>

\* Slot 0 stands for no slot; events counts the event payloads of the program.
Unsent == [state |-> "unsent", slot |-> 0, ok |-> FALSE, events |-> 0]

FixtureInit ==
    /\ chain = [t \in Txs |-> Unsent]
    /\ stage = [r \in Runs |-> "idle"]
    /\ polls = [r \in Runs |-> MaxPolls]
    /\ found = [r \in Runs |-> [k \in Kinds |-> None]]
    /\ tmp = [r \in Runs |-> "none"]
    /\ output = None

-----------------------------------------------------------------------------
(* The cluster and the demo program.                                       *)

\* What executing a transaction may come to: emit! and the end the instruction
\* has in lib.rs, or what another build of the program, or a runtime that ends
\* it early, makes of it.
Executions(kind) ==
    {[ok |-> Succeeds(kind), events |-> 1], [ok |-> ~Succeeds(kind), events |-> 1],
     [ok |-> Succeeds(kind), events |-> 2]}

Land(t) ==
    /\ chain[t].state = "pending"
    /\ \E s \in Slots, e \in Executions(t[2]) :
          /\ s > chain[t].slot
          /\ chain' = [chain EXCEPT ![t] = [state |-> "landed", slot |-> s,
                                            ok |-> e.ok, events |-> e.events]]
    /\ UNCHANGED <<stage, polls, found, tmp, output>>

Finalize(t) ==
    /\ chain[t].state = "landed"
    /\ chain' = [chain EXCEPT ![t].state = "finalized"]
    /\ UNCHANGED <<stage, polls, found, tmp, output>>

DropFork(t) ==
    /\ chain[t].state = "landed"
    /\ chain' = [chain EXCEPT ![t] = [state |-> "pending", slot |-> chain[t].slot,
                                      ok |-> FALSE, events |-> 0]]
    /\ UNCHANGED <<stage, polls, found, tmp, output>>

ClusterNext == \E t \in Txs : Land(t) \/ Finalize(t) \/ DropFork(t)

-----------------------------------------------------------------------------
(* A run.                                                                  *)

Goto(r, s) == stage' = [stage EXCEPT ![r] = s]

Submitting(k) == IF k = "success" THEN "submits success" ELSE "submits failure"
Sent(k)       == IF k = "success" THEN "sent success" ELSE "sent failure"
Waiting(k)    == IF k = "success" THEN "waits for success" ELSE "waits for failure"

\* The keypair is private, the endpoint is on devnet, the program executable;
\* otherwise nothing is sent.
Start(r) ==
    /\ stage[r] = "idle"
    /\ \/ Goto(r, Submitting("success"))
       \/ Goto(r, "failed")
    /\ UNCHANGED <<chain, polls, found, tmp, output>>

\* The signed transaction leaves, or is lost on the way.
SendTransaction(r, k) ==
    /\ stage[r] = Submitting(k)
    /\ Goto(r, Sent(k))
    /\ \/ chain' = [chain EXCEPT ![<<r, k>>].state = "pending"]
       \/ UNCHANGED chain
    /\ UNCHANGED <<polls, found, tmp, output>>

\* The client calls it successful once it has landed so, and failed when it
\* landed otherwise or anything else went wrong.
PlanResults(t) ==
    {"failed", "thrown"} \cup
    (IF chain[t].state \in {"landed", "finalized"} /\ chain[t].ok THEN {"successful"} ELSE {})

SubmitInstruction(r, k) ==
    /\ stage[r] = Sent(k)
    /\ \E reply \in PlanResults(<<r, k>>) :
          Goto(r, IF reply = (IF Succeeds(k) THEN "successful" ELSE "failed")
                  THEN Waiting(k) ELSE "failed")
    /\ polls' = [polls EXCEPT ![r] = MaxPolls]
    /\ UNCHANGED <<chain, found, tmp, output>>

\* captureEvidence and parseDemoEventLogs: the outcome and the one event, which
\* takes a transaction that came with its logs.
Captures(t, whole) ==
    whole /\ chain[t].ok = Succeeds(t[2]) /\ chain[t].events = 1

\* Mutant: a confirmed transaction is taken for a final one.
MutIsFinal(t) == chain[t].state \in {"landed", "finalized"}

IsFinal(t) == chain[t].state = "finalized"

InTime(r) == polls[r] > 0

\* A call fails: the run ends.  A node lags, or has no finalized transaction to
\* give yet: the run asks again.  Otherwise the transaction is looked at.
Poll(r, k) ==
    LET t == <<r, k>>
    IN /\ stage[r] = Waiting(k) /\ InTime(r)
       /\ \/ Goto(r, "failed") /\ UNCHANGED <<polls, found>>
          \/ polls' = [polls EXCEPT ![r] = @ - 1] /\ UNCHANGED <<stage, found>>
          \/ /\ IsFinal(t)
             /\ \E whole \in BOOLEAN :
                   IF Captures(t, whole)
                     THEN /\ found' = [found EXCEPT ![r][k] = chain[t].slot]
                          /\ Goto(r, IF k = "success" THEN Submitting("failure") ELSE "writes")
                     ELSE Goto(r, "failed") /\ UNCHANGED found
             /\ UNCHANGED polls
       /\ UNCHANGED <<chain, tmp, output>>

\* Mutant: the deadline is looked at only once the transaction is final.
MutGiveUp(r, k) ==
    /\ stage[r] = Waiting(k) /\ polls[r] = 0 /\ chain[<<r, k>>].state = "finalized"
    /\ Goto(r, "failed")
    /\ UNCHANGED <<chain, polls, found, tmp, output>>

GiveUp(r, k) ==
    /\ stage[r] = Waiting(k) /\ polls[r] = 0
    /\ Goto(r, "failed")
    /\ UNCHANGED <<chain, polls, found, tmp, output>>

\* The file is written beside the old one, bit by bit, and then takes its place.
WriteTemporary(r) ==
    /\ stage[r] = "writes" /\ tmp[r] # "whole"
    /\ tmp' = [tmp EXCEPT ![r] = IF @ = "none" THEN "partial" ELSE "whole"]
    /\ UNCHANGED <<chain, stage, polls, found, output>>

BuildFixture(r) ==
    [run |-> r, slot |-> found[r], whole |-> tmp[r] = "whole"]

Rename(r) ==
    /\ stage[r] = "writes" /\ tmp[r] = "whole"
    /\ output' = BuildFixture(r)
    /\ tmp' = [tmp EXCEPT ![r] = "none"]
    /\ Goto(r, "done")
    /\ UNCHANGED <<chain, polls, found>>

\* The operator interrupts the run, or the disk is full.
Interrupt(r) ==
    /\ stage[r] \notin {"idle", "done", "failed"}
    /\ Goto(r, "failed")
    /\ UNCHANGED <<chain, polls, found, tmp, output>>

RunNext(r) ==
    \/ \E k \in Kinds : SendTransaction(r, k) \/ SubmitInstruction(r, k)
                        \/ Poll(r, k) \/ GiveUp(r, k)
    \/ WriteTemporary(r) \/ Rename(r)

FixtureNext ==
    \/ ClusterNext
    \/ \E r \in Runs : Start(r) \/ RunNext(r) \/ Interrupt(r)

-----------------------------------------------------------------------------
Fixture == [run: Runs, slot: [Kinds -> Slots], whole: BOOLEAN]

FixtureTypeOK ==
    /\ chain \in [Txs -> [state: {"unsent", "pending", "landed", "finalized"},
                          slot: Slots \cup {0}, ok: BOOLEAN, events: 0..2]]
    /\ stage \in [Runs -> {"idle", "done", "failed", "writes"} \cup
                          {Submitting(k) : k \in Kinds} \cup {Sent(k) : k \in Kinds} \cup
                          {Waiting(k) : k \in Kinds}]
    /\ polls \in [Runs -> 0..MaxPolls]
    /\ found \in [Runs -> [Kinds -> Slots \cup {None}]]
    /\ tmp \in [Runs -> {"none", "partial", "whole"}]
    /\ output \in Fixture \cup {None}

\* The chain holds a transaction for good, as the fixture of its kind says.
Recorded(t, slot) ==
    /\ chain[t].state = "finalized" /\ chain[t].slot = slot
    /\ chain[t].ok = Succeeds(t[2]) /\ chain[t].events = 1

\* tests/fixtures/README.md: whatever forks, lagging nodes, overlapping and
\* interrupted runs do, the fixture file is absent or whole, and both of its
\* transactions are final in the slots it records, one successful and one
\* failed, each with its one event.
FixtureIsFinal ==
    output # None =>
        /\ output.whole
        /\ \A k \in Kinds : Recorded(<<output.run, k>>, output.slot[k])

\* A run ends by itself: each wait has a deadline.
RunsEnd ==
    \A r \in Runs : stage[r] # "idle" ~> stage[r] \in {"done", "failed"}
=============================================================================
