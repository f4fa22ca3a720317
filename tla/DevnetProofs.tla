----------------------------- MODULE DevnetProofs -----------------------------
(***************************************************************************)
(* A fixture, and a proof made from it, name transactions the cluster has  *)
(* finalized: for any number of overlapping runs, slots and polls, and any *)
(* backend.  Argument: a run looks for a transaction only after it was     *)
(* sent and never sends it again, and what is final stays as it is, so     *)
(* that the slots a run has found are settled; the fixture carries them,   *)
(* and the smoke carries those of the one fixture it read.                 *)
(***************************************************************************)
EXTENDS BackendProof, TLAPS

\* What has landed did so in a slot.
ChainFits ==
    \A t \in Txs : chain[t].state \in {"landed", "finalized"} => chain[t].slot \in Slots

\* What a run has found is final.
CapturesFit ==
    \A r \in Runs, k \in Kinds :
        found[r][k] # None => Recorded(<<r, k>>, found[r][k])

\* A run finds its transactions one after the other, each after it was sent.
StagesFit ==
    \A r \in Runs :
        /\ stage[r] \in {"idle", Submitting("success"), Sent("success"), Waiting("success")} =>
              \A k \in Kinds : found[r][k] = None
        /\ stage[r] \in {Submitting("failure"), Sent("failure"), Waiting("failure")} =>
              found[r]["success"] # None /\ found[r]["failure"] = None
        /\ stage[r] = "writes" => \A k \in Kinds : found[r][k] # None

\* The slots of a fixture or a proof are those its run has found.
Settled(f) == \A k \in Kinds : f.slot[k] = found[f.run][k]

FilesFit ==
    /\ output # None => output.whole /\ Settled(output)
    /\ fixture # None => fixture.whole /\ Settled(fixture)
    /\ proof # None => Settled(proof)

\* What the smoke has accepted so far is what its fixture says.
SmokeFits ==
    /\ smoke \in {"verifies success", "reads receipt", "verifies failure", "writes"} =>
          fixture # None
    /\ smoke \in {"reads receipt", "verifies failure", "writes"} =>
          receipt \in ReceiptIds /\ slots["success"] = fixture.slot["success"]
    /\ smoke = "writes" => slots["failure"] = fixture.slot["failure"]

IInv ==
    /\ TypeOK
    /\ ChainFits /\ CapturesFit /\ StagesFit /\ FilesFit /\ SmokeFits
    /\ GeneratedFixturesPass

-----------------------------------------------------------------------------
Stages ==
    {"idle", "done", "failed", "writes", "submits success", "submits failure",
     "sent success", "sent failure", "waits for success", "waits for failure"}

Executed == [state: {"unsent", "pending", "landed", "finalized"},
             slot: Slots \cup {0}, ok: BOOLEAN, events: 0..2]

LEMMA StageNames ==
    {"idle", "done", "failed", "writes"} \cup
        {Submitting(k) : k \in Kinds} \cup {Sent(k) : k \in Kinds} \cup
        {Waiting(k) : k \in Kinds} = Stages
BY DEF Stages, Kinds, Submitting, Sent, Waiting

LEMMA InitInv == Init => IInv
<1> SUFFICES ASSUME Init PROVE IInv
  OBVIOUS
<1> USE DEF Init, FixtureInit, SmokeInit
<1>1. FixtureTypeOK
  <2>1. Unsent \in Executed
    BY DEF Unsent, Executed
  <2>2. MaxPolls \in 0..MaxPolls
    BY FixtureAssumption
  <2> QED BY <2>1, <2>2, StageNames DEF FixtureTypeOK, Executed, Stages
<1>2. TypeOK
  BY <1>1 DEF TypeOK
<1>3. ChainFits /\ CapturesFit /\ StagesFit
  BY DEF ChainFits, Unsent, CapturesFit, StagesFit, Submitting, Sent, Waiting, Kinds
<1>4. FilesFit /\ SmokeFits /\ GeneratedFixturesPass
  BY DEF FilesFit, SmokeFits, GeneratedFixturesPass
<1> QED BY <1>2, <1>3, <1>4 DEF IInv

-----------------------------------------------------------------------------
(* The cluster and the runs.                                               *)

\* What a run has found stays, and with it every file that names it.
LEMMA FixtureKeepsInv ==
    ASSUME IInv, UNCHANGED smokeVars, FixtureTypeOK', ChainFits', CapturesFit', StagesFit',
           \A r \in Runs, k \in Kinds : found[r][k] # None => found'[r][k] = found[r][k],
           output' = output \/ (output'.whole /\ \A k \in Kinds : output'.slot[k] = found'[output'.run][k])
    PROVE  IInv'
<1>1. UNCHANGED <<honest, smoke, fixture, receipt, slots, proof>>
  BY DEF smokeVars
<1>2. TypeOK'
  BY <1>1 DEF IInv, TypeOK
<1>3. SmokeFits' /\ GeneratedFixturesPass'
  BY <1>1 DEF IInv, SmokeFits, GeneratedFixturesPass
<1>4. ASSUME NEW f, f.run \in Runs, f.slot \in [Kinds -> Slots], Settled(f)
      PROVE  \A k \in Kinds : f.slot[k] = found'[f.run][k]
  BY <1>4, FixtureAssumption DEF Settled
<1>5. output \in Fixture \cup {None} /\ fixture \in Fixture \cup {None}
      /\ proof \in [run: Runs, slot: [Kinds -> Slots], receipt: ReceiptIds] \cup {None}
  BY DEF IInv, TypeOK, FixtureTypeOK
<1>6. FilesFit'
  <2>1. output' # None => output'.whole /\ Settled(output)'
    BY <1>4, <1>5 DEF IInv, FilesFit, Settled, Fixture
  <2>2. fixture' # None => fixture'.whole /\ Settled(fixture)'
    BY <1>1, <1>4, <1>5 DEF IInv, FilesFit, Settled, Fixture
  <2>3. proof' # None => Settled(proof)'
    BY <1>1, <1>4, <1>5 DEF IInv, FilesFit, Settled
  <2> QED BY <2>1, <2>2, <2>3 DEF FilesFit
<1> QED BY <1>2, <1>3, <1>6 DEF IInv

\* A step of the cluster leaves what is final alone.
LEMMA ClusterInv ==
    IInv /\ ClusterNext /\ UNCHANGED smokeVars => IInv'
<1> SUFFICES ASSUME IInv, NEW t \in Txs, Land(t) \/ Finalize(t) \/ DropFork(t), UNCHANGED smokeVars
             PROVE  IInv'
  BY DEF ClusterNext
<1>1. FixtureTypeOK /\ ChainFits /\ CapturesFit /\ StagesFit
  BY DEF IInv, TypeOK
<1>2. UNCHANGED <<stage, polls, found, tmp, output>>
  BY DEF Land, Finalize, DropFork
<1>3. /\ chain[t].state # "finalized"
      /\ \E new \in Executed :
            /\ chain' = [chain EXCEPT ![t] = new]
            /\ new.state \in {"landed", "finalized"} => new.slot \in Slots
  <2>1. chain[t] \in Executed
    BY <1>1 DEF FixtureTypeOK, Executed
  <2>2. CASE Land(t)
    <3>1. PICK s \in Slots, e \in Executions(t[2]) :
             chain' = [chain EXCEPT ![t] = [state |-> "landed", slot |-> s,
                                            ok |-> e.ok, events |-> e.events]]
      BY <2>2 DEF Land
    <3>2. e.ok \in BOOLEAN /\ e.events \in 0..2
      <4> DEFINE yes == Succeeds(t[2])
                 no  == ~Succeeds(t[2])
      <4>1. yes \in BOOLEAN /\ no \in BOOLEAN
        BY DEF Succeeds
      <4>2. e \in {[ok |-> yes, events |-> 1], [ok |-> no, events |-> 1], [ok |-> yes, events |-> 2]}
        BY <3>1 DEF Executions
      <4> HIDE DEF yes, no
      <4> QED BY <4>1, <4>2
    <3>3. [state |-> "landed", slot |-> s, ok |-> e.ok, events |-> e.events] \in Executed
      BY <3>2 DEF Executed
    <3> QED BY <2>2, <3>1, <3>3 DEF Land
  <2>3. CASE Finalize(t)
    <3>1. chain' = [chain EXCEPT ![t] = [chain[t] EXCEPT !.state = "finalized"]]
      BY <2>3 DEF Finalize
    <3>2. /\ [chain[t] EXCEPT !.state = "finalized"] \in Executed
          /\ [chain[t] EXCEPT !.state = "finalized"].slot \in Slots
      BY <1>1, <2>1, <2>3 DEF Executed, ChainFits, Finalize
    <3> QED BY <2>3, <3>1, <3>2 DEF Finalize
  <2>4. CASE DropFork(t)
    <3> DEFINE new == [state |-> "pending", slot |-> chain[t].slot, ok |-> FALSE, events |-> 0]
    <3>1. new \in Executed /\ new.state = "pending"
      BY <2>1 DEF Executed
    <3>2. chain' = [chain EXCEPT ![t] = new]
      BY <2>4 DEF DropFork
    <3> HIDE DEF new
    <3> QED BY <2>4, <3>1, <3>2 DEF DropFork
  <2> QED BY <2>2, <2>3, <2>4
<1>4. FixtureTypeOK'
  BY <1>1, <1>2, <1>3 DEF FixtureTypeOK, Executed
<1>5. CapturesFit'
  <2> SUFFICES ASSUME NEW r \in Runs, NEW k \in Kinds, found[r][k] # None
               PROVE  Recorded(<<r, k>>, found[r][k])'
    BY <1>2 DEF CapturesFit
  <2>1. Recorded(<<r, k>>, found[r][k])
    BY <1>1 DEF CapturesFit
  <2>2. <<r, k>> # t /\ <<r, k>> \in Txs
    BY <1>3, <2>1 DEF Recorded, Txs
  <2>3. chain'[<<r, k>>] = chain[<<r, k>>]
    BY <1>1, <1>3, <2>2 DEF FixtureTypeOK
  <2> QED BY <1>2, <2>1, <2>3 DEF Recorded
<1>6. StagesFit'
  BY <1>1, <1>2 DEF StagesFit
<1>7. ChainFits'
  BY <1>1, <1>3 DEF ChainFits, FixtureTypeOK
<1> QED BY <1>2, <1>4, <1>5, <1>6, <1>7, FixtureKeepsInv

\* A run's step that finds nothing and sends nothing.
LEMMA QuietInv ==
    ASSUME IInv, UNCHANGED <<smokeVars, chain, found>>, FixtureTypeOK', StagesFit',
           output' = output \/ (output'.whole /\ \A k \in Kinds : output'.slot[k] = found'[output'.run][k])
    PROVE  IInv'
<1>1. ChainFits' /\ CapturesFit'
  BY DEF IInv, ChainFits, CapturesFit, Recorded
<1> QED BY <1>1, FixtureKeepsInv

LEMMA RunInv ==
    ASSUME IInv, NEW r \in Runs, Start(r) \/ RunNext(r) \/ Interrupt(r), UNCHANGED smokeVars
    PROVE  IInv'
<1>1. FixtureTypeOK /\ ChainFits /\ CapturesFit /\ StagesFit
  BY DEF IInv, TypeOK
<1>2. /\ chain \in [Txs -> Executed]
      /\ stage \in [Runs -> Stages]
      /\ polls \in [Runs -> 0..MaxPolls]
      /\ found \in [Runs -> [Kinds -> Slots \cup {None}]]
      /\ tmp \in [Runs -> {"none", "partial", "whole"}]
      /\ output \in Fixture \cup {None}
  BY <1>1, StageNames DEF FixtureTypeOK, Executed
<1>3. MaxPolls \in 0..MaxPolls
  BY FixtureAssumption
<1> USE DEF Goto
\* Wherever a run goes with nothing found, the stages still fit.
<1>4. ASSUME NEW s \in Stages, Goto(r, s), UNCHANGED found,
             \/ s = "failed"
             \/ s = "done"
             \/ s = "submits success" /\ stage[r] = "idle"
             \/ s = "sent success" /\ stage[r] = "submits success"
             \/ s = "waits for success" /\ stage[r] = "sent success"
             \/ s = "sent failure" /\ stage[r] = "submits failure"
             \/ s = "waits for failure" /\ stage[r] = "sent failure"
      PROVE  StagesFit' /\ stage' \in [Runs -> Stages]
  <2>1. stage' = [stage EXCEPT ![r] = s]
    BY <1>4
  <2>2. stage' \in [Runs -> Stages]
    BY <1>2, <2>1
  <2>3. ASSUME NEW q \in Runs
        PROVE  /\ stage'[q] \in {"idle", "submits success", "sent success", "waits for success"} =>
                     \A k \in Kinds : found'[q][k] = None
               /\ stage'[q] \in {"submits failure", "sent failure", "waits for failure"} =>
                     found'[q]["success"] # None /\ found'[q]["failure"] = None
               /\ stage'[q] = "writes" => \A k \in Kinds : found'[q][k] # None
    <3>1. found' = found
      BY <1>4
    <3>2. CASE q = r
      <4>1. stage'[q] = s
        BY <1>2, <2>1, <3>2
      <4> QED BY <1>1, <1>4, <3>1, <3>2, <4>1 DEF StagesFit, Submitting, Sent, Waiting, Kinds
    <3>3. CASE q # r
      <4>1. stage'[q] = stage[q]
        BY <1>2, <2>1, <3>3
      <4> QED BY <1>1, <3>1, <4>1 DEF StagesFit, Submitting, Sent, Waiting, Kinds
    <3> QED BY <3>2, <3>3
  <2> QED BY <2>2, <2>3 DEF StagesFit, Submitting, Sent, Waiting
<1>5. CASE Start(r)
  <2>1. /\ stage[r] = "idle" /\ UNCHANGED <<chain, polls, found, tmp, output>>
        /\ Goto(r, "submits success") \/ Goto(r, "failed")
    BY <1>5 DEF Start, Submitting
  <2>2. StagesFit' /\ stage' \in [Runs -> Stages]
    BY <1>4, <2>1 DEF Stages
  <2>3. FixtureTypeOK'
    BY <1>2, <2>1, <2>2, StageNames DEF FixtureTypeOK, Executed
  <2> QED BY <2>1, <2>2, <2>3, QuietInv
<1>6. ASSUME NEW k \in Kinds, SendTransaction(r, k) PROVE IInv'
  <2>1. /\ stage[r] = Submitting(k) /\ Goto(r, Sent(k))
        /\ chain' = [chain EXCEPT ![<<r, k>>].state = "pending"] \/ UNCHANGED chain
        /\ UNCHANGED <<polls, found, tmp, output>>
    BY <1>6 DEF SendTransaction
  <2>2. StagesFit' /\ stage' \in [Runs -> Stages]
    BY <1>4, <2>1 DEF Kinds, Submitting, Sent, Stages
  <2>3. chain' \in [Txs -> Executed] /\ ChainFits'
    <3> DEFINE new == [chain[<<r, k>>] EXCEPT !.state = "pending"]
    <3>1. new \in Executed /\ new.state = "pending"
      <4>1. chain[<<r, k>>] \in Executed
        BY <1>2 DEF Txs
      <4> QED BY <4>1 DEF Executed
    <3>2. CASE chain' = [chain EXCEPT ![<<r, k>>] = new]
      <4> HIDE DEF new
      <4> QED BY <1>1, <1>2, <3>1, <3>2 DEF ChainFits
    <3>3. CASE UNCHANGED chain
      BY <1>1, <1>2, <3>3 DEF ChainFits
    <3> QED BY <2>1, <3>2, <3>3
  <2>4. FixtureTypeOK'
    BY <1>2, <2>1, <2>2, <2>3, StageNames DEF FixtureTypeOK, Executed
  <2>5. found[r][k] = None
    BY <1>1, <2>1 DEF StagesFit, Submitting, Kinds
  <2>6. CapturesFit'
    <3> SUFFICES ASSUME NEW q \in Runs, NEW j \in Kinds, found[q][j] # None
                 PROVE  Recorded(<<q, j>>, found[q][j])'
      BY <2>1 DEF CapturesFit
    <3>1. Recorded(<<q, j>>, found[q][j]) /\ <<q, j>> # <<r, k>> /\ <<q, j>> \in Txs
      BY <1>1, <2>5 DEF CapturesFit, Txs
    <3>2. chain'[<<q, j>>] = chain[<<q, j>>]
      BY <1>2, <2>1, <3>1
    <3> QED BY <2>1, <3>1, <3>2 DEF Recorded
  <2> QED BY <2>1, <2>2, <2>3, <2>4, <2>6, FixtureKeepsInv
<1>7. ASSUME NEW k \in Kinds, SubmitInstruction(r, k) PROVE IInv'
  <2>1. PICK s \in {Waiting(k), "failed"} :
           stage[r] = Sent(k) /\ Goto(r, s) /\ polls' = [polls EXCEPT ![r] = MaxPolls]
           /\ UNCHANGED <<chain, found, tmp, output>>
    BY <1>7 DEF SubmitInstruction
  <2>2. StagesFit' /\ stage' \in [Runs -> Stages]
    BY <1>4, <2>1 DEF Kinds, Sent, Waiting, Stages
  <2>3. FixtureTypeOK'
    BY <1>2, <1>3, <2>1, <2>2, StageNames DEF FixtureTypeOK, Executed
  <2> QED BY <2>1, <2>2, <2>3, QuietInv
<1>8. ASSUME NEW k \in Kinds, Poll(r, k) PROVE IInv'
  <2>1. stage[r] = Waiting(k) /\ polls[r] > 0 /\ UNCHANGED <<chain, tmp, output>>
    BY <1>8 DEF Poll, InTime
  <2>2. CASE Goto(r, "failed") /\ UNCHANGED found
             /\ (UNCHANGED polls \/ polls' = [polls EXCEPT ![r] = @ - 1])
    <3>1. StagesFit' /\ stage' \in [Runs -> Stages]
      BY <1>4, <2>2 DEF Stages
    <3>2. polls' \in [Runs -> 0..MaxPolls]
      BY <1>2, <2>1, <2>2, FixtureAssumption
    <3>3. FixtureTypeOK'
      BY <1>2, <2>1, <2>2, <3>1, <3>2, StageNames DEF FixtureTypeOK, Executed
    <3> QED BY <2>1, <2>2, <3>1, <3>3, QuietInv
  <2>3. CASE polls' = [polls EXCEPT ![r] = @ - 1] /\ UNCHANGED <<stage, found>>
    <3>1. polls' \in [Runs -> 0..MaxPolls]
      BY <1>2, <2>1, <2>3, FixtureAssumption
    <3>2. FixtureTypeOK' /\ StagesFit'
      BY <1>1, <1>2, <2>1, <2>3, <3>1, StageNames DEF FixtureTypeOK, Executed, StagesFit
    <3> QED BY <2>1, <2>3, <3>2, QuietInv
  <2>4. CASE /\ IsFinal(<<r, k>>) /\ Captures(<<r, k>>, TRUE) /\ UNCHANGED polls
             /\ found' = [found EXCEPT ![r][k] = chain[<<r, k>>].slot]
             /\ Goto(r, IF k = "success" THEN Submitting("failure") ELSE "writes")
    <3> DEFINE slot == chain[<<r, k>>].slot
    <3>1. Recorded(<<r, k>>, slot)
      BY <2>4 DEF IsFinal, Captures, Recorded
    <3>2. slot \in Slots /\ slot # None
      <4>1. <<r, k>> \in Txs
        BY DEF Txs
      <4> QED BY <1>1, <3>1, <4>1, FixtureAssumption DEF ChainFits, Recorded
    <3> HIDE DEF slot
    <3>3. /\ found' \in [Runs -> [Kinds -> Slots \cup {None}]] /\ found'[r][k] = slot
          /\ \A j \in Kinds : j # k => found'[r][j] = found[r][j]
          /\ \A q \in Runs : q # r => found'[q] = found[q]
      BY <1>2, <2>4, <3>2 DEF slot
    <3>4. /\ \A j \in Kinds : k = "success" => found[r][j] = None
          /\ k = "failure" => found[r]["success"] # None /\ found[r]["failure"] = None
      BY <1>1, <2>1 DEF StagesFit, Waiting, Kinds
    <3>5. found[r][k] = None
      BY <3>4 DEF Kinds
    <3>6. \E s \in Stages : stage' = [stage EXCEPT ![r] = s]
                            /\ s = IF k = "success" THEN "submits failure" ELSE "writes"
      BY <2>4 DEF Stages, Submitting
    <3>7. FixtureTypeOK'
      BY <1>2, <2>1, <2>4, <3>3, <3>6, StageNames DEF FixtureTypeOK, Executed
    <3>8. StagesFit'
      <4> SUFFICES ASSUME NEW q \in Runs
          PROVE  /\ stage'[q] \in {"idle", "submits success", "sent success", "waits for success"} =>
                       \A j \in Kinds : found'[q][j] = None
                 /\ stage'[q] \in {"submits failure", "sent failure", "waits for failure"} =>
                       found'[q]["success"] # None /\ found'[q]["failure"] = None
                 /\ stage'[q] = "writes" => \A j \in Kinds : found'[q][j] # None
        BY DEF StagesFit, Submitting, Sent, Waiting
      <4>1. CASE q = r
        BY <1>2, <3>2, <3>3, <3>4, <3>6, <4>1 DEF Kinds
      <4>2. CASE q # r
        <5>1. stage'[q] = stage[q] /\ found'[q] = found[q]
          BY <1>2, <3>3, <3>6, <4>2
        <5> QED BY <1>1, <5>1 DEF StagesFit, Submitting, Sent, Waiting
      <4> QED BY <4>1, <4>2
    <3>9. ASSUME NEW q \in Runs, NEW j \in Kinds, found[q][j] # None
          PROVE  found'[q][j] = found[q][j]
      BY <3>3, <3>5, <3>9
    <3>10. CapturesFit' /\ ChainFits'
      <4>1. ASSUME NEW q \in Runs, NEW j \in Kinds, found'[q][j] # None
            PROVE  Recorded(<<q, j>>, found'[q][j])
        <5>1. CASE q = r /\ j = k
          BY <3>1, <3>3, <5>1 DEF slot
        <5>2. CASE ~ (q = r /\ j = k)
          BY <1>1, <3>3, <4>1, <5>2 DEF CapturesFit
        <5> QED BY <5>1, <5>2
      <4> QED BY <1>1, <2>1, <4>1 DEF CapturesFit, ChainFits, Recorded
    <3> QED BY <2>1, <3>7, <3>8, <3>9, <3>10, FixtureKeepsInv
  <2>5. \/ Goto(r, "failed") /\ UNCHANGED <<polls, found>>
        \/ polls' = [polls EXCEPT ![r] = @ - 1] /\ UNCHANGED <<stage, found>>
        \/ /\ IsFinal(<<r, k>>) /\ Captures(<<r, k>>, TRUE) /\ UNCHANGED polls
           /\ found' = [found EXCEPT ![r][k] = chain[<<r, k>>].slot]
           /\ Goto(r, IF k = "success" THEN Submitting("failure") ELSE "writes")
    BY <1>8 DEF Poll, Captures
  <2> QED BY <2>2, <2>3, <2>4, <2>5
<1>9. ASSUME NEW k \in Kinds, GiveUp(r, k) PROVE IInv'
  <2>1. Goto(r, "failed") /\ UNCHANGED <<chain, polls, found, tmp, output>>
    BY <1>9 DEF GiveUp
  <2>2. StagesFit' /\ stage' \in [Runs -> Stages]
    BY <1>4, <2>1 DEF Stages
  <2>3. FixtureTypeOK'
    BY <1>2, <2>1, <2>2, StageNames DEF FixtureTypeOK, Executed
  <2> QED BY <2>1, <2>2, <2>3, QuietInv
<1>10. CASE WriteTemporary(r)
  <2>1. UNCHANGED <<chain, stage, polls, found, output>>
    BY <1>10 DEF WriteTemporary
  <2>2. tmp' \in [Runs -> {"none", "partial", "whole"}]
    BY <1>2, <1>10 DEF WriteTemporary
  <2>3. FixtureTypeOK' /\ StagesFit'
    BY <1>1, <2>1, <2>2 DEF FixtureTypeOK, StagesFit
  <2> QED BY <2>1, <2>3, QuietInv
<1>11. CASE Rename(r)
  <2>1. /\ stage[r] = "writes" /\ tmp[r] = "whole"
        /\ output' = [run |-> r, slot |-> found[r], whole |-> tmp[r] = "whole"]
        /\ tmp' = [tmp EXCEPT ![r] = "none"] /\ Goto(r, "done")
        /\ UNCHANGED <<chain, polls, found>>
    BY <1>11 DEF Rename, BuildFixture
  <2>2. StagesFit' /\ stage' \in [Runs -> Stages]
    BY <1>4, <2>1 DEF Stages
  <2>3. found[r] \in [Kinds -> Slots]
    <3>1. \A k \in Kinds : found[r][k] # None
      BY <1>1, <2>1 DEF StagesFit
    <3> QED BY <1>2, <3>1
  <2>4. output' \in Fixture /\ output'.whole /\ output'.slot = found'[output'.run]
    BY <2>1, <2>3 DEF Fixture
  <2>5. FixtureTypeOK'
    <3>1. tmp' \in [Runs -> {"none", "partial", "whole"}]
      BY <1>2, <2>1
    <3> QED BY <1>2, <2>1, <2>2, <2>4, <3>1, StageNames DEF FixtureTypeOK, Executed
  <2> QED BY <2>1, <2>2, <2>4, <2>5, QuietInv
<1>12. CASE Interrupt(r)
  <2>1. Goto(r, "failed") /\ UNCHANGED <<chain, polls, found, tmp, output>>
    BY <1>12 DEF Interrupt
  <2>2. StagesFit' /\ stage' \in [Runs -> Stages]
    BY <1>4, <2>1 DEF Stages
  <2>3. FixtureTypeOK'
    BY <1>2, <2>1, <2>2, StageNames DEF FixtureTypeOK, Executed
  <2> QED BY <2>1, <2>2, <2>3, QuietInv
<1> QED BY <1>5, <1>6, <1>7, <1>8, <1>9, <1>10, <1>11, <1>12 DEF RunNext

LEMMA FixtureInv ==
    IInv /\ FixtureNext /\ UNCHANGED smokeVars => IInv'
BY ClusterInv, RunInv DEF FixtureNext

-----------------------------------------------------------------------------
(* The smoke.                                                              *)

\* A step of the smoke, which touches nothing of the runs.
LEMMA SmokeKeepsInv ==
    ASSUME IInv, UNCHANGED fixtureVars, TypeOK', SmokeFits', GeneratedFixturesPass',
           fixture' = fixture \/ fixture' = output,
           proof' = proof \/ Settled(proof)'
    PROVE  IInv'
<1>1. UNCHANGED <<chain, stage, polls, found, tmp, output>>
  BY DEF fixtureVars
<1>2. ChainFits' /\ CapturesFit' /\ StagesFit'
  BY <1>1 DEF IInv, ChainFits, CapturesFit, StagesFit, Recorded
<1>3. FilesFit'
  BY <1>1 DEF IInv, FilesFit, Settled
<1> QED BY <1>2, <1>3 DEF IInv

LEMMA SmokeInv ==
    ASSUME IInv, ReadFixture \/ SmokeNext
    PROVE  IInv'
<1>1. /\ FixtureTypeOK /\ output \in Fixture \cup {None}
      /\ honest \in BOOLEAN
      /\ fixture \in Fixture \cup {None}
      /\ receipt \in ReceiptIds \cup {None}
      /\ slots \in [Kinds -> Slots \cup {None}]
      /\ proof \in [run: Runs, slot: [Kinds -> Slots], receipt: ReceiptIds] \cup {None}
      /\ SmokeFits /\ GeneratedFixturesPass
  BY DEF IInv, TypeOK, FixtureTypeOK
<1>2. FixtureTypeOK' /\ UNCHANGED fixtureVars
  <2>1. UNCHANGED fixtureVars
    BY DEF ReadFixture, SmokeNext, VerifySuccess, FetchReceipt, VerifyFailure, WriteProof
  <2> QED BY <1>1, <2>1 DEF fixtureVars, FixtureTypeOK
\* A fixture that was read is recorded on the chain.
<1>3. ASSUME fixture # None, NEW k \in Kinds
      PROVE  /\ <<fixture.run, k>> \in Txs /\ fixture.slot[k] \in Slots
             /\ fixture.slot[k] # None /\ Recorded(<<fixture.run, k>>, fixture.slot[k])
  <2>1. fixture.run \in Runs /\ fixture.slot[k] \in Slots
    BY <1>1, <1>3 DEF Fixture
  <2>2. fixture.slot[k] = found[fixture.run][k] /\ found[fixture.run][k] # None
    BY <1>3, <2>1, FixtureAssumption DEF IInv, FilesFit, Settled
  <2> QED BY <2>1, <2>2 DEF IInv, CapturesFit, Txs
\* An honest backend's conclusion of a recorded transaction is the expected one.
<1>4. ASSUME fixture # None, NEW k \in Kinds, honest, NEW res \in Results(<<fixture.run, k>>)
      PROVE  \/ AssertVerificationResult(res, k)
             \/ Failure(res) = "unavailable"
  <2> DEFINE t == <<fixture.run, k>>
  <2>1. Recorded(t, fixture.slot[k])
    BY <1>3, <1>4
  <2>2. CASE res = Unavailable(t)
    BY <2>2 DEF Unavailable, Failure
  <2>3. CASE res = TrueResult(t)
    <3>1. chain[t].slot = fixture.slot[k] /\ chain[t].events = 1
          /\ (chain[t].ok <=> k = "success")
      BY <2>1 DEF Recorded, Succeeds
    <3>2. res = [tx |-> t, slot |-> fixture.slot[k],
                 reason |-> Expected(k),
                 receipt |-> IF k = "success" THEN "own" ELSE None]
      BY <2>3, <3>1 DEF TrueResult, Expected
    <3>3. "own" # None
      BY ReceiptAssumption DEF ReceiptIds
    <3> QED BY <3>2, <3>3 DEF AssertVerificationResult, RequiresReceipt
  <2> QED BY <1>4, <2>2, <2>3 DEF Results
\* What the smoke accepts has the fixture's slot, and the receipt it asked for.
<1>5. ASSUME fixture # None, NEW k \in Kinds, NEW res \in Results(<<fixture.run, k>>),
             AssertVerificationResult(res, k)
      PROVE  /\ res.slot = fixture.slot[k] /\ res.slot \in Slots
             /\ k = "success" => res.receipt \in ReceiptIds
  <2>1. res.slot = fixture.slot[k] /\ (res.receipt # None <=> k = "success")
    BY <1>5 DEF AssertVerificationResult, RequiresReceipt
  <2>2. res.receipt \in ReceiptIds \cup {None}
    BY <1>5 DEF Results, Result, TrueResult, Unavailable, ReceiptIds
  <2> QED BY <1>3, <1>5, <2>1, <2>2
<1>6. CASE ReadFixture
  <2>1. UNCHANGED <<honest, receipt, slots, proof>>
    BY <1>6 DEF ReadFixture
  <2>2. \/ fixture' = output /\ output # None /\ smoke' = "verifies success"
        \/ fixture' = fixture /\ smoke' = "no fixture"
    BY <1>6 DEF ReadFixture, ValidateFixture
  <2>3. TypeOK'
    BY <1>1, <1>2, <2>1, <2>2 DEF TypeOK
  <2>4. SmokeFits' /\ GeneratedFixturesPass'
    BY <2>1, <2>2 DEF SmokeFits, GeneratedFixturesPass
  <2> QED BY <1>2, <2>1, <2>2, <2>3, <2>4, SmokeKeepsInv
<1>7. CASE VerifySuccess
  <2>1. smoke = "verifies success" /\ fixture # None /\ UNCHANGED <<honest, fixture, proof>>
    BY <1>1, <1>7 DEF VerifySuccess, SmokeFits
  <2>2. CASE smoke' = "unavailable" /\ UNCHANGED <<receipt, slots>>
    <3>1. TypeOK' /\ SmokeFits' /\ GeneratedFixturesPass'
      BY <1>1, <1>2, <2>1, <2>2 DEF TypeOK, SmokeFits, GeneratedFixturesPass
    <3> QED BY <1>2, <2>1, <3>1, SmokeKeepsInv
  <2>3. ASSUME NEW res \in Results(<<fixture.run, "success">>),
               AssertVerificationResult(res, "success"),
               smoke' = "reads receipt", receipt' = res.receipt,
               slots' = [slots EXCEPT !["success"] = res.slot]
        PROVE  IInv'
    <3>1. res.slot = fixture.slot["success"] /\ res.slot \in Slots /\ res.receipt \in ReceiptIds
      BY <1>5, <2>1, <2>3 DEF Kinds
    <3>2. slots' \in [Kinds -> Slots \cup {None}] /\ slots'["success"] = res.slot
      BY <1>1, <2>3, <3>1 DEF Kinds
    <3>3. TypeOK' /\ SmokeFits' /\ GeneratedFixturesPass'
      BY <1>1, <1>2, <2>1, <2>3, <3>1, <3>2 DEF TypeOK, SmokeFits, GeneratedFixturesPass
    <3> QED BY <1>2, <2>1, <3>3, SmokeKeepsInv
  <2>4. ASSUME NEW res \in Results(<<fixture.run, "success">>),
               ~AssertVerificationResult(res, "success"),
               smoke' = Failure(res), UNCHANGED <<receipt, slots>>
        PROVE  IInv'
    <3>1. smoke' \in {"unavailable", "mismatch"} /\ (honest => smoke' = "unavailable")
      BY <1>4, <2>1, <2>4 DEF Failure, Kinds
    <3>2. TypeOK' /\ SmokeFits' /\ GeneratedFixturesPass'
      BY <1>1, <1>2, <2>1, <2>4, <3>1 DEF TypeOK, SmokeFits, GeneratedFixturesPass
    <3> QED BY <1>2, <2>1, <3>2, SmokeKeepsInv
  <2> QED BY <1>7, <2>2, <2>3, <2>4 DEF VerifySuccess
<1>8. CASE FetchReceipt
  <2>1. /\ smoke = "reads receipt" /\ fixture # None
        /\ receipt \in ReceiptIds /\ slots["success"] = fixture.slot["success"]
        /\ UNCHANGED <<honest, fixture, receipt, slots, proof>>
    BY <1>1, <1>8 DEF FetchReceipt, SmokeFits
  <2>2. smoke' \in {"unavailable", "verifies failure", "mismatch"}
    BY <1>8 DEF FetchReceipt
  <2>3. honest => smoke' # "mismatch"
    <3>1. ASSUME honest, NEW res \in Receipts("success") PROVE AssertReceipt(res)
      <4>1. res = [receipt |-> receipt, tx |-> <<fixture.run, "success">>,
                   slot |-> fixture.slot["success"], reason |-> Expected("success")]
        BY <3>1 DEF Receipts
      <4> QED BY <2>1, <4>1 DEF AssertReceipt
    <3> QED BY <1>8, <3>1 DEF FetchReceipt
  <2>4. TypeOK' /\ SmokeFits' /\ GeneratedFixturesPass'
    BY <1>1, <1>2, <2>1, <2>2, <2>3 DEF TypeOK, SmokeFits, GeneratedFixturesPass
  <2> QED BY <1>2, <2>1, <2>4, SmokeKeepsInv
<1>9. CASE VerifyFailure
  <2>1. /\ smoke = "verifies failure" /\ fixture # None
        /\ receipt \in ReceiptIds /\ slots["success"] = fixture.slot["success"]
        /\ UNCHANGED <<honest, fixture, receipt, proof>>
    BY <1>1, <1>9 DEF VerifyFailure, SmokeFits
  <2>2. CASE smoke' = "unavailable" /\ UNCHANGED slots
    <3>1. TypeOK' /\ SmokeFits' /\ GeneratedFixturesPass'
      BY <1>1, <1>2, <2>1, <2>2 DEF TypeOK, SmokeFits, GeneratedFixturesPass
    <3> QED BY <1>2, <2>1, <3>1, SmokeKeepsInv
  <2>3. ASSUME NEW res \in Results(<<fixture.run, "failure">>),
               AssertVerificationResult(res, "failure"),
               smoke' = "writes", slots' = [slots EXCEPT !["failure"] = res.slot]
        PROVE  IInv'
    <3>1. res.slot = fixture.slot["failure"] /\ res.slot \in Slots
      BY <1>5, <2>1, <2>3 DEF Kinds
    <3>2. /\ slots' \in [Kinds -> Slots \cup {None}]
          /\ slots'["failure"] = res.slot /\ slots'["success"] = slots["success"]
      BY <1>1, <2>3, <3>1 DEF Kinds
    <3>3. TypeOK' /\ SmokeFits' /\ GeneratedFixturesPass'
      BY <1>1, <1>2, <2>1, <2>3, <3>1, <3>2 DEF TypeOK, SmokeFits, GeneratedFixturesPass
    <3> QED BY <1>2, <2>1, <3>3, SmokeKeepsInv
  <2>4. ASSUME NEW res \in Results(<<fixture.run, "failure">>),
               ~AssertVerificationResult(res, "failure"),
               smoke' = Failure(res), UNCHANGED slots
        PROVE  IInv'
    <3>1. smoke' \in {"unavailable", "mismatch"} /\ (honest => smoke' = "unavailable")
      BY <1>4, <2>1, <2>4 DEF Failure, Kinds
    <3>2. TypeOK' /\ SmokeFits' /\ GeneratedFixturesPass'
      BY <1>1, <1>2, <2>1, <2>4, <3>1 DEF TypeOK, SmokeFits, GeneratedFixturesPass
    <3> QED BY <1>2, <2>1, <3>2, SmokeKeepsInv
  <2> QED BY <1>9, <2>2, <2>3, <2>4 DEF VerifyFailure
<1>10. CASE WriteProof
  <2>1. /\ fixture # None /\ receipt \in ReceiptIds
        /\ \A k \in Kinds : slots[k] = fixture.slot[k]
        /\ UNCHANGED <<honest, fixture, receipt, slots>>
    BY <1>1, <1>10 DEF WriteProof, SmokeFits, Kinds
  <2>2. \/ smoke' = "done" /\ proof' = [run |-> fixture.run, slot |-> slots, receipt |-> receipt]
        \/ smoke' = "interrupted" /\ UNCHANGED proof
    BY <1>10 DEF WriteProof
  <2>3. slots \in [Kinds -> Slots] /\ fixture.run \in Runs
    <3>1. \A k \in Kinds : slots[k] \in Slots
      BY <1>3, <2>1
    <3> QED BY <1>1, <2>1, <3>1 DEF Fixture
  <2>4. TypeOK' /\ SmokeFits' /\ GeneratedFixturesPass'
    <3>1. proof' \in [run: Runs, slot: [Kinds -> Slots], receipt: ReceiptIds] \cup {None}
      BY <1>1, <2>1, <2>2, <2>3
    <3> QED BY <1>1, <1>2, <2>1, <2>2, <3>1 DEF TypeOK, SmokeFits, GeneratedFixturesPass
  <2>5. proof' = proof \/ Settled(proof)'
    BY <1>2, <2>1, <2>2 DEF IInv, FilesFit, Settled, fixtureVars
  <2> QED BY <1>2, <2>1, <2>4, <2>5, SmokeKeepsInv
<1> QED BY <1>6, <1>7, <1>8, <1>9, <1>10 DEF SmokeNext

LEMMA StepInv == IInv /\ [Next]_vars => IInv'
<1> SUFFICES ASSUME IInv, [Next]_vars PROVE IInv'
  OBVIOUS
<1>1. CASE FixtureNext /\ UNCHANGED smokeVars
  BY <1>1, FixtureInv
<1>2. CASE ReadFixture \/ SmokeNext
  BY <1>2, SmokeInv
<1>3. CASE UNCHANGED vars
  <2>1. UNCHANGED <<chain, stage, polls, found, tmp, output>>
        /\ UNCHANGED <<honest, smoke, fixture, receipt, slots, proof>>
    BY <1>3 DEF vars, fixtureVars, smokeVars
  <2>2. TypeOK' /\ SmokeFits' /\ GeneratedFixturesPass'
    BY <2>1 DEF IInv, TypeOK, FixtureTypeOK, SmokeFits, GeneratedFixturesPass
  <2> QED BY <2>1, <2>2, SmokeKeepsInv DEF fixtureVars
<1> QED BY <1>1, <1>2, <1>3 DEF Next

-----------------------------------------------------------------------------
(* The theorems.                                                           *)

\* The invariant of the two scripts, run in any interleaving: captured slots
\* are final, and files and proofs carry captured slots.
THEOREM Invariant == Spec => []IInv
<1> QED BY InitInv, StepInv, PTL DEF Spec

\* A found slot that is named is the slot the chain has for good.
LEMMA SettledIsRecorded ==
    ASSUME IInv, NEW f, f.run \in Runs, f.slot \in [Kinds -> Slots], Settled(f)
    PROVE  \A k \in Kinds : Recorded(<<f.run, k>>, f.slot[k])
BY FixtureAssumption DEF IInv, CapturesFit, Settled

\* The fixture file of generate-devnet-fixtures is absent, or whole and true of
\* the chain for good, whatever forks, lost transactions and interruptions.
THEOREM FixtureStaysFinal == Spec => []FixtureIsFinal
<1>1. IInv => FixtureIsFinal
  <2> SUFFICES ASSUME IInv, output # None
               PROVE  output.whole /\ \A k \in Kinds : Recorded(<<output.run, k>>, output.slot[k])
    BY DEF FixtureIsFinal
  <2>1. output.run \in Runs /\ output.slot \in [Kinds -> Slots]
    BY DEF IInv, TypeOK, FixtureTypeOK, Fixture
  <2> QED BY <2>1, SettledIsRecorded DEF IInv, FilesFit
<1> QED BY <1>1, Invariant, PTL

\* A proof of smoke-devnet-backend-proof names one successful and one failed
\* transaction, final in the slots it gives, whatever the backend answered and
\* whichever run replaced the fixture meanwhile.
THEOREM ProofsAreWitnessed == Spec => []ProofIsWitnessed
<1>1. IInv => ProofIsWitnessed
  <2> SUFFICES ASSUME IInv, proof # None
               PROVE  \A k \in Kinds : Recorded(<<proof.run, k>>, proof.slot[k])
    BY DEF IInv, ProofIsWitnessed
  <2>1. proof.run \in Runs /\ proof.slot \in [Kinds -> Slots]
    BY DEF IInv, TypeOK
  <2> QED BY <2>1, SettledIsRecorded DEF IInv, FilesFit
<1> QED BY <1>1, Invariant, PTL

\* A backend that answers as its code does never mismatches a fixture a run
\* wrote: the smoke's assertions ask for nothing the code does not give.
THEOREM HonestBackendsPass == Spec => []GeneratedFixturesPass
<1>1. IInv => GeneratedFixturesPass
  BY DEF IInv
<1> QED BY <1>1, Invariant, PTL
=============================================================================
