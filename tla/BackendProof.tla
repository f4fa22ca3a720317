---------------------------- MODULE BackendProof ----------------------------
(***************************************************************************)
(* smoke-devnet-backend-proof beside the runs that replace its fixture: it *)
(* reads the fixture once, has the hosted function verify both             *)
(* transactions, reads the receipt back, and writes a proof.  The backend  *)
(* is either the one RequestPath and ReceiptStore describe, which may be   *)
(* unavailable, or one that answers anything.                              *)
(***************************************************************************)
EXTENDS DevnetFixture

VARIABLES
    honest,  \* whether the backend's answers are those of the code
    smoke,   \* how far the smoke is
    fixture, \* the fixture it read
    receipt, \* the receipt id it was given
    slots,   \* the slots in the answers it accepted
    proof    \* the proof it wrote

smokeVars == <<honest, smoke, fixture, receipt, slots, proof>>
vars == <<fixtureVars, smokeVars>>

\* EXPECTED_TRANSACTIONS
Expected(kind) == IF kind = "success" THEN "VERIFIED" ELSE "TX_FAILED"

ReceiptIds == {"own", "foreign"}

ASSUME ReceiptAssumption == None \notin ReceiptIds

\* What verify-event may answer: for an honest backend what a verification of
\* the finalized transaction concludes, or that its provider has nothing.
Result == [tx: Txs, slot: Slots \cup {None}, receipt: ReceiptIds \cup {None},
           reason: {"VERIFIED", "TX_FAILED", "AMBIGUOUS_EVENT", "TX_NOT_FOUND"}]

TrueResult(t) ==
    LET reason == IF ~chain[t].ok THEN "TX_FAILED"
                  ELSE IF chain[t].events = 1 THEN "VERIFIED" ELSE "AMBIGUOUS_EVENT"
    IN [tx |-> t, slot |-> chain[t].slot, reason |-> reason,
        receipt |-> IF reason = "VERIFIED" THEN "own" ELSE None]

Unavailable(t) == [tx |-> t, slot |-> None, reason |-> "TX_NOT_FOUND", receipt |-> None]

Results(t) == IF honest THEN {TrueResult(t), Unavailable(t)} ELSE Result

\* What get-receipt may answer.
Receipts(k) ==
    IF honest
      THEN {[receipt |-> receipt, tx |-> <<fixture.run, k>>, slot |-> fixture.slot[k],
             reason |-> Expected(k)]}
      ELSE [receipt: ReceiptIds, tx: Txs, slot: Slots, reason: {"VERIFIED", "TX_FAILED"}]

-----------------------------------------------------------------------------
SmokeInit ==
    /\ honest \in BOOLEAN
    /\ smoke = "idle" /\ fixture = None /\ receipt = None /\ proof = None
    /\ slots = [k \in Kinds |-> None]

Init == FixtureInit /\ SmokeInit

\* validateFixture: the file is there, is JSON, and expects what the smoke does.
\* It is the file that the runs write; one from elsewhere, which --fixture may
\* name, is left out.
ValidateFixture(f) == f # None /\ f.whole

ReadFixture ==
    /\ smoke = "idle"
    /\ IF ValidateFixture(output)
         THEN fixture' = output /\ smoke' = "verifies success"
         ELSE smoke' = "no fixture" /\ UNCHANGED fixture
    /\ UNCHANGED <<honest, receipt, slots, proof, fixtureVars>>

\* Mutant: a receipt is required of both verifications.
MutRequiresReceipt(k) == TRUE

\* A rejected transaction that failed has no event, and so no receipt.
RequiresReceipt(k) == k = "success"

\* Mutant: the slot is not compared.
MutAssertVerificationResult(res, k) ==
    /\ res.tx = <<fixture.run, k>> /\ res.slot # None /\ res.reason = Expected(k)
    /\ res.receipt # None <=> RequiresReceipt(k)

AssertVerificationResult(res, k) ==
    /\ res.tx = <<fixture.run, k>> /\ res.slot = fixture.slot[k]
    /\ res.reason = Expected(k)
    /\ res.receipt # None <=> RequiresReceipt(k)

\* A backend that is not there, answers with an error, too late, or not with a
\* conclusion fails the smoke, and so does every answer that is not as expected.
Failure(res) == IF res.reason = "TX_NOT_FOUND" THEN "unavailable" ELSE "mismatch"

VerifySuccess ==
    /\ smoke = "verifies success"
    /\ \/ smoke' = "unavailable" /\ UNCHANGED <<receipt, slots>>
       \/ \E res \in Results(<<fixture.run, "success">>) :
             IF AssertVerificationResult(res, "success")
               THEN /\ smoke' = "reads receipt" /\ receipt' = res.receipt
                    /\ slots' = [slots EXCEPT !["success"] = res.slot]
               ELSE smoke' = Failure(res) /\ UNCHANGED <<receipt, slots>>
    /\ UNCHANGED <<honest, fixture, proof, fixtureVars>>

AssertReceipt(res) ==
    /\ res.receipt = receipt /\ res.tx = <<fixture.run, "success">>
    /\ res.slot = slots["success"] /\ res.reason = Expected("success")

FetchReceipt ==
    /\ smoke = "reads receipt"
    /\ \/ smoke' = "unavailable"
       \/ \E res \in Receipts("success") :
             smoke' = IF AssertReceipt(res) THEN "verifies failure" ELSE "mismatch"
    /\ UNCHANGED <<honest, fixture, receipt, slots, proof, fixtureVars>>

VerifyFailure ==
    /\ smoke = "verifies failure"
    /\ \/ smoke' = "unavailable" /\ UNCHANGED slots
       \/ \E res \in Results(<<fixture.run, "failure">>) :
             IF AssertVerificationResult(res, "failure")
               THEN smoke' = "writes" /\ slots' = [slots EXCEPT !["failure"] = res.slot]
               ELSE smoke' = Failure(res) /\ UNCHANGED slots
    /\ UNCHANGED <<honest, fixture, receipt, proof, fixtureVars>>

\* buildProof, written beside the old proof and renamed; an interruption before
\* leaves the old one.
WriteProof ==
    /\ smoke = "writes"
    /\ \/ /\ smoke' = "done"
          /\ proof' = [run |-> fixture.run, slot |-> slots, receipt |-> receipt]
       \/ smoke' = "interrupted" /\ UNCHANGED proof
    /\ UNCHANGED <<honest, fixture, receipt, slots, fixtureVars>>

SmokeNext == VerifySuccess \/ FetchReceipt \/ VerifyFailure \/ WriteProof

Next ==
    \/ FixtureNext /\ UNCHANGED smokeVars
    \/ ReadFixture \/ SmokeNext

\* A script runs to its end: its calls settle, those of the smoke after its
\* timeout, those of a run because the client's do.
Spec ==
    /\ Init /\ [][Next]_vars
    /\ \A r \in Runs : WF_vars(RunNext(r) /\ UNCHANGED smokeVars)

-----------------------------------------------------------------------------
TypeOK ==
    /\ FixtureTypeOK
    /\ honest \in BOOLEAN
    /\ smoke \in {"idle", "no fixture", "verifies success", "reads receipt", "verifies failure",
                  "writes", "done", "unavailable", "mismatch", "interrupted"}
    /\ fixture \in Fixture \cup {None}
    /\ receipt \in ReceiptIds \cup {None}
    /\ slots \in [Kinds -> Slots \cup {None}]
    /\ proof \in [run: Runs, slot: [Kinds -> Slots], receipt: ReceiptIds] \cup {None}

\* docs/devnet-demo-program.md, "Prove the hosted backend": whatever a backend
\* answers, a proof names a successful and a failed transaction that the cluster
\* has finalized in the slots it gives; and every variable keeps its type.
ProofIsWitnessed ==
    /\ TypeOK
    /\ proof # None => \A k \in Kinds : Recorded(<<proof.run, k>>, proof.slot[k])

\* A fixture that a run wrote passes the smoke: if the backend answers as its
\* code does, only its absence or unavailability can fail it, although runs
\* replace the file while the smoke goes on.
GeneratedFixturesPass == honest => smoke # "mismatch"
=============================================================================
