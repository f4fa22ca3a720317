-------------------------- MODULE VerificationPath --------------------------
(***************************************************************************)
(* The way of one verification through the parts that check it, each with  *)
(* a validator of its own: the web route's and the hosted function's look  *)
(* at the request, verifyEvent, the receipt record, the table's            *)
(* constraints, the read-back, the web route's look at the answer, and     *)
(* later get-receipt and the public receipt page.  RequestPath puts the    *)
(* HTTP handlers around these steps; concurrency is in ReceiptStore.       *)
(***************************************************************************)
EXTENDS Attribution

CONSTANTS
    Signatures,  \* the texts that decode to the 64 bytes of a signature
    ProgramIds,  \* texts of at most 64 characters
    Locations,   \* the events a log may be found to hold
    None

\* A text as typed: what is between the blanks, and whether there are any.
\* "almost" is base58 of 64 to 88 characters that are not 64 bytes, "long" is
\* more than any limit.
Texts(cores) == [core: cores \cup {"", "almost", "long"}, padded: BOOLEAN]

ASSUME LocationsAssumption == Locations \subseteq Event

VerifyBodies(clusters) ==
    [signature: Texts(Signatures), cluster: clusters \cup {"unknown"},
     program: Texts(ProgramIds), format: {"anchor-log", "anchor-cpi", "unknown"},
     discriminator: Discriminators \cup {"upper case", "short"},
     commitment: {None, "finalized", "confirmed"}, rpcUrl: BOOLEAN]

VARIABLES
    stage,    \* the part that has it now
    refused,  \* what turned it down, and with which status
    input,    \* the request as it travels
    result,   \* what the SDK returned
    row       \* the row of verification_receipts

PathInit ==
    /\ stage = "start" /\ refused = None
    /\ input = None /\ result = None /\ row = None

\* The hosted function replies with an error instead of a result.
Refuse(part, status) ==
    /\ stage' = "replied" /\ refused' = [part |-> part, status |-> status]
    /\ UNCHANGED <<input, result, row>>

-----------------------------------------------------------------------------
(* Requests.                                                               *)

Trim(t) == [t EXCEPT !.padded = FALSE]
IsNonEmptyString(t) == t.core # ""
BoundedString(t) == t.core \notin {"", "long"}

\* Mutant: the signature is checked but forwarded as it came.
MutBrowserInput(r) == [r EXCEPT !.program = Trim(@), !.commitment = "finalized"]

\* What validateBrowserVerifyEventInput makes of a request it accepts.
BrowserInput(r) ==
    [r EXCEPT !.signature = Trim(@), !.program = Trim(@), !.commitment = "finalized"]

\* Both validators ask this of the rest of a request.
WellFormed(r) ==
    /\ r.cluster # "unknown" /\ ~r.rpcUrl
    /\ r.format \in {"anchor-log", "anchor-cpi"}
    /\ r.discriminator \in Discriminators
    /\ r.commitment \in {None, "finalized"}

ValidateBrowserVerifyEventInput(r) ==
    WellFormed(r) /\ BoundedString(r.signature) /\ BoundedString(r.program)

ValidateVerifyEventInput(r) ==
    WellFormed(r) /\ IsNonEmptyString(r.signature) /\ IsNonEmptyString(r.program)

-----------------------------------------------------------------------------
(* verifyEvent.                                                            *)

NoLogReasons == {"RPC_UNAVAILABLE", "TX_NOT_FOUND", "TX_NOT_FINALIZED",
                 "METADATA_MISSING", "TX_FAILED", "LOGS_UNAVAILABLE"}

IsInvalid(r) ==
    \/ r.signature = [core |-> "", padded |-> FALSE]
    \/ r.program = [core |-> "", padded |-> FALSE]
    \/ r.format = "unknown" \/ r.discriminator \notin Discriminators

\* The id binds the request and the event, the version and the commitment.
CreateVerificationReceiptId(r, event) ==
    <<2, r.cluster, "finalized", r.signature, r.program, r.format, r.discriminator, event>>

ReceiptOf(r, event) ==
    IF event = NoEvent THEN None ELSE CreateVerificationReceiptId(r, event)

ResultOf(r, reason, event) ==
    [signature |-> r.signature, cluster |-> r.cluster, program |-> r.program,
     commitment |-> "finalized",
     slot |-> IF reason \in {"INVALID_REQUEST", "RPC_UNAVAILABLE", "TX_NOT_FOUND"}
              THEN None ELSE 0,
     verdict |-> IF reason = "TX_FAILED" THEN "rejected" ELSE Verdict(reason),
     reason |-> reason, event |-> event, receipt |-> ReceiptOf(r, event)]

\* The program id is compared as it is: with blanks around it no program has it.
Expected(program) == IF program.padded THEN None ELSE program.core

\* Mutant: the genesis hash is asked for and not compared.
MutVerifies(r, answering) == TRUE

\* The endpoint answers for the cluster of the request.
Verifies(r, answering) == answering = r.cluster

VerifyEvent(answering) ==
    /\ stage = "verifying"
    /\ \/ IsInvalid(input) /\ result' = ResultOf(input, "INVALID_REQUEST", NoEvent)
       \/ ~IsInvalid(input) /\ result' = ResultOf(input, "RPC_UNAVAILABLE", NoEvent)
       \/ /\ ~IsInvalid(input) /\ Verifies(input, answering)
          /\ \E reason \in NoLogReasons : result' = ResultOf(input, reason, NoEvent)
       \/ /\ ~IsInvalid(input) /\ Verifies(input, answering) /\ input.format = "anchor-cpi"
          /\ result' = ResultOf(input, "CPI_EVENT_UNSUPPORTED", NoEvent)
       \/ /\ ~IsInvalid(input) /\ Verifies(input, answering) /\ input.format = "anchor-log"
          /\ \E located \in {<<>>} \cup [{1} -> Locations] \cup [{1, 2} -> Locations] :
                result' = ResultOf(input,
                    Reason(located, Expected(input.program), input.discriminator),
                    AttributedEvent(located, Expected(input.program), input.discriminator))
    /\ stage' = IF result'.receipt = None THEN "replied" ELSE "persisting"
    /\ UNCHANGED <<refused, input, row>>

-----------------------------------------------------------------------------
(* The receipt.                                                            *)

\* buildReceiptRecord throws unless the result is for the input.
MatchesInput ==
    /\ result.receipt # None /\ result.event # NoEvent
    /\ result.signature = input.signature /\ result.cluster = input.cluster
    /\ result.program = input.program /\ result.commitment = "finalized"
    /\ result.receipt = CreateVerificationReceiptId(input, result.event)

BuildReceiptRecord ==
    [version |-> 2, receipt |-> result.receipt, signature |-> result.signature,
     cluster |-> result.cluster, commitment |-> result.commitment, slot |-> result.slot,
     verdict |-> result.verdict, reason |-> result.reason,
     program |-> input.program, format |-> input.format,
     discriminator |-> input.discriminator, event |-> result.event]

\* The checks of the table on a version 2 row; btrim takes the blanks away.
IdentityCheck(r) ==
    /\ r.cluster \in {"mainnet-beta", "devnet", "testnet"}
    /\ r.verdict \in {"verified", "rejected", "indeterminate"}
    /\ r.commitment = "finalized" /\ r.program.core # ""
    /\ r.format \in {"anchor-log", "anchor-cpi"} /\ r.discriminator \in Discriminators
    /\ r.event # NoEvent

IsStoredVerificationReceipt(r) ==
    /\ IdentityCheck(r)
    /\ IsNonEmptyString(r.signature) /\ IsNonEmptyString(r.program)
    /\ r.receipt = CreateVerificationReceiptId(r, r.event)

\* The public page also asks that the verdict fit the reason.
VerdictByReasonCode(reason) ==
    CASE reason = "VERIFIED" -> "verified"
      [] reason \in {"TX_FAILED", "PROGRAM_MISMATCH", "DISCRIMINATOR_MISMATCH"} -> "rejected"
      [] OTHER -> "indeterminate"

IsPublicReceipt(r) ==
    IsStoredVerificationReceipt(r) /\ VerdictByReasonCode(r.reason) = r.verdict

\* The row is inserted under the table's checks and read back.
Persist ==
    /\ stage = "persisting"
    /\ IF ~MatchesInput THEN Refuse("record", 500)
       ELSE IF ~IdentityCheck(BuildReceiptRecord) THEN Refuse("table", 500)
       ELSE IF ~IsStoredVerificationReceipt(BuildReceiptRecord) THEN Refuse("read-back", 500)
       ELSE /\ row' = BuildReceiptRecord /\ stage' = "replied"
            /\ UNCHANGED <<refused, input, result>>

-----------------------------------------------------------------------------
(* The answer, and the receipt later.                                      *)

IsVerificationResult(res) ==
    /\ res.verdict \in {"verified", "rejected", "indeterminate"}
    /\ res.reason \in Reasons \cup NoLogReasons \cup {"CPI_EVENT_UNSUPPORTED", "INVALID_REQUEST"}
    /\ res.cluster \in {"mainnet-beta", "devnet", "testnet"}
    /\ res.commitment = "finalized"

\* The page compares the answer with its request, which normalizeRequest had
\* trimmed; a caller of the hosted function gets the answer as it is.
ResultMatchesRequest(res, r) ==
    /\ res.signature = Trim(r.signature) /\ res.program = Trim(r.program)
    /\ res.cluster = r.cluster /\ res.commitment = "finalized"
=============================================================================
