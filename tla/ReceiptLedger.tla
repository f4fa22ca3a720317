--------------------------- MODULE ReceiptLedger ---------------------------
(***************************************************************************)
(* What the receipt store promises (docs/verification-invariants.md items  *)
(* 8 and 9): a write-once map from receipt ids to receipt contents, and    *)
(* confirmations that are only given for what the map holds.               *)
(***************************************************************************)
CONSTANTS Ids, Contents, None

VARIABLES
    ledger,     \* the content recorded under each id, or None
    confirmed   \* the <<id, content>> pairs callers were told are stored

LedgerInit ==
    /\ ledger = [id \in Ids |-> None]
    /\ confirmed = {}

Record(id, content) ==
    /\ ledger[id] = None
    /\ ledger' = [ledger EXCEPT ![id] = content]
    /\ UNCHANGED confirmed

Confirm(id, content) ==
    /\ ledger[id] = content
    /\ confirmed' = confirmed \cup {<<id, content>>}
    /\ UNCHANGED ledger

LedgerNext ==
    \E id \in Ids, content \in Contents : Record(id, content) \/ Confirm(id, content)

LedgerSpec == LedgerInit /\ [][LedgerNext]_<<ledger, confirmed>>
=============================================================================
