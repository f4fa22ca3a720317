---------------------------- MODULE ReceiptStore ----------------------------
(***************************************************************************)
(* The hosted functions over the verification_receipts table: deliveries   *)
(* (verify-event requests and webhook signatures) that verify and persist  *)
(* a receipt, function instances of the previous release that still write  *)
(* legacy rows, get-receipt lookups, and the migrations that a rolling     *)
(* deployment applies while all of them run.                               *)
(*                                                                         *)
(* A receipt id is the hash of a receipt's identity, taken to be injective *)
(* and, by its prefix, never shared by the two versions.  The content of a *)
(* receipt is everything its id does not bind: slot, verdict, reason code, *)
(* reason text and evidence.                                               *)
(***************************************************************************)
EXTENDS Naturals

CONSTANTS
    Deliveries,   \* concurrent executions of verifyAndPersist
    Ids,          \* version 2 receipt ids
    LegacyIds,    \* version 1 receipt ids
    Contents,     \* what a receipt says beside its identity
    None,         \* no row
    MaxAttempts   \* bound: executions started

ASSUME StoreAssumption ==
    /\ Ids \cap LegacyIds = {}
    /\ None \notin Contents
    /\ None \notin [version: {1, 2}, content: Contents, wellFormed: BOOLEAN]
    /\ MaxAttempts \in Nat

VARIABLES
    table,       \* verification_receipts: a row or None under each id
    migrated,    \* version 2 columns and the immutability trigger are there
    pc,          \* where each delivery stands
    result,      \* the id and content each delivery verified
    stored,      \* the row each delivery read back
    attempts,    \* executions started
    confirmed,   \* history: <<id, content>> pairs answered to a caller
    shown        \* history: <<id, row>> pairs get-receipt answered

vars == <<table, migrated, pc, result, stored, attempts, confirmed, shown>>

Row == [version: {1, 2}, content: Contents, wellFormed: BOOLEAN]

\* buildReceiptRecord
ReceiptRecord(content) == [version |-> 2, content |-> content, wellFormed |-> TRUE]

TypeOK ==
    /\ table \in [Ids \cup LegacyIds -> Row \cup {None}]
    /\ migrated \in BOOLEAN
    /\ pc \in [Deliveries -> {"idle", "inserting", "inserted", "read"}]
    /\ result \in [Deliveries -> (Ids \X Contents) \cup {None}]
    /\ stored \in [Deliveries -> Row \cup {None}]
    /\ attempts \in Nat
    /\ confirmed \subseteq Ids \X Contents
    /\ shown \subseteq (Ids \cup LegacyIds) \X Row

Init ==
    /\ table = [id \in Ids \cup LegacyIds |-> None]
    /\ migrated = FALSE
    /\ pc = [d \in Deliveries |-> "idle"]
    /\ result = [d \in Deliveries |-> None]
    /\ stored = [d \in Deliveries |-> None]
    /\ attempts = 0
    /\ confirmed = {} /\ shown = {}

-----------------------------------------------------------------------------
\* Mutant: the execution is over but the delivery never becomes idle again.
MutSettle(d) ==
    /\ pc' = [pc EXCEPT ![d] = "done"]
    /\ UNCHANGED <<result, stored>>

\* The delivery ends and keeps nothing.
Settle(d) ==
    /\ pc' = [pc EXCEPT ![d] = "idle"]
    /\ result' = [result EXCEPT ![d] = None]
    /\ stored' = [stored EXCEPT ![d] = None]

\* verifyEvent returned a result with a receipt id.
Verified(d, id, content) ==
    /\ pc[d] = "idle" /\ attempts < MaxAttempts
    /\ attempts' = attempts + 1
    /\ pc' = [pc EXCEPT ![d] = "inserting"]
    /\ result' = [result EXCEPT ![d] = <<id, content>>]
    /\ UNCHANGED <<table, migrated, stored, confirmed, shown>>

\* Mutant: a duplicate overwrites the row.
MutUpsert(d) ==
    /\ pc[d] = "inserting" /\ migrated
    /\ table' = [table EXCEPT ![result[d][1]] = ReceiptRecord(result[d][2])]
    /\ pc' = [pc EXCEPT ![d] = "inserted"]
    /\ UNCHANGED <<migrated, result, stored, attempts, confirmed, shown>>

\* upsert with ignoreDuplicates: a row that is there is left alone.  Before
\* the migration the columns of a version 2 row do not exist.
Upsert(d) ==
    /\ pc[d] = "inserting" /\ migrated
    /\ table' = [table EXCEPT ![result[d][1]] =
                    IF @ = None THEN ReceiptRecord(result[d][2]) ELSE @]
    /\ pc' = [pc EXCEPT ![d] = "inserted"]
    /\ UNCHANGED <<migrated, result, stored, attempts, confirmed, shown>>

ReadBack(d) ==
    /\ pc[d] = "inserted"
    /\ stored' = [stored EXCEPT ![d] = table[result[d][1]]]
    /\ pc' = [pc EXCEPT ![d] = "read"]
    /\ UNCHANGED <<table, migrated, result, attempts, confirmed, shown>>

IsStoredVerificationReceipt(row) == row # None /\ row.wellFormed

\* Mutant: only the identity is compared.
MutMatchesRecord(row, record) == row.version = record.version
MatchesRecord(row, record) == row.version = 2 /\ row = record

\* The result is answered only if the row read back is the one computed.
Answer(d) ==
    /\ pc[d] = "read"
    /\ IsStoredVerificationReceipt(stored[d])
    /\ MatchesRecord(stored[d], ReceiptRecord(result[d][2]))
    /\ confirmed' = confirmed \cup {result[d]}
    /\ Settle(d)
    /\ UNCHANGED <<table, migrated, attempts, shown>>

\* The delivery throws (missing configuration, a database error with or
\* without its effect, a row that does not match) or its instance is killed.
\* Its sender may deliver again.
Fail(d) ==
    /\ pc[d] # "idle"
    /\ Settle(d)
    /\ UNCHANGED <<table, migrated, attempts, confirmed, shown>>

-----------------------------------------------------------------------------
\* An instance of the previous release stores a legacy receipt.  The legacy
\* columns are nullable, so the row may lack its event.
LegacyInsert(id, content, wellFormed) ==
    /\ table[id] = None
    /\ table' = [table EXCEPT ![id] =
                    [version |-> 1, content |-> content, wellFormed |-> wellFormed]]
    /\ UNCHANGED <<migrated, pc, result, stored, attempts, confirmed, shown>>

\* Mutant: the trigger is missing.
MutMutationRejected == FALSE
\* The trigger raises on every update and delete.
MutationRejected == migrated

\* A row is updated or deleted by whoever may still do it.
Mutate(id, row) ==
    /\ table[id] # None /\ ~MutationRejected
    /\ row # None => row.version = table[id].version
    /\ table' = [table EXCEPT ![id] = row]
    /\ UNCHANGED <<migrated, pc, result, stored, attempts, confirmed, shown>>

Migrate ==
    /\ ~migrated
    /\ migrated' = TRUE
    /\ UNCHANGED <<table, pc, result, stored, attempts, confirmed, shown>>

\* get-receipt answers a row it recognises; otherwise 404 or 500.
GetReceipt(id) ==
    /\ IsStoredVerificationReceipt(table[id])
    /\ shown' = shown \cup {<<id, table[id]>>}
    /\ UNCHANGED <<table, migrated, pc, result, stored, attempts, confirmed>>

DeliveryNext(d) ==
    \/ \E id \in Ids, content \in Contents : Verified(d, id, content)
    \/ Upsert(d) \/ ReadBack(d) \/ Answer(d) \/ Fail(d)

Next ==
    \/ \E d \in Deliveries : DeliveryNext(d)
    \/ \E id \in LegacyIds, content \in Contents, wellFormed \in BOOLEAN :
          LegacyInsert(id, content, wellFormed)
    \/ \E id \in LegacyIds \cup Ids, row \in Row \cup {None} : Mutate(id, row)
    \/ Migrate
    \/ \E id \in Ids \cup LegacyIds : GetReceipt(id)

Spec == Init /\ [][Next]_vars

-----------------------------------------------------------------------------
\* The version 2 part of the table is the ledger.
LedgerView == [id \in Ids |-> IF table[id] = None THEN None ELSE table[id].content]

Ledger == INSTANCE ReceiptLedger WITH ledger <- LedgerView

\* Whatever the interleaving of deliveries, repeats, failures half-way and
\* legacy writers, the table behaves as the write-once ledger, and a caller is
\* told of a receipt only when the ledger holds exactly that receipt.
ImplementsLedger == Ledger!LedgerSpec

\* get-receipt and the verifying functions never disagree about a receipt:
\* what was shown or confirmed under a version 2 id is one and the same row.
ReadersAgree ==
    \A seen \in shown : seen[1] \in Ids =>
        /\ \A again \in shown : again[1] = seen[1] => again = seen
        /\ \A told \in confirmed :
              told[1] = seen[1] => ReceiptRecord(told[2]) = seen[2]

\* Once the trigger is installed no row, of either version, changes or
\* disappears again.
RowsAreImmutable ==
    [][migrated => \A id \in Ids \cup LegacyIds :
                      table[id] # None => table'[id] = table[id]]_vars
=============================================================================
