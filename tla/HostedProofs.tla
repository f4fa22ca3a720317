---------------------------- MODULE HostedProofs ----------------------------
(***************************************************************************)
(* The hosted functions' shared state, for any number of deliveries, ids,  *)
(* contents, workers and signatures.                                       *)
(* The receipt store keeps its promises.  Argument: a version 2 row        *)
(* appears only after the migration, so the trigger is there from its      *)
(* first moment; hence a row once read back, confirmed or shown is the row *)
(* the table still holds.                                                  *)
(* The webhook's workers share one cursor.  Argument: what lies before the *)
(* cursor is under way or over, each index once, and workers return only   *)
(* when nothing is left.                                                   *)
(***************************************************************************)
EXTENDS ReceiptStore, HeliusWebhook, SequenceTheorems, FiniteSetTheorems,
        WellFoundedInduction, TLAPS

\* A version 2 id holds nothing or a version 2 row, and that only since the
\* migration.
RowsFit ==
    \A id \in Ids : table[id] # None =>
        /\ migrated
        /\ table[id] = ReceiptRecord(table[id].content)

\* A delivery past its upsert finds a row; past its read it holds that row.
DeliveriesFit ==
    \A d \in Deliveries :
        /\ pc[d] # "idle" => result[d] \in Ids \X Contents
        /\ pc[d] \in {"inserted", "read"} => table[result[d][1]] # None
        /\ pc[d] = "read" => stored[d] = table[result[d][1]]

ConfirmedIsStored ==
    \A told \in confirmed : table[told[1]] = ReceiptRecord(told[2])

ShownIsStored ==
    \A seen \in shown : seen[1] \in Ids => table[seen[1]] = seen[2]

IInv == TypeOK /\ RowsFit /\ DeliveriesFit /\ ConfirmedIsStored /\ ShownIsStored

-----------------------------------------------------------------------------
LEMMA RecordIsRow ==
    ASSUME NEW content \in Contents
    PROVE  ReceiptRecord(content) \in Row /\ ReceiptRecord(content) # None
<1>1. ReceiptRecord(content) \in Row
  BY DEF ReceiptRecord, Row
<1>2. None \notin Row
  BY StoreAssumption DEF Row
<1> QED BY <1>1, <1>2

LEMMA InitInv == Init => IInv
<1> SUFFICES ASSUME Init PROVE IInv
  OBVIOUS
<1>1. TypeOK
  BY DEF Init, TypeOK
<1>2. RowsFit /\ DeliveriesFit /\ ConfirmedIsStored /\ ShownIsStored
  BY DEF Init, RowsFit, DeliveriesFit, ConfirmedIsStored, ShownIsStored
<1> QED BY <1>1, <1>2 DEF IInv

\* A step that only adds version 2 rows, or only changes legacy ones, keeps the
\* three facts that depend on the table alone.
LEMMA TableStep ==
    ASSUME TypeOK, RowsFit, ConfirmedIsStored, ShownIsStored,
           \A id \in Ids : table[id] # None => table'[id] = table[id],
           \A id \in Ids : table[id] = None /\ table'[id] # None =>
                /\ migrated'
                /\ \E content \in Contents : table'[id] = ReceiptRecord(content),
           migrated => migrated',
           UNCHANGED <<confirmed, shown>>
    PROVE  RowsFit' /\ ConfirmedIsStored' /\ ShownIsStored'
<1>1. ASSUME NEW id \in Ids, table'[id] # None
      PROVE  migrated' /\ table'[id] = ReceiptRecord(table'[id].content)
  <2>1. CASE table[id] = None
    <3>1. PICK content \in Contents : table'[id] = ReceiptRecord(content)
      BY <1>1, <2>1
    <3>2. ReceiptRecord(content).content = content
      BY DEF ReceiptRecord
    <3>3. migrated'
      BY <1>1, <2>1
    <3> QED BY <3>1, <3>2, <3>3
  <2>2. CASE table[id] # None
    BY <1>1, <2>2 DEF RowsFit
  <2> QED BY <2>1, <2>2
<1>2. ASSUME NEW told \in confirmed PROVE table'[told[1]] = ReceiptRecord(told[2])
  <2>1. told[1] \in Ids /\ told[2] \in Contents
    BY <1>2 DEF TypeOK
  <2>2. table[told[1]] # None
    BY <1>2, <2>1, RecordIsRow DEF ConfirmedIsStored
  <2> QED BY <1>2, <2>1, <2>2 DEF ConfirmedIsStored
<1>3. ASSUME NEW seen \in shown, seen[1] \in Ids PROVE table'[seen[1]] = seen[2]
  <2>1. seen[2] \in Row /\ table[seen[1]] = seen[2]
    BY <1>3 DEF TypeOK, ShownIsStored
  <2>2. None \notin Row
    BY StoreAssumption DEF Row
  <2> QED BY <1>3, <2>1, <2>2
<1> QED BY <1>1, <1>2, <1>3 DEF RowsFit, ConfirmedIsStored, ShownIsStored

LEMMA StepInv == IInv /\ [Next]_vars => IInv'
<1> SUFFICES ASSUME IInv, [Next]_vars PROVE IInv'
  OBVIOUS
<1> USE DEF IInv
<1>1. ASSUME NEW d \in Deliveries, NEW id \in Ids, NEW content \in Contents,
             Verified(d, id, content)
      PROVE  IInv'
  <2>1. TypeOK'
    BY <1>1 DEF TypeOK, Verified
  <2>2. RowsFit' /\ ConfirmedIsStored' /\ ShownIsStored'
    BY <1>1 DEF Verified, RowsFit, ConfirmedIsStored, ShownIsStored
  <2>3. DeliveriesFit'
    BY <1>1 DEF TypeOK, Verified, DeliveriesFit
  <2> QED BY <2>1, <2>2, <2>3
<1>2. ASSUME NEW d \in Deliveries, Upsert(d)
      PROVE  IInv'
  <2> DEFINE id == result[d][1]
             content == result[d][2]
  <2>1. id \in Ids /\ content \in Contents /\ id \in Ids \cup LegacyIds
    BY <1>2 DEF Upsert, DeliveriesFit
  <2>2. table'[id] = IF table[id] = None THEN ReceiptRecord(content) ELSE table[id]
    BY <1>2, <2>1 DEF Upsert, TypeOK
  <2>3. \A other \in (Ids \cup LegacyIds) \ {id} : table'[other] = table[other]
    BY <1>2, <2>1 DEF Upsert, TypeOK
  <2>4. table'[id] # None
    BY <2>1, <2>2, RecordIsRow
  <2>5. TypeOK'
    <3>1. table' \in [Ids \cup LegacyIds -> Row \cup {None}]
      BY <1>2, <2>1, RecordIsRow DEF Upsert, TypeOK
    <3> QED BY <1>2, <3>1 DEF Upsert, TypeOK
  <2>6. RowsFit' /\ ConfirmedIsStored' /\ ShownIsStored'
    BY <1>2, <2>1, <2>2, <2>3, TableStep DEF Upsert
  <2>7. DeliveriesFit'
    <3> SUFFICES ASSUME NEW e \in Deliveries
                 PROVE  /\ pc'[e] # "idle" => result'[e] \in Ids \X Contents
                        /\ pc'[e] \in {"inserted", "read"} => table'[result'[e][1]] # None
                        /\ pc'[e] = "read" => stored'[e] = table'[result'[e][1]]
      BY DEF DeliveriesFit
    <3>1. CASE e = d
      BY <1>2, <2>1, <2>4, <3>1 DEF Upsert, TypeOK, DeliveriesFit
    <3>2. CASE e # d
      <4>1. pc'[e] = pc[e] /\ result' = result /\ stored' = stored
        BY <1>2, <3>2 DEF Upsert, TypeOK
      <4>2. pc[e] # "idle" => result[e][1] \in Ids
        BY DEF DeliveriesFit
      <4>3. pc[e] \in {"inserted", "read"} => table'[result[e][1]] = table[result[e][1]]
        BY <4>2, <2>2, <2>3 DEF DeliveriesFit
      <4> QED BY <4>1, <4>3 DEF DeliveriesFit
    <3> QED BY <3>1, <3>2
  <2> QED BY <2>5, <2>6, <2>7
<1>3. ASSUME NEW d \in Deliveries, ReadBack(d)
      PROVE  IInv'
  <2>1. result[d][1] \in Ids
    BY <1>3 DEF ReadBack, DeliveriesFit
  <2>2. TypeOK'
    BY <1>3, <2>1 DEF TypeOK, ReadBack
  <2>3. RowsFit' /\ ConfirmedIsStored' /\ ShownIsStored'
    BY <1>3 DEF ReadBack, RowsFit, ConfirmedIsStored, ShownIsStored
  <2>4. DeliveriesFit'
    BY <1>3 DEF TypeOK, ReadBack, DeliveriesFit
  <2> QED BY <2>2, <2>3, <2>4
<1>4. ASSUME NEW d \in Deliveries, Answer(d)
      PROVE  IInv'
  <2>1. result[d] \in Ids \X Contents
    BY <1>4 DEF Answer, DeliveriesFit
  <2>2. TypeOK'
    BY <1>4, <2>1 DEF TypeOK, Answer, Settle
  <2>3. table[result[d][1]] = ReceiptRecord(result[d][2])
    BY <1>4 DEF Answer, MatchesRecord, DeliveriesFit
  <2>4. ConfirmedIsStored'
    BY <1>4, <2>3 DEF Answer, ConfirmedIsStored
  <2>5. RowsFit' /\ ShownIsStored'
    BY <1>4 DEF Answer, RowsFit, ShownIsStored
  <2>6. DeliveriesFit'
    BY <1>4 DEF TypeOK, Answer, Settle, DeliveriesFit
  <2> QED BY <2>2, <2>4, <2>5, <2>6
<1>5. ASSUME NEW d \in Deliveries, Fail(d)
      PROVE  IInv'
  <2>1. TypeOK' /\ DeliveriesFit'
    BY <1>5 DEF TypeOK, Fail, Settle, DeliveriesFit
  <2>2. RowsFit' /\ ConfirmedIsStored' /\ ShownIsStored'
    BY <1>5 DEF Fail, RowsFit, ConfirmedIsStored, ShownIsStored
  <2> QED BY <2>1, <2>2
<1>6. ASSUME NEW id \in LegacyIds,
             UNCHANGED <<migrated, pc, result, stored, attempts, confirmed, shown>>,
             NEW row \in Row \cup {None}, table' = [table EXCEPT ![id] = row]
      PROVE  IInv'
  <2>1. \A v2 \in Ids : table'[v2] = table[v2]
    BY <1>6, StoreAssumption DEF TypeOK
  <2>2. TypeOK'
    BY <1>6 DEF TypeOK
  <2>3. RowsFit' /\ ConfirmedIsStored' /\ ShownIsStored'
    BY <1>6, <2>1, TableStep
  <2>4. DeliveriesFit'
    <3> SUFFICES ASSUME NEW e \in Deliveries, pc[e] # "idle"
                 PROVE  table'[result[e][1]] = table[result[e][1]]
      BY <1>6 DEF DeliveriesFit
    <3> QED BY <2>1 DEF DeliveriesFit
  <2> QED BY <2>2, <2>3, <2>4
<1>7. ASSUME NEW id \in LegacyIds, NEW content \in Contents,
             NEW wellFormed \in BOOLEAN, LegacyInsert(id, content, wellFormed)
      PROVE  IInv'
  <2> DEFINE row == [version |-> 1, content |-> content, wellFormed |-> wellFormed]
  <2>1. row \in Row \cup {None}
    BY DEF Row
  <2> HIDE DEF row
  <2>2. table' = [table EXCEPT ![id] = row]
    BY <1>7 DEF LegacyInsert, row
  <2> QED BY <1>6, <1>7, <2>1, <2>2 DEF LegacyInsert
<1>8. ASSUME NEW id \in LegacyIds \cup Ids, NEW row \in Row \cup {None}, Mutate(id, row)
      PROVE  IInv'
  <2>1. id \in LegacyIds
    BY <1>8 DEF Mutate, MutationRejected, RowsFit
  <2> QED BY <1>6, <1>8, <2>1 DEF Mutate
<1>9. CASE Migrate
  BY <1>9 DEF Migrate, TypeOK, RowsFit, DeliveriesFit, ConfirmedIsStored, ShownIsStored
<1>10. ASSUME NEW id \in Ids \cup LegacyIds, GetReceipt(id)
       PROVE  IInv'
  <2>1. TypeOK'
    BY <1>10 DEF TypeOK, GetReceipt, IsStoredVerificationReceipt
  <2>2. ShownIsStored'
    BY <1>10 DEF GetReceipt, ShownIsStored
  <2>3. RowsFit' /\ ConfirmedIsStored' /\ DeliveriesFit'
    BY <1>10 DEF GetReceipt, RowsFit, ConfirmedIsStored, DeliveriesFit
  <2> QED BY <2>1, <2>2, <2>3
<1>11. CASE UNCHANGED vars
  BY <1>11 DEF vars, TypeOK, RowsFit, DeliveriesFit, ConfirmedIsStored, ShownIsStored
<1> QED
  BY <1>1, <1>2, <1>3, <1>4, <1>5, <1>7, <1>8, <1>9, <1>10, <1>11 DEF Next, DeliveryNext

\* The strengthened invariant holds in every reachable state.
THEOREM Invariant == Spec => []IInv
BY InitInv, StepInv, PTL DEF Spec

-----------------------------------------------------------------------------
\* Every variable of the store keeps its type.
THEOREM TypeCorrect == Spec => []TypeOK
BY Invariant, PTL DEF IInv

\* Lookups and confirmations never disagree about a version 2 receipt.
THEOREM ReadersAlwaysAgree == Spec => []ReadersAgree
<1>1. IInv => ReadersAgree
  <2> SUFFICES ASSUME IInv, NEW seen \in shown, seen[1] \in Ids
               PROVE  /\ \A again \in shown : again[1] = seen[1] => again = seen
                      /\ \A told \in confirmed : told[1] = seen[1] =>
                            ReceiptRecord(told[2]) = seen[2]
    BY DEF ReadersAgree
  <2>1. \A again \in shown : again = <<again[1], again[2]>>
    BY DEF IInv, TypeOK
  <2>2. \A again \in shown : again[1] = seen[1] => again[2] = seen[2]
    BY DEF IInv, ShownIsStored
  <2> QED BY <2>1, <2>2 DEF IInv, ShownIsStored, ConfirmedIsStored
<1> QED BY <1>1, Invariant, PTL

\* Once the trigger is installed no row changes or disappears.
THEOREM RowsStay == Spec => RowsAreImmutable
<1>1. IInv /\ [Next]_vars =>
        [migrated => \A id \in Ids \cup LegacyIds :
                       table[id] # None => table'[id] = table[id]]_vars
  <2> SUFFICES ASSUME IInv, Next, migrated, NEW id \in Ids \cup LegacyIds,
                      table[id] # None
               PROVE  table'[id] = table[id]
    OBVIOUS
  <2>1. ASSUME NEW d \in Deliveries, DeliveryNext(d) PROVE table'[id] = table[id]
    <3>1. CASE Upsert(d)
      BY <3>1 DEF Upsert, IInv, TypeOK
    <3> QED BY <2>1, <3>1 DEF DeliveryNext, Verified, ReadBack, Answer, Fail
  <2>2. ASSUME NEW l \in LegacyIds, NEW content \in Contents,
               NEW wellFormed \in BOOLEAN, LegacyInsert(l, content, wellFormed)
        PROVE  table'[id] = table[id]
    BY <2>2 DEF LegacyInsert, IInv, TypeOK
  <2>3. ASSUME NEW l \in LegacyIds \cup Ids, NEW row \in Row \cup {None}, Mutate(l, row)
        PROVE  table'[id] = table[id]
    BY <2>3 DEF Mutate, MutationRejected
  <2>4. CASE Migrate
    BY <2>4 DEF Migrate
  <2>5. ASSUME NEW l \in Ids \cup LegacyIds, GetReceipt(l) PROVE table'[id] = table[id]
    BY <2>5 DEF GetReceipt
  <2> QED BY <2>1, <2>2, <2>3, <2>4, <2>5 DEF Next
<1> QED BY <1>1, Invariant, PTL DEF Spec, RowsAreImmutable

-----------------------------------------------------------------------------
\* The store implements the write-once ledger, for every set of deliveries.
THEOREM Refinement == Spec => ImplementsLedger
<1>1. Init => Ledger!LedgerInit
  BY DEF Init, Ledger!LedgerInit, LedgerView
<1>2. IInv /\ [Next]_vars => [Ledger!LedgerNext]_<<LedgerView, confirmed>>
  <2> SUFFICES ASSUME IInv, [Next]_vars
               PROVE  Ledger!LedgerNext \/ UNCHANGED <<LedgerView, confirmed>>
    OBVIOUS
  <2>1. ASSUME NEW d \in Deliveries, Upsert(d)
        PROVE  Ledger!LedgerNext \/ UNCHANGED <<LedgerView, confirmed>>
    <3> DEFINE id == result[d][1]
               content == result[d][2]
    <3>1. id \in Ids /\ content \in Contents
      BY <2>1 DEF Upsert, IInv, DeliveriesFit
    <3>2. CASE table[id] # None
      <4>1. table' = table
        BY <2>1, <3>1, <3>2 DEF Upsert, IInv, TypeOK
      <4> QED BY <2>1, <4>1 DEF Upsert, LedgerView
    <3>3. CASE table[id] = None
      <4>1. table' = [table EXCEPT ![id] = ReceiptRecord(content)]
        BY <2>1, <3>3 DEF Upsert
      <4>2. LedgerView' = [LedgerView EXCEPT ![id] = content]
        BY <3>1, <4>1, RecordIsRow DEF LedgerView, ReceiptRecord, IInv, TypeOK
      <4>3. LedgerView[id] = None
        BY <3>1, <3>3 DEF LedgerView
      <4>4. Ledger!Record(id, content)
        BY <2>1, <4>2, <4>3 DEF Upsert, Ledger!Record
      <4> QED BY <3>1, <4>4 DEF Ledger!LedgerNext
    <3> QED BY <3>2, <3>3
  <2>2. ASSUME NEW d \in Deliveries, Answer(d)
        PROVE  Ledger!LedgerNext \/ UNCHANGED <<LedgerView, confirmed>>
    <3> DEFINE id == result[d][1]
               content == result[d][2]
    <3>1. id \in Ids /\ content \in Contents /\ result[d] = <<id, content>>
      BY <2>2 DEF Answer, IInv, DeliveriesFit
    <3>2. table[id] = ReceiptRecord(content)
      BY <2>2 DEF Answer, MatchesRecord, IInv, DeliveriesFit
    <3>3. LedgerView[id] = content
      BY <3>1, <3>2, RecordIsRow DEF LedgerView, ReceiptRecord
    <3>4. Ledger!Confirm(id, content)
      BY <2>2, <3>1, <3>3 DEF Answer, Ledger!Confirm, LedgerView
    <3> QED BY <3>1, <3>4 DEF Ledger!LedgerNext
  <2>3. ASSUME NEW l \in LegacyIds, table' = [table EXCEPT ![l] = table'[l]],
               UNCHANGED confirmed
        PROVE  UNCHANGED <<LedgerView, confirmed>>
    <3>1. \A id \in Ids : table'[id] = table[id]
      BY <2>3, StoreAssumption DEF IInv, TypeOK
    <3> QED BY <2>3, <3>1 DEF LedgerView
  <2>4. ASSUME NEW l \in LegacyIds, NEW content \in Contents,
               NEW wellFormed \in BOOLEAN, LegacyInsert(l, content, wellFormed)
        PROVE  UNCHANGED <<LedgerView, confirmed>>
    BY <2>3, <2>4 DEF LegacyInsert, IInv, TypeOK
  <2>5. ASSUME NEW l \in LegacyIds \cup Ids, NEW row \in Row \cup {None}, Mutate(l, row)
        PROVE  UNCHANGED <<LedgerView, confirmed>>
    <3>1. l \in LegacyIds
      BY <2>5 DEF Mutate, MutationRejected, IInv, RowsFit
    <3> QED BY <2>3, <2>5, <3>1 DEF Mutate, IInv, TypeOK
  <2>6. ASSUME UNCHANGED <<table, confirmed>>
        PROVE  UNCHANGED <<LedgerView, confirmed>>
    BY <2>6 DEF LedgerView
  <2> QED
    BY <2>1, <2>2, <2>4, <2>5, <2>6
    DEF Next, DeliveryNext, Verified, ReadBack, Fail, Migrate, GetReceipt, vars
<1> QED
  BY <1>1, <1>2, Invariant, PTL DEF Spec, ImplementsLedger, Ledger!LedgerSpec

-----------------------------------------------------------------------------
(* The webhook.                                                            *)

Distinct(s) == \A i, j \in DOMAIN s : s[i] = s[j] => i = j

Verifying == {current[w] : w \in DOMAIN current}

\* Nothing has been taken up.
QuietFits ==
    /\ phase = "listening" =>
          /\ items = <<>> /\ nextIndex = 1 /\ current = <<>> /\ results = <<>>
          /\ delivered = <<>> /\ verdicts = {}
    /\ phase # "responded" => response = NoResponse

\* The signatures before the cursor are under way or over, each once; while
\* signatures are left every worker has one.
PoolFits ==
    phase = "mapping" =>
        /\ Len(items) <= MaxSignatures /\ Distinct(items) /\ items = Unique(delivered)
        /\ \A i \in DOMAIN results : results[i].signature = items[i]
        /\ verdicts = {results[i] : i \in DOMAIN results}
        /\ current = [w \in DOMAIN current |-> current[w]] /\ Distinct(current)
        /\ Verifying \cup DOMAIN results = {i \in DOMAIN items : i < nextIndex}
        /\ Verifying \cap DOMAIN results = {}
        /\ nextIndex <= Len(items) => DOMAIN current = 1..Concurrency
        /\ nextIndex > Len(items) =>
              nextIndex + Cardinality(DOMAIN current) <= Len(items) + Concurrency + 1

PoolInv == ResponseIsFaithful /\ QuietFits /\ PoolFits

-----------------------------------------------------------------------------
\* Deduplication keeps every signature once, in the order in which each arrived
\* first (validateHeliusPayload, validation.ts:162-178).
THEOREM UniqueIsExact ==
    ASSUME NEW S, NEW payload \in Seq(S)
    PROVE  /\ Unique(payload) \in Seq(S) /\ Len(Unique(payload)) \in Nat
           /\ Distinct(Unique(payload))
           /\ \A i \in DOMAIN payload : \E n \in DOMAIN Unique(payload) :
                 Unique(payload)[n] = payload[i]
           /\ \A n \in DOMAIN Unique(payload) : \E i \in FirstPlaces(payload) :
                 Unique(payload)[n] = payload[i]
           /\ \A m, n \in DOMAIN Unique(payload) : m < n =>
                 \E i, j \in FirstPlaces(payload) :
                    i < j /\ Unique(payload)[m] = payload[i] /\ Unique(payload)[n] = payload[j]
<1> DEFINE first == FirstPlaces(payload)
           ahead(i) == {j \in first : j < i}
           pos == [i \in first |-> Cardinality(ahead(i)) + 1]
           size == Cardinality(first)
           place(n) == CHOOSE i \in first : Cardinality(ahead(i)) = n - 1
           unique == Unique(payload)
<1>1. Len(payload) \in Nat /\ DOMAIN payload = 1..Len(payload)
  OBVIOUS
<1>2. first \in SUBSET (1..Len(payload)) /\ \A i \in first : i \in Nat
  BY <1>1 DEF FirstPlaces
<1>3. IsFiniteSet(first) /\ size \in Nat
  <2>1. IsFiniteSet(1..Len(payload))
    BY <1>1, FS_Interval
  <2>2. IsFiniteSet(first)
    BY <1>2, <2>1, FS_Subset
  <2> QED BY <2>2, FS_CardinalityType
<1>4. \A i, j \in first : payload[i] = payload[j] => i = j
  BY <1>1 DEF FirstPlaces
<1>5. \A i \in DOMAIN payload : \E j \in first : payload[j] = payload[i]
  <2> SUFFICES ASSUME NEW i \in DOMAIN payload
               PROVE  \E j \in first : payload[j] = payload[i]
    OBVIOUS
  <2> DEFINE same == {j \in DOMAIN payload : payload[j] = payload[i]}
             R == OpToRel(<, Nat)
  <2>1. same \subseteq Nat /\ same # {}
    BY <1>1
  <2>2. PICK j \in same : \A k \in same : ~ (<<k, j>> \in R)
    <3> HIDE DEF same
    <3> QED BY <2>1, NatLessThanWellFounded, WFMin
  <2>3. ASSUME NEW k \in 1..(j - 1), payload[k] = payload[j] PROVE FALSE
    <3>1. k \in same /\ k < j /\ j \in Nat
      BY <1>1, <2>3
    <3>2. <<k, j>> \notin {ss \in Nat \X Nat : ss[1] < ss[2]}
      BY <2>2, <3>1 DEF OpToRel
    <3> QED BY <2>1, <3>1, <3>2
  <2>4. j \in first
    BY <2>3 DEF FirstPlaces
  <2> QED BY <2>4
<1>6. unique = [n \in 1..size |-> payload[place(n)]]
  BY DEF Unique
<1> HIDE DEF first, unique
<1>7. \A i \in first : IsFiniteSet(ahead(i)) /\ Cardinality(ahead(i)) \in Nat
  <2> TAKE i \in first
  <2>1. ahead(i) \in SUBSET first
    OBVIOUS
  <2>2. IsFiniteSet(ahead(i))
    BY <1>3, <2>1, FS_Subset
  <2> QED BY <2>2, FS_CardinalityType
<1>8. \A i \in first : Cardinality(ahead(i)) < size
  <2> TAKE i \in first
  <2>1. ahead(i) \in SUBSET (first \ {i})
    BY <1>2
  <2>2. IsFiniteSet(first \ {i}) /\ Cardinality(first \ {i}) = size - 1
    BY <1>3, FS_RemoveElement
  <2>3. Cardinality(ahead(i)) <= size - 1
    BY <2>1, <2>2, FS_Subset
  <2>4. Cardinality(ahead(i)) \in Nat
    BY <1>7
  <2> HIDE DEF ahead, size
  <2> QED BY <1>3, <2>3, <2>4
<1>9. \A i, j \in first : i < j => Cardinality(ahead(i)) < Cardinality(ahead(j))
  <2> SUFFICES ASSUME NEW i \in first, NEW j \in first, i < j
               PROVE  Cardinality(ahead(i)) < Cardinality(ahead(j))
    OBVIOUS
  <2>1. ahead(i) \in SUBSET (ahead(j) \ {i}) /\ i \in ahead(j)
    <3>1. i \in Nat /\ j \in Nat
      BY <1>2
    <3>2. \A k \in first : k < i => k \in Nat /\ k < j /\ k # i
      BY <1>2, <3>1
    <3> QED BY <3>2
  <2>2. /\ IsFiniteSet(ahead(j) \ {i})
        /\ Cardinality(ahead(j) \ {i}) = Cardinality(ahead(j)) - 1
    BY <1>7, <2>1, FS_RemoveElement
  <2>3. Cardinality(ahead(i)) <= Cardinality(ahead(j)) - 1
    BY <2>1, <2>2, FS_Subset
  <2>4. Cardinality(ahead(i)) \in Nat /\ Cardinality(ahead(j)) \in Nat
    BY <1>7
  <2> HIDE DEF ahead
  <2> QED BY <2>3, <2>4
<1> HIDE DEF ahead
<1>10. \A i, j \in first : Cardinality(ahead(i)) = Cardinality(ahead(j)) => i = j
  BY <1>2, <1>7, <1>9
<1>11. pos \in Injection(first, 1..size)
  <2>1. pos \in [first -> 1..size]
    BY <1>3, <1>7, <1>8
  <2>2. \A i, j \in first : pos[i] = pos[j] => i = j
    BY <1>7, <1>10
  <2> QED BY <2>1, <2>2 DEF Injection, IsInjective
<1>12. \A n \in 1..size : \E i \in first : Cardinality(ahead(i)) = n - 1
  <2>1. IsFiniteSet(1..size) /\ Cardinality(1..size) = size
    BY <1>3, FS_Interval
  <2>2. pos \in Surjection(first, 1..size)
    BY <1>11, <2>1, FS_Injection
  <2>3. \A n \in 1..size : \E i \in first : pos[i] = n
    BY <2>2 DEF Surjection
  <2> SUFFICES ASSUME NEW n \in 1..size
               PROVE  \E i \in first : Cardinality(ahead(i)) = n - 1
    OBVIOUS
  <2>4. PICK i \in first : pos[i] = n
    BY <2>3
  <2>5. Cardinality(ahead(i)) = n - 1
    BY <1>7, <2>4
  <2> QED BY <2>5
<1>13. \A n \in 1..size : place(n) \in first /\ Cardinality(ahead(place(n))) = n - 1
  BY <1>12
<1> HIDE DEF place
<1>14. unique \in [1..size -> S]
  <2>1. \A i \in first : payload[i] \in S
    BY <1>1, <1>2
  <2>2. \A n \in 1..size : payload[place(n)] \in S
    BY <1>13, <2>1
  <2> QED BY <1>6, <2>2
<1>15. unique \in Seq(S) /\ Len(unique) = size /\ DOMAIN unique = 1..size
  BY <1>3, <1>14
<1>16. Distinct(unique)
  <2> SUFFICES ASSUME NEW m \in 1..size, NEW n \in 1..size, unique[m] = unique[n]
               PROVE  m = n
    BY <1>15 DEF Distinct
  <2>1. place(m) = place(n)
    BY <1>4, <1>6, <1>13
  <2>2. m - 1 = n - 1
    BY <1>13, <2>1
  <2> QED BY <1>3, <2>2
<1>17. ASSUME NEW i \in DOMAIN payload
       PROVE  \E n \in DOMAIN unique : unique[n] = payload[i]
  <2>1. PICK j \in first : payload[j] = payload[i]
    BY <1>5
  <2>2. Cardinality(ahead(j)) + 1 \in 1..size
    BY <1>3, <1>7, <1>8, <2>1
  <2>3. place(Cardinality(ahead(j)) + 1) = j
    <3>1. Cardinality(ahead(place(Cardinality(ahead(j)) + 1))) = Cardinality(ahead(j))
      BY <1>7, <1>13, <2>1, <2>2
    <3> QED BY <1>10, <1>13, <2>1, <2>2, <3>1
  <2> QED BY <1>6, <1>15, <2>1, <2>2, <2>3
<1>18. ASSUME NEW m \in 1..size, NEW n \in 1..size, m < n
       PROVE  place(m) < place(n)
  <2>1. place(m) # place(n) /\ ~ place(n) < place(m)
    <3>1. /\ Cardinality(ahead(place(m))) = m - 1 /\ Cardinality(ahead(place(n))) = n - 1
          /\ place(m) \in first /\ place(n) \in first
      BY <1>13
    <3> QED BY <1>3, <1>9, <1>18, <3>1
  <2>2. place(m) \in Nat /\ place(n) \in Nat
    BY <1>2, <1>13
  <2> QED BY <2>1, <2>2
<1>19. \A m, n \in DOMAIN unique : m < n =>
           \E i, j \in first : i < j /\ unique[m] = payload[i] /\ unique[n] = payload[j]
  BY <1>6, <1>13, <1>15, <1>18
<1>20. \A n \in DOMAIN unique : \E i \in first : unique[n] = payload[i]
  BY <1>6, <1>13, <1>15
<1> QED BY <1>3, <1>15, <1>16, <1>17, <1>19, <1>20 DEF first, unique

-----------------------------------------------------------------------------
LEMMA InitPoolInv == WebhookInit => PoolInv
BY WebhookAssumption
   DEF WebhookInit, NoResponse, PoolInv, ResponseIsFaithful, WebhookTypeOK, QuietFits,
       PoolFits

\* A delivery that is turned down takes nothing up.
LEMMA TurnedDownInv ==
    ASSUME PoolInv, phase = "listening", NEW code \in {405, 500, 401, 400},
           Respond([code |-> code]),
           UNCHANGED <<items, nextIndex, current, results, delivered, verdicts>>
    PROVE  PoolInv'
BY WebhookAssumption
   DEF Respond, PoolInv, ResponseIsFaithful, WebhookTypeOK, QuietFits, PoolFits

LEMMA StartWorkersInv ==
    ASSUME PoolInv, NEW payload \in Payloads, StartWorkers(payload)
    PROVE  PoolInv'
<1> DEFINE workers == IF Len(items') < Concurrency THEN Len(items') ELSE Concurrency
<1>1. payload \in Seq(Signatures)
  <2>1. payload \in Seq(Signatures \cup {Malformed})
    BY WebhookAssumption
  <2>2. \A i \in 1..Len(payload) : payload[i] \in Signatures
    BY <2>1 DEF StartWorkers, ToSet
  <2> QED BY <2>1, <2>2
<1>2. /\ items' \in Seq(Signatures) /\ Len(items') \in Nat /\ Distinct(items')
      /\ Len(items') <= MaxSignatures
  BY <1>1, UniqueIsExact DEF StartWorkers
<1>3. /\ phase' = "mapping" /\ current' = [w \in 1..workers |-> w]
      /\ nextIndex' = workers + 1 /\ results' = <<>> /\ response' = NoResponse
      /\ delivered' = payload /\ items' = Unique(delivered') /\ verdicts' = {}
  BY DEF StartWorkers, PoolInv, QuietFits
<1>4. workers \in 0..Len(items') /\ workers <= Concurrency
      /\ (workers < Len(items') => workers = Concurrency)
  BY <1>2, WebhookAssumption
<1>5. Cardinality(1..workers) = workers
  <2>1. workers \in Nat
    BY <1>2, <1>4
  <2> HIDE DEF workers
  <2> QED BY <2>1, FS_Interval
<1>6. DOMAIN current' = 1..workers /\ Verifying' = 1..workers /\ Distinct(current')
  BY <1>3 DEF Verifying, Distinct
<1> HIDE DEF workers
<1>7. ResponseIsFaithful'
  <2>1. nextIndex' \in 1..(Len(items') + Concurrency + 1)
    BY <1>2, <1>3, <1>4, WebhookAssumption
  <2>2. \A w \in 1..workers : w \in 1..Concurrency /\ w \in 1..Len(items')
    BY <1>2, <1>4, WebhookAssumption
  <2>3. /\ DOMAIN current' \subseteq 1..Concurrency
        /\ \A w \in DOMAIN current' : current'[w] \in 1..Len(items')
    BY <1>3, <1>6, <2>2
  <2> QED
    BY <1>1, <1>2, <1>3, <2>1, <2>3 DEF ResponseIsFaithful, WebhookTypeOK, NoResponse
<1>8. QuietFits'
  BY <1>3 DEF QuietFits
<1>9. PoolFits'
  <2>1. 1..workers = {i \in DOMAIN items' : i < nextIndex'}
    BY <1>2, <1>3, <1>4
  <2>2. current' = [w \in DOMAIN current' |-> current'[w]]
    BY <1>3, <1>6
  <2>3. DOMAIN results' = {}
    BY <1>3
  <2>4. nextIndex' <= Len(items') => DOMAIN current' = 1..Concurrency
    BY <1>2, <1>3, <1>4, <1>6
  <2>5. nextIndex' + Cardinality(DOMAIN current') <= Len(items') + Concurrency + 1
    BY <1>2, <1>3, <1>4, <1>5, <1>6, WebhookAssumption
  <2>6. verdicts' = {results'[i] : i \in DOMAIN results'}
    BY <1>3, <2>3
  <2> QED BY <1>2, <1>3, <1>6, <2>1, <2>2, <2>3, <2>4, <2>5, <2>6 DEF PoolFits
<1> QED BY <1>7, <1>8, <1>9 DEF PoolInv

\* What a worker leaves: its signature is over, and it has the next or none.
LEMMA SettlesParts ==
    ASSUME PoolInv, NEW w \in DOMAIN current, NEW status \in Statuses,
           VerificationSettles(w, status)
    PROVE  /\ current[w] \in DOMAIN items /\ current[w] \notin DOMAIN results
           /\ DOMAIN results' = DOMAIN results \cup {current[w]}
           /\ results'[current[w]] = [signature |-> items[current[w]], status |-> status]
           /\ \A i \in DOMAIN results : results'[i] = results[i]
           /\ verdicts' = verdicts \cup {[signature |-> items[current[w]], status |-> status]}
           /\ nextIndex <= Len(items) =>
                 /\ DOMAIN current' = DOMAIN current
                 /\ \A v \in DOMAIN current :
                       current'[v] = IF v = w THEN nextIndex ELSE current[v]
                 /\ Verifying' = (Verifying \ {current[w]}) \cup {nextIndex}
           /\ nextIndex > Len(items) =>
                 /\ DOMAIN current' = DOMAIN current \ {w}
                 /\ \A v \in DOMAIN current \ {w} : current'[v] = current[v]
                 /\ Verifying' = Verifying \ {current[w]}
           /\ current' = [v \in DOMAIN current' |-> current'[v]]
<1>1. /\ phase = "mapping" /\ items \in Seq(Signatures) /\ Len(items) \in Nat
      /\ nextIndex \in Nat /\ current[w] \in 1..Len(items)
      /\ current = [v \in DOMAIN current |-> current[v]]
      /\ \A u, v \in DOMAIN current : current[u] = current[v] => u = v
      /\ Verifying \cap DOMAIN results = {} /\ current[w] \in Verifying
  BY WebhookAssumption
     DEF VerificationSettles, PoolInv, PoolFits, ResponseIsFaithful, WebhookTypeOK, Distinct, Verifying
<1>2. /\ DOMAIN results' = DOMAIN results \cup {current[w]}
      /\ results'[current[w]] = [signature |-> items[current[w]], status |-> status]
      /\ \A i \in DOMAIN results : results'[i] = results[i]
      /\ verdicts' = verdicts \cup {[signature |-> items[current[w]], status |-> status]}
  <2>1. current[w] \notin DOMAIN results
    BY <1>1
  <2> QED BY <2>1 DEF VerificationSettles, Store
<1>3. CASE nextIndex <= Len(items)
  <2>1. current' = [current EXCEPT ![w] = nextIndex]
    BY <1>3 DEF VerificationSettles
  <2>2. /\ DOMAIN current' = DOMAIN current
        /\ \A v \in DOMAIN current : current'[v] = IF v = w THEN nextIndex ELSE current[v]
    BY <1>1, <2>1
  <2>3. Verifying' = (Verifying \ {current[w]}) \cup {nextIndex}
    <3>1. Verifying' = {current'[v] : v \in DOMAIN current}
      BY <2>2 DEF Verifying
    <3>2. \A v \in DOMAIN current : v # w => current'[v] = current[v] /\ current[v] # current[w]
      BY <1>1, <2>2
    <3> QED BY <2>2, <3>1, <3>2 DEF Verifying
  <2>4. current' = [v \in DOMAIN current' |-> current'[v]]
    BY <2>1
  <2>5. ~ nextIndex > Len(items)
    BY <1>1, <1>3
  <2> QED BY <1>1, <1>2, <2>2, <2>3, <2>4, <2>5
<1>4. CASE nextIndex > Len(items)
  <2>1. current' = [v \in DOMAIN current \ {w} |-> current[v]]
    BY <1>1, <1>4 DEF VerificationSettles
  <2>2. Verifying' = Verifying \ {current[w]}
    BY <1>1, <2>1 DEF Verifying
  <2> QED BY <1>1, <1>2, <1>4, <2>1, <2>2
<1> QED BY <1>1, <1>3, <1>4

LEMMA VerificationSettlesInv ==
    ASSUME PoolInv, NEW w \in DOMAIN current, NEW status \in Statuses,
           VerificationSettles(w, status)
    PROVE  PoolInv'
<1>1. /\ phase = "mapping" /\ phase' = phase /\ items' = items /\ response' = response
      /\ delivered' = delivered /\ delivered \in Seq(Signatures)
      /\ response = NoResponse /\ nextIndex' = nextIndex + 1
      /\ items \in Seq(Signatures) /\ Len(items) \in Nat /\ DOMAIN items = 1..Len(items)
      /\ nextIndex \in 1..(Len(items) + Concurrency + 1)
      /\ Concurrency \in Nat \ {0}
  BY WebhookAssumption
     DEF VerificationSettles, PoolInv, QuietFits, ResponseIsFaithful, WebhookTypeOK
<1>2. /\ DOMAIN current \subseteq 1..Concurrency
      /\ \A v \in DOMAIN current : current[v] \in 1..Len(items)
      /\ DOMAIN results \subseteq 1..Len(items)
      /\ \A i \in DOMAIN results : results[i] \in Verdicts
      /\ verdicts \subseteq Verdicts
  BY DEF PoolInv, ResponseIsFaithful, WebhookTypeOK
<1>3. /\ Len(items) <= MaxSignatures /\ Distinct(items) /\ Distinct(current)
      /\ items = Unique(delivered)
      /\ \A i \in DOMAIN results : results[i].signature = items[i]
      /\ verdicts = {results[i] : i \in DOMAIN results}
      /\ Verifying \cup DOMAIN results = {i \in DOMAIN items : i < nextIndex}
      /\ Verifying \cap DOMAIN results = {}
      /\ nextIndex <= Len(items) => DOMAIN current = 1..Concurrency
      /\ nextIndex > Len(items) =>
            nextIndex + Cardinality(DOMAIN current) <= Len(items) + Concurrency + 1
  BY <1>1 DEF PoolInv, PoolFits
<1>4. /\ IsFiniteSet(DOMAIN current) /\ Cardinality(DOMAIN current) \in Nat
      /\ Cardinality(DOMAIN current \ {w}) = Cardinality(DOMAIN current) - 1
      /\ Cardinality(DOMAIN current \ {w}) \in Nat
      /\ Cardinality(1..Concurrency) = Concurrency
  <2>1. IsFiniteSet(1..Concurrency) /\ Cardinality(1..Concurrency) = Concurrency
    BY <1>1, FS_Interval
  <2>2. IsFiniteSet(DOMAIN current)
    BY <1>2, <2>1, FS_Subset
  <2>3. IsFiniteSet(DOMAIN current \ {w})
        /\ Cardinality(DOMAIN current \ {w}) = Cardinality(DOMAIN current) - 1
    BY <2>2, FS_RemoveElement
  <2> QED BY <2>1, <2>2, <2>3, FS_CardinalityType
<1>5. /\ DOMAIN results' = DOMAIN results \cup {current[w]}
      /\ \A i \in DOMAIN results' : results'[i] \in Verdicts
      /\ DOMAIN results' \subseteq 1..Len(items)
      /\ verdicts' \subseteq Verdicts
      /\ \A i \in DOMAIN results' : results'[i].signature = items[i]
      /\ verdicts' = {results'[i] : i \in DOMAIN results'}
  <2> DEFINE verdict == [signature |-> items[current[w]], status |-> status]
  <2>1. /\ current[w] \in DOMAIN items /\ current[w] \notin DOMAIN results
        /\ DOMAIN results' = DOMAIN results \cup {current[w]}
        /\ results'[current[w]] = verdict
        /\ \A i \in DOMAIN results : results'[i] = results[i]
        /\ verdicts' = verdicts \cup {verdict}
    <3>1. /\ current[w] \in DOMAIN items /\ current[w] \notin DOMAIN results
          /\ DOMAIN results' = DOMAIN results \cup {current[w]}
      BY SettlesParts, Zenon
    <3>2. results'[current[w]] = verdict
      BY DEF VerificationSettles, Store
    <3>3. verdicts' = verdicts \cup {verdict}
      BY DEF VerificationSettles, Store
    <3>4. \A i \in DOMAIN results : results'[i] = results[i]
      BY SettlesParts, Zenon
    <3> QED BY <3>1, <3>2, <3>3, <3>4
  <2>2. verdict \in Verdicts /\ verdict.signature = items[current[w]]
    BY <1>1, <2>1 DEF Verdicts
  <2> HIDE DEF verdict
  <2>3. verdicts' = {results'[i] : i \in DOMAIN results'}
    <3>1. {results'[i] : i \in DOMAIN results} = {results[i] : i \in DOMAIN results}
      BY <2>1
    <3>2. {results'[i] : i \in DOMAIN results \cup {current[w]}}
            = {results'[i] : i \in DOMAIN results} \cup {results'[current[w]]}
      OBVIOUS
    <3> QED BY <1>3, <2>1, <3>1, <3>2
  <2>4. \A i \in DOMAIN results' : results'[i] \in Verdicts /\ results'[i].signature = items[i]
    BY <1>2, <1>3, <2>1, <2>2
  <2> QED BY <1>1, <1>2, <2>1, <2>2, <2>3, <2>4
<1>6. CASE nextIndex <= Len(items)
  <2>1. /\ DOMAIN current' = DOMAIN current
        /\ \A v \in DOMAIN current :
              current'[v] = IF v = w THEN nextIndex ELSE current[v]
        /\ Verifying' = (Verifying \ {current[w]}) \cup {nextIndex}
        /\ current' = [v \in DOMAIN current' |-> current'[v]]
        /\ current[w] \in Verifying
    BY <1>6, SettlesParts DEF Verifying
  <2>2. \A v \in DOMAIN current : current[v] # nextIndex
    <3>1. \A v \in DOMAIN current : current[v] \in Verifying
      BY DEF Verifying
    <3> QED BY <1>1, <1>3, <3>1
  <2>3. WebhookTypeOK'
    <3>1. nextIndex' \in 1..(Len(items) + Concurrency + 1)
      BY <1>1, <1>6
    <3>2. \A v \in DOMAIN current : current'[v] \in 1..Len(items)
      BY <1>1, <1>2, <1>6, <2>1
    <3> QED BY <1>1, <1>2, <1>5, <2>1, <3>1, <3>2 DEF WebhookTypeOK, NoResponse
  <2>4. Distinct(current')
    BY <1>3, <2>1, <2>2 DEF Distinct
  <2>5. Verifying' \cup DOMAIN results' = {i \in DOMAIN items' : i < nextIndex'}
    <3>1. {i \in DOMAIN items : i < nextIndex + 1}
            = {i \in DOMAIN items : i < nextIndex} \cup {nextIndex}
      BY <1>1, <1>6
    <3> QED BY <1>1, <1>3, <1>5, <2>1, <3>1
  <2>6. Verifying' \cap DOMAIN results' = {}
    <3>1. nextIndex \notin Verifying \cup DOMAIN results
      BY <1>1, <1>3
    <3> QED BY <1>3, <1>5, <2>1, <3>1
  <2>7. PoolFits'
    BY <1>1, <1>3, <1>4, <1>5, <1>6, <2>1, <2>4, <2>5, <2>6 DEF PoolFits
  <2> QED BY <1>1, <2>3, <2>7 DEF PoolInv, ResponseIsFaithful, QuietFits, NoResponse
<1>7. CASE nextIndex > Len(items)
  <2>1. /\ DOMAIN current' = DOMAIN current \ {w}
        /\ \A v \in DOMAIN current \ {w} : current'[v] = current[v]
        /\ Verifying' = Verifying \ {current[w]}
        /\ current' = [v \in DOMAIN current' |-> current'[v]]
        /\ current[w] \in Verifying
    BY <1>7, SettlesParts DEF Verifying
  <2>2. nextIndex' + Cardinality(DOMAIN current') <= Len(items) + Concurrency + 1
    BY <1>1, <1>3, <1>4, <1>7, <2>1
  <2>3. WebhookTypeOK'
    <3>1. nextIndex' \in 1..(Len(items) + Concurrency + 1)
      BY <1>1, <1>4, <2>1, <2>2
    <3> QED BY <1>1, <1>2, <1>5, <2>1, <3>1 DEF WebhookTypeOK, NoResponse
  <2>4. Distinct(current')
    BY <1>3, <2>1 DEF Distinct
  <2>5. Verifying' \cup DOMAIN results' = {i \in DOMAIN items' : i < nextIndex'}
    <3>1. {i \in DOMAIN items : i < nextIndex + 1} = {i \in DOMAIN items : i < nextIndex}
      BY <1>1, <1>7
    <3> QED BY <1>1, <1>3, <1>5, <2>1, <3>1
  <2>6. Verifying' \cap DOMAIN results' = {}
    BY <1>3, <1>5, <2>1
  <2>7. PoolFits'
    BY <1>1, <1>3, <1>5, <1>7, <2>1, <2>2, <2>4, <2>5, <2>6 DEF PoolFits
  <2> QED BY <1>1, <2>3, <2>7 DEF PoolInv, ResponseIsFaithful, QuietFits, NoResponse
<1> QED BY <1>1, <1>6, <1>7

\* When no worker is left, every signature is over.
LEMMA AllAreOver ==
    ASSUME PoolInv, phase = "mapping", DOMAIN current = {}
    PROVE  /\ items \in Seq(Signatures) /\ Len(items) \in Nat /\ DOMAIN items = 1..Len(items)
           /\ Distinct(items) /\ DOMAIN results = DOMAIN items /\ Verifying = {}
<1>1. /\ items \in Seq(Signatures) /\ Len(items) \in Nat /\ DOMAIN items = 1..Len(items)
      /\ nextIndex \in Nat /\ Concurrency \in Nat \ {0}
  BY WebhookAssumption DEF PoolInv, ResponseIsFaithful, WebhookTypeOK
<1>2. Verifying = {}
  BY DEF Verifying
<1>3. /\ Distinct(items) /\ DOMAIN results = {i \in DOMAIN items : i < nextIndex}
      /\ nextIndex <= Len(items) => 1..Concurrency = {}
  BY <1>2 DEF PoolInv, PoolFits
<1>4. nextIndex > Len(items)
  BY <1>1, <1>3
<1> QED BY <1>1, <1>2, <1>3, <1>4

LEMMA RespondResultsInv ==
    ASSUME PoolInv, RespondResults
    PROVE  PoolInv'
<1> DEFINE told == [i \in DOMAIN items |-> results[i]]
<1>1. /\ phase' = "responded"
      /\ UNCHANGED <<items, nextIndex, current, results, delivered, verdicts>>
      /\ response' = [code |-> 200, failed |-> Cardinality(Failed), processed |-> Len(items),
                      results |-> told]
  BY DEF RespondResults, Respond
<1>2. /\ items \in Seq(Signatures) /\ Len(items) \in Nat /\ DOMAIN items = 1..Len(items)
      /\ DOMAIN results = DOMAIN items
  BY AllAreOver DEF RespondResults
<1>3. /\ \A i \in DOMAIN items : results[i].signature = items[i]
      /\ verdicts = {results[i] : i \in DOMAIN results} /\ items = Unique(delivered)
      /\ delivered \in Seq(Signatures) /\ DOMAIN delivered = 1..Len(delivered)
      /\ Len(delivered) \in Nat
  <2>1. delivered \in Seq(Signatures)
    BY DEF PoolInv, ResponseIsFaithful, WebhookTypeOK
  <2> QED BY <1>2, <2>1 DEF PoolInv, PoolFits, RespondResults
<1>4. /\ DOMAIN told = DOMAIN items /\ Len(told) = Len(items)
      /\ \A i \in DOMAIN items : told[i] = results[i] /\ told[i].signature = items[i]
  BY <1>2, <1>3
<1> HIDE DEF told
<1>5. {told[i].signature : i \in DOMAIN told} = ToSet(delivered)
  <2>1. \A i \in DOMAIN delivered : \E n \in DOMAIN items : items[n] = delivered[i]
    BY <1>3, UniqueIsExact
  <2>2. \A n \in DOMAIN items : \E i \in DOMAIN delivered : items[n] = delivered[i]
    <3>1. \A n \in DOMAIN items : \E i \in FirstPlaces(delivered) : items[n] = delivered[i]
      BY <1>3, UniqueIsExact
    <3> QED BY <3>1 DEF FirstPlaces
  <2>3. ToSet(delivered) = {delivered[i] : i \in DOMAIN delivered}
    BY <1>3 DEF ToSet
  <2> QED BY <1>4, <2>1, <2>2, <2>3
<1>6. ASSUME NEW m \in DOMAIN items, NEW n \in DOMAIN items, m < n
      PROVE  ArrivesBefore(items[m], items[n])
  <2>1. PICK i, j \in FirstPlaces(delivered) :
              i < j /\ items[m] = delivered[i] /\ items[n] = delivered[j]
    BY <1>3, <1>6, UniqueIsExact
  <2>2. /\ i \in DOMAIN delivered /\ i \in Nat /\ j \in Nat
        /\ \A q \in 1..(j - 1) : delivered[q] # delivered[j]
    BY <1>3 DEF FirstPlaces
  <2>3. \A q \in 1..i : q \in 1..(j - 1)
    BY <2>1, <2>2
  <2> QED BY <2>1, <2>2, <2>3 DEF ArrivesBefore
<1>7. \A i, j \in DOMAIN told :
          i < j => ArrivesBefore(told[i].signature, told[j].signature)
  BY <1>4, <1>6
<1>8. ToSet(told) = verdicts
  <2>1. ToSet(told) = {told[i] : i \in DOMAIN told}
    BY <1>2, <1>4 DEF ToSet
  <2> QED BY <1>2, <1>3, <1>4, <2>1
<1>9. {i \in DOMAIN told : told[i].status = "failed"} = Failed
  BY <1>2, <1>4 DEF Failed
<1>10. /\ response'.results = told /\ response'.processed = Len(items)
       /\ response'.failed = Cardinality(Failed) /\ response'.code = 200
  BY <1>1
<1>11. WebhookTypeOK'
  BY <1>1, <1>10 DEF PoolInv, ResponseIsFaithful, WebhookTypeOK
<1>12. ResponseIsFaithful'
  <2>1. ToSet(delivered') = ToSet(delivered) /\ verdicts' = verdicts
    BY <1>1
  <2>2. \A i, j \in DOMAIN told :
            i < j => \E p \in DOMAIN delivered' :
                        /\ delivered'[p] = told[i].signature
                        /\ \A q \in 1..p : delivered'[q] # told[j].signature
    BY <1>1, <1>7 DEF ArrivesBefore
  <2>3. /\ {told[i].signature : i \in DOMAIN told} = ToSet(delivered')
        /\ ToSet(told) = verdicts' /\ Len(items) = Len(told)
        /\ Cardinality(Failed) = Cardinality({i \in DOMAIN told : told[i].status = "failed"})
    BY <1>4, <1>5, <1>8, <1>9, <2>1
  <2> QED BY <1>10, <1>11, <2>2, <2>3 DEF ResponseIsFaithful, ArrivesBefore
<1> QED BY <1>1, <1>12 DEF PoolInv, QuietFits, PoolFits

LEMMA PoolStep == PoolInv /\ [WebhookNext]_webhookVars => PoolInv'
<1> SUFFICES ASSUME PoolInv, [WebhookNext]_webhookVars PROVE PoolInv'
  OBVIOUS
<1>1. CASE TurnAway
  BY <1>1, TurnedDownInv DEF TurnAway
<1>2. ASSUME NEW payload \in Payloads, Refuse(payload) \/ Misconfigured(payload)
      PROVE  PoolInv'
  BY <1>2, TurnedDownInv DEF Refuse, Misconfigured
<1>3. ASSUME NEW payload \in Payloads, StartWorkers(payload) PROVE PoolInv'
  BY <1>3, StartWorkersInv
<1>4. ASSUME NEW w \in DOMAIN current, NEW status \in Statuses, VerificationSettles(w, status)
      PROVE  PoolInv'
  BY <1>4, VerificationSettlesInv
<1>5. CASE RespondResults
  BY <1>5, RespondResultsInv
<1>6. CASE UNCHANGED webhookVars
  BY <1>6
     DEF webhookVars, PoolInv, ResponseIsFaithful, WebhookTypeOK, QuietFits, PoolFits,
         Distinct, Verifying, ArrivesBefore
<1> QED BY <1>1, <1>2, <1>3, <1>4, <1>5, <1>6 DEF WebhookNext, Receive

\* The invariant of the worker pool.
THEOREM PoolInvariant == WebhookSpec => []PoolInv
BY InitPoolInv, PoolStep, PTL DEF WebhookSpec

\* The response to a delivery lists the payload's signatures, each once, in the
\* order in which they arrived first, with what the verification of that very
\* signature came to, and counts the failures, for any payload, limit, number of
\* workers and order in which they settle (handlers.ts:262-308, 334-357).
THEOREM ResponsesAreFaithful == WebhookSpec => []ResponseIsFaithful
<1>1. PoolInv => ResponseIsFaithful
  BY DEF PoolInv
<1> QED BY <1>1, PoolInvariant, PTL

\* The limit is counted alike in both modules.
LEMMA SameCount == \A S : Bag!Cardinality(S) = Cardinality(S)
BY DEF Bag!Cardinality, Cardinality

LEMMA StartsAccepts ==
    ASSUME PoolInv, NEW payload \in Payloads, StartWorkers(payload)
    PROVE  Bag!TaskBagNext
<1> DEFINE tasks == DOMAIN items'
           started == Verifying'
<1>1. PoolInv' /\ phase = "listening" /\ phase' = "mapping"
  BY StartWorkersInv DEF StartWorkers
<1>2. /\ items' \in Seq(Signatures) /\ Len(items') \in Nat /\ DOMAIN items' = 1..Len(items')
      /\ Len(items') <= MaxSignatures /\ MaxSignatures \in Nat
  BY <1>1, WebhookAssumption DEF PoolInv, PoolFits, ResponseIsFaithful, WebhookTypeOK
<1>3. tasks \in SUBSET (1..MaxSignatures)
  BY <1>2
<1>4. started \in SUBSET tasks
  BY <1>1, <1>2 DEF PoolInv, PoolFits
<1>5. Cardinality(started) <= Concurrency
  <2> DEFINE workers == IF Len(items') < Concurrency THEN Len(items') ELSE Concurrency
  <2>1. started = 1..workers
    BY DEF StartWorkers, Verifying
  <2>2. workers \in Nat /\ workers <= Concurrency
    BY <1>2, WebhookAssumption
  <2> HIDE DEF workers
  <2>3. Cardinality(1..workers) = workers
    BY <2>2, FS_Interval
  <2> QED BY <2>1, <2>2, <2>3
<1>6. DOMAIN items = {} /\ results' = results
  BY <1>1 DEF PoolInv, QuietFits, StartWorkers
<1>7. PICK batch, first : batch = tasks /\ first = started
  OBVIOUS
<1>8. batch \in SUBSET (1..MaxSignatures) /\ first \in SUBSET batch
  BY <1>3, <1>4, <1>7
<1>9. Bag!Accept(batch, first)
  BY <1>1, <1>5, <1>6, <1>7, <1>8, SameCount DEF Bag!Accept, Verifying
<1> QED BY <1>8, <1>9 DEF Bag!TaskBagNext

LEMMA SettlesEnds ==
    ASSUME PoolInv, NEW w \in DOMAIN current, NEW status \in Statuses,
           VerificationSettles(w, status)
    PROVE  Bag!TaskBagNext
<1> DEFINE next == IF nextIndex <= Len(items) THEN {nextIndex} ELSE {}
<1>1. /\ phase = "mapping" /\ phase' = phase /\ items' = items
      /\ Len(items) \in Nat /\ DOMAIN items = 1..Len(items) /\ nextIndex \in Nat \ {0}
      /\ Verifying \cup DOMAIN results = {i \in DOMAIN items : i < nextIndex}
  BY WebhookAssumption
     DEF VerificationSettles, PoolInv, PoolFits, ResponseIsFaithful, WebhookTypeOK
<1>2. current[w] \in Verifying
  BY DEF Verifying
<1>3. next \subseteq DOMAIN items \ (Verifying \cup DOMAIN results)
  BY <1>1
<1>4. Cardinality(next) <= 1
  <2>1. Cardinality({}) = 0 /\ Cardinality({nextIndex}) = 1
    BY FS_EmptySet, FS_Singleton
  <2>2. next = {} \/ next = {nextIndex}
    OBVIOUS
  <2> QED BY <2>1, <2>2
<1>5. Verifying' = (Verifying \ {current[w]}) \cup next
  <2>1. CASE nextIndex <= Len(items)
    BY <2>1, SettlesParts
  <2>2. CASE nextIndex > Len(items)
    <3>1. Verifying' = Verifying \ {current[w]}
      BY <2>2, SettlesParts
    <3>2. next = {}
      BY <1>1, <2>2
    <3> QED BY <3>1, <3>2
  <2> QED BY <1>1, <2>1, <2>2
<1>6. /\ [signature |-> items[current[w]], status |-> status] \in Verdicts
      /\ results' = [i \in DOMAIN results \cup {current[w]} |->
                       IF i = current[w]
                       THEN [signature |-> items[current[w]], status |-> status]
                       ELSE results[i]]
  <2>1. current[w] \in DOMAIN items /\ items \in Seq(Signatures)
    BY SettlesParts DEF PoolInv, ResponseIsFaithful, WebhookTypeOK
  <2>2. items[current[w]] \in Signatures
    BY <1>1, <2>1
  <2> QED BY <2>2 DEF Verdicts, VerificationSettles, Store
<1> HIDE DEF next
<1>7. PICK t, taken, verdict :
            /\ t = current[w] /\ taken = next
            /\ verdict = [signature |-> items[current[w]], status |-> status]
  OBVIOUS
<1>8. t \in Verifying /\ taken \in SUBSET Bag!Fresh
  BY <1>2, <1>3, <1>7 DEF Bag!Fresh, Bag!Ended, Verifying
<1>9. Bag!End(t, verdict, taken)
  BY <1>1, <1>4, <1>5, <1>6, <1>7, <1>8, SameCount DEF Bag!End, Bag!Ended, Verifying
<1> QED BY <1>6, <1>7, <1>8, <1>9 DEF Bag!TaskBagNext, Verifying

\* The worker pool implements the bounded task bag: no signature is verified
\* twice or skipped, no more than the limit run together, and the response waits
\* for all of them (mapWithConcurrency, handlers.ts:334-357).
THEOREM PoolRefinesBag == WebhookSpec => ImplementsTaskBag
<1>1. WebhookInit => Bag!TaskBagInit
  BY DEF WebhookInit, Bag!TaskBagInit
<1>2. PoolInv /\ [WebhookNext]_webhookVars =>
         [Bag!TaskBagNext]_<<DOMAIN items, Verifying, results, phase = "responded">>
  <2> SUFFICES ASSUME PoolInv, [WebhookNext]_webhookVars
               PROVE  \/ Bag!TaskBagNext
                      \/ UNCHANGED <<DOMAIN items, Verifying, results, phase = "responded">>
    OBVIOUS
  <2>1. ASSUME phase \in {"listening", "mapping"}, phase' = "responded",
               DOMAIN results = DOMAIN items, UNCHANGED <<items, current, results>>
        PROVE  Bag!TaskBagNext
    BY <2>1 DEF Bag!TaskBagNext, Bag!Finish, Bag!Ended
  <2>2. phase = "listening" => DOMAIN results = DOMAIN items
    BY DEF PoolInv, QuietFits
  <2>3. CASE TurnAway
    BY <2>1, <2>2, <2>3 DEF TurnAway, Respond
  <2>4. ASSUME NEW payload \in Payloads, Refuse(payload) \/ Misconfigured(payload)
        PROVE  Bag!TaskBagNext
    BY <2>1, <2>2, <2>4 DEF Refuse, Misconfigured, Respond
  <2>5. CASE RespondResults
    BY <2>1, <2>5, AllAreOver DEF RespondResults, Respond
  <2>6. CASE UNCHANGED webhookVars
    BY <2>6 DEF webhookVars, Verifying
  <2> QED BY <2>3, <2>4, <2>5, <2>6, StartsAccepts, SettlesEnds DEF WebhookNext, Receive
<1>3. ImplementsTaskBag <=>
        /\ Bag!TaskBagInit
        /\ [][Bag!TaskBagNext]_<<DOMAIN items, Verifying, results, phase = "responded">>
  BY DEF ImplementsTaskBag, Bag!TaskBagSpec, Verifying
<1> QED BY <1>1, <1>2, <1>3, PoolInvariant, PTL DEF WebhookSpec
=============================================================================
