------------------------ MODULE SavedReceiptsProofs ------------------------
(***************************************************************************)
(* A user's saved references for any number of users, tabs and receipts:   *)
(* each changes only by a request of its owner, and stays, with its time,  *)
(* until a removal of just this reference.  Argument: the owner and the    *)
(* time are set by the database, the rest by the request in flight.        *)
(***************************************************************************)
EXTENDS SavedReceipts, SequenceTheorems, FiniteSetTheorems, TLAPS

ListRequest(p) == [op |-> p.op, user |-> p.user, filter |-> p.filter, page |-> p.page]

ActionRequest == [op: {"save", "remove"}, user: Users \cup {None}, id: Ids, done: BOOLEAN]

ReceiptPage ==
    [page: {"receipt"}, id: Ids, user: Users \cup {None}, saved: BOOLEAN]

TablesFit ==
    /\ saved \in [Users -> [Ids -> Times \cup {None}]]
    /\ now \in Times
    /\ session \in Users \cup {None}
    /\ pending = [t \in Tabs |-> pending[t]]
    /\ view = [t \in Tabs |-> view[t]]

\* What is in flight: a list that is asked for, or a server action; a receipt
\* page is still there while what it saves is in flight.
RequestsFit ==
    \A t \in Tabs : pending[t] # None =>
        \/ pending[t].op \in {"list", "redirect"} /\ pending[t] = ListRequest(pending[t])
        \/ /\ pending[t] \in ActionRequest
           /\ pending[t].op = "save" /\ view[t] # None => view[t].page = "receipt"

ReceiptPagesFit ==
    \A t \in Tabs : view[t] # None /\ view[t].page = "receipt" => view[t] \in ReceiptPage

IInv == TablesFit /\ RequestsFit /\ ReceiptPagesFit

LEMMA InitInv == Init => IInv
BY SavedAssumption
   DEF Init, IInv, TablesFit, RequestsFit, ReceiptPagesFit, Times

LEMMA StepInv == IInv /\ [Next]_vars => IInv'
<1> SUFFICES ASSUME IInv, [Next]_vars PROVE IInv'
  OBVIOUS
<1> USE DEF IInv
<1>1. ASSUME NEW u \in Users \cup {None},
             session' = u, UNCHANGED <<saved, now, view, pending, everSaved>>
      PROVE  IInv'
  BY <1>1 DEF TablesFit, RequestsFit, ReceiptPagesFit
<1>2. ASSUME NEW t \in Tabs, NEW i \in Ids, ShowResult(t, i)
      PROVE  IInv'
  BY <1>2 DEF ShowResult, Idle, ReceiptPage, TablesFit, RequestsFit, ReceiptPagesFit
<1>3. ASSUME NEW t \in Tabs, NEW i \in Ids, ConfirmRemoval(t, i)
      PROVE  IInv'
  BY <1>3 DEF ConfirmRemoval, Idle, ActionRequest, TablesFit, RequestsFit,
              ReceiptPagesFit
<1>4. ASSUME NEW t \in Tabs, NEW filter \in Filters, NEW page \in 1..MaxPage,
             OpenDashboard(t, filter, page)
      PROVE  IInv'
  BY <1>4 DEF OpenDashboard, Idle, ListRequest, TablesFit, RequestsFit,
              ReceiptPagesFit
<1>5. ASSUME NEW t \in Tabs, List(t)
      PROVE  IInv'
  <2> DEFINE r == ListSavedReceipts(pending[t].user, pending[t].filter, pending[t].page)
  <2>1. pending[t] = ListRequest(pending[t])
    BY <1>5 DEF List, RequestsFit, ActionRequest
  <2>2. r # None => r.page = "dashboard"
    BY DEF ListSavedReceipts
  <2> HIDE DEF r
  <2>3. CASE /\ view' = [view EXCEPT ![t] = None]
             /\ pending' = [pending EXCEPT ![t] =
                   [@ EXCEPT !.op = "redirect", !.page = totalPages(r.total)]]
    <3>1. pending'[t] = ListRequest(pending'[t]) /\ pending'[t].op = "redirect"
      BY <2>1, <2>3 DEF ListRequest, TablesFit
    <3> QED BY <1>5, <2>3, <3>1 DEF List, TablesFit, RequestsFit, ReceiptPagesFit
  <2>4. CASE view' = [view EXCEPT ![t] = r] /\ pending' = [pending EXCEPT ![t] = None]
    BY <1>5, <2>2, <2>4 DEF List, TablesFit, RequestsFit, ReceiptPagesFit
  <2> QED BY <1>5, <2>3, <2>4 DEF List, r
<1>6. ASSUME NEW t \in Tabs, ListFails(t)
      PROVE  IInv'
  BY <1>6 DEF ListFails, TablesFit, RequestsFit, ReceiptPagesFit
<1>7. ASSUME NEW t \in Tabs, FollowRedirect(t)
      PROVE  IInv'
  <2>1. pending[t] = ListRequest(pending[t])
    BY <1>7 DEF FollowRedirect, RequestsFit, ActionRequest
  <2>2. \/ pending'[t] = None
        \/ pending'[t] = ListRequest(pending'[t]) /\ pending'[t].op = "list"
    BY <1>7, <2>1 DEF FollowRedirect, ListRequest, TablesFit
  <2> QED BY <1>7, <2>2 DEF FollowRedirect, TablesFit, RequestsFit, ReceiptPagesFit
<1>8. ASSUME NEW t \in Tabs, ClickSave(t)
      PROVE  IInv'
  <2>1. view[t].id \in Ids
    BY <1>8 DEF ClickSave, ReceiptPagesFit, ReceiptPage
  <2> QED BY <1>8, <2>1 DEF ClickSave, ActionRequest, TablesFit, RequestsFit,
                            ReceiptPagesFit
<1>9. ASSUME NEW t \in Tabs, Upsert(t)
      PROVE  IInv'
  <2>1. /\ pending[t] \in ActionRequest /\ pending[t].user \in Users
        /\ view[t] # None => view[t].page = "receipt"
    BY <1>9 DEF Upsert, Asks, RequestsFit, ActionRequest
  <2>2. pending'[t] \in ActionRequest
    BY <1>9, <2>1 DEF Upsert, ActionRequest, TablesFit
  <2>3. now' \in Times
    BY <1>9, SavedAssumption DEF Upsert, TablesFit, Times
  <2>4. TablesFit'
    BY <1>9, <2>1, <2>3 DEF Upsert, ActionRequest, TablesFit
  <2>5. RequestsFit' /\ ReceiptPagesFit'
    BY <1>9, <2>1, <2>2 DEF Upsert, TablesFit, RequestsFit, ReceiptPagesFit
  <2> QED BY <2>4, <2>5
<1>10. ASSUME NEW t \in Tabs, AnswerSave(t)
       PROVE  IInv'
  <2>1. view[t] \in ReceiptPage /\ pending[t].user \in Users \cup {None}
    BY <1>10 DEF AnswerSave, RequestsFit, ReceiptPagesFit, ActionRequest
  <2>2. view'[t] \in ReceiptPage
    BY <1>10, <2>1 DEF AnswerSave, ReceiptPage, TablesFit
  <2> QED BY <1>10, <2>2 DEF AnswerSave, TablesFit, RequestsFit, ReceiptPagesFit
<1>11. ASSUME NEW t \in Tabs, Delete(t)
       PROVE  IInv'
  <2>1. /\ pending[t] \in ActionRequest /\ pending[t].user \in Users
        /\ pending[t].op = "remove"
    BY <1>11 DEF Delete, Asks, RequestsFit, ActionRequest
  <2>2. pending'[t] \in ActionRequest /\ pending'[t].op = "remove"
    BY <1>11, <2>1 DEF Delete, ActionRequest, TablesFit
  <2>3. TablesFit'
    BY <1>11, <2>1 DEF Delete, ActionRequest, TablesFit
  <2>4. RequestsFit' /\ ReceiptPagesFit'
    BY <1>11, <2>2 DEF Delete, TablesFit, RequestsFit, ReceiptPagesFit
  <2> QED BY <2>3, <2>4
<1>12. ASSUME NEW t \in Tabs, AnswerRemoval(t)
       PROVE  IInv'
  BY <1>12 DEF AnswerRemoval, ListRequest, TablesFit, RequestsFit, ReceiptPagesFit
<1>13. ASSUME NEW t \in Tabs, ActionFails(t)
       PROVE  IInv'
  BY <1>13 DEF ActionFails, TablesFit, RequestsFit, ReceiptPagesFit
<1>14. ASSUME NEW t \in Tabs, NEW op \in {"save", "remove"}, NEW i \in Ids,
              Submit(t, op, i)
       PROVE  IInv'
  BY <1>14 DEF Submit, Idle, ActionRequest, TablesFit, RequestsFit, ReceiptPagesFit
<1>15. CASE UNCHANGED vars
  BY <1>15 DEF vars, TablesFit, RequestsFit, ReceiptPagesFit
<1> QED BY <1>1, <1>2, <1>3, <1>4, <1>5, <1>6, <1>7, <1>8, <1>9, <1>10, <1>11, <1>12,
           <1>13, <1>14, <1>15 DEF Next, SignIn, SignOut, OpenReceipt

\* The inductive invariant holds in every reachable state.
THEOREM Invariant == Spec => []IInv
BY InitInv, StepInv, PTL DEF Spec

\* The rows of a user change only by a request of that user.
LEMMA OwnStep ==
    ASSUME IInv, [Next]_vars, NEW u \in Users, saved'[u] # saved[u]
    PROVE  ChangedByOwner(u)
<1>1. PICK t \in Tabs : Upsert(t) \/ Delete(t)
  BY DEF Next, vars, SignIn, SignOut, OpenReceipt, ShowResult, Submit, ConfirmRemoval,
         OpenDashboard, List, ListFails, FollowRedirect, ClickSave, AnswerSave, AnswerRemoval, ActionFails
<1>2. pending[t] # None /\ pending[t] \in ActionRequest /\ ~pending[t].done
  BY <1>1 DEF Upsert, Delete, Asks, IInv, RequestsFit, ActionRequest
<1>3. pending'[t] = [pending[t] EXCEPT !.done = TRUE]
  BY <1>1 DEF Upsert, Delete, IInv, TablesFit
<1>4. pending'[t].done
  BY <1>2, <1>3 DEF ActionRequest
<1>5. pending[t].user = u
  BY <1>1 DEF Upsert, Delete, IInv, TablesFit
<1> QED BY <1>2, <1>4, <1>5 DEF ChangedByOwner

\* A request changes only the references of the user whose session it carries
\* (row-level security), whatever tab it comes from.
THEOREM OwnersOnly == Spec => OnlyOwnRows
<1>1. IInv /\ [Next]_vars =>
        [\A u \in Users : saved'[u] # saved[u] => ChangedByOwner(u)]_vars
  BY OwnStep
<1> QED BY <1>1, Invariant, PTL DEF Spec, OnlyOwnRows

\* One step: an upsert leaves the rows that are there (ignoreDuplicates), a
\* removal takes the one row that its request names.
LEMMA RowStep ==
    ASSUME IInv, [Next]_vars, NEW u \in Users, NEW i \in Ids, saved[u][i] # None
    PROVE  \/ saved'[u][i] = saved[u][i]
           \/ saved'[u][i] = None /\ RemovalAsked(u, i)
<1>1. CASE UNCHANGED saved
  BY <1>1
<1>2. ASSUME NEW t \in Tabs, Upsert(t) PROVE saved'[u][i] = saved[u][i]
  BY <1>2 DEF Upsert, IInv, TablesFit
<1>3. ASSUME NEW t \in Tabs, Delete(t), saved'[u][i] # saved[u][i]
      PROVE  saved'[u][i] = None /\ RemovalAsked(u, i)
  <2>1. pending[t] # None /\ pending[t].op = "remove"
    BY <1>3 DEF Delete, Asks
  <2>2. u = pending[t].user /\ i = pending[t].id /\ saved'[u][i] = None
    BY <1>3 DEF Delete, IInv, TablesFit
  <2> QED BY <2>1, <2>2 DEF RemovalAsked
<1> QED BY <1>1, <1>2, <1>3
           DEF Next, vars, SignIn, SignOut, OpenReceipt, ShowResult, Submit,
               ConfirmRemoval, OpenDashboard, List, ListFails, FollowRedirect,
               ClickSave, AnswerSave, AnswerRemoval, ActionFails

\* A reference and its time, by which the dashboard orders, stay until its
\* owner asks for the removal of just this one, whichever requests of all the
\* users and tabs are under way.
THEOREM ReferencesStay == Spec => RowsStayUntilRemoved
<1>1. IInv /\ [Next]_vars =>
        [\A u \in Users, i \in Ids :
            saved[u][i] # None =>
               \/ saved'[u][i] = saved[u][i]
               \/ saved'[u][i] = None /\ RemovalAsked(u, i)]_vars
  BY RowStep
<1> QED BY <1>1, Invariant, PTL DEF Spec, RowsStayUntilRemoved

-----------------------------------------------------------------------------
(* The order of the list and its pages.                                    *)

\* The order of the query is a strict and total one on the rows it selects.
LEMMA BeforeOrders ==
    ASSUME saved \in [Users -> [Ids -> Times \cup {None}]],
           NEW u \in Users, NEW filter \in Filters
    PROVE  LET rows == Matching(u, filter)
           IN /\ rows \subseteq Ids /\ IsFiniteSet(rows)
              /\ \A i \in rows : ~Before(u, i, i)
              /\ \A i, j \in rows : i # j => Before(u, i, j) \/ Before(u, j, i)
              /\ \A i, j, k \in rows :
                    Before(u, i, j) /\ Before(u, j, k) => Before(u, i, k)
<1> DEFINE rows == Matching(u, filter)
<1>1. rows \subseteq Ids /\ IsFiniteSet(rows)
  <2>1. rows \in SUBSET Ids
    BY DEF Matching
  <2> QED BY <2>1, SavedAssumption, FS_Subset
<1>2. \A i \in rows : saved[u][i] \in Int /\ Rank[i] \in Int
  BY SavedAssumption DEF Matching, Times
<1>3. \A i, j \in rows : Rank[i] = Rank[j] => i = j
  BY <1>1, SavedAssumption
<1> HIDE DEF rows
<1> QED BY <1>1, <1>2, <1>3 DEF rows, Before

\* The list holds the rows the filter selects, each at its place in the order.
LEMMA ListingOrders ==
    ASSUME saved \in [Users -> [Ids -> Times \cup {None}]],
           NEW u \in Users, NEW filter \in Filters
    PROVE  LET rows == Matching(u, filter)
               list == Listing(u, filter)
           IN /\ list \in Seq(rows) /\ Len(list) \in Nat
              /\ \A i \in rows : \E n \in 1..Len(list) : list[n] = i
              /\ \A m, n \in 1..Len(list) : m < n => Before(u, list[m], list[n])
<1> DEFINE rows == Matching(u, filter)
           ahead(i) == {j \in rows : Before(u, j, i)}
           pos == [i \in rows |-> Cardinality(ahead(i)) + 1]
           size == Cardinality(rows)
           list == Listing(u, filter)
<1>1. IsFiniteSet(rows) /\ size \in Nat
  BY BeforeOrders, FS_CardinalityType
<1>2. \A i \in rows : ~Before(u, i, i)
  BY BeforeOrders
<1>3. \A i, j \in rows : i # j => Before(u, i, j) \/ Before(u, j, i)
  BY BeforeOrders
<1>4. \A i, j, k \in rows : Before(u, i, j) /\ Before(u, j, k) => Before(u, i, k)
  BY BeforeOrders
<1>5. list = [n \in 1..size |-> CHOOSE i \in rows : Cardinality(ahead(i)) = n - 1]
  BY DEF Listing
<1> HIDE DEF rows, list
<1>6. \A i \in rows : IsFiniteSet(ahead(i)) /\ Cardinality(ahead(i)) \in Nat
  <2> TAKE i \in rows
  <2>1. ahead(i) \in SUBSET rows
    OBVIOUS
  <2>2. IsFiniteSet(ahead(i))
    BY <1>1, <2>1, FS_Subset
  <2> QED BY <2>2, FS_CardinalityType
<1>7. \A i \in rows : Cardinality(ahead(i)) < size
  <2> TAKE i \in rows
  <2>1. ahead(i) \in SUBSET (rows \ {i})
    BY <1>2
  <2>2. IsFiniteSet(rows \ {i}) /\ Cardinality(rows \ {i}) = size - 1
    BY <1>1, FS_RemoveElement
  <2>3. Cardinality(ahead(i)) <= size - 1
    BY <2>1, <2>2, FS_Subset
  <2>4. Cardinality(ahead(i)) \in Nat
    BY <1>6
  <2> HIDE DEF ahead, size
  <2> QED BY <1>1, <2>3, <2>4
<1>8. \A i, j \in rows : Before(u, i, j) => Cardinality(ahead(i)) < Cardinality(ahead(j))
  <2> SUFFICES ASSUME NEW i \in rows, NEW j \in rows, Before(u, i, j)
               PROVE  Cardinality(ahead(i)) < Cardinality(ahead(j))
    OBVIOUS
  <2>1. ahead(i) \in SUBSET (ahead(j) \ {i}) /\ i \in ahead(j)
    BY <1>2, <1>4
  <2>2. /\ IsFiniteSet(ahead(j) \ {i})
        /\ Cardinality(ahead(j) \ {i}) = Cardinality(ahead(j)) - 1
    BY <1>6, <2>1, FS_RemoveElement
  <2>3. Cardinality(ahead(i)) <= Cardinality(ahead(j)) - 1
    BY <2>1, <2>2, FS_Subset
  <2>4. Cardinality(ahead(i)) \in Nat /\ Cardinality(ahead(j)) \in Nat
    BY <1>6
  <2> HIDE DEF ahead
  <2> QED BY <2>3, <2>4
<1> HIDE DEF ahead
<1>9. \A i, j \in rows : i # j => Cardinality(ahead(i)) # Cardinality(ahead(j))
  BY <1>3, <1>6, <1>8
<1>10. pos \in Injection(rows, 1..size)
  <2>1. pos \in [rows -> 1..size]
    BY <1>1, <1>6, <1>7
  <2>2. \A i, j \in rows : pos[i] = pos[j] => i = j
    BY <1>6, <1>9
  <2> QED BY <2>1, <2>2 DEF Injection, IsInjective
<1>11. \A n \in 1..size : \E i \in rows : Cardinality(ahead(i)) = n - 1
  <2>1. IsFiniteSet(1..size) /\ Cardinality(1..size) = size
    BY <1>1, FS_Interval
  <2>2. pos \in Surjection(rows, 1..size)
    BY <1>10, <2>1, FS_Injection
  <2>3. \A n \in 1..size : \E i \in rows : pos[i] = n
    BY <2>2 DEF Surjection
  <2> QED BY <1>6, <2>3
<1>12. \A n \in 1..size : list[n] \in rows /\ Cardinality(ahead(list[n])) = n - 1
  BY <1>5, <1>11
<1>13. list \in Seq(rows) /\ Len(list) = size
  <2>1. list \in [1..size -> rows]
    BY <1>5, <1>12
  <2> QED BY <1>1, <2>1
<1>14. \A i \in rows : \E n \in 1..size : list[n] = i
  <2> TAKE i \in rows
  <2>1. Cardinality(ahead(i)) + 1 \in 1..size
    BY <1>1, <1>6, <1>7
  <2>2. Cardinality(ahead(list[Cardinality(ahead(i)) + 1])) = Cardinality(ahead(i))
    BY <1>6, <1>12, <2>1
  <2> QED BY <1>9, <1>12, <2>1, <2>2
<1>15. \A m, n \in 1..size : m < n => Before(u, list[m], list[n])
  <2> SUFFICES ASSUME NEW m \in 1..size, NEW n \in 1..size, m < n
               PROVE  Before(u, list[m], list[n])
    OBVIOUS
  <2>1. list[m] # list[n]
    BY <1>12
  <2>2. ~Before(u, list[n], list[m])
    BY <1>1, <1>8, <1>12
  <2> QED BY <1>3, <1>12, <2>1, <2>2
<1> QED BY <1>1, <1>13, <1>14, <1>15 DEF rows, list

\* Page n of a list: its rows from the (n - 1) * PageSize-th on.
LEMMA PageShows ==
    ASSUME NEW S, NEW list \in Seq(S), NEW page \in Nat \ {0}
    PROVE  LET shown == RangeOf(list, page)
               first == (page - 1) * PageSize
           IN /\ Len(shown) = IF Len(list) <= first THEN 0
                              ELSE IF first + PageSize < Len(list) THEN PageSize
                              ELSE Len(list) - first
              /\ \A k \in 1..Len(shown) : shown[k] = list[first + k]
<1> DEFINE first == (page - 1) * PageSize
           last == IF page * PageSize < Len(list) THEN page * PageSize ELSE Len(list)
<1>1. PageSize \in Nat \ {0} /\ Len(list) \in Nat
  BY SavedAssumption
<1>2. first \in Nat /\ page * PageSize = first + PageSize
  BY <1>1
<1>3. RangeOf(list, page) = SubSeq(list, first + 1, last)
  BY DEF RangeOf
<1>4. last = IF first + PageSize < Len(list) THEN first + PageSize ELSE Len(list)
  BY <1>2
<1> HIDE DEF first, last
<1>5. \A i \in (first + 1)..last : list[i] \in S
  BY <1>1, <1>2, <1>4
<1>6. /\ Len(RangeOf(list, page)) = IF first + 1 <= last THEN last - (first + 1) + 1 ELSE 0
      /\ \A k \in 1..(last - (first + 1) + 1) :
            RangeOf(list, page)[k] = list[(first + 1) + k - 1]
  BY <1>1, <1>2, <1>3, <1>4, <1>5, SubSeqProperties
<1>7. Len(RangeOf(list, page)) = IF Len(list) <= first THEN 0
                                 ELSE IF first + PageSize < Len(list) THEN PageSize
                                 ELSE Len(list) - first
  BY <1>1, <1>2, <1>4, <1>6
<1>8. \A k \in 1..Len(RangeOf(list, page)) : RangeOf(list, page)[k] = list[first + k]
  BY <1>1, <1>2, <1>4, <1>6
<1> QED BY <1>7, <1>8 DEF first

\* The pages that exist, and the place of a row on them.
LEMMA PagesExist ==
    ASSUME NEW total \in Nat
    PROVE  /\ totalPages(total) \in Nat \ {0}
           /\ \A page \in 1..totalPages(total) :
                 total > 0 => (page - 1) * PageSize < total
           /\ \A n \in 1..total : \E page \in 1..totalPages(total), k \in 1..PageSize :
                 n = (page - 1) * PageSize + k
<1>1. PageSize \in Nat \ {0}
  BY SavedAssumption
<1>2. CASE total = 0
  BY <1>2 DEF totalPages
<1>3. CASE total > 0
  <2>1. totalPages(total) = (total + PageSize - 1) \div PageSize
    BY <1>3 DEF totalPages
  <2>2. totalPages(total) \in Nat \ {0}
    BY <1>1, <1>3, <2>1
  <2>3. \A page \in 1..totalPages(total) : (page - 1) * PageSize < total
    BY <1>1, <1>3, <2>1, <2>2
  <2>4. ASSUME NEW n \in 1..total
        PROVE  \E page \in 1..totalPages(total), k \in 1..PageSize :
                  n = (page - 1) * PageSize + k
    <3> DEFINE q == (n - 1) \div PageSize
               r == (n - 1) % PageSize
    <3>1. q \in Nat /\ r \in 0..(PageSize - 1) /\ n - 1 = q * PageSize + r
      BY <1>1
    <3>2. q + 1 <= totalPages(total)
      BY <1>1, <1>3, <2>1
    <3> HIDE DEF q, r
    <3>3. q + 1 \in 1..totalPages(total) /\ r + 1 \in 1..PageSize
      BY <1>1, <2>2, <3>1, <3>2
    <3>4. n = ((q + 1) - 1) * PageSize + (r + 1)
      BY <1>1, <3>1
    <3> QED BY <3>3, <3>4
  <2> QED BY <2>2, <2>3, <2>4
<1> QED BY <1>2, <1>3

\* Walking through the pages is walking through the list.
LEMMA PagesWalkTheList ==
    ASSUME saved \in [Users -> [Ids -> Times \cup {None}]],
           NEW u \in Users, NEW filter \in Filters
    PROVE  LET list == Listing(u, filter)
               Places == {p \in (1..totalPages(Len(list))) \X (1..Len(list)) :
                             p[2] <= Len(RangeOf(list, p[1]))}
               Row(p) == RangeOf(list, p[1])[p[2]]
           IN /\ {Row(p) : p \in Places} = Matching(u, filter)
              /\ \A p, q \in Places :
                    p[1] < q[1] \/ (p[1] = q[1] /\ p[2] < q[2])
                       => Before(u, Row(p), Row(q))
<1> DEFINE rows == Matching(u, filter)
           list == Listing(u, filter)
           pages == totalPages(Len(list))
           Places == {p \in (1..pages) \X (1..Len(list)) : p[2] <= Len(RangeOf(list, p[1]))}
           Row(p) == RangeOf(list, p[1])[p[2]]
           index(p) == (p[1] - 1) * PageSize + p[2]
<1>1. /\ list \in Seq(rows) /\ Len(list) \in Nat
      /\ \A i \in rows : \E n \in 1..Len(list) : list[n] = i
      /\ \A m, n \in 1..Len(list) : m < n => Before(u, list[m], list[n])
  BY ListingOrders
<1> HIDE DEF rows, list
<1>2. /\ pages \in Nat \ {0}
      /\ \A page \in 1..pages : Len(list) > 0 => (page - 1) * PageSize < Len(list)
      /\ \A n \in 1..Len(list) : \E page \in 1..pages, k \in 1..PageSize :
            n = (page - 1) * PageSize + k
  BY <1>1, PagesExist
<1> HIDE DEF pages
<1>3. PageSize \in Nat \ {0}
  BY SavedAssumption
<1>4. ASSUME NEW page \in 1..pages
      PROVE  LET shown == RangeOf(list, page)
                 first == (page - 1) * PageSize
             IN /\ Len(shown) = IF Len(list) <= first THEN 0
                                ELSE IF first + PageSize < Len(list) THEN PageSize
                                ELSE Len(list) - first
                /\ \A k \in 1..Len(shown) : shown[k] = list[first + k]
  <2>1. page \in Nat \ {0}
    BY <1>2
  <2> QED BY <1>1, <2>1, PageShows
<1>5. \A p \in Places : /\ index(p) \in 1..Len(list) /\ Row(p) = list[index(p)]
                        /\ p[1] \in 1..pages /\ p[2] \in 1..PageSize
  <2> SUFFICES ASSUME NEW page \in 1..pages, NEW k \in 1..Len(list),
                      k <= Len(RangeOf(list, page))
               PROVE  /\ (page - 1) * PageSize + k \in 1..Len(list) /\ k \in 1..PageSize
                      /\ RangeOf(list, page)[k] = list[(page - 1) * PageSize + k]
    OBVIOUS
  <2>1. PICK first : first = (page - 1) * PageSize
    OBVIOUS
  <2>2. first \in Nat
    BY <1>2, <1>3, <2>1
  <2>3. PICK shown : shown = RangeOf(list, page)
    OBVIOUS
  <2>4. /\ Len(shown) = IF Len(list) <= first THEN 0
                        ELSE IF first + PageSize < Len(list) THEN PageSize
                        ELSE Len(list) - first
        /\ \A j \in 1..Len(shown) : shown[j] = list[first + j]
    BY <1>4, <2>1, <2>3
  <2>5. PICK size \in Nat : size = Len(list)
    BY <1>1
  <2>6. PICK length : length = Len(shown)
    OBVIOUS
  <2>7. k \in 1..size /\ k <= length
    BY <2>3, <2>5, <2>6
  <2>8. length = IF size <= first THEN 0
                 ELSE IF first + PageSize < size THEN PageSize ELSE size - first
    BY <2>4, <2>5, <2>6
  <2>9. k \in 1..length /\ first + k \in 1..size /\ k \in 1..PageSize
    BY <1>3, <2>2, <2>7, <2>8
  <2> QED BY <2>1, <2>3, <2>4, <2>5, <2>6, <2>9
<1>6. \A p \in Places : Row(p) \in rows
  <2> TAKE p \in Places
  <2>1. PICK n : n = index(p)
    OBVIOUS
  <2>2. n \in 1..Len(list) /\ Row(p) = list[n]
    BY <1>5, <2>1
  <2> QED BY <1>1, <2>2
<1>7. \A i \in rows : \E p \in Places : Row(p) = i
  <2> TAKE i \in rows
  <2>1. PICK n \in 1..Len(list) : list[n] = i
    BY <1>1
  <2>2. PICK page \in 1..pages, k \in 1..PageSize : n = (page - 1) * PageSize + k
    BY <1>2
  <2>3. PICK first : first = (page - 1) * PageSize
    OBVIOUS
  <2>4. first \in Nat /\ n = first + k
    BY <1>2, <1>3, <2>2, <2>3
  <2>5. Len(RangeOf(list, page)) = IF Len(list) <= first THEN 0
                                   ELSE IF first + PageSize < Len(list) THEN PageSize
                                   ELSE Len(list) - first
    BY <1>4, <2>3
  <2>6. k <= Len(RangeOf(list, page)) /\ k \in 1..Len(list)
    BY <1>1, <1>3, <2>4, <2>5
  <2>7. <<page, k>> \in Places
    BY <2>6
  <2>8. RangeOf(list, page)[k] = i
    BY <1>5, <2>1, <2>2, <2>7
  <2> QED BY <2>7, <2>8
<1>8. ASSUME NEW p \in Places, NEW q \in Places,
             p[1] < q[1] \/ (p[1] = q[1] /\ p[2] < q[2])
      PROVE  Before(u, Row(p), Row(q))
  <2>1. /\ p[1] \in 1..pages /\ q[1] \in 1..pages
        /\ p[2] \in 1..PageSize /\ q[2] \in 1..PageSize
    BY <1>5
  <2>2. ASSUME NEW a \in 1..pages, NEW b \in 1..pages,
               NEW k \in 1..PageSize, NEW l \in 1..PageSize,
               a < b \/ (a = b /\ k < l)
        PROVE  (a - 1) * PageSize + k < (b - 1) * PageSize + l
    <3>1. CASE a = b /\ k < l
      BY <1>2, <1>3, <3>1
    <3>2. CASE a < b
      <4>1. PICK d \in Nat : b = a + 1 + d
        <5>1. b - a - 1 \in Nat /\ b = a + 1 + (b - a - 1)
          BY <1>2, <3>2
        <5> QED BY <5>1
      <4>2. a - 1 \in Nat /\ b - 1 = (a - 1) + 1 + d
        BY <1>2, <4>1
      <4>3. (b - 1) * PageSize = (a - 1) * PageSize + PageSize + d * PageSize
        BY <1>3, <4>2
      <4>4. d * PageSize \in Nat /\ (a - 1) * PageSize \in Nat
        BY <1>3, <4>2
      <4> QED BY <1>3, <4>3, <4>4
    <3> QED BY <2>2, <3>1, <3>2
  <2>3. index(p) < index(q)
    BY <1>8, <2>1, <2>2
  <2> QED BY <1>1, <1>5, <2>3
<1> QED BY <1>6, <1>7, <1>8 DEF rows, list, pages

-----------------------------------------------------------------------------
(* What the tabs show and ask for.                                         *)

ListRequests ==
    [op: {"list", "redirect"}, user: Users, filter: Filters, page: 1..MaxPage]

\* "Showing now first-last" of one dashboard.
ShownFits(v) ==
    LET first == IF v.total = 0 THEN 0 ELSE (v.number - 1) * PageSize + 1
        last == IF v.number * PageSize < v.total THEN v.number * PageSize ELSE v.total
    IN /\ v.number <= totalPages(v.total)
       /\ Len(v.items) = IF v.total = 0 THEN 0 ELSE last - first + 1

\* A request to save comes from the receipt page that is still shown, and one
\* to remove from a dashboard, or each from no page of the tab; a save that is
\* done is known to the table.
RequestFits(t) ==
    pending[t] # None =>
        \/ pending[t] \in ListRequests
        \/ /\ pending[t] \in ActionRequest
           /\ pending[t].done => pending[t].user \in Users
           /\ \/ /\ pending[t].op = "save"
                 /\ view[t] # None => view[t].page = "receipt" /\ view[t].id = pending[t].id
                 /\ pending[t].done => <<pending[t].user, pending[t].id>> \in everSaved
              \/ pending[t].op = "remove" /\ (view[t] # None => view[t].page = "dashboard")

DashboardFits(v) ==
    /\ v.page = "dashboard" /\ v.user \in Users /\ v.filter \in Filters
    /\ v.number \in 1..MaxPage /\ v.total \in Nat /\ ShownFits(v)

PageFits(t) ==
    view[t] # None =>
        \/ view[t] \in ReceiptPage
           /\ (view[t].saved => <<view[t].user, view[t].id>> \in everSaved)
        \/ DashboardFits(view[t])

TabInv ==
    /\ IInv /\ everSaved \subseteq Users \X Ids
    /\ \A t \in Tabs : RequestFits(t) /\ PageFits(t)

LEMMA TabInit == Init => TabInv
BY InitInv, SavedAssumption DEF Init, TabInv, RequestFits, PageFits

\* A step of tab t leaves the others as they were.
LEMMA TabStep ==
    ASSUME TabInv, IInv', NEW t \in Tabs,
           everSaved \subseteq everSaved', everSaved' \subseteq Users \X Ids,
           \A x \in Tabs \ {t} : pending'[x] = pending[x] /\ view'[x] = view[x],
           RequestFits(t)', PageFits(t)'
    PROVE  TabInv'
<1>1. ASSUME NEW x \in Tabs \ {t} PROVE RequestFits(x)' /\ PageFits(x)'
  <2>1. pending'[x] = pending[x] /\ view'[x] = view[x] /\ RequestFits(x) /\ PageFits(x)
    BY DEF TabInv
  <2>2. RequestFits(x)'
    BY <2>1 DEF RequestFits
  <2>3. PageFits(x)'
    BY <2>1 DEF PageFits, DashboardFits, ShownFits
  <2> QED BY <2>2, <2>3
<1> QED BY <1>1 DEF TabInv

\* A list that was asked for is shown only with a page that exists.
LEMMA ShownListFits ==
    ASSUME saved \in [Users -> [Ids -> Times \cup {None}]],
           NEW u \in Users, NEW filter \in Filters, NEW page \in 1..MaxPage
    PROVE  LET r == ListSavedReceipts(u, filter, page)
           IN /\ r.page = "dashboard" /\ r.user = u /\ r.filter = filter
              /\ r.number = page /\ r.total \in Nat
              /\ Beyond(r.number, r.total) => totalPages(r.total) \in 1..MaxPage
              /\ ~Beyond(r.number, r.total) => DashboardFits(r)
<1> DEFINE list == Listing(u, filter)
           first == (page - 1) * PageSize
<1>1. PICK r : r = ListSavedReceipts(u, filter, page)
  OBVIOUS
<1>2. /\ r.page = "dashboard" /\ r.user = u /\ r.filter = filter /\ r.number = page
      /\ r.items = RangeOf(list, page) /\ r.total = Len(list)
  BY <1>1 DEF ListSavedReceipts
<1>3. list \in Seq(Matching(u, filter)) /\ Len(list) \in Nat
  BY ListingOrders
<1> HIDE DEF list
<1>4. PageSize \in Nat \ {0} /\ MaxPage \in Nat /\ page \in Nat \ {0}
  BY SavedAssumption
<1>5. /\ totalPages(Len(list)) \in Nat \ {0}
      /\ \A n \in 1..totalPages(Len(list)) :
            Len(list) > 0 => (n - 1) * PageSize < Len(list)
  BY <1>3, PagesExist
<1>6. Beyond(r.number, r.total) => totalPages(r.total) \in 1..MaxPage
  BY <1>2, <1>4, <1>5 DEF Beyond
<1>7. Len(RangeOf(list, page)) = IF Len(list) <= first THEN 0
                                 ELSE IF first + PageSize < Len(list) THEN PageSize
                                 ELSE Len(list) - first
  BY <1>3, <1>4, PageShows
<1>8. first \in Nat /\ page * PageSize = first + PageSize
  BY <1>4
<1>9. ASSUME ~Beyond(r.number, r.total)
      PROVE  ShownFits(r)
  <2>1. page <= totalPages(Len(list)) /\ page \in 1..totalPages(Len(list))
    BY <1>2, <1>4, <1>5, <1>9 DEF Beyond
  <2>2. Len(list) > 0 => first < Len(list)
    BY <1>5, <2>1
  <2> HIDE DEF first
  <2>3. Len(RangeOf(list, page)) =
          IF Len(list) = 0 THEN 0
          ELSE (IF page * PageSize < Len(list) THEN page * PageSize ELSE Len(list))
                  - (first + 1) + 1
    BY <1>3, <1>4, <1>7, <1>8, <2>2
  <2> QED BY <1>2, <2>1, <2>3 DEF ShownFits, first
<1>10. ~Beyond(r.number, r.total) => DashboardFits(r)
  BY <1>2, <1>3, <1>9 DEF DashboardFits
<1> QED BY <1>1, <1>2, <1>3, <1>6, <1>10

LEMMA TabsFit ==
    ASSUME TabInv, [Next]_vars
    PROVE  TabInv'
<1>1. IInv'
  BY StepInv DEF TabInv
<1>2. ASSUME UNCHANGED <<view, pending, everSaved>>
      PROVE  TabInv'
  BY <1>1, <1>2 DEF TabInv, RequestFits, PageFits, DashboardFits, ShownFits
<1>3. ASSUME NEW t \in Tabs, NEW i \in Ids, ShowResult(t, i)
      PROVE  TabInv'
  <2>1. view'[t] \in ReceiptPage /\ ~view'[t].saved
    BY <1>3 DEF ShowResult, ReceiptPage, TabInv, IInv, TablesFit
  <2>2. RequestFits(t)' /\ PageFits(t)'
    BY <1>3, <2>1 DEF ShowResult, Idle, RequestFits, PageFits
  <2> QED BY <1>1, <1>3, <2>2, TabStep DEF ShowResult, TabInv, IInv, TablesFit
<1>4. ASSUME NEW t \in Tabs, NEW i \in Ids, ConfirmRemoval(t, i)
      PROVE  TabInv'
  <2>1. pending'[t] \in ActionRequest /\ pending'[t].op = "remove" /\ ~pending'[t].done
    BY <1>4 DEF ConfirmRemoval, ActionRequest, TabInv, IInv, TablesFit
  <2>2. RequestFits(t)' /\ PageFits(t)'
    BY <1>4, <2>1
       DEF ConfirmRemoval, TabInv, RequestFits, PageFits, DashboardFits, ShownFits
  <2> QED BY <1>1, <1>4, <2>2, TabStep DEF ConfirmRemoval, TabInv, IInv, TablesFit
<1>5. ASSUME NEW t \in Tabs, NEW filter \in Filters, NEW page \in 1..MaxPage,
             OpenDashboard(t, filter, page)
      PROVE  TabInv'
  <2>1. pending'[t] \in ListRequests /\ view'[t] = None
    BY <1>5 DEF OpenDashboard, ListRequests, TabInv, IInv, TablesFit
  <2>2. RequestFits(t)' /\ PageFits(t)'
    BY <2>1 DEF RequestFits, PageFits
  <2> QED BY <1>1, <1>5, <2>2, TabStep DEF OpenDashboard, TabInv, IInv, TablesFit
<1>6. ASSUME NEW t \in Tabs, List(t)
      PROVE  TabInv'
  <2>1. pending[t] \in ListRequests
    BY <1>6 DEF List, TabInv, RequestFits, ActionRequest
  <2>2. PICK r : r = ListSavedReceipts(pending[t].user, pending[t].filter, pending[t].page)
    OBVIOUS
  <2>3. /\ r.page = "dashboard" /\ r.total \in Nat
        /\ Beyond(r.number, r.total) => totalPages(r.total) \in 1..MaxPage
        /\ ~Beyond(r.number, r.total) => DashboardFits(r)
    BY <2>1, <2>2, ShownListFits DEF ListRequests, TabInv, IInv, TablesFit
  <2>4. CASE /\ Beyond(r.number, r.total) /\ view' = [view EXCEPT ![t] = None]
             /\ pending' = [pending EXCEPT ![t] =
                   [@ EXCEPT !.op = "redirect", !.page = totalPages(r.total)]]
    <3>1. pending'[t] \in ListRequests /\ view'[t] = None
      BY <2>1, <2>3, <2>4 DEF ListRequests, TabInv, IInv, TablesFit
    <3>2. RequestFits(t)' /\ PageFits(t)'
      BY <3>1 DEF RequestFits, PageFits
    <3> QED BY <1>1, <1>6, <2>4, <3>2, TabStep DEF List, TabInv, IInv, TablesFit
  <2>5. CASE /\ ~Beyond(r.number, r.total) /\ view' = [view EXCEPT ![t] = r]
             /\ pending' = [pending EXCEPT ![t] = None]
    <3>1. view'[t] = r /\ pending'[t] = None
      BY <2>5 DEF TabInv, IInv, TablesFit
    <3>2. RequestFits(t)' /\ PageFits(t)'
      BY <2>3, <2>5, <3>1 DEF RequestFits, PageFits, DashboardFits, ShownFits
    <3> QED BY <1>1, <1>6, <2>5, <3>2, TabStep DEF List, TabInv, IInv, TablesFit
  <2> QED BY <1>6, <2>2, <2>4, <2>5 DEF List
<1>7. ASSUME NEW t \in Tabs, ListFails(t)
      PROVE  TabInv'
  <2>1. RequestFits(t)' /\ PageFits(t)'
    BY <1>7 DEF ListFails, TabInv, IInv, TablesFit, RequestFits, PageFits
  <2> QED BY <1>1, <1>7, <2>1, TabStep DEF ListFails, TabInv, IInv, TablesFit
<1>8. ASSUME NEW t \in Tabs, FollowRedirect(t)
      PROVE  TabInv'
  <2>1. pending[t] \in ListRequests
    BY <1>8 DEF FollowRedirect, TabInv, RequestFits, ActionRequest
  <2>2. pending'[t] = None \/ pending'[t] \in ListRequests
    BY <1>8, <2>1 DEF FollowRedirect, ListRequests, TabInv, IInv, TablesFit
  <2>3. RequestFits(t)' /\ PageFits(t)'
    BY <1>8, <2>2
       DEF FollowRedirect, TabInv, RequestFits, PageFits, DashboardFits, ShownFits
  <2> QED BY <1>1, <1>8, <2>3, TabStep DEF FollowRedirect, TabInv, IInv, TablesFit
<1>9. ASSUME NEW t \in Tabs, ClickSave(t)
      PROVE  TabInv'
  <2>1. view[t] \in ReceiptPage
    BY <1>9 DEF ClickSave, TabInv, IInv, ReceiptPagesFit
  <2>2. /\ pending'[t] \in ActionRequest /\ pending'[t].op = "save"
        /\ pending'[t].id = view[t].id /\ ~pending'[t].done
    BY <1>9, <2>1, SavedAssumption
       DEF ClickSave, ActionRequest, ReceiptPage, TabInv, IInv, TablesFit
  <2>3. RequestFits(t)' /\ PageFits(t)'
    BY <1>9, <2>1, <2>2
       DEF ClickSave, TabInv, RequestFits, PageFits, DashboardFits, ShownFits
  <2> QED BY <1>1, <1>9, <2>3, TabStep DEF ClickSave, TabInv, IInv, TablesFit
<1>10. ASSUME NEW t \in Tabs, Upsert(t)
       PROVE  TabInv'
  <2>1. /\ pending[t] \in ActionRequest /\ pending[t].user \in Users
        /\ pending[t].op = "save"
        /\ view[t] # None => view[t].page = "receipt" /\ view[t].id = pending[t].id
    BY <1>10 DEF Upsert, Asks, TabInv, RequestFits, ListRequests, ActionRequest
  <2>2. pending'[t] = [pending[t] EXCEPT !.done = TRUE]
    BY <1>10 DEF Upsert, TabInv, IInv, TablesFit
  <2>3. /\ pending'[t] \in ActionRequest /\ pending'[t].op = "save"
        /\ pending'[t].id = pending[t].id /\ pending'[t].user = pending[t].user
    BY <2>1, <2>2 DEF ActionRequest
  <2>4. /\ everSaved' = everSaved \cup {<<pending[t].user, pending[t].id>>}
        /\ everSaved' \subseteq Users \X Ids /\ UNCHANGED view
    BY <1>10, <2>1 DEF Upsert, ActionRequest, TabInv
  <2>5. RequestFits(t)'
    BY <2>1, <2>3, <2>4 DEF RequestFits
  <2>6. PageFits(t)'
    BY <2>4 DEF TabInv, PageFits, DashboardFits, ShownFits
  <2> QED BY <1>1, <1>10, <2>4, <2>5, <2>6, TabStep DEF Upsert, TabInv, IInv, TablesFit
<1>11. ASSUME NEW t \in Tabs, AnswerSave(t)
       PROVE  TabInv'
  <2>1. /\ pending[t] \in ActionRequest /\ view[t] \in ReceiptPage
        /\ view[t].id = pending[t].id
        /\ <<pending[t].user, pending[t].id>> \in everSaved
    BY <1>11
       DEF AnswerSave, TabInv, RequestFits, ListRequests, IInv, ReceiptPagesFit
  <2>2. /\ view'[t] \in ReceiptPage /\ view'[t].user = pending[t].user
        /\ view'[t].id = view[t].id /\ pending'[t] = None
    BY <1>11, <2>1 DEF AnswerSave, ActionRequest, ReceiptPage, TabInv, IInv, TablesFit
  <2>3. <<view'[t].user, view'[t].id>> \in everSaved'
    BY <1>11, <2>1, <2>2 DEF AnswerSave
  <2>4. RequestFits(t)'
    BY <2>2 DEF RequestFits
  <2>5. PageFits(t)'
    BY <2>2, <2>3 DEF PageFits
  <2> QED BY <1>1, <1>11, <2>4, <2>5, TabStep DEF AnswerSave, TabInv, IInv, TablesFit
<1>12. ASSUME NEW t \in Tabs, Delete(t)
       PROVE  TabInv'
  <2>1. /\ pending[t] \in ActionRequest /\ pending[t].op = "remove"
        /\ pending[t].user \in Users /\ (view[t] # None => view[t].page = "dashboard")
    BY <1>12 DEF Delete, Asks, TabInv, RequestFits, ListRequests, ActionRequest
  <2>2. pending'[t] = [pending[t] EXCEPT !.done = TRUE]
    BY <1>12 DEF Delete, TabInv, IInv, TablesFit
  <2>3. /\ pending'[t] \in ActionRequest /\ pending'[t].op = "remove"
        /\ pending'[t].user = pending[t].user
    BY <2>1, <2>2 DEF ActionRequest
  <2>4. RequestFits(t)' /\ PageFits(t)'
    BY <1>12, <2>1, <2>3
       DEF Delete, TabInv, RequestFits, PageFits, DashboardFits, ShownFits
  <2> QED BY <1>1, <1>12, <2>4, TabStep DEF Delete, TabInv, IInv, TablesFit
<1>13. ASSUME NEW t \in Tabs, AnswerRemoval(t)
       PROVE  TabInv'
  <2>1. /\ pending[t] \in ActionRequest /\ pending[t].user \in Users
        /\ DashboardFits(view[t])
    BY <1>13 DEF AnswerRemoval, TabInv, RequestFits, PageFits, ListRequests,
                 ActionRequest, ReceiptPage
  <2>2. pending'[t] \in ListRequests
    BY <1>13, <2>1 DEF AnswerRemoval, DashboardFits, ListRequests, TabInv, IInv, TablesFit
  <2>3. RequestFits(t)' /\ PageFits(t)'
    BY <1>13, <2>2
       DEF AnswerRemoval, TabInv, RequestFits, PageFits, DashboardFits, ShownFits
  <2> QED BY <1>1, <1>13, <2>3, TabStep DEF AnswerRemoval, TabInv, IInv, TablesFit
<1>14. ASSUME NEW t \in Tabs, ActionFails(t)
       PROVE  TabInv'
  <2>1. RequestFits(t)' /\ PageFits(t)'
    BY <1>14 DEF ActionFails, TabInv, IInv, TablesFit, RequestFits, PageFits,
                 DashboardFits, ShownFits
  <2> QED BY <1>1, <1>14, <2>1, TabStep DEF ActionFails, TabInv, IInv, TablesFit
<1>15. ASSUME NEW t \in Tabs, NEW op \in {"save", "remove"}, NEW i \in Ids,
              Submit(t, op, i)
       PROVE  TabInv'
  <2>1. /\ pending'[t] \in ActionRequest /\ pending'[t].op = op /\ ~pending'[t].done
        /\ view'[t] = None
    BY <1>15 DEF Submit, ActionRequest, TabInv, IInv, TablesFit
  <2>2. RequestFits(t)' /\ PageFits(t)'
    BY <2>1 DEF RequestFits, PageFits
  <2> QED BY <1>1, <1>15, <2>2, TabStep DEF Submit, TabInv, IInv, TablesFit
<1> QED BY <1>2, <1>3, <1>4, <1>5, <1>6, <1>7, <1>8, <1>9, <1>10, <1>11, <1>12, <1>13,
           <1>14, <1>15 DEF Next, SignIn, SignOut, OpenReceipt, vars

\* What the tabs show and ask for fits the table in every reachable state.
THEOREM TabsInvariant == Spec => []TabInv
BY TabInit, TabsFit, PTL DEF Spec

\* Every variable keeps its type; in particular no request ever asks for a
\* page outside 1..MaxPage, also after redirects and removals.
THEOREM TypeCorrect == Spec => []TypeOK
<1>1. TabInv => TypeOK
  <2> SUFFICES ASSUME TabInv PROVE TypeOK
    OBVIOUS
  <2>1. /\ saved \in [Users -> [Ids -> Times \cup {None}]] /\ now \in Times
        /\ session \in Users \cup {None} /\ everSaved \subseteq Users \X Ids
    BY DEF TabInv, IInv, TablesFit
  <2>2. ASSUME NEW t \in Tabs, pending[t] # None
        PROVE  pending[t] \in ListRequests \cup ActionRequest
    BY <2>2 DEF TabInv, RequestFits
  <2>3. ASSUME NEW t \in Tabs, view[t] # None
        PROVE  \/ view[t] \in [page: {"receipt"}, id: Ids, user: Users \cup {None},
                               saved: BOOLEAN]
               \/ DashboardFits(view[t])
    <3>1. ReceiptPage \subseteq [page: {"receipt"}, id: Ids, user: Users \cup {None},
                                 saved: BOOLEAN]
      BY SavedAssumption DEF ReceiptPage
    <3> QED BY <2>3, <3>1 DEF TabInv, PageFits
  <2> QED BY <2>1, <2>2, <2>3 DEF TypeOK, ListRequests, ActionRequest, DashboardFits
<1> QED BY <1>1, TabsInvariant, PTL

\* The pages of a list show its rows in order, each once, for every number of
\* rows and every size of a page (user-receipts.ts 47-61).
THEOREM PagesPartitionTheList == Spec => []PagesPartition
<1>1. TabInv /\ TypeOK => PagesPartition
  BY PagesWalkTheList DEF TabInv, IInv, TablesFit, PagesPartition
<1> QED BY <1>1, TabsInvariant, TypeCorrect, PTL

\* A dashboard that is shown exists and says what it shows, also when the
\* list grew or shrank on the way (user-receipts.ts 47-61).
THEOREM ShownPagesFit == Spec => []ShownPageFits
<1>1. TabInv => ShownPageFits
  <2> SUFFICES ASSUME TabInv, NEW t \in Tabs, view[t] # None, view[t].page = "dashboard"
               PROVE  ShownFits(view[t])
    BY DEF ShownPageFits, ShownFits
  <2> QED BY DEF TabInv, PageFits, ReceiptPage, DashboardFits
<1> QED BY <1>1, TabsInvariant, PTL

\* "Receipt saved" is true of the user the request was made by.
THEOREM ClaimsHold == Spec => []SavedClaimsHold
<1>1. TabInv => SavedClaimsHold
  BY DEF TabInv, PageFits, DashboardFits, SavedClaimsHold
<1> QED BY <1>1, TabsInvariant, PTL
=============================================================================
