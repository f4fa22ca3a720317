--------------------------- MODULE SavedReceipts ---------------------------
(***************************************************************************)
(* The saved receipts of signed-in users: the table user_receipts under    *)
(* row-level security, the save button of a receipt page, and the          *)
(* dashboard that lists, pages and removes, in the tabs of one browser     *)
(* that share its session.  A request carries the session it was sent      *)
(* with; the tabs, and the database calls of one server action, interleave *)
(* freely.                                                                 *)
(***************************************************************************)
EXTENDS Naturals, SequencesExt

CONSTANTS
    Tabs, Users,
    Ids,          \* the rows of verification_receipts, which stay (ReceiptStore)
    Showable,     \* the ids whose row isPublicReceipt accepts
    Kind,         \* the verdict and cluster of an id, what the filters look at
    Kinds, All,   \* All: no filter
    Rank,         \* the order of ids as texts
    PageSize,
    MaxPage,      \* bound: pages entered in the address
    MaxTime,      \* bound: the clock
    None

ASSUME SavedAssumption ==
    /\ IsFiniteSet(Ids) /\ Showable \subseteq Ids
    /\ All \notin Kinds
    /\ Kind \in [Ids -> Kinds]
    /\ Rank \in [Ids -> Nat]
    /\ \A a, b \in Ids : Rank[a] = Rank[b] => a = b
    /\ PageSize \in Nat \ {0} /\ MaxPage \in Nat \ {0} /\ MaxTime \in Nat
    /\ None \notin Users \cup Nat

VARIABLES
    saved,      \* user_receipts: saved_at by user and id, or None
    now,        \* the database's clock
    session,    \* the user the cookies name, or None
    view,       \* by tab: the page it shows
    pending,    \* by tab: the request in flight
    everSaved   \* history: the references that were ever in the table

vars == <<saved, now, session, view, pending, everSaved>>

Filters == {All} \cup Kinds

Init ==
    /\ saved = [u \in Users |-> [i \in Ids |-> None]]
    /\ now = 0 /\ session = None
    /\ view = [t \in Tabs |-> None] /\ pending = [t \in Tabs |-> None]
    /\ everSaved = {}

-----------------------------------------------------------------------------
(* listSavedReceipts: one query, hence one state of the table.             *)

\* The rows a filter selects, under the policy for reading.
Matching(u, filter) ==
    {i \in Ids : saved[u][i] # None /\ filter \in {All, Kind[i]}}

\* saved_at descending, then receipt_id ascending.
Before(u, a, b) ==
    \/ saved[u][a] > saved[u][b]
    \/ saved[u][a] = saved[u][b] /\ Rank[a] < Rank[b]

\* The n-th row of the query is the one with n - 1 rows before it.
Listing(u, filter) ==
    LET rows == Matching(u, filter)
    IN [n \in 1..Cardinality(rows) |->
          CHOOSE i \in rows : Cardinality({j \in rows : Before(u, j, i)}) = n - 1]

\* Mutant: the range is one row too long.
MutRange(list, page) ==
    SubSeq(list, (page - 1) * PageSize + 1,
           IF page * PageSize + 1 < Len(list) THEN page * PageSize + 1 ELSE Len(list))

RangeOf(list, page) ==
    SubSeq(list, (page - 1) * PageSize + 1,
           IF page * PageSize < Len(list) THEN page * PageSize ELSE Len(list))

totalPages(total) ==
    IF total = 0 THEN 1 ELSE (total + PageSize - 1) \div PageSize

ListSavedReceipts(u, filter, page) ==
    LET list == Listing(u, filter)
    IN [page |-> "dashboard", user |-> u, filter |-> filter, number |-> page,
        items |-> RangeOf(list, page), total |-> Len(list)]

\* Mutant: the last page counts as beyond the last.
MutBeyond(page, total) == page >= totalPages(total)

\* Mutant: a page number that is too large is taken as it is.
MutNeverBeyond(page, total) == FALSE

Beyond(page, total) == page > totalPages(total)

-----------------------------------------------------------------------------
(* Pages.  A tab opens the next one when it has no request in flight.      *)

Idle(t) == pending[t] = None

SignIn(u) ==
    /\ session' = u
    /\ UNCHANGED <<saved, now, view, pending, everSaved>>

SignOut ==
    /\ session' = None
    /\ UNCHANGED <<saved, now, view, pending, everSaved>>

\* The workspace offers every receipt that a verification issued, with no look
\* at its row.  Who is signed in was asked when the page was loaded; the session
\* may change at any time, so that it is asked here.
ShowResult(t, i) ==
    /\ Idle(t)
    /\ view' = [view EXCEPT ![t] =
          [page |-> "receipt", id |-> i, user |-> session, saved |-> FALSE]]
    /\ UNCHANGED <<saved, now, session, pending, everSaved>>

\* The page of a receipt shows, and offers to save, what isPublicReceipt accepts.
OpenReceipt(t, i) == i \in Showable /\ ShowResult(t, i)

\* The page asks who is signed in, then for the list, in one request.
OpenDashboard(t, filter, page) ==
    /\ Idle(t) /\ session # None
    /\ view' = [view EXCEPT ![t] = None]
    /\ pending' = [pending EXCEPT ![t] =
          [op |-> "list", user |-> session, filter |-> filter, page |-> page]]
    /\ UNCHANGED <<saved, now, session, everSaved>>

\* The list arrives and is shown, or the browser is sent to the last page.
List(t) ==
    /\ pending[t] # None /\ pending[t].op = "list"
    /\ LET r == ListSavedReceipts(pending[t].user, pending[t].filter, pending[t].page)
       IN \/ /\ Beyond(r.number, r.total)
             /\ view' = [view EXCEPT ![t] = None]
             /\ pending' = [pending EXCEPT ![t] =
                   [@ EXCEPT !.op = "redirect", !.page = totalPages(r.total)]]
          \/ /\ ~Beyond(r.number, r.total)
             /\ ToSet(r.items) \subseteq Showable
             /\ view' = [view EXCEPT ![t] = r]
             /\ pending' = [pending EXCEPT ![t] = None]
    /\ UNCHANGED <<saved, now, session, everSaved>>

\* The browser goes there, with the session it has by then.
FollowRedirect(t) ==
    /\ pending[t] # None /\ pending[t].op = "redirect"
    /\ pending' = [pending EXCEPT ![t] =
          IF session = None THEN None ELSE [@ EXCEPT !.op = "list", !.user = session]]
    /\ UNCHANGED <<saved, now, session, view, everSaved>>

\* No answer, an error (also for a range beyond the rows), or a row that is
\* not a receipt: the page says that the list is unavailable.
ListFails(t) ==
    /\ pending[t] # None /\ pending[t].op = "list"
    /\ view' = [view EXCEPT ![t] = None]
    /\ pending' = [pending EXCEPT ![t] = None]
    /\ UNCHANGED <<saved, now, session, everSaved>>

-----------------------------------------------------------------------------
(* The server actions, with the session of the request.                    *)

ClickSave(t) ==
    /\ Idle(t) /\ view[t] # None /\ view[t].page = "receipt"
    /\ view[t].user # None /\ ~view[t].saved
    /\ pending' = [pending EXCEPT ![t] =
          [op |-> "save", user |-> session, id |-> view[t].id, done |-> FALSE]]
    /\ UNCHANGED <<saved, now, session, view, everSaved>>

ConfirmRemoval(t, i) ==
    /\ Idle(t) /\ view[t] # None /\ view[t].page = "dashboard"
    /\ i \in ToSet(view[t].items)
    /\ pending' = [pending EXCEPT ![t] =
          [op |-> "remove", user |-> session, id |-> i, done |-> FALSE]]
    /\ UNCHANGED <<saved, now, session, view, everSaved>>

\* The server actions take any id that is one, whichever page it comes from, if
\* from any: here the tab has no page that waits for the answer.
Submit(t, op, i) ==
    /\ Idle(t) /\ view[t] = None
    /\ pending' = [pending EXCEPT ![t] =
          [op |-> op, user |-> session, id |-> i, done |-> FALSE]]
    /\ UNCHANGED <<saved, now, session, view, everSaved>>

Asks(t, op) ==
    /\ pending[t] # None /\ pending[t].op = op
    /\ pending[t].user # None /\ ~pending[t].done

\* Mutant: saving again moves the receipt to the top.
MutUpsert(t) ==
    LET p == pending[t]
    IN /\ Asks(t, "save")
       /\ now' \in {now, now + 1} /\ now' <= MaxTime
       /\ saved' = [saved EXCEPT ![p.user][p.id] = now']
       /\ everSaved' = everSaved \cup {<<p.user, p.id>>}
       /\ pending' = [pending EXCEPT ![t].done = TRUE]
       /\ UNCHANGED <<session, view>>

\* The owner and the time are the database's; a row that is there stays.
Upsert(t) ==
    LET p == pending[t]
    IN /\ Asks(t, "save")
       /\ now' \in {now, now + 1} /\ now' <= MaxTime
       /\ saved' = [saved EXCEPT ![p.user][p.id] = IF @ = None THEN now' ELSE @]
       /\ everSaved' = everSaved \cup {<<p.user, p.id>>}
       /\ pending' = [pending EXCEPT ![t].done = TRUE]
       /\ UNCHANGED <<session, view>>

\* Mutant: no policy restricts the rows, and the query names only the id.
MutDelete(t) ==
    /\ Asks(t, "remove")
    /\ saved' = [u \in Users |-> [saved[u] EXCEPT ![pending[t].id] = None]]
    /\ pending' = [pending EXCEPT ![t].done = TRUE]
    /\ UNCHANGED <<now, session, view, everSaved>>

\* The query names only the id; the policy adds the owner.
Delete(t) ==
    /\ Asks(t, "remove")
    /\ saved' = [saved EXCEPT ![pending[t].user][pending[t].id] = None]
    /\ pending' = [pending EXCEPT ![t].done = TRUE]
    /\ UNCHANGED <<now, session, view, everSaved>>

\* Mutant: the error of the upsert is not looked at.
MutAnswerSave(t) ==
    /\ pending[t] # None /\ pending[t].op = "save" /\ pending[t].user # None
    /\ view[t] # None
    /\ view' = [view EXCEPT ![t].saved = TRUE, ![t].user = pending[t].user]
    /\ pending' = [pending EXCEPT ![t] = None]
    /\ UNCHANGED <<saved, now, session, everSaved>>

AnswerSave(t) ==
    /\ pending[t] # None /\ pending[t].op = "save" /\ pending[t].done
    /\ view[t] # None
    /\ view' = [view EXCEPT ![t].saved = TRUE, ![t].user = pending[t].user]
    /\ pending' = [pending EXCEPT ![t] = None]
    /\ UNCHANGED <<saved, now, session, everSaved>>

\* revalidatePath: the answer brings the list again, under the same address.
AnswerRemoval(t) ==
    /\ pending[t] # None /\ pending[t].op = "remove" /\ pending[t].done
    /\ view[t] # None
    /\ pending' = [pending EXCEPT ![t] =
          [op |-> "list", user |-> pending[t].user,
           filter |-> view[t].filter, page |-> view[t].number]]
    /\ UNCHANGED <<saved, now, session, view, everSaved>>

\* Not signed in any more, an error, or an answer that is lost or that no page
\* waits for, also after the table has changed.  The button is as it was, with
\* a message.
ActionFails(t) ==
    /\ pending[t] # None /\ pending[t].op \in {"save", "remove"}
    /\ pending' = [pending EXCEPT ![t] = None]
    /\ UNCHANGED <<saved, now, session, view, everSaved>>

Next ==
    \/ \E u \in Users : SignIn(u)
    \/ SignOut
    \/ \E t \in Tabs :
          \/ \E i \in Ids : OpenReceipt(t, i) \/ ShowResult(t, i) \/ ConfirmRemoval(t, i)
          \/ \E op \in {"save", "remove"}, i \in Ids : Submit(t, op, i)
          \/ \E filter \in Filters, page \in 1..MaxPage : OpenDashboard(t, filter, page)
          \/ List(t) \/ ListFails(t) \/ FollowRedirect(t)
          \/ ClickSave(t) \/ Upsert(t) \/ AnswerSave(t)
          \/ Delete(t) \/ AnswerRemoval(t)
          \/ ActionFails(t)

\* The browser and the database settle what the dashboard asks of them.
Spec ==
    /\ Init /\ [][Next]_vars
    /\ \A t \in Tabs : WF_vars(List(t) \/ ListFails(t)) /\ WF_vars(FollowRedirect(t))

-----------------------------------------------------------------------------
Times == 0..MaxTime

TypeOK ==
    /\ saved \in [Users -> [Ids -> Times \cup {None}]]
    /\ now \in Times
    /\ session \in Users \cup {None}
    /\ \A t \in Tabs : pending[t] # None =>
          \/ pending[t] \in [op: {"list", "redirect"}, user: Users,
                             filter: Filters, page: 1..MaxPage]
          \/ pending[t] \in [op: {"save", "remove"}, user: Users \cup {None},
                             id: Ids, done: BOOLEAN]
    /\ \A t \in Tabs : view[t] # None =>
          \/ view[t] \in [page: {"receipt"}, id: Ids, user: Users \cup {None},
                          saved: BOOLEAN]
          \/ /\ view[t].page = "dashboard" /\ view[t].user \in Users
             /\ view[t].filter \in Filters /\ view[t].number \in 1..MaxPage
    /\ everSaved \subseteq Users \X Ids

\* Whoever walks through the pages of an unchanged list meets the matching
\* references and nothing else, in the order of the list and hence each of them
\* once (user-receipts.ts 47-61), and every variable keeps its type.
PagesPartition ==
    /\ TypeOK
    /\ \A u \in Users, filter \in Filters :
          LET list == Listing(u, filter)
              Places == {p \in (1..totalPages(Len(list))) \X (1..Len(list)) :
                            p[2] <= Len(RangeOf(list, p[1]))}
              Row(p) == RangeOf(list, p[1])[p[2]]
          IN /\ {Row(p) : p \in Places} = Matching(u, filter)
             /\ \A p, q \in Places :
                   p[1] < q[1] \/ (p[1] = q[1] /\ p[2] < q[2])
                      => Before(u, Row(p), Row(q))

\* "Showing now first-last" of a dashboard says how many rows are there, and
\* its page exists, even if pages vanished while it was loading.
ShownPageFits ==
    \A t \in Tabs : view[t] # None /\ view[t].page = "dashboard" =>
        LET v == view[t]
            first == IF v.total = 0 THEN 0 ELSE (v.number - 1) * PageSize + 1
            last == IF v.number * PageSize < v.total THEN v.number * PageSize ELSE v.total
        IN /\ v.number <= totalPages(v.total)
           /\ Len(v.items) = IF v.total = 0 THEN 0 ELSE last - first + 1

\* A button says "Receipt saved" only when the table has held the reference
\* for the user the request was made by.
SavedClaimsHold ==
    \A t \in Tabs : view[t] # None /\ view[t].page = "receipt" =>
        (view[t].saved => <<view[t].user, view[t].id>> \in everSaved)

ChangedByOwner(u) ==
    \E t \in Tabs :
        pending[t] # None /\ pending[t].user = u /\ pending'[t] # pending[t]

\* A user's references change only by a request of that user, whoever else is
\* signed in in the same browser and whichever list the tab still shows.
OnlyOwnRows ==
    [][\A u \in Users : saved'[u] # saved[u] => ChangedByOwner(u)]_vars

RemovalAsked(u, i) ==
    \E t \in Tabs :
        /\ pending[t] # None /\ pending[t].op = "remove"
        /\ pending[t].user = u /\ pending[t].id = i

\* A reference stays, with its time and hence its place, until a removal of
\* just this reference that its owner asked for: not when another one is saved
\* or removed, when it is saved again, when its owner signs out, or when an
\* answer is lost (README.md 232: signing out does not delete references,
\* saving again does not create a duplicate; receipt-actions.ts 28-31, 61-64).
RowsStayUntilRemoved ==
    [][\A u \in Users, i \in Ids :
          saved[u][i] # None =>
             \/ saved'[u][i] = saved[u][i]
             \/ saved'[u][i] = None /\ RemovalAsked(u, i)]_vars

\* A dashboard is shown or said to be unavailable: the redirects to the last
\* page come to an end, also while rows are saved and removed elsewhere.
DashboardLoads ==
    \A t \in Tabs :
        (pending[t] # None /\ pending[t].op \in {"list", "redirect"}) ~> pending[t] = None
=============================================================================
