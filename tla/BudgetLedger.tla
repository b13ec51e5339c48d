------------------------------ MODULE BudgetLedger --------------------------------
(***************************************************************************)
(* The approval of budgets, borrowing between allocations and the costs    *)
(* drawn from them.  A cost transaction runs in one database transaction:  *)
(* SQLite lets nobody else write meanwhile.  PostgreSQL refuses its query, *)
(* which locks rows it joined from a nullable column, so that costs are    *)
(* booked on SQLite only.                                                  *)
(***************************************************************************)
EXTENDS BudgetTree

vars == budgetVars

OnSQLite == deployment.database = "SQLite"

-----------------------------------------------------------------------------
(* Submit, approve, reject *)

RowOf(table, id) ==
    CASE table = "source" -> source[id]
      [] table = "allocation" -> alloc[id]
      [] OTHER -> borrow[id]

\* BudgetBorrow.clean without the amount, and what the serializer repeats.
BorrowClean(row) ==
    /\ row.amount > 0 /\ alloc[row.from].status = "approved"
    /\ IF row.to = None THEN row.scope # "none" ELSE row.to # row.from /\ alloc[row.to].status = "approved"

\* borrow_available_amount without the borrow itself, for a lender as loaded.
Affordable(b, row, lender) ==
    LET mine == IF borrow[b].from = row.from /\ borrow[b].status \in Counted THEN borrow[b].amount ELSE 0
    IN row.amount <= lender.amount - Required(row.from) + mine

CleanOf(table, id, row) ==
    CASE table = "source" -> SourceClean(id, row)
      [] table = "allocation" -> AllocationClean(id, row, ModelRoots(row.source))
      [] OTHER -> BorrowClean(row)

ReviewKinds == [source |-> "review source", allocation |-> "review allocation", borrow |-> "review borrow"]

MutStatusBefore == [submitted |-> {"draft", "rejected"}, approved |-> {"submitted", "rejected"},
                    rejected |-> {"submitted"}, settled |-> {"approved"}]
StatusBefore == [submitted |-> {"draft", "rejected"}, approved |-> {"submitted"},
                 rejected |-> {"submitted"}, settled |-> {"approved"}]

\* submit_budget_object, approve_budget_object, reject_budget_object and the
\* settlement of a borrow: full_clean sees the row with its new status.
Review(w, table, id, status) ==
    LET row == [RowOf(table, id) EXCEPT !.status = status] IN
    /\ Serves(w, IF status = "settled" THEN "settle" ELSE ReviewKinds[table])
    /\ RowOf(table, id).status \in StatusBefore[status]
    /\ CleanOf(table, id, row)
    /\ Call(w, [Save(table, id, row) EXCEPT !.step = "status"])
    /\ UNCHANGED <<source, alloc, borrow>>

\* save(update_fields) fails on a row that is gone.
SaveStatus(w) ==
    LET call == budgetCall[w]
        Written(rows, table) == IF table = call.table /\ rows[call.id].status # "absent"
                                THEN [rows EXCEPT ![call.id].status = call.copy.status] ELSE rows
    IN
    /\ call.step = "status"
    /\ source' = Written(source, "source")
    /\ alloc' = Written(alloc, "allocation")
    /\ borrow' = Written(borrow, "borrow")
    /\ Finish(w)

-----------------------------------------------------------------------------
(* Borrowing *)

\* POST, or PATCH in any status: the amount counts if it is approved.
ReadBorrow(w, b, row) ==
    /\ Serves(w, IF borrow[b].status = "absent" THEN "create borrow" ELSE "patch borrow")
    /\ row.status = IF borrow[b].status = "absent" THEN "draft" ELSE borrow[b].status
    /\ BorrowClean(row)
    /\ row.status = "approved" => Affordable(b, row, alloc[row.from])
    /\ Call(w, Save("borrow", b, row))
    /\ UNCHANGED <<source, alloc, borrow>>

SaveBorrow(w) ==
    LET call == budgetCall[w]
        row == call.copy
        kept == row.from \in Allocated /\ (row.to # None => row.to \in Allocated)
    IN
    /\ call.step = "save" /\ call.table = "borrow"
    /\ borrow' = IF kept THEN [borrow EXCEPT ![call.id] = row] ELSE borrow
    /\ Finish(w)
    /\ UNCHANGED <<source, alloc>>

\* DELETE, in any status.
DeleteBorrow(w, b) ==
    /\ Serves(w, "delete borrow") /\ borrow[b].status # "absent"
    /\ borrow' = [borrow EXCEPT ![b] = NoBorrow]
    /\ UNCHANGED <<source, alloc, budgetCall>>

\* The borrow is loaded with its lender and destination, whose rows its clean looks
\* at.  What the lender gives is counted later: on PostgreSQL others may write
\* between that check and the update, on SQLite they may not.
ReadApproval(w, b) ==
    LET row == [borrow[b] EXCEPT !.status = "approved"] IN
    /\ Serves(w, "approve borrow") /\ borrow[b].status \in StatusBefore["approved"]
    /\ row.to = None => Room
    /\ BorrowClean(row) /\ (~OnSQLite => Affordable(b, row, alloc[row.from]))
    /\ Call(w, [Save("borrow", b, row) EXCEPT !.step = "approve", !.lender = alloc[row.from]])
    /\ UNCHANGED <<source, alloc, borrow>>

\* approve: the status, and _create_destination_allocation for a borrow without
\* destination, which is approved at once.  One failing undoes the other.
ApproveBorrow(w) ==
    LET call == budgetCall[w]
        row == call.copy
        b == call.id
        sink == [status |-> "approved", source |-> call.lender.source, parent |-> None,
                 scope |-> row.scope, amount |-> 0, sink |-> TRUE]
        new == NewAllocation
        refused == \/ borrow[b].status = "absent"
                   \/ OnSQLite /\ ~Affordable(b, row, call.lender)
                   \/ row.to = None /\ ~AllocationClean(new, sink, ModelRoots(sink.source))
    IN
    /\ call.step = "approve"
    /\ IF refused
       THEN UNCHANGED <<alloc, borrow>>
       ELSE IF row.to # None
       THEN borrow' = [borrow EXCEPT ![b].status = "approved"] /\ UNCHANGED alloc
       ELSE borrow' = [borrow EXCEPT ![b].status = "approved", ![b].to = new]
            /\ alloc' = [alloc EXCEPT ![new] = sink]
    /\ Finish(w)
    /\ UNCHANGED source

-----------------------------------------------------------------------------
(* Costs *)

MutRemaining(a) ==
    alloc[a].amount + BorrowedIn(a, {"approved"}) - Actual(a) - AmountOf(Children(a))

\* _allocation_remaining: settled borrows do not count here.
Remaining(a) ==
    alloc[a].amount + BorrowedIn(a, {"approved"}) - Actual(a)
    - AmountOf(Children(a)) - BorrowedOut(a, {"approved"})

\* The parent, its parent and so on: what no set closed upwards can do without.
Closed(S, a) == {alloc[p].parent : p \in S \cup {a}} \ {None} \subseteq S
Above(a) == {p \in Allocations : \A S \in SUBSET Allocations : Closed(S, a) => p \in S}

\* _allocation_tree_depth walks up, for ever in a circle.
Depth(a) == Cardinality(Above(a))
Endless(a) == \E p \in Above(a) : p \in Above(p)

Rank == [task |-> 1, wbs |-> 2, project |-> 3]

\* _eligible_budget_allocations: what is approved for the task, for its WBS
\* branch and for the project.
Eligible(task) ==
    {a \in Allocated : /\ alloc[a].status = "approved" /\ source[alloc[a].source].status = "approved"
                       /\ alloc[a].scope \in IF task THEN DOMAIN Rank ELSE {"project"}}

MutBefore(a, b) ==
    LET ra == Rank[alloc[a].scope] rb == Rank[alloc[b].scope] IN
    ra < rb \/ (ra = rb /\ (Depth(a) < Depth(b) \/ (Depth(a) = Depth(b) /\ a < b)))

\* The narrower scope first, in a scope the deeper allocation, then the older.
Before(a, b) ==
    LET ra == Rank[alloc[a].scope] rb == Rank[alloc[b].scope] IN
    ra < rb \/ (ra = rb /\ (Depth(a) > Depth(b) \/ (Depth(a) = Depth(b) /\ a < b)))

Positive(n) == IF n > 0 THEN n ELSE 0
Smaller(m, n) == IF m <= n THEN m ELSE n

\* What an allocation can give to a transaction, which gave back its own share first.
Free(own, a) == Positive(Remaining(a) + Share(own, a))

\* _allocate_budget_for_transaction: each allocation in turn gives what it has.
Earlier(task, a) == {b \in Eligible(task) : Before(b, a)}
Given(task, own, a) == SumFunctionOnSet([b \in Allocations |-> Free(own, b)], Earlier(task, a))
Draws(amount, task, own) ==
    [a \in Allocations |->
      IF a \in Eligible(task) THEN Smaller(Free(own, a), Positive(amount - Given(task, own, a))) ELSE 0]
Paid(draws) == SumFunctionOnSet(draws, Allocations)

\* The request is validated; the amount is quantity times rate, rounded to cents.
\* Bound: a cost that rounds to nothing is left out.
RequestSpending(w, t, amount, task) ==
    /\ Serves(w, IF spending[t].exists THEN "update spending" ELSE "create spending") /\ amount > 0
    /\ Call(w, [Save("spending", t, [NoSpending EXCEPT !.exists = TRUE, !.amount = amount, !.task = task])
                EXCEPT !.step = "draw"])
    /\ UNCHANGED spending

\* perform_create and perform_update: all of the amount, or nothing changes.  The
\* link to the first allocation adds nothing to its consumption.
Draw(w) ==
    LET call == budgetCall[w] row == call.copy IN
    /\ call.step = "draw" /\ \A a \in Eligible(row.task) : ~Endless(a)
    /\ \E draws \in {Draws(row.amount, row.task, spending[call.id])} :
         spending' = IF OnSQLite /\ Paid(draws) = row.amount
                     THEN [spending EXCEPT ![call.id] = [row EXCEPT !.draws = draws]] ELSE spending
    /\ Finish(w)

\* perform_destroy: the consumptions go with it.
DeleteSpending(w, t) ==
    /\ Serves(w, "delete spending") /\ spending[t].exists
    /\ spending' = [spending EXCEPT ![t] = NoSpending]
    /\ UNCHANGED budgetCall

-----------------------------------------------------------------------------
(* Threads *)

\* The rows of a table that exist and the next one, as far as the deployment goes.
Within(table, rows, existing) ==
    LET new == {r \in rows \ (existing \cup Taken(table)) : r <= deployment.rows}
    IN existing \cup (IF new = {} THEN {} ELSE {Min(new)})

BorrowStarts(w) ==
    \E b \in Within("borrow", Borrows, {c \in Borrows : borrow[c].status # "absent"}) :
        \/ DeleteBorrow(w, b) \/ ReadApproval(w, b)
        \/ \E from \in Allocated, to \in Allocated \cup {None},
              scope \in deployment.scopes \cup {"none"}, amount \in deployment.amounts :
             ReadBorrow(w, b, [status |-> IF borrow[b].status = "absent" THEN "draft" ELSE borrow[b].status,
                               from |-> from, to |-> to, scope |-> scope, amount |-> amount])

ReviewStarts(w) ==
    \/ \E status \in {"submitted", "approved", "rejected"} :
         \/ \E s \in Sources : Review(w, "source", s, status)
         \/ \E a \in Allocated : Review(w, "allocation", a, status)
    \/ \E status \in {"submitted", "rejected", "settled"}, b \in Borrows : Review(w, "borrow", b, status)

SpendingStarts(w) ==
    \E t \in Within("spending", Spendings, {u \in Spendings : spending[u].exists}) :
        \/ DeleteSpending(w, t)
        \/ \E amount \in deployment.amounts, task \in BOOLEAN : RequestSpending(w, t, amount, task)

Starts(w) ==
    \/ TreeStarts(w) /\ UNCHANGED <<deployment, borrow, spending>>
    \/ (BorrowStarts(w) \/ ReviewStarts(w)) /\ UNCHANGED <<deployment, spending, forecast>>
    \/ SpendingStarts(w) /\ UNCHANGED <<deployment, source, alloc, borrow, forecast>>

Continues(w) ==
    \/ TreeContinues(w) /\ UNCHANGED <<deployment, borrow, spending>>
    \/ (SaveStatus(w) \/ SaveBorrow(w) \/ ApproveBorrow(w)) /\ UNCHANGED <<deployment, spending, forecast>>
    \/ Draw(w) /\ UNCHANGED <<deployment, source, alloc, borrow, forecast>>

Next == \E w \in AnyWorker : Starts(w) \/ Continues(w)

-----------------------------------------------------------------------------
(* What the rows promise *)

\* Rows have their types and name rows that exist.
TypeOK ==
    /\ source \in [Sources -> SourceRows] /\ alloc \in [Allocations -> AllocationRows]
    /\ borrow \in [Borrows -> BorrowRows] /\ spending \in [Spendings -> SpendingRows]
    /\ forecast \in [Forecasts -> ForecastRows]
    /\ \A a \in Allocated : alloc[a].source # None /\ source[alloc[a].source].status # "absent"
    /\ \A a \in Allocations \ Allocated : alloc[a] = NoAllocation
    /\ \A b \in Borrows : borrow[b].status # "absent" =>
         borrow[b].from # None /\ (borrow[b].to = None => borrow[b].scope # "none")
    /\ {alloc[a].parent : a \in Allocations} \cup {forecast[f].linked : f \in Forecasts}
       \cup {borrow[b].from : b \in Borrows} \cup {borrow[b].to : b \in Borrows}
         \subseteq Allocated \cup {None}
    /\ \A t \in Spendings : \A a \in Allocations : Share(spending[t], a) > 0 => a \in Allocated

Covers(s) == SourceAllocated(s) <= source[s].total
Provides(a) == Required(a) <= alloc[a].amount

Paying(row) == Paid(row.draws) = IF row.direct = None THEN row.amount ELSE 0

ApprovedAbove(a) ==
    /\ source[alloc[a].source].status = "approved"
    /\ alloc[a].parent # None => alloc[alloc[a].parent].status = "approved"

\* The rows as earlier requests, answered one at a time, left them.
Consistent ==
    /\ TypeOK
    /\ \A s \in Sources : Covers(s)
    /\ \A a \in Allocated : Provides(a) /\ (alloc[a].status = "approved" => ApprovedAbove(a))
    /\ \A t \in Spendings : spending[t].exists => Paying(spending[t])

Init == \E d \in Deployments : BudgetInit(d) /\ Consistent

\* The server finishes the requests it started.
Spec == Init /\ [][Next]_vars /\ \A w \in AnyWorker : WF_vars(Continues(w))

-----------------------------------------------------------------------------
(* Properties *)

\* "Allocations cannot exceed funding source amount.": the allocations at the top
\* of a source share its money, as long as requests do not overlap.
SourceCovered == Serial => \A s \in Sources : Covers(s)

\* The requests that compare a parent with its children, and not with what it spent
\* or lent itself: a new child, a larger one, one moved below it.
Edits == {"create allocation", "patch allocation", "move allocation", "shift allocation", "rescope allocation"}
Edited == Edits \cap deployment.kinds # {}

\* The withdrawal of a borrow does not look at what the borrower did with it, and
\* after a settlement a cost transaction does not look at what was lent.
Withdrawn ==
    \/ Asked("delete borrow") \/ Asked("patch borrow")
    \/ \E b \in Borrows : borrow[b].status = "settled"

\* On SQLite costs and approvals of borrows may overlap: each is checked and
\* written at once.
CheckedAtOnce == OnSQLite /\ ~Edited /\ ~Asked("review borrow") /\ ~Asked("settle")

\* No allocation gives more than it has: its amount and what it borrowed cover its
\* costs, its children and what it lent, in whichever order they came.  An edit can
\* break this only where money was passed to a child and spent or lent as well; two
\* approvals of one borrow at once only for an allocation that they made.
WithinCapacity ==
    ~Withdrawn /\ (Serial \/ CheckedAtOnce) =>
        \A a \in Allocated :
            \/ Provides(a)
            \/ ~Serial /\ alloc[a].sink
            \/ Edited /\ Children(a) # {} /\ Actual(a) + BorrowedOut(a, Counted) > 0

\* Every transaction is paid in full by its consumptions, after each update and
\* each refusal, or it is older than these and names one allocation.
SpentInFull == \A t \in Spendings : spending[t].exists => Paying(spending[t])

\* Money is approved from the source down: no approved allocation rests on a
\* source or a parent that is not.
ApprovedFromAbove ==
    Serial => \A a \in Allocated : alloc[a].status = "approved" => ApprovedAbove(a)

\* The money is there: for the allocations of a source, for what an allocation
\* gives, for every cost, and approved before it is passed on.
BudgetSound == TypeOK /\ SourceCovered /\ WithinCapacity /\ SpentInFull /\ ApprovedFromAbove

\* A wider budget is drawn on only when every narrower one is used up.
Narrower(a, b) ==
    \/ Rank[alloc[a].scope] < Rank[alloc[b].scope]
    \/ alloc[a].scope = alloc[b].scope /\ b \in Above(a)
DrawsNarrowFirst ==
    \A t \in Spendings : spending'[t] # spending[t] /\ spending'[t].exists =>
        \A a, b \in Eligible(spending'[t].task) :
            Narrower(a, b) /\ spending'[t].draws[b] > 0 => Remaining(a)' <= 0
NarrowFirst == [][DrawsNarrowFirst]_spending

\* What was approved stays approved while it exists, what was settled settled: a
\* budget is decided once, unless requests overlap.
KeepsDecisions ==
    /\ \A s \in Sources : source[s].status = "approved" => source'[s].status \in {"approved", "absent"}
    /\ \A a \in Allocated : alloc[a].status = "approved" => alloc'[a].status \in {"approved", "absent"}
    /\ \A b \in Borrows :
         /\ borrow[b].status = "approved" => borrow'[b].status \in {"approved", "settled", "absent"}
         /\ borrow[b].status = "rejected" => borrow'[b].status \in {"rejected", "submitted", "absent"}
         /\ borrow[b].status = "settled" => borrow'[b].status \in {"settled", "absent"}
DecidedOnce == [][Serial => KeepsDecisions]_vars

\* Every request is answered, unless allocations were moved below each other: the
\* search for the depth of an allocation walks this circle for ever.
InCircle == \E a \in Allocated : a \in Above(a) /\ alloc[a].parent # a
RequestsEnd == \A w \in AnyWorker : budgetCall[w].step # "idle" ~> budgetCall[w].step = "idle" \/ InCircle

=============================================================================
