------------------------------- MODULE BudgetTree ---------------------------------
(***************************************************************************)
(* Funding sources and the tree of allocations of their money, for one     *)
(* project, one task in one WBS node and one cost type.  A PATCH is      *)
(* validated and then writes the row as it was loaded, its status          *)
(* included; submit, approve and reject write the status alone.            *)
(***************************************************************************)
EXTENDS Integers, FiniteSets, FiniteSetsExt, Functions

CONSTANTS
    Sources,            \* FundingSource rows, existing or not
    Allocations,        \* BudgetAllocation rows, numbered in order of creation
    Borrows,            \* BudgetBorrow rows, existing or not
    Spendings,          \* CostTransaction rows, existing or not
    Forecasts,          \* UnfundedForecastCost rows, existing or not
    MaxAmount,          \* bound: the largest amount of a request
    Deployments         \* what exists and what is asked for, see the MC module

ASSUME BudgetBoundsAssumption ==
    /\ MaxAmount \in Nat
    /\ \A table \in {Sources, Allocations, Borrows, Spendings, Forecasts} :
         IsFiniteSet(table) /\ table = 1..Cardinality(table)

ASSUME DeploymentsAssumption ==
    /\ IsFiniteSet(UNION {d.workers : d \in Deployments})
    /\ \A d \in Deployments : d.amounts \subseteq 0..MaxAmount /\ d.scopes \subseteq {"task", "wbs", "project", "reserve", "org"}

VARIABLES
    deployment,         \* which deployment this is
    source, alloc,      \* the rows of the other tables
    borrow, spending,
    forecast,           \* UnfundedForecastCost rows: the allocation they are linked with
    budgetCall          \* what each thread is doing

budgetVars == <<deployment, source, alloc, borrow, spending, forecast, budgetCall>>

None == 0
AnyWorker == UNION {d.workers : d \in Deployments}
Serial == \E w \in AnyWorker : deployment.workers = {w}
Asked(kind) == kind \in deployment.kinds

Statuses == {"absent", "draft", "submitted", "approved", "rejected", "settled"}
Scopes == {"task", "wbs", "project", "reserve", "org"}

SourceRows == [status: Statuses \ {"settled"}, total: 0..MaxAmount]
NoSource == [status |-> "absent", total |-> 0]
AllocationRows == [status: Statuses \ {"settled"}, source: Sources \cup {None}, parent: Allocations \cup {None},
                   scope: Scopes, amount: 0..MaxAmount, sink: BOOLEAN]
NoAllocation == [status |-> "absent", source |-> None, parent |-> None,
                 scope |-> "project", amount |-> 0, sink |-> FALSE]

\* "scope" is where the money goes when "to" is to be made.
BorrowRows == [status: Statuses, from: Allocations \cup {None}, to: Allocations \cup {None},
               scope: Scopes \cup {"none"}, amount: 0..MaxAmount]
NoBorrow == [status |-> "absent", from |-> None, to |-> None, scope |-> "none", amount |-> 0]

\* "draws" are the BudgetConsumption rows, "direct" the allocation of a
\* transaction that is older than these.
SpendingRows == [exists: BOOLEAN, amount: 0..MaxAmount, task: BOOLEAN,
                 direct: Allocations \cup {None}, draws: [Allocations -> 0..MaxAmount]]
NoSpending == [exists |-> FALSE, amount |-> 0, task |-> FALSE,
               direct |-> None, draws |-> [a \in Allocations |-> 0]]

ForecastRows == [exists: BOOLEAN, linked: Allocations \cup {None}]
NoForecast == [exists |-> FALSE, linked |-> None]

\* "save" holds a row that was validated, "status" one whose status is written,
\* "approve" a borrow to be approved with its lender, "draw" a cost transaction.
IdleCall == [step |-> "idle", table |-> "none", id |-> 0, copy |-> NoSource, lender |-> NoAllocation]

BudgetInit(d) ==
    /\ deployment = d
    /\ source = [s \in Sources |-> IF s \in DOMAIN d.sources THEN d.sources[s] ELSE NoSource]
    /\ alloc = [a \in Allocations |-> IF a \in DOMAIN d.allocations THEN d.allocations[a] ELSE NoAllocation]
    /\ borrow = [b \in Borrows |-> IF b \in DOMAIN d.borrows THEN d.borrows[b] ELSE NoBorrow]
    /\ spending = [t \in Spendings |-> IF t \in DOMAIN d.spendings THEN d.spendings[t] ELSE NoSpending]
    /\ forecast = [f \in Forecasts |-> NoForecast]
    /\ budgetCall = [w \in AnyWorker |-> IdleCall]

Allocated == {a \in Allocations : alloc[a].status # "absent"}
Children(a) == {c \in Allocated : alloc[c].parent = a}
Roots(s) == {a \in Allocated : alloc[a].source = s /\ alloc[a].parent = None}
AmountOf(as) == SumFunctionOnSet([a \in Allocations |-> alloc[a].amount], as)

\* FundingSource.allocated_amount leaves out the allocations made by a borrow.
SourceAllocated(s) == AmountOf({a \in Roots(s) : ~alloc[a].sink})

\* What a transaction takes from an allocation: a consumption, or all of a
\* transaction that has none.
Share(row, a) == row.draws[a] + (IF row.direct = a THEN row.amount ELSE 0)

\* actual_amount.
Actual(a) == SumFunctionOnSet([t \in Spendings |-> Share(spending[t], a)], Spendings)

Lent(bs) == SumFunctionOnSet([b \in Borrows |-> borrow[b].amount], bs)
BorrowedIn(a, statuses) == Lent({b \in Borrows : borrow[b].to = a /\ borrow[b].status \in statuses})
BorrowedOut(a, statuses) == Lent({b \in Borrows : borrow[b].from = a /\ borrow[b].status \in statuses})
Counted == {"approved", "settled"}

\* What an allocation has to hold, less what it borrowed.
Required(a) == Actual(a) + AmountOf(Children(a)) + BorrowedOut(a, Counted) - BorrowedIn(a, Counted)

Serves(w, kind) == w \in deployment.workers /\ Asked(kind) /\ budgetCall[w].step = "idle"
Call(w, call) == budgetCall' = [budgetCall EXCEPT ![w] = call]
Finish(w) == Call(w, IdleCall)
Save(table, id, copy) == [IdleCall EXCEPT !.step = "save", !.table = table, !.id = id, !.copy = copy]

\* The number of a row that a pending call holds is not given to another.
Taken(table) == {budgetCall[w].id : w \in {v \in AnyWorker : budgetCall[v].table = table}}

-----------------------------------------------------------------------------
(* What is validated *)

\* FundingSource.clean and validate_total_amount.
SourceClean(s, row) == row.total > 0 /\ row.total >= SourceAllocated(s)

\* _validate_parent_scope, within one project, task and WBS branch.
ScopeWithin(scope, parent) ==
    CASE parent = "project" -> scope # "org"
      [] parent = "wbs" -> scope \in {"wbs", "task"}
      [] parent \in {"task", "org"} -> scope = parent
      [] OTHER -> TRUE

MutParentClean(a, row) ==
    LET parent == alloc[row.parent] IN
    /\ parent.status # "absent" /\ parent.source = row.source
    /\ row.status = "approved" => parent.status = "approved"
    /\ ScopeWithin(row.scope, parent.scope)
    /\ AmountOf(Children(row.parent) \ {a}) + row.amount <= parent.amount

\* The parent has room for its children, whatever it spent or lent itself.
ParentClean(a, row) ==
    LET parent == alloc[row.parent] IN
    /\ row.parent # a
    /\ parent.status # "absent" /\ parent.source = row.source
    /\ row.status = "approved" => parent.status = "approved"
    /\ ScopeWithin(row.scope, parent.scope)
    /\ AmountOf(Children(row.parent) \ {a}) + row.amount <= parent.amount

\* BudgetAllocation.clean and BudgetAllocationSerializer.validate: the model
\* counts no sinks among the roots, the serializer does.
AllocationClean(a, row, roots) ==
    /\ row.amount > 0 \/ row.sink
    /\ source[row.source].status # "absent"
    /\ row.status = "approved" => source[row.source].status = "approved"
    /\ IF row.parent = None
       THEN AmountOf(roots \ {a}) + row.amount <= source[row.source].total
       ELSE ParentClean(a, row)
    /\ alloc[a].status # "absent" => row.amount >= Required(a)

ModelRoots(s) == {a \in Roots(s) : ~alloc[a].sink}

-----------------------------------------------------------------------------
(* Funding sources *)

CreateSource(w, s, total) ==
    /\ Serves(w, "create source") /\ source[s] = NoSource /\ s \notin Taken("source")
    /\ total > 0
    /\ Call(w, Save("source", s, [status |-> "draft", total |-> total]))
    /\ UNCHANGED <<source, alloc, forecast>>

PatchSource(w, s, total) ==
    /\ Serves(w, "patch source") /\ source[s].status # "absent"
    /\ SourceClean(s, [source[s] EXCEPT !.total = total])
    /\ Call(w, Save("source", s, [source[s] EXCEPT !.total = total]))
    /\ UNCHANGED <<source, alloc, forecast>>

SaveSource(w) ==
    LET call == budgetCall[w] IN
    /\ call.step = "save" /\ call.table = "source"
    /\ source' = [source EXCEPT ![call.id] = call.copy]
    /\ Finish(w)
    /\ UNCHANGED <<alloc, forecast>>

\* Allocations protect their source.
DeleteSource(w, s) ==
    /\ Serves(w, "delete source") /\ \A a \in Allocated : alloc[a].source # s
    /\ source' = [source EXCEPT ![s] = NoSource]
    /\ UNCHANGED <<alloc, forecast, budgetCall>>

-----------------------------------------------------------------------------
(* Allocations *)

\* The allocations that pending calls name.
NamedBy(call) ==
    CASE call.table = "allocation" -> {call.id, call.copy.parent}
      [] call.table = "borrow" -> {call.copy.from, call.copy.to}
      [] call.table = "forecast" -> {call.copy.linked}
      [] OTHER -> {}
Held == (UNION {NamedBy(budgetCall[w]) : w \in AnyWorker}) \ {None}
Known == Allocated \cup Held

\* The pending calls that make an allocation.
Creates(call) ==
    \/ call.step = "save" /\ call.table = "allocation" /\ call.id = None
    \/ call.step = "approve" /\ call.copy.to = None
Creators == {w \in AnyWorker : Creates(budgetCall[w])}

\* Bound: an allocation is only made where a row is left for it.
Room == Cardinality(Known) + Cardinality(Creators) < Cardinality(Allocations)
NewAllocation == Min(Allocations \ Known)

\* POST or PATCH, of the scope too; status and is_borrow_sink are read-only.
ReadAllocation(w, a, row) ==
    /\ Serves(w, IF alloc[a].status = "absent" THEN "create allocation"
                 ELSE IF row.parent # alloc[a].parent THEN "move allocation"
                 ELSE IF row.source # alloc[a].source THEN "shift allocation" ELSE "patch allocation")
    /\ alloc[a].status = "absent" => Room /\ row.status = "draft" /\ ~row.sink
    /\ alloc[a].status # "absent" =>
         /\ row.status = alloc[a].status /\ row.sink = alloc[a].sink
         /\ row.scope # alloc[a].scope => Asked("rescope allocation")
    /\ AllocationClean(a, row, Roots(row.source))
    /\ Call(w, Save("allocation", IF alloc[a].status = "absent" THEN None ELSE a, row))
    /\ UNCHANGED <<source, alloc, forecast>>

\* Foreign keys refuse a source or a parent deleted meanwhile.
SaveAllocation(w) ==
    LET call == budgetCall[w]
        row == call.copy
        a == IF call.id = None THEN NewAllocation ELSE call.id
        kept == source[row.source].status # "absent" /\ (row.parent # None => row.parent \in Allocated)
    IN
    /\ call.step = "save" /\ call.table = "allocation"
    /\ alloc' = IF kept THEN [alloc EXCEPT ![a] = row] ELSE alloc
    /\ Finish(w)
    /\ UNCHANGED <<source, forecast>>

\* on_delete=SET_NULL of a forecast's link.
Unlinked(a) == [f \in Forecasts |-> IF forecast[f].linked = a THEN [forecast[f] EXCEPT !.linked = None] ELSE forecast[f]]

\* Children, consumptions, transactions and borrows protect an allocation.
DeleteAllocation(w, a) ==
    /\ Serves(w, "delete allocation") /\ a \in Allocated
    /\ Children(a) = {} /\ Actual(a) = 0
    /\ \A b \in Borrows : a \notin {borrow[b].from, borrow[b].to}
    /\ alloc' = [alloc EXCEPT ![a] = NoAllocation]
    /\ forecast' = Unlinked(a)
    /\ UNCHANGED <<source, budgetCall>>

-----------------------------------------------------------------------------
(* Forecasts of costs without funding, which reserve nothing *)

ReadForecast(w, f, a) ==
    /\ Serves(w, "forecast") /\ (forecast[f].exists \/ f \notin Taken("forecast"))
    /\ Call(w, Save("forecast", f, [exists |-> TRUE, linked |-> a]))
    /\ UNCHANGED <<source, alloc, forecast>>

\* A link with an allocation deleted meanwhile is refused.
SaveForecast(w) ==
    LET call == budgetCall[w] IN
    /\ call.step = "save" /\ call.table = "forecast"
    /\ forecast' = IF call.copy.linked \in Allocated \cup {None}
                   THEN [forecast EXCEPT ![call.id] = call.copy] ELSE forecast
    /\ Finish(w)
    /\ UNCHANGED <<source, alloc>>

DeleteForecast(w, f) ==
    /\ Serves(w, "forecast") /\ forecast[f].exists
    /\ forecast' = [forecast EXCEPT ![f] = NoForecast]
    /\ UNCHANGED <<source, alloc, budgetCall>>

-----------------------------------------------------------------------------
(* Threads *)

TreeStarts(w) ==
    \/ \E f \in Forecasts : DeleteForecast(w, f) \/ \E a \in Allocated \cup {None} : ReadForecast(w, f, a)
    \/ \E s \in Sources :
         DeleteSource(w, s) \/ \E total \in deployment.amounts : CreateSource(w, s, total) \/ PatchSource(w, s, total)
    \/ \E a \in Allocated \cup (IF Room THEN {NewAllocation} ELSE {}) :
         \/ DeleteAllocation(w, a)
         \/ \E s \in Sources, p \in Allocated \cup {None}, amount \in deployment.amounts,
              scope \in deployment.scopes \cup (IF a \in Allocated THEN {alloc[a].scope} ELSE {}) :
              ReadAllocation(w, a, [status |-> IF a \in Allocated THEN alloc[a].status ELSE "draft", source |-> s,
                                    parent |-> p, scope |-> scope, amount |-> amount, sink |-> alloc[a].sink])

TreeContinues(w) == SaveSource(w) \/ SaveAllocation(w) \/ SaveForecast(w)

=============================================================================
