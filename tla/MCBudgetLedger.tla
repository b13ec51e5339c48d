------------------------------ MODULE MCBudgetLedger ------------------------------
(* Model-checking instances of BudgetLedger. *)
EXTENDS BudgetLedger, TLC
CONSTANTS w1, w2

\* One thread; one approved source of 3, all of it for the project.
Base == [workers |-> {w1}, kinds |-> {}, database |-> "SQLite", scopes |-> {"project"}, amounts |-> {1, 2}, rows |-> 1,
         sources |-> <<[status |-> "approved", total |-> 3]>>,
         allocations |-> <<>>, borrows |-> <<>>, spendings |-> <<>>]
TwoThreads == [Base EXCEPT !.workers = {w1, w2}]
For(scope, parent, amount) ==
    [status |-> "approved", source |-> 1, parent |-> parent, scope |-> scope, amount |-> amount, sink |-> FALSE]
Draft(row) == [row EXCEPT !.status = "draft"]
Lend(from, to, amount) ==
    [status |-> "draft", from |-> from, to |-> to, scope |-> IF to = None THEN "project" ELSE "none", amount |-> amount]
Submitted(row) == [row EXCEPT !.status = "submitted"]
Cost(amount, direct) == [NoSpending EXCEPT !.exists = TRUE, !.amount = amount, !.direct = direct]

\* Budgets are set up.
SourcesEdited == [Base EXCEPT
    !.kinds = {"create source", "patch source", "delete source", "review source"},
    !.allocations = <<For("project", None, 1)>>]
TreeReviewed == [Base EXCEPT
    !.kinds = {"create allocation", "patch allocation", "patch source", "review source", "review allocation"},
    !.sources = <<[status |-> "submitted", total |-> 2]>>, !.allocations = <<Draft(For("project", None, 1))>>]
TreeMoved == [Base EXCEPT
    !.kinds = {"move allocation", "shift allocation", "delete allocation", "review allocation", "create spending"},
    !.scopes = {"project", "wbs"}, !.amounts = {2},
    !.sources = <<[status |-> "approved", total |-> 2], [status |-> "approved", total |-> 2]>>,
    !.allocations = <<For("project", None, 2), Draft(For("project", 1, 2))>>]
ScopesNested == [Base EXCEPT
    !.kinds = {"create allocation", "move allocation"}, !.scopes = Scopes,
    !.allocations = <<Draft(For("wbs", None, 2))>>]

\* Borrowing.
BorrowsEdited == [Base EXCEPT
    !.kinds = {"create borrow", "patch borrow", "delete borrow", "review borrow", "approve borrow"},
    !.allocations = <<For("project", None, 2), For("project", None, 1)>>]
BorrowsSettled == [Base EXCEPT
    !.kinds = {"create borrow", "review borrow", "approve borrow", "settle", "create spending"},
    !.allocations = <<For("project", None, 1)>>]
LentAndCut == [Base EXCEPT
    !.kinds = {"review borrow", "approve borrow", "patch allocation", "create spending"}, !.rows = 2, !.amounts = {1},
    !.allocations = <<For("project", None, 2), For("project", None, 1)>>,
    !.borrows = <<Lend(1, 2, 1), Submitted(Lend(2, 1, 2))>>]
BorrowsAtOnce == [TwoThreads EXCEPT
    !.kinds = {"approve borrow", "create spending", "update spending", "delete spending"}, !.rows = 2,
    !.allocations = <<For("project", None, 2), For("task", None, 1)>>,
    !.borrows = <<Submitted(Lend(1, 2, 1)), Submitted(Lend(1, None, 1))>>]
BorrowsOnServer == [TwoThreads EXCEPT
    !.database = "PostgreSQL",
    !.kinds = {"approve borrow", "review borrow", "delete borrow", "create spending"},
    !.allocations = <<For("project", None, 2), For("task", None, 1)>>,
    !.borrows = <<Submitted(Lend(1, 2, 2)), Submitted(Lend(1, None, 1))>>]

\* Costs.
CostsByScope == [Base EXCEPT
    !.kinds = {"create spending", "update spending", "delete spending"}, !.rows = 2,
    !.allocations = <<For("project", None, 3), For("wbs", 1, 2), For("task", 2, 1)>>,
    !.spendings = <<Cost(1, 1)>>]
CostsByDepth == [Base EXCEPT
    !.kinds = {"create spending", "update spending"}, !.rows = 2,
    !.allocations = <<For("project", None, 3), For("project", 1, 2), For("project", 2, 1)>>]
CostsCut == [Base EXCEPT
    !.kinds = {"create spending", "update spending", "patch allocation", "delete allocation"}, !.rows = 2,
    !.allocations = <<For("project", None, 2), For("task", None, 1)>>]
CostsRescoped == [Base EXCEPT
    !.kinds = {"create spending", "update spending", "patch allocation", "rescope allocation"},
    !.scopes = {"project", "task"},
    !.allocations = <<For("project", None, 2), For("task", 1, 1)>>]
CostsAtOnce == [TwoThreads EXCEPT
    !.kinds = {"create spending", "update spending", "delete spending"}, !.rows = 2,
    !.allocations = <<For("project", None, 2), For("task", None, 1)>>]

\* Budgets are set up by two threads.
TreeAtOnce == [TwoThreads EXCEPT
    !.kinds = {"create allocation", "delete allocation"}, !.amounts = {1},
    !.sources = <<[status |-> "approved", total |-> 2]>>, !.allocations = <<Draft(For("project", None, 1))>>]
ReviewsAtOnce == [TwoThreads EXCEPT
    !.kinds = {"review source", "review allocation", "patch allocation"}, !.amounts = {1},
    !.sources = <<[status |-> "submitted", total |-> 2]>>,
    !.allocations = <<Draft(For("project", None, 1)), Draft(For("project", None, 1))>>]

ForecastsLinked == [TwoThreads EXCEPT
    !.kinds = {"forecast", "delete allocation"}, !.allocations = <<For("project", None, 1), For("project", None, 1)>>]

MCDeployments ==
    {ForecastsLinked, SourcesEdited, TreeReviewed, TreeMoved, ScopesNested, BorrowsEdited, BorrowsSettled, LentAndCut,
     BorrowsAtOnce, BorrowsOnServer, CostsByScope, CostsByDepth, CostsCut, CostsRescoped, CostsAtOnce, TreeAtOnce,
     ReviewsAtOnce}
=============================================================================
