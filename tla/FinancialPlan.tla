------------------------------- MODULE FinancialPlan -------------------------------
(***************************************************************************)
(* The financial plans of one task: a contract split into milestones, the  *)
(* payments registered on them, and what unpaid milestones block.          *)
(*                                                                         *)
(* Activation and register_transaction lock rows until they commit; the    *)
(* generic updates of plans and milestones validate what they read and     *)
(* save whole rows later.  req[c] holds the row a thread is about to save, *)
(* or what it is about to post.  Amounts are cents.                        *)
(***************************************************************************)
EXTENDS Integers, FiniteSetsExt, Functions

CONSTANTS
    Clients,        \* threads that serve requests
    Kinds,          \* the requests they receive
    Statuses,       \* the statuses that requests name
    Contracts,      \* contract amounts
    Terms,          \* what a milestone may say
    Payments,       \* amounts of transactions
    MaxPlans,       \* bound: plans of the task at a time
    MaxMilestones,  \* bound: milestones at a time
    MaxRefund       \* bound: how far refunds may exceed payments

AllKinds == {"plan", "patch", "activate", "destroy", "milestone", "change", "remove", "pay"}
Thresholds == 0..100
PlanStatuses == {"absent", "draft", "active", "suspended", "completed", "cancelled"}

ASSUME KindsAssumption == Kinds \subseteq AllKinds
ASSUME StatusesAssumption == Statuses \subseteq PlanStatuses \ {"absent", "active"}
ASSUME MoneyAssumption == Contracts \subseteq Nat \ {0} /\ Payments \subseteq Nat \ {0}
ASSUME TermsAssumption ==
    Terms \subseteq [type: {"percentage", "fixed"}, value: Nat \ {0},
                     blocks: SUBSET {"start", "delivery", "progress"}, threshold: Thresholds]
ASSUME BoundsAssumption == MaxPlans \in Nat /\ MaxMilestones \in Nat /\ MaxRefund \in Nat

VARIABLES
    plan,       \* the TaskFinancialPlan rows
    milestone,  \* the PaymentMilestone rows
    paid,       \* sum of the transactions of each milestone
    used,       \* whether it has transactions at all
    req         \* what each thread is doing

vars == <<plan, milestone, paid, used, req>>

Plans == 1..MaxPlans
Milestones == 1..MaxMilestones
\* "open" stands for locked, eligible and overdue, which only differ in when
\* a payment is expected.
MilestoneStatuses == {"open", "partially_paid", "paid"}
PlanRows == [status: PlanStatuses, contract: Contracts \cup {0}]
NoPlan == [status |-> "absent", contract |-> 0]
NoTerms == [type |-> "fixed", value |-> 0, blocks |-> {}, threshold |-> 0]
MilestoneRows == [plan: 0..MaxPlans, terms: Terms \cup {NoTerms}, status: MilestoneStatuses]
NoMilestone == [plan |-> 0, terms |-> NoTerms, status |-> "open"]
Requests == [step: {"idle", "patch", "activate", "change", "pay"}, p: 0..MaxPlans,
             m: 0..MaxMilestones, a: Int, row: PlanRows, mrow: MilestoneRows]
Idle == [step |-> "idle", p |-> 0, m |-> 0, a |-> 0, row |-> NoPlan, mrow |-> NoMilestone]

Init ==
    /\ plan = [p \in Plans |-> NoPlan]
    /\ milestone = [m \in Milestones |-> NoMilestone]
    /\ paid = [m \in Milestones |-> 0]
    /\ used = [m \in Milestones |-> FALSE]
    /\ req = [c \in Clients |-> Idle]

IsAt(c, step) == req[c].step = step
Starts(c, kind) == kind \in Kinds /\ req[c] = Idle
Done(c) == req' = [req EXCEPT ![c] = Idle]

\* activate_plan holds the row lock of its plan until it commits, and
\* register_transaction (select_for_update with select_related) those of its
\* milestone, of the plan and of the task.
Unlocked(p) == \A c \in Clients : ~(req[c].step \in {"activate", "pay"} /\ req[c].p = p)
MutRowFree(m) == TRUE
RowFree(m) == \A c \in Clients : ~(IsAt(c, "pay") /\ req[c].m = m)
TaskFree == \A c \in Clients : ~IsAt(c, "pay")

Exists(p) == p # 0 /\ plan[p].status # "absent"
IsActive(p) == plan[p].status = "active"
MilestonesOf(p) == {m \in Milestones : milestone[m].plan = p}

-----------------------------------------------------------------------------
(* Money *)

\* money(): rounds half a cent up.
AmountOf(contract, terms) ==
    IF terms.type = "fixed" THEN terms.value ELSE (contract * terms.value + 50) \div 100
Amount(m) == AmountOf(plan[milestone[m].plan].contract, milestone[m].terms)
Outstanding(m) == Amount(m) - paid[m]
IsPaid(m) == Outstanding(m) <= 0

Evaluated(outstanding, sum) ==
    IF outstanding <= 0 THEN "paid" ELSE IF sum > 0 THEN "partially_paid" ELSE "open"

Total(p) == SumFunctionOnSet([m \in Milestones |-> Amount(m)], MilestonesOf(p))

Values == [m \in Milestones |-> milestone[m].terms.value]
Percentages(p) == {m \in MilestonesOf(p) : milestone[m].terms.type = "percentage"}
PercentTotal(p, except) == SumFunctionOnSet(Values, Percentages(p) \ except)

MutBalanced(p) == Total(p) <= plan[p].contract
Balanced(p) ==
    /\ MilestonesOf(p) # {}
    /\ PercentTotal(p, {}) <= 100
    /\ Total(p) = plan[p].contract

-----------------------------------------------------------------------------
(* Plans *)

PlanCreate(c, p, s, k) ==
    /\ Starts(c, "plan") /\ ~Exists(p)
    /\ plan' = [plan EXCEPT ![p] = [status |-> s, contract |-> k]]
    /\ UNCHANGED <<milestone, paid, used, req>>

\* An active plan can only be suspended, and no update activates one.
PatchRead(c, p, s, k) ==
    /\ Starts(c, "patch") /\ Exists(p)
    /\ IsActive(p) => s = "suspended"
    /\ req' = [req EXCEPT ![c] = [Idle EXCEPT !.step = "patch", !.p = p,
                                              !.row = [status |-> s, contract |-> k]]]
    /\ UNCHANGED <<plan, milestone, paid, used>>

PatchSave(c) ==
    /\ IsAt(c, "patch") /\ Unlocked(req[c].p)
    /\ plan' = [plan EXCEPT ![req[c].p] = req[c].row]
    /\ Done(c)
    /\ UNCHANGED <<milestone, paid, used>>

ActivateCheck(c, p) ==
    /\ Starts(c, "activate") /\ Exists(p) /\ Unlocked(p)
    /\ \A q \in Plans \ {p} : ~IsActive(q)
    /\ Balanced(p)
    /\ req' = [req EXCEPT ![c] = [Idle EXCEPT !.step = "activate", !.p = p]]
    /\ UNCHANGED <<plan, milestone, paid, used>>

\* The unique constraint one_active_financial_plan_per_task.
MutUniqueActive(p) == TRUE
UniqueActive(p) == \A q \in Plans \ {p} : ~IsActive(q)

MutRefreshed(p) == milestone
\* evaluate_financial_plan, before the transaction commits.
Refreshed(p) ==
    [m \in Milestones |->
        IF milestone[m].plan = p
        THEN [milestone[m] EXCEPT !.status = Evaluated(Outstanding(m), paid[m])]
        ELSE milestone[m]]

ActivateSave(c) ==
    /\ IsAt(c, "activate")
    /\ LET p == req[c].p IN
       IF UniqueActive(p)
       THEN /\ plan' = [plan EXCEPT ![p].status = "active"]
            /\ milestone' = Refreshed(p)
       ELSE UNCHANGED <<plan, milestone>>
    /\ Done(c)
    /\ UNCHANGED <<paid, used>>

\* Milestones protect their plan (on_delete=PROTECT).
PlanDestroy(c, p) ==
    /\ Starts(c, "destroy") /\ Exists(p) /\ Unlocked(p)
    /\ ~IsActive(p) /\ MilestonesOf(p) = {}
    /\ plan' = [plan EXCEPT ![p] = NoPlan]
    /\ UNCHANGED <<milestone, paid, used, req>>

-----------------------------------------------------------------------------
(* Milestones *)

\* PaymentMilestoneSerializer.validate, for milestone m or a new one.
FitsPercent(p, terms, except) ==
    terms.type = "percentage" =>
        terms.value <= 100 /\ PercentTotal(p, except) + terms.value <= 100

MilestoneCreate(c, p, t) ==
    /\ Starts(c, "milestone") /\ Exists(p)
    /\ FitsPercent(p, t, {})
    /\ req' = [req EXCEPT ![c] = [Idle EXCEPT !.step = "change",
                                  !.mrow = [plan |-> p, terms |-> t, status |-> "open"]]]
    /\ UNCHANGED <<plan, milestone, paid, used>>

\* With transactions neither the plan nor the amount may be named.
Settled(m, p, t) ==
    /\ p = milestone[m].plan
    /\ t.type = milestone[m].terms.type /\ t.value = milestone[m].terms.value

MilestoneChange(c, m, p, t) ==
    /\ Starts(c, "change") /\ milestone[m].plan # 0 /\ Exists(p)
    /\ used[m] => Settled(m, p, t)
    /\ FitsPercent(p, t, {m})
    /\ req' = [req EXCEPT ![c] = [Idle EXCEPT !.step = "change", !.m = m,
                                  !.mrow = [milestone[m] EXCEPT !.plan = p, !.terms = t]]]
    /\ UNCHANGED <<plan, milestone, paid, used>>

\* The row goes to milestone m, a new one (or one deleted since) to a free
\* place.  Naming another plan waits for its lock, and fails if it is gone.
MilestoneSave(c, m) ==
    /\ IsAt(c, "change")
    /\ LET row == req[c].mrow
           inserts == req[c].m = 0 \/ milestone[req[c].m].plan = 0 IN
       /\ IF inserts THEN milestone[m].plan = 0 ELSE m = req[c].m
       /\ row.plan # milestone[m].plan => Unlocked(row.plan)
       /\ RowFree(m)
       /\ milestone' = IF Exists(row.plan) THEN [milestone EXCEPT ![m] = row] ELSE milestone
    /\ Done(c)
    /\ UNCHANGED <<plan, paid, used>>

\* Transactions protect their milestone (on_delete=PROTECT).
Removable(m) == milestone[m].plan # 0 /\ ~used[m]
MilestoneRemove(c, m) ==
    /\ Starts(c, "remove") /\ Removable(m) /\ RowFree(m)
    /\ milestone' = [milestone EXCEPT ![m] = NoMilestone]
    /\ UNCHANGED <<plan, paid, used, req>>

-----------------------------------------------------------------------------
(* register_transaction: one transaction that locks milestone, plan and task,
   checks the amount, and posts it *)

Register(c, m, a) ==
    /\ Starts(c, "pay") /\ milestone[m].plan # 0
    /\ TaskFree /\ Unlocked(milestone[m].plan)
    /\ req' = [req EXCEPT ![c] = [Idle EXCEPT !.step = "pay", !.p = milestone[m].plan,
                                              !.m = m, !.a = a]]
    /\ UNCHANGED <<plan, milestone, paid, used>>

\* A payment, or an adjustment upwards.
WithinOutstanding(m, a) == a <= Outstanding(m)
Pay(c, m, a) == WithinOutstanding(m, a) /\ Register(c, m, a)

\* A refund, or an adjustment downwards: not checked.
Refund(c, m, a) == paid[m] - a >= -MaxRefund /\ Register(c, m, -a)

Post(c) ==
    /\ IsAt(c, "pay")
    /\ LET m == req[c].m IN
       /\ paid' = [paid EXCEPT ![m] = @ + req[c].a]
       /\ used' = [used EXCEPT ![m] = TRUE]
       /\ milestone' = [milestone EXCEPT ![m].status = Evaluated(Amount(m) - paid'[m], paid'[m])]
    /\ Done(c)
    /\ UNCHANGED plan

PlanSteps(c) ==
    \/ \E p \in Plans, s \in Statuses, k \in Contracts :
          PlanCreate(c, p, s, k) \/ PatchRead(c, p, s, k)
    \/ \E p \in Plans : ActivateCheck(c, p) \/ PlanDestroy(c, p)
    \/ PatchSave(c) \/ ActivateSave(c)

MilestoneSteps(c) ==
    \/ \E p \in Plans, t \in Terms :
          \/ MilestoneCreate(c, p, t)
          \/ \E m \in Milestones : MilestoneChange(c, m, p, t)
    \/ \E m \in Milestones : MilestoneSave(c, m) \/ MilestoneRemove(c, m)

Ledger(c) ==
    \/ \E m \in Milestones, a \in Payments : Pay(c, m, a) \/ Refund(c, m, a)
    \/ Post(c)

Step(c) == PlanSteps(c) \/ MilestoneSteps(c) \/ Ledger(c)
Next == \E c \in Clients : Step(c)
Spec == Init /\ [][Next]_vars

-----------------------------------------------------------------------------
(* What unpaid milestones of the active plan block *)

Unpaid(what) ==
    {m \in Milestones : /\ milestone[m].plan # 0 /\ IsActive(milestone[m].plan)
                        /\ what \in milestone[m].terms.blocks /\ ~IsPaid(m)}
CanStart == Unpaid("start") = {}
CanDeliver == Unpaid("delivery") = {}
MaxAllowed == Min({100} \cup {milestone[m].terms.threshold : m \in Unpaid("progress")})

-----------------------------------------------------------------------------
(* Properties *)

TypeOK ==
    /\ plan \in [Plans -> PlanRows]
    /\ milestone \in [Milestones -> MilestoneRows]
    /\ paid \in [Milestones -> Int]
    /\ used \in [Milestones -> BOOLEAN]
    /\ req \in [Clients -> Requests]

\* However activations and stale updates overlap, one plan of the task is
\* active at most (activate_plan and its unique constraint).
OneActivePlan == \A p, q \in Plans : IsActive(p) /\ IsActive(q) => p = q

\* No payment takes a milestone beyond its amount: neither the terms, the contract
\* nor the other payments move between its check and its commit, though stale
\* updates that were read before may be waiting (register_transaction's locks).
NoOverpayment == [][\A m \in Milestones : paid'[m] > paid[m] => paid'[m] <= Amount(m)]_vars

\* What was paid is never lost: a milestone with transactions stays, and so
\* does its plan (perform_destroy of both).
LedgerKept == \A m \in Milestones : used[m] => Exists(milestone[m].plan)

\* Plans and the payments made for them belong together: rows are well formed, one
\* plan is active at most and none that was paid for is gone.
LedgerSound == TypeOK /\ OneActivePlan /\ LedgerKept

\* A plan becomes active only with milestones that add up to its contract
\* (validate_plan_milestones).
ActivationBalanced ==
    [][\A p \in Plans : ~IsActive(p) /\ plan'[p].status = "active" =>
          MilestonesOf(p) # {} /\ Total(p) = plan[p].contract]_vars

\* The terms of payment of a milestone with transactions no longer change
\* (PaymentMilestoneSerializer.validate).
TermsFixedOncePaid ==
    [][\A m \in Milestones : used[m] =>
          /\ milestone'[m].plan = milestone[m].plan
          /\ milestone'[m].terms.type = milestone[m].terms.type
          /\ milestone'[m].terms.value = milestone[m].terms.value]_vars

\* The percentages of a plan never add up to more than 100, active or not.
PercentWithin100 == \A p \in Plans : PercentTotal(p, {}) <= 100

\* The stored status of a milestone of the active plan is the one its payments
\* give (refresh_milestone_status), as long as no amount rounds to nothing: an
\* update keeps the status, and one of no amount counts as paid.
NoneRoundsAway == \A k \in Contracts, t \in Terms : AmountOf(k, t) > 0
StatusCurrent ==
    NoneRoundsAway =>
        \A m \in Milestones : milestone[m].plan # 0 /\ IsActive(milestone[m].plan) =>
            milestone[m].status = Evaluated(Outstanding(m), paid[m])

=============================================================================
