---------------------------- MODULE TaskDeliveryProofs ----------------------------
(***************************************************************************)
(* Proofs about FinancialPlan for every set of threads, every amount and   *)
(* every bound; then about its composition with ReportApproval.            *)
(***************************************************************************)
EXTENDS TaskDelivery, RowSumsProofs

-----------------------------------------------------------------------------
(* The invariant: types, one active plan, and no transaction without a plan *)

\* An update never carries the status "active"; only activate_plan gives it.
PatchInv ==
    \A c \in Clients : IsAt(c, "patch") => req[c].p \in Plans /\ req[c].row.status \in Statuses

\* An activation holds a plan that exists.
ActivateInv ==
    \A c \in Clients : IsAt(c, "activate") => req[c].p \in Plans /\ Exists(req[c].p)

UsedInv == \A m \in Milestones : used[m] => milestone[m].plan # 0

\* A milestone belongs to a plan that exists.
BelongsInv == \A m \in Milestones : milestone[m].plan # 0 => Exists(milestone[m].plan)

\* A registration holds a milestone and the plan it belongs to; the lock of the task
\* keeps others out.
Paying(c) ==
    /\ req[c].m \in Milestones /\ req[c].p \in Plans
    /\ milestone[req[c].m].plan = req[c].p
PayInv ==
    /\ \A c \in Clients : IsAt(c, "pay") => Paying(c)
    /\ \A c, d \in Clients : IsAt(c, "pay") /\ IsAt(d, "pay") => c = d

LedgerInv ==
    TypeOK /\ OneActivePlan /\ BelongsInv /\ PatchInv /\ ActivateInv /\ UsedInv /\ PayInv

LEMMA Blank ==
    /\ NoPlan \in PlanRows
    /\ NoMilestone \in MilestoneRows
    /\ Idle \in Requests
<1>1. NoPlan \in PlanRows
  BY DEF NoPlan, PlanRows, PlanStatuses
<1>2. NoMilestone \in MilestoneRows
  BY BoundsAssumption DEF NoMilestone, MilestoneRows, MilestoneStatuses
<1> QED
  BY <1>1, <1>2, BoundsAssumption DEF Idle, Requests

LEMMA EvaluatedType ==
    ASSUME NEW o, NEW s PROVE Evaluated(o, s) \in MilestoneStatuses
BY DEF Evaluated, MilestoneStatuses

LEMMA NumbersNotZero == 0 \notin Plans /\ 0 \notin Milestones
                        /\ Plans \subseteq 0..MaxPlans /\ Milestones \subseteq 0..MaxMilestones
BY BoundsAssumption DEF Plans, Milestones

LEMMA LedgerInit == Init => LedgerInv
<1> SUFFICES ASSUME Init PROVE LedgerInv
  OBVIOUS
<1>1. TypeOK
  BY Blank DEF Init, TypeOK
<1>2. \A p \in Plans : ~IsActive(p)
  BY DEF Init, IsActive, NoPlan
<1>3. \A c \in Clients : req[c].step = "idle"
  BY DEF Init, Idle
<1> QED
  BY <1>1, <1>2, <1>3 DEF Init, NoMilestone, LedgerInv, OneActivePlan, BelongsInv, PatchInv, ActivateInv,
     UsedInv, PayInv, IsAt

-----------------------------------------------------------------------------
(* Each step keeps it *)

\* A step that leaves plans alone keeps what is said of them.
LEMMA PlansAlone ==
    ASSUME LedgerInv, UNCHANGED plan PROVE OneActivePlan'
BY DEF LedgerInv, OneActivePlan, IsActive

\* A step after which nobody else pays, and milestones being paid stay, keeps PayInv.
LEMMA PayAlone ==
    ASSUME LedgerInv, NEW c \in Clients, NEW r, req' = [req EXCEPT ![c] = r] \/ req' = req,
           r.step # "pay",
           \A d \in Clients : IsAt(d, "pay") => milestone'[req[d].m].plan = milestone[req[d].m].plan
    PROVE  PayInv'
<1>1. \A d \in Clients : req'[d].step = "pay" => req'[d] = req[d]
  BY DEF LedgerInv, TypeOK
<1> QED
  BY <1>1 DEF LedgerInv, PayInv, Paying, IsAt

LEMMA PayDone ==
    ASSUME LedgerInv, NEW c \in Clients, Done(c),
           \A d \in Clients : IsAt(d, "pay") => milestone'[req[d].m].plan = milestone[req[d].m].plan
    PROVE  PayInv'
<1>1. Idle.step # "pay" /\ req' = [req EXCEPT ![c] = Idle]
  BY DEF Done, Idle
<1> QED
  BY <1>1, PayAlone

LEMMA PlanStepsKeep ==
    ASSUME LedgerInv, NEW c \in Clients, PlanSteps(c) PROVE LedgerInv'
<1> USE Blank, NumbersNotZero DEF LedgerInv, TypeOK
<1>1. ASSUME NEW p \in Plans, NEW s \in Statuses, NEW k \in Contracts, PlanCreate(c, p, s, k)
      PROVE  LedgerInv'
  <2>1. [status |-> s, contract |-> k] \in PlanRows /\ s # "active" /\ s # "absent"
    BY StatusesAssumption DEF PlanRows
  <2>2. TypeOK'
    BY <1>1, <2>1 DEF PlanCreate
  <2>3. \A q \in Plans : plan'[q] = IF q = p THEN [status |-> s, contract |-> k] ELSE plan[q]
    BY <1>1 DEF PlanCreate
  <2>4. OneActivePlan'
    BY <2>1, <2>3 DEF OneActivePlan, IsActive
  <2>5. BelongsInv' /\ ActivateInv'
    BY <1>1, <2>1, <2>3 DEF PlanCreate, BelongsInv, ActivateInv, Exists, IsAt, MilestoneRows, Plans
  <2>6. PayInv'
    BY <1>1 DEF PlanCreate, PayInv, Paying, IsAt
  <2> QED
    BY <1>1, <2>2, <2>4, <2>5, <2>6 DEF PlanCreate, PatchInv, UsedInv, IsAt
<1>2. ASSUME NEW p \in Plans, NEW s \in Statuses, NEW k \in Contracts, PatchRead(c, p, s, k)
      PROVE  LedgerInv'
  <2>1. [status |-> s, contract |-> k] \in PlanRows
    BY StatusesAssumption DEF PlanRows
  <2>2. [Idle EXCEPT !.step = "patch", !.p = p, !.row = [status |-> s, contract |-> k]] \in Requests
    BY <2>1 DEF Requests
  <2>3. TypeOK'
    BY <1>2, <2>2 DEF PatchRead
  <2>4. req'[c].step = "patch" /\ req'[c].p = p /\ req'[c].row.status = s
    BY <1>2 DEF PatchRead, Idle
  <2>5. \A d \in Clients \ {c} : req'[d] = req[d]
    BY <1>2 DEF PatchRead
  <2>6. PatchInv' /\ ActivateInv'
    BY <1>2, <2>4, <2>5 DEF PatchRead, PatchInv, ActivateInv, IsAt, Exists
  <2>7. PayInv'
    BY <1>2, <2>4, PayAlone DEF PatchRead
  <2> QED
    BY <1>2, <2>3, <2>6, <2>7, PlansAlone DEF PatchRead, BelongsInv, UsedInv, Exists
<1>3. CASE PatchSave(c)
  <2>1. req[c].p \in Plans /\ req[c].row.status \in Statuses /\ req[c].row \in PlanRows
    BY <1>3 DEF PatchSave, PatchInv, Requests
  <2>2. TypeOK'
    BY <1>3, <2>1 DEF PatchSave, Done
  <2>3. \A q \in Plans : plan'[q] = IF q = req[c].p THEN req[c].row ELSE plan[q]
    BY <1>3 DEF PatchSave
  <2>4. req[c].row.status # "active" /\ req[c].row.status # "absent"
    BY <2>1, StatusesAssumption
  <2>5. OneActivePlan'
    BY <2>3, <2>4 DEF OneActivePlan, IsActive
  <2>6. \A d \in Clients : req'[d] = IF d = c THEN Idle ELSE req[d]
    BY <1>3 DEF PatchSave, Done
  <2>7. \A q \in Plans : Exists(q) => Exists(q)'
    BY <2>3, <2>4 DEF Exists
  <2>8. BelongsInv'
    BY <1>3, <2>7 DEF PatchSave, BelongsInv, MilestoneRows, Plans, Exists
  <2>9. PatchInv' /\ ActivateInv'
    <3>1. req'[c].step = "idle" /\ \A d \in Clients \ {c} : req'[d] = req[d]
      BY <2>6 DEF Idle
    <3>2. PatchInv'
      BY <3>1 DEF PatchInv, IsAt
    <3>3. ActivateInv'
      BY <2>7, <3>1 DEF ActivateInv, IsAt, Exists
    <3> QED
      BY <3>2, <3>3
  <2>10. PayInv'
    BY <1>3, PayDone DEF PatchSave
  <2> QED
    BY <1>3, <2>2, <2>5, <2>8, <2>9, <2>10 DEF PatchSave, UsedInv
<1>4. ASSUME NEW p \in Plans, ActivateCheck(c, p) PROVE LedgerInv'
  <2>1. [Idle EXCEPT !.step = "activate", !.p = p] \in Requests
    BY DEF Requests
  <2>2. TypeOK'
    BY <1>4, <2>1 DEF ActivateCheck
  <2>3. req'[c].step = "activate" /\ req'[c].p = p
    BY <1>4 DEF ActivateCheck, Idle
  <2>4. \A d \in Clients \ {c} : req'[d] = req[d]
    BY <1>4 DEF ActivateCheck
  <2>5. PatchInv' /\ ActivateInv'
    BY <1>4, <2>3, <2>4 DEF ActivateCheck, PatchInv, ActivateInv, IsAt, Exists
  <2>6. PayInv'
    BY <1>4, <2>3, PayAlone DEF ActivateCheck
  <2> QED
    BY <1>4, <2>2, <2>5, <2>6, PlansAlone DEF ActivateCheck, BelongsInv, UsedInv, Exists
<1>5. CASE ActivateSave(c)
  <2> DEFINE p == req[c].p
  <2>1. p \in Plans /\ Exists(p)
    BY <1>5 DEF ActivateSave, ActivateInv
  <2>2. \A d \in Clients : req'[d] = IF d = c THEN Idle ELSE req[d]
    BY <1>5 DEF ActivateSave, Done
  <2>3. req' \in [Clients -> Requests]
    BY <1>5 DEF ActivateSave, Done
  <2>4. CASE UniqueActive(p)
    <3>1. plan' = [plan EXCEPT ![p].status = "active"] /\ milestone' = Refreshed(p)
      BY <1>5, <2>4 DEF ActivateSave
    <3>2. \A q \in Plans : plan'[q] = IF q = p THEN [plan[q] EXCEPT !.status = "active"] ELSE plan[q]
      BY <3>1
    <3>3. plan' \in [Plans -> PlanRows]
      BY <3>1 DEF PlanRows, PlanStatuses
    <3>4. milestone' \in [Milestones -> MilestoneRows]
          /\ \A m \in Milestones : milestone'[m].plan = milestone[m].plan
      BY <3>1, EvaluatedType DEF Refreshed, MilestoneRows
    <3>5. OneActivePlan'
      BY <2>4, <3>2 DEF OneActivePlan, IsActive, UniqueActive
    <3>6. \A q \in Plans : Exists(q) => Exists(q)'
      BY <3>2 DEF Exists, PlanRows
    <3>7. BelongsInv' /\ UsedInv'
      <4>1. UsedInv'
        BY <1>5, <3>4 DEF ActivateSave, UsedInv
      <4>2. \A m \in Milestones : milestone[m].plan # 0 => milestone[m].plan \in Plans
        BY BoundsAssumption DEF MilestoneRows, Plans
      <4>3. BelongsInv'
        BY <3>4, <3>6, <4>2 DEF BelongsInv, Exists
      <4> QED
        BY <4>1, <4>3
    <3>8. PatchInv' /\ ActivateInv'
      <4>1. req'[c].step = "idle" /\ \A d \in Clients \ {c} : req'[d] = req[d]
        BY <2>2 DEF Idle
      <4>2. PatchInv'
        BY <4>1 DEF PatchInv, IsAt
      <4>3. ActivateInv'
        BY <3>6, <4>1 DEF ActivateInv, IsAt, Exists
      <4> QED
        BY <4>2, <4>3
    <3>9. PayInv'
      <4>1. \A d \in Clients : IsAt(d, "pay") => req[d].m \in Milestones
        BY DEF PayInv, Paying
      <4> QED
        BY <1>5, <3>4, <4>1, PayDone DEF ActivateSave
    <3> QED
      BY <1>5, <2>3, <3>3, <3>4, <3>5, <3>7, <3>8, <3>9 DEF ActivateSave
  <2>5. CASE ~UniqueActive(p)
    <3>1. UNCHANGED <<plan, milestone, paid, used>>
      BY <1>5, <2>5 DEF ActivateSave
    <3>2. PatchInv' /\ ActivateInv'
      BY <2>2, <3>1 DEF PatchInv, ActivateInv, IsAt, Idle, Exists
    <3>3. PayInv'
      BY <1>5, <3>1, PayDone DEF ActivateSave
    <3> QED
      BY <2>3, <3>1, <3>2, <3>3, PlansAlone DEF BelongsInv, UsedInv, Exists
  <2> QED
    BY <2>4, <2>5
<1>6. ASSUME NEW p \in Plans, PlanDestroy(c, p) PROVE LedgerInv'
  <2>1. \A q \in Plans : plan'[q] = IF q = p THEN NoPlan ELSE plan[q]
    BY <1>6 DEF PlanDestroy
  <2>2. TypeOK'
    BY <1>6 DEF PlanDestroy
  <2>3. OneActivePlan'
    BY <2>1 DEF OneActivePlan, IsActive, NoPlan
  <2>4. \A d \in Clients : IsAt(d, "activate") => req[d].p # p
    BY <1>6 DEF PlanDestroy, Unlocked, IsAt
  <2>5. \A m \in Milestones : milestone[m].plan # p
    BY <1>6 DEF PlanDestroy, MilestonesOf
  <2>6. BelongsInv' /\ ActivateInv'
    BY <1>6, <2>1, <2>4, <2>5
       DEF PlanDestroy, BelongsInv, ActivateInv, Exists, IsAt, MilestoneRows, Plans
  <2>7. PayInv'
    BY <1>6 DEF PlanDestroy, PayInv, Paying, IsAt
  <2> QED
    BY <1>6, <2>2, <2>3, <2>6, <2>7 DEF PlanDestroy, PatchInv, UsedInv, IsAt
<1> QED
  BY <1>1, <1>2, <1>3, <1>4, <1>5, <1>6 DEF PlanSteps

\* A step of a thread on milestones leaves the plans, and what threads are
\* about to do with them, alone.
LEMMA RequestsAlone ==
    ASSUME LedgerInv, NEW c \in Clients, NEW r \in Requests,
           r.step \in {"idle", "change", "pay"}, req' = [req EXCEPT ![c] = r], UNCHANGED plan
    PROVE  OneActivePlan' /\ PatchInv' /\ ActivateInv'
<1>1. \A d \in Clients : req'[d] = IF d = c THEN r ELSE req[d]
  BY DEF LedgerInv, TypeOK
<1>2. PatchInv' /\ ActivateInv'
  BY <1>1 DEF LedgerInv, PatchInv, ActivateInv, IsAt, Exists
<1> QED
  BY <1>2, PlansAlone

LEMMA MilestoneStepsKeep ==
    ASSUME LedgerInv, NEW c \in Clients, MilestoneSteps(c) PROVE LedgerInv'
<1> USE Blank, NumbersNotZero DEF LedgerInv, TypeOK
<1>1. ASSUME NEW p \in Plans, NEW t \in Terms, MilestoneCreate(c, p, t) PROVE LedgerInv'
  <2> DEFINE r == [Idle EXCEPT !.step = "change",
                     !.mrow = [plan |-> p, terms |-> t, status |-> "open"]]
  <2>1. [plan |-> p, terms |-> t, status |-> "open"] \in MilestoneRows
    BY DEF MilestoneRows, MilestoneStatuses
  <2>2. r \in Requests /\ r.step = "change"
    BY <2>1 DEF Requests, Idle
  <2>3. OneActivePlan' /\ PatchInv' /\ ActivateInv'
    BY <1>1, <2>2, RequestsAlone DEF MilestoneCreate
  <2>4. PayInv'
    BY <1>1, <2>2, PayAlone DEF MilestoneCreate
  <2> QED
    BY <1>1, <2>2, <2>3, <2>4 DEF MilestoneCreate, BelongsInv, UsedInv, Exists
<1>2. ASSUME NEW p \in Plans, NEW t \in Terms, NEW m \in Milestones,
             MilestoneChange(c, m, p, t)
      PROVE  LedgerInv'
  <2> DEFINE row == [milestone[m] EXCEPT !.plan = p, !.terms = t]
             r == [Idle EXCEPT !.step = "change", !.m = m, !.mrow = row]
  <2>1. row \in MilestoneRows
    BY DEF MilestoneRows
  <2>2. r \in Requests /\ r.step = "change"
    BY <2>1 DEF Requests, Idle
  <2>3. OneActivePlan' /\ PatchInv' /\ ActivateInv'
    BY <1>2, <2>2, RequestsAlone DEF MilestoneChange
  <2>4. PayInv'
    BY <1>2, <2>2, PayAlone DEF MilestoneChange
  <2> QED
    BY <1>2, <2>2, <2>3, <2>4 DEF MilestoneChange, BelongsInv, UsedInv, Exists
<1>3. ASSUME NEW m \in Milestones, MilestoneSave(c, m) PROVE LedgerInv'
  <2>1. req[c].mrow \in MilestoneRows
    BY DEF Requests
  <2>2. milestone' \in [Milestones -> MilestoneRows]
    BY <1>3, <2>1 DEF MilestoneSave
  <2>3. OneActivePlan' /\ PatchInv' /\ ActivateInv'
    BY <1>3, RequestsAlone DEF MilestoneSave, Done, Idle
  <2>4. ASSUME NEW n \in Milestones
        PROVE  milestone'[n] = milestone[n] \/ Exists(milestone'[n].plan)
    BY <1>3, <2>1 DEF MilestoneSave
  <2>5. BelongsInv' /\ UsedInv'
    BY <1>3, <2>4 DEF MilestoneSave, BelongsInv, UsedInv, Exists
  <2>6. req' \in [Clients -> Requests]
    BY <1>3 DEF MilestoneSave, Done
  <2>7. PayInv'
    <3>1. \A d \in Clients : IsAt(d, "pay") => milestone'[req[d].m] = milestone[req[d].m]
      BY <1>3 DEF MilestoneSave, RowFree, PayInv, Paying
    <3> QED
      BY <1>3, <3>1, PayDone DEF MilestoneSave
  <2> QED
    BY <1>3, <2>2, <2>3, <2>5, <2>6, <2>7 DEF MilestoneSave
<1>4. ASSUME NEW m \in Milestones, MilestoneRemove(c, m) PROVE LedgerInv'
  <2>1. \A n \in Milestones : milestone'[n] = IF n = m THEN NoMilestone ELSE milestone[n]
    BY <1>4 DEF MilestoneRemove
  <2>2. BelongsInv' /\ UsedInv'
    BY <1>4, <2>1 DEF MilestoneRemove, Removable, NoMilestone, BelongsInv, UsedInv, Exists
  <2>3. PayInv'
    BY <1>4, <2>1 DEF MilestoneRemove, RowFree, PayInv, Paying, IsAt
  <2> QED
    BY <1>4, <2>2, <2>3, PlansAlone DEF MilestoneRemove, PatchInv, ActivateInv, IsAt, Exists
<1> QED
  BY <1>1, <1>2, <1>3, <1>4 DEF MilestoneSteps

\* Taking the locks changes no row; what was locked is paid.
LEMMA RegisterKeeps ==
    ASSUME LedgerInv, NEW c \in Clients, NEW m \in Milestones, NEW a \in Int, Register(c, m, a)
    PROVE  LedgerInv'
<1> USE Blank, NumbersNotZero DEF LedgerInv, TypeOK
<1> DEFINE r == [Idle EXCEPT !.step = "pay", !.p = milestone[m].plan, !.m = m, !.a = a]
<1>1. milestone[m].plan \in Plans
  BY BoundsAssumption DEF Register, MilestoneRows, Plans
<1>2. r \in Requests /\ r.step = "pay" /\ r.m = m /\ r.p = milestone[m].plan
  BY <1>1 DEF Requests, Idle
<1>3. req' = [req EXCEPT ![c] = r]
  BY DEF Register
<1>4. \A d \in Clients : req'[d] = IF d = c THEN r ELSE req[d]
  BY <1>3
<1>5. OneActivePlan' /\ PatchInv' /\ ActivateInv'
  BY <1>2, <1>3, RequestsAlone DEF Register
<1>6. PayInv'
  BY <1>1, <1>2, <1>4 DEF Register, TaskFree, PayInv, Paying, IsAt
<1> QED
  BY <1>2, <1>3, <1>5, <1>6 DEF Register, BelongsInv, UsedInv, Exists

LEMMA PostKeeps ==
    ASSUME LedgerInv, NEW c \in Clients, Post(c)
    PROVE  LedgerInv'
<1> USE Blank DEF LedgerInv, TypeOK
<1> DEFINE m == req[c].m
<1>0. m \in Milestones /\ milestone[m].plan # 0
  BY NumbersNotZero DEF Post, PayInv, Paying
<1>1. milestone' \in [Milestones -> MilestoneRows]
      /\ \A n \in Milestones : milestone'[n].plan = milestone[n].plan
  BY EvaluatedType DEF Post, MilestoneRows
<1>2. paid' \in [Milestones -> Int] /\ used' \in [Milestones -> BOOLEAN]
  BY <1>0 DEF Post, Requests
<1>3. \A n \in Milestones : used'[n] => n = m \/ used[n]
  BY DEF Post
<1>4. req' \in [Clients -> Requests]
  BY DEF Post, Done
<1>5. OneActivePlan' /\ PatchInv' /\ ActivateInv'
  BY RequestsAlone DEF Post, Done, Idle
<1>6. PayInv'
  <2>1. \A d \in Clients : IsAt(d, "pay") => req[d].m \in Milestones
    BY DEF PayInv, Paying
  <2> QED
    BY <1>1, <2>1, PayDone DEF Post
<1> QED
  BY <1>0, <1>1, <1>2, <1>3, <1>4, <1>5, <1>6 DEF Post, BelongsInv, UsedInv, Exists

\* Whatever a registration does, milestones keep their plan and terms, and the thread
\* does not go on to change one.
LEMMA LedgerSteps ==
    ASSUME LedgerInv, NEW c \in Clients, Ledger(c)
    PROVE  /\ req'[c].step \in {"pay", "idle"}
           /\ \A m \in Milestones : /\ milestone'[m].plan = milestone[m].plan
                                     /\ milestone'[m].terms = milestone[m].terms
<1>type. req \in [Clients -> Requests] /\ milestone \in [Milestones -> MilestoneRows]
  BY DEF LedgerInv, TypeOK
<1>1. CASE Post(c)
  <2>1. req'[c] = Idle
    BY <1>type, <1>1 DEF Post, Done
  <2> QED
    BY <1>type, <1>1, <2>1 DEF Post, Idle, MilestoneRows
<1>2. ASSUME NEW m, NEW a, Register(c, m, a)
      PROVE  req'[c].step \in {"pay", "idle"} /\ milestone' = milestone
  <2>1. req'[c] = [Idle EXCEPT !.step = "pay", !.p = milestone[m].plan, !.m = m, !.a = a]
    BY <1>type, <1>2 DEF Register
  <2> QED
    BY <1>2, <2>1 DEF Register, Idle
<1> QED
  BY <1>1, <1>2 DEF Ledger, Pay, Refund

LEMMA LedgerNext == LedgerInv /\ [Next]_vars => LedgerInv'
<1> SUFFICES ASSUME LedgerInv, [Next]_vars PROVE LedgerInv'
  OBVIOUS
<1>1. ASSUME NEW c \in Clients, Ledger(c) PROVE LedgerInv'
  <2>1. ASSUME NEW m \in Milestones, NEW a \in Payments, Pay(c, m, a) \/ Refund(c, m, a)
        PROVE  LedgerInv'
    <3>1. a \in Int /\ -a \in Int
      BY MoneyAssumption
    <3> QED
      BY <2>1, <3>1, RegisterKeeps DEF Pay, Refund
  <2> QED
    BY <1>1, <2>1, PostKeeps DEF Ledger
<1>2. CASE UNCHANGED vars
  BY <1>2 DEF vars, LedgerInv, TypeOK, OneActivePlan, BelongsInv, PatchInv, ActivateInv,
     UsedInv, PayInv, Paying, IsActive, IsAt, Exists
<1> QED
  BY <1>1, <1>2, PlanStepsKeep, MilestoneStepsKeep DEF Next, Step

LEMMA LedgerAlways == Spec => []LedgerInv
BY LedgerInit, LedgerNext, PTL DEF Spec

\* Amounts are integers.
AmountsInt == \A m \in Milestones : milestone[m].plan # 0 => Amount(m) \in Int

LEMMA AmountInt == LedgerInv => AmountsInt
<1> SUFFICES ASSUME LedgerInv, NEW m \in Milestones, milestone[m].plan # 0 PROVE Amount(m) \in Int
  BY DEF AmountsInt
<1>1. milestone[m] \in MilestoneRows /\ milestone[m].plan \in Plans
  BY BoundsAssumption DEF LedgerInv, TypeOK, MilestoneRows, Plans
<1>2. plan[milestone[m].plan].contract \in Contracts \cup {0}
  BY <1>1 DEF LedgerInv, TypeOK, PlanRows
<1>3. plan[milestone[m].plan].contract \in Nat
  <2>1. \A k \in Contracts : k \in Nat
    BY MoneyAssumption
  <2> QED
    BY <1>2, <2>1
<1>4. milestone[m].terms \in Terms \cup {NoTerms}
  BY <1>1 DEF MilestoneRows
<1>5. milestone[m].terms.value \in Nat
  BY <1>4, TermsAssumption DEF NoTerms
<1> DEFINE product == plan[milestone[m].plan].contract * milestone[m].terms.value
<1>6. product \in Nat
  BY <1>3, <1>5
<1>7. (product + 50) \div 100 \in Int
  <2> HIDE DEF product
  <2> QED
    BY <1>6
<1> QED
  BY <1>5, <1>7 DEF Amount, AmountOf

-----------------------------------------------------------------------------
(* The theorems *)

\* Rows, ledger and what threads hold keep their type.
THEOREM TypeCorrect == Spec => []TypeOK
<1>1. LedgerInv => TypeOK
  BY DEF LedgerInv
<1> QED
  BY <1>1, LedgerAlways, PTL

\* At most one plan of the task is active, however activations overlap each
\* other and stale updates (activate_plan and the unique constraint).
THEOREM OneIsActive == Spec => []OneActivePlan
<1>1. LedgerInv => OneActivePlan
  BY DEF LedgerInv
<1> QED
  BY <1>1, LedgerAlways, PTL

\* A milestone with transactions and its plan are never deleted.
THEOREM LedgerIsKept == Spec => []LedgerKept
<1>1. LedgerInv => LedgerKept
  BY DEF LedgerInv, BelongsInv, UsedInv, LedgerKept
<1> QED
  BY <1>1, LedgerAlways, PTL

\* LedgerSound: activations, updates, deletions and payments in any order leave
\* well-formed rows, one active plan at most, and every plan that was paid for.
THEOREM LedgerIsSound == Spec => []LedgerSound
<1>1. TypeOK /\ OneActivePlan /\ LedgerKept => LedgerSound
  BY DEF LedgerSound
<1> QED
  BY <1>1, TypeCorrect, OneIsActive, LedgerIsKept, PTL

\* What is about to be paid is still outstanding.
RoomInv == \A c \in Clients :
    IsAt(c, "pay") /\ req[c].a > 0 => paid[req[c].m] + req[c].a <= Amount(req[c].m)

\* The milestone and the plan that a registration holds stay as they are until it ends.
LEMMA HeldStays ==
    ASSUME LedgerInv, Next, NEW c \in Clients, IsAt(c, "pay"), req'[c] = req[c]
    PROVE  LET m == req[c].m IN
           /\ milestone'[m].plan = milestone[m].plan /\ milestone'[m].terms = milestone[m].terms
           /\ paid'[m] = paid[m]
           /\ plan'[milestone[m].plan].contract = plan[milestone[m].plan].contract
<1> DEFINE m == req[c].m
           q == req[c].p
<1>type. /\ plan \in [Plans -> PlanRows] /\ milestone \in [Milestones -> MilestoneRows]
         /\ req \in [Clients -> Requests]
  BY DEF LedgerInv, TypeOK
<1>1. m \in Milestones /\ q \in Plans /\ milestone[m].plan = q /\ Exists(q)
  BY NumbersNotZero DEF LedgerInv, PayInv, Paying, BelongsInv
<1>2. PICK d \in Clients : Step(d)
  BY DEF Next
<1>3. ~Unlocked(q) /\ ~RowFree(m) /\ ~TaskFree
  BY DEF Unlocked, RowFree, TaskFree, IsAt
<1>4. ~Post(d)
  <2>1. Post(d) => d = c /\ req'[d].step = "idle"
    BY <1>type DEF Post, Done, Idle, LedgerInv, PayInv
  <2> QED
    BY <2>1 DEF IsAt
<1>5. ~Ledger(d)
  BY <1>3, <1>4 DEF Ledger, Pay, Refund, Register
<1>6. CASE MilestoneSteps(d)
  BY <1>type, <1>1, <1>3, <1>6 DEF MilestoneSteps, MilestoneCreate, MilestoneChange, MilestoneSave,
     MilestoneRemove
<1>7. CASE PlanSteps(d)
  <2>1. ASSUME NEW p \in Plans, NEW s \in Statuses, NEW k \in Contracts,
               PlanCreate(d, p, s, k) \/ PatchRead(d, p, s, k)
        PROVE  plan'[q] = plan[q] /\ milestone' = milestone /\ paid' = paid
    BY <1>type, <1>1, <2>1 DEF PlanCreate, PatchRead
  <2>2. ASSUME NEW p \in Plans, ActivateCheck(d, p) \/ PlanDestroy(d, p)
        PROVE  plan'[q] = plan[q] /\ milestone' = milestone /\ paid' = paid
    BY <1>type, <1>1, <1>3, <2>2 DEF ActivateCheck, PlanDestroy
  <2>3. CASE PatchSave(d)
    BY <1>type, <1>1, <1>3, <2>3 DEF PatchSave
  <2>4. CASE ActivateSave(d)
    <3>1. ~IsAt(d, "pay") /\ req[d].p \in Plans
      BY <2>4 DEF ActivateSave, IsAt, LedgerInv, ActivateInv
    <3>2. paid' = paid /\ plan'[q].contract = plan[q].contract
      BY <1>type, <1>1, <2>4, <3>1 DEF ActivateSave, PlanRows
    <3>3. milestone'[m].plan = milestone[m].plan /\ milestone'[m].terms = milestone[m].terms
      BY <1>type, <1>1, <2>4 DEF ActivateSave, Refreshed, MilestoneRows
    <3> QED
      BY <1>1, <3>2, <3>3
  <2> QED
    BY <1>1, <1>7, <2>1, <2>2, <2>3, <2>4 DEF PlanSteps
<1> QED
  BY <1>2, <1>5, <1>6, <1>7 DEF Step

LEMMA RoomNext == LedgerInv /\ RoomInv /\ [Next]_vars => RoomInv'
<1> SUFFICES ASSUME LedgerInv, RoomInv, [Next]_vars,
                    NEW c \in Clients, req'[c].step = "pay", req'[c].a > 0
             PROVE  paid'[req'[c].m] + req'[c].a <= Amount(req[c].m)'
  BY DEF RoomInv, IsAt
<1>type. req \in [Clients -> Requests] /\ paid \in [Milestones -> Int]
  BY DEF LedgerInv, TypeOK
<1>1. CASE req'[c] = req[c] /\ Next
  <2> DEFINE m == req[c].m
  <2>1. /\ milestone'[m].plan = milestone[m].plan /\ milestone'[m].terms = milestone[m].terms
        /\ paid'[m] = paid[m]
        /\ plan'[milestone[m].plan].contract = plan[milestone[m].plan].contract
    BY <1>1, HeldStays DEF IsAt
  <2>2. Amount(req[c].m)' = Amount(req[c].m)
    BY <1>1, <2>1 DEF Amount, AmountOf
  <2> QED
    BY <1>1, <2>1, <2>2 DEF RoomInv, IsAt
<1>2. CASE req'[c] # req[c] /\ Next
  <2>1. PICK d \in Clients : Step(d)
    BY <1>2 DEF Next
  <2>2. d = c /\ \E m \in Milestones, a \in Payments : Pay(c, m, a) \/ Refund(c, m, a)
    <3>0. ASSUME NEW r, r.step # "pay", req' = [req EXCEPT ![d] = r] PROVE FALSE
      BY <1>type, <1>2, <3>0
    <3>1. ~PlanSteps(d)
      <4>1. ASSUME NEW p \in Plans, NEW s \in Statuses, NEW k \in Contracts
            PROVE  ~PlanCreate(d, p, s, k) /\ ~PatchRead(d, p, s, k)
        BY <1>2, <3>0 DEF PlanCreate, PatchRead, Idle
      <4>2. ASSUME NEW p \in Plans PROVE ~ActivateCheck(d, p) /\ ~PlanDestroy(d, p)
        BY <1>2, <3>0 DEF ActivateCheck, PlanDestroy, Idle
      <4>3. ~PatchSave(d) /\ ~ActivateSave(d)
        BY <3>0 DEF PatchSave, ActivateSave, Done, Idle
      <4> QED
        BY <4>1, <4>2, <4>3 DEF PlanSteps
    <3>2. ~MilestoneSteps(d)
      <4>1. ASSUME NEW p \in Plans, NEW t \in Terms PROVE ~MilestoneCreate(d, p, t)
        BY <3>0 DEF MilestoneCreate, Idle
      <4>2. ASSUME NEW p \in Plans, NEW t \in Terms, NEW m \in Milestones
            PROVE  ~MilestoneChange(d, m, p, t)
        BY <3>0 DEF MilestoneChange, Idle
      <4>3. ASSUME NEW m \in Milestones PROVE ~MilestoneSave(d, m) /\ ~MilestoneRemove(d, m)
        BY <1>2, <3>0 DEF MilestoneSave, MilestoneRemove, Done, Idle
      <4> QED
        BY <4>1, <4>2, <4>3 DEF MilestoneSteps
    <3>3. ~Post(d)
      BY <1>type, <1>2 DEF Post, Done, Idle
    <3>4. PICK m \in Milestones, a \in Payments : Pay(d, m, a) \/ Refund(d, m, a)
      BY <2>1, <3>1, <3>2, <3>3 DEF Step, Ledger
    <3>5. d = c
      BY <1>type, <1>2, <3>4 DEF Pay, Refund, Register
    <3> QED
      BY <3>4, <3>5
  <2>3. PICK m \in Milestones, a \in Payments : Pay(c, m, a) \/ Refund(c, m, a)
    BY <2>2
  <2>4. a \in Int /\ a > 0
    BY MoneyAssumption
  <2>5. ~Refund(c, m, a)
    <3>1. Refund(c, m, a) => req'[c].a = -a
      BY <1>type DEF Refund, Register, Idle
    <3> QED
      BY <2>4, <3>1
  <2>6. req'[c].m = m /\ req'[c].a = a /\ UNCHANGED <<plan, milestone, paid>>
    BY <1>type, <2>3, <2>5 DEF Pay, Register, Idle
  <2>7. a <= Amount(m) - paid[m] /\ Amount(m) \in Int
    BY <2>3, <2>5, AmountInt DEF AmountsInt, Pay, Register, WithinOutstanding, Outstanding
  <2>8. Amount(req[c].m)' = Amount(m)
    BY <2>6 DEF Amount
  <2> QED
    BY <1>type, <2>4, <2>6, <2>7, <2>8
<1>3. CASE UNCHANGED vars
  BY <1>3 DEF vars, RoomInv, IsAt, Amount
<1> QED
  BY <1>1, <1>2, <1>3

\* No payment takes a milestone beyond the amount it has when the payment is
\* committed, whatever is saved between its check and its commit.
THEOREM NothingOverpaid == Spec => NoOverpayment
<1>1. ASSUME LedgerInv, RoomInv, [Next]_vars
      PROVE  [\A m \in Milestones : paid'[m] > paid[m] => paid'[m] <= Amount(m)]_vars
  <2> SUFFICES ASSUME Next, NEW m \in Milestones, paid'[m] > paid[m]
               PROVE  paid'[m] <= Amount(m)
    BY <1>1
  <2>type. paid \in [Milestones -> Int] /\ req \in [Clients -> Requests]
    BY <1>1 DEF LedgerInv, TypeOK
  <2>1. PICK c \in Clients : Step(c)
    BY DEF Next
  <2>2. CASE Post(c)
    <3>1. m = req[c].m /\ paid'[m] = paid[m] + req[c].a /\ req[c].a \in Int
      BY <2>type, <2>2 DEF Post, Requests
    <3>2. req[c].a > 0
      BY <2>type, <3>1
    <3> QED
      BY <1>1, <2>2, <3>1, <3>2 DEF RoomInv, Post
  <2>3. CASE ~Post(c)
    <3>1. UNCHANGED paid
      BY <2>1, <2>3 DEF Step, PlanSteps, PlanCreate, PatchRead, PatchSave, ActivateCheck, ActivateSave,
         PlanDestroy, MilestoneSteps, MilestoneCreate, MilestoneChange, MilestoneSave,
         MilestoneRemove, Ledger, Pay, Refund, Register
    <3> QED
      BY <2>type, <3>1
  <2> QED
    BY <2>2, <2>3
<1>2. Init => RoomInv
  BY DEF Init, RoomInv, IsAt, Idle
<1> QED
  BY <1>1, <1>2, RoomNext, LedgerAlways, PTL DEF Spec, NoOverpayment

-----------------------------------------------------------------------------
(* What a plan and a milestone hold, however requests overlap *)

LiveInv ==
    /\ \A p \in Plans : Exists(p) => plan[p].contract \in Contracts
    /\ \A m \in Milestones : milestone[m].plan # 0 => milestone[m].terms \in Terms
    /\ \A m \in Milestones : ~used[m] => paid[m] = 0
    /\ \A c \in Clients : IsAt(c, "patch") => req[c].row.contract \in Contracts
    /\ \A c \in Clients : IsAt(c, "change") => req[c].mrow.plan \in Plans /\ req[c].mrow.terms \in Terms

\* A step of a thread that leaves the rows alone, or writes one of its own.
LEMMA LiveRequests ==
    ASSUME LedgerInv, LiveInv, NEW c \in Clients, NEW r, req' = [req EXCEPT ![c] = r],
           r.step = "patch" => r.row.contract \in Contracts,
           r.step = "change" => r.mrow.plan \in Plans /\ r.mrow.terms \in Terms
    PROVE  /\ \A d \in Clients : IsAt(d, "patch")' => req'[d].row.contract \in Contracts
           /\ \A d \in Clients : IsAt(d, "change")' =>
                 req'[d].mrow.plan \in Plans /\ req'[d].mrow.terms \in Terms
<1>1. \A d \in Clients : req'[d] = IF d = c THEN r ELSE req[d]
  BY DEF LedgerInv, TypeOK
<1> QED
  BY <1>1 DEF LiveInv, IsAt

LEMMA LivePlanSteps ==
    ASSUME LedgerInv, LiveInv, NEW c \in Clients, PlanSteps(c) PROVE LiveInv'
<1> DEFINE Waiting == /\ \A d \in Clients : IsAt(d, "patch")' => req'[d].row.contract \in Contracts
                      /\ \A d \in Clients : IsAt(d, "change")' =>
                            req'[d].mrow.plan \in Plans /\ req'[d].mrow.terms \in Terms
<1>type. /\ plan \in [Plans -> PlanRows] /\ milestone \in [Milestones -> MilestoneRows]
         /\ req \in [Clients -> Requests]
  BY DEF LedgerInv, TypeOK
<1>1. ASSUME NEW p \in Plans, NEW s \in Statuses, NEW k \in Contracts, PlanCreate(c, p, s, k)
      PROVE  LiveInv'
  BY <1>type, <1>1 DEF LiveInv, PlanCreate, Exists, IsAt
<1>2. ASSUME NEW p \in Plans, NEW s \in Statuses, NEW k \in Contracts, PatchRead(c, p, s, k)
      PROVE  LiveInv'
  <2> DEFINE r == [Idle EXCEPT !.step = "patch", !.p = p, !.row = [status |-> s, contract |-> k]]
  <2>1. r.step = "patch" /\ r.row.contract = k
    BY DEF Idle
  <2>2. req' = [req EXCEPT ![c] = r]
    BY <1>2 DEF PatchRead
  <2>3. Waiting
    BY <2>1, <2>2, LiveRequests
  <2> QED
    BY <1>2, <2>3 DEF LiveInv, PatchRead, Exists
<1>3. CASE PatchSave(c)
  <2>1. req' = [req EXCEPT ![c] = Idle] /\ Idle.step = "idle"
    BY <1>3 DEF PatchSave, Done, Idle
  <2>2. Waiting
    BY <2>1, LiveRequests
  <2>3. req[c].row.contract \in Contracts
    BY <1>3 DEF LiveInv, PatchSave
  <2>4. \A p \in Plans : plan'[p] = IF p = req[c].p THEN req[c].row ELSE plan[p]
    BY <1>type, <1>3 DEF PatchSave
  <2>5. \A p \in Plans : Exists(p)' => plan'[p].contract \in Contracts
    BY <2>3, <2>4 DEF LiveInv, Exists
  <2> QED
    BY <1>3, <2>2, <2>5 DEF LiveInv, PatchSave
<1>4. ASSUME NEW p \in Plans, ActivateCheck(c, p) PROVE LiveInv'
  <2> DEFINE r == [Idle EXCEPT !.step = "activate", !.p = p]
  <2>1. r.step = "activate"
    BY DEF Idle
  <2>2. req' = [req EXCEPT ![c] = r]
    BY <1>4 DEF ActivateCheck
  <2>3. Waiting
    BY <2>1, <2>2, LiveRequests
  <2> QED
    BY <1>4, <2>3 DEF LiveInv, ActivateCheck, Exists
<1>5. CASE ActivateSave(c)
  <2>1. req' = [req EXCEPT ![c] = Idle] /\ Idle.step = "idle"
    BY <1>5 DEF ActivateSave, Done, Idle
  <2>2. Waiting
    BY <2>1, LiveRequests
  <2>3. \A p \in Plans : plan'[p].contract = plan[p].contract /\ (Exists(p)' => Exists(p))
    <3>1. req[c].p \in Plans /\ Exists(req[c].p)
      BY <1>5 DEF ActivateSave, LedgerInv, ActivateInv
    <3> QED
      BY <1>type, <1>5, <3>1 DEF ActivateSave, Exists, PlanRows
  <2>4. \A m \in Milestones : milestone'[m].plan = milestone[m].plan /\ milestone'[m].terms = milestone[m].terms
    BY <1>type, <1>5 DEF ActivateSave, Refreshed, MilestoneRows
  <2> QED
    BY <1>5, <2>2, <2>3, <2>4 DEF LiveInv, ActivateSave
<1>6. ASSUME NEW p \in Plans, PlanDestroy(c, p) PROVE LiveInv'
  BY <1>type, <1>6 DEF LiveInv, PlanDestroy, Exists, IsAt, NoPlan
<1> QED
  BY <1>1, <1>2, <1>3, <1>4, <1>5, <1>6 DEF PlanSteps

LEMMA LiveMilestoneSteps ==
    ASSUME LedgerInv, LiveInv, NEW c \in Clients, MilestoneSteps(c) PROVE LiveInv'
<1> DEFINE Waiting == /\ \A d \in Clients : IsAt(d, "patch")' => req'[d].row.contract \in Contracts
                      /\ \A d \in Clients : IsAt(d, "change")' =>
                            req'[d].mrow.plan \in Plans /\ req'[d].mrow.terms \in Terms
<1>type. milestone \in [Milestones -> MilestoneRows] /\ req \in [Clients -> Requests]
  BY DEF LedgerInv, TypeOK
<1>1. ASSUME NEW p \in Plans, NEW t \in Terms, MilestoneCreate(c, p, t) PROVE LiveInv'
  <2> DEFINE r == [Idle EXCEPT !.step = "change",
                     !.mrow = [plan |-> p, terms |-> t, status |-> "open"]]
  <2>1. r.step = "change" /\ r.mrow.plan = p /\ r.mrow.terms = t
    BY DEF Idle
  <2>2. req' = [req EXCEPT ![c] = r]
    BY <1>1 DEF MilestoneCreate
  <2>3. Waiting
    BY <2>1, <2>2, LiveRequests
  <2> QED
    BY <1>1, <2>3 DEF LiveInv, MilestoneCreate, Exists
<1>2. ASSUME NEW p \in Plans, NEW t \in Terms, NEW m \in Milestones, MilestoneChange(c, m, p, t)
      PROVE  LiveInv'
  <2> DEFINE r == [Idle EXCEPT !.step = "change", !.m = m,
                               !.mrow = [milestone[m] EXCEPT !.plan = p, !.terms = t]]
  <2>1. r.step = "change" /\ r.mrow = [milestone[m] EXCEPT !.plan = p, !.terms = t]
    BY DEF Idle
  <2>2. r.mrow.plan = p /\ r.mrow.terms = t
    BY <1>type, <2>1 DEF MilestoneRows
  <2>3. req' = [req EXCEPT ![c] = r]
    BY <1>2 DEF MilestoneChange
  <2>4. Waiting
    BY <2>1, <2>2, <2>3, LiveRequests
  <2> QED
    BY <1>2, <2>4 DEF LiveInv, MilestoneChange, Exists
<1>3. ASSUME NEW m \in Milestones, MilestoneSave(c, m) PROVE LiveInv'
  <2>1. req' = [req EXCEPT ![c] = Idle] /\ Idle.step = "idle"
    BY <1>3 DEF MilestoneSave, Done, Idle
  <2>2. Waiting
    BY <2>1, LiveRequests
  <2>3. req[c].mrow.terms \in Terms
    BY <1>3 DEF LiveInv, MilestoneSave
  <2>4. \A n \in Milestones : milestone'[n] = milestone[n] \/ milestone'[n] = req[c].mrow
    BY <1>type, <1>3 DEF MilestoneSave
  <2> QED
    BY <1>3, <2>2, <2>3, <2>4 DEF LiveInv, MilestoneSave, Exists
<1>4. ASSUME NEW m \in Milestones, MilestoneRemove(c, m) PROVE LiveInv'
  <2>1. \A n \in Milestones : milestone'[n] = IF n = m THEN NoMilestone ELSE milestone[n]
    BY <1>type, <1>4 DEF MilestoneRemove
  <2> QED
    BY <1>4, <2>1 DEF LiveInv, MilestoneRemove, NoMilestone, Exists, IsAt
<1> QED
  BY <1>1, <1>2, <1>3, <1>4 DEF MilestoneSteps

LEMMA LiveNext == LedgerInv /\ LiveInv /\ [Next]_vars => LiveInv'
<1> SUFFICES ASSUME LedgerInv, LiveInv, [Next]_vars PROVE LiveInv'
  OBVIOUS
<1>1. ASSUME NEW c \in Clients, Ledger(c) PROVE LiveInv'
  <2>1. ASSUME NEW m \in Milestones, NEW a \in Payments, Pay(c, m, a) \/ Refund(c, m, a)
        PROVE  LiveInv'
    <3>1. PICK b : Register(c, m, b)
      BY <2>1 DEF Pay, Refund
    <3> DEFINE r == [Idle EXCEPT !.step = "pay", !.p = milestone[m].plan, !.m = m, !.a = b]
    <3>2. r.step = "pay" /\ req' = [req EXCEPT ![c] = r]
      BY <3>1 DEF Register, Idle
    <3> HIDE DEF r
    <3>3. /\ \A d \in Clients : IsAt(d, "patch")' => req'[d].row.contract \in Contracts
          /\ \A d \in Clients : IsAt(d, "change")' =>
                req'[d].mrow.plan \in Plans /\ req'[d].mrow.terms \in Terms
      BY <3>2, LiveRequests
    <3> QED
      BY <3>1, <3>3 DEF LiveInv, Register, Exists
  <2>2. CASE Post(c)
    <3>1. \A n \in Milestones : /\ milestone'[n].plan = milestone[n].plan
                                /\ milestone'[n].terms = milestone[n].terms
      BY <2>2 DEF Post, LedgerInv, TypeOK, MilestoneRows
    <3>2. \A n \in Milestones : ~used'[n] => ~used[n] /\ paid'[n] = paid[n]
      BY <2>2 DEF Post, LedgerInv, TypeOK
    <3>3. /\ \A d \in Clients : IsAt(d, "patch")' => req'[d].row.contract \in Contracts
          /\ \A d \in Clients : IsAt(d, "change")' =>
                req'[d].mrow.plan \in Plans /\ req'[d].mrow.terms \in Terms
      BY <2>2, LiveRequests DEF Post, Done, Idle
    <3> QED
      BY <2>2, <3>1, <3>2, <3>3 DEF LiveInv, Post, Exists
  <2> QED
    BY <1>1, <2>1, <2>2 DEF Ledger
<1>2. CASE UNCHANGED vars
  BY <1>2 DEF vars, LiveInv, IsAt, Exists
<1> QED
  BY <1>1, <1>2, LivePlanSteps, LiveMilestoneSteps DEF Next, Step

LEMMA LiveInit == Init => LiveInv
BY NumbersNotZero DEF Init, LiveInv, IsAt, Idle, Exists, NoPlan, NoMilestone

-----------------------------------------------------------------------------
(* Requests that do not overlap *)

Serial == \A c, d \in Clients : c = d

\* The terms a thread is about to save are still those it was allowed to.
SettledInv ==
    /\ LedgerInv
    /\ \A c \in Clients : IsAt(c, "change") /\ req[c].m # 0 /\ used[req[c].m] =>
          Settled(req[c].m, req[c].mrow.plan, req[c].mrow.terms)

LEMMA SettledNext == Serial /\ SettledInv /\ [Next]_vars => SettledInv'
<1> SUFFICES ASSUME Serial, SettledInv, [Next]_vars PROVE SettledInv'
  OBVIOUS
<1>1. LedgerInv /\ LedgerInv'
  BY LedgerNext DEF SettledInv
<1>type. req \in [Clients -> Requests] /\ milestone \in [Milestones -> MilestoneRows]
  BY <1>1 DEF LedgerInv, TypeOK
<1>idle. ASSUME NEW c \in Clients, req'[c].step # "change" \/ req'[c].m = 0
         PROVE  SettledInv'
  BY <1>1, <1>idle DEF Serial, SettledInv, IsAt
<1>2. ASSUME NEW c \in Clients, PlanSteps(c) PROVE SettledInv'
  <2>1. CASE PatchSave(c) \/ ActivateSave(c)
    <3>1. req'[c] = Idle
      BY <1>type, <2>1 DEF PatchSave, ActivateSave, Done
    <3> QED
      BY <1>idle, <3>1 DEF Idle
  <2>2. ASSUME NEW p \in Plans, ActivateCheck(c, p) \/ PlanDestroy(c, p) PROVE SettledInv'
    <3>1. CASE ActivateCheck(c, p)
      <4>1. req'[c] = [Idle EXCEPT !.step = "activate", !.p = p]
        BY <1>type, <3>1 DEF ActivateCheck
      <4>2. req'[c].m = 0
        BY <4>1 DEF Idle
      <4> QED
        BY <1>idle, <4>2
    <3>2. CASE PlanDestroy(c, p)
      <4>1. req'[c].m = 0
        BY <3>2 DEF PlanDestroy, Starts, Idle
      <4> QED
        BY <1>idle, <4>1
    <3> QED
      BY <2>2, <3>1, <3>2
  <2>3. ASSUME NEW p \in Plans, NEW s \in Statuses, NEW k \in Contracts,
               PlanCreate(c, p, s, k) \/ PatchRead(c, p, s, k)
        PROVE  SettledInv'
    <3>1. CASE PlanCreate(c, p, s, k)
      <4>1. req'[c].m = 0
        BY <3>1 DEF PlanCreate, Starts, Idle
      <4> QED
        BY <1>idle, <4>1
    <3>2. CASE PatchRead(c, p, s, k)
      <4>1. req'[c] = [Idle EXCEPT !.step = "patch", !.p = p,
                                   !.row = [status |-> s, contract |-> k]]
        BY <1>type, <3>2 DEF PatchRead
      <4>2. req'[c].m = 0
        BY <4>1 DEF Idle
      <4> QED
        BY <1>idle, <4>2
    <3> QED
      BY <2>3, <3>1, <3>2
  <2> QED
    BY <1>2, <2>1, <2>2, <2>3 DEF PlanSteps
<1>3. ASSUME NEW c \in Clients, Ledger(c) PROVE SettledInv'
  <2>1. req'[c].step # "change"
    BY <1>1, <1>3, LedgerSteps
  <2> QED
    BY <1>idle, <2>1
<1>4. ASSUME NEW c \in Clients, NEW p \in Plans, NEW t \in Terms, MilestoneCreate(c, p, t)
      PROVE  SettledInv'
  <2>1. req'[c].m = 0
    BY <1>type, <1>4 DEF MilestoneCreate, Idle
  <2> QED
    BY <1>idle, <2>1
<1>5. ASSUME NEW c \in Clients, NEW p \in Plans, NEW t \in Terms, NEW m \in Milestones,
             MilestoneChange(c, m, p, t)
      PROVE  SettledInv'
  <2>1. req'[c].m = m
    BY <1>type, <1>5 DEF MilestoneChange, Idle
  <2>2. req'[c].mrow = [milestone[m] EXCEPT !.plan = p, !.terms = t]
    BY <1>type, <1>5 DEF MilestoneChange, Idle
  <2>3. req'[c].mrow.plan = p /\ req'[c].mrow.terms = t
    BY <1>type, <2>2 DEF MilestoneRows
  <2>4. used'[m] => Settled(m, p, t)'
    BY <1>5 DEF MilestoneChange, Settled
  <2> QED
    BY <1>1, <2>1, <2>3, <2>4 DEF Serial, SettledInv, Settled
<1>6. ASSUME NEW c \in Clients, NEW m \in Milestones, MilestoneSave(c, m) \/ MilestoneRemove(c, m)
      PROVE  SettledInv'
  <2>1. req'[c].step # "change"
    BY <1>type, <1>6 DEF MilestoneSave, MilestoneRemove, Starts, Done, Idle
  <2> QED
    BY <1>idle, <2>1
<1>7. CASE UNCHANGED vars
  BY <1>1, <1>7 DEF vars, SettledInv, IsAt, Settled
<1> QED
  BY <1>2, <1>3, <1>4, <1>5, <1>6, <1>7 DEF Next, Step, MilestoneSteps

\* A request that overlaps no other never changes the terms of payment of a
\* milestone that has transactions.
THEOREM SerialTermsFixed == ASSUME Serial PROVE Spec => TermsFixedOncePaid
<1> DEFINE Fixed(m) == /\ milestone'[m].plan = milestone[m].plan
                       /\ milestone'[m].terms.type = milestone[m].terms.type
                       /\ milestone'[m].terms.value = milestone[m].terms.value
<1>1. ASSUME SettledInv, [Next]_vars
      PROVE  [\A m \in Milestones : used[m] => Fixed(m)]_vars
  <2> SUFFICES ASSUME Next, NEW m \in Milestones, used[m] PROVE Fixed(m)
    BY <1>1
  <2>type. req \in [Clients -> Requests] /\ milestone \in [Milestones -> MilestoneRows]
    BY <1>1 DEF SettledInv, LedgerInv, TypeOK
  <2>1. PICK c \in Clients : Step(c)
    BY DEF Next
  <2>2. CASE PlanSteps(c)
    BY <2>type, <2>2, ZenonT(30) DEF PlanSteps, PlanCreate, PatchRead, PatchSave, ActivateCheck,
       ActivateSave, Refreshed, PlanDestroy, MilestoneRows
  <2>3. CASE Ledger(c)
    BY <1>1, <2>3, LedgerSteps DEF SettledInv
  <2>4. ASSUME NEW n \in Milestones, MilestoneSave(c, n) PROVE Fixed(m)
    <3>1. CASE m = n
      <4>1. milestone[m].plan # 0
        BY <1>1 DEF SettledInv, LedgerInv, UsedInv
      <4>2. req[c].m = m /\ m # 0
        BY <2>4, <3>1, <4>1, NumbersNotZero DEF MilestoneSave
      <4>3. Settled(m, req[c].mrow.plan, req[c].mrow.terms)
        BY <1>1, <2>4, <4>2 DEF SettledInv, MilestoneSave
      <4>4. milestone'[m] \in {milestone[m], req[c].mrow}
        BY <2>type, <2>4, <3>1 DEF MilestoneSave
      <4> QED
        BY <4>3, <4>4 DEF Settled
    <3>2. CASE m # n
      BY <2>type, <2>4, <3>2 DEF MilestoneSave
    <3> QED
      BY <3>1, <3>2
  <2>5. ASSUME NEW n \in Milestones, MilestoneRemove(c, n) PROVE Fixed(m)
    BY <2>type, <2>5 DEF MilestoneRemove, Removable
  <2>6. CASE \E p \in Plans, t \in Terms :
                \/ MilestoneCreate(c, p, t)
                \/ \E n \in Milestones : MilestoneChange(c, n, p, t)
    BY <2>6 DEF MilestoneCreate, MilestoneChange
  <2> QED
    BY <2>1, <2>2, <2>3, <2>4, <2>5, <2>6 DEF Step, MilestoneSteps
<1>2. SettledInv /\ [Next]_vars => SettledInv'
  BY SettledNext
<1>3. Init => SettledInv
  BY LedgerInit DEF Init, SettledInv, IsAt, Idle
<1> QED
  BY <1>1, <1>2, <1>3, PTL DEF Spec, TermsFixedOncePaid

-----------------------------------------------------------------------------
(* Sums over the milestones of a plan *)

LEMMA PercentNatural ==
    ASSUME milestone \in [Milestones -> MilestoneRows], NEW p, NEW e
    PROVE  /\ IsFiniteSet(Percentages(p) \ e)
           /\ Natural(Values, Percentages(p) \ e)
           /\ PercentTotal(p, e) \in Nat
<1>1. IsFiniteSet(Milestones)
  BY BoundsAssumption, FS_Interval DEF Milestones
<1>2. Percentages(p) \ e \subseteq Milestones
  BY DEF Percentages, MilestonesOf
<1>3. IsFiniteSet(Percentages(p) \ e)
  BY <1>1, <1>2, FS_Subset
<1>4. ASSUME NEW m \in Milestones PROVE Values[m] \in Nat
  <2>1. milestone[m].terms \in Terms \cup {NoTerms}
    BY DEF MilestoneRows
  <2>2. milestone[m].terms.value \in Nat
    BY <2>1, TermsAssumption DEF NoTerms
  <2> QED
    BY <2>2 DEF Values
<1>5. Natural(Values, Percentages(p) \ e)
  BY <1>2, <1>4 DEF Natural
<1> QED
  BY <1>3, <1>5, SumNat DEF PercentTotal

LEMMA PercentTyped ==
    ASSUME milestone' \in [Milestones -> MilestoneRows], NEW p, NEW e
    PROVE  /\ IsFiniteSet(Percentages(p)' \ e)
           /\ Natural(Values', Percentages(p)' \ e)
           /\ PercentTotal(p, e)' \in Nat
<1>1. IsFiniteSet(Milestones)
  BY BoundsAssumption, FS_Interval DEF Milestones
<1>2. Percentages(p)' \ e \subseteq Milestones
  BY DEF Percentages, MilestonesOf
<1>3. IsFiniteSet(Percentages(p)' \ e)
  BY <1>1, <1>2, FS_Subset
<1>4. ASSUME NEW m \in Milestones PROVE Values'[m] \in Nat
  <2>1. milestone'[m].terms \in Terms \cup {NoTerms}
    BY DEF MilestoneRows
  <2>2. milestone'[m].terms.value \in Nat
    BY <2>1, TermsAssumption DEF NoTerms
  <2> QED
    BY <2>2 DEF Values
<1>5. Natural(Values', Percentages(p)' \ e)
  BY <1>2, <1>4 DEF Natural
<1> QED
  BY <1>3, <1>5, SumNat DEF PercentTotal

\* Without one milestone a plan has no more per cent.
LEMMA PercentExcept ==
    ASSUME milestone \in [Milestones -> MilestoneRows], NEW p, NEW m
    PROVE  PercentTotal(p, {m}) <= PercentTotal(p, {})
<1>1. Percentages(p) \ {m} \in SUBSET (Percentages(p) \ {})
  OBVIOUS
<1>2. SumFunctionOnSet(Values, Percentages(p) \ {m}) <= SumFunctionOnSet(Values, Percentages(p) \ {})
  BY <1>1, PercentNatural, SumFewer
<1> QED
  BY <1>2 DEF PercentTotal

\* A step that touches one milestone at most leaves what the others add up to.
LEMMA PercentOthers ==
    ASSUME milestone \in [Milestones -> MilestoneRows], milestone' \in [Milestones -> MilestoneRows],
           NEW p, NEW e,
           \A m \in Milestones \ e : /\ milestone'[m].plan = milestone[m].plan
                                     /\ milestone'[m].terms = milestone[m].terms
    PROVE  PercentTotal(p, e)' = PercentTotal(p, e)
<1> DEFINE S == Percentages(p) \ e
<1>1. Percentages(p)' \ e = S
  BY DEF Percentages, MilestonesOf
<1>2. \A m \in S : Values'[m] = Values[m]
  BY DEF Values, Percentages, MilestonesOf
<1>3. IsFiniteSet(S) /\ Natural(Values, S)
  BY PercentNatural
<1>5. Integral(Values, S)
  <2> HIDE DEF S
  <2> QED
    BY <1>3 DEF Natural, Integral
<1>4. SumFunctionOnSet(Values', S) = SumFunctionOnSet(Values, S)
  <2> HIDE DEF S
  <2> QED
    BY <1>2, <1>3, <1>5, SumSame
<1> QED
  BY <1>1, <1>4 DEF PercentTotal

LEMMA RowsAlone ==
    ASSUME UNCHANGED <<plan, milestone>>
    PROVE  /\ \A p : Balanced(p)' <=> Balanced(p)
           /\ \A p, t, e : FitsPercent(p, t, e)' <=> FitsPercent(p, t, e)
<1>1. \A p : MilestonesOf(p)' = MilestonesOf(p)
  BY DEF MilestonesOf
<1>2. Values' = Values
  BY DEF Values
<1>3. \A p : Percentages(p)' = Percentages(p)
  BY <1>1 DEF Percentages
<1>4. \A p, e : PercentTotal(p, e)' = PercentTotal(p, e)
  BY <1>2, <1>3 DEF PercentTotal
<1>5. [m \in Milestones |-> Amount(m)]' = [m \in Milestones |-> Amount(m)]
  BY DEF Amount
<1>6. \A p : Total(p)' = Total(p)
  BY <1>1, <1>5 DEF Total
<1> QED
  BY <1>1, <1>4, <1>6 DEF Balanced, FitsPercent

-----------------------------------------------------------------------------
(* Requests that do not overlap: what was checked still holds *)

PendingChange(c) ==
    LET m == req[c].m row == req[c].mrow IN
    /\ FitsPercent(row.plan, row.terms, {m})
    /\ IF m = 0 THEN row.status = "open"
       ELSE milestone[m].plan # 0 /\ row.status = milestone[m].status

PendingInv ==
    \A c \in Clients : /\ IsAt(c, "change") => PendingChange(c)
                       /\ IsAt(c, "activate") => Balanced(req[c].p)

LEMMA PendingNext == Serial /\ LedgerInv /\ PendingInv /\ [Next]_vars => PendingInv'
<1> SUFFICES ASSUME Serial, LedgerInv, PendingInv, [Next]_vars PROVE PendingInv'
  OBVIOUS
<1>type. req \in [Clients -> Requests] /\ milestone \in [Milestones -> MilestoneRows]
  BY DEF LedgerInv, TypeOK
<1>one. ASSUME NEW c \in Clients, IsAt(c, "change")' => PendingChange(c)',
               IsAt(c, "activate")' => Balanced(req[c].p)'
        PROVE  PendingInv'
  BY <1>one DEF Serial, PendingInv
<1>idle. ASSUME NEW c \in Clients, req'[c].step \notin {"change", "activate"} PROVE PendingInv'
  BY <1>idle, <1>one DEF IsAt
<1>1. ASSUME NEW c \in Clients, PlanSteps(c) PROVE PendingInv'
  <2>1. CASE PatchSave(c) \/ ActivateSave(c)
    <3>1. req'[c] = Idle
      BY <1>type, <2>1 DEF PatchSave, ActivateSave, Done
    <3> QED
      BY <1>idle, <3>1 DEF Idle
  <2>2. ASSUME NEW p \in Plans, ActivateCheck(c, p) PROVE PendingInv'
    <3>1. req'[c] = [Idle EXCEPT !.step = "activate", !.p = p]
      BY <1>type, <2>2 DEF ActivateCheck
    <3>2. req'[c].step = "activate" /\ req'[c].p = p
      BY <3>1 DEF Idle
    <3>3. Balanced(p) /\ UNCHANGED <<plan, milestone>>
      BY <2>2 DEF ActivateCheck
    <3>4. Balanced(p)'
      BY <3>3, RowsAlone
    <3>5. Balanced(req[c].p)'
      BY <3>2, <3>4 DEF Balanced, MilestonesOf, Total, PercentTotal, Percentages
    <3> QED
      BY <1>one, <3>2, <3>5 DEF IsAt
  <2>3. ASSUME NEW p \in Plans, PlanDestroy(c, p) PROVE PendingInv'
    BY <1>idle, <2>3 DEF PlanDestroy, Starts, Idle
  <2>4. ASSUME NEW p \in Plans, NEW s \in Statuses, NEW k \in Contracts,
               PlanCreate(c, p, s, k) \/ PatchRead(c, p, s, k)
        PROVE  PendingInv'
    <3>1. CASE PlanCreate(c, p, s, k)
      BY <1>idle, <3>1 DEF PlanCreate, Starts, Idle
    <3>2. CASE PatchRead(c, p, s, k)
      <4>1. req'[c] = [Idle EXCEPT !.step = "patch", !.p = p,
                                   !.row = [status |-> s, contract |-> k]]
        BY <1>type, <3>2 DEF PatchRead
      <4> QED
        BY <1>idle, <4>1 DEF Idle
    <3> QED
      BY <2>4, <3>1, <3>2
  <2> QED
    BY <1>1, <2>1, <2>2, <2>3, <2>4 DEF PlanSteps
<1>2. ASSUME NEW c \in Clients, Ledger(c) PROVE PendingInv'
  BY <1>idle, <1>2, LedgerSteps
<1>3. ASSUME NEW c \in Clients, NEW p \in Plans, NEW t \in Terms, MilestoneCreate(c, p, t)
      PROVE  PendingInv'
  <2>1. req'[c] = [Idle EXCEPT !.step = "change", !.mrow = [plan |-> p, terms |-> t, status |-> "open"]]
    BY <1>type, <1>3 DEF MilestoneCreate
  <2>2. /\ req'[c].step = "change" /\ req'[c].m = 0
        /\ req'[c].mrow = [plan |-> p, terms |-> t, status |-> "open"]
    BY <2>1 DEF Idle
  <2>3. FitsPercent(p, t, {}) /\ UNCHANGED <<plan, milestone>>
    BY <1>3 DEF MilestoneCreate
  <2>4. Percentages(p) \ {0} = Percentages(p) \ {}
    BY NumbersNotZero DEF Percentages, MilestonesOf
  <2>5. FitsPercent(p, t, {0})
    BY <2>3, <2>4 DEF FitsPercent, PercentTotal
  <2>6. FitsPercent(p, t, {0})'
    BY <2>3, <2>5, RowsAlone
  <2>7. FitsPercent(req[c].mrow.plan, req[c].mrow.terms, {req[c].m})'
    BY <2>2, <2>6 DEF FitsPercent, PercentTotal, Percentages, MilestonesOf
  <2>8. PendingChange(c)'
    BY <2>2, <2>7 DEF PendingChange
  <2> QED
    BY <1>one, <2>2, <2>8 DEF IsAt
<1>4. ASSUME NEW c \in Clients, NEW p \in Plans, NEW t \in Terms, NEW m \in Milestones,
             MilestoneChange(c, m, p, t)
      PROVE  PendingInv'
  <2>1. req'[c] = [Idle EXCEPT !.step = "change", !.m = m,
                               !.mrow = [milestone[m] EXCEPT !.plan = p, !.terms = t]]
    BY <1>type, <1>4 DEF MilestoneChange
  <2>2. /\ req'[c].step = "change" /\ req'[c].m = m
        /\ req'[c].mrow = [milestone[m] EXCEPT !.plan = p, !.terms = t]
    BY <2>1 DEF Idle
  <2>3. /\ req'[c].mrow.plan = p /\ req'[c].mrow.terms = t
        /\ req'[c].mrow.status = milestone[m].status
    BY <1>type, <2>2 DEF MilestoneRows
  <2>4. FitsPercent(p, t, {m}) /\ UNCHANGED <<plan, milestone>> /\ milestone[m].plan # 0
    BY <1>4 DEF MilestoneChange
  <2>5. FitsPercent(p, t, {m})'
    BY <2>4, RowsAlone
  <2>6. FitsPercent(req[c].mrow.plan, req[c].mrow.terms, {req[c].m})'
    BY <2>2, <2>3, <2>5 DEF FitsPercent, PercentTotal, Percentages, MilestonesOf
  <2>7. PendingChange(c)'
    BY <2>2, <2>3, <2>4, <2>6, NumbersNotZero DEF PendingChange
  <2> QED
    BY <1>one, <2>2, <2>7 DEF IsAt
<1>5. ASSUME NEW c \in Clients, NEW m \in Milestones, MilestoneSave(c, m) \/ MilestoneRemove(c, m)
      PROVE  PendingInv'
  BY <1>type, <1>idle, <1>5 DEF MilestoneSave, MilestoneRemove, Starts, Done, Idle
<1>6. CASE UNCHANGED vars
  <2>1. UNCHANGED <<plan, milestone>> /\ req' = req
    BY <1>6 DEF vars
  <2>2. ASSUME NEW c \in Clients PROVE /\ FitsPercent(req[c].mrow.plan, req[c].mrow.terms, {req[c].m})'
                                          <=> FitsPercent(req[c].mrow.plan, req[c].mrow.terms, {req[c].m})
                                       /\ Balanced(req[c].p)' <=> Balanced(req[c].p)
    <3>1. \A p, t, e : FitsPercent(p, t, e)' <=> FitsPercent(p, t, e)
      BY <2>1, RowsAlone
    <3>2. \A p : Balanced(p)' <=> Balanced(p)
      BY <2>1, RowsAlone
    <3>3. FitsPercent(req[c].mrow.plan, req[c].mrow.terms, {req[c].m})'
          <=> FitsPercent(req[c].mrow.plan, req[c].mrow.terms, {req[c].m})
      <4>1. PICK p, t, m : p = req[c].mrow.plan /\ t = req[c].mrow.terms /\ m = req[c].m
        OBVIOUS
      <4>2. FitsPercent(p, t, {m})' <=> FitsPercent(p, t, {m})
        BY <3>1
      <4>3. p = req'[c].mrow.plan /\ t = req'[c].mrow.terms /\ m = req'[c].m
        BY <2>1, <4>1
      <4>4. FitsPercent(req[c].mrow.plan, req[c].mrow.terms, {req[c].m})' <=> FitsPercent(p, t, {m})'
        BY <4>3 DEF FitsPercent, PercentTotal, Percentages, MilestonesOf
      <4> QED
        BY <4>1, <4>2, <4>4
    <3> QED
      BY <2>1, <3>2, <3>3 DEF Balanced, MilestonesOf, Total, PercentTotal, Percentages
  <2> QED
    BY <2>1, <2>2 DEF PendingInv, PendingChange, IsAt
<1> QED
  BY <1>1, <1>2, <1>3, <1>4, <1>5, <1>6 DEF Next, Step, MilestoneSteps

-----------------------------------------------------------------------------
(* Percentages stay within 100 *)

LEMMA PercentSave ==
    ASSUME LedgerInv, LedgerInv', PendingInv, PercentWithin100,
           NEW c \in Clients, NEW n \in Milestones, MilestoneSave(c, n)
    PROVE  PercentWithin100'
<1> SUFFICES ASSUME NEW q \in Plans PROVE PercentTotal(q, {})' <= 100
  BY DEF PercentWithin100
<1> DEFINE row == req[c].mrow
           id == req[c].m
<1>type. /\ milestone \in [Milestones -> MilestoneRows] /\ milestone' \in [Milestones -> MilestoneRows]
         /\ req \in [Clients -> Requests]
  BY DEF LedgerInv, TypeOK
<1>1. \A m \in Milestones \ {n} : milestone'[m] = milestone[m]
  BY <1>type DEF MilestoneSave
<1>2. PercentTotal(q, {n})' = PercentTotal(q, {n})
  BY <1>type, <1>1, PercentOthers
<1>3. PercentTotal(q, {n}) <= PercentTotal(q, {}) /\ PercentTotal(q, {}) <= 100
  BY <1>type, PercentExcept DEF PercentWithin100
<1>4. PercentTotal(q, {n}) \in Nat /\ PercentTotal(q, {}) \in Nat /\ PercentTotal(q, {n})' \in Nat
      /\ PercentTotal(q, {})' \in Nat
  BY <1>type, PercentNatural, PercentTyped
<1>5. PercentTotal(q, {})' = PercentTotal(q, {n})' + (IF n \in Percentages(q)' THEN Values'[n] ELSE 0)
  <2> DEFINE S == Percentages(q)'
             v == Values'
  <2>1. IsFiniteSet(S \ {}) /\ Natural(v, S \ {}) /\ S \ {} = S
    BY <1>type, PercentTyped
  <2>2. IsFiniteSet(S) /\ Natural(v, S)
    BY <2>1
  <2>3. SumFunctionOnSet(v, S) = SumFunctionOnSet(v, S \ {n}) + (IF n \in S THEN v[n] ELSE 0)
    <3> HIDE DEF S, v
    <3>1. Integral(v, S)
      BY <2>2 DEF Natural, Integral
    <3> QED
      BY <2>2, <3>1, SumWithout
  <2> QED
    BY <2>1, <2>3 DEF PercentTotal
<1>6. CASE n \notin Percentages(q)'
  BY <1>2, <1>3, <1>4, <1>5, <1>6
<1>7. CASE milestone' = milestone
  <2>1. PercentTotal(q, {})' = PercentTotal(q, {})
    BY <1>type, <1>7, PercentOthers
  <2> QED
    BY <1>3, <2>1
<1>8. CASE n \in Percentages(q)' /\ milestone' # milestone
  <2>1. milestone'[n] = row
    BY <1>type, <1>8 DEF MilestoneSave
  <2>2. row.plan = q /\ row.terms.type = "percentage" /\ Values'[n] = row.terms.value
    BY <1>8, <2>1 DEF Percentages, MilestonesOf, Values
  <2>3. PendingChange(c)
    BY DEF PendingInv, MilestoneSave
  <2>4. FitsPercent(row.plan, row.terms, {id})
    BY <2>3 DEF PendingChange
  <2>5. PercentTotal(row.plan, {id}) + row.terms.value <= 100
    BY <2>2, <2>4 DEF FitsPercent
  <2>6. PercentTotal(q, {id}) + Values'[n] <= 100
    BY <2>2, <2>5 DEF PercentTotal, Percentages, MilestonesOf
  <2>7. Percentages(q) \ {n} = Percentages(q) \ {id}
    <3>1. CASE n = id
      BY <3>1
    <3>2. CASE n # id
      <4>1. milestone[n].plan = 0 /\ (id = 0 \/ milestone[id].plan = 0)
        BY <3>2 DEF MilestoneSave
      <4>2. n \notin Percentages(q) /\ id \notin Percentages(q)
        BY <4>1, NumbersNotZero DEF Percentages, MilestonesOf
      <4> QED
        BY <4>2
    <3> QED
      BY <3>1, <3>2
  <2>8. PercentTotal(q, {n}) = PercentTotal(q, {id})
    BY <2>7 DEF PercentTotal
  <2> QED
    BY <1>2, <1>5, <1>8, <2>6, <2>8
<1> QED
  BY <1>6, <1>7, <1>8

LEMMA PercentNext ==
    LedgerInv /\ PendingInv /\ PercentWithin100 /\ [Next]_vars => PercentWithin100'
<1> SUFFICES ASSUME LedgerInv, PendingInv, PercentWithin100, [Next]_vars PROVE PercentWithin100'
  OBVIOUS
<1>1. LedgerInv'
  BY LedgerNext
<1>type. milestone \in [Milestones -> MilestoneRows] /\ milestone' \in [Milestones -> MilestoneRows]
  BY <1>1 DEF LedgerInv, TypeOK
<1>same. ASSUME \A m \in Milestones : /\ milestone'[m].plan = milestone[m].plan
                                      /\ milestone'[m].terms = milestone[m].terms
         PROVE  PercentWithin100'
  <2>1. ASSUME NEW p \in Plans PROVE PercentTotal(p, {})' = PercentTotal(p, {})
    BY <1>type, <1>same, PercentOthers
  <2> QED
    BY <2>1 DEF PercentWithin100
<1>2. ASSUME NEW c \in Clients, PlanSteps(c) PROVE PercentWithin100'
  <2>1. \A m \in Milestones : /\ milestone'[m].plan = milestone[m].plan
                              /\ milestone'[m].terms = milestone[m].terms
    BY <1>type, <1>2, ZenonT(30) DEF PlanSteps, PlanCreate, PatchRead, PatchSave, ActivateCheck,
       ActivateSave, Refreshed, PlanDestroy, MilestoneRows
  <2> QED
    BY <1>same, <2>1
<1>3. ASSUME NEW c \in Clients, Ledger(c) PROVE PercentWithin100'
  <2>1. \A m \in Milestones : /\ milestone'[m].plan = milestone[m].plan
                              /\ milestone'[m].terms = milestone[m].terms
    BY <1>3, LedgerSteps
  <2> QED
    BY <1>same, <2>1
<1>4. ASSUME NEW c \in Clients, NEW n \in Milestones, MilestoneSave(c, n) PROVE PercentWithin100'
  BY <1>1, <1>4, PercentSave
<1>5. ASSUME NEW c \in Clients, NEW n \in Milestones, MilestoneRemove(c, n) PROVE PercentWithin100'
  <2> SUFFICES ASSUME NEW p \in Plans PROVE PercentTotal(p, {})' <= 100
    BY DEF PercentWithin100
  <2>1. milestone'[n] = NoMilestone /\ \A m \in Milestones \ {n} : milestone'[m] = milestone[m]
    BY <1>type, <1>5 DEF MilestoneRemove
  <2>2. PercentTotal(p, {n})' = PercentTotal(p, {n})
    BY <1>type, <2>1, PercentOthers
  <2>3. Percentages(p)' \ {n} = Percentages(p)' \ {}
    BY <2>1 DEF Percentages, MilestonesOf, NoMilestone, NoTerms
  <2>4. PercentTotal(p, {})' = PercentTotal(p, {n})'
    BY <2>3 DEF PercentTotal
  <2>5. PercentTotal(p, {n}) <= PercentTotal(p, {}) /\ PercentTotal(p, {}) <= 100
    BY <1>type, PercentExcept DEF PercentWithin100
  <2>6. PercentTotal(p, {n}) \in Nat /\ PercentTotal(p, {}) \in Nat
    BY <1>type, PercentNatural
  <2> QED
    BY <2>2, <2>4, <2>5, <2>6
<1>6. ASSUME NEW c \in Clients, NEW p \in Plans, NEW t \in Terms,
             MilestoneCreate(c, p, t) \/ \E m \in Milestones : MilestoneChange(c, m, p, t)
      PROVE  PercentWithin100'
  <2>1. milestone' = milestone
    BY <1>6 DEF MilestoneCreate, MilestoneChange
  <2> QED
    BY <1>same, <2>1
<1>7. CASE UNCHANGED vars
  BY <1>same, <1>7 DEF vars
<1> QED
  BY <1>2, <1>3, <1>4, <1>5, <1>6, <1>7 DEF Next, Step, MilestoneSteps

LEMMA PercentInit == Init => PercentWithin100
<1> SUFFICES ASSUME Init, NEW p \in Plans PROVE PercentTotal(p, {}) <= 100
  BY DEF PercentWithin100
<1>1. Percentages(p) \ {} = {}
  BY NumbersNotZero DEF Init, Percentages, MilestonesOf, NoMilestone
<1>2. PercentTotal(p, {}) = 0
  BY <1>1, SumEmpty DEF PercentTotal
<1> QED
  BY <1>2

-----------------------------------------------------------------------------
(* Statuses are those that payments give *)

OpenUntilPaid == \A m \in Milestones : ~used[m] => milestone[m].status = "open"

Priced(m) == milestone[m].status = Evaluated(Outstanding(m), paid[m])
StatusInv ==
    /\ OpenUntilPaid
    /\ \A m \in Milestones : milestone[m].plan # 0 /\ IsActive(milestone[m].plan) => Priced(m)

LEMMA AmountPositive ==
    ASSUME LedgerInv, LiveInv, NoneRoundsAway, NEW m \in Milestones, milestone[m].plan # 0
    PROVE  Amount(m) > 0
<1>1. milestone[m].plan \in Plans /\ Exists(milestone[m].plan)
  BY BoundsAssumption DEF LedgerInv, TypeOK, BelongsInv, MilestoneRows, Plans
<1>2. plan[milestone[m].plan].contract \in Contracts /\ milestone[m].terms \in Terms
  BY <1>1 DEF LiveInv
<1> QED
  BY <1>2 DEF NoneRoundsAway, Amount

\* Where nothing is paid and something is due, a milestone is open.
LEMMA UnpaidIsOpen ==
    ASSUME LedgerInv, LiveInv, NoneRoundsAway, NEW m \in Milestones, milestone[m].plan # 0, ~used[m]
    PROVE  Evaluated(Outstanding(m), paid[m]) = "open"
<1>1. paid[m] = 0 /\ Amount(m) > 0
  BY AmountPositive DEF LiveInv
<1>2. Amount(m) \in Int
  BY AmountInt DEF AmountsInt
<1>3. Outstanding(m) > 0
  BY <1>1, <1>2 DEF Outstanding
<1> QED
  BY <1>1, <1>3, <1>2 DEF Evaluated, Outstanding

\* A milestone whose plan, contract, terms, status and payments stay, stays priced.
LEMMA PricedAlone ==
    ASSUME NEW m \in Milestones, Priced(m), paid'[m] = paid[m],
           milestone'[m].plan = milestone[m].plan, milestone'[m].status = milestone[m].status,
           milestone'[m].terms.type = milestone[m].terms.type,
           milestone'[m].terms.value = milestone[m].terms.value,
           plan'[milestone[m].plan].contract = plan[milestone[m].plan].contract
    PROVE  Priced(m)'
<1>1. Amount(m)' = Amount(m)
  BY DEF Amount, AmountOf
<1> QED
  BY <1>1 DEF Priced, Outstanding

Unpaids == \A m \in Milestones : milestone[m].plan # 0 /\ ~used[m] =>
               Evaluated(Outstanding(m), paid[m]) = "open"

LEMMA UnpaidsAreOpen == ASSUME NoneRoundsAway PROVE LedgerInv /\ LiveInv => Unpaids
BY UnpaidIsOpen DEF Unpaids

LEMMA UnpaidsStayOpen == ASSUME NoneRoundsAway PROVE LedgerInv' /\ LiveInv' => Unpaids'
BY UnpaidsAreOpen, PTL

LEMMA OpenNext ==
    ASSUME NoneRoundsAway, LedgerInv, LiveInv, PendingInv, OpenUntilPaid, [Next]_vars
    PROVE  OpenUntilPaid'
<1>type. milestone \in [Milestones -> MilestoneRows] /\ used \in [Milestones -> BOOLEAN]
         /\ req \in [Clients -> Requests]
  BY DEF LedgerInv, TypeOK
<1>1. ASSUME NEW c \in Clients, PlanSteps(c), ~ActivateSave(c) PROVE OpenUntilPaid'
  BY <1>1 DEF PlanSteps, PlanCreate, PatchRead, PatchSave, ActivateCheck, PlanDestroy, OpenUntilPaid
<1>2. ASSUME NEW c \in Clients, ActivateSave(c) PROVE OpenUntilPaid'
  <2> SUFFICES ASSUME NEW m \in Milestones, ~used'[m] PROVE milestone'[m].status = "open"
    BY DEF OpenUntilPaid
  <2>1. used' = used /\ milestone[m].status = "open"
    BY <1>2 DEF ActivateSave, OpenUntilPaid
  <2>2. milestone[m].plan # 0 => Evaluated(Outstanding(m), paid[m]) = "open"
    BY <2>1, UnpaidsAreOpen DEF Unpaids
  <2>3. req[c].p # 0
    BY <1>2, NumbersNotZero DEF ActivateSave, LedgerInv, ActivateInv
  <2>4. milestone' = milestone \/ milestone' = Refreshed(req[c].p)
    BY <1>2 DEF ActivateSave
  <2>5. Refreshed(req[c].p)[m].status \in {milestone[m].status} \cup
           (IF milestone[m].plan = req[c].p THEN {Evaluated(Outstanding(m), paid[m])} ELSE {})
    BY <1>type DEF Refreshed, MilestoneRows
  <2> QED
    BY <2>1, <2>2, <2>3, <2>4, <2>5
<1>3. ASSUME NEW c \in Clients, NEW n \in Milestones, MilestoneSave(c, n) PROVE OpenUntilPaid'
  <2> SUFFICES ASSUME NEW m \in Milestones, ~used'[m] PROVE milestone'[m].status = "open"
    BY DEF OpenUntilPaid
  <2>1. used' = used /\ milestone[m].status = "open"
    BY <1>3 DEF MilestoneSave, OpenUntilPaid
  <2>2. PendingChange(c)
    BY <1>3 DEF PendingInv, MilestoneSave
  <2>3. milestone'[m] = milestone[m] \/ (m = n /\ milestone'[m] = req[c].mrow)
    BY <1>type, <1>3 DEF MilestoneSave
  <2>4. m = n => req[c].mrow.status = "open"
    BY <1>3, <2>1, <2>2 DEF PendingChange, MilestoneSave
  <2> QED
    BY <2>1, <2>3, <2>4
<1>4. ASSUME NEW c \in Clients, NEW n \in Milestones, MilestoneRemove(c, n) PROVE OpenUntilPaid'
  BY <1>type, <1>4 DEF MilestoneRemove, OpenUntilPaid, NoMilestone
<1>5. ASSUME NEW c \in Clients, NEW p \in Plans, NEW t \in Terms,
             MilestoneCreate(c, p, t) \/ \E m \in Milestones : MilestoneChange(c, m, p, t)
      PROVE  OpenUntilPaid'
  BY <1>5 DEF MilestoneCreate, MilestoneChange, OpenUntilPaid
<1>6. ASSUME NEW c \in Clients, Ledger(c) PROVE OpenUntilPaid'
  <2>1. CASE Post(c)
    <3>1. \A m \in Milestones \ {req[c].m} : milestone'[m] = milestone[m] /\ used'[m] = used[m]
      BY <1>type, <2>1 DEF Post
    <3>2. used'[req[c].m] = TRUE
      BY <1>type, <2>1 DEF Post, LedgerInv, PayInv, Paying
    <3> QED
      BY <3>1, <3>2 DEF OpenUntilPaid
  <2> QED
    BY <1>6, <2>1 DEF Ledger, Pay, Refund, Register, OpenUntilPaid
<1>7. CASE UNCHANGED vars
  BY <1>7 DEF vars, OpenUntilPaid
<1> QED
  BY <1>1, <1>2, <1>3, <1>4, <1>5, <1>6, <1>7 DEF Next, Step, MilestoneSteps

LEMMA StatusNext ==
    ASSUME NoneRoundsAway, SettledInv, LiveInv, LiveInv', PendingInv, StatusInv, [Next]_vars
    PROVE  StatusInv'
<1>0. LedgerInv /\ LedgerInv' /\ OpenUntilPaid'
  BY LedgerNext, OpenNext DEF SettledInv, StatusInv
<1> SUFFICES ASSUME NEW m \in Milestones, milestone'[m].plan # 0, IsActive(milestone[m].plan)'
             PROVE  Priced(m)'
  BY <1>0 DEF StatusInv
<1>type. /\ milestone \in [Milestones -> MilestoneRows] /\ milestone' \in [Milestones -> MilestoneRows]
         /\ plan \in [Plans -> PlanRows] /\ paid \in [Milestones -> Int]
         /\ used \in [Milestones -> BOOLEAN] /\ req \in [Clients -> Requests]
  BY <1>0 DEF LedgerInv, TypeOK
<1>1. CASE ~used'[m]
  BY <1>0, <1>1, UnpaidsStayOpen DEF Unpaids, OpenUntilPaid, Priced
<1> SUFFICES ASSUME used'[m] PROVE Priced(m)'
  BY <1>1
\* Rows that are left alone.
<1>same. ASSUME milestone'[m].plan = milestone[m].plan, milestone'[m].status = milestone[m].status,
                milestone'[m].terms.type = milestone[m].terms.type,
                milestone'[m].terms.value = milestone[m].terms.value,
                paid'[m] = paid[m], plan'[milestone[m].plan] = plan[milestone[m].plan]
         PROVE  Priced(m)'
  <2>1. milestone[m].plan # 0 /\ IsActive(milestone[m].plan)
    BY <1>same DEF IsActive
  <2> QED
    BY <1>same, <2>1, PricedAlone DEF StatusInv
<1>2. ASSUME NEW c \in Clients, PlanSteps(c), ~ActivateSave(c) PROVE Priced(m)'
  <2> DEFINE q == milestone[m].plan
  <2>1. UNCHANGED <<milestone, paid>> /\ q # 0
    BY <1>2 DEF PlanSteps, PlanCreate, PatchRead, PatchSave, ActivateCheck, PlanDestroy
  <2>2. q \in Plans /\ Exists(q) /\ m \in MilestonesOf(q)
    BY <1>0, <1>type, <2>1, BoundsAssumption DEF LedgerInv, BelongsInv, MilestoneRows, Plans, MilestonesOf
  <2>3. plan'[q] = plan[q]
    <3>1. ASSUME NEW p \in Plans, NEW s \in Statuses, NEW k \in Contracts, PlanCreate(c, p, s, k)
          PROVE  plan'[q] = plan[q]
      BY <1>type, <2>2, <3>1 DEF PlanCreate
    <3>2. CASE PatchSave(c)
      <4>1. req[c].row.status # "active"
        BY <1>0, <3>2, StatusesAssumption DEF PatchSave, LedgerInv, PatchInv
      <4>2. plan'[q].status = "active"
        BY <2>1 DEF IsActive
      <4> QED
        BY <1>type, <2>2, <3>2, <4>1, <4>2 DEF PatchSave
    <3>3. ASSUME NEW p \in Plans, PlanDestroy(c, p) PROVE plan'[q] = plan[q]
      BY <1>type, <2>2, <3>3 DEF PlanDestroy
    <3>4. ASSUME NEW p \in Plans, NEW s \in Statuses, NEW k \in Contracts,
                 PatchRead(c, p, s, k) \/ ActivateCheck(c, p)
          PROVE  plan'[q] = plan[q]
      BY <3>4 DEF PatchRead, ActivateCheck
    <3>5. ASSUME NEW p \in Plans, ActivateCheck(c, p) PROVE plan'[q] = plan[q]
      BY <3>5 DEF ActivateCheck
    <3> QED
      BY <1>2, <3>1, <3>2, <3>3, <3>4, <3>5 DEF PlanSteps
  <2> QED
    BY <1>same, <2>1, <2>3
<1>3. ASSUME NEW c \in Clients, ActivateSave(c) PROVE Priced(m)'
  <2> DEFINE p == req[c].p
  <2>1. p \in Plans
    BY <1>0, <1>3 DEF LedgerInv, ActivateInv, ActivateSave
  <2>2. CASE ~UniqueActive(p)
    BY <1>same, <1>3, <2>2 DEF ActivateSave
  <2>3. CASE UniqueActive(p) /\ milestone[m].plan # p
    <3>2. milestone'[m] = milestone[m]
      BY <1>type, <1>3, <2>3 DEF ActivateSave, Refreshed
    <3>3. milestone[m].plan \in Plans
      BY <1>type, <3>2, BoundsAssumption DEF MilestoneRows, Plans
    <3>1. milestone'[m] = milestone[m] /\ plan'[milestone[m].plan] = plan[milestone[m].plan]
      BY <1>type, <1>3, <2>3, <3>2, <3>3 DEF ActivateSave
    <3> QED
      BY <1>3, <1>same, <3>1 DEF ActivateSave
  <2>4. CASE UniqueActive(p) /\ milestone[m].plan = p
    <3>1. milestone'[m] = [milestone[m] EXCEPT !.status = Evaluated(Outstanding(m), paid[m])]
      BY <1>type, <1>3, <2>4 DEF ActivateSave, Refreshed
    <3>2. /\ milestone'[m].plan = p /\ milestone'[m].terms = milestone[m].terms
          /\ milestone'[m].status = Evaluated(Outstanding(m), paid[m])
      BY <1>type, <2>4, <3>1 DEF MilestoneRows
    <3>3. plan'[p].contract = plan[p].contract /\ paid' = paid
      <4>1. plan' = [plan EXCEPT ![p].status = "active"] /\ paid' = paid
        BY <1>3, <2>4 DEF ActivateSave
      <4>2. plan'[p] = [plan[p] EXCEPT !.status = "active"]
        BY <1>type, <2>1, <4>1
      <4> QED
        BY <1>type, <2>1, <4>1, <4>2 DEF PlanRows
    <3>4. Amount(m)' = Amount(m)
      BY <2>4, <3>2, <3>3 DEF Amount, AmountOf
    <3> QED
      BY <3>2, <3>3, <3>4 DEF Priced, Outstanding
  <2> QED
    BY <2>2, <2>3, <2>4
<1>4. ASSUME NEW c \in Clients, NEW n \in Milestones, MilestoneSave(c, n) PROVE Priced(m)'
  <2>1. used[m] /\ milestone[m].plan # 0 /\ UNCHANGED <<plan, paid>>
    BY <1>0, <1>4 DEF MilestoneSave, LedgerInv, UsedInv
  <2>2. milestone'[m] = milestone[m] \/ (m = n /\ milestone'[m] = req[c].mrow)
    BY <1>type, <1>4 DEF MilestoneSave
  <2>3. m = n => req[c].m = m /\ m # 0
    BY <1>4, <2>1, NumbersNotZero DEF MilestoneSave
  <2>4. m = n => Settled(m, req[c].mrow.plan, req[c].mrow.terms)
    BY <1>4, <2>1, <2>3 DEF SettledInv, MilestoneSave
  <2>5. m = n => req[c].mrow.status = milestone[m].status
    BY <1>4, <2>3 DEF PendingInv, PendingChange, MilestoneSave
  <2>6. /\ milestone'[m].plan = milestone[m].plan /\ milestone'[m].status = milestone[m].status
        /\ milestone'[m].terms.type = milestone[m].terms.type
        /\ milestone'[m].terms.value = milestone[m].terms.value
    BY <2>2, <2>4, <2>5 DEF Settled
  <2> QED
    BY <1>same, <2>1, <2>6
<1>5. ASSUME NEW c \in Clients, NEW n \in Milestones, MilestoneRemove(c, n) PROVE Priced(m)'
  <2>1. m # n
    BY <1>5 DEF MilestoneRemove, Removable
  <2>2. milestone'[m] = milestone[m]
    BY <1>type, <1>5, <2>1 DEF MilestoneRemove
  <2> QED
    BY <1>5, <1>same, <2>2 DEF MilestoneRemove
<1>6. ASSUME NEW c \in Clients, NEW p \in Plans, NEW t \in Terms,
             MilestoneCreate(c, p, t) \/ \E n \in Milestones : MilestoneChange(c, n, p, t)
      PROVE  Priced(m)'
  <2>1. UNCHANGED <<plan, milestone, paid>>
    BY <1>6 DEF MilestoneCreate, MilestoneChange
  <2> QED
    BY <1>same, <2>1
<1>7. ASSUME NEW c \in Clients, Ledger(c) PROVE Priced(m)'
  <2> DEFINE n == req[c].m
  <2>1. CASE ~Post(c)
    BY <1>7, <1>same, <2>1 DEF Ledger, Pay, Refund, Register
  <2> SUFFICES ASSUME Post(c) PROVE Priced(m)'
    BY <2>1
  <2>2. plan' = plan
    BY DEF Post
  <2>3. CASE m # n
    <3>1. milestone'[m] = milestone[m] /\ paid'[m] = paid[m]
      BY <1>type, <2>3 DEF Post
    <3> QED
      BY <1>same, <2>2, <3>1
  <2>4. CASE m = n
    <3>1. milestone'[m] = [milestone[m] EXCEPT !.status = Evaluated(Amount(m) - paid'[m], paid'[m])]
      BY <1>type, <2>4 DEF Post
    <3>2. /\ milestone'[m].plan = milestone[m].plan /\ milestone'[m].terms = milestone[m].terms
          /\ milestone'[m].status = Evaluated(Amount(m) - paid'[m], paid'[m])
      BY <1>type, <3>1 DEF MilestoneRows
    <3>3. Amount(m)' = Amount(m)
      BY <2>2, <3>2 DEF Amount
    <3> QED
      BY <3>2, <3>3 DEF Priced, Outstanding
  <2> QED
    BY <2>3, <2>4
<1>8. CASE UNCHANGED vars
  BY <1>same, <1>8 DEF vars
<1> QED
  BY <1>2, <1>3, <1>4, <1>5, <1>6, <1>7, <1>8 DEF Next, Step, MilestoneSteps

-----------------------------------------------------------------------------
(* The plan part of the composition is a FinancialPlan *)

\* Reports read the financial plan and never write it: whatever they do, plans,
\* milestones and payments behave as FinancialPlan says.
THEOREM DeliveryIsFinancial == DeliverySpec => Spec
<1>1. DeliveryInit => Init
  BY DEF DeliveryInit
<1>2. ASSUME [DeliveryNext]_deliveryVars PROVE [Next]_vars
  <2>1. ASSUME NEW c \in Clients, PlanStep(c) PROVE Next
    BY <2>1 DEF PlanStep, Next
  <2>2. ASSUME NEW c \in Clients, ReportStep(c) PROVE UNCHANGED vars
    BY <2>2 DEF ReportStep
  <2>3. CASE UNCHANGED deliveryVars
    BY <2>3 DEF deliveryVars
  <2> QED
    BY <1>2, <2>1, <2>2, <2>3 DEF DeliveryNext
<1> QED
  BY <1>1, <1>2, PTL DEF DeliverySpec, Spec

\* The ledger holds under progress reports as well.
THEOREM DeliveryIsSound == DeliverySpec => []LedgerSound
BY DeliveryIsFinancial, LedgerIsSound, PTL

SerialInv ==
    /\ SettledInv
    /\ LiveInv
    /\ PendingInv
    /\ PercentWithin100
    /\ NoneRoundsAway => StatusInv

LEMMA SerialInit == Init => SerialInv
<1> SUFFICES ASSUME Init PROVE SerialInv
  OBVIOUS
<1>1. SettledInv
  BY LedgerInit DEF Init, SettledInv, IsAt, Idle
<1>2. PendingInv
  BY DEF Init, PendingInv, IsAt, Idle
<1>3. StatusInv
  BY DEF Init, StatusInv, OpenUntilPaid, NoMilestone
<1> QED
  BY <1>1, <1>2, <1>3, LiveInit, PercentInit DEF SerialInv

LEMMA SerialNext == Serial /\ SerialInv /\ [Next]_vars => SerialInv'
<1> SUFFICES ASSUME Serial, SerialInv, [Next]_vars PROVE SerialInv'
  OBVIOUS
<1>1. LedgerInv
  BY DEF SerialInv, SettledInv
<1>2. SettledInv' /\ LiveInv' /\ PendingInv' /\ PercentWithin100'
  BY <1>1, SettledNext, LiveNext, PendingNext, PercentNext DEF SerialInv
<1>3. ASSUME NoneRoundsAway PROVE StatusInv'
  BY <1>2, <1>3, StatusNext DEF SerialInv
<1> QED
  BY <1>2, <1>3 DEF SerialInv

LEMMA SerialAlways == ASSUME Serial PROVE Spec => []SerialInv
<1>1. SerialInv /\ [Next]_vars => SerialInv'
  BY SerialNext
<1> QED
  BY <1>1, SerialInit, PTL DEF Spec

\* PlanCurrent: as long as requests do not overlap, the percentages of every plan
\* fit in it, and the milestones of the active plan have the status that their
\* payments give.
THEOREM PlanIsCurrent == ASSUME Serial PROVE DeliverySpec => []PlanCurrent
<1>1. SerialInv => PlanCurrent
  BY DEF SerialInv, PlanCurrent, StatusCurrent, StatusInv, Priced
<1> QED
  BY <1>1, SerialAlways, DeliveryIsFinancial, PTL

\* ActivationBalanced: as long as requests do not overlap, a plan is activated
\* only while its milestones add up to its contract.
THEOREM ActivationIsBalanced == ASSUME Serial PROVE Spec => ActivationBalanced
<1>1. ASSUME SerialInv, [Next]_vars
      PROVE  [\A p \in Plans : ~IsActive(p) /\ plan'[p].status = "active" =>
                 MilestonesOf(p) # {} /\ Total(p) = plan[p].contract]_vars
  <2> SUFFICES ASSUME Next, NEW q \in Plans, ~IsActive(q), plan'[q].status = "active"
               PROVE  MilestonesOf(q) # {} /\ Total(q) = plan[q].contract
    BY <1>1
  <2>type. plan \in [Plans -> PlanRows] /\ req \in [Clients -> Requests]
    BY <1>1 DEF SerialInv, SettledInv, LedgerInv, TypeOK
  <2>1. PICK c \in Clients : Step(c)
    BY DEF Next
  <2>2. CASE ActivateSave(c)
    <3>1. q = req[c].p
      BY <2>type, <2>2 DEF ActivateSave, IsActive
    <3>2. Balanced(req[c].p)
      BY <1>1, <2>2 DEF SerialInv, PendingInv, ActivateSave
    <3> QED
      BY <3>1, <3>2 DEF Balanced
  <2>3. CASE PatchSave(c)
    <3>1. req[c].row.status # "active"
      BY <1>1, <2>3, StatusesAssumption DEF PatchSave, SerialInv, SettledInv, LedgerInv, PatchInv
    <3> QED
      BY <2>type, <2>3, <3>1 DEF PatchSave, IsActive
  <2>4. ASSUME NEW p \in Plans, NEW s \in Statuses, NEW k \in Contracts, PlanCreate(c, p, s, k)
        PROVE  FALSE
    BY <2>type, <2>4, StatusesAssumption DEF PlanCreate, IsActive
  <2>5. ASSUME NEW p \in Plans, PlanDestroy(c, p) PROVE FALSE
    BY <2>type, <2>5 DEF PlanDestroy, IsActive, NoPlan
  <2>6. plan' # plan
    BY DEF IsActive
  <2> QED
    BY <2>1, <2>2, <2>3, <2>4, <2>5, <2>6 DEF Step, PlanSteps, PatchRead, ActivateCheck, MilestoneSteps,
       MilestoneCreate, MilestoneChange, MilestoneSave, MilestoneRemove, Ledger, Pay, Refund, Register,
       Post
<1> QED
  BY <1>1, SerialAlways, PTL DEF Spec, ActivationBalanced

\* TermsSound: as long as requests do not overlap, a plan is activated only when it
\* adds up, and what was paid keeps its terms.
THEOREM TermsAreSound == ASSUME Serial PROVE DeliverySpec => TermsSound
BY DeliveryIsFinancial, ActivationIsBalanced, SerialTermsFixed, PTL DEF TermsSound

-----------------------------------------------------------------------------
(* Progress is paid for *)

ReportInv ==
    /\ report \in [R!Reports -> R!Rows]
    /\ actual \in [R!Versions -> R!Actuals]
    /\ made \in Nat
    /\ exec \in 0..MaxVersions
    /\ reportReq \in [Clients -> R!Requests]

LEMMA ReportsBlank ==
    R!NoReport \in R!Rows /\ R!NotStarted \in R!Actuals /\ R!Idle \in R!Requests
<1>1. R!NoReport \in R!Rows
  BY ReportsAssumption DEF R!NoReport, R!Rows, R!ReportStatuses, R!Nobody
<1>2. R!NotStarted \in R!Actuals
  BY ReportsAssumption DEF R!NotStarted, R!Actuals, R!NoTime
<1> QED
  BY <1>1, <1>2, ReportsAssumption DEF R!Idle, R!Requests, R!Steps, R!NoVersion

LEMMA FirstFinalType == ASSUME NEW p PROVE R!FirstFinal(p) \in 0..MaxReports
<1>1. R!Reports \subseteq 0..MaxReports /\ 0 \in 0..MaxReports
  BY ReportsAssumption DEF R!Reports
<1> QED
  BY <1>1 DEF R!FirstFinal, R!NoTime

LEMMA CommittedType ==
    ASSUME NEW act \in R!Actuals, NEW p \in Percents
    PROVE  R!Committed(act, p) \in R!Actuals /\ R!Committed(act, p).progress = p
<1>1. CASE p = 0
  BY <1>1, ReportsBlank DEF R!Committed, R!NotStarted
<1>2. CASE p # 0
  <2>1. act.start \in 0..MaxReports /\ act.finish \in 0..MaxReports
    BY DEF R!Actuals
  <2> QED
    BY <1>2, <2>1, FirstFinalType DEF R!Committed, R!Actuals
<1> QED
  BY <1>1, <1>2

\* What a thread holds in memory is well formed.
LEMMA HeldType ==
    ASSUME ReportInv, NEW c \in Clients, NEW s \in R!Steps, NEW r \in R!Reports, NEW row \in R!Rows,
           R!Hold(c, s, r, row)
    PROVE  reportReq' \in [Clients -> R!Requests] /\ reportReq'[c].step = s
<1> DEFINE x == [R!Idle EXCEPT !.step = s, !.r = r, !.row = row, !.v = exec]
<1>1. r \in 0..MaxReports
  BY ReportsAssumption DEF R!Reports
<1>2. x \in R!Requests /\ x.step = s
  BY <1>1, ReportsBlank DEF R!Requests, ReportInv
<1>3. reportReq' = [reportReq EXCEPT ![c] = x]
  BY DEF R!Hold
<1> QED
  BY <1>2, <1>3 DEF ReportInv

LEMMA RowsType ==
    ASSUME NEW row \in R!Rows
    PROVE  /\ \A who \in R!Staff : R!ReviewOf(row, who) \in R!Rows /\ R!FinalOf(row, who) \in R!Rows
           /\ \A p \in Percents : [row EXCEPT !.progress = p] \in R!Rows
           /\ [row EXCEPT !.status = "rejected"] \in R!Rows
BY DEF R!ReviewOf, R!FinalOf, R!Rows, R!ReportStatuses

LEMMA ReceiveKeeps ==
    ASSUME ReportInv, NEW c \in Clients, R!Receive(c)
    PROVE  ReportInv' /\ UNCHANGED actual /\ reportReq'[c].step # "commit"
<1> USE DEF ReportInv
<1>idle. ~R!IsAt(c, "idle") \/ reportReq[c].step # "commit"
  BY DEF R!IsAt
<1>0. PICK r \in R!Reports :
        \/ \E who \in R!Staff : \/ R!ApproveBypass(c, r, who)
                                \/ R!ApproveReview(c, r, who)
                                \/ R!ApproveFinal(c, r, who)
        \/ \E p \in Percents : R!EditRead(c, r, p)
        \/ R!RejectRead(c, r)
        \/ R!Delete(c, r)
  BY DEF R!Receive
<1>row. report[r] \in R!Rows
  OBVIOUS
<1>hold. ASSUME NEW s \in R!Steps \ {"commit"}, NEW row \in R!Rows, R!Hold(c, s, r, row),
                UNCHANGED <<R!others, report, actual>>
         PROVE  ReportInv' /\ UNCHANGED actual /\ reportReq'[c].step # "commit"
  BY <1>hold, HeldType DEF R!others
<1>1. ASSUME NEW who \in R!Staff, R!ApproveBypass(c, r, who)
      PROVE  ReportInv' /\ UNCHANGED actual /\ reportReq'[c].step # "commit"
  <2>1. R!FinalOf(R!ReviewOf(report[r], who), who) \in R!Rows
    BY <1>row, RowsType
  <2> QED
    BY <1>1, <1>hold, <2>1 DEF R!ApproveBypass, R!Steps
<1>2. ASSUME NEW who \in R!Staff, R!ApproveReview(c, r, who)
      PROVE  ReportInv' /\ UNCHANGED actual /\ reportReq'[c].step # "commit"
  <2> DEFINE row == R!ReviewOf(report[r], who)
             held == IF scope = "intra_unit" THEN R!FinalOf(row, who) ELSE row
  <2>1. held \in R!Rows
    BY <1>row, RowsType
  <2>2. R!Hold(c, "approve", r, held) /\ UNCHANGED <<R!others, report, actual>>
    BY <1>2 DEF R!ApproveReview
  <2> HIDE DEF held
  <2> QED
    BY <1>hold, <2>1, <2>2 DEF R!Steps
<1>3. ASSUME NEW who \in R!Staff, R!ApproveFinal(c, r, who)
      PROVE  ReportInv' /\ UNCHANGED actual /\ reportReq'[c].step # "commit"
  <2>1. R!FinalOf(report[r], who) \in R!Rows
    BY <1>row, RowsType
  <2> QED
    BY <1>3, <1>hold, <2>1 DEF R!ApproveFinal, R!Steps
<1>4. ASSUME NEW p \in Percents, R!EditRead(c, r, p)
      PROVE  ReportInv' /\ UNCHANGED actual /\ reportReq'[c].step # "commit"
  <2>1. [report[r] EXCEPT !.progress = p] \in R!Rows
    BY <1>row, RowsType
  <2> QED
    BY <1>4, <1>hold, <2>1 DEF R!EditRead, R!Steps
<1>5. CASE R!RejectRead(c, r)
  <2>1. [report[r] EXCEPT !.status = "rejected"] \in R!Rows
    BY <1>row, RowsType
  <2> QED
    BY <1>5, <1>hold, <2>1 DEF R!RejectRead, R!Steps
<1>6. CASE R!Delete(c, r)
  BY <1>6, ReportsBlank DEF R!Delete, R!others, R!Starts, R!Idle
<1> QED
  BY <1>0, <1>1, <1>2, <1>3, <1>4, <1>5, <1>6

\* Only the end of a commit writes progress, and it writes that of the report.
LEMMA ServeKeeps ==
    ASSUME ReportInv, NEW c \in Clients, R!Serve(c)
    PROVE  /\ ReportInv'
           /\ reportReq'[c].step = "commit" => R!CommitRead(c)
           /\ \A v \in R!Versions : actual'[v].progress > actual[v].progress =>
                 R!IsAt(c, "commit") /\ actual'[v].progress = reportReq[c].row.progress
<1> USE DEF ReportInv
<1>held. reportReq[c].row \in R!Rows /\ reportReq[c].act \in R!Actuals
         /\ reportReq[c].row.progress \in Percents
  BY DEF R!Requests, R!Rows
<1>nat. \A v \in R!Versions : actual[v].progress \in Nat
  BY ReportsAssumption DEF R!Actuals
<1>done. ASSUME R!Done(c) PROVE reportReq' \in [Clients -> R!Requests] /\ reportReq'[c].step = "idle"
  <2>1. reportReq' = [reportReq EXCEPT ![c] = R!Idle]
    BY <1>done DEF R!Done
  <2> QED
    BY <2>1, ReportsBlank DEF R!Idle
<1>same. ASSUME UNCHANGED actual, NEW v \in R!Versions PROVE ~(actual'[v].progress > actual[v].progress)
  BY <1>nat, <1>same
<1>1. CASE R!ApproveSave(c)
  <2>1. report' \in [R!Reports -> R!Rows]
    BY <1>1, <1>held DEF R!ApproveSave
  <2>2. CASE reportReq[c].row.status = "final_approved"
    <3>1. reportReq' = [reportReq EXCEPT ![c].step = "saved"]
      BY <1>1, <2>2 DEF R!ApproveSave
    <3>2. [reportReq[c] EXCEPT !.step = "saved"] \in R!Requests
      BY DEF R!Requests, R!Steps
    <3>3. reportReq'[c].step = "saved"
      BY <3>1 DEF R!Requests
    <3>4. reportReq' \in [Clients -> R!Requests] /\ reportReq'[c].step = "saved"
      BY <3>1, <3>2, <3>3
    <3> QED
      BY <1>1, <1>same, <2>1, <3>4 DEF R!ApproveSave, R!others
  <2>3. CASE reportReq[c].row.status # "final_approved"
    <3>1. R!Done(c)
      BY <1>1, <2>3 DEF R!ApproveSave
    <3> QED
      BY <1>1, <1>done, <1>same, <2>1, <3>1 DEF R!ApproveSave, R!others
  <2> QED
    BY <2>2, <2>3
<1>2. CASE R!ReportSave(c)
  <2>1. report' \in [R!Reports -> R!Rows] /\ R!Done(c)
    BY <1>2, <1>held DEF R!ReportSave
  <2> QED
    BY <1>2, <1>done, <1>same, <2>1 DEF R!ReportSave, R!others
<1>3. CASE R!CommitRead(c)
  <2>1. reportReq[c].v \in R!Versions
    BY <1>3, ReportsAssumption DEF R!CommitRead, R!Versions, R!NoVersion, R!Requests
  <2>2. actual[reportReq[c].v] \in R!Actuals
    BY <2>1
  <2> DEFINE x == [reportReq[c] EXCEPT !.step = "commit", !.act = actual[reportReq[c].v]]
  <2>4. x \in R!Requests
    BY <2>2 DEF R!Requests, R!Steps
  <2>5. reportReq' = [reportReq EXCEPT ![c] = x]
    BY <1>3 DEF R!CommitRead
  <2>3. reportReq' \in [Clients -> R!Requests]
    BY <2>4, <2>5
  <2> QED
    BY <1>3, <1>same, <2>3 DEF R!CommitRead, R!others
<1>4. CASE R!CommitRefused(c)
  <2>1. R!Done(c)
    BY <1>4 DEF R!CommitRefused
  <2> QED
    BY <1>4, <1>done, <1>same, <2>1 DEF R!CommitRefused, R!others
<1>5. CASE R!CommitSave(c)
  <2> DEFINE v == reportReq[c].v
             row == R!Committed(reportReq[c].act, reportReq[c].row.progress)
  <2>1. row \in R!Actuals /\ row.progress = reportReq[c].row.progress
    BY <1>held, CommittedType
  <2>2. actual' = [actual EXCEPT ![v] = row] /\ R!Done(c) /\ R!IsAt(c, "commit")
    BY <1>5 DEF R!CommitSave
  <2> HIDE DEF row
  <2>3. actual' \in [R!Versions -> R!Actuals]
    BY <2>1, <2>2
  <2>4. ASSUME NEW u \in R!Versions, actual'[u].progress > actual[u].progress
        PROVE  actual'[u].progress = reportReq[c].row.progress
    <3>1. u = v
      BY <1>nat, <2>2, <2>4
    <3> QED
      BY <2>1, <2>2, <3>1
  <2> QED
    BY <1>5, <1>done, <2>2, <2>3, <2>4 DEF R!CommitSave, R!others
<1> QED
  BY <1>1, <1>2, <1>3, <1>4, <1>5 DEF R!Serve, R!Commit

LEMMA CreateKeeps ==
    ASSUME ReportInv, NEW c \in Clients, NEW p \in Percents, R!Create(c, p)
    PROVE  ReportInv' /\ UNCHANGED actual /\ reportReq'[c].step # "commit"
<1> USE DEF ReportInv
<1>1. [R!NoReport EXCEPT !.status = "pending", !.progress = p] \in R!Rows
  BY ReportsBlank DEF R!Rows, R!ReportStatuses
<1>2. report' \in [R!Reports -> R!Rows]
  BY <1>1 DEF R!Create
<1>3. reportReq[c].step = "idle"
  BY DEF R!Create, R!Starts, R!Idle
<1> QED
  BY <1>2, <1>3 DEF R!Create

LEMMA CrashKeeps ==
    ASSUME ReportInv, NEW c \in Clients, R!Crash(c)
    PROVE  ReportInv' /\ UNCHANGED actual /\ reportReq'[c].step # "commit"
<1>1. reportReq' = [reportReq EXCEPT ![c] = R!Idle]
  BY DEF R!Crash, R!Done
<1>2. reportReq' \in [Clients -> R!Requests] /\ reportReq'[c] = R!Idle
  BY <1>1, ReportsBlank DEF ReportInv
<1> QED
  BY <1>2 DEF R!Crash, R!others, ReportInv, R!Idle

-----------------------------------------------------------------------------
(* What a milestone blocks *)

Due(m) == /\ milestone[m].plan # 0
          /\ plan[milestone[m].plan].status = "active"
          /\ paid[m] < Amount(m)

\* No milestone that is due blocks progress p.
Cleared(p) ==
    p > 0 => \A m \in Milestones : Due(m) =>
        /\ "start" \notin milestone[m].terms.blocks
        /\ "delivery" \in milestone[m].terms.blocks => p < 100
        /\ "progress" \in milestone[m].terms.blocks => p <= milestone[m].terms.threshold

LEMMA DueIsUnpaid ==
    ASSUME LedgerInv, NEW m \in Milestones, Due(m), NEW what \in milestone[m].terms.blocks
    PROVE  m \in Unpaid(what)
<1>1. paid[m] \in Int /\ Amount(m) \in Int
  BY AmountInt DEF LedgerInv, TypeOK, AmountsInt, Due
<1> QED
  BY <1>1 DEF Due, Unpaid, IsActive, IsPaid, Outstanding

\* The cap is no higher than the threshold of any milestone that blocks.
LEMMA CapIsLeast ==
    ASSUME LedgerInv, NEW m \in Unpaid("progress")
    PROVE  MaxAllowed \in Nat /\ MaxAllowed <= milestone[m].terms.threshold
<1> DEFINE T == {100} \cup {milestone[n].terms.threshold : n \in Unpaid("progress")}
<1>1. \A n \in Milestones : milestone[n].terms.threshold \in Nat
  <2> SUFFICES ASSUME NEW n \in Milestones PROVE milestone[n].terms.threshold \in Nat
    OBVIOUS
  <2>1. milestone[n].terms \in Terms \cup {NoTerms}
    BY DEF LedgerInv, TypeOK, MilestoneRows
  <2> QED
    BY <2>1, TermsAssumption DEF NoTerms, Thresholds
<1>2. T \in SUBSET Nat /\ T # {} /\ milestone[m].terms.threshold \in T
  BY <1>1 DEF Unpaid
<1>3. MaxAllowed = Min(T)
  BY DEF MaxAllowed
<1> HIDE DEF T
<1>4. \E n \in T : \A k \in T : n <= k
  BY <1>2, LeastOf
<1>5. Min(T) \in T /\ \A k \in T : Min(T) <= k
  BY <1>4 DEF Min
<1> QED
  BY <1>2, <1>3, <1>5

LEMMA AllowedIsCleared ==
    ASSUME LedgerInv, NEW p \in Nat, R!Allowed(p) PROVE Cleared(p)
<1> SUFFICES ASSUME p > 0, NEW m \in Milestones, Due(m)
             PROVE  /\ "start" \notin milestone[m].terms.blocks
                    /\ "delivery" \in milestone[m].terms.blocks => p < 100
                    /\ "progress" \in milestone[m].terms.blocks => p <= milestone[m].terms.threshold
  BY DEF Cleared
<1>1. CanStart /\ p <= MaxAllowed /\ (p >= 100 => CanDeliver)
  BY DEF R!Allowed, Gate
<1>2. "start" \notin milestone[m].terms.blocks
  BY <1>1, DueIsUnpaid DEF CanStart
<1>3. "delivery" \in milestone[m].terms.blocks => p < 100
  BY <1>1, DueIsUnpaid DEF CanDeliver
<1>4. ASSUME "progress" \in milestone[m].terms.blocks PROVE p <= milestone[m].terms.threshold
  <2>1. MaxAllowed \in Nat /\ MaxAllowed <= milestone[m].terms.threshold
    BY <1>4, DueIsUnpaid, CapIsLeast
  <2>2. milestone[m].terms.threshold \in Nat
    <3>1. milestone[m].terms \in Terms \cup {NoTerms}
      BY DEF LedgerInv, TypeOK, MilestoneRows
    <3> QED
      BY <3>1, TermsAssumption DEF NoTerms, Thresholds
  <2> QED
    BY <1>1, <2>1, <2>2
<1> QED
  BY <1>2, <1>3, <1>4

-----------------------------------------------------------------------------
(* Progress is paid for, as long as requests do not overlap *)

\* What a thread is about to commit is still cleared.
DeliveryInv ==
    /\ LedgerInv
    /\ ReportInv
    /\ \A c \in Clients : R!IsAt(c, "commit") => Cleared(reportReq[c].row.progress)

LEMMA ClearedAlone == ASSUME UNCHANGED vars, NEW p, Cleared(p) PROVE Cleared(p)'
<1>1. \A m \in Milestones : Due(m)' <=> Due(m)
  BY DEF vars, Due, Amount
<1> QED
  BY <1>1 DEF vars, Cleared

LEMMA DeliveryNextKeeps ==
    ASSUME Serial, DeliveryInv, [DeliveryNext]_deliveryVars PROVE DeliveryInv'
<1>1. LedgerInv /\ ReportInv /\ [Next]_vars
  BY DEF DeliveryInv, DeliveryNext, PlanStep, ReportStep, deliveryVars, Next
<1>2. LedgerInv'
  BY <1>1, LedgerNext
<1>one. ASSUME NEW c \in Clients, ReportInv', R!IsAt(c, "commit")' => Cleared(reportReq[c].row.progress)'
        PROVE  DeliveryInv'
  BY <1>2, <1>one DEF Serial, DeliveryInv
<1>free. ASSUME NEW c \in Clients, ReportInv', reportReq'[c].step # "commit" PROVE DeliveryInv'
  <2>1. ~R!IsAt(c, "commit")'
    BY <1>free DEF R!IsAt
  <2> QED
    BY <1>free, <1>one, <2>1
<1>3. ASSUME NEW c \in Clients, PlanStep(c) PROVE DeliveryInv'
  <2>1. UNCHANGED reportVars /\ reportReq[c].step = "idle"
    BY <1>3 DEF PlanStep, R!IsAt
  <2>2. ReportInv' /\ reportReq'[c].step # "commit"
    BY <1>1, <2>1 DEF reportVars, ReportInv
  <2> QED
    BY <1>free, <2>2
<1>4. ASSUME NEW c \in Clients, ReportStep(c) PROVE DeliveryInv'
  <2>1. ASSUME NEW p \in Percents, R!Create(c, p) PROVE DeliveryInv'
    BY <1>1, <1>free, <2>1, CreateKeeps
  <2>2. CASE R!Receive(c)
    BY <1>1, <1>free, <2>2, ReceiveKeeps
  <2>3. CASE R!Crash(c)
    BY <1>1, <1>free, <2>3, CrashKeeps
  <2>4. CASE R!Serve(c)
    <3>1. ReportInv' /\ (reportReq'[c].step = "commit" => R!CommitRead(c))
      BY <1>1, <2>4, ServeKeeps
    <3>2. CASE R!CommitRead(c)
      <4> DEFINE p == reportReq[c].row.progress
      <4>1. reportReq'[c].row.progress = p
        BY <1>1, <3>2 DEF R!CommitRead, ReportInv
      <4>2. p \in Nat /\ R!Allowed(p)
        BY <1>1, <3>2, ReportsAssumption DEF R!CommitRead, ReportInv, R!Requests, R!Rows
      <4>3. Cleared(p)
        BY <1>1, <4>2, AllowedIsCleared
      <4>4. PICK q : q = p
        OBVIOUS
      <4>5. Cleared(q)'
        BY <1>4, <4>3, <4>4, ClearedAlone DEF ReportStep
      <4>6. Cleared(reportReq[c].row.progress)'
        BY <4>1, <4>4, <4>5 DEF Cleared
      <4> QED
        BY <1>one, <3>1, <4>6
    <3>3. CASE ~R!CommitRead(c)
      BY <1>free, <3>1, <3>3
    <3> QED
      BY <3>2, <3>3
  <2> QED
    BY <1>4, <2>1, <2>2, <2>3, <2>4 DEF ReportStep
<1>5. CASE UNCHANGED deliveryVars
  <2>1. UNCHANGED vars /\ UNCHANGED reportVars
    BY <1>5 DEF deliveryVars
  <2>2. ReportInv'
    BY <1>1, <2>1 DEF reportVars, ReportInv
  <2>3. ASSUME NEW c \in Clients, R!IsAt(c, "commit")' PROVE Cleared(reportReq[c].row.progress)'
    <3>1. PICK q : q = reportReq[c].row.progress
      OBVIOUS
    <3>2. R!IsAt(c, "commit") /\ q = reportReq'[c].row.progress
      BY <2>1, <2>3, <3>1 DEF reportVars, R!IsAt
    <3>3. Cleared(q)
      BY <3>1, <3>2 DEF DeliveryInv
    <3>4. Cleared(q)'
      BY <2>1, <3>3, ClearedAlone
    <3> QED
      BY <3>2, <3>4 DEF Cleared
  <2> QED
    BY <1>2, <2>2, <2>3 DEF DeliveryInv
<1> QED
  BY <1>3, <1>4, <1>5 DEF DeliveryNext

LEMMA DeliveryStart == DeliveryInit => DeliveryInv
<1> SUFFICES ASSUME DeliveryInit PROVE DeliveryInv
  OBVIOUS
<1>1. LedgerInv
  BY LedgerInit DEF DeliveryInit
<1>2. R!Init
  BY DEF DeliveryInit
<1>3. 0 \in 0..MaxVersions /\ 1 \in 0..MaxVersions
  BY ReportsAssumption
<1>4. ReportInv
  BY <1>2, <1>3, ReportsBlank DEF R!Init, ReportInv, R!NoVersion
<1>5. \A c \in Clients : ~R!IsAt(c, "commit")
  BY <1>2 DEF R!Init, R!IsAt, R!Idle
<1> QED
  BY <1>1, <1>4, <1>5 DEF DeliveryInv

\* PaidBeforeProgress: as long as requests do not overlap, progress is committed to
\* a task only as far as the milestones of its active plan are paid, whatever the
\* plan, its milestones, the payments and the reports are.
THEOREM ProgressIsPaid == ASSUME Serial PROVE DeliverySpec => PaidBeforeProgress
<1>1. ASSUME DeliveryInv, [DeliveryNext]_deliveryVars
      PROVE  [\A v \in 1..MaxVersions, m \in 1..MaxMilestones :
                 LET unpaid == /\ milestone[m].plan # 0
                               /\ plan[milestone[m].plan].status = "active"
                               /\ paid[m] < Amount(m)
                     blocks == milestone[m].terms.blocks
                     done == actual'[v].progress IN
                 done > actual[v].progress /\ unpaid =>
                     /\ "start" \notin blocks
                     /\ "delivery" \in blocks => done < 100
                     /\ "progress" \in blocks => done <= milestone[m].terms.threshold]_deliveryVars
  <2> SUFFICES ASSUME DeliveryNext, NEW v \in 1..MaxVersions, NEW m \in 1..MaxMilestones,
                      actual'[v].progress > actual[v].progress, Due(m)
               PROVE  /\ "start" \notin milestone[m].terms.blocks
                      /\ "delivery" \in milestone[m].terms.blocks => actual'[v].progress < 100
                      /\ "progress" \in milestone[m].terms.blocks =>
                            actual'[v].progress <= milestone[m].terms.threshold
    BY <1>1 DEF Due
  <2>type. v \in R!Versions /\ m \in Milestones /\ actual[v].progress \in Nat /\ ReportInv
    BY <1>1, ReportsAssumption DEF DeliveryInv, ReportInv, R!Versions, Milestones, R!Actuals
  <2>1. PICK c \in Clients : PlanStep(c) \/ ReportStep(c)
    BY DEF DeliveryNext
  <2>2. actual' # actual
    BY <2>type
  <2>3. R!Serve(c)
    <3>1. ~PlanStep(c)
      BY <2>2 DEF PlanStep, reportVars
    <3>2. ASSUME NEW p \in Percents PROVE ~R!Create(c, p)
      BY <2>type, <2>2, CreateKeeps
    <3>3. ~R!Receive(c) /\ ~R!Crash(c)
      BY <2>type, <2>2, ReceiveKeeps, CrashKeeps
    <3> QED
      BY <2>1, <3>1, <3>2, <3>3 DEF ReportStep
  <2>4. R!IsAt(c, "commit") /\ actual'[v].progress = reportReq[c].row.progress
    BY <2>type, <2>3, ServeKeeps
  <2>5. Cleared(actual'[v].progress)
    BY <1>1, <2>4 DEF DeliveryInv
  <2>6. actual'[v].progress > 0
    <3>1. reportReq[c].row.progress \in Nat
      BY <2>type, ReportsAssumption DEF ReportInv, R!Requests, R!Rows
    <3> QED
      BY <2>type, <2>4, <3>1
  <2> QED
    BY <2>type, <2>5, <2>6 DEF Cleared
<1>2. DeliveryInv /\ [DeliveryNext]_deliveryVars => DeliveryInv'
  BY DeliveryNextKeeps
<1> QED
  BY <1>1, <1>2, DeliveryStart, PTL DEF DeliverySpec, PaidBeforeProgress

=============================================================================
