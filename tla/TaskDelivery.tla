------------------------------- MODULE TaskDelivery -------------------------------
(***************************************************************************)
(* Progress reports under a financial plan: ReportApproval composed with   *)
(* FinancialPlan.  What the plan's unpaid milestones block is the gate     *)
(* that a commit of progress has to pass.                                  *)
(*                                                                         *)
(* A thread serves one request at a time, of either part.                  *)
(***************************************************************************)
EXTENDS FinancialPlan

CONSTANTS ReportKinds, Scopes, Percents, MaxReports, MaxVersions    \* as in ReportApproval

ASSUME ReportsAssumption ==
    /\ ReportKinds \subseteq {"create", "approve", "edit", "reject", "delete"}
    /\ Scopes \subseteq {"company", "intra_unit"}
    /\ Percents \subseteq Nat /\ {0, 100} \subseteq Percents
    /\ MaxReports \in Nat /\ MaxVersions \in Nat \ {0}

VARIABLES report, made, actual, exec, bypass, scope, reportReq

reportVars == <<report, made, actual, exec, bypass, scope, reportReq>>
deliveryVars == <<reportVars, vars>>

\* get_task_financial_status
MutGate == [start |-> CanStart, deliver |-> CanStart, cap |-> MaxAllowed]
Gate == [start |-> CanStart, deliver |-> CanDeliver, cap |-> MaxAllowed]

R == INSTANCE ReportApproval WITH
    Mortal <- Clients,
    Kinds <- ReportKinds,
    Gates <- [start: BOOLEAN, deliver: BOOLEAN, cap: Percents],
    gate <- Gate,
    req <- reportReq

DeliveryInit == Init /\ R!Init

PlanStep(c) ==
    /\ R!IsAt(c, "idle")
    /\ Step(c)
    /\ UNCHANGED reportVars

ReportStep(c) ==
    /\ IsAt(c, "idle")
    /\ UNCHANGED vars
    /\ \/ \E p \in Percents : R!Create(c, p)
       \/ R!Receive(c)
       \/ R!Serve(c)
       \/ R!Crash(c)

DeliveryNext == \E c \in Clients : PlanStep(c) \/ ReportStep(c)
DeliverySpec == DeliveryInit /\ [][DeliveryNext]_deliveryVars

-----------------------------------------------------------------------------
(* Properties *)

\* Progress beyond what the milestones of the active plan have paid for is
\* never committed: no start before the advance, no progress beyond a blocking
\* threshold, no delivery before its milestone (_commit_progress).
PaidBeforeProgress ==
    [][\A v \in 1..MaxVersions, m \in 1..MaxMilestones :
          LET unpaid == /\ milestone[m].plan # 0
                        /\ plan[milestone[m].plan].status = "active"
                        /\ paid[m] < Amount(m)
              blocks == milestone[m].terms.blocks
              done == actual'[v].progress IN
          done > actual[v].progress /\ unpaid =>
              /\ "start" \notin blocks
              /\ "delivery" \in blocks => done < 100
              /\ "progress" \in blocks => done <= milestone[m].terms.threshold]_deliveryVars

\* A plan is activated only when it adds up, and what was paid keeps its terms.
TermsSound == ActivationBalanced /\ TermsFixedOncePaid

\* Percentages of a plan fit in it, and statuses are those that payments give.
PlanCurrent == PercentWithin100 /\ StatusCurrent

=============================================================================
