------------------------------ MODULE LevelingPlan --------------------------------
(***************************************************************************)
(* Resource-leveling plans: what they select, their calculation from the   *)
(* assignments of executors, and their publication.  What the calculation  *)
(* computes is in ResourceLeveling; here its results only say what they    *)
(* were computed from.                                                     *)
(*                                                                         *)
(* PATCH, publish and the engine run in transactions of their own, but     *)
(* lock no row before they decide: each is a read, and a write that other  *)
(* threads see when it commits.                                            *)
(***************************************************************************)
EXTENDS ExecutorSync

CONSTANTS
    Plans,              \* GlobalLevelingRun rows, existing or not
    Rules               \* priority rules and data dates

ASSUME PlansAssumption == Plans \subseteq Nat
ASSUME RulesAssumption == Rules # {}
ASSUME DeploymentsAssumption ==
    \A d \in Deployments : d.plans \subseteq Plans /\ d.rules \subseteq Rules

VARIABLES
    plan,               \* the rows: status, the projects selected, the rules
    metrics             \* the TaskLevelingMetrics rows of each plan

planVars == <<plan, metrics>>
vars == <<deployment, rolesVars, planVars, call>>

Statuses == {"absent", "draft", "calculated", "published", "archived", "deleted"}
PlanRows == [status: Statuses, entries: SUBSET Projects, rules: Rules]
Exists(i) == plan[i].status \notin {"absent", "deleted"}

\* The leveled task of one project, with whom it was found to occupy.
Metrics == [project: Projects, rules: Rules, counted: SUBSET Users]
ProjectsOf(rows) == {m.project : m \in rows}

NoPlan == [status |-> "absent", entries |-> {}, rules |-> CHOOSE r \in Rules : TRUE]
NewPlan == {i \in Plans : plan[i].status = "absent" /\ \A j \in Plans : j < i => plan[j].status # "absent"}
Draft(entries, rules) == [status |-> "draft", entries |-> entries, rules |-> rules]

-----------------------------------------------------------------------------
(* Create, edit, delete, archive *)

Create(w, i, entries, rules) ==
    /\ Serves(w, "create") /\ i \in NewPlan
    /\ plan' = [plan EXCEPT ![i] = Draft(entries, rules)]
    /\ UNCHANGED <<metrics, call>>

\* "Only draft or calculated plans can be edited."
Editable(i) == plan[i].status \in {"draft", "calculated"}

UpdateRead(w, i, entries, rules) ==
    /\ Serves(w, "update") /\ Editable(i)
    /\ Call(w, [step |-> "update", plan |-> i, row |-> Draft(entries, rules)])
    /\ UNCHANGED planVars

\* The plan is a draft again, without results.  save(update_fields) fails on a row
\* that is gone, here and below.
Update(w) ==
    LET c == call[w] IN
    /\ c.step = "update"
    /\ IF Exists(c.plan)
       THEN plan' = [plan EXCEPT ![c.plan] = c.row] /\ metrics' = [metrics EXCEPT ![c.plan] = {}]
       ELSE UNCHANGED planVars
    /\ Finish(w)

DeleteRead(w, i) ==
    /\ Serves(w, "delete") /\ Exists(i) /\ plan[i].status # "published"
    /\ Call(w, [step |-> "delete", plan |-> i])
    /\ UNCHANGED planVars

Delete(w) ==
    /\ call[w].step = "delete"
    /\ plan' = [plan EXCEPT ![call[w].plan] = [NoPlan EXCEPT !.status = "deleted"]]
    /\ metrics' = [metrics EXCEPT ![call[w].plan] = {}]
    /\ Finish(w)

\* Whatever its status: only the status is written.
Archive(w, i) ==
    /\ Serves(w, "archive") /\ Exists(i)
    /\ plan' = [plan EXCEPT ![i].status = "archived"]
    /\ UNCHANGED <<metrics, call>>

-----------------------------------------------------------------------------
(* Calculate *)

MutSimulateRead(w, i) ==
    /\ Serves(w, "simulate") /\ Exists(i)
    /\ Call(w, [step |-> "load", plan |-> i, rules |-> plan[i].rules])
    /\ UNCHANGED planVars

\* "Published plans are immutable."  The rules are those of the row as loaded.
SimulateRead(w, i) ==
    /\ Serves(w, "simulate") /\ Exists(i) /\ plan[i].status # "published"
    /\ Call(w, [step |-> "load", plan |-> i, rules |-> plan[i].rules])
    /\ UNCHANGED planVars

Leveled(p, rules) ==
    [project |-> p, rules |-> rules, counted |-> {u \in Users : <<p, u>> \in assigned}]

\* _load_and_prepare_data: without projects or without tasks nothing is changed.
SimulateLoad(w) ==
    LET c == call[w]
        rows == {Leveled(p, c.rules) : p \in plan[c.plan].entries \ deployment.empty}
    IN
    /\ c.step = "load"
    /\ IF rows = {} THEN Finish(w)
       ELSE Call(w, [step |-> "clear", plan |-> c.plan, rows |-> rows])
    /\ UNCHANGED planVars

\* The results there are, are deleted: "whole" as long as no other is inserted.
SimulateClear(w) ==
    /\ call[w].step = "clear"
    /\ Call(w, [step |-> "save", plan |-> call[w].plan, rows |-> call[w].rows, whole |-> TRUE])
    /\ UNCHANGED planVars

\* A second result for a task is refused, and with it the calculation.
Kept(c) == IF c.whole THEN {} ELSE metrics[c.plan]
Clashes(c) == ProjectsOf(Kept(c)) \cap ProjectsOf(c.rows) # {}

SimulateSave(w) ==
    LET c == call[w] IN
    /\ c.step = "save" /\ Exists(c.plan) /\ ~Clashes(c)
    /\ plan' = [plan EXCEPT ![c.plan].status = "calculated"]
    /\ metrics' = [metrics EXCEPT ![c.plan] = Kept(c) \cup c.rows]
    /\ call' = [v \in AnyWorker |->
                  IF v = w THEN IdleCall
                  ELSE IF call[v].step = "save" /\ call[v].plan = c.plan
                  THEN [call[v] EXCEPT !.whole = FALSE] ELSE call[v]]

SimulateRefused(w) ==
    /\ call[w].step = "save" /\ (~Exists(call[w].plan) \/ Clashes(call[w]))
    /\ Finish(w)
    /\ UNCHANGED planVars

-----------------------------------------------------------------------------
(* Publish *)

Publishable(i) == plan[i].status = "calculated"

PublishRead(w, i) ==
    /\ Serves(w, "publish") /\ Publishable(i)
    /\ Call(w, [step |-> "find", plan |-> i, entries |-> plan[i].entries])
    /\ UNCHANGED planVars

MutRivals(i, entries) ==
    {j \in Plans \ {i} : plan[j].status = "published" /\ plan[j].entries = entries}

\* The other plans published for one of these projects.
Rivals(i, entries) ==
    {j \in Plans \ {i} : plan[j].status = "published" /\ plan[j].entries \cap entries # {}}

\* What the update finds when it starts is archived when it commits.
PublishFind(w) ==
    LET c == call[w] IN
    /\ c.step = "find"
    /\ Call(w, [step |-> "publish", plan |-> c.plan, rivals |-> Rivals(c.plan, c.entries)])
    /\ UNCHANGED planVars

Publish(w) ==
    LET c == call[w] IN
    /\ c.step = "publish"
    /\ plan' = IF Exists(c.plan)
               THEN [j \in Plans |->
                       IF j = c.plan THEN [plan[j] EXCEPT !.status = "published"]
                       ELSE IF j \in c.rivals /\ Exists(j) THEN [plan[j] EXCEPT !.status = "archived"]
                       ELSE plan[j]]
               ELSE plan
    /\ Finish(w)
    /\ UNCHANGED metrics

-----------------------------------------------------------------------------
(* Threads *)

\* What a thread did not commit is undone.
Die(w) ==
    /\ w \in Askers({"death"}) /\ call[w] # IdleCall
    /\ Finish(w)
    /\ held' = [held EXCEPT ![w] = {}]
    /\ UNCHANGED <<role, pools, resource, assigned, planVars>>

\* As far as the deployment goes.
PlanStarts(w) ==
    \E i \in deployment.plans :
        \/ DeleteRead(w, i) \/ Archive(w, i) \/ SimulateRead(w, i) \/ PublishRead(w, i)
        \/ \E entries \in SUBSET Projects \ {{}}, rules \in deployment.rules :
             Create(w, i, entries, rules) \/ UpdateRead(w, i, entries, rules)

PlanContinues(w) ==
    \/ Update(w) \/ Delete(w)
    \/ SimulateLoad(w) \/ SimulateClear(w) \/ SimulateSave(w) \/ SimulateRefused(w)
    \/ PublishFind(w) \/ Publish(w)

Init ==
    /\ \E d \in Deployments : SyncInit(d)
    /\ plan = [i \in Plans |-> NoPlan]
    /\ metrics = [i \in Plans |-> {}]

Next ==
    /\ \E w \in AnyWorker :
         \/ (RoleStarts(w) \/ RoleContinues(w)) /\ UNCHANGED planVars
         \/ (PlanStarts(w) \/ PlanContinues(w)) /\ UNCHANGED rolesVars
         \/ Die(w)
    /\ UNCHANGED deployment

Spec == Init /\ [][Next]_vars

-----------------------------------------------------------------------------
(* Properties *)

\* Rows have their types, and only plans have results.
TypeOK ==
    /\ role \subseteq Roles /\ held \in [AnyWorker -> SUBSET Roles]
    /\ pools \in Nat /\ resource \subseteq Users /\ assigned \subseteq Projects \X resource
    /\ plan \in [Plans -> PlanRows] /\ metrics \in [Plans -> SUBSET Metrics]
    /\ \A i \in Plans : metrics[i] # {} => Exists(i)

\* A project has one published plan: executors are not told two starts of one task.
\* Publications must not overlap each other or an edit of the plan.
OnePublishedPlan ==
    Apart({"publish"}, {"publish", "update"}) =>
        \A i, j \in Plans :
            plan[i].status = "published" /\ plan[j].status = "published" /\ i # j
            => plan[i].entries \cap plan[j].entries = {}

\* "Published plans are immutable.": a published plan keeps its projects and results,
\* and is only archived, as long as no calculation, edit or deletion that began before
\* is still under way.
PublishedKept ==
    [][Apart({"publish"}, {"simulate", "update", "delete"}) =>
        \A i \in Plans : plan[i].status = "published" =>
            /\ plan'[i].status \in {"published", "archived"}
            /\ plan'[i].entries = plan[i].entries
            /\ metrics'[i] = metrics[i]]_vars

\* What is calculated or published has one result for each task of the projects it
\* selects, by the rules it shows: no calculation survives an edit, however many
\* calculate at once, if the edits do not overlap calculations or publications.
BasisCurrent ==
    Apart({"update"}, {"update", "simulate", "publish"}) =>
        \A i \in Plans : plan[i].status \in {"calculated", "published"} =>
            /\ ProjectsOf(metrics[i]) = plan[i].entries \ deployment.empty
            /\ \A m \in metrics[i] :
                 m.rules = plan[i].rules /\ \A n \in metrics[i] : n.project = m.project => n = m

\* Plans say one thing about a task: one of them is published for it, and what it
\* says was calculated for the projects and by the rules that it shows.
PlansSound == TypeOK /\ OnePublishedPlan /\ BasisCurrent

\* A calculation reckons with every executor there is at that moment, however roles were
\* assigned, exchanged and removed before; not with one whose process died half way.
ExecutorsLeveled ==
    [][~Deaths /\ CodesApart
       /\ Apart({"simulate"}, {"simulate", "role", "change role", "bulk executor", "remove role", "remove task"}) =>
        \A i \in Plans : metrics'[i] # metrics[i] =>
            \A r \in role, m \in metrics'[i] :
                r.role = "executor" /\ r.task = m.project => r.user \in m.counted]_metrics

\* Results can be relied on: they reckon with all executors when they are stored,
\* and stay what they are once published.
ResultsReliable == PublishedKept /\ ExecutorsLeveled

=============================================================================
