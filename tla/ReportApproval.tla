------------------------------ MODULE ReportApproval ------------------------------
(***************************************************************************)
(* Progress reports on one task: how they are approved in one or two       *)
(* stages, and how a final approval is committed to the TaskActual row of  *)
(* the task's version in the execution revision.                           *)
(*                                                                         *)
(* TaskReportLogViewSet runs without transactions: every save() commits    *)
(* alone and writes the whole row as it was read.  req[c] holds the rows a *)
(* thread has in memory, the project among them: get_object loads it with  *)
(* the report, so v is the version that was in execution at that moment.   *)
(* What the financial plan allows (gate), the version in execution (exec)  *)
(* and the settings are moved by other parts.                              *)
(***************************************************************************)
EXTENDS Naturals

CONSTANTS
    Clients,      \* threads that serve requests
    Mortal,       \* those that may die
    Kinds,        \* the requests sent, and what the rest of the system does
    Scopes,       \* scopes the project may start in
    Percents,     \* reported progress
    Gates,        \* what the financial plan may allow
    MaxReports,   \* bound: reports ever created
    MaxVersions   \* bound: versions of the task that reach execution

AllKinds == {"create", "approve", "edit", "reject", "delete",
             "gate", "promote", "bypass", "scope"}

ASSUME KindsAssumption == Mortal \subseteq Clients /\ Kinds \subseteq AllKinds
ASSUME ScopesAssumption == Scopes \subseteq {"company", "intra_unit"}
ASSUME PercentsAssumption == 0 \in Percents /\ 100 \in Percents /\ Percents \subseteq Nat
Gate == [start: BOOLEAN, deliver: BOOLEAN, cap: Percents]
OpenGate == [start |-> TRUE, deliver |-> TRUE, cap |-> 100]
ASSUME GatesAssumption == Gates \subseteq Gate /\ OpenGate \in Gates
ASSUME BoundsAssumption == MaxReports \in Nat /\ MaxVersions \in Nat \ {0}

VARIABLES
    report,  \* the TaskReportLog rows; numbers are also their timestamps
    made,    \* reports created so far
    actual,  \* the TaskActual row of each version of the task
    exec,    \* the version in the execution revision, NoVersion if none
    gate,    \* what the milestones of the active financial plan allow
    bypass,  \* SystemSettings.allow_planning_manager_bypass_reviewer
    scope,   \* Project.scope
    req      \* what each thread is doing, with the rows it holds in memory

vars == <<report, made, actual, exec, gate, bypass, scope, req>>

Reports == 1..MaxReports
Versions == 1..MaxVersions
NoVersion == 0
NoTime == 0
Nobody == "nobody"
\* A reviewer of the task; a planning manager; a user of company level.
Staff == {"reviewer", "planner", "admin"}
Reviewers == {"reviewer", "admin"}
Planners == {"planner", "admin"}

ReportStatuses == {"absent", "pending", "reviewer_approved", "final_approved", "rejected"}
Rows == [status: ReportStatuses, progress: Percents,
         reviewer: Staff \cup {Nobody}, final: Staff \cup {Nobody}]
Actuals == [progress: Percents, start: 0..MaxReports, finish: 0..MaxReports]
Steps == {"idle", "approve", "saved", "commit", "edit", "reject"}
Requests == [step: Steps, r: 0..MaxReports, row: Rows, v: 0..MaxVersions, act: Actuals]

NoReport == [status |-> "absent", progress |-> 0, reviewer |-> Nobody, final |-> Nobody]
NotStarted == [progress |-> 0, start |-> NoTime, finish |-> NoTime]
Idle == [step |-> "idle", r |-> 0, row |-> NoReport, v |-> NoVersion, act |-> NotStarted]

Init ==
    /\ report = [r \in Reports |-> NoReport]
    /\ made = 0
    /\ actual = [v \in Versions |-> NotStarted]
    /\ exec \in {NoVersion, 1}
    /\ gate = OpenGate
    /\ bypass = FALSE
    /\ scope \in Scopes
    /\ req = [c \in Clients |-> Idle]

others == <<made, exec, gate, bypass, scope>>

IsAt(c, step) == req[c].step = step
Starts(c, kind) == kind \in Kinds /\ req[c] = Idle
\* get_object: the report, with its task and project (select_related).
Hold(c, step, r, row) ==
    req' = [req EXCEPT ![c] = [Idle EXCEPT !.step = step, !.r = r, !.row = row, !.v = exec]]
Done(c) == req' = [req EXCEPT ![c] = Idle]
Final(r) == report[r].status = "final_approved"

-----------------------------------------------------------------------------
(* approve: three ways to sign a report, each read before it is saved *)

MutMaySign(who, role) == TRUE
MaySign(who, role) == who \in role

ReviewOf(row, who) == [row EXCEPT !.status = "reviewer_approved", !.reviewer = who]
FinalOf(row, who) == [row EXCEPT !.status = "final_approved", !.final = who]

\* The planning manager signs a pending report of a company project for both.
Bypasses(who) == scope = "company" /\ bypass /\ MaySign(who, Planners)
ApproveBypass(c, r, who) ==
    /\ Starts(c, "approve") /\ report[r].status = "pending"
    /\ Bypasses(who)
    /\ Hold(c, "approve", r, FinalOf(ReviewOf(report[r], who), who))
    /\ UNCHANGED <<others, report, actual>>

\* Stage 1; within a unit it is the only one.
ApproveReview(c, r, who) ==
    /\ Starts(c, "approve") /\ report[r].status = "pending"
    /\ ~Bypasses(who) /\ MaySign(who, Reviewers)
    /\ LET row == ReviewOf(report[r], who) IN
       Hold(c, "approve", r, IF scope = "intra_unit" THEN FinalOf(row, who) ELSE row)
    /\ UNCHANGED <<others, report, actual>>

\* Stage 2.
ApproveFinal(c, r, who) ==
    /\ Starts(c, "approve") /\ report[r].status = "reviewer_approved"
    /\ scope = "company" /\ MaySign(who, Planners)
    /\ Hold(c, "approve", r, FinalOf(report[r], who))
    /\ UNCHANGED <<others, report, actual>>

\* report.save(): a row deleted in the meantime is inserted again (as the
\* newest; here it keeps its number).
ApproveSave(c) ==
    /\ IsAt(c, "approve")
    /\ report' = [report EXCEPT ![req[c].r] = req[c].row]
    /\ IF req[c].row.status = "final_approved"
       THEN req' = [req EXCEPT ![c].step = "saved"]
       ELSE Done(c)
    /\ UNCHANGED <<others, actual>>

-----------------------------------------------------------------------------
(* _commit_progress, after the approval is saved *)

\* validate_task_start, validate_progress_transition, validate_task_delivery;
\* the reads are taken as one.
MutAllowed(p) == p > 0 => gate.start /\ p <= gate.cap
Allowed(p) ==
    /\ p > 0 => gate.start
    /\ p <= gate.cap
    /\ p >= 100 => gate.deliver

\* get_official_revision looks at the project in memory, not at the stored one.
CommitRead(c) ==
    /\ IsAt(c, "saved")
    /\ Allowed(req[c].row.progress) /\ req[c].v # NoVersion
    /\ req' = [req EXCEPT ![c].step = "commit", ![c].act = actual[req[c].v]]
    /\ UNCHANGED <<others, report, actual>>

\* A ValidationError: the report stays final_approved.
CommitRefused(c) ==
    /\ IsAt(c, "saved")
    /\ ~Allowed(req[c].row.progress) \/ req[c].v = NoVersion
    /\ Done(c)
    /\ UNCHANGED <<others, report, actual>>

\* Timestamp of the first final report of at least p per cent.
Counts(r, p) == Final(r) /\ report[r].progress >= p
IsFirst(r, p) == Counts(r, p) /\ \A s \in Reports : s < r => ~Counts(s, p)
FirstFinal(p) ==
    IF \E r \in Reports : IsFirst(r, p)
    THEN CHOOSE r \in Reports : IsFirst(r, p)
    ELSE NoTime

MutCommitted(act, p) ==
    [act EXCEPT !.progress = p,
                !.start = IF @ = NoTime THEN FirstFinal(1) ELSE @,
                !.finish = IF @ = NoTime THEN FirstFinal(100) ELSE @]
MutCommittedOnce(act, p) ==
    IF act.finish # NoTime THEN act
    ELSE [progress |-> p, start |-> FirstFinal(1), finish |-> FirstFinal(100)]
Committed(act, p) ==
    IF p = 0 THEN NotStarted
    ELSE [progress |-> p,
          start |-> IF act.start = NoTime THEN FirstFinal(1) ELSE act.start,
          finish |-> IF act.finish = NoTime THEN FirstFinal(100) ELSE act.finish]

CommitSave(c) ==
    /\ IsAt(c, "commit")
    /\ actual' = [actual EXCEPT ![req[c].v] = Committed(req[c].act, req[c].row.progress)]
    /\ Done(c)
    /\ UNCHANGED <<others, report>>

-----------------------------------------------------------------------------
(* create, edit, reject, delete *)

Create(c, p) ==
    /\ Starts(c, "create") /\ made < MaxReports
    /\ made' = made + 1
    /\ report' = [report EXCEPT ![made'] =
                     [NoReport EXCEPT !.status = "pending", !.progress = p]]
    /\ UNCHANGED <<actual, exec, gate, bypass, scope, req>>

Editable(r) == report[r].status = "pending"
EditRead(c, r, p) ==
    /\ Starts(c, "edit") /\ Editable(r)
    /\ Hold(c, "edit", r, [report[r] EXCEPT !.progress = p])
    /\ UNCHANGED <<others, report, actual>>

MutRejectable(r) == report[r].status # "absent"
Rejectable(r) == report[r].status \notin {"absent", "final_approved"}
RejectRead(c, r) ==
    /\ Starts(c, "reject") /\ Rejectable(r)
    /\ Hold(c, "reject", r, [report[r] EXCEPT !.status = "rejected"])
    /\ UNCHANGED <<others, report, actual>>

ReportSave(c) ==
    /\ IsAt(c, "edit") \/ IsAt(c, "reject")
    /\ report' = [report EXCEPT ![req[c].r] = req[c].row]
    /\ Done(c)
    /\ UNCHANGED <<others, actual>>

\* A report of any status may be deleted.
Delete(c, r) ==
    /\ Starts(c, "delete") /\ report[r].status # "absent"
    /\ report' = [report EXCEPT ![r] = NoReport]
    /\ UNCHANGED <<others, actual, req>>

Crash(c) ==
    /\ c \in Mortal /\ ~IsAt(c, "idle")
    /\ Done(c)
    /\ UNCHANGED <<others, report, actual>>

-----------------------------------------------------------------------------
(* What requests to other parts change: payments, promotions, settings, scope *)

GateMoves(c, g) ==
    /\ Starts(c, "gate")
    /\ gate' = g
    /\ UNCHANGED <<report, made, actual, exec, bypass, scope, req>>

\* A promoted revision has versions of its own, or not this task at all.
Promote(c, v) ==
    /\ Starts(c, "promote")
    /\ v \in {NoVersion, exec + 1}
    /\ exec' = v
    /\ UNCHANGED <<report, made, actual, gate, bypass, scope, req>>

SetBypass(c) ==
    /\ Starts(c, "bypass")
    /\ bypass' = ~bypass
    /\ UNCHANGED <<report, made, actual, exec, gate, scope, req>>

SetScope(c, s) ==
    /\ Starts(c, "scope")
    /\ scope' = s
    /\ UNCHANGED <<report, made, actual, exec, gate, bypass, req>>

Elsewhere(c) ==
    \/ \E g \in Gates : GateMoves(c, g)
    \/ \E v \in 0..MaxVersions : Promote(c, v)
    \/ SetBypass(c)
    \/ \E s \in Scopes : SetScope(c, s)

Receive(c) ==
    \E r \in Reports :
        \/ \E who \in Staff : \/ ApproveBypass(c, r, who)
                              \/ ApproveReview(c, r, who)
                              \/ ApproveFinal(c, r, who)
        \/ \E p \in Percents : EditRead(c, r, p)
        \/ RejectRead(c, r)
        \/ Delete(c, r)

Commit(c) == CommitRead(c) \/ CommitRefused(c) \/ CommitSave(c)
Serve(c) == ApproveSave(c) \/ ReportSave(c) \/ Commit(c)

Next ==
    \E c \in Clients :
        \/ \E p \in Percents : Create(c, p)
        \/ Receive(c)
        \/ Serve(c)
        \/ Crash(c)
        \/ Elsewhere(c)

Spec == Init /\ [][Next]_vars

\* A thread that serves a request keeps running.
FairSpec == Spec /\ \A c \in Clients : WF_vars(Serve(c))

-----------------------------------------------------------------------------
(* Properties *)

TypeOK ==
    /\ report \in [Reports -> Rows]
    /\ made \in 0..MaxReports
    /\ actual \in [Versions -> Actuals]
    /\ exec \in 0..MaxVersions
    /\ gate \in Gates
    /\ bypass \in BOOLEAN
    /\ scope \in Scopes
    /\ req \in [Clients -> Requests]

\* However approvals, edits, rejections and changes of scope overlap, a final
\* report was signed by a reviewer and a planner, or wholly by one who may act
\* for both: one reviewer in a unit, one planner under the bypass
\* (approve_report).
SignedByRole ==
    \A r \in Reports : Final(r) =>
        \/ report[r].reviewer \in Reviewers /\ report[r].final \in Planners
        \/ report[r].reviewer = report[r].final /\ report[r].final # Nobody

\* Rows are well formed however requests overlap, and final ones are signed.
FinalSound == TypeOK /\ SignedByRole

\* Nobody who read report r before it was final is still going to save it.
Undisputed(r) ==
    \A c \in Clients : req[c].r = r =>
        ~IsAt(c, "edit") /\ ~IsAt(c, "reject")
        /\ (IsAt(c, "approve") => req[c].row.status = "final_approved")

\* Once the requests that were reading a report when its final approval was saved
\* have ended, the approval is not taken back, short of deleting the report, and
\* no request that could take it back begins (perform_update and reject_report
\* refuse approved reports).
FinalKept ==
    [][\A r \in Reports : Final(r) /\ Undisputed(r) =>
           report'[r].status = "absent" \/ (Final(r) /\ Undisputed(r))']_vars

\* Thread c commits a report that was overwritten or deleted since it was saved.
Orphaned(c) == IsAt(c, "commit") /\ report[req[c].r] # req[c].row

\* Whichever of two commits writes a TaskActual row last, it leaves the progress of
\* a report that is final at that moment, a start exactly if that is more than
\* nothing, and a finish if it is 100 per cent; unless the report it commits was
\* overwritten or deleted after it was saved (_commit_progress).
CommitsAgree ==
    [][\A v \in Versions : actual'[v] # actual[v] =>
           \/ /\ \E r \in Reports : Final(r) /\ report[r].progress = actual'[v].progress
              /\ actual'[v].progress > 0 <=> actual'[v].start # NoTime
              /\ actual'[v].progress >= 100 => actual'[v].finish # NoTime
           \/ \E c \in Clients : Orphaned(c) /\ req[c].v = v]_vars

\* A final approval reaches the TaskActual row of the version that was in execution
\* when the approval was read, whoever approves, deletes or promotes meanwhile; only
\* the financial plan can keep it out, by forbidding it at some moment after, or the
\* death of the thread.
FinalIsCommitted ==
    \A c \in Clients \ Mortal, v \in Versions, p \in Percents :
        IsAt(c, "saved") /\ req[c].row.progress = p /\ req[c].v = v
            ~> actual[v].progress = p \/ ~Allowed(p)

=============================================================================
