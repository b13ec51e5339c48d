------------------------------- MODULE RevisionSpine -------------------------------
(***************************************************************************)
(* The official schedule of one project: its revisions, the four official  *)
(* pointers of the Project row, and the HTTP requests that move them.      *)
(*                                                                         *)
(* A request runs in a server thread (a member of Clients).  The database  *)
(* is READ COMMITTED and the settings have no ATOMIC_REQUESTS, so outside  *)
(* transaction.atomic every statement commits alone: a request is split    *)
(* into one step per commit, and req[c] holds the rows it has read so far. *)
(* Model.save() without update_fields writes the whole row as it was read. *)
(***************************************************************************)
EXTENDS Naturals

CONSTANTS
    Clients,    \* threads that serve requests
    Kinds,      \* the requests the clients send, and "crash"
    Fields,     \* what a PATCH of the project sets: roles, "dataDate", lifecycles
    DataDates,  \* values of a data date
    MaxRev,     \* bound: highest revision number
    MaxTasks,   \* bound: live task versions of a revision
    NoRev,      \* the null revision pointer
    NoDate,     \* the null data date
    Free        \* the project row is not locked

AllKinds == {"approve", "draft", "select", "patch", "destroy", "archive",
             "cpm", "edit", "amend", "crash"}

ASSUME ClientsAssumption == Free \notin Clients
ASSUME KindsAssumption == Kinds \subseteq AllKinds
ASSUME BoundsAssumption == MaxRev \in Nat /\ MaxTasks \in Nat
ASSUME NullsAssumption == NoRev \notin Nat /\ NoDate \notin DataDates
ASSUME DatesAssumption == DataDates # {}

VARIABLES
    project,  \* the Project row
    rev,      \* the Revision rows, by number; number n exists when n < next
    next,     \* one more than the highest number in use
    tasks,    \* live TaskVersion rows of each revision
    lock,     \* holder of SELECT ... FOR UPDATE on the project row, across steps
    req       \* what each thread is doing, with the rows it holds in memory

vars == <<project, rev, next, tasks, lock, req>>

Revs == 0..MaxRev
RevOrNone == Revs \cup {NoRev}
Roles == {"baseline", "execution", "forecast", "working"}
Lifecycles == {"draft", "planning", "active", "on_hold", "completed",
               "cancelled", "archived"}
Steps == {"idle", "approve_read", "approve_saved", "approve_dated", "draft",
          "select_found", "select", "patch", "destroy", "cpm", "edit", "amend"}

ProjectRow == [ptr: [Roles -> RevOrNone], dataDate: DataDates \cup {NoDate},
               lifecycle: Lifecycles, isDeleted: BOOLEAN]
RevRow == [approved: BOOLEAN, isBaseline: BOOLEAN, isDeleted: BOOLEAN]

\* A request: r its revision, row and rrow the project and revision rows in
\* memory.  Fields a step does not use keep the values of Idle.
Requests == [step: Steps, r: Revs, row: ProjectRow, rrow: RevRow]

BlankRev == [approved |-> FALSE, isBaseline |-> FALSE, isDeleted |-> FALSE]
FirstDate == CHOOSE d \in DataDates : TRUE
NewProject == [ptr |-> [role \in Roles |-> 0], dataDate |-> FirstDate,
               lifecycle |-> "planning", isDeleted |-> FALSE]
Idle == [step |-> "idle", r |-> 0, row |-> NewProject, rrow |-> BlankRev]

\* create_revision_zero: creating a project makes Rev 0, an open baseline that
\* all four pointers name.
Init ==
    /\ project = NewProject
    /\ rev = [r \in Revs |-> [BlankRev EXCEPT !.isBaseline = (r = 0)]]
    /\ next = 1
    /\ tasks = [r \in Revs |-> 0]
    /\ lock = Free
    /\ req = [c \in Clients |-> Idle]

-----------------------------------------------------------------------------
(* Rows *)

Exists(r) == r < next
IsLive(r) == Exists(r) /\ ~rev[r].isDeleted
IsOpen(r) == IsLive(r) /\ ~rev[r].approved

\* Begin, move and end the request of thread c.
Become(c, step, r, row, rrow) ==
    req' = [req EXCEPT ![c] = [step |-> step, r |-> r, row |-> row, rrow |-> rrow]]
Done(c) == req' = [req EXCEPT ![c] = Idle]
IsAt(c, step) == req[c].step = step
Starts(c, kind) == kind \in Kinds /\ req[c] = Idle

\* A write of the project row waits while another thread holds its lock.
RowFree == lock = Free

-----------------------------------------------------------------------------
(* approve: approve_revision saves the locked revision, then promotes it in a
   transaction of its own, with the data date it read in between. *)

ApproveRead(c, r) ==
    /\ Starts(c, "approve")
    /\ ~project.isDeleted /\ IsOpen(r)
    /\ Become(c, "approve_read", r, Idle.row, rev[r])
    /\ UNCHANGED <<project, rev, next, tasks, lock>>

Locked(row) == [row EXCEPT !.approved = TRUE]

ApproveSave(c) ==
    /\ IsAt(c, "approve_read")
    /\ rev' = [rev EXCEPT ![req[c].r] = Locked(req[c].rrow)]
    /\ Become(c, "approve_saved", req[c].r, Idle.row, Locked(req[c].rrow))
    /\ UNCHANGED <<project, next, tasks, lock>>

ApproveReadDate(c) ==
    /\ IsAt(c, "approve_saved")
    /\ Become(c, "approve_dated", req[c].r, project, req[c].rrow)
    /\ UNCHANGED <<project, rev, next, tasks, lock>>

\* promote_approved_revision: the row after promoting r.
MutPromotedKeepsWorking(p, r, isBaseline, date) ==
    [p EXCEPT !.ptr = [p.ptr EXCEPT !["execution"] = r, !["forecast"] = r]]
Promoted(p, r, isBaseline, date) ==
    LET base == IF isBaseline THEN r ELSE p.ptr["baseline"]
        work == IF p.ptr["working"] = r THEN NoRev ELSE p.ptr["working"]
        day == IF date # NoDate THEN date ELSE p.dataDate
    IN  [p EXCEPT !.ptr = [p.ptr EXCEPT !["execution"] = r, !["forecast"] = r,
                                        !["baseline"] = base, !["working"] = work],
                  !.dataDate = day,
                  !.lifecycle = IF base # NoRev /\ day # NoDate
                                THEN "active" ELSE "planning"]

ApprovePromote(c) ==
    /\ IsAt(c, "approve_dated") /\ RowFree
    /\ project' = Promoted(project, req[c].r, req[c].rrow.isBaseline,
                           req[c].row.dataDate)
    /\ Done(c)
    /\ UNCHANGED <<rev, next, tasks, lock>>

-----------------------------------------------------------------------------
(* create-draft: the checks read without a lock; the number, the new revision,
   its copied tasks and the working pointer commit together under the lock. *)

MutOccupied(w, r) == FALSE
\* An open live working revision other than r keeps r from being assigned.
Occupied(w, r) == w # NoRev /\ w # r /\ ~rev[w].isDeleted /\ ~rev[w].approved

DraftRead(c, base) ==
    /\ Starts(c, "draft")
    /\ next <= MaxRev
    /\ ~project.isDeleted /\ IsLive(base)
    /\ ~Occupied(project.ptr["working"], base)
    /\ rev[base].approved
    /\ Become(c, "draft", base, Idle.row, Idle.rrow)
    /\ UNCHANGED <<project, rev, next, tasks, lock>>

\* assign_working_revision, with its own check of the row under the lock.
Assigned(p, r) ==
    [p EXCEPT !.ptr = [p.ptr EXCEPT !["working"] = r],
              !.lifecycle = IF p.lifecycle = "draft" THEN "planning" ELSE p.lifecycle]

DraftCommit(c) ==
    /\ IsAt(c, "draft") /\ RowFree
    /\ next <= MaxRev /\ ~Occupied(project.ptr["working"], next)
    /\ rev' = [rev EXCEPT ![next] = BlankRev]
    /\ tasks' = [tasks EXCEPT ![next] = tasks[req[c].r]]
    /\ project' = Assigned(project, next)
    /\ next' = next + 1
    /\ Done(c)
    /\ UNCHANGED lock

\* assign_working_revision raises: the transaction rolls back.  (So does a
\* draft for which the model has no number left: the bound MaxRev.)
DraftRefused(c) ==
    /\ IsAt(c, "draft") /\ RowFree
    /\ next > MaxRev \/ Occupied(project.ptr["working"], next)
    /\ Done(c)
    /\ UNCHANGED <<project, rev, next, tasks, lock>>

-----------------------------------------------------------------------------
(* PATCH of the project: official-schedule locks the row first, the generic
   update does not; both validate with ProjectSerializer and save the whole row.
   A patch of several fields is a sequence of patches of one. *)

Patches(p) ==
    {p} \cup {[p EXCEPT !.ptr = [p.ptr EXCEPT ![role] = r]] :
                  role \in Fields \cap Roles, r \in RevOrNone}
        \cup {[p EXCEPT !.dataDate = d] :
                  d \in IF "dataDate" \in Fields THEN DataDates \cup {NoDate} ELSE {}}
        \cup {[p EXCEPT !.lifecycle = s] : s \in Fields \cap Lifecycles}

Changed(p, q, role) == q.ptr[role] # p.ptr[role] /\ q.ptr[role] # NoRev

MutValidPatch(p, q) ==
    \A role \in Roles : q.ptr[role] # NoRev => IsLive(q.ptr[role])
ValidPatch(p, q) ==
    /\ \A role \in Roles : q.ptr[role] # NoRev => IsLive(q.ptr[role])
    /\ Changed(p, q, "baseline") => rev[q.ptr["baseline"]].isBaseline
    /\ \A role \in Roles \ {"working"} :
           Changed(p, q, role) => rev[q.ptr[role]].approved
    /\ Changed(p, q, "working") =>
           /\ ~rev[q.ptr["working"]].approved
           /\ ~Occupied(p.ptr["working"], q.ptr["working"])
    /\ q.lifecycle = "active" =>
           /\ q.ptr["baseline"] # NoRev /\ q.ptr["execution"] # NoRev
           /\ q.dataDate # NoDate

\* official_schedule finds the project with get_object, which leaves deleted ones
\* out, and reads the row again when it has the lock, without asking that again.
SelectFind(c) ==
    /\ Starts(c, "select")
    /\ ~project.isDeleted
    /\ Become(c, "select_found", 0, Idle.row, Idle.rrow)
    /\ UNCHANGED <<project, rev, next, tasks, lock>>

SelectValidate(c, q) ==
    /\ IsAt(c, "select_found") /\ RowFree
    /\ ValidPatch(project, q)
    /\ lock' = c
    /\ Become(c, "select", 0, q, Idle.rrow)
    /\ UNCHANGED <<project, rev, next, tasks>>

\* The serializer raises: the transaction rolls back.
SelectRefused(c) ==
    /\ IsAt(c, "select_found") /\ RowFree
    /\ \E q \in Patches(project) : ~ValidPatch(project, q)
    /\ Done(c)
    /\ UNCHANGED <<project, rev, next, tasks, lock>>

\* Committing the transaction gives the row lock back.
MutHolderAfter(c) == c
HolderAfter(c) == Free

SelectSave(c) ==
    /\ IsAt(c, "select")
    /\ project' = req[c].row
    /\ lock' = HolderAfter(c)
    /\ Done(c)
    /\ UNCHANGED <<rev, next, tasks>>

PatchValidate(c, q) ==
    /\ Starts(c, "patch")
    /\ ~project.isDeleted /\ ValidPatch(project, q)
    /\ Become(c, "patch", 0, q, Idle.rrow)
    /\ UNCHANGED <<project, rev, next, tasks, lock>>

PatchSave(c) ==
    /\ IsAt(c, "patch") /\ RowFree
    /\ project' = req[c].row
    /\ Done(c)
    /\ UNCHANGED <<rev, next, tasks, lock>>

-----------------------------------------------------------------------------
(* Soft deletes *)

MutUnofficial(r) == TRUE
Unofficial(r) == \A role \in Roles : project.ptr[role] # r

DestroyRead(c, r) ==
    /\ Starts(c, "destroy")
    /\ ~project.isDeleted /\ IsLive(r) /\ Unofficial(r)
    /\ Become(c, "destroy", r, Idle.row, rev[r])
    /\ UNCHANGED <<project, rev, next, tasks, lock>>

\* save(update_fields=["is_deleted"]): of the row in memory only that is written.
MutDestroyed(stored, held) == [held EXCEPT !.isDeleted = TRUE]
Destroyed(stored, held) == [stored EXCEPT !.isDeleted = TRUE]

DestroySave(c) ==
    /\ IsAt(c, "destroy")
    /\ rev' = [rev EXCEPT ![req[c].r] = Destroyed(@, req[c].rrow)]
    /\ Done(c)
    /\ UNCHANGED <<project, next, tasks, lock>>

Archived(p) == [p EXCEPT !.isDeleted = TRUE, !.lifecycle = "archived"]

\* ProjectViewSet.perform_destroy writes its two fields in one statement.
ArchiveProject(c) ==
    /\ Starts(c, "archive") /\ RowFree
    /\ ~project.isDeleted
    /\ project' = Archived(project)
    /\ UNCHANGED <<rev, next, tasks, lock, req>>

-----------------------------------------------------------------------------
(* run-cpm, edits of the schedule, PATCH of a revision *)

CpmRead(c) ==
    /\ Starts(c, "cpm")
    /\ LET w == project.ptr["working"] IN
       /\ ~project.isDeleted /\ w # NoRev /\ IsOpen(w)
       /\ Become(c, "cpm", w, Idle.row, Idle.rrow)
    /\ UNCHANGED <<project, rev, next, tasks, lock>>

\* CPMEngine.run returns no data_date for a revision without tasks.
CpmDate(r, d) == IF tasks[r] = 0 THEN NoDate ELSE d

CpmSave(c, d) ==
    /\ IsAt(c, "cpm") /\ RowFree
    /\ project' = [project EXCEPT !.dataDate = CpmDate(req[c].r, d)]
    /\ Done(c)
    /\ UNCHANGED <<rev, next, tasks, lock>>

\* check_revision_is_open
MutRevisionOpen(r) == Exists(r)
RevisionOpen(r) == Exists(r) /\ ~rev[r].approved

EditRead(c, r) ==
    /\ Starts(c, "edit")
    /\ RevisionOpen(r)
    /\ Become(c, "edit", r, Idle.row, Idle.rrow)
    /\ UNCHANGED <<project, rev, next, tasks, lock>>

\* Creating an activity, or soft-deleting one (or a WBS branch with its tasks).
EditSave(c, n) ==
    /\ IsAt(c, "edit")
    /\ n # tasks[req[c].r] /\ n <= tasks[req[c].r] + 1
    /\ tasks' = [tasks EXCEPT ![req[c].r] = n]
    /\ Done(c)
    /\ UNCHANGED <<project, rev, next, lock>>

\* RevisionSerializer lets a PATCH set isBaseline and approvedAt (to a date,
\* never back to null).  description and dates are not modelled, and neither is
\* number, a label: the numbers of this module are the order of creation.
AmendRead(c, r, row) ==
    /\ Starts(c, "amend")
    /\ ~project.isDeleted /\ IsLive(r)
    /\ row \in {rev[r], [rev[r] EXCEPT !.approved = TRUE],
                [rev[r] EXCEPT !.isBaseline = TRUE],
                [rev[r] EXCEPT !.isBaseline = FALSE]}
    /\ Become(c, "amend", r, Idle.row, row)
    /\ UNCHANGED <<project, rev, next, tasks, lock>>

AmendSave(c) ==
    /\ IsAt(c, "amend")
    /\ rev' = [rev EXCEPT ![req[c].r] = req[c].rrow]
    /\ Done(c)
    /\ UNCHANGED <<project, next, tasks, lock>>

\* The thread dies: what it committed stays, its transaction rolls back.
Crash(c) ==
    /\ "crash" \in Kinds /\ ~IsAt(c, "idle")
    /\ lock' = IF lock = c THEN Free ELSE lock
    /\ Done(c)
    /\ UNCHANGED <<project, rev, next, tasks>>

-----------------------------------------------------------------------------

Request(c) ==
    \/ \E r \in Revs : ApproveRead(c, r) \/ DraftRead(c, r)
                       \/ DestroyRead(c, r) \/ EditRead(c, r)
    \/ SelectFind(c)
    \/ \E q \in Patches(project) : PatchValidate(c, q)
    \/ \E r \in Revs, row \in RevRow : AmendRead(c, r, row)
    \/ ArchiveProject(c)
    \/ CpmRead(c)

Proceed(c) ==
    \/ ApproveSave(c) \/ ApproveReadDate(c) \/ ApprovePromote(c)
    \/ DraftCommit(c) \/ DraftRefused(c)
    \/ \E q \in Patches(project) : SelectValidate(c, q)
    \/ SelectRefused(c) \/ SelectSave(c) \/ PatchSave(c)
    \/ DestroySave(c) \/ AmendSave(c)
    \/ \E d \in DataDates : CpmSave(c, d)
    \/ \E n \in 0..MaxTasks : EditSave(c, n)

Next == \E c \in Clients : Request(c) \/ Proceed(c) \/ Crash(c)

Spec == Init /\ [][Next]_vars

\* A thread that serves a request keeps running; PostgreSQL queues the waiters
\* of a row lock, so a thread is not passed over for ever: strong fairness.
FairSpec == Spec /\ \A c \in Clients : SF_vars(Proceed(c))

-----------------------------------------------------------------------------
(* Properties *)

\* Every variable has its type; a lock is held exactly during a select.
TypeOK ==
    /\ project \in ProjectRow
    /\ rev \in [Revs -> RevRow]
    /\ next \in 1..(MaxRev + 1)
    /\ tasks \in [Revs -> 0..MaxTasks]
    /\ lock \in Clients \cup {Free}
    /\ req \in [Clients -> Requests]

\* Every official pointer but the working one names an approved revision, or
\* Rev 0, which is official from the start: no stale read, unlocked write or
\* crash makes an open draft official (ProjectSerializer.validate and
\* promote_approved_revision both demand approved_at).
OfficialApproved ==
    \A role \in Roles \ {"working"} :
        project.ptr[role] \in Revs \ {0} => rev[project.ptr[role]].approved

\* The active baseline is marked as baseline (Project.clean).
BaselineMarked ==
    project.ptr["baseline"] # NoRev => rev[project.ptr["baseline"]].isBaseline

\* What is official became so by the rules: approved, and marked where it is the
\* baseline, in rows that stay well formed.
OfficialSound == TypeOK /\ OfficialApproved /\ BaselineMarked

\* While drafts come only from create-draft, a project has at most one open
\* revision and it is the working one, whatever requests overlap: the second
\* of two create-drafts is refused by the check under the lock.
SingleOpenRevision == \A r \in Revs : IsOpen(r) => r = project.ptr["working"]

\* Approved, and no PATCH of the revision in flight holds a row from before that.
Sealed(r) ==
    /\ rev[r].approved
    /\ \A c \in Clients : IsAt(c, "amend") /\ req[c].r = r => req[c].rrow.approved

\* Once the PATCHes that read a revision before its approval have ended, it is
\* approved for good: no deletion, second approval, later PATCH or death saves it
\* back as open.  (A PATCH that read it before does: the row is saved whole.)
ApprovalPermanent == [][\A r \in Revs : Sealed(r) => Sealed(r)']_vars

\* No official pointer names a soft-deleted revision (RevisionViewSet's
\* perform_destroy, and Project.clean).
OfficialNotDeleted ==
    \A role \in Roles : project.ptr[role] # NoRev => ~rev[project.ptr[role]].isDeleted

\* A deleted project stays archived: nothing revives its lifecycle.
DeletedStaysArchived == project.isDeleted => project.lifecycle = "archived"

\* Deletion is for good: nothing deleted is official or comes back to life.
DeletedStaysOut == OfficialNotDeleted /\ DeletedStaysArchived

\* Sealed, and no edit that found the revision open is still to be committed.
Frozen(r) ==
    Sealed(r) /\ \A c \in Clients : ~(IsAt(c, "edit") /\ req[c].r = r)

\* Once the edits that found a revision open have ended, its tasks are frozen for
\* good: no later request edits them, and none reopens the revision to do so
\* (check_revision_is_open reads approved_at, which PATCHes and deletions save).
RevisionFrozen ==
    [][\A r \in Revs : Frozen(r) => Frozen(r)' /\ tasks'[r] = tasks[r]]_vars

\* Every request ends: none waits for ever for the project row.
RequestsEnd == \A c \in Clients : ~IsAt(c, "idle") ~> IsAt(c, "idle")

\* A revision whose approval was saved becomes the execution revision.
ApprovalIsPromoted ==
    \A c \in Clients, r \in Revs :
        IsAt(c, "approve_saved") /\ req[c].r = r ~> project.ptr["execution"] = r

\* Who waits for the project row gets it, and an approval that was saved becomes
\* the execution revision.
Progress == RequestsEnd /\ ApprovalIsPromoted

\* Refinement: requests that do not overlap implement OfficialSchedule, where
\* approving and promoting are one step, and a death in between leaves the
\* revision locked.
Promoting == {req[c].r : c \in {d \in Clients : IsAt(d, "approve_saved")
                                                \/ IsAt(d, "approve_dated")}}
Official == INSTANCE OfficialSchedule WITH
    ptr <- project.ptr,
    made <- next,
    locked <- {r \in Revs : rev[r].approved} \ Promoting,
    marked <- {r \in Revs : rev[r].isBaseline},
    gone <- {r \in Revs : rev[r].isDeleted}
ImplementsOfficial == Official!Spec

=============================================================================
