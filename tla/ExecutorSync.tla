------------------------------ MODULE ExecutorSync --------------------------------
(***************************************************************************)
(* The roles of users on tasks, and the resources and assignments that the *)
(* signals of TaskRole keep for executors, so that resource leveling       *)
(* counts them.  One task per project, in one revision.                    *)
(*                                                                         *)
(* Outside a transaction the role is committed first; then the signal      *)
(* looks for the pool of its name, makes it if there is none, and makes    *)
(* the resource and the assignment.  The name is not unique: two signals   *)
(* that find no pool make two, and every signal after that fails.          *)
(***************************************************************************)
EXTENDS Naturals

CONSTANTS
    Projects,           \* projects, each with one task
    Users,              \* users, by the number that is their id
    Deployments         \* who asks for what, see the MC module

ASSUME UsersAssumption == Users \subseteq Nat \ {0}
ASSUME PoolsAssumption == \A d \in Deployments : d.pools \in {0, 1}

VARIABLES
    deployment,         \* which deployment this is
    role,               \* the TaskRole rows
    held,               \* what the rows now are whose keys a thread holds to delete them
    pools,              \* how many ResourcePool rows have the signal's name
    resource,           \* the codes of the Resource rows
    assigned,           \* the Assignment rows: a task and the code of a resource
    call                \* what each thread is doing, in this module and in LevelingPlan

rolesVars == <<role, held, pools, resource, assigned>>

Roles == [task: Projects, user: Users, role: {"executor", "reviewer"}]
Executor(p, u) == [task |-> p, user |-> u, role |-> "executor"]
Reviewer(p, u) == [task |-> p, user |-> u, role |-> "reviewer"]

AnyWorker == UNION {DOMAIN d.kinds : d \in Deployments}

\* Which threads ask for requests of one of these kinds, and whether requests of one
\* group never overlap those of another.
Askers(kinds) == {w \in DOMAIN deployment.kinds : deployment.kinds[w] \cap kinds # {}}
Apart(kinds, others) == \A v \in Askers(kinds), w \in Askers(others) : v = w

IdleCall == [step |-> "idle"]
Serves(w, kind) == w \in Askers({kind}) /\ call[w] = IdleCall
Call(w, c) == call' = [call EXCEPT ![w] = c]
Finish(w) == Call(w, IdleCall)

SyncInit(d) ==
    /\ deployment = d
    /\ role = {} /\ held = [w \in AnyWorker |-> {}]
    /\ pools = d.pools /\ resource = {} /\ assigned = {}
    /\ call = [w \in AnyWorker |-> IdleCall]

-----------------------------------------------------------------------------
(* The signals *)

\* sync_executor_to_assignment looks for the resource whose code is the user's id;
\* remove_executor_assignment for the employee code, or "USR-" and the id.
CodeOf(u) == u
RemovedCode(u) == deployment.employeeCode[u]

MutUnassigned(gone) == {a \in assigned : \A r \in gone : a[1] # r.task}

\* What remain of the assignments when these roles are deleted, in one transaction.
Unassigned(gone) ==
    {a \in assigned : \A r \in gone : r.role = "executor" => a # <<r.task, RemovedCode(r.user)>>}

\* After the role is saved.
Synced(w, r) ==
    IF r.role = "executor" THEN Call(w, [step |-> "pool", role |-> r]) ELSE Finish(w)

\* ResourcePool.objects.get_or_create(name=...): of two pools, none is returned, and the
\* request fails though the role is saved.
PoolFind(w) ==
    /\ call[w].step = "pool"
    /\ IF pools > 1 THEN Finish(w)
       ELSE Call(w, [call[w] EXCEPT !.step = IF pools = 0 THEN "make" ELSE "resource"])
    /\ UNCHANGED rolesVars

PoolCreate(w) ==
    /\ call[w].step = "make"
    /\ pools' = pools + 1
    /\ Call(w, [call[w] EXCEPT !.step = "resource"])
    /\ UNCHANGED <<role, held, resource, assigned>>

EnsureResource(w) ==
    /\ call[w].step = "resource"
    /\ resource' = resource \cup {CodeOf(call[w].role.user)}
    /\ Call(w, [call[w] EXCEPT !.step = "assign"])
    /\ UNCHANGED <<role, held, pools, assigned>>

Assign(w) ==
    /\ call[w].step = "assign"
    /\ assigned' = assigned \cup {<<call[w].role.task, CodeOf(call[w].role.user)>>}
    /\ Finish(w)
    /\ UNCHANGED <<role, held, pools, resource>>

-----------------------------------------------------------------------------
(* Requests *)

\* POST of a TaskRole.
AddRole(w, r) ==
    /\ Serves(w, "role") /\ r \notin role
    /\ role' = role \cup {r}
    /\ Synced(w, r)
    /\ UNCHANGED <<held, pools, resource, assigned>>

\* PATCH of the user or the role of a TaskRole, and of the executor of a personal task:
\* the assignment of the one before stays.  The read and the save are taken as one; who
\* holds the row's key, holds it still.
ChangeRole(w, old, new) ==
    /\ Serves(w, "change role") /\ old \in role /\ new \notin role
    /\ role' = (role \ {old}) \cup {new}
    /\ held' = [v \in AnyWorker |->
                  IF old \in held[v] THEN (held[v] \ {old}) \cup {new} ELSE held[v]]
    /\ Synced(w, new)
    /\ UNCHANGED <<pools, resource, assigned>>

Hold(w, rows) ==
    /\ Call(w, [step |-> "remove", roles |-> rows])
    /\ held' = [held EXCEPT ![w] = rows]
    /\ UNCHANGED <<role, pools, resource, assigned>>

\* DELETE of one TaskRole; and of a personal task, which deletes all its roles.
RemoveRole(w, r) == Serves(w, "remove role") /\ r \in role /\ Hold(w, {r})
RemoveTask(w, p) ==
    LET rows == {r \in role : r.task = p} IN
    Serves(w, "remove task") /\ rows # {} /\ Hold(w, rows)

Released(gone) == [v \in AnyWorker |-> held[v] \ gone]

\* The rows with these keys go, and the signal is sent for each role as it was read, also
\* when its row has gone before.
Remove(w) ==
    /\ call[w].step = "remove"
    /\ role' = role \ held[w]
    /\ held' = Released(held[w])
    /\ assigned' = Unassigned(call[w].roles)
    /\ Finish(w)
    /\ UNCHANGED <<pools, resource>>

Missing(tasks, u) == {Executor(p, u) : p \in tasks} \ role

\* bulk_assign_executor, and create_personal_task: all in one transaction, which looks for
\* the pool before it commits, and fails as a whole if there are two.
BulkFind(w, tasks, u) ==
    /\ Serves(w, "bulk executor") /\ Missing(tasks, u) # {} /\ pools < 2
    /\ Call(w, [step |-> "bulk", tasks |-> tasks, user |-> u, first |-> pools = 0])
    /\ UNCHANGED rolesVars

\* A role that exists sends no signal.
BulkExecutor(w) ==
    LET c == call[w]
        new == Missing(c.tasks, c.user)
    IN
    /\ c.step = "bulk"
    /\ role' = role \cup new
    /\ pools' = IF c.first /\ new # {} THEN pools + 1 ELSE pools
    /\ resource' = IF new # {} THEN resource \cup {CodeOf(c.user)} ELSE resource
    /\ assigned' = assigned \cup {<<r.task, CodeOf(c.user)>> : r \in new}
    /\ Finish(w)
    /\ UNCHANGED held

\* bulk_assign_reviewer, with or without replacing the reviewers there are.
BulkReviewer(w, tasks, u, replace) ==
    LET old == {r \in role : replace /\ r.task \in tasks /\ r.role = "reviewer" /\ r.user # u} IN
    /\ Serves(w, "bulk reviewer")
    /\ role' = (role \ old) \cup {Reviewer(p, u) : p \in tasks}
    /\ held' = Released(old)
    /\ UNCHANGED <<pools, resource, assigned, call>>

RoleStarts(w) ==
    \/ \E r \in Roles : AddRole(w, r) \/ RemoveRole(w, r)
    \/ \E old \in role, u \in Users, kind \in {"executor", "reviewer"} :
         ChangeRole(w, old, [task |-> old.task, user |-> u, role |-> kind])
    \/ \E p \in Projects : RemoveTask(w, p)
    \/ \E tasks \in SUBSET Projects \ {{}}, u \in Users :
         BulkFind(w, tasks, u) \/ \E replace \in BOOLEAN : BulkReviewer(w, tasks, u, replace)

RoleContinues(w) ==
    PoolFind(w) \/ PoolCreate(w) \/ EnsureResource(w) \/ Assign(w) \/ Remove(w) \/ BulkExecutor(w)

-----------------------------------------------------------------------------
(* Properties *)

Deaths == Askers({"death"}) # {}

\* No employee code is the id of another user.
CodesApart == \A u, v \in Users : u # v => RemovedCode(u) # CodeOf(v)

\* The pool is there, or one thread makes all executors.
Makers == {"role", "change role", "bulk executor"}
PoolSafe == deployment.pools = 1 \/ Apart(Makers, Makers)

\* Removals overlap neither each other nor changes.
Removals == {"remove role", "remove task"}
RemoveAlone == Apart(Removals, Removals \cup {"change role"})

\* Every executor of a task takes of its resource's time in the next leveling, as soon
\* as the requests that make executors end, in whichever order roles come and go: unless
\* a process dies between the role and the assignment, a removal deletes a role that was
\* removed or changed meanwhile, or the employee code of a user who leaves is the id of one
\* who stays; and as long as there is one pool, which only the first two executors of all,
\* made at once, can change.  A removal racing an assignment may leave one too many.
ExecutorsCounted ==
    /\ PoolSafe => pools < 2
    /\ ~Deaths /\ CodesApart /\ RemoveAlone /\ pools < 2 =>
        \A r \in role : r.role = "executor" =>
            \/ <<r.task, CodeOf(r.user)>> \in assigned
            \/ \E w \in AnyWorker :
                 /\ call[w].step \in {"pool", "make", "resource", "assign"}
                 /\ call[w].role = r

=============================================================================
