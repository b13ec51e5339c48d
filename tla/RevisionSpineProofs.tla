--------------------------- MODULE RevisionSpineProofs ---------------------------
(***************************************************************************)
(* Proofs about RevisionSpine for every set of threads and every bound.    *)
(***************************************************************************)
EXTENDS RevisionSpine, TLAPS

-----------------------------------------------------------------------------
(* Type correctness *)

LEMMA RowTypes ==
    /\ NewProject \in ProjectRow
    /\ BlankRev \in RevRow
    /\ Idle \in Requests
<1>1. FirstDate \in DataDates
  BY DatesAssumption DEF FirstDate
<1>2. 0 \in Revs
  BY BoundsAssumption DEF Revs
<1>3. NewProject \in ProjectRow
  BY <1>1, <1>2 DEF NewProject, ProjectRow, RevOrNone, Lifecycles
<1>4. BlankRev \in RevRow
  BY DEF BlankRev, RevRow
<1> QED
  BY <1>2, <1>3, <1>4 DEF Idle, Requests, Steps

\* promote_approved_revision leaves a well-formed row.
LEMMA PromotedType ==
    ASSUME NEW p \in ProjectRow, NEW r \in Revs, NEW b \in BOOLEAN,
           NEW d \in DataDates \cup {NoDate}
    PROVE  Promoted(p, r, b, d) \in ProjectRow
BY DEF Promoted, ProjectRow, RevOrNone, Lifecycles, Roles

LEMMA AssignedType ==
    ASSUME NEW p \in ProjectRow, NEW r \in Revs
    PROVE  Assigned(p, r) \in ProjectRow
BY DEF Assigned, ProjectRow, RevOrNone, Lifecycles, Roles

LEMMA PatchType ==
    ASSUME NEW p \in ProjectRow, NEW q \in Patches(p)
    PROVE  q \in ProjectRow
BY DEF Patches, ProjectRow, RevOrNone, Lifecycles, Roles

LEMMA TypeInit == Init => TypeOK
<1> SUFFICES ASSUME Init PROVE TypeOK
  OBVIOUS
<1>1. rev \in [Revs -> RevRow]
  BY DEF Init, BlankRev, RevRow
<1>2. next \in 1..(MaxRev + 1) /\ tasks \in [Revs -> 0..MaxTasks]
  BY BoundsAssumption DEF Init, Revs
<1> QED
  BY <1>1, <1>2, RowTypes DEF Init, TypeOK

LEMMA TypeNext == TypeOK /\ [Next]_vars => TypeOK'
<1> SUFFICES ASSUME TypeOK, [Next]_vars PROVE TypeOK'
  OBVIOUS
<1> USE RowTypes DEF TypeOK
<1>idle. Idle.row \in ProjectRow /\ Idle.rrow \in RevRow /\ 0 \in Revs
  BY BoundsAssumption DEF Idle, Requests, Revs
<1>become. ASSUME NEW c \in Clients, NEW s \in Steps, NEW r \in Revs,
                  NEW p \in ProjectRow, NEW q \in RevRow, Become(c, s, r, p, q)
           PROVE  req' \in [Clients -> Requests]
  BY <1>become DEF Become, Requests
<1>done. ASSUME NEW c \in Clients, Done(c) PROVE req' \in [Clients -> Requests]
  BY <1>done DEF Done
<1>mem. \A c \in Clients : /\ req[c].r \in Revs /\ req[c].row \in ProjectRow
                          /\ req[c].rrow \in RevRow /\ req[c].step \in Steps
  BY DEF Requests
<1>dates. \A c \in Clients : /\ req[c].row.dataDate \in DataDates \cup {NoDate}
                            /\ req[c].rrow.isBaseline \in BOOLEAN
  BY <1>mem DEF ProjectRow, RevRow
<1>1. ASSUME NEW c \in Clients, Request(c) PROVE TypeOK'
  <2>1. ASSUME NEW r \in Revs, ApproveRead(c, r) PROVE TypeOK'
    BY <2>1, <1>idle, <1>become DEF ApproveRead, Steps
  <2>2. ASSUME NEW r \in Revs, DraftRead(c, r) PROVE TypeOK'
    BY <2>2, <1>idle, <1>become DEF DraftRead, Steps
  <2>3. ASSUME NEW r \in Revs, DestroyRead(c, r) PROVE TypeOK'
    BY <2>3, <1>idle, <1>become DEF DestroyRead, Steps
  <2>4. ASSUME NEW r \in Revs, EditRead(c, r) PROVE TypeOK'
    BY <2>4, <1>idle, <1>become DEF EditRead, Steps
  <2>5. CASE SelectFind(c)
    BY <2>5, <1>idle, <1>become DEF SelectFind, Steps
  <2>6. ASSUME NEW q \in Patches(project), PatchValidate(c, q) PROVE TypeOK'
    BY <2>6, <1>idle, <1>become, PatchType DEF PatchValidate, Steps
  <2>7. ASSUME NEW r \in Revs, NEW row \in RevRow, AmendRead(c, r, row) PROVE TypeOK'
    BY <2>7, <1>idle, <1>become DEF AmendRead, Steps
  <2>8. CASE ArchiveProject(c)
    BY <2>8 DEF ArchiveProject, Archived, ProjectRow, Lifecycles
  <2>9. CASE CpmRead(c)
    <3>1. project.ptr["working"] \in RevOrNone
      BY DEF ProjectRow, Roles
    <3> QED
      BY <2>9, <3>1, <1>idle, <1>become DEF CpmRead, Steps, RevOrNone
  <2> QED
    BY <1>1, <2>1, <2>2, <2>3, <2>4, <2>5, <2>6, <2>7, <2>8, <2>9 DEF Request
<1>2. ASSUME NEW c \in Clients, Proceed(c) PROVE TypeOK'
  <2>1. CASE ApproveSave(c)
    <3>1. Locked(req[c].rrow) \in RevRow
      BY <1>mem DEF Locked, RevRow
    <3> QED
      BY <2>1, <3>1, <1>mem, <1>idle, <1>become DEF ApproveSave, Steps
  <2>2. CASE ApproveReadDate(c)
    BY <2>2, <1>mem, <1>become DEF ApproveReadDate, Steps
  <2>3. CASE ApprovePromote(c)
    BY <2>3, <1>mem, <1>dates, <1>done, PromotedType DEF ApprovePromote
  <2>4. CASE DraftCommit(c)
    <3>1. next \in Revs /\ next + 1 \in 1..(MaxRev + 1)
      BY <2>4, BoundsAssumption DEF DraftCommit, Revs
    <3>2. tasks' \in [Revs -> 0..MaxTasks]
      BY <2>4, <3>1, <1>mem DEF DraftCommit
    <3>3. rev' \in [Revs -> RevRow]
      BY <2>4, <3>1 DEF DraftCommit
    <3> QED
      BY <2>4, <3>1, <3>2, <3>3, <1>done, AssignedType DEF DraftCommit
  <2>5. CASE DraftRefused(c)
    BY <2>5, <1>done DEF DraftRefused
  <2>6. CASE SelectSave(c)
    BY <2>6, <1>mem, <1>done DEF SelectSave, HolderAfter
  <2>7. CASE PatchSave(c)
    BY <2>7, <1>mem, <1>done DEF PatchSave
  <2>8. CASE DestroySave(c)
    <3>1. Destroyed(rev[req[c].r], req[c].rrow) \in RevRow
      BY <1>mem DEF Destroyed, RevRow
    <3> QED
      BY <2>8, <3>1, <1>mem, <1>done DEF DestroySave
  <2>9. CASE AmendSave(c)
    BY <2>9, <1>mem, <1>done DEF AmendSave
  <2>10. ASSUME NEW d \in DataDates, CpmSave(c, d) PROVE TypeOK'
    <3>1. CpmDate(req[c].r, d) \in DataDates \cup {NoDate}
      BY DEF CpmDate
    <3>2. project' \in ProjectRow
      BY <2>10, <3>1 DEF CpmSave, ProjectRow
    <3> QED
      BY <2>10, <3>2, <1>done DEF CpmSave
  <2>11. ASSUME NEW n \in 0..MaxTasks, EditSave(c, n) PROVE TypeOK'
    BY <2>11, <1>mem, <1>done DEF EditSave
  <2>12. ASSUME NEW q \in Patches(project), SelectValidate(c, q) PROVE TypeOK'
    BY <2>12, <1>idle, <1>become, PatchType DEF SelectValidate, Steps
  <2>13. CASE SelectRefused(c)
    BY <2>13, <1>done DEF SelectRefused
  <2> QED
    BY <1>2, <2>1, <2>2, <2>3, <2>4, <2>5, <2>6, <2>7, <2>8, <2>9, <2>10, <2>11, <2>12, <2>13
    DEF Proceed
<1>3. ASSUME NEW c \in Clients, Crash(c) PROVE TypeOK'
  BY <1>3, <1>done DEF Crash
<1>4. CASE UNCHANGED vars
  BY <1>4 DEF vars
<1> QED
  BY <1>1, <1>2, <1>3, <1>4 DEF Next

\* The variables keep their types: TypeOK of RevisionSpine holds for every
\* set of threads, every mix of requests and every bound.
THEOREM TypeCorrect == Spec => []TypeOK
BY TypeInit, TypeNext, PTL DEF Spec

-----------------------------------------------------------------------------
(* Official revisions.  The clients send no PATCH of a revision ("amend"), which saves
   the whole row as it was read and so may undo an approval.  The invariant
   says, beside what the project row names, what the rows held in memory may
   name. *)

Approving(c) == req[c].step \in {"approve_read", "approve_saved", "approve_dated"}
Saved(c) == req[c].step \in {"approve_saved", "approve_dated"}
Patching(c) == req[c].step \in {"select", "patch"}

\* Requests that a set of Kinds may leave out are then never served.
Sent(step) ==
    /\ step \in {"patch", "amend"} => step \in Kinds
    /\ step \in {"select_found", "select"} => "select" \in Kinds

RowExists(p) == \A role \in Roles : p.ptr[role] # NoRev => p.ptr[role] < next
RowApproved(p) ==
    \A role \in Roles \ {"working"} :
        p.ptr[role] \in Revs \ {0} => rev[p.ptr[role]].approved
RowMarked(p) == p.ptr["baseline"] # NoRev => rev[p.ptr["baseline"]].isBaseline

\* Rows that do not exist yet are blank; rows in use name existing revisions.
NumbersInv ==
    /\ \A r \in Revs : rev[r].approved => r < next
    /\ RowExists(project)
    /\ \A c \in Clients : Patching(c) => RowExists(req[c].row)
    /\ \A c \in Clients : req[c].r < next
    /\ \A c \in Clients : Sent(req[c].step)

ApprovedInv ==
    /\ RowApproved(project)
    /\ \A c \in Clients : Patching(c) => RowApproved(req[c].row)
    /\ \A c \in Clients : Saved(c) => rev[req[c].r].approved

MarkedInv ==
    /\ RowMarked(project)
    /\ \A c \in Clients : Patching(c) => RowMarked(req[c].row)
    /\ \A c \in Clients :
           Approving(c) => req[c].rrow.isBaseline = rev[req[c].r].isBaseline

LEMMA NumbersInit == Init => NumbersInv
<1> SUFFICES ASSUME Init PROVE NumbersInv
  OBVIOUS
<1>1. \A r \in Revs : ~rev[r].approved
  BY DEF Init, BlankRev
<1>2. RowExists(project)
  BY DEF Init, NewProject, RowExists
<1>3. \A c \in Clients : req[c].step = "idle" /\ req[c].r = 0
  BY DEF Init, Idle
<1> QED
  BY <1>1, <1>2, <1>3 DEF Init, NumbersInv, Patching, Sent

\* What a PATCH sends: the row as read, with one field changed.
LEMMA ValidPatchFacts ==
    ASSUME NEW p \in ProjectRow, NEW q \in ProjectRow, ValidPatch(p, q)
    PROVE  /\ RowExists(q)
           /\ RowApproved(p) => RowApproved(q)
           /\ RowMarked(p) => RowMarked(q)
<1>1. RowExists(q)
  BY DEF ValidPatch, RowExists, IsLive, Exists
<1>2. ASSUME RowApproved(p) PROVE RowApproved(q)
  BY <1>2, NullsAssumption DEF ValidPatch, Changed, RowApproved, Revs
<1>3. ASSUME RowMarked(p) PROVE RowMarked(q)
  BY <1>3 DEF ValidPatch, Changed, RowMarked
<1> QED
  BY <1>1, <1>2, <1>3

\* One case per step, for the proofs that follow: how each step moves req.
LEMMA NumbersNext == TypeOK /\ NumbersInv /\ [Next]_vars => NumbersInv'
<1> SUFFICES ASSUME TypeOK, NumbersInv, [Next]_vars PROVE NumbersInv'
  OBVIOUS
<1> USE DEF NumbersInv
<1>mem. \A c \in Clients : /\ req[c].r \in Revs /\ req[c].row \in ProjectRow
                          /\ req[c].rrow \in RevRow
  BY DEF TypeOK, Requests
<1>nat. next \in Nat /\ 0 < next /\ Revs \subseteq Nat
  BY BoundsAssumption DEF TypeOK, Revs
<1>become. ASSUME NEW c \in Clients, NEW s \in Steps, NEW r \in Revs,
                  NEW p \in ProjectRow, NEW q \in RevRow, Become(c, s, r, p, q),
                  r < next, next' = next,
                  s \in {"select", "patch"} => RowExists(p),
                  Sent(s)
           PROVE  /\ \A d \in Clients : Patching(d)' => RowExists(req[d].row)'
                  /\ \A d \in Clients : req'[d].r < next'
                  /\ \A d \in Clients : Sent(req'[d].step)
  BY <1>become DEF Become, Patching, RowExists, IsAt, TypeOK
<1>done. ASSUME NEW c \in Clients, Done(c), next' = next \/ next' = next + 1
         PROVE  /\ \A d \in Clients : Patching(d)' => RowExists(req[d].row)'
                /\ \A d \in Clients : req'[d].r < next'
                /\ \A d \in Clients : Sent(req'[d].step)
  <2>1. req' = [req EXCEPT ![c] = Idle] /\ Idle.step = "idle" /\ Idle.r = 0
    BY <1>done DEF Done, Idle
  <2>2. \A d \in Clients : Patching(d)' => RowExists(req[d].row)'
    <3> SUFFICES ASSUME NEW d \in Clients, Patching(d)' PROVE RowExists(req[d].row)'
      OBVIOUS
    <3>1. d # c /\ req'[d] = req[d] /\ Patching(d)
      BY <2>1 DEF Patching, TypeOK
    <3>2. \A role \in Roles : req[d].row.ptr[role] \in RevOrNone
      BY <1>mem DEF ProjectRow
    <3>3. RowExists(req[d].row) /\ \A role \in Roles : req[d].row.ptr[role] # NoRev =>
                                       req[d].row.ptr[role] \in Nat
      BY <3>1, <3>2, <1>nat DEF RevOrNone
    <3>4. \A n \in Nat : n < next => n < next'
      BY <1>done, <1>nat
    <3> QED
      BY <3>1, <3>3, <3>4 DEF RowExists
  <2>3. \A d \in Clients : req'[d].r < next'
    <3>1. ASSUME NEW d \in Clients PROVE req'[d].r \in Nat /\ req'[d].r < next
      <4>1. req'[d] = IF d = c THEN Idle ELSE req[d]
        BY <2>1 DEF TypeOK
      <4>2. req[d].r \in Nat /\ req[d].r < next
        BY <1>mem, <1>nat
      <4> QED
        BY <4>1, <4>2, <2>1, <1>nat
    <3>2. \A n \in Nat : n < next => n < next'
      BY <1>done, <1>nat
    <3> QED
      BY <3>1, <3>2
  <2>4. \A d \in Clients : Sent(req'[d].step)
    BY <2>1 DEF Sent, TypeOK
  <2> QED
    BY <2>2, <2>3, <2>4
<1>idle. Idle.row \in ProjectRow /\ Idle.rrow \in RevRow /\ 0 \in Revs
  BY RowTypes, BoundsAssumption DEF Idle, Requests, Revs
<1>same. ASSUME UNCHANGED <<project, rev, next>>
         PROVE  /\ \A r \in Revs : rev'[r].approved => r < next'
                /\ RowExists(project)'
  BY <1>same DEF RowExists
<1>1. ASSUME NEW c \in Clients, Request(c) PROVE NumbersInv'
  <2>1. ASSUME NEW r \in Revs, ApproveRead(c, r) PROVE NumbersInv'
    BY <2>1, <1>same, <1>idle, <1>become DEF ApproveRead, Sent, Steps, IsOpen, IsLive, Exists, TypeOK
  <2>2. ASSUME NEW r \in Revs, DraftRead(c, r) PROVE NumbersInv'
    BY <2>2, <1>same, <1>idle, <1>become DEF DraftRead, Sent, Steps, IsLive, Exists
  <2>3. ASSUME NEW r \in Revs, DestroyRead(c, r) PROVE NumbersInv'
    BY <2>3, <1>same, <1>idle, <1>become DEF DestroyRead, Sent, Steps, IsLive, Exists, TypeOK
  <2>4. ASSUME NEW r \in Revs, EditRead(c, r) PROVE NumbersInv'
    BY <2>4, <1>same, <1>idle, <1>become DEF EditRead, Sent, Steps, RevisionOpen, Exists
  <2>5. CASE SelectFind(c)
    BY <2>5, <1>same, <1>idle, <1>nat, <1>become DEF SelectFind, Starts, Sent, Steps
  <2>6. ASSUME NEW q \in Patches(project), PatchValidate(c, q) PROVE NumbersInv'
    BY <2>6, <1>same, <1>idle, <1>nat, <1>become, PatchType, ValidPatchFacts
    DEF PatchValidate, Starts, Sent, Steps, TypeOK
  <2>7. ASSUME NEW r \in Revs, NEW row \in RevRow, AmendRead(c, r, row) PROVE NumbersInv'
    BY <2>7, <1>same, <1>idle, <1>become DEF AmendRead, Starts, Steps, IsLive, Exists, Sent
  <2>8. CASE ArchiveProject(c)
    BY <2>8 DEF ArchiveProject, Archived, RowExists, Patching, IsAt, TypeOK, ProjectRow
  <2>9. CASE CpmRead(c)
    <3>1. project.ptr["working"] \in RevOrNone
      BY DEF TypeOK, ProjectRow, Roles
    <3> QED
      BY <2>9, <3>1, <1>same, <1>idle, <1>become
      DEF CpmRead, Sent, Steps, RevOrNone, IsOpen, IsLive, Exists
  <2> QED
    BY <1>1, <2>1, <2>2, <2>3, <2>4, <2>5, <2>6, <2>7, <2>8, <2>9 DEF Request
<1>2. ASSUME NEW c \in Clients, Proceed(c) PROVE NumbersInv'
  <2>1. CASE ApproveSave(c)
    <3>1. Locked(req[c].rrow) \in RevRow
      BY <1>mem DEF Locked, RevRow
    <3>2. \A r \in Revs : rev'[r].approved => r < next'
      BY <2>1, <1>mem DEF ApproveSave, Sent, TypeOK
    <3> QED
      BY <2>1, <3>1, <3>2, <1>mem, <1>idle, <1>become DEF ApproveSave, Sent, Steps, RowExists
  <2>2. CASE ApproveReadDate(c)
    BY <2>2, <1>same, <1>mem, <1>become DEF ApproveReadDate, Sent, Steps, TypeOK
  <2>3. CASE ApprovePromote(c)
    <3>1. RowExists(project)'
      BY <2>3, <1>mem DEF ApprovePromote, Promoted, RowExists, TypeOK, ProjectRow, Roles
    <3> QED
      BY <2>3, <3>1, <1>done DEF ApprovePromote
  <2>4. CASE DraftCommit(c)
    <3>1. next \in Revs /\ next' = next + 1
      BY <2>4, <1>nat DEF DraftCommit, Revs
    <3>2. \A r \in Revs : rev'[r].approved => r < next'
      BY <2>4, <3>1, <1>nat DEF DraftCommit, BlankRev, TypeOK
    <3>3. \A role \in Roles : project.ptr[role] \in RevOrNone
      BY DEF TypeOK, ProjectRow
    <3>4. RowExists(project)'
      BY <2>4, <3>1, <3>3, <1>nat
      DEF DraftCommit, Assigned, RowExists, TypeOK, ProjectRow, Roles, RevOrNone
    <3> QED
      BY <2>4, <3>1, <3>2, <3>4, <1>done DEF DraftCommit
  <2>5. CASE DraftRefused(c)
    BY <2>5, <1>same, <1>done DEF DraftRefused
  <2>6. CASE SelectSave(c)
    BY <2>6, <1>done DEF SelectSave, RowExists, Patching, IsAt
  <2>7. CASE PatchSave(c)
    BY <2>7, <1>done DEF PatchSave, RowExists, Patching, IsAt
  <2>8. CASE DestroySave(c)
    <3>1. \A r \in Revs : rev'[r].approved => rev[r].approved
      BY <2>8, <1>mem DEF DestroySave, Destroyed, TypeOK, RevRow
    <3> QED
      BY <2>8, <3>1, <1>done DEF DestroySave, RowExists
  <2>9. CASE AmendSave(c)
    BY <2>9, <1>mem, <1>done DEF AmendSave, RowExists, TypeOK
  <2>10. ASSUME NEW d \in DataDates, CpmSave(c, d) PROVE NumbersInv'
    BY <2>10, <1>done DEF CpmSave, RowExists, TypeOK, ProjectRow
  <2>11. ASSUME NEW n \in 0..MaxTasks, EditSave(c, n) PROVE NumbersInv'
    BY <2>11, <1>same, <1>done DEF EditSave
  <2>12. ASSUME NEW q \in Patches(project), SelectValidate(c, q) PROVE NumbersInv'
    BY <2>12, <1>same, <1>idle, <1>nat, <1>become, PatchType, ValidPatchFacts
    DEF SelectValidate, IsAt, Sent, Steps, TypeOK
  <2>13. CASE SelectRefused(c)
    BY <2>13, <1>same, <1>done DEF SelectRefused
  <2> QED
    BY <1>2, <2>1, <2>2, <2>3, <2>4, <2>5, <2>6, <2>7, <2>8, <2>9, <2>10, <2>11, <2>12, <2>13
    DEF Proceed
<1>3. ASSUME NEW c \in Clients, Crash(c) PROVE NumbersInv'
  BY <1>3, <1>same, <1>done DEF Crash
<1>4. CASE UNCHANGED vars
  BY <1>4, <1>same DEF vars, Patching, IsAt, RowExists
<1> QED
  BY <1>1, <1>2, <1>3, <1>4 DEF Next

\* Saving the approval of a revision, and every other step, keeps approvals;
\* isBaseline of an existing revision never changes.
LEMMA RevisionsKept ==
    ASSUME "amend" \notin Kinds, TypeOK, NumbersInv, MarkedInv, [Next]_vars
    PROVE  /\ \A r \in Revs : rev[r].approved => rev'[r].approved
           /\ \A r \in Revs : r < next => rev'[r].isBaseline = rev[r].isBaseline
<1> DEFINE Kept == /\ \A r \in Revs : rev[r].approved => rev'[r].approved
                   /\ \A r \in Revs : r < next => rev'[r].isBaseline = rev[r].isBaseline
<1>mem. \A c \in Clients : req[c].r \in Revs /\ req[c].rrow \in RevRow
  BY DEF TypeOK, Requests
<1>1. ASSUME UNCHANGED rev PROVE Kept
  BY <1>1
<1>2. ASSUME NEW c \in Clients, ApproveSave(c) PROVE Kept
  <2>1. rev' = [rev EXCEPT ![req[c].r] = Locked(req[c].rrow)]
    BY <1>2 DEF ApproveSave
  <2>2. Locked(req[c].rrow).approved /\ Locked(req[c].rrow).isBaseline = rev[req[c].r].isBaseline
    BY <1>2, <1>mem DEF Locked, RevRow, MarkedInv, Approving, ApproveSave, IsAt
  <2> QED
    BY <2>1, <2>2, <1>mem DEF TypeOK
<1>3. ASSUME NEW c \in Clients, DraftCommit(c) PROVE Kept
  <2>1. next \in Nat /\ Revs \subseteq Nat
    BY BoundsAssumption DEF TypeOK, Revs
  <2>2. rev' = [rev EXCEPT ![next] = BlankRev] /\ next \in Revs
    BY <1>3, BoundsAssumption DEF DraftCommit, Revs, TypeOK
  <2> QED
    BY <2>1, <2>2 DEF NumbersInv, TypeOK
<1>4. ASSUME NEW c \in Clients, DestroySave(c) PROVE Kept
  BY <1>4, <1>mem DEF DestroySave, Destroyed, TypeOK, RevRow
<1>5. ASSUME NEW c \in Clients, AmendSave(c) PROVE Kept
  BY <1>5 DEF AmendSave, NumbersInv, IsAt, Sent
<1>6. Kept
  BY <1>1, <1>2, <1>3, <1>4, <1>5
  DEF Next, Request, Proceed, vars, ApproveRead, DraftRead, DestroyRead, EditRead,
      SelectFind, SelectValidate, SelectRefused, PatchValidate, AmendRead, ArchiveProject, CpmRead,
      ApproveReadDate, ApprovePromote, DraftRefused, SelectSave, PatchSave,
      CpmSave, EditSave, Crash
<1> QED
  BY <1>6

LEMMA OfficialInit == Init => ApprovedInv /\ MarkedInv
<1> SUFFICES ASSUME Init PROVE ApprovedInv /\ MarkedInv
  OBVIOUS
<1>1. \A c \in Clients : req[c].step = "idle"
  BY DEF Init, Idle
<1>2. \A role \in Roles : project.ptr[role] = 0
  BY DEF Init, NewProject
<1>3. rev[0].isBaseline
  <2>1. 0 \in Revs
    BY BoundsAssumption DEF Revs
  <2>2. rev[0] = [BlankRev EXCEPT !.isBaseline = (0 = 0)]
    BY <2>1 DEF Init
  <2> QED
    BY <2>2 DEF BlankRev
<1>4. RowApproved(project) /\ RowMarked(project)
  BY <1>2, <1>3 DEF RowApproved, RowMarked, Roles
<1> QED
  BY <1>1, <1>4 DEF ApprovedInv, MarkedInv, Patching, Saved, Approving

\* What a row names stays approved, and marked, as the revisions change.
LEMMA RowsKept ==
    ASSUME "amend" \notin Kinds, TypeOK, NumbersInv, MarkedInv, [Next]_vars,
           NEW p \in ProjectRow, RowExists(p)
    PROVE  /\ RowApproved(p) =>
                  \A role \in Roles \ {"working"} :
                      p.ptr[role] \in Revs \ {0} => rev'[p.ptr[role]].approved
           /\ RowMarked(p) =>
                  (p.ptr["baseline"] # NoRev => rev'[p.ptr["baseline"]].isBaseline)
<1>1. \A role \in Roles : p.ptr[role] # NoRev => p.ptr[role] \in Revs /\ p.ptr[role] < next
  BY DEF RowExists, ProjectRow, RevOrNone
<1>2. "baseline" \in Roles
  BY DEF Roles
<1> QED
  BY <1>1, <1>2, RevisionsKept DEF RowApproved, RowMarked

\* Where the row in memory goes when a thread starts, moves on or ends.
LEMMA OfficialNext ==
    ASSUME "amend" \notin Kinds, TypeOK, NumbersInv, ApprovedInv, MarkedInv, [Next]_vars
    PROVE  ApprovedInv' /\ MarkedInv'
<1> DEFINE Mem == /\ \A d \in Clients : Patching(d)' => RowApproved(req[d].row)'
                  /\ \A d \in Clients : Saved(d)' => rev'[req'[d].r].approved
                  /\ \A d \in Clients : Patching(d)' => RowMarked(req[d].row)'
                  /\ \A d \in Clients : Approving(d)' =>
                         req'[d].rrow.isBaseline = rev'[req'[d].r].isBaseline
           Proj == RowApproved(project)' /\ RowMarked(project)'
<1>mem. \A c \in Clients : /\ req[c].r \in Revs /\ req[c].row \in ProjectRow
                          /\ req[c].rrow \in RevRow /\ req[c].r < next
  BY DEF TypeOK, Requests, NumbersInv
<1>idle. Idle.step = "idle" /\ Idle.row \in ProjectRow /\ Idle.rrow \in RevRow /\ 0 \in Revs
  BY RowTypes, BoundsAssumption DEF Idle, Requests, Revs
\* Threads that do not move.
<1>rest. ASSUME NEW d \in Clients, req'[d] = req[d]
         PROVE  /\ Patching(d)' => RowApproved(req[d].row)'
                /\ Saved(d)' => rev'[req'[d].r].approved
                /\ Patching(d)' => RowMarked(req[d].row)'
                /\ Approving(d)' => req'[d].rrow.isBaseline = rev'[req'[d].r].isBaseline
  <2>1. Patching(d)' => RowApproved(req[d].row)' /\ RowMarked(req[d].row)'
    <3> SUFFICES ASSUME Patching(d)' PROVE RowApproved(req[d].row)' /\ RowMarked(req[d].row)'
      OBVIOUS
    <3>1. Patching(d)
      BY <1>rest DEF Patching
    <3>2. RowExists(req[d].row) /\ RowApproved(req[d].row) /\ RowMarked(req[d].row)
      BY <3>1 DEF NumbersInv, ApprovedInv, MarkedInv
    <3> QED
      BY <3>2, <1>rest, <1>mem, RowsKept DEF RowApproved, RowMarked
  <2>2. Saved(d)' => rev'[req'[d].r].approved
    BY <1>rest, <1>mem, RevisionsKept DEF Saved, ApprovedInv
  <2>3. Approving(d)' => req'[d].rrow.isBaseline = rev'[req'[d].r].isBaseline
    BY <1>rest, <1>mem, RevisionsKept DEF Approving, MarkedInv
  <2> QED
    BY <2>1, <2>2, <2>3
<1>done. ASSUME NEW c \in Clients, Done(c) PROVE Mem
  <2>1. \A d \in Clients : req'[d] = req[d] \/ req'[d].step = "idle"
    BY <1>done, <1>idle DEF Done, TypeOK
  <2> QED
    BY <2>1, <1>rest DEF Patching, Saved, Approving
<1>become. ASSUME NEW c \in Clients, NEW s \in Steps, NEW r \in Revs,
                  NEW p \in ProjectRow, NEW q \in RevRow, Become(c, s, r, p, q),
                  s \in {"select", "patch"} =>
                      RowExists(p) /\ RowApproved(p) /\ RowMarked(p),
                  s \in {"approve_saved", "approve_dated"} => rev'[r].approved,
                  s \in {"approve_read", "approve_saved", "approve_dated"} =>
                      q.isBaseline = rev'[r].isBaseline
           PROVE  Mem
  <2>1. req'[c] = [step |-> s, r |-> r, row |-> p, rrow |-> q]
    BY <1>become DEF Become, TypeOK
  <2>2. \A d \in Clients \ {c} : req'[d] = req[d]
    BY <1>become DEF Become, TypeOK
  <2>3. Patching(c)' => RowApproved(req[c].row)' /\ RowMarked(req[c].row)'
    <3> SUFFICES ASSUME Patching(c)' PROVE RowApproved(req[c].row)' /\ RowMarked(req[c].row)'
      OBVIOUS
    <3>1. RowExists(p) /\ RowApproved(p) /\ RowMarked(p)
      BY <1>become, <2>1 DEF Patching
    <3> QED
      BY <2>1, <3>1, RowsKept DEF RowApproved, RowMarked
  <2>4. Saved(c)' => rev'[req'[c].r].approved
    BY <1>become, <2>1 DEF Saved
  <2>5. Approving(c)' => req'[c].rrow.isBaseline = rev'[req'[c].r].isBaseline
    BY <1>become, <2>1 DEF Approving
  <2> QED
    BY <2>2, <2>3, <2>4, <2>5, <1>rest
<1>proj. ASSUME UNCHANGED project PROVE Proj
  <2>1. project \in ProjectRow /\ RowExists(project) /\ RowApproved(project) /\ RowMarked(project)
    BY DEF TypeOK, NumbersInv, ApprovedInv, MarkedInv
  <2> QED
    BY <1>proj, <2>1, RowsKept DEF RowApproved, RowMarked
<1>valid. ASSUME NEW q \in Patches(project), ValidPatch(project, q)
          PROVE  q \in ProjectRow /\ RowExists(q) /\ RowApproved(q) /\ RowMarked(q)
  BY <1>valid, PatchType, ValidPatchFacts DEF TypeOK, ApprovedInv, MarkedInv
<1> HIDE DEF Mem, Proj
<1>1. ASSUME NEW c \in Clients, Request(c) PROVE Mem /\ Proj
  <2>1. ASSUME NEW r \in Revs, ApproveRead(c, r) PROVE Mem /\ Proj
    BY <2>1, <1>proj, <1>idle, <1>become DEF ApproveRead, Steps, TypeOK
  <2>2. ASSUME NEW r \in Revs, DraftRead(c, r) PROVE Mem /\ Proj
    BY <2>2, <1>proj, <1>idle, <1>become DEF DraftRead, Steps
  <2>3. ASSUME NEW r \in Revs, DestroyRead(c, r) PROVE Mem /\ Proj
    BY <2>3, <1>proj, <1>idle, <1>become DEF DestroyRead, Steps, TypeOK
  <2>4. ASSUME NEW r \in Revs, EditRead(c, r) PROVE Mem /\ Proj
    BY <2>4, <1>proj, <1>idle, <1>become DEF EditRead, Steps
  <2>5. CASE SelectFind(c)
    BY <2>5, <1>proj, <1>idle, <1>become DEF SelectFind, Steps
  <2>6. ASSUME NEW q \in Patches(project), PatchValidate(c, q) PROVE Mem /\ Proj
    BY <2>6, <1>valid, <1>proj, <1>idle, <1>become DEF PatchValidate, Steps
  <2>7. ASSUME NEW r \in Revs, NEW row \in RevRow, AmendRead(c, r, row) PROVE Mem /\ Proj
    BY <2>7 DEF AmendRead, Starts
  <2>8. CASE ArchiveProject(c)
    <3>1. project'.ptr = project.ptr /\ rev' = rev /\ req' = req
      BY <2>8 DEF ArchiveProject, Archived, TypeOK, ProjectRow
    <3>2. Mem
      BY <3>1, <1>rest DEF Mem
    <3> QED
      BY <3>1, <3>2 DEF Proj, RowApproved, RowMarked, ApprovedInv, MarkedInv
  <2>9. CASE CpmRead(c)
    <3>1. project.ptr["working"] \in RevOrNone
      BY DEF TypeOK, ProjectRow, Roles
    <3> QED
      BY <2>9, <3>1, <1>proj, <1>idle, <1>become DEF CpmRead, Steps, RevOrNone
  <2> QED
    BY <1>1, <2>1, <2>2, <2>3, <2>4, <2>5, <2>6, <2>7, <2>8, <2>9 DEF Request
<1>2. ASSUME NEW c \in Clients, Proceed(c) PROVE Mem /\ Proj
  <2>1. CASE ApproveSave(c)
    <3>1. Locked(req[c].rrow) \in RevRow
      BY <1>mem DEF Locked, RevRow
    <3>2. rev'[req[c].r] = Locked(req[c].rrow) /\ Locked(req[c].rrow).approved
      BY <2>1, <1>mem DEF ApproveSave, Locked, RevRow, TypeOK
    <3> QED
      BY <2>1, <3>1, <3>2, <1>mem, <1>proj, <1>idle, <1>become DEF ApproveSave, Steps
  <2>2. CASE ApproveReadDate(c)
    <3>1. rev' = rev /\ project' = project /\ project \in ProjectRow /\ "approve_dated" \in Steps
      BY <2>2 DEF ApproveReadDate, TypeOK, Steps
    <3>2. rev[req[c].r].approved /\ req[c].rrow.isBaseline = rev[req[c].r].isBaseline
      BY <2>2 DEF ApproveReadDate, IsAt, ApprovedInv, MarkedInv, Saved, Approving
    <3> QED
      BY <2>2, <3>1, <3>2, <1>mem, <1>proj, <1>become DEF ApproveReadDate
  <2>3. CASE ApprovePromote(c)
    <3>1. rev[req[c].r].approved /\ req[c].rrow.isBaseline = rev[req[c].r].isBaseline
      BY <2>3 DEF ApprovePromote, IsAt, ApprovedInv, MarkedInv, Saved, Approving
    <3>2. /\ rev' = rev
          /\ project' = Promoted(project, req[c].r, req[c].rrow.isBaseline, req[c].row.dataDate)
      BY <2>3 DEF ApprovePromote
    <3>3. Proj
      BY <3>1, <3>2, <1>mem
      DEF Proj, Promoted, RowApproved, RowMarked, ApprovedInv, MarkedInv, TypeOK, ProjectRow, Roles
    <3> QED
      BY <2>3, <3>3, <1>done DEF ApprovePromote
  <2>4. CASE DraftCommit(c)
    <3>1. \A role \in Roles \ {"working"} : project'.ptr[role] = project.ptr[role]
      BY <2>4 DEF DraftCommit, Assigned, TypeOK, ProjectRow, Roles
    <3>2. project \in ProjectRow /\ RowExists(project) /\ RowApproved(project) /\ RowMarked(project)
      BY DEF TypeOK, NumbersInv, ApprovedInv, MarkedInv
    <3>3. "baseline" \in Roles \ {"working"}
      BY DEF Roles
    <3>4. Proj
      BY <3>1, <3>2, <3>3, RowsKept DEF Proj, RowApproved, RowMarked
    <3> QED
      BY <2>4, <3>4, <1>done DEF DraftCommit
  <2>5. CASE DraftRefused(c)
    BY <2>5, <1>proj, <1>done DEF DraftRefused
  <2>saved. ASSUME Patching(c), project' = req[c].row PROVE Proj
    <3>1. RowExists(req[c].row) /\ RowApproved(req[c].row) /\ RowMarked(req[c].row)
      BY <2>saved DEF NumbersInv, ApprovedInv, MarkedInv
    <3> QED
      BY <2>saved, <3>1, <1>mem, RowsKept DEF Proj, RowApproved, RowMarked
  <2>6. CASE SelectSave(c)
    BY <2>6, <2>saved, <1>done DEF SelectSave, IsAt, Patching
  <2>7. CASE PatchSave(c)
    BY <2>7, <2>saved, <1>done DEF PatchSave, IsAt, Patching
  <2>8. CASE DestroySave(c)
    BY <2>8, <1>proj, <1>done DEF DestroySave
  <2>9. CASE AmendSave(c)
    BY <2>9, <1>proj, <1>done DEF AmendSave
  <2>10. ASSUME NEW d \in DataDates, CpmSave(c, d) PROVE Mem /\ Proj
    <3>1. project'.ptr = project.ptr /\ rev' = rev
      BY <2>10 DEF CpmSave, TypeOK, ProjectRow
    <3>2. Proj
      BY <3>1 DEF Proj, RowApproved, RowMarked, ApprovedInv, MarkedInv
    <3> QED
      BY <2>10, <3>2, <1>done DEF CpmSave
  <2>11. ASSUME NEW n \in 0..MaxTasks, EditSave(c, n) PROVE Mem /\ Proj
    BY <2>11, <1>proj, <1>done DEF EditSave
  <2>12. ASSUME NEW q \in Patches(project), SelectValidate(c, q) PROVE Mem /\ Proj
    BY <2>12, <1>valid, <1>proj, <1>idle, <1>become DEF SelectValidate, Steps
  <2>13. CASE SelectRefused(c)
    BY <2>13, <1>proj, <1>done DEF SelectRefused
  <2> QED
    BY <1>2, <2>1, <2>2, <2>3, <2>4, <2>5, <2>6, <2>7, <2>8, <2>9, <2>10, <2>11, <2>12, <2>13
    DEF Proceed
<1>3. ASSUME NEW c \in Clients, Crash(c) PROVE Mem /\ Proj
  BY <1>3, <1>proj, <1>done DEF Crash
<1>4. ASSUME UNCHANGED vars PROVE Mem /\ Proj
  <2>1. UNCHANGED project /\ \A d \in Clients : req'[d] = req[d]
    BY <1>4 DEF vars
  <2>2. Mem
    BY <2>1, <1>rest DEF Mem
  <2> QED
    BY <2>1, <2>2, <1>proj
<1>5. Next => Mem /\ Proj
  BY <1>1, <1>2, <1>3 DEF Next
<1>6. Mem /\ Proj
  BY <1>4, <1>5
<1> QED
  BY <1>6 DEF Mem, Proj, ApprovedInv, MarkedInv

OfficialInv == TypeOK /\ NumbersInv /\ ApprovedInv /\ MarkedInv

LEMMA OfficialInvariant ==
    ASSUME "amend" \notin Kinds
    PROVE  Spec => []OfficialInv
<1>1. Init => OfficialInv
  BY TypeInit, NumbersInit, OfficialInit DEF OfficialInv
<1>2. OfficialInv /\ [Next]_vars => OfficialInv'
  BY TypeNext, NumbersNext, OfficialNext DEF OfficialInv
<1> QED
  BY <1>1, <1>2, PTL DEF Spec

\* OfficialApproved: as long as no PATCH of a revision is sent, the baseline,
\* the execution and the forecast pointer name only approved revisions or Rev 0,
\* whatever the requests, their interleaving and their crashes.
THEOREM OfficialAreApproved ==
    ASSUME "amend" \notin Kinds
    PROVE  Spec => []OfficialApproved
<1>1. OfficialInv => OfficialApproved
  BY DEF OfficialInv, ApprovedInv, RowApproved, OfficialApproved
<1> QED
  BY <1>1, OfficialInvariant, PTL

\* BaselineMarked: under the same assumption the active baseline is always a
\* revision marked as baseline.
THEOREM BaselineIsMarked ==
    ASSUME "amend" \notin Kinds
    PROVE  Spec => []BaselineMarked
<1>1. OfficialInv => BaselineMarked
  BY DEF OfficialInv, MarkedInv, RowMarked, BaselineMarked
<1> QED
  BY <1>1, OfficialInvariant, PTL

\* OfficialSound: without PATCHes of revisions, what approve, select and PATCH of
\* the project make official is always approved, and marked as the baseline it is,
\* however requests overlap and whoever dies.
THEOREM OfficialIsSound ==
    ASSUME "amend" \notin Kinds
    PROVE  Spec => []OfficialSound
<1>1. TypeOK /\ OfficialApproved /\ BaselineMarked => OfficialSound
  BY DEF OfficialSound
<1> QED
  BY <1>1, TypeCorrect, OfficialAreApproved, BaselineIsMarked, PTL

-----------------------------------------------------------------------------
(* The working revision *)

\* Nothing reopens a revision: a stale save of a deleted one approves it.
LEMMA OpenKept ==
    ASSUME "amend" \notin Kinds, OfficialInv, [Next]_vars,
           NEW r \in Revs, r < next, IsOpen(r)'
    PROVE  IsOpen(r)
<1> USE DEF OfficialInv
<1>mem. \A c \in Clients : req[c].r \in Revs /\ req[c].rrow \in RevRow
  BY DEF TypeOK, Requests
<1>1. ~rev'[r].approved /\ ~rev'[r].isDeleted
  BY DEF IsOpen, IsLive
<1>2. ~rev[r].approved
  BY <1>1, RevisionsKept
<1>3. ASSUME UNCHANGED rev PROVE ~rev[r].isDeleted
  BY <1>1, <1>3
<1>4. ASSUME NEW c \in Clients, ApproveSave(c) PROVE ~rev[r].isDeleted
  <2>1. rev' = [rev EXCEPT ![req[c].r] = Locked(req[c].rrow)] /\ Locked(req[c].rrow).approved
    BY <1>4, <1>mem DEF ApproveSave, Locked, RevRow
  <2> QED
    BY <1>1, <2>1 DEF TypeOK
<1>5. ASSUME NEW c \in Clients, DraftCommit(c) PROVE ~rev[r].isDeleted
  <2>1. rev' = [rev EXCEPT ![next] = BlankRev] /\ r # next
    BY <1>5, BoundsAssumption DEF DraftCommit, Revs, TypeOK
  <2> QED
    BY <1>1, <2>1 DEF TypeOK
<1>6. ASSUME NEW c \in Clients, DestroySave(c) PROVE ~rev[r].isDeleted
  BY <1>1, <1>6, <1>mem DEF DestroySave, Destroyed, TypeOK, RevRow
<1>7. ASSUME NEW c \in Clients, AmendSave(c) PROVE FALSE
  BY <1>7 DEF AmendSave, NumbersInv, IsAt, Sent
<1>8. ~rev[r].isDeleted
  BY <1>3, <1>4, <1>5, <1>6, <1>7
  DEF Next, Request, Proceed, vars, ApproveRead, DraftRead, DestroyRead, EditRead,
      SelectFind, SelectValidate, SelectRefused, PatchValidate, AmendRead, ArchiveProject, CpmRead,
      ApproveReadDate, ApprovePromote, DraftRefused, SelectSave, PatchSave,
      CpmSave, EditSave, Crash
<1> QED
  BY <1>2, <1>8 DEF IsOpen, IsLive, Exists

\* Which steps move the working pointer or the highest number.
LEMMA WorkingMoves ==
    ASSUME "patch" \notin Kinds, OfficialInv, [Next]_vars
    PROVE  \/ project'.ptr["working"] = project.ptr["working"] /\ next' = next
           \/ \E c \in Clients : ApprovePromote(c) \/ DraftCommit(c) \/ SelectSave(c)
<1> USE DEF OfficialInv
<1>1. ASSUME NEW c \in Clients, ArchiveProject(c) PROVE project'.ptr = project.ptr /\ next' = next
  BY <1>1 DEF ArchiveProject, Archived, TypeOK, ProjectRow
<1>2. ASSUME NEW c \in Clients, NEW d \in DataDates, CpmSave(c, d)
      PROVE  project'.ptr = project.ptr /\ next' = next
  BY <1>2 DEF CpmSave, TypeOK, ProjectRow
<1>3. ASSUME NEW c \in Clients, PatchSave(c) PROVE FALSE
  BY <1>3 DEF PatchSave, IsAt, NumbersInv, Sent
<1> QED
  BY <1>1, <1>2, <1>3
  DEF Next, Request, Proceed, vars, ApproveRead, DraftRead, DestroyRead, EditRead,
      SelectFind, SelectValidate, SelectRefused, PatchValidate, AmendRead, CpmRead, ApproveSave, DestroySave, AmendSave,
      ApproveReadDate, DraftRefused, EditSave, Crash

\* What the check under the lock leaves of the working revision.
LEMMA DraftTakesOver ==
    ASSUME OfficialInv, NEW c \in Clients, DraftCommit(c)
    PROVE  /\ next \in Revs /\ project'.ptr["working"] = next /\ next' = next + 1
           /\ project.ptr["working"] # NoRev => ~IsOpen(project.ptr["working"])
<1> USE DEF OfficialInv
<1>1. next \in Revs /\ next' = next + 1
  BY BoundsAssumption DEF DraftCommit, Revs, TypeOK
<1>2. project'.ptr["working"] = next
  BY DEF DraftCommit, Assigned, TypeOK, ProjectRow, Roles
<1>3. ASSUME project.ptr["working"] # NoRev PROVE project.ptr["working"] # next
  BY <1>1, <1>3, BoundsAssumption DEF NumbersInv, RowExists, Roles, Revs
<1> QED
  BY <1>1, <1>2, <1>3 DEF DraftCommit, Occupied, IsOpen, IsLive

LEMMA PromoteClears ==
    ASSUME OfficialInv, NEW c \in Clients, ApprovePromote(c)
    PROVE  /\ project'.ptr["working"] \in {project.ptr["working"], NoRev}
           /\ project'.ptr["working"] # project.ptr["working"] =>
                  ~IsOpen(project.ptr["working"])
           /\ next' = next /\ rev' = rev
<1>1. project'.ptr["working"] =
          IF project.ptr["working"] = req[c].r THEN NoRev ELSE project.ptr["working"]
  BY DEF ApprovePromote, Promoted, OfficialInv, TypeOK, ProjectRow, Roles
<1>2. rev[req[c].r].approved
  BY DEF ApprovePromote, IsAt, OfficialInv, ApprovedInv, Saved
<1> QED
  BY <1>1, <1>2 DEF ApprovePromote, IsOpen

LEMMA SingleOpenNext ==
    ASSUME Kinds \cap {"select", "patch", "amend"} = {},
           OfficialInv, SingleOpenRevision, [Next]_vars
    PROVE  SingleOpenRevision'
<1> SUFFICES ASSUME NEW r \in Revs, IsOpen(r)' PROVE r = project'.ptr["working"]
  BY DEF SingleOpenRevision
<1>1. CASE project'.ptr["working"] = project.ptr["working"] /\ next' = next
  BY <1>1, OpenKept DEF SingleOpenRevision, IsOpen, IsLive, Exists
<1>2. ASSUME NEW c \in Clients, ApprovePromote(c) PROVE r = project'.ptr["working"]
  <2>1. IsOpen(r)
    BY <1>2, PromoteClears DEF IsOpen, IsLive, Exists
  <2> QED
    BY <2>1, <1>2, PromoteClears DEF SingleOpenRevision
<1>3. ASSUME NEW c \in Clients, DraftCommit(c) PROVE r = project'.ptr["working"]
  <2>1. r < next \/ r = next
    BY <1>3, DraftTakesOver, BoundsAssumption DEF IsOpen, IsLive, Exists, Revs
  <2>2. CASE r < next
    <3>1. IsOpen(r)
      BY <2>2, OpenKept
    <3>2. r = project.ptr["working"] /\ r # NoRev
      BY <3>1, NullsAssumption DEF SingleOpenRevision, Revs
    <3> QED
      BY <3>1, <3>2, <1>3, DraftTakesOver
  <2> QED
    BY <2>1, <2>2, <1>3, DraftTakesOver
<1>4. ASSUME NEW c \in Clients, SelectSave(c) PROVE FALSE
  BY <1>4 DEF SelectSave, IsAt, OfficialInv, NumbersInv, Sent
<1> QED
  BY <1>1, <1>2, <1>3, <1>4, WorkingMoves

\* SingleOpenRevision: while drafts come only from create-draft (nobody selects
\* a working revision or sends a PATCH), a project never has two open
\* revisions, however many threads create drafts, approve and delete.
THEOREM OneOpenRevision ==
    ASSUME Kinds \cap {"select", "patch", "amend"} = {}
    PROVE  Spec => []SingleOpenRevision
<1>1. Init => SingleOpenRevision
  BY BoundsAssumption
  DEF Init, SingleOpenRevision, IsOpen, IsLive, Exists, NewProject, Roles, Revs
<1>2. OfficialInv /\ SingleOpenRevision /\ [Next]_vars => SingleOpenRevision'
  BY SingleOpenNext
<1>3. Spec => []OfficialInv
  BY OfficialInvariant
<1> QED
  BY <1>1, <1>2, <1>3, PTL DEF Spec

-----------------------------------------------------------------------------
(* Approval for good, whatever requests the clients send, PATCHes of revisions
   included.  Of the rows in memory only those of a PATCH can be saved over an
   approval, so it is enough that none of an older one is left. *)

NumbersAlways == TypeOK /\ NumbersInv

LEMMA NumbersHold == Spec => []NumbersAlways
<1>1. Init => NumbersAlways
  BY TypeInit, NumbersInit DEF NumbersAlways
<1>2. NumbersAlways /\ [Next]_vars => NumbersAlways'
  BY TypeNext, NumbersNext DEF NumbersAlways
<1> QED
  BY <1>1, <1>2, PTL DEF Spec

\* A step leaves the row of a sealed revision approved.
LEMMA SealedApproved ==
    ASSUME NumbersAlways, [Next]_vars, NEW r \in Revs, Sealed(r)
    PROVE  rev'[r].approved
<1> USE DEF NumbersAlways
<1>mem. \A c \in Clients : req[c].r \in Revs /\ req[c].rrow \in RevRow
  BY DEF TypeOK, Requests
<1>0. rev[r].approved /\ rev \in [Revs -> RevRow]
  BY DEF Sealed, TypeOK
<1>1. ASSUME NEW c \in Clients, ApproveSave(c) PROVE rev'[r].approved
  BY <1>0, <1>1, <1>mem DEF ApproveSave, Locked, RevRow
<1>2. ASSUME NEW c \in Clients, DraftCommit(c) PROVE rev'[r].approved
  <2>1. r < next /\ next \in Nat /\ r \in Nat
    BY <1>0, BoundsAssumption DEF NumbersInv, TypeOK, Revs
  <2> QED
    BY <1>0, <1>2, <2>1 DEF DraftCommit
<1>3. ASSUME NEW c \in Clients, DestroySave(c) PROVE rev'[r].approved
  BY <1>0, <1>3, <1>mem DEF DestroySave, Destroyed, RevRow
<1>4. ASSUME NEW c \in Clients, AmendSave(c) PROVE rev'[r].approved
  BY <1>0, <1>4 DEF AmendSave, Sealed
<1>5. ASSUME UNCHANGED rev PROVE rev'[r].approved
  BY <1>0, <1>5
<1> QED
  BY <1>1, <1>2, <1>3, <1>4, <1>5
  DEF Next, Request, Proceed, vars, ApproveRead, DraftRead, DestroyRead, EditRead,
      SelectFind, SelectValidate, SelectRefused, PatchValidate, AmendRead, ArchiveProject,
      CpmRead, ApproveReadDate, ApprovePromote, DraftRefused, SelectSave, PatchSave,
      CpmSave, EditSave, Crash

\* What a thread may newly hold after a step: a PATCH begins with the row as it is,
\* or with that row approved, and an edit with a revision that is open.
LEMMA HeldFresh ==
    ASSUME NumbersAlways, [Next]_vars, NEW c \in Clients, NEW r \in Revs, rev[r].approved,
           req'[c] # req[c], req'[c].r = r
    PROVE  /\ req'[c].step = "amend" => req'[c].rrow.approved
           /\ req'[c].step # "edit"
<1> USE DEF NumbersAlways
<1> DEFINE Fresh == /\ req'[c].step = "amend" => req'[c].rrow.approved
                   /\ req'[c].step # "edit"
<1>0. req \in [Clients -> Requests] /\ rev \in [Revs -> RevRow] /\ Idle.step = "idle"
  BY DEF TypeOK, Idle
<1>become. ASSUME NEW d \in Clients, NEW s, NEW o, NEW p, NEW q, Become(d, s, o, p, q),
                  s # "edit", s = "amend" => (o = r => q.approved)
           PROVE  Fresh
  BY <1>0, <1>become DEF Become
<1>done. ASSUME NEW d \in Clients, Done(d) PROVE Fresh
  BY <1>0, <1>done DEF Done
<1>1. ASSUME NEW d \in Clients, NEW o \in Revs, EditRead(d, o) PROVE Fresh
  <2>1. d = c /\ o = r
    BY <1>0, <1>1 DEF EditRead, Become
  <2> QED
    BY <1>1, <2>1 DEF EditRead, RevisionOpen
<1>2. ASSUME NEW d \in Clients, NEW o \in Revs, NEW row \in RevRow, AmendRead(d, o, row) PROVE Fresh
  <2>1. o = r => row.approved
    BY <1>0, <1>2 DEF AmendRead, RevRow
  <2> QED
    BY <1>2, <2>1, <1>become DEF AmendRead
<1>3. ASSUME NEW d \in Clients, Request(d) PROVE Fresh
  BY <1>1, <1>2, <1>3, <1>become
  DEF Request, ApproveRead, DraftRead, DestroyRead, SelectFind, PatchValidate, ArchiveProject, CpmRead
<1>4. ASSUME NEW d \in Clients, Proceed(d) PROVE Fresh
  BY <1>4, <1>become, <1>done
  DEF Proceed, ApproveSave, ApproveReadDate, ApprovePromote, DraftCommit, DraftRefused,
      SelectValidate, SelectRefused, SelectSave, PatchSave, DestroySave, AmendSave, CpmSave, EditSave
<1>5. ASSUME NEW d \in Clients, Crash(d) PROVE Fresh
  BY <1>5, <1>done DEF Crash
<1> QED
  BY <1>3, <1>4, <1>5 DEF Next, vars

LEMMA SealedStays ==
    ASSUME NumbersAlways, [Next]_vars, NEW r \in Revs, Sealed(r)
    PROVE  Sealed(r)'
<1>1. ASSUME NEW c \in Clients, req'[c].step = "amend", req'[c].r = r
      PROVE  req'[c].rrow.approved
  BY <1>1, HeldFresh DEF Sealed, IsAt
<1> QED
  BY <1>1, SealedApproved DEF Sealed, IsAt

\* ApprovalPermanent: whatever requests overlap, an approved revision of which no
\* PATCH in flight holds a row from before the approval is never open again.
THEOREM ApprovalIsPermanent == Spec => ApprovalPermanent
<1>1. ASSUME NumbersAlways, [Next]_vars
      PROVE  [\A r \in Revs : Sealed(r) => Sealed(r)']_vars
  BY <1>1, SealedStays
<1> QED
  BY <1>1, NumbersHold, PTL DEF Spec, ApprovalPermanent

LEMMA FrozenStays ==
    ASSUME NumbersAlways, [Next]_vars, NEW r \in Revs, Frozen(r)
    PROVE  Frozen(r)' /\ tasks'[r] = tasks[r]
<1> USE DEF NumbersAlways
<1>0. rev[r].approved /\ tasks \in [Revs -> 0..MaxTasks] /\ r < next /\ r \in Nat /\ next \in Nat
  BY BoundsAssumption DEF Frozen, Sealed, NumbersInv, TypeOK, Revs
<1>1. ASSUME NEW c \in Clients, req'[c].r = r PROVE req'[c].step # "edit"
  BY <1>0, <1>1, HeldFresh DEF Frozen, IsAt
<1>2. ASSUME NEW c \in Clients, NEW n \in 0..MaxTasks, EditSave(c, n) PROVE tasks'[r] = tasks[r]
  BY <1>0, <1>2 DEF EditSave, Frozen
<1>3. ASSUME NEW c \in Clients, DraftCommit(c) PROVE tasks'[r] = tasks[r]
  BY <1>0, <1>3 DEF DraftCommit
<1>4. tasks'[r] = tasks[r]
  BY <1>2, <1>3
  DEF Next, vars, Request, Proceed, Crash, ApproveRead, DraftRead, DestroyRead, EditRead,
      SelectFind, SelectValidate, SelectRefused, PatchValidate, AmendRead, ArchiveProject,
      CpmRead, ApproveSave, ApproveReadDate, ApprovePromote, DraftRefused, SelectSave,
      PatchSave, DestroySave, AmendSave, CpmSave
<1> QED
  BY <1>1, <1>4, SealedStays DEF Frozen, IsAt

\* RevisionFrozen: the tasks of such a revision no longer change once the edits
\* that found it open have ended.
THEOREM ApprovedIsFrozen == Spec => RevisionFrozen
<1>1. ASSUME NumbersAlways, [Next]_vars
      PROVE  [\A r \in Revs : Frozen(r) => Frozen(r)' /\ tasks'[r] = tasks[r]]_vars
  BY <1>1, FrozenStays
<1> QED
  BY <1>1, NumbersHold, PTL DEF Spec, RevisionFrozen

-----------------------------------------------------------------------------
(* One thread.  Requests that do not overlap find at each step what they have
   read: the invariant says so of each kind of request, and that the numbers
   not in use have blank rows. *)

Alone == \A c, d \in Clients : c = d

\* The PATCH of a revision: nothing but approvedAt or isBaseline changes.
Amended(old, new) ==
    \/ new = old \/ new = [old EXCEPT !.approved = TRUE]
    \/ \E b \in BOOLEAN : new = [old EXCEPT !.isBaseline = b]

Current(q) ==
    /\ q.step = "approve_read" => IsOpen(q.r) /\ q.rrow = rev[q.r] /\ ~project.isDeleted
    /\ q.step \in {"approve_saved", "approve_dated"} =>
           IsLive(q.r) /\ rev[q.r].approved /\ q.rrow = rev[q.r] /\ ~project.isDeleted
    /\ q.step = "draft" => rev[q.r].approved
    /\ q.step = "select_found" => ~project.isDeleted
    /\ q.step \in {"select", "patch"} =>
           q.row \in Patches(project) /\ ValidPatch(project, q.row) /\ ~project.isDeleted
    /\ q.step = "destroy" => IsLive(q.r) /\ Unofficial(q.r)
    /\ q.step = "edit" => RevisionOpen(q.r)
    /\ q.step = "amend" => IsLive(q.r) /\ Amended(rev[q.r], q.rrow)

BlankRest == \A r \in Revs : ~Exists(r) => rev[r] = BlankRev

SerialInv == /\ TypeOK /\ NumbersInv
             /\ BlankRest /\ DeletedStaysOut
             /\ \A c \in Clients : Current(req[c])

LEMMA IdleCurrent == Current(Idle)
BY DEF Current, Idle

LEMMA SerialInit == Init => SerialInv
<1> SUFFICES ASSUME Init PROVE SerialInv
  OBVIOUS
<1>1. \A r \in Revs : ~rev[r].isDeleted /\ (r # 0 => rev[r] = BlankRev)
  BY DEF Init, BlankRev
<1>2. BlankRest
  BY <1>1 DEF Init, BlankRest, Exists
<1>3. DeletedStaysOut
  BY <1>1, BoundsAssumption
     DEF Init, NewProject, DeletedStaysOut, OfficialNotDeleted, DeletedStaysArchived, Revs
<1>4. \A c \in Clients : Current(req[c])
  BY IdleCurrent DEF Init
<1> QED
  BY <1>2, <1>3, <1>4, TypeInit, NumbersInit DEF SerialInv

\* A revision's row is written alone: what it means for the others.
LEMMA RowWritten ==
    ASSUME SerialInv, NEW r \in Revs, r < next, NEW row \in RevRow,
           rev' = [rev EXCEPT ![r] = row], UNCHANGED <<project, next>>,
           row.isDeleted => rev[r].isDeleted \/ Unofficial(r)
    PROVE  BlankRest' /\ DeletedStaysOut'
<1>1. rev'[r] = row /\ \A o \in Revs \ {r} : rev'[o] = rev[o]
  BY DEF SerialInv, TypeOK
<1>2. BlankRest'
  BY <1>1 DEF SerialInv, BlankRest, Exists
<1>3. \A role \in Roles : project.ptr[role] \in Revs \cup {NoRev}
  BY DEF SerialInv, TypeOK, ProjectRow, RevOrNone
<1>4. OfficialNotDeleted'
  BY <1>1, <1>3 DEF SerialInv, DeletedStaysOut, OfficialNotDeleted, Unofficial
<1> QED
  BY <1>2, <1>4 DEF SerialInv, DeletedStaysOut, DeletedStaysArchived

\* The project's row is written alone.
LEMMA ProjectWritten ==
    ASSUME SerialInv, UNCHANGED <<rev, next>>,
           \A role \in Roles : project'.ptr[role] # NoRev =>
               project'.ptr[role] = project.ptr[role] \/ ~rev[project'.ptr[role]].isDeleted,
           project'.isDeleted => project'.lifecycle = "archived"
    PROVE  BlankRest' /\ DeletedStaysOut'
BY DEF SerialInv, BlankRest, Exists, DeletedStaysOut, OfficialNotDeleted, DeletedStaysArchived

LEMMA StillCurrent ==
    ASSUME UNCHANGED <<project, rev, next>>, NEW q, Current(q)
    PROVE  Current(q)'
<1>1. IsOpen(q.r)' = IsOpen(q.r) /\ IsLive(q.r)' = IsLive(q.r) /\ RevisionOpen(q.r)' = RevisionOpen(q.r)
  BY DEF IsOpen, IsLive, RevisionOpen, Exists
<1>2. Unofficial(q.r)' = Unofficial(q.r)
  BY DEF Unofficial
<1>3. ValidPatch(project, q.row)' = ValidPatch(project, q.row)
  BY DEF ValidPatch, Changed, Occupied, IsLive, Exists
<1>4. Patches(project)' = Patches(project)
  BY DEF Patches
<1> HIDE DEF Patches, ValidPatch, Unofficial, IsOpen, IsLive, RevisionOpen
<1> QED
  BY <1>1, <1>2, <1>3, <1>4 DEF Current

LEMMA RequestSerial ==
    ASSUME SerialInv, NEW c \in Clients, Request(c)
    PROVE  BlankRest' /\ DeletedStaysOut' /\ Current(req[c])'
<1> DEFINE Goal == BlankRest' /\ DeletedStaysOut' /\ Current(req[c])'
<1>same. ASSUME UNCHANGED <<project, rev, next>> PROVE BlankRest' /\ DeletedStaysOut'
  BY <1>same
     DEF SerialInv, BlankRest, Exists, DeletedStaysOut, OfficialNotDeleted, DeletedStaysArchived
<1>become. ASSUME NEW k, Current(k), Become(c, k.step, k.r, k.row, k.rrow),
                  k = [step |-> k.step, r |-> k.r, row |-> k.row, rrow |-> k.rrow],
                  UNCHANGED <<project, rev, next>>
           PROVE  Goal
  <2>1. req'[c] = k
    BY <1>become DEF Become, SerialInv, TypeOK
  <2>2. Current(k)'
    BY <1>become, StillCurrent
  <2> QED
    BY <1>same, <1>become, <2>1, <2>2 DEF Current
<1> HIDE DEF Goal
<1>1. ASSUME NEW r \in Revs, ApproveRead(c, r) PROVE Goal
  <2> DEFINE k == [step |-> "approve_read", r |-> r, row |-> Idle.row, rrow |-> rev[r]]
  <2>1. Become(c, k.step, k.r, k.row, k.rrow) /\ UNCHANGED <<project, rev, next>> /\ Current(k)
    BY <1>1 DEF ApproveRead, Current
  <2> QED
    BY <2>1, <1>become
<1>2. ASSUME NEW r \in Revs, DraftRead(c, r) PROVE Goal
  <2> DEFINE k == [step |-> "draft", r |-> r, row |-> Idle.row, rrow |-> Idle.rrow]
  <2>1. Become(c, k.step, k.r, k.row, k.rrow) /\ UNCHANGED <<project, rev, next>> /\ Current(k)
    BY <1>2 DEF DraftRead, Current
  <2> QED
    BY <2>1, <1>become
<1>3. ASSUME NEW r \in Revs, DestroyRead(c, r) PROVE Goal
  <2> DEFINE k == [step |-> "destroy", r |-> r, row |-> Idle.row, rrow |-> rev[r]]
  <2>1. Become(c, k.step, k.r, k.row, k.rrow) /\ UNCHANGED <<project, rev, next>> /\ Current(k)
    BY <1>3 DEF DestroyRead, Current
  <2> QED
    BY <2>1, <1>become
<1>4. ASSUME NEW r \in Revs, EditRead(c, r) PROVE Goal
  <2> DEFINE k == [step |-> "edit", r |-> r, row |-> Idle.row, rrow |-> Idle.rrow]
  <2>1. Become(c, k.step, k.r, k.row, k.rrow) /\ UNCHANGED <<project, rev, next>> /\ Current(k)
    BY <1>4 DEF EditRead, Current
  <2> QED
    BY <2>1, <1>become
<1>5. ASSUME SelectFind(c) PROVE Goal
  <2> DEFINE k == [step |-> "select_found", r |-> 0, row |-> Idle.row, rrow |-> Idle.rrow]
  <2>1. Become(c, k.step, k.r, k.row, k.rrow) /\ UNCHANGED <<project, rev, next>> /\ Current(k)
    BY <1>5 DEF SelectFind, Current
  <2> QED
    BY <2>1, <1>become
<1>6. ASSUME NEW q \in Patches(project), PatchValidate(c, q) PROVE Goal
  <2> DEFINE k == [step |-> "patch", r |-> 0, row |-> q, rrow |-> Idle.rrow]
  <2>1. Become(c, k.step, k.r, k.row, k.rrow) /\ UNCHANGED <<project, rev, next>> /\ Current(k)
    BY <1>6 DEF PatchValidate, Current
  <2> QED
    BY <2>1, <1>become
<1>7. ASSUME NEW r \in Revs, NEW row \in RevRow, AmendRead(c, r, row) PROVE Goal
  <2> DEFINE k == [step |-> "amend", r |-> r, row |-> Idle.row, rrow |-> row]
  <2>1. Become(c, k.step, k.r, k.row, k.rrow) /\ UNCHANGED <<project, rev, next>> /\ Current(k)
    BY <1>7 DEF AmendRead, Current, Amended
  <2> QED
    BY <2>1, <1>become
<1>8. ASSUME ArchiveProject(c) PROVE Goal
  <2>1. /\ project'.ptr = project.ptr /\ project'.isDeleted /\ project'.lifecycle = "archived"
        /\ UNCHANGED <<rev, next>> /\ req'[c] = Idle
    BY <1>8 DEF ArchiveProject, Archived, SerialInv, TypeOK, ProjectRow, Starts
  <2>2. Current(req[c])'
    BY <2>1 DEF Current, Idle
  <2> QED
    BY <2>1, <2>2, ProjectWritten DEF Goal
<1>9. ASSUME CpmRead(c) PROVE Goal
  <2> DEFINE k == [step |-> "cpm", r |-> project.ptr["working"], row |-> Idle.row, rrow |-> Idle.rrow]
  <2>1. Become(c, k.step, k.r, k.row, k.rrow) /\ UNCHANGED <<project, rev, next>> /\ Current(k)
    BY <1>9 DEF CpmRead, Current
  <2> QED
    BY <2>1, <1>become
<1> QED
  BY <1>1, <1>2, <1>3, <1>4, <1>5, <1>6, <1>7, <1>8, <1>9 DEF Request, Goal

LEMMA ProceedSerial ==
    ASSUME SerialInv, NEW c \in Clients, Proceed(c)
    PROVE  BlankRest' /\ DeletedStaysOut' /\ Current(req[c])'
<1> DEFINE Goal == BlankRest' /\ DeletedStaysOut' /\ Current(req[c])'
<1>mem. /\ req[c] \in Requests /\ Current(req[c]) /\ req[c].r \in Revs /\ req[c].r < next
        /\ req[c].row \in ProjectRow /\ req[c].rrow \in RevRow /\ rev[req[c].r] \in RevRow
        /\ project \in ProjectRow /\ \A role \in Roles : project.ptr[role] \in Revs \cup {NoRev}
  BY DEF SerialInv, TypeOK, NumbersInv, Requests, ProjectRow, RevOrNone
<1>done. ASSUME Done(c) PROVE Current(req[c])'
  <2>1. req'[c] = Idle
    BY <1>done DEF Done, SerialInv, TypeOK
  <2> QED
    BY <2>1 DEF Current, Idle
<1>same. ASSUME UNCHANGED <<project, rev, next>> PROVE BlankRest' /\ DeletedStaysOut'
  BY <1>same
     DEF SerialInv, BlankRest, Exists, DeletedStaysOut, OfficialNotDeleted, DeletedStaysArchived
<1> HIDE DEF Goal
<1>1. CASE ApproveSave(c)
  <2> DEFINE row == Locked(req[c].rrow)
  <2>1. /\ IsOpen(req[c].r) /\ req[c].rrow = rev[req[c].r] /\ ~project.isDeleted
        /\ rev' = [rev EXCEPT ![req[c].r] = row] /\ UNCHANGED <<project, next>>
        /\ Become(c, "approve_saved", req[c].r, Idle.row, row)
    BY <1>1, <1>mem DEF ApproveSave, IsAt, Current
  <2>2. row \in RevRow /\ row.approved /\ ~row.isDeleted
    BY <1>mem, <2>1 DEF Locked, RevRow, IsOpen, IsLive
  <2>3. BlankRest' /\ DeletedStaysOut'
    BY <1>mem, <2>1, <2>2, RowWritten
  <2>4. /\ req'[c].step = "approve_saved" /\ req'[c].r = req[c].r /\ req'[c].rrow = row
        /\ rev'[req[c].r] = row
    BY <1>mem, <2>1 DEF Become, SerialInv, TypeOK
  <2> HIDE DEF row
  <2>5. Current(req[c])'
    BY <1>mem, <2>1, <2>2, <2>4 DEF Current, IsOpen, IsLive, Exists
  <2> QED
    BY <2>3, <2>5 DEF Goal
<1>2. CASE ApproveReadDate(c)
  <2>1. /\ IsLive(req[c].r) /\ rev[req[c].r].approved /\ req[c].rrow = rev[req[c].r]
        /\ ~project.isDeleted /\ UNCHANGED <<project, rev, next>>
    BY <1>2, <1>mem DEF ApproveReadDate, IsAt, Current
  <2>2. req'[c].step = "approve_dated" /\ req'[c].r = req[c].r /\ req'[c].rrow = req[c].rrow
    BY <1>2 DEF ApproveReadDate, Become, SerialInv, TypeOK
  <2>3. Current(req[c])'
    BY <2>1, <2>2 DEF Current, IsLive, Exists
  <2> QED
    BY <2>1, <2>3, <1>same DEF Goal
<1>3. CASE ApprovePromote(c)
  <2>1. /\ IsLive(req[c].r) /\ ~project.isDeleted /\ UNCHANGED <<rev, next>>
        /\ project' = Promoted(project, req[c].r, req[c].rrow.isBaseline, req[c].row.dataDate)
    BY <1>3, <1>mem DEF ApprovePromote, IsAt, Current
  <2>2. /\ project'.isDeleted = project.isDeleted
        /\ \A role \in Roles : project'.ptr[role] \in {project.ptr[role], req[c].r, NoRev}
    BY <1>mem, <2>1 DEF Promoted, ProjectRow, Roles
  <2> QED
    BY <1>3, <1>done, <2>1, <2>2, ProjectWritten DEF ApprovePromote, IsLive, Goal
<1>4. CASE DraftCommit(c)
  <2>1. /\ next \in Revs /\ rev' = [rev EXCEPT ![next] = BlankRev] /\ next' = next + 1
        /\ project' = Assigned(project, next)
    BY <1>4, BoundsAssumption DEF DraftCommit, SerialInv, TypeOK, Revs
  <2>2. rev'[next] = BlankRev /\ \A o \in Revs \ {next} : rev'[o] = rev[o]
    BY <2>1 DEF SerialInv, TypeOK
  <2>3. BlankRest'
    BY <2>1, <2>2, BoundsAssumption DEF SerialInv, BlankRest, Exists, Revs
  <2>4. /\ project'.isDeleted = project.isDeleted
        /\ project.lifecycle = "archived" => project'.lifecycle = "archived"
        /\ \A role \in Roles : project'.ptr[role] \in {project.ptr[role], next}
    BY <1>mem, <2>1 DEF Assigned, ProjectRow, Roles
  <2>5. \A role \in Roles : project.ptr[role] # NoRev => project.ptr[role] # next
    BY <1>mem, <2>1, BoundsAssumption DEF SerialInv, NumbersInv, RowExists, Revs
  <2>6. DeletedStaysOut'
    BY <1>mem, <2>2, <2>4, <2>5
       DEF SerialInv, DeletedStaysOut, OfficialNotDeleted, DeletedStaysArchived, BlankRev
  <2> QED
    BY <1>4, <1>done, <2>3, <2>6 DEF DraftCommit, Goal
<1>5. CASE DraftRefused(c)
  BY <1>5, <1>done, <1>same DEF DraftRefused, Goal
<1>7. ASSUME NEW q \in Patches(project), SelectValidate(c, q) PROVE Goal
  <2> DEFINE k == [step |-> "select", r |-> 0, row |-> q, rrow |-> Idle.rrow]
  <2>1. Become(c, k.step, k.r, k.row, k.rrow) /\ UNCHANGED <<project, rev, next>> /\ Current(k)
    BY <1>7, <1>mem DEF SelectValidate, IsAt, Current
  <2>2. req'[c] = k /\ Current(k)'
    BY <2>1, StillCurrent DEF Become, SerialInv, TypeOK
  <2>3. Current(req[c])'
    BY <2>2 DEF Current
  <2> QED
    BY <2>1, <2>3, <1>same DEF Goal
<1>12. CASE SelectRefused(c)
  BY <1>12, <1>done, <1>same DEF SelectRefused, Goal
<1>6. CASE SelectSave(c) \/ PatchSave(c)
  <2>1. /\ ValidPatch(project, req[c].row) /\ req[c].row \in Patches(project) /\ ~project.isDeleted
        /\ project' = req[c].row /\ UNCHANGED <<rev, next>> /\ Done(c)
    BY <1>6, <1>mem DEF SelectSave, PatchSave, IsAt, Current
  <2>2. ~project'.isDeleted
    BY <1>mem, <2>1 DEF Patches, ProjectRow
  <2>3. \A role \in Roles : project'.ptr[role] # NoRev => ~rev[project'.ptr[role]].isDeleted
    BY <2>1 DEF ValidPatch, IsLive
  <2> QED
    BY <1>done, <2>1, <2>2, <2>3, ProjectWritten DEF Goal
<1>8. CASE DestroySave(c)
  <2> DEFINE row == Destroyed(rev[req[c].r], req[c].rrow)
  <2>1. /\ Unofficial(req[c].r) /\ UNCHANGED <<project, next>> /\ Done(c)
        /\ rev' = [rev EXCEPT ![req[c].r] = row]
    BY <1>8, <1>mem DEF DestroySave, IsAt, Current
  <2>2. row \in RevRow
    BY <1>mem DEF Destroyed, RevRow
  <2> HIDE DEF row
  <2> QED
    BY <1>mem, <1>done, <2>1, <2>2, RowWritten DEF Goal
<1>9. CASE AmendSave(c)
  <2>1. /\ IsLive(req[c].r) /\ Amended(rev[req[c].r], req[c].rrow) /\ UNCHANGED <<project, next>> /\ Done(c)
        /\ rev' = [rev EXCEPT ![req[c].r] = req[c].rrow]
    BY <1>9, <1>mem DEF AmendSave, IsAt, Current
  <2>2. ~req[c].rrow.isDeleted
    BY <1>mem, <2>1 DEF Amended, IsLive, RevRow
  <2> QED
    BY <1>mem, <1>done, <2>1, <2>2, RowWritten DEF Goal
<1>10. ASSUME NEW d \in DataDates, CpmSave(c, d) PROVE Goal
  <2>1. /\ project'.ptr = project.ptr /\ project'.isDeleted = project.isDeleted
        /\ project'.lifecycle = project.lifecycle /\ UNCHANGED <<rev, next>> /\ Done(c)
    BY <1>10, <1>mem DEF CpmSave, ProjectRow
  <2> QED
    BY <2>1, <1>done, ProjectWritten DEF Goal, SerialInv, DeletedStaysOut, DeletedStaysArchived
<1>11. ASSUME NEW n \in 0..MaxTasks, EditSave(c, n) PROVE Goal
  BY <1>11, <1>done, <1>same DEF EditSave, Goal
<1> QED
  BY <1>1, <1>2, <1>3, <1>4, <1>5, <1>6, <1>7, <1>8, <1>9, <1>10, <1>11, <1>12 DEF Proceed, Goal

LEMMA SerialNext == ASSUME Alone, SerialInv, [Next]_vars PROVE SerialInv'
<1>1. TypeOK' /\ NumbersInv'
  BY TypeNext, NumbersNext DEF SerialInv
<1>same. ASSUME UNCHANGED <<project, rev, next>> PROVE BlankRest' /\ DeletedStaysOut'
  BY <1>same
     DEF SerialInv, BlankRest, Exists, DeletedStaysOut, OfficialNotDeleted, DeletedStaysArchived
<1>2. ASSUME NEW c \in Clients, Crash(c) PROVE BlankRest' /\ DeletedStaysOut' /\ Current(req[c])'
  <2>1. req'[c] = Idle
    BY <1>2 DEF Crash, Done, SerialInv, TypeOK
  <2>2. Current(req[c])'
    BY <2>1 DEF Current, Idle
  <2> QED
    BY <1>2, <1>same, <2>2 DEF Crash
<1>3. ASSUME NEW c \in Clients, Request(c) \/ Proceed(c) \/ Crash(c) PROVE SerialInv'
  <2>1. BlankRest' /\ DeletedStaysOut' /\ Current(req[c])'
    BY <1>2, <1>3, RequestSerial, ProceedSerial
  <2>2. \A d \in Clients : d = c
    BY DEF Alone
  <2> QED
    BY <1>1, <2>1, <2>2 DEF SerialInv
<1>4. CASE UNCHANGED vars
  <2>1. ASSUME NEW c \in Clients PROVE Current(req[c])'
    <3>1. Current(req[c])
      BY DEF SerialInv
    <3>2. UNCHANGED <<project, rev, next, tasks, lock, req>>
      BY <1>4 DEF vars
    <3>3. ASSUME NEW q PROVE Current(q)' <=> Current(q)
      BY <3>2 DEF Current, IsOpen, IsLive, Exists, RevisionOpen, Unofficial,
                  Patches, ValidPatch, Changed, Occupied
    <3> QED
      BY <3>1, <3>2, <3>3
  <2> QED
    BY <1>1, <1>4, <1>same, <2>1 DEF vars, SerialInv
<1> QED
  BY <1>3, <1>4 DEF Next

LEMMA SerialAlways == ASSUME Alone PROVE Spec => []SerialInv
BY SerialInit, SerialNext, PTL DEF Spec

\* DeletedStaysOut: of requests that do not overlap none makes a deleted revision
\* official, deletes an official one or takes a deleted project out of the
\* archive, whichever thread dies at whichever step.
THEOREM DeletedIsOut == ASSUME Alone PROVE Spec => []DeletedStaysOut
<1>1. SerialInv => DeletedStaysOut
  BY DEF SerialInv
<1> QED
  BY <1>1, SerialAlways, PTL

-----------------------------------------------------------------------------
(* Refinement.  The only thread is at most between saving and promoting one
   revision, which the official schedule does not count as locked yet. *)

LockedRevs == {r \in Revs : rev[r].approved} \ Promoting
MarkedRevs == {r \in Revs : rev[r].isBaseline}
GoneRevs == {r \in Revs : rev[r].isDeleted}

LEMMA PromotingOne ==
    ASSUME Alone, NEW c \in Clients
    PROVE  /\ Promoting = IF Saved(c) THEN {req[c].r} ELSE {}
           /\ Promoting' = IF Saved(c)' THEN {req'[c].r} ELSE {}
<1>1. Clients = {c}
  BY DEF Alone
<1> QED
  BY <1>1 DEF Promoting, Saved, IsAt

LEMMA OpenRevs ==
    Official!Open = {r \in Revs : Exists(r) /\ r \notin LockedRevs /\ ~rev[r].isDeleted}
BY DEF Official!Open, LockedRevs, Exists, Revs

\* A step that touches neither the revisions nor the pointers.
LEMMA ScheduleStutters ==
    ASSUME project'.ptr = project.ptr, UNCHANGED next, LockedRevs' = LockedRevs,
           MarkedRevs' = MarkedRevs, GoneRevs' = GoneRevs
    PROVE  UNCHANGED Official!schedule
BY DEF Official!schedule, LockedRevs, MarkedRevs, GoneRevs

\* A row of one revision is written: what that does to the sets.
LEMMA RevWritten ==
    ASSUME TypeOK, NEW r \in Revs, NEW row \in RevRow, rev' = [rev EXCEPT ![r] = row]
    PROVE  /\ {o \in Revs : rev'[o].approved} =
                ({o \in Revs : rev[o].approved} \ {r}) \cup {o \in {r} : row.approved}
           /\ MarkedRevs' = (MarkedRevs \ {r}) \cup {o \in {r} : row.isBaseline}
           /\ GoneRevs' = (GoneRevs \ {r}) \cup {o \in {r} : row.isDeleted}
<1>1. rev'[r] = row /\ \A o \in Revs \ {r} : rev'[o] = rev[o]
  BY DEF TypeOK
<1> QED
  BY <1>1 DEF MarkedRevs, GoneRevs

LEMMA RequestStutters ==
    ASSUME Alone, SerialInv, NEW c \in Clients, Request(c)
    PROVE  UNCHANGED Official!schedule
<1>typed. project \in ProjectRow /\ req \in [Clients -> Requests]
  BY DEF SerialInv, TypeOK
<1>a. ~Saved(c)
  BY DEF Request, Saved, Starts, Idle,
         ApproveRead, DraftRead, DestroyRead, EditRead, SelectFind, PatchValidate,
         AmendRead, ArchiveProject, CpmRead
<1>b. ~Saved(c)'
  BY <1>typed, <1>a DEF Request, Saved, Become,
         ApproveRead, DraftRead, DestroyRead, EditRead, SelectFind, PatchValidate,
         AmendRead, ArchiveProject, CpmRead
<1>c. UNCHANGED <<rev, next>>
  BY DEF Request, ApproveRead, DraftRead, DestroyRead, EditRead, SelectFind, PatchValidate,
         AmendRead, ArchiveProject, CpmRead
<1>d. project'.ptr = project.ptr
  BY <1>typed DEF Request, ProjectRow, Archived,
         ApproveRead, DraftRead, DestroyRead, EditRead, SelectFind, PatchValidate,
         AmendRead, ArchiveProject, CpmRead
<1>1. ~Saved(c) /\ ~Saved(c)' /\ UNCHANGED <<rev, next>> /\ project'.ptr = project.ptr
  BY <1>a, <1>b, <1>c, <1>d
<1>2. LockedRevs' = LockedRevs /\ MarkedRevs' = MarkedRevs /\ GoneRevs' = GoneRevs
  BY <1>1, PromotingOne DEF LockedRevs, MarkedRevs, GoneRevs
<1> QED
  BY <1>1, <1>2, ScheduleStutters

\* A PATCH changes at most one pointer of the row it read.
LEMMA PatchedPointer ==
    ASSUME project \in ProjectRow, NEW q \in Patches(project)
    PROVE  \/ q.ptr = project.ptr
           \/ \E role \in Roles, r \in RevOrNone : q.ptr = [project.ptr EXCEPT ![role] = r]
<1> DEFINE Goal == \/ q.ptr = project.ptr
                   \/ \E role \in Roles, r \in RevOrNone : q.ptr = [project.ptr EXCEPT ![role] = r]
<1>1. ASSUME NEW role \in Roles, NEW r \in RevOrNone,
             q = [project EXCEPT !.ptr = [project.ptr EXCEPT ![role] = r]]
      PROVE  Goal
  <2>1. q.ptr = [project.ptr EXCEPT ![role] = r]
    BY <1>1 DEF ProjectRow
  <2> QED
    BY <2>1
<1>2. ASSUME \E d : q = [project EXCEPT !.dataDate = d] \/ q = [project EXCEPT !.lifecycle = d]
      PROVE  Goal
  <2>1. q.ptr = project.ptr
    BY <1>2 DEF ProjectRow
  <2> QED
    BY <2>1
<1>3. q = project => Goal
  OBVIOUS
<1> HIDE DEF Goal
<1>4. \/ q = project
      \/ \E role \in Roles, r \in RevOrNone : q = [project EXCEPT !.ptr = [project.ptr EXCEPT ![role] = r]]
      \/ \E d : q = [project EXCEPT !.dataDate = d] \/ q = [project EXCEPT !.lifecycle = d]
  BY DEF Patches
<1>5. Goal
  BY <1>1, <1>2, <1>3, <1>4
<1> QED
  BY <1>5 DEF Goal

LEMMA PatchChooses ==
    ASSUME Alone, SerialInv, NEW c \in Clients, SelectSave(c) \/ PatchSave(c)
    PROVE  Official!Next \/ UNCHANGED Official!schedule
<1>1. /\ ~Saved(c) /\ ~Saved(c)' /\ UNCHANGED <<rev, next>> /\ project' = req[c].row
      /\ req[c].row \in Patches(project) /\ ValidPatch(project, req[c].row)
  BY DEF SelectSave, PatchSave, IsAt, Done, Idle, Saved, SerialInv, TypeOK, Current
<1>2. /\ LockedRevs' = LockedRevs /\ MarkedRevs' = MarkedRevs /\ GoneRevs' = GoneRevs
      /\ LockedRevs = {r \in Revs : rev[r].approved}
  BY <1>1, PromotingOne DEF LockedRevs, MarkedRevs, GoneRevs
<1>3. CASE project'.ptr = project.ptr
  BY <1>1, <1>2, <1>3, ScheduleStutters
<1>4. ASSUME NEW role \in Roles, NEW r \in RevOrNone, project'.ptr = [project.ptr EXCEPT ![role] = r],
             project'.ptr # project.ptr
      PROVE  Official!Choose(role, r)
  <2>1. /\ project'.ptr[role] = r /\ project.ptr[role] # r /\ project.ptr[role] \in RevOrNone
        /\ project.ptr["working"] \in RevOrNone /\ NoRev \notin Revs
    BY <1>4, NullsAssumption DEF SerialInv, TypeOK, ProjectRow, Revs, Roles
  <2>2. r # NoRev => IsLive(r) /\ r \in Revs /\ Changed(project, req[c].row, role)
    BY <1>1, <2>1 DEF ValidPatch, Changed, RevOrNone
  <2>3. CASE role = "working"
    <3>1. r # NoRev => ~rev[r].approved /\ ~Occupied(project.ptr["working"], r)
      BY <1>1, <2>1, <2>2, <2>3 DEF ValidPatch
    <3>2. r # NoRev => r \in Official!Open /\ project.ptr["working"] \notin Official!Open
      BY <1>2, <2>1, <2>2, <2>3, <3>1, OpenRevs DEF Occupied, IsLive
    <3> QED
      BY <1>1, <1>2, <1>4, <2>3, <3>2 DEF Official!Choose, LockedRevs, MarkedRevs, GoneRevs
  <2>4. CASE role # "working"
    <3>1. r # NoRev => rev[r].approved /\ (role = "baseline" => rev[r].isBaseline)
      BY <1>1, <1>4, <2>1, <2>2, <2>4 DEF ValidPatch
    <3>2. r # NoRev => r \in LockedRevs \ GoneRevs /\ (role = "baseline" => r \in MarkedRevs)
      BY <1>2, <2>2, <3>1 DEF IsLive, GoneRevs, MarkedRevs
    <3> QED
      BY <1>1, <1>2, <1>4, <2>4, <3>2 DEF Official!Choose, LockedRevs, MarkedRevs, GoneRevs
  <2> QED
    BY <2>3, <2>4
<1>5. Roles = Official!Roles /\ RevOrNone = 0..MaxRev \cup {NoRev}
  BY DEF Roles, Official!Roles, RevOrNone, Revs
<1>6. project \in ProjectRow
  BY DEF SerialInv, TypeOK
<1> QED
  BY <1>1, <1>3, <1>4, <1>5, <1>6, PatchedPointer DEF Official!Next

\* Promoting the revision, or dying before that, ends an approval.
LEMMA ApprovalEnds ==
    ASSUME Alone, SerialInv, NEW c \in Clients, Saved(c), ~Saved(c)', UNCHANGED rev
    PROVE  /\ req[c].r \in Official!Open /\ req[c].r \in Revs
           /\ LockedRevs' = LockedRevs \cup {req[c].r}
           /\ MarkedRevs' = MarkedRevs /\ GoneRevs' = GoneRevs
           /\ req[c].rrow.isBaseline <=> req[c].r \in MarkedRevs
<1>1. /\ req[c].r \in Revs /\ IsLive(req[c].r) /\ rev[req[c].r].approved /\ req[c].rrow = rev[req[c].r]
  BY DEF Saved, SerialInv, Current, TypeOK, Requests
<1>2. LockedRevs = {r \in Revs : rev[r].approved} \ {req[c].r} /\ LockedRevs' = {r \in Revs : rev[r].approved}
  BY PromotingOne DEF LockedRevs
<1> QED
  BY <1>1, <1>2, OpenRevs DEF IsLive, MarkedRevs, GoneRevs

LEMMA PromoteApproves ==
    ASSUME Alone, SerialInv, NEW c \in Clients, ApprovePromote(c)
    PROVE  Official!Next
<1>1. /\ Saved(c) /\ ~Saved(c)' /\ UNCHANGED <<rev, next>>
      /\ project' = Promoted(project, req[c].r, req[c].rrow.isBaseline, req[c].row.dataDate)
  BY DEF ApprovePromote, IsAt, Done, Idle, Saved, SerialInv, TypeOK
<1>2. project \in ProjectRow /\ project.ptr \in [Roles -> RevOrNone]
  BY DEF SerialInv, TypeOK, ProjectRow
<1>3. /\ req[c].r \in Official!Open /\ req[c].r \in Revs
      /\ LockedRevs' = LockedRevs \cup {req[c].r}
      /\ MarkedRevs' = MarkedRevs /\ GoneRevs' = GoneRevs
      /\ req[c].rrow.isBaseline <=> req[c].r \in MarkedRevs
  BY <1>1, ApprovalEnds
<1>4. project'.ptr = [project.ptr EXCEPT
          !["execution"] = req[c].r, !["forecast"] = req[c].r,
          !["baseline"] = IF req[c].r \in MarkedRevs THEN req[c].r ELSE project.ptr["baseline"],
          !["working"] = IF project.ptr["working"] = req[c].r THEN NoRev ELSE project.ptr["working"]]
  BY <1>1, <1>2, <1>3 DEF Promoted, ProjectRow
<1>5. project'.ptr = [role \in Roles |->
          CASE role \in {"execution", "forecast"} -> req[c].r
            [] role = "baseline" -> IF req[c].r \in MarkedRevs THEN req[c].r ELSE project.ptr[role]
            [] OTHER -> IF project.ptr[role] = req[c].r THEN NoRev ELSE project.ptr[role]]
  BY <1>2, <1>4 DEF Roles
<1>6. PICK r \in Revs : r = req[c].r
  BY <1>3
<1>7. Official!Approve(r)
  BY <1>1, <1>3, <1>5, <1>6 DEF Official!Approve, Official!Roles, Roles, LockedRevs, MarkedRevs, GoneRevs
<1> QED
  BY <1>7 DEF Official!Next, Revs

LEMMA DraftOpens ==
    ASSUME Alone, SerialInv, NEW c \in Clients, DraftCommit(c)
    PROVE  Official!Next
<1>1. /\ ~Saved(c) /\ ~Saved(c)' /\ next \in Revs /\ next <= MaxRev
      /\ rev' = [rev EXCEPT ![next] = BlankRev] /\ next' = next + 1
      /\ project' = Assigned(project, next) /\ ~Occupied(project.ptr["working"], next)
      /\ rev[req[c].r].approved /\ req[c].r \in Revs
  BY BoundsAssumption
     DEF DraftCommit, IsAt, Done, Idle, Saved, SerialInv, TypeOK, Requests, Current, Revs
<1>2. rev[next] = BlankRev /\ rev \in [Revs -> RevRow] /\ project \in ProjectRow
  BY <1>1 DEF SerialInv, BlankRest, Exists, TypeOK, Revs
<1>3. rev' = rev
  BY <1>1, <1>2
<1>4. /\ LockedRevs' = LockedRevs /\ MarkedRevs' = MarkedRevs /\ GoneRevs' = GoneRevs
      /\ req[c].r \in LockedRevs /\ LockedRevs = {r \in Revs : rev[r].approved}
  BY <1>1, <1>3, PromotingOne DEF LockedRevs, MarkedRevs, GoneRevs
<1>5. project'.ptr = [project.ptr EXCEPT !["working"] = next]
  BY <1>1, <1>2 DEF Assigned, ProjectRow
<1>6. project.ptr["working"] \notin Official!Open
  BY <1>1, <1>4, OpenRevs, NullsAssumption DEF Occupied, Exists, Revs
<1>7. Official!OpenDraft
  BY <1>1, <1>4, <1>5, <1>6 DEF Official!OpenDraft, LockedRevs, MarkedRevs, GoneRevs
<1> QED
  BY <1>7 DEF Official!Next

LEMMA DestroyRetires ==
    ASSUME Alone, SerialInv, NEW c \in Clients, DestroySave(c)
    PROVE  Official!Next
<1>r. PICK r \in Revs : r = req[c].r
  BY DEF SerialInv, TypeOK, Requests
<1>row. PICK row : row = Destroyed(rev[r], req[c].rrow)
  OBVIOUS
<1>1. /\ ~Saved(c) /\ ~Saved(c)' /\ Unofficial(r) /\ UNCHANGED <<project, next>>
      /\ r < next /\ rev' = [rev EXCEPT ![r] = row]
  BY <1>r, <1>row
     DEF DestroySave, IsAt, Done, Idle, Saved, SerialInv, TypeOK, Requests, Current, IsLive, Exists
<1>2. /\ row \in RevRow /\ row.isDeleted
      /\ row.approved = rev[r].approved /\ row.isBaseline = rev[r].isBaseline
  BY <1>row DEF Destroyed, RevRow, SerialInv, TypeOK
<1>3. TypeOK
  BY DEF SerialInv
<1>a. /\ {o \in Revs : rev'[o].approved} =
           ({o \in Revs : rev[o].approved} \ {r}) \cup {o \in {r} : row.approved}
      /\ MarkedRevs' = (MarkedRevs \ {r}) \cup {o \in {r} : row.isBaseline}
      /\ GoneRevs' = (GoneRevs \ {r}) \cup {o \in {r} : row.isDeleted}
  BY <1>1, <1>2, <1>3, RevWritten
<1>b. /\ r \in {o \in Revs : rev[o].approved} <=> row.approved
      /\ r \in MarkedRevs <=> row.isBaseline
  BY <1>2 DEF MarkedRevs
<1>4. /\ {o \in Revs : rev'[o].approved} = {o \in Revs : rev[o].approved}
      /\ MarkedRevs' = MarkedRevs /\ GoneRevs' = GoneRevs \cup {r}
  BY <1>2, <1>a, <1>b
<1>5. LockedRevs' = LockedRevs
  BY <1>1, <1>4, PromotingOne DEF LockedRevs
<1>6. Official!Retire(r)
  BY <1>1, <1>4, <1>5
     DEF Official!Retire, Official!Roles, Roles, Unofficial, LockedRevs, MarkedRevs, GoneRevs
<1> QED
  BY <1>1, <1>6 DEF Official!Next, Revs

\* The PATCH of a revision dates it, which locks it, or marks or unmarks it.
LEMMA AmendLocksOrMarks ==
    ASSUME Alone, SerialInv, NEW c \in Clients, AmendSave(c)
    PROVE  Official!Next \/ UNCHANGED Official!schedule
<1>r. PICK r \in Revs, row \in RevRow : r = req[c].r /\ row = req[c].rrow
  BY DEF SerialInv, TypeOK, Requests
<1>1. /\ ~Saved(c) /\ ~Saved(c)' /\ IsLive(r) /\ UNCHANGED <<project, next>> /\ TypeOK
      /\ r \in Revs /\ r < next /\ rev' = [rev EXCEPT ![r] = row]
      /\ Amended(rev[r], row) /\ row \in RevRow /\ rev[r] \in RevRow
  BY <1>r DEF AmendSave, IsAt, Done, Idle, Saved, SerialInv, TypeOK, Requests, Current, IsLive, Exists
<1>2. /\ LockedRevs = {o \in Revs : rev[o].approved} /\ LockedRevs' = {o \in Revs : rev'[o].approved}
      /\ r \notin GoneRevs
  BY <1>1, PromotingOne DEF LockedRevs, GoneRevs, IsLive
<1>3. row.isDeleted = rev[r].isDeleted
  BY <1>1 DEF Amended, RevRow
<1>4. /\ LockedRevs' = (LockedRevs \ {r}) \cup {o \in {r} : row.approved}
      /\ MarkedRevs' = (MarkedRevs \ {r}) \cup {o \in {r} : row.isBaseline}
      /\ GoneRevs' = GoneRevs
  BY <1>1, <1>2, <1>3, RevWritten DEF GoneRevs
<1>5. /\ r \in LockedRevs <=> rev[r].approved
      /\ r \in MarkedRevs <=> rev[r].isBaseline
  BY <1>1, <1>2 DEF MarkedRevs
<1>6. CASE row = rev[r]
  <2>1. LockedRevs' = LockedRevs /\ MarkedRevs' = MarkedRevs
    BY <1>4, <1>5, <1>6
  <2> QED
    BY <1>1, <1>4, <2>1, ScheduleStutters
<1>7. CASE row = [rev[r] EXCEPT !.approved = TRUE] /\ ~rev[r].approved
  <2>1. row.approved /\ row.isBaseline = rev[r].isBaseline
    BY <1>1, <1>7 DEF RevRow
  <2>2. LockedRevs' = LockedRevs \cup {r} /\ MarkedRevs' = MarkedRevs /\ r \in Official!Open
    BY <1>1, <1>2, <1>4, <1>5, <1>7, <2>1, OpenRevs DEF IsLive
  <2>3. Official!Lock(r)
    BY <1>1, <1>4, <2>2 DEF Official!Lock, LockedRevs, MarkedRevs, GoneRevs
  <2> QED
    BY <1>1, <2>3 DEF Official!Next, Revs
<1>8. ASSUME NEW b \in BOOLEAN, row = [rev[r] EXCEPT !.isBaseline = b]
      PROVE  Official!Next
  <2>1. row.approved = rev[r].approved /\ row.isBaseline = b
    BY <1>1, <1>8 DEF RevRow
  <2>2. LockedRevs' = LockedRevs /\ MarkedRevs' \in {MarkedRevs \cup {r}, MarkedRevs \ {r}}
    BY <1>4, <1>5, <2>1
  <2>3. Official!Mark(r)
    BY <1>1, <1>2, <1>4, <2>2 DEF Official!Mark, LockedRevs, MarkedRevs, GoneRevs
  <2> QED
    BY <1>1, <2>3 DEF Official!Next, Revs
<1>9. row = [rev[r] EXCEPT !.approved = TRUE] /\ rev[r].approved => row = rev[r]
  BY <1>1 DEF RevRow
<1> QED
  BY <1>1, <1>6, <1>7, <1>8, <1>9 DEF Amended

LEMMA OtherStutters ==
    ASSUME Alone, SerialInv, NEW c \in Clients,
           \/ ApproveSave(c) \/ ApproveReadDate(c) \/ DraftRefused(c)
           \/ SelectRefused(c) \/ \E q \in Patches(project) : SelectValidate(c, q)
           \/ \E d \in DataDates : CpmSave(c, d)
           \/ \E n \in 0..MaxTasks : EditSave(c, n)
    PROVE  UNCHANGED Official!schedule
<1>1. CASE ApproveSave(c)
  <2>r. PICK r \in Revs : r = req[c].r
    BY DEF SerialInv, TypeOK, Requests
  <2>row. PICK row : row = Locked(req[c].rrow)
    OBVIOUS
  <2>1. /\ ~Saved(c) /\ Saved(c)' /\ req'[c].r = r /\ UNCHANGED <<project, next>> /\ TypeOK
        /\ r \in Revs /\ rev[r] \in RevRow /\ ~rev[r].approved /\ req[c].rrow = rev[r]
        /\ rev' = [rev EXCEPT ![r] = row]
    BY <1>1, <2>r, <2>row DEF ApproveSave, IsAt, Become, Saved, SerialInv, TypeOK, Requests, Current, IsOpen
  <2>2. /\ row \in RevRow /\ row.approved
        /\ row.isBaseline = rev[r].isBaseline /\ row.isDeleted = rev[r].isDeleted
    BY <2>1, <2>row DEF Locked, RevRow
  <2>a. /\ {o \in Revs : rev'[o].approved} =
             ({o \in Revs : rev[o].approved} \ {r}) \cup {o \in {r} : row.approved}
        /\ MarkedRevs' = (MarkedRevs \ {r}) \cup {o \in {r} : row.isBaseline}
        /\ GoneRevs' = (GoneRevs \ {r}) \cup {o \in {r} : row.isDeleted}
    BY <2>1, <2>2, RevWritten
  <2>b. /\ r \notin {o \in Revs : rev[o].approved}
        /\ r \in MarkedRevs <=> row.isBaseline
        /\ r \in GoneRevs <=> row.isDeleted
    BY <2>1, <2>2 DEF MarkedRevs, GoneRevs
  <2>3. /\ {o \in Revs : rev'[o].approved} = {o \in Revs : rev[o].approved} \cup {r}
        /\ r \notin {o \in Revs : rev[o].approved}
        /\ MarkedRevs' = MarkedRevs /\ GoneRevs' = GoneRevs
    BY <2>2, <2>a, <2>b
  <2>4. Promoting = {} /\ Promoting' = {r}
    BY <2>1, PromotingOne
  <2>5. LockedRevs' = LockedRevs
    BY <2>3, <2>4 DEF LockedRevs
  <2> QED
    BY <2>1, <2>3, <2>5, ScheduleStutters
<1>2. CASE ~ApproveSave(c)
  <2>a. /\ UNCHANGED <<rev, next>> /\ project'.ptr = project.ptr
    BY <1>2 DEF ApproveReadDate, DraftRefused, SelectRefused, SelectValidate, CpmSave, EditSave,
                SerialInv, TypeOK, ProjectRow
  <2>b. ASSUME ApproveReadDate(c) PROVE Saved(c) /\ Saved(c)' /\ req'[c].r = req[c].r
    BY <2>b DEF ApproveReadDate, IsAt, Become, Saved, SerialInv, TypeOK
  <2>c. ASSUME ~ApproveReadDate(c) PROVE ~Saved(c) /\ ~Saved(c)'
    BY <1>2, <2>c DEF DraftRefused, SelectRefused, SelectValidate, CpmSave, EditSave,
                      IsAt, Become, Done, Idle, Saved, SerialInv, TypeOK
  <2>1. /\ UNCHANGED <<rev, next>> /\ project'.ptr = project.ptr
        /\ (Saved(c)' <=> Saved(c)) /\ (Saved(c) => req'[c].r = req[c].r)
    BY <2>a, <2>b, <2>c
  <2>2. LockedRevs' = LockedRevs /\ MarkedRevs' = MarkedRevs /\ GoneRevs' = GoneRevs
    BY <2>1, PromotingOne DEF LockedRevs, MarkedRevs, GoneRevs
  <2> QED
    BY <2>1, <2>2, ScheduleStutters
<1> QED
  BY <1>1, <1>2

\* A thread that dies after saving an approval leaves a locked revision.
LEMMA CrashLocks ==
    ASSUME Alone, SerialInv, NEW c \in Clients, Crash(c)
    PROVE  Official!Next \/ UNCHANGED Official!schedule
<1>1. ~Saved(c)' /\ UNCHANGED <<project, rev, next>>
  BY DEF Crash, Done, Idle, Saved, SerialInv, TypeOK
<1>2. CASE Saved(c)
  <2>1. /\ req[c].r \in Official!Open /\ req[c].r \in Revs
        /\ LockedRevs' = LockedRevs \cup {req[c].r}
        /\ MarkedRevs' = MarkedRevs /\ GoneRevs' = GoneRevs
    BY <1>1, <1>2, ApprovalEnds
  <2>2. PICK r \in Revs : r = req[c].r
    BY <2>1
  <2>3. Official!Lock(r)
    BY <1>1, <2>1, <2>2 DEF Official!Lock, LockedRevs, MarkedRevs, GoneRevs
  <2> QED
    BY <2>3 DEF Official!Next, Revs
<1>3. CASE ~Saved(c)
  <2>1. LockedRevs' = LockedRevs /\ MarkedRevs' = MarkedRevs /\ GoneRevs' = GoneRevs
    BY <1>1, <1>3, PromotingOne DEF LockedRevs, MarkedRevs, GoneRevs
  <2> QED
    BY <1>1, <2>1, ScheduleStutters
<1> QED
  BY <1>2, <1>3

\* ImplementsOfficial: requests that do not overlap implement OfficialSchedule;
\* approving and promoting, two commits of the code, are then one step of it,
\* unless the thread dies in between.
THEOREM SerialIsOfficial == ASSUME Alone PROVE Spec => ImplementsOfficial
<1>1. Init => Official!Init
  <2> SUFFICES ASSUME Init PROVE Official!Init
    OBVIOUS
  <2>1. \A r \in Revs : rev[r] = [BlankRev EXCEPT !.isBaseline = (r = 0)]
    BY DEF Init
  <2>2. 0 \in Revs
    BY BoundsAssumption DEF Revs
  <2>3. LockedRevs = {} /\ MarkedRevs = {0} /\ GoneRevs = {}
    <3>1. \A r \in Revs : ~rev[r].approved /\ ~rev[r].isDeleted /\ (rev[r].isBaseline <=> r = 0)
      BY <2>1 DEF BlankRev
    <3>2. LockedRevs = {} /\ GoneRevs = {}
      BY <3>1 DEF LockedRevs, GoneRevs
    <3>3. MarkedRevs = {0}
      BY <3>1, <2>2 DEF MarkedRevs
    <3> QED
      BY <3>2, <3>3
  <2> QED
    BY <2>3 DEF Init, NewProject, Official!Init, Official!Roles, Roles, LockedRevs, MarkedRevs, GoneRevs
<1>2. ASSUME SerialInv, [Next]_vars PROVE [Official!Next]_(Official!schedule)
  <2>1. ASSUME NEW c \in Clients, Request(c) \/ Proceed(c) \/ Crash(c)
        PROVE  Official!Next \/ UNCHANGED Official!schedule
    BY <1>2, <2>1, RequestStutters, PromoteApproves, DraftOpens, PatchChooses, DestroyRetires,
       AmendLocksOrMarks, OtherStutters, CrashLocks DEF Proceed
  <2>2. CASE UNCHANGED vars
    BY <2>2 DEF vars, Official!schedule, Promoting, IsAt
  <2> QED
    BY <1>2, <2>1, <2>2 DEF Next
<1> QED
  BY <1>1, <1>2, SerialAlways, PTL DEF Spec, ImplementsOfficial, Official!Spec

=============================================================================
