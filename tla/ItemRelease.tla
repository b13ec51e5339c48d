------------------------------- MODULE ItemRelease -------------------------------
(***************************************************************************)
(* Item revisions: how a revision of a part becomes the released one.      *)
(*                                                                         *)
(* A lifecycle service runs in one transaction.  SELECT ... FOR UPDATE on  *)
(* the revision joined with its item locks the revision's row, then the    *)
(* item's; a release also locks the released revision it supersedes.  The  *)
(* generic updates read a row, validate it and save all of it later,       *)
(* without a lock of their own.                                            *)
(***************************************************************************)
EXTENDS Lifecycle

CONSTANTS
    Items,
    Revs,           \* revisions, existing or not
    ItemOf,         \* the item of each
    R0,             \* default_revision of a new item
    NoDoc,          \* no document
    ItemTargets,    \* the statuses that change_item_status is asked for
    Deployments     \* threads, the requests they serve, the rows they find

ItemKinds == MoveKinds \cup ReleaseKinds
             \cup {"create", "patch", "destroy", "status", "activate", "deactivate", "item"}
ItemStatuses == {"draft", "active", "phase_out", "blocked", "obsolete", "merged"}

\* The lifecycle starts below "released", so these are the rows to start from.
Unreleased == {row \in Rows : row.status \notin LOCKED_STATUSES}

ASSUME ItemOfAssumption == ItemOf \in [Revs -> Items]
ASSUME ItemTargetsAssumption == ItemTargets \subseteq ItemStatuses \ {"merged"}
ASSUME R0Assumption == R0 \notin Revs
ASSUME NoDocAssumption == NoDoc \notin Revs
ASSUME DeploymentsAssumption ==
    \A d \in Deployments : d.serves.kinds \subseteq ItemKinds /\ d.revs \in [Revs -> Unreleased]

VARIABLES
    deployment,     \* the threads, and what they serve
    rev,            \* the ItemRevision rows
    item,           \* the Item rows: status and default_revision
    call            \* what each thread is doing

itemVars == <<deployment, rev, item, call>>

AnyWorker == UNION {d.serves.workers : d \in Deployments}
Workers == deployment.workers
ItemRows == [status: ItemStatuses, default: Revs \cup {R0}]

\* step: "row" holds the revision and waits for the item, "both" holds both,
\* "ready" has also validated the release and holds cur, the revision it
\* supersedes; "edit" has validated an update from copy and holds nothing.
IdleCall == [step |-> "idle", kind |-> "create", doc |-> NoDoc, cur |-> NoDoc,
             day |-> None, copy |-> Absent, icopy |-> [status |-> "draft", default |-> R0]]
Calls == [step: {"idle", "row", "both", "ready", "edit"}, kind: ItemKinds,
          doc: Revs \cup {NoDoc}, cur: Revs \cup {NoDoc}, day: Days \cup {None},
          copy: Rows, icopy: ItemRows]

ItemInit(d) ==
    /\ deployment = d.serves
    /\ rev = d.revs
    /\ item = [i \in Items |-> [status |-> "draft", default |-> R0]]
    /\ call = [w \in AnyWorker |-> IdleCall]

Serves(w, kind) == w \in Workers /\ kind \in deployment.kinds
Idle(w) == call[w] = IdleCall
At(w, step) == call[w].step = step
Finish(w) == call' = [call EXCEPT ![w] = IdleCall]
Go(w, step) == call' = [call EXCEPT ![w].step = step]

Exists(r) == rev[r].status # "absent"

\* Row locks.
HoldsRev(w, r) == \/ call[w].step \in {"row", "both", "ready"} /\ call[w].doc = r
                  \/ At(w, "ready") /\ call[w].cur = r
HoldsItem(w, i) == call[w].step \in {"both", "ready"} /\ ItemOf[call[w].doc] = i
RevFree(w, r) == \A v \in AnyWorker \ {w} : ~HoldsRev(v, r)
ItemFree(w, i) == \A v \in AnyWorker \ {w} : ~HoldsItem(v, i)

-----------------------------------------------------------------------------
(* Lifecycle services *)

Active(i) == item[i].status \in {"draft", "active", "phase_out"}

\* The view finds the revision, the service locks its row ...
Lock(w, kind, r, day) ==
    /\ Serves(w, kind) /\ Idle(w) /\ Exists(r) /\ RevFree(w, r)
    /\ kind \in ReleaseKinds \/ day = None
    /\ call' = [call EXCEPT ![w].step = "row", ![w].kind = kind, ![w].doc = r, ![w].day = day]
    /\ UNCHANGED <<deployment, rev, item>>

MutLockItem(w) ==
    /\ At(w, "row")
    /\ Go(w, "both")
    /\ UNCHANGED <<deployment, rev, item>>

\* ... and the item's, in the same statement.
LockItem(w) ==
    /\ At(w, "row") /\ ItemFree(w, ItemOf[call[w].doc])
    /\ Go(w, "both")
    /\ UNCHANGED <<deployment, rev, item>>

\* submit_revision_for_review, return_revision_to_draft,
\* return_revision_to_review, approve_revision, obsolete_revision
Move(w) ==
    LET target == Moves[call[w].kind] r == call[w].doc IN
    /\ At(w, "both") /\ call[w].kind \in MoveKinds
    /\ rev' = IF target \in TRANSITIONS[rev[r].status]
              THEN [rev EXCEPT ![r].status = target] ELSE rev
    /\ Finish(w)
    /\ UNCHANGED <<deployment, item>>

\* The row as the release would leave it.
Dated(row, day) == IF day = None THEN row ELSE [row EXCEPT !.from = day]

CurrentReleased(r) ==
    {o \in Revs \ {r} : /\ ItemOf[o] = ItemOf[r]
                        /\ rev[o].status = "released" /\ rev[o].to = None}

Ready(r, day) ==
    LET row == Dated(rev[r], day) IN
    /\ "released" \in TRANSITIONS[row.status]
    /\ Active(ItemOf[r])
    /\ row.from # None /\ ValidPeriod(row)

MutNoReleasedOverlap(r, row, excluded) ==
    \A o \in Revs \ ({r} \cup excluded) :
        ItemOf[o] = ItemOf[r] /\ rev[o].status = "released" => row.from # rev[o].from

NoReleasedOverlap(r, row, excluded) ==
    \A o \in Revs \ ({r} \cup excluded) :
        ItemOf[o] = ItemOf[r] /\ rev[o].status = "released" /\ rev[o].from # None
            => ~PeriodsOverlap(row, rev[o])

\* What release_revision demands, cur being the set of the revision it found
\* released and open-ended.
Releasable(w, cur) ==
    LET r == call[w].doc row == Dated(rev[r], call[w].day) IN
    /\ Ready(r, call[w].day)
    /\ cur # {} => call[w].kind = "supersede"
    /\ NoReleasedOverlap(r, row, cur)
    /\ \A c \in cur : rev[c].from # None /\ rev[c].from < row.from

\* .first() of the open-ended releases: there is at most one, see
\* ReleasedPeriodsDisjoint.
Found(r) == IF CurrentReleased(r) = {} THEN {{}} ELSE {{c} : c \in CurrentReleased(r)}

Validate(w) ==
    /\ At(w, "both") /\ call[w].kind \in ReleaseKinds
    /\ \E cur \in Found(call[w].doc) :
        /\ \A c \in cur : RevFree(w, c)
        /\ \/ /\ Releasable(w, cur)
              /\ call' = [call EXCEPT ![w].step = "ready",
                                      ![w].cur = IF cur = {} THEN NoDoc ELSE CHOOSE c \in cur : TRUE]
           \/ ~Releasable(w, cur) /\ Finish(w)
    /\ UNCHANGED <<deployment, rev, item>>

MutDeadlock(w, v) == FALSE

\* A service holding the item wants a revision held by one that waits for the
\* item: the database aborts one of the two.
Deadlock(w, v) ==
    /\ At(w, "both") /\ call[w].kind \in ReleaseKinds
    /\ At(v, "row") /\ call[v].doc \in CurrentReleased(call[w].doc)
    /\ Finish(w) \/ Finish(v)
    /\ UNCHANGED <<deployment, rev, item>>

Superseded(row, day) == [row EXCEPT !.status = "superseded", !.to = day - 1]

Release(w) ==
    LET r == call[w].doc c == call[w].cur i == ItemOf[r]
        row == Dated(rev[r], call[w].day)
    IN /\ At(w, "ready")
       /\ rev' = [o \in Revs |-> CASE o = r -> [row EXCEPT !.status = "released"]
                                   [] o = c -> Superseded(rev[c], row.from)
                                   [] OTHER -> rev[o]]
       /\ item' = [item EXCEPT ![i].default = r,
                               ![i].status = IF @ = "draft" THEN "active" ELSE @]
       /\ Finish(w)
       /\ UNCHANGED deployment

-----------------------------------------------------------------------------
(* Generic views of revisions and items *)

CreateRevision(w, r, from, to) ==
    LET row == [status |-> "draft", from |-> from, to |-> to] IN
    /\ Serves(w, "create") /\ Idle(w) /\ ~Exists(r) /\ ValidPeriod(row)
    /\ rev' = [rev EXCEPT ![r] = row]
    /\ UNCHANGED <<deployment, item, call>>

\* PATCH: the loaded row, with the dates of the request.
ReadPatch(w, r, from, to) ==
    LET row == [rev[r] EXCEPT !.from = from, !.to = to] IN
    /\ Serves(w, "patch") /\ Idle(w) /\ Exists(r) /\ ValidPeriod(row)
    /\ rev[r].status \in LOCKED_STATUSES => row = rev[r]
    /\ call' = [call EXCEPT ![w].step = "edit", ![w].kind = "patch", ![w].doc = r, ![w].copy = row]
    /\ UNCHANGED <<deployment, rev, item>>

\* save() writes every column, the status it loaded included, and inserts the
\* row again when it was deleted in between.
SavePatch(w) ==
    LET r == call[w].doc IN
    /\ At(w, "edit") /\ call[w].kind = "patch" /\ RevFree(w, r)
    /\ rev' = [rev EXCEPT ![r] = call[w].copy]
    /\ Finish(w)
    /\ UNCHANGED <<deployment, item>>

ReadDestroy(w, r) ==
    /\ Serves(w, "destroy") /\ Idle(w) /\ rev[r].status = "draft"
    /\ call' = [call EXCEPT ![w].step = "edit", ![w].kind = "destroy", ![w].doc = r]
    /\ UNCHANGED <<deployment, rev, item>>

\* A revision that a BOM, a line or a chart refers to stays (on_delete=PROTECT).
Destroy(w, referenced) ==
    LET r == call[w].doc IN
    /\ At(w, "edit") /\ call[w].kind = "destroy" /\ RevFree(w, r)
    /\ rev' = IF r \in referenced THEN rev ELSE [rev EXCEPT ![r] = Absent]
    /\ Finish(w)
    /\ UNCHANGED <<deployment, item>>

\* change_item_status locks, reads and writes the item in one transaction.
\* Item.clean derives is_active from the status, so Active says all of it;
\* merging needs a replacement that this endpoint never gives.
ChangeItemStatus(w, i, status) ==
    /\ Serves(w, "status") /\ Idle(w) /\ ItemFree(w, i)
    /\ item' = [item EXCEPT ![i].status = status]
    /\ UNCHANGED <<deployment, rev, call>>

\* activate and deactivate load the item and save its status later; a PATCH of
\* the item saves everything, default_revision included, and takes any value
\* for it.  Which item: that of doc, any of its revisions.
Toggled(kind, status) ==
    CASE kind = "activate" /\ status = "blocked" -> "active"
      [] kind = "deactivate" /\ status = "active" -> "blocked"
      [] OTHER -> status

ReadItem(w, kind, r, copy) ==
    /\ Serves(w, kind) /\ Idle(w)
    /\ call' = [call EXCEPT ![w].step = "edit", ![w].kind = kind, ![w].doc = r, ![w].icopy = copy]
    /\ UNCHANGED <<deployment, rev, item>>

ReadToggle(w, kind, r) ==
    /\ kind \in {"activate", "deactivate"}
    /\ ReadItem(w, kind, r, [item[ItemOf[r]] EXCEPT !.status = Toggled(kind, @)])

ReadItemPatch(w, r, status, default) ==
    ReadItem(w, "item", r, [status |-> status, default |-> default])

SaveItem(w) ==
    LET i == ItemOf[call[w].doc] IN
    /\ At(w, "edit") /\ call[w].kind \in {"activate", "deactivate", "item"} /\ ItemFree(w, i)
    /\ item' = [item EXCEPT ![i] = IF call[w].kind = "item" THEN call[w].icopy
                                   ELSE [@ EXCEPT !.status = call[w].icopy.status]]
    /\ Finish(w)
    /\ UNCHANGED <<deployment, rev>>

-----------------------------------------------------------------------------
(* Properties *)

ItemTypeOK ==
    /\ deployment \in {d.serves : d \in Deployments}
    /\ rev \in [Revs -> Rows]
    /\ item \in [Items -> ItemRows]
    /\ call \in [AnyWorker -> Calls]

Serial == \A v, w \in Workers : v = w

\* An update saves what it read: with several threads it can undo whatever
\* was committed in between.  What follows is claimed of deployments where
\* nobody edits, or one thread does everything.
Undisturbed == deployment.kinds \cap {"patch", "destroy"} # {} => Serial

\* Two released revisions of an item are never valid on the same day, however
\* many releases run at once: _validate_no_released_overlap reads rows that it
\* does not lock, and only the item's lock keeps them as they were.
ReleasedPeriodsDisjoint ==
    Undisturbed => \A r, s \in Revs :
        /\ r # s /\ ItemOf[r] = ItemOf[s]
        /\ rev[r].status = "released" /\ rev[s].status = "released"
        => ~PeriodsOverlap(rev[r], rev[s])

\* The revision an item names by default has been released, and the release
\* was not taken back; unless a PATCH of the item named it.
DefaultWasReleased ==
    Undisturbed /\ "item" \notin deployment.kinds => \A i \in Items : item[i].default # R0 =>
        ItemOf[item[i].default] = i /\ rev[item[i].default].status \in LOCKED_STATUSES

\* "Released engineering revisions are immutable.": once released a revision
\* keeps its start for good, its end until it is superseded, and never becomes
\* a draft, or nothing, again.
ReleasedIsForever ==
    [][Undisturbed => \A r \in Revs : rev[r].status \in LOCKED_STATUSES =>
        /\ rev'[r].status \in LOCKED_STATUSES /\ rev'[r].from = rev[r].from
        /\ rev'[r].to # rev[r].to => rev[r].to = None /\ rev'[r].status = "superseded"]_rev

\* Nothing is released under an item that was blocked, retired or merged at
\* the moment of the release, although the check and the release are apart.
ReleasedUnderActiveItem ==
    [][Undisturbed => \A r \in Revs :
        rev[r].status # "released" /\ rev'[r].status = "released" => Active(ItemOf[r])]_rev

\* Each item's released revisions implement OfficialRevision.
ReleasedOn(i, d) ==
    {r \in Revs : ItemOf[r] = i /\ rev[r].status = "released" /\ Covers(rev[r], d)}
OfficialOf(i) ==
    [d \in Days |-> IF ReleasedOn(i, d) = {} THEN NoDoc ELSE CHOOSE r \in ReleasedOn(i, d) : TRUE]
Official(i) == INSTANCE OfficialRevision WITH official <- OfficialOf(i)
ImplementsOfficial ==
    [][Undisturbed => \A i \in Items : Official(i)!Next \/ OfficialOf(i)' = OfficialOf(i)]_rev

-----------------------------------------------------------------------------
ItemStarts(w) ==
    \E r \in Revs :
        \/ \E kind \in MoveKinds \cup ReleaseKinds, day \in Days \cup {None} : Lock(w, kind, r, day)
        \/ \E from, to \in Days \cup {None} :
            CreateRevision(w, r, from, to) \/ ReadPatch(w, r, from, to)
        \/ ReadDestroy(w, r)
        \/ \E kind \in {"activate", "deactivate"} : ReadToggle(w, kind, r)
        \/ \E status \in ItemTargets : ChangeItemStatus(w, ItemOf[r], status)
        \/ \E copy \in ItemRows :
            /\ copy.status \in {item[ItemOf[r]].status} \cup ItemTargets
            /\ ReadItemPatch(w, r, copy.status, copy.default)

ItemContinues(w, referenced) ==
    \/ LockItem(w) \/ Move(w) \/ Validate(w) \/ Release(w)
    \/ SavePatch(w) \/ Destroy(w, referenced) \/ SaveItem(w)
    \/ \E v \in AnyWorker : Deadlock(w, v) \/ Deadlock(v, w)

\* By itself this module allows any revisions to be referred to.
Continued(w) == \E referenced \in SUBSET Revs : ItemContinues(w, referenced)
ItemNext == \E w \in AnyWorker : ItemStarts(w) \/ Continued(w)

\* What must happen is up to all the services together: see EngineeringRelease.
ItemSpec == (\E d \in Deployments : ItemInit(d)) /\ [][ItemNext]_itemVars

=============================================================================
