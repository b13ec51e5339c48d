------------------------------- MODULE BomRelease --------------------------------
(***************************************************************************)
(* Bills of material.  A BOM belongs to an item revision, its parent; its  *)
(* revisions have lines, each naming an item revision as component.  The   *)
(* services follow those of item revisions: FOR UPDATE on the revision     *)
(* joined with its BOM, parent and item locks all four rows until commit.  *)
(* Components and the other BOMs of the structure are read unlocked.       *)
(*                                                                         *)
(* Only a release does something in between taking its locks and writing,  *)
(* so the other services are single steps; what it is to wait with half of *)
(* one's locks is modelled for item revisions.                             *)
(***************************************************************************)
EXTENDS ItemRelease, Sequences, Relation

CONSTANTS
    Boms,
    BomRevs,        \* BOM revisions, existing or not
    BomOf           \* the BOM of each

BomKinds == MoveKinds \cup ReleaseKinds
            \cup {"create", "patch", "destroy", "clone", "bom", "parent", "line", "move line"}

ASSUME BomOfAssumption == NoDoc \notin BomRevs /\ BomOf \in [BomRevs -> Boms]
ASSUME BomDeploymentsAssumption ==
    \A d \in Deployments : /\ d.serves.bomKinds \subseteq BomKinds /\ d.serves.bomDocs \subseteq BomRevs
                           /\ d.parents \in [Boms -> Revs \cup {NoDoc}]
                           /\ d.bomRevs \in [BomRevs -> Unreleased]
                           /\ d.lines \in [BomRevs -> SUBSET Revs]
                           /\ \A b \in BomRevs : d.bomRevs[b].status # "absent" => d.parents[BomOf[b]] \in Revs

VARIABLES
    parent,         \* BOM.parent_item_revision, NoDoc when the BOM does not exist
    bomRev,         \* the BOMRevision rows
    lines,          \* the components of the BOMLine rows of each
    releases,       \* BOM revisions as they were released, the last time counts
    bomCall         \* what each thread is doing

bomVars == <<parent, bomRev, lines, releases, bomCall>>

\* "ready" holds the locks of a validated release, "edit" an update or a
\* change of lines that was validated and is not yet saved.
IdleBomCall == [step |-> "idle", kind |-> "create", doc |-> NoDoc, cur |-> {}, day |-> None,
                copy |-> Absent, removes |-> {}, adds |-> {}]
BomCalls == [step: {"idle", "ready", "edit"}, kind: BomKinds, doc: BomRevs \cup {NoDoc},
             cur: SUBSET BomRevs, day: Days \cup {None}, copy: Rows,
             removes: SUBSET (BomRevs \X Revs), adds: SUBSET (BomRevs \X Revs)]

BomInit(d) ==
    /\ parent = d.parents
    /\ bomRev = d.bomRevs
    /\ lines = d.lines
    /\ releases = <<>>
    /\ bomCall = [w \in AnyWorker |-> IdleBomCall]

BomServes(w, kind) == w \in Workers /\ kind \in deployment.bomKinds /\ bomCall[w] = IdleBomCall
BomAt(w, step) == bomCall[w].step = step
BomFinish(w) == bomCall' = [bomCall EXCEPT ![w] = IdleBomCall]
BomExists(b) == bomRev[b].status # "absent"
ParentOf(b) == parent[BomOf[b]]

\* Row locks of a release between its checks and its commit.
HoldsBomRev(w, b) == BomAt(w, "ready") /\ b \in {bomCall[w].doc} \cup bomCall[w].cur
HoldsBom(w, m) == BomAt(w, "ready") /\ BomOf[bomCall[w].doc] = m
HoldsParent(w, r) == BomAt(w, "ready") /\ ParentOf(bomCall[w].doc) = r
HoldsParentItem(w, i) == BomAt(w, "ready") /\ ItemOf[ParentOf(bomCall[w].doc)] = i

BomRevFree(b) == \A v \in AnyWorker : ~HoldsBomRev(v, b)
BomFree(m) == \A v \in AnyWorker : ~HoldsBom(v, m)

\* The four rows of FOR UPDATE; the last two are those of ItemRelease.
RowsFree(w, b) ==
    LET r == ParentOf(b) IN
    /\ BomRevFree(b) /\ BomFree(BomOf[b])
    /\ RevFree(w, r) /\ ItemFree(w, ItemOf[r])
    /\ \A v \in AnyWorker : ~HoldsParent(v, r) /\ ~HoldsParentItem(v, ItemOf[r])

-----------------------------------------------------------------------------
(* Lifecycle services *)

BomMove(w, kind, b) ==
    /\ BomServes(w, kind) /\ kind \in MoveKinds
    /\ Moves[kind] \in TRANSITIONS[bomRev[b].status] /\ RowsFree(w, b)
    /\ bomRev' = [bomRev EXCEPT ![b].status = Moves[kind]]
    /\ UNCHANGED <<parent, lines, releases, bomCall>>

\* The released BOM of an item revision: the latest, whatever its type, or the
\* candidate where the candidate is one of its BOMs.
Latest(S) == {b \in S : \E i \in DOMAIN releases :
                releases[i] = b /\ \A j \in DOMAIN releases : releases[j] \in S => j <= i}
ReleasedBoms(r) == {b \in BomRevs : ParentOf(b) = r /\ bomRev[b].status = "released"}
BomsFor(r, candidate) == IF ParentOf(candidate) = r THEN {candidate} ELSE Latest(ReleasedBoms(r))

\* _cycle_path: a way from the candidate's parent back to itself.
Uses(candidate) == [p \in Revs \X Revs |-> \E b \in BomsFor(p[1], candidate) : p[2] \in lines[b]]
Circular(candidate) ==
    TransitiveClosure(Uses(candidate), Revs)[ParentOf(candidate), ParentOf(candidate)]

NoReleasedBomOverlap(b, row, excluded) ==
    \A o \in BomRevs \ ({b} \cup excluded) :
        BomOf[o] = BomOf[b] /\ bomRev[o].status = "released" /\ bomRev[o].from # None
            => ~PeriodsOverlap(row, bomRev[o])

MutBomValid(b, row, excluded) ==
    /\ rev[ParentOf(b)].status \in {"approved", "released"}
    /\ row.from # None
    /\ lines[b] # {} /\ ParentOf(b) \notin lines[b]
    /\ \A c \in lines[b] : Exists(c)
    /\ ~Circular(b)
    /\ NoReleasedBomOverlap(b, row, excluded)

\* validate_bom_revision_for_release; quantities and duplicate lines are not
\* modelled.
BomValid(b, row, excluded) ==
    /\ rev[ParentOf(b)].status \in {"approved", "released"}
    /\ row.from # None
    /\ lines[b] # {} /\ ParentOf(b) \notin lines[b]
    /\ \A c \in lines[b] : rev[c].status = "released"
    /\ ~Circular(b)
    /\ NoReleasedBomOverlap(b, row, excluded)

CurrentBom(b) ==
    Latest({o \in BomRevs \ {b} : /\ BomOf[o] = BomOf[b]
                                  /\ bomRev[o].status = "released" /\ bomRev[o].to = None})

\* The row is saved with full_clean, which refuses a period that ends before
\* it starts.
BomValidate(w, kind, b, day) ==
    LET row == Dated(bomRev[b], day) cur == CurrentBom(b) IN
    /\ BomServes(w, kind) /\ kind \in ReleaseKinds
    /\ "released" \in TRANSITIONS[bomRev[b].status] /\ RowsFree(w, b)
    /\ BomValid(b, row, cur) /\ ValidPeriod(row)
    /\ cur # {} => kind = "supersede" /\ \A c \in cur : bomRev[c].from # None /\ bomRev[c].from < row.from
    /\ \A c \in cur : BomRevFree(c)
    /\ bomCall' = [bomCall EXCEPT ![w] = [IdleBomCall EXCEPT
                     !.step = "ready", !.kind = kind, !.doc = b, !.cur = cur, !.day = day]]
    /\ UNCHANGED <<parent, bomRev, lines, releases>>

PublishBom(w) ==
    LET b == bomCall[w].doc row == Dated(bomRev[b], bomCall[w].day) IN
    /\ BomAt(w, "ready")
    /\ bomRev' = [o \in BomRevs |-> CASE o = b -> [row EXCEPT !.status = "released"]
                                      [] o \in bomCall[w].cur -> Superseded(bomRev[o], row.from)
                                      [] OTHER -> bomRev[o]]
    /\ releases' = Append(releases, b)
    /\ BomFinish(w)
    /\ UNCHANGED <<parent, lines>>

\* clone_bom_revision: a draft with the same lines and no dates.
BomClone(w, b, n) ==
    /\ BomServes(w, "clone") /\ BomExists(b) /\ BomRevFree(b)
    /\ ~BomExists(n) /\ BomOf[n] = BomOf[b]
    /\ bomRev' = [bomRev EXCEPT ![n] = [Absent EXCEPT !.status = "draft"]]
    /\ lines' = [lines EXCEPT ![n] = lines[b]]
    /\ UNCHANGED <<parent, releases, bomCall>>

-----------------------------------------------------------------------------
(* Generic views of BOMs, their revisions and lines *)

CreateBom(w, m, r) ==
    /\ BomServes(w, "bom") /\ parent[m] = NoDoc /\ Exists(r)
    /\ parent' = [parent EXCEPT ![m] = r]
    /\ UNCHANGED <<bomRev, lines, releases, bomCall>>

\* A BOM with revisions stays.
DestroyBom(w, m) ==
    /\ BomServes(w, "bom") /\ BomFree(m) /\ \A b \in BomRevs : BomOf[b] = m => ~BomExists(b)
    /\ parent' = [parent EXCEPT ![m] = NoDoc]
    /\ UNCHANGED <<bomRev, lines, releases, bomCall>>

CreateBomRevision(w, b, from, to) ==
    LET row == [status |-> "draft", from |-> from, to |-> to] IN
    /\ BomServes(w, "create") /\ ParentOf(b) # NoDoc /\ ~BomExists(b) /\ ValidPeriod(row)
    /\ bomRev' = [bomRev EXCEPT ![b] = row]
    /\ lines' = [lines EXCEPT ![b] = {}]
    /\ UNCHANGED <<parent, releases, bomCall>>

BomEdit(w, kind, b, row, removes, adds) ==
    /\ BomServes(w, kind)
    /\ bomCall' = [bomCall EXCEPT ![w] = [IdleBomCall EXCEPT
                     !.step = "edit", !.kind = kind, !.doc = b, !.copy = row,
                     !.removes = removes, !.adds = adds]]
    /\ UNCHANGED <<parent, bomRev, lines, releases>>

ReadBomPatch(w, b, from, to) ==
    LET row == [bomRev[b] EXCEPT !.from = from, !.to = to] IN
    /\ BomExists(b) /\ ValidPeriod(row)
    /\ bomRev[b].status \in LOCKED_STATUSES => row = bomRev[b]
    /\ BomEdit(w, "patch", b, row, {}, {})

SaveBomPatch(w) ==
    /\ BomAt(w, "edit") /\ bomCall[w].kind = "patch" /\ BomRevFree(bomCall[w].doc)
    /\ bomRev' = [bomRev EXCEPT ![bomCall[w].doc] = bomCall[w].copy]
    /\ BomFinish(w)
    /\ UNCHANGED <<parent, lines, releases>>

ReadBomDestroy(w, b) ==
    /\ bomRev[b].status = "draft"
    /\ BomEdit(w, "destroy", b, Absent, {}, {})

BomDestroy(w) ==
    LET b == bomCall[w].doc IN
    /\ BomAt(w, "edit") /\ bomCall[w].kind = "destroy" /\ BomRevFree(b)
    /\ bomRev' = [bomRev EXCEPT ![b] = Absent]
    /\ lines' = [lines EXCEPT ![b] = {}]
    /\ BomFinish(w)
    /\ UNCHANGED <<parent, releases>>

\* A PATCH of the BOM may give it another parent; nothing is checked.
BomParent(w, m, r) ==
    /\ BomServes(w, "parent") /\ parent[m] # NoDoc /\ Exists(r) /\ BomFree(m)
    /\ parent' = [parent EXCEPT ![m] = r]
    /\ UNCHANGED <<bomRev, lines, releases, bomCall>>

MutReadLine(w, b, c) ==
    /\ BomExists(b)
    /\ \/ Exists(c) /\ c \notin lines[b] /\ c # ParentOf(b) /\ BomEdit(w, "line", b, Absent, {}, {<<b, c>>})
       \/ c \in lines[b] /\ BomEdit(w, "line", b, Absent, {<<b, c>>}, {})

\* A new line is refused in a locked revision, the removal of one from a
\* locked revision too.
ReadLine(w, b, c) ==
    /\ BomExists(b) /\ bomRev[b].status \notin LOCKED_STATUSES
    /\ \/ Exists(c) /\ c \notin lines[b] /\ c # ParentOf(b) /\ BomEdit(w, "line", b, Absent, {}, {<<b, c>>})
       \/ c \in lines[b] /\ BomEdit(w, "line", b, Absent, {<<b, c>>}, {})

\* An update of a line may name another component and another revision: only
\* the revision it leaves is asked whether it is locked.
ReadMoveLine(w, b, c, b2, c2) ==
    /\ BomExists(b) /\ BomExists(b2) /\ Exists(c2) /\ c \in lines[b] /\ c2 \notin lines[b2] /\ c2 # ParentOf(b2)
    /\ bomRev[b].status \notin LOCKED_STATUSES
    /\ BomEdit(w, "move line", b, Absent, {<<b, c>>}, {<<b2, c2>>})

\* The foreign keys make the insertion wait for the revision's row and fail
\* when one of the two is gone.
SaveLine(w) ==
    LET adds == bomCall[w].adds removes == bomCall[w].removes IN
    /\ BomAt(w, "edit") /\ bomCall[w].kind \in {"line", "move line"}
    /\ \A p \in adds : BomRevFree(p[1])
    /\ lines' = IF \A p \in adds : BomExists(p[1]) /\ Exists(p[2])
                THEN [b \in BomRevs |-> (lines[b] \ {c \in Revs : <<b, c>> \in removes})
                                        \cup {c \in Revs : <<b, c>> \in adds}]
                ELSE lines
    /\ BomFinish(w)
    /\ UNCHANGED <<parent, bomRev, releases>>

-----------------------------------------------------------------------------
\* bomDocs bounds the revisions that requests name.
BomStarts(w) ==
    \E b \in deployment.bomDocs :
        \/ \E kind \in MoveKinds : BomMove(w, kind, b)
        \/ \E kind \in ReleaseKinds, day \in Days \cup {None} : BomValidate(w, kind, b, day)
        \/ \E from, to \in Days \cup {None} :
            CreateBomRevision(w, b, from, to) \/ ReadBomPatch(w, b, from, to)
        \/ \E n \in deployment.bomDocs : BomClone(w, b, n)
        \/ ReadBomDestroy(w, b)
        \/ DestroyBom(w, BomOf[b])
        \/ \E r \in Revs : \/ CreateBom(w, BomOf[b], r) \/ BomParent(w, BomOf[b], r)
                          \/ ReadLine(w, b, r)
        \/ \E c, c2 \in Revs, b2 \in BomRevs : ReadMoveLine(w, b, c, b2, c2)

BomContinues(w) ==
    PublishBom(w) \/ SaveBomPatch(w) \/ BomDestroy(w) \/ SaveLine(w)

=============================================================================
