---------------------------- MODULE EngineeringRelease ----------------------------
(***************************************************************************)
(* Item revisions, bills of material and process charts together: the same *)
(* threads serve all three, a BOM and a chart are released against the     *)
(* item revision they find, and a BOM's release holds its parent's rows.   *)
(***************************************************************************)
EXTENDS BomRelease, OpcRelease

vars == <<itemVars, bomVars, opcVars>>

Init == \E d \in Deployments : ItemInit(d) /\ BomInit(d) /\ OpcInit(d)

MutRespectsBomLocks == TRUE

\* A step on item revisions neither takes nor writes a row that the release of
\* a BOM holds.
RespectsBomLocks ==
    /\ \A v \in AnyWorker, r \in Revs : HoldsParent(v, r) =>
        rev'[r] = rev[r] /\ \A w \in AnyWorker : HoldsRev(w, r)' => HoldsRev(w, r)
    /\ \A v \in AnyWorker, i \in Items : HoldsParentItem(v, i) =>
        item'[i] = item[i] /\ \A w \in AnyWorker : HoldsItem(w, i)' => HoldsItem(w, i)

\* What refers to a revision keeps it from being deleted.
Referenced ==
    {r \in Revs : \/ \E m \in Boms : parent[m] = r
                 \/ \E b \in BomRevs : r \in lines[b]
                 \/ \E d \in Charts : ChartOf[d] = r /\ ChartExists(d)}

ItemStep(w) ==
    /\ \/ ItemStarts(w) /\ bomCall[w] = IdleBomCall /\ opcCall[w] = IdleOpcCall
       \/ ItemContinues(w, Referenced)
    /\ RespectsBomLocks
    /\ UNCHANGED <<bomVars, opcVars>>

BomStep(w) ==
    /\ (BomStarts(w) /\ Idle(w) /\ opcCall[w] = IdleOpcCall) \/ BomContinues(w)
    /\ UNCHANGED <<itemVars, opcVars>>

OpcStep(w) ==
    /\ (OpcStarts(w) /\ Idle(w) /\ bomCall[w] = IdleBomCall) \/ OpcContinues(w)
    /\ UNCHANGED <<itemVars, bomVars>>

Next == \E w \in AnyWorker : ItemStep(w) \/ BomStep(w) \/ OpcStep(w)

Continues(w) ==
    \/ ItemContinues(w, Referenced) /\ RespectsBomLocks /\ UNCHANGED <<bomVars, opcVars>>
    \/ BomContinues(w) /\ UNCHANGED <<itemVars, opcVars>>
    \/ OpcContinues(w) /\ UNCHANGED <<itemVars, bomVars>>

\* The server finishes what it started, the database grants a row lock to who
\* waits for it and detects deadlocks.
Spec ==
    /\ Init /\ [][Next]_vars
    /\ \A w \in AnyWorker : SF_vars(Continues(w) /\ <<call[w], bomCall[w], opcCall[w]>>' # <<call[w], bomCall[w], opcCall[w]>>)

-----------------------------------------------------------------------------
(* Properties *)

TypeOK ==
    /\ ItemTypeOK
    /\ parent \in [Boms -> Revs \cup {NoDoc}]
    /\ bomRev \in [BomRevs -> Rows] /\ lines \in [BomRevs -> SUBSET Revs]
    /\ releases \in Seq(BomRevs) /\ bomCall \in [AnyWorker -> BomCalls]
    /\ chart \in [Charts -> Rows] /\ place \in [Nodes -> Charts \cup {NoDoc}]
    /\ edges \subseteq EdgeRows /\ opcCall \in [AnyWorker -> OpcCalls]

\* What is claimed of BOM revisions holds where no line is moved by an update,
\* no BOM gets another parent, and updates and changes of lines do not overlap
\* with anything; the README says what happens where they do.
BomUndisturbed ==
    /\ {"move line", "parent"} \cap deployment.bomKinds = {}
    /\ {"line", "patch", "destroy"} \cap deployment.bomKinds # {} => Serial

\* Released revisions of one BOM are never valid on the same day.
ReleasedBomsDisjoint ==
    BomUndisturbed => \A a, b \in BomRevs :
        /\ a # b /\ BomOf[a] = BomOf[b]
        /\ bomRev[a].status = "released" /\ bomRev[b].status = "released"
        => ~PeriodsOverlap(bomRev[a], bomRev[b])

\* "Released BOM revisions are immutable.": the lines of a locked revision stay.
ReleasedLinesStay ==
    [][BomUndisturbed => \A b \in BomRevs : bomRev[b].status \in LOCKED_STATUSES =>
        bomRev'[b].status \in LOCKED_STATUSES /\ lines'[b] = lines[b]]_<<bomRev, lines>>

\* Every component of a BOM revision that was ever released is a revision that
\* was released, although components are checked without a lock and may be
\* superseded or retired before the BOM's release commits.
ComponentsWereReleased ==
    BomUndisturbed /\ Undisturbed => \A b \in BomRevs : bomRev[b].status \in LOCKED_STATUSES =>
        lines[b] # {} /\ \A c \in lines[b] : rev[c].status \in LOCKED_STATUSES

\* A BOM revision is released only while its parent is approved or released:
\* a return to review waits for the BOM's transaction.
ReleasedForApprovedParent ==
    [][BomUndisturbed => \A b \in BomRevs :
        bomRev[b].status # "released" /\ bomRev'[b].status = "released" =>
            rev[ParentOf(b)].status \in {"approved", "released"}]_bomRev

\* A release by the only thread never closes a circle through the parent it is
\* for.  Two releases at once can: each finds the other BOM not yet released.
ReleaseClosesNoCircle ==
    [][Serial /\ BomUndisturbed => \A b \in BomRevs :
        bomRev[b].status # "released" /\ bomRev'[b].status = "released" => ~Circular(b)']_bomRev

\* Nobody may have moved a node or an edge by an update, or edited a chart at
\* the same time as somebody released it.
OpcUndisturbed ==
    /\ {"move node", "move edge"} \cap deployment.opcKinds = {}
    /\ {"node", "edge", "patch"} \cap deployment.opcKinds # {} => Serial

\* A chart that was ever released is a graph without circles, and its edges
\* join its own nodes.
ReleasedGraphSound ==
    OpcUndisturbed => \A d \in Charts : chart[d].status \in LOCKED_STATUSES => ~GraphErrors(d)

\* With one thread, released charts of an item revision are never valid on the
\* same day.  Two releases at once lock different rows and can overlap.
ReleasedChartsDisjoint ==
    Serial => \A a, b \in Charts :
        /\ a # b /\ ChartOf[a] = ChartOf[b]
        /\ chart[a].status = "released" /\ chart[b].status = "released"
        => ~PeriodsOverlap(chart[a], chart[b])

\* With one thread no chart is ever superseded, although the refusal of a
\* second release says "Use supersede.": the chart to supersede is not left
\* out of the check for overlaps, so superseding it is refused as well.
NoChartSuperseded ==
    Serial => \A d \in Charts : chart[d].status # "superseded"

\* On each day one released document of a kind is in force: no two periods overlap,
\* of an item's revisions, of a BOM's or of an item revision's charts.
PeriodsDisjoint ==
    ReleasedPeriodsDisjoint /\ ReleasedBomsDisjoint /\ ReleasedChartsDisjoint /\ NoChartSuperseded

\* What was released rests on what was released, and charts are graphs.
ReleasedSound == TypeOK /\ DefaultWasReleased /\ ComponentsWereReleased /\ ReleasedGraphSound

\* What was released stays: the revision, its period, and the lines of a BOM.
ReleasedStays == ReleasedIsForever /\ ReleasedLinesStay

\* What a release has checked still holds when it commits.
ReleaseChecked == ReleasedUnderActiveItem /\ ReleasedForApprovedParent /\ ReleaseClosesNoCircle

\* Every request is answered: a release that holds the item and wants the row
\* of a request that waits for the item does not wait for ever.
RequestsEnd ==
    \A w \in AnyWorker : call[w].step # "idle" ~> call[w].step = "idle"

=============================================================================
