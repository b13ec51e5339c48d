--------------------------- MODULE MCEngineeringRelease ---------------------------
(* Model-checking instances of EngineeringRelease. *)
EXTENDS EngineeringRelease, TLC
CONSTANTS w1, w2, ra, rb, ia, ba, bb, a1, a2, b1, c1, c2, n1, n2

MCItemOf == ra :> ia @@ rb :> ia
MCBomOf == a1 :> ba @@ a2 :> ba @@ b1 :> bb
MCChartOf == c1 :> ra @@ c2 :> ra

Row(status, from, to) == [status |-> status, from |-> from, to |-> to]
Approved == Row("approved", None, None)

\* No document exists.
Empty == [serves |-> [workers |-> {w1}, kinds |-> {}, bomKinds |-> {}, opcKinds |-> {},
                      bomDocs |-> BomRevs],
          revs |-> [r \in Revs |-> Absent], parents |-> [m \in Boms |-> NoDoc], bomRevs |-> [b \in BomRevs |-> Absent],
          lines |-> [b \in BomRevs |-> {}], charts |-> [c \in Charts |-> Absent], place |-> [n \in Nodes |-> NoDoc]]
TwoThreads == [Empty EXCEPT !.serves.workers = {w1, w2}]
ApprovedRevs == [r \in Revs |-> Approved]

\* Item revisions: one thread editing them, two that release, retire and block.
ItemsSerially == [Empty EXCEPT
    !.serves.kinds = ItemKinds \ {"patch", "destroy", "status", "activate", "deactivate", "item"},
    !.revs = [r \in Revs |-> IF r = ra THEN Absent ELSE Row("approved", 1, None)]]
ItemsEdited == [Empty EXCEPT
    !.serves.kinds = {"patch", "release", "supersede", "draft", "destroy"},
    !.revs = [r \in Revs |-> IF r = ra THEN Row("under_review", None, None) ELSE Row("approved", 1, None)]]
ItemsAtOnce == [TwoThreads EXCEPT
    !.serves.kinds = {"release", "supersede", "obsolete", "status"},
    !.revs = [r \in Revs |-> Row("approved", 1, IF r = ra THEN 1 ELSE None)]]
ItemsToggled == [TwoThreads EXCEPT
    !.serves.kinds = {"release", "activate", "deactivate"}, !.revs = ApprovedRevs]
ItemsPatched == [TwoThreads EXCEPT
    !.serves.kinds = {"release", "item"}, !.revs = [r \in Revs |-> IF r = ra THEN Approved ELSE Absent]]

\* BOMs: ra is valid on day 1 and rb from day 2, a2 uses rb and b1 uses ra.
Parents == ba :> ra @@ bb :> rb
BomRevisions == ra :> Row("approved", 1, 1) @@ rb :> Row("approved", 2, None)
BomLines == a1 :> {rb} @@ a2 :> {rb} @@ b1 :> {ra}
BomsCreated == [Empty EXCEPT
    !.serves.kinds = {"destroy"}, !.revs = [r \in Revs |-> Row("draft", None, None)],
    !.serves.bomDocs = {a1}, !.serves.bomKinds = {"bom", "create", "line", "destroy"}]
BomsEdited == [Empty EXCEPT
    !.serves.kinds = {"release"}, !.revs = BomRevisions, !.parents = Parents,
    !.serves.bomDocs = {a1, a2},
    !.serves.bomKinds = BomKinds \ {"bom", "create", "line", "move line", "parent", "submit", "draft", "review"},
    !.bomRevs = [[b \in BomRevs |-> Absent] EXCEPT ![a2] = Approved], !.lines = [BomLines EXCEPT ![a1] = {}]]
BomsMoved == [Empty EXCEPT
    !.serves.bomKinds = {"submit", "draft", "review", "approve"},
    !.revs = ApprovedRevs, !.parents = Parents,
    !.bomRevs = [b \in BomRevs |-> Row("draft", None, None)]]
BomsSerially == [Empty EXCEPT
    !.serves.kinds = {"release"}, !.revs = BomRevisions, !.parents = Parents,
    !.serves.bomKinds = {"release", "supersede", "obsolete", "line"},
    !.bomRevs = a1 :> Row("approved", 1, 2) @@ a2 :> Row("approved", 2, None) @@ b1 :> Row("approved", 1, None),
    !.lines = [BomLines EXCEPT ![a1] = {}]]
BomsAtOnce == [TwoThreads EXCEPT
    !.serves.kinds = {"release", "review"}, !.revs = BomRevisions, !.parents = Parents,
    !.serves.bomKinds = {"release", "supersede"},
    !.bomRevs = [b \in BomRevs |-> Row("approved", IF b = a2 THEN None ELSE 1, None)],
    !.lines = BomLines]
ComponentsRetired == [BomsAtOnce EXCEPT
    !.serves.kinds = {"release", "supersede", "obsolete"}, !.serves.bomKinds = {"release"},
    !.serves.bomDocs = {a1, b1}]
BomsMoving == [Empty EXCEPT
    !.serves.bomKinds = {"move line", "parent"}, !.revs = ApprovedRevs, !.parents = Parents,
    !.bomRevs = [b \in BomRevs |-> Row("draft", None, None)], !.lines = BomLines]

\* Charts of ra.
ChartsDated == [Empty EXCEPT
    !.revs = ApprovedRevs,
    !.serves.opcKinds = {"create", "patch", "destroy", "approve", "release", "supersede", "obsolete"},
    !.charts = [c \in Charts |-> IF c = c1 THEN Row("approved", 1, None) ELSE Row("under_review", None, None)],
    !.place = n1 :> c1 @@ n2 :> c2]
ChartsDrawn == [Empty EXCEPT
    !.revs = ApprovedRevs,
    !.serves.opcKinds = {"node", "edge", "clone", "destroy", "release", "obsolete"},
    !.charts = [c \in Charts |-> IF c = c1 THEN Row("approved", 1, None) ELSE Absent]]
ChartsAtOnce == [TwoThreads EXCEPT
    !.revs = ApprovedRevs, !.serves.opcKinds = {"release", "supersede", "obsolete", "review", "approve"},
    !.charts = c1 :> Approved @@ c2 :> Row("approved", None, 1),
    !.place = n1 :> c1 @@ n2 :> c2]
ChartsVanishing == [TwoThreads EXCEPT
    !.revs = ApprovedRevs, !.serves.opcKinds = {"node", "destroy"},
    !.charts = [c \in Charts |-> Row("draft", None, None)]]
ChartsMoving == [Empty EXCEPT
    !.revs = ApprovedRevs,
    !.serves.opcKinds = {"move node", "move edge", "edge", "submit", "draft", "review", "approve"},
    !.charts = [c \in Charts |-> Row("draft", None, None)],
    !.place = [n \in Nodes |-> c1]]

MCDeployments ==
    {ItemsSerially, ItemsEdited, ItemsAtOnce, ItemsToggled, ItemsPatched,
     BomsCreated, BomsEdited, BomsMoved, BomsSerially, BomsAtOnce, ComponentsRetired, BomsMoving,
     ChartsDated, ChartsDrawn, ChartsAtOnce, ChartsVanishing, ChartsMoving}
=============================================================================
