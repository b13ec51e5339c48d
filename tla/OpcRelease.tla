------------------------------- MODULE OpcRelease --------------------------------
(***************************************************************************)
(* Operation process charts: a chart belongs to an item revision and has   *)
(* nodes (operations) and edges between them.  The services lock the row   *)
(* of the chart alone: nothing keeps two releases of one item revision     *)
(* apart, and the chart to supersede is looked for after the checks.       *)
(***************************************************************************)
EXTENDS ItemRelease, Relation

CONSTANTS
    Charts,         \* OPCDiagram rows, existing or not
    ChartOf,        \* the item revision of each
    Nodes           \* OPCNode rows, existing or not

OpcKinds == MoveKinds \cup ReleaseKinds
            \cup {"create", "patch", "destroy", "clone", "node", "edge", "move node", "move edge"}

ASSUME ChartOfAssumption == NoDoc \notin Charts /\ ChartOf \in [Charts -> Revs]
ASSUME OpcDeploymentsAssumption ==
    \A d \in Deployments : /\ d.serves.opcKinds \subseteq OpcKinds
                           /\ d.charts \in [Charts -> Unreleased]
                           /\ d.place \in [Nodes -> Charts \cup {NoDoc}]

VARIABLES
    chart,          \* the OPCDiagram rows
    place,          \* the chart of each node, NoDoc when it does not exist
    edges,          \* the OPCEdge rows: chart, source, target
    opcCall         \* what each thread is doing

opcVars == <<chart, place, edges, opcCall>>

EdgeRows == [diagram: Charts, source: Nodes, target: Nodes]

\* "ready" holds the row of a validated chart, "edit" an update that was
\* validated and is not yet saved.
IdleOpcCall == [step |-> "idle", kind |-> "create", doc |-> NoDoc, day |-> None,
                copy |-> Absent, node |-> NoDoc, removes |-> {}, adds |-> {}]
OpcCalls == [step: {"idle", "ready", "edit"}, kind: OpcKinds, doc: Charts \cup {NoDoc},
             day: Days \cup {None}, copy: Rows, node: Nodes \cup {NoDoc},
             removes: SUBSET EdgeRows, adds: SUBSET EdgeRows]

OpcInit(d) ==
    /\ chart = d.charts
    /\ place = d.place
    /\ edges = {}
    /\ opcCall = [w \in AnyWorker |-> IdleOpcCall]

OpcServes(w, kind) == w \in Workers /\ kind \in deployment.opcKinds /\ opcCall[w] = IdleOpcCall
OpcAt(w, step) == opcCall[w].step = step
OpcFinish(w) == opcCall' = [opcCall EXCEPT ![w] = IdleOpcCall]
ChartExists(d) == chart[d].status # "absent"
ChartFree(d) == \A v \in AnyWorker : ~(OpcAt(v, "ready") /\ opcCall[v].doc = d)

-----------------------------------------------------------------------------
(* Lifecycle services *)

OpcMove(w, kind, d) ==
    /\ OpcServes(w, kind) /\ kind \in MoveKinds /\ ChartFree(d)
    /\ Moves[kind] \in TRANSITIONS[chart[d].status]
    /\ chart' = [chart EXCEPT ![d].status = Moves[kind]]
    /\ UNCHANGED <<place, edges, opcCall>>

NodesOf(d) == {n \in Nodes : place[n] = d}
EdgesOf(d) == {e \in edges : e.diagram = d}

\* _graph_cycle
Follows(d) == [p \in Nodes \X Nodes |-> \E e \in EdgesOf(d) : <<e.source, e.target>> = p]
Cyclic(d) == LET reach == TransitiveClosure(Follows(d), Nodes) IN \E n \in Nodes : reach[n, n]

\* validate_opc_graph.  Every node is an operation with a label and durations;
\* that a start and a terminal node exist follows from the rest.
GraphErrors(d) ==
    \/ NodesOf(d) = {}
    \/ \E e \in EdgesOf(d) : e.source = e.target \/ {e.source, e.target} \ NodesOf(d) # {}
    \/ Cyclic(d)

NoReleasedChartOverlap(d, row) ==
    \A o \in Charts \ {d} :
        ChartOf[o] = ChartOf[d] /\ chart[o].status = "released" /\ chart[o].from # None
            => ~PeriodsOverlap(row, chart[o])

\* validate_opc_for_release, on the chart's own row locked.
OpcValidate(w, kind, d, day) ==
    LET row == Dated(chart[d], day) IN
    /\ OpcServes(w, kind) /\ kind \in ReleaseKinds /\ ChartFree(d)
    /\ "released" \in TRANSITIONS[row.status]
    /\ rev[ChartOf[d]].status \in {"approved", "released"} /\ row.from # None
    /\ ~GraphErrors(d)
    /\ NoReleasedChartOverlap(d, row)
    /\ opcCall' = [opcCall EXCEPT ![w] = [IdleOpcCall EXCEPT
                     !.step = "ready", !.kind = kind, !.doc = d, !.day = day]]
    /\ UNCHANGED <<chart, place, edges>>

CurrentCharts(d) ==
    {o \in Charts \ {d} : /\ ChartOf[o] = ChartOf[d]
                          /\ chart[o].status = "released" /\ chart[o].to = None}
FoundChart(d) == IF CurrentCharts(d) = {} THEN {{}} ELSE {{c} : c \in CurrentCharts(d)}

\* The chart to supersede is looked for only now, and locked.
PublishChart(w) ==
    LET d == opcCall[w].doc row == Dated(chart[d], opcCall[w].day) IN
    /\ OpcAt(w, "ready")
    /\ \E cur \in FoundChart(d) :
        LET accepted == /\ cur # {} => opcCall[w].kind = "supersede"
                        /\ \A c \in cur : chart[c].from # None /\ chart[c].from < row.from
                        /\ ValidPeriod(row)
        IN /\ \A c \in cur : ChartFree(c)
           /\ chart' = IF ~accepted THEN chart
                       ELSE [o \in Charts |-> CASE o = d -> [row EXCEPT !.status = "released"]
                                                [] o \in cur -> Superseded(chart[o], row.from)
                                                [] OTHER -> chart[o]]
    /\ OpcFinish(w)
    /\ UNCHANGED <<place, edges>>

\* clone_opc_revision: the copies of the nodes are rows that did not exist.
OpcClone(w, d, n) ==
    /\ OpcServes(w, "clone") /\ ChartExists(d) /\ ChartFree(d)
    /\ ~ChartExists(n) /\ ChartOf[n] = ChartOf[d]
    /\ \E copies \in [NodesOf(d) -> NodesOf(NoDoc)] :
        /\ \A a, b \in NodesOf(d) : copies[a] = copies[b] => a = b
        /\ \A e \in EdgesOf(d) : {e.source, e.target} \subseteq NodesOf(d)
        /\ place' = [m \in Nodes |-> IF \E a \in NodesOf(d) : copies[a] = m THEN n ELSE place[m]]
        /\ edges' = edges \cup {[diagram |-> n, source |-> copies[e.source],
                                 target |-> copies[e.target]] : e \in EdgesOf(d)}
    /\ chart' = [chart EXCEPT ![n] = [Absent EXCEPT !.status = "draft"]]
    /\ UNCHANGED opcCall

-----------------------------------------------------------------------------
(* Generic views of charts, nodes and edges *)

CreateChart(w, d, from, to) ==
    LET row == [status |-> "draft", from |-> from, to |-> to] IN
    /\ OpcServes(w, "create") /\ ~ChartExists(d) /\ ValidPeriod(row)
    /\ chart' = [chart EXCEPT ![d] = row]
    /\ UNCHANGED <<place, edges, opcCall>>

OpcEdit(w, kind, call1) ==
    /\ OpcServes(w, kind)
    /\ opcCall' = [opcCall EXCEPT ![w] = [call1 EXCEPT !.step = "edit", !.kind = kind]]
    /\ UNCHANGED <<chart, place, edges>>

ReadChartPatch(w, d, from, to) ==
    LET row == [chart[d] EXCEPT !.from = from, !.to = to] IN
    /\ ChartExists(d) /\ ValidPeriod(row)
    /\ chart[d].status \in LOCKED_STATUSES => row = chart[d]
    /\ OpcEdit(w, "patch", [IdleOpcCall EXCEPT !.doc = d, !.copy = row])

SaveChartPatch(w) ==
    /\ OpcAt(w, "edit") /\ opcCall[w].kind = "patch" /\ ChartFree(opcCall[w].doc)
    /\ chart' = [chart EXCEPT ![opcCall[w].doc] = opcCall[w].copy]
    /\ OpcFinish(w)
    /\ UNCHANGED <<place, edges>>

\* The view has no check of its own on deletion: any chart goes, whatever its
\* status, with its nodes and their edges.
DestroyChart(w, d) ==
    /\ OpcServes(w, "destroy") /\ ChartExists(d) /\ ChartFree(d)
    /\ chart' = [chart EXCEPT ![d] = Absent]
    /\ place' = [n \in Nodes |-> IF place[n] = d THEN NoDoc ELSE place[n]]
    /\ edges' = {e \in edges : e.diagram # d /\ {e.source, e.target} \cap NodesOf(d) = {}}
    /\ UNCHANGED opcCall

\* A node is added to or removed from a chart that is not locked.
ReadNode(w, n, d) ==
    /\ ChartExists(d) /\ chart[d].status \notin LOCKED_STATUSES
    /\ \/ place[n] = NoDoc /\ OpcEdit(w, "node", [IdleOpcCall EXCEPT !.doc = d, !.node = n])
       \/ place[n] = d /\ OpcEdit(w, "node", [IdleOpcCall EXCEPT !.node = n])

\* An update may move a node to another chart: only the chart it leaves is
\* asked whether it is locked.
ReadMoveNode(w, n, d) ==
    /\ place[n] # NoDoc /\ ChartExists(d) /\ chart[place[n]].status \notin LOCKED_STATUSES
    /\ OpcEdit(w, "move node", [IdleOpcCall EXCEPT !.doc = d, !.node = n])

\* Inserting or moving waits for the chart's row; deleting takes the edges
\* of the node along.
SaveNode(w) ==
    LET n == opcCall[w].node d == opcCall[w].doc IN
    /\ OpcAt(w, "edit") /\ opcCall[w].kind \in {"node", "move node"}
    /\ d # NoDoc => ChartFree(d)
    /\ place' = [place EXCEPT ![n] = IF d = NoDoc \/ ChartExists(d) THEN d ELSE @]
    /\ edges' = IF d = NoDoc THEN {e \in edges : n \notin {e.source, e.target}} ELSE edges
    /\ OpcFinish(w)
    /\ UNCHANGED chart

\* An edge joins two different nodes of an unlocked chart.
ReadEdge(w, d, n, m) ==
    LET e == [diagram |-> d, source |-> n, target |-> m] IN
    /\ ChartExists(d) /\ chart[d].status \notin LOCKED_STATUSES
    /\ \/ n # m /\ {n, m} \subseteq NodesOf(d) /\ e \notin edges
          /\ OpcEdit(w, "edge", [IdleOpcCall EXCEPT !.doc = d, !.adds = {e}])
       \/ e \in edges /\ OpcEdit(w, "edge", [IdleOpcCall EXCEPT !.removes = {e}])

\* Moving an edge asks only the chart it leaves, as with nodes.
ReadMoveEdge(w, e, d, n, m) ==
    /\ chart[e.diagram].status \notin LOCKED_STATUSES
    /\ ChartExists(d) /\ n # m /\ {n, m} \subseteq NodesOf(d)
    /\ OpcEdit(w, "move edge", [IdleOpcCall EXCEPT !.doc = d, !.removes = {e},
                 !.adds = {[diagram |-> d, source |-> n, target |-> m]}])

SaveEdge(w) ==
    LET d == opcCall[w].doc adds == opcCall[w].adds IN
    /\ OpcAt(w, "edit") /\ opcCall[w].kind \in {"edge", "move edge"}
    /\ d # NoDoc => ChartFree(d)
    /\ edges' = (edges \ opcCall[w].removes)
                \cup {e \in adds : ChartExists(d) /\ {place[e.source], place[e.target]} \subseteq Charts}
    /\ OpcFinish(w)
    /\ UNCHANGED <<chart, place>>

-----------------------------------------------------------------------------
OpcStarts(w) ==
    \E d \in Charts :
        \/ \E kind \in MoveKinds : OpcMove(w, kind, d)
        \/ \E kind \in ReleaseKinds, day \in Days \cup {None} : OpcValidate(w, kind, d, day)
        \/ \E o \in Charts : OpcClone(w, d, o)
        \/ \E from, to \in Days \cup {None} : CreateChart(w, d, from, to) \/ ReadChartPatch(w, d, from, to)
        \/ DestroyChart(w, d)
        \/ \E n \in Nodes : ReadNode(w, n, d) \/ ReadMoveNode(w, n, d)
        \/ \E n, m \in Nodes :
            ReadEdge(w, d, n, m) \/ \E e \in edges : ReadMoveEdge(w, e, d, n, m)

OpcContinues(w) == PublishChart(w) \/ SaveChartPatch(w) \/ SaveNode(w) \/ SaveEdge(w)

=============================================================================
