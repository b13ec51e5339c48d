-------------------------------- MODULE CriticalPath --------------------------------
(***************************************************************************)
(* One run of the CPM engine over the network of a revision: Kahn's sort,  *)
(* the forward and the backward pass one task at a time in that order, the *)
(* floats, the save.  Completed tasks keep their actual dates, running     *)
(* tasks continue from the data date, subprojects have fixed dates, and    *)
(* the rest is planned.                                                    *)
(***************************************************************************)
EXTENDS WorkCalendar, Sequences, Functions

CONSTANTS
    Tasks,            \* the tasks and subprojects of the network
    Networks,         \* the revisions to schedule
    DefaultCalendar,
    NoDate            \* a date that is not set

LinkTypes == {"FS", "SS", "FF", "SF"}
Links == [from: Tasks, to: Tasks, type: LinkTypes, lag: Int]

\* A row of the network.  start, finish and progress are the actual ones, or
\* start and finish the fixed dates of a subproject, which always has both.
Rows == [external: BOOLEAN, calendar: Calendars, hours: Nat, progress: 0..100,
         start: Int \cup {NoDate}, finish: Int \cup {NoDate}]

\* A run without tasks ends before it starts.
ASSUME NetworksAssumption ==
    /\ DefaultCalendar \in Calendars /\ IsFiniteSet(Tasks) /\ Tasks # {}
    /\ \A n \in Networks :
          /\ n.start \in Int /\ n.now \in Int
          /\ n.task \in [Tasks -> Rows] /\ n.links \subseteq Links /\ IsFiniteSet(n.links)
          /\ \A t \in Tasks : n.task[t].external => NoDate \notin {n.task[t].start, n.task[t].finish}

VARIABLES
    net,        \* the revision: project start, data date, tasks, dependencies
    step,       \* what the run does next
    order,      \* the tasks sorted so far
    early,      \* early dates of the tasks the forward pass has reached
    late,       \* late dates of the tasks the backward pass has reached
    floats     \* floats and criticality saved for each task

cpmVars == <<net, step, order, early, late, floats>>

Dates == [start: Int, finish: Int]
Floats == [float: Int, free: Int, critical: BOOLEAN]

\* _classify_freeze: what the actuals make of a task.
Kind(t) ==
    LET row == net.task[t] IN
    CASE row.external -> "external"
      [] ~row.external /\ (row.finish # NoDate \/ row.progress = 100) -> "done"
      [] ~row.external /\ row.finish = NoDate /\ row.progress < 100 ->
            IF row.start = NoDate THEN "new" ELSE "running"

Calendar(t) == net.task[t].calendar
Remaining(t) ==
    CASE Kind(t) = "done" -> 0
      [] Kind(t) = "running" -> (net.task[t].hours * (100 - net.task[t].progress)) \div 100
      [] Kind(t) \in {"new", "external"} -> net.task[t].hours

Into(t) == {l \in net.links : l.to = t}
OutOf(t) == {l \in net.links : l.from = t}

\* A negative lag is a lead and goes the other way.
AddHours(t, x, hours) ==
    IF hours >= 0 THEN AddWorkingHours(Calendar(t), x, hours)
    ELSE SubtractWorkingHours(Calendar(t), x, -hours)
SubtractHours(t, x, hours) == 
    IF hours >= 0 THEN SubtractWorkingHours(Calendar(t), x, hours)
    ELSE AddWorkingHours(Calendar(t), x, -hours)

DataDate == NextWorkingMoment(DefaultCalendar, net.now)
Anchor == NextWorkingMoment(DefaultCalendar, Max({net.start, DataDate}))

\* The moment that a link sets for its successor, given early dates: for its
\* start under FS and SS, for its finish under FF and SF.  The lag runs in the
\* successor's calendar.
Due(l, dates) ==
    AddHours(l.to, IF l.type \in {"FS", "FF"} THEN dates[l.from].finish ELSE dates[l.from].start,
             l.lag)

\* A bug for the mutation check: FS falls into the branch of FF and SF.
MutEarlyStartBy(l, dates) ==
    IF l.type = "SS" THEN Due(l, dates)
    ELSE SubtractHours(l.to, Due(l, dates), Remaining(l.to))

\* The earliest start that a link allows its successor.
EarlyStartBy(l, dates) ==
    IF l.type \in {"FS", "SS"} THEN Due(l, dates)
    ELSE SubtractHours(l.to, Due(l, dates), Remaining(l.to))

\* The latest finish that a link allows its predecessor, given late dates.
\* The lag runs in the predecessor's calendar.
LateFinishBy(l, dates) ==
    LET base == IF l.type \in {"FS", "SS"} THEN dates[l.to].start ELSE dates[l.to].finish
        bound == SubtractHours(l.from, base, l.lag)
    IN IF l.type \in {"FS", "FF"} THEN bound ELSE AddHours(l.from, bound, Remaining(l.from))

\* A completed successor of unfinished work is history and binds nothing.
Binding(t) == {l \in OutOf(t) : Kind(l.to) = "done" => Kind(t) = "done"}

EarlyDates(t, dates) ==
    LET row == net.task[t]
        bounds == {EarlyStartBy(l, dates) : l \in Into(t)}
        begin == Max(bounds \cup {IF Kind(t) = "running" THEN DataDate ELSE Anchor})
        since == IF row.start = NoDate THEN Anchor ELSE row.start
    IN CASE Kind(t) \in {"done", "external"} ->
              [start |-> since, finish |-> IF row.finish = NoDate THEN since ELSE row.finish]
         [] Kind(t) = "running" ->
              [start |-> row.start,
               finish |-> Max({AddHours(t, x, Remaining(t)) : x \in {DataDate, begin}})]
         [] Kind(t) = "new" -> [start |-> begin, finish |-> AddHours(t, begin, Remaining(t))]

ProjectFinish == Max({early[t].finish : t \in Tasks})

\* A bug: the laxest successor decides.
MutLateDates(t, dates) ==
    LET bounds == {LateFinishBy(l, dates) : l \in Binding(t)}
        end == IF bounds = {} THEN ProjectFinish ELSE Max(bounds)
    IN IF Kind(t) \in {"done", "external"} THEN early[t]
       ELSE [start |-> SubtractHours(t, end, Remaining(t)), finish |-> end]

LateDates(t, dates) ==
    LET bounds == {LateFinishBy(l, dates) : l \in Binding(t)}
        end == IF bounds = {} THEN ProjectFinish ELSE Min(bounds)
    IN IF Kind(t) \in {"done", "external"} THEN early[t]
       ELSE [start |-> SubtractHours(t, end, Remaining(t)), finish |-> end]

TotalFloat(t) == IF Kind(t) = "done" THEN 0 ELSE late[t].start - early[t].start

\* How far a task may slip before it moves a successor's early dates.
FreeFloat(t) ==
    LET slack(l) == (IF l.type \in {"FS", "SS"} THEN early[l.to].start ELSE early[l.to].finish)
                    - Due(l, early)
    IN CASE Kind(t) = "done" -> 0
         [] Kind(t) # "done" /\ Binding(t) = {} -> TotalFloat(t)
         [] Kind(t) # "done" /\ Binding(t) # {} -> Min({slack(l) : l \in Binding(t)})

Critical(t) == Kind(t) # "done" /\ TotalFloat(t) <= 0

-------------------------------------------------------------------------------------
Nothing == [t \in {} |-> 0]

CpmInit ==
    /\ net \in Networks
    /\ step = "sort" /\ order = <<>>
    /\ early = Nothing /\ late = Nothing /\ floats = Nothing

Sorted == {order[i] : i \in DOMAIN order}

\* The queue of the sort starts in the order of the query, which is arbitrary.
Sort(t) ==
    /\ step = "sort" /\ t \notin Sorted
    /\ \A l \in Into(t) : l.from \in Sorted
    /\ order' = Append(order, t)
    /\ step' = IF Len(order') = Cardinality(Tasks) THEN "forward" ELSE "sort"
    /\ UNCHANGED <<net, early, late, floats>>

\* CPMCycleError: tasks are left but none of them is ready.
FindCycle ==
    /\ step = "sort"
    /\ \A t \in Tasks \ Sorted : \E l \in Into(t) : l.from \notin Sorted
    /\ step' = "cycle"
    /\ UNCHANGED <<net, order, early, late, floats>>

Forward ==
    /\ step = "forward"
    /\ LET t == order[Cardinality(DOMAIN early) + 1] IN
       early' = [u \in DOMAIN early \cup {t} |->
                    IF u = t THEN EarlyDates(t, early) ELSE early[u]]
    /\ step' = IF DOMAIN early' = Tasks THEN "backward" ELSE "forward"
    /\ UNCHANGED <<net, order, late, floats>>

Backward ==
    /\ step = "backward"
    /\ LET t == order[Len(order) - Cardinality(DOMAIN late)] IN
       late' = [u \in DOMAIN late \cup {t} |->
                   IF u = t THEN LateDates(t, late) ELSE late[u]]
    /\ step' = IF DOMAIN late' = Tasks THEN "save" ELSE "backward"
    /\ UNCHANGED <<net, order, early, floats>>

\* _compute_floats and _save_results; subprojects have no rows to save.
Save ==
    /\ step = "save"
    /\ floats' = [t \in {u \in Tasks : Kind(u) # "external"} |->
                      [float |-> TotalFloat(t), free |-> FreeFloat(t), critical |-> Critical(t)]]
    /\ step' = "saved"
    /\ UNCHANGED <<net, order, early, late>>

CpmNext ==
    \/ \E t \in Tasks : Sort(t)
    \/ FindCycle \/ Forward \/ Backward \/ Save

CpmSpec == CpmInit /\ [][CpmNext]_cpmVars

-------------------------------------------------------------------------------------
\* Dates appear task by task, and only the rows of the revision get floats.
CpmTypeOK ==
    /\ net \in Networks
    /\ step \in {"sort", "cycle", "forward", "backward", "save", "saved"}
    /\ \A i \in DOMAIN order : order[i] \in Tasks
    /\ DOMAIN early \subseteq Tasks /\ \A t \in DOMAIN early : early[t] \in Dates
    /\ DOMAIN late \subseteq Tasks /\ \A t \in DOMAIN late : late[t] \in Dates
    /\ DOMAIN floats \subseteq {t \in Tasks : Kind(t) # "external"}
    /\ \A t \in DOMAIN floats : floats[t] \in Floats

\* Tasks each of which is linked to the next, and the last to the first.
Cyclic ==
    \E n \in 1..Cardinality(Tasks) : \E p \in [1..n -> Tasks] : \A i \in 1..n :
        \E l \in OutOf(p[i]) : l.to = p[IF i = n THEN 1 ELSE i + 1]

\* A run fails exactly on the networks in which some tasks form a cycle, and
\* it fails before it has computed any date (_topological_sort).
CycleReported ==
    /\ step = "cycle" => Cyclic /\ early = Nothing
    /\ step \in {"forward", "saved"} => ~Cyclic

\* A network of one calendar in which nothing has started.
Plain == \A t \in Tasks : Kind(t) = "new" /\ Calendar(t) = DefaultCalendar

\* The working hours from the anchor to x, negative before the anchor.
Position(x) ==
    WorkingHoursBetween(DefaultCalendar, Anchor, x) - WorkingHoursBetween(DefaultCalendar, x, Anchor)

\* The critical path method of the textbooks: dates are numbers of working
\* hours, without nights, holidays or clock times.
TextbookEarly ==
    LET from(l, dates) == IF l.type \in {"FS", "FF"} THEN dates[l.from].finish ELSE dates[l.from].start
        to(l) == IF l.type \in {"FS", "SS"} THEN 0 ELSE Remaining(l.to)
        dates[t \in Tasks] ==
            LET begin == Max({0} \cup {from(l, dates) + l.lag - to(l) : l \in Into(t)})
            IN [start |-> begin, finish |-> begin + Remaining(t)]
    IN dates

TextbookLate ==
    LET end == Max({TextbookEarly[t].finish : t \in Tasks})
        to(l, dates) == IF l.type \in {"FS", "SS"} THEN dates[l.to].start ELSE dates[l.to].finish
        from(l) == IF l.type \in {"FS", "FF"} THEN 0 ELSE Remaining(l.from)
        dates[t \in Tasks] ==
            LET bounds == {to(l, dates) - l.lag + from(l) : l \in OutOf(t)}
                finish == IF bounds = {} THEN end ELSE Min(bounds)
            IN [start |-> finish - Remaining(t), finish |-> finish]
    IN dates

Positions(dates) == [start |-> Position(dates.start), finish |-> Position(dates.finish)]

\* On a plain network, walking the calendar task by task loses and gains no
\* working hour: in working hours, the saved early dates are those of the
\* textbook, whatever the order in which the tasks were sorted.
EarlyDatesAreTextbook ==
    step = "saved" /\ Plain => \A t \in Tasks : Positions(early[t]) = TextbookEarly[t]

\* So are the late dates, and no task that the textbook gives float is
\* reported critical.
LateDatesAreTextbook ==
    step = "saved" /\ Plain =>
        \A t \in Tasks : /\ Positions(late[t]) = TextbookLate[t]
                         /\ floats[t].critical => TextbookLate[t].start <= TextbookEarly[t].start

\* A run ends with the dates of the textbook, or with the report of a cycle.
DatesAreTextbook == CpmTypeOK /\ CycleReported /\ EarlyDatesAreTextbook /\ LateDatesAreTextbook

\* Work that remains is never planned in the past: between the data date and
\* the early finish, the task's calendar has the hours that are left, and an
\* unstarted task has exactly those from its early start.
RemainingWorkFits ==
    \A t \in DOMAIN early :
        LET between(x) == WorkingHoursBetween(Calendar(t), x, early[t].finish) IN
        /\ Kind(t) \in {"new", "running"} => between(DataDate) >= Remaining(t)
        /\ Kind(t) = "new" => between(early[t].start) = Remaining(t) /\ early[t].start >= Anchor

\* Early dates honour every dependency of an unstarted task, whatever the
\* calendars and whatever has happened: it starts after FS and SS allow, and
\* no working hour of its own lies between its finish and what FF and SF ask.
DependenciesHonoured ==
    \A l \in net.links :
        Kind(l.to) = "new" /\ {l.from, l.to} \subseteq DOMAIN early =>
            IF l.type \in {"FS", "SS"} THEN early[l.to].start >= Due(l, early)
            ELSE WorkingHoursBetween(Calendar(l.to), early[l.to].finish, Due(l, early)) = 0

\* A plan can be carried out: links hold, and the hours left are there to work.
LinksHonoured == DependenciesHonoured /\ RemainingWorkFits

\* The network scheduled again with task d not started before x.
FinishIfDelayed(d, x) ==
    LET dates[t \in Tasks] ==
          IF t = d THEN [start |-> x, finish |-> AddHours(t, x, Remaining(t))]
          ELSE EarlyDates(t, dates)
    IN Max({dates[t].finish : t \in Tasks})

\* Links from finishes, without leads, and with lags between tasks of a calendar.
LagsShared ==
    \A l \in net.links :
        l.type \in {"FS", "FF"} /\ l.lag >= 0 /\ (l.lag # 0 => Calendar(l.from) = Calendar(l.to))

\* What float promises: an unstarted task that starts as late as its late
\* start delays the project by no working hour, where lags are shared and no
\* subproject ends before it starts.  (Elsewhere it may: a lag runs in the
\* successor's calendar forward and in the predecessor's backward.)
FloatIsSafe ==
    step = "saved" /\ LagsShared
        /\ (\A t \in Tasks : Kind(t) = "external" => early[t].start <= early[t].finish) =>
        \A t \in Tasks :
            Kind(t) = "new" /\ late[t].start > early[t].start =>
                WorkingHoursBetween(Calendar(t), ProjectFinish, FinishIfDelayed(t, late[t].start)) = 0

\* Free float is part of total float: on a plain network with finish links and
\* no lag, a task before others that slips by all its free float keeps its late
\* finish.  (A last task has its total float, in clock hours, as free float.)
FreeFloatWithinTotal ==
    step = "saved" /\ Plain /\ (\A l \in net.links : l.type \in {"FS", "FF"} /\ l.lag = 0) =>
        \A t \in Tasks : OutOf(t) # {} =>
            WorkingHoursBetween(DefaultCalendar, late[t].finish,
                                early[t].finish + floats[t].free) = 0

\* Completed successors do not pull unfinished work back: where no subproject
\* has fixed dates, no lag is asked and all share a calendar, a task's late
\* start leaves it all the working hours that its early start does.  (Float is
\* negative, and rightly so, where a task that has started is still held up and
\* a successor only waits for its start.)
NoArtificialNegativeFloat ==
    step = "saved"
        /\ (\A l \in net.links : l.lag = 0 /\ (Kind(l.from) = "running" => l.type \in {"FS", "FF"}))
        /\ (\A t \in Tasks : Kind(t) # "external" /\ Calendar(t) = DefaultCalendar) =>
            \A t \in Tasks : Kind(t) = "new" =>
                WorkingHoursBetween(Calendar(t), late[t].start, early[t].start) = 0

\* Float tells the truth: it can be used, is not taken twice and not made up.
FloatIsTrue == FloatIsSafe /\ FreeFloatWithinTotal /\ NoArtificialNegativeFloat

====================================================================================
