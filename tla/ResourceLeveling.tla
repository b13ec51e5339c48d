------------------------------ MODULE ResourceLeveling ------------------------------
(***************************************************************************)
(* One run of the leveling engine: CPM in memory (the actions of           *)
(* CriticalPath up to its save), then one task after the other gets the    *)
(* first window in which all its resources have the hours it needs.  The   *)
(* selected revisions are one network, in which those of different         *)
(* projects have no links, and start on the same day.                      *)
(*                                                                         *)
(* The priority rules pick one of the ready tasks; any may be picked here. *)
(* Subprojects are not leveled.  Capacity is counted in hours times        *)
(* per cent of a unit.                                                     *)
(***************************************************************************)
EXTENDS CriticalPath

CONSTANTS
    Resources,
    ResourceCalendar,  \* the calendar of each resource
    MaxUnits,          \* its units, in per cent
    SearchDays         \* starting days to try for a window, 1000 in the code

\* A network says who is assigned to each task, and with how many per cent.
ASSUME LevelingAssumption ==
    /\ SearchDays \in Nat \ {0}
    /\ ResourceCalendar \in [Resources -> Calendars] /\ MaxUnits \in [Resources -> Nat]
    /\ \A n \in Networks, t \in Tasks :
          DOMAIN n.assigned[t] \subseteq Resources /\ \A r \in DOMAIN n.assigned[t] : n.assigned[t][r] \in Nat

VARIABLES
    mode,      \* what the run is for: "cpm", "leveling", or "stored" in the plan
    leveled,   \* leveled dates of the tasks placed so far
    usage,     \* what is used of each resource, by day
    delay      \* the stored delay of each task

levelVars == <<cpmVars, mode, leveled, usage, delay>>

Rowed == {t \in Tasks : Kind(t) # "external"}
Before(t) == {l \in Into(t) : l.from \in Rowed}
Hours(t) == net.task[t].hours
Team(t) == DOMAIN net.assigned[t]

Used(r, d) == IF <<r, d>> \in DOMAIN usage THEN usage[<<r, d>>] ELSE 0
Capacity(r, d) == Cardinality(DaySchedule(ResourceCalendar[r], d)) * MaxUnits[r]

\* _distribute_task_hours: the hours of a task on day d if it starts at s.
HoursOn(t, s, d) ==
    Cardinality({x \in DaySchedule(Calendar(t), d) :
                    Moment(d, x) \in s..(AddHours(t, s, Hours(t)) - 1)})
DaysFrom(t, s) == {d \in Day(s)..Day(AddHours(t, s, Hours(t))) : HoursOn(t, s, d) > 0}

\* What a link asks of the start of its successor, by the leveled dates.
StartBy(l) ==
    IF l.type \in {"FS", "SS"} THEN Due(l, leveled)
    ELSE SubtractHours(l.to, Due(l, leveled), Hours(l.to))

\* _earliest_start_from_predecessors: with a predecessor, the early start no
\* longer counts, nor the project start.
EarliestStart(t) ==
    IF Before(t) = {} THEN Max({net.start, early[t].start})
    ELSE Max({StartBy(l) : l \in Before(t)})

Fits(t, s) ==
    \A d \in DaysFrom(t, s), r \in Team(t) :
        HoursOn(t, s, d) * net.assigned[t][r] <= Capacity(r, d) - Used(r, d)

\* The starts that are tried: the next working moment, then day by day.
Starts(t, n) ==
    LET tried[k \in 0..n] ==
          NextWorkingMoment(Calendar(t),
              IF k = 0 THEN EarliestStart(t) ELSE Moment(Day(tried[k - 1]) + 1, 0))
    IN tried

Windows(t) ==
    UNION {{x \in {tried[k] : k \in DOMAIN tried} : Fits(t, x)} : tried \in {Starts(t, SearchDays - 1)}}

Alone(t) == Team(t) = {} \/ Hours(t) = 0
\* A task without a window goes where its links want it, and uses nothing.
StartOf(t, windows) ==
    IF Alone(t) THEN Starts(t, 0)[0]
    ELSE IF windows = {} THEN EarliestStart(t) ELSE Min(windows)

\* A bug: the last task on a day counts alone.
MutUsageWith(t, s) ==
    [p \in (Team(t) \X DaysFrom(t, s)) \cup DOMAIN usage |->
        IF p \in Team(t) \X DaysFrom(t, s) THEN HoursOn(t, s, p[2]) * net.assigned[t][p[1]] ELSE usage[p]]
UsageWith(t, s) ==
    [p \in (Team(t) \X DaysFrom(t, s)) \cup DOMAIN usage |->
        Used(p[1], p[2]) + IF p[1] \in Team(t) THEN HoursOn(t, s, p[2]) * net.assigned[t][p[1]] ELSE 0]

-------------------------------------------------------------------------------------
LevelInit ==
    /\ CpmInit
    /\ mode = "cpm" /\ leveled = Nothing /\ usage = <<>> /\ delay = Nothing

\* The run keeps the early dates only.
StartLeveling ==
    /\ mode = "cpm" /\ step = "save" /\ Rowed # {}
    /\ mode' = "leveling" /\ order' = <<>> /\ late' = Nothing
    /\ UNCHANGED <<net, step, early, floats, leveled, usage, delay>>

LevelTask(t) ==
    /\ mode = "leveling" /\ t \in Rowed \ DOMAIN leveled
    /\ \A l \in Before(t) : l.from \in DOMAIN leveled
    /\ \E windows \in {IF Alone(t) THEN {} ELSE Windows(t)} : \E s \in {StartOf(t, windows)} :
         /\ leveled' = [u \in DOMAIN leveled \cup {t} |->
                           IF u = t THEN [start |-> s, finish |-> AddHours(t, s, Hours(t))] ELSE leveled[u]]
         /\ usage' = IF windows = {} THEN usage ELSE UsageWith(t, s)
    /\ UNCHANGED <<cpmVars, mode, delay>>

DelayOf(t) == WorkingHoursBetween(Calendar(t), early[t].start, leveled[t].start)

StoreLevels ==
    /\ mode = "leveling" /\ DOMAIN leveled = Rowed
    /\ mode' = "stored"
    /\ delay' = [t \in Rowed |-> DelayOf(t)]
    /\ UNCHANGED <<cpmVars, leveled, usage>>

LevelNext ==
    \/ mode = "cpm" /\ CpmNext /\ UNCHANGED <<mode, leveled, usage, delay>>
    \/ StartLeveling
    \/ \E t \in Tasks : LevelTask(t)
    \/ StoreLevels

LevelSpec == LevelInit /\ [][LevelNext]_levelVars

-------------------------------------------------------------------------------------
\* Leveled dates appear task by task; what is used is some resource's.
LevelTypeOK ==
    /\ mode \in {"cpm", "leveling", "stored"}
    /\ DOMAIN leveled \subseteq Tasks /\ \A t \in DOMAIN leveled : leveled[t] \in Dates
    /\ \A p \in DOMAIN usage : p \in Resources \X Int /\ usage[p] \in Nat
    /\ DOMAIN delay \subseteq Tasks /\ \A t \in DOMAIN delay : delay[t] \in Nat

\* What the leveled dates of some tasks ask of a resource on a day.
Demand(S, r, d) ==
    LET mine == {t \in S : r \in Team(t)} IN
    SumFunctionOnSet([t \in mine |-> HoursOn(t, leveled[t].start, d) * net.assigned[t][r]], mine)
LeveledDays == UNION {DaysFrom(t, leveled[t].start) : t \in DOMAIN leveled}

\* The tasks that, whichever of the starts is tried, need more of somebody on a
\* day than the others leave: the engine does not say so, and leaves them where
\* their links want them.
Hopeless(t) == ~Alone(t) /\ \A k \in 0..(SearchDays - 1) :
    \E s \in {Starts(t, SearchDays - 1)[k]} :
        \E d \in DaysFrom(t, s), r \in Team(t) :
            HoursOn(t, s, d) * net.assigned[t][r] + Demand(Rowed \ {t}, r, d) > Capacity(r, d)

\* Leveling does what it is for: over all tasks together, no resource works
\* more on any day than its calendar and units give, unless there is no place
\* for a task at all; and the usage shown is that of the dates shown.
NobodyOverloaded ==
    mode = "stored" /\ (\A t \in Rowed : ~Hopeless(t)) =>
        \A r \in Resources, d \in LeveledDays :
            Demand(Rowed, r, d) <= Capacity(r, d) /\ Demand(Rowed, r, d) = Used(r, d)

\* Delays pass on: every link between two tasks holds for their leveled dates.
LeveledLinksHonoured ==
    mode = "stored" => \A l \in net.links : {l.from, l.to} \subseteq Rowed =>
        IF l.type \in {"FS", "SS"} THEN leveled[l.to].start >= Due(l, leveled)
        ELSE WorkingHoursBetween(Calendar(l.to), leveled[l.to].finish, Due(l, leveled)) = 0

\* Networks of tasks that have not started, which link starts of successors
\* to their predecessors without leads.
OnlyForward ==
    /\ \A t \in Tasks : Kind(t) = "new"
    /\ \A l \in net.links : l.type \in {"FS", "SS"} /\ l.lag >= 0

\* Leveling only delays: no task of such a network starts before its early start
\* (elsewhere it may, as links count without the data date and subprojects).
NeverEarlier == mode = "stored" /\ OnlyForward => \A t \in Rowed : leveled[t].start >= early[t].start

\* Every resource can do all its tasks at the same time.
Ample ==
    \A r \in Resources :
        LET mine == {t \in Rowed : r \in Team(t)} IN
        /\ SumFunctionOnSet([t \in mine |-> net.assigned[t][r]], mine) <= MaxUnits[r]
        /\ \A t \in mine : Calendar(t) = ResourceCalendar[r]

\* Nobody waits for nothing: where resources are ample and share a calendar, no
\* task is reported as delayed by a single working hour.  (Leveling starts tasks
\* at working moments, CPM at the end of a break as well: with several calendars
\* a lag after the start may take longer.)
NoNeedlessDelay == mode = "stored" /\ OnlyForward /\ Plain /\ Ample => \A t \in Rowed : delay[t] = 0

\* Leveling resolves every overload that can be resolved, breaks no link, starts
\* nothing early and delays nothing without need.
LevelingSound ==
    LevelTypeOK /\ NobodyOverloaded /\ LeveledLinksHonoured /\ NeverEarlier /\ NoNeedlessDelay
====================================================================================
