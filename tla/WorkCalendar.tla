-------------------------------- MODULE WorkCalendar --------------------------------
(***************************************************************************)
(* Working calendars.  A moment is a whole number of hours, an hour slot h *)
(* of a day is the time from h to h + 1, and the working intervals of a    *)
(* day are the set of its slots.  Adding hours lands on the end of a       *)
(* working slot and subtracting them on the start of one, so that the      *)
(* moment that ends a day and the one that starts the next differ although *)
(* no work fits between them.                                              *)
(***************************************************************************)
EXTENDS Integers, FiniteSetsExt

CONSTANTS
    Calendars,
    DayHours,       \* hours of a day
    Weekly,         \* slots of each weekday, for each calendar
    Exceptions,     \* for each calendar, whether a date is worked after all
    ExceptionShift  \* the slots of a worked exception (8 to 17 in the code)

Weekdays(c) == DOMAIN Weekly[c]
Slots == 0..(DayHours - 1)

\* Some slot of every week is worked, so that the walks below end; the code
\* gives up after MAX_SEARCH_DAYS = 1825 days.
ASSUME CalendarAssumption ==
    /\ DayHours \in Nat \ {0} /\ ExceptionShift \subseteq Slots
    /\ DOMAIN Weekly = Calendars /\ DOMAIN Exceptions = Calendars
    /\ \A c \in Calendars :
          /\ IsFiniteSet(Weekdays(c)) /\ Weekdays(c) = 0..(Cardinality(Weekdays(c)) - 1)
          /\ \A w \in Weekdays(c) : Weekly[c][w] \subseteq Slots
          /\ \E w \in Weekdays(c) : Weekly[c][w] # {}
          /\ IsFiniteSet(DOMAIN Exceptions[c]) /\ DOMAIN Exceptions[c] \subseteq Int
          /\ \A d \in DOMAIN Exceptions[c] : Exceptions[c][d] \in BOOLEAN

Day(t) == t \div DayHours
Time(t) == t % DayHours
Moment(d, h) == d * DayHours + h

DaySchedule(c, d) ==
    IF d \in DOMAIN Exceptions[c]
    THEN IF Exceptions[c][d] THEN ExceptionShift ELSE {}
    ELSE Weekly[c][d % Cardinality(Weekdays(c))]

\* The slot of S that has n - 1 slots of S before it.
NthSlot(S, n) == CHOOSE x \in S : Cardinality({y \in S : y <= x}) = n

\* A bug of AddWorkingHours for the mutation check: the slot that starts at
\* the moment itself is passed over.
MutAddWorkingHours(c, start, hours) ==
    LET walk[d \in Int, h \in Slots, remaining \in Nat] ==
          LET open == {x \in DaySchedule(c, d) : x > h} IN
          IF remaining <= Cardinality(open)
          THEN Moment(d, NthSlot(open, remaining) + 1)
          ELSE walk[d + 1, 0, remaining - Cardinality(open)]
    IN IF hours <= 0 THEN start ELSE walk[Day(start), Time(start), hours]

\* Day by day, on from an hour of a day or back from it, while hours remain:
\* a walk maps the day, the hour and the hours that remain to where it ends.
Later(c, d, h) == {x \in DaySchedule(c, d) : x >= h}
AddWalk(c) ==
    LET walk[at \in Int \X Slots \X Nat] ==
          LET open == Later(c, at[1], at[2]) IN
          IF at[3] <= Cardinality(open)
          THEN Moment(at[1], NthSlot(open, at[3]) + 1)
          ELSE walk[<<at[1] + 1, 0, at[3] - Cardinality(open)>>]
    IN walk

Sooner(c, d, h) == {x \in DaySchedule(c, d) : x < h}
SubtractWalk(c) ==
    LET walk[at \in Int \X (0..DayHours) \X Nat] ==
          LET open == Sooner(c, at[1], at[2])
              left == Cardinality(open)
          IN IF at[3] <= left
             THEN Moment(at[1], NthSlot(open, left - at[3] + 1))
             ELSE walk[<<at[1] - 1, DayHours, at[3] - left>>]
    IN walk

\* On to the first slot that is worked.
NextWalk(c) ==
    LET walk[at \in Int \X Slots] ==
          LET open == Later(c, at[1], at[2]) IN
          IF open # {} THEN Moment(at[1], Min(open)) ELSE walk[<<at[1] + 1, 0>>]
    IN walk

AddWorkingHours(c, start, hours) ==
    IF hours <= 0 THEN start ELSE AddWalk(c)[<<Day(start), Time(start), hours>>]

SubtractWorkingHours(c, finish, hours) ==
    IF hours <= 0 THEN finish ELSE SubtractWalk(c)[<<Day(finish), Time(finish), hours>>]

NextWorkingMoment(c, t) == NextWalk(c)[<<Day(t), Time(t)>>]

WorkingHoursBetween(c, start, finish) ==
    Cardinality({t \in start..(finish - 1) : Time(t) \in DaySchedule(c, Day(t))})
====================================================================================
