------------------------------ MODULE SchedulingProofs ------------------------------
(***************************************************************************)
(* Proofs about the schedule and about leveling plans.                     *)
(*                                                                         *)
(* CriticalPath and ResourceLeveling, for all networks and all calendars:  *)
(* walks over working time, then the dates, the floats and the leveled     *)
(* dates that a run ends with.  Worked(c, x), the working hours up to x,   *)
(* grows by n on a walk of n hours: with it, dates are numbers.            *)
(*                                                                         *)
(* LevelingPlan, for all deployments, plans and users: types, one          *)
(* published plan per project, results that fit what their plan shows,     *)
(* published plans that stay, and executors that are counted.  What a      *)
(* property says of the stored rows has to be said of the rows that the    *)
(* threads carry between their read and their write.                       *)
(***************************************************************************)
EXTENDS LevelingPlan, ResourceLeveling, RowSumsProofs

-----------------------------------------------------------------------------
(* Working hours *)

Working(c, x) == Time(x) \in DaySchedule(c, Day(x))

\* The working hours from moment 0 to x, negative before it.
Worked(c, x) == WorkingHoursBetween(c, 0, x) - WorkingHoursBetween(c, x, 0)

LEMMA DayTime ==
    ASSUME NEW x \in Int
    PROVE  Day(x) \in Int /\ Time(x) \in Slots /\ Moment(Day(x), Time(x)) = x
<1>1. DayHours \in Nat \ {0}
  BY CalendarAssumption
<1>2. x \div DayHours \in Int /\ x % DayHours \in 0..(DayHours - 1) /\ x = DayHours * (x \div DayHours) + (x % DayHours)
  BY <1>1
<1>3. (x \div DayHours) * DayHours = DayHours * (x \div DayHours)
  BY <1>1, <1>2
<1> QED
  BY <1>2, <1>3 DEF Day, Time, Moment, Slots

\* The hours that are worked of two stretches one after the other.
LEMMA StretchesAdd ==
    ASSUME NEW c, NEW s \in Int, NEW m \in Int, NEW t \in Int, s <= m, m <= t
    PROVE  /\ WorkingHoursBetween(c, s, t) \in Nat
           /\ WorkingHoursBetween(c, s, t) = WorkingHoursBetween(c, s, m) + WorkingHoursBetween(c, m, t)
<1> DEFINE In(a, b) == {x \in a..(b - 1) : Time(x) \in DaySchedule(c, Day(x))}
<1>1. \A a, b \in Int : IsFiniteSet(In(a, b)) /\ Cardinality(In(a, b)) \in Nat
  <2> TAKE a, b \in Int
  <2>1. IsFiniteSet(a..(b - 1))
    BY FS_Interval
  <2> QED
    BY <2>1, FS_Subset, FS_CardinalityType
<1>2. In(s, t) = In(s, m) \cup In(m, t) /\ In(s, m) \cap In(m, t) = {}
  <2>1. s..(t - 1) = (s..(m - 1)) \cup (m..(t - 1)) /\ (s..(m - 1)) \cap (m..(t - 1)) = {}
    OBVIOUS
  <2> QED
    BY <2>1
<1>3. Cardinality(In(s, m) \cup In(m, t)) = Cardinality(In(s, m)) + Cardinality(In(m, t)) - Cardinality(In(s, m) \cap In(m, t))
  BY <1>1, FS_Union
<1>4. Cardinality({}) = 0
  BY FS_EmptySet
<1>5. \A a, b : WorkingHoursBetween(c, a, b) = Cardinality(In(a, b))
  BY DEF WorkingHoursBetween
<1>6. Cardinality(In(s, t)) \in Nat /\ Cardinality(In(s, m)) \in Nat /\ Cardinality(In(m, t)) \in Nat
  BY <1>1
<1> HIDE DEF In
<1>7. Cardinality(In(s, t)) = Cardinality(In(s, m) \cup In(m, t)) /\ Cardinality(In(s, m) \cap In(m, t)) = 0
  BY <1>2, <1>4
<1>8. Cardinality(In(s, t)) = Cardinality(In(s, m)) + Cardinality(In(m, t))
  BY <1>3, <1>6, <1>7
<1> QED
  BY <1>5, <1>6, <1>8

LEMMA NoStretch ==
    ASSUME NEW c, NEW s \in Int, NEW t \in Int, t <= s PROVE WorkingHoursBetween(c, s, t) = 0
<1>1. {x \in s..(t - 1) : Time(x) \in DaySchedule(c, Day(x))} = {}
  OBVIOUS
<1> QED
  BY <1>1, FS_EmptySet DEF WorkingHoursBetween

LEMMA OneHour ==
    ASSUME NEW c, NEW x \in Int PROVE WorkingHoursBetween(c, x, x + 1) = IF Working(c, x) THEN 1 ELSE 0
<1>1. {y \in x..((x + 1) - 1) : Time(y) \in DaySchedule(c, Day(y))} = IF Working(c, x) THEN {x} ELSE {}
  <2>1. x..((x + 1) - 1) = {x}
    OBVIOUS
  <2> QED
    BY <2>1 DEF Working
<1> QED
  BY <1>1, FS_EmptySet, FS_Singleton DEF WorkingHoursBetween

LEMMA WorkedBetween ==
    ASSUME NEW c, NEW s \in Int, NEW t \in Int
    PROVE  /\ Worked(c, s) \in Int
           /\ WorkingHoursBetween(c, s, t) \in Nat
           /\ s <= t => WorkingHoursBetween(c, s, t) = Worked(c, t) - Worked(c, s)
           /\ t <= s => WorkingHoursBetween(c, s, t) = 0
<1>1. \A a, b \in Int : /\ a <= b => WorkingHoursBetween(c, a, b) \in Nat
                        /\ b <= a => WorkingHoursBetween(c, a, b) = 0
  BY StretchesAdd, NoStretch
<1>2. \A a, b \in Int : WorkingHoursBetween(c, a, b) \in Nat
  BY <1>1
<1>3. ASSUME s <= t PROVE WorkingHoursBetween(c, s, t) = Worked(c, t) - Worked(c, s)
  <2>0. /\ WorkingHoursBetween(c, 0, s) \in Nat /\ WorkingHoursBetween(c, s, 0) \in Nat
        /\ WorkingHoursBetween(c, 0, t) \in Nat /\ WorkingHoursBetween(c, t, 0) \in Nat
        /\ WorkingHoursBetween(c, s, t) \in Nat
    BY <1>2
  <2>1. CASE 0 <= s
    <3>1. WorkingHoursBetween(c, 0, t) = WorkingHoursBetween(c, 0, s) + WorkingHoursBetween(c, s, t)
      BY <1>3, <2>1, StretchesAdd
    <3>2. WorkingHoursBetween(c, s, 0) = 0 /\ WorkingHoursBetween(c, t, 0) = 0
      BY <1>1, <1>3, <2>1
    <3> QED
      BY <2>0, <3>1, <3>2 DEF Worked
  <2>2. CASE t <= 0
    <3>1. WorkingHoursBetween(c, s, 0) = WorkingHoursBetween(c, s, t) + WorkingHoursBetween(c, t, 0)
      BY <1>3, <2>2, StretchesAdd
    <3>2. WorkingHoursBetween(c, 0, s) = 0 /\ WorkingHoursBetween(c, 0, t) = 0
      BY <1>1, <1>3, <2>2
    <3> QED
      BY <2>0, <3>1, <3>2 DEF Worked
  <2>3. CASE s <= 0 /\ 0 <= t
    <3>1. WorkingHoursBetween(c, s, t) = WorkingHoursBetween(c, s, 0) + WorkingHoursBetween(c, 0, t)
      BY <2>3, StretchesAdd
    <3>2. WorkingHoursBetween(c, 0, s) = 0 /\ WorkingHoursBetween(c, t, 0) = 0
      BY <1>1, <2>3
    <3> QED
      BY <2>0, <3>1, <3>2 DEF Worked
  <2> QED
    BY <2>1, <2>2, <2>3
<1> QED
  BY <1>1, <1>2, <1>3 DEF Worked

LEMMA WorkedSteps ==
    ASSUME NEW c, NEW x \in Int
    PROVE  Worked(c, x + 1) = Worked(c, x) + (IF Working(c, x) THEN 1 ELSE 0)
<1>1. x + 1 \in Int /\ x <= x + 1
  OBVIOUS
<1>2. WorkingHoursBetween(c, x, x + 1) = Worked(c, x + 1) - Worked(c, x) /\ Worked(c, x + 1) \in Int /\ Worked(c, x) \in Int
  BY <1>1, WorkedBetween
<1> QED
  BY <1>2, OneHour

LEMMA WorkedGrows ==
    ASSUME NEW c, NEW s \in Int, NEW t \in Int, s <= t PROVE Worked(c, s) <= Worked(c, t)
BY WorkedBetween

\* A moment at the end of a working hour comes after all with fewer hours.
LEMMA WorkedEnd ==
    ASSUME NEW c, NEW m \in Int, Working(c, m - 1), NEW t \in Int, Worked(c, m) <= Worked(c, t) PROVE m <= t
<1> SUFFICES ASSUME t < m PROVE FALSE
  OBVIOUS
<1>1. m - 1 \in Int /\ t <= m - 1 /\ (m - 1) + 1 = m
  OBVIOUS
<1>2. Worked(c, t) <= Worked(c, m - 1)
  BY <1>1, WorkedGrows
<1>3. Worked(c, m) = Worked(c, m - 1) + 1
  BY <1>1, WorkedSteps
<1>4. Worked(c, m) \in Int /\ Worked(c, m - 1) \in Int /\ Worked(c, t) \in Int
  BY <1>1, WorkedBetween
<1> QED
  BY <1>2, <1>3, <1>4

\* A moment at the start of a working hour comes before all with more hours.
LEMMA WorkedStart ==
    ASSUME NEW c, NEW m \in Int, Working(c, m), NEW t \in Int, Worked(c, t) <= Worked(c, m) PROVE t <= m
<1> SUFFICES ASSUME m < t PROVE FALSE
  OBVIOUS
<1>1. m + 1 \in Int /\ m + 1 <= t
  OBVIOUS
<1>2. Worked(c, m + 1) <= Worked(c, t)
  BY <1>1, WorkedGrows
<1>3. Worked(c, m + 1) = Worked(c, m) + 1
  BY WorkedSteps
<1>4. Worked(c, m) \in Int /\ Worked(c, m + 1) \in Int /\ Worked(c, t) \in Int
  BY <1>1, WorkedBetween
<1> QED
  BY <1>2, <1>3, <1>4

\* Between two moments every number of hours is reached, at the end of an hour.
LEMMA WorkedReaches ==
    ASSUME NEW c, NEW s \in Int, NEW t \in Int, NEW v \in Int, Worked(c, s) < v, v <= Worked(c, t)
    PROVE  \E m \in Int : s < m /\ m <= t /\ Working(c, m - 1) /\ Worked(c, m) = v /\ Worked(c, m - 1) = v - 1
<1> DEFINE T == {n \in Nat : v <= Worked(c, s + n)}
<1>0. \A x \in Int : Worked(c, x) \in Int
  BY WorkedBetween
<1>1. s <= t
  BY <1>0, WorkedGrows
<1>2. t - s \in T
  <2>1. t - s \in Nat /\ s + (t - s) = t
    BY <1>1
  <2> QED
    BY <2>1
<1>3. PICK n \in T : \A k \in T : n <= k
  BY <1>2, LeastOf
<1>4. s + 0 = s /\ n # 0
  BY <1>0, <1>3
<1>5. n - 1 \in Nat /\ n - 1 \notin T
  BY <1>3, <1>4
<1>6. PICK m : m = s + n
  OBVIOUS
<1>7. m \in Int /\ s < m /\ m - 1 = s + (n - 1) /\ (m - 1) + 1 = m
  BY <1>3, <1>5, <1>6
<1>8. v <= Worked(c, m) /\ ~(v <= Worked(c, m - 1)) /\ m - 1 \in Int
  BY <1>3, <1>5, <1>6, <1>7
<1>9. Worked(c, m) = Worked(c, m - 1) + (IF Working(c, m - 1) THEN 1 ELSE 0)
  BY <1>7, <1>8, WorkedSteps
<1>10. Working(c, m - 1) /\ Worked(c, m) = v /\ Worked(c, m - 1) = v - 1
  BY <1>0, <1>7, <1>8, <1>9
<1>11. m <= t
  BY <1>2, <1>3, <1>6
<1> QED
  BY <1>7, <1>10, <1>11

-----------------------------------------------------------------------------
(* Days and slots *)

LEMMA Products ==
    ASSUME NEW n \in Nat, NEW p \in Int, NEW q \in Int, p <= q PROVE p * n \in Int /\ q * n \in Int /\ p * n <= q * n
<1>1. PICK r \in Nat : q = p + r
  <2>1. q - p \in Nat /\ q = p + (q - p)
    OBVIOUS
  <2> QED
    BY <2>1
<1>2. (p + r) * n = p * n + r * n /\ p * n \in Int /\ r * n \in Nat
  OBVIOUS
<1> QED
  BY <1>1, <1>2

LEMMA Division ==
    ASSUME NEW n \in Nat \ {0}, NEW x \in Int
    PROVE  x \div n \in Int /\ x % n \in 0..(n - 1) /\ x = n * (x \div n) + (x % n)
OBVIOUS

LEMMA Remainder ==
    ASSUME NEW n \in Nat \ {0}, NEW q \in Int, NEW r \in 0..(n - 1), NEW x \in Int, x = q * n + r
    PROVE  x \div n = q /\ x % n = r
<1>1. PICK p \in Int, k \in Int : p = x \div n /\ k = x % n /\ x = n * p + k /\ 0 <= k /\ k < n
  <2>1. x \div n \in Int /\ x % n \in 0..(n - 1) /\ x = n * (x \div n) + (x % n)
    OBVIOUS
  <2> QED
    BY <2>1
<1>2. /\ n * p = p * n /\ p * n \in Int /\ q * n \in Int
      /\ (p + 1) * n = p * n + n /\ (q + 1) * n = q * n + n
  BY <1>1
<1>3. p = q
  <2>1. CASE p < q
    <3>1. (p + 1) * n <= q * n
      BY <1>1, <2>1, Products
    <3> QED
      BY <1>1, <1>2, <3>1
  <2>2. CASE q < p
    <3>1. (q + 1) * n <= p * n
      BY <1>1, <2>2, Products
    <3> QED
      BY <1>1, <1>2, <3>1
  <2> QED
    BY <1>1, <2>1, <2>2
<1>4. k = r
  BY <1>1, <1>2, <1>3
<1> QED
  BY <1>1, <1>3, <1>4

\* A moment is given by its day and its slot; a day ends where the next starts.
LEMMA SlotsOfDays ==
    ASSUME NEW d \in Int
    PROVE  /\ \A h \in Int : Moment(d, h) \in Int /\ Moment(d, h) = Moment(d, 0) + h
           /\ Moment(d, DayHours) = Moment(d + 1, 0) /\ Moment(d - 1, DayHours) = Moment(d, 0)
           /\ \A h \in Slots : Day(Moment(d, h)) = d /\ Time(Moment(d, h)) = h
<1>1. DayHours \in Nat \ {0}
  BY CalendarAssumption
<1>2. d * DayHours \in Int /\ (d + 1) * DayHours = d * DayHours + DayHours /\ (d - 1) * DayHours = d * DayHours - DayHours
  BY <1>1
<1>3. ASSUME NEW h \in Slots PROVE Day(Moment(d, h)) = d /\ Time(Moment(d, h)) = h
  <2>1. h \in 0..(DayHours - 1) /\ d * DayHours + h \in Int
    BY <1>1, <1>2 DEF Slots
  <2>2. (d * DayHours + h) \div DayHours = d /\ (d * DayHours + h) % DayHours = h
    BY <1>1, <2>1, Remainder
  <2> QED
    BY <2>2 DEF Moment, Day, Time
<1> QED
  BY <1>1, <1>2, <1>3 DEF Moment

LEMMA Moments == \A d, h \in Int : Moment(d, h) \in Int /\ Moment(d, h) = Moment(d, 0) + h
BY SlotsOfDays

LEMMA SlotNumbers ==
    /\ DayHours \in Nat \ {0} /\ 0 \in Slots /\ Slots \subseteq Nat
    /\ \A h \in Slots : h \in Int /\ 0 <= h /\ h < DayHours
BY CalendarAssumption DEF Slots

SlotsFrom(c, d, h, k) == {y \in DaySchedule(c, d) : h <= y /\ y < k}

LEMMA ScheduleSlots ==
    ASSUME NEW c \in Calendars, NEW d \in Int
    PROVE  /\ DaySchedule(c, d) \subseteq Slots /\ IsFiniteSet(DaySchedule(c, d)) 
           /\ \A S \in SUBSET DaySchedule(c, d) : IsFiniteSet(S) /\ Cardinality(S) \in Nat
<1>1. DayHours \in Nat \ {0} /\ ExceptionShift \subseteq Slots /\ Weekdays(c) = 0..(Cardinality(Weekdays(c)) - 1)
      /\ (\A w \in Weekdays(c) : Weekly[c][w] \subseteq Slots) /\ IsFiniteSet(Weekdays(c)) /\ \E w \in Weekdays(c) : Weekly[c][w] # {}
  BY CalendarAssumption
<1>2. Cardinality(Weekdays(c)) \in Nat \ {0}
  BY <1>1, FS_CardinalityType, FS_EmptySet
<1>3. d % Cardinality(Weekdays(c)) \in Weekdays(c)
  <2>1. \A n \in Nat \ {0} : d % n \in 0..(n - 1)
    OBVIOUS
  <2> QED
    BY <1>1, <1>2, <2>1
<1>4. DaySchedule(c, d) \subseteq Slots
  BY <1>1, <1>3 DEF DaySchedule
<1>5. IsFiniteSet(Slots)
  <2>1. PICK n \in Int : n = DayHours - 1
    BY <1>1
  <2>2. IsFiniteSet(0..n)
    BY FS_Interval
  <2> QED
    BY <2>1, <2>2 DEF Slots
<1>6. IsFiniteSet(DaySchedule(c, d))
  BY <1>4, <1>5, FS_Subset
<1> QED
  BY <1>4, <1>6, FS_Subset, FS_CardinalityType

\* The hours worked between two hours of a day are its slots between them.
LEMMA SlotsAreHours ==
    ASSUME NEW c \in Calendars, NEW d \in Int, NEW h \in Nat, NEW k \in Nat, h <= k, k <= DayHours
    PROVE  Worked(c, Moment(d, k)) = Worked(c, Moment(d, h)) + Cardinality(SlotsFrom(c, d, h, k))
<1> DEFINE T == {n \in Nat : h + n <= DayHours =>
                    Worked(c, Moment(d, h + n)) = Worked(c, Moment(d, h)) + Cardinality(SlotsFrom(c, d, h, h + n))}
<1>0. DayHours \in Nat \ {0} /\ \A x \in Int : Worked(c, x) \in Int
  BY CalendarAssumption, WorkedBetween
<1>1. 0 \in T
  <2>1. SlotsFrom(c, d, h, h + 0) = {}
    <3>1. \A y \in Slots : ~(h <= y /\ y < h + 0)
      BY <1>0 DEF Slots
    <3> QED
      BY <3>1, ScheduleSlots DEF SlotsFrom
  <2>2. Moment(d, h) \in Int /\ h + 0 = h
    BY SlotsOfDays
  <2> QED
    BY <1>0, <2>1, <2>2, FS_EmptySet
<1>2. ASSUME NEW n \in T PROVE n + 1 \in T
  <2>1. SUFFICES ASSUME h + (n + 1) <= DayHours
                 PROVE  Worked(c, Moment(d, h + (n + 1))) = Worked(c, Moment(d, h)) + Cardinality(SlotsFrom(c, d, h, h + (n + 1)))
    OBVIOUS
  <2>2. PICK x \in Slots : x = h + n
    BY <1>0, <2>1 DEF Slots
  <2>3. Worked(c, Moment(d, x)) = Worked(c, Moment(d, h)) + Cardinality(SlotsFrom(c, d, h, x))
    BY <1>0, <2>1, <2>2
  <2>4. Moment(d, h + (n + 1)) = Moment(d, x) + 1 /\ Moment(d, x) \in Int /\ Moment(d, h) \in Int /\ Day(Moment(d, x)) = d /\ Time(Moment(d, x)) = x
    <3>1. x \in Int /\ h + (n + 1) = x + 1
      BY <1>0, <2>2 DEF Slots
    <3>2. Moment(d, x) = Moment(d, 0) + x /\ Moment(d, x + 1) = Moment(d, 0) + (x + 1) /\ Moment(d, 0) \in Int /\ Moment(d, h) \in Int
      <4>1. \A y \in Int : Moment(d, y) \in Int /\ Moment(d, y) = Moment(d, 0) + y
        BY SlotsOfDays
      <4>2. x + 1 \in Int /\ h \in Int /\ 0 \in Int
        BY <3>1
      <4> QED
        BY <3>1, <4>1, <4>2
    <3>3. Day(Moment(d, x)) = d /\ Time(Moment(d, x)) = x
      BY SlotsOfDays
    <3> QED
      BY <3>1, <3>2, <3>3
  <2>5. Worked(c, Moment(d, h + (n + 1))) = Worked(c, Moment(d, x)) + (IF x \in DaySchedule(c, d) THEN 1 ELSE 0)
    BY <2>4, WorkedSteps DEF Working
  <2>6. IsFiniteSet(SlotsFrom(c, d, h, x)) /\ Cardinality(SlotsFrom(c, d, h, x)) \in Nat
    BY ScheduleSlots DEF SlotsFrom
  <2>7. SlotsFrom(c, d, h, h + (n + 1)) = IF x \in DaySchedule(c, d) THEN SlotsFrom(c, d, h, x) \cup {x} ELSE SlotsFrom(c, d, h, x)
    <3>1. \A y \in Slots : (h <= y /\ y < h + (n + 1)) <=> ((h <= y /\ y < x) \/ y = x)
      BY <1>0, <2>2 DEF Slots
    <3> QED
      BY <3>1, ScheduleSlots DEF SlotsFrom
  <2>8. x \notin SlotsFrom(c, d, h, x)
    BY <1>0, <2>2 DEF SlotsFrom, Slots
  <2>9. Cardinality(SlotsFrom(c, d, h, h + (n + 1))) = Cardinality(SlotsFrom(c, d, h, x)) + (IF x \in DaySchedule(c, d) THEN 1 ELSE 0)
    <3>1. Cardinality(SlotsFrom(c, d, h, x) \cup {x}) = Cardinality(SlotsFrom(c, d, h, x)) + 1
      BY <2>6, <2>8, FS_AddElement
    <3> QED
      BY <2>6, <2>7, <3>1
  <2> QED
    BY <1>0, <2>3, <2>4, <2>5, <2>6, <2>9
<1>3. T = Nat
  <2>1. T \in SUBSET Nat
    OBVIOUS
  <2> HIDE DEF T
  <2> QED
    BY <1>1, <1>2, <2>1, NumbersFrom0
<1>4. k - h \in Nat /\ h + (k - h) = k
  OBVIOUS
<1> QED
  BY <1>3, <1>4

\* The slot of a stretch with n - 1 of its slots before it ends the nth hour.
LEMMA NthSlotEnds ==
    ASSUME NEW c \in Calendars, NEW d \in Int, NEW h \in Nat, NEW k \in Nat, h <= k, k <= DayHours,
           NEW n \in 1..Cardinality(SlotsFrom(c, d, h, k))
    PROVE  \E x \in Slots : /\ NthSlot(SlotsFrom(c, d, h, k), n) = x /\ h <= x /\ x < k
                            /\ Working(c, Moment(d, x))
                            /\ Worked(c, Moment(d, x)) = Worked(c, Moment(d, h)) + n - 1
                            /\ Worked(c, Moment(d, x + 1)) = Worked(c, Moment(d, h)) + n
<1> DEFINE S == SlotsFrom(c, d, h, k)
<1>0. DayHours \in Nat \ {0} /\ \A x \in Int : Worked(c, x) \in Int
  BY CalendarAssumption, WorkedBetween
<1>1. S \subseteq DaySchedule(c, d) /\ S \subseteq Slots /\ IsFiniteSet(S) /\ Cardinality(S) \in Nat
  BY ScheduleSlots DEF SlotsFrom
<1>2. \A y \in Int : Moment(d, y) \in Int /\ Moment(d, y) = Moment(d, 0) + y
  BY SlotsOfDays
<1>3. \A y \in Slots : Day(Moment(d, y)) = d /\ Time(Moment(d, y)) = y
  BY SlotsOfDays
<1>4. Worked(c, Moment(d, k)) = Worked(c, Moment(d, h)) + Cardinality(S)
  BY SlotsAreHours
<1>5. ASSUME NEW x \in S
      PROVE  /\ {y \in S : y <= x} = SlotsFrom(c, d, h, x + 1) /\ x \in Slots /\ h <= x /\ x < k
             /\ Working(c, Moment(d, x))
             /\ Worked(c, Moment(d, x + 1)) = Worked(c, Moment(d, h)) + Cardinality({y \in S : y <= x})
             /\ Worked(c, Moment(d, x)) = Worked(c, Moment(d, x + 1)) - 1
  <2>1. x \in Slots /\ h <= x /\ x < k /\ x \in DaySchedule(c, d)
    BY <1>1 DEF SlotsFrom
  <2>2. x \in Nat /\ x + 1 \in Nat /\ h <= x + 1 /\ x + 1 <= DayHours
    BY <1>0, <2>1 DEF Slots
  <2>3. {y \in S : y <= x} = SlotsFrom(c, d, h, x + 1)
    <3>1. \A y \in Slots : (h <= y /\ y < k /\ y <= x) <=> (h <= y /\ y < x + 1)
      BY <1>0, <2>1, <2>2 DEF Slots
    <3> QED
      BY <3>1, ScheduleSlots DEF SlotsFrom
  <2>4. Working(c, Moment(d, x))
    BY <1>3, <2>1 DEF Working
  <2>5. Worked(c, Moment(d, x + 1)) = Worked(c, Moment(d, h)) + Cardinality(SlotsFrom(c, d, h, x + 1))
    BY <2>2, SlotsAreHours
  <2>6. Moment(d, x + 1) = Moment(d, x) + 1 /\ Moment(d, x) \in Int
    <3>1. x \in Int /\ x + 1 \in Int /\ 0 \in Int
      BY <2>2
    <3> QED
      BY <1>2, <3>1
  <2>7. Worked(c, Moment(d, x) + 1) = Worked(c, Moment(d, x)) + 1
    BY <2>4, <2>6, WorkedSteps
  <2> QED
    BY <1>0, <2>1, <2>3, <2>4, <2>5, <2>6, <2>7
<1>6. \E x \in S : Cardinality({y \in S : y <= x}) = n
  <2>1. PICK a \in Int, b \in Int, v \in Int : a = Moment(d, h) /\ b = Moment(d, k) /\ v = Worked(c, a) + n
    BY <1>0, <1>1, <1>2
  <2>2. Worked(c, a) < v /\ v <= Worked(c, b) /\ a = Moment(d, 0) + h /\ b = Moment(d, 0) + k /\ Moment(d, 0) \in Int
    BY <1>0, <1>1, <1>2, <1>4, <2>1
  <2>3. PICK m \in Int : a < m /\ m <= b /\ Working(c, m - 1) /\ Worked(c, m) = v
    BY <2>2, WorkedReaches
  <2>4. PICK x \in Int : m - 1 = Moment(d, x) /\ h <= x /\ x < k /\ m = Moment(d, x + 1)
    <3>1. (m - 1) - Moment(d, 0) \in Int /\ h <= (m - 1) - Moment(d, 0) /\ (m - 1) - Moment(d, 0) < k
      BY <2>2, <2>3
    <3>2. Moment(d, (m - 1) - Moment(d, 0)) = m - 1 /\ Moment(d, ((m - 1) - Moment(d, 0)) + 1) = m
      BY <1>2, <2>2, <3>1
    <3> QED
      BY <3>1, <3>2
  <2>5. x \in Slots
    BY <1>0, <2>4 DEF Slots
  <2>6. x \in S
    BY <1>3, <2>3, <2>4, <2>5 DEF Working, SlotsFrom
  <2>7. Cardinality({y \in S : y <= x}) \in Nat
    <3>1. {y \in S : y <= x} \subseteq DaySchedule(c, d)
      BY <1>1
    <3> QED
      BY <3>1, ScheduleSlots
  <2>8. Worked(c, m) = Worked(c, Moment(d, h)) + Cardinality({y \in S : y <= x}) /\ Worked(c, Moment(d, h)) \in Int
    BY <1>0, <1>2, <1>5, <2>4, <2>6
  <2>9. Cardinality({y \in S : y <= x}) = n
    BY <2>1, <2>3, <2>7, <2>8
  <2> QED
    BY <2>6, <2>9
<1>7. PICK x : x = NthSlot(S, n) /\ x \in S /\ Cardinality({y \in S : y <= x}) = n
  BY <1>6 DEF NthSlot
<1>8. /\ x \in Slots /\ h <= x /\ x < k /\ Working(c, Moment(d, x))
      /\ Worked(c, Moment(d, x + 1)) = Worked(c, Moment(d, h)) + n
      /\ Worked(c, Moment(d, x)) = Worked(c, Moment(d, x + 1)) - 1
  BY <1>5, <1>7
<1>9. n \in Int /\ Worked(c, Moment(d, h)) \in Int
  BY <1>0, <1>1, <1>2
<1> QED
  BY <1>7, <1>8, <1>9

-----------------------------------------------------------------------------
(* The walks *)

\* Moments that are found by the hours worked until then, at the end of a
\* working hour or at the start of one.
EndMoment(c, v) == CHOOSE m \in Int : Working(c, m - 1) /\ Worked(c, m) = v
StartMoment(c, v) == CHOOSE m \in Int : Working(c, m) /\ Worked(c, m) = v

LEMMA EndsThere ==
    ASSUME NEW c, NEW m \in Int, Working(c, m - 1) PROVE EndMoment(c, Worked(c, m)) = m
<1>1. \A k \in Int : Worked(c, k) \in Int
  BY WorkedBetween
<1>2. ASSUME NEW k \in Int, Working(c, k - 1), Worked(c, k) = Worked(c, m) PROVE k = m
  <2>1. m <= k /\ k <= m
    BY <1>1, <1>2, WorkedEnd
  <2> QED
    BY <2>1
<1> QED
  BY <1>2 DEF EndMoment

LEMMA StartsThere ==
    ASSUME NEW c, NEW m \in Int, Working(c, m) PROVE StartMoment(c, Worked(c, m)) = m
<1>1. \A k \in Int : Worked(c, k) \in Int
  BY WorkedBetween
<1>2. ASSUME NEW k \in Int, Working(c, k), Worked(c, k) = Worked(c, m) PROVE k = m
  <2>1. m <= k /\ k <= m
    BY <1>1, <1>2, WorkedStart
  <2> QED
    BY <2>1
<1> QED
  BY <1>2 DEF StartMoment

AddStep(c, walk, d, h, n) ==
    LET open == Later(c, d, h) IN
    IF n <= Cardinality(open) THEN Moment(d, NthSlot(open, n) + 1) ELSE walk[<<d + 1, 0, n - Cardinality(open)>>]

AddSolves(c, walk) == walk = [at \in Int \X Slots \X Nat |-> AddStep(c, walk, at[1], at[2], at[3])]

LEMMA AddWalkSolves ==
    ASSUME NEW c, NEW f, AddSolves(c, f) PROVE AddSolves(c, AddWalk(c))
BY DEF AddSolves, AddStep, AddWalk

LEMMA AddWalkStep ==
    ASSUME NEW c, NEW f, AddSolves(c, f), NEW d \in Int, NEW h \in Slots, NEW n \in Nat
    PROVE  f[<<d, h, n>>] = AddStep(c, f, d, h, n)
BY DEF AddSolves

LEMMA SlotsLaterSooner ==
    ASSUME NEW c \in Calendars, NEW d \in Int
    PROVE  /\ \A h \in Slots : Later(c, d, h) = SlotsFrom(c, d, h, DayHours)
           /\ \A h \in 0..DayHours : Sooner(c, d, h) = SlotsFrom(c, d, 0, h)
<1>1. \A y \in Slots : 0 <= y /\ y < DayHours
  BY CalendarAssumption DEF Slots
<1>2. \A y \in Slots, h \in Slots : y >= h <=> (h <= y /\ y < DayHours)
  BY <1>1, CalendarAssumption DEF Slots
<1> QED
  BY <1>1, <1>2, ScheduleSlots DEF Later, Sooner, SlotsFrom

\* One day of an addition: the hours end within it, or the day uses up its slots.
LEMMA AddDay ==
    ASSUME NEW c \in Calendars, NEW d \in Int, NEW h \in Slots, NEW n \in Nat \ {0}
    PROVE  /\ Cardinality(Later(c, d, h)) \in Nat
           /\ Worked(c, Moment(d, h)) \in Int
           /\ Worked(c, Moment(d + 1, 0)) = Worked(c, Moment(d, h)) + Cardinality(Later(c, d, h))
           /\ n <= Cardinality(Later(c, d, h)) =>
                 \E m \in Int : /\ m = Moment(d, NthSlot(Later(c, d, h), n) + 1)
                                /\ Working(c, m - 1) /\ Worked(c, m) = Worked(c, Moment(d, h)) + n
<1>0. /\ DayHours \in Nat \ {0} /\ h \in Nat /\ h <= DayHours /\ DayHours \in Nat /\ DayHours <= DayHours
      /\ \A x \in Int : Worked(c, x) \in Int
  <2>1. DayHours \in Nat \ {0} /\ \A x \in Int : Worked(c, x) \in Int
    BY CalendarAssumption, WorkedBetween
  <2> QED
    BY <2>1 DEF Slots
<1>1. Later(c, d, h) = SlotsFrom(c, d, h, DayHours)
  BY SlotsLaterSooner
<1>2. Cardinality(SlotsFrom(c, d, h, DayHours)) \in Nat
  BY ScheduleSlots DEF SlotsFrom
<1>3. \A y \in Int : Moment(d, y) \in Int /\ Moment(d, y) = Moment(d, 0) + y
  BY SlotsOfDays
<1>4. Worked(c, Moment(d, h)) \in Int
  BY <1>0, <1>3
<1>5. Worked(c, Moment(d, DayHours)) = Worked(c, Moment(d, h)) + Cardinality(SlotsFrom(c, d, h, DayHours))
  BY <1>0, SlotsAreHours
<1>6. Moment(d, DayHours) = Moment(d + 1, 0)
  BY SlotsOfDays
<1>7. ASSUME n <= Cardinality(SlotsFrom(c, d, h, DayHours))
      PROVE  \E m \in Int : /\ m = Moment(d, NthSlot(SlotsFrom(c, d, h, DayHours), n) + 1)
                            /\ Working(c, m - 1) /\ Worked(c, m) = Worked(c, Moment(d, h)) + n
  <2>1. n \in 1..Cardinality(SlotsFrom(c, d, h, DayHours))
    BY <1>2, <1>7
  <2>2. PICK x \in Slots : /\ NthSlot(SlotsFrom(c, d, h, DayHours), n) = x /\ Working(c, Moment(d, x))
                           /\ Worked(c, Moment(d, x + 1)) = Worked(c, Moment(d, h)) + n
    BY <1>0, <2>1, NthSlotEnds
  <2>3. x \in Int /\ x + 1 \in Int /\ 0 \in Int
    BY <1>0, <2>2 DEF Slots
  <2>4. Moment(d, x + 1) \in Int /\ Moment(d, x + 1) - 1 = Moment(d, x)
    BY <1>3, <2>3
  <2> QED
    BY <2>2, <2>4
<1> QED
  BY <1>1, <1>2, <1>4, <1>5, <1>6, <1>7

\* So the walk that ends where its hours are worked is one, and AddWalk is it.
LEMMA AddWalkTaken ==
    ASSUME NEW c \in Calendars PROVE AddSolves(c, AddWalk(c))
<1> DEFINE Where(d, h, n) == IF n = 0 THEN Moment(d, NthSlot(Later(c, d, h), n) + 1)
                             ELSE EndMoment(c, Worked(c, Moment(d, h)) + n)
           f == [at \in Int \X Slots \X Nat |-> Where(at[1], at[2], at[3])]
<1>0. DayHours \in Nat \ {0} /\ 0 \in Slots
  BY CalendarAssumption DEF Slots
<1>1. \A d \in Int, h \in Slots, n \in Nat : f[<<d, h, n>>] = Where(d, h, n)
  OBVIOUS
<1>2. ASSUME NEW d \in Int, NEW h \in Slots, NEW n \in Nat PROVE Where(d, h, n) = AddStep(c, f, d, h, n)
  <2>0. Cardinality(Later(c, d, h)) \in Nat
    BY <1>0, AddDay
  <2>1. CASE n = 0
    BY <2>0, <2>1 DEF AddStep
  <2>2. CASE n # 0 /\ n <= Cardinality(Later(c, d, h))
    <3>1. PICK m \in Int : /\ m = Moment(d, NthSlot(Later(c, d, h), n) + 1)
                           /\ Working(c, m - 1) /\ Worked(c, m) = Worked(c, Moment(d, h)) + n
      BY <2>2, AddDay
    <3>2. EndMoment(c, Worked(c, Moment(d, h)) + n) = m
      BY <3>1, EndsThere
    <3> QED
      BY <2>2, <3>1, <3>2 DEF AddStep
  <2>3. CASE n # 0 /\ ~(n <= Cardinality(Later(c, d, h)))
    <3>1. PICK k \in Nat \ {0} : k = n - Cardinality(Later(c, d, h))
      BY <2>0, <2>3
    <3>2. Worked(c, Moment(d + 1, 0)) + k = Worked(c, Moment(d, h)) + n
      <4>1. Worked(c, Moment(d, h)) \in Int /\ Worked(c, Moment(d + 1, 0)) = Worked(c, Moment(d, h)) + Cardinality(Later(c, d, h))
        BY <2>3, AddDay
      <4> QED
        BY <2>0, <3>1, <4>1
    <3>3. f[<<d + 1, 0, k>>] = Where(d + 1, 0, k)
      <4>1. d + 1 \in Int /\ k \in Nat
        BY <3>1
      <4> QED
        BY <1>0, <1>1, <4>1
    <3>4. Where(d + 1, 0, k) = EndMoment(c, Worked(c, Moment(d, h)) + n)
      BY <3>1, <3>2
    <3> QED
      BY <2>3, <3>1, <3>3, <3>4 DEF AddStep
  <2> QED
    BY <2>1, <2>2, <2>3
<1>3. f = [at \in Int \X Slots \X Nat |-> AddStep(c, f, at[1], at[2], at[3])]
  <2>1. \A at \in Int \X Slots \X Nat : Where(at[1], at[2], at[3]) = AddStep(c, f, at[1], at[2], at[3])
    <3>1. \A at \in Int \X Slots \X Nat : at[1] \in Int /\ at[2] \in Slots /\ at[3] \in Nat
      OBVIOUS
    <3> HIDE DEF f, Where
    <3> QED
      BY <1>2, <3>1
  <2> QED
    BY <2>1
<1>4. AddSolves(c, f)
  BY <1>3 DEF AddSolves
<1> QED
  BY <1>4, AddWalkSolves

-----------------------------------------------------------------------------
(* Largest and least *)

LEMMA MaxOf ==
    ASSUME NEW S \in SUBSET Int, IsFiniteSet(S), S # {} PROVE Max(S) \in S /\ \A x \in S : x <= Max(S)
<1> DEFINE F == {U \in SUBSET S : U # {} => \E x \in U : \A y \in U : y <= x}
<1>1. {} \in F
  OBVIOUS
<1>2. ASSUME NEW U \in SUBSET S, NEW z \in S, U \in F PROVE U \cup {z} \in F
  <2>1. CASE U = {}
    BY <2>1
  <2>2. CASE U # {}
    <3>1. PICK x \in U : \A y \in U : y <= x
      BY <1>2, <2>2
    <3>2. x \in Int /\ z \in Int /\ \A y \in U : y \in Int
      BY <3>1
    <3>3. CASE z <= x
      <4>1. \A y \in U \cup {z} : y <= x
        BY <3>1, <3>3
      <4> QED
        BY <3>1, <4>1
    <3>4. CASE x <= z
      <4>1. \A y \in U \cup {z} : y <= z
        BY <3>1, <3>2, <3>4
      <4> QED
        BY <4>1
    <3> QED
      BY <3>2, <3>3, <3>4
  <2> QED
    BY <2>1, <2>2
<1>3. S \in F
  <2> HIDE DEF F
  <2> QED
    BY <1>1, <1>2, FiniteFamily
<1>4. \E x \in S : \A y \in S : x >= y
  BY <1>3
<1> QED
  BY <1>4 DEF Max

LEMMA MinOf ==
    ASSUME NEW S \in SUBSET Int, IsFiniteSet(S), S # {} PROVE Min(S) \in S /\ \A x \in S : Min(S) <= x
<1> DEFINE F == {U \in SUBSET S : U # {} => \E x \in U : \A y \in U : x <= y}
<1>1. {} \in F
  OBVIOUS
<1>2. ASSUME NEW U \in SUBSET S, NEW z \in S, U \in F PROVE U \cup {z} \in F
  <2>1. CASE U = {}
    BY <2>1
  <2>2. CASE U # {}
    <3>1. PICK x \in U : \A y \in U : x <= y
      BY <1>2, <2>2
    <3>2. x \in Int /\ z \in Int /\ \A y \in U : y \in Int
      BY <3>1
    <3>3. CASE x <= z
      <4>1. \A y \in U \cup {z} : x <= y
        BY <3>1, <3>3
      <4> QED
        BY <3>1, <4>1
    <3>4. CASE z <= x
      <4>1. \A y \in U \cup {z} : z <= y
        BY <3>1, <3>2, <3>4
      <4> QED
        BY <4>1
    <3> QED
      BY <3>2, <3>3, <3>4
  <2> QED
    BY <2>1, <2>2
<1>3. S \in F
  <2> HIDE DEF F
  <2> QED
    BY <1>1, <1>2, FiniteFamily
<1>4. \E x \in S : \A y \in S : x <= y
  BY <1>3
<1> QED
  BY <1>4 DEF Min

-----------------------------------------------------------------------------
(* There are always more hours *)

LEMMA DaysGrow ==
    ASSUME NEW d \in Int, NEW e \in Int, d <= e
    PROVE  Moment(d, 0) \in Int /\ Moment(e, 0) \in Int /\ Moment(d, 0) <= Moment(e, 0)
<1>1. DayHours \in Nat
  BY CalendarAssumption
<1>2. d * DayHours \in Int /\ e * DayHours \in Int /\ d * DayHours <= e * DayHours
  BY <1>1, Products
<1> QED
  BY <1>2 DEF Moment

\* A week of no exceptions has an hour.
LEMMA WeekWorked ==
    ASSUME NEW c \in Calendars, NEW d \in Int, NEW e \in Int, e = d + Cardinality(Weekdays(c)),
           \A x \in DOMAIN Exceptions[c] : x < d \/ e <= x
    PROVE  d < e /\ Worked(c, Moment(d, 0)) + 1 <= Worked(c, Moment(e, 0))
<1>1. PICK n \in Nat \ {0} : n = Cardinality(Weekdays(c)) /\ Weekdays(c) = 0..(n - 1)
  <2>1. IsFiniteSet(Weekdays(c)) /\ Weekdays(c) = 0..(Cardinality(Weekdays(c)) - 1) /\ Weekdays(c) # {}
    BY CalendarAssumption
  <2> QED
    BY <2>1, FS_CardinalityType, FS_EmptySet
<1>2. PICK w \in 0..(n - 1) : Weekly[c][w] # {}
  BY <1>1, CalendarAssumption
<1>3. PICK q \in Int, r \in Int : w - d = n * q + r /\ 0 <= r /\ r < n
  <2>1. PICK x \in Int : x = w - d
    OBVIOUS
  <2>2. x \div n \in Int /\ x % n \in 0..(n - 1) /\ x = n * (x \div n) + (x % n)
    BY Division
  <2>3. PICK q \in Int, r \in 0..(n - 1) : q = x \div n /\ r = x % n
    BY <2>2
  <2>4. w - d = n * q + r /\ r \in Int /\ 0 <= r /\ r < n
    BY <2>1, <2>2, <2>3
  <2> QED
    BY <2>4
<1>4. PICK f \in Int : f = d + r /\ d <= f /\ f + 1 <= e /\ f + 1 \in Int
  <2>1. d + r \in Int /\ d <= d + r /\ (d + r) + 1 <= e
    BY <1>1, <1>3
  <2> QED
    BY <2>1
<1>5. f % n = w
  <2>1. (-q) * n = -(n * q) /\ n * q \in Int
    BY <1>3
  <2>2. f = (-q) * n + w
    BY <1>3, <1>4, <2>1
  <2> QED
    BY <2>2, Remainder
<1>6. DaySchedule(c, f) # {}
  <2>1. f \notin DOMAIN Exceptions[c]
    <3>1. \A x \in DOMAIN Exceptions[c] : x \in Int
      BY CalendarAssumption
    <3> QED
      BY <1>4, <3>1
  <2> QED
    BY <1>1, <1>2, <1>5, <2>1 DEF DaySchedule
<1>7. Worked(c, Moment(f, 0)) + 1 <= Worked(c, Moment(f + 1, 0))
  <2>0. DayHours \in Nat \ {0} /\ 0 \in Slots
    BY CalendarAssumption DEF Slots
  <2>1. /\ Worked(c, Moment(f + 1, 0)) = Worked(c, Moment(f, 0)) + Cardinality(Later(c, f, 0))
        /\ Worked(c, Moment(f, 0)) \in Int /\ Cardinality(Later(c, f, 0)) \in Nat
    <3>1. 1 \in Nat \ {0}
      OBVIOUS
    <3> QED
      BY <2>0, <3>1, AddDay
  <2>2. Later(c, f, 0) = DaySchedule(c, f)
    <3>1. \A x \in Slots : x >= 0
      BY <2>0 DEF Slots
    <3> QED
      BY <3>1, ScheduleSlots DEF Later
  <2>3. Cardinality(Later(c, f, 0)) # 0
    BY <1>6, <2>2, ScheduleSlots, FS_EmptySet
  <2> QED
    BY <2>1, <2>3
<1>8. Worked(c, Moment(d, 0)) <= Worked(c, Moment(f, 0)) /\ Worked(c, Moment(f + 1, 0)) <= Worked(c, Moment(e, 0))
  BY <1>4, DaysGrow, WorkedGrows
<1>9. \A x \in {d, f, f + 1, e} : Worked(c, Moment(x, 0)) \in Int
  <2>1. \A x \in {d, f, f + 1, e} : Moment(x, 0) \in Int
    BY <1>4, DaysGrow
  <2> QED
    BY <2>1, WorkedBetween
<1> QED
  BY <1>4, <1>7, <1>8, <1>9

LEMMA HoursAhead ==
    ASSUME NEW c \in Calendars, NEW d \in Int, NEW v \in Int
    PROVE  \E e \in Int : d <= e /\ v <= Worked(c, Moment(e, 0))
<1>0. \A x \in Int : Worked(c, Moment(x, 0)) \in Int
  BY DaysGrow, WorkedBetween
<1>1. PICK b \in Int : d <= b /\ \A x \in DOMAIN Exceptions[c] : x < b
  <2> DEFINE S == DOMAIN Exceptions[c] \cup {d}
  <2>1. S \in SUBSET Int /\ IsFiniteSet(S) /\ S # {}
    <3>1. IsFiniteSet(DOMAIN Exceptions[c]) /\ DOMAIN Exceptions[c] \subseteq Int
      BY CalendarAssumption
    <3> QED
      BY <3>1, FS_AddElement
  <2>2. Max(S) \in S /\ \A x \in S : x <= Max(S)
    <3> HIDE DEF S
    <3> QED
      BY <2>1, MaxOf
  <2>3. Max(S) + 1 \in Int /\ \A x \in S : x < Max(S) + 1
    BY <2>1, <2>2
  <2>4. d <= Max(S) + 1 /\ \A x \in DOMAIN Exceptions[c] : x < Max(S) + 1
    BY <2>3
  <2> QED
    BY <2>3, <2>4
<1>2. PICK n \in Nat : n = Cardinality(Weekdays(c))
  BY CalendarAssumption, FS_CardinalityType
<1> DEFINE T == {k \in Nat : \E e \in Int : b <= e /\ Worked(c, Moment(b, 0)) + k <= Worked(c, Moment(e, 0))}
<1>3. 0 \in T
  BY <1>0
<1>4. ASSUME NEW k \in T PROVE k + 1 \in T
  <2>1. PICK e \in Int : b <= e /\ Worked(c, Moment(b, 0)) + k <= Worked(c, Moment(e, 0))
    OBVIOUS
  <2>2. e + n \in Int /\ \A x \in DOMAIN Exceptions[c] : x < e \/ e + n <= x
    <3>1. \A x \in DOMAIN Exceptions[c] : x \in Int /\ x < b
      BY <1>1, CalendarAssumption
    <3> QED
      BY <2>1, <3>1
  <2>3. e < e + n /\ Worked(c, Moment(e, 0)) + 1 <= Worked(c, Moment(e + n, 0))
    BY <1>2, <2>2, WeekWorked
  <2>4. Worked(c, Moment(b, 0)) \in Int /\ Worked(c, Moment(e, 0)) \in Int /\ Worked(c, Moment(e + n, 0)) \in Int
    BY <1>0, <2>2
  <2>5. b <= e + n /\ Worked(c, Moment(b, 0)) + (k + 1) <= Worked(c, Moment(e + n, 0))
    BY <2>1, <2>3, <2>4
  <2> QED
    BY <2>2, <2>5
<1>5. T = Nat
  <2>1. T \in SUBSET Nat
    OBVIOUS
  <2> HIDE DEF T
  <2> QED
    BY <1>3, <1>4, <2>1, NumbersFrom0
<1>6. PICK a \in Int : a = Worked(c, Moment(b, 0))
  BY <1>0
<1>7. PICK k \in Nat : v <= a + k
  <2>1. CASE v <= a
    <3>1. v <= a + 0
      BY <2>1
    <3> QED
      BY <3>1
  <2>2. CASE a <= v
    <3>1. v - a \in Nat /\ v <= a + (v - a)
      BY <2>2
    <3> QED
      BY <3>1
  <2> QED
    BY <2>1, <2>2
<1>8. PICK e \in Int : b <= e /\ a + k <= Worked(c, Moment(e, 0))
  BY <1>5, <1>6
<1>9. d <= e /\ v <= Worked(c, Moment(e, 0))
  BY <1>0, <1>1, <1>6, <1>7, <1>8
<1> QED
  BY <1>9

LEMMA HoursBehind ==
    ASSUME NEW c \in Calendars, NEW d \in Int, NEW v \in Int
    PROVE  \E e \in Int : e <= d /\ Worked(c, Moment(e, 0)) <= v
<1>0. \A x \in Int : Worked(c, Moment(x, 0)) \in Int
  BY DaysGrow, WorkedBetween
<1>1. PICK b \in Int : b <= d /\ \A x \in DOMAIN Exceptions[c] : b <= x
  <2> DEFINE S == DOMAIN Exceptions[c] \cup {d}
  <2>1. S \in SUBSET Int /\ IsFiniteSet(S) /\ S # {}
    <3>1. IsFiniteSet(DOMAIN Exceptions[c]) /\ DOMAIN Exceptions[c] \subseteq Int
      BY CalendarAssumption
    <3> QED
      BY <3>1, FS_AddElement
  <2>2. Min(S) \in S /\ \A x \in S : Min(S) <= x
    <3> HIDE DEF S
    <3> QED
      BY <2>1, MinOf
  <2> QED
    BY <2>1, <2>2
<1>2. PICK n \in Nat : n = Cardinality(Weekdays(c))
  BY CalendarAssumption, FS_CardinalityType
<1> DEFINE T == {k \in Nat : \E e \in Int : e <= b /\ Worked(c, Moment(e, 0)) + k <= Worked(c, Moment(b, 0))}
<1>3. 0 \in T
  BY <1>0
<1>4. ASSUME NEW k \in T PROVE k + 1 \in T
  <2>1. PICK e \in Int : e <= b /\ Worked(c, Moment(e, 0)) + k <= Worked(c, Moment(b, 0))
    OBVIOUS
  <2>2. e - n \in Int /\ e = (e - n) + n /\ \A x \in DOMAIN Exceptions[c] : x < e - n \/ e <= x
    <3>1. \A x \in DOMAIN Exceptions[c] : x \in Int /\ b <= x
      BY <1>1, CalendarAssumption
    <3> QED
      BY <2>1, <3>1
  <2>3. e - n < e /\ Worked(c, Moment(e - n, 0)) + 1 <= Worked(c, Moment(e, 0))
    BY <1>2, <2>2, WeekWorked
  <2>4. Worked(c, Moment(b, 0)) \in Int /\ Worked(c, Moment(e, 0)) \in Int /\ Worked(c, Moment(e - n, 0)) \in Int
    BY <1>0, <2>2
  <2>5. e - n <= b /\ Worked(c, Moment(e - n, 0)) + (k + 1) <= Worked(c, Moment(b, 0))
    BY <2>1, <2>3, <2>4
  <2> QED
    BY <2>2, <2>5
<1>5. T = Nat
  <2>1. T \in SUBSET Nat
    OBVIOUS
  <2> HIDE DEF T
  <2> QED
    BY <1>3, <1>4, <2>1, NumbersFrom0
<1>6. PICK a \in Int : a = Worked(c, Moment(b, 0))
  BY <1>0
<1>7. PICK k \in Nat : a <= v + k
  <2>1. CASE a <= v
    <3>1. a <= v + 0
      BY <2>1
    <3> QED
      BY <3>1
  <2>2. CASE v <= a
    <3>1. a - v \in Nat /\ a <= v + (a - v)
      BY <2>2
    <3> QED
      BY <3>1
  <2> QED
    BY <2>1, <2>2
<1>8. PICK e \in Int : e <= b /\ Worked(c, Moment(e, 0)) + k <= a
  BY <1>5, <1>6
<1>9. e <= d /\ Worked(c, Moment(e, 0)) <= v
  BY <1>0, <1>1, <1>6, <1>7, <1>8
<1> QED
  BY <1>9

-----------------------------------------------------------------------------
(* Where the walks end *)

LEMMA AddWalkEnds ==
    ASSUME NEW c \in Calendars, NEW d \in Int, NEW h \in Slots, NEW n \in Nat \ {0}
    PROVE  \E m \in Int : /\ AddWalk(c)[<<d, h, n>>] = m /\ Working(c, m - 1)
                          /\ Worked(c, m) = Worked(c, Moment(d, h)) + n
<1> DEFINE EndsWell(e, k, r, v) ==
             \E m \in Int : AddWalk(c)[<<e, k, r>>] = m /\ Working(c, m - 1) /\ Worked(c, m) = v
           T == {i \in Nat : \A e \in Int, k \in Slots, r \in Nat \ {0} :
                    Worked(c, Moment(e, k)) + r <= Worked(c, Moment(e + i, 0)) => EndsWell(e, k, r, Worked(c, Moment(e, k)) + r)}
<1>0. /\ 0 \in Slots /\ Slots \subseteq Nat
      /\ \A e, k \in Int : Moment(e, k) \in Int /\ Moment(e, k) = Moment(e, 0) + k
      /\ \A x \in Int : Worked(c, x) \in Int
  <2>1. \A e, k \in Int : Moment(e, k) \in Int /\ Moment(e, k) = Moment(e, 0) + k
    BY Moments
  <2>2. \A x \in Int : Worked(c, x) \in Int
    BY WorkedBetween
  <2> QED
    BY <2>1, <2>2, SlotNumbers
<1>1. 0 \in T
  <2>1. ASSUME NEW e \in Int, NEW k \in Slots, NEW r \in Nat \ {0}, Worked(c, Moment(e, k)) + r <= Worked(c, Moment(e + 0, 0))
        PROVE  FALSE
    <3>1. PICK a \in Int, b \in Int : a = Moment(e, 0) /\ b = Moment(e, k) /\ a <= b
      <4>1. k \in Int /\ 0 <= k /\ Moment(e, 0) \in Int
        BY <1>0
      <4> QED
        BY <1>0, <4>1
    <3>2. Worked(c, a) <= Worked(c, b) /\ Worked(c, a) \in Int /\ Worked(c, b) \in Int
      BY <1>0, <3>1, WorkedGrows
    <3>3. e + 0 = e
      OBVIOUS
    <3> QED
      BY <2>1, <3>1, <3>2, <3>3
  <2> QED
    BY <2>1
<1>2. ASSUME NEW i \in T PROVE i + 1 \in T
  <2>1. ASSUME NEW e \in Int, NEW k \in Slots, NEW r \in Nat \ {0},
               Worked(c, Moment(e, k)) + r <= Worked(c, Moment(e + (i + 1), 0))
        PROVE  EndsWell(e, k, r, Worked(c, Moment(e, k)) + r)
    <3>1. AddWalk(c)[<<e, k, r>>] = AddStep(c, AddWalk(c), e, k, r)
      <4>1. r \in Nat
        OBVIOUS
      <4> QED
        BY <4>1, AddWalkTaken, AddWalkStep
    <3>2. PICK open \in Nat : open = Cardinality(Later(c, e, k))
      BY AddDay
    <3>3. CASE r <= open
      <4>1. PICK m \in Int : /\ m = Moment(e, NthSlot(Later(c, e, k), r) + 1)
                             /\ Working(c, m - 1) /\ Worked(c, m) = Worked(c, Moment(e, k)) + r
        BY <3>2, <3>3, AddDay
      <4>2. AddWalk(c)[<<e, k, r>>] = m
        BY <3>1, <3>2, <3>3, <4>1 DEF AddStep
      <4> QED
        BY <4>1, <4>2
    <3>4. CASE ~(r <= open)
      <4>1. PICK q \in Nat \ {0} : q = r - open
        BY <3>4
      <4>2. AddWalk(c)[<<e, k, r>>] = AddWalk(c)[<<e + 1, 0, q>>]
        BY <3>1, <3>2, <3>4, <4>1 DEF AddStep
      <4>3. Worked(c, Moment(e + 1, 0)) + q = Worked(c, Moment(e, k)) + r
        <5>1. Worked(c, Moment(e + 1, 0)) = Worked(c, Moment(e, k)) + open /\ Worked(c, Moment(e, k)) \in Int
          BY <3>2, AddDay
        <5> QED
          BY <4>1, <5>1
      <4>4. e + 1 \in Int /\ (e + 1) + i = e + (i + 1)
        OBVIOUS
      <4>5. EndsWell(e + 1, 0, q, Worked(c, Moment(e + 1, 0)) + q)
        BY <1>0, <2>1, <4>3, <4>4
      <4> QED
        BY <4>2, <4>3, <4>5
    <3> QED
      BY <3>3, <3>4
  <2> HIDE DEF EndsWell
  <2> QED
    BY <2>1
<1>3. T = Nat
  <2>1. T \in SUBSET Nat
    OBVIOUS
  <2> HIDE DEF T
  <2> QED
    BY <1>1, <1>2, <2>1, NumbersFrom0
<1>4. PICK e \in Int : d <= e /\ Worked(c, Moment(d, h)) + n <= Worked(c, Moment(e, 0))
  <2>1. h \in Int
    BY <1>0
  <2>2. Moment(d, h) \in Int
    BY <1>0, <2>1
  <2>3. Worked(c, Moment(d, h)) + n \in Int
    BY <1>0, <2>2
  <2> QED
    BY <2>3, HoursAhead
<1>5. PICK i \in Nat : d + i = e
  <2>1. e - d \in Nat /\ d + (e - d) = e
    BY <1>4
  <2> QED
    BY <2>1
<1>6. EndsWell(d, h, n, Worked(c, Moment(d, h)) + n)
  BY <1>3, <1>4, <1>5
<1> QED
  BY <1>6

\* Adding hours lands at the end of the hour with which they are worked.
LEMMA AddLands ==
    ASSUME NEW c \in Calendars, NEW s \in Int, NEW n \in Nat \ {0}
    PROVE  /\ AddWorkingHours(c, s, n) \in Int /\ s < AddWorkingHours(c, s, n)
           /\ Working(c, AddWorkingHours(c, s, n) - 1)
           /\ Worked(c, AddWorkingHours(c, s, n)) = Worked(c, s) + n
<1>1. Day(s) \in Int /\ Time(s) \in Slots /\ Moment(Day(s), Time(s)) = s
  BY DayTime
<1>2. PICK m \in Int : AddWalk(c)[<<Day(s), Time(s), n>>] = m /\ Working(c, m - 1) /\ Worked(c, m) = Worked(c, s) + n
  BY <1>1, AddWalkEnds
<1>3. AddWorkingHours(c, s, n) = m
  BY <1>2 DEF AddWorkingHours
<1>4. s < m
  <2> SUFFICES ASSUME m <= s PROVE FALSE
    BY <1>2
  <2>1. Worked(c, m) <= Worked(c, s) /\ Worked(c, s) \in Int /\ Worked(c, m) \in Int
    BY WorkedGrows, WorkedBetween
  <2> QED
    BY <1>2, <2>1
<1> QED
  BY <1>2, <1>3, <1>4

SubtractStep(c, walk, d, h, n) ==
    LET open == Sooner(c, d, h)
        left == Cardinality(open)
    IN IF n <= left THEN Moment(d, NthSlot(open, left - n + 1)) ELSE walk[<<d - 1, DayHours, n - left>>]

SubtractSolves(c, walk) == walk = [at \in Int \X (0..DayHours) \X Nat |-> SubtractStep(c, walk, at[1], at[2], at[3])]

LEMMA SubtractWalkSolves ==
    ASSUME NEW c, NEW f, SubtractSolves(c, f) PROVE SubtractSolves(c, SubtractWalk(c))
BY DEF SubtractSolves, SubtractStep, SubtractWalk

LEMMA SubtractWalkStep ==
    ASSUME NEW c, NEW f, SubtractSolves(c, f), NEW d \in Int, NEW h \in 0..DayHours, NEW n \in Nat
    PROVE  f[<<d, h, n>>] = SubtractStep(c, f, d, h, n)
BY DEF SubtractSolves

\* One day of a subtraction.
LEMMA SubtractDay ==
    ASSUME NEW c \in Calendars, NEW d \in Int, NEW h \in 0..DayHours, NEW n \in Nat \ {0}
    PROVE  /\ Cardinality(Sooner(c, d, h)) \in Nat
           /\ Worked(c, Moment(d, h)) \in Int /\ Worked(c, Moment(d - 1, DayHours)) \in Int
           /\ Worked(c, Moment(d, h)) = Worked(c, Moment(d - 1, DayHours)) + Cardinality(Sooner(c, d, h))
           /\ n <= Cardinality(Sooner(c, d, h)) =>
                 \E m \in Int : /\ m = Moment(d, NthSlot(Sooner(c, d, h), Cardinality(Sooner(c, d, h)) - n + 1))
                                /\ Working(c, m) /\ Worked(c, m) = Worked(c, Moment(d, h)) - n
<1>0. DayHours \in Nat \ {0} /\ h \in Nat /\ h \in Int /\ 0 <= h /\ h <= DayHours /\ 0 \in Nat
  BY CalendarAssumption
<1>1. Sooner(c, d, h) = SlotsFrom(c, d, 0, h)
  BY SlotsLaterSooner
<1>2. PICK left \in Nat : left = Cardinality(SlotsFrom(c, d, 0, h))
  BY ScheduleSlots DEF SlotsFrom
<1>3. \A y \in Int : Moment(d, y) \in Int
  BY Moments
<1>4. Worked(c, Moment(d, h)) \in Int /\ Worked(c, Moment(d, 0)) \in Int
  BY <1>0, <1>3, WorkedBetween
<1>5. Worked(c, Moment(d, h)) = Worked(c, Moment(d, 0)) + left
  BY <1>0, <1>2, SlotsAreHours
<1>6. Moment(d - 1, DayHours) = Moment(d, 0)
  BY SlotsOfDays
<1>7. ASSUME n <= left
      PROVE  \E m \in Int : /\ m = Moment(d, NthSlot(SlotsFrom(c, d, 0, h), left - n + 1))
                            /\ Working(c, m) /\ Worked(c, m) = Worked(c, Moment(d, h)) - n
  <2>1. PICK k \in 1..left : k = left - n + 1
    BY <1>7
  <2>2. PICK x \in Slots : /\ NthSlot(SlotsFrom(c, d, 0, h), k) = x /\ Working(c, Moment(d, x))
                           /\ Worked(c, Moment(d, x)) = Worked(c, Moment(d, 0)) + k - 1
    BY <1>0, <1>2, <2>1, NthSlotEnds
  <2>3. Moment(d, x) \in Int
    BY <1>3, SlotNumbers
  <2>4. Worked(c, Moment(d, x)) = Worked(c, Moment(d, h)) - n
    BY <1>4, <1>5, <2>1, <2>2
  <2> QED
    BY <2>1, <2>2, <2>3, <2>4
<1> QED
  BY <1>1, <1>2, <1>4, <1>5, <1>6, <1>7

LEMMA SubtractWalkTaken ==
    ASSUME NEW c \in Calendars PROVE SubtractSolves(c, SubtractWalk(c))
<1> DEFINE Where(d, h, n) == IF n = 0 THEN Moment(d, NthSlot(Sooner(c, d, h), Cardinality(Sooner(c, d, h)) - n + 1))
                             ELSE StartMoment(c, Worked(c, Moment(d, h)) - n)
           f == [at \in Int \X (0..DayHours) \X Nat |-> Where(at[1], at[2], at[3])]
<1>0. DayHours \in 0..DayHours
  BY CalendarAssumption
<1>1. \A d \in Int, h \in 0..DayHours, n \in Nat : f[<<d, h, n>>] = Where(d, h, n)
  OBVIOUS
<1>2. ASSUME NEW d \in Int, NEW h \in 0..DayHours, NEW n \in Nat PROVE Where(d, h, n) = SubtractStep(c, f, d, h, n)
  <2>0. Cardinality(Sooner(c, d, h)) \in Nat
    <3>1. 1 \in Nat \ {0}
      OBVIOUS
    <3> QED
      BY <3>1, SubtractDay
  <2>1. CASE n = 0
    BY <2>0, <2>1 DEF SubtractStep
  <2>2. CASE n # 0 /\ n <= Cardinality(Sooner(c, d, h))
    <3>1. PICK m \in Int : /\ m = Moment(d, NthSlot(Sooner(c, d, h), Cardinality(Sooner(c, d, h)) - n + 1))
                           /\ Working(c, m) /\ Worked(c, m) = Worked(c, Moment(d, h)) - n
      BY <2>2, SubtractDay
    <3>2. StartMoment(c, Worked(c, Moment(d, h)) - n) = m
      BY <3>1, StartsThere
    <3> QED
      BY <2>2, <3>1, <3>2 DEF SubtractStep
  <2>3. CASE n # 0 /\ ~(n <= Cardinality(Sooner(c, d, h)))
    <3>1. PICK k \in Nat \ {0} : k = n - Cardinality(Sooner(c, d, h))
      BY <2>0, <2>3
    <3>2. Worked(c, Moment(d - 1, DayHours)) - k = Worked(c, Moment(d, h)) - n
      <4>1. /\ Worked(c, Moment(d, h)) = Worked(c, Moment(d - 1, DayHours)) + Cardinality(Sooner(c, d, h))
            /\ Worked(c, Moment(d - 1, DayHours)) \in Int
        BY <2>3, SubtractDay
      <4> QED
        BY <2>0, <3>1, <4>1
    <3>3. f[<<d - 1, DayHours, k>>] = Where(d - 1, DayHours, k)
      <4>1. d - 1 \in Int /\ k \in Nat
        BY <3>1
      <4> QED
        BY <1>0, <1>1, <4>1
    <3>4. Where(d - 1, DayHours, k) = StartMoment(c, Worked(c, Moment(d, h)) - n)
      BY <3>1, <3>2
    <3> QED
      BY <2>3, <3>1, <3>3, <3>4 DEF SubtractStep
  <2> QED
    BY <2>1, <2>2, <2>3
<1>3. f = [at \in Int \X (0..DayHours) \X Nat |-> SubtractStep(c, f, at[1], at[2], at[3])]
  <2>1. \A at \in Int \X (0..DayHours) \X Nat : Where(at[1], at[2], at[3]) = SubtractStep(c, f, at[1], at[2], at[3])
    <3>1. \A at \in Int \X (0..DayHours) \X Nat : at[1] \in Int /\ at[2] \in 0..DayHours /\ at[3] \in Nat
      OBVIOUS
    <3> HIDE DEF f, Where
    <3> QED
      BY <1>2, <3>1
  <2> QED
    BY <2>1
<1>4. SubtractSolves(c, f)
  BY <1>3 DEF SubtractSolves
<1> QED
  BY <1>4, SubtractWalkSolves

LEMMA SubtractWalkEnds ==
    ASSUME NEW c \in Calendars, NEW d \in Int, NEW h \in 0..DayHours, NEW n \in Nat \ {0}
    PROVE  \E m \in Int : /\ SubtractWalk(c)[<<d, h, n>>] = m /\ Working(c, m)
                          /\ Worked(c, m) = Worked(c, Moment(d, h)) - n
<1> DEFINE EndsWell(e, k, r, v) ==
             \E m \in Int : SubtractWalk(c)[<<e, k, r>>] = m /\ Working(c, m) /\ Worked(c, m) = v
           T == {i \in Nat : \A e \in Int, k \in 0..DayHours, r \in Nat \ {0} :
                    Worked(c, Moment(e - i, DayHours)) <= Worked(c, Moment(e, k)) - r => EndsWell(e, k, r, Worked(c, Moment(e, k)) - r)}
<1>0. /\ DayHours \in 0..DayHours /\ DayHours \in Int
      /\ \A e, k \in Int : Moment(e, k) \in Int /\ Moment(e, k) = Moment(e, 0) + k
      /\ \A x \in Int : Worked(c, x) \in Int
  <2>1. \A e, k \in Int : Moment(e, k) \in Int /\ Moment(e, k) = Moment(e, 0) + k
    BY Moments
  <2>2. \A x \in Int : Worked(c, x) \in Int
    BY WorkedBetween
  <2> QED
    BY <2>1, <2>2, SlotNumbers
<1>1. 0 \in T
  <2>1. ASSUME NEW e \in Int, NEW k \in 0..DayHours, NEW r \in Nat \ {0},
               Worked(c, Moment(e - 0, DayHours)) <= Worked(c, Moment(e, k)) - r
        PROVE  FALSE
    <3>1. PICK a \in Int, b \in Int : a = Moment(e, k) /\ b = Moment(e, DayHours) /\ a <= b
      <4>1. k \in Int /\ k <= DayHours /\ 0 \in Int
        BY <1>0
      <4>2. Moment(e, 0) \in Int /\ Moment(e, k) = Moment(e, 0) + k /\ Moment(e, DayHours) = Moment(e, 0) + DayHours
        BY <1>0, <4>1
      <4> QED
        BY <1>0, <4>1, <4>2
    <3>2. Worked(c, a) <= Worked(c, b) /\ Worked(c, a) \in Int /\ Worked(c, b) \in Int
      BY <1>0, <3>1, WorkedGrows
    <3>3. e - 0 = e
      OBVIOUS
    <3> QED
      BY <2>1, <3>1, <3>2, <3>3
  <2> QED
    BY <2>1
<1>2. ASSUME NEW i \in T PROVE i + 1 \in T
  <2>1. ASSUME NEW e \in Int, NEW k \in 0..DayHours, NEW r \in Nat \ {0},
               Worked(c, Moment(e - (i + 1), DayHours)) <= Worked(c, Moment(e, k)) - r
        PROVE  EndsWell(e, k, r, Worked(c, Moment(e, k)) - r)
    <3>1. SubtractWalk(c)[<<e, k, r>>] = SubtractStep(c, SubtractWalk(c), e, k, r)
      <4>1. r \in Nat
        OBVIOUS
      <4> QED
        BY <4>1, SubtractWalkTaken, SubtractWalkStep
    <3>2. PICK open \in Nat : open = Cardinality(Sooner(c, e, k))
      BY SubtractDay
    <3>3. CASE r <= open
      <4>1. PICK m \in Int : /\ m = Moment(e, NthSlot(Sooner(c, e, k), open - r + 1))
                             /\ Working(c, m) /\ Worked(c, m) = Worked(c, Moment(e, k)) - r
        <5>1. r <= Cardinality(Sooner(c, e, k))
          BY <3>2, <3>3
        <5>2. \E m \in Int : /\ m = Moment(e, NthSlot(Sooner(c, e, k), Cardinality(Sooner(c, e, k)) - r + 1))
                             /\ Working(c, m) /\ Worked(c, m) = Worked(c, Moment(e, k)) - r
          BY <5>1, SubtractDay
        <5> QED
          BY <3>2, <5>2
      <4>2. SubtractWalk(c)[<<e, k, r>>] = m
        BY <3>1, <3>2, <3>3, <4>1 DEF SubtractStep
      <4> QED
        BY <4>1, <4>2
    <3>4. CASE ~(r <= open)
      <4>1. PICK q \in Nat \ {0} : q = r - open
        BY <3>4
      <4>2. SubtractWalk(c)[<<e, k, r>>] = SubtractWalk(c)[<<e - 1, DayHours, q>>]
        BY <3>1, <3>2, <3>4, <4>1 DEF SubtractStep
      <4>3. Worked(c, Moment(e - 1, DayHours)) - q = Worked(c, Moment(e, k)) - r
        <5>1. Worked(c, Moment(e, k)) = Worked(c, Moment(e - 1, DayHours)) + open /\ Worked(c, Moment(e - 1, DayHours)) \in Int
          BY <3>2, SubtractDay
        <5> QED
          BY <4>1, <5>1
      <4>4. e - 1 \in Int /\ (e - 1) - i = e - (i + 1)
        OBVIOUS
      <4>5. EndsWell(e - 1, DayHours, q, Worked(c, Moment(e - 1, DayHours)) - q)
        BY <1>0, <2>1, <4>3, <4>4
      <4> QED
        BY <4>2, <4>3, <4>5
    <3> QED
      BY <3>3, <3>4
  <2> HIDE DEF EndsWell
  <2> QED
    BY <2>1
<1>3. T = Nat
  <2>1. T \in SUBSET Nat
    OBVIOUS
  <2> HIDE DEF T
  <2> QED
    BY <1>1, <1>2, <2>1, NumbersFrom0
<1>4. PICK e \in Int : e <= d /\ Worked(c, Moment(e, 0)) <= Worked(c, Moment(d, h)) - n
  <2>1. Moment(d, h) \in Int
    BY <1>0
  <2>2. Worked(c, Moment(d, h)) - n \in Int
    BY <1>0, <2>1
  <2> QED
    BY <2>2, HoursBehind
<1>5. PICK i \in Nat : (d - i) = e - 1
  <2>1. d - (e - 1) \in Nat /\ d - (d - (e - 1)) = e - 1
    BY <1>4
  <2> QED
    BY <2>1
<1>6. Moment(e - 1, DayHours) = Moment(e, 0)
  BY SlotsOfDays
<1>7. EndsWell(d, h, n, Worked(c, Moment(d, h)) - n)
  <2>1. i \in T /\ Worked(c, Moment(d - i, DayHours)) <= Worked(c, Moment(d, h)) - n
    BY <1>3, <1>4, <1>5, <1>6
  <2> HIDE DEF EndsWell
  <2> QED
    BY <2>1
<1> QED
  BY <1>7

\* Subtracting hours lands at the start of the hour with which they are worked.
LEMMA SubtractLands ==
    ASSUME NEW c \in Calendars, NEW s \in Int, NEW n \in Nat \ {0}
    PROVE  /\ SubtractWorkingHours(c, s, n) \in Int /\ SubtractWorkingHours(c, s, n) < s
           /\ Working(c, SubtractWorkingHours(c, s, n))
           /\ Worked(c, SubtractWorkingHours(c, s, n)) = Worked(c, s) - n
<1>1. Day(s) \in Int /\ Time(s) \in 0..DayHours /\ Moment(Day(s), Time(s)) = s
  <2>1. Time(s) \in Slots /\ DayHours \in Nat
    BY DayTime, SlotNumbers
  <2>2. Time(s) \in 0..DayHours
    BY <2>1 DEF Slots
  <2> QED
    BY <2>2, DayTime
<1>2. PICK m \in Int : SubtractWalk(c)[<<Day(s), Time(s), n>>] = m /\ Working(c, m) /\ Worked(c, m) = Worked(c, s) - n
  BY <1>1, SubtractWalkEnds
<1>3. SubtractWorkingHours(c, s, n) = m
  BY <1>2 DEF SubtractWorkingHours
<1>4. m < s
  <2> SUFFICES ASSUME s <= m PROVE FALSE
    BY <1>2
  <2>1. Worked(c, s) <= Worked(c, m) /\ Worked(c, s) \in Int /\ Worked(c, m) \in Int
    BY WorkedGrows, WorkedBetween
  <2> QED
    BY <1>2, <2>1
<1> QED
  BY <1>2, <1>3, <1>4

NextStep(c, walk, d, h) ==
    LET open == Later(c, d, h) IN IF open # {} THEN Moment(d, Min(open)) ELSE walk[<<d + 1, 0>>]

NextSolves(c, walk) == walk = [at \in Int \X Slots |-> NextStep(c, walk, at[1], at[2])]

LEMMA NextWalkSolves ==
    ASSUME NEW c, NEW f, NextSolves(c, f) PROVE NextSolves(c, NextWalk(c))
BY DEF NextSolves, NextStep, NextWalk

LEMMA NextWalkStep ==
    ASSUME NEW c, NEW f, NextSolves(c, f), NEW d \in Int, NEW h \in Slots
    PROVE  f[<<d, h>>] = NextStep(c, f, d, h)
BY DEF NextSolves

\* One day of the search for a worked hour: the first slot, or none.
LEMMA NextDay ==
    ASSUME NEW c \in Calendars, NEW d \in Int, NEW h \in Slots
    PROVE  /\ Worked(c, Moment(d, h)) \in Int
           /\ IF Later(c, d, h) = {} THEN Worked(c, Moment(d + 1, 0)) = Worked(c, Moment(d, h))
              ELSE \E m \in Int : /\ m = Moment(d, Min(Later(c, d, h))) /\ Working(c, m)
                                  /\ Worked(c, m) = Worked(c, Moment(d, h))
<1>1. Later(c, d, h) \in SUBSET Slots /\ IsFiniteSet(Later(c, d, h)) /\ Later(c, d, h) \subseteq DaySchedule(c, d)
  BY ScheduleSlots DEF Later
<1>2. Moment(d, h) \in Int /\ Worked(c, Moment(d, h)) \in Int
  BY Moments, SlotNumbers, WorkedBetween
<1>3. ASSUME Later(c, d, h) = {} PROVE Worked(c, Moment(d + 1, 0)) = Worked(c, Moment(d, h))
  <2>1. 1 \in Nat \ {0} /\ Cardinality(Later(c, d, h)) = 0
    BY <1>3, FS_EmptySet
  <2>2. Worked(c, Moment(d + 1, 0)) = Worked(c, Moment(d, h)) + Cardinality(Later(c, d, h))
    BY <2>1, AddDay
  <2> QED
    BY <1>2, <2>1, <2>2
<1>4. ASSUME Later(c, d, h) # {}
      PROVE  \E m \in Int : /\ m = Moment(d, Min(Later(c, d, h))) /\ Working(c, m)
                            /\ Worked(c, m) = Worked(c, Moment(d, h))
  <2>1. Later(c, d, h) \in SUBSET Int
    BY <1>1, SlotNumbers
  <2>2. PICK x : x = Min(Later(c, d, h)) /\ x \in Later(c, d, h) /\ \A y \in Later(c, d, h) : x <= y
    BY <1>1, <1>4, <2>1, MinOf
  <2>3. x \in Slots /\ x \in Nat /\ h \in Nat /\ h <= x /\ x <= DayHours /\ x \in DaySchedule(c, d)
    <3>1. x \in Slots /\ x >= h
      BY <1>1, <2>2 DEF Later
    <3>2. x \in Nat /\ h \in Nat /\ x < DayHours /\ DayHours \in Nat
      BY <3>1, SlotNumbers
    <3> QED
      BY <1>1, <2>2, <3>1, <3>2
  <2>4. SlotsFrom(c, d, h, x) = {}
    <3>1. SUFFICES ASSUME NEW y \in SlotsFrom(c, d, h, x) PROVE FALSE
      OBVIOUS
    <3>2. y \in DaySchedule(c, d) /\ h <= y /\ y < x /\ y \in Slots
      BY ScheduleSlots DEF SlotsFrom
    <3>3. y \in Int /\ y >= h
      BY <2>3, <3>2, SlotNumbers
    <3>4. x <= y
      BY <2>2, <3>2, <3>3 DEF Later
    <3> QED
      BY <2>3, <3>2, <3>3, <3>4
  <2>5. Worked(c, Moment(d, x)) = Worked(c, Moment(d, h)) + Cardinality(SlotsFrom(c, d, h, x))
    BY <2>3, SlotsAreHours
  <2>6. Worked(c, Moment(d, x)) = Worked(c, Moment(d, h))
    BY <1>2, <2>4, <2>5, FS_EmptySet
  <2>7. Moment(d, x) \in Int /\ Working(c, Moment(d, x))
    BY <2>3, Moments, SlotsOfDays, SlotNumbers DEF Working
  <2> QED
    BY <2>2, <2>6, <2>7
<1> QED
  BY <1>2, <1>3, <1>4

LEMMA NextWalkTaken ==
    ASSUME NEW c \in Calendars PROVE NextSolves(c, NextWalk(c))
<1> DEFINE Where(d, h) == StartMoment(c, Worked(c, Moment(d, h)))
           f == [at \in Int \X Slots |-> Where(at[1], at[2])]
<1>0. 0 \in Slots
  BY SlotNumbers
<1>1. \A d \in Int, h \in Slots : f[<<d, h>>] = Where(d, h)
  OBVIOUS
<1>2. ASSUME NEW d \in Int, NEW h \in Slots PROVE Where(d, h) = NextStep(c, f, d, h)
  <2>1. CASE Later(c, d, h) # {}
    <3>1. PICK m \in Int : m = Moment(d, Min(Later(c, d, h))) /\ Working(c, m) /\ Worked(c, m) = Worked(c, Moment(d, h))
      BY <2>1, NextDay
    <3>2. StartMoment(c, Worked(c, Moment(d, h))) = m
      BY <3>1, StartsThere
    <3> QED
      BY <2>1, <3>1, <3>2 DEF NextStep
  <2>2. CASE Later(c, d, h) = {}
    <3>1. Worked(c, Moment(d + 1, 0)) = Worked(c, Moment(d, h))
      BY <2>2, NextDay
    <3>2. d + 1 \in Int
      OBVIOUS
    <3>3. f[<<d + 1, 0>>] = Where(d + 1, 0)
      BY <1>0, <1>1, <3>2
    <3> QED
      BY <2>2, <3>1, <3>3 DEF NextStep
  <2> QED
    BY <2>1, <2>2
<1>3. f = [at \in Int \X Slots |-> NextStep(c, f, at[1], at[2])]
  <2>1. \A at \in Int \X Slots : Where(at[1], at[2]) = NextStep(c, f, at[1], at[2])
    <3>1. \A at \in Int \X Slots : at[1] \in Int /\ at[2] \in Slots
      OBVIOUS
    <3> HIDE DEF f, Where
    <3> QED
      BY <1>2, <3>1
  <2> QED
    BY <2>1
<1>4. NextSolves(c, f)
  BY <1>3 DEF NextSolves
<1> QED
  BY <1>4, NextWalkSolves

LEMMA NextWalkEnds ==
    ASSUME NEW c \in Calendars, NEW d \in Int, NEW h \in Slots
    PROVE  \E m \in Int : NextWalk(c)[<<d, h>>] = m /\ Working(c, m) /\ Worked(c, m) = Worked(c, Moment(d, h))
<1> DEFINE EndsWell(e, k, v) == \E m \in Int : NextWalk(c)[<<e, k>>] = m /\ Working(c, m) /\ Worked(c, m) = v
           T == {i \in Nat : \A e \in Int, k \in Slots :
                    Worked(c, Moment(e, k)) + 1 <= Worked(c, Moment(e + i, 0)) => EndsWell(e, k, Worked(c, Moment(e, k)))}
<1>0. /\ 0 \in Slots /\ Slots \subseteq Nat
      /\ \A e, k \in Int : Moment(e, k) \in Int /\ Moment(e, k) = Moment(e, 0) + k
      /\ \A x \in Int : Worked(c, x) \in Int
  <2>1. \A e, k \in Int : Moment(e, k) \in Int /\ Moment(e, k) = Moment(e, 0) + k
    BY Moments
  <2>2. \A x \in Int : Worked(c, x) \in Int
    BY WorkedBetween
  <2> QED
    BY <2>1, <2>2, SlotNumbers
<1>1. 0 \in T
  <2>1. ASSUME NEW e \in Int, NEW k \in Slots, Worked(c, Moment(e, k)) + 1 <= Worked(c, Moment(e + 0, 0))
        PROVE  FALSE
    <3>1. PICK a \in Int, b \in Int : a = Moment(e, 0) /\ b = Moment(e, k) /\ a <= b
      <4>1. k \in Int /\ 0 <= k /\ Moment(e, 0) \in Int
        BY <1>0
      <4> QED
        BY <1>0, <4>1
    <3>2. Worked(c, a) <= Worked(c, b) /\ Worked(c, a) \in Int /\ Worked(c, b) \in Int
      BY <1>0, <3>1, WorkedGrows
    <3>3. e + 0 = e
      OBVIOUS
    <3> QED
      BY <2>1, <3>1, <3>2, <3>3
  <2> QED
    BY <2>1
<1>2. ASSUME NEW i \in T PROVE i + 1 \in T
  <2>1. ASSUME NEW e \in Int, NEW k \in Slots, Worked(c, Moment(e, k)) + 1 <= Worked(c, Moment(e + (i + 1), 0))
        PROVE  EndsWell(e, k, Worked(c, Moment(e, k)))
    <3>1. NextWalk(c)[<<e, k>>] = NextStep(c, NextWalk(c), e, k)
      BY NextWalkTaken, NextWalkStep
    <3>2. CASE Later(c, e, k) # {}
      <4>1. PICK m \in Int : m = Moment(e, Min(Later(c, e, k))) /\ Working(c, m) /\ Worked(c, m) = Worked(c, Moment(e, k))
        BY <3>2, NextDay
      <4>2. NextWalk(c)[<<e, k>>] = m
        BY <3>1, <3>2, <4>1 DEF NextStep
      <4> QED
        BY <4>1, <4>2
    <3>3. CASE Later(c, e, k) = {}
      <4>1. NextWalk(c)[<<e, k>>] = NextWalk(c)[<<e + 1, 0>>]
        BY <3>1, <3>3 DEF NextStep
      <4>2. Worked(c, Moment(e + 1, 0)) = Worked(c, Moment(e, k))
        BY <3>3, NextDay
      <4>3. e + 1 \in Int /\ (e + 1) + i = e + (i + 1)
        OBVIOUS
      <4>4. EndsWell(e + 1, 0, Worked(c, Moment(e + 1, 0)))
        BY <1>0, <2>1, <4>2, <4>3
      <4> QED
        BY <4>1, <4>2, <4>4
    <3> QED
      BY <3>2, <3>3
  <2> HIDE DEF EndsWell
  <2> QED
    BY <2>1
<1>3. T = Nat
  <2>1. T \in SUBSET Nat
    OBVIOUS
  <2> HIDE DEF T
  <2> QED
    BY <1>1, <1>2, <2>1, NumbersFrom0
<1>4. PICK e \in Int : d <= e /\ Worked(c, Moment(d, h)) + 1 <= Worked(c, Moment(e, 0))
  <2>1. h \in Int
    BY <1>0
  <2>2. Moment(d, h) \in Int
    BY <1>0, <2>1
  <2>3. Worked(c, Moment(d, h)) + 1 \in Int
    BY <1>0, <2>2
  <2> QED
    BY <2>3, HoursAhead
<1>5. PICK i \in Nat : d + i = e
  <2>1. e - d \in Nat /\ d + (e - d) = e
    BY <1>4
  <2> QED
    BY <2>1
<1>6. EndsWell(d, h, Worked(c, Moment(d, h)))
  BY <1>3, <1>4, <1>5
<1> QED
  BY <1>6

\* The next working moment is the first worked hour that is not before.
LEMMA NextLands ==
    ASSUME NEW c \in Calendars, NEW s \in Int
    PROVE  /\ NextWorkingMoment(c, s) \in Int /\ s <= NextWorkingMoment(c, s)
           /\ Working(c, NextWorkingMoment(c, s))
           /\ Worked(c, NextWorkingMoment(c, s)) = Worked(c, s)
<1>1. Day(s) \in Int /\ Time(s) \in Slots /\ Moment(Day(s), Time(s)) = s
  BY DayTime
<1>2. PICK m \in Int : NextWalk(c)[<<Day(s), Time(s)>>] = m /\ Working(c, m) /\ Worked(c, m) = Worked(c, s)
  BY <1>1, NextWalkEnds
<1>3. NextWorkingMoment(c, s) = m
  BY <1>2 DEF NextWorkingMoment
<1>4. Worked(c, s) \in Int
  BY WorkedBetween
<1>5. s <= m
  BY <1>2, <1>4, WorkedStart
<1> QED
  BY <1>2, <1>3, <1>5

-----------------------------------------------------------------------------
(* The operators of the engine *)

LEMMA FiniteImage ==
    ASSUME NEW S, IsFiniteSet(S), NEW f PROVE IsFiniteSet({f[x] : x \in S})
<1> DEFINE g == [x \in S |-> f[x]]
<1>1. g \in Surjection(S, {f[x] : x \in S})
  BY DEF Surjection
<1> QED
  BY <1>1, FS_Surjection

LEMMA NetTyped ==
    ASSUME net \in Networks
    PROVE  /\ net.start \in Int /\ net.now \in Int /\ net.links \subseteq Links /\ IsFiniteSet(net.links)
           /\ \A t \in Tasks : net.task[t] \in Rows /\ Calendar(t) \in Calendars
           /\ \A t \in Tasks : Kind(t) = "external" => NoDate \notin {net.task[t].start, net.task[t].finish}
           /\ \A t : /\ Into(t) \subseteq net.links /\ OutOf(t) \subseteq net.links /\ Binding(t) \subseteq OutOf(t)
                     /\ IsFiniteSet(Into(t)) /\ IsFiniteSet(OutOf(t)) /\ IsFiniteSet(Binding(t))
           /\ \A l \in net.links : /\ l.from \in Tasks /\ l.to \in Tasks /\ l.lag \in Int /\ l.type \in LinkTypes
                                   /\ l \in Into(l.to) /\ l \in OutOf(l.from)
<1>1. /\ net.start \in Int /\ net.now \in Int /\ net.links \subseteq Links /\ IsFiniteSet(net.links)
      /\ net.task \in [Tasks -> Rows]
      /\ \A t \in Tasks : net.task[t].external => NoDate \notin {net.task[t].start, net.task[t].finish}
  BY NetworksAssumption
<1>2. \A t \in Tasks : net.task[t] \in Rows /\ Calendar(t) \in Calendars
  BY <1>1 DEF Calendar, Rows
<1>3. \A t \in Tasks : Kind(t) = "external" => NoDate \notin {net.task[t].start, net.task[t].finish}
  BY <1>1, <1>2 DEF Kind, Rows
<1>4. \A t : Into(t) \subseteq net.links /\ OutOf(t) \subseteq net.links /\ Binding(t) \subseteq OutOf(t) /\ Binding(t) \subseteq net.links
  BY DEF Into, OutOf, Binding
<1>5. \A t : IsFiniteSet(Into(t)) /\ IsFiniteSet(OutOf(t)) /\ IsFiniteSet(Binding(t))
  BY <1>1, <1>4, FS_Subset
<1>6. \A l \in net.links : l.from \in Tasks /\ l.to \in Tasks /\ l.lag \in Int /\ l.type \in LinkTypes
  BY <1>1 DEF Links
<1>7. \A l \in net.links : l \in Into(l.to) /\ l \in OutOf(l.from)
  BY DEF Into, OutOf
<1> QED
  BY <1>1, <1>2, <1>3, <1>4, <1>5, <1>6, <1>7

LEMMA KindsOf ==
    ASSUME net \in Networks, NEW t \in Tasks
    PROVE  /\ Kind(t) \in {"external", "done", "running", "new"}
           /\ Kind(t) = "new" => net.task[t].start = NoDate /\ net.task[t].finish = NoDate
           /\ Kind(t) = "running" => net.task[t].start # NoDate
           /\ Remaining(t) \in Nat
           /\ Kind(t) = "new" => Remaining(t) = net.task[t].hours
<1>1. net.task[t] \in Rows
  BY NetTyped
<1>2. PICK row : row = net.task[t] /\ row.external \in BOOLEAN /\ row.hours \in Nat /\ row.progress \in 0..100
  BY <1>1 DEF Rows
<1>3. Kind(t) = CASE row.external -> "external"
                  [] ~row.external /\ (row.finish # NoDate \/ row.progress = 100) -> "done"
                  [] ~row.external /\ row.finish = NoDate /\ row.progress < 100 ->
                        IF row.start = NoDate THEN "new" ELSE "running"
  BY <1>2 DEF Kind
<1>4. /\ Kind(t) \in {"external", "done", "running", "new"}
      /\ Kind(t) = "new" => row.start = NoDate /\ row.finish = NoDate
      /\ Kind(t) = "running" => row.start # NoDate
  BY <1>2, <1>3
<1>5. (row.hours * (100 - row.progress)) \div 100 \in Nat
  <2>1. PICK n \in Nat : n = row.hours * (100 - row.progress)
    <3>1. PICK k \in Nat : k = 100 - row.progress
      BY <1>2
    <3> QED
      BY <1>2, <3>1
  <2> QED
    BY <2>1
<1>6. Remaining(t) = CASE Kind(t) = "done" -> 0
                       [] Kind(t) = "running" -> (row.hours * (100 - row.progress)) \div 100
                       [] Kind(t) \in {"new", "external"} -> row.hours
  BY <1>2 DEF Remaining
<1>7. Remaining(t) \in Nat /\ (Kind(t) = "new" => Remaining(t) = row.hours)
  BY <1>2, <1>4, <1>5, <1>6
<1> QED
  BY <1>2, <1>4, <1>7

\* The working hours until a moment, in the calendar of a task.
HoursTo(t, x) == Worked(Calendar(t), x)

\* Walking by n hours changes the hours until a moment by n.
LEMMA Walks ==
    ASSUME net \in Networks, NEW t \in Tasks, NEW x \in Int, NEW n \in Int
    PROVE  /\ AddHours(t, x, n) \in Int /\ SubtractHours(t, x, n) \in Int
           /\ HoursTo(t, x) \in Int
           /\ HoursTo(t, AddHours(t, x, n)) = HoursTo(t, x) + n
           /\ HoursTo(t, SubtractHours(t, x, n)) = HoursTo(t, x) - n
           /\ 0 <= n => x <= AddHours(t, x, n) /\ SubtractHours(t, x, n) <= x
           /\ n <= 0 => AddHours(t, x, n) <= x /\ x <= SubtractHours(t, x, n)
<1>1. PICK c \in Calendars : c = Calendar(t)
  BY NetTyped
<1>2. Worked(c, x) \in Int
  BY WorkedBetween
<1>3. ASSUME NEW k \in Nat
      PROVE  /\ AddWorkingHours(c, x, k) \in Int /\ Worked(c, AddWorkingHours(c, x, k)) = Worked(c, x) + k
             /\ x <= AddWorkingHours(c, x, k)
             /\ SubtractWorkingHours(c, x, k) \in Int /\ Worked(c, SubtractWorkingHours(c, x, k)) = Worked(c, x) - k
             /\ SubtractWorkingHours(c, x, k) <= x
  <2>1. CASE k = 0
    <3>1. AddWorkingHours(c, x, k) = x /\ SubtractWorkingHours(c, x, k) = x
      BY <2>1 DEF AddWorkingHours, SubtractWorkingHours
    <3> QED
      BY <1>2, <2>1, <3>1
  <2>2. CASE k # 0
    <3>1. k \in Nat \ {0}
      BY <2>2
    <3>2. /\ AddWorkingHours(c, x, k) \in Int /\ x < AddWorkingHours(c, x, k)
          /\ Worked(c, AddWorkingHours(c, x, k)) = Worked(c, x) + k
      BY <3>1, AddLands
    <3>3. /\ SubtractWorkingHours(c, x, k) \in Int /\ SubtractWorkingHours(c, x, k) < x
          /\ Worked(c, SubtractWorkingHours(c, x, k)) = Worked(c, x) - k
      BY <3>1, SubtractLands
    <3> QED
      BY <3>2, <3>3
  <2> QED
    BY <2>1, <2>2
<1>4. CASE n >= 0
  <2>1. n \in Nat /\ AddHours(t, x, n) = AddWorkingHours(c, x, n) /\ SubtractHours(t, x, n) = SubtractWorkingHours(c, x, n)
    BY <1>1, <1>4 DEF AddHours, SubtractHours
  <2>2. n <= 0 => n = 0
    BY <1>4
  <2>3. n = 0 => AddWorkingHours(c, x, n) = x /\ SubtractWorkingHours(c, x, n) = x
    BY DEF AddWorkingHours, SubtractWorkingHours
  <2> QED
    BY <1>1, <1>2, <1>3, <2>1, <2>2, <2>3 DEF HoursTo
<1>5. CASE n < 0
  <2>1. PICK k \in Nat : k = -n /\ n = -k
    BY <1>5
  <2>2. AddHours(t, x, n) = SubtractWorkingHours(c, x, k) /\ SubtractHours(t, x, n) = AddWorkingHours(c, x, k)
    BY <1>1, <1>5, <2>1 DEF AddHours, SubtractHours
  <2> QED
    BY <1>1, <1>2, <1>3, <1>5, <2>1, <2>2 DEF HoursTo
<1> QED
  BY <1>4, <1>5

LEMMA AnchorTyped ==
    ASSUME net \in Networks
    PROVE  DataDate \in Int /\ Anchor \in Int /\ DataDate <= Anchor
<1>1. DefaultCalendar \in Calendars /\ net.now \in Int /\ net.start \in Int
  BY NetworksAssumption, NetTyped
<1>2. DataDate \in Int
  BY <1>1, NextLands DEF DataDate
<1>3. PICK S : S = {net.start, DataDate}
  OBVIOUS
<1>4. S \in SUBSET Int /\ IsFiniteSet(S) /\ S # {}
  <2>1. IsFiniteSet({net.start}) /\ {net.start} \cup {DataDate} = S
    BY <1>3, FS_Singleton
  <2> QED
    BY <1>1, <1>2, <1>3, <2>1, FS_AddElement
<1>5. Max(S) \in Int /\ DataDate <= Max(S)
  BY <1>3, <1>4, MaxOf
<1>6. NextWorkingMoment(DefaultCalendar, Max(S)) \in Int /\ Max(S) <= NextWorkingMoment(DefaultCalendar, Max(S))
  BY <1>1, <1>5, NextLands
<1> QED
  BY <1>2, <1>3, <1>5, <1>6 DEF Anchor

Dated(dates, S) == \A t \in S : dates[t] \in Dates

Sources(t) == {l.from : l \in Into(t)}
Targets(t) == {l.to : l \in OutOf(t)}

LEMMA DueTyped ==
    ASSUME net \in Networks, NEW dates, NEW l \in net.links, dates[l.from] \in Dates
    PROVE  /\ Due(l, dates) \in Int /\ EarlyStartBy(l, dates) \in Int
           /\ HoursTo(l.to, Due(l, dates)) =
                 HoursTo(l.to, IF l.type \in {"FS", "FF"} THEN dates[l.from].finish ELSE dates[l.from].start) + l.lag
           /\ HoursTo(l.to, EarlyStartBy(l, dates)) =
                 HoursTo(l.to, Due(l, dates)) - (IF l.type \in {"FS", "SS"} THEN 0 ELSE Remaining(l.to))
           /\ HoursTo(l.to, Due(l, dates)) \in Int
           /\ l.type \in {"FS", "SS"} => EarlyStartBy(l, dates) = Due(l, dates)
<1>1. l.from \in Tasks /\ l.to \in Tasks /\ l.lag \in Int
  BY NetTyped
<1>2. PICK x \in Int : x = (IF l.type \in {"FS", "FF"} THEN dates[l.from].finish ELSE dates[l.from].start)
  BY DEF Dates
<1>3. Due(l, dates) = AddHours(l.to, x, l.lag)
  BY <1>2 DEF Due
<1>4. PICK y \in Int : y = Due(l, dates) /\ HoursTo(l.to, y) = HoursTo(l.to, x) + l.lag /\ HoursTo(l.to, y) \in Int
  <2>1. AddHours(l.to, x, l.lag) \in Int /\ HoursTo(l.to, AddHours(l.to, x, l.lag)) = HoursTo(l.to, x) + l.lag
    BY <1>1, Walks
  <2>2. \A z \in Int : HoursTo(l.to, z) \in Int
    BY <1>1, Walks
  <2> QED
    BY <1>3, <2>1, <2>2
<1>5. Remaining(l.to) \in Int
  BY <1>1, KindsOf
<1>6. SubtractHours(l.to, y, Remaining(l.to)) \in Int /\ HoursTo(l.to, SubtractHours(l.to, y, Remaining(l.to))) = HoursTo(l.to, y) - Remaining(l.to)
  BY <1>1, <1>5, Walks
<1>7. EarlyStartBy(l, dates) = IF l.type \in {"FS", "SS"} THEN y ELSE SubtractHours(l.to, y, Remaining(l.to))
  BY <1>4 DEF EarlyStartBy
<1> QED
  BY <1>2, <1>4, <1>6, <1>7

\* What the links and the anchor ask of the start of a task.
BeginBounds(t, dates) ==
    {EarlyStartBy(l, dates) : l \in Into(t)} \cup {IF Kind(t) = "running" THEN DataDate ELSE Anchor}
Begin(t, dates) == Max(BeginBounds(t, dates))

LEMMA BeginTyped ==
    ASSUME net \in Networks, NEW t \in Tasks, NEW dates, Dated(dates, Sources(t))
    PROVE  /\ Begin(t, dates) \in BeginBounds(t, dates) /\ Begin(t, dates) \in Int
           /\ \A x \in BeginBounds(t, dates) : x \in Int /\ x <= Begin(t, dates)
<1>1. \A l \in Into(t) : l \in net.links /\ dates[l.from] \in Dates
  BY NetTyped DEF Dated, Sources
<1>2. \A l \in Into(t) : EarlyStartBy(l, dates) \in Int
  BY <1>1, DueTyped
<1>3. IsFiniteSet({EarlyStartBy(l, dates) : l \in Into(t)})
  <2> DEFINE f == [l \in Into(t) |-> EarlyStartBy(l, dates)]
  <2>1. IsFiniteSet({f[l] : l \in Into(t)})
    BY NetTyped, FiniteImage
  <2>2. {f[l] : l \in Into(t)} = {EarlyStartBy(l, dates) : l \in Into(t)}
    OBVIOUS
  <2> QED
    BY <2>1, <2>2
<1>4. BeginBounds(t, dates) \in SUBSET Int /\ IsFiniteSet(BeginBounds(t, dates)) /\ BeginBounds(t, dates) # {}
  BY <1>2, <1>3, AnchorTyped, FS_AddElement DEF BeginBounds
<1> QED
  BY <1>4, MaxOf DEF Begin

LEMMA EarlyCases ==
    ASSUME net \in Networks, NEW t \in Tasks, NEW dates
    PROVE  /\ Kind(t) \in {"done", "external"} =>
                 \E x : EarlyDates(t, dates) =
                           [start |-> x, finish |-> IF net.task[t].finish = NoDate THEN x ELSE net.task[t].finish]
                        /\ x = IF net.task[t].start = NoDate THEN Anchor ELSE net.task[t].start
           /\ Kind(t) = "running" =>
                 EarlyDates(t, dates) =
                    [start |-> net.task[t].start,
                     finish |-> Max({AddHours(t, x, Remaining(t)) : x \in {DataDate, Begin(t, dates)}})]
           /\ Kind(t) = "new" =>
                 EarlyDates(t, dates) =
                    [start |-> Begin(t, dates), finish |-> AddHours(t, Begin(t, dates), Remaining(t))]
<1>1. CASE Kind(t) \in {"done", "external"}
  BY <1>1 DEF EarlyDates
<1>2. CASE Kind(t) = "running"
  BY <1>2 DEF EarlyDates, Begin, BeginBounds
<1>3. CASE Kind(t) = "new"
  BY <1>3 DEF EarlyDates, Begin, BeginBounds
<1> QED
  BY <1>1, <1>2, <1>3, KindsOf

LEMMA RunningFinish ==
    ASSUME net \in Networks, NEW t \in Tasks, NEW x \in Int, NEW y \in Int
    PROVE  LET S == {AddHours(t, z, Remaining(t)) : z \in {x, y}} IN
           /\ S \in SUBSET Int /\ IsFiniteSet(S) /\ S # {} /\ Max(S) \in S /\ Max(S) \in Int
           /\ AddHours(t, x, Remaining(t)) \in S /\ \A z \in S : z <= Max(S)
<1> DEFINE S == {AddHours(t, z, Remaining(t)) : z \in {x, y}}
<1>1. S = {AddHours(t, x, Remaining(t))} \cup {AddHours(t, y, Remaining(t))}
  OBVIOUS
<1>2. Remaining(t) \in Int
  BY KindsOf
<1>3. S \in SUBSET Int
  <2>1. AddHours(t, x, Remaining(t)) \in Int /\ AddHours(t, y, Remaining(t)) \in Int
    BY <1>2, Walks
  <2> QED
    BY <1>1, <2>1
<1>4. IsFiniteSet(S) /\ S # {} /\ AddHours(t, x, Remaining(t)) \in S
  <2>1. IsFiniteSet({AddHours(t, x, Remaining(t))})
    BY FS_Singleton
  <2>2. IsFiniteSet({AddHours(t, x, Remaining(t))} \cup {AddHours(t, y, Remaining(t))})
    BY <2>1, FS_AddElement
  <2> QED
    BY <1>1, <2>2
<1>5. Max(S) \in S /\ \A z \in S : z <= Max(S)
  <2> HIDE DEF S
  <2> QED
    BY <1>3, <1>4, MaxOf
<1> QED
  BY <1>3, <1>4, <1>5

LEMMA EarlyTyped ==
    ASSUME net \in Networks, NEW t \in Tasks, NEW dates, Dated(dates, Sources(t))
    PROVE  EarlyDates(t, dates) \in Dates
<1>1. net.task[t] \in Rows /\ Anchor \in Int /\ DataDate \in Int
  BY NetTyped, AnchorTyped
<1>2. CASE Kind(t) \in {"done", "external"}
  <2>1. PICK x : /\ EarlyDates(t, dates) =
                       [start |-> x, finish |-> IF net.task[t].finish = NoDate THEN x ELSE net.task[t].finish]
                 /\ x = IF net.task[t].start = NoDate THEN Anchor ELSE net.task[t].start
    BY <1>2, EarlyCases
  <2>2. x \in Int /\ (IF net.task[t].finish = NoDate THEN x ELSE net.task[t].finish) \in Int
    BY <1>1, <2>1 DEF Rows
  <2> QED
    BY <2>1, <2>2 DEF Dates
<1>3. CASE Kind(t) = "running"
  <2>1. Max({AddHours(t, x, Remaining(t)) : x \in {DataDate, Begin(t, dates)}}) \in Int
    BY <1>1, BeginTyped, RunningFinish
  <2>2. net.task[t].start \in Int
    BY <1>1, <1>3, KindsOf DEF Rows
  <2> QED
    BY <1>3, <2>1, <2>2, EarlyCases DEF Dates
<1>4. CASE Kind(t) = "new"
  <2>1. Begin(t, dates) \in Int /\ Remaining(t) \in Int
    BY BeginTyped, KindsOf
  <2>2. AddHours(t, Begin(t, dates), Remaining(t)) \in Int
    BY <2>1, Walks
  <2>3. EarlyDates(t, dates) = [start |-> Begin(t, dates), finish |-> AddHours(t, Begin(t, dates), Remaining(t))]
    BY <1>4, EarlyCases
  <2> QED
    BY <2>1, <2>2, <2>3 DEF Dates
<1> QED
  BY <1>2, <1>3, <1>4, KindsOf

\* The early dates of a task come from its row and those of its predecessors.
LEMMA EarlyAgree ==
    ASSUME NEW t, NEW d, NEW e, \A u \in Sources(t) : d[u] = e[u]
    PROVE  EarlyDates(t, d) = EarlyDates(t, e)
<1>1. \A l \in Into(t) : d[l.from] = e[l.from]
  BY DEF Sources
<1>2. \A l \in Into(t) : EarlyStartBy(l, d) = EarlyStartBy(l, e)
  BY <1>1 DEF EarlyStartBy, Due
<1>3. {EarlyStartBy(l, d) : l \in Into(t)} = {EarlyStartBy(l, e) : l \in Into(t)}
  BY <1>2
<1> QED
  BY <1>3 DEF EarlyDates

\* The revision does not change during a run.
LEMMA NetKept ==
    ASSUME net' = net, NEW t
    PROVE  /\ Kind(t)' = Kind(t) /\ Remaining(t)' = Remaining(t) /\ Calendar(t)' = Calendar(t)
           /\ Into(t)' = Into(t) /\ OutOf(t)' = OutOf(t) /\ Sources(t)' = Sources(t) /\ Targets(t)' = Targets(t)
           /\ Anchor' = Anchor /\ DataDate' = DataDate
<1>1. Kind(t)' = Kind(t) /\ Calendar(t)' = Calendar(t) /\ Into(t)' = Into(t) /\ OutOf(t)' = OutOf(t)
  BY DEF Kind, Calendar, Into, OutOf
<1>2. Remaining(t)' = Remaining(t)
  BY <1>1 DEF Remaining
<1>3. DataDate' = DataDate
  BY DEF DataDate
<1>4. Anchor' = Anchor
  BY <1>3 DEF Anchor
<1>5. Sources(t)' = Sources(t) /\ Targets(t)' = Targets(t)
  BY <1>1 DEF Sources, Targets
<1> QED
  BY <1>1, <1>2, <1>3, <1>4, <1>5

LEMMA EarlyKept ==
    ASSUME net' = net, NEW t
    PROVE  EarlyDates(t, early)' = EarlyDates(t, early')
<1>1. \A l : Calendar(l.to)' = Calendar(l.to) /\ Remaining(l.to)' = Remaining(l.to)
  BY NetKept
<1>2. \A l : Due(l, early)' = Due(l, early') 
  BY <1>1 DEF Due, AddHours
<1>3. \A l : EarlyStartBy(l, early)' = EarlyStartBy(l, early')
  BY <1>1, <1>2 DEF EarlyStartBy, SubtractHours
<1>4. {EarlyStartBy(l, early) : l \in Into(t)}' = {EarlyStartBy(l, early') : l \in Into(t)}
  BY <1>3, NetKept
<1> QED
  BY <1>4, NetKept DEF EarlyDates, AddHours

LEMMA HoursBetween ==
    ASSUME net \in Networks, NEW t \in Tasks, NEW x \in Int, NEW y \in Int
    PROVE  /\ HoursTo(t, x) \in Int /\ HoursTo(t, y) \in Int
           /\ WorkingHoursBetween(Calendar(t), x, y) \in Nat
           /\ x <= y => WorkingHoursBetween(Calendar(t), x, y) = HoursTo(t, y) - HoursTo(t, x)
           /\ x <= y => HoursTo(t, x) <= HoursTo(t, y)
           /\ HoursTo(t, y) <= HoursTo(t, x) => WorkingHoursBetween(Calendar(t), x, y) = 0
<1>1. /\ HoursTo(t, x) \in Int /\ HoursTo(t, y) \in Int
      /\ WorkingHoursBetween(Calendar(t), x, y) \in Nat
      /\ x <= y => WorkingHoursBetween(Calendar(t), x, y) = HoursTo(t, y) - HoursTo(t, x)
      /\ y <= x => WorkingHoursBetween(Calendar(t), x, y) = 0
  BY WorkedBetween DEF HoursTo
<1> QED
  BY <1>1

\* The remaining work of a task fits between the data date and its finish.
LEMMA WorkFits ==
    ASSUME net \in Networks, NEW t \in Tasks, NEW dates, Dated(dates, Sources(t)),
           NEW row, row = EarlyDates(t, dates)
    PROVE  /\ Kind(t) \in {"new", "running"} => WorkingHoursBetween(Calendar(t), DataDate, row.finish) >= Remaining(t)
           /\ Kind(t) = "new" => /\ WorkingHoursBetween(Calendar(t), row.start, row.finish) = Remaining(t)
                                 /\ row.start >= Anchor
<1>0. DataDate \in Int /\ Anchor \in Int /\ DataDate <= Anchor /\ Remaining(t) \in Nat /\ Begin(t, dates) \in Int
  BY AnchorTyped, KindsOf, BeginTyped
<1>1. CASE Kind(t) = "new"
  <2>1. PICK b \in Int, f \in Int : b = Begin(t, dates) /\ f = AddHours(t, b, Remaining(t)) /\ row.start = b /\ row.finish = f
    <3>1. row = [start |-> Begin(t, dates), finish |-> AddHours(t, Begin(t, dates), Remaining(t))]
      BY <1>1, EarlyCases
    <3>2. AddHours(t, Begin(t, dates), Remaining(t)) \in Int
      BY <1>0, Walks
    <3> QED
      BY <1>0, <3>1, <3>2
  <2>2. Anchor \in BeginBounds(t, dates)
    BY <1>1 DEF BeginBounds
  <2>3. Anchor <= b
    BY <2>1, <2>2, BeginTyped
  <2>4. HoursTo(t, f) = HoursTo(t, b) + Remaining(t) /\ b <= f
    BY <1>0, <2>1, Walks
  <2>5. WorkingHoursBetween(Calendar(t), b, f) = Remaining(t)
    <3>1. WorkingHoursBetween(Calendar(t), b, f) = HoursTo(t, f) - HoursTo(t, b) /\ HoursTo(t, b) \in Int
      BY <2>4, HoursBetween
    <3> QED
      BY <1>0, <2>4, <3>1
  <2>6. WorkingHoursBetween(Calendar(t), DataDate, f) >= Remaining(t)
    <3>1. DataDate <= b /\ DataDate <= f
      BY <1>0, <2>3, <2>4
    <3>2. HoursTo(t, DataDate) <= HoursTo(t, b) /\ HoursTo(t, DataDate) \in Int /\ HoursTo(t, b) \in Int
      BY <1>0, <3>1, HoursBetween
    <3>3. WorkingHoursBetween(Calendar(t), DataDate, f) = HoursTo(t, f) - HoursTo(t, DataDate)
      BY <1>0, <3>1, HoursBetween
    <3> QED
      BY <1>0, <2>4, <3>2, <3>3
  <2> QED
    BY <1>0, <2>1, <2>3, <2>5, <2>6
<1>2. CASE Kind(t) = "running"
  <2> DEFINE S == {AddHours(t, x, Remaining(t)) : x \in {DataDate, Begin(t, dates)}}
  <2>1. PICK f \in Int : f = Max(S) /\ AddHours(t, DataDate, Remaining(t)) <= f
    BY <1>0, RunningFinish
  <2>2. row.finish = f
    BY <1>2, <2>1, EarlyCases
  <2>3. PICK g \in Int : g = AddHours(t, DataDate, Remaining(t)) /\ HoursTo(t, g) = HoursTo(t, DataDate) + Remaining(t) /\ DataDate <= g
    BY <1>0, Walks
  <2>4. HoursTo(t, g) <= HoursTo(t, f) /\ DataDate <= f
    BY <1>0, <2>1, <2>3, HoursBetween
  <2>5. WorkingHoursBetween(Calendar(t), DataDate, f) = HoursTo(t, f) - HoursTo(t, DataDate)
    BY <1>0, <2>4, HoursBetween
  <2>6. HoursTo(t, f) \in Int /\ HoursTo(t, DataDate) \in Int
    BY <1>0, HoursBetween
  <2>7. WorkingHoursBetween(Calendar(t), DataDate, f) >= Remaining(t)
    BY <1>0, <2>3, <2>4, <2>5, <2>6
  <2> QED
    BY <1>2, <2>2, <2>7
<1> QED
  BY <1>1, <1>2

\* The dates of an unstarted task honour a link into it.
LEMMA LinkHolds ==
    ASSUME net \in Networks, NEW l \in net.links, NEW dates, Dated(dates, Sources(l.to)), Kind(l.to) = "new",
           NEW row, row = EarlyDates(l.to, dates)
    PROVE  IF l.type \in {"FS", "SS"} THEN row.start >= Due(l, dates)
           ELSE WorkingHoursBetween(Calendar(l.to), row.finish, Due(l, dates)) = 0
<1>1. PICK t \in Tasks : t = l.to /\ l \in Into(t) /\ dates[l.from] \in Dates
  BY NetTyped DEF Dated, Sources
<1>2. PICK b \in Int, f \in Int, n \in Nat : b = Begin(t, dates) /\ n = Remaining(t) /\ f = AddHours(t, b, n) /\ row.start = b /\ row.finish = f
  <2>1. Begin(t, dates) \in Int /\ Remaining(t) \in Nat
    BY <1>1, BeginTyped, KindsOf
  <2>2. row = [start |-> Begin(t, dates), finish |-> AddHours(t, Begin(t, dates), Remaining(t))]
    BY <1>1, EarlyCases
  <2>3. AddHours(t, Begin(t, dates), Remaining(t)) \in Int
    BY <2>1, Walks
  <2> QED
    BY <2>1, <2>2, <2>3
<1>3. PICK y \in Int, d \in Int : y = EarlyStartBy(l, dates) /\ d = Due(l, dates)
  BY <1>1, DueTyped
<1>4. y <= b
  <2>1. y \in BeginBounds(t, dates)
    BY <1>1, <1>3 DEF BeginBounds
  <2> QED
    BY <1>1, <1>2, <2>1, BeginTyped
<1>5. CASE l.type \in {"FS", "SS"}
  <2>1. y = d
    BY <1>1, <1>3, <1>5, DueTyped
  <2> QED
    BY <1>2, <1>3, <1>4, <1>5, <2>1
<1>6. CASE l.type \notin {"FS", "SS"}
  <2>1. HoursTo(t, y) = HoursTo(t, d) - n
    BY <1>1, <1>2, <1>3, <1>6, DueTyped
  <2>2. HoursTo(t, f) = HoursTo(t, b) + n
    BY <1>2, Walks
  <2>3. HoursTo(t, y) <= HoursTo(t, b)
    BY <1>4, HoursBetween
  <2>4. HoursTo(t, y) \in Int /\ HoursTo(t, b) \in Int /\ HoursTo(t, d) \in Int /\ HoursTo(t, f) \in Int
    BY HoursBetween
  <2>5. HoursTo(t, d) <= HoursTo(t, f)
    BY <2>1, <2>2, <2>3, <2>4
  <2>6. WorkingHoursBetween(Calendar(t), f, d) = 0
    BY <2>5, HoursBetween
  <2> QED
    BY <1>1, <1>2, <1>3, <1>6, <2>6
<1> QED
  BY <1>5, <1>6

\* The early dates computed so far are those of the tasks and their predecessors.
EarlyRight ==
    /\ DOMAIN early \subseteq Tasks
    /\ \A t \in DOMAIN early :
          early[t] \in Dates /\ Sources(t) \subseteq DOMAIN early /\ early[t] = EarlyDates(t, early)

LEMMA EarlyHonours ==
    ASSUME net \in Networks, EarlyRight PROVE LinksHonoured
<1>1. \A t \in DOMAIN early : t \in Tasks /\ Dated(early, Sources(t)) /\ early[t] = EarlyDates(t, early)
  BY DEF EarlyRight, Dated
<1>2. RemainingWorkFits
  BY <1>1, WorkFits DEF RemainingWorkFits
<1>3. ASSUME NEW l \in net.links, Kind(l.to) = "new", {l.from, l.to} \subseteq DOMAIN early
      PROVE  IF l.type \in {"FS", "SS"} THEN early[l.to].start >= Due(l, early)
             ELSE WorkingHoursBetween(Calendar(l.to), early[l.to].finish, Due(l, early)) = 0
  BY <1>1, <1>3, LinkHolds
<1>4. DependenciesHonoured
  BY <1>3 DEF DependenciesHonoured
<1> QED
  BY <1>2, <1>4 DEF LinksHonoured

-----------------------------------------------------------------------------
(* Late dates *)

AllDated == DOMAIN early = Tasks /\ \A t \in Tasks : early[t] \in Dates

LEMMA FinishTyped ==
    ASSUME AllDated PROVE ProjectFinish \in Int /\ \A t \in Tasks : early[t].finish <= ProjectFinish
<1>0. \A t \in Tasks : early[t].finish \in Int
  BY DEF AllDated, Dates
<1> DEFINE f == [t \in Tasks |-> early[t].finish]
           S == {f[t] : t \in Tasks}
<1>1. S = {early[t].finish : t \in Tasks} /\ S \in SUBSET Int /\ S # {}
  BY <1>0, NetworksAssumption
<1>2. IsFiniteSet(S)
  BY NetworksAssumption, FiniteImage
<1>3. Max(S) \in S /\ \A x \in S : x <= Max(S)
  <2> HIDE DEF S
  <2> QED
    BY <1>1, <1>2, MaxOf
<1>4. ProjectFinish = Max(S)
  BY <1>1 DEF ProjectFinish
<1> HIDE DEF f
<1>5. \A t \in Tasks : early[t].finish \in S
  BY <1>1
<1> QED
  BY <1>1, <1>3, <1>4, <1>5

LEMMA LateBoundTyped ==
    ASSUME net \in Networks, NEW dates, NEW l \in net.links, dates[l.to] \in Dates
    PROVE  /\ LateFinishBy(l, dates) \in Int
           /\ HoursTo(l.from, LateFinishBy(l, dates)) =
                 HoursTo(l.from, IF l.type \in {"FS", "SS"} THEN dates[l.to].start ELSE dates[l.to].finish) - l.lag
                 + (IF l.type \in {"FS", "FF"} THEN 0 ELSE Remaining(l.from))
<1>1. l.from \in Tasks /\ l.lag \in Int
  BY NetTyped
<1>2. PICK x \in Int : x = (IF l.type \in {"FS", "SS"} THEN dates[l.to].start ELSE dates[l.to].finish)
  BY DEF Dates
<1>3. PICK y \in Int : y = SubtractHours(l.from, x, l.lag) /\ HoursTo(l.from, y) = HoursTo(l.from, x) - l.lag
  BY <1>1, Walks
<1>4. Remaining(l.from) \in Int
  BY <1>1, KindsOf
<1>5. PICK z \in Int : z = AddHours(l.from, y, Remaining(l.from)) /\ HoursTo(l.from, z) = HoursTo(l.from, y) + Remaining(l.from)
  BY <1>1, <1>4, Walks
<1>6. LateFinishBy(l, dates) = IF l.type \in {"FS", "FF"} THEN y ELSE z
  BY <1>2, <1>3, <1>5 DEF LateFinishBy
<1>7. HoursTo(l.from, y) \in Int
  BY <1>1, Walks
<1> QED
  BY <1>2, <1>3, <1>5, <1>6, <1>7

\* The latest finish that the links and the project allow a task.
EndBounds(t, dates) == {LateFinishBy(l, dates) : l \in Binding(t)}
End(t, dates) == IF EndBounds(t, dates) = {} THEN ProjectFinish ELSE Min(EndBounds(t, dates))

LEMMA EndTyped ==
    ASSUME net \in Networks, AllDated, NEW t \in Tasks, NEW dates, Dated(dates, Targets(t))
    PROVE  /\ End(t, dates) \in Int
           /\ EndBounds(t, dates) # {} => End(t, dates) \in EndBounds(t, dates)
           /\ \A x \in EndBounds(t, dates) : x \in Int /\ End(t, dates) <= x
           /\ EndBounds(t, dates) = {} <=> Binding(t) = {}
<1>1. \A l \in Binding(t) : l \in net.links /\ dates[l.to] \in Dates
  BY NetTyped DEF Dated, Targets
<1>2. \A l \in Binding(t) : LateFinishBy(l, dates) \in Int
  BY <1>1, LateBoundTyped
<1>3. IsFiniteSet(EndBounds(t, dates))
  <2> DEFINE f == [l \in Binding(t) |-> LateFinishBy(l, dates)]
  <2>1. IsFiniteSet({f[l] : l \in Binding(t)})
    BY NetTyped, FiniteImage
  <2>2. {f[l] : l \in Binding(t)} = EndBounds(t, dates)
    BY DEF EndBounds
  <2> QED
    BY <2>1, <2>2
<1>4. EndBounds(t, dates) \in SUBSET Int
  BY <1>2 DEF EndBounds
<1>5. EndBounds(t, dates) = {} <=> Binding(t) = {}
  BY DEF EndBounds
<1>6. CASE EndBounds(t, dates) = {}
  BY <1>5, <1>6, FinishTyped DEF End
<1>7. CASE EndBounds(t, dates) # {}
  <2>1. Min(EndBounds(t, dates)) \in EndBounds(t, dates) /\ \A x \in EndBounds(t, dates) : Min(EndBounds(t, dates)) <= x
    BY <1>3, <1>4, <1>7, MinOf
  <2> QED
    BY <1>4, <1>5, <1>7, <2>1 DEF End
<1> QED
  BY <1>6, <1>7

LEMMA LateCases ==
    ASSUME net \in Networks, NEW t \in Tasks, NEW dates
    PROVE  LateDates(t, dates) =
              IF Kind(t) \in {"done", "external"} THEN early[t]
              ELSE [start |-> SubtractHours(t, End(t, dates), Remaining(t)), finish |-> End(t, dates)]
BY DEF LateDates, End, EndBounds

LEMMA LateTyped ==
    ASSUME net \in Networks, AllDated, NEW t \in Tasks, NEW dates, Dated(dates, Targets(t))
    PROVE  LateDates(t, dates) \in Dates
<1>1. End(t, dates) \in Int /\ Remaining(t) \in Int
  BY EndTyped, KindsOf
<1>2. SubtractHours(t, End(t, dates), Remaining(t)) \in Int
  BY <1>1, Walks
<1>3. early[t] \in Dates
  BY DEF AllDated
<1> QED
  BY <1>1, <1>2, <1>3, LateCases DEF Dates

LEMMA LateAgree ==
    ASSUME NEW t, NEW d, NEW e, \A u \in Targets(t) : d[u] = e[u]
    PROVE  LateDates(t, d) = LateDates(t, e)
<1>1. \A l \in Binding(t) : d[l.to] = e[l.to]
  BY DEF Targets, Binding
<1>2. \A l \in Binding(t) : LateFinishBy(l, d) = LateFinishBy(l, e)
  BY <1>1 DEF LateFinishBy
<1>3. {LateFinishBy(l, d) : l \in Binding(t)} = {LateFinishBy(l, e) : l \in Binding(t)}
  BY <1>2
<1> QED
  BY <1>3 DEF LateDates

LEMMA LateKept ==
    ASSUME net' = net, early' = early, NEW t
    PROVE  LateDates(t, late)' = LateDates(t, late')
<1>1. \A l : Calendar(l.from)' = Calendar(l.from) /\ Remaining(l.from)' = Remaining(l.from) /\ Kind(l.to)' = Kind(l.to)
  BY NetKept
<1>2. \A l : LateFinishBy(l, late)' = LateFinishBy(l, late')
  BY <1>1 DEF LateFinishBy, AddHours, SubtractHours
<1>3. Binding(t)' = Binding(t)
  BY <1>1, NetKept DEF Binding
<1>4. {LateFinishBy(l, late) : l \in Binding(t)}' = {LateFinishBy(l, late') : l \in Binding(t)}
  BY <1>2, <1>3
<1>5. ProjectFinish' = ProjectFinish
  BY DEF ProjectFinish
<1> QED
  BY <1>4, <1>5, NetKept DEF LateDates, SubtractHours

LateRight ==
    /\ DOMAIN late \subseteq Tasks
    /\ \A t \in DOMAIN late :
          late[t] \in Dates /\ Targets(t) \subseteq DOMAIN late /\ late[t] = LateDates(t, late)

-----------------------------------------------------------------------------
(* The order of the sort *)

Placed(k) == {order[i] : i \in 1..k}
PlacedFrom(k) == {order[i] : i \in k..Len(order)}

\* No task comes twice, and each comes after its predecessors.
Ordered ==
    /\ order \in Seq(Tasks) /\ Len(order) <= Cardinality(Tasks)
    /\ \A i, j \in 1..Len(order) : order[i] = order[j] => i = j
    /\ \A i \in 1..Len(order) : Sources(order[i]) \subseteq Placed(i - 1)

LEMMA TasksCounted == IsFiniteSet(Tasks) /\ Tasks # {} /\ Cardinality(Tasks) \in Nat \ {0}
BY NetworksAssumption, FS_CardinalityType, FS_EmptySet

\* The number of tasks between two places of the order.
LEMMA StretchCount ==
    ASSUME Ordered, NEW j \in 1..(Len(order) + 1), NEW k \in Nat, k <= Len(order), j <= k + 1
    PROVE  LET S == {order[i] : i \in j..k} IN S \subseteq Tasks /\ IsFiniteSet(S) /\ Cardinality(S) = k - j + 1
<1> DEFINE S == {order[i] : i \in j..k}
           n == k - j + 1
           f == [i \in 1..n |-> order[i + j - 1]]
<1>0. Len(order) \in Nat /\ n \in Nat /\ j \in Nat /\ 1 <= j
  BY DEF Ordered
<1>1. \A i \in j..k : i \in 1..Len(order) /\ order[i] \in Tasks
  BY <1>0 DEF Ordered
<1>2. f \in Injection(1..n, S)
  <2>1. \A i \in 1..n : i + j - 1 \in j..k
    BY <1>0
  <2>2. \A i \in 1..n : f[i] \in S /\ f[i] = order[i + j - 1]
    BY <2>1
  <2>3. \A a, b \in 1..n : f[a] = f[b] => a = b
    <3>1. TAKE a, b \in 1..n
    <3>2. HAVE f[a] = f[b]
    <3>3. a + j - 1 \in 1..Len(order) /\ b + j - 1 \in 1..Len(order) /\ order[a + j - 1] = order[b + j - 1]
      BY <1>1, <2>1, <2>2, <3>2
    <3>4. a + j - 1 = b + j - 1
      BY <3>3 DEF Ordered
    <3> QED
      BY <1>0, <3>4
  <2>4. f \in [1..n -> S]
    BY <2>1
  <2> HIDE DEF f, n, S
  <2> QED
    BY <2>3, <2>4 DEF Injection, IsInjective
<1>3. \A x \in S : \E i \in 1..n : f[i] = x
  <2>1. TAKE x \in S
  <2>2. PICK i \in j..k : x = order[i]
    OBVIOUS
  <2>3. PICK a \in 1..n : a + j - 1 = i
    <3>1. i - j + 1 \in 1..n /\ (i - j + 1) + j - 1 = i
      BY <1>0
    <3> QED
      BY <3>1
  <2>4. f[a] = order[a + j - 1]
    OBVIOUS
  <2> QED
    BY <2>2, <2>3, <2>4
<1>4. ExistsBijection(1..n, S)
  <2> HIDE DEF f, S, n
  <2>1. f \in Surjection(1..n, S)
    BY <1>2, <1>3 DEF Surjection, Injection
  <2> QED
    BY <1>2, <2>1 DEF ExistsBijection, Bijection
<1>5. S \subseteq Tasks
  BY <1>1
<1>6. IsFiniteSet(S) /\ Cardinality(S) = n
  <2> HIDE DEF S, n
  <2> QED
    BY <1>0, <1>4, <1>5, FS_CountingElements, FS_Subset, TasksCounted
<1> QED
  BY <1>5, <1>6

\* An order of all the tasks has every task, and successors in its later part.
LEMMA WholeOrder ==
    ASSUME net \in Networks, Ordered, Len(order) = Cardinality(Tasks)
    PROVE  /\ Placed(Len(order)) = Tasks /\ Len(order) \in Nat \ {0}
           /\ \A t \in Tasks : \E i \in 1..Len(order) : order[i] = t
           /\ \A i \in 1..Len(order) : Targets(order[i]) \subseteq PlacedFrom(i + 1)
<1>0. Len(order) \in Nat \ {0}
  BY TasksCounted
<1>1. Placed(Len(order)) = Tasks
  <2>1. /\ Placed(Len(order)) \subseteq Tasks /\ IsFiniteSet(Placed(Len(order)))
        /\ Cardinality(Placed(Len(order))) = Len(order) - 1 + 1
    <3>1. 1 \in 1..(Len(order) + 1) /\ Len(order) \in Nat /\ 1 <= Len(order) + 1 /\ Len(order) <= Len(order)
      BY <1>0
    <3> QED
      BY <3>1, StretchCount DEF Placed
  <2>2. Cardinality(Placed(Len(order))) = Cardinality(Tasks)
    BY <1>0, <2>1
  <2> QED
    BY <2>1, <2>2, FS_Subset, TasksCounted
<1>2. \A t \in Tasks : \E i \in 1..Len(order) : order[i] = t
  BY <1>1 DEF Placed
<1>3. ASSUME NEW i \in 1..Len(order), NEW u \in Targets(order[i]) PROVE u \in PlacedFrom(i + 1)
  <2>1. PICK l \in net.links : l.from = order[i] /\ l.to = u
    BY DEF Targets, OutOf
  <2>2. u \in Tasks /\ l \in Into(u)
    BY <2>1, NetTyped
  <2>3. PICK j \in 1..Len(order) : order[j] = u
    BY <1>2, <2>2
  <2>4. order[i] \in Placed(j - 1)
    BY <2>1, <2>2, <2>3 DEF Ordered, Sources
  <2>5. PICK k \in 1..(j - 1) : order[k] = order[i]
    BY <2>4 DEF Placed
  <2>6. k \in 1..Len(order)
    BY <1>0
  <2>7. k = i
    BY <2>5, <2>6 DEF Ordered
  <2>8. j \in (i + 1)..Len(order)
    BY <1>0, <2>7
  <2> QED
    BY <2>3, <2>8 DEF PlacedFrom
<1> QED
  BY <1>0, <1>1, <1>2, <1>3

\* Along links the order grows, so that no cycle comes back to its first task.
LEMMA OrderedAcyclic ==
    ASSUME net \in Networks, Ordered, Len(order) = Cardinality(Tasks) PROVE ~Cyclic
<1> SUFFICES ASSUME Cyclic PROVE FALSE
  OBVIOUS
<1>0. Len(order) \in Nat \ {0}
  BY WholeOrder
<1>a. PICK n \in 1..Cardinality(Tasks) : \E p \in [1..n -> Tasks] :
         \A i \in 1..n : \E l \in OutOf(p[i]) : l.to = p[IF i = n THEN 1 ELSE i + 1]
  BY DEF Cyclic
<1>1. PICK p \in [1..n -> Tasks] :
         \A i \in 1..n : \E l \in OutOf(p[i]) : l.to = p[IF i = n THEN 1 ELSE i + 1]
  BY <1>a
<1>2. n \in Nat \ {0}
  BY TasksCounted
<1> DEFINE Place(t) == CHOOSE i \in 1..Len(order) : order[i] = t
<1>3. \A t \in Tasks : Place(t) \in 1..Len(order) /\ order[Place(t)] = t
  BY WholeOrder
<1>4. ASSUME NEW t \in Tasks, NEW l \in OutOf(t) PROVE Place(t) + 1 <= Place(l.to)
  <2>1. l.to \in Targets(t) /\ l.to \in Tasks
    BY NetTyped DEF Targets
  <2>2. PICK i \in 1..Len(order) : i = Place(t) /\ order[i] = t
    BY <1>3
  <2>3. l.to \in PlacedFrom(i + 1)
    BY <2>1, <2>2, WholeOrder
  <2>4. PICK j \in (i + 1)..Len(order) : order[j] = l.to
    BY <2>3 DEF PlacedFrom
  <2>5. j \in 1..Len(order) /\ j \in Int
    BY <1>0, <2>2, <2>4
  <2>6. Place(l.to) \in 1..Len(order) /\ order[Place(l.to)] = l.to
    BY <1>3, <2>1
  <2>7. Place(l.to) = j
    <3> HIDE DEF Place
    <3> QED
      BY <2>4, <2>5, <2>6 DEF Ordered
  <2> HIDE DEF Place
  <2> QED
    BY <2>2, <2>4, <2>7
<1> DEFINE T == {i \in Nat : i + 1 <= n => Place(p[1]) + i <= Place(p[i + 1])}
<1> HIDE DEF Place
<1>5. \A i \in 1..n : p[i] \in Tasks /\ Place(p[i]) \in Int
  <2>1. \A i \in 1..n : p[i] \in Tasks
    OBVIOUS
  <2> QED
    BY <1>3, <2>1
<1>6. 0 \in T
  <2>1. 1 \in 1..n
    BY <1>2
  <2>2. Place(p[1]) \in Int /\ 0 + 1 = 1
    BY <1>5, <2>1
  <2>3. Place(p[1]) + 0 <= Place(p[1])
    BY <2>2
  <2> QED
    BY <2>2, <2>3
<1>7. ASSUME NEW i \in T PROVE i + 1 \in T
  <2>1. SUFFICES ASSUME (i + 1) + 1 <= n PROVE Place(p[1]) + (i + 1) <= Place(p[(i + 1) + 1])
    OBVIOUS
  <2>2. i \in Nat /\ i + 1 \in 1..n /\ (i + 1) + 1 \in 1..n /\ i + 1 # n /\ 1 \in 1..n
    BY <1>2, <2>1
  <2>3. PICK l \in OutOf(p[i + 1]) : l.to = p[(i + 1) + 1]
    BY <1>1, <2>2
  <2>4. Place(p[i + 1]) + 1 <= Place(p[(i + 1) + 1])
    BY <1>4, <1>5, <2>2, <2>3
  <2>5. Place(p[1]) + i <= Place(p[i + 1])
    BY <2>2
  <2>6. Place(p[1]) \in Int /\ Place(p[i + 1]) \in Int /\ Place(p[(i + 1) + 1]) \in Int
    BY <1>5, <2>2
  <2> QED
    BY <2>2, <2>4, <2>5, <2>6
<1>8. T = Nat
  <2>1. T \in SUBSET Nat
    OBVIOUS
  <2> HIDE DEF T
  <2> QED
    BY <1>6, <1>7, <2>1, NumbersFrom0
<1>9. Place(p[1]) + (n - 1) <= Place(p[n])
  <2>1. n - 1 \in T /\ (n - 1) + 1 = n
    BY <1>2, <1>8
  <2> QED
    BY <1>2, <2>1
<1>10. Place(p[n]) + 1 <= Place(p[1])
  <2>1. n \in 1..n
    BY <1>2
  <2>2. PICK l \in OutOf(p[n]) : l.to = p[1]
    BY <1>1, <2>1
  <2> QED
    BY <1>4, <1>5, <2>1, <2>2
<1>11. Place(p[1]) \in Int /\ Place(p[n]) \in Int
  BY <1>2, <1>5
<1> QED
  BY <1>2, <1>9, <1>10, <1>11

\* Tasks each of which has a predecessor among them contain a cycle.
LEMMA StuckIsCyclic ==
    ASSUME net \in Networks, NEW S \in SUBSET Tasks, S # {}, \A t \in S : \E l \in Into(t) : l.from \in S
    PROVE  Cyclic
<1>0. IsFiniteSet(S) /\ Cardinality(S) \in Nat \ {0} /\ Cardinality(S) <= Cardinality(Tasks) /\ Cardinality(Tasks) \in Nat
  BY TasksCounted, FS_Subset, FS_CardinalityType, FS_EmptySet
<1> DEFINE Back(t) == CHOOSE u \in S : \E l \in Into(t) : l.from = u
           Chain(m, g) == \A i \in 0..(m - 1) : g[i + 1] = Back(g[i])
           T == {m \in Nat : \E g \in [0..m -> S] : Chain(m, g)}
<1>1. \A t \in S : Back(t) \in S /\ \E l \in Into(t) : l.from = Back(t)
  OBVIOUS
<1> HIDE DEF Back
<1>2. 0 \in T
  <2>1. PICK t \in S : TRUE
    OBVIOUS
  <2>2. [i \in 0..0 |-> t] \in [0..0 -> S] /\ Chain(0, [i \in 0..0 |-> t])
    OBVIOUS
  <2> QED
    BY <2>2
<1>3. ASSUME NEW m \in T PROVE m + 1 \in T
  <2>1. PICK g \in [0..m -> S] : Chain(m, g)
    OBVIOUS
  <2>2. m \in 0..m /\ g[m] \in S /\ \A i \in 0..(m + 1) : i # m + 1 => i \in 0..m
    OBVIOUS
  <2> DEFINE h == [i \in 0..(m + 1) |-> IF i = m + 1 THEN Back(g[m]) ELSE g[i]]
  <2>3. h \in [0..(m + 1) -> S]
    BY <1>1, <2>2
  <2>4. ASSUME NEW i \in 0..((m + 1) - 1) PROVE h[i + 1] = Back(h[i])
    <3>1. i \in 0..(m + 1) /\ i + 1 \in 0..(m + 1) /\ i # m + 1
      OBVIOUS
    <3>2. CASE i = m
      BY <3>1, <3>2
    <3>3. CASE i # m
      <4>1. i \in 0..(m - 1) /\ i + 1 # m + 1
        BY <3>3
      <4> QED
        BY <2>1, <3>1, <4>1
    <3> QED
      BY <3>2, <3>3
  <2>5. Chain(m + 1, h)
    BY <2>4
  <2> HIDE DEF h
  <2> QED
    BY <2>3, <2>5
<1>4. T = Nat
  <2>1. T \in SUBSET Nat
    OBVIOUS
  <2> HIDE DEF T
  <2> QED
    BY <1>2, <1>3, <2>1, NumbersFrom0
<1>5. PICK m \in Nat : m = Cardinality(S)
  BY <1>0
<1>6. PICK g \in [0..m -> S] : Chain(m, g)
  BY <1>4
<1>7. PICK i \in 0..m, j \in 0..m : i < j /\ g[i] = g[j]
  <2>1. IsFiniteSet(0..m) /\ Cardinality(0..m) = m + 1
    BY FS_Interval
  <2>2. \E x, y \in 0..m : x # y /\ g[x] = g[y]
    BY <1>0, <1>5, <2>1, FS_PigeonHole
  <2> QED
    BY <2>2
<1>8. PICK n \in Nat : n = j - i /\ n \in 1..Cardinality(Tasks) /\ n <= j
  BY <1>0, <1>5, <1>7
<1> DEFINE p == [k \in 1..n |-> g[j - k + 1]]
<1>9. p \in [1..n -> Tasks]
  <2>1. \A k \in 1..n : j - k + 1 \in 0..m
    BY <1>7, <1>8
  <2> QED
    BY <2>1
<1>10. ASSUME NEW k \in 1..n PROVE \E l \in OutOf(p[k]) : l.to = p[IF k = n THEN 1 ELSE k + 1]
  <2>1. j - k \in 0..(m - 1) /\ j - k + 1 = (j - k) + 1 /\ j - k \in 0..m
    BY <1>7, <1>8
  <2>2. p[k] = Back(g[j - k])
    BY <1>6, <2>1
  <2>3. p[IF k = n THEN 1 ELSE k + 1] = g[j - k]
    <3>1. CASE k = n
      <4>1. j - k = i /\ 1 \in 1..n /\ j - 1 + 1 = j
        BY <1>7, <1>8, <3>1
      <4>2. p[1] = g[j]
        BY <4>1
      <4> QED
        BY <1>7, <3>1, <4>1, <4>2
    <3>2. CASE k # n
      <4>1. k + 1 \in 1..n /\ j - (k + 1) + 1 = j - k
        BY <1>7, <1>8, <3>2
      <4> QED
        BY <3>2, <4>1
    <3> QED
      BY <3>1, <3>2
  <2>4. g[j - k] \in S
    BY <2>1
  <2>5. PICK l \in Into(g[j - k]) : l.from = p[k]
    BY <1>1, <2>2, <2>4
  <2>6. l \in OutOf(p[k]) /\ l.to = g[j - k]
    BY <2>5 DEF Into, OutOf
  <2> QED
    BY <2>3, <2>6
<1> HIDE DEF p
<1> QED
  BY <1>8, <1>9, <1>10 DEF Cyclic

-----------------------------------------------------------------------------
(* The run of the engine *)

FloatsOf ==
    [t \in {u \in Tasks : Kind(u) # "external"} |->
        [float |-> TotalFloat(t), free |-> FreeFloat(t), critical |-> Critical(t)]]

\* The order, the dates and the floats after each step.
CpmInv ==
    /\ net \in Networks /\ Ordered /\ EarlyRight /\ LateRight
    /\ step \in {"sort", "cycle", "forward", "backward", "save", "saved"}
    /\ step \in {"sort", "cycle"} => early = Nothing /\ Len(order) < Cardinality(Tasks)
    /\ step = "cycle" => \A t \in Tasks \ Sorted : \E l \in Into(t) : l.from \notin Sorted
    /\ step \in {"forward", "backward", "save", "saved"} => Len(order) = Cardinality(Tasks)
    /\ step = "forward" => \E k \in Nat : k < Len(order) /\ DOMAIN early = Placed(k)
    /\ step \in {"sort", "cycle", "forward"} => late = Nothing
    /\ step \in {"backward", "save", "saved"} => DOMAIN early = Tasks
    /\ step = "backward" => \E k \in Nat : k < Len(order) /\ DOMAIN late = PlacedFrom(Len(order) - k + 1)
    /\ step \in {"save", "saved"} => DOMAIN late = Tasks
    /\ floats = IF step = "saved" THEN FloatsOf ELSE Nothing

LEMMA CpmStarts == CpmInit => CpmInv
<1> SUFFICES ASSUME CpmInit PROVE CpmInv
  OBVIOUS
<1>1. /\ net \in Networks /\ step = "sort" /\ order = <<>>
      /\ early = Nothing /\ late = Nothing /\ floats = Nothing
  BY DEF CpmInit
<1>2. Ordered
  <2>1. order \in Seq(Tasks) /\ Len(order) = 0
    BY <1>1
  <2> QED
    BY <2>1, TasksCounted DEF Ordered
<1>3. DOMAIN Nothing = {}
  BY DEF Nothing
<1>4. EarlyRight /\ LateRight
  BY <1>1, <1>3 DEF EarlyRight, LateRight
<1>5. Len(order) < Cardinality(Tasks)
  BY <1>1, TasksCounted
<1> QED
  BY <1>1, <1>2, <1>4, <1>5 DEF CpmInv

LEMMA OrderKept ==
    ASSUME net' = net, order' = order
    PROVE  /\ Ordered' <=> Ordered
           /\ Sorted' = Sorted /\ \A k : Placed(k)' = Placed(k) /\ PlacedFrom(k)' = PlacedFrom(k)
BY DEF Ordered, Sorted, Placed, PlacedFrom, Sources, Into

LEMMA EarlyRightKept ==
    ASSUME net' = net, early' = early PROVE EarlyRight' <=> EarlyRight
<1>1. \A t : EarlyDates(t, early)' = EarlyDates(t, early) /\ Sources(t)' = Sources(t)
  BY EarlyKept, NetKept
<1> QED
  BY <1>1 DEF EarlyRight

LEMMA LateRightKept ==
    ASSUME net' = net, early' = early, late' = late PROVE LateRight' <=> LateRight
<1>1. \A t : LateDates(t, late)' = LateDates(t, late) /\ Targets(t)' = Targets(t)
  BY LateKept, NetKept
<1> QED
  BY <1>1 DEF LateRight

LEMMA NoLateRight == ASSUME late = Nothing PROVE LateRight
<1>1. DOMAIN late = {}
  BY DEF Nothing
<1> QED
  BY <1>1 DEF LateRight

LEMMA SortedIsPlaced == ASSUME Ordered PROVE Sorted = Placed(Len(order))
BY DEF Ordered, Sorted, Placed

LEMMA SortSteps ==
    ASSUME CpmInv, NEW t \in Tasks, Sort(t) PROVE CpmInv'
<1>0. /\ step = "sort" /\ t \notin Sorted /\ order' = Append(order, t)
      /\ \A l \in Into(t) : l.from \in Sorted
      /\ step' = (IF Len(order') = Cardinality(Tasks) THEN "forward" ELSE "sort")
      /\ net' = net /\ early' = early /\ late' = late /\ floats' = floats
  BY DEF Sort
<1>1. /\ net \in Networks /\ Ordered /\ EarlyRight /\ LateRight /\ early = Nothing /\ late = Nothing /\ floats = Nothing
      /\ Len(order) < Cardinality(Tasks)
  BY <1>0 DEF CpmInv
<1>2. PICK n \in Nat : /\ n = Len(order) /\ Len(order') = n + 1 /\ order' \in Seq(Tasks) /\ order'[n + 1] = t
                       /\ \A i \in 1..n : order'[i] = order[i]
  <2>1. order \in Seq(Tasks)
    BY <1>1 DEF Ordered
  <2> QED
    BY <1>0, <2>1
<1>3. \A k \in 0..n : Placed(k)' = Placed(k)
  BY <1>2 DEF Placed
<1>4. n + 1 <= Cardinality(Tasks)
  BY <1>1, <1>2, TasksCounted
<1>5. \A i : Sources(order[i])' = Sources(order'[i])
  BY <1>0 DEF Sources, Into
<1>6. Sorted = Placed(n)
  BY <1>1, <1>2, SortedIsPlaced
<1>7. \A i, j \in 1..(n + 1) : order'[i] = order'[j] => i = j
  <2>1. \A i \in 1..n : order[i] # t
    BY <1>0, <1>6 DEF Placed
  <2>2. \A i, j \in 1..n : order[i] = order[j] => i = j
    BY <1>1, <1>2 DEF Ordered
  <2>3. \A i \in 1..(n + 1) : i \in 1..n \/ i = n + 1
    OBVIOUS
  <2> QED
    BY <1>2, <2>1, <2>2, <2>3
<1>8. ASSUME NEW i \in 1..(n + 1) PROVE Sources(order[i])' \subseteq Placed(i - 1)'
  <2>1. CASE i = n + 1
    <3>1. Sources(t) \subseteq Placed(n)
      BY <1>0, <1>6 DEF Sources
    <3>2. i - 1 = n /\ n \in 0..n
      BY <2>1
    <3>3. Sources(order[i])' = Sources(t)
      BY <1>2, <1>5, <2>1
    <3> QED
      BY <1>3, <3>1, <3>2, <3>3
  <2>2. CASE i # n + 1
    <3>1. i \in 1..n /\ i - 1 \in 0..n
      BY <2>2
    <3>2. Sources(order[i]) \subseteq Placed(i - 1)
      BY <1>1, <1>2, <3>1 DEF Ordered
    <3>3. Sources(order[i])' = Sources(order[i])
      BY <1>2, <1>5, <3>1
    <3> QED
      BY <1>3, <3>1, <3>2, <3>3
  <2> QED
    BY <2>1, <2>2
<1>9. Ordered'
  BY <1>2, <1>4, <1>7, <1>8 DEF Ordered
<1>10. EarlyRight' /\ LateRight'
  BY <1>0, <1>1, EarlyRightKept, LateRightKept
<1>11. step' = "forward" => \E k \in Nat : k < Len(order') /\ DOMAIN early' = Placed(k)'
  <2>1. DOMAIN early = {} /\ Placed(0)' = {}
    BY <1>1 DEF Nothing, Placed
  <2>2. 0 \in Nat /\ 0 < Len(order')
    BY <1>2
  <2> QED
    BY <1>0, <2>1, <2>2
<1>12. Len(order') \in Nat /\ Cardinality(Tasks) \in Nat /\ Len(order') <= Cardinality(Tasks)
  BY <1>2, <1>4, TasksCounted
<1> QED
  BY <1>0, <1>1, <1>9, <1>10, <1>11, <1>12 DEF CpmInv, Nothing

LEMMA FindCycleSteps ==
    ASSUME CpmInv, FindCycle PROVE CpmInv'
<1>0. /\ step = "sort" /\ step' = "cycle" /\ \A t \in Tasks \ Sorted : \E l \in Into(t) : l.from \notin Sorted
      /\ net' = net /\ order' = order /\ early' = early /\ late' = late /\ floats' = floats
  BY DEF FindCycle
<1>1. \A t : Into(t)' = Into(t)
  BY <1>0, NetKept
<1>2. Ordered' /\ EarlyRight' /\ LateRight' /\ Sorted' = Sorted
  BY <1>0, OrderKept, EarlyRightKept, LateRightKept DEF CpmInv
<1> QED
  BY <1>0, <1>1, <1>2 DEF CpmInv, Nothing

LEMMA ForwardSteps ==
    ASSUME CpmInv, Forward PROVE CpmInv'
<1>0. /\ step = "forward" /\ net' = net /\ order' = order /\ late' = late /\ floats' = floats
      /\ net \in Networks /\ Ordered /\ EarlyRight /\ late = Nothing /\ floats = Nothing
      /\ Len(order) = Cardinality(Tasks)
  BY DEF Forward, CpmInv
<1>1. PICK k \in Nat : k < Len(order) /\ DOMAIN early = Placed(k)
  BY <1>0 DEF CpmInv
<1>2. PICK n \in Nat \ {0} : n = Len(order) /\ k + 1 \in 1..n /\ \A i \in 1..n : order[i] \in Tasks
  BY <1>0, <1>1, WholeOrder DEF Ordered
<1>3. Cardinality(DOMAIN early) = k
  <2>1. 1 \in 1..(Len(order) + 1) /\ k <= Len(order) /\ 1 <= k + 1
    BY <1>1, <1>2
  <2>2. Cardinality(Placed(k)) = k - 1 + 1
    BY <1>0, <1>1, <2>1, StretchCount DEF Placed
  <2> QED
    BY <1>1, <2>2
<1>4. PICK t \in Tasks : t = order[k + 1]
  BY <1>2
<1>5. t \notin Placed(k) /\ Placed(k + 1) = Placed(k) \cup {t}
  <2>1. \A i \in 1..k : i \in 1..n /\ i # k + 1
    BY <1>2
  <2>2. \A i \in 1..k : order[i] # t
    BY <1>0, <1>2, <1>4, <2>1 DEF Ordered
  <2>3. 1..(k + 1) = (1..k) \cup {k + 1}
    OBVIOUS
  <2> QED
    BY <1>4, <2>2, <2>3 DEF Placed
<1>6. Sources(t) \subseteq Placed(k)
  <2>1. (k + 1) - 1 = k
    OBVIOUS
  <2> QED
    BY <1>0, <1>2, <1>4, <2>1 DEF Ordered
<1>7. early' = [u \in DOMAIN early \cup {t} |-> IF u = t THEN EarlyDates(t, early) ELSE early[u]]
  BY <1>3, <1>4 DEF Forward
<1>8. DOMAIN early' = Placed(k + 1) /\ early'[t] = EarlyDates(t, early) /\ \A u \in Placed(k) : early'[u] = early[u]
  BY <1>1, <1>5, <1>7
<1>9. \A u : EarlyDates(u, early)' = EarlyDates(u, early') /\ Sources(u)' = Sources(u)
  BY <1>0, EarlyKept, NetKept
<1>10. ASSUME NEW u \in Placed(k + 1)
       PROVE  u \in Tasks /\ early'[u] \in Dates /\ Sources(u) \subseteq Placed(k + 1) /\ early'[u] = EarlyDates(u, early')
  <2>1. Sources(u) \subseteq Placed(k) /\ u \in Tasks /\ early'[u] = EarlyDates(u, early) /\ early'[u] \in Dates
    <3>1. CASE u = t
      <4>1. Dated(early, Sources(t))
        BY <1>0, <1>1, <1>6 DEF Dated, EarlyRight
      <4>2. EarlyDates(t, early) \in Dates
        BY <1>0, <4>1, EarlyTyped
      <4> QED
        BY <1>6, <1>8, <3>1, <4>2
    <3>2. CASE u # t
      <4>1. u \in Placed(k)
        BY <1>5, <3>2
      <4> QED
        BY <1>0, <1>1, <1>8, <4>1 DEF EarlyRight
    <3> QED
      BY <3>1, <3>2
  <2>2. \A v \in Sources(u) : early'[v] = early[v]
    BY <1>8, <2>1
  <2>3. EarlyDates(u, early') = EarlyDates(u, early)
    BY <2>2, EarlyAgree
  <2> QED
    BY <1>5, <2>1, <2>3
<1>11. EarlyRight'
  BY <1>8, <1>9, <1>10 DEF EarlyRight
<1>12. Ordered' /\ \A i : Placed(i)' = Placed(i) /\ PlacedFrom(i)' = PlacedFrom(i)
  BY <1>0, OrderKept
<1>13. LateRight'
  <2>1. late' = Nothing' /\ Nothing' = Nothing
    BY <1>0 DEF Nothing
  <2>2. DOMAIN late' = {}
    BY <1>0 DEF Nothing
  <2> QED
    BY <2>2 DEF LateRight
<1>14. CASE DOMAIN early' = Tasks
  <2>1. step' = "backward"
    BY <1>14 DEF Forward
  <2>2. DOMAIN late' = PlacedFrom(Len(order) - 0 + 1)
    <3>1. DOMAIN late' = {} /\ \A i \in (n - 0 + 1)..n : FALSE
      BY <1>0, <1>2 DEF Nothing
    <3> QED
      BY <1>2, <3>1 DEF PlacedFrom
  <2>3. \E i \in Nat : i < Len(order') /\ DOMAIN late' = PlacedFrom(Len(order) - i + 1)'
    BY <1>0, <1>2, <1>12, <2>2
  <2> QED
    BY <1>0, <1>11, <1>12, <1>13, <1>14, <2>1, <2>3 DEF CpmInv, Nothing
<1>15. CASE DOMAIN early' # Tasks
  <2>1. step' = "forward"
    BY <1>15 DEF Forward
  <2>2. k + 1 # n
    BY <1>0, <1>2, <1>8, <1>15, WholeOrder
  <2>3. k + 1 \in Nat /\ k + 1 < Len(order') /\ DOMAIN early' = Placed(k + 1)'
    BY <1>0, <1>2, <1>8, <1>12, <2>2
  <2> QED
    BY <1>0, <1>11, <1>12, <1>13, <2>1, <2>3 DEF CpmInv, Nothing
<1> QED
  BY <1>14, <1>15

LEMMA BackwardSteps ==
    ASSUME CpmInv, Backward PROVE CpmInv'
<1>0. /\ step = "backward" /\ net' = net /\ order' = order /\ early' = early /\ floats' = floats
      /\ net \in Networks /\ Ordered /\ EarlyRight /\ LateRight /\ DOMAIN early = Tasks /\ floats = Nothing
      /\ Len(order) = Cardinality(Tasks)
  BY DEF Backward, CpmInv
<1>1. PICK k \in Nat : k < Len(order) /\ DOMAIN late = PlacedFrom(Len(order) - k + 1)
  BY <1>0 DEF CpmInv
<1>2. PICK n \in Nat \ {0} : n = Len(order) /\ n - k \in 1..n /\ \A i \in 1..n : order[i] \in Tasks
  BY <1>0, <1>1, WholeOrder DEF Ordered
<1>3. Cardinality(DOMAIN late) = k
  <2>1. n - k + 1 \in 1..(Len(order) + 1) /\ n \in Nat /\ n <= Len(order) /\ n - k + 1 <= n + 1
    BY <1>1, <1>2
  <2>2. Cardinality({order[i] : i \in (n - k + 1)..n}) = n - (n - k + 1) + 1
    BY <1>0, <2>1, StretchCount
  <2>3. n - (n - k + 1) + 1 = k
    OBVIOUS
  <2> QED
    BY <1>1, <1>2, <2>2, <2>3 DEF PlacedFrom
<1>4. PICK t \in Tasks : t = order[n - k]
  BY <1>2
<1>5. t \notin PlacedFrom(n - k + 1) /\ PlacedFrom(n - k) = PlacedFrom(n - k + 1) \cup {t}
  <2>1. \A i \in (n - k + 1)..n : i \in 1..n /\ i # n - k
    BY <1>2
  <2>2. \A i \in (n - k + 1)..n : order[i] # t
    BY <1>0, <1>2, <1>4, <2>1 DEF Ordered
  <2>3. (n - k)..n = ((n - k + 1)..n) \cup {n - k}
    BY <1>2
  <2> QED
    BY <1>2, <1>4, <2>2, <2>3 DEF PlacedFrom
<1>6. Targets(t) \subseteq PlacedFrom(n - k + 1)
  BY <1>0, <1>2, <1>4, WholeOrder
<1>7. late' = [u \in DOMAIN late \cup {t} |-> IF u = t THEN LateDates(t, late) ELSE late[u]]
  BY <1>2, <1>3, <1>4 DEF Backward
<1>8. DOMAIN late' = PlacedFrom(n - k) /\ late'[t] = LateDates(t, late) /\ \A u \in PlacedFrom(n - k + 1) : late'[u] = late[u]
  BY <1>1, <1>2, <1>5, <1>7
<1>9. \A u : LateDates(u, late)' = LateDates(u, late') /\ Targets(u)' = Targets(u)
  BY <1>0, LateKept, NetKept
<1>10. AllDated
  BY <1>0 DEF AllDated, EarlyRight
<1>11. ASSUME NEW u \in PlacedFrom(n - k)
       PROVE  u \in Tasks /\ late'[u] \in Dates /\ Targets(u) \subseteq PlacedFrom(n - k) /\ late'[u] = LateDates(u, late')
  <2>1. Targets(u) \subseteq PlacedFrom(n - k + 1) /\ u \in Tasks /\ late'[u] = LateDates(u, late) /\ late'[u] \in Dates
    <3>1. CASE u = t
      <4>1. Dated(late, Targets(t))
        BY <1>0, <1>1, <1>2, <1>6 DEF Dated, LateRight
      <4>2. LateDates(t, late) \in Dates
        BY <1>0, <1>10, <4>1, LateTyped
      <4> QED
        BY <1>6, <1>8, <3>1, <4>2
    <3>2. CASE u # t
      <4>1. u \in PlacedFrom(n - k + 1)
        BY <1>5, <3>2
      <4> QED
        BY <1>0, <1>1, <1>2, <1>8, <4>1 DEF LateRight
    <3> QED
      BY <3>1, <3>2
  <2>2. \A v \in Targets(u) : late'[v] = late[v]
    BY <1>8, <2>1
  <2>3. LateDates(u, late') = LateDates(u, late)
    BY <2>2, LateAgree
  <2> QED
    BY <1>5, <2>1, <2>3
<1>12. LateRight'
  BY <1>8, <1>9, <1>11 DEF LateRight
<1>13. Ordered' /\ (\A i : Placed(i)' = Placed(i) /\ PlacedFrom(i)' = PlacedFrom(i)) /\ EarlyRight'
  BY <1>0, OrderKept, EarlyRightKept
<1>14. CASE DOMAIN late' = Tasks
  <2>1. step' = "save"
    BY <1>14 DEF Backward
  <2> QED
    BY <1>0, <1>12, <1>13, <1>14, <2>1 DEF CpmInv, Nothing
<1>15. CASE DOMAIN late' # Tasks
  <2>1. step' = "backward"
    BY <1>15 DEF Backward
  <2>2. k + 1 # n
    <3>1. ASSUME k + 1 = n PROVE FALSE
      <4>1. PlacedFrom(n - k) = Placed(n)
        <5>1. n - k = 1
          BY <3>1
        <5> QED
          BY <1>2, <5>1 DEF PlacedFrom, Placed
      <4> QED
        BY <1>0, <1>2, <1>8, <1>15, <4>1, WholeOrder
    <3> QED
      BY <3>1
  <2>3. k + 1 \in Nat /\ k + 1 < Len(order') /\ n - (k + 1) + 1 = n - k
    BY <1>0, <1>1, <1>2, <2>2
  <2>4. DOMAIN late' = PlacedFrom(Len(order) - (k + 1) + 1)'
    BY <1>0, <1>2, <1>8, <1>13, <2>3 DEF PlacedFrom
  <2> QED
    BY <1>0, <1>12, <1>13, <2>1, <2>3, <2>4 DEF CpmInv, Nothing
<1> QED
  BY <1>14, <1>15

LEMMA FloatsKept ==
    ASSUME net' = net, early' = early, late' = late PROVE FloatsOf' = FloatsOf
<1>1. \A t : Kind(t)' = Kind(t) /\ Binding(t)' = Binding(t)
  BY DEF Kind, Binding, OutOf
<1>2. \A t : TotalFloat(t)' = TotalFloat(t) /\ Critical(t)' = Critical(t)
  BY <1>1 DEF TotalFloat, Critical
<1>3. \A l : Due(l, early)' = Due(l, early)
  BY DEF Due, AddHours, Calendar
<1>4. \A t : FreeFloat(t)' = FreeFloat(t)
  BY <1>1, <1>2, <1>3 DEF FreeFloat
<1> QED
  BY <1>1, <1>2, <1>4 DEF FloatsOf

LEMMA SaveSteps ==
    ASSUME CpmInv, Save PROVE CpmInv'
<1>0. /\ step = "save" /\ step' = "saved" /\ net' = net /\ order' = order /\ early' = early /\ late' = late
      /\ floats' = FloatsOf
  BY DEF Save, FloatsOf
<1>1. FloatsOf' = FloatsOf
  BY <1>0, FloatsKept
<1>2. Ordered' /\ EarlyRight' /\ LateRight'
  BY <1>0, OrderKept, EarlyRightKept, LateRightKept DEF CpmInv
<1> QED
  BY <1>0, <1>1, <1>2 DEF CpmInv

LEMMA CpmStutters ==
    ASSUME CpmInv, UNCHANGED cpmVars PROVE CpmInv'
<1>0. /\ step' = step /\ net' = net /\ order' = order /\ early' = early /\ late' = late /\ floats' = floats
  BY DEF cpmVars
<1>1. FloatsOf' = FloatsOf /\ \A t : Into(t)' = Into(t)
  BY <1>0, FloatsKept, NetKept
<1>2. /\ Ordered' /\ EarlyRight' /\ LateRight' /\ Sorted' = Sorted
      /\ \A k : Placed(k)' = Placed(k) /\ PlacedFrom(k)' = PlacedFrom(k)
  BY <1>0, OrderKept, EarlyRightKept, LateRightKept DEF CpmInv
<1> QED
  BY <1>0, <1>1, <1>2 DEF CpmInv, Nothing

LEMMA CpmSteps ==
    ASSUME CpmInv, [CpmNext]_cpmVars PROVE CpmInv'
<1>1. CASE CpmNext
  <2>1. ASSUME NEW t \in Tasks, Sort(t) PROVE CpmInv'
    BY <2>1, SortSteps
  <2> QED
    BY <1>1, <2>1, FindCycleSteps, ForwardSteps, BackwardSteps, SaveSteps DEF CpmNext
<1>2. CASE UNCHANGED cpmVars
  BY <1>2, CpmStutters
<1> QED
  BY <1>1, <1>2

LEMMA TotalTyped ==
    ASSUME AllDated, DOMAIN late = Tasks, \A t \in Tasks : late[t] \in Dates, NEW t \in Tasks
    PROVE  TotalFloat(t) \in Int /\ Critical(t) \in BOOLEAN
<1>1. early[t].start \in Int /\ late[t].start \in Int
  BY DEF AllDated, Dates
<1> QED
  BY <1>1 DEF TotalFloat, Critical

\* How long before a link's successor the moment is that the link sets for it.
Slack(l) ==
    (IF l.type \in {"FS", "SS"} THEN early[l.to].start ELSE early[l.to].finish) - Due(l, early)

LEMMA SlackTyped ==
    ASSUME net \in Networks, AllDated, NEW t \in Tasks, Binding(t) # {}
    PROVE  LET S == {Slack(l) : l \in Binding(t)} IN
           /\ S \in SUBSET Int /\ IsFiniteSet(S) /\ S # {} /\ Min(S) \in S /\ \A x \in S : Min(S) <= x
<1> DEFINE S == {Slack(l) : l \in Binding(t)}
<1>1. \A l \in Binding(t) : l \in net.links /\ early[l.from] \in Dates /\ early[l.to] \in Dates
  BY NetTyped DEF AllDated
<1>2. \A l \in Binding(t) : Due(l, early) \in Int
  BY <1>1, DueTyped
<1>3. \A l \in Binding(t) : Slack(l) \in Int
  BY <1>1, <1>2 DEF Slack, Dates
<1>4. IsFiniteSet(S)
  <2> DEFINE f == [l \in Binding(t) |-> Slack(l)]
  <2>1. S = {f[l] : l \in Binding(t)}
    OBVIOUS
  <2>2. IsFiniteSet(Binding(t))
    BY NetTyped
  <2>3. IsFiniteSet({f[l] : l \in Binding(t)})
    BY <2>2, FiniteImage
  <2> QED
    BY <2>1, <2>3
<1>5. S \in SUBSET Int /\ S # {}
  BY <1>3
<1> HIDE DEF S
<1>6. Min(S) \in S /\ \A x \in S : Min(S) <= x
  BY <1>4, <1>5, MinOf
<1> QED
  BY <1>4, <1>5, <1>6 DEF S

LEMMA FreeCases ==
    ASSUME NEW t
    PROVE  FreeFloat(t) = CASE Kind(t) = "done" -> 0
                            [] Kind(t) # "done" /\ Binding(t) = {} -> TotalFloat(t)
                            [] Kind(t) # "done" /\ Binding(t) # {} -> Min({Slack(l) : l \in Binding(t)})
BY DEF FreeFloat, Slack

LEMMA FreeTyped ==
    ASSUME net \in Networks, AllDated, DOMAIN late = Tasks, \A t \in Tasks : late[t] \in Dates, NEW t \in Tasks
    PROVE  FreeFloat(t) \in Int
<1>1. TotalFloat(t) \in Int
  BY TotalTyped
<1>2. Binding(t) # {} => Min({Slack(l) : l \in Binding(t)}) \in Int
  BY SlackTyped
<1> QED
  BY <1>1, <1>2, FreeCases

LEMMA FloatsTyped ==
    ASSUME net \in Networks, AllDated, DOMAIN late = Tasks, \A t \in Tasks : late[t] \in Dates
    PROVE  /\ DOMAIN FloatsOf = {t \in Tasks : Kind(t) # "external"}
           /\ \A t \in DOMAIN FloatsOf : FloatsOf[t] \in Floats
<1>1. \A t \in Tasks : TotalFloat(t) \in Int /\ FreeFloat(t) \in Int /\ Critical(t) \in BOOLEAN
  BY TotalTyped, FreeTyped
<1>2. DOMAIN FloatsOf = {t \in Tasks : Kind(t) # "external"}
  BY DEF FloatsOf
<1>3. ASSUME NEW t \in DOMAIN FloatsOf PROVE FloatsOf[t] \in Floats
  <2>1. FloatsOf[t] = [float |-> TotalFloat(t), free |-> FreeFloat(t), critical |-> Critical(t)]
    BY <1>2 DEF FloatsOf
  <2> QED
    BY <1>1, <1>2, <2>1 DEF Floats
<1> QED
  BY <1>2, <1>3

LEMMA CpmTyped == ASSUME CpmInv PROVE CpmTypeOK
<1>1. /\ DOMAIN early \subseteq Tasks /\ \A t \in DOMAIN early : early[t] \in Dates
      /\ DOMAIN late \subseteq Tasks /\ \A t \in DOMAIN late : late[t] \in Dates
  BY DEF CpmInv, EarlyRight, LateRight
<1>2. DOMAIN floats \subseteq {t \in Tasks : Kind(t) # "external"} /\ \A t \in DOMAIN floats : floats[t] \in Floats
  <2>1. CASE step = "saved"
    <3>1. AllDated /\ DOMAIN late = Tasks /\ \A t \in Tasks : late[t] \in Dates
      BY <1>1, <2>1 DEF AllDated, CpmInv
    <3>2. floats = FloatsOf /\ net \in Networks
      BY <2>1 DEF CpmInv
    <3> QED
      BY <3>1, <3>2, FloatsTyped
  <2>2. CASE step # "saved"
    BY <2>2 DEF CpmInv, Nothing
  <2> QED
    BY <2>1, <2>2
<1>3. \A i \in DOMAIN order : order[i] \in Tasks
  BY DEF CpmInv, Ordered
<1> QED
  BY <1>1, <1>2, <1>3 DEF CpmInv, CpmTypeOK

LEMMA CpmReportsCycles == ASSUME CpmInv PROVE CycleReported
<1>1. ASSUME step = "cycle" PROVE Cyclic /\ early = Nothing
  <2>1. /\ net \in Networks /\ Ordered /\ early = Nothing /\ Len(order) < Cardinality(Tasks)
        /\ \A t \in Tasks \ Sorted : \E l \in Into(t) : l.from \notin Sorted
    BY <1>1 DEF CpmInv
  <2> DEFINE S == Tasks \ Sorted
  <2>2. \A t \in S : \E l \in Into(t) : l.from \in S
    BY <2>1, NetTyped
  <2>3. S # {}
    <3>1. ASSUME S = {} PROVE FALSE
      <4>1. Len(order) \in Nat /\ Len(order) <= Cardinality(Tasks)
        BY <2>1, TasksCounted DEF Ordered
      <4>2. PICK n \in Nat : n = Len(order)
        BY <4>1
      <4>3. Placed(n) \subseteq Tasks /\ Cardinality(Placed(n)) = n
        <5>1. 1 \in 1..(Len(order) + 1) /\ n <= Len(order) /\ 1 <= n + 1
          BY <4>2
        <5>2. Cardinality(Placed(n)) = n - 1 + 1 /\ Placed(n) \subseteq Tasks
          BY <2>1, <5>1, StretchCount DEF Placed
        <5> QED
          BY <5>2
      <4>4. Placed(n) = Tasks
        BY <2>1, <3>1, <4>2, <4>3, SortedIsPlaced
      <4> QED
        BY <2>1, <4>2, <4>3, <4>4
    <3> QED
      BY <3>1
  <2>4. S \in SUBSET Tasks
    OBVIOUS
  <2> HIDE DEF S
  <2> QED
    BY <2>1, <2>2, <2>3, <2>4, StuckIsCyclic
<1>2. ASSUME step \in {"forward", "saved"} PROVE ~Cyclic
  BY <1>2, OrderedAcyclic DEF CpmInv
<1> QED
  BY <1>1, <1>2 DEF CycleReported

-----------------------------------------------------------------------------
(* The run of the leveling engine *)

\* A leveling run is a CPM run until its save, and then keeps the early dates.
LevelInv ==
    /\ mode \in {"cpm", "leveling", "stored"}
    /\ mode = "cpm" => CpmInv
    /\ mode # "cpm" => /\ net \in Networks /\ EarlyRight /\ DOMAIN early = Tasks
                       /\ step = "save" /\ order = <<>> /\ late = Nothing /\ floats = Nothing

LEMMA LevelStarts == LevelInit => LevelInv
BY CpmStarts DEF LevelInit, LevelInv

LEMMA LevelSteps ==
    ASSUME LevelInv, [LevelNext]_levelVars PROVE LevelInv'
<1>1. ASSUME mode = "cpm", CpmNext, UNCHANGED <<mode, leveled, usage, delay>> PROVE LevelInv'
  <2>1. CpmInv'
    BY <1>1, CpmSteps DEF LevelInv
  <2> QED
    BY <1>1, <2>1 DEF LevelInv
<1>2. ASSUME StartLeveling PROVE LevelInv'
  <2>1. /\ mode = "cpm" /\ step = "save" /\ mode' = "leveling" /\ order' = <<>> /\ late' = Nothing
        /\ net' = net /\ step' = step /\ early' = early /\ floats' = floats
    BY <1>2 DEF StartLeveling
  <2>2. net \in Networks /\ EarlyRight /\ DOMAIN early = Tasks /\ floats = Nothing
    BY <2>1 DEF LevelInv, CpmInv
  <2>3. EarlyRight'
    BY <2>1, <2>2, EarlyRightKept
  <2> QED
    BY <2>1, <2>2, <2>3 DEF LevelInv, Nothing
<1>3. ASSUME UNCHANGED cpmVars, mode' = mode \/ (mode = "leveling" /\ mode' = "stored") PROVE LevelInv'
  <2>1. CASE mode = "cpm"
    <3>1. CpmInv'
      BY <1>3, <2>1, CpmStutters DEF LevelInv
    <3> QED
      BY <1>3, <2>1, <3>1 DEF LevelInv
  <2>2. CASE mode # "cpm"
    <3>1. net' = net /\ early' = early /\ step' = step /\ order' = order /\ late' = late /\ floats' = floats
      BY <1>3 DEF cpmVars
    <3>2. EarlyRight'
      BY <2>2, <3>1, EarlyRightKept DEF LevelInv
    <3> QED
      BY <1>3, <2>2, <3>1, <3>2 DEF LevelInv, Nothing
  <2> QED
    BY <2>1, <2>2
<1>4. ASSUME NEW t \in Tasks, LevelTask(t) PROVE LevelInv'
  BY <1>3, <1>4 DEF LevelTask
<1>5. ASSUME StoreLevels PROVE LevelInv'
  BY <1>3, <1>5 DEF StoreLevels
<1>6. ASSUME UNCHANGED levelVars PROVE LevelInv'
  BY <1>3, <1>6 DEF levelVars
<1> QED
  BY <1>1, <1>2, <1>4, <1>5, <1>6 DEF LevelNext

LEMMA LevelAlways == LevelSpec => []LevelInv
BY LevelStarts, LevelSteps, PTL DEF LevelSpec

LEMMA LevelTyped == ASSUME LevelInv PROVE CpmTypeOK /\ CycleReported
<1>1. CASE mode = "cpm"
  BY <1>1, CpmTyped, CpmReportsCycles DEF LevelInv
<1>2. CASE mode # "cpm"
  BY <1>2 DEF LevelInv, CpmTypeOK, CycleReported, EarlyRight, Nothing
<1> QED
  BY <1>1, <1>2

\* LinksHonoured, for every network and every calendar.
THEOREM PlanIsFeasible == LevelSpec => []LinksHonoured
<1>1. LevelInv => LinksHonoured
  BY EarlyHonours DEF LevelInv, CpmInv
<1> QED
  BY <1>1, LevelAlways, PTL

-----------------------------------------------------------------------------
(* The textbook *)

LEMMA FirstOf ==
    ASSUME NEW n \in Nat, NEW S \in SUBSET (1..n), S # {}
    PROVE  \E i \in S : \A j \in S : i <= j
<1>1. IsFiniteSet(1..n)
  BY FS_Interval
<1>2. S \subseteq 1..n /\ S \in SUBSET Int
  OBVIOUS
<1>3. IsFiniteSet(S)
  BY <1>1, <1>2, FS_Subset
<1> QED
  BY <1>2, <1>3, MinOf

LEMMA LastOf ==
    ASSUME NEW n \in Nat, NEW S \in SUBSET (1..n), S # {}
    PROVE  \E i \in S : \A j \in S : j <= i
<1>1. IsFiniteSet(1..n)
  BY FS_Interval
<1>2. S \subseteq 1..n /\ S \in SUBSET Int
  OBVIOUS
<1>3. IsFiniteSet(S)
  BY <1>1, <1>2, FS_Subset
<1> QED
  BY <1>2, <1>3, MaxOf

LEMMA MaxIs ==
    ASSUME NEW S \in SUBSET Int, NEW m \in S, \A x \in S : x <= m PROVE Max(S) = m
<1>1. m \in S /\ \A y \in S : m >= y
  OBVIOUS
<1>2. Max(S) \in S /\ \A y \in S : Max(S) >= y
  BY <1>1 DEF Max
<1>3. m \in Int /\ Max(S) \in Int /\ Max(S) <= m /\ m <= Max(S)
  BY <1>1, <1>2
<1> QED
  BY <1>3

LEMMA MinIs ==
    ASSUME NEW S \in SUBSET Int, NEW m \in S, \A x \in S : m <= x PROVE Min(S) = m
<1>1. m \in S /\ \A y \in S : m <= y
  OBVIOUS
<1>2. Min(S) \in S /\ \A y \in S : Min(S) <= y
  BY <1>1 DEF Min
<1>3. m \in Int /\ Min(S) \in Int /\ Min(S) <= m /\ m <= Min(S)
  BY <1>1, <1>2
<1> QED
  BY <1>3

\* Positions are working hours of the default calendar from the anchor on.
LEMMA PositionOf ==
    ASSUME net \in Networks
    PROVE  /\ Anchor \in Int /\ Position(Anchor) = 0
           /\ \A x \in Int : Position(x) \in Int /\ Worked(DefaultCalendar, x) \in Int
           /\ \A x, y \in Int : Position(y) = Position(x) + Worked(DefaultCalendar, y) - Worked(DefaultCalendar, x)
           /\ \A x, y \in Int : x <= y => Position(x) <= Position(y)
<1>1. Anchor \in Int
  BY AnchorTyped
<1>2. PICK a \in Int : a = Worked(DefaultCalendar, Anchor)
  BY <1>1, WorkedBetween
<1>3. ASSUME NEW x \in Int PROVE Worked(DefaultCalendar, x) \in Int /\ Position(x) = Worked(DefaultCalendar, x) - a
  <2>1. /\ Worked(DefaultCalendar, x) \in Int
        /\ WorkingHoursBetween(DefaultCalendar, Anchor, x) \in Nat
        /\ Anchor <= x => WorkingHoursBetween(DefaultCalendar, Anchor, x) = Worked(DefaultCalendar, x) - a
        /\ x <= Anchor => WorkingHoursBetween(DefaultCalendar, Anchor, x) = 0
    BY <1>1, <1>2, WorkedBetween
  <2>2. /\ WorkingHoursBetween(DefaultCalendar, x, Anchor) \in Nat
        /\ x <= Anchor => WorkingHoursBetween(DefaultCalendar, x, Anchor) = a - Worked(DefaultCalendar, x)
        /\ Anchor <= x => WorkingHoursBetween(DefaultCalendar, x, Anchor) = 0
    BY <1>1, <1>2, WorkedBetween
  <2>3. Anchor <= x \/ x <= Anchor
    BY <1>1
  <2> QED
    BY <1>2, <2>1, <2>2, <2>3 DEF Position
<1>4. \A x, y \in Int : x <= y => Worked(DefaultCalendar, x) <= Worked(DefaultCalendar, y)
  BY WorkedGrows
<1>5. Position(Anchor) = 0
  BY <1>1, <1>2, <1>3
<1>6. \A x \in Int : Position(x) \in Int /\ Worked(DefaultCalendar, x) \in Int
  BY <1>3
<1>7. \A x, y \in Int : Position(y) = Position(x) + Worked(DefaultCalendar, y) - Worked(DefaultCalendar, x)
  BY <1>3
<1>8. \A x, y \in Int : x <= y => Position(x) <= Position(y)
  BY <1>3, <1>4
<1> QED
  BY <1>1, <1>5, <1>6, <1>7, <1>8

\* What a link of the textbook asks of the start of its successor.
TextBy(l, dates) ==
    (IF l.type \in {"FS", "FF"} THEN dates[l.from].finish ELSE dates[l.from].start) + l.lag
    - (IF l.type \in {"FS", "SS"} THEN 0 ELSE Remaining(l.to))
TextBounds(t, dates) == {0} \cup {TextBy(l, dates) : l \in Into(t)}
TextEarly(t, dates) ==
    [start |-> Max(TextBounds(t, dates)), finish |-> Max(TextBounds(t, dates)) + Remaining(t)]

TextSolves(f) == f = [t \in Tasks |-> TextEarly(t, f)]

LEMMA TextbookSolves == ASSUME NEW f, TextSolves(f) PROVE TextSolves(TextbookEarly)
BY DEF TextSolves, TextEarly, TextBounds, TextBy, TextbookEarly

LEMMA TextAgree ==
    ASSUME NEW t, NEW d, NEW e, \A u \in Sources(t) : d[u] = e[u] PROVE TextEarly(t, d) = TextEarly(t, e)
<1>1. \A l \in Into(t) : TextBy(l, d) = TextBy(l, e)
  BY DEF TextBy, Sources
<1>2. TextBounds(t, d) = TextBounds(t, e)
  BY <1>1 DEF TextBounds
<1> QED
  BY <1>2 DEF TextEarly

LEMMA PlainHours ==
    ASSUME net \in Networks, Plain
    PROVE  \A t \in Tasks : /\ Kind(t) = "new" /\ Remaining(t) \in Nat /\ Binding(t) = OutOf(t)
                            /\ \A x : HoursTo(t, x) = Worked(DefaultCalendar, x)
<1>1. ASSUME NEW t \in Tasks PROVE Binding(t) = OutOf(t)
  <2>1. \A l \in OutOf(t) : l.to \in Tasks
    BY NetTyped
  <2> QED
    BY <2>1 DEF Binding, Plain
<1> QED
  BY <1>1, KindsOf DEF Plain, HoursTo

\* The early dates of a task in working hours are those that the textbook
\* gives it from the same predecessors.
LEMMA EarlyIsText ==
    ASSUME net \in Networks, Plain, NEW t \in Tasks, NEW dates, Dated(dates, Sources(t)),
           NEW g, \A u \in Sources(t) : g[u] = Positions(dates[u])
    PROVE  Positions(EarlyDates(t, dates)) = TextEarly(t, g)
<1>1. EarlyDates(t, dates) = [start |-> Begin(t, dates), finish |-> AddHours(t, Begin(t, dates), Remaining(t))]
  BY EarlyCases, PlainHours
<1>2. PICK b \in Int : b = Begin(t, dates)
  BY BeginTyped
<1>3. b \in BeginBounds(t, dates) /\ \A x \in BeginBounds(t, dates) : x \in Int /\ x <= b
  BY <1>2, BeginTyped
<1>4. ASSUME NEW l \in Into(t) PROVE EarlyStartBy(l, dates) \in Int /\ Position(EarlyStartBy(l, dates)) = TextBy(l, g)
  <2>1. l \in net.links /\ l.to = t /\ dates[l.from] \in Dates /\ l.lag \in Int
    BY NetTyped DEF Into, Dated, Sources
  <2>2. PICK x \in Int : x = (IF l.type \in {"FS", "FF"} THEN dates[l.from].finish ELSE dates[l.from].start)
    BY <2>1 DEF Dates
  <2>3. Position(x) = IF l.type \in {"FS", "FF"} THEN g[l.from].finish ELSE g[l.from].start
    <3>1. l.from \in Sources(t)
      BY DEF Sources
    <3>2. g[l.from] = [start |-> Position(dates[l.from].start), finish |-> Position(dates[l.from].finish)]
      BY <3>1 DEF Positions
    <3> QED
      BY <2>2, <3>2
  <2>4. PICK w \in Int : w = (IF l.type \in {"FS", "SS"} THEN 0 ELSE Remaining(t))
    BY PlainHours
  <2>5. PICK y \in Int : y = EarlyStartBy(l, dates)
    BY <2>1, DueTyped
  <2>6. Worked(DefaultCalendar, y) = Worked(DefaultCalendar, x) + l.lag - w
    <3>1. /\ HoursTo(t, Due(l, dates)) = HoursTo(t, x) + l.lag /\ HoursTo(t, y) = HoursTo(t, Due(l, dates)) - w
      BY <2>1, <2>2, <2>4, <2>5, DueTyped
    <3>2. \A z : HoursTo(t, z) = Worked(DefaultCalendar, z)
      BY PlainHours
    <3>3. Worked(DefaultCalendar, x) \in Int
      BY PositionOf
    <3> QED
      BY <2>1, <2>4, <3>1, <3>2, <3>3
  <2>7. Position(y) = Position(x) + l.lag - w
    <3>1. Worked(DefaultCalendar, x) \in Int /\ Position(x) \in Int
      BY PositionOf
    <3>2. Position(y) = Position(x) + Worked(DefaultCalendar, y) - Worked(DefaultCalendar, x)
      BY PositionOf
    <3> QED
      BY <2>1, <2>6, <3>1, <3>2
  <2> QED
    BY <2>1, <2>3, <2>4, <2>5, <2>7 DEF TextBy
<1>5. BeginBounds(t, dates) = {EarlyStartBy(l, dates) : l \in Into(t)} \cup {Anchor}
  BY PlainHours DEF BeginBounds
<1>6. TextBounds(t, g) = {Position(x) : x \in BeginBounds(t, dates)}
  <2>1. ASSUME NEW v \in TextBounds(t, g) PROVE \E x \in BeginBounds(t, dates) : v = Position(x)
    <3>1. CASE v = 0
      BY <1>5, <3>1, PositionOf
    <3>2. CASE v # 0
      <4>1. PICK l \in Into(t) : v = TextBy(l, g)
        BY <3>2 DEF TextBounds
      <4> QED
        BY <1>4, <1>5, <4>1
    <3> QED
      BY <3>1, <3>2
  <2>2. ASSUME NEW x \in BeginBounds(t, dates) PROVE Position(x) \in TextBounds(t, g)
    <3>1. CASE x = Anchor
      BY <3>1, PositionOf DEF TextBounds
    <3>2. CASE x # Anchor
      <4>1. PICK l \in Into(t) : x = EarlyStartBy(l, dates)
        BY <1>5, <3>2
      <4> QED
        BY <1>4, <4>1 DEF TextBounds
    <3> QED
      BY <3>1, <3>2
  <2> QED
    BY <2>1, <2>2
<1>7. Max(TextBounds(t, g)) = Position(b)
  <2>1. \A x \in BeginBounds(t, dates) : Position(x) \in Int /\ Position(x) <= Position(b)
    BY <1>3, PositionOf
  <2>2. TextBounds(t, g) \in SUBSET Int /\ Position(b) \in TextBounds(t, g) /\ \A v \in TextBounds(t, g) : v <= Position(b)
    BY <1>3, <1>6, <2>1
  <2> QED
    BY <2>2, MaxIs
<1>8. Position(AddHours(t, b, Remaining(t))) = Position(b) + Remaining(t)
  <2>1. PICK r \in Nat : r = Remaining(t)
    BY PlainHours
  <2>2. AddHours(t, b, r) \in Int /\ HoursTo(t, AddHours(t, b, r)) = HoursTo(t, b) + r
    BY Walks
  <2>3. PICK y \in Int : y = AddHours(t, b, r) /\ Worked(DefaultCalendar, y) = Worked(DefaultCalendar, b) + r
    BY <2>2, PlainHours
  <2>4. Worked(DefaultCalendar, b) \in Int /\ Position(b) \in Int
    BY PositionOf
  <2>5. Position(y) = Position(b) + Worked(DefaultCalendar, y) - Worked(DefaultCalendar, b)
    BY PositionOf
  <2> QED
    BY <2>1, <2>3, <2>4, <2>5
<1> QED
  BY <1>1, <1>2, <1>7, <1>8 DEF Positions, TextEarly

\* The early dates of all tasks solve the equation of the textbook, which has
\* one solution, as each task follows its predecessors in the order.
LEMMA EarlyIsTextbook ==
    ASSUME net \in Networks, Plain, EarlyRight, AllDated, Ordered, Len(order) = Cardinality(Tasks)
    PROVE  \A t \in Tasks : Positions(early[t]) = TextbookEarly[t]
<1> DEFINE g == [t \in Tasks |-> Positions(early[t])]
<1>1. \A t \in Tasks : Sources(t) \subseteq Tasks
  BY NetTyped DEF Sources
<1>2. ASSUME NEW t \in Tasks PROVE g[t] = TextEarly(t, g)
  <2>1. Dated(early, Sources(t)) /\ early[t] = EarlyDates(t, early)
    BY <1>1 DEF Dated, AllDated, EarlyRight
  <2>2. \A u \in Sources(t) : g[u] = Positions(early[u])
    BY <1>1
  <2>3. Positions(EarlyDates(t, early)) = TextEarly(t, g)
    BY <2>1, <2>2, EarlyIsText
  <2> QED
    BY <2>1, <2>3
<1>3. TextSolves(g)
  BY <1>2 DEF TextSolves
<1>4. TextSolves(TextbookEarly)
  BY <1>3, TextbookSolves
<1>5. PICK n \in Nat \ {0} : n = Len(order)
  BY WholeOrder
<1> DEFINE Wrong == {i \in 1..n : g[order[i]] # TextbookEarly[order[i]]}
<1>6. ASSUME Wrong # {} PROVE FALSE
  <2>1. Wrong \in SUBSET (1..n)
    OBVIOUS
  <2>2. PICK i \in Wrong : \A j \in Wrong : i <= j
    <3> HIDE DEF Wrong
    <3> QED
      BY <1>6, <2>1, FirstOf
  <2>3. ASSUME NEW u \in Sources(order[i]) PROVE g[u] = TextbookEarly[u]
    <3>1. u \in Placed(i - 1)
      BY <1>5, <2>2, <2>3 DEF Ordered
    <3>2. PICK j \in 1..(i - 1) : u = order[j]
      BY <3>1 DEF Placed
    <3>3. j \in 1..n /\ ~(i <= j)
      BY <1>5, <2>2
    <3>4. j \notin Wrong
      BY <2>2, <3>3
    <3> QED
      BY <3>2, <3>3, <3>4
  <2>4. order[i] \in Tasks
    BY <1>5, <2>2 DEF Ordered
  <2>5. TextEarly(order[i], g) = TextEarly(order[i], TextbookEarly)
    BY <2>3, TextAgree
  <2>6. g[order[i]] = TextbookEarly[order[i]]
    BY <1>2, <1>4, <2>4, <2>5 DEF TextSolves
  <2> QED
    BY <2>2, <2>6
<1>7. ASSUME NEW t \in Tasks PROVE Positions(early[t]) = TextbookEarly[t]
  <2>1. PICK i \in 1..n : order[i] = t
    BY <1>5, WholeOrder
  <2> QED
    BY <1>6, <2>1
<1> QED
  BY <1>7

\* What a link of the textbook asks of the finish of its predecessor.
TextUntil(l, dates) ==
    (IF l.type \in {"FS", "SS"} THEN dates[l.to].start ELSE dates[l.to].finish) - l.lag
    + (IF l.type \in {"FS", "FF"} THEN 0 ELSE Remaining(l.from))
TextEndBounds(t, dates) == {TextUntil(l, dates) : l \in OutOf(t)}
TextFinish(t, dates) ==
    IF TextEndBounds(t, dates) = {} THEN Max({TextbookEarly[u].finish : u \in Tasks}) ELSE Min(TextEndBounds(t, dates))
TextLate(t, dates) == [start |-> TextFinish(t, dates) - Remaining(t), finish |-> TextFinish(t, dates)]

TextLateSolves(f) == f = [t \in Tasks |-> TextLate(t, f)]

LEMMA TextbookLateSolves == ASSUME NEW f, TextLateSolves(f) PROVE TextLateSolves(TextbookLate)
BY DEF TextLateSolves, TextLate, TextFinish, TextEndBounds, TextUntil, TextbookLate

LEMMA TextLateAgree ==
    ASSUME NEW t, NEW d, NEW e, \A u \in Targets(t) : d[u] = e[u] PROVE TextLate(t, d) = TextLate(t, e)
<1>1. \A l \in OutOf(t) : TextUntil(l, d) = TextUntil(l, e)
  BY DEF TextUntil, Targets
<1>2. TextEndBounds(t, d) = TextEndBounds(t, e)
  BY <1>1 DEF TextEndBounds
<1> QED
  BY <1>2 DEF TextLate, TextFinish

\* The project ends where the textbook's does.
LEMMA FinishIsText ==
    ASSUME net \in Networks, AllDated, \A t \in Tasks : Positions(early[t]) = TextbookEarly[t]
    PROVE  Position(ProjectFinish) = Max({TextbookEarly[u].finish : u \in Tasks})
<1> DEFINE S == {TextbookEarly[u].finish : u \in Tasks}
<1>1. \A u \in Tasks : TextbookEarly[u].finish = Position(early[u].finish) /\ early[u].finish \in Int
  <2>1. ASSUME NEW u \in Tasks PROVE TextbookEarly[u].finish = Position(early[u].finish)
    <3>1. TextbookEarly[u] = [start |-> Position(early[u].start), finish |-> Position(early[u].finish)]
      BY DEF Positions
    <3> QED
      BY <3>1
  <2>2. \A u \in Tasks : early[u].finish \in Int
    BY DEF AllDated, Dates
  <2> QED
    BY <2>1, <2>2
<1>2. ProjectFinish \in Int /\ \A u \in Tasks : early[u].finish <= ProjectFinish
  BY FinishTyped
<1>3. \E u \in Tasks : early[u].finish = ProjectFinish
  <2> DEFINE F == {early[u].finish : u \in Tasks}
  <2>1. F \in SUBSET Int /\ F # {}
    BY <1>1, TasksCounted
  <2>2. IsFiniteSet(F)
    <3> DEFINE f == [u \in Tasks |-> early[u].finish]
    <3>1. F = {f[u] : u \in Tasks}
      OBVIOUS
    <3>2. IsFiniteSet({f[u] : u \in Tasks})
      BY TasksCounted, FiniteImage
    <3> QED
      BY <3>1, <3>2
  <2>3. ProjectFinish = Max(F)
    BY DEF ProjectFinish
  <2>4. Max(F) \in F
    <3> HIDE DEF F
    <3> QED
      BY <2>1, <2>2, MaxOf
  <2> QED
    BY <2>3, <2>4
<1>4. S \in SUBSET Int /\ Position(ProjectFinish) \in S /\ \A x \in S : x <= Position(ProjectFinish)
  <2>1. \A u \in Tasks : Position(early[u].finish) \in Int /\ Position(early[u].finish) <= Position(ProjectFinish)
    BY <1>1, <1>2, PositionOf
  <2> QED
    BY <1>1, <1>3, <2>1
<1> HIDE DEF S
<1>5. Max(S) = Position(ProjectFinish)
  BY <1>4, MaxIs
<1> QED
  BY <1>5 DEF S

LEMMA LateIsText ==
    ASSUME net \in Networks, Plain, AllDated, NEW t \in Tasks, NEW dates, Dated(dates, Targets(t)),
           NEW g, \A u \in Targets(t) : g[u] = Positions(dates[u]),
           Position(ProjectFinish) = Max({TextbookEarly[u].finish : u \in Tasks})
    PROVE  Positions(LateDates(t, dates)) = TextLate(t, g)
<1>1. LateDates(t, dates) = [start |-> SubtractHours(t, End(t, dates), Remaining(t)), finish |-> End(t, dates)]
  BY LateCases, PlainHours
<1>2. PICK b \in Int : b = End(t, dates)
  BY EndTyped
<1>3. /\ EndBounds(t, dates) # {} => b \in EndBounds(t, dates)
      /\ \A x \in EndBounds(t, dates) : x \in Int /\ b <= x
      /\ EndBounds(t, dates) = {} => b = ProjectFinish
  BY <1>2, EndTyped DEF End
<1>4. ASSUME NEW l \in OutOf(t) PROVE LateFinishBy(l, dates) \in Int /\ Position(LateFinishBy(l, dates)) = TextUntil(l, g)
  <2>1. l \in net.links /\ l.from = t /\ dates[l.to] \in Dates /\ l.lag \in Int
    BY NetTyped DEF OutOf, Dated, Targets
  <2>2. PICK x \in Int : x = (IF l.type \in {"FS", "SS"} THEN dates[l.to].start ELSE dates[l.to].finish)
    BY <2>1 DEF Dates
  <2>3. Position(x) = IF l.type \in {"FS", "SS"} THEN g[l.to].start ELSE g[l.to].finish
    <3>1. l.to \in Targets(t)
      BY DEF Targets
    <3>2. g[l.to] = [start |-> Position(dates[l.to].start), finish |-> Position(dates[l.to].finish)]
      BY <3>1 DEF Positions
    <3> QED
      BY <2>2, <3>2
  <2>4. PICK w \in Int : w = (IF l.type \in {"FS", "FF"} THEN 0 ELSE Remaining(t))
    BY PlainHours
  <2>5. PICK y \in Int : y = LateFinishBy(l, dates)
    BY <2>1, LateBoundTyped
  <2>6. Worked(DefaultCalendar, y) = Worked(DefaultCalendar, x) - l.lag + w
    <3>1. HoursTo(t, y) = HoursTo(t, x) - l.lag + w
      BY <2>1, <2>2, <2>4, <2>5, LateBoundTyped
    <3>2. \A z : HoursTo(t, z) = Worked(DefaultCalendar, z)
      BY PlainHours
    <3> QED
      BY <3>1, <3>2
  <2>7. Position(y) = Position(x) - l.lag + w
    <3>1. Worked(DefaultCalendar, x) \in Int /\ Position(x) \in Int
      BY PositionOf
    <3>2. Position(y) = Position(x) + Worked(DefaultCalendar, y) - Worked(DefaultCalendar, x)
      BY PositionOf
    <3> QED
      BY <2>1, <2>6, <3>1, <3>2
  <2> QED
    BY <2>1, <2>3, <2>4, <2>5, <2>7 DEF TextUntil
<1>5. EndBounds(t, dates) = {LateFinishBy(l, dates) : l \in OutOf(t)}
  BY PlainHours DEF EndBounds
<1>6. TextEndBounds(t, g) = {Position(x) : x \in EndBounds(t, dates)}
  BY <1>4, <1>5 DEF TextEndBounds
<1>7. TextFinish(t, g) = Position(b)
  <2>1. CASE EndBounds(t, dates) = {}
    BY <1>3, <1>6, <2>1 DEF TextFinish
  <2>2. CASE EndBounds(t, dates) # {}
    <3>1. \A x \in EndBounds(t, dates) : Position(x) \in Int /\ Position(b) <= Position(x)
      BY <1>3, PositionOf
    <3>2. TextEndBounds(t, g) \in SUBSET Int /\ Position(b) \in TextEndBounds(t, g) /\ \A v \in TextEndBounds(t, g) : Position(b) <= v
      BY <1>3, <1>6, <2>2, <3>1
    <3> QED
      BY <3>2, MinIs DEF TextFinish
  <2> QED
    BY <2>1, <2>2
<1>8. Position(SubtractHours(t, b, Remaining(t))) = Position(b) - Remaining(t)
  <2>1. PICK r \in Nat : r = Remaining(t)
    BY PlainHours
  <2>2. SubtractHours(t, b, r) \in Int /\ HoursTo(t, SubtractHours(t, b, r)) = HoursTo(t, b) - r
    BY Walks
  <2>3. PICK y \in Int : y = SubtractHours(t, b, r) /\ Worked(DefaultCalendar, y) = Worked(DefaultCalendar, b) - r
    BY <2>2, PlainHours
  <2>4. Worked(DefaultCalendar, b) \in Int /\ Position(b) \in Int
    BY PositionOf
  <2>5. Position(y) = Position(b) + Worked(DefaultCalendar, y) - Worked(DefaultCalendar, b)
    BY PositionOf
  <2> QED
    BY <2>1, <2>3, <2>4, <2>5
<1> QED
  BY <1>1, <1>2, <1>7, <1>8 DEF Positions, TextLate

\* So do the late dates, from the last task of the order back.
LEMMA LateIsTextbook ==
    ASSUME net \in Networks, Plain, LateRight, DOMAIN late = Tasks, AllDated, Ordered, Len(order) = Cardinality(Tasks),
           \A t \in Tasks : Positions(early[t]) = TextbookEarly[t]
    PROVE  \A t \in Tasks : Positions(late[t]) = TextbookLate[t]
<1> DEFINE g == [t \in Tasks |-> Positions(late[t])]
<1>1. \A t \in Tasks : Targets(t) \subseteq Tasks
  BY NetTyped DEF Targets
<1>0. Position(ProjectFinish) = Max({TextbookEarly[u].finish : u \in Tasks})
  BY FinishIsText
<1>2. ASSUME NEW t \in Tasks PROVE g[t] = TextLate(t, g)
  <2>1. Dated(late, Targets(t)) /\ late[t] = LateDates(t, late)
    BY <1>1 DEF Dated, LateRight
  <2>2. \A u \in Targets(t) : g[u] = Positions(late[u])
    BY <1>1
  <2>3. Positions(LateDates(t, late)) = TextLate(t, g)
    <3> HIDE DEF g
    <3> QED
      BY <1>0, <2>1, <2>2, LateIsText
  <2> QED
    BY <2>1, <2>3
<1>3. TextLateSolves(g)
  BY <1>2 DEF TextLateSolves
<1>4. TextLateSolves(TextbookLate)
  BY <1>3, TextbookLateSolves
<1>5. PICK n \in Nat \ {0} : n = Len(order)
  BY WholeOrder
<1> DEFINE Wrong == {i \in 1..n : g[order[i]] # TextbookLate[order[i]]}
<1>6. ASSUME Wrong # {} PROVE FALSE
  <2>1. Wrong \in SUBSET (1..n)
    OBVIOUS
  <2>2. PICK i \in Wrong : \A j \in Wrong : j <= i
    <3> HIDE DEF Wrong
    <3> QED
      BY <1>6, <2>1, LastOf
  <2>3. ASSUME NEW u \in Targets(order[i]) PROVE g[u] = TextbookLate[u]
    <3>1. u \in PlacedFrom(i + 1)
      BY <1>5, <2>2, <2>3, WholeOrder
    <3>2. PICK j \in (i + 1)..n : u = order[j]
      BY <1>5, <3>1 DEF PlacedFrom
    <3>3. j \in 1..n /\ ~(j <= i)
      BY <1>5, <2>2
    <3>4. j \notin Wrong
      BY <2>2, <3>3
    <3> QED
      BY <3>2, <3>3, <3>4
  <2>4. order[i] \in Tasks
    BY <1>5, <2>2 DEF Ordered
  <2>5. TextLate(order[i], g) = TextLate(order[i], TextbookLate)
    BY <2>3, TextLateAgree
  <2>6. g[order[i]] = TextbookLate[order[i]]
    BY <1>2, <1>4, <2>4, <2>5 DEF TextLateSolves
  <2> QED
    BY <2>2, <2>6
<1>7. ASSUME NEW t \in Tasks PROVE Positions(late[t]) = TextbookLate[t]
  <2>1. PICK i \in 1..n : order[i] = t
    BY <1>5, WholeOrder
  <2> QED
    BY <1>6, <2>1
<1> QED
  BY <1>7

\* What holds once the floats are saved.
SavedRight ==
    /\ net \in Networks /\ Ordered /\ Len(order) = Cardinality(Tasks)
    /\ EarlyRight /\ LateRight /\ AllDated /\ DOMAIN late = Tasks /\ (\A t \in Tasks : late[t] \in Dates)
    /\ floats = FloatsOf

LEMMA WhenSaved == ASSUME LevelInv, step = "saved" PROVE SavedRight
<1>1. CpmInv
  BY DEF LevelInv
<1> QED
  BY <1>1 DEF CpmInv, SavedRight, EarlyRight, LateRight, AllDated

LEMMA SavedIsTextbook == ASSUME LevelInv PROVE EarlyDatesAreTextbook /\ LateDatesAreTextbook
<1> SUFFICES ASSUME step = "saved", Plain
             PROVE  \A t \in Tasks : /\ Positions(early[t]) = TextbookEarly[t] /\ Positions(late[t]) = TextbookLate[t]
                                     /\ floats[t].critical => TextbookLate[t].start <= TextbookEarly[t].start
  BY DEF EarlyDatesAreTextbook, LateDatesAreTextbook
<1>1. SavedRight
  BY WhenSaved
<1>2. \A t \in Tasks : Positions(early[t]) = TextbookEarly[t]
  BY <1>1, EarlyIsTextbook DEF SavedRight
<1>3. \A t \in Tasks : Positions(late[t]) = TextbookLate[t]
  BY <1>1, <1>2, LateIsTextbook DEF SavedRight
<1>4. ASSUME NEW t \in Tasks, floats[t].critical PROVE TextbookLate[t].start <= TextbookEarly[t].start
  <2>1. Kind(t) = "new"
    BY DEF Plain
  <2>2. floats[t] = [float |-> TotalFloat(t), free |-> FreeFloat(t), critical |-> Critical(t)]
    BY <1>1, <2>1 DEF SavedRight, FloatsOf
  <2>3. PICK x \in Int : x = early[t].start
    BY <1>1 DEF SavedRight, AllDated, Dates
  <2>4. PICK y \in Int : y = late[t].start
    BY <1>1 DEF SavedRight, Dates
  <2>5. y <= x
    <3>1. TotalFloat(t) = y - x /\ Critical(t)
      BY <1>4, <2>1, <2>2, <2>3, <2>4 DEF TotalFloat
    <3>2. TotalFloat(t) <= 0
      BY <3>1 DEF Critical
    <3> QED
      BY <3>1, <3>2
  <2>6. Position(y) <= Position(x)
    BY <1>1, <2>5, PositionOf DEF SavedRight
  <2>7. TextbookLate[t].start = Position(y) /\ TextbookEarly[t].start = Position(x)
    <3>1. TextbookLate[t] = [start |-> Position(y), finish |-> Position(late[t].finish)]
      BY <1>3, <2>4 DEF Positions
    <3>2. TextbookEarly[t] = [start |-> Position(x), finish |-> Position(early[t].finish)]
      BY <1>2, <2>3 DEF Positions
    <3> QED
      BY <3>1, <3>2
  <2> QED
    BY <2>6, <2>7
<1> QED
  BY <1>2, <1>3, <1>4

\* DatesAreTextbook, for every network and every calendar.
THEOREM DatesAreTheTextbooks == LevelSpec => []DatesAreTextbook
<1>1. LevelInv => DatesAreTextbook
  BY LevelTyped, SavedIsTextbook DEF DatesAreTextbook
<1> QED
  BY <1>1, LevelAlways, PTL

-----------------------------------------------------------------------------
(* Float *)

LEMMA AddLeast ==
    ASSUME net \in Networks, NEW t \in Tasks, NEW n \in Nat, NEW x \in Int, NEW y \in Int,
           x <= y, HoursTo(t, x) + n <= HoursTo(t, y)
    PROVE  AddHours(t, x, n) <= y
<1>1. PICK c \in Calendars : c = Calendar(t)
  BY NetTyped
<1>2. AddHours(t, x, n) = AddWorkingHours(c, x, n)
  BY <1>1 DEF AddHours
<1>3. CASE n = 0
  BY <1>2, <1>3 DEF AddWorkingHours
<1>4. CASE n # 0
  <2>1. n \in Nat \ {0}
    BY <1>4
  <2>2. PICK m \in Int : /\ m = AddWorkingHours(c, x, n) /\ Working(c, m - 1)
                         /\ Worked(c, m) = Worked(c, x) + n
    BY <2>1, AddLands
  <2>3. Worked(c, m) <= Worked(c, y)
    BY <1>1, <2>2 DEF HoursTo
  <2> QED
    BY <1>2, <2>2, <2>3, WorkedEnd
<1> QED
  BY <1>3, <1>4

LEMMA SubtractMost ==
    ASSUME net \in Networks, NEW t \in Tasks, NEW n \in Nat, NEW x \in Int, NEW y \in Int,
           y <= x, HoursTo(t, y) <= HoursTo(t, x) - n
    PROVE  y <= SubtractHours(t, x, n)
<1>1. PICK c \in Calendars : c = Calendar(t)
  BY NetTyped
<1>2. SubtractHours(t, x, n) = SubtractWorkingHours(c, x, n)
  BY <1>1 DEF SubtractHours
<1>3. CASE n = 0
  BY <1>2, <1>3 DEF SubtractWorkingHours
<1>4. CASE n # 0
  <2>1. n \in Nat \ {0}
    BY <1>4
  <2>2. PICK m \in Int : /\ m = SubtractWorkingHours(c, x, n) /\ Working(c, m)
                         /\ Worked(c, m) = Worked(c, x) - n
    BY <2>1, SubtractLands
  <2>3. Worked(c, y) <= Worked(c, m)
    BY <1>1, <2>2 DEF HoursTo
  <2> QED
    BY <1>2, <2>2, <2>3, WorkedStart
<1> QED
  BY <1>3, <1>4

\* Walks keep the order of moments, and back and forth they do not go beyond.
LEMMA WalksGrow ==
    ASSUME net \in Networks, NEW t \in Tasks, NEW n \in Nat
    PROVE  /\ \A x, y \in Int : x <= y => /\ AddHours(t, x, n) <= AddHours(t, y, n)
                                          /\ SubtractHours(t, x, n) <= SubtractHours(t, y, n)
           /\ \A y \in Int : AddHours(t, SubtractHours(t, y, n), n) <= y
<1>0. n \in Int /\ 0 <= n
  OBVIOUS
<1>1. ASSUME NEW x \in Int, NEW y \in Int, x <= y
      PROVE  AddHours(t, x, n) <= AddHours(t, y, n) /\ SubtractHours(t, x, n) <= SubtractHours(t, y, n)
  <2>1. HoursTo(t, x) \in Int /\ HoursTo(t, y) \in Int /\ HoursTo(t, x) <= HoursTo(t, y)
    BY <1>1, HoursBetween
  <2>2. PICK z \in Int : z = AddHours(t, y, n) /\ y <= z /\ HoursTo(t, z) = HoursTo(t, y) + n
    BY <1>0, Walks
  <2>3. AddHours(t, x, n) <= z
    <3>1. x <= z /\ HoursTo(t, x) + n <= HoursTo(t, z)
      BY <1>1, <2>1, <2>2
    <3> QED
      BY <3>1, AddLeast
  <2>4. PICK w \in Int : w = SubtractHours(t, x, n) /\ w <= x /\ HoursTo(t, w) = HoursTo(t, x) - n
    BY <1>0, Walks
  <2>5. w <= SubtractHours(t, y, n)
    <3>1. w <= y /\ HoursTo(t, w) <= HoursTo(t, y) - n
      BY <1>1, <2>1, <2>4
    <3> QED
      BY <3>1, SubtractMost
  <2> QED
    BY <2>2, <2>3, <2>4, <2>5
<1>2. ASSUME NEW y \in Int PROVE AddHours(t, SubtractHours(t, y, n), n) <= y
  <2>1. PICK w \in Int : w = SubtractHours(t, y, n) /\ w <= y /\ HoursTo(t, w) = HoursTo(t, y) - n
    BY <1>0, Walks
  <2>2. HoursTo(t, w) + n <= HoursTo(t, y)
    <3>1. HoursTo(t, y) \in Int
      BY Walks, <1>0
    <3> QED
      BY <2>1, <3>1
  <2> QED
    BY <2>1, <2>2, AddLeast
<1> QED
  BY <1>1, <1>2

\* The late dates of a task that is not done and not fixed.
LEMMA LateOf ==
    ASSUME SavedRight, NEW t \in Tasks
    PROVE  /\ late[t].start \in Int /\ late[t].finish \in Int /\ early[t].start \in Int /\ early[t].finish \in Int
           /\ Kind(t) \in {"done", "external"} => late[t] = early[t]
           /\ Kind(t) \in {"new", "running"} =>
                 /\ late[t].start = SubtractHours(t, late[t].finish, Remaining(t))
                 /\ Binding(t) = {} => late[t].finish = ProjectFinish
                 /\ Binding(t) # {} => \E l \in Binding(t) : late[t].finish = LateFinishBy(l, late)
                 /\ \A l \in Binding(t) : LateFinishBy(l, late) \in Int /\ late[t].finish <= LateFinishBy(l, late)
<1>1. net \in Networks /\ AllDated /\ late[t] = LateDates(t, late) /\ late[t] \in Dates /\ early[t] \in Dates
  BY DEF SavedRight, LateRight, AllDated
<1>2. Dated(late, Targets(t))
  BY DEF SavedRight, LateRight, Dated
<1>3. Kind(t) \in {"done", "external"} => late[t] = early[t]
  BY <1>1, LateCases
<1>4. ASSUME Kind(t) \in {"new", "running"}
      PROVE  /\ late[t].start = SubtractHours(t, late[t].finish, Remaining(t))
             /\ late[t].finish = End(t, late)
  <2>1. late[t] = [start |-> SubtractHours(t, End(t, late), Remaining(t)), finish |-> End(t, late)]
    BY <1>1, <1>4, LateCases
  <2> QED
    BY <2>1
<1>5. /\ EndBounds(t, late) = {} <=> Binding(t) = {}
      /\ EndBounds(t, late) # {} => End(t, late) \in EndBounds(t, late)
      /\ \A x \in EndBounds(t, late) : x \in Int /\ End(t, late) <= x
      /\ EndBounds(t, late) = {} => End(t, late) = ProjectFinish
  BY <1>1, <1>2, EndTyped DEF End
<1>6. \A l \in Binding(t) : LateFinishBy(l, late) \in Int /\ End(t, late) <= LateFinishBy(l, late)
  BY <1>5 DEF EndBounds
<1>7. Binding(t) # {} => \E l \in Binding(t) : End(t, late) = LateFinishBy(l, late)
  BY <1>5 DEF EndBounds
<1> QED
  BY <1>1, <1>3, <1>4, <1>5, <1>6, <1>7 DEF Dates

LEMMA BoundOf ==
    ASSUME net \in Networks, NEW l \in net.links, NEW dates
    PROVE  /\ l.type \in {"FS", "FF"} =>
                /\ LateFinishBy(l, dates) =
                      SubtractHours(l.from, IF l.type = "FS" THEN dates[l.to].start ELSE dates[l.to].finish, l.lag)
                /\ Due(l, dates) = AddHours(l.to, dates[l.from].finish, l.lag)
           /\ EarlyStartBy(l, dates) = IF l.type \in {"FS", "SS"} THEN Due(l, dates)
                                       ELSE SubtractHours(l.to, Due(l, dates), Remaining(l.to))
<1>1. l.type \in {"FS", "FF"} =>
          LateFinishBy(l, dates) =
             SubtractHours(l.from, IF l.type = "FS" THEN dates[l.to].start ELSE dates[l.to].finish, l.lag)
  BY DEF LateFinishBy
<1> QED
  BY <1>1 DEF Due, EarlyStartBy

\* A set of tasks that contains a task whenever it contains all the tasks
\* after it contains every task; so does one that goes with the tasks before.
LEMMA BackThroughOrder ==
    ASSUME net \in Networks, Ordered, Len(order) = Cardinality(Tasks),
           NEW S, \A t \in Tasks : Targets(t) \subseteq S => t \in S
    PROVE  Tasks \subseteq S
<1>1. PICK n \in Nat \ {0} : n = Len(order)
  BY WholeOrder
<1> DEFINE Wrong == {i \in 1..n : order[i] \notin S}
<1>2. ASSUME Wrong # {} PROVE FALSE
  <2>1. Wrong \in SUBSET (1..n)
    OBVIOUS
  <2>2. PICK i \in Wrong : \A j \in Wrong : j <= i
    <3> HIDE DEF Wrong
    <3> QED
      BY <1>2, <2>1, LastOf
  <2>3. order[i] \in Tasks
    BY <1>1, <2>2 DEF Ordered
  <2>4. ASSUME NEW u \in Targets(order[i]) PROVE u \in S
    <3>1. u \in PlacedFrom(i + 1)
      BY <1>1, <2>2, <2>4, WholeOrder
    <3>2. PICK j \in (i + 1)..n : u = order[j]
      BY <1>1, <3>1 DEF PlacedFrom
    <3>3. j \in 1..n /\ ~(j <= i)
      BY <1>1, <2>2
    <3> QED
      BY <2>2, <3>2, <3>3
  <2> QED
    BY <2>2, <2>3, <2>4
<1>3. \A t \in Tasks : \E i \in 1..n : order[i] = t
  BY <1>1, WholeOrder
<1> QED
  BY <1>2, <1>3

LEMMA ForthThroughOrder ==
    ASSUME net \in Networks, Ordered, Len(order) = Cardinality(Tasks),
           NEW S, \A t \in Tasks : Sources(t) \subseteq S => t \in S
    PROVE  Tasks \subseteq S
<1>1. PICK n \in Nat \ {0} : n = Len(order)
  BY WholeOrder
<1> DEFINE Wrong == {i \in 1..n : order[i] \notin S}
<1>2. ASSUME Wrong # {} PROVE FALSE
  <2>1. Wrong \in SUBSET (1..n)
    OBVIOUS
  <2>2. PICK i \in Wrong : \A j \in Wrong : i <= j
    <3> HIDE DEF Wrong
    <3> QED
      BY <1>2, <2>1, FirstOf
  <2>3. order[i] \in Tasks
    BY <1>1, <2>2 DEF Ordered
  <2>4. ASSUME NEW u \in Sources(order[i]) PROVE u \in S
    <3>1. u \in Placed(i - 1)
      BY <1>1, <2>2, <2>4 DEF Ordered
    <3>2. PICK j \in 1..(i - 1) : u = order[j]
      BY <3>1 DEF Placed
    <3>3. j \in 1..n /\ ~(i <= j)
      BY <1>1, <2>2
    <3> QED
      BY <2>2, <3>2, <3>3
  <2> QED
    BY <2>2, <2>3, <2>4
<1>3. \A t \in Tasks : \E i \in 1..n : order[i] = t
  BY <1>1, WholeOrder
<1> QED
  BY <1>2, <1>3

\* Late dates are within the project.
LEMMA LateInTime ==
    ASSUME SavedRight, LagsShared, \A t \in Tasks : Kind(t) = "external" => early[t].start <= early[t].finish
    PROVE  \A t \in Tasks : late[t].finish <= ProjectFinish /\ (Kind(t) # "done" => late[t].start <= ProjectFinish)
<1> DEFINE S == {t \in Tasks : late[t].finish <= ProjectFinish /\ (Kind(t) # "done" => late[t].start <= ProjectFinish)}
<1>0. net \in Networks /\ AllDated /\ Ordered /\ Len(order) = Cardinality(Tasks)
  BY DEF SavedRight
<1>1. ProjectFinish \in Int /\ \A t \in Tasks : early[t].finish <= ProjectFinish
  BY <1>0, FinishTyped
<1>2. ASSUME NEW t \in Tasks, Targets(t) \subseteq S PROVE t \in S
  <2>1. late[t].start \in Int /\ late[t].finish \in Int /\ early[t].start \in Int /\ early[t].finish \in Int
    BY LateOf
  <2>2. CASE Kind(t) \in {"done", "external"}
    <3>1. late[t] = early[t]
      BY <2>2, LateOf
    <3> QED
      BY <1>1, <2>1, <2>2, <3>1
  <2>3. CASE Kind(t) \in {"new", "running"}
    <3>1. late[t].finish <= ProjectFinish
      <4>1. CASE Binding(t) = {}
        BY <1>1, <2>3, <4>1, LateOf
      <4>2. CASE Binding(t) # {}
        <5>1. PICK l \in Binding(t) : late[t].finish = LateFinishBy(l, late)
          BY <2>3, <4>2, LateOf
        <5>2. l \in net.links /\ l \in OutOf(t) /\ l.from = t /\ l.to \in Tasks /\ Kind(l.to) # "done" /\ l.to \in S
          BY <1>0, <1>2, <2>3, NetTyped DEF Binding, OutOf, Targets
        <5>3. l.type \in {"FS", "FF"} /\ l.lag \in Nat
          BY <1>0, <5>2, NetTyped DEF LagsShared
        <5>4. PICK x \in Int : x = (IF l.type = "FS" THEN late[l.to].start ELSE late[l.to].finish)
          BY <5>2, LateOf
        <5>5. x <= ProjectFinish
          BY <5>2, <5>4
        <5>6. late[t].finish = SubtractHours(t, x, l.lag)
          BY <1>0, <5>1, <5>2, <5>3, <5>4, BoundOf
        <5>7. SubtractHours(t, x, l.lag) <= x
          BY <1>0, <5>3, Walks
        <5> QED
          BY <1>1, <2>1, <5>5, <5>6, <5>7
      <4> QED
        BY <4>1, <4>2
    <3>2. late[t].start <= late[t].finish
      <4>1. Remaining(t) \in Int /\ 0 <= Remaining(t)
        BY <1>0, KindsOf
      <4>2. SubtractHours(t, late[t].finish, Remaining(t)) <= late[t].finish
        BY <1>0, <2>1, <4>1, Walks
      <4> QED
        BY <2>3, <4>2, LateOf
    <3> QED
      BY <1>1, <2>1, <3>1, <3>2
  <2> QED
    BY <1>0, <2>2, <2>3, KindsOf
<1>3. Tasks \subseteq S
  <2> HIDE DEF S
  <2> QED
    BY <1>0, <1>2, BackThroughOrder
<1> QED
  BY <1>3

-----------------------------------------------------------------------------
(* The network scheduled again with one task delayed *)

DelayedDates(d, x, t, f) ==
    IF t = d THEN [start |-> x, finish |-> AddHours(t, x, Remaining(t))] ELSE EarlyDates(t, f)

DelayedSolves(d, x, f) == f = [t \in Tasks |-> DelayedDates(d, x, t, f)]

LEMMA DelayedAgree ==
    ASSUME NEW t, NEW d, NEW x, NEW f, NEW g, \A u \in Sources(t) : f[u] = g[u]
    PROVE  DelayedDates(d, x, t, f) = DelayedDates(d, x, t, g)
BY EarlyAgree DEF DelayedDates

\* The delayed dates exist: each task in the order gets its dates in turn.
LEMMA DelayedExist ==
    ASSUME net \in Networks, Ordered, Len(order) = Cardinality(Tasks), NEW d, NEW x
    PROVE  \E f : DelayedSolves(d, x, f)
<1>1. PICK n \in Nat \ {0} : n = Len(order)
  BY WholeOrder
<1> DEFINE Upto(k, f) == /\ f = [t \in Tasks |-> f[t]]
                         /\ \A i \in 1..k : f[order[i]] = DelayedDates(d, x, order[i], f)
           Wrong == {k \in 1..n : ~\E f : Upto(k, f)}
<1>2. \E f : Upto(0, f)
  <2> DEFINE f0 == [t \in Tasks |-> 0]
  <2>1. Upto(0, f0)
    OBVIOUS
  <2> QED
    BY <2>1
<1>3. ASSUME NEW k \in 0..(n - 1), NEW f, Upto(k, f) PROVE \E g : Upto(k + 1, g)
  <2>1. PICK t \in Tasks : t = order[k + 1]
    BY <1>1 DEF Ordered
  <2> DEFINE g == [f EXCEPT ![t] = DelayedDates(d, x, t, f)]
  <2>2. g = [u \in Tasks |-> g[u]] /\ g[t] = DelayedDates(d, x, t, f) /\ \A u \in Tasks : u # t => g[u] = f[u]
    BY <1>3
  <2>3. ASSUME NEW i \in 1..(k + 1) PROVE g[order[i]] = DelayedDates(d, x, order[i], g)
    <3>1. i \in 1..n /\ Sources(order[i]) \subseteq Placed(i - 1) /\ order[i] \in Tasks
      BY <1>1 DEF Ordered
    <3>2. ASSUME NEW u \in Sources(order[i]) PROVE g[u] = f[u]
      <4>1. PICK j \in 1..(i - 1) : u = order[j]
        BY <3>1 DEF Placed
      <4>2. j \in 1..n /\ j # k + 1 /\ k + 1 \in 1..n
        BY <3>1
      <4>3. u # t /\ u \in Tasks
        BY <1>1, <2>1, <4>1, <4>2 DEF Ordered
      <4> QED
        BY <2>2, <4>3
    <3>3. DelayedDates(d, x, order[i], g) = DelayedDates(d, x, order[i], f)
      <4> HIDE DEF g
      <4> QED
        BY <3>2, DelayedAgree
    <3>4. CASE i = k + 1
      BY <2>1, <2>2, <3>3, <3>4
    <3>5. CASE i # k + 1
      <4>1. i \in 1..k /\ k + 1 \in 1..n
        BY <3>5
      <4>2. order[i] # t
        BY <1>1, <2>1, <3>1, <3>5, <4>1 DEF Ordered
      <4> QED
        BY <1>3, <2>2, <3>1, <3>3, <4>1, <4>2
    <3> QED
      BY <3>4, <3>5
  <2>4. Upto(k + 1, g)
    BY <2>2, <2>3
  <2> QED
    BY <2>4
<1>4. ASSUME Wrong # {} PROVE FALSE
  <2>1. Wrong \in SUBSET (1..n)
    OBVIOUS
  <2>2. PICK k \in Wrong : \A j \in Wrong : k <= j
    <3> HIDE DEF Wrong
    <3> QED
      BY <1>4, <2>1, FirstOf
  <2>3. k \in 1..n /\ k - 1 \in 0..(n - 1) /\ (k - 1) + 1 = k /\ ~(k <= k - 1)
    OBVIOUS
  <2>4. \E f : Upto(k - 1, f)
    <3>1. CASE k - 1 = 0
      <4> HIDE DEF Upto
      <4> QED
        BY <1>2, <3>1
    <3>2. CASE k - 1 # 0
      <4>1. k - 1 \in 1..n /\ k - 1 \notin Wrong
        BY <2>2, <2>3, <3>2
      <4> HIDE DEF Upto
      <4> QED
        BY <4>1
    <3> QED
      BY <3>1, <3>2
  <2>5. \E g : Upto((k - 1) + 1, g)
    <3> HIDE DEF Upto
    <3> QED
      BY <1>3, <2>3, <2>4
  <2>6. \E g : Upto(k, g)
    <3> HIDE DEF Upto
    <3> QED
      BY <2>3, <2>5
  <2> QED
    BY <2>2, <2>6
<1>5. PICK f : Upto(n, f)
  <2>1. n \in 1..n /\ n \notin Wrong
    BY <1>4
  <2> HIDE DEF Upto
  <2> QED
    BY <2>1
<1>6. \A t \in Tasks : f[t] = DelayedDates(d, x, t, f)
  BY <1>1, <1>5, WholeOrder
<1> QED
  BY <1>5, <1>6 DEF DelayedSolves

LEMMA DelayedTaken ==
    ASSUME NEW d, NEW x, NEW f, DelayedSolves(d, x, f)
    PROVE  \E g : DelayedSolves(d, x, g) /\ FinishIfDelayed(d, x) = Max({g[t].finish : t \in Tasks})
<1> DEFINE D == CHOOSE g : g = [t \in Tasks |-> DelayedDates(d, x, t, g)]
<1>1. D = [t \in Tasks |-> DelayedDates(d, x, t, D)]
  BY DEF DelayedSolves
<1>2. FinishIfDelayed(d, x) = Max({D[t].finish : t \in Tasks})
  BY DEF FinishIfDelayed, DelayedDates
<1> HIDE DEF D
<1> QED
  BY <1>1, <1>2 DEF DelayedSolves

\* What a link asks of its successor in the delayed network is what it asks in
\* the early or allows in the late dates, if that holds of its predecessor.
LEMMA DelayedLink ==
    ASSUME SavedRight, LagsShared, NEW t \in Tasks, Kind(t) \in {"new", "running"}, NEW l \in Into(t),
           NEW f, f[l.from] \in Dates,
           f[l.from].finish <= early[l.from].finish \/ f[l.from].finish <= late[l.from].finish
    PROVE  /\ EarlyStartBy(l, f) \in Int /\ EarlyStartBy(l, early) \in Int
           /\ EarlyStartBy(l, f) <= EarlyStartBy(l, early) \/ EarlyStartBy(l, f) <= late[t].start
<1>0. net \in Networks /\ AllDated
  BY DEF SavedRight
<1>1. l \in net.links /\ l.to = t /\ l.from \in Tasks /\ l \in OutOf(l.from)
  BY <1>0, NetTyped DEF Into
<1>2. l.type \in {"FS", "FF"} /\ l.lag \in Nat
  BY <1>0, <1>1, NetTyped DEF LagsShared
<1>3. PICK p \in Tasks : p = l.from
  BY <1>1
<1>4. PICK x \in Int : x = f[p].finish
  BY <1>3 DEF Dates
<1>5. Due(l, f) = AddHours(t, x, l.lag) /\ Due(l, early) = AddHours(t, early[p].finish, l.lag)
  BY <1>0, <1>1, <1>2, <1>3, <1>4, BoundOf
<1>6. early[p].finish \in Int /\ late[p].finish \in Int /\ late[t].start \in Int /\ late[t].finish \in Int /\ early[p] \in Dates
  BY <1>0, LateOf DEF AllDated
<1>7. Due(l, f) \in Int /\ Due(l, early) \in Int /\ EarlyStartBy(l, f) \in Int /\ EarlyStartBy(l, early) \in Int
  BY <1>0, <1>1, <1>3, <1>6, DueTyped
<1>8. Remaining(t) \in Nat
  BY <1>0, KindsOf
<1>9. \A g : EarlyStartBy(l, g) = IF l.type = "FS" THEN Due(l, g) ELSE SubtractHours(t, Due(l, g), Remaining(t))
  BY <1>0, <1>1, <1>2, BoundOf
<1>10. CASE x <= early[p].finish
  <2>1. Due(l, f) <= Due(l, early)
    BY <1>0, <1>2, <1>5, <1>6, <1>10, WalksGrow
  <2>2. SubtractHours(t, Due(l, f), Remaining(t)) <= SubtractHours(t, Due(l, early), Remaining(t))
    BY <1>0, <1>7, <1>8, <2>1, WalksGrow
  <2> QED
    BY <1>7, <1>9, <2>1, <2>2
<1>11. CASE x > early[p].finish /\ x <= late[p].finish
  <2>1. Kind(p) \in {"new", "running"}
    <3>1. late[p] # early[p]
      BY <1>6, <1>11
    <3> QED
      BY <1>0, <3>1, LateOf, KindsOf
  <2>2. l \in Binding(p)
    BY <1>1, <1>3 DEF Binding
  <2>3. PICK y \in Int : y = (IF l.type = "FS" THEN late[t].start ELSE late[t].finish)
    BY <1>6
  <2>4. LateFinishBy(l, late) = SubtractHours(p, y, l.lag)
    BY <1>0, <1>1, <1>2, <1>3, <2>3, BoundOf
  <2>5. PICK z \in Int : z = SubtractHours(p, y, l.lag) /\ x <= z
    <3>1. LateFinishBy(l, late) \in Int /\ late[p].finish <= LateFinishBy(l, late)
      BY <2>1, <2>2, LateOf
    <3> QED
      BY <1>6, <1>11, <2>4, <3>1
  <2>6. l.lag \in Int /\ 0 <= l.lag
    BY <1>2
  <2>7. z <= y /\ HoursTo(p, z) = HoursTo(p, y) - l.lag /\ HoursTo(p, y) \in Int
    BY <1>0, <2>5, <2>6, Walks
  <2>8. HoursTo(t, x) + l.lag <= HoursTo(t, y)
    <3>1. HoursTo(t, x) \in Int /\ HoursTo(t, y) \in Int /\ HoursTo(t, z) \in Int
      BY <1>0, HoursBetween
    <3>2. HoursTo(t, x) <= HoursTo(t, z) /\ HoursTo(t, z) <= HoursTo(t, y)
      BY <1>0, <2>5, <2>7, HoursBetween
    <3>3. CASE l.lag = 0
      BY <3>1, <3>2, <3>3
    <3>4. CASE l.lag # 0
      <4>1. Calendar(p) = Calendar(t)
        BY <1>1, <1>3, <3>4 DEF LagsShared
      <4>2. HoursTo(t, z) = HoursTo(t, y) - l.lag
        BY <2>7, <4>1 DEF HoursTo
      <4> QED
        BY <2>6, <3>1, <3>2, <4>2
    <3> QED
      BY <3>3, <3>4
  <2>9. Due(l, f) <= y
    <3>1. x <= y
      BY <2>5, <2>7
    <3> QED
      BY <1>0, <1>2, <1>5, <2>8, <3>1, AddLeast
  <2>10. EarlyStartBy(l, f) <= late[t].start
    <3>1. CASE l.type = "FS"
      BY <1>9, <2>3, <2>9, <3>1
    <3>2. CASE l.type # "FS"
      <4>1. SubtractHours(t, Due(l, f), Remaining(t)) <= SubtractHours(t, y, Remaining(t))
        BY <1>0, <1>7, <1>8, <2>9, WalksGrow
      <4>2. late[t].start = SubtractHours(t, y, Remaining(t))
        BY <2>3, <3>2, LateOf
      <4> QED
        BY <1>9, <3>2, <4>1, <4>2
    <3> QED
      BY <3>1, <3>2
  <2> QED
    BY <1>7, <2>10
<1> QED
  BY <1>3, <1>4, <1>6, <1>7, <1>10, <1>11

LEMMA DelayedBegin ==
    ASSUME SavedRight, LagsShared, NEW t \in Tasks, Kind(t) \in {"new", "running"}, NEW f, Dated(f, Sources(t)),
           \A u \in Sources(t) : f[u].finish <= early[u].finish \/ f[u].finish <= late[u].finish
    PROVE  /\ Begin(t, f) \in Int /\ Begin(t, early) \in Int
           /\ Begin(t, f) <= Begin(t, early) \/ Begin(t, f) <= late[t].start
<1>0. net \in Networks /\ AllDated /\ Sources(t) \subseteq Tasks
  BY NetTyped DEF SavedRight, Sources
<1>1. Begin(t, f) \in Int /\ Begin(t, f) \in BeginBounds(t, f)
  BY <1>0, BeginTyped
<1>2. Dated(early, Sources(t))
  BY <1>0 DEF Dated, AllDated
<1>3. Begin(t, early) \in Int /\ \A x \in BeginBounds(t, early) : x \in Int /\ x <= Begin(t, early)
  BY <1>0, <1>2, BeginTyped
<1>4. CASE Begin(t, f) = IF Kind(t) = "running" THEN DataDate ELSE Anchor
  <2>1. Begin(t, f) \in BeginBounds(t, early)
    BY <1>4 DEF BeginBounds
  <2> QED
    BY <1>1, <1>3, <2>1
<1>5. CASE Begin(t, f) # IF Kind(t) = "running" THEN DataDate ELSE Anchor
  <2>1. PICK l \in Into(t) : Begin(t, f) = EarlyStartBy(l, f)
    BY <1>1, <1>5 DEF BeginBounds
  <2>2. l.from \in Sources(t)
    BY DEF Sources
  <2>3. EarlyStartBy(l, early) \in Int /\ EarlyStartBy(l, early) <= Begin(t, early)
    BY <1>3 DEF BeginBounds
  <2>5. late[t].start \in Int
    BY LateOf
  <2>6. EarlyStartBy(l, f) <= EarlyStartBy(l, early) \/ EarlyStartBy(l, f) <= late[t].start
    BY <2>2, DelayedLink DEF Dated
  <2> QED
    BY <1>1, <1>3, <2>1, <2>3, <2>5, <2>6
<1> QED
  BY <1>4, <1>5

\* No delayed finish is after both the early and the late finish.
LEMMA DelayedStep ==
    ASSUME SavedRight, LagsShared, NEW d \in Tasks, Kind(d) = "new", NEW t \in Tasks, NEW f, Dated(f, Sources(t)),
           \A u \in Sources(t) : f[u].finish <= early[u].finish \/ f[u].finish <= late[u].finish,
           NEW row, row = DelayedDates(d, late[d].start, t, f)
    PROVE  row \in Dates /\ (row.finish <= early[t].finish \/ row.finish <= late[t].finish)
<1>0. net \in Networks /\ AllDated /\ Sources(t) \subseteq Tasks
  BY NetTyped DEF SavedRight, Sources
<1>1. /\ late[t].start \in Int /\ late[t].finish \in Int /\ early[t].start \in Int /\ early[t].finish \in Int
      /\ Remaining(t) \in Nat /\ Remaining(t) \in Int
  BY <1>0, LateOf, KindsOf
<1>2. Kind(t) \in {"new", "running"} =>
         /\ late[t].start = SubtractHours(t, late[t].finish, Remaining(t))
         /\ AddHours(t, late[t].start, Remaining(t)) <= late[t].finish
  <2>1. AddHours(t, SubtractHours(t, late[t].finish, Remaining(t)), Remaining(t)) <= late[t].finish
    BY <1>0, <1>1, WalksGrow
  <2> QED
    BY <2>1, LateOf
<1>3. CASE t = d
  <2>1. row = [start |-> late[t].start, finish |-> AddHours(t, late[t].start, Remaining(t))]
    BY <1>3 DEF DelayedDates
  <2>2. AddHours(t, late[t].start, Remaining(t)) \in Int
    BY <1>0, <1>1, Walks
  <2> QED
    BY <1>1, <1>2, <1>3, <2>1, <2>2 DEF Dates
<1>4. CASE t # d
  <2>0. row = EarlyDates(t, f) /\ row \in Dates
    BY <1>0, <1>4, EarlyTyped DEF DelayedDates
  <2>1. early[t] = EarlyDates(t, early)
    BY DEF SavedRight, EarlyRight, AllDated
  <2>2. CASE Kind(t) \in {"done", "external"}
    <3>1. EarlyDates(t, f) = EarlyDates(t, early)
      <4>1. PICK x : /\ x = (IF net.task[t].start = NoDate THEN Anchor ELSE net.task[t].start)
                     /\ EarlyDates(t, f) = [start |-> x, finish |-> IF net.task[t].finish = NoDate THEN x ELSE net.task[t].finish]
        BY <1>0, <2>2, EarlyCases
      <4>2. PICK y : /\ y = (IF net.task[t].start = NoDate THEN Anchor ELSE net.task[t].start)
                     /\ EarlyDates(t, early) = [start |-> y, finish |-> IF net.task[t].finish = NoDate THEN y ELSE net.task[t].finish]
        BY <1>0, <2>2, EarlyCases
      <4> QED
        BY <4>1, <4>2
    <3> QED
      BY <1>1, <2>0, <2>1, <3>1
  <2>3. CASE Kind(t) \in {"new", "running"}
    <3>1. PICK b \in Int : b = Begin(t, f)
      BY <2>3, DelayedBegin
    <3>2. PICK e \in Int : e = Begin(t, early)
      BY <2>3, DelayedBegin
    <3>3. b <= e \/ b <= late[t].start
      BY <2>3, <3>1, <3>2, DelayedBegin
    <3>4. PICK y \in Int : y = AddHours(t, b, Remaining(t))
      BY <1>0, <1>1, Walks
    <3>5. PICK z \in Int : z = AddHours(t, e, Remaining(t))
      BY <1>0, <1>1, Walks
    <3>6. y <= z \/ y <= late[t].finish
      <4>1. b <= e => y <= z
        BY <1>0, <1>1, <3>4, <3>5, WalksGrow
      <4>2. b <= late[t].start => y <= AddHours(t, late[t].start, Remaining(t))
        BY <1>0, <1>1, <3>4, WalksGrow
      <4>3. AddHours(t, late[t].start, Remaining(t)) \in Int
        BY <1>0, <1>1, Walks
      <4> QED
        BY <1>1, <1>2, <2>3, <3>3, <4>1, <4>2, <4>3
    <3>7. CASE Kind(t) = "new"
      <4>1. row.finish = y /\ early[t].finish = z
        <5>1. row = [start |-> b, finish |-> y]
          BY <1>0, <2>0, <3>1, <3>4, <3>7, EarlyCases
        <5>2. early[t] = [start |-> e, finish |-> z]
          BY <1>0, <2>1, <3>2, <3>5, <3>7, EarlyCases
        <5> QED
          BY <5>1, <5>2
      <4> QED
        BY <2>0, <3>6, <4>1
    <3>8. CASE Kind(t) = "running"
      <4>1. DataDate \in Int
        BY <1>0, AnchorTyped
      <4>2. row.finish = Max({AddHours(t, x, Remaining(t)) : x \in {DataDate, b}})
        <5>1. row = [start |-> net.task[t].start,
                     finish |-> Max({AddHours(t, x, Remaining(t)) : x \in {DataDate, b}})]
          BY <1>0, <2>0, <3>1, <3>8, EarlyCases
        <5> QED
          BY <5>1
      <4>3. early[t].finish = Max({AddHours(t, x, Remaining(t)) : x \in {DataDate, e}})
        <5>1. early[t] = [start |-> net.task[t].start,
                          finish |-> Max({AddHours(t, x, Remaining(t)) : x \in {DataDate, e}})]
          BY <1>0, <2>1, <3>2, <3>8, EarlyCases
        <5> QED
          BY <5>1
      <4>4. row.finish = AddHours(t, DataDate, Remaining(t)) \/ row.finish = y
        <5> DEFINE A == {AddHours(t, x, Remaining(t)) : x \in {DataDate, b}}
        <5>1. Max(A) \in A
          BY <1>0, <4>1, RunningFinish
        <5>2. row.finish \in A
          BY <4>2, <5>1
        <5> QED
          BY <3>4, <5>2
      <4>5. AddHours(t, DataDate, Remaining(t)) <= early[t].finish /\ z <= early[t].finish
        <5> DEFINE A == {AddHours(t, x, Remaining(t)) : x \in {DataDate, e}}
        <5>1. \A v \in A : v <= Max(A)
          BY <1>0, <4>1, RunningFinish
        <5>2. AddHours(t, DataDate, Remaining(t)) \in A /\ z \in A
          BY <3>5
        <5> QED
          BY <4>3, <5>1, <5>2
      <4> QED
        BY <1>1, <2>0, <3>6, <4>4, <4>5
    <3> QED
      BY <2>3, <3>7, <3>8
  <2> QED
    BY <1>0, <2>2, <2>3, KindsOf
<1> QED
  BY <1>3, <1>4

LEMMA SafeFloat == ASSUME LevelInv PROVE FloatIsSafe
<1> SUFFICES ASSUME step = "saved", LagsShared,
                    \A t \in Tasks : Kind(t) = "external" => early[t].start <= early[t].finish,
                    NEW d \in Tasks, Kind(d) = "new"
             PROVE  WorkingHoursBetween(Calendar(d), ProjectFinish, FinishIfDelayed(d, late[d].start)) = 0
  BY DEF FloatIsSafe
<1>1. SavedRight
  BY WhenSaved
<1>2. net \in Networks /\ AllDated /\ Ordered /\ Len(order) = Cardinality(Tasks)
  BY <1>1 DEF SavedRight
<1>3. PICK f : DelayedSolves(d, late[d].start, f) /\ FinishIfDelayed(d, late[d].start) = Max({f[t].finish : t \in Tasks})
  BY <1>2, DelayedExist, DelayedTaken
<1> DEFINE S == {t \in Tasks : f[t] \in Dates /\ (f[t].finish <= early[t].finish \/ f[t].finish <= late[t].finish)}
<1>4. ASSUME NEW t \in Tasks, Sources(t) \subseteq S PROVE t \in S
  <2>1. f[t] = DelayedDates(d, late[d].start, t, f)
    BY <1>3 DEF DelayedSolves
  <2>2. Dated(f, Sources(t)) /\ \A u \in Sources(t) : f[u].finish <= early[u].finish \/ f[u].finish <= late[u].finish
    BY <1>4 DEF Dated
  <2>3. f[t] \in Dates /\ (f[t].finish <= early[t].finish \/ f[t].finish <= late[t].finish)
    BY <1>1, <2>1, <2>2, DelayedStep
  <2> QED
    BY <2>3
<1>5. Tasks \subseteq S
  <2> HIDE DEF S
  <2> QED
    BY <1>2, <1>4, ForthThroughOrder
<1>6. ProjectFinish \in Int /\ \A t \in Tasks : early[t].finish <= ProjectFinish /\ late[t].finish <= ProjectFinish
  BY <1>1, <1>2, FinishTyped, LateInTime
<1>7. \A t \in Tasks : f[t].finish \in Int /\ f[t].finish <= ProjectFinish
  BY <1>1, <1>5, <1>6, LateOf DEF Dates
<1> DEFINE F == {f[t].finish : t \in Tasks}
<1>8. F \in SUBSET Int /\ F # {}
  BY <1>7, TasksCounted
<1>9. IsFiniteSet(F)
  <2> DEFINE g == [t \in Tasks |-> f[t].finish]
  <2>1. F = {g[t] : t \in Tasks}
    OBVIOUS
  <2>2. IsFiniteSet({g[t] : t \in Tasks})
    BY TasksCounted, FiniteImage
  <2> QED
    BY <2>1, <2>2
<1>10. Max(F) \in F
  <2> HIDE DEF F
  <2> QED
    BY <1>8, <1>9, MaxOf
<1>11. Max(F) \in Int /\ Max(F) <= ProjectFinish
  BY <1>7, <1>10
<1> QED
  BY <1>3, <1>6, <1>11, NoStretch

\* Networks of one calendar without lags and subprojects, in which no link
\* leaves the start of a running task.
Unlagged ==
    /\ \A l \in net.links : l.lag = 0 /\ (Kind(l.from) = "running" => l.type \in {"FS", "FF"})
    /\ \A t \in Tasks : Kind(t) # "external" /\ Calendar(t) = DefaultCalendar

LEMMA EarlyOf ==
    ASSUME SavedRight, NEW t \in Tasks, Kind(t) \in {"new", "running"}
    PROVE  /\ Begin(t, early) \in Int /\ early[t].start \in Int /\ early[t].finish \in Int /\ Remaining(t) \in Nat
           /\ \A l \in Into(t) : EarlyStartBy(l, early) \in Int /\ EarlyStartBy(l, early) <= Begin(t, early)
           /\ Kind(t) = "new" => early[t].start = Begin(t, early)
           /\ HoursTo(t, early[t].finish) = HoursTo(t, Begin(t, early)) + Remaining(t)
<1>0. /\ net \in Networks /\ AllDated /\ Sources(t) \subseteq Tasks
      /\ early[t] = EarlyDates(t, early) /\ early[t] \in Dates
  BY NetTyped DEF SavedRight, Sources, EarlyRight, AllDated
<1>1. Dated(early, Sources(t))
  BY <1>0 DEF Dated, AllDated
<1>2. PICK b \in Int : b = Begin(t, early)
  BY <1>0, <1>1, BeginTyped
<1>3. \A x \in BeginBounds(t, early) : x \in Int /\ x <= b
  BY <1>0, <1>1, <1>2, BeginTyped
<1>4. \A l \in Into(t) : EarlyStartBy(l, early) \in Int /\ EarlyStartBy(l, early) <= b
  BY <1>3 DEF BeginBounds
<1>5. Remaining(t) \in Nat /\ Remaining(t) \in Int
  BY <1>0, KindsOf
<1>6. PICK y \in Int : y = AddHours(t, b, Remaining(t)) /\ HoursTo(t, y) = HoursTo(t, b) + Remaining(t)
  BY <1>0, <1>5, Walks
<1>7. CASE Kind(t) = "new"
  <2>1. early[t] = [start |-> b, finish |-> y]
    BY <1>0, <1>2, <1>6, <1>7, EarlyCases
  <2> QED
    BY <1>2, <1>4, <1>5, <1>6, <2>1
<1>8. CASE Kind(t) = "running"
  <2>1. DataDate \in Int /\ DataDate <= b
    BY <1>0, <1>3, <1>8, AnchorTyped DEF BeginBounds
  <2> DEFINE A == {AddHours(t, x, Remaining(t)) : x \in {DataDate, b}}
  <2>2. early[t] = [start |-> net.task[t].start, finish |-> Max(A)]
    BY <1>0, <1>2, <1>8, EarlyCases
  <2>3. PICK z \in Int : z = AddHours(t, DataDate, Remaining(t))
    BY <1>0, <1>5, <2>1, Walks
  <2>4. z <= y
    BY <1>0, <1>5, <1>6, <2>1, <2>3, WalksGrow
  <2>5. A \in SUBSET Int /\ y \in A /\ \A v \in A : v <= y
    BY <1>6, <2>3, <2>4
  <2>6. Max(A) = y
    <3> HIDE DEF A
    <3> QED
      BY <2>5, MaxIs
  <2>7. early[t].finish = y
    BY <2>2, <2>6
  <2> QED
    BY <1>0, <1>2, <1>4, <1>5, <1>6, <1>8, <2>7 DEF Dates
<1> QED
  BY <1>7, <1>8

LEMMA EarlyBeforeLate ==
    ASSUME SavedRight, Unlagged
    PROVE  \A t \in Tasks : Kind(t) \in {"new", "running"} => HoursTo(t, Begin(t, early)) <= HoursTo(t, late[t].start)
<1> DEFINE S == {t \in Tasks : Kind(t) \in {"new", "running"} => HoursTo(t, Begin(t, early)) <= HoursTo(t, late[t].start)}
<1>0. net \in Networks /\ AllDated /\ Ordered /\ Len(order) = Cardinality(Tasks)
  BY DEF SavedRight
<1>1. \A t, u \in Tasks : \A x : HoursTo(t, x) = HoursTo(u, x)
  BY DEF Unlagged, HoursTo
<1>2. ASSUME NEW t \in Tasks, Targets(t) \subseteq S, Kind(t) \in {"new", "running"}
      PROVE  HoursTo(t, Begin(t, early)) <= HoursTo(t, late[t].start)
  <2>1. PICK b \in Int : b = Begin(t, early)
    BY <1>2, EarlyOf
  <2>2. /\ early[t].start \in Int /\ early[t].finish \in Int /\ late[t].start \in Int /\ late[t].finish \in Int
        /\ Remaining(t) \in Nat /\ Remaining(t) \in Int
    BY <1>2, EarlyOf, LateOf
  <2>3. HoursTo(t, b) \in Int /\ HoursTo(t, late[t].finish) \in Int /\ HoursTo(t, early[t].finish) \in Int
    BY <1>0, <2>2, HoursBetween
  <2>4. HoursTo(t, late[t].start) = HoursTo(t, late[t].finish) - Remaining(t)
    BY <1>0, <1>2, <2>2, LateOf, Walks
  <2>5. HoursTo(t, early[t].finish) = HoursTo(t, b) + Remaining(t)
    BY <1>2, <2>1, EarlyOf
  <2>6. HoursTo(t, b) + Remaining(t) <= HoursTo(t, late[t].finish)
    <3>1. CASE Binding(t) = {}
      <4>1. late[t].finish = ProjectFinish /\ early[t].finish <= ProjectFinish
        BY <1>0, <1>2, <3>1, LateOf, FinishTyped
      <4>2. HoursTo(t, early[t].finish) <= HoursTo(t, late[t].finish)
        BY <1>0, <2>2, <4>1, HoursBetween
      <4> QED
        BY <2>5, <4>2
    <3>2. CASE Binding(t) # {}
      <4>1. PICK l \in Binding(t) : late[t].finish = LateFinishBy(l, late)
        BY <1>2, <3>2, LateOf
      <4>2. l \in net.links /\ l \in OutOf(t) /\ l.from = t /\ l.to \in Tasks /\ Kind(l.to) # "done" /\ l.to \in S
        BY <1>0, <1>2, NetTyped DEF Binding, OutOf, Targets
      <4>3. PICK u \in Tasks : u = l.to /\ u \in S /\ Kind(u) \in {"new", "running"} /\ l \in Into(u)
        BY <1>0, <4>2, KindsOf, NetTyped DEF Unlagged
      <4>4. l.lag = 0 /\ (Kind(t) = "running" => l.type \in {"FS", "FF"}) /\ l.type \in LinkTypes
        BY <1>0, <4>2, NetTyped DEF Unlagged
      <4>5. PICK e \in Int : e = Begin(u, early)
        BY <4>3, EarlyOf
      <4>6. /\ late[u].start \in Int /\ late[u].finish \in Int /\ late[u] \in Dates
            /\ early[t] \in Dates /\ Remaining(u) \in Nat /\ Remaining(u) \in Int
        BY <1>0, <4>3, EarlyOf, LateOf DEF SavedRight, AllDated
      <4>7. HoursTo(t, e) <= HoursTo(t, late[u].start)
        BY <1>1, <4>3, <4>5
      <4>8. HoursTo(t, late[u].start) = HoursTo(t, late[u].finish) - Remaining(u)
        <5>1. HoursTo(u, late[u].start) = HoursTo(u, late[u].finish) - Remaining(u)
          BY <1>0, <4>3, <4>6, LateOf, Walks
        <5> QED
          BY <1>1, <5>1
      <4>9. PICK x \in Int : x = (IF l.type \in {"FS", "FF"} THEN early[t].finish ELSE early[t].start)
        BY <2>2
      <4>10. PICK y \in Int : y = (IF l.type \in {"FS", "SS"} THEN late[u].start ELSE late[u].finish)
        BY <4>6
      <4>11. HoursTo(t, x) - (IF l.type \in {"FS", "SS"} THEN 0 ELSE Remaining(u)) <= HoursTo(t, e)
        <5>1. PICK v \in Int : v = EarlyStartBy(l, early) /\ v <= e
          BY <4>3, <4>5, EarlyOf
        <5>2. HoursTo(u, Due(l, early)) = HoursTo(u, x) + 0
          BY <1>0, <4>2, <4>3, <4>4, <4>6, <4>9, DueTyped
        <5>3. HoursTo(u, v) = HoursTo(u, Due(l, early)) - (IF l.type \in {"FS", "SS"} THEN 0 ELSE Remaining(u))
          BY <1>0, <4>2, <4>3, <4>6, <5>1, DueTyped
        <5>4. HoursTo(u, v) <= HoursTo(u, e) /\ HoursTo(u, x) \in Int /\ HoursTo(u, v) \in Int
          BY <1>0, <5>1, HoursBetween
        <5>5. HoursTo(u, v) = HoursTo(u, x) - (IF l.type \in {"FS", "SS"} THEN 0 ELSE Remaining(u))
          BY <5>2, <5>3, <5>4
        <5> QED
          BY <1>1, <5>4, <5>5
      <4>12. HoursTo(t, late[t].finish) = HoursTo(t, y) + (IF l.type \in {"FS", "FF"} THEN 0 ELSE Remaining(t))
        <5>1. HoursTo(t, late[t].finish) = HoursTo(t, y) - 0 + (IF l.type \in {"FS", "FF"} THEN 0 ELSE Remaining(t))
          BY <1>0, <4>1, <4>2, <4>3, <4>4, <4>6, <4>10, LateBoundTyped
        <5>2. HoursTo(t, y) \in Int
          BY <1>0, HoursBetween
        <5> QED
          BY <5>1, <5>2
      <4>13. /\ HoursTo(t, x) \in Int /\ HoursTo(t, y) \in Int /\ HoursTo(t, e) \in Int
             /\ HoursTo(t, late[u].start) \in Int /\ HoursTo(t, late[u].finish) \in Int
        BY <1>0, <4>6, HoursBetween
      <4>14. HoursTo(t, x) <= HoursTo(t, y)
        <5>1. CASE l.type \in {"FS", "SS"}
          BY <4>7, <4>10, <4>11, <4>13, <5>1
        <5>2. CASE l.type \notin {"FS", "SS"}
          BY <4>6, <4>7, <4>8, <4>10, <4>11, <4>13, <5>2
        <5> QED
          BY <5>1, <5>2
      <4>15. CASE l.type \in {"FS", "FF"}
        BY <2>2, <2>3, <2>5, <4>9, <4>12, <4>13, <4>14, <4>15
      <4>16. CASE l.type \notin {"FS", "FF"}
        <5>1. early[t].start = b
          BY <1>2, <2>1, <4>4, <4>16, EarlyOf
        <5> QED
          BY <2>2, <2>3, <4>9, <4>12, <4>13, <4>14, <4>16, <5>1
      <4> QED
        BY <4>15, <4>16
    <3> QED
      BY <3>1, <3>2
  <2> QED
    BY <2>1, <2>2, <2>3, <2>4, <2>6
<1>3. \A t \in Tasks : Targets(t) \subseteq S => t \in S
  BY <1>2
<1>4. Tasks \subseteq S
  <2> HIDE DEF S
  <2> QED
    BY <1>0, <1>3, BackThroughOrder
<1> QED
  BY <1>4

LEMMA NothingMadeUp == ASSUME LevelInv PROVE NoArtificialNegativeFloat
<1> SUFFICES ASSUME step = "saved", Unlagged, NEW t \in Tasks, Kind(t) = "new"
             PROVE  WorkingHoursBetween(Calendar(t), late[t].start, early[t].start) = 0
  BY DEF NoArtificialNegativeFloat, Unlagged
<1>1. SavedRight /\ net \in Networks
  BY WhenSaved DEF SavedRight
<1>2. early[t].start \in Int /\ late[t].start \in Int /\ early[t].start = Begin(t, early)
  BY <1>1, EarlyOf, LateOf
<1>3. HoursTo(t, early[t].start) <= HoursTo(t, late[t].start)
  BY <1>1, <1>2, EarlyBeforeLate
<1> QED
  BY <1>1, <1>2, <1>3, HoursBetween

LEMMA FreeWithinTotal == ASSUME LevelInv PROVE FreeFloatWithinTotal
<1> SUFFICES ASSUME step = "saved", Plain, \A l \in net.links : l.type \in {"FS", "FF"} /\ l.lag = 0,
                    NEW t \in Tasks, OutOf(t) # {}
             PROVE  WorkingHoursBetween(DefaultCalendar, late[t].finish, early[t].finish + floats[t].free) = 0
  BY DEF FreeFloatWithinTotal
<1>1. SavedRight /\ net \in Networks /\ AllDated
  BY WhenSaved DEF SavedRight
<1>2. Unlagged
  BY DEF Unlagged, Plain
<1>3. /\ \A u \in Tasks : Kind(u) = "new"
      /\ Binding(t) = OutOf(t) /\ Calendar(t) = DefaultCalendar
  BY <1>1, PlainHours DEF Plain
<1>4. /\ early[t].finish \in Int /\ late[t].finish \in Int
  BY <1>1, LateOf
<1>5. PICK l \in Binding(t) : late[t].finish = LateFinishBy(l, late)
  BY <1>1, <1>3, LateOf
<1>6. l \in net.links /\ l.from = t /\ l.to \in Tasks /\ l.type \in {"FS", "FF"} /\ l.lag = 0
  BY <1>1, <1>3, NetTyped DEF OutOf
<1>7. PICK u \in Tasks : u = l.to /\ Kind(u) = "new"
  BY <1>3, <1>6
<1>8. PICK x \in Int : x = (IF l.type = "FS" THEN early[u].start ELSE early[u].finish)
  BY <1>1, LateOf
<1>9. PICK y \in Int : y = (IF l.type = "FS" THEN late[u].start ELSE late[u].finish)
  BY <1>1, LateOf
<1>10. floats[t].free \in Int /\ early[t].finish + floats[t].free <= x
  <2>1. floats[t] = [float |-> TotalFloat(t), free |-> FreeFloat(t), critical |-> Critical(t)]
    BY <1>1, <1>3 DEF SavedRight, FloatsOf
  <2> DEFINE A == {Slack(k) : k \in Binding(t)}
  <2>2. FreeFloat(t) = Min(A)
    <3>1. Kind(t) # "done" /\ Binding(t) # {}
      BY <1>3
    <3> QED
      BY <3>1, FreeCases
  <2>3. Min(A) \in Int /\ Slack(l) \in Int /\ Min(A) <= Slack(l)
    <3>1. A \in SUBSET Int /\ Min(A) \in A /\ \A v \in A : Min(A) <= v
      BY <1>1, <1>3, SlackTyped
    <3>2. Slack(l) \in A
      OBVIOUS
    <3> QED
      BY <3>1, <3>2
  <2>4. Due(l, early) = early[t].finish
    <3>1. Due(l, early) = AddHours(u, early[t].finish, 0)
      BY <1>1, <1>6, <1>7, BoundOf
    <3> QED
      BY <3>1 DEF AddHours, AddWorkingHours
  <2>5. Slack(l) = x - early[t].finish
    BY <1>6, <1>7, <1>8, <2>4 DEF Slack
  <2>6. floats[t].free = Min(A)
    BY <2>1, <2>2
  <2> HIDE DEF A
  <2> QED
    BY <1>4, <2>3, <2>5, <2>6
<1>11. HoursTo(t, x) <= HoursTo(t, y)
  <2>1. \A z : HoursTo(t, z) = HoursTo(u, z)
    BY <1>2 DEF Unlagged, HoursTo
  <2>2. HoursTo(u, Begin(u, early)) <= HoursTo(u, late[u].start)
    BY <1>1, <1>2, <1>7, EarlyBeforeLate
  <2>3. Begin(u, early) = early[u].start /\ HoursTo(u, early[u].finish) = HoursTo(u, Begin(u, early)) + Remaining(u)
    BY <1>1, <1>7, EarlyOf
  <2>4. early[u].start \in Int /\ early[u].finish \in Int /\ late[u].start \in Int /\ late[u].finish \in Int /\ Remaining(u) \in Int
    BY <1>1, <1>7, LateOf, EarlyOf
  <2>5. HoursTo(u, late[u].start) = HoursTo(u, late[u].finish) - Remaining(u)
    BY <1>1, <1>7, <2>4, LateOf, Walks
  <2>6. /\ HoursTo(u, early[u].start) \in Int /\ HoursTo(u, late[u].start) \in Int
        /\ HoursTo(u, late[u].finish) \in Int /\ HoursTo(u, early[u].finish) \in Int
    BY <1>1, <2>4, HoursBetween
  <2>7. HoursTo(u, early[u].start) <= HoursTo(u, late[u].start) /\ HoursTo(u, early[u].finish) <= HoursTo(u, late[u].finish)
    BY <2>2, <2>3, <2>4, <2>5, <2>6
  <2> QED
    BY <1>8, <1>9, <2>1, <2>7
<1>12. HoursTo(t, late[t].finish) = HoursTo(t, y)
  <2>1. late[t].finish = SubtractHours(t, y, 0)
    BY <1>1, <1>5, <1>6, <1>7, <1>9, BoundOf
  <2> QED
    BY <2>1 DEF SubtractHours, SubtractWorkingHours
<1>13. PICK z \in Int : z = early[t].finish + floats[t].free /\ z <= x
  BY <1>4, <1>10
<1>14. HoursTo(t, z) <= HoursTo(t, late[t].finish)
  <2>1. HoursTo(t, z) <= HoursTo(t, x) /\ HoursTo(t, z) \in Int /\ HoursTo(t, x) \in Int /\ HoursTo(t, y) \in Int
    BY <1>1, <1>13, HoursBetween
  <2> QED
    BY <1>11, <1>12, <2>1
<1> QED
  BY <1>1, <1>3, <1>4, <1>13, <1>14, HoursBetween

\* FloatIsTrue, for every network and every calendar.
THEOREM FloatTellsTheTruth == LevelSpec => []FloatIsTrue
<1>1. LevelInv => FloatIsTrue
  BY SafeFloat, FreeWithinTotal, NothingMadeUp DEF FloatIsTrue
<1> QED
  BY <1>1, LevelAlways, PTL

-----------------------------------------------------------------------------
(* Leveling: what a task takes of a resource on a day *)

LEMMA NatProduct == ASSUME NEW m \in Nat, NEW n \in Nat PROVE m * n \in Nat
<1>1. 0 * n \in Int /\ m * n \in Int /\ 0 * n <= m * n
  <2>1. 0 \in Int /\ m \in Int /\ 0 <= m
    OBVIOUS
  <2> QED
    BY <2>1, Products
<1> QED
  BY <1>1

LEMMA TeamTyped ==
    ASSUME net \in Networks, NEW t \in Tasks
    PROVE  Team(t) \subseteq Resources /\ \A r \in Team(t) : net.assigned[t][r] \in Nat
BY LevelingAssumption DEF Team

LEMMA RowedTyped ==
    ASSUME net \in Networks
    PROVE  /\ Rowed \subseteq Tasks /\ \A t \in Rowed : Hours(t) \in Nat /\ Hours(t) \in Int
           /\ \A t \in Rowed : Kind(t) = "new" => Hours(t) = Remaining(t)
<1>1. \A t \in Tasks : net.task[t] \in Rows
  BY NetTyped
<1>2. Rowed \subseteq Tasks
  BY DEF Rowed
<1> QED
  BY <1>1, <1>2, KindsOf DEF Hours, Rows

LEMMA CapacityTyped ==
    ASSUME NEW r \in Resources, NEW d \in Int
    PROVE  /\ Capacity(r, d) \in Nat /\ ResourceCalendar[r] \in Calendars /\ MaxUnits[r] \in Nat
           /\ Cardinality(DaySchedule(ResourceCalendar[r], d)) \in Nat
<1>1. ResourceCalendar[r] \in Calendars /\ MaxUnits[r] \in Nat
  BY LevelingAssumption
<1>2. Cardinality(DaySchedule(ResourceCalendar[r], d)) \in Nat
  BY <1>1, ScheduleSlots
<1> QED
  BY <1>1, <1>2, NatProduct DEF Capacity

LEMMA HoursOnTyped ==
    ASSUME net \in Networks, NEW t \in Tasks, NEW s, NEW d \in Int
    PROVE  /\ HoursOn(t, s, d) \in Nat
           /\ HoursOn(t, s, d) <= Cardinality(DaySchedule(Calendar(t), d))
           /\ Cardinality(DaySchedule(Calendar(t), d)) \in Nat
<1>1. PICK c \in Calendars : c = Calendar(t)
  BY NetTyped
<1> DEFINE S == {x \in DaySchedule(c, d) : Moment(d, x) \in s..(AddHours(t, s, Hours(t)) - 1)}
<1>2. IsFiniteSet(DaySchedule(c, d)) /\ S \subseteq DaySchedule(c, d)
  BY ScheduleSlots
<1>3. Cardinality(S) <= Cardinality(DaySchedule(c, d)) /\ IsFiniteSet(S)
  <2> HIDE DEF S
  <2> QED
    BY <1>2, FS_Subset
<1>4. Cardinality(S) \in Nat /\ Cardinality(DaySchedule(c, d)) \in Nat
  <2> HIDE DEF S
  <2> QED
    BY <1>2, <1>3, FS_CardinalityType
<1>5. HoursOn(t, s, d) = Cardinality(S)
  BY <1>1 DEF HoursOn
<1> QED
  BY <1>1, <1>3, <1>4, <1>5

LEMMA DayGrows == ASSUME NEW x \in Int, NEW y \in Int, x <= y PROVE Day(x) \in Int /\ Day(y) \in Int /\ Day(x) <= Day(y)
<1>1. Day(x) \in Int /\ Day(y) \in Int /\ Time(x) \in Slots /\ Time(y) \in Slots
  BY DayTime
<1>2. ASSUME Day(y) < Day(x) PROVE FALSE
  <2>1. Moment(Day(y) + 1, 0) <= Moment(Day(x), 0) /\ Moment(Day(y) + 1, 0) \in Int /\ Moment(Day(x), 0) \in Int
    BY <1>1, <1>2, DaysGrow
  <2>2. x = Moment(Day(x), 0) + Time(x) /\ y = Moment(Day(y), 0) + Time(y) /\ Moment(Day(y), 0) \in Int
    <3>1. Time(x) \in Int /\ Time(y) \in Int /\ 0 \in Int
      BY <1>1, SlotNumbers
    <3> QED
      BY <1>1, <3>1, DayTime, Moments
  <2>3. Moment(Day(y) + 1, 0) = Moment(Day(y), 0) + DayHours
    <3>1. DayHours \in Int
      BY SlotNumbers
    <3> QED
      BY <1>1, <3>1, SlotsOfDays
  <2>4. Time(x) \in Int /\ 0 <= Time(x) /\ Time(y) \in Int /\ Time(y) < DayHours /\ DayHours \in Int
    <3>1. DayHours \in Int
      BY SlotNumbers
    <3>2. PICK h \in Slots : h = Time(x)
      BY <1>1
    <3>3. PICK k \in Slots : k = Time(y)
      BY <1>1
    <3>4. h \in Int /\ 0 <= h /\ k \in Int /\ k < DayHours
      BY SlotNumbers
    <3> QED
      BY <3>1, <3>2, <3>3, <3>4
  <2> QED
    BY <2>1, <2>2, <2>3, <2>4
<1> QED
  BY <1>1, <1>2

\* On the other days a task has no hours.
LEMMA HoursOnOtherDays ==
    ASSUME net \in Networks, NEW t \in Rowed, NEW s \in Int, NEW d \in Int, d \notin DaysFrom(t, s)
    PROVE  HoursOn(t, s, d) = 0
<1>0. t \in Tasks /\ Hours(t) \in Nat /\ Hours(t) \in Int /\ 0 <= Hours(t)
  BY RowedTyped
<1>1. PICK f \in Int : f = AddHours(t, s, Hours(t)) /\ s <= f
  BY <1>0, Walks
<1>2. HoursOn(t, s, d) \in Nat
  BY <1>0, HoursOnTyped
<1>3. ASSUME HoursOn(t, s, d) > 0 PROVE FALSE
  <2> DEFINE S == {x \in DaySchedule(Calendar(t), d) : Moment(d, x) \in s..(f - 1)}
  <2>1. HoursOn(t, s, d) = Cardinality(S)
    BY <1>1 DEF HoursOn
  <2>2. S # {}
    <3>1. Cardinality({}) = 0
      BY FS_EmptySet
    <3> QED
      BY <1>3, <2>1, <3>1
  <2>3. PICK x \in DaySchedule(Calendar(t), d) : Moment(d, x) \in s..(f - 1)
    BY <2>2
  <2>4. x \in Slots
    BY <1>0, NetTyped, ScheduleSlots
  <2>5. Day(Moment(d, x)) = d
    BY <2>4, SlotsOfDays
  <2>6. PICK m \in Int : m = Moment(d, x) /\ s <= m /\ m <= f
    BY <1>1, <2>3
  <2>7. Day(s) \in Int /\ Day(f) \in Int /\ Day(s) <= d /\ d <= Day(f)
    BY <1>1, <2>5, <2>6, DayGrows
  <2>8. d \in DaysFrom(t, s)
    BY <1>1, <1>3, <2>7 DEF DaysFrom
  <2> QED
    BY <2>8
<1> QED
  BY <1>2, <1>3

LEMMA DaysTyped ==
    ASSUME net \in Networks, NEW t \in Rowed, NEW s \in Int
    PROVE  DaysFrom(t, s) \subseteq Int
BY DEF DaysFrom

-----------------------------------------------------------------------------
(* Leveling: the starts that are tried *)

TriedSolves(t, n, f) ==
    f = [k \in 0..n |-> NextWorkingMoment(Calendar(t), IF k = 0 THEN EarliestStart(t) ELSE Moment(Day(f[k - 1]) + 1, 0))]

LEMMA TriedTaken == ASSUME NEW t, NEW n, NEW f, TriedSolves(t, n, f) PROVE TriedSolves(t, n, Starts(t, n))
BY DEF TriedSolves, Starts

LEMMA TriedExist == ASSUME NEW t, NEW n \in Nat PROVE \E f : TriedSolves(t, n, f)
<1> DEFINE T == {k \in Nat : \E f : TriedSolves(t, k, f)}
<1>1. 0 \in T
  <2> DEFINE f == [k \in 0..0 |-> NextWorkingMoment(Calendar(t), EarliestStart(t))]
  <2>1. f = [k \in 0..0 |-> NextWorkingMoment(Calendar(t), IF k = 0 THEN EarliestStart(t) ELSE Moment(Day(f[k - 1]) + 1, 0))]
    OBVIOUS
  <2> QED
    BY <2>1 DEF TriedSolves
<1>2. ASSUME NEW k \in T PROVE k + 1 \in T
  <2>1. PICK f : TriedSolves(t, k, f)
    OBVIOUS
  <2> DEFINE g == [j \in 0..(k + 1) |-> IF j = k + 1 THEN NextWorkingMoment(Calendar(t), Moment(Day(f[k]) + 1, 0)) ELSE f[j]]
             Wanted(j) == NextWorkingMoment(Calendar(t), IF j = 0 THEN EarliestStart(t) ELSE Moment(Day(g[j - 1]) + 1, 0))
  <2>2. ASSUME NEW j \in 0..(k + 1) PROVE g[j] = Wanted(j)
    <3>1. CASE j = k + 1
      <4>1. k + 1 # 0 /\ (k + 1) - 1 = k /\ k \in 0..(k + 1) /\ k # k + 1
        OBVIOUS
      <4>2. g[k] = f[k] /\ g[k + 1] = NextWorkingMoment(Calendar(t), Moment(Day(f[k]) + 1, 0))
        BY <4>1
      <4> HIDE DEF g
      <4> QED
        BY <3>1, <4>1, <4>2
    <3>2. CASE j # k + 1
      <4>1. j \in 0..k /\ g[j] = f[j]
        BY <3>2
      <4>2. f[j] = NextWorkingMoment(Calendar(t), IF j = 0 THEN EarliestStart(t) ELSE Moment(Day(f[j - 1]) + 1, 0))
        BY <2>1, <4>1 DEF TriedSolves
      <4>3. j # 0 => j - 1 \in 0..(k + 1) /\ j - 1 # k + 1
        BY <4>1
      <4>4. j # 0 => g[j - 1] = f[j - 1]
        BY <4>3
      <4> HIDE DEF g
      <4> QED
        BY <4>1, <4>2, <4>4
    <3> QED
      BY <3>1, <3>2
  <2>3. g = [j \in 0..(k + 1) |-> Wanted(j)]
    BY <2>2
  <2>4. TriedSolves(t, k + 1, g)
    BY <2>3 DEF TriedSolves
  <2> QED
    BY <2>4
<1>3. T = Nat
  <2> HIDE DEF T
  <2>1. T \subseteq Nat
    BY DEF T
  <2> QED
    BY <1>1, <1>2, <2>1, NumbersFrom0
<1> QED
  BY <1>3

\* The first start is the next working moment, and the others are later.
LEMMA StartsOf ==
    ASSUME net \in Networks, NEW t \in Tasks, EarliestStart(t) \in Int, NEW n \in Nat
    PROVE  /\ DOMAIN Starts(t, n) = 0..n
           /\ \A k \in 0..n : /\ Starts(t, n)[k] \in Int /\ EarliestStart(t) <= Starts(t, n)[k]
                              /\ Starts(t, n)[0] <= Starts(t, n)[k]
           /\ Starts(t, n)[0] = NextWorkingMoment(Calendar(t), EarliestStart(t))
<1>1. PICK f : f = Starts(t, n)
  OBVIOUS
<1>2. TriedSolves(t, n, f)
  BY <1>1, TriedExist, TriedTaken
<1>3. Calendar(t) \in Calendars
  BY NetTyped
<1>4. f[0] = NextWorkingMoment(Calendar(t), EarliestStart(t)) /\ DOMAIN f = 0..n
  BY <1>2 DEF TriedSolves
<1>5. f[0] \in Int /\ EarliestStart(t) <= f[0]
  BY <1>3, <1>4, NextLands
<1> DEFINE T == {k \in Nat : k <= n => f[k] \in Int /\ f[0] <= f[k]}
<1>6. 0 \in T
  BY <1>5
<1>7. ASSUME NEW k \in T, k + 1 <= n PROVE f[k + 1] \in Int /\ f[0] <= f[k + 1]
  <2>1. PICK x \in Int : x = f[k] /\ f[0] <= x
    BY <1>7
  <2>2. f[k + 1] = NextWorkingMoment(Calendar(t), Moment(Day(x) + 1, 0))
    <3>1. k + 1 \in 0..n /\ k + 1 # 0 /\ (k + 1) - 1 = k
      BY <1>7
    <3> QED
      BY <1>2, <2>1, <3>1 DEF TriedSolves
  <2>3. PICK m \in Int : m = Moment(Day(x) + 1, 0) /\ x <= m
    <3>1. Day(x) \in Int /\ Time(x) \in Slots
      BY DayTime
    <3>2. Time(x) \in Int /\ Time(x) < DayHours /\ DayHours \in Int /\ 0 \in Int
      <4>1. DayHours \in Int
        BY SlotNumbers
      <4>2. PICK h \in Slots : h = Time(x)
        BY <3>1
      <4>3. h \in Int /\ h < DayHours
        BY SlotNumbers
      <4> QED
        BY <4>1, <4>2, <4>3
    <3>3. x = Moment(Day(x), 0) + Time(x) /\ Moment(Day(x), 0) \in Int
      BY <3>1, <3>2, DayTime, Moments
    <3>4. Moment(Day(x) + 1, 0) = Moment(Day(x), 0) + DayHours
      BY <3>1, <3>2, SlotsOfDays
    <3> QED
      BY <3>2, <3>3, <3>4
  <2>4. NextWorkingMoment(Calendar(t), m) \in Int /\ m <= NextWorkingMoment(Calendar(t), m)
    BY <1>3, NextLands
  <2> QED
    BY <1>5, <2>1, <2>2, <2>3, <2>4
<1>8. \A k \in T : k + 1 \in T
  BY <1>7
<1>9. T = Nat
  <2>1. T \subseteq Nat
    OBVIOUS
  <2> HIDE DEF T
  <2> QED
    BY <1>6, <1>8, <2>1, NumbersFrom0
<1>10. \A k \in 0..n : f[k] \in Int /\ f[0] <= f[k]
  BY <1>9
<1> QED
  BY <1>1, <1>4, <1>5, <1>10

-----------------------------------------------------------------------------
(* Leveling: what the tasks take together *)

LEMMA SumScaled ==
    ASSUME NEW S, IsFiniteSet(S), NEW v, Natural(v, S), NEW g, Natural(g, S), NEW h \in Nat,
           \A x \in S : v[x] <= h * g[x]
    PROVE  SumFunctionOnSet(v, S) <= h * SumFunctionOnSet(g, S)
<1> DEFINE Bounded(U) == SumFunctionOnSet(v, U) <= h * SumFunctionOnSet(g, U)
           F == {U \in SUBSET S : Bounded(U)}
<1>1. {} \in F
  <2>1. SumFunctionOnSet(v, {}) = 0 /\ SumFunctionOnSet(g, {}) = 0 /\ h * 0 = 0
    BY SumEmpty
  <2> QED
    BY <2>1
<1>2. ASSUME NEW U \in SUBSET S, NEW x \in S, U \in F, x \notin U PROVE U \cup {x} \in F
  <2> DEFINE W == U \cup {x}
  <2>1. W \subseteq S /\ x \in W /\ W \ {x} = U /\ IsFiniteSet(W) /\ IsFiniteSet(U)
    <3>1. W \subseteq S /\ U \subseteq S
      BY <1>2
    <3> QED
      BY <1>2, <3>1, FS_Subset
  <2>2. Natural(v, W) /\ Natural(g, W) /\ Natural(v, U) /\ Natural(g, U) /\ Integral(v, W) /\ Integral(g, W)
    BY <2>1 DEF Natural, Integral
  <2> HIDE DEF W
  <2>3. SumFunctionOnSet(v, W) = v[x] + SumFunctionOnSet(v, U) /\ SumFunctionOnSet(g, W) = g[x] + SumFunctionOnSet(g, U)
    BY <2>1, <2>2, SumRemove
  <2>4. PICK a \in Nat : a = SumFunctionOnSet(v, U)
    BY <2>1, <2>2, SumNat
  <2>5. PICK b \in Nat : b = SumFunctionOnSet(g, U)
    BY <2>1, <2>2, SumNat
  <2>6. PICK i \in Nat : i = v[x]
    BY DEF Natural
  <2>7. PICK j \in Nat : j = g[x]
    BY DEF Natural
  <2>8. i <= h * j /\ a <= h * b
    BY <1>2, <2>4, <2>5, <2>6, <2>7
  <2>9. h * (j + b) = h * j + h * b /\ h * j \in Int /\ h * b \in Int
    BY NatProduct
  <2>10. i + a <= h * (j + b)
    BY <2>8, <2>9
  <2>11. Bounded(W)
    BY <2>3, <2>4, <2>5, <2>6, <2>7, <2>10
  <2> QED
    BY <2>1, <2>11 DEF W
<1>3. S \in F
  <2> HIDE DEF F
  <2> QED
    BY <1>1, <1>2, FiniteFamily
<1> QED
  BY <1>3

\* What task t takes of a resource on a day if it starts at s.
Takes(t, s, r, d) == IF r \in Team(t) THEN HoursOn(t, s, d) * net.assigned[t][r] ELSE 0

LEMMA TakesTyped ==
    ASSUME net \in Networks, NEW t \in Rowed, NEW s \in Int, NEW r \in Resources, NEW d \in Int
    PROVE  /\ Takes(t, s, r, d) \in Nat
           /\ d \notin DaysFrom(t, s) => Takes(t, s, r, d) = 0
           /\ Alone(t) => Takes(t, s, r, d) = 0
<1>1. t \in Tasks
  BY RowedTyped
<1>2. HoursOn(t, s, d) \in Nat
  BY <1>1, HoursOnTyped
<1>3. r \in Team(t) => net.assigned[t][r] \in Nat
  BY <1>1, TeamTyped
<1>4. Takes(t, s, r, d) \in Nat
  BY <1>2, <1>3, NatProduct DEF Takes
<1>5. ASSUME HoursOn(t, s, d) = 0 PROVE Takes(t, s, r, d) = 0
  <2>1. r \in Team(t) => 0 * net.assigned[t][r] = 0
    BY <1>3
  <2> QED
    BY <1>5, <2>1 DEF Takes
<1>6. ASSUME Hours(t) = 0 PROVE HoursOn(t, s, d) = 0
  <2>1. AddHours(t, s, Hours(t)) = s
    BY <1>6 DEF AddHours, AddWorkingHours
  <2>2. s..(AddHours(t, s, Hours(t)) - 1) = {}
    BY <2>1
  <2>3. {x \in DaySchedule(Calendar(t), d) : Moment(d, x) \in s..(AddHours(t, s, Hours(t)) - 1)} = {}
    BY <2>2
  <2> QED
    BY <2>3, FS_EmptySet DEF HoursOn
<1>7. Team(t) = {} => Takes(t, s, r, d) = 0
  BY DEF Takes
<1> QED
  BY <1>4, <1>5, <1>6, <1>7, HoursOnOtherDays DEF Alone

\* What tasks that start at f[t] take together.
Mine(S, r) == {t \in S : r \in Team(t)}
DemandBy(f, S, r, d) == SumFunctionOnSet([t \in Mine(S, r) |-> HoursOn(t, f[t], d) * net.assigned[t][r]], Mine(S, r))

LEMMA DemandIs ==
    ASSUME net \in Networks, NEW S \in SUBSET Rowed, NEW f, \A t \in S : f[t] \in Int, NEW r \in Resources, NEW d \in Int
    PROVE  LET v == [t \in S |-> Takes(t, f[t], r, d)] IN
           /\ IsFiniteSet(S) /\ Natural(v, S) /\ Integral(v, S)
           /\ DemandBy(f, S, r, d) = SumFunctionOnSet(v, Mine(S, r))
           /\ Mine(S, r) \subseteq S /\ IsFiniteSet(Mine(S, r))
           /\ Natural(v, Mine(S, r)) /\ Integral(v, Mine(S, r))
           /\ DemandBy(f, S, r, d) \in Nat
<1> DEFINE v == [t \in S |-> Takes(t, f[t], r, d)]
           M == Mine(S, r)
           u == [t \in M |-> HoursOn(t, f[t], d) * net.assigned[t][r]]
<1>1. S \subseteq Tasks /\ M \subseteq S
  BY RowedTyped DEF Mine
<1>2. IsFiniteSet(S) /\ IsFiniteSet(M)
  <2>1. M \subseteq Tasks
    BY <1>1
  <2> QED
    BY <1>1, <2>1, TasksCounted, FS_Subset
<1>3. \A t \in S : v[t] \in Nat
  BY TakesTyped
<1>4. Natural(v, S) /\ Integral(v, S) /\ Natural(v, M) /\ Integral(v, M)
  BY <1>1, <1>3 DEF Natural, Integral
<1>5. \A t \in M : u[t] = v[t]
  BY <1>1 DEF Takes, Mine
<1>6. SumFunctionOnSet(u, M) = SumFunctionOnSet(v, M)
  <2> HIDE DEF u, v, M
  <2> QED
    BY <1>2, <1>4, <1>5, SumSame
<1>7. SumFunctionOnSet(v, M) \in Nat
  <2> HIDE DEF v, M
  <2> QED
    BY <1>2, <1>4, SumNat
<1>8. DemandBy(f, S, r, d) = SumFunctionOnSet(u, M)
  BY DEF DemandBy
<1> QED
  BY <1>1, <1>2, <1>4, <1>6, <1>7, <1>8

LEMMA DemandAdds ==
    ASSUME net \in Networks, NEW S \in SUBSET Rowed, NEW t \in Rowed, t \notin S, NEW f, NEW g,
           \A u \in S : f[u] \in Int /\ g[u] = f[u], g[t] \in Int, NEW r \in Resources, NEW d \in Int
    PROVE  DemandBy(g, S \cup {t}, r, d) = DemandBy(f, S, r, d) + Takes(t, g[t], r, d)
<1> DEFINE T == S \cup {t}
           v == [u \in S |-> Takes(u, f[u], r, d)]
           w == [u \in T |-> Takes(u, g[u], r, d)]
           M == Mine(S, r)
           N == Mine(T, r)
<1>1. T \in SUBSET Rowed /\ \A u \in T : g[u] \in Int
  OBVIOUS
<1>2. IsFiniteSet(M) /\ Integral(v, M) /\ M \subseteq S /\ DemandBy(f, S, r, d) = SumFunctionOnSet(v, M)
  BY DemandIs
<1>3. IsFiniteSet(N) /\ Integral(w, N) /\ DemandBy(g, T, r, d) = SumFunctionOnSet(w, N)
  <2> HIDE DEF T
  <2> QED
    BY <1>1, DemandIs
<1>4. \A u \in M : w[u] = v[u]
  BY <1>2
<1>5. SumFunctionOnSet(w, M) = SumFunctionOnSet(v, M)
  <2> HIDE DEF v, w, M
  <2> QED
    BY <1>2, <1>4, SumSame
<1>6. DemandBy(f, S, r, d) \in Nat
  BY DemandIs
<1>7. CASE r \in Team(t)
  <2>1. t \in N /\ N \ {t} = M /\ w[t] = Takes(t, g[t], r, d)
    BY <1>7 DEF Mine
  <2>2. SumFunctionOnSet(w, N) = w[t] + SumFunctionOnSet(w, N \ {t})
    <3> HIDE DEF w, N
    <3> QED
      BY <1>3, <2>1, SumRemove
  <2>3. PICK k \in Nat : k = Takes(t, g[t], r, d)
    BY TakesTyped
  <2>4. PICK n \in Nat : n = DemandBy(f, S, r, d)
    BY <1>6
  <2>5. SumFunctionOnSet(w, N \ {t}) = n
    BY <1>2, <1>5, <2>1, <2>4
  <2>6. DemandBy(g, T, r, d) = k + n
    BY <1>3, <2>1, <2>2, <2>3, <2>5
  <2> QED
    BY <2>3, <2>4, <2>6
<1>8. CASE r \notin Team(t)
  <2>1. N = M /\ Takes(t, g[t], r, d) = 0
    BY <1>8 DEF Mine, Takes
  <2> QED
    BY <1>2, <1>3, <1>5, <1>6, <2>1
<1> QED
  BY <1>7, <1>8

LEMMA DemandFewer ==
    ASSUME net \in Networks, NEW S \in SUBSET Rowed, NEW B \in SUBSET S, NEW f, \A t \in S : f[t] \in Int,
           NEW r \in Resources, NEW d \in Int
    PROVE  DemandBy(f, B, r, d) <= DemandBy(f, S, r, d)
<1> DEFINE v == [t \in S |-> Takes(t, f[t], r, d)]
           w == [t \in B |-> Takes(t, f[t], r, d)]
           M == Mine(B, r)
           N == Mine(S, r)
<1>1. B \in SUBSET Rowed /\ \A t \in B : f[t] \in Int
  OBVIOUS
<1>2. IsFiniteSet(M) /\ Integral(w, M) /\ M \subseteq B /\ DemandBy(f, B, r, d) = SumFunctionOnSet(w, M)
  BY <1>1, DemandIs
<1>3. IsFiniteSet(N) /\ Natural(v, N) /\ DemandBy(f, S, r, d) = SumFunctionOnSet(v, N)
  BY DemandIs
<1>4. M \in SUBSET N /\ \A t \in M : v[t] = w[t]
  BY <1>2 DEF Mine
<1>5. SumFunctionOnSet(v, M) = SumFunctionOnSet(w, M)
  <2> HIDE DEF v, w, M
  <2> QED
    BY <1>2, <1>4, SumSame
<1>6. SumFunctionOnSet(v, M) <= SumFunctionOnSet(v, N)
  <2> HIDE DEF v, M, N
  <2> QED
    BY <1>3, <1>4, SumFewer
<1> QED
  BY <1>2, <1>3, <1>5, <1>6

\* Ample resources have the hours of all their tasks on any day.
LEMMA AmpleCovers ==
    ASSUME net \in Networks, Ample, NEW S \in SUBSET Rowed, NEW f, \A t \in S : f[t] \in Int,
           NEW r \in Resources, NEW d \in Int
    PROVE  DemandBy(f, S, r, d) <= Capacity(r, d)
<1> DEFINE v == [t \in S |-> Takes(t, f[t], r, d)]
           M == Mine(S, r)
           N == Mine(Rowed, r)
           g == [t \in N |-> net.assigned[t][r]]
<1>1. IsFiniteSet(M) /\ Natural(v, M) /\ M \subseteq S /\ DemandBy(f, S, r, d) = SumFunctionOnSet(v, M)
  BY DemandIs
<1>2. M \in SUBSET N /\ N \subseteq Rowed /\ Rowed \subseteq Tasks
  BY RowedTyped DEF Mine
<1>3. IsFiniteSet(N)
  <2>1. N \subseteq Tasks
    BY <1>2
  <2> QED
    BY <2>1, TasksCounted, FS_Subset
<1>4. Natural(g, N) /\ Natural(g, M)
  BY <1>2, TeamTyped DEF Natural, Mine
<1>5. PICK h \in Nat : h = Cardinality(DaySchedule(ResourceCalendar[r], d))
  BY CapacityTyped
<1>6. PICK m \in Nat : m = MaxUnits[r]
  BY CapacityTyped
<1>7. SumFunctionOnSet(g, N) <= m /\ \A t \in N : Calendar(t) = ResourceCalendar[r]
  BY <1>6 DEF Ample, Mine
<1>8. ASSUME NEW t \in M PROVE v[t] <= h * g[t]
  <2>1. t \in S /\ t \in N /\ t \in Tasks /\ r \in Team(t) /\ t \in Rowed /\ f[t] \in Int
    BY <1>1, <1>2 DEF Mine
  <2>2. PICK n \in Nat : n = HoursOn(t, f[t], d)
    BY <2>1, HoursOnTyped
  <2>3. n <= h
    BY <1>5, <1>7, <2>1, <2>2, HoursOnTyped
  <2>4. PICK a \in Nat : a = net.assigned[t][r]
    BY <2>1, TeamTyped
  <2>5. v[t] = n * a /\ g[t] = a
    BY <2>1, <2>2, <2>4 DEF Takes
  <2>6. n * a <= h * a
    <3>1. n \in Int /\ h \in Int
      OBVIOUS
    <3> QED
      BY <2>3, <3>1, Products
  <2> QED
    BY <2>5, <2>6
<1>9. SumFunctionOnSet(v, M) <= h * SumFunctionOnSet(g, M)
  <2> HIDE DEF v, g, M
  <2> QED
    BY <1>1, <1>4, <1>8, SumScaled
<1>10. SumFunctionOnSet(g, M) <= SumFunctionOnSet(g, N) /\ SumFunctionOnSet(g, M) \in Nat /\ SumFunctionOnSet(g, N) \in Nat
  <2> HIDE DEF g, M, N
  <2> QED
    BY <1>1, <1>2, <1>3, <1>4, SumFewer, SumNat
<1>11. PICK a \in Nat : a = SumFunctionOnSet(g, M)
  BY <1>10
<1>12. a <= m
  BY <1>7, <1>10, <1>11
<1>13. h * a <= h * m
  <2>1. a * h <= m * h /\ a * h = h * a /\ m * h = h * m
    <3>1. a \in Int /\ m \in Int
      OBVIOUS
    <3> QED
      BY <1>12, <3>1, Products
  <2> QED
    BY <2>1
<1>14. Capacity(r, d) = h * m
  BY <1>5, <1>6 DEF Capacity
<1>15. SumFunctionOnSet(v, M) \in Nat /\ h * a \in Int /\ h * m \in Int
  <2>1. SumFunctionOnSet(v, M) \in Nat
    <3> HIDE DEF v, M
    <3> QED
      BY <1>1, SumNat
  <2> QED
    BY <2>1, NatProduct
<1> QED
  BY <1>1, <1>9, <1>11, <1>13, <1>14, <1>15

-----------------------------------------------------------------------------
(* Leveling: what a step leaves alone *)

LEMMA RowsKept ==
    ASSUME net' = net
    PROVE  /\ Rowed' = Rowed
           /\ \A t : Hours(t)' = Hours(t) /\ Team(t)' = Team(t) /\ Before(t)' = Before(t) /\ Alone(t)' = Alone(t)
<1>1. \A t : Kind(t)' = Kind(t) /\ Into(t)' = Into(t)
  BY NetKept
<1>2. Rowed' = Rowed
  BY <1>1 DEF Rowed
<1>3. \A t : Hours(t)' = Hours(t) /\ Team(t)' = Team(t)
  BY DEF Hours, Team
<1> QED
  BY <1>1, <1>2, <1>3 DEF Before, Alone

LEMMA HoursOnKept ==
    ASSUME net' = net, NEW t, NEW s
    PROVE  /\ AddHours(t, s, Hours(t))' = AddHours(t, s, Hours(t))
           /\ \A d : HoursOn(t, s, d)' = HoursOn(t, s, d) /\ \A r : Takes(t, s, r, d)' = Takes(t, s, r, d)
           /\ DaysFrom(t, s)' = DaysFrom(t, s)
<1>1. Calendar(t)' = Calendar(t) /\ Hours(t)' = Hours(t) /\ Team(t)' = Team(t)
  BY NetKept, RowsKept
<1>2. AddHours(t, s, Hours(t))' = AddHours(t, s, Hours(t))
  BY <1>1 DEF AddHours
<1>3. ASSUME NEW d PROVE HoursOn(t, s, d)' = HoursOn(t, s, d)
  BY <1>1, <1>2 DEF HoursOn
<1>4. ASSUME NEW d, NEW r PROVE Takes(t, s, r, d)' = Takes(t, s, r, d)
  BY <1>1, <1>3 DEF Takes
<1>5. DaysFrom(t, s)' = DaysFrom(t, s)
  BY <1>2, <1>3 DEF DaysFrom
<1> QED
  BY <1>2, <1>3, <1>4, <1>5

LEMMA DemandKept ==
    ASSUME net' = net, NEW f, NEW S, NEW r, NEW d
    PROVE  DemandBy(f, S, r, d)' = DemandBy(f, S, r, d)
<1>1. Mine(S, r)' = Mine(S, r)
  BY RowsKept DEF Mine
<1>2. \A t : HoursOn(t, f[t], d)' = HoursOn(t, f[t], d)
  BY HoursOnKept
<1> QED
  BY <1>1, <1>2 DEF DemandBy

LEMMA StartByKept ==
    ASSUME net' = net, NEW l, leveled'[l.from] = leveled[l.from]
    PROVE  StartBy(l)' = StartBy(l)
<1>1. Calendar(l.to)' = Calendar(l.to) /\ Hours(l.to)' = Hours(l.to)
  BY NetKept, RowsKept
<1>2. Due(l, leveled)' = Due(l, leveled)
  BY <1>1 DEF Due, AddHours
<1> QED
  BY <1>1, <1>2 DEF StartBy, SubtractHours

LEMMA EarliestKept ==
    ASSUME net' = net, early' = early, NEW t, \A l \in Before(t) : leveled'[l.from] = leveled[l.from]
    PROVE  /\ EarliestStart(t)' = EarliestStart(t)
           /\ \A n : Starts(t, n)' = Starts(t, n)
<1>1. Before(t)' = Before(t) /\ Calendar(t)' = Calendar(t)
  BY NetKept, RowsKept
<1>2. \A l \in Before(t) : StartBy(l)' = StartBy(l)
  BY StartByKept
<1>3. EarliestStart(t)' = EarliestStart(t)
  BY <1>1, <1>2 DEF EarliestStart
<1>4. ASSUME NEW n PROVE Starts(t, n)' = Starts(t, n)
  BY <1>1, <1>3 DEF Starts
<1> QED
  BY <1>3, <1>4

-----------------------------------------------------------------------------
(* Leveling: the first window *)

LEMMA StartByTyped ==
    ASSUME net \in Networks, NEW t \in Rowed, NEW l \in Before(t), leveled[l.from] \in Dates
    PROVE  /\ l \in net.links /\ l.to = t /\ l.from \in Rowed /\ StartBy(l) \in Int /\ Due(l, leveled) \in Int
           /\ l.type \in {"FS", "SS"} => StartBy(l) = Due(l, leveled)
           /\ l.type \notin {"FS", "SS"} => HoursTo(t, StartBy(l)) = HoursTo(t, Due(l, leveled)) - Hours(t)
<1>1. l \in net.links /\ l.to = t /\ l.from \in Rowed /\ t \in Tasks
  BY NetTyped, RowedTyped DEF Before, Into
<1>2. Due(l, leveled) \in Int
  BY <1>1, DueTyped
<1>3. Hours(t) \in Int
  BY RowedTyped
<1>4. /\ SubtractHours(t, Due(l, leveled), Hours(t)) \in Int
      /\ HoursTo(t, SubtractHours(t, Due(l, leveled), Hours(t))) = HoursTo(t, Due(l, leveled)) - Hours(t)
  BY <1>1, <1>2, <1>3, Walks
<1> QED
  BY <1>1, <1>2, <1>4 DEF StartBy

Bounds(t) == IF Before(t) = {} THEN {net.start, early[t].start} ELSE {StartBy(l) : l \in Before(t)}

LEMMA EarliestTyped ==
    ASSUME net \in Networks, NEW t \in Rowed, early[t] \in Dates, \A l \in Before(t) : leveled[l.from] \in Dates
    PROVE  /\ EarliestStart(t) \in Int /\ EarliestStart(t) \in Bounds(t)
           /\ \A x \in Bounds(t) : x \in Int /\ x <= EarliestStart(t)
<1> DEFINE S == Bounds(t)
<1>1. EarliestStart(t) = Max(S)
  BY DEF EarliestStart, Bounds
<1>2. CASE Before(t) = {}
  <2>1. S = {net.start, early[t].start}
    BY <1>2 DEF Bounds
  <2>2. net.start \in Int /\ early[t].start \in Int
    BY NetTyped DEF Dates
  <2>3. IsFiniteSet(S)
    <3>1. IsFiniteSet({net.start})
      BY FS_Singleton
    <3>2. IsFiniteSet({net.start} \cup {early[t].start})
      BY <3>1, FS_AddElement
    <3>3. S = {net.start} \cup {early[t].start}
      BY <2>1
    <3> QED
      BY <3>2, <3>3
  <2>4. S \in SUBSET Int /\ S # {}
    BY <2>1, <2>2
  <2> HIDE DEF S
  <2>5. Max(S) \in S /\ \A x \in S : x <= Max(S)
    BY <2>3, <2>4, MaxOf
  <2> QED
    BY <1>1, <2>4, <2>5 DEF S
<1>3. CASE Before(t) # {}
  <2>1. S = {StartBy(l) : l \in Before(t)}
    BY <1>3 DEF Bounds
  <2>2. \A l \in Before(t) : StartBy(l) \in Int
    BY StartByTyped
  <2>3. IsFiniteSet(Before(t))
    <3>1. Before(t) \subseteq Into(t) /\ IsFiniteSet(Into(t))
      BY NetTyped DEF Before
    <3> QED
      BY <3>1, FS_Subset
  <2>4. IsFiniteSet(S)
    <3> DEFINE f == [l \in Before(t) |-> StartBy(l)]
    <3>1. IsFiniteSet({f[l] : l \in Before(t)})
      <4> HIDE DEF f
      <4> QED
        BY <2>3, FiniteImage
    <3>2. {f[l] : l \in Before(t)} = S
      BY <2>1
    <3> QED
      BY <3>1, <3>2
  <2>5. S \in SUBSET Int /\ S # {}
    BY <1>3, <2>1, <2>2
  <2> HIDE DEF S
  <2>6. Max(S) \in S /\ \A x \in S : x <= Max(S)
    BY <2>4, <2>5, MaxOf
  <2> QED
    BY <1>1, <2>5, <2>6 DEF S
<1> QED
  BY <1>2, <1>3

LEMMA WindowsAre ==
    ASSUME net \in Networks, NEW t \in Tasks, EarliestStart(t) \in Int
    PROVE  /\ Windows(t) = {x \in {Starts(t, SearchDays - 1)[k] : k \in 0..(SearchDays - 1)} : Fits(t, x)}
           /\ Windows(t) \in SUBSET Int /\ IsFiniteSet(Windows(t))
           /\ \A x \in Windows(t) : EarliestStart(t) <= x /\ Starts(t, SearchDays - 1)[0] <= x
<1>1. PICK n \in Nat : n = SearchDays - 1
  BY LevelingAssumption
<1>2. PICK f : f = Starts(t, n)
  OBVIOUS
<1>3. DOMAIN f = 0..n /\ \A k \in 0..n : f[k] \in Int /\ EarliestStart(t) <= f[k] /\ f[0] <= f[k]
  BY <1>2, StartsOf
<1>4. Windows(t) = {x \in {f[k] : k \in 0..n} : Fits(t, x)}
  <2>1. Windows(t) = {x \in {f[k] : k \in DOMAIN f} : Fits(t, x)}
    BY <1>1, <1>2 DEF Windows
  <2> QED
    BY <1>3, <2>1
<1>5. IsFiniteSet({f[k] : k \in 0..n})
  <2>1. IsFiniteSet(0..n)
    BY FS_Interval
  <2> QED
    BY <2>1, FiniteImage
<1>6. Windows(t) \subseteq {f[k] : k \in 0..n}
  BY <1>4
<1>7. IsFiniteSet(Windows(t))
  BY <1>5, <1>6, FS_Subset
<1> QED
  BY <1>1, <1>2, <1>3, <1>4, <1>6, <1>7

LEMMA UsedTyped ==
    ASSUME \A p \in DOMAIN usage : usage[p] \in Nat, NEW r, NEW d
    PROVE  Used(r, d) \in Nat /\ Used(r, d) \in Int
BY DEF Used

\* A window has the hours that the task takes.
LEMMA FitsAll ==
    ASSUME net \in Networks, NEW t \in Rowed, NEW s \in Int, Fits(t, s),
           \A p \in DOMAIN usage : usage[p] \in Nat,
           NEW r \in Resources, NEW d \in Int, Used(r, d) <= Capacity(r, d)
    PROVE  Used(r, d) + Takes(t, s, r, d) <= Capacity(r, d)
<1>1. PICK k \in Nat : k = Takes(t, s, r, d)
  BY TakesTyped
<1>2. PICK u \in Nat : u = Used(r, d)
  BY UsedTyped
<1>3. PICK c \in Nat : c = Capacity(r, d)
  BY CapacityTyped
<1>4. CASE d \in DaysFrom(t, s) /\ r \in Team(t)
  <2>1. HoursOn(t, s, d) * net.assigned[t][r] <= c - u
    BY <1>2, <1>3, <1>4 DEF Fits
  <2>2. k <= c - u
    BY <1>1, <1>4, <2>1 DEF Takes
  <2> QED
    BY <1>1, <1>2, <1>3, <2>2
<1>5. CASE ~(d \in DaysFrom(t, s) /\ r \in Team(t))
  <2>1. k = 0
    BY <1>1, <1>5, TakesTyped DEF Takes
  <2> QED
    BY <1>1, <1>2, <1>3, <2>1
<1> QED
  BY <1>4, <1>5

\* A task that is placed uses what it takes, no more and no less.
LEMMA UsageGrows ==
    ASSUME net \in Networks, NEW t \in Rowed, NEW s \in Int, \A p \in DOMAIN usage : usage[p] \in Nat,
           usage' = UsageWith(t, s), NEW r \in Resources, NEW d \in Int
    PROVE  Used(r, d)' = Used(r, d) + Takes(t, s, r, d)
<1> DEFINE D == (Team(t) \X DaysFrom(t, s)) \cup DOMAIN usage
           p == <<r, d>>
<1>1. PICK u \in Nat : u = Used(r, d)
  BY UsedTyped
<1>2. CASE p \in D
  <2>1. p \in DOMAIN usage' /\ usage'[p] = Used(p[1], p[2]) + IF p[1] \in Team(t) THEN HoursOn(t, s, p[2]) * net.assigned[t][p[1]] ELSE 0
    BY <1>2 DEF UsageWith
  <2>2. p[1] = r /\ p[2] = d
    OBVIOUS
  <2>3. usage'[p] = u + Takes(t, s, r, d)
    BY <1>1, <2>1, <2>2 DEF Takes
  <2> QED
    BY <1>1, <2>1, <2>3 DEF Used
<1>3. CASE p \notin D
  <2>1. DOMAIN usage' = D
    BY DEF UsageWith
  <2>2. Used(r, d)' = 0 /\ u = 0
    BY <1>1, <1>3, <2>1 DEF Used
  <2>3. ~(r \in Team(t) /\ d \in DaysFrom(t, s))
    BY <1>3
  <2>4. Takes(t, s, r, d) = 0
    BY <2>3, TakesTyped DEF Takes
  <2> QED
    BY <1>1, <2>2, <2>4
<1> QED
  BY <1>2, <1>3

LEMMA UsageTyped ==
    ASSUME net \in Networks, NEW t \in Rowed, NEW s \in Int,
           \A p \in DOMAIN usage : p \in Resources \X Int /\ usage[p] \in Nat, usage' = UsageWith(t, s)
    PROVE  \A p \in DOMAIN usage' : p \in Resources \X Int /\ usage'[p] \in Nat
<1> SUFFICES ASSUME NEW p \in DOMAIN usage' PROVE p \in Resources \X Int /\ usage'[p] \in Nat
  OBVIOUS
<1>0. t \in Tasks
  BY RowedTyped
<1>1. /\ p \in (Team(t) \X DaysFrom(t, s)) \cup DOMAIN usage
      /\ usage'[p] = Used(p[1], p[2]) + IF p[1] \in Team(t) THEN HoursOn(t, s, p[2]) * net.assigned[t][p[1]] ELSE 0
  BY DEF UsageWith
<1>2. p \in Resources \X Int
  <2>1. Team(t) \subseteq Resources /\ DaysFrom(t, s) \subseteq Int
    BY <1>0, TeamTyped, DaysTyped
  <2> QED
    BY <1>1, <2>1
<1>3. PICK r \in Resources, d \in Int : p = <<r, d>>
  BY <1>2
<1>4. p[1] = r /\ p[2] = d
  BY <1>3
<1>5. usage'[p] = Used(r, d) + Takes(t, s, r, d)
  BY <1>1, <1>4 DEF Takes
<1>6. Used(r, d) \in Nat /\ Takes(t, s, r, d) \in Nat
  BY UsedTyped, TakesTyped
<1> QED
  BY <1>2, <1>5, <1>6

-----------------------------------------------------------------------------
(* Leveling: the invariant *)

\* A task for which there was no place, and there is none.
Stuck(t) ==
    ~Alone(t) /\ \A k \in 0..(SearchDays - 1) : ~Fits(t, Starts(t, SearchDays - 1)[k])

\* What is used is what the tasks take that were placed, with their starts f.
UsageRight(B, f) ==
    /\ \A t \in B : f[t] \in Int /\ f[t] = leveled[t].start
    /\ \A r \in Resources, d \in Int : Used(r, d) = DemandBy(f, B, r, d) /\ Used(r, d) <= Capacity(r, d)
    /\ \A t \in DOMAIN leveled \ B : Stuck(t)

\* The leveled dates of a task, by those of its predecessors.
PlacedWell(t) ==
    /\ t \in Rowed /\ leveled[t] \in Dates
    /\ \A l \in Before(t) : l.from \in DOMAIN leveled
    /\ leveled[t].finish = AddHours(t, leveled[t].start, Hours(t))
    /\ EarliestStart(t) <= leveled[t].start

NotEarly(t) == OnlyForward => early[t].start <= leveled[t].start /\ early[t].finish <= leveled[t].finish
NotDelayed(t) ==
    OnlyForward /\ Plain /\ Ample => /\ HoursTo(t, leveled[t].start) <= HoursTo(t, early[t].start)
                                     /\ HoursTo(t, leveled[t].finish) <= HoursTo(t, early[t].finish)

LevelRight ==
    /\ DOMAIN leveled \subseteq Rowed
    /\ mode = "cpm" => leveled = Nothing /\ usage = <<>>
    /\ mode = "stored" => DOMAIN leveled = Rowed
    /\ \A t \in DOMAIN leveled : PlacedWell(t) /\ NotEarly(t) /\ NotDelayed(t)
    /\ \A p \in DOMAIN usage : p \in Resources \X Int /\ usage[p] \in Nat
    /\ \E B \in SUBSET DOMAIN leveled : \E f : UsageRight(B, f)
    /\ delay = IF mode = "stored" THEN [t \in Rowed |-> DelayOf(t)] ELSE Nothing

LEMMA StartBeforeAnchor ==
    ASSUME net \in Networks PROVE net.start \in Int /\ Anchor \in Int /\ net.start <= Anchor
<1>1. DataDate \in Int /\ Anchor \in Int /\ net.start \in Int
  BY AnchorTyped, NetTyped
<1> DEFINE S == {net.start, DataDate}
<1>2. S \in SUBSET Int /\ S # {} /\ net.start \in S
  BY <1>1
<1>3. IsFiniteSet(S)
  <2>1. IsFiniteSet({net.start})
    BY FS_Singleton
  <2>2. IsFiniteSet({net.start} \cup {DataDate})
    BY <2>1, FS_AddElement
  <2>3. S = {net.start} \cup {DataDate}
    OBVIOUS
  <2> QED
    BY <2>2, <2>3
<1>4. Max(S) \in S /\ \A x \in S : x <= Max(S)
  <2> HIDE DEF S
  <2> QED
    BY <1>2, <1>3, MaxOf
<1>5. PICK m \in Int : m = Max(S) /\ net.start <= m
  BY <1>2, <1>4
<1>6. DefaultCalendar \in Calendars
  BY NetworksAssumption
<1>7. m <= NextWorkingMoment(DefaultCalendar, m)
  BY <1>6, NextLands
<1>8. Anchor = NextWorkingMoment(DefaultCalendar, m)
  BY <1>5 DEF Anchor
<1> QED
  BY <1>1, <1>5, <1>7, <1>8

LEMMA EarlyNew ==
    ASSUME net \in Networks, EarlyRight, DOMAIN early = Tasks, NEW t \in Tasks, Kind(t) = "new"
    PROVE  /\ early[t].start \in Int /\ early[t].finish \in Int /\ Anchor \in Int /\ Anchor <= early[t].start
           /\ early[t].start \in BeginBounds(t, early)
           /\ \A l \in Into(t) : EarlyStartBy(l, early) \in Int /\ EarlyStartBy(l, early) <= early[t].start
           /\ Hours(t) \in Nat /\ Remaining(t) = Hours(t)
           /\ early[t].finish = AddHours(t, early[t].start, Hours(t)) /\ early[t].start <= early[t].finish
<1>1. early[t] \in Dates /\ early[t] = EarlyDates(t, early)
  BY DEF EarlyRight
<1>2. Dated(early, Sources(t))
  BY DEF EarlyRight, Dated
<1>3. early[t] = [start |-> Begin(t, early), finish |-> AddHours(t, Begin(t, early), Remaining(t))]
  BY <1>1, EarlyCases
<1>4. PICK b \in Int : b = Begin(t, early)
  BY <1>2, BeginTyped
<1>5. b \in BeginBounds(t, early) /\ \A x \in BeginBounds(t, early) : x \in Int /\ x <= b
  BY <1>2, <1>4, BeginTyped
<1>6. early[t].start = b /\ early[t].finish = AddHours(t, b, Remaining(t))
  BY <1>3, <1>4
<1>7. Anchor \in BeginBounds(t, early)
  BY DEF BeginBounds
<1>8. \A l \in Into(t) : EarlyStartBy(l, early) \in BeginBounds(t, early)
  BY DEF BeginBounds
<1>9. t \in Rowed
  BY DEF Rowed
<1>10. Hours(t) \in Nat /\ Hours(t) \in Int /\ Remaining(t) = Hours(t)
  BY <1>9, RowedTyped
<1>11. AddHours(t, b, Hours(t)) \in Int /\ b <= AddHours(t, b, Hours(t))
  BY <1>10, Walks
<1> QED
  BY <1>5, <1>6, <1>7, <1>8, <1>10, <1>11

Underway == LevelInv /\ LevelRight /\ mode # "cpm"

LEMMA WhenUnderway ==
    ASSUME Underway
    PROVE  /\ net \in Networks /\ EarlyRight /\ DOMAIN early = Tasks /\ (\A t \in Tasks : early[t] \in Dates)
           /\ Rowed \subseteq Tasks /\ DOMAIN leveled \subseteq Rowed
           /\ \A t \in DOMAIN leveled : PlacedWell(t) /\ NotEarly(t) /\ NotDelayed(t) /\ leveled[t] \in Dates
           /\ \A p \in DOMAIN usage : p \in Resources \X Int /\ usage[p] \in Nat
<1>1. net \in Networks /\ EarlyRight /\ DOMAIN early = Tasks
  BY DEF Underway, LevelInv
<1>2. \A t \in Tasks : early[t] \in Dates
  BY <1>1 DEF EarlyRight
<1>3. Rowed \subseteq Tasks
  BY DEF Rowed
<1> QED
  BY <1>1, <1>2, <1>3 DEF Underway, LevelRight, PlacedWell

Ready(t) == t \in Rowed /\ \A l \in Before(t) : l.from \in DOMAIN leveled

LEMMA ReadyTyped ==
    ASSUME Underway, NEW t \in Tasks, Ready(t)
    PROVE  /\ EarliestStart(t) \in Int /\ EarliestStart(t) \in Bounds(t)
           /\ \A x \in Bounds(t) : x \in Int /\ x <= EarliestStart(t)
<1>1. t \in Rowed /\ early[t] \in Dates /\ \A l \in Before(t) : leveled[l.from] \in Dates
  BY WhenUnderway DEF Ready
<1> QED
  BY <1>1, WhenUnderway, EarliestTyped

\* Links forward, and lags of no less than nothing: from early dates that are
\* not later and from leveled dates that are not earlier.
LEMMA ForwardLink ==
    ASSUME Underway, OnlyForward, NEW t \in Tasks, Ready(t), NEW l \in Into(t)
    PROVE  /\ l \in Before(t) /\ Before(t) = Into(t)
           /\ EarlyStartBy(l, early) \in Int /\ StartBy(l) \in Int
           /\ EarlyStartBy(l, early) <= StartBy(l) /\ Anchor <= StartBy(l)
           /\ Plain /\ Ample => HoursTo(t, StartBy(l)) <= HoursTo(t, EarlyStartBy(l, early))
<1>1. Before(t) = Into(t) /\ \A u \in Tasks : u \in Rowed /\ Kind(u) = "new"
  <2>1. \A u \in Tasks : Kind(u) = "new" /\ u \in Rowed
    BY DEF OnlyForward, Rowed
  <2>2. \A k \in Into(t) : k.from \in Tasks
    BY WhenUnderway, NetTyped
  <2> QED
    BY <2>1, <2>2 DEF Before
<1>2. PICK u \in Tasks : u = l.from /\ u \in DOMAIN leveled
  BY <1>1, WhenUnderway, NetTyped DEF Ready
<1>3. l \in net.links /\ l.to = t /\ l.type \in {"FS", "SS"} /\ l.lag \in Int /\ 0 <= l.lag
  BY WhenUnderway, NetTyped DEF OnlyForward, Into
<1>4. leveled[u] \in Dates /\ early[u] \in Dates /\ NotEarly(u) /\ NotDelayed(u)
  BY <1>2, WhenUnderway
<1>5. PICK x \in Int : x = IF l.type \in {"FS", "FF"} THEN early[u].finish ELSE early[u].start
  BY <1>4 DEF Dates
<1>6. PICK y \in Int : y = IF l.type \in {"FS", "FF"} THEN leveled[u].finish ELSE leveled[u].start
  BY <1>4 DEF Dates
<1>7. EarlyStartBy(l, early) = AddHours(t, x, l.lag) /\ StartBy(l) = AddHours(t, y, l.lag)
  BY <1>2, <1>3, <1>5, <1>6 DEF EarlyStartBy, StartBy, Due
<1>8. x <= y
  BY <1>4, <1>5, <1>6 DEF NotEarly
<1>9. PICK n \in Nat : n = l.lag
  BY <1>3
<1>10. /\ AddHours(t, x, n) \in Int /\ AddHours(t, y, n) \in Int /\ AddHours(t, x, n) <= AddHours(t, y, n)
       /\ y <= AddHours(t, y, n)
  <2>1. n \in Int /\ 0 <= n
    OBVIOUS
  <2>2. AddHours(t, x, n) \in Int /\ AddHours(t, y, n) \in Int /\ y <= AddHours(t, y, n)
    BY <2>1, WhenUnderway, Walks
  <2>3. AddHours(t, x, n) <= AddHours(t, y, n)
    BY <1>8, WhenUnderway, WalksGrow
  <2> QED
    BY <2>2, <2>3
<1>11. Anchor \in Int /\ Anchor <= x
  <2>1. /\ early[u].start \in Int /\ early[u].finish \in Int /\ Anchor \in Int /\ Anchor <= early[u].start
        /\ early[u].start <= early[u].finish
    BY <1>1, WhenUnderway, EarlyNew
  <2> QED
    BY <1>5, <2>1
<1>12. ASSUME Plain, Ample PROVE HoursTo(t, StartBy(l)) <= HoursTo(t, EarlyStartBy(l, early))
  <2>1. HoursTo(u, y) <= HoursTo(u, x)
    BY <1>4, <1>5, <1>6, <1>12 DEF NotDelayed
  <2>2. HoursTo(t, y) = HoursTo(u, y) /\ HoursTo(t, x) = HoursTo(u, x)
    BY <1>12, WhenUnderway, PlainHours
  <2>3. /\ HoursTo(t, x) \in Int /\ HoursTo(t, y) \in Int
        /\ HoursTo(t, AddHours(t, x, n)) = HoursTo(t, x) + n /\ HoursTo(t, AddHours(t, y, n)) = HoursTo(t, y) + n
    <3>1. n \in Int
      OBVIOUS
    <3> QED
      BY <3>1, WhenUnderway, Walks
  <2> QED
    BY <1>7, <1>9, <2>1, <2>2, <2>3
<1> QED
  BY <1>1, <1>7, <1>8, <1>9, <1>10, <1>11, <1>12

LEMMA ForwardStart ==
    ASSUME Underway, OnlyForward, NEW t \in Tasks, Ready(t)
    PROVE  /\ early[t].start \in Int /\ EarliestStart(t) \in Int /\ early[t].start <= EarliestStart(t)
           /\ Plain /\ Ample => HoursTo(t, EarliestStart(t)) <= HoursTo(t, early[t].start)
<1>1. Kind(t) = "new" /\ Before(t) \subseteq Into(t)
  BY DEF OnlyForward, Before
<1>2. PICK e \in Int : e = early[t].start
  BY <1>1, WhenUnderway, EarlyNew
<1>3. /\ e \in BeginBounds(t, early) /\ Anchor \in Int /\ Anchor <= e
      /\ \A l \in Into(t) : EarlyStartBy(l, early) \in Int /\ EarlyStartBy(l, early) <= e
  BY <1>1, <1>2, WhenUnderway, EarlyNew
<1>4. PICK s \in Int : s = EarliestStart(t)
  BY ReadyTyped
<1>5. s \in Bounds(t) /\ \A x \in Bounds(t) : x \in Int /\ x <= s
  BY <1>4, ReadyTyped
<1>6. \A x, y \in Int : x <= y => HoursTo(t, x) <= HoursTo(t, y)
  BY WhenUnderway, HoursBetween
<1>7. CASE Before(t) = {}
  <2>1. Bounds(t) = {net.start, e}
    BY <1>2, <1>7 DEF Bounds
  <2>2. net.start \in Int /\ net.start <= Anchor
    BY WhenUnderway, StartBeforeAnchor
  <2>3. e <= s /\ s <= e
    BY <1>3, <1>5, <2>1, <2>2
  <2> QED
    BY <1>2, <1>4, <1>6, <2>3
<1>8. CASE Before(t) # {}
  <2>1. PICK k \in Into(t) : k \in Before(t)
    BY <1>1, <1>8
  <2>2. \A l \in Into(t) : StartBy(l) \in Bounds(t)
    BY <1>8, ForwardLink DEF Bounds
  <2>3. PICK l \in Into(t) : s = StartBy(l)
    BY <1>1, <1>5, <1>8 DEF Bounds
  <2>4. e <= s
    <3>1. CASE e = Anchor
      <4>1. Anchor <= StartBy(k) /\ StartBy(k) \in Int /\ StartBy(k) <= s
        BY <1>5, <2>2, ForwardLink
      <4> QED
        BY <1>3, <3>1, <4>1
    <3>2. CASE e # Anchor
      <4>1. PICK j \in Into(t) : e = EarlyStartBy(j, early)
        BY <1>1, <1>3, <3>2 DEF BeginBounds
      <4>2. EarlyStartBy(j, early) <= StartBy(j) /\ StartBy(j) \in Int /\ StartBy(j) <= s
        BY <1>5, <2>2, ForwardLink
      <4> QED
        BY <4>1, <4>2
    <3> QED
      BY <3>1, <3>2
  <2>5. ASSUME Plain, Ample PROVE HoursTo(t, s) <= HoursTo(t, e)
    <3>1. PICK x \in Int : x = EarlyStartBy(l, early) /\ x <= e
      BY <1>3
    <3>2. HoursTo(t, s) <= HoursTo(t, x)
      BY <2>3, <2>5, <3>1, ForwardLink
    <3>3. HoursTo(t, x) <= HoursTo(t, e)
      BY <1>6, <3>1
    <3>4. HoursTo(t, s) \in Int /\ HoursTo(t, x) \in Int /\ HoursTo(t, e) \in Int
      BY WhenUnderway, HoursBetween
    <3> QED
      BY <3>2, <3>3, <3>4
  <2> QED
    BY <1>2, <1>4, <2>4, <2>5
<1> QED
  BY <1>7, <1>8

LEMMA StartFacts ==
    ASSUME Underway, NEW t \in Tasks, Ready(t), NEW windows, windows = (IF Alone(t) THEN {} ELSE Windows(t)),
           NEW s, s = StartOf(t, windows)
    PROVE  /\ s \in Int /\ EarliestStart(t) <= s
           /\ windows # {} => ~Alone(t) /\ Fits(t, s)
           /\ windows = {} => Alone(t) \/ Stuck(t)
           /\ Alone(t) \/ (\A x \in Int : Fits(t, x)) => s = NextWorkingMoment(Calendar(t), EarliestStart(t))
<1>1. PICK e \in Int : e = EarliestStart(t)
  BY ReadyTyped
<1>2. PICK n \in Nat : n = SearchDays - 1
  BY LevelingAssumption
<1>3. net \in Networks
  BY WhenUnderway
<1>4. CASE Alone(t)
  <2>1. s = Starts(t, 0)[0]
    BY <1>4 DEF StartOf
  <2>2. /\ Starts(t, 0)[0] = NextWorkingMoment(Calendar(t), e)
        /\ \A k \in 0..0 : Starts(t, 0)[k] \in Int /\ e <= Starts(t, 0)[k]
    BY <1>1, <1>3, StartsOf
  <2>3. 0 \in 0..0
    OBVIOUS
  <2> QED
    BY <1>1, <1>4, <2>1, <2>2, <2>3
<1>5. CASE ~Alone(t)
  <2>1. windows = Windows(t)
    BY <1>5
  <2>2. PICK f : f = Starts(t, n)
    OBVIOUS
  <2>3. /\ windows = {x \in {f[k] : k \in 0..n} : Fits(t, x)} /\ windows \in SUBSET Int /\ IsFiniteSet(windows)
        /\ \A x \in windows : e <= x /\ f[0] <= x
    BY <1>1, <1>2, <1>3, <2>1, <2>2, WindowsAre
  <2>4. f[0] \in Int /\ f[0] = NextWorkingMoment(Calendar(t), e)
    <3>1. 0 \in 0..n
      OBVIOUS
    <3> QED
      BY <1>1, <1>3, <2>2, <3>1, StartsOf
  <2>5. CASE windows = {}
    <3>1. s = e
      BY <1>1, <1>5, <2>5 DEF StartOf
    <3>2. \A k \in 0..n : ~Fits(t, f[k])
      BY <2>3, <2>5
    <3>3. Stuck(t)
      BY <1>2, <1>5, <2>2, <3>2 DEF Stuck
    <3>4. ~(\A x \in Int : Fits(t, x))
      <4>1. 0 \in 0..n
        OBVIOUS
      <4> QED
        BY <2>4, <3>2, <4>1
    <3> QED
      BY <1>1, <1>5, <2>5, <3>1, <3>3, <3>4
  <2>6. CASE windows # {}
    <3>1. s = Min(windows)
      BY <1>5, <2>6 DEF StartOf
    <3>2. s \in windows /\ \A x \in windows : s <= x
      BY <2>3, <2>6, <3>1, MinOf
    <3>3. ASSUME \A x \in Int : Fits(t, x) PROVE s = f[0]
      <4>1. f[0] \in windows
        <5>1. 0 \in 0..n
          OBVIOUS
        <5> QED
          BY <2>3, <2>4, <3>3, <5>1
      <4>2. s <= f[0] /\ f[0] <= s /\ s \in Int
        BY <2>3, <3>2, <4>1
      <4> QED
        BY <2>4, <4>2
    <3> QED
      BY <1>1, <1>5, <2>3, <2>4, <2>6, <3>2, <3>3
  <2> QED
    BY <2>5, <2>6
<1> QED
  BY <1>4, <1>5

\* With ample resources, every start is a window.
LEMMA AmpleFits ==
    ASSUME Underway, Ample, NEW B \in SUBSET DOMAIN leveled, NEW f, UsageRight(B, f),
           NEW t \in Rowed \ DOMAIN leveled, NEW s \in Int
    PROVE  Fits(t, s)
<1> SUFFICES ASSUME NEW d \in DaysFrom(t, s), NEW r \in Team(t)
             PROVE  HoursOn(t, s, d) * net.assigned[t][r] <= Capacity(r, d) - Used(r, d)
  BY DEF Fits
<1> DEFINE g == [u \in B \cup {t} |-> IF u = t THEN s ELSE leveled[u].start]
<1>1. net \in Networks /\ t \in Tasks /\ t \notin B
  BY WhenUnderway
<1>2. r \in Resources /\ d \in Int
  BY <1>1, TeamTyped, DaysTyped
<1>3. B \in SUBSET Rowed /\ \A u \in B : f[u] = leveled[u].start /\ f[u] \in Int
  BY WhenUnderway DEF UsageRight
<1>4. g[t] = s /\ \A u \in B : g[u] = f[u]
  BY <1>1, <1>3
<1> HIDE DEF g
<1>5. DemandBy(g, B \cup {t}, r, d) = DemandBy(f, B, r, d) + Takes(t, s, r, d)
  <2>1. \A u \in B : f[u] \in Int /\ g[u] = f[u]
    BY <1>3, <1>4
  <2> QED
    BY <1>1, <1>2, <1>3, <1>4, <2>1, DemandAdds
<1>6. DemandBy(g, B \cup {t}, r, d) <= Capacity(r, d)
  <2>1. B \cup {t} \in SUBSET Rowed /\ \A u \in B \cup {t} : g[u] \in Int
    BY <1>3, <1>4
  <2> QED
    BY <1>1, <1>2, <2>1, AmpleCovers
<1>7. Used(r, d) = DemandBy(f, B, r, d)
  BY <1>2 DEF UsageRight
<1>8. Takes(t, s, r, d) = HoursOn(t, s, d) * net.assigned[t][r]
  BY DEF Takes
<1>9. PICK u \in Nat : u = Used(r, d)
  BY WhenUnderway, UsedTyped
<1>10. PICK k \in Nat : k = Takes(t, s, r, d)
  BY <1>1, <1>2, TakesTyped
<1>11. PICK c \in Nat : c = Capacity(r, d)
  BY <1>2, CapacityTyped
<1>12. u + k <= c
  BY <1>5, <1>6, <1>7, <1>9, <1>10, <1>11
<1> QED
  BY <1>8, <1>9, <1>10, <1>11, <1>12

LEMMA StuckKept ==
    ASSUME net \in Networks, net' = net, early' = early, NEW t \in Rowed,
           \A l \in Before(t) : leveled'[l.from] = leveled[l.from],
           \A p \in DOMAIN usage : usage[p] \in Nat,
           \A r \in Resources, d \in Int : Used(r, d)' \in Int /\ Used(r, d) <= Used(r, d)',
           Stuck(t)
    PROVE  Stuck(t)'
<1>1. t \in Tasks /\ Alone(t)' = Alone(t)
  BY RowedTyped, RowsKept
<1>2. Starts(t, SearchDays - 1)' = Starts(t, SearchDays - 1)
  BY EarliestKept
<1>3. ASSUME NEW s, ~Fits(t, s) PROVE ~Fits(t, s)'
  <2>1. PICK d \in DaysFrom(t, s), r \in Team(t) : ~(HoursOn(t, s, d) * net.assigned[t][r] <= Capacity(r, d) - Used(r, d))
    BY <1>3 DEF Fits
  <2>2. r \in Resources /\ d \in Int
    BY <1>1, TeamTyped DEF DaysFrom
  <2>3. PICK k \in Nat : k = HoursOn(t, s, d) * net.assigned[t][r]
    <3>1. HoursOn(t, s, d) \in Nat /\ net.assigned[t][r] \in Nat
      BY <1>1, <2>2, HoursOnTyped, TeamTyped
    <3> QED
      BY <3>1, NatProduct
  <2>4. PICK c \in Nat : c = Capacity(r, d)
    BY <2>2, CapacityTyped
  <2>5. PICK u \in Nat : u = Used(r, d)
    BY UsedTyped
  <2>6. Used(r, d)' \in Int /\ u <= Used(r, d)'
    BY <2>2, <2>5
  <2>7. ~(k <= c - Used(r, d)')
    BY <2>1, <2>3, <2>4, <2>5, <2>6
  <2>8. d \in DaysFrom(t, s)' /\ r \in Team(t)' /\ HoursOn(t, s, d)' = HoursOn(t, s, d) /\ Capacity(r, d)' = Capacity(r, d)
    BY HoursOnKept, RowsKept DEF Capacity
  <2> QED
    BY <2>3, <2>4, <2>7, <2>8 DEF Fits
<1> QED
  BY <1>1, <1>2, <1>3 DEF Stuck

Placing(t, s) ==
    [u \in DOMAIN leveled \cup {t} |->
        IF u = t THEN [start |-> s, finish |-> AddHours(t, s, Hours(t))] ELSE leveled[u]]

LEMMA UsageSteps ==
    ASSUME Underway, NEW t \in Rowed \ DOMAIN leveled, Ready(t), net' = net, early' = early,
           NEW windows, windows = (IF Alone(t) THEN {} ELSE Windows(t)),
           NEW s, s = StartOf(t, windows), leveled' = Placing(t, s),
           usage' = IF windows = {} THEN usage ELSE UsageWith(t, s),
           NEW B \in SUBSET DOMAIN leveled, NEW f, UsageRight(B, f)
    PROVE  \E C \in SUBSET DOMAIN leveled' : \E g : UsageRight(C, g)'
<1>0. (\A p \in DOMAIN usage : usage[p] \in Nat) /\ t \in Rowed
  BY WhenUnderway
<1>1. net \in Networks /\ t \in Tasks /\ t \notin B /\ B \in SUBSET Rowed
  BY WhenUnderway
<1>2. /\ s \in Int
      /\ windows # {} => ~Alone(t) /\ Fits(t, s)
      /\ windows = {} => Alone(t) \/ Stuck(t)
  BY <1>1, StartFacts
<1>3. /\ DOMAIN leveled' = DOMAIN leveled \cup {t} /\ leveled'[t].start = s
      /\ \A u \in DOMAIN leveled : leveled'[u] = leveled[u]
  BY DEF Placing
<1>4. ASSUME NEW r \in Resources, NEW d \in Int
      PROVE  /\ Used(r, d) \in Nat /\ Takes(t, s, r, d) \in Nat /\ Capacity(r, d)' = Capacity(r, d)
             /\ Used(r, d)' = IF windows = {} THEN Used(r, d) ELSE Used(r, d) + Takes(t, s, r, d)
             /\ Alone(t) => Takes(t, s, r, d) = 0
             /\ windows # {} => Used(r, d) + Takes(t, s, r, d) <= Capacity(r, d)
  <2>1. Used(r, d) \in Nat /\ Takes(t, s, r, d) \in Nat /\ (Alone(t) => Takes(t, s, r, d) = 0)
    <3>1. Used(r, d) \in Nat
      BY <1>0, UsedTyped
    <3>2. Takes(t, s, r, d) \in Nat /\ (Alone(t) => Takes(t, s, r, d) = 0)
      BY <1>0, <1>1, <1>2, TakesTyped
    <3> QED
      BY <3>1, <3>2
  <2>2. windows = {} => Used(r, d)' = Used(r, d)
    BY DEF Used
  <2>3. windows # {} => Used(r, d)' = Used(r, d) + Takes(t, s, r, d)
    BY <1>0, <1>1, <1>2, UsageGrows
  <2>4. Used(r, d) <= Capacity(r, d)
    BY DEF UsageRight
  <2>5. windows # {} => Used(r, d) + Takes(t, s, r, d) <= Capacity(r, d)
    BY <1>0, <1>1, <1>2, <2>4, FitsAll
  <2>6. Capacity(r, d)' = Capacity(r, d)
    BY DEF Capacity
  <2> QED
    BY <2>1, <2>2, <2>3, <2>5, <2>6
<1>5. \A r \in Resources, d \in Int : Used(r, d)' \in Int /\ Used(r, d) <= Used(r, d)'
  BY <1>4
<1>6. ASSUME NEW u \in Rowed, \A l \in Before(u) : l.from \in DOMAIN leveled, Stuck(u) PROVE Stuck(u)'
  <2>1. \A l \in Before(u) : leveled'[l.from] = leveled[l.from]
    BY <1>3, <1>6
  <2>2. \A p \in DOMAIN usage : usage[p] \in Nat
    BY WhenUnderway
  <2> QED
    BY <1>1, <1>5, <1>6, <2>1, <2>2, StuckKept
<1>7. \A u \in DOMAIN leveled \ B : Stuck(u)'
  <2> SUFFICES ASSUME NEW u \in DOMAIN leveled \ B PROVE Stuck(u)'
    OBVIOUS
  <2>1. u \in Rowed /\ \A l \in Before(u) : l.from \in DOMAIN leveled
    BY WhenUnderway DEF PlacedWell
  <2>2. Stuck(u)
    BY DEF UsageRight
  <2> QED
    BY <1>6, <2>1, <2>2
<1>8. \A u \in B : f[u] \in Int /\ f[u] = leveled[u].start /\ leveled'[u] = leveled[u]
  BY <1>3 DEF UsageRight
<1>9. CASE windows # {} \/ Alone(t)
  <2> DEFINE C == B \cup {t}
             g == [u \in C |-> IF u = t THEN s ELSE f[u]]
  <2>1. g[t] = s /\ \A u \in B : g[u] = f[u]
    BY <1>1
  <2>2. C \in SUBSET DOMAIN leveled' /\ t \in C
    BY <1>3
  <2>3. \A u \in C : g[u] \in Int /\ g[u] = leveled'[u].start
    <3>1. \A u \in B : g[u] \in Int /\ g[u] = leveled'[u].start
      BY <1>8, <2>1
    <3>2. g[t] \in Int /\ g[t] = leveled'[t].start
      BY <1>2, <1>3, <2>1
    <3> HIDE DEF g
    <3> QED
      BY <3>1, <3>2
  <2>4. \A u \in DOMAIN leveled' \ C : Stuck(u)'
    BY <1>3, <1>7
  <2> HIDE DEF g
  <2>5. ASSUME NEW r \in Resources, NEW d \in Int
        PROVE  Used(r, d)' = DemandBy(g, C, r, d)' /\ Used(r, d)' <= Capacity(r, d)'
    <3>1. DemandBy(g, C, r, d) = DemandBy(f, B, r, d) + Takes(t, s, r, d)
      <4>1. \A u \in B : f[u] \in Int /\ g[u] = f[u]
        BY <1>8, <2>1
      <4>2. g[t] \in Int /\ g[t] = s
        BY <1>2, <2>1
      <4>3. DemandBy(g, B \cup {t}, r, d) = DemandBy(f, B, r, d) + Takes(t, g[t], r, d)
        BY <1>0, <1>1, <4>1, <4>2, DemandAdds
      <4> QED
        BY <4>2, <4>3
    <3>2. Used(r, d) = DemandBy(f, B, r, d) /\ Used(r, d) <= Capacity(r, d)
      BY DEF UsageRight
    <3>3. Used(r, d)' = Used(r, d) + Takes(t, s, r, d) /\ Used(r, d)' <= Capacity(r, d)'
      <4>1. CASE windows # {}
        BY <1>4, <4>1
      <4>2. CASE windows = {}
        BY <1>4, <1>9, <3>2, <4>2
      <4> QED
        BY <4>1, <4>2
    <3>4. DemandBy(g, C, r, d)' = DemandBy(g, C, r, d)
      <4> HIDE DEF C
      <4> QED
        BY DemandKept
    <3> QED
      BY <3>1, <3>2, <3>3, <3>4
  <2> HIDE DEF C
  <2>6. UsageRight(C, g)'
    BY <2>3, <2>4, <2>5 DEF UsageRight
  <2> QED
    BY <2>2, <2>6
<1>10. CASE windows = {} /\ ~Alone(t)
  <2>1. Stuck(t)'
    BY <1>2, <1>6, <1>10 DEF Ready
  <2>2. \A u \in DOMAIN leveled' \ B : Stuck(u)'
    BY <1>3, <1>7, <2>1
  <2>3. ASSUME NEW r \in Resources, NEW d \in Int
        PROVE  Used(r, d)' = DemandBy(f, B, r, d)' /\ Used(r, d)' <= Capacity(r, d)'
    <3>1. Used(r, d) = DemandBy(f, B, r, d) /\ Used(r, d) <= Capacity(r, d)
      BY DEF UsageRight
    <3>2. DemandBy(f, B, r, d)' = DemandBy(f, B, r, d)
      BY DemandKept
    <3> QED
      BY <1>4, <1>10, <3>1, <3>2
  <2>4. \A u \in B : f[u] \in Int /\ f[u] = leveled'[u].start
    BY <1>8
  <2>5. UsageRight(B, f)'
    BY <2>2, <2>3, <2>4 DEF UsageRight
  <2>6. B \in SUBSET DOMAIN leveled'
    BY <1>3
  <2> QED
    BY <2>5, <2>6
<1> QED
  BY <1>9, <1>10

\* The dates of the task that is placed.
LEMMA PlacedNow ==
    ASSUME Underway, NEW t \in Rowed \ DOMAIN leveled, Ready(t),
           NEW windows, windows = (IF Alone(t) THEN {} ELSE Windows(t)), NEW s, s = StartOf(t, windows)
    PROVE  /\ s \in Int /\ EarliestStart(t) <= s /\ AddHours(t, s, Hours(t)) \in Int
           /\ OnlyForward => early[t].start <= s /\ early[t].finish <= AddHours(t, s, Hours(t))
           /\ OnlyForward /\ Plain /\ Ample =>
                 /\ HoursTo(t, s) <= HoursTo(t, early[t].start)
                 /\ HoursTo(t, AddHours(t, s, Hours(t))) <= HoursTo(t, early[t].finish)
<1>1. net \in Networks /\ t \in Tasks
  BY WhenUnderway
<1>2. s \in Int /\ EarliestStart(t) <= s
  BY <1>1, StartFacts
<1>3. PICK n \in Nat : n = Hours(t) /\ n \in Int
  BY <1>1, RowedTyped
<1>4. AddHours(t, s, n) \in Int /\ HoursTo(t, s) \in Int /\ HoursTo(t, AddHours(t, s, n)) = HoursTo(t, s) + n
  BY <1>1, <1>2, <1>3, Walks
<1>5. ASSUME OnlyForward
      PROVE  /\ early[t].start <= s /\ early[t].finish <= AddHours(t, s, n)
             /\ Plain /\ Ample => /\ HoursTo(t, s) <= HoursTo(t, early[t].start)
                                  /\ HoursTo(t, AddHours(t, s, n)) <= HoursTo(t, early[t].finish)
  <2>1. PICK x \in Int : x = EarliestStart(t)
    BY <1>1, <1>5, ForwardStart
  <2>2. PICK e \in Int : e = early[t].start
    BY <1>1, <1>5, ForwardStart
  <2>3. e <= x
    BY <1>1, <1>5, <2>1, <2>2, ForwardStart
  <2>4. early[t].finish = AddHours(t, e, n)
    <3>1. Kind(t) = "new"
      BY <1>1, <1>5 DEF OnlyForward
    <3> QED
      BY <1>1, <1>3, <2>2, <3>1, WhenUnderway, EarlyNew
  <2>5. e <= s
    BY <1>2, <2>1, <2>3
  <2>6. AddHours(t, e, n) <= AddHours(t, s, n)
    BY <1>1, <1>2, <2>5, WalksGrow
  <2>7. ASSUME Plain, Ample
        PROVE  HoursTo(t, s) <= HoursTo(t, e) /\ HoursTo(t, AddHours(t, s, n)) <= HoursTo(t, AddHours(t, e, n))
    <3>1. \A y \in Int : Fits(t, y)
      <4>1. PICK B \in SUBSET DOMAIN leveled : \E f : UsageRight(B, f)
        BY DEF Underway, LevelRight
      <4>2. PICK f : UsageRight(B, f)
        BY <4>1
      <4> QED
        BY <2>7, <4>2, AmpleFits
    <3>2. s = NextWorkingMoment(Calendar(t), x)
      BY <1>1, <2>1, <3>1, StartFacts
    <3>3. HoursTo(t, s) = HoursTo(t, x)
      <4>1. Calendar(t) \in Calendars
        BY <1>1, NetTyped
      <4> QED
        BY <3>2, <4>1, NextLands DEF HoursTo
    <3>4. HoursTo(t, x) <= HoursTo(t, e)
      BY <1>1, <1>5, <2>1, <2>2, <2>7, ForwardStart
    <3>5. HoursTo(t, e) \in Int /\ HoursTo(t, AddHours(t, e, n)) = HoursTo(t, e) + n
      BY <1>1, <1>3, Walks
    <3> QED
      BY <1>3, <1>4, <3>3, <3>4, <3>5
  <2> QED
    BY <2>2, <2>4, <2>5, <2>6, <2>7
<1> QED
  BY <1>2, <1>3, <1>4, <1>5

LEMMA LevelTaskRight ==
    ASSUME LevelInv, LevelRight, NEW t \in Tasks, LevelTask(t) PROVE LevelRight'
<1>1. /\ mode = "leveling" /\ t \in Rowed \ DOMAIN leveled /\ \A l \in Before(t) : l.from \in DOMAIN leveled
      /\ net' = net /\ early' = early /\ mode' = mode /\ delay' = delay
  BY DEF LevelTask, cpmVars
<1>2. PICK windows, s : /\ windows = (IF Alone(t) THEN {} ELSE Windows(t)) /\ s = StartOf(t, windows)
                        /\ leveled' = Placing(t, s)
                        /\ usage' = IF windows = {} THEN usage ELSE UsageWith(t, s)
  BY DEF LevelTask, Placing
<1>3. Underway /\ Ready(t)
  BY <1>1 DEF Underway, Ready
<1>4. t \in Rowed /\ Rowed' = Rowed /\ \A u : Before(u)' = Before(u) /\ Hours(u)' = Hours(u) /\ Kind(u)' = Kind(u)
  BY <1>1, RowsKept, NetKept
<1>5. PICK f \in Int : f = AddHours(t, s, Hours(t))
  BY <1>1, <1>2, <1>3, PlacedNow
<1>6. /\ s \in Int /\ EarliestStart(t) <= s
      /\ OnlyForward => early[t].start <= s /\ early[t].finish <= f
      /\ OnlyForward /\ Plain /\ Ample =>
            /\ HoursTo(t, s) <= HoursTo(t, early[t].start) /\ HoursTo(t, f) <= HoursTo(t, early[t].finish)
  BY <1>1, <1>2, <1>3, <1>5, PlacedNow
<1>7. /\ DOMAIN leveled' = DOMAIN leveled \cup {t} /\ leveled'[t] = [start |-> s, finish |-> f]
      /\ \A u \in DOMAIN leveled : leveled'[u] = leveled[u]
  BY <1>1, <1>2, <1>5 DEF Placing
<1>8. OnlyForward' = OnlyForward /\ Plain' = Plain /\ Ample' = Ample
  <2>1. OnlyForward' = OnlyForward
    BY <1>1, <1>4 DEF OnlyForward
  <2>2. Plain' = Plain
    BY <1>1, <1>4, NetKept DEF Plain
  <2>3. Ample' = Ample
    BY <1>1, <1>4, NetKept, RowsKept DEF Ample
  <2> QED
    BY <2>1, <2>2, <2>3
<1>9. ASSUME NEW u \in Rowed, \A l \in Before(u) : l.from \in DOMAIN leveled
      PROVE  EarliestStart(u)' = EarliestStart(u)
  <2>1. \A l \in Before(u) : leveled'[l.from] = leveled[l.from]
    BY <1>7, <1>9
  <2> QED
    BY <1>1, <2>1, EarliestKept
<1>10. ASSUME NEW u, NEW x PROVE HoursTo(u, x)' = HoursTo(u, x) /\ AddHours(u, x, Hours(u))' = AddHours(u, x, Hours(u))
  <2>1. Calendar(u)' = Calendar(u)
    BY <1>1, NetKept
  <2> QED
    BY <1>1, <2>1, HoursOnKept DEF HoursTo
<1>11. ASSUME NEW u \in DOMAIN leveled PROVE PlacedWell(u)' /\ NotEarly(u)' /\ NotDelayed(u)'
  <2>1. PlacedWell(u) /\ NotEarly(u) /\ NotDelayed(u) /\ leveled'[u] = leveled[u]
    BY <1>7 DEF LevelRight
  <2>2. PICK x, y : x = leveled[u].start /\ y = leveled[u].finish
    OBVIOUS
  <2>3. u \in Rowed /\ \A l \in Before(u) : l.from \in DOMAIN leveled
    BY <2>1 DEF PlacedWell
  <2>4. PlacedWell(u)'
    <3>1. y = AddHours(u, x, Hours(u)) /\ EarliestStart(u) <= x /\ leveled[u] \in Dates
      BY <2>1, <2>2 DEF PlacedWell
    <3>2. AddHours(u, x, Hours(u))' = AddHours(u, x, Hours(u)) /\ EarliestStart(u)' = EarliestStart(u)
      BY <1>9, <1>10, <2>3
    <3>3. AddHours(u, leveled[u].start, Hours(u))' = y
      <4>1. Calendar(u)' = Calendar(u) /\ Hours(u)' = Hours(u) /\ leveled'[u].start = x
        BY <1>1, <1>4, <2>1, <2>2, NetKept
      <4> QED
        BY <3>1, <4>1 DEF AddHours
    <3>4. leveled'[u].start = x /\ leveled'[u].finish = y /\ leveled'[u] \in Dates
      BY <2>1, <2>2, <3>1
    <3>5. (\A l \in Before(u) : l.from \in DOMAIN leveled)'
      BY <1>4, <1>7, <2>3
    <3> QED
      BY <1>4, <2>3, <3>1, <3>2, <3>3, <3>4, <3>5 DEF PlacedWell
  <2>5. NotEarly(u)'
    BY <1>1, <1>8, <2>1 DEF NotEarly
  <2>6. NotDelayed(u)'
    <3>1. Calendar(u)' = Calendar(u)
      BY <1>1, NetKept
    <3> QED
      BY <1>1, <1>8, <2>1, <3>1 DEF NotDelayed, HoursTo
  <2> QED
    BY <2>4, <2>5, <2>6
<1>12. PlacedWell(t)' /\ NotEarly(t)' /\ NotDelayed(t)'
  <2>1. leveled'[t].start = s /\ leveled'[t].finish = f /\ leveled'[t] \in Dates
    BY <1>5, <1>6, <1>7 DEF Dates
  <2>2. EarliestStart(t)' = EarliestStart(t)
    BY <1>1, <1>4, <1>9
  <2>3. AddHours(t, leveled[t].start, Hours(t))' = f
    <3>1. Calendar(t)' = Calendar(t) /\ Hours(t)' = Hours(t)
      BY <1>1, <1>4, NetKept
    <3> QED
      BY <1>5, <2>1, <3>1 DEF AddHours
  <2>4. (\A l \in Before(t) : l.from \in DOMAIN leveled)'
    BY <1>1, <1>4, <1>7
  <2>5. PlacedWell(t)'
    BY <1>4, <1>6, <2>1, <2>2, <2>3, <2>4 DEF PlacedWell
  <2>6. NotEarly(t)'
    BY <1>1, <1>6, <1>8, <2>1 DEF NotEarly
  <2>7. NotDelayed(t)'
    <3>1. Calendar(t)' = Calendar(t)
      BY <1>1, NetKept
    <3> QED
      BY <1>1, <1>6, <1>8, <2>1, <3>1 DEF NotDelayed, HoursTo
  <2> QED
    BY <2>5, <2>6, <2>7
<1>13. \A p \in DOMAIN usage' : p \in Resources \X Int /\ usage'[p] \in Nat
  <2>1. \A p \in DOMAIN usage : p \in Resources \X Int /\ usage[p] \in Nat
    BY DEF LevelRight
  <2>2. net \in Networks
    BY <1>3, WhenUnderway
  <2>3. CASE windows = {}
    BY <1>2, <2>1, <2>3
  <2>4. CASE windows # {}
    BY <1>2, <1>4, <1>6, <2>1, <2>2, <2>4, UsageTyped
  <2> QED
    BY <2>3, <2>4
<1>14. \E C \in SUBSET DOMAIN leveled' : \E g : UsageRight(C, g)'
  <2>1. PICK B \in SUBSET DOMAIN leveled : \E g : UsageRight(B, g)
    BY DEF LevelRight
  <2>2. PICK g : UsageRight(B, g)
    BY <2>1
  <2> QED
    BY <1>1, <1>2, <1>3, <2>2, UsageSteps
<1>15. (\A u \in DOMAIN leveled : PlacedWell(u) /\ NotEarly(u) /\ NotDelayed(u))'
  BY <1>7, <1>11, <1>12
<1>16. DOMAIN leveled' \subseteq Rowed'
  BY <1>4, <1>7 DEF LevelRight
<1>17. delay' = Nothing /\ mode' = "leveling"
  BY <1>1 DEF LevelRight
<1>18. (\E C \in SUBSET DOMAIN leveled : \E g : UsageRight(C, g))'
  BY <1>14
<1> QED
  BY <1>13, <1>15, <1>16, <1>17, <1>18 DEF LevelRight

-----------------------------------------------------------------------------
(* Leveling: what a run ends with *)

LEMMA LevelRightStarts == LevelInit => LevelRight
<1> SUFFICES ASSUME LevelInit PROVE LevelRight
  OBVIOUS
<1>1. mode = "cpm" /\ leveled = Nothing /\ usage = <<>> /\ delay = Nothing /\ net \in Networks
  BY DEF LevelInit, CpmInit
<1>2. DOMAIN leveled = {} /\ DOMAIN usage = {}
  BY <1>1 DEF Nothing
<1>3. UsageRight({}, <<>>)
  <2>1. ASSUME NEW r \in Resources, NEW d \in Int
        PROVE  Used(r, d) = DemandBy(<<>>, {}, r, d) /\ Used(r, d) <= Capacity(r, d)
    <3>1. Used(r, d) = 0
      BY <1>2 DEF Used
    <3>2. Mine({}, r) = {}
      BY DEF Mine
    <3>3. DemandBy(<<>>, {}, r, d) = 0
      BY <3>2, SumEmpty DEF DemandBy
    <3>4. Capacity(r, d) \in Nat
      BY CapacityTyped
    <3> QED
      BY <3>1, <3>3, <3>4
  <2> QED
    BY <1>2, <2>1 DEF UsageRight
<1>4. \E B \in SUBSET DOMAIN leveled : \E f : UsageRight(B, f)
  BY <1>3
<1> QED
  BY <1>1, <1>2, <1>4 DEF LevelRight

LEMMA DelaysKept ==
    ASSUME net' = net, early' = early, leveled' = leveled
    PROVE  /\ Rowed' = Rowed /\ \A t : DelayOf(t)' = DelayOf(t)
           /\ \A t : PlacedWell(t)' = PlacedWell(t) /\ NotEarly(t)' = NotEarly(t) /\ NotDelayed(t)' = NotDelayed(t)
           /\ usage' = usage => \A B, f : UsageRight(B, f)' = UsageRight(B, f)
<1>1. Rowed' = Rowed /\ \A t : Hours(t)' = Hours(t) /\ Team(t)' = Team(t) /\ Before(t)' = Before(t) /\ Alone(t)' = Alone(t)
  BY RowsKept
<1>2. \A t : Kind(t)' = Kind(t) /\ Calendar(t)' = Calendar(t)
  BY NetKept
<1>3. \A t : EarliestStart(t)' = EarliestStart(t) /\ \A n : Starts(t, n)' = Starts(t, n)
  BY EarliestKept
<1>4. \A t : DelayOf(t)' = DelayOf(t)
  BY <1>2 DEF DelayOf
<1>5. \A t : AddHours(t, leveled[t].start, Hours(t))' = AddHours(t, leveled[t].start, Hours(t))
  BY <1>1, <1>2 DEF AddHours
<1>6. \A t : PlacedWell(t)' = PlacedWell(t)
  BY <1>1, <1>3, <1>5 DEF PlacedWell
<1>7. OnlyForward' = OnlyForward /\ Plain' = Plain /\ Ample' = Ample
  BY <1>1, <1>2 DEF OnlyForward, Plain, Ample
<1>8. \A t : NotEarly(t)' = NotEarly(t) /\ NotDelayed(t)' = NotDelayed(t)
  BY <1>2, <1>7 DEF NotEarly, NotDelayed, HoursTo
<1>9. ASSUME usage' = usage, NEW B, NEW f PROVE UsageRight(B, f)' = UsageRight(B, f)
  <2>1. \A r, d : Used(r, d)' = Used(r, d) /\ Capacity(r, d)' = Capacity(r, d) /\ DemandBy(f, B, r, d)' = DemandBy(f, B, r, d)
    BY <1>9, DemandKept DEF Used, Capacity
  <2>2. ASSUME NEW t, NEW s PROVE Fits(t, s)' = Fits(t, s)
    BY <1>1, <2>1, HoursOnKept DEF Fits
  <2>3. \A t : Stuck(t)' = Stuck(t)
    BY <1>1, <1>3, <2>2 DEF Stuck
  <2> QED
    BY <2>1, <2>3 DEF UsageRight
<1> QED
  BY <1>1, <1>4, <1>6, <1>8, <1>9

LEMMA LevelRightSteps ==
    ASSUME LevelInv, LevelRight, [LevelNext]_levelVars PROVE LevelRight'
<1>1. ASSUME mode = "cpm", mode' \in {"cpm", "leveling"}, UNCHANGED <<leveled, usage, delay>> PROVE LevelRight'
  <2>1. leveled' = Nothing /\ usage' = <<>> /\ delay' = Nothing
    BY <1>1 DEF LevelRight
  <2>2. DOMAIN leveled' = {} /\ DOMAIN usage' = {}
    BY <2>1 DEF Nothing
  <2>3. UsageRight({}, <<>>)'
    <3>1. ASSUME NEW r \in Resources, NEW d \in Int
          PROVE  (Used(r, d) = DemandBy(<<>>, {}, r, d) /\ Used(r, d) <= Capacity(r, d))'
      <4>1. Used(r, d)' = 0
        BY <2>2 DEF Used
      <4>2. Mine({}, r)' = {}
        BY DEF Mine
      <4>3. DemandBy(<<>>, {}, r, d)' = 0
        BY <4>2, SumEmpty DEF DemandBy
      <4>4. Capacity(r, d)' \in Nat
        BY CapacityTyped DEF Capacity
      <4> QED
        BY <4>1, <4>3, <4>4
    <3> QED
      BY <2>2, <3>1 DEF UsageRight
  <2>4. (\E B \in SUBSET DOMAIN leveled : \E f : UsageRight(B, f))'
    BY <2>3
  <2> QED
    BY <1>1, <2>1, <2>2, <2>4 DEF LevelRight
<1>2. ASSUME StoreLevels PROVE LevelRight'
  <2>1. /\ mode = "leveling" /\ DOMAIN leveled = Rowed /\ mode' = "stored" /\ delay' = [t \in Rowed |-> DelayOf(t)]
        /\ net' = net /\ early' = early /\ leveled' = leveled /\ usage' = usage
    BY <1>2 DEF StoreLevels, cpmVars
  <2>2. /\ Rowed' = Rowed /\ \A t : DelayOf(t)' = DelayOf(t)
        /\ \A t : PlacedWell(t)' = PlacedWell(t) /\ NotEarly(t)' = NotEarly(t) /\ NotDelayed(t)' = NotDelayed(t)
        /\ \A B, f : UsageRight(B, f)' = UsageRight(B, f)
    BY <2>1, DelaysKept
  <2>3. (\E B \in SUBSET DOMAIN leveled : \E f : UsageRight(B, f))'
    BY <2>1, <2>2 DEF LevelRight
  <2>4. delay' = [t \in Rowed' |-> DelayOf(t)']
    BY <2>1, <2>2
  <2>5. (\A t \in DOMAIN leveled : PlacedWell(t) /\ NotEarly(t) /\ NotDelayed(t))'
    BY <2>1, <2>2 DEF LevelRight
  <2> QED
    BY <2>1, <2>2, <2>3, <2>4, <2>5 DEF LevelRight
<1>3. ASSUME UNCHANGED levelVars PROVE LevelRight'
  <2>1. /\ net' = net /\ early' = early /\ mode' = mode /\ leveled' = leveled /\ usage' = usage /\ delay' = delay
    BY <1>3 DEF levelVars, cpmVars
  <2>2. /\ Rowed' = Rowed /\ \A t : DelayOf(t)' = DelayOf(t)
        /\ \A t : PlacedWell(t)' = PlacedWell(t) /\ NotEarly(t)' = NotEarly(t) /\ NotDelayed(t)' = NotDelayed(t)
        /\ \A B, f : UsageRight(B, f)' = UsageRight(B, f)
    BY <2>1, DelaysKept
  <2>3. (\E B \in SUBSET DOMAIN leveled : \E f : UsageRight(B, f))'
    BY <2>1, <2>2 DEF LevelRight
  <2>4. (IF mode = "stored" THEN [t \in Rowed |-> DelayOf(t)] ELSE Nothing)' =
        IF mode = "stored" THEN [t \in Rowed |-> DelayOf(t)] ELSE Nothing
    BY <2>1, <2>2 DEF Nothing
  <2>5. (\A t \in DOMAIN leveled : PlacedWell(t) /\ NotEarly(t) /\ NotDelayed(t))'
    BY <2>1, <2>2 DEF LevelRight
  <2> QED
    BY <2>1, <2>2, <2>3, <2>4, <2>5 DEF LevelRight, Nothing
<1>4. ASSUME mode = "cpm" /\ CpmNext /\ UNCHANGED <<mode, leveled, usage, delay>> PROVE LevelRight'
  BY <1>1, <1>4
<1>5. ASSUME StartLeveling PROVE LevelRight'
  BY <1>1, <1>5 DEF StartLeveling
<1>6. ASSUME NEW t \in Tasks, LevelTask(t) PROVE LevelRight'
  BY <1>6, LevelTaskRight
<1> QED
  BY <1>2, <1>3, <1>4, <1>5, <1>6 DEF LevelNext

LEMMA LevelRightAlways == LevelSpec => [](LevelInv /\ LevelRight)
<1>1. LevelInit => LevelInv /\ LevelRight
  BY LevelStarts, LevelRightStarts
<1>2. LevelInv /\ LevelRight /\ [LevelNext]_levelVars => (LevelInv /\ LevelRight)'
  BY LevelSteps, LevelRightSteps
<1> QED
  BY <1>1, <1>2, PTL DEF LevelSpec

LEMMA LevelTypedRight == ASSUME LevelInv, LevelRight PROVE LevelTypeOK
<1>1. \A t \in Rowed : t \in Tasks
  BY DEF Rowed
<1>2. DOMAIN leveled \subseteq Tasks /\ \A t \in DOMAIN leveled : leveled[t] \in Dates
  BY <1>1 DEF LevelRight, PlacedWell
<1>3. DOMAIN delay \subseteq Tasks /\ \A t \in DOMAIN delay : delay[t] \in Nat
  <2>1. CASE mode = "stored"
    <3>1. delay = [t \in Rowed |-> DelayOf(t)] /\ DOMAIN leveled = Rowed /\ Underway
      BY <2>1 DEF LevelRight, Underway
    <3>2. ASSUME NEW t \in Rowed PROVE DelayOf(t) \in Nat
      <4>1. t \in Tasks /\ net \in Networks /\ leveled[t] \in Dates /\ early[t] \in Dates
        BY <3>1, WhenUnderway
      <4>2. leveled[t].start \in Int /\ early[t].start \in Int
        BY <4>1 DEF Dates
      <4> QED
        BY <4>1, <4>2, HoursBetween DEF DelayOf
    <3> QED
      BY <1>1, <3>1, <3>2
  <2>2. CASE mode # "stored"
    BY <2>2 DEF LevelRight, Nothing
  <2> QED
    BY <2>1, <2>2
<1> QED
  BY <1>2, <1>3 DEF LevelTypeOK, LevelInv, LevelRight

LEMMA LinksPassOn == ASSUME LevelInv, LevelRight PROVE LeveledLinksHonoured
<1> SUFFICES ASSUME mode = "stored", NEW l \in net.links, {l.from, l.to} \subseteq Rowed
             PROVE  IF l.type \in {"FS", "SS"} THEN leveled[l.to].start >= Due(l, leveled)
                    ELSE WorkingHoursBetween(Calendar(l.to), leveled[l.to].finish, Due(l, leveled)) = 0
  BY DEF LeveledLinksHonoured
<1>1. Underway /\ DOMAIN leveled = Rowed
  BY DEF Underway, LevelRight
<1>2. PICK t \in Tasks : t = l.to /\ t \in Rowed /\ t \in DOMAIN leveled
  BY <1>1, WhenUnderway
<1>3. l \in Before(t) /\ PlacedWell(t)
  <2>1. l \in Into(t)
    BY <1>2 DEF Into
  <2> QED
    BY <1>1, <1>2, <2>1, WhenUnderway DEF Before
<1>4. net \in Networks /\ leveled[l.from] \in Dates /\ leveled[t] \in Dates /\ Ready(t)
  BY <1>1, <1>2, <1>3, WhenUnderway DEF Ready, PlacedWell
<1>5. PICK x \in Int : x = leveled[t].start
  BY <1>4 DEF Dates
<1>6. PICK y \in Int : y = leveled[t].finish
  BY <1>4 DEF Dates
<1>7. /\ StartBy(l) \in Int /\ Due(l, leveled) \in Int
      /\ l.type \in {"FS", "SS"} => StartBy(l) = Due(l, leveled)
      /\ l.type \notin {"FS", "SS"} => HoursTo(t, StartBy(l)) = HoursTo(t, Due(l, leveled)) - Hours(t)
  BY <1>2, <1>3, <1>4, StartByTyped
<1>8. StartBy(l) <= x
  <2>1. StartBy(l) \in Bounds(t)
    BY <1>3 DEF Bounds
  <2>2. EarliestStart(t) \in Int /\ StartBy(l) <= EarliestStart(t)
    BY <1>1, <1>4, <2>1, ReadyTyped
  <2>3. EarliestStart(t) <= x
    BY <1>3, <1>5 DEF PlacedWell
  <2> QED
    BY <1>7, <2>2, <2>3
<1>9. CASE l.type \in {"FS", "SS"}
  BY <1>2, <1>5, <1>7, <1>8, <1>9
<1>10. CASE l.type \notin {"FS", "SS"}
  <2>1. PICK w \in Int : w = Hours(t)
    BY <1>2, <1>4, RowedTyped
  <2>2. y = AddHours(t, x, w)
    BY <1>3, <1>5, <1>6, <2>1 DEF PlacedWell
  <2>3. HoursTo(t, y) = HoursTo(t, x) + w
    BY <1>4, <2>2, Walks
  <2>4. PICK u \in Int : u = Due(l, leveled)
    BY <1>7
  <2>5. HoursTo(t, StartBy(l)) = HoursTo(t, u) - w
    BY <1>7, <1>10, <2>1, <2>4
  <2>6. HoursTo(t, StartBy(l)) <= HoursTo(t, x) /\ HoursTo(t, x) \in Int /\ HoursTo(t, u) \in Int
    BY <1>4, <1>7, <1>8, HoursBetween
  <2>7. HoursTo(t, u) <= HoursTo(t, y)
    BY <2>3, <2>5, <2>6
  <2>8. WorkingHoursBetween(Calendar(t), y, u) = 0
    BY <1>4, <2>7, HoursBetween
  <2> QED
    BY <1>2, <1>6, <1>10, <2>4, <2>8
<1> QED
  BY <1>9, <1>10

LEMMA NothingEarly == ASSUME LevelInv, LevelRight PROVE NeverEarlier
<1> SUFFICES ASSUME mode = "stored", OnlyForward, NEW t \in Rowed PROVE leveled[t].start >= early[t].start
  BY DEF NeverEarlier
<1>1. Underway /\ DOMAIN leveled = Rowed
  BY DEF Underway, LevelRight
<1>2. NotEarly(t) /\ leveled[t] \in Dates /\ early[t] \in Dates
  BY <1>1, WhenUnderway
<1>3. leveled[t].start \in Int /\ early[t].start \in Int
  BY <1>2 DEF Dates
<1> QED
  BY <1>2, <1>3 DEF NotEarly

LEMMA NoDelay == ASSUME LevelInv, LevelRight PROVE NoNeedlessDelay
<1> SUFFICES ASSUME mode = "stored", OnlyForward, Plain, Ample, NEW t \in Rowed PROVE delay[t] = 0
  BY DEF NoNeedlessDelay
<1>1. Underway /\ DOMAIN leveled = Rowed /\ delay = [u \in Rowed |-> DelayOf(u)]
  BY DEF Underway, LevelRight
<1>2. NotDelayed(t) /\ leveled[t] \in Dates /\ early[t] \in Dates /\ net \in Networks /\ t \in Tasks
  BY <1>1, WhenUnderway
<1>3. leveled[t].start \in Int /\ early[t].start \in Int
  BY <1>2 DEF Dates
<1>4. HoursTo(t, leveled[t].start) <= HoursTo(t, early[t].start)
  BY <1>2 DEF NotDelayed
<1>5. DelayOf(t) = 0
  BY <1>2, <1>3, <1>4, HoursBetween DEF DelayOf
<1> QED
  BY <1>1, <1>5

LEMMA NobodyWorksMore == ASSUME LevelInv, LevelRight PROVE NobodyOverloaded
<1> SUFFICES ASSUME mode = "stored", \A t \in Rowed : ~Hopeless(t), NEW r \in Resources, NEW d \in LeveledDays
             PROVE  Demand(Rowed, r, d) <= Capacity(r, d) /\ Demand(Rowed, r, d) = Used(r, d)
  BY DEF NobodyOverloaded
<1>1. Underway /\ DOMAIN leveled = Rowed /\ net \in Networks
  BY WhenUnderway DEF Underway, LevelRight
<1>0. PICK B \in SUBSET Rowed : \E f : UsageRight(B, f)
  BY <1>1 DEF LevelRight
<1>2. PICK f : UsageRight(B, f)
  BY <1>0
<1> DEFINE g == [t \in Rowed |-> leveled[t].start]
<1>3. \A t \in Rowed : g[t] = leveled[t].start /\ g[t] \in Int
  <2>1. \A t \in Rowed : leveled[t] \in Dates
    BY <1>1, WhenUnderway
  <2> QED
    BY <2>1 DEF Dates
<1> HIDE DEF g
<1>4. ASSUME NEW S \in SUBSET Rowed, NEW h, \A t \in S : h[t] = leveled[t].start, NEW q, NEW e
      PROVE  Demand(S, q, e) = DemandBy(h, S, q, e)
  <2>1. \A t \in Mine(S, q) : HoursOn(t, leveled[t].start, e) = HoursOn(t, h[t], e)
    BY <1>4 DEF Mine
  <2>2. {t \in S : q \in Team(t)} = Mine(S, q)
    BY DEF Mine
  <2> QED
    BY <2>1, <2>2 DEF Demand, DemandBy
<1>5. B = Rowed
  <2> SUFFICES ASSUME NEW t \in Rowed, t \notin B PROVE FALSE
    OBVIOUS
  <2>1. Stuck(t) /\ ~Hopeless(t)
    BY <1>1, <1>2 DEF UsageRight
  <2>2. PICK k \in 0..(SearchDays - 1) :
           \A s \in {Starts(t, SearchDays - 1)[k]} : \A e \in DaysFrom(t, s), q \in Team(t) :
              ~(HoursOn(t, s, e) * net.assigned[t][q] + Demand(Rowed \ {t}, q, e) > Capacity(q, e))
    BY <2>1 DEF Hopeless, Stuck
  <2>3. PICK s : s = Starts(t, SearchDays - 1)[k]
    OBVIOUS
  <2>4. PICK e \in DaysFrom(t, s), q \in Team(t) : ~(HoursOn(t, s, e) * net.assigned[t][q] <= Capacity(q, e) - Used(q, e))
    BY <2>1, <2>3 DEF Stuck, Fits
  <2>5. ~(HoursOn(t, s, e) * net.assigned[t][q] + Demand(Rowed \ {t}, q, e) > Capacity(q, e))
    BY <2>2, <2>3
  <2>6. t \in Tasks /\ q \in Resources /\ e \in Int
    BY <1>1, WhenUnderway, TeamTyped DEF DaysFrom
  <2>7. PICK n \in Nat : n = HoursOn(t, s, e) * net.assigned[t][q]
    <3>1. HoursOn(t, s, e) \in Nat /\ net.assigned[t][q] \in Nat
      BY <1>1, <2>6, HoursOnTyped, TeamTyped
    <3> QED
      BY <3>1, NatProduct
  <2>8. PICK c \in Nat : c = Capacity(q, e)
    BY <2>6, CapacityTyped
  <2>9. Used(q, e) = DemandBy(f, B, q, e) /\ \A u \in B : f[u] = leveled[u].start
    BY <1>2, <2>6 DEF UsageRight
  <2>10. DemandBy(f, B, q, e) = DemandBy(g, B, q, e)
    BY <1>2, <1>3, <1>4, <2>9
  <2> DEFINE R == Rowed \ {t}
  <2>11. Demand(R, q, e) = DemandBy(g, R, q, e)
    BY <1>3, <1>4
  <2>12. DemandBy(g, B, q, e) <= DemandBy(g, R, q, e) /\ DemandBy(g, R, q, e) \in Nat /\ DemandBy(g, B, q, e) \in Nat
    <3>1. R \in SUBSET Rowed /\ B \in SUBSET R /\ (\A u \in R : g[u] \in Int) /\ (\A u \in B : g[u] \in Int)
      BY <1>2, <1>3
    <3> HIDE DEF R
    <3> QED
      BY <1>1, <1>2, <2>6, <3>1, DemandFewer, DemandIs
  <2>13. PICK a \in Nat : a = DemandBy(g, B, q, e)
    BY <2>12
  <2>14. PICK b \in Nat : b = DemandBy(g, R, q, e)
    BY <2>12
  <2>15. a <= b /\ ~(n <= c - a) /\ ~(n + b > c)
    BY <2>4, <2>5, <2>7, <2>8, <2>9, <2>10, <2>11, <2>12, <2>13, <2>14
  <2> QED
    BY <2>15
<1>6. d \in Int
  BY DEF LeveledDays, DaysFrom
<1>7. Used(r, d) = DemandBy(f, Rowed, r, d) /\ Used(r, d) <= Capacity(r, d) /\ \A t \in Rowed : f[t] = leveled[t].start
  BY <1>2, <1>5, <1>6 DEF UsageRight
<1>8. Demand(Rowed, r, d) = DemandBy(f, Rowed, r, d)
  BY <1>4, <1>7
<1> QED
  BY <1>7, <1>8

\* LevelingSound, for every network, every calendar and all resources: no
\* overload that can be resolved, no broken link, no start before its time, no
\* delay without need.
THEOREM LevelingIsSound == LevelSpec => []LevelingSound
<1>1. LevelInv /\ LevelRight => LevelingSound
  BY LevelTypedRight, NobodyWorksMore, LinksPassOn, NothingEarly, NoDelay DEF LevelingSound
<1> QED
  BY <1>1, LevelRightAlways, PTL

-----------------------------------------------------------------------------
(* Leveling plans *)

(* The rows in memory *)

AssignSteps == {"pool", "make", "resource", "assign"}
RoleCalls == [step: AssignSteps, role: Roles]
RemoveCalls == [step: {"remove"}, roles: SUBSET Roles]
BulkCalls == [step: {"bulk"}, tasks: SUBSET Projects, user: Users, first: BOOLEAN]
RowCalls == RoleCalls \cup RemoveCalls \cup BulkCalls
UpdateCalls == [step: {"update"}, plan: Plans,
                row: [status: {"draft"}, entries: SUBSET Projects, rules: Rules]]
DeleteCalls == [step: {"delete"}, plan: Plans]
LoadCalls == [step: {"load"}, plan: Plans, rules: Rules]
ClearCalls == [step: {"clear"}, plan: Plans, rows: SUBSET Metrics]
SaveCalls == [step: {"save"}, plan: Plans, rows: SUBSET Metrics, whole: BOOLEAN]
FindCalls == [step: {"find"}, plan: Plans, entries: SUBSET Projects]
PublishCalls == [step: {"publish"}, plan: Plans, rivals: SUBSET Plans]
Calls == {IdleCall} \cup RowCalls \cup UpdateCalls \cup DeleteCalls \cup LoadCalls
         \cup ClearCalls \cup SaveCalls \cup FindCalls \cup PublishCalls

\* The rows, the copies of them, and that a resource exists before it is assigned.
TypeInv ==
    /\ TypeOK
    /\ deployment \in Deployments
    /\ call \in [AnyWorker -> Calls]
    /\ \A w \in AnyWorker : call[w].step = "assign" => call[w].role.user \in resource

\* The fields of a call follow from its step.
LEMMA CallFields ==
    ASSUME NEW c \in Calls
    PROVE  /\ c.step = "idle" => c = IdleCall
           /\ c.step \in AssignSteps => c \in RoleCalls
           /\ c.step = "remove" => c \in RemoveCalls
           /\ c.step = "bulk" => c \in BulkCalls
           /\ c.step = "update" => c \in UpdateCalls
           /\ c.step = "delete" => c \in DeleteCalls
           /\ c.step = "load" => c \in LoadCalls
           /\ c.step = "clear" => c \in ClearCalls
           /\ c.step = "save" => c \in SaveCalls
           /\ c.step = "find" => c \in FindCalls
           /\ c.step = "publish" => c \in PublishCalls
           /\ c.step \in AssignSteps \cup {"idle", "remove", "bulk", "update", "delete", "load",
                                           "clear", "save", "find", "publish"}
<1> USE DEF AssignSteps
<1>1. CASE c = IdleCall
  BY <1>1 DEF IdleCall
<1>2. CASE c \in RoleCalls
  <2>1. c.step \in AssignSteps
    BY <1>2 DEF RoleCalls
  <2> QED
    BY <1>2, <2>1
<1>3. CASE c \in RemoveCalls
  BY <1>3 DEF RemoveCalls
<1>4. CASE c \in BulkCalls
  BY <1>4 DEF BulkCalls
<1>5. CASE c \in UpdateCalls \cup DeleteCalls \cup LoadCalls
  BY <1>5 DEF UpdateCalls, DeleteCalls, LoadCalls
<1>6. CASE c \in ClearCalls \cup SaveCalls
  BY <1>6 DEF ClearCalls, SaveCalls
<1>7. CASE c \in FindCalls \cup PublishCalls
  BY <1>7 DEF FindCalls, PublishCalls
<1> QED
  BY <1>1, <1>2, <1>3, <1>4, <1>5, <1>6, <1>7 DEF Calls, RowCalls

LEMMA TypeInit == Init => TypeInv
<1> SUFFICES ASSUME Init PROVE TypeInv
  OBVIOUS
<1>1. PICK d \in Deployments : SyncInit(d)
  BY DEF Init
<1>2. deployment \in Deployments /\ call \in [AnyWorker -> Calls]
  BY <1>1 DEF SyncInit, Calls
<1>3. NoPlan \in PlanRows
  BY RulesAssumption DEF NoPlan, PlanRows, Statuses
<1>4. TypeOK
  BY <1>1, <1>3, PoolsAssumption DEF Init, SyncInit, TypeOK
<1>5. ASSUME NEW w \in AnyWorker PROVE call[w].step # "assign"
  BY <1>1 DEF SyncInit, IdleCall
<1> QED
  BY <1>2, <1>4, <1>5 DEF TypeInv

\* A thread gets one new call, and no assignment loses its resource.
LEMMA CallTyped ==
    ASSUME TypeInv, TypeOK', deployment' = deployment,
           NEW w \in AnyWorker, NEW c \in Calls, Call(w, c), resource \subseteq resource',
           c.step = "assign" => c.role.user \in resource'
    PROVE  TypeInv'
<1>1. call' \in [AnyWorker -> Calls]
  BY DEF TypeInv, Call
<1>2. ASSUME NEW v \in AnyWorker, call'[v].step = "assign"
      PROVE  call'[v].role.user \in resource'
  <2>1. CASE v = w
    BY <1>2, <2>1 DEF TypeInv, Call
  <2>2. CASE v # w
    BY <1>2, <2>2 DEF TypeInv, Call
  <2> QED
    BY <2>1, <2>2
<1> QED
  BY <1>1, <1>2 DEF TypeInv

LEMMA CallsUnchanged ==
    ASSUME TypeInv, TypeOK', deployment' = deployment, call' = call, resource \subseteq resource'
    PROVE  TypeInv'
BY DEF TypeInv

RoleAsker(w) == w \in Askers({"role"}) \cup Askers({"change role"})

\* What a request about roles goes on with is what its thread may ask for.
Entitled(w, c) ==
    \/ c \in RoleCalls /\ (RoleAsker(w) \/ call[w].step \in AssignSteps)
    \/ c \in RemoveCalls /\ w \in Askers(Removals)
    \/ c \in BulkCalls /\ w \in Askers({"bulk executor"})

\* A step of the roles keeps the types, and leaves its thread idle or on the way to
\* an assignment or a deletion.
LEMMA RoleStep ==
    ASSUME TypeInv, deployment' = deployment, UNCHANGED planVars,
           NEW w \in AnyWorker, RoleStarts(w) \/ RoleContinues(w)
    PROVE  /\ TypeInv'
           /\ \/ call' = call \/ Call(w, IdleCall)
              \/ \E c \in RowCalls : Call(w, c) /\ Entitled(w, c)
<1> USE DEF TypeInv, TypeOK, planVars, Exists
<1> DEFINE Goal == /\ TypeInv'
                   /\ \/ call' = call \/ Call(w, IdleCall)
                      \/ \E c \in RowCalls : Call(w, c) /\ Entitled(w, c)
<1> IdleCall \in Calls /\ RoleCalls \subseteq Calls /\ RemoveCalls \subseteq Calls /\ BulkCalls \subseteq Calls
  BY DEF Calls, RowCalls
<1> RoleCalls \subseteq RowCalls /\ RemoveCalls \subseteq RowCalls /\ BulkCalls \subseteq RowCalls
  BY DEF RowCalls
<1> IdleCall.step = "idle"
  BY DEF IdleCall
<1>1. ASSUME NEW new \in Roles, role' \subseteq role \cup {new}, held' \in [AnyWorker -> SUBSET Roles],
             Synced(w, new), UNCHANGED <<pools, resource, assigned>>, RoleAsker(w)
      PROVE  Goal
  <2>1. TypeOK'
    BY <1>1
  <2>2. CASE new.role = "executor"
    <3> DEFINE c == [step |-> "pool", role |-> new]
    <3>1. c \in RoleCalls /\ c.step = "pool"
      BY DEF RoleCalls, AssignSteps
    <3>2. Call(w, c)
      BY <1>1, <2>2 DEF Synced
    <3> HIDE DEF c
    <3>3. TypeInv'
      <4> HIDE DEF TypeInv, TypeOK
      <4> QED
        BY <1>1, <2>1, <3>1, <3>2, CallTyped
    <3> QED
      BY <1>1, <3>1, <3>2, <3>3 DEF Entitled
  <2>3. CASE new.role # "executor"
    BY <1>1, <2>1, <2>3, CallTyped DEF Synced, Finish
  <2> QED
    BY <2>2, <2>3
<1>2. ASSUME NEW new \in Roles, AddRole(w, new) PROVE Goal
  BY <1>1, <1>2 DEF AddRole, Serves, RoleAsker
<1>3. ASSUME NEW new \in Roles, NEW old \in role, ChangeRole(w, old, new) PROVE Goal
  <2>1. held' \in [AnyWorker -> SUBSET Roles]
    BY <1>3 DEF ChangeRole
  <2> QED
    BY <1>1, <1>3, <2>1 DEF ChangeRole, Serves, RoleAsker
<1>4. ASSUME NEW rows \in SUBSET role, Hold(w, rows), w \in Askers(Removals) PROVE Goal
  <2> DEFINE c == [step |-> "remove", roles |-> rows]
  <2>1. c \in RemoveCalls /\ c.step = "remove"
    BY DEF RemoveCalls
  <2>2. Call(w, c)
    BY <1>4 DEF Hold
  <2> HIDE DEF c
  <2>3. TypeOK' /\ UNCHANGED resource
    BY <1>4 DEF Hold
  <2>4. TypeInv'
    BY <2>1, <2>2, <2>3, CallTyped
  <2> QED
    BY <1>4, <2>1, <2>2, <2>4 DEF Entitled
<1>5. ASSUME NEW gone \in SUBSET Roles PROVE Released(gone) \in [AnyWorker -> SUBSET Roles]
  BY DEF Released
<1>6. CASE Remove(w)
  <2>1. call[w] \in RemoveCalls /\ held[w] \in SUBSET Roles
    BY <1>6, CallFields DEF Remove
  <2>2. assigned' \subseteq assigned
    BY <1>6 DEF Remove, Unassigned
  <2>3. TypeOK'
    BY <1>5, <1>6, <2>1, <2>2 DEF Remove
  <2> QED
    BY <1>6, <2>3, CallTyped DEF Remove, Finish
<1>7. ASSUME NEW tasks \in SUBSET Projects, NEW u \in Users, BulkFind(w, tasks, u) PROVE Goal
  <2> DEFINE c == [step |-> "bulk", tasks |-> tasks, user |-> u, first |-> pools = 0]
  <2>1. c \in BulkCalls /\ c.step = "bulk"
    BY DEF BulkCalls
  <2>2. Call(w, c) /\ w \in Askers({"bulk executor"})
    BY <1>7 DEF BulkFind, Serves
  <2> HIDE DEF c
  <2>3. TypeOK' /\ UNCHANGED resource
    BY <1>7 DEF BulkFind, rolesVars
  <2>4. TypeInv'
    BY <2>1, <2>2, <2>3, CallTyped
  <2> QED
    BY <2>1, <2>2, <2>4 DEF Entitled
<1>8. CASE BulkExecutor(w)
  <2> DEFINE tasks == call[w].tasks
             u == call[w].user
             new == Missing(tasks, u)
  <2>1. tasks \in SUBSET Projects /\ u \in Users
    BY <1>8, CallFields DEF BulkExecutor, BulkCalls
  <2>2. new \subseteq Roles
    BY <2>1 DEF Missing, Executor, Roles
  <2>3. /\ role' = role \cup new /\ pools' \in {pools, pools + 1}
        /\ resource' = IF new # {} THEN resource \cup {u} ELSE resource
        /\ assigned' = assigned \cup {<<r.task, u>> : r \in new}
        /\ held' = held
    BY <1>8 DEF BulkExecutor, CodeOf
  <2> HIDE DEF tasks, u, new
  <2>4. {<<r.task, u>> : r \in new} \subseteq Projects \X resource'
    <3>1. ASSUME NEW r \in new PROVE <<r.task, u>> \in Projects \X resource'
      BY <2>2, <2>3, <3>1 DEF Roles
    <3> QED
      BY <3>1
  <2>5. TypeOK'
    BY <2>1, <2>2, <2>3, <2>4
  <2>6. resource \subseteq resource'
    BY <2>3
  <2> QED
    BY <1>8, <2>5, <2>6, CallTyped DEF BulkExecutor, Finish
<1>9. ASSUME NEW tasks \in SUBSET Projects, NEW u \in Users, NEW replace \in BOOLEAN,
             BulkReviewer(w, tasks, u, replace)
      PROVE  Goal
  <2> DEFINE old == {r \in role : replace /\ r.task \in tasks /\ r.role = "reviewer" /\ r.user # u}
  <2>1. {Reviewer(p, u) : p \in tasks} \subseteq Roles
    BY <1>9 DEF Reviewer, Roles
  <2>2. role' \subseteq role \cup {Reviewer(p, u) : p \in tasks} /\ held' = Released(old)
    BY <1>9 DEF BulkReviewer
  <2>3. TypeOK' /\ UNCHANGED <<resource, assigned, call>>
    BY <1>5, <1>9, <2>1, <2>2 DEF BulkReviewer
  <2>4. TypeInv'
    <3> HIDE DEF TypeInv, TypeOK
    <3> QED
      BY <2>3, CallsUnchanged
  <2> QED
    BY <2>3, <2>4
<1>10. ASSUME call[w].step \in AssignSteps, NEW after \in AssignSteps, Call(w, [call[w] EXCEPT !.step = after]),
              TypeOK', resource \subseteq resource', after = "assign" => call[w].role.user \in resource'
       PROVE  Goal
  <2> DEFINE c == [call[w] EXCEPT !.step = after]
  <2>1. call[w] \in RoleCalls
    BY <1>10, CallFields
  <2>2. c \in RoleCalls /\ c.step = after /\ c.role = call[w].role
    BY <2>1 DEF RoleCalls
  <2>3. Call(w, c)
    BY <1>10
  <2> HIDE DEF c
  <2>4. TypeInv'
    <3> HIDE DEF TypeOK
    <3> QED
      BY <1>10, <2>2, <2>3, CallTyped
  <2> QED
    BY <1>10, <2>2, <2>3, <2>4 DEF Entitled
<1>11. CASE PoolFind(w)
  <2>1. TypeOK' /\ resource' = resource /\ call[w].step \in AssignSteps
    BY <1>11 DEF PoolFind, rolesVars, AssignSteps
  <2>2. CASE pools > 1
    BY <1>11, <2>1, <2>2, CallTyped DEF PoolFind, Finish
  <2>3. CASE ~(pools > 1)
    <3> DEFINE after == IF pools = 0 THEN "make" ELSE "resource"
    <3>1. after \in AssignSteps /\ after # "assign" /\ Call(w, [call[w] EXCEPT !.step = after])
      BY <1>11, <2>3 DEF PoolFind, AssignSteps
    <3> HIDE DEF after
    <3> HIDE DEF TypeInv, TypeOK
    <3> QED
      BY <1>10, <2>1, <3>1
  <2> QED
    BY <2>2, <2>3
<1>12. CASE PoolCreate(w)
  <2>1. /\ resource' = resource /\ call[w].step \in AssignSteps
        /\ Call(w, [call[w] EXCEPT !.step = "resource"]) /\ "resource" \in AssignSteps
    BY <1>12 DEF PoolCreate, AssignSteps
  <2>2. pools' \in Nat
    BY <1>12 DEF PoolCreate
  <2>3. TypeOK'
    BY <1>12, <2>2 DEF PoolCreate
  <2> HIDE DEF TypeInv, TypeOK
  <2> QED
    BY <1>10, <2>1, <2>3
<1>13. CASE EnsureResource(w)
  <2>1. call[w] \in RoleCalls
    BY <1>13, CallFields DEF EnsureResource, AssignSteps
  <2>2. call[w].role.user \in Users
    BY <2>1 DEF RoleCalls, Roles
  <2>3. /\ TypeOK' /\ resource \subseteq resource' /\ call[w].role.user \in resource'
        /\ call[w].step \in AssignSteps /\ "assign" \in AssignSteps
        /\ Call(w, [call[w] EXCEPT !.step = "assign"])
    BY <1>13, <2>2 DEF EnsureResource, CodeOf, AssignSteps
  <2> HIDE DEF TypeInv, TypeOK
  <2> QED
    BY <1>10, <2>3
<1>14. CASE Assign(w)
  <2>1. call[w] \in RoleCalls
    BY <1>14, CallFields DEF Assign, AssignSteps
  <2>2. call[w].role.task \in Projects /\ call[w].role.user \in resource
    BY <1>14, <2>1 DEF RoleCalls, Roles, Assign
  <2>3. TypeOK'
    BY <1>14, <2>2 DEF Assign, CodeOf
  <2> QED
    BY <1>14, <2>3, CallTyped DEF Assign, Finish
<1>15. ASSUME NEW old \in role, NEW u \in Users, NEW kind \in {"executor", "reviewer"}
      PROVE  [task |-> old.task, user |-> u, role |-> kind] \in Roles
  BY DEF Roles
<1>16. CASE RoleStarts(w)
  <2>1. CASE \E r \in Roles : AddRole(w, r)
    BY <1>2, <2>1
  <2>2. CASE \E r \in Roles : RemoveRole(w, r)
    <3>1. PICK r \in role : RemoveRole(w, r)
      BY <2>2 DEF RemoveRole
    <3> QED
      BY <1>4, <3>1 DEF RemoveRole, Serves, Askers, Removals
  <2>3. CASE \E old \in role, u \in Users, kind \in {"executor", "reviewer"} :
                 ChangeRole(w, old, [task |-> old.task, user |-> u, role |-> kind])
    BY <1>3, <1>15, <2>3
  <2>4. CASE \E p \in Projects : RemoveTask(w, p)
    BY <1>4, <2>4 DEF RemoveTask, Serves, Askers, Removals
  <2>5. CASE \E tasks \in SUBSET Projects \ {{}}, u \in Users : BulkFind(w, tasks, u)
    BY <1>7, <2>5
  <2>6. CASE \E tasks \in SUBSET Projects \ {{}}, u \in Users, replace \in BOOLEAN :
                 BulkReviewer(w, tasks, u, replace)
    BY <1>9, <2>6
  <2> QED
    BY <1>16, <2>1, <2>2, <2>3, <2>4, <2>5, <2>6 DEF RoleStarts
<1>17. CASE RoleContinues(w)
  BY <1>6, <1>8, <1>11, <1>12, <1>13, <1>14, <1>17 DEF RoleContinues
<1> QED
  BY <1>16, <1>17

\* What the plan's requests leave of the types: plans and results in which only
\* existing plans have results.
PlansTyped ==
    /\ plan \in [Plans -> PlanRows] /\ metrics \in [Plans -> SUBSET Metrics]
    /\ \A i \in Plans : metrics[i] # {} => Exists(i)

LEMMA PlansTypedEnough ==
    ASSUME TypeInv, deployment' = deployment, UNCHANGED rolesVars, PlansTyped'
    PROVE  /\ TypeOK'
           /\ call' = call => TypeInv'
           /\ \A w \in AnyWorker, c \in Calls : Call(w, c) /\ c.step # "assign" => TypeInv'
<1>1. TypeOK'
  BY DEF TypeInv, TypeOK, PlansTyped, rolesVars
<1>2. resource \subseteq resource'
  BY DEF rolesVars
<1> QED
  BY <1>1, <1>2, CallsUnchanged, CallTyped

\* The results that a calculation of plan i by these rules would store.
LeveledRows(i, rules) == {Leveled(p, rules) : p \in plan[i].entries \ deployment.empty}

LEMMA LeveledTyped ==
    ASSUME TypeInv, NEW i \in Plans, NEW rules \in Rules
    PROVE  LeveledRows(i, rules) \subseteq Metrics
<1>1. plan[i].entries \subseteq Projects
  BY DEF TypeInv, TypeOK, PlanRows
<1>2. ASSUME NEW p \in Projects PROVE Leveled(p, rules) \in Metrics
  BY DEF Leveled, Metrics
<1> QED
  BY <1>1, <1>2 DEF LeveledRows

\* The requests that begin.
LEMMA PlanStartTyped ==
    ASSUME TypeInv, deployment' = deployment, UNCHANGED rolesVars,
           NEW w \in AnyWorker, PlanStarts(w)
    PROVE  TypeInv'
<1> PlansTyped
  BY DEF TypeInv, TypeOK, PlansTyped
<1>1. PICK i \in deployment.plans :
        \/ DeleteRead(w, i) \/ Archive(w, i) \/ SimulateRead(w, i) \/ PublishRead(w, i)
        \/ \E entries \in SUBSET Projects \ {{}}, rules \in deployment.rules :
             Create(w, i, entries, rules) \/ UpdateRead(w, i, entries, rules)
  BY DEF PlanStarts
<1>2. i \in Plans /\ deployment.rules \subseteq Rules
  BY <1>1, DeploymentsAssumption DEF TypeInv
<1>3. plan[i] \in PlanRows
  BY <1>2 DEF PlansTyped
<1>4. ASSUME NEW c \in Calls, Call(w, c), c.step # "assign", UNCHANGED planVars PROVE TypeInv'
  <2>1. PlansTyped'
    BY <1>4 DEF PlansTyped, planVars, Exists
  <2> QED
    BY <1>4, <2>1, PlansTypedEnough
<1>5. ASSUME NEW row \in PlanRows, plan' = [plan EXCEPT ![i] = row], UNCHANGED <<metrics, call>>,
             row.status \notin {"absent", "deleted"}
      PROVE  TypeInv'
  <2>1. PlansTyped'
    BY <1>5 DEF PlansTyped, Exists
  <2> QED
    BY <1>5, <2>1, PlansTypedEnough
<1>6. CASE DeleteRead(w, i)
  <2>1. [step |-> "delete", plan |-> i] \in Calls
    BY <1>2 DEF Calls, DeleteCalls
  <2> QED
    BY <1>4, <1>6, <2>1 DEF DeleteRead
<1>7. CASE Archive(w, i)
  <2>1. [plan[i] EXCEPT !.status = "archived"] \in PlanRows
    BY <1>3 DEF PlanRows, Statuses
  <2>2. [plan[i] EXCEPT !.status = "archived"].status = "archived"
    BY <1>3 DEF PlanRows
  <2> QED
    BY <1>5, <1>7, <2>1, <2>2 DEF Archive
<1>8. CASE SimulateRead(w, i)
  <2>1. [step |-> "load", plan |-> i, rules |-> plan[i].rules] \in Calls
    BY <1>2, <1>3 DEF Calls, LoadCalls, PlanRows
  <2> QED
    BY <1>4, <1>8, <2>1 DEF SimulateRead
<1>9. CASE PublishRead(w, i)
  <2>1. [step |-> "find", plan |-> i, entries |-> plan[i].entries] \in Calls
    BY <1>2, <1>3 DEF Calls, FindCalls, PlanRows
  <2> QED
    BY <1>4, <1>9, <2>1 DEF PublishRead
<1>10. ASSUME NEW entries \in SUBSET Projects, NEW rules \in deployment.rules,
              Create(w, i, entries, rules) \/ UpdateRead(w, i, entries, rules)
       PROVE  TypeInv'
  <2> DEFINE row == Draft(entries, rules)
  <2>1. row \in [status: {"draft"}, entries: SUBSET Projects, rules: Rules]
    BY <1>2 DEF Draft
  <2>2. row \in PlanRows /\ row.status = "draft"
    BY <2>1 DEF PlanRows, Statuses
  <2>3. [step |-> "update", plan |-> i, row |-> row] \in Calls
    BY <1>2, <2>1 DEF Calls, UpdateCalls
  <2> HIDE DEF row
  <2> QED
    BY <1>4, <1>5, <1>10, <2>2, <2>3 DEF Create, UpdateRead, row
<1> QED
  BY <1>1, <1>6, <1>7, <1>8, <1>9, <1>10

\* The requests that go on.
LEMMA PlanContinueTyped ==
    ASSUME TypeInv, deployment' = deployment, UNCHANGED rolesVars,
           NEW w \in AnyWorker, PlanContinues(w)
    PROVE  TypeInv'
<1> PlansTyped
  BY DEF TypeInv, TypeOK, PlansTyped
<1> call[w] \in Calls /\ call \in [AnyWorker -> Calls]
  BY DEF TypeInv
<1> IdleCall \in Calls /\ IdleCall.step = "idle"
  BY DEF Calls, IdleCall
<1>1. ASSUME NEW c \in Calls, Call(w, c), c.step # "assign", UNCHANGED planVars PROVE TypeInv'
  <2>1. PlansTyped'
    BY <1>1 DEF PlansTyped, planVars, Exists
  <2> QED
    BY <1>1, <2>1, PlansTypedEnough
<1>2. ASSUME Finish(w), PlansTyped' PROVE TypeInv'
  BY <1>2, PlansTypedEnough DEF Finish
<1>3. CASE Update(w)
  <2>1. call[w] \in UpdateCalls
    BY <1>3, CallFields DEF Update
  <2>2. call[w].plan \in Plans /\ call[w].row \in PlanRows
    BY <2>1 DEF UpdateCalls, PlanRows, Statuses
  <2>3. PlansTyped'
    BY <1>3, <2>2 DEF Update, PlansTyped, Exists, planVars
  <2> QED
    BY <1>2, <1>3, <2>3 DEF Update
<1>4. CASE Delete(w)
  <2>1. call[w] \in DeleteCalls
    BY <1>4, CallFields DEF Delete
  <2>2. call[w].plan \in Plans
    BY <2>1 DEF DeleteCalls
  <2>3. [NoPlan EXCEPT !.status = "deleted"] \in PlanRows
    BY RulesAssumption DEF NoPlan, PlanRows, Statuses
  <2>4. PlansTyped'
    BY <1>4, <2>2, <2>3 DEF Delete, PlansTyped, Exists
  <2> QED
    BY <1>2, <1>4, <2>4 DEF Delete
<1>5. CASE SimulateLoad(w)
  <2>1. call[w] \in LoadCalls
    BY <1>5, CallFields DEF SimulateLoad
  <2>2. call[w].plan \in Plans /\ call[w].rules \in Rules
    BY <2>1 DEF LoadCalls
  <2> DEFINE rows == LeveledRows(call[w].plan, call[w].rules)
  <2>3. [step |-> "clear", plan |-> call[w].plan, rows |-> rows] \in Calls
    BY <2>2, LeveledTyped DEF Calls, ClearCalls
  <2> HIDE DEF rows
  <2>4. \/ Finish(w)
        \/ Call(w, [step |-> "clear", plan |-> call[w].plan, rows |-> rows])
    BY <1>5 DEF SimulateLoad, LeveledRows, rows
  <2> QED
    BY <1>1, <1>5, <2>3, <2>4 DEF SimulateLoad, Finish
<1>6. CASE SimulateClear(w)
  <2>1. call[w] \in ClearCalls
    BY <1>6, CallFields DEF SimulateClear
  <2>2. [step |-> "save", plan |-> call[w].plan, rows |-> call[w].rows, whole |-> TRUE] \in Calls
    BY <2>1 DEF Calls, ClearCalls, SaveCalls
  <2> QED
    BY <1>1, <1>6, <2>2 DEF SimulateClear
<1>7. CASE SimulateSave(w)
  <2>1. call[w] \in SaveCalls
    BY <1>7, CallFields DEF SimulateSave
  <2>2. call[w].plan \in Plans /\ call[w].rows \subseteq Metrics
    BY <2>1 DEF SaveCalls
  <2>3. [plan[call[w].plan] EXCEPT !.status = "calculated"] \in PlanRows
    BY <2>2 DEF PlansTyped, PlanRows, Statuses
  <2>4. [plan[call[w].plan] EXCEPT !.status = "calculated"].status = "calculated"
    BY <2>2 DEF PlansTyped, PlanRows
  <2>5. Kept(call[w]) \cup call[w].rows \subseteq Metrics
    BY <2>2 DEF PlansTyped, Kept
  <2>6. PlansTyped'
    BY <1>7, <2>2, <2>3, <2>4, <2>5 DEF SimulateSave, PlansTyped, Exists
  <2>7. TypeOK'
    BY <2>6, PlansTypedEnough
  <2>8. ASSUME NEW v \in AnyWorker
        PROVE  (call'[v] \in Calls /\ call'[v].step # "assign") \/ call'[v] = call[v]
    <3>1. CASE call[v].step = "save"
      <4>1. [call[v] EXCEPT !.whole = FALSE] \in SaveCalls
        BY <3>1, CallFields DEF TypeInv, SaveCalls
      <4>2. [call[v] EXCEPT !.whole = FALSE].step # "assign"
        BY <4>1 DEF SaveCalls
      <4> QED
        BY <1>7, <4>1, <4>2 DEF SimulateSave, Calls
    <3>2. CASE call[v].step # "save"
      BY <1>7, <3>2 DEF SimulateSave
    <3> QED
      BY <3>1, <3>2
  <2>9. call' \in [AnyWorker -> Calls]
    <3>1. call' = [v \in AnyWorker |-> call'[v]]
      BY <1>7 DEF SimulateSave
    <3> QED
      BY <2>8, <3>1
  <2> QED
    BY <2>7, <2>8, <2>9 DEF TypeInv, rolesVars
<1>8. CASE SimulateRefused(w)
  BY <1>1, <1>8 DEF SimulateRefused, Finish
<1>9. CASE PublishFind(w)
  <2>1. call[w] \in FindCalls
    BY <1>9, CallFields DEF PublishFind
  <2> DEFINE c == [step |-> "publish", plan |-> call[w].plan,
                   rivals |-> Rivals(call[w].plan, call[w].entries)]
  <2>2. c \in Calls /\ c.step = "publish"
    BY <2>1 DEF Calls, FindCalls, PublishCalls, Rivals
  <2> HIDE DEF c
  <2> QED
    BY <1>1, <1>9, <2>2 DEF PublishFind, c
<1>10. CASE Publish(w)
  <2>1. call[w] \in PublishCalls
    BY <1>10, CallFields DEF Publish
  <2>2. ASSUME NEW j \in Plans, NEW status \in {"published", "archived"}
        PROVE  /\ [plan[j] EXCEPT !.status = status] \in PlanRows
               /\ [plan[j] EXCEPT !.status = status].status = status
    BY DEF PlansTyped, PlanRows, Statuses
  <2>3. ASSUME NEW j \in Plans
        PROVE  plan'[j] \in PlanRows /\ (Exists(j) => plan'[j].status \notin {"absent", "deleted"})
    BY <1>10, <2>2 DEF Publish, PlansTyped, Exists
  <2>4. plan' \in [Plans -> PlanRows]
    <3>1. plan' = plan \/ plan' = [j \in Plans |-> plan'[j]]
      BY <1>10 DEF Publish
    <3> QED
      BY <2>3, <3>1 DEF PlansTyped
  <2>5. PlansTyped'
    BY <1>10, <2>3, <2>4 DEF PlansTyped, Publish, Exists
  <2> QED
    BY <1>2, <1>10, <2>5 DEF Publish
<1> QED
  BY <1>3, <1>4, <1>5, <1>6, <1>7, <1>8, <1>9, <1>10 DEF PlanContinues

\* A step that no plan notices: it concerns roles, or ends a request.
Silent ==
    /\ UNCHANGED planVars
    /\ \/ call' = call
       \/ \E w \in AnyWorker :
            \/ Call(w, IdleCall)
            \/ \E c \in RowCalls : Call(w, c) /\ Entitled(w, c)

PlanStep(w) == UNCHANGED rolesVars /\ (PlanStarts(w) \/ PlanContinues(w))

LEMMA StepCases ==
    ASSUME TypeInv, [Next]_vars
    PROVE  /\ TypeInv' /\ deployment' = deployment
           /\ Silent \/ \E w \in AnyWorker : PlanStep(w)
<1>1. CASE UNCHANGED vars
  <2>1. UNCHANGED <<deployment, rolesVars, planVars, call>>
    BY <1>1 DEF vars
  <2>2. TypeOK'
    BY <2>1 DEF TypeInv, TypeOK, rolesVars, planVars, Exists
  <2> QED
    BY <2>1, <2>2, CallsUnchanged DEF Silent, rolesVars
<1>2. CASE Next
  <2>1. PICK w \in AnyWorker :
          \/ (RoleStarts(w) \/ RoleContinues(w)) /\ UNCHANGED planVars
          \/ (PlanStarts(w) \/ PlanContinues(w)) /\ UNCHANGED rolesVars
          \/ Die(w)
    BY <1>2 DEF Next
  <2>2. deployment' = deployment
    BY <1>2 DEF Next
  <2>3. CASE (RoleStarts(w) \/ RoleContinues(w)) /\ UNCHANGED planVars
    BY <2>2, <2>3, RoleStep DEF Silent
  <2>4. CASE (PlanStarts(w) \/ PlanContinues(w)) /\ UNCHANGED rolesVars
    BY <2>2, <2>4, PlanStartTyped, PlanContinueTyped DEF PlanStep
  <2>5. CASE Die(w)
    <3>1. IdleCall \in Calls /\ IdleCall.step # "assign"
      BY DEF Calls, IdleCall
    <3>2. TypeOK' /\ Call(w, IdleCall) /\ UNCHANGED <<resource, planVars>>
      BY <2>5 DEF Die, Finish, TypeInv, TypeOK, planVars, Exists
    <3> QED
      BY <2>2, <3>1, <3>2, CallTyped DEF Silent
  <2> QED
    BY <2>1, <2>2, <2>3, <2>4, <2>5
<1> QED
  BY <1>1, <1>2

\* TypeInv: the rows and the copies of them that threads carry keep their types.
THEOREM TypeCorrect == Spec => []TypeInv
<1>1. TypeInv /\ [Next]_vars => TypeInv'
  BY StepCases
<1> QED
  BY <1>1, TypeInit, PTL DEF Spec

-----------------------------------------------------------------------------------
(* Which thread is where *)

PlanSteps == {"update", "delete", "load", "clear", "save", "find", "publish"}

\* A thread does what its deployment lets it ask for.
Asked(w) ==
    /\ call[w].step = "update" => w \in Askers({"update"})
    /\ call[w].step = "delete" => w \in Askers({"delete"})
    /\ call[w].step \in {"load", "clear", "save"} => w \in Askers({"simulate"})
    /\ call[w].step \in {"find", "publish"} => w \in Askers({"publish"})
    /\ call[w].step \in AssignSteps => RoleAsker(w)
    /\ call[w].step = "remove" => w \in Askers(Removals)
    /\ call[w].step = "bulk" => w \in Askers({"bulk executor"})

\* The plan a thread works on has been there, though it may be deleted.
Live(w) == call[w].step \in PlanSteps => plan[call[w].plan].status # "absent"

StepInv == TypeInv /\ \A w \in AnyWorker : Asked(w) /\ Live(w)

LEMMA ApartStays ==
    ASSUME deployment' = deployment, NEW K, NEW L
    PROVE  Apart(K, L)' <=> Apart(K, L)
BY DEF Apart, Askers

-----------------------------------------------------------------------------------
(* What a step of the plans does to one plan and to one thread *)

Now(w, what, i) == call[w].step = what /\ call[w].plan = i

Created(i) == plan[i].status = "absent" /\ plan'[i].status = "draft" /\ metrics'[i] = metrics[i]
Edited(w, i) ==
    Now(w, "update", i) /\ Exists(i) /\ plan'[i].status = "draft" /\ metrics'[i] = {}
Removed(w, i) == Now(w, "delete", i) /\ plan'[i].status = "deleted" /\ metrics'[i] = {}
Became(i, status) == Exists(i) /\ plan'[i] = [plan[i] EXCEPT !.status = status]
Archived(i) == Became(i, "archived") /\ metrics'[i] = metrics[i]
Stored(w, i) ==
    /\ Now(w, "save", i) /\ ~Clashes(call[w])
    /\ Became(i, "calculated") /\ metrics'[i] = Kept(call[w]) \cup call[w].rows
Published(w, i) == Now(w, "publish", i) /\ Became(i, "published") /\ metrics'[i] = metrics[i]
Untouched(i) == plan'[i] = plan[i] /\ metrics'[i] = metrics[i]

LEMMA PlanEffects ==
    ASSUME TypeInv, deployment' = deployment, NEW w \in AnyWorker, PlanStep(w), NEW i \in Plans
    PROVE  \/ Untouched(i) \/ Created(i) \/ Edited(w, i) \/ Removed(w, i) \/ Archived(i)
           \/ Stored(w, i) \/ Published(w, i)
<1> USE DEF PlanStep, planVars, Untouched
<1> plan \in [Plans -> PlanRows] /\ metrics \in [Plans -> SUBSET Metrics] /\ call[w] \in Calls
  BY DEF TypeInv, TypeOK
<1>1. CASE PlanStarts(w)
  <2>1. PICK j \in deployment.plans :
          \/ DeleteRead(w, j) \/ Archive(w, j) \/ SimulateRead(w, j) \/ PublishRead(w, j)
          \/ \E entries \in SUBSET Projects \ {{}}, rules \in deployment.rules :
               Create(w, j, entries, rules) \/ UpdateRead(w, j, entries, rules)
    BY <1>1 DEF PlanStarts
  <2>2. CASE DeleteRead(w, j) \/ SimulateRead(w, j) \/ PublishRead(w, j)
    BY <2>2 DEF DeleteRead, SimulateRead, PublishRead
  <2>3. CASE Archive(w, j)
    BY <2>3 DEF Archive, Archived, Became
  <2>4. ASSUME NEW entries, NEW rules, Create(w, j, entries, rules)
        PROVE  Untouched(i) \/ Created(i)
    BY <2>4 DEF Create, Created, NewPlan, Draft
  <2>5. ASSUME NEW entries, NEW rules, UpdateRead(w, j, entries, rules)
        PROVE  Untouched(i)
    BY <2>5 DEF UpdateRead
  <2> QED
    BY <2>1, <2>2, <2>3, <2>4, <2>5
<1>2. CASE Update(w)
  <2>1. call[w].row.status = "draft"
    BY <1>2, CallFields DEF Update, UpdateCalls
  <2> QED
    BY <1>2, <2>1 DEF Update, Edited, Now
<1>3. CASE Delete(w)
  <2>1. [NoPlan EXCEPT !.status = "deleted"].status = "deleted"
    BY DEF NoPlan
  <2> QED
    BY <1>3, <2>1 DEF Delete, Removed, Now
<1>4. CASE SimulateLoad(w) \/ SimulateClear(w) \/ SimulateRefused(w) \/ PublishFind(w)
  BY <1>4 DEF SimulateLoad, SimulateClear, SimulateRefused, PublishFind
<1>5. CASE SimulateSave(w)
  <2>1. Exists(call[w].plan) /\ ~Clashes(call[w]) /\ call[w].step = "save"
    BY <1>5 DEF SimulateSave
  <2>2. CASE i = call[w].plan
    BY <1>5, <2>1, <2>2 DEF SimulateSave, Stored, Became, Now
  <2>3. CASE i # call[w].plan
    BY <1>5, <2>3 DEF SimulateSave
  <2> QED
    BY <2>2, <2>3
<1>6. CASE Publish(w)
  BY <1>6 DEF Publish, Published, Archived, Became, Now
<1> QED
  BY <1>1, <1>2, <1>3, <1>4, <1>5, <1>6 DEF PlanContinues

\* A thread's new call, on plan i.
Begins(w, kind, i) == Serves(w, kind) /\ i \in Plans /\ Exists(i) /\ UNCHANGED planVars
Updating(w, i) ==
    Begins(w, "update", i) /\ Editable(i) /\ call'[w].step = "update" /\ call'[w].plan = i
Deleting(w, i) ==
    /\ Begins(w, "delete", i) /\ plan[i].status # "published"
    /\ call'[w].step = "delete" /\ call'[w].plan = i
Loading(w, i) ==
    /\ Begins(w, "simulate", i) /\ plan[i].status # "published"
    /\ call'[w] = [step |-> "load", plan |-> i, rules |-> plan[i].rules]
Finding(w, i) ==
    /\ Begins(w, "publish", i) /\ Publishable(i)
    /\ call'[w] = [step |-> "find", plan |-> i, entries |-> plan[i].entries]
Clearing(w, i) ==
    /\ Now(w, "load", i) /\ UNCHANGED planVars /\ LeveledRows(i, call[w].rules) # {}
    /\ call'[w] = [step |-> "clear", plan |-> i, rows |-> LeveledRows(i, call[w].rules)]
Saving(w, i) ==
    /\ Now(w, "clear", i) /\ UNCHANGED planVars
    /\ call'[w] = [step |-> "save", plan |-> i, rows |-> call[w].rows, whole |-> TRUE]
Publishing(w, i) ==
    /\ Now(w, "find", i) /\ UNCHANGED planVars
    /\ call'[w] = [step |-> "publish", plan |-> i, rivals |-> Rivals(i, call[w].entries)]
NextCall(w) == \E i \in Plans :
    \/ Updating(w, i) \/ Deleting(w, i) \/ Loading(w, i) \/ Finding(w, i)
    \/ Clearing(w, i) \/ Saving(w, i) \/ Publishing(w, i)

\* A call on a plan is not one on roles.
LEMMA NextSteps ==
    ASSUME NEW w \in AnyWorker, NextCall(w)
    PROVE  call'[w].step \in PlanSteps
<1> USE DEF PlanSteps
<1>1. PICK i \in Plans :
        \/ Updating(w, i) \/ Deleting(w, i) \/ Loading(w, i) \/ Finding(w, i)
        \/ Clearing(w, i) \/ Saving(w, i) \/ Publishing(w, i)
  BY DEF NextCall
<1>2. CASE Updating(w, i) \/ Deleting(w, i)
  BY <1>2 DEF Updating, Deleting
<1>3. CASE Loading(w, i) \/ Finding(w, i) \/ Clearing(w, i)
  BY <1>3 DEF Loading, Finding, Clearing
<1>4. CASE Saving(w, i) \/ Publishing(w, i)
  BY <1>4 DEF Saving, Publishing
<1> QED
  BY <1>1, <1>2, <1>3, <1>4

\* A thread that wanted to store results for a plan for which another has just done so.
Overtaken(v, w) ==
    /\ Now(v, "save", call[w].plan) /\ SimulateSave(w)
    /\ call'[v] = [call[v] EXCEPT !.whole = FALSE]

LEMMA CallEffects ==
    ASSUME TypeInv, deployment' = deployment, NEW w \in AnyWorker, PlanStep(w),
           NEW v \in AnyWorker
    PROVE  \/ call'[v] = IdleCall
           \/ call'[v] = call[v] /\ (v = w => call[w] = IdleCall)
           \/ v = w /\ NextCall(w)
           \/ v # w /\ Overtaken(v, w)
<1> USE DEF PlanStep
<1> call \in [AnyWorker -> Calls] /\ call[w] \in Calls
  BY DEF TypeInv
<1> DEFINE Goal == \/ call'[v] = IdleCall
                   \/ call'[v] = call[v] /\ (v = w => call[w] = IdleCall)
                   \/ v = w /\ NextCall(w)
                   \/ v # w /\ Overtaken(v, w)
<1>1. ASSUME NEW c, Call(w, c), v = w => c = IdleCall \/ NextCall(w) PROVE Goal
  BY <1>1 DEF Call
<1>2. ASSUME NEW c, Call(w, c) PROVE call'[w] = c
  BY <1>2 DEF Call
<1>3. CASE PlanStarts(w)
  <2>1. PICK i \in deployment.plans :
          \/ DeleteRead(w, i) \/ Archive(w, i) \/ SimulateRead(w, i) \/ PublishRead(w, i)
          \/ \E entries \in SUBSET Projects \ {{}}, rules \in deployment.rules :
               Create(w, i, entries, rules) \/ UpdateRead(w, i, entries, rules)
    BY <1>3 DEF PlanStarts
  <2>2. i \in Plans
    BY <2>1, DeploymentsAssumption DEF TypeInv
  <2> USE DEF NextCall, Begins
  <2>3. CASE DeleteRead(w, i)
    <3>1. Deleting(w, i)
      BY <1>2, <2>2, <2>3 DEF DeleteRead, Deleting
    <3> QED
      BY <1>1, <2>2, <2>3, <3>1 DEF DeleteRead
  <2>4. CASE SimulateRead(w, i)
    <3>1. Loading(w, i)
      BY <1>2, <2>2, <2>4 DEF SimulateRead, Loading
    <3> QED
      BY <1>1, <2>2, <2>4, <3>1 DEF SimulateRead
  <2>5. CASE PublishRead(w, i)
    <3>1. Finding(w, i)
      BY <1>2, <2>2, <2>5 DEF PublishRead, Finding, Publishable, Exists
    <3> QED
      BY <1>1, <2>2, <2>5, <3>1 DEF PublishRead
  <2>6. CASE Archive(w, i)
    BY <2>6 DEF Archive, Serves
  <2>7. ASSUME NEW entries, NEW rules, Create(w, i, entries, rules) PROVE Goal
    BY <2>7 DEF Create, Serves
  <2>8. ASSUME NEW entries, NEW rules, UpdateRead(w, i, entries, rules) PROVE Goal
    <3>1. Updating(w, i)
      BY <1>2, <2>2, <2>8 DEF UpdateRead, Updating, Editable, Exists
    <3> QED
      BY <1>1, <2>2, <2>8, <3>1 DEF UpdateRead
  <2> QED
    BY <2>1, <2>3, <2>4, <2>5, <2>6, <2>7, <2>8
<1>4. CASE Update(w) \/ Delete(w) \/ SimulateRefused(w) \/ Publish(w)
  BY <1>1, <1>4 DEF Update, Delete, SimulateRefused, Publish, Finish
<1>5. CASE SimulateLoad(w)
  <2>1. call[w].plan \in Plans /\ call[w].step = "load"
    BY <1>5, CallFields DEF SimulateLoad, LoadCalls
  <2> DEFINE rows == LeveledRows(call[w].plan, call[w].rules)
             c == [step |-> "clear", plan |-> call[w].plan, rows |-> rows]
  <2>2. UNCHANGED planVars /\ IF rows = {} THEN Finish(w) ELSE Call(w, c)
    BY <1>5 DEF SimulateLoad, LeveledRows
  <2>3. CASE rows = {}
    BY <1>1, <2>2, <2>3 DEF Finish
  <2>4. CASE rows # {}
    <3>1. Clearing(w, call[w].plan)
      BY <1>2, <2>1, <2>2, <2>4 DEF Clearing, Now
    <3> QED
      BY <1>1, <2>1, <2>2, <2>4, <3>1 DEF NextCall
  <2> QED
    BY <2>3, <2>4
<1>6. CASE SimulateClear(w)
  <2>1. call[w].plan \in Plans
    BY <1>6, CallFields DEF SimulateClear, ClearCalls
  <2>2. Saving(w, call[w].plan)
    BY <1>2, <1>6 DEF SimulateClear, Saving, Now
  <2> QED
    BY <1>1, <1>6, <2>1, <2>2 DEF SimulateClear, NextCall
<1>7. CASE SimulateSave(w)
  BY <1>7 DEF SimulateSave, Overtaken, Now
<1>8. CASE PublishFind(w)
  <2>1. call[w].plan \in Plans
    BY <1>8, CallFields DEF PublishFind, FindCalls
  <2>2. Publishing(w, call[w].plan)
    BY <1>2, <1>8 DEF PublishFind, Publishing, Now
  <2> QED
    BY <1>1, <1>8, <2>1, <2>2 DEF PublishFind, NextCall
<1> QED
  BY <1>3, <1>4, <1>5, <1>6, <1>7, <1>8 DEF PlanContinues

-----------------------------------------------------------------------------------
(* StepInv *)

LEMMA AskersStay ==
    ASSUME deployment' = deployment
    PROVE  /\ Askers({"update"})' = Askers({"update"})
           /\ Askers({"delete"})' = Askers({"delete"})
           /\ Askers({"simulate"})' = Askers({"simulate"})
           /\ Askers({"publish"})' = Askers({"publish"})
           /\ Askers({"bulk executor"})' = Askers({"bulk executor"})
           /\ Askers(Removals)' = Askers(Removals)
           /\ \A w : RoleAsker(w)' <=> RoleAsker(w)
BY DEF Askers, RoleAsker, Removals

LEMMA StepInit == Init => StepInv
<1> SUFFICES ASSUME Init, NEW w \in AnyWorker PROVE Asked(w) /\ Live(w)
  BY TypeInit DEF StepInv
<1>1. call[w].step = "idle"
  BY DEF Init, SyncInit, IdleCall
<1> QED
  BY <1>1 DEF Asked, Live, PlanSteps, AssignSteps

\* A plan that a step leaves absent was absent.
LEMMA StaysPresent ==
    ASSUME TypeInv, deployment' = deployment, NEW i \in Plans,
           Silent \/ \E w \in AnyWorker : PlanStep(w), plan'[i].status = "absent"
    PROVE  plan[i].status = "absent"
<1> plan[i] \in PlanRows
  BY DEF TypeInv, TypeOK
<1>1. ASSUME NEW status \in {"archived", "calculated", "published"}, Became(i, status)
      PROVE  plan'[i].status = status
  BY <1>1 DEF Became, PlanRows
<1>2. CASE Silent
  BY <1>2 DEF Silent, planVars
<1>3. ASSUME NEW w \in AnyWorker, PlanStep(w) PROVE plan[i].status = "absent"
  <2>1. \/ Untouched(i) \/ Created(i) \/ Edited(w, i) \/ Removed(w, i) \/ Archived(i)
        \/ Stored(w, i) \/ Published(w, i)
    BY <1>3, PlanEffects
  <2> QED
    BY <1>1, <2>1 DEF Untouched, Created, Edited, Removed, Archived, Stored, Published
<1> QED
  BY <1>2, <1>3

LEMMA StepNext ==
    ASSUME StepInv, [Next]_vars
    PROVE  StepInv'
<1>1. /\ TypeInv /\ TypeInv' /\ deployment' = deployment
      /\ Silent \/ \E w \in AnyWorker : PlanStep(w)
  BY StepCases DEF StepInv
<1> SUFFICES ASSUME NEW v \in AnyWorker PROVE Asked(v)' /\ Live(v)'
  BY <1>1 DEF StepInv
<1> Asked(v) /\ Live(v) /\ call[v] \in Calls /\ call'[v] \in Calls /\ call \in [AnyWorker -> Calls]
  BY <1>1 DEF StepInv, TypeInv
<1> IdleCall.step = "idle"
  BY DEF IdleCall
<1>2. ASSUME call'[v] = call[v] \/ \E w \in AnyWorker : Overtaken(v, w) PROVE Asked(v)' /\ Live(v)'
  <2>1. call'[v].step = call[v].step /\ call'[v].plan = call[v].plan
    <3>1. CASE call'[v] = call[v]
      BY <3>1
    <3>2. ASSUME NEW w \in AnyWorker, Overtaken(v, w)
          PROVE  call'[v].step = call[v].step /\ call'[v].plan = call[v].plan
      <4>1. call[v] \in SaveCalls /\ call'[v] = [call[v] EXCEPT !.whole = FALSE]
        BY <3>2, CallFields DEF Overtaken, Now
      <4> QED
        BY <4>1 DEF SaveCalls
    <3> QED
      BY <1>2, <3>1, <3>2
  <2>2. Asked(v)'
    BY <1>1, <2>1, AskersStay DEF Asked
  <2>3. ASSUME call[v].step \in PlanSteps PROVE call[v].plan \in Plans
    BY <2>3, CallFields DEF PlanSteps, UpdateCalls, DeleteCalls, LoadCalls, ClearCalls, SaveCalls,
                            FindCalls, PublishCalls
  <2>4. Live(v)'
    BY <1>1, <2>1, <2>3, StaysPresent DEF Live
  <2> QED
    BY <2>2, <2>4
<1>3. CASE call'[v] = IdleCall
  BY <1>3 DEF Asked, Live, PlanSteps, AssignSteps
<1>4. CASE Silent
  <2>1. CASE call' = call
    BY <1>2, <2>1
  <2>2. ASSUME NEW w \in AnyWorker, Call(w, IdleCall) PROVE Asked(v)' /\ Live(v)'
    BY <1>2, <1>3, <2>2 DEF Call
  <2>3. ASSUME NEW w \in AnyWorker, NEW c \in RowCalls, Call(w, c), Entitled(w, c)
        PROVE  Asked(v)' /\ Live(v)'
    <3>1. CASE v = w
      <4>1. call'[v] = c
        BY <2>3, <3>1 DEF Call
      <4>2. CASE c \in RoleCalls /\ (RoleAsker(w) \/ call[w].step \in AssignSteps)
        <5>1. RoleAsker(v)'
          BY <1>1, <3>1, <4>2, AskersStay DEF Asked
        <5> QED
          BY <4>1, <4>2, <5>1 DEF RoleCalls, AssignSteps, Asked, Live, PlanSteps
      <4>3. CASE c \in RemoveCalls /\ w \in Askers(Removals)
        BY <1>1, <3>1, <4>1, <4>3, AskersStay DEF RemoveCalls, AssignSteps, Asked, Live, PlanSteps
      <4>4. CASE c \in BulkCalls /\ w \in Askers({"bulk executor"})
        BY <1>1, <3>1, <4>1, <4>4, AskersStay DEF BulkCalls, AssignSteps, Asked, Live, PlanSteps
      <4> QED
        BY <2>3, <4>2, <4>3, <4>4 DEF Entitled
    <3>2. CASE v # w
      BY <1>2, <2>3, <3>2 DEF Call
    <3> QED
      BY <3>1, <3>2
  <2> QED
    BY <1>4, <2>1, <2>2, <2>3 DEF Silent
<1>5. ASSUME NEW w \in AnyWorker, PlanStep(w) PROVE Asked(v)' /\ Live(v)'
  <2>1. CASE v = w /\ NextCall(w)
    <3>1. PICK i \in Plans :
            \/ Updating(v, i) \/ Deleting(v, i) \/ Loading(v, i) \/ Finding(v, i)
            \/ Clearing(v, i) \/ Saving(v, i) \/ Publishing(v, i)
      BY <2>1 DEF NextCall
    <3>2. plan[i].status # "absent" /\ call'[v].plan = i /\ plan' = plan
      BY <3>1 DEF Updating, Deleting, Loading, Finding, Clearing, Saving, Publishing, Begins, Exists,
                  Now, Live, PlanSteps, planVars
    <3>3. call'[v].step \notin AssignSteps \cup {"remove", "bulk"}
      BY <2>1, NextSteps DEF PlanSteps, AssignSteps
    <3>4. /\ call[v].step \in {"load", "clear"} => v \in Askers({"simulate"})
          /\ call[v].step = "find" => v \in Askers({"publish"})
      BY DEF Asked
    <3>5. /\ call'[v].step = "update" => v \in Askers({"update"})
          /\ call'[v].step = "delete" => v \in Askers({"delete"})
          /\ call'[v].step \in {"load", "clear", "save"} => v \in Askers({"simulate"})
          /\ call'[v].step \in {"find", "publish"} => v \in Askers({"publish"})
      <4> HIDE DEF Asked
      <4>1. CASE Updating(v, i) \/ Deleting(v, i)
        BY <4>1 DEF Updating, Deleting, Begins, Serves
      <4>2. CASE Loading(v, i) \/ Finding(v, i)
        BY <4>2 DEF Loading, Finding, Begins, Serves
      <4>3. CASE Clearing(v, i) \/ Saving(v, i) \/ Publishing(v, i)
        BY <3>4, <4>3 DEF Clearing, Saving, Publishing, Now
      <4> QED
        BY <3>1, <4>1, <4>2, <4>3
    <3>6. Asked(v)'
      BY <1>1, <3>3, <3>5, AskersStay DEF Asked
    <3> QED
      BY <3>2, <3>6 DEF Live
  <2> QED
    BY <1>1, <1>2, <1>3, <1>5, <2>1, CallEffects
<1> QED
  BY <1>1, <1>4, <1>5

-----------------------------------------------------------------------------------
(* One published plan.  The thread that publishes still sees the plan and all its
   published rivals, because nobody else may publish or edit meanwhile. *)

PublishAlone == Apart({"publish"}, {"publish", "update"})

IsPublished(i) == plan[i].status = "published"
OnlyOnePublished ==
    \A i, j \in Plans : IsPublished(i) /\ IsPublished(j) /\ i # j
                        => plan[i].entries \cap plan[j].entries = {}

FoundRight(w) ==
    call[w].step = "find" /\ Exists(call[w].plan) => plan[call[w].plan].entries = call[w].entries
RivalsFound(w) ==
    call[w].step = "publish" /\ Exists(call[w].plan) =>
        \A j \in Plans \ {call[w].plan} :
            IsPublished(j) /\ plan[j].entries \cap plan[call[w].plan].entries # {}
                => j \in call[w].rivals

OneInv ==
    PublishAlone => OnlyOnePublished /\ \A w \in AnyWorker : FoundRight(w) /\ RivalsFound(w)

LEMMA OneInit == Init => OneInv
<1> SUFFICES ASSUME Init PROVE OneInv
  OBVIOUS
<1>1. \A i \in Plans : ~IsPublished(i)
  BY DEF Init, NoPlan, IsPublished
<1>2. \A w \in AnyWorker : call[w].step = "idle"
  BY DEF Init, SyncInit, IdleCall
<1> QED
  BY <1>1, <1>2 DEF OneInv, OnlyOnePublished, FoundRight, RivalsFound

\* What a step of thread w leaves of a plan that another thread reads.
LEMMA PlanSeen ==
    ASSUME TypeInv, deployment' = deployment, NEW w \in AnyWorker, PlanStep(w), NEW i \in Plans
    PROVE  /\ Exists(i)' /\ plan[i].status # "absent" =>
                Exists(i) /\ (plan'[i].entries = plan[i].entries \/ Edited(w, i))
           /\ IsPublished(i)' =>
                /\ IsPublished(i) \/ Published(w, i)
                /\ plan'[i].entries = plan[i].entries
           /\ Published(w, i) => IsPublished(i)' /\ plan'[i].entries = plan[i].entries
<1> plan[i] \in PlanRows
  BY DEF TypeInv, TypeOK
<1>1. \/ Untouched(i) \/ Created(i) \/ Edited(w, i) \/ Removed(w, i) \/ Archived(i)
      \/ Stored(w, i) \/ Published(w, i)
  BY PlanEffects
<1>2. ASSUME NEW status \in {"archived", "calculated", "published"}, Became(i, status)
      PROVE  plan'[i].status = status /\ plan'[i].entries = plan[i].entries /\ Exists(i)
  BY <1>2 DEF Became, PlanRows
<1>3. CASE Untouched(i)
  BY <1>3 DEF Untouched, Exists, IsPublished, Published, Became, PlanRows
<1>4. CASE Created(i)
  BY <1>4 DEF Created, Exists, IsPublished, Published, Became
<1>5. CASE Edited(w, i)
  BY <1>5 DEF Edited, Exists, IsPublished, Published, Now, Became
<1>6. CASE Removed(w, i)
  BY <1>6 DEF Removed, Exists, IsPublished, Published, Now, Became
<1>7. CASE Archived(i)
  BY <1>2, <1>7 DEF Archived, Exists, IsPublished, Published
<1>8. CASE Stored(w, i)
  BY <1>2, <1>8 DEF Stored, Exists, IsPublished, Published
<1>9. CASE Published(w, i)
  BY <1>2, <1>9 DEF Exists, IsPublished, Published
<1> QED
  BY <1>1, <1>3, <1>4, <1>5, <1>6, <1>7, <1>8, <1>9

\* A publication archives the rivals that were found.
LEMMA RivalsArchived ==
    ASSUME TypeInv, NEW w \in AnyWorker, PlanStep(w), NEW i \in Plans, Published(w, i),
           NEW j \in Plans \ {i}, IsPublished(j)'
    PROVE  j \notin call[w].rivals
<1> plan \in [Plans -> PlanRows] /\ call[w].step = "publish" /\ call[w].plan = i
  BY DEF TypeInv, TypeOK, Published, Now
<1>1. Publish(w)
  <2>1. ~Serves(w, "delete") /\ ~Serves(w, "archive") /\ ~Serves(w, "simulate")
        /\ ~Serves(w, "publish") /\ ~Serves(w, "create") /\ ~Serves(w, "update")
    BY DEF Serves, IdleCall
  <2>2. ~PlanStarts(w)
    BY <2>1 DEF PlanStarts, DeleteRead, Archive, SimulateRead, PublishRead, Create, UpdateRead
  <2> QED
    BY <2>2 DEF PlanStep, PlanContinues, Update, Delete, SimulateLoad, SimulateClear, SimulateSave,
                SimulateRefused, PublishFind
<1>2. Exists(i)
  BY DEF Published, Became
<1>3. plan'[j] = IF j \in call[w].rivals /\ Exists(j) THEN [plan[j] EXCEPT !.status = "archived"]
                 ELSE plan[j]
  BY <1>1, <1>2 DEF Publish
<1>4. [plan[j] EXCEPT !.status = "archived"].status = "archived"
  BY DEF PlanRows
<1> QED
  BY <1>3, <1>4 DEF IsPublished, Exists

LEMMA OneNext ==
    ASSUME StepInv, OneInv, [Next]_vars
    PROVE  OneInv'
<1>1. /\ TypeInv /\ TypeInv' /\ deployment' = deployment
      /\ Silent \/ \E w \in AnyWorker : PlanStep(w)
  BY StepCases DEF StepInv
<1>2. PublishAlone' <=> PublishAlone
  BY <1>1, ApartStays DEF PublishAlone
<1> SUFFICES ASSUME PublishAlone
             PROVE  OnlyOnePublished' /\ \A v \in AnyWorker : FoundRight(v)' /\ RivalsFound(v)'
  BY <1>2 DEF OneInv
<1>3. OnlyOnePublished /\ \A v \in AnyWorker : FoundRight(v) /\ RivalsFound(v)
  BY DEF OneInv
<1>4. ASSUME NEW v \in AnyWorker, NEW w \in AnyWorker, call[v].step \in {"find", "publish"},
             call[w].step \in {"publish", "update"}
      PROVE  v = w
  <2>1. v \in Askers({"publish"}) /\ w \in Askers({"publish"}) \cup Askers({"update"})
    BY <1>4 DEF StepInv, Asked
  <2>2. w \in Askers({"publish", "update"})
    BY <2>1 DEF Askers
  <2> QED
    BY <2>1, <2>2 DEF PublishAlone, Apart
<1>5. ASSUME NEW v \in AnyWorker, call'[v].step \notin {"find", "publish"}
      PROVE  FoundRight(v)' /\ RivalsFound(v)'
  BY <1>5 DEF FoundRight, RivalsFound
<1> IdleCall.step = "idle"
  BY DEF IdleCall
<1>6. CASE Silent
  <2>1. plan' = plan
    BY <1>6 DEF Silent, planVars
  <2>2. ASSUME NEW v \in AnyWorker PROVE call'[v] = call[v] \/ call'[v].step \notin {"find", "publish"}
    BY <1>1, <1>6 DEF Silent, Call, RowCalls, RoleCalls, AssignSteps, RemoveCalls, BulkCalls, TypeInv
  <2> QED
    BY <1>3, <1>5, <2>1, <2>2 DEF OnlyOnePublished, FoundRight, RivalsFound, IsPublished, Exists
<1>7. ASSUME NEW w \in AnyWorker, PlanStep(w)
      PROVE  OnlyOnePublished' /\ \A v \in AnyWorker : FoundRight(v)' /\ RivalsFound(v)'
  <2>1. ASSUME NEW i \in Plans, NEW j \in Plans, IsPublished(i)', IsPublished(j)', i # j
        PROVE  plan'[i].entries \cap plan'[j].entries = {}
    <3>1. /\ plan'[i].entries = plan[i].entries /\ plan'[j].entries = plan[j].entries
          /\ IsPublished(i) \/ Published(w, i)
          /\ IsPublished(j) \/ Published(w, j)
      BY <1>1, <1>7, <2>1, PlanSeen
    <3>2. ASSUME NEW k \in Plans, NEW l \in Plans, k # l, Published(w, k), IsPublished(l), IsPublished(l)'
          PROVE  plan[k].entries \cap plan[l].entries = {}
      <4>1. l \notin call[w].rivals
        BY <1>1, <1>7, <3>2, RivalsArchived
      <4> QED
        BY <1>3, <3>2, <4>1 DEF RivalsFound, Published, Now, Became
    <3>3. ~(Published(w, i) /\ Published(w, j))
      BY <2>1 DEF Published, Now
    <3> QED
      BY <1>3, <2>1, <3>1, <3>2, <3>3 DEF OnlyOnePublished
  <2>2. ASSUME NEW v \in AnyWorker PROVE FoundRight(v)' /\ RivalsFound(v)'
    <3>1. CASE call'[v] = call[v] /\ (v = w => call[w] = IdleCall) /\ call[v].step \in {"find", "publish"}
      <4>1. PICK i \in Plans : i = call[v].plan
        BY <1>1, <3>1, CallFields DEF TypeInv, FindCalls, PublishCalls
      <4>2. call[w].step \notin {"publish", "update"}
        BY <1>4, <3>1
      <4>3. plan[i].status # "absent"
        BY <3>1, <4>1 DEF StepInv, Live, PlanSteps
      <4>4. Exists(i)' => Exists(i) /\ plan'[i].entries = plan[i].entries
        BY <1>1, <1>7, <4>1, <4>2, <4>3, PlanSeen DEF Edited, Now
      <4>5. ASSUME NEW j \in Plans, IsPublished(j)'
            PROVE  IsPublished(j) /\ plan'[j].entries = plan[j].entries
        BY <1>1, <1>7, <4>2, <4>5, PlanSeen DEF Published, Now
      <4> QED
        BY <1>3, <3>1, <4>1, <4>4, <4>5 DEF FoundRight, RivalsFound, Exists
    <3>2. CASE v = w /\ NextCall(w) /\ call'[v].step \in {"find", "publish"}
      <4>1. PICK i \in Plans : Finding(w, i) \/ Publishing(w, i)
        BY <3>2 DEF NextCall, Updating, Deleting, Loading, Clearing, Saving
      <4>2. CASE Finding(w, i)
        BY <3>2, <4>2 DEF Finding, Begins, FoundRight, RivalsFound, planVars
      <4>3. CASE Publishing(w, i)
        BY <1>3, <3>2, <4>3 DEF Publishing, Now, Rivals, FoundRight, RivalsFound, IsPublished, Exists, planVars
      <4> QED
        BY <4>1, <4>2, <4>3
    <3>3. CASE Overtaken(v, w)
      <4>1. call'[v].step = "save"
        BY <1>1, <3>3, CallFields DEF Overtaken, Now, TypeInv, SaveCalls
      <4> QED
        BY <1>5, <4>1
    <3> QED
      BY <1>1, <1>5, <1>7, <3>1, <3>2, <3>3, CallEffects
  <2> QED
    BY <2>1, <2>2 DEF OnlyOnePublished
<1> QED
  BY <1>1, <1>6, <1>7

-----------------------------------------------------------------------------------
(* Results that fit.  What a calculation carries fits its plan as long as nobody
   edits that meanwhile; a thread that was overtaken by another calculation of the
   plan finds results that fit, and so is refused. *)

EditAlone == Apart({"update"}, {"update", "simulate", "publish"})

FitsRules(rows, entries, rules, empty) ==
    /\ ProjectsOf(rows) = entries \ empty
    /\ \A m \in rows : m.rules = rules /\ \A n \in rows : n.project = m.project => n = m

FitsPlan(rows, i) == FitsRules(rows, plan[i].entries, plan[i].rules, deployment.empty)
ResultsFit ==
    \A i \in Plans : plan[i].status \in {"calculated", "published"} => FitsPlan(metrics[i], i)

CarriedFits(w) ==
    Exists(call[w].plan) =>
        /\ call[w].step = "load" => call[w].rules = plan[call[w].plan].rules
        /\ call[w].step \in {"clear", "save"} =>
              call[w].rows # {} /\ FitsPlan(call[w].rows, call[w].plan)
        /\ call[w].step = "save" /\ ~call[w].whole => FitsPlan(metrics[call[w].plan], call[w].plan)
        /\ call[w].step \in {"find", "publish"} => FitsPlan(metrics[call[w].plan], call[w].plan)

CarrySteps == {"load", "clear", "save", "find", "publish"}

BasisInv == EditAlone => ResultsFit /\ \A w \in AnyWorker : call[w].step \in CarrySteps => CarriedFits(w)

LEMMA BasisInit == Init => BasisInv
<1> SUFFICES ASSUME Init PROVE BasisInv
  OBVIOUS
<1>1. \A i \in Plans : plan[i].status = "absent"
  BY DEF Init, NoPlan
<1>2. \A w \in AnyWorker : call[w].step = "idle"
  BY DEF Init, SyncInit, IdleCall
<1> QED
  BY <1>1, <1>2 DEF BasisInv, ResultsFit, CarrySteps

\* A calculation has one result for each project, by the rules it was given.
LEMMA LeveledFits ==
    ASSUME NEW i \in Plans, NEW rules
    PROVE  FitsRules(LeveledRows(i, rules), plan[i].entries, rules, deployment.empty)
<1> DEFINE chosen == plan[i].entries \ deployment.empty
           Result(p) == Leveled(p, rules)
<1>1. \A p : Result(p).project = p /\ Result(p).rules = rules
  BY DEF Leveled
<1>2. LeveledRows(i, rules) = {Result(p) : p \in chosen}
  BY DEF LeveledRows
<1> HIDE DEF Result
<1>3. ProjectsOf(LeveledRows(i, rules)) = chosen
  BY <1>1, <1>2 DEF ProjectsOf
<1>4. ASSUME NEW m \in LeveledRows(i, rules)
      PROVE  m.rules = rules /\ m = Result(m.project)
  BY <1>1, <1>2
<1> QED
  BY <1>3, <1>4 DEF FitsRules

\* What a step of thread w leaves of the plan that another thread has rows for.
LEMMA BasisSeen ==
    ASSUME TypeInv, deployment' = deployment, NEW w \in AnyWorker, PlanStep(w), NEW i \in Plans,
           plan[i].status # "absent", ~Edited(w, i), plan'[i].status \notin {"absent", "deleted"}
    PROVE  /\ Exists(i) /\ plan'[i].entries = plan[i].entries /\ plan'[i].rules = plan[i].rules
           /\ metrics'[i] = metrics[i] \/ Stored(w, i)
           /\ plan'[i].status \in {"calculated", "published"} =>
                plan[i].status \in {"calculated", "published"} \/ Stored(w, i) \/ Published(w, i)
<1> plan[i] \in PlanRows
  BY DEF TypeInv, TypeOK
<1>1. Untouched(i) \/ Removed(w, i) \/ Created(i) \/ Archived(i) \/ Stored(w, i) \/ Published(w, i)
  BY PlanEffects
<1>2. ASSUME NEW status \in {"archived", "calculated", "published"}, Became(i, status)
      PROVE  /\ plan'[i].status = status /\ Exists(i)
             /\ plan'[i].entries = plan[i].entries /\ plan'[i].rules = plan[i].rules
  BY <1>2 DEF Became, PlanRows
<1>3. CASE Untouched(i)
  BY <1>3 DEF Untouched, Exists
<1>4. CASE Removed(w, i) \/ Created(i)
  BY <1>4 DEF Removed, Created
<1>5. CASE Archived(i) \/ Stored(w, i) \/ Published(w, i)
  BY <1>2, <1>5 DEF Archived, Stored, Published
<1> QED
  BY <1>1, <1>3, <1>4, <1>5

\* Results that are stored fit: of two calculations the second is refused.
LEMMA StoredFits ==
    ASSUME TypeInv, NEW w \in AnyWorker, NEW i \in Plans, Stored(w, i), CarriedFits(w)
    PROVE  /\ metrics'[i] = call[w].rows
           /\ FitsPlan(call[w].rows, i)
<1>1. /\ call[w].step = "save" /\ call[w].plan = i /\ Exists(i) /\ ~Clashes(call[w])
      /\ metrics'[i] = Kept(call[w]) \cup call[w].rows
  BY DEF Stored, Now, Became
<1>2. call[w].rows # {} /\ FitsPlan(call[w].rows, i)
  BY <1>1 DEF CarriedFits
<1>3. CASE call[w].whole
  BY <1>1, <1>2, <1>3 DEF Kept
<1>4. CASE ~call[w].whole
  <2>1. FitsPlan(metrics[i], i)
    BY <1>1, <1>4 DEF CarriedFits
  <2>2. ProjectsOf(Kept(call[w])) = ProjectsOf(call[w].rows)
    BY <1>1, <1>2, <1>4, <2>1 DEF Kept, FitsPlan, FitsRules
  <2>3. ProjectsOf(call[w].rows) # {}
    BY <1>2 DEF ProjectsOf
  <2> QED
    BY <1>1, <2>2, <2>3 DEF Clashes
<1> QED
  BY <1>3, <1>4

LEMMA BasisNext ==
    ASSUME StepInv, BasisInv, [Next]_vars
    PROVE  BasisInv'
<1>1. /\ TypeInv /\ TypeInv' /\ deployment' = deployment
      /\ Silent \/ \E w \in AnyWorker : PlanStep(w)
  BY StepCases DEF StepInv
<1>2. EditAlone' <=> EditAlone
  BY <1>1, ApartStays DEF EditAlone
<1> SUFFICES ASSUME EditAlone
             PROVE  ResultsFit' /\ \A v \in AnyWorker : call'[v].step \in CarrySteps => CarriedFits(v)'
  BY <1>2 DEF BasisInv
<1>3. ResultsFit /\ \A v \in AnyWorker : call[v].step \in CarrySteps => CarriedFits(v)
  BY DEF BasisInv
<1> IdleCall.step \notin CarrySteps
  BY DEF IdleCall, CarrySteps
<1>4. CASE Silent
  <2>1. plan' = plan /\ metrics' = metrics
    BY <1>4 DEF Silent, planVars
  <2>2. ASSUME NEW v \in AnyWorker PROVE call'[v] = call[v] \/ call'[v].step \notin CarrySteps
    BY <1>1, <1>4 DEF Silent, Call, RowCalls, RoleCalls, AssignSteps, RemoveCalls, BulkCalls, TypeInv, CarrySteps
  <2> QED
    BY <1>1, <1>3, <2>1, <2>2 DEF ResultsFit, CarriedFits, FitsPlan, Exists
<1>5. ASSUME NEW w \in AnyWorker, PlanStep(w)
      PROVE  ResultsFit' /\ \A v \in AnyWorker : call'[v].step \in CarrySteps => CarriedFits(v)'
  <2>1. ASSUME NEW i \in Plans, Stored(w, i) PROVE FitsPlan(metrics'[i], i)
    <3>1. CarriedFits(w)
      BY <1>3, <2>1 DEF Stored, Now, CarrySteps
    <3> QED
      BY <1>1, <2>1, <3>1, StoredFits
  <2>2. ASSUME NEW i \in Plans, plan'[i].status \in {"calculated", "published"}
        PROVE  FitsRules(metrics'[i], plan'[i].entries, plan'[i].rules, deployment.empty)
    <3>1. plan[i].status # "absent" /\ ~Edited(w, i)
      <4>1. CASE Created(i) \/ Edited(w, i)
        BY <2>2, <4>1 DEF Created, Edited
      <4>2. CASE Untouched(i) \/ Removed(w, i) \/ Archived(i) \/ Stored(w, i) \/ Published(w, i)
        BY <2>2, <4>2 DEF Untouched, Removed, Archived, Stored, Published, Became, Exists, Edited, Now
      <4> QED
        BY <1>1, <1>5, <4>1, <4>2, PlanEffects
    <3>2. /\ plan'[i].entries = plan[i].entries /\ plan'[i].rules = plan[i].rules
          /\ metrics'[i] = metrics[i] \/ Stored(w, i)
          /\ plan[i].status \in {"calculated", "published"} \/ Stored(w, i) \/ Published(w, i)
      BY <1>1, <1>5, <2>2, <3>1, BasisSeen
    <3>3. Published(w, i) => FitsPlan(metrics[i], i)
      BY <1>3 DEF Published, Became, Now, CarriedFits, CarrySteps
    <3> QED
      BY <1>3, <2>1, <3>2, <3>3 DEF FitsPlan, ResultsFit
  <2>3. ASSUME NEW v \in AnyWorker, v # w, call[v].step \in CarrySteps
        PROVE  CarriedFits(v)' \/ call'[v].step \notin CarrySteps
    <3>1. PICK i \in Plans : i = call[v].plan
      BY <1>1, <2>3, CallFields DEF TypeInv, CarrySteps, LoadCalls, ClearCalls, SaveCalls, FindCalls,
                                    PublishCalls
    <3>2. ~Edited(w, i)
      <4>1. v \in Askers({"simulate"}) \cup Askers({"publish"})
        BY <2>3 DEF StepInv, Asked, CarrySteps
      <4>2. v \in Askers({"update", "simulate", "publish"})
        BY <4>1 DEF Askers
      <4>3. Edited(w, i) => w \in Askers({"update"})
        BY DEF StepInv, Asked, Edited, Now
      <4> QED
        BY <2>3, <4>2, <4>3 DEF EditAlone, Apart
    <3>3. plan[i].status # "absent"
      BY <2>3, <3>1 DEF StepInv, Live, PlanSteps, CarrySteps
    <3>4. ASSUME Exists(i)'
          PROVE  /\ Exists(i) /\ plan'[i].entries = plan[i].entries /\ plan'[i].rules = plan[i].rules
                 /\ metrics'[i] = metrics[i] \/ FitsPlan(metrics'[i], i)
      BY <1>1, <1>5, <2>1, <3>2, <3>3, <3>4, BasisSeen DEF Exists
    <3>5. CASE call'[v] = call[v]
      BY <1>1, <1>3, <2>3, <3>1, <3>4, <3>5 DEF CarriedFits, FitsPlan, Exists
    <3>6. CASE Overtaken(v, w)
      <4>1. /\ call[v].step = "save" /\ call'[v].step = "save"
            /\ call'[v].plan = i /\ call'[v].rows = call[v].rows
        BY <1>1, <3>1, <3>6, CallFields DEF Overtaken, Now, TypeInv, SaveCalls
      <4>2. Stored(w, i)
        <5>1. i = call[w].plan /\ SimulateSave(w)
          BY <3>1, <3>6 DEF Overtaken, Now
        <5>2. call[w].step = "save" /\ Exists(i) /\ ~Clashes(call[w])
          BY <5>1 DEF SimulateSave
        <5>3. plan \in [Plans -> PlanRows] /\ metrics \in [Plans -> SUBSET Metrics]
          BY <1>1 DEF TypeInv, TypeOK
        <5> QED
          BY <5>1, <5>2, <5>3 DEF SimulateSave, Stored, Became, Now
      <4> QED
        BY <1>1, <1>3, <2>1, <2>3, <3>1, <3>4, <4>1, <4>2 DEF CarriedFits, FitsPlan, Exists
    <3> QED
      BY <1>1, <1>5, <2>3, <3>5, <3>6, CallEffects
  <2>4. ASSUME NextCall(w), call'[w].step \in CarrySteps
        PROVE  CarriedFits(w)'
    <3>1. PICK i \in Plans : Loading(w, i) \/ Finding(w, i) \/ Clearing(w, i) \/ Saving(w, i) \/ Publishing(w, i)
      BY <2>4 DEF NextCall, Updating, Deleting, CarrySteps
    <3>2. plan' = plan /\ metrics' = metrics
      BY <3>1 DEF Loading, Finding, Clearing, Saving, Publishing, Begins, planVars
    <3>3. Now(w, "load", i) \/ Now(w, "clear", i) \/ Now(w, "find", i) => CarriedFits(w)
      BY <1>3 DEF Now, CarrySteps
    <3>4. CASE Loading(w, i)
      BY <3>2, <3>4 DEF Loading, CarriedFits, Exists
    <3>5. CASE Finding(w, i)
      BY <1>1, <1>3, <3>2, <3>5 DEF Finding, Publishable, ResultsFit, CarriedFits, FitsPlan
    <3>6. CASE Clearing(w, i)
      <4>1. FitsRules(LeveledRows(i, call[w].rules), plan[i].entries, call[w].rules, deployment.empty)
        BY LeveledFits
      <4> HIDE DEF LeveledRows
      <4>2. Exists(i) => call[w].rules = plan[i].rules
        BY <3>3, <3>6 DEF Clearing, CarriedFits, Now
      <4> QED
        BY <1>1, <3>2, <3>6, <4>1, <4>2 DEF Clearing, CarriedFits, FitsPlan, Exists
    <3>7. CASE Saving(w, i)
      BY <1>1, <3>2, <3>3, <3>7 DEF Saving, Now, CarriedFits, FitsPlan, Exists
    <3>8. CASE Publishing(w, i)
      BY <1>1, <3>2, <3>3, <3>8 DEF Publishing, Now, CarriedFits, FitsPlan, Exists
    <3> QED
      BY <3>1, <3>4, <3>5, <3>6, <3>7, <3>8
  <2>5. ResultsFit'
    BY <1>1, <2>2 DEF ResultsFit, FitsPlan
  <2>6. ASSUME NEW v \in AnyWorker, call'[v].step \in CarrySteps PROVE CarriedFits(v)'
    <3>1. CASE v = w
      BY <1>1, <1>5, <2>4, <2>6, <3>1, CallEffects
    <3>2. CASE v # w
      <4>1. call[v].step \in CarrySteps
        BY <1>1, <1>5, <2>6, <3>2, CallEffects DEF Overtaken, Now, CarrySteps
      <4> QED
        BY <2>3, <2>6, <3>2, <4>1
    <3> QED
      BY <3>1, <3>2
  <2> QED
    BY <2>5, <2>6
<1> QED
  BY <1>1, <1>4, <1>5

-----------------------------------------------------------------------------------
(* Published plans stay: whoever would change one began before it was published, and
   then has not ended. *)

KeepAlone == Apart({"publish"}, {"simulate", "update", "delete"})

ChangingSteps == {"update", "delete", "load", "clear", "save"}
KeepInv ==
    KeepAlone => \A w \in AnyWorker : call[w].step \in ChangingSteps => plan[call[w].plan].status # "published"

LEMMA KeepInit == Init => KeepInv
<1> SUFFICES ASSUME Init, NEW w \in AnyWorker PROVE call[w].step \notin ChangingSteps
  BY DEF KeepInv
<1> QED
  BY DEF Init, SyncInit, IdleCall, ChangingSteps

LEMMA KeepNext ==
    ASSUME StepInv, KeepInv, [Next]_vars
    PROVE  KeepInv'
<1>1. /\ TypeInv /\ TypeInv' /\ deployment' = deployment
      /\ Silent \/ \E w \in AnyWorker : PlanStep(w)
  BY StepCases DEF StepInv
<1>2. KeepAlone' <=> KeepAlone
  BY <1>1, ApartStays DEF KeepAlone
<1> SUFFICES ASSUME KeepAlone, NEW v \in AnyWorker, call'[v].step \in ChangingSteps
             PROVE  plan'[call'[v].plan].status # "published"
  BY <1>2 DEF KeepInv
<1>3. call[v].step \in ChangingSteps => plan[call[v].plan].status # "published"
  BY DEF KeepInv
<1> IdleCall.step \notin ChangingSteps
  BY DEF IdleCall, ChangingSteps
<1>4. CASE Silent
  <2>1. plan' = plan
    BY <1>4 DEF Silent, planVars
  <2>2. call'[v] = call[v] \/ call'[v].step \notin ChangingSteps
    BY <1>1, <1>4 DEF Silent, Call, RowCalls, RoleCalls, AssignSteps, RemoveCalls, BulkCalls, TypeInv, ChangingSteps
  <2> QED
    BY <1>3, <2>1, <2>2 DEF IsPublished
<1>5. ASSUME NEW w \in AnyWorker, PlanStep(w) PROVE plan'[call'[v].plan].status # "published"
  <2>1. CASE call[v].step \in ChangingSteps /\ call'[v].plan = call[v].plan
    <3>1. PICK i \in Plans : i = call[v].plan
      BY <1>1, <2>1, CallFields DEF TypeInv, ChangingSteps, UpdateCalls, DeleteCalls, LoadCalls,
                                    ClearCalls, SaveCalls
    <3>2. ~Published(w, i)
      <4>1. v \in Askers({"update"}) \cup Askers({"delete"}) \cup Askers({"simulate"})
        BY <2>1 DEF StepInv, Asked, ChangingSteps
      <4>2. v \in Askers({"simulate", "update", "delete"})
        BY <4>1 DEF Askers
      <4>3. Published(w, i) => w \in Askers({"publish"}) /\ v # w
        BY <2>1 DEF Published, Now, StepInv, Asked, ChangingSteps
      <4> QED
        BY <4>2, <4>3 DEF KeepAlone, Apart
    <3>3. IsPublished(i)' => IsPublished(i)
      BY <1>1, <1>5, <3>2, PlanSeen
    <3> QED
      BY <1>3, <2>1, <3>1, <3>3 DEF IsPublished
  <2>2. CASE v = w /\ NextCall(w)
    <3>1. PICK i \in Plans : \/ Updating(w, i) \/ Deleting(w, i) \/ Loading(w, i)
                             \/ Clearing(w, i) \/ Saving(w, i)
      BY <2>2 DEF NextCall, Finding, Publishing, ChangingSteps
    <3>2. plan' = plan /\ call'[v].plan = i
      BY <2>2, <3>1 DEF Updating, Deleting, Loading, Clearing, Saving, Begins, planVars
    <3>3. ~IsPublished(i)
      BY <1>3, <2>2, <3>1 DEF Updating, Editable, Deleting, Loading, Clearing, Saving, Now, IsPublished,
                              ChangingSteps
    <3> QED
      BY <3>2, <3>3 DEF IsPublished
  <2>3. CASE Overtaken(v, w)
    <3>1. call[v].step \in ChangingSteps /\ call'[v].plan = call[v].plan
      BY <1>1, <2>3, CallFields DEF Overtaken, Now, TypeInv, SaveCalls, ChangingSteps
    <3> QED
      BY <2>1, <3>1
  <2> QED
    BY <1>1, <1>5, <2>1, <2>2, <2>3, CallEffects
<1> QED
  BY <1>1, <1>4, <1>5

LEMMA KeptStep ==
    ASSUME StepInv, KeepInv, [Next]_vars, KeepAlone, NEW i \in Plans, plan[i].status = "published"
    PROVE  /\ plan'[i].status \in {"published", "archived"}
           /\ plan'[i].entries = plan[i].entries
           /\ metrics'[i] = metrics[i]
<1>1. /\ TypeInv /\ deployment' = deployment
      /\ Silent \/ \E w \in AnyWorker : PlanStep(w)
  BY StepCases DEF StepInv
<1> plan[i] \in PlanRows
  BY <1>1 DEF TypeInv, TypeOK
<1>2. CASE Silent
  BY <1>2 DEF Silent, planVars
<1>3. CASE \E w \in AnyWorker : PlanStep(w)
  <2>1. PICK w \in AnyWorker : PlanStep(w)
    BY <1>3
  <2>2. ~Edited(w, i) /\ ~Removed(w, i) /\ ~Stored(w, i)
    BY DEF Edited, Removed, Stored, Now, KeepInv, ChangingSteps
  <2>3. Untouched(i) \/ Archived(i) \/ Published(w, i)
    BY <1>1, <2>1, <2>2, PlanEffects DEF Created
  <2> QED
    BY <2>3 DEF Untouched, Archived, Published, Became, PlanRows
<1> QED
  BY <1>1, <1>2, <1>3

-----------------------------------------------------------------------------------
(* Executors are counted: the row of an executor is followed by an assignment, which
   only goes with the role, when every code is that of one user.  A removal holds the
   keys of the executors it read, as nobody else removes or changes them; and whoever is
   about to make the pool finds none when it does, as nobody else makes executors. *)

Assigning(w, r) == call[w].step \in AssignSteps /\ call[w].role = r
IsCounted(r) == <<r.task, CodeOf(r.user)>> \in assigned \/ \E w \in AnyWorker : Assigning(w, r)

HeldRight(w) ==
    call[w].step = "remove" => \A r \in call[w].roles : r.role = "executor" => r \in held[w]
HeldInv == RemoveAlone => \A w \in AnyWorker : HeldRight(w)

Creating(w) == call[w].step = "make" \/ (call[w].step = "bulk" /\ call[w].first)
PoolInv ==
    PoolSafe =>
        /\ pools \in {0, 1} /\ (deployment.pools = 1 => pools = 1)
        /\ \A w \in AnyWorker : Creating(w) => pools = 0

RoleInv == ExecutorsCounted /\ HeldInv /\ PoolInv

LEMMA RoleInit == Init => RoleInv
<1> SUFFICES ASSUME Init PROVE RoleInv
  OBVIOUS
<1>1. \A w \in AnyWorker : call[w].step = "idle"
  BY DEF Init, SyncInit, IdleCall
<1>2. role = {} /\ pools = deployment.pools /\ pools \in {0, 1}
  BY PoolsAssumption DEF Init, SyncInit
<1>3. ExecutorsCounted
  BY <1>2 DEF ExecutorsCounted
<1>4. HeldInv
  BY <1>1 DEF HeldInv, HeldRight
<1>5. PoolInv
  BY <1>1, <1>2 DEF PoolInv, Creating
<1> QED
  BY <1>3, <1>4, <1>5 DEF RoleInv

LEMMA DeploymentStays ==
    ASSUME deployment' = deployment
    PROVE  /\ Deaths' <=> Deaths
           /\ CodesApart' <=> CodesApart
           /\ RemoveAlone' <=> RemoveAlone
           /\ PoolSafe' <=> PoolSafe
BY DEF Deaths, CodesApart, Askers, RemovedCode, CodeOf, RemoveAlone, PoolSafe, Apart, Removals, Makers

\* A thread that is assigning does not begin anything else, and a plan's step leaves
\* the calls of the roles alone.
LEMMA AssigningStays ==
    ASSUME TypeInv, NEW w \in AnyWorker, PlanStep(w), NEW v \in AnyWorker,
           call[v].step \in AssignSteps \cup {"remove", "bulk"}
    PROVE  call'[v] = call[v]
<1> USE DEF AssignSteps
<1> call \in [AnyWorker -> Calls]
  BY DEF TypeInv
<1>1. ASSUME NEW c, Call(w, c), v # w PROVE call'[v] = call[v]
  BY <1>1 DEF Call
<1>2. CASE PlanStarts(w)
  <2>1. PICK i \in deployment.plans :
          \/ DeleteRead(w, i) \/ Archive(w, i) \/ SimulateRead(w, i) \/ PublishRead(w, i)
          \/ \E entries \in SUBSET Projects \ {{}}, rules \in deployment.rules :
               Create(w, i, entries, rules) \/ UpdateRead(w, i, entries, rules)
    BY <1>2 DEF PlanStarts
  <2>2. ASSUME NEW kind, Serves(w, kind) PROVE v # w
    <3>1. call[w].step = "idle"
      BY <2>2 DEF Serves, IdleCall
    <3> QED
      BY <3>1
  <2>3. CASE DeleteRead(w, i)
    BY <1>1, <2>2, <2>3 DEF DeleteRead
  <2>4. CASE Archive(w, i)
    BY <2>4 DEF Archive
  <2>5. CASE SimulateRead(w, i)
    BY <1>1, <2>2, <2>5 DEF SimulateRead
  <2>6. CASE PublishRead(w, i)
    BY <1>1, <2>2, <2>6 DEF PublishRead
  <2>7. ASSUME NEW entries, NEW rules, Create(w, i, entries, rules) \/ UpdateRead(w, i, entries, rules)
        PROVE  call'[v] = call[v]
    BY <1>1, <2>2, <2>7 DEF Create, UpdateRead
  <2> QED
    BY <2>1, <2>3, <2>4, <2>5, <2>6, <2>7
<1>3. CASE Update(w) \/ Delete(w) \/ SimulateClear(w) \/ SimulateRefused(w) \/ PublishFind(w) \/ Publish(w)
  <2>1. v # w /\ \E c : Call(w, c)
    BY <1>3 DEF Update, Delete, SimulateClear, SimulateRefused, PublishFind, Publish, Finish
  <2> QED
    BY <1>1, <2>1
<1>4. CASE SimulateLoad(w)
  <2>1. v # w /\ \E c : Call(w, c)
    BY <1>4 DEF SimulateLoad, Finish
  <2> QED
    BY <1>1, <2>1
<1>5. CASE SimulateSave(w)
  BY <1>5 DEF SimulateSave
<1> QED
  BY <1>2, <1>3, <1>4, <1>5 DEF PlanStep, PlanContinues

\* An executor stays counted when the roles of others go.
LEMMA CountedRemoval ==
    ASSUME CodesApart, NEW gone \in SUBSET Roles, NEW r \in Roles \ gone,
           r.role = "executor", <<r.task, CodeOf(r.user)>> \in assigned
    PROVE  <<r.task, CodeOf(r.user)>> \in Unassigned(gone)
<1> SUFFICES ASSUME NEW g \in gone, g.role = "executor",
                    <<r.task, CodeOf(r.user)>> = <<g.task, RemovedCode(g.user)>>
             PROVE  FALSE
  BY DEF Unassigned
<1>1. r.task = g.task /\ CodeOf(r.user) = RemovedCode(g.user)
  OBVIOUS
<1>2. r.user = g.user
  BY <1>1 DEF CodesApart, Roles
<1> QED
  BY <1>1, <1>2 DEF Roles

\* What a step of the roles leaves of an executor that there was, and how a new one begins.
LEMMA CountedStep ==
    ASSUME TypeInv, CodesApart, pools < 2,
           NEW w \in AnyWorker, HeldRight(w), RoleStarts(w) \/ RoleContinues(w),
           NEW r \in role', r.role = "executor", r \in role => IsCounted(r)
    PROVE  IsCounted(r)'
<1> role \subseteq Roles /\ call \in [AnyWorker -> Calls]
  BY DEF TypeInv, TypeOK
<1>1. ASSUME NEW c, Call(w, c), call[w].step \notin AssignSteps, assigned \subseteq assigned',
             r \in role \/ (c.step = "pool" /\ c.role = r)
      PROVE  IsCounted(r)'
  <2>1. call'[w] = c /\ \A v \in AnyWorker \ {w} : call'[v] = call[v]
    BY <1>1 DEF Call
  <2>2. CASE c.step = "pool" /\ c.role = r
    BY <2>1, <2>2 DEF IsCounted, Assigning, AssignSteps
  <2>3. CASE r \in role
    <3>1. ASSUME NEW v \in AnyWorker, Assigning(v, r) PROVE Assigning(v, r)'
      BY <1>1, <2>1, <3>1 DEF Assigning
    <3> QED
      BY <1>1, <2>3, <3>1 DEF IsCounted, CodeOf
  <2> QED
    BY <1>1, <2>2, <2>3
<1> IdleCall.step = "idle" /\ "idle" \notin AssignSteps /\ "remove" \notin AssignSteps /\ "bulk" \notin AssignSteps
  BY DEF IdleCall, AssignSteps
<1>2. ASSUME NEW new, Synced(w, new), call[w] = IdleCall, role' \subseteq role \cup {new}, UNCHANGED assigned
      PROVE  IsCounted(r)'
  <2>1. CASE new.role = "executor"
    <3> DEFINE c == [step |-> "pool", role |-> new]
    <3>1. Call(w, c) /\ c.step = "pool" /\ c.role = new
      BY <1>2, <2>1 DEF Synced
    <3> HIDE DEF c
    <3> QED
      BY <1>1, <1>2, <3>1
  <2>2. CASE new.role # "executor"
    BY <1>1, <1>2, <2>2 DEF Synced, Finish
  <2> QED
    BY <2>1, <2>2
<1>3. ASSUME NEW rows, Hold(w, rows), call[w] = IdleCall PROVE IsCounted(r)'
  <2> DEFINE c == [step |-> "remove", roles |-> rows]
  <2>1. Call(w, c) /\ role' = role /\ assigned' = assigned
    BY <1>3 DEF Hold
  <2> HIDE DEF c
  <2> QED
    BY <1>1, <1>3, <2>1
<1>4. CASE Remove(w)
  <2>1. call[w] \in RemoveCalls
    BY <1>4, CallFields DEF Remove
  <2>2. r \in role /\ r \notin held[w]
    BY <1>4 DEF Remove
  <2>3. r \in Roles \ call[w].roles /\ call[w].roles \in SUBSET Roles
    BY <1>4, <2>1, <2>2 DEF HeldRight, Remove, RemoveCalls
  <2>4. \A v \in AnyWorker \ {w} : call'[v] = call[v]
    BY <1>4 DEF Remove, Finish, Call
  <2>5. ASSUME NEW v \in AnyWorker, Assigning(v, r) PROVE Assigning(v, r)'
    BY <1>4, <2>4, <2>5 DEF Assigning, Remove
  <2>6. CASE <<r.task, CodeOf(r.user)>> \in assigned
    BY <1>4, <2>3, <2>6, CountedRemoval DEF Remove, IsCounted, CodeOf
  <2> QED
    BY <2>2, <2>5, <2>6 DEF IsCounted
<1>5. ASSUME NEW tasks, NEW u, BulkFind(w, tasks, u)
      PROVE  IsCounted(r)'
  <2> DEFINE c == [step |-> "bulk", tasks |-> tasks, user |-> u, first |-> pools = 0]
  <2>1. Call(w, c) /\ role' = role /\ assigned' = assigned /\ call[w] = IdleCall
    BY <1>5 DEF BulkFind, rolesVars, Serves
  <2> HIDE DEF c
  <2> QED
    BY <1>1, <2>1
<1>6. CASE BulkExecutor(w)
  <2> DEFINE u == call[w].user
             new == Missing(call[w].tasks, u)
  <2>1. /\ role' = role \cup new /\ assigned' = assigned \cup {<<x.task, CodeOf(u)>> : x \in new}
        /\ Call(w, IdleCall) /\ call[w].step = "bulk"
    BY <1>6 DEF BulkExecutor, Finish
  <2>2. CASE r \in role
    BY <1>1, <2>1, <2>2
  <2>3. CASE r \notin role
    <3>1. r \in new
      BY <2>1, <2>3
    <3>2. r.user = u
      BY <3>1 DEF Missing, Executor
    <3> HIDE DEF new
    <3>3. <<r.task, CodeOf(u)>> \in {<<x.task, CodeOf(u)>> : x \in new}
      BY <3>1
    <3> QED
      BY <2>1, <3>2, <3>3 DEF IsCounted, CodeOf
  <2> QED
    BY <2>2, <2>3
<1>7. ASSUME NEW tasks \in SUBSET Projects, NEW u \in Users, NEW replace \in BOOLEAN,
             BulkReviewer(w, tasks, u, replace)
      PROVE  IsCounted(r)'
  <2>1. r \in role
    <3>1. r \notin {Reviewer(p, u) : p \in tasks}
      BY DEF Reviewer
    <3>2. role' \subseteq role \cup {Reviewer(p, u) : p \in tasks}
      BY <1>7 DEF BulkReviewer
    <3> QED
      BY <3>1, <3>2
  <2> QED
    BY <1>7, <2>1 DEF BulkReviewer, IsCounted, Assigning, CodeOf
<1>8. CASE RoleStarts(w)
  <2>1. ASSUME NEW new \in Roles, AddRole(w, new) PROVE IsCounted(r)'
    BY <1>2, <2>1 DEF AddRole, Serves
  <2>2. ASSUME NEW old \in role, NEW new, ChangeRole(w, old, new) PROVE IsCounted(r)'
    BY <1>2, <2>2 DEF ChangeRole, Serves
  <2>3. ASSUME NEW old \in Roles, RemoveRole(w, old) PROVE IsCounted(r)'
    BY <1>3, <2>3 DEF RemoveRole, Serves
  <2>4. ASSUME NEW p \in Projects, RemoveTask(w, p) PROVE IsCounted(r)'
    BY <1>3, <2>4 DEF RemoveTask, Serves
  <2> QED
    BY <1>5, <1>7, <1>8, <2>1, <2>2, <2>3, <2>4 DEF RoleStarts
<1>9. ASSUME call[w].step \in AssignSteps, NEW after \in AssignSteps,
             Call(w, [call[w] EXCEPT !.step = after]), UNCHANGED <<role, assigned>>
      PROVE  IsCounted(r)'
  <2> DEFINE c == [call[w] EXCEPT !.step = after]
  <2>1. call[w] \in RoleCalls
    BY <1>9, CallFields
  <2>2. c.step \in AssignSteps /\ c.role = call[w].role
    BY <2>1 DEF RoleCalls
  <2>3. call'[w] = c /\ \A v \in AnyWorker \ {w} : call'[v] = call[v]
    BY <1>9 DEF Call
  <2> HIDE DEF c
  <2>4. ASSUME NEW v \in AnyWorker, Assigning(v, r) PROVE Assigning(v, r)'
    BY <2>2, <2>3, <2>4 DEF Assigning
  <2> QED
    BY <1>9, <2>4 DEF IsCounted, CodeOf
<1>10. CASE PoolFind(w)
  <2> DEFINE after == IF pools = 0 THEN "make" ELSE "resource"
  <2>1. after \in AssignSteps /\ call[w].step \in AssignSteps
    BY <1>10 DEF PoolFind, AssignSteps
  <2>2. ~(pools > 1)
    BY DEF TypeInv, TypeOK
  <2>3. Call(w, [call[w] EXCEPT !.step = after]) /\ UNCHANGED <<role, assigned>>
    BY <1>10, <2>2 DEF PoolFind, rolesVars
  <2> HIDE DEF after
  <2> QED
    BY <1>9, <2>1, <2>3
<1>11. CASE PoolCreate(w)
  BY <1>9, <1>11 DEF PoolCreate, AssignSteps
<1>12. CASE EnsureResource(w)
  BY <1>9, <1>12 DEF EnsureResource, AssignSteps
<1>13. CASE Assign(w)
  <2>1. \A v \in AnyWorker \ {w} : call'[v] = call[v]
    BY <1>13 DEF Assign, Finish, Call
  <2>2. CASE Assigning(w, r)
    BY <1>13, <2>2 DEF Assign, Assigning, IsCounted, CodeOf
  <2>3. CASE ~Assigning(w, r)
    <3>1. ASSUME NEW v \in AnyWorker, Assigning(v, r) PROVE Assigning(v, r)'
      BY <2>1, <2>3, <3>1 DEF Assigning
    <3> QED
      BY <1>13, <3>1 DEF Assign, IsCounted, CodeOf
  <2> QED
    BY <2>2, <2>3
<1> QED
  BY <1>4, <1>6, <1>8, <1>10, <1>11, <1>12, <1>13 DEF RoleContinues

\* Which step of the roles does what to the pools and to the keys that are held.
PoolsGrow(w) == Creating(w) /\ pools' = pools + 1

LEMMA PoolStep ==
    ASSUME TypeInv, NEW w \in AnyWorker, RoleStarts(w) \/ RoleContinues(w), NEW v \in AnyWorker
    PROVE  /\ pools' = pools \/ PoolsGrow(w)
           /\ call'[v] = call[v] \/ v = w
           /\ Creating(v)' => IF v = w THEN pools = 0 /\ pools' = pools /\ (RoleAsker(w) \/ w \in Askers({"bulk executor"}) \/ call[w].step \in AssignSteps)
                                       ELSE Creating(v)
<1> call \in [AnyWorker -> Calls]
  BY DEF TypeInv
<1>1. ASSUME NEW c, Call(w, c) PROVE call'[w] = c /\ \A u \in AnyWorker \ {w} : call'[u] = call[u]
  BY <1>1 DEF Call
<1> USE DEF Creating, PoolsGrow, AssignSteps
<1> IdleCall.step = "idle"
  BY DEF IdleCall
<1> DEFINE Goal == /\ pools' = pools \/ PoolsGrow(w)
                   /\ call'[v] = call[v] \/ v = w
                   /\ Creating(v)' => IF v = w THEN pools = 0 /\ pools' = pools /\ (RoleAsker(w) \/ w \in Askers({"bulk executor"}) \/ call[w].step \in AssignSteps)
                                       ELSE Creating(v)
<1>2. ASSUME NEW c, Call(w, c), c.step \notin {"make", "bulk"}, pools' = pools \/ PoolsGrow(w) PROVE Goal
  BY <1>1, <1>2
<1>3. ASSUME NEW new, Synced(w, new), pools' = pools PROVE Goal
  <2>1. CASE new.role = "executor"
    <3> DEFINE c == [step |-> "pool", role |-> new]
    <3>1. Call(w, c) /\ c.step = "pool"
      BY <1>3, <2>1 DEF Synced
    <3> HIDE DEF c
    <3> QED
      BY <1>2, <1>3, <3>1
  <2>2. CASE new.role # "executor"
    BY <1>2, <1>3, <2>2 DEF Synced, Finish
  <2> QED
    BY <2>1, <2>2
<1>4. ASSUME NEW rows, Hold(w, rows) PROVE Goal
  <2> DEFINE c == [step |-> "remove", roles |-> rows]
  <2>1. Call(w, c) /\ c.step = "remove" /\ pools' = pools
    BY <1>4 DEF Hold
  <2> HIDE DEF c
  <2> QED
    BY <1>2, <2>1
<1>5. ASSUME NEW tasks, NEW u, BulkFind(w, tasks, u) PROVE Goal
  <2> DEFINE c == [step |-> "bulk", tasks |-> tasks, user |-> u, first |-> pools = 0]
  <2>1. Call(w, c) /\ c.step = "bulk" /\ c.first = (pools = 0) /\ pools' = pools /\ w \in Askers({"bulk executor"})
    BY <1>5 DEF BulkFind, rolesVars, Serves
  <2> HIDE DEF c
  <2> QED
    BY <1>1, <2>1
<1>6. ASSUME NEW tasks, NEW u, NEW replace, BulkReviewer(w, tasks, u, replace) PROVE Goal
  <2>1. call' = call /\ pools' = pools /\ call[w] = IdleCall
    BY <1>6 DEF BulkReviewer, Serves
  <2> QED
    BY <2>1
<1>7. CASE RoleStarts(w)
  <2>1. ASSUME NEW new, AddRole(w, new) \/ \E old : ChangeRole(w, old, new) PROVE Goal
    BY <1>3, <2>1 DEF AddRole, ChangeRole
  <2>2. ASSUME NEW old, RemoveRole(w, old) PROVE Goal
    BY <1>4, <2>2 DEF RemoveRole
  <2>3. ASSUME NEW p, RemoveTask(w, p) PROVE Goal
    BY <1>4, <2>3 DEF RemoveTask
  <2> QED
    BY <1>5, <1>6, <1>7, <2>1, <2>2, <2>3 DEF RoleStarts
<1>8. CASE PoolFind(w) /\ pools > 1
  BY <1>2, <1>8 DEF PoolFind, Finish, rolesVars
<1>9. CASE PoolFind(w) /\ ~(pools > 1)
  <2>1. call[w] \in RoleCalls
    BY <1>9, CallFields DEF PoolFind
  <2> DEFINE c == [call[w] EXCEPT !.step = IF pools = 0 THEN "make" ELSE "resource"]
  <2>2. c.step = IF pools = 0 THEN "make" ELSE "resource"
    BY <2>1 DEF RoleCalls
  <2>3. Call(w, c) /\ pools' = pools /\ call[w].step = "pool"
    BY <1>9 DEF PoolFind, rolesVars
  <2> HIDE DEF c
  <2> QED
    BY <1>1, <2>2, <2>3
<1>10. CASE PoolCreate(w)
  <2>1. call[w] \in RoleCalls
    BY <1>10, CallFields DEF PoolCreate
  <2> DEFINE c == [call[w] EXCEPT !.step = "resource"]
  <2>2. c.step = "resource"
    BY <2>1 DEF RoleCalls
  <2>3. Call(w, c) /\ PoolsGrow(w)
    BY <1>10 DEF PoolCreate
  <2> HIDE DEF c
  <2> QED
    BY <1>2, <2>2, <2>3
<1>11. CASE EnsureResource(w)
  <2>1. call[w] \in RoleCalls
    BY <1>11, CallFields DEF EnsureResource
  <2> DEFINE c == [call[w] EXCEPT !.step = "assign"]
  <2>2. c.step = "assign"
    BY <2>1 DEF RoleCalls
  <2>3. Call(w, c) /\ pools' = pools
    BY <1>11 DEF EnsureResource
  <2> HIDE DEF c
  <2> QED
    BY <1>2, <2>2, <2>3
<1>12. CASE Assign(w) \/ Remove(w)
  BY <1>2, <1>12 DEF Assign, Remove, Finish
<1>13. CASE BulkExecutor(w)
  BY <1>2, <1>13 DEF BulkExecutor, Finish
<1> QED
  BY <1>7, <1>8, <1>9, <1>10, <1>11, <1>12, <1>13 DEF RoleContinues

\* What a thread makes is its own to make.
LEMMA CreatingMakes ==
    ASSUME StepInv, NEW w \in AnyWorker,
           Creating(w) \/ RoleAsker(w) \/ w \in Askers({"bulk executor"}) \/ call[w].step \in AssignSteps
    PROVE  w \in Askers(Makers)
BY DEF StepInv, Asked, Creating, AssignSteps, RoleAsker, Askers, Makers

LEMMA PoolNext ==
    ASSUME StepInv, PoolInv, [Next]_vars
    PROVE  PoolInv' /\ pools <= pools'
<1>1. /\ TypeInv /\ deployment' = deployment
      /\ Silent \/ \E w \in AnyWorker : PlanStep(w)
  BY StepCases DEF StepInv
<1>2. pools \in Nat /\ call \in [AnyWorker -> Calls]
  BY <1>1 DEF TypeInv, TypeOK
<1>3. PoolSafe' <=> PoolSafe
  BY <1>1, DeploymentStays
<1> IdleCall.step = "idle"
  BY DEF IdleCall
<1>4. ASSUME UNCHANGED pools, \A v \in AnyWorker : Creating(v)' => Creating(v)
      PROVE  PoolInv' /\ pools <= pools'
  BY <1>1, <1>2, <1>3, <1>4 DEF PoolInv
<1>5. CASE UNCHANGED vars
  BY <1>4, <1>5 DEF vars, rolesVars, Creating
<1>6. ASSUME NEW w \in AnyWorker, PlanStep(w) PROVE PoolInv' /\ pools <= pools'
  <2>1. ASSUME NEW v \in AnyWorker, Creating(v)' PROVE Creating(v)
    <3>1. CASE call'[v] = call[v]
      BY <2>1, <3>1 DEF Creating
    <3>2. CASE NextCall(w) /\ v = w
      BY <2>1, <3>2, NextSteps DEF Creating, PlanSteps
    <3>3. CASE Overtaken(v, w)
      <4>1. call'[v].step = "save"
        BY <1>1, <3>3, CallFields DEF Overtaken, Now, TypeInv, SaveCalls
      <4> QED
        BY <2>1, <4>1 DEF Creating
    <3> QED
      BY <1>1, <1>6, <2>1, <3>1, <3>2, <3>3, CallEffects DEF Creating
  <2> QED
    BY <1>4, <1>6, <2>1 DEF PlanStep, rolesVars
<1>7. ASSUME NEW w \in AnyWorker, Die(w) PROVE PoolInv' /\ pools <= pools'
  <2>1. ASSUME NEW v \in AnyWorker, Creating(v)' PROVE Creating(v)
    BY <1>2, <1>7, <2>1 DEF Die, Finish, Call, Creating
  <2> QED
    BY <1>4, <1>7, <2>1 DEF Die
<1>8. ASSUME NEW w \in AnyWorker, RoleStarts(w) \/ RoleContinues(w) PROVE PoolInv' /\ pools <= pools'
  <2> HIDE DEF Creating
  <2>1. pools' = pools \/ PoolsGrow(w)
    BY <1>1, <1>8, PoolStep
  <2>2. ASSUME NEW v \in AnyWorker, Creating(v)'
        PROVE  /\ v = w => pools = 0 /\ pools' = pools /\ w \in Askers(Makers)
               /\ v # w => Creating(v)
    BY <1>1, <1>8, <2>2, PoolStep, CreatingMakes
  <2>3. CASE pools' = pools
    BY <1>1, <1>2, <1>3, <2>2, <2>3 DEF PoolInv
  <2>4. CASE PoolsGrow(w)
    <3> SUFFICES ASSUME PoolSafe PROVE PoolInv'
      BY <1>2, <1>3, <2>4 DEF PoolInv, PoolsGrow
    <3>1. pools = 0 /\ pools' = 1 /\ deployment.pools # 1
      BY <2>4 DEF PoolsGrow, PoolInv
    <3>2. ASSUME NEW v \in AnyWorker, Creating(v)' PROVE FALSE
      <4>1. v # w /\ Creating(v)
        BY <2>2, <3>1, <3>2
      <4>2. v \in Askers(Makers) /\ w \in Askers(Makers)
        BY <2>4, <4>1, CreatingMakes DEF PoolsGrow
      <4> QED
        BY <3>1, <4>1, <4>2 DEF PoolSafe, Apart
    <3> QED
      BY <1>1, <3>1, <3>2 DEF PoolInv
  <2> QED
    BY <2>1, <2>3, <2>4
<1> QED
  BY <1>5, <1>6, <1>7, <1>8 DEF Next, PlanStep

\* Nobody else takes from an executor that a removal holds.
LEMMA HeldNext ==
    ASSUME StepInv, HeldInv, [Next]_vars
    PROVE  HeldInv'
<1>1. TypeInv /\ TypeInv' /\ deployment' = deployment
  BY StepCases DEF StepInv
<1>2. RemoveAlone' <=> RemoveAlone
  BY <1>1, DeploymentStays
<1> SUFFICES ASSUME RemoveAlone, NEW v \in AnyWorker, call'[v].step = "remove",
                    NEW r \in call'[v].roles, r.role = "executor"
             PROVE  r \in held'[v]
  BY <1>2 DEF HeldInv, HeldRight
<1> call \in [AnyWorker -> Calls] /\ held \in [AnyWorker -> SUBSET Roles] /\ IdleCall.step = "idle"
  BY <1>1 DEF TypeInv, TypeOK, IdleCall
<1>3. call[v].step = "remove" => v \in Askers(Removals) /\ \A x \in call[v].roles : x.role = "executor" => x \in held[v]
  BY DEF StepInv, Asked, HeldInv, HeldRight
<1>4. ASSUME call'[v] = call[v], held'[v] = held[v] PROVE r \in held'[v]
  BY <1>3, <1>4
<1>5. ASSUME NEW w \in AnyWorker, NEW c, Call(w, c), v # w PROVE call'[v] = call[v]
  BY <1>5 DEF Call
<1>6. ASSUME NEW w \in AnyWorker, NEW c, Call(w, c), v = w PROVE call'[v] = c
  BY <1>6 DEF Call
<1>7. CASE UNCHANGED vars
  BY <1>4, <1>7 DEF vars, rolesVars
<1>8. ASSUME NEW w \in AnyWorker, Die(w) PROVE r \in held'[v]
  <2>1. v # w
    BY <1>6, <1>8 DEF Die, Finish
  <2> QED
    BY <1>4, <1>5, <1>8, <2>1 DEF Die, Finish
<1>9. ASSUME NEW w \in AnyWorker, PlanStep(w) PROVE r \in held'[v]
  <2>1. call'[v] = call[v]
    <3>1. ~(v = w /\ NextCall(w))
      BY NextSteps DEF PlanSteps
    <3>2. ~Overtaken(v, w)
      <4> SUFFICES ASSUME Overtaken(v, w) PROVE FALSE
        OBVIOUS
      <4>1. call'[v].step = "save"
        BY <1>1, CallFields DEF Overtaken, Now, TypeInv, SaveCalls
      <4> QED
        BY <4>1
    <3> QED
      BY <1>1, <1>9, <3>1, <3>2, CallEffects
  <2> QED
    BY <1>4, <1>9, <2>1 DEF PlanStep, rolesVars
<1>10. ASSUME NEW w \in AnyWorker, RoleStarts(w) \/ RoleContinues(w) PROVE r \in held'[v]
  <2>1. ASSUME NEW new, Synced(w, new) PROVE call'[v] = call[v] /\ v # w
    <3>1. \E c : Call(w, c) /\ c.step # "remove"
      <4>1. CASE new.role = "executor"
        <5> DEFINE c == [step |-> "pool", role |-> new]
        <5>1. Call(w, c) /\ c.step # "remove"
          BY <2>1, <4>1 DEF Synced
        <5> HIDE DEF c
        <5> QED
          BY <5>1
      <4>2. CASE new.role # "executor"
        BY <2>1, <4>2 DEF Synced, Finish
      <4> QED
        BY <4>1, <4>2
    <3> QED
      BY <1>5, <1>6, <3>1
  <2>2. ASSUME NEW new, AddRole(w, new) PROVE r \in held'[v]
    BY <1>4, <2>1, <2>2 DEF AddRole
  <2>3. ASSUME NEW old, NEW new, ChangeRole(w, old, new) PROVE r \in held'[v]
    <3>1. call'[v] = call[v] /\ v # w
      BY <2>1, <2>3 DEF ChangeRole
    <3>2. v \in Askers(Removals) /\ w \in Askers(Removals \cup {"change role"})
      BY <1>3, <2>3, <3>1 DEF ChangeRole, Serves, Askers
    <3> QED
      BY <3>1, <3>2 DEF RemoveAlone, Apart
  <2>4. ASSUME NEW rows, Hold(w, rows) PROVE r \in held'[v]
    <3>1. CASE v = w
      <4>1. call'[v].roles = rows
        BY <1>6, <2>4, <3>1 DEF Hold
      <4> QED
        BY <2>4, <3>1, <4>1 DEF Hold
    <3>2. CASE v # w
      BY <1>4, <1>5, <2>4, <3>2 DEF Hold
    <3> QED
      BY <3>1, <3>2
  <2>5. ASSUME NEW tasks, NEW u, BulkFind(w, tasks, u) PROVE r \in held'[v]
    <3> DEFINE c == [step |-> "bulk", tasks |-> tasks, user |-> u, first |-> pools = 0]
    <3>1. Call(w, c) /\ c.step = "bulk" /\ held' = held
      BY <2>5 DEF BulkFind, rolesVars
    <3> HIDE DEF c
    <3> QED
      BY <1>4, <1>5, <1>6, <3>1
  <2>6. ASSUME NEW tasks, NEW u, NEW replace, BulkReviewer(w, tasks, u, replace) PROVE r \in held'[v]
    <3> DEFINE old == {x \in role : replace /\ x.task \in tasks /\ x.role = "reviewer" /\ x.user # u}
    <3>1. r \notin old /\ held'[v] = held[v] \ old /\ call'[v] = call[v]
      BY <2>6 DEF BulkReviewer, Released
    <3> HIDE DEF old
    <3> QED
      BY <1>3, <3>1
  <2>7. CASE RoleStarts(w)
    BY <2>2, <2>3, <2>4, <2>5, <2>6, <2>7 DEF RoleStarts, RemoveRole, RemoveTask
  <2>8. ASSUME Remove(w) PROVE r \in held'[v]
    <3>1. v # w /\ call'[v] = call[v]
      BY <1>5, <1>6, <2>8 DEF Remove, Finish
    <3>2. v \in Askers(Removals) /\ w \in Askers(Removals \cup {"change role"})
      BY <1>3, <2>8, <3>1 DEF StepInv, Asked, Remove, Askers
    <3> QED
      BY <3>1, <3>2 DEF RemoveAlone, Apart
  <2>9. ASSUME NEW after, after # "remove", call[w].step \in AssignSteps, Call(w, [call[w] EXCEPT !.step = after])
        PROVE  v # w /\ call'[v] = call[v]
    <3>1. call[w] \in RoleCalls
      BY <2>9, CallFields
    <3>2. [call[w] EXCEPT !.step = after].step = after
      BY <3>1 DEF RoleCalls
    <3> QED
      BY <1>5, <1>6, <2>9, <3>2
  <2>10. CASE PoolFind(w)
    <3>1. held' = held
      BY <2>10 DEF PoolFind, rolesVars
    <3>2. CASE pools > 1
      BY <1>4, <1>5, <1>6, <2>10, <3>1, <3>2 DEF PoolFind, Finish
    <3>3. CASE ~(pools > 1)
      <4> DEFINE after == IF pools = 0 THEN "make" ELSE "resource"
      <4>1. after # "remove" /\ call[w].step \in AssignSteps /\ Call(w, [call[w] EXCEPT !.step = after])
        BY <2>10, <3>3 DEF PoolFind, AssignSteps
      <4> HIDE DEF after
      <4> QED
        BY <1>4, <2>9, <3>1, <4>1
    <3> QED
      BY <3>2, <3>3
  <2>11. CASE PoolCreate(w)
    BY <1>4, <2>9, <2>11 DEF PoolCreate, AssignSteps
  <2>12. CASE EnsureResource(w)
    BY <1>4, <2>9, <2>12 DEF EnsureResource, AssignSteps
  <2>13. CASE Assign(w) \/ BulkExecutor(w)
    BY <1>4, <1>5, <1>6, <2>13 DEF Assign, BulkExecutor, Finish
  <2> QED
    BY <1>10, <2>7, <2>8, <2>10, <2>11, <2>12, <2>13 DEF RoleContinues
<1> QED
  BY <1>7, <1>8, <1>9, <1>10 DEF Next, PlanStep

LEMMA CountedNext ==
    ASSUME StepInv, RoleInv, [Next]_vars
    PROVE  ExecutorsCounted'
<1> USE DEF IsCounted, Assigning, AssignSteps
<1>1. TypeInv /\ deployment' = deployment /\ PoolInv' /\ pools <= pools'
  BY StepCases, PoolNext DEF StepInv, RoleInv
<1>2. (Deaths' <=> Deaths) /\ (CodesApart' <=> CodesApart) /\ (RemoveAlone' <=> RemoveAlone)
  BY <1>1, DeploymentStays
<1>3. PoolSafe' => pools' < 2
  BY <1>1 DEF PoolInv
<1> SUFFICES ASSUME ~Deaths, CodesApart, RemoveAlone, pools' < 2, NEW r \in role', r.role = "executor"
             PROVE  IsCounted(r)'
  BY <1>2, <1>3 DEF ExecutorsCounted
<1>4. pools < 2
  <2>1. pools \in Nat /\ pools' \in Nat
    BY <1>1, StepCases DEF TypeInv, TypeOK
  <2> QED
    BY <1>1, <2>1
<1>5. r \in role => IsCounted(r)
  BY <1>4 DEF RoleInv, ExecutorsCounted
<1> HIDE DEF IsCounted, Assigning, AssignSteps
<1>6. CASE UNCHANGED vars
  BY <1>5, <1>6 DEF vars, rolesVars, IsCounted, Assigning, CodeOf
<1>7. CASE Next
  <2>1. PICK w \in AnyWorker :
          \/ (RoleStarts(w) \/ RoleContinues(w)) /\ UNCHANGED planVars
          \/ (PlanStarts(w) \/ PlanContinues(w)) /\ UNCHANGED rolesVars
          \/ Die(w)
    BY <1>7 DEF Next
  <2>2. ~Die(w)
    BY DEF Die, Deaths
  <2>3. CASE RoleStarts(w) \/ RoleContinues(w)
    <3>1. HeldRight(w)
      BY DEF RoleInv, HeldInv
    <3> QED
      BY <1>1, <1>4, <1>5, <2>3, <3>1, CountedStep
  <2>4. CASE PlanStep(w)
    <3>1. ASSUME NEW v \in AnyWorker, Assigning(v, r) PROVE Assigning(v, r)'
      BY <1>1, <2>4, <3>1, AssigningStays DEF Assigning
    <3> QED
      BY <1>5, <2>4, <3>1 DEF PlanStep, rolesVars, IsCounted, CodeOf
  <2> QED
    BY <2>1, <2>2, <2>3, <2>4 DEF PlanStep
<1> QED
  BY <1>6, <1>7

LEMMA RoleNext ==
    ASSUME StepInv, RoleInv, [Next]_vars
    PROVE  RoleInv'
BY CountedNext, HeldNext, PoolNext DEF RoleInv

\* ExecutorsCounted: every executor of a task has the assignment that leveling reads, or
\* a request that is still making it, whatever roles came and went, as long as there are
\* not two pools, unless a process dies between the two, a removal deletes what was removed
\* or changed meanwhile, or a removal can name the code of another user; and there are not
\* two pools if the pool was there or one thread makes all executors.
THEOREM ExecutorsAreCounted == Spec => []ExecutorsCounted
<1>1. StepInv /\ RoleInv /\ [Next]_vars => StepInv' /\ RoleInv'
  BY StepNext, RoleNext
<1>2. RoleInv => ExecutorsCounted
  BY DEF RoleInv
<1> QED
  BY <1>1, <1>2, StepInit, RoleInit, PTL DEF Spec

-----------------------------------------------------------------------------------
(* Executors are leveled: roles do not change while a calculation is under way, and no
   other calculation is. *)

LevelAlone ==
    Apart({"simulate"}, {"simulate", "role", "change role", "bulk executor", "remove role", "remove task"})

Counts(rows) ==
    \A r \in role, m \in rows : r.role = "executor" /\ r.task = m.project => r.user \in m.counted

CountsInv ==
    ~Deaths /\ CodesApart /\ LevelAlone =>
        \A w \in AnyWorker :
            /\ call[w].step \in {"clear", "save"} => Counts(call[w].rows)
            /\ call[w].step = "save" => call[w].whole

LEMMA CountsInit == Init => CountsInv
BY DEF Init, SyncInit, IdleCall, CountsInv

\* A step that makes an executor is a request for one.
LEMMA RolesGrow ==
    ASSUME NEW w \in AnyWorker, RoleStarts(w) \/ RoleContinues(w), NEW r \in role' \ role,
           r.role = "executor"
    PROVE  Serves(w, "role") \/ Serves(w, "change role") \/ call[w].step = "bulk"
<1>1. CASE RoleContinues(w)
  BY <1>1 DEF RoleContinues, PoolFind, PoolCreate, EnsureResource, Assign, Remove, BulkExecutor, rolesVars
<1>2. CASE RoleStarts(w)
  <2>1. ASSUME NEW new, AddRole(w, new) PROVE Serves(w, "role")
    BY <2>1 DEF AddRole
  <2>2. ASSUME NEW old, NEW new, ChangeRole(w, old, new) PROVE Serves(w, "change role")
    BY <2>2 DEF ChangeRole
  <2>3. ASSUME NEW old, RemoveRole(w, old) PROVE FALSE
    BY <2>3 DEF RemoveRole, Hold
  <2>4. ASSUME NEW p, RemoveTask(w, p) PROVE FALSE
    BY <2>4 DEF RemoveTask, Hold
  <2>5. ASSUME NEW tasks, NEW u, BulkFind(w, tasks, u) PROVE FALSE
    BY <2>5 DEF BulkFind, rolesVars
  <2>6. ASSUME NEW tasks, NEW u, NEW replace, BulkReviewer(w, tasks, u, replace) PROVE FALSE
    <3>1. r \notin {Reviewer(p, u) : p \in tasks}
      BY DEF Reviewer
    <3>2. role' \subseteq role \cup {Reviewer(p, u) : p \in tasks}
      BY <2>6 DEF BulkReviewer
    <3> QED
      BY <3>1, <3>2
  <2> QED
    BY <1>2, <2>1, <2>2, <2>3, <2>4, <2>5, <2>6 DEF RoleStarts
<1> QED
  BY <1>1, <1>2

LEMMA CountsNext ==
    ASSUME StepInv, RoleInv, CountsInv, [Next]_vars
    PROVE  CountsInv'
<1>1. /\ TypeInv /\ TypeInv' /\ deployment' = deployment
      /\ Silent \/ \E w \in AnyWorker : PlanStep(w)
  BY StepCases DEF StepInv
<1>2. (Deaths' <=> Deaths) /\ (CodesApart' <=> CodesApart) /\ (LevelAlone' <=> LevelAlone)
  BY <1>1 DEF Deaths, CodesApart, Askers, RemovedCode, CodeOf, LevelAlone, Apart
<1> SUFFICES ASSUME ~Deaths, CodesApart, LevelAlone, NEW v \in AnyWorker
             PROVE  /\ call'[v].step \in {"clear", "save"} =>
                         \A r \in role', m \in call'[v].rows :
                            r.role = "executor" /\ r.task = m.project => r.user \in m.counted
                    /\ call'[v].step = "save" => call'[v].whole
  BY <1>2 DEF CountsInv, Counts
<1>3. /\ call[v].step \in {"clear", "save"} => Counts(call[v].rows)
      /\ call[v].step = "save" => call[v].whole
  BY DEF CountsInv
<1> IdleCall.step = "idle"
  BY DEF IdleCall
<1>4. ASSUME call[v].step \in {"load", "clear", "save"}
      PROVE  /\ v \in Askers({"simulate"})
             /\ \A w \in Askers({"simulate", "role", "change role", "bulk executor", "remove role",
                                 "remove task"}) : v = w
  BY <1>4 DEF StepInv, Asked, LevelAlone, Apart
<1>12. ASSUME v \in Askers({"simulate"}) PROVE RemoveAlone /\ pools < 2
  <2>1. ASSUME NEW w \in Askers(Makers) \cup Askers(Removals \cup {"change role"}) PROVE w = v
    <3>1. w \in Askers({"simulate", "role", "change role", "bulk executor", "remove role", "remove task"})
      BY <2>1 DEF Askers, Makers, Removals
    <3> QED
      BY <1>12, <3>1 DEF LevelAlone, Apart
  <2>2. PoolSafe
    BY <2>1 DEF PoolSafe, Apart
  <2>3. RemoveAlone
    BY <2>1 DEF RemoveAlone, Apart, Askers
  <2> QED
    BY <2>2, <2>3 DEF RoleInv, ExecutorsCounted
<1>5. ASSUME call[v].step \in {"clear", "save"}, NEW r \in role' \ role PROVE r.role # "executor"
  <2>1. PICK w \in AnyWorker : RoleStarts(w) \/ RoleContinues(w)
    BY <1>5 DEF Next, vars, rolesVars, Die
  <2> SUFFICES ASSUME r.role = "executor" PROVE FALSE
    OBVIOUS
  <2>2. Serves(w, "role") \/ Serves(w, "change role") \/ call[w].step = "bulk"
    BY <1>5, <2>1, RolesGrow
  <2>3. v = w
    <3>1. call[w].step = "bulk" => w \in Askers({"bulk executor"})
      BY DEF StepInv, Asked
    <3> QED
      BY <1>4, <1>5, <2>2, <3>1 DEF Serves, Askers
  <2> QED
    BY <1>5, <2>2, <2>3 DEF Serves
<1>6. ASSUME call[v].step \in {"clear", "save"}, NEW r \in role', NEW m \in call[v].rows,
             r.role = "executor", r.task = m.project
      PROVE  r.user \in m.counted
  BY <1>3, <1>5, <1>6 DEF Counts
<1>7. CASE call'[v] = call[v]
  BY <1>3, <1>6, <1>7
<1>8. CASE call'[v].step \notin {"clear", "save"}
  BY <1>8
<1>9. CASE Silent
  <2>1. call'[v] = call[v] \/ call'[v].step \notin {"clear", "save"}
    BY <1>1, <1>9 DEF Silent, Call, RowCalls, RoleCalls, AssignSteps, RemoveCalls, BulkCalls, TypeInv
  <2> QED
    BY <1>7, <1>8, <2>1
<1>10. ASSUME NEW w \in AnyWorker, PlanStep(w)
       PROVE  call'[v] = call[v] \/ call'[v].step \notin {"clear", "save"} \/ (v = w /\ NextCall(w))
  <2>1. ~(v # w /\ Overtaken(v, w))
    <3> SUFFICES ASSUME v # w, Overtaken(v, w) PROVE FALSE
      OBVIOUS
    <3>1. call[v].step = "save" /\ call[w].step = "save"
      BY DEF Overtaken, Now, SimulateSave
    <3>2. w \in Askers({"simulate"})
      BY <3>1 DEF StepInv, Asked
    <3> QED
      BY <1>4, <3>1, <3>2 DEF Askers
  <2> QED
    BY <1>1, <1>10, <2>1, CallEffects
<1>11. ASSUME PlanStep(v), NextCall(v), call'[v].step \in {"clear", "save"}
       PROVE  /\ \A r \in role', m \in call'[v].rows :
                    r.role = "executor" /\ r.task = m.project => r.user \in m.counted
              /\ call'[v].step = "save" => call'[v].whole
  <2>1. role' = role
    BY <1>11 DEF PlanStep, rolesVars
  <2>2. PICK i \in Plans : Clearing(v, i) \/ Saving(v, i)
    BY <1>11 DEF NextCall, Updating, Deleting, Loading, Finding, Publishing
  <2>3. CASE Clearing(v, i)
    <3>1. call[v].step = "load" /\ call'[v].rows = LeveledRows(i, call[v].rules) /\ call'[v].step = "clear"
      BY <2>3 DEF Clearing, Now
    <3>2. ASSUME NEW w \in AnyWorker PROVE call[w].step \notin AssignSteps
      <4> SUFFICES ASSUME call[w].step \in AssignSteps PROVE FALSE
        OBVIOUS
      <4>1. RoleAsker(w)
        BY DEF StepInv, Asked
      <4>2. v = w
        BY <1>4, <3>1, <4>1 DEF RoleAsker, Askers
      <4> QED
        BY <3>1, <4>2 DEF AssignSteps
    <3>3. ASSUME NEW r \in role, r.role = "executor" PROVE <<r.task, r.user>> \in assigned /\ r.user \in Users
      <4>1. RemoveAlone /\ pools < 2
        BY <1>4, <1>12, <3>1
      <4> QED
        BY <1>1, <3>2, <3>3, <4>1 DEF RoleInv, ExecutorsCounted, CodeOf, TypeInv, TypeOK, Roles, AssignSteps
    <3>4. ASSUME NEW m \in LeveledRows(i, call[v].rules)
          PROVE  m.counted = {u \in Users : <<m.project, u>> \in assigned}
      BY <3>4 DEF LeveledRows, Leveled
    <3> QED
      BY <2>1, <3>1, <3>3, <3>4
  <2>4. CASE Saving(v, i)
    <3>1. call[v].step = "clear" /\ call'[v].rows = call[v].rows /\ call'[v].whole
      BY <2>4 DEF Saving, Now
    <3> QED
      BY <1>6, <3>1
  <2> QED
    BY <2>2, <2>3, <2>4
<1> QED
  BY <1>1, <1>7, <1>8, <1>9, <1>10, <1>11

LEMMA LeveledStep ==
    ASSUME StepInv, CountsInv, [Next]_vars, ~Deaths, CodesApart, LevelAlone,
           NEW i \in Plans, metrics'[i] # metrics[i], NEW r \in role, NEW m \in metrics'[i],
           r.role = "executor", r.task = m.project
    PROVE  r.user \in m.counted
<1>1. /\ TypeInv /\ deployment' = deployment
      /\ Silent \/ \E w \in AnyWorker : PlanStep(w)
  BY StepCases DEF StepInv
<1>2. PICK w \in AnyWorker : PlanStep(w)
  BY <1>1 DEF Silent, planVars
<1>3. Stored(w, i)
  BY <1>1, <1>2, PlanEffects DEF Untouched, Created, Edited, Removed, Archived, Published
<1>4. call[w].step = "save" /\ metrics'[i] = Kept(call[w]) \cup call[w].rows
  BY <1>3 DEF Stored, Now
<1>5. Counts(call[w].rows) /\ call[w].whole
  BY <1>4 DEF CountsInv
<1>6. metrics'[i] = call[w].rows
  BY <1>4, <1>5 DEF Kept
<1> QED
  BY <1>5, <1>6 DEF Counts

-----------------------------------------------------------------------------------
(* The theorems about plans *)

\* PlansSound: whatever requests overlap, the rows have their types; a project has one
\* published plan unless publications overlap each other or an edit; and the results of
\* a plan fit what it shows unless an edit overlaps a calculation or a publication.
THEOREM PlansAreSound == Spec => []PlansSound
<1>1. StepInv /\ OneInv /\ BasisInv /\ [Next]_vars => StepInv' /\ OneInv' /\ BasisInv'
  BY StepNext, OneNext, BasisNext
<1>2. StepInv /\ OneInv /\ BasisInv => PlansSound
  <2> SUFFICES ASSUME StepInv, OneInv, BasisInv PROVE PlansSound
    OBVIOUS
  <2>1. TypeOK
    BY DEF StepInv, TypeInv
  <2>2. OnePublishedPlan
    BY DEF OneInv, PublishAlone, OnePublishedPlan, OnlyOnePublished, IsPublished
  <2>3. BasisCurrent
    BY DEF BasisInv, EditAlone, BasisCurrent, ResultsFit, FitsPlan, FitsRules
  <2> QED
    BY <2>1, <2>2, <2>3 DEF PlansSound
<1> QED
  BY <1>1, <1>2, StepInit, OneInit, BasisInit, PTL DEF Spec

\* ResultsReliable: a published plan keeps its projects and its results, unless a change
\* that began before the publication is still under way; and results count every executor
\* there is when they are stored, unless roles changed while they were calculated.
THEOREM ResultsAreReliable == Spec => ResultsReliable
<1> DEFINE Inv == StepInv /\ KeepInv /\ RoleInv /\ CountsInv
           Kept1 == Apart({"publish"}, {"simulate", "update", "delete"}) =>
                       \A i \in Plans : plan[i].status = "published" =>
                           /\ plan'[i].status \in {"published", "archived"}
                           /\ plan'[i].entries = plan[i].entries
                           /\ metrics'[i] = metrics[i]
           Leveled1 ==
               ~Deaths /\ CodesApart
               /\ Apart({"simulate"}, {"simulate", "role", "change role", "bulk executor", "remove role", "remove task"}) =>
                   \A i \in Plans : metrics'[i] # metrics[i] =>
                       \A r \in role, m \in metrics'[i] :
                           r.role = "executor" /\ r.task = m.project => r.user \in m.counted
<1>1. Init => Inv
  BY StepInit, KeepInit, RoleInit, CountsInit
<1>2. Inv /\ [Next]_vars => Inv'
  <2> SUFFICES ASSUME Inv, [Next]_vars PROVE Inv'
    OBVIOUS
  <2>1. StepInv' /\ KeepInv' /\ CountsInv'
    BY StepNext, KeepNext, CountsNext
  <2>2. RoleInv'
    BY RoleNext
  <2> QED
    BY <2>1, <2>2
<1>3. Inv /\ [Next]_vars => Kept1
  BY KeptStep DEF KeepAlone
<1>4. Inv /\ [Next]_vars => Leveled1
  BY LeveledStep DEF LevelAlone
<1>5. Spec => [][Kept1]_vars
  <2> HIDE DEF Inv, Kept1
  <2> QED
    BY <1>1, <1>2, <1>3, PTL DEF Spec
<1>6. Spec => [][Leveled1]_metrics
  <2>1. Inv /\ [Next]_vars => [Leveled1]_metrics
    BY <1>4
  <2> HIDE DEF Inv, Leveled1
  <2> QED
    BY <1>1, <1>2, <2>1, PTL DEF Spec
<1> QED
  BY <1>5, <1>6 DEF ResultsReliable, PublishedKept, ExecutorsLeveled

===================================================================================
