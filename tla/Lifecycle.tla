-------------------------------- MODULE Lifecycle --------------------------------
(***************************************************************************)
(* What the released engineering documents have in common (item revisions, *)
(* BOM revisions, operation process charts): the statuses and the table of *)
(* transitions each service module repeats, and periods of validity.  A    *)
(* day is a number, None stands for a date that is not set.                *)
(***************************************************************************)
EXTENDS Integers

CONSTANT MaxDay     \* bound: the last day a document may name

ASSUME MaxDayAssumption == MaxDay \in Nat

Days == 1..MaxDay
None == 0

Statuses == {"absent", "draft", "under_review", "approved", "released", "superseded", "obsolete"}
LOCKED_STATUSES == {"released", "superseded", "obsolete"}

TRANSITIONS ==
    [absent |-> {}, draft |-> {"under_review"}, under_review |-> {"draft", "approved"},
     approved |-> {"under_review", "released"}, released |-> {"superseded", "obsolete"},
     superseded |-> {"obsolete"}, obsolete |-> {}]

Rows == [status: Statuses, from: Days \cup {None}, to: Days \cup {None}]
Absent == [status |-> "absent", from |-> None, to |-> None]

ValidPeriod(row) == row.from # None /\ row.to # None => row.from <= row.to

\* a_stop = a_end or date.max
Covers(row, day) == row.from # None /\ row.from <= day /\ (row.to = None \/ day <= row.to)
PeriodsOverlap(a, b) ==
    /\ b.to = None \/ a.from <= b.to
    /\ a.to = None \/ b.from <= a.to

\* The services that only change a status, and the status each one asks for.
\* "draft" and "review" are the two ways back.
Moves == [submit |-> "under_review", draft |-> "draft", review |-> "under_review",
          approve |-> "approved", obsolete |-> "obsolete"]
MoveKinds == DOMAIN Moves
ReleaseKinds == {"release", "supersede"}

=============================================================================
