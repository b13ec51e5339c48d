----------------------------- MODULE OfficialSchedule -----------------------------
(***************************************************************************)
(* What the revision API promises of a project's official schedule, each   *)
(* operation taken as one step: approving a revision is locking it and     *)
(* making it official.  A revision that is locked without becoming         *)
(* official was dated by a PATCH, or its approval died half way.           *)
(* RevisionSpine implements this specification while requests do not       *)
(* overlap.                                                                *)
(***************************************************************************)
EXTENDS Naturals

CONSTANTS MaxRev, NoRev

VARIABLES
    ptr,     \* the revision in each official role
    made,    \* how many revisions were made
    locked,  \* those that are approved
    marked,  \* those that are marked as baseline
    gone     \* those that are deleted

schedule == <<ptr, made, locked, marked, gone>>

Roles == {"baseline", "execution", "forecast", "working"}
Open == {r \in 0..MaxRev : r < made} \ (locked \cup gone)

Init ==
    /\ ptr = [role \in Roles |-> 0]
    /\ made = 1
    /\ locked = {}
    /\ marked = {0}
    /\ gone = {}

Approve(r) ==
    /\ r \in Open
    /\ locked' = locked \cup {r}
    /\ ptr' = [role \in Roles |->
                 CASE role \in {"execution", "forecast"} -> r
                   [] role = "baseline" -> IF r \in marked THEN r ELSE ptr[role]
                   [] OTHER -> IF ptr[role] = r THEN NoRev ELSE ptr[role]]
    /\ UNCHANGED <<made, marked, gone>>

Lock(r) ==
    /\ r \in Open
    /\ locked' = locked \cup {r}
    /\ UNCHANGED <<ptr, made, marked, gone>>

Mark(r) ==
    /\ r < made /\ r \notin gone
    /\ marked' \in {marked \cup {r}, marked \ {r}}
    /\ UNCHANGED <<ptr, made, locked, gone>>

OpenDraft ==
    /\ made <= MaxRev
    /\ locked # {}
    /\ ptr["working"] \notin Open
    /\ ptr' = [ptr EXCEPT !["working"] = made]
    /\ made' = made + 1
    /\ UNCHANGED <<locked, marked, gone>>

Choose(role, r) ==
    /\ IF role = "working"
       THEN r = NoRev \/ (r \in Open /\ ptr["working"] \notin Open)
       ELSE r = NoRev \/ (r \in locked \ gone /\ (role = "baseline" => r \in marked))
    /\ ptr' = [ptr EXCEPT ![role] = r]
    /\ UNCHANGED <<made, locked, marked, gone>>

Retire(r) ==
    /\ r < made /\ \A role \in Roles : ptr[role] # r
    /\ gone' = gone \cup {r}
    /\ UNCHANGED <<ptr, made, locked, marked>>

Next ==
    \/ \E r \in 0..MaxRev : Approve(r) \/ Lock(r) \/ Mark(r) \/ Retire(r)
    \/ OpenDraft
    \/ \E role \in Roles, r \in 0..MaxRev \cup {NoRev} : Choose(role, r)

Spec == Init /\ [][Next]_schedule

=============================================================================
