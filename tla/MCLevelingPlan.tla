------------------------------ MODULE MCLevelingPlan ------------------------------
(* Model-checking instances of LevelingPlan. *)
EXTENDS LevelingPlan, TLC
CONSTANTS w1, w2, road, plant

\* One or two threads, each with its kinds of requests; no employee code is an id.
One(kinds) == [kinds |-> [w \in {w1} |-> kinds], employeeCode |-> [u \in Users |-> 0],
               pools |-> 1, empty |-> {}, plans |-> Plans, rules |-> {1}]
Two(kinds1, kinds2) == [One({}) EXCEPT !.kinds = [w \in {w1, w2} |-> IF w = w1 THEN kinds1 ELSE kinds2]]

\* Roles.  Where a user's employee code is the user's id, a removal finds the assignment.
RoleRequests == {"role", "change role", "remove role"}
OwnCodes(d) == [d EXCEPT !.employeeCode = [u \in Users |-> u]]
NoPool(d) == [d EXCEPT !.pools = 0]
RolesByOne == NoPool(One(RoleRequests \cup {"remove task", "bulk executor", "bulk reviewer"}))
RolesAtOnce == OwnCodes(Two({"change role"}, {"role"}))
RemoveAtOnce == OwnCodes(Two({"remove role", "remove task"}, {"role"}))
RolesDie == Two({"role", "remove role"}, {"bulk executor", "death"})
ChangeAndRemove == Two({"change role"}, {"bulk executor", "remove task"})
FirstAtOnce == NoPool(Two({"role"}, {"bulk executor"}))
CodesOwn == OwnCodes(One(RoleRequests))

\* Plans.
PlansByOne == [One({"create", "update", "delete", "archive", "simulate", "publish"}) EXCEPT !.rules = Rules]
EmptyProject == [One({"create", "update", "simulate", "publish"}) EXCEPT !.empty = {road}]
PublishAtOnce == Two({"create", "simulate", "publish", "death"}, {"publish", "archive"})
EditAtOnce == [Two({"create", "simulate", "update"}, {"simulate", "update", "death"}) EXCEPT !.plans = {1}, !.rules = Rules]
CalculateAtOnce == [Two({"create", "simulate", "update", "death"}, {"publish", "delete"}) EXCEPT !.plans = {1}, !.rules = Rules]
CalculateTwice == [Two({"create", "simulate"}, {"simulate", "publish", "archive"}) EXCEPT !.plans = {1}, !.rules = Rules]
OverPublished == Two({"create", "simulate", "publish"}, {"simulate", "delete", "archive"})
PublishAndEdit == Two({"create", "simulate", "update", "archive"}, {"publish"})
ReckonExecutors ==
    [One({"create", "simulate", "bulk executor", "remove role"}) EXCEPT !.plans = {1}]
RolesWhilePlanned ==
    [Two({"create", "simulate"}, {"bulk executor", "remove role"}) EXCEPT !.plans = {1}]

MCDeployments ==
    {RolesByOne, RolesAtOnce, RemoveAtOnce, RolesDie, ChangeAndRemove, FirstAtOnce, CodesOwn,
     PlansByOne, EmptyProject, PublishAtOnce, EditAtOnce, CalculateAtOnce, CalculateTwice,
     OverPublished, PublishAndEdit, ReckonExecutors, RolesWhilePlanned}
=============================================================================
