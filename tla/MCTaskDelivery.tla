----------------------------- MODULE MCTaskDelivery -----------------------------
(* Model-checking instances of TaskDelivery. *)
EXTENDS TaskDelivery

Percent(v, blocks, at) ==
    [type |-> "percentage", value |-> v, blocks |-> blocks, threshold |-> at]
Fixed(v, blocks, at) ==
    [type |-> "fixed", value |-> v, blocks |-> blocks, threshold |-> at]

\* An advance, a rate beyond 50 per cent, a settlement before delivery.
SomeTerms == {Percent(60, {"start"}, 0), Percent(40, {"progress"}, 50), Fixed(1, {"delivery"}, 0)}

=============================================================================
