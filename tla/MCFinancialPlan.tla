----------------------------- MODULE MCFinancialPlan -----------------------------
(* Model-checking instances of FinancialPlan. *)
EXTENDS FinancialPlan, TLC

Symmetric == Permutations(Clients)

Percent(v, blocks, at) ==
    [type |-> "percentage", value |-> v, blocks |-> blocks, threshold |-> at]
Fixed(v, blocks, at) ==
    [type |-> "fixed", value |-> v, blocks |-> blocks, threshold |-> at]

\* Half the contract before the start, the other half before delivery, and
\* two cents from 50 per cent on.
SomeTerms == {Percent(50, {"start"}, 0), Fixed(2, {"progress"}, 50)}

=============================================================================
