----------------------------- MODULE MCRevisionSpine -----------------------------
(* Model-checking instances of RevisionSpine. *)
EXTENDS RevisionSpine, TLC

Symmetric == Permutations(Clients)

=============================================================================
