-------------------------- MODULE MCActivityHelper --------------------------
(* Small instances of ActivityHelper for TLC. *)
EXTENDS ActivityHelper, TLC

(* Executors and operators are interchangeable among themselves. *)
Symmetry == Permutations(Executors) \cup Permutations(Operators)

=============================================================================
