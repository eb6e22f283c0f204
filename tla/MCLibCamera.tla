---------------------------- MODULE MCLibCamera ----------------------------
(* The pool's frames are alike. *)
EXTENDS LibCamera, TLC

CONSTANTS c1, c2, f1, f2

MCClients == {c1, c2}
MCMemory == {f1, f2}
Symmetry == Permutations(MCMemory) \cup Permutations(MCClients)
=============================================================================
