---------------------------- MODULE MCFileDataLog ----------------------------
(* Two names, so that a topic and a name may be one string or two. *)
EXTENDS FileDataLog, TLC

CONSTANTS n1, n2, v1

MCNames == {n1, n2}
MCValues == {v1}
Symmetry == Permutations(MCNames)
=============================================================================
