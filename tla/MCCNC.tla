-------------------------------- MODULE MCCNC --------------------------------
(* Small instances of CNC for TLC. *)
EXTENDS CNC, TLC

(* No point at all, a path to and fro, and one that leaves the range. *)
SmallPaths == {<<>>, <<1, 0>>, <<1, 2>>}

(* Two lines, for a buffer of one. *)
LongPaths == {<<1, 0>>}

Symmetry == Permutations(Clients)

==============================================================================
