------------------------------ MODULE MCPlanner ------------------------------
(* Paths of up to four segments, short and long, with gentle and sharp     *)
(* curves.                                                                 *)
EXTENDS Planner

MCHalfLengths == {1, 3}
MCSpeeds == {2, 9}
MCAccelerations == {1}
MCSharpness == {0, 1}
MCCaps == {0, 4}
=============================================================================
