-------------------------------- MODULE MCParts --------------------------------
(* Small instances of the parts for TLC: see Parts.cfg. *)
EXTENDS Parts

MCSteps == {-1, 2}
MCCurrents == {-1, 0, 1}

(* Along the axes, and the directions of (1, 4, 8) with any order and      *)
(* signs: of length 9.                                                     *)
MCDirections ==
  {d \in {-9, -8, -4, -1, 0, 1, 4, 8, 9} \X {-9, -8, -4, -1, 0, 1, 4, 8, 9}
           \X {-9, -8, -4, -1, 0, 1, 4, 8, 9} : d[1] * d[1] + d[2] * d[2] + d[3] * d[3] = 81}
================================================================================
