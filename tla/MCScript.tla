------------------------------- MODULE MCScript -------------------------------
(* Small instances of Script for TLC. *)
EXTENDS Script

(* Two ticks to a millisecond: a section of 17 ends in half a millisecond, *)
(* if it is uniform, and is longer than a word of milliseconds.            *)
MCPositions == {-2, 0, 2, 3, 9, 19}
MCDurations == {2, 17}

(* A travel from 0 to 30, with as long to speed up as to slow down. *)
TravelPositions == {30}
TravelDurations == {5}
=============================================================================
