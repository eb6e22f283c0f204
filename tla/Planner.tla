------------------------------- MODULE Planner -------------------------------
(***************************************************************************)
(* romi-cnc: how SmoothPath::convert finds the speeds along a path, before *)
(* it is cut in slices (Script).  Each segment gets an acceleration, a     *)
(* travel at constant speed, a deceleration and a curve to the next one.   *)
(* The path is walked once; where a segment is too short to slow down for  *)
(* its curve, its entry speed is lowered and the change is propagated      *)
(* back.  Five sanity checks throw if the speeds should not work out.      *)
(*                                                                         *)
(* Speeds are squared, v^2, so that accelerating over a length x adds      *)
(* 2.a.x and everything is linear.  The direction of a segment enters by   *)
(* the acceleration it allows, that of a curve by how sharp it is.         *)
(* Integers stand for doubles.  Left out is what only directions decide:   *)
(* is_valid's test of a curve's own acceleration, the range of positions,  *)
(* and paths that go straight on while they climb, where                   *)
(* define_unit_vectors_same_dir takes a vector that is not perpendicular.  *)
(***************************************************************************)
EXTENDS Integers

CONSTANTS
  MaxSegments,     \* bound: segments of a path
  HalfLengths,     \* half of what a segment may measure
  Speeds,          \* what it is to be travelled at
  Accelerations,   \* 2.a, the speed gained by unit of length
  Sharpness,       \* length a curve takes by unit of speed; 0: straight on
  Caps             \* the speed at which a curve deviates too far

ASSUME PathAssumption ==
  /\ MaxSegments \in Nat
  /\ HalfLengths \subseteq Nat \ {0} /\ Speeds \subseteq Nat \ {0}
  /\ Accelerations \subseteq Nat \ {0}
  /\ Sharpness \subseteq Nat /\ Caps \subseteq Nat

VARIABLES
  n, half, target, acc, sharp, cap,   \* the path
  phase,     \* "curve", "speeds", "back", "next", "accelerate", "check",
             \* "ready", or "failed"
  i,         \* the segment that is being dealt with
  b,         \* the one a change of speed has been propagated to
  entry,     \* accelerate.v0
  exit,      \* curve.v0, and curve.v1, which is as long
  reach,     \* from the junction to curve.p0, and to curve.p1
  peak       \* twice accelerate.v1 = travel.v0 = ... = decelerate.v0

path == <<n, half, target, acc, sharp, cap>>
vars == <<path, phase, i, b, entry, exit, reach, peak>>

Least(x, y) == IF x <= y THEN x ELSE y
Difference(x, y) == IF x >= y THEN x - y ELSE y - x

(* The straight part of a segment, between its two curves, and what can be *)
(* gained or lost on it.                                                   *)
Straight(j) == 2 * half[j] - reach[j - 1] - reach[j]
Gain(j) == acc[j] * Straight(j)

Fits(j) == Difference(entry[j], exit[j]) <= Gain(j)

Init ==
  /\ n \in 1..MaxSegments
  /\ half \in [1..n -> HalfLengths] /\ target \in [1..n -> Speeds]
  /\ acc \in [1..n -> Accelerations]
  /\ sharp \in [1..(n - 1) -> Sharpness] /\ cap \in [1..(n - 1) -> Caps]
  /\ phase = "curve" /\ i = 1 /\ b = 0
  /\ entry = [j \in 1..n |-> 0] /\ exit = [j \in 1..n |-> 0]
  /\ reach = [j \in 0..n |-> 0] /\ peak = [j \in 1..n |-> 0]

-----------------------------------------------------------------------------
(* compute_curve: none at the end; otherwise the slower of the two speeds, *)
(* unless that deviates too far, and over half a segment at most.          *)
CurveSpeed(j) ==
  LET slower == Least(target[j], target[j + 1])
  IN  IF sharp[j] = 0 THEN slower ELSE Least(slower, cap[j])

Room(j) == Least(half[j], half[j + 1])

ComputeCurve ==
  /\ phase = "curve"
  /\ phase' = "speeds"
  /\ \/ i = n /\ UNCHANGED <<exit, reach>>
     \/ /\ i < n /\ sharp[i] * CurveSpeed(i) <= Room(i)
        /\ exit' = [exit EXCEPT ![i] = CurveSpeed(i)]
        /\ reach' = [reach EXCEPT ![i] = sharp[i] * CurveSpeed(i)]
     \/ /\ i < n /\ sharp[i] * CurveSpeed(i) > Room(i)
        /\ exit' = [exit EXCEPT ![i] = Room(i) \div sharp[i]]
        /\ reach' = [reach EXCEPT ![i] = Room(i)]
  /\ UNCHANGED <<path, i, b, entry, peak>>

\* Mutant: a segment too short to speed up keeps its entry speed.
UpdateSpeedsTimidly ==
  /\ phase = "speeds"
  /\ \/ Fits(i) /\ phase' = "next" /\ UNCHANGED <<b, entry, exit>>
     \/ /\ ~Fits(i) /\ entry[i] < exit[i]
        /\ exit' = [exit EXCEPT ![i] = entry[i]]
        /\ phase' = "next"
        /\ UNCHANGED <<b, entry>>
     \/ /\ ~Fits(i) /\ entry[i] > exit[i]
        /\ entry' = [entry EXCEPT ![i] = exit[i] + Gain(i)]
        /\ phase' = IF i = 1 THEN "failed" ELSE "back"
        /\ b' = i - 1
        /\ UNCHANGED exit
  /\ UNCHANGED <<path, i, reach, peak>>

(* update_speeds_if_needed: too short to speed up, the curve is slower;    *)
(* too short to slow down, the segment is entered slower.                  *)
UpdateSpeeds ==
  /\ phase = "speeds"
  /\ \/ Fits(i) /\ phase' = "next" /\ UNCHANGED <<b, entry, exit>>
     \/ /\ ~Fits(i) /\ entry[i] < exit[i]
        /\ exit' = [exit EXCEPT ![i] = entry[i] + Gain(i)]
        /\ phase' = "next"
        /\ UNCHANGED <<b, entry>>
     \/ /\ ~Fits(i) /\ entry[i] > exit[i]
        /\ entry' = [entry EXCEPT ![i] = exit[i] + Gain(i)]
        /\ phase' = IF i = 1 THEN "failed" ELSE "back"
        /\ b' = i - 1
        /\ UNCHANGED exit
  /\ UNCHANGED <<path, i, reach, peak>>

\* Mutant: the change goes back by one segment and no further.
BackPropagateOnce ==
  /\ phase = "back"
  /\ exit' = [exit EXCEPT ![b] = entry[b + 1]]
  /\ phase' = "next"
  /\ UNCHANGED <<path, i, b, entry, reach, peak>>

\* Mutant: the recursion stays where it is.
BackPropagateForever ==
  /\ phase = "back"
  /\ exit[b] # entry[b + 1]
  /\ UNCHANGED vars

(* back_propagate_speed_change: the curve before the segment is slowed     *)
(* down, and perhaps the entry of the segment before it, and so on back.   *)
BackPropagate ==
  /\ phase = "back"
  /\ LET slowed == entry[b + 1]
         changed == exit[b] # slowed
         short == changed /\ entry[b] > slowed + Gain(b)
     IN  /\ exit' = [exit EXCEPT ![b] =
                       IF changed THEN Least(slowed, entry[b] + Gain(b)) ELSE slowed]
         /\ \/ ~short /\ phase' = "next" /\ UNCHANGED <<b, entry>>
            \/ /\ short
               /\ entry' = [entry EXCEPT ![b] = slowed + Gain(b)]
               /\ phase' = IF b = 1 THEN "failed" ELSE "back"
               /\ b' = b - 1
  /\ UNCHANGED <<path, i, reach, peak>>

\* Mutant: the next segment is entered at the speed it is to be travelled at.
InitializeNextAtTarget ==
  /\ phase = "next"
  /\ IF i < n THEN /\ entry' = [entry EXCEPT ![i + 1] = target[i + 1]]
                   /\ i' = i + 1 /\ phase' = "curve"
              ELSE i' = 1 /\ phase' = "accelerate" /\ UNCHANGED entry
  /\ UNCHANGED <<path, b, exit, reach, peak>>

(* initialize_next_acceleration, and on to the next segment. *)
InitializeNext ==
  /\ phase = "next"
  /\ IF i < n THEN /\ entry' = [entry EXCEPT ![i + 1] = exit[i]]
                   /\ i' = i + 1 /\ phase' = "curve"
              ELSE i' = 1 /\ phase' = "accelerate" /\ UNCHANGED entry
  /\ UNCHANGED <<path, b, exit, reach, peak>>

-----------------------------------------------------------------------------
(* ATDC::compute_accelerations *)

\* Mutant: scale_target_speed forgets the speed the segment is left with.
PeakSpeedFromEntry(j) == Least(2 * target[j], Gain(j) + 2 * entry[j])

(* scale_target_speed, twice: what the segment is to be travelled at, or   *)
(* what can be reached on it and slowed down from.                         *)
PeakSpeed(j) == Least(2 * target[j], Gain(j) + entry[j] + exit[j])

(* assert_equal_speeds, assert_speeds, assert_coherent_travel_length. *)
Sane(j, v) ==
  IF Straight(j) = 0
  THEN entry[j] = exit[j]
  ELSE /\ entry[j] <= target[j] /\ exit[j] <= target[j]
       /\ 2 * Gain(j) - (v - 2 * entry[j]) - (v - 2 * exit[j]) >= 0

ComputeAccelerations ==
  /\ phase = "accelerate"
  /\ LET v == IF Straight(i) = 0 THEN 2 * entry[i] ELSE PeakSpeed(i)
     IN  IF Sane(i, v)
         THEN /\ peak' = [peak EXCEPT ![i] = v]
              /\ phase' = IF i < n THEN "accelerate" ELSE "check"
              /\ i' = IF i < n THEN i + 1 ELSE i
         ELSE phase' = "failed" /\ UNCHANGED <<peak, i>>
  /\ UNCHANGED <<path, b, entry, exit, reach>>

(* The three straight sections of a segment: from where to where, in       *)
(* 1/(4.a), and twice the speed there.                                     *)
Sections(j) ==
  LET from == 2 * acc[j] * reach[j - 1]
      to == 2 * acc[j] * (2 * half[j] - reach[j])
      x == from + (peak[j] - 2 * entry[j])
      y == to - (peak[j] - 2 * exit[j])
  IN  [accelerate |-> [p0 |-> from, p1 |-> x, v0 |-> 2 * entry[j], v1 |-> peak[j]],
       travel     |-> [p0 |-> x, p1 |-> y, v0 |-> peak[j], v1 |-> peak[j]],
       decelerate |-> [p0 |-> y, p1 |-> to, v0 |-> peak[j], v1 |-> 2 * exit[j]]]

(* is_valid: no section is faster than the segment is to be travelled at,  *)
(* which check_max_speed has limited to what the machine can do; each      *)
(* leads forward from its first speed to its last, and the deceleration to *)
(* the curve.                                                              *)
(* The curve is not compared with the next acceleration: ATDC::prev is     *)
(* nowhere set.                                                            *)
IsValid(j) ==
  LET s == Sections(j)
  IN  /\ \A k \in DOMAIN s : /\ s[k].v0 <= 2 * target[j] /\ s[k].v1 <= 2 * target[j]
                             /\ s[k].p0 <= s[k].p1
      /\ s.accelerate.v0 <= s.accelerate.v1 /\ s.decelerate.v1 <= s.decelerate.v0
      /\ s.decelerate.p1 = 2 * acc[j] * (2 * half[j] - reach[j])
      /\ s.decelerate.v1 = 2 * exit[j]

(* CNC::check_script throws for a script that is not valid. *)
CheckScript ==
  /\ phase = "check"
  /\ phase' = IF \A j \in 1..n : IsValid(j) THEN "ready" ELSE "failed"
  /\ UNCHANGED <<path, i, b, entry, exit, reach, peak>>

Next ==
  \/ ComputeCurve \/ UpdateSpeeds \/ BackPropagate \/ InitializeNext
  \/ ComputeAccelerations \/ CheckScript

Spec == Init /\ [][Next]_vars
FairSpec == Spec /\ WF_vars(Next)

-----------------------------------------------------------------------------
TypeOK ==
  /\ n \in Nat \ {0}
  /\ half \in [1..n -> Nat \ {0}] /\ target \in [1..n -> Nat \ {0}]
  /\ acc \in [1..n -> Nat \ {0}]
  /\ sharp \in [1..(n - 1) -> Nat] /\ cap \in [1..(n - 1) -> Nat]
  /\ phase \in {"curve", "speeds", "back", "next", "accelerate", "check",
                "ready", "failed"}
  /\ i \in 1..n
  /\ b \in 0..n
  /\ entry \in [1..n -> Nat] /\ exit \in [1..n -> Nat]
  /\ reach \in [0..n -> Nat] /\ peak \in [1..n -> Nat]

(* The segments whose speeds have been settled, for now. *)
Settled == 1..(IF phase \in {"curve", "speeds"} THEN i - 1
               ELSE IF phase \in {"back", "next"} THEN i ELSE n)

(* None of the sanity checks throws, and check_script accepts the script:  *)
(* a speed that has to be lowered never goes back beyond the first         *)
(* segment, and every segment has room for its two changes of speed.       *)
PlanSucceeds == phase # "failed"

(* A segment's curves take half of it each at most, and the speeds keep to *)
(* those of the segments on either side.                                   *)
CurvesInPlace ==
  /\ reach[0] = 0
  /\ \A j \in 1..n : reach[j] <= half[j] /\ (j < n => reach[j] <= half[j + 1])
  /\ \A j \in 1..n : entry[j] <= target[j] /\ exit[j] <= target[j]
  /\ \A j \in 1..n : j < n => exit[j] <= target[j + 1]

(* Settled segments are long enough for their change of speed and are      *)
(* entered as fast as the curve before them is left, all but the one a     *)
(* slower entry has yet to be propagated from.                             *)
SpeedsJoin ==
  /\ entry[1] = 0
  /\ \A j \in Settled : Fits(j)
  /\ \A j \in 1..n : j < n /\ j + 1 \in Settled /\ ~(phase = "back" /\ j = b)
                       => exit[j] = entry[j + 1]
  /\ phase = "back" => b \in 1..(i - 1) /\ entry[b + 1] < exit[b]
  /\ phase \in {"curve", "speeds"} /\ i > 1 => exit[i - 1] = entry[i]

(* What has been planned for a segment passes is_valid. *)
SectionsValid ==
  /\ phase = "accelerate" => \A j \in 1..(i - 1) : IsValid(j)
  /\ phase \in {"check", "ready"} => \A j \in 1..n : IsValid(j)

IInv == TypeOK /\ PlanSucceeds /\ CurvesInPlace /\ SpeedsJoin /\ SectionsValid

(* The reference: what limits the speed in a curve is each curve's own     *)
(* speed, and rest at both ends, with what can be gained on the way.       *)
CurveLimit(j) == CASE j = 0 -> 0
                   [] j = n -> 0
                   [] OTHER -> IF sharp[j] * CurveSpeed(j) <= Room(j)
                               THEN CurveSpeed(j) ELSE Room(j) \div sharp[j]

GainUpTo[k \in 0..n] == IF k = 0 THEN 0 ELSE GainUpTo[k - 1] + Gain(k)

Possible(j) ==
  {CurveLimit(k) + Difference(GainUpTo[j], GainUpTo[k]) : k \in 0..n}

(* The one pass with its corrections finds the fastest speeds there are:   *)
(* in every curve the least of what the other curves allow, no less.       *)
Fastest ==
  phase = "ready" =>
    \A j \in 1..n : exit[j] \in Possible(j) /\ \A v \in Possible(j) : exit[j] <= v

(* Planning ends, however often a change is propagated back. *)
Planned == <>(phase \in {"ready", "failed"})
=============================================================================
