-------------------------------- MODULE Curve --------------------------------
(***************************************************************************)
(* romi-cnc: the curve from one segment of a path to the next, as          *)
(* SmoothPath::default_curve finds it from their directions.  A frame is   *)
(* laid over the junction; along ex the speed stays, along ey it turns     *)
(* round, under the acceleration that the machine allows; the points where *)
(* the curve is entered and left follow from it, and is_valid tests that   *)
(* speeds, acceleration and points agree.  Planner has the lengths and     *)
(* speeds of a path, and leaves this open.                                 *)
(*                                                                         *)
(* A direction is a vector of integers of the length Norm, which stands    *)
(* for the speed; ex and ey are not normalized.  Lengths are in            *)
(* |wy0| / am, times are in 2 |wy0| / am.                                  *)
(***************************************************************************)
EXTENDS Integers

CONSTANTS
  Directions, Norm,
  Tolerance      \* 1000 in the code

Dot(a, b) == a[1] * b[1] + a[2] * b[2] + a[3] * b[3]
Square(a) == Dot(a, a)
Scaled(s, a) == <<s * a[1], s * a[2], s * a[3]>>
Plus(a, b) == <<a[1] + b[1], a[2] + b[2], a[3] + b[3]>>
Minus(a, b) == Plus(a, Scaled(-1, b))
Cross(a, b) == <<a[2] * b[3] - a[3] * b[2], a[3] * b[1] - a[1] * b[3],
                 a[1] * b[2] - a[2] * b[1]>>
Size(x) == IF x < 0 THEN -x ELSE x
Squared(x) == x * x

Zero == <<0, 0, 0>>

DirectionsAssumption ==
  /\ Norm \in Nat \ {0} /\ Tolerance \in Nat \ {0}
  /\ \A d \in Directions : d \in Int \X Int \X Int /\ Square(d) = Squared(Norm)

VARIABLES
  turn,       \* frame, scale, set, done
  w0, w1,     \* the speeds before and after the junction
  ex, ey,
  sense       \* 1, or -1: w0 and w1 are turned round by scale_speed

vars == <<turn, w0, w1, ex, ey, sense>>

Init ==
  /\ turn = "frame"
  /\ w0 \in Directions /\ w1 \in Directions
  /\ ex = Zero /\ ey = Zero /\ sense = 1

-----------------------------------------------------------------------------
(* define_unit_vectors *)

AreCollinear == Square(Cross(w0, w1)) * Squared(Tolerance) < Squared(Squared(Norm))

\* Mutant: only the signs along x are compared.
SameDirectionByX == w0[1] * w1[1] >= 0

(* is_same_direction: the first axis along which w1 moves decides. *)
IsSameDirection ==
  LET moves == {k \in 1..3 : w1[k] # 0}
  IN  \E k \in moves : (\A m \in moves : k <= m) /\ w0[k] * w1[k] > 0

SameDirection ==
  /\ AreCollinear /\ IsSameDirection
  /\ ex' = w0
  /\ ey' = <<-w0[2], w0[1], w0[3]>>

\* Mutant: ey points the way w0 does.
OppositeDirectionAhead ==
  /\ AreCollinear /\ ~IsSameDirection
  /\ ey' = w0
  /\ ex' = <<w0[2], -w0[1], w0[3]>>

OppositeDirection ==
  /\ AreCollinear /\ ~IsSameDirection
  /\ ey' = Scaled(-1, w0)
  /\ ex' = <<-w0[2], w0[1], -w0[3]>>

\* Mutant: ey as the comment of default_curve has it, w0 - w1.
DefaultDirectionAsCommented ==
  /\ ~AreCollinear
  /\ ex' = Plus(w1, w0)
  /\ ey' = Minus(w0, w1)

DefaultDirection ==
  /\ ~AreCollinear
  /\ ex' = Plus(w1, w0)
  /\ ey' = Minus(w1, w0)

DefineUnitVectors ==
  /\ turn = "frame"
  /\ turn' = "scale"
  /\ SameDirection \/ OppositeDirection \/ DefaultDirection
  /\ UNCHANGED <<w0, w1, sense>>

-----------------------------------------------------------------------------
(* wy0, times the length of ey. *)
Turned == -Dot(w0, ey)

(* scale_speed: the maximum is divided by the speed, with its sign. *)
ScaleSpeed ==
  /\ turn = "scale"
  /\ turn' = "set"
  /\ sense' \in {1} \cup (IF Turned < 0 THEN {-1} ELSE {})
  /\ UNCHANGED <<w0, w1, ex, ey>>

(* The curve: a section that starts at w0 and ends at w1.                  *)
SetCurve ==
  /\ turn = "set"
  /\ turn' = "done"
  /\ w0' = Scaled(sense, w0) /\ w1' = Scaled(sense, w1)
  /\ UNCHANGED <<ex, ey, sense>>

Next == DefineUnitVectors \/ ScaleSpeed \/ SetCurve

Spec == Init /\ [][Next]_vars

-----------------------------------------------------------------------------
(* Is v / unit as good as zero, to is_valid? *)
Vanishes(v, unit) == Square(v) * Squared(Tolerance) < Squared(Norm * unit)

(* The square of Norm times Square(ex) times Square(ey), and what the code *)
(* has instead: the entry point is sqrt(x0^2 + y0^2) from the junction.    *)
Expected == Squared(Norm) * Square(ex) * Square(ey)
Distance == Squared(Dot(w0, ex)) * Square(ey) + Squared(Dot(w0, ey)) * Square(ex)

(* has_coherent_acceleration_1: w0 + a.t = w1, where a.t is 2 |wy0| along  *)
(* ey.                                                                     *)
SpeedsCoherent ==
  Vanishes(Plus(Scaled(Square(ey), Minus(w0, w1)), Scaled(2 * Size(Turned), ey)),
           Square(ey))

(* has_coherent_acceleration_2, called when the speeds are coherent, so    *)
(* that the curve takes the machine from p0 by (w0 + w1).t / 2; there is   *)
(* nothing to be travelled, or the entry and exit points fit.              *)
PointsCoherent ==
  \/ Turned = 0
  \/ Vanishes(Plus(w0, w1), 1)
  \/ sense = 1 /\ Distance = Expected

IsCoherent == SpeedsCoherent /\ PointsCoherent

TypeOK ==
  /\ turn \in {"frame", "scale", "set", "done"}
  /\ w0 \in Int \X Int \X Int /\ w1 \in Int \X Int \X Int
  /\ ex \in Int \X Int \X Int /\ ey \in Int \X Int \X Int
  /\ sense \in {1, -1}

(* Both segments go up or down. *)
Climbs == w0[3] # 0

(* The two go nearly straight on, or nearly back, and along the first axis *)
(* that w1 moves a little, w0 does not, or does the opposite.              *)
Misjudged ==
  /\ AreCollinear
  /\ \E k \in 1..3 : /\ w1[k] # 0 /\ \A m \in 1 .. k - 1 : w1[m] = 0
                     /\ (w0[k] * w1[k] > 0) # (Dot(w0, w1) > 0)

(* The sine of the angle between the two is below the tolerance, as        *)
(* are_collinear has it; the chord, as is_valid has it, is not.            *)
AtTheEdge ==
  AreCollinear /\ ~Vanishes(Minus(w0, w1), 1) /\ ~Vanishes(Plus(w0, w1), 1)

(* The curve from any direction into any other passes is_valid, and goes   *)
(* forward; except straight on while climbing                              *)
(* (define_unit_vectors_same_dir), where two directions are nearly the     *)
(* same and is_same_direction takes one for a reversal, or the other way   *)
(* round, and at the edge of what are_collinear takes for collinear.       *)
CurveAccepted ==
  turn = "done" /\ ~Misjudged /\ ~AtTheEdge =>
    (AreCollinear /\ IsSameDirection /\ Climbs) \/ (IsCoherent /\ sense = 1)

(* And it keeps to the deviation: half-way through the curve the machine   *)
(* is no further from the junction than wy0^2 / 2.am, which scale_speed    *)
(* has limited.  A reversal while climbing is entered too early            *)
(* (define_unit_vectors_opposite_dir); so is one that is misjudged.        *)
DeviationKept ==
  turn = "done" /\ ~Misjudged /\ IsCoherent =>
    (AreCollinear /\ ~IsSameDirection /\ Climbs) \/ Distance <= Expected

CurvesSound == CurveAccepted /\ DeviationKept
=============================================================================
