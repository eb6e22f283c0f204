-------------------------------- MODULE Script --------------------------------
(***************************************************************************)
(* romi-cnc: how a planned movement becomes blocks of whole steps and      *)
(* milliseconds, and where the machine ends when it plays them.            *)
(*                                                                         *)
(* travel() collects points in a SmoothPath; its sections are cut in       *)
(* slices, SmoothPath::add_block turns each slice in a block, relative to  *)
(* the steps of the slice before.  helix() cuts and converts its own way,  *)
(* in CNC::execute_move.  One axis stands for three.  Positions are whole  *)
(* fine units, Scale of them to a step, and times whole ticks.  A travel   *)
(* is a row of sections of constant acceleration that join, at rest at     *)
(* both ends; how many there are, how long they last and at what speed     *)
(* they end is left open.  Where a slice of a helix ends is left open      *)
(* within the speed limit.  A quotient that is a whole number of steps may *)
(* come out just below it in floating point, and then loses one when it is *)
(* cast.                                                                   *)
(***************************************************************************)
EXTENDS Integers

CONSTANTS
  Scale,       \* fine units in a step
  Tick,        \* ticks in a millisecond
  Word,        \* 2^16, the values of an int16_t
  Speed,       \* the speed limit, in fine units per tick
  Slice,       \* path_slice_duration_, in ticks
  MaxSlice,    \* path_max_slice_duration_
  Skip,        \* shorter displacements are skipped (0.1 mm)
  Positions,   \* the points that are asked for
  Durations,   \* what sections last
  MaxTravels, MaxPoints, MaxSections   \* bounds

ASSUME UnitsAssumption ==
  /\ Scale \in Nat \ {0} /\ Tick \in Nat \ {0} /\ Word \in Nat \ {0}
  /\ Speed \in Nat \ {0} /\ Slice \in Nat \ {0} /\ MaxSlice \in Nat \ {0}
  /\ Skip \in Nat
  /\ Positions \subseteq Int
  /\ Durations \subseteq Nat \ {0}
  /\ MaxTravels \in Nat /\ MaxPoints \in Nat /\ MaxSections \in Nat

(* main.cpp lets a slice take 32000 steps at full speed.                   *)
ASSUME FitAssumption ==
  /\ Slice <= MaxSlice
  /\ Word % 2 = 0
  /\ Speed * MaxSlice <= (Word \div 2 - 2) * Scale

VARIABLES
  machine,     \* where the machine stands, in steps
  phase,       \* "points", "slices", "done"
  kind,        \* "travel" or "helix"
  asked,       \* the last point of the path
  target,      \* the last point that was not skipped: current_position_
  p,           \* where the last slice ended
  current,     \* current_steps_, or do_helix's pos_steps
  offset,      \* steps by which current was wrong at the start
  section,     \* the section: where it starts, its speeds, its duration
  left,        \* what is left of it, in ticks
  used,        \* its used_interval
  elapsed,     \* ticks of the slices so far
  played,      \* milliseconds of the blocks so far
  dropped,     \* steps of the blocks that were not kept
  wrapped,     \* a block did not fit an int16_t
  travels, points, sections

planVars == <<kind, asked, target, offset>>
blockVars == <<machine, current, played, dropped, wrapped>>
bounds == <<travels, points, sections>>
vars == <<blockVars, phase, planVars, p, section, left, used, elapsed, bounds>>

Distance(a, b) == IF a >= b THEN a - b ELSE b - a
Sign(x) == IF x > 0 THEN 1 ELSE IF x < 0 THEN -1 ELSE 0

Init ==
  /\ machine = 0 /\ phase = "done" /\ kind = "travel"
  /\ asked = 0 /\ target = 0 /\ p = 0 /\ current = 0 /\ offset = 0
  /\ section = [from |-> 0, v0 |-> 0, v1 |-> 0, d |-> 1]
  /\ left = 0 /\ used = Slice /\ elapsed = 0 /\ played = 0 /\ dropped = 0
  /\ wrapped = FALSE /\ travels = 0 /\ points = 0 /\ sections = 0

-----------------------------------------------------------------------------
(* The conversions. *)

(* (int32_t) (position * scale): towards zero. *)
Truncate(x) == IF x >= 0 THEN x \div Scale ELSE -((-x) \div Scale)

(* What the product of a position and the scale may come out as. *)
StepsOf(x) ==
  {Truncate(x)} \cup (IF x % Scale = 0 THEN {Truncate(x) - Sign(x)} ELSE {})

(* (int16_t) of a whole number. *)
ToInt16(n) == ((n + Word \div 2) % Word) - Word \div 2

\* Mutant: milliseconds are rounded up.
MillisUp(d) == ToInt16((d + Tick - 1) \div Tick)

(* (int16_t) (1000.0 * duration): a slice of half a minute turns negative. *)
Millis(d) == ToInt16(d \div Tick)

-----------------------------------------------------------------------------
(* travel: the start position is read from the machine, *)
Begin(k) ==
  /\ phase = "done"
  /\ travels < MaxTravels
  /\ travels' = travels + 1
  /\ kind' = k
  /\ p' = machine * Scale
  /\ target' = machine * Scale
  /\ asked' = machine * Scale
  /\ current' \in StepsOf(machine * Scale)
  /\ offset' = machine - current'
  /\ elapsed' = 0 /\ played' = 0 /\ dropped' = 0 /\ points' = 0 /\ sections' = 0
  /\ section' = [from |-> machine * Scale, v0 |-> 0, v1 |-> 0, d |-> 1]
  /\ phase' = "points"
  /\ wrapped' = FALSE
  /\ UNCHANGED <<machine, left, used>>

\* Mutant: a displacement is measured from the point that was skipped.
AddPointForgets(x) ==
  /\ phase = "points"
  /\ points < MaxPoints
  /\ asked' = x
  /\ target' = IF Distance(x, asked) > Skip \/ kind = "helix" THEN x ELSE target
  /\ points' = points + 1
  /\ UNCHANGED <<blockVars, phase, kind, offset, p, section, left, used>>
  /\ UNCHANGED <<elapsed, travels, sections>>

(* and displacements that are too short are skipped.  A helix is planned   *)
(* to its end, however near that is.                                       *)
AddPoint(x) ==
  /\ phase = "points"
  /\ points < MaxPoints
  /\ asked' = x
  /\ target' = IF Distance(x, target) > Skip \/ kind = "helix" THEN x ELSE target
  /\ points' = points + 1
  /\ UNCHANGED <<blockVars, phase, kind, offset, p, section, left, used>>
  /\ UNCHANGED <<elapsed, travels, sections>>

Convert ==
  /\ phase = "points"
  /\ points > 0
  /\ phase' = "slices"
  /\ UNCHANGED <<blockVars, planVars, p, section, left, used, elapsed, bounds>>

(* A section goes on from where the last one ended, at its speed.  Without *)
(* acceleration, on any of the axes, it is cut in longer slices; a helix's *)
(* never is.                                                               *)
StartSection(d, v, u) ==
  /\ phase = "slices"
  /\ left = 0
  /\ sections < MaxSections
  /\ u = Slice \/ (kind = "travel" /\ v = section.v1)
  /\ kind = "helix" => v = 0
  /\ sections' = sections + 1
  /\ section' = [from |-> p, v0 |-> section.v1, v1 |-> v, d |-> d]
  /\ left' = d
  /\ used' = u
  /\ UNCHANGED <<blockVars, phase, planVars, p, elapsed, travels, points>>

(* get_position_at: p0 + v0 t + a t^2 / 2, with a = (v1 - v0) / d. *)
At(s, t) ==
  s.from + (2 * s.v0 * s.d * t + (s.v1 - s.v0) * t * t) \div (2 * s.d)

\* Mutant: add_block counts from the start of the path.
AddBlockFromStart(d, n) ==
  LET delta == ToInt16(n - current)
      keep == Millis(d) # 0 /\ delta # 0
  IN  /\ machine' = IF keep THEN machine + delta ELSE machine
      /\ played' = IF keep THEN played + Millis(d) ELSE played
      /\ dropped' = IF keep \/ kind = "helix" THEN dropped ELSE dropped + delta
      /\ wrapped' = (wrapped \/ delta # n - current)
      /\ current' = current

(* add_block, execute_move: a block without a millisecond, or without a    *)
(* step, is not kept.  add_block counts on from the slice's end all the    *)
(* same; execute_move from the last block that was kept.                   *)
AddBlock(d, n) ==
  LET delta == ToInt16(n - current)
      keep == Millis(d) # 0 /\ delta # 0
  IN  /\ machine' = IF keep THEN machine + delta ELSE machine
      /\ played' = IF keep THEN played + Millis(d) ELSE played
      /\ dropped' = IF keep \/ kind = "helix" THEN dropped ELSE dropped + delta
      /\ wrapped' = (wrapped \/ delta # n - current)
      /\ current' = IF keep \/ kind = "travel" THEN n ELSE current

\* Mutant: a section is one slice.
SliceDurationWhole == left

SliceDuration == IF left < used THEN left ELSE used

(* Where a slice may end. *)
SliceEnds ==
  IF kind = "travel"
  THEN {At(section, section.d - left + SliceDuration)}
  ELSE {x \in Positions : Distance(x, p) <= Speed * SliceDuration}

(* One slice, and its block. *)
CutSlice ==
  /\ phase = "slices"
  /\ left > 0
  /\ \E x \in SliceEnds :
       /\ p' = x
       /\ \E n \in StepsOf(x) : AddBlock(SliceDuration, n)
  /\ left' = left - SliceDuration
  /\ elapsed' = elapsed + SliceDuration
  /\ UNCHANGED <<phase, planVars, section, used, bounds>>

Finish ==
  /\ phase = "slices"
  /\ left = 0
  /\ p = target /\ section.v1 = 0
  /\ phase' = "done"
  /\ UNCHANGED <<blockVars, planVars, p, section, left, used, elapsed, bounds>>

Next ==
  \/ \E k \in {"travel", "helix"} : Begin(k)
  \/ \E x \in Positions : AddPoint(x)
  \/ \E d \in Durations, v \in -Speed..Speed, u \in {Slice, MaxSlice} :
       StartSection(d, v, u)
  \/ Convert \/ CutSlice \/ Finish

Spec == Init /\ [][Next]_vars

-----------------------------------------------------------------------------
TypeOK ==
  /\ machine \in Int /\ current \in Int /\ offset \in Int /\ dropped \in Int
  /\ asked \in Int /\ target \in Int /\ p \in Int
  /\ section \in [from : Int, v0 : -Speed..Speed, v1 : -Speed..Speed, d : Nat \ {0}]
  /\ left \in Nat /\ elapsed \in Nat /\ played \in Int
  /\ travels \in Nat /\ points \in Nat /\ sections \in Nat
  /\ used \in {Slice, MaxSlice}
  /\ kind \in {"travel", "helix"}
  /\ phase \in {"points", "slices", "done"}
  /\ wrapped \in BOOLEAN

(* No step gets lost unseen: the machine is where the last slice should    *)
(* have brought it, but for the steps that were dropped with blocks too    *)
(* short for a millisecond, and for one step of the start's conversion.    *)
StepsAccounted ==
  ~wrapped =>
    /\ machine + dropped = current + offset
    /\ offset \in -1..1
    /\ kind = "helix" => dropped = 0

(* Errors do not add up: after any number of travels, of any number of     *)
(* slices, the machine is within two steps of the last point, unless steps *)
(* were dropped; and a point that was skipped is no further than Skip.     *)
ArrivesUnlessDropped ==
  /\ Distance(target, asked) <= Skip
  /\ phase = "done" /\ kind = "travel" /\ dropped = 0 /\ ~wrapped
       => Distance(machine, Truncate(target)) <= 2

(* The blocks never take longer than the plan, so that the timeout of      *)
(* wait_end_of_script, computed from the plan, is enough for them.         *)
PlayedInTime == played * Tick <= elapsed

(* The steps of a travel's slice fit the block's sixteen bits, whatever    *)
(* the slices before it were (a helix may carry more and more steps over). *)
BlocksFit == kind = "travel" => ~wrapped

(* The inductive invariant: a travel's current_steps_ are those of the     *)
(* last slice's end, which lies in the section, and is the last point when *)
(* all is done.                                                            *)
IInv ==
  /\ TypeOK
  /\ StepsAccounted
  /\ BlocksFit
  /\ PlayedInTime
  /\ Distance(target, asked) <= Skip
  /\ kind = "travel" => current \in StepsOf(p)
  /\ left <= section.d /\ (phase # "slices" => left = 0)
  /\ kind = "travel" => p = At(section, section.d - left)
  /\ phase = "done" => p = target

(* "Move to absolute position (x,y,z)": a travel ends where it was asked   *)
(* to, to within the two steps that rounding may cost.                     *)
TravelArrives ==
  phase = "done" /\ kind = "travel" => Distance(machine, Truncate(target)) <= 2
=============================================================================
