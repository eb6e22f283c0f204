----------------------------- MODULE ScriptProofs -----------------------------
(***************************************************************************)
(* Proofs about the conversion of a movement to blocks, for any scale, any *)
(* speed and any slices that satisfy the assumptions of Script.            *)
(*                                                                         *)
(* A number of steps is never further than one step from the position it   *)
(* stands for (StepsNear), and a section of constant acceleration keeps to *)
(* the speeds at its ends (SpeedKept), so that a slice fits a block        *)
(* (NoWrap).  The rest is bookkeeping: what a block adds to the      *)
(* machine is what is added to current, or else it is in dropped.          *)
(***************************************************************************)
EXTENDS Script, TLAPS

(* What \div and % are. *)
LEMMA Division ==
  ASSUME NEW a \in Int, NEW b \in Nat \ {0}
  PROVE  /\ a \div b \in Int
         /\ a % b \in Int /\ 0 <= a % b /\ a % b < b
         /\ a = b * (a \div b) + (a % b)
         /\ b * (a \div b) <= a /\ a < b * (a \div b) + b
<1>1. a \div b \in Int
  OBVIOUS
<1>2. a % b \in Int /\ 0 <= a % b /\ a % b < b
  OBVIOUS
<1>3. a = b * (a \div b) + (a % b)
  OBVIOUS
<1>4. b * (a \div b) <= a /\ a < b * (a \div b) + b
  OBVIOUS
<1> QED  BY <1>1, <1>2, <1>3, <1>4

(* A factor can be cancelled. *)
LEMMA Cancel ==
  ASSUME NEW a \in Int, NEW b \in Int, NEW s \in Nat \ {0}, a * s <= b * s
  PROVE  a <= b
OBVIOUS

(* A number below the divisor is its own remainder. *)
LEMMA SmallRemainder ==
  ASSUME NEW a \in Nat, NEW b \in Nat \ {0}, a < b
  PROVE  a % b = a
OBVIOUS

(* A factor keeps the order. *)
LEMMA Monotone ==
  ASSUME NEW a \in Nat, NEW b \in Nat, NEW s \in Nat, a <= b
  PROVE  s * a <= s * b
OBVIOUS

LEMMA MonotoneInt ==
  ASSUME NEW a \in Int, NEW b \in Int, NEW s \in Nat, a <= b
  PROVE  s * a <= s * b /\ a * s <= b * s
OBVIOUS

(* Division keeps the order, and lets multiples of the divisor out. *)
LEMMA DivisionShift ==
  ASSUME NEW a \in Int, NEW b \in Int, NEW k \in Int, NEW e \in Nat \ {0},
         b <= a + k * e
  PROVE  b \div e <= (a \div e) + k
<1> DEFINE x == a \div e  y == b \div e
<1>1. x \in Int /\ y \in Int /\ a < e * x + e /\ e * y <= b
  BY Division
<1> HIDE DEF x, y
<1>2. e * y < e * x + e + k * e
  <2>1. k * e \in Int /\ e * x \in Int /\ e * y \in Int
    BY <1>1
  <2> QED  BY <1>1, <2>1
<1>3. CASE y >= x + k + 1
  <2>1. (x + k + 1) * e <= y * e
    BY <1>1, <1>3, MonotoneInt
  <2> QED  BY <1>1, <1>2, <2>1
<1> QED  BY <1>1, <1>3 DEF x, y

(* A section of constant acceleration covers no more, in any part of it,   *)
(* than at the greater of the speeds at its ends; it begins where it is    *)
(* said to, and without speed it ends there.                               *)
LEMMA SpeedKept ==
  ASSUME NEW f \in Int, NEW v \in -Speed..Speed, NEW w \in -Speed..Speed,
         NEW d \in Nat \ {0}, NEW t \in Nat, NEW u \in Nat, t + u <= d,
         NEW s, s = [from |-> f, v0 |-> v, v1 |-> w, d |-> d]
  PROVE  /\ At(s, t) \in Int /\ At(s, t + u) \in Int
         /\ Distance(At(s, t + u), At(s, t)) <= Speed * u
<1> USE UnitsAssumption
<1> DEFINE a == 2 * v * d * t + (w - v) * t * t
           b == 2 * v * d * (t + u) + (w - v) * (t + u) * (t + u)
           e == 2 * d
           m == 2 * t + u
           n == e - m
           k == Speed * u
<1>1. /\ a \in Int /\ b \in Int /\ e \in Nat \ {0} /\ m \in Nat /\ n \in Nat /\ k \in Nat
      /\ m + n = e
  OBVIOUS
<1>2. At(s, t) = f + (a \div e) /\ At(s, t + u) = f + (b \div e)
  BY DEF At
<1>3. b - a = u * (v * n + w * m)
  OBVIOUS
<1>4. /\ v * n <= Speed * n /\ (-v) * n <= Speed * n
      /\ w * m <= Speed * m /\ (-w) * m <= Speed * m
  <2> HIDE DEF m, n
  <2> QED  BY <1>1, MonotoneInt
<1>5. /\ v * n + w * m <= Speed * e /\ -(v * n + w * m) <= Speed * e
      /\ v * n + w * m \in Int
  <2> HIDE DEF m, n, e
  <2>1. Speed * e = Speed * m + Speed * n
    BY <1>1
  <2>2. /\ (-v) * n = -(v * n) /\ (-w) * m = -(w * m)
        /\ v * n \in Int /\ w * m \in Int /\ Speed * m \in Int /\ Speed * n \in Int
    BY <1>1
  <2> QED  BY <1>4, <2>1, <2>2
<1>6. /\ u * (v * n + w * m) <= u * (Speed * e)
      /\ -(u * (v * n + w * m)) <= u * (Speed * e)
  <2> DEFINE q == v * n + w * m  r == Speed * e
  <2>1. q \in Int /\ r \in Int /\ q <= r /\ -q <= r
    BY <1>1, <1>5
  <2> HIDE DEF q, r
  <2>2. u * q <= u * r /\ u * (-q) <= u * r
    BY <2>1, MonotoneInt
  <2>3. u * (-q) = -(u * q)
    BY <2>1
  <2> QED  BY <2>2, <2>3 DEF q, r
<1>7. u * (Speed * e) = k * e
  BY <1>1
<1>8. b <= a + k * e /\ a <= b + k * e
  <2> DEFINE q == u * (v * n + w * m)  r == k * e
  <2>1. q \in Int /\ r \in Int /\ b - a = q /\ q <= r /\ -q <= r
    BY <1>1, <1>3, <1>5, <1>6, <1>7
  <2> HIDE DEF q, a, b, r
  <2>2. b <= a + r /\ a <= b + r
    BY <1>1, <2>1
  <2> QED  BY <2>2 DEF r
<1> HIDE DEF a, b, e, k
<1>9. /\ b \div e <= (a \div e) + k /\ a \div e <= (b \div e) + k
      /\ a \div e \in Int /\ b \div e \in Int
  <2>1. a \in Int /\ b \in Int /\ k \in Int /\ e \in Nat \ {0}
    BY <1>1
  <2>2. b \div e <= (a \div e) + k
    BY <1>8, <2>1, DivisionShift
  <2>3. a \div e <= (b \div e) + k
    BY <1>8, <2>1, DivisionShift
  <2> QED  BY <2>1, <2>2, <2>3, Division
<1> QED  BY <1>1, <1>2, <1>9 DEF Distance, k

LEMMA SectionBegins ==
  ASSUME NEW f \in Int, NEW v \in Int, NEW w \in Int, NEW d \in Nat \ {0}
  PROVE  At([from |-> f, v0 |-> v, v1 |-> w, d |-> d], 0) = f
<1>1. 2 * v * d * 0 + (w - v) * 0 * 0 = 0 /\ 2 * d \in Nat \ {0}
  OBVIOUS
<1>2. 0 \div (2 * d) = 0
  <2> DEFINE e == 2 * d  q == 0 \div e
  <2>1. q \in Int /\ e * q <= 0 /\ 0 < e * q + e /\ e \in Nat \ {0}
    BY <1>1, Division
  <2> HIDE DEF e, q
  <2>2. q <= 0 /\ q >= 0
    BY <2>1
  <2> QED  BY <2>1, <2>2 DEF e, q
<1> QED  BY <1>1, <1>2 DEF At

LEMMA SectionRests ==
  ASSUME NEW f \in Int
  PROVE  At([from |-> f, v0 |-> 0, v1 |-> 0, d |-> 1], 1) = f
BY DEF At

(* convert_to_steps yields whole steps, towards zero, at most a step away. *)
LEMMA StepsNear ==
  ASSUME NEW x \in Int, NEW n \in StepsOf(x)
  PROVE  /\ n \in Int
         /\ x >= 0 => n * Scale <= x /\ x <= n * Scale + Scale
         /\ x <= 0 => x <= n * Scale /\ n * Scale <= x + Scale
<1> DEFINE t == Truncate(x)
<1> USE UnitsAssumption
<1>1. CASE x >= 0
  <2>1. /\ t = x \div Scale /\ t \in Int /\ x % Scale \in Int
        /\ x = Scale * t + (x % Scale) /\ 0 <= x % Scale /\ x % Scale < Scale
    BY <1>1, Division DEF Truncate
  <2>2. CASE n = t
    <3> HIDE DEF t
    <3> QED  BY <2>1, <2>2, <1>1
  <2>3. CASE x % Scale = 0 /\ n = t - Sign(x)
    <3>1. x = Scale * t
      BY <2>1, <2>3
    <3>2. n = IF x > 0 THEN t - 1 ELSE t
      BY <2>1, <2>3, <1>1 DEF Sign
    <3> HIDE DEF t
    <3> QED  BY <2>1, <3>1, <3>2, <1>1
  <2> QED  BY <2>2, <2>3 DEF StepsOf
<1>2. CASE x < 0
  <2> DEFINE u == (-x) \div Scale
  <2>1. /\ t = -u /\ u \in Int
        /\ Scale * u <= -x /\ -x < Scale * u + Scale
    <3>1. -x \in Int
      OBVIOUS
    <3> QED  BY <1>2, <3>1, Division DEF Truncate
  <2>2. CASE n = t
    <3> HIDE DEF t, u
    <3> QED  BY <2>1, <2>2, <1>2
  <2>3. CASE x % Scale = 0 /\ n = t - Sign(x)
    <3>1. n = t + 1
      BY <2>1, <2>3, <1>2 DEF Sign
    <3>2. x = Scale * (x \div Scale) /\ x \div Scale \in Int
      BY <2>3, Division
    <3>3. Scale * u = -x
      <4> DEFINE q == x \div Scale
      <4>1. q \in Int /\ x = Scale * q /\ Scale * u <= Scale * (-q)
            /\ Scale * (-q) < Scale * (u + 1)
        BY <3>2, <2>1
      <4> HIDE DEF q, u, t
      <4>2. u <= -q
        BY <4>1, <2>1, Cancel
      <4>3. -q <= u
        <5>1. CASE -q >= u + 1
          <6>1. Scale * (u + 1) <= Scale * (-q)
            BY <5>1, <4>1, <2>1
          <6> QED  BY <6>1, <4>1, <2>1
        <5> QED  BY <5>1, <4>1, <2>1
      <4> QED  BY <4>1, <4>2, <4>3, <2>1
    <3> HIDE DEF t, u
    <3> QED  BY <2>1, <3>1, <3>3, <1>2
  <2> QED  BY <2>2, <2>3 DEF StepsOf
<1> QED  BY <1>1, <1>2

(* A position that is a whole number of steps is converted to that number, *)
(* or to one beside it.                                                    *)
LEMMA StepsOfWhole ==
  ASSUME NEW m \in Int, NEW n \in StepsOf(m * Scale)
  PROVE  n \in Int /\ m - n \in -1..1
<1> USE UnitsAssumption
<1>1. m * Scale \in Int
  OBVIOUS
<1>2. /\ n \in Int
      /\ n * Scale <= m * Scale + Scale /\ m * Scale <= n * Scale + Scale
  BY <1>1, StepsNear
<1>3. n * Scale <= (m + 1) * Scale /\ m * Scale <= (n + 1) * Scale
  BY <1>2
<1>4. n <= m + 1 /\ m <= n + 1
  BY <1>2, <1>3, Cancel
<1> QED  BY <1>2, <1>4

(* Half of an even word, and the numbers that the cast leaves alone. *)
LEMMA CastFits ==
  ASSUME NEW k \in Int
  PROVE  /\ ToInt16(k) \in Int
         /\ Word \div 2 \in Nat
         /\ k <= Word \div 2 - 1 /\ -k <= Word \div 2 - 1 => ToInt16(k) = k
<1> DEFINE h == Word \div 2
<1>1. h \in Nat /\ Word = 2 * h /\ h >= 1
  BY UnitsAssumption, FitAssumption, Division
<1>2. (k + h) % Word \in Int
  BY <1>1, UnitsAssumption, Division
<1>3. ASSUME k <= h - 1, -k <= h - 1
      PROVE  (k + h) % Word = k + h
  <2>1. k + h \in Nat /\ k + h < Word
    BY <1>1, <1>3
  <2> QED  BY <2>1, UnitsAssumption, SmallRemainder
<1>4. ToInt16(k) = ((k + h) % Word) - h
  BY DEF ToInt16
<1> HIDE DEF h
<1>5. (k + h) % Word = k + h => ToInt16(k) = k
  BY <1>1, <1>4
<1> QED  BY <1>1, <1>2, <1>3, <1>4, <1>5 DEF h

(* The cast of a number that is not negative does not raise it. *)
LEMMA CastLowers ==
  ASSUME NEW k \in Nat
  PROVE  ToInt16(k) \in Int /\ ToInt16(k) <= k
<1> DEFINE h == Word \div 2
           q == (k + h) \div Word
           m == (k + h) % Word
<1>1. h \in Nat /\ ToInt16(k) = m - h
  BY CastFits DEF ToInt16
<1>2. q \in Int /\ m \in Int /\ m < Word /\ k + h = Word * q + m
  BY <1>1, UnitsAssumption, Division
<1> HIDE DEF h, q, m
<1>3. q >= 0
  <2>1. CASE q <= -1
    <3>1. Word * q <= Word * (-1)
      BY <1>2, <2>1, UnitsAssumption, MonotoneInt
    <3> QED  BY <1>1, <1>2, <3>1, UnitsAssumption
  <2> QED  BY <1>2, <2>1
<1>4. Word * q >= 0
  BY <1>2, <1>3, UnitsAssumption
<1> QED  BY <1>1, <1>2, <1>4, UnitsAssumption

(* The steps of a slice that keeps to the speed limit fit a block. *)
LEMMA NoWrap ==
  ASSUME NEW x \in Int, NEW y \in Int, NEW n \in StepsOf(x), NEW c \in StepsOf(y),
         Distance(x, y) <= Speed * MaxSlice
  PROVE  ToInt16(n - c) = n - c
<1> DEFINE h == Word \div 2
<1> USE UnitsAssumption
<1>1. /\ n \in Int
      /\ x >= 0 => n * Scale <= x /\ x <= n * Scale + Scale
      /\ x <= 0 => x <= n * Scale /\ n * Scale <= x + Scale
  BY StepsNear
<1>2. /\ c \in Int
      /\ y >= 0 => c * Scale <= y /\ y <= c * Scale + Scale
      /\ y <= 0 => y <= c * Scale /\ c * Scale <= y + Scale
  BY StepsNear
<1>3. Speed * MaxSlice \in Nat \ {0} /\ h \in Nat
      /\ Speed * MaxSlice <= (h - 2) * Scale
  BY FitAssumption, CastFits
<1>4. n - c \in Int /\ h - 1 \in Int
  BY <1>1, <1>2, <1>3
<1>5. n * Scale \in Int /\ c * Scale \in Int /\ (h - 2) * Scale \in Int
  BY <1>1, <1>2, <1>3
<1>6. (h - 2) * Scale >= Scale
  <2>1. h - 2 >= 1
    <3>1. CASE h - 2 <= 0
      <4>1. (h - 2) * Scale <= 0
        BY <1>3, <3>1
      <4> QED  BY <4>1, <1>3
    <3> QED  BY <3>1, <1>3
  <2> QED  BY <2>1, <1>3
<1>7. n * Scale - c * Scale <= (h - 2) * Scale + Scale
  <2> HIDE DEF h
  <2>1. CASE x >= y
    <3>1. x - y <= (h - 2) * Scale
      BY <1>3, <1>5, <2>1 DEF Distance
    <3> QED  BY <1>1, <1>2, <1>5, <2>1, <3>1
  <2>2. CASE x < y
    BY <1>1, <1>2, <1>5, <1>6, <2>2
  <2> QED  BY <2>1, <2>2
<1>8. c * Scale - n * Scale <= (h - 2) * Scale + Scale
  <2> HIDE DEF h
  <2>1. CASE y >= x
    <3>1. y - x <= (h - 2) * Scale
      BY <1>3, <1>5, <2>1 DEF Distance
    <3> QED  BY <1>1, <1>2, <1>5, <2>1, <3>1
  <2>2. CASE y < x
    BY <1>1, <1>2, <1>5, <1>6, <2>2
  <2> QED  BY <2>1, <2>2
<1>9. n - c <= h - 1
  <2>1. (n - c) * Scale <= (h - 1) * Scale
    BY <1>1, <1>2, <1>3, <1>7
  <2> QED  BY <2>1, <1>4, Cancel
<1>10. c - n <= h - 1
  <2>1. (c - n) * Scale <= (h - 1) * Scale /\ c - n \in Int
    BY <1>1, <1>2, <1>3, <1>8
  <2> QED  BY <2>1, <1>4, Cancel
<1>11. n - c <= h - 1 /\ -(n - c) <= h - 1
  BY <1>1, <1>2, <1>3, <1>9, <1>10
<1> QED  BY <1>4, <1>11, CastFits
-----------------------------------------------------------------------------
(* What a slice lasts. *)
LEMMA SliceLasts ==
  ASSUME TypeOK, left > 0
  PROVE  /\ SliceDuration \in Nat \ {0} /\ SliceDuration <= left
         /\ SliceDuration <= MaxSlice
BY UnitsAssumption, FitAssumption DEF TypeOK, SliceDuration

(* A slice ends within the speed limit. *)
LEMMA SliceWithinSpeed ==
  ASSUME IInv, left > 0, NEW x \in SliceEnds
  PROVE  x \in Int /\ Distance(x, p) <= Speed * SliceDuration
<1> DEFINE d == SliceDuration  t == section.d - left
<1>1. d \in Nat \ {0} /\ d <= left
  BY SliceLasts DEF IInv
<1>2. CASE kind = "helix"
  BY <1>2, UnitsAssumption DEF SliceEnds
<1>3. CASE kind = "travel"
  <2>1. /\ section \in [from : Int, v0 : -Speed..Speed, v1 : -Speed..Speed, d : Nat \ {0}]
        /\ left \in Nat /\ left <= section.d /\ p = At(section, t)
    BY <1>3 DEF IInv, TypeOK
  <2>2. t \in Nat /\ t + d <= section.d /\ x = At(section, t + d)
    BY <1>1, <1>3, <2>1 DEF SliceEnds
  <2> HIDE DEF d, t
  <2>3. section = [from |-> section.from, v0 |-> section.v0, v1 |-> section.v1,
                   d |-> section.d]
    BY <2>1
  <2>4. x \in Int /\ Distance(x, At(section, t)) <= Speed * d
    BY <1>1, <2>1, <2>2, <2>3, SpeedKept
  <2> QED  BY <2>1, <2>4 DEF d
<1> QED  BY <1>2, <1>3 DEF IInv, TypeOK

(* A block that is added keeps the books: its steps went to the machine,   *)
(* or to dropped, or are not yet in current; and it lasts no longer than   *)
(* its slice.                                                              *)
LEMMA BlockAccounted ==
  ASSUME NEW d \in Nat, NEW n \in Int, TypeOK, StepsAccounted, AddBlock(d, n),
         UNCHANGED <<kind, offset>>
  PROVE  /\ machine' \in Int /\ current' \in Int /\ dropped' \in Int
         /\ played' \in Int /\ wrapped' \in BOOLEAN
         /\ StepsAccounted'
         /\ kind = "travel" => current' = n
         /\ wrapped' = (wrapped \/ ToInt16(n - current) # n - current)
         /\ played' * Tick <= played * Tick + d
<1> DEFINE delta == ToInt16(n - current)
<1> DEFINE keep == Millis(d) # 0 /\ delta # 0
<1> USE DEF TypeOK
<1>1. delta \in Int
  BY CastFits
<1>2. Millis(d) \in Int /\ Millis(d) * Tick <= d
  <2> DEFINE q == d \div Tick
  <2>1. q \in Int /\ Tick * q <= d /\ d < Tick * q + Tick
    BY UnitsAssumption, Division
  <2> HIDE DEF q
  <2>3. q \in Nat
    <3>1. CASE q < 0
      <4>1. Tick * (q + 1) <= 0
        BY <2>1, <3>1, UnitsAssumption
      <4> QED  BY <2>1, <4>1, UnitsAssumption
    <3> QED  BY <2>1, <3>1
  <2>4. Millis(d) \in Int /\ Millis(d) <= q
    BY <2>3, CastLowers DEF Millis, q
  <2>5. Millis(d) * Tick <= q * Tick
    BY <2>1, <2>4, UnitsAssumption, MonotoneInt
  <2>6. Millis(d) * Tick \in Int /\ q * Tick \in Int /\ q * Tick <= d
    BY <2>1, <2>4, UnitsAssumption
  <2> QED  BY <2>4, <2>5, <2>6
<1>3. /\ machine' = IF keep THEN machine + delta ELSE machine
      /\ played' = IF keep THEN played + Millis(d) ELSE played
      /\ dropped' = IF keep \/ kind = "helix" THEN dropped ELSE dropped + delta
      /\ wrapped' = (wrapped \/ delta # n - current)
      /\ current' = IF keep \/ kind = "travel" THEN n ELSE current
  BY DEF AddBlock
<1>4. /\ machine' \in Int /\ current' \in Int /\ dropped' \in Int
      /\ played' \in Int /\ wrapped' \in BOOLEAN
  BY <1>1, <1>2, <1>3
<1>5. StepsAccounted'
  <2> SUFFICES ASSUME ~wrapped'
               PROVE  /\ machine' + dropped' = current' + offset'
                      /\ offset' \in -1..1
                      /\ kind' = "helix" => dropped' = 0
    BY DEF StepsAccounted
  <2>1. ~wrapped /\ delta = n - current
    BY <1>3
  <2>2. /\ machine + dropped = current + offset /\ offset \in -1..1
        /\ kind = "helix" => dropped = 0
    BY <2>1 DEF StepsAccounted
  <2> HIDE DEF delta, keep
  <2>3. kind' = kind /\ offset' = offset
    OBVIOUS
  <2>4. CASE keep
    BY <1>1, <1>3, <2>1, <2>2, <2>3, <2>4
  <2>5. CASE ~keep /\ kind = "helix"
    BY <1>1, <1>3, <2>1, <2>2, <2>3, <2>5
  <2>6. CASE ~keep /\ kind = "travel"
    BY <1>1, <1>3, <2>1, <2>2, <2>3, <2>6
  <2> QED  BY <2>4, <2>5, <2>6
<1>6. kind = "travel" => current' = n
  BY <1>3
<1>7. played' * Tick <= played * Tick + d
  <2>1. CASE played' = played
    BY <2>1, UnitsAssumption
  <2>2. CASE played' = played + Millis(d)
    <3>1. played' * Tick = played * Tick + Millis(d) * Tick
      BY <1>2, <2>2, UnitsAssumption
    <3> QED  BY <1>2, <3>1, UnitsAssumption
  <2> QED  BY <1>3, <2>1, <2>2
<1> QED  BY <1>3, <1>4, <1>5, <1>6, <1>7

(* The invariant holds at first, *)
LEMMA InitIInv == Init => IInv
<1> SUFFICES ASSUME Init PROVE IInv
  OBVIOUS
<1>1. TypeOK
  <2>1. wrapped \in BOOLEAN
    BY Zenon DEF Init
  <2>2. used \in {Slice, MaxSlice} /\ kind \in {"travel", "helix"}
        /\ phase \in {"points", "slices", "done"}
    BY DEF Init
  <2>3. /\ machine \in Int /\ current \in Int /\ offset \in Int /\ dropped \in Int
        /\ asked \in Int /\ target \in Int /\ p \in Int
        /\ left \in Nat /\ elapsed \in Nat /\ played \in Int
        /\ travels \in Nat /\ points \in Nat /\ sections \in Nat
    BY DEF Init
  <2>4. section \in [from : Int, v0 : -Speed..Speed, v1 : -Speed..Speed, d : Nat \ {0}]
    BY UnitsAssumption DEF Init
  <2> QED  BY <2>1, <2>2, <2>3, <2>4 DEF TypeOK
<1>4. StepsAccounted
  BY DEF Init, StepsAccounted
<1>5. BlocksFit
  BY DEF Init, BlocksFit
<1>6. PlayedInTime
  BY UnitsAssumption DEF Init, PlayedInTime
<1>2. 0 \in StepsOf(0)
  BY UnitsAssumption, Division DEF StepsOf, Truncate
<1>3. Distance(target, asked) <= Skip
  BY UnitsAssumption DEF Init, Distance
<1>7. /\ left <= section.d /\ left = 0
      /\ p = At(section, section.d - left)
  BY SectionRests DEF Init
<1> QED  BY <1>1, <1>2, <1>3, <1>4, <1>5, <1>6, <1>7 DEF Init, IInv

(* and every step keeps it. *)
LEMMA NextIInv == IInv /\ [Next]_vars => IInv'
<1> SUFFICES ASSUME IInv, [Next]_vars PROVE IInv'
  OBVIOUS
<1> USE DEF IInv
<1>1. ASSUME NEW k \in {"travel", "helix"}, Begin(k) PROVE IInv'
  <2> USE <1>1 DEF Begin
  <2>1. machine * Scale \in Int
    BY UnitsAssumption DEF TypeOK
  <2>2. current' \in Int /\ offset' = machine - current' /\ offset' \in -1..1
    BY StepsOfWhole DEF TypeOK
  <2>3. TypeOK'
    <3>1. /\ asked' \in Int /\ target' \in Int /\ p' \in Int /\ offset' \in Int
      BY <2>1, <2>2
    <3>5. section' \in [from : Int, v0 : -Speed..Speed, v1 : -Speed..Speed, d : Nat \ {0}]
      BY <2>1, UnitsAssumption
    <3>2. /\ left' \in Nat /\ elapsed' \in Nat /\ played' \in Int /\ dropped' \in Int
          /\ travels' \in Nat /\ points' \in Nat /\ sections' \in Nat
      BY DEF TypeOK
    <3>3. /\ used' \in {Slice, MaxSlice} /\ kind' \in {"travel", "helix"}
          /\ phase' \in {"points", "slices", "done"} /\ machine' \in Int
      BY DEF TypeOK
    <3>4. wrapped' \in BOOLEAN
      BY Zenon
    <3> QED  BY <2>2, <3>1, <3>2, <3>3, <3>4, <3>5 DEF TypeOK
  <2>4. StepsAccounted'
    <3>1. machine' = machine /\ machine \in Int /\ dropped' = 0
      BY DEF TypeOK
    <3>2. machine' + dropped' = current' + offset'
      <4> DEFINE n == current'
      <4>1. /\ n \in Int /\ machine \in Int /\ offset' = machine - n
            /\ machine' = machine /\ dropped' = 0
        BY <2>2, <3>1
      <4>2. machine + 0 = n + (machine - n)
        <5> HIDE DEF n
        <5> QED  BY ONLY <4>1
      <4> QED  BY ONLY <4>1, <4>2
    <3>3. kind' = "helix" => dropped' = 0
      BY <3>1
    <3> QED  BY ONLY <2>2, <3>2, <3>3 DEF StepsAccounted
  <2>5. PlayedInTime'
    BY UnitsAssumption DEF PlayedInTime
  <2>6. (Distance(target, asked) <= Skip)'
    BY <2>1, UnitsAssumption DEF Distance
  <2>7. (/\ left <= section.d /\ left = 0
         /\ p = At(section, section.d - left))'
    BY <2>1, SectionRests
  <2> QED  BY <2>3, <2>4, <2>5, <2>6, <2>7 DEF BlocksFit
<1>2. ASSUME NEW x \in Positions, AddPoint(x) PROVE IInv'
  <2> USE <1>2 DEF AddPoint, blockVars
  <2>1. x \in Int /\ target' \in Int
    BY UnitsAssumption DEF TypeOK
  <2>2. TypeOK'
    BY <2>1 DEF TypeOK
  <2>3. (Distance(target, asked) <= Skip)'
    BY <2>1, UnitsAssumption DEF TypeOK, Distance
  <2>4. StepsAccounted' /\ BlocksFit' /\ PlayedInTime'
    BY DEF StepsAccounted, BlocksFit, PlayedInTime
  <2> QED  BY <2>2, <2>3, <2>4
<1>3. CASE CutSlice
  <2> USE <1>3 DEF CutSlice, planVars, bounds
  <2> DEFINE d == SliceDuration
  <2>0. PICK x \in SliceEnds : p' = x /\ \E n \in StepsOf(x) : AddBlock(d, n)
    OBVIOUS
  <2>1. PICK n \in StepsOf(x) : AddBlock(d, n)
    BY <2>0
  <2>9. x \in Int /\ Distance(x, p) <= Speed * d
    BY SliceWithinSpeed
  <2>2. x \in Int /\ n \in Int
    BY <2>9, StepsNear
  <2>3. d \in Nat \ {0} /\ d <= left /\ d <= MaxSlice
    BY SliceLasts
  <2> HIDE DEF d
  <2>4. /\ machine' \in Int /\ current' \in Int /\ dropped' \in Int
        /\ played' \in Int /\ wrapped' \in BOOLEAN
        /\ StepsAccounted'
        /\ kind = "travel" => current' = n
        /\ wrapped' = (wrapped \/ ToInt16(n - current) # n - current)
        /\ played' * Tick <= played * Tick + d
    BY <2>1, <2>2, <2>3, BlockAccounted
  <2>5. left' \in Nat /\ elapsed' = elapsed + d /\ elapsed' \in Nat
    BY <2>3 DEF TypeOK, d
  <2>6. TypeOK'
    BY <2>0, <2>2, <2>4, <2>5 DEF TypeOK
  <2>7. BlocksFit'
    <3> SUFFICES ASSUME kind = "travel" PROVE ToInt16(n - current) = n - current
      BY <2>4 DEF BlocksFit
    <3>1. Distance(x, p) <= Speed * MaxSlice
      <4>1. Speed * d <= Speed * MaxSlice
        BY <2>3, UnitsAssumption, Monotone
      <4>2. Distance(x, p) \in Int
        BY <2>2 DEF TypeOK, Distance
      <4>3. Distance(x, p) <= Speed * d
        BY <2>9
      <4> QED  BY <2>3, <4>1, <4>2, <4>3, UnitsAssumption
    <3> QED  BY <2>2, <3>1, NoWrap DEF TypeOK
  <2>8. PlayedInTime'
    <3>1. played * Tick \in Int /\ played' * Tick \in Int /\ played * Tick <= elapsed
      BY <2>4, UnitsAssumption DEF PlayedInTime, TypeOK
    <3> QED  BY <2>3, <2>4, <2>5, <3>1 DEF PlayedInTime, TypeOK
  <2>10. left' <= section'.d /\ phase' = "slices"
    BY <2>3 DEF TypeOK, d
  <2>11. kind = "travel" => p' = At(section', section'.d - left')
    <3>1. section.d - (left - d) = section.d - left + d
      BY <2>3 DEF TypeOK
    <3> QED  BY <2>0, <3>1 DEF SliceEnds, d
  <2> QED  BY <2>0, <2>1, <2>4, <2>6, <2>7, <2>8, <2>10, <2>11
<1>4. ASSUME NEW d \in Durations, NEW v \in -Speed..Speed, NEW u \in {Slice, MaxSlice},
             StartSection(d, v, u)
      PROVE  IInv'
  <2> USE <1>4 DEF StartSection, blockVars, planVars
  <2>0. d \in Nat \ {0} /\ section.v1 \in -Speed..Speed /\ p \in Int
    BY UnitsAssumption DEF TypeOK
  <2>3. section' = [from |-> p, v0 |-> section.v1, v1 |-> v, d |-> d]
        /\ left' = d /\ p' = p /\ d - d = 0 /\ phase' = "slices"
    BY <2>0
  <2>4. left' <= section'.d /\ p' = At(section', section'.d - left')
    BY <2>0, <2>3, SectionBegins, UnitsAssumption
  <2>1. TypeOK'
    BY <2>0 DEF TypeOK
  <2>2. StepsAccounted' /\ BlocksFit' /\ PlayedInTime'
    BY DEF StepsAccounted, BlocksFit, PlayedInTime
  <2> QED  BY <2>1, <2>2, <2>3, <2>4
<1>5. CASE Convert
  BY <1>5 DEF Convert, blockVars, planVars, bounds, TypeOK, StepsAccounted,
     BlocksFit, PlayedInTime
<1>6. CASE Finish
  BY <1>6 DEF Finish, blockVars, planVars, bounds, TypeOK, StepsAccounted,
     BlocksFit, PlayedInTime
<1>7. CASE UNCHANGED vars
  BY <1>7 DEF vars, blockVars, planVars, bounds, TypeOK, StepsAccounted,
     BlocksFit, PlayedInTime
<1> QED  BY <1>1, <1>2, <1>3, <1>4, <1>5, <1>6, <1>7 DEF Next

(* The invariant, for every scale, speed limit, length of the slices and   *)
(* range of positions: the books of SmoothPath::add_block balance.         *)
THEOREM Invariance == Spec => []IInv
<1> QED  BY InitIInv, NextIInv, PTL DEF Spec

(* No step gets lost unseen. *)
THEOREM Accounted == Spec => []StepsAccounted
<1>1. IInv => StepsAccounted
  BY DEF IInv
<1> QED  BY <1>1, Invariance, PTL

(* The steps of a travel's slice fit the block's sixteen bits. *)
THEOREM Fits == Spec => []BlocksFit
<1>1. IInv => BlocksFit
  BY DEF IInv
<1> QED  BY <1>1, Invariance, PTL

(* The blocks never take longer than the plan. *)
THEOREM InTime == Spec => []PlayedInTime
<1>1. IInv => PlayedInTime
  BY DEF IInv
<1> QED  BY <1>1, Invariance, PTL

(* Errors do not add up: a travel that dropped no steps ends within two    *)
(* steps of its last point, after any number of travels and slices.        *)
THEOREM Arrives == Spec => []ArrivesUnlessDropped
<1>1. IInv => ArrivesUnlessDropped
  <2> SUFFICES ASSUME IInv, phase = "done", kind = "travel", dropped = 0, ~wrapped
               PROVE  Distance(machine, Truncate(target)) <= 2
    BY DEF IInv, ArrivesUnlessDropped
  <2> DEFINE t == Truncate(target)
  <2>1. target \in Int /\ machine \in Int /\ current \in Int
    BY DEF IInv, TypeOK
  <2>2. t \in Int
    BY <2>1, StepsNear DEF StepsOf
  <2>3. current \in StepsOf(target)
    BY DEF IInv
  <2>4. current = t \/ current = t - Sign(target)
    BY <2>3 DEF StepsOf
  <2>5. Sign(target) \in -1..1
    BY DEF Sign
  <2>6. machine = current + offset /\ offset \in -1..1
    BY <2>1 DEF IInv, StepsAccounted
  <2> HIDE DEF t
  <2>7. machine - t <= 2 /\ t - machine <= 2
    BY <2>1, <2>2, <2>4, <2>5, <2>6
  <2>8. Distance(machine, t) <= 2
    BY <2>1, <2>2, <2>7 DEF Distance
  <2> QED  BY <2>8 DEF t
<1> QED  BY <1>1, Invariance, PTL
=============================================================================
