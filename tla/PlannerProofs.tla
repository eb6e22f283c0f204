---------------------------- MODULE PlannerProofs ----------------------------
(***************************************************************************)
(* Proofs about the planning of speeds, for paths of any number of         *)
(* segments of any lengths, speeds and accelerations, with any curves.     *)
(*                                                                         *)
(* The invariant says of the segments that have been dealt with that their *)
(* two speeds fit their length and join, but for one junction while a      *)
(* slower entry is propagated back.  Lowering both speeds of a segment     *)
(* never makes it too short to speed up, so that the propagation only ever *)
(* lowers entries; that of the first segment is 0 and cannot be lowered,   *)
(* so that it stops before.                                                *)
(***************************************************************************)
EXTENDS Planner, Induction, TLAPS

(* The straight part of a segment is not negative. *)
LEMMA GainNat ==
  ASSUME TypeOK, CurvesInPlace, NEW j \in 1..n
  PROVE  Straight(j) \in Nat /\ Gain(j) \in Nat
<1>1. /\ half[j] \in Nat /\ acc[j] \in Nat /\ reach[j] \in Nat /\ reach[j - 1] \in Nat
      /\ reach[j] <= half[j]
  <2>1. half[j] \in Nat /\ acc[j] \in Nat
    BY DEF TypeOK
  <2>2. j \in 0..n /\ j - 1 \in 0..n
    BY DEF TypeOK
  <2>3. reach[j] \in Nat /\ reach[j - 1] \in Nat
    BY <2>2 DEF TypeOK
  <2>4. reach[j] <= half[j]
    BY DEF CurvesInPlace
  <2> QED  BY <2>1, <2>3, <2>4
<1>2. reach[j - 1] <= half[j]
  <2>1. CASE j = 1
    BY <1>1, <2>1 DEF CurvesInPlace
  <2>2. CASE j > 1
    <3>1. j - 1 \in 1..n /\ j - 1 < n /\ (j - 1) + 1 = j
      BY <2>2 DEF TypeOK
    <3> QED  BY <3>1 DEF CurvesInPlace
  <2> QED  BY <2>1, <2>2
<1>3. Straight(j) \in Nat
  BY <1>1, <1>2 DEF Straight
<1> QED  BY <1>1, <1>3 DEF Gain

(* The speed a curve is planned at. *)
LEMMA CurveSpeedIs ==
  ASSUME TypeOK, NEW j \in 1..n, j < n
  PROVE  /\ CurveSpeed(j) \in Nat /\ Room(j) \in Nat /\ sharp[j] \in Nat
         /\ CurveSpeed(j) <= target[j] /\ CurveSpeed(j) <= target[j + 1]
         /\ Room(j) <= half[j] /\ Room(j) <= half[j + 1]
<1>1. j \in 1..(n - 1) /\ j + 1 \in 1..n
  BY DEF TypeOK
<1>2. /\ target[j] \in Nat /\ target[j + 1] \in Nat /\ half[j] \in Nat /\ half[j + 1] \in Nat
      /\ sharp[j] \in Nat /\ cap[j] \in Nat
  BY <1>1 DEF TypeOK
<1> QED  BY <1>2 DEF CurveSpeed, Room, Least

(* A curve that has to be tightened is slower than it was to be. *)
LEMMA Tightened ==
  ASSUME NEW w \in Nat, NEW s \in Nat, NEW r \in Nat, s * w > r
  PROVE  r \div s \in Nat /\ r \div s <= w
<1>1. s # 0
  OBVIOUS
<1>2. r \div s \in Int /\ s * (r \div s) <= r /\ r < s * (r \div s) + s
  BY <1>1
<1> DEFINE q == r \div s
<1> HIDE DEF q
<1>3. q \in Int /\ s * q <= r /\ r < s * q + s
  BY <1>2 DEF q
<1>4. q >= 0
  <2>1. CASE q <= -1
    <3>1. s * q <= s * (-1)
      BY <1>1, <1>3, <2>1
    <3> QED  BY <1>1, <1>3, <3>1
  <2> QED  BY <1>3, <2>1
<1>5. q <= w
  <2>1. CASE q >= w
    <3>1. s * q >= s * w
      BY <1>1, <1>3, <2>1
    <3> QED  BY <1>3, <3>1
  <2> QED  BY <1>3, <2>1
<1> QED  BY <1>3, <1>4, <1>5 DEF q

-----------------------------------------------------------------------------
(* The straight parts stay as they are once the curves are in place. *)
LEMMA GainStays ==
  ASSUME TypeOK, UNCHANGED <<path, reach>>, NEW j \in 1..n
  PROVE  Gain(j)' = Gain(j) /\ Straight(j)' = Straight(j)
BY DEF Gain, Straight, path

LEMMA InitIInv == Init => IInv
<1> SUFFICES ASSUME Init PROVE IInv
  OBVIOUS
<1> USE PathAssumption DEF Init
<1>1. n \in Nat \ {0}
  OBVIOUS
<1>2. TypeOK
  <2>1. half \in [1..n -> Nat \ {0}] /\ target \in [1..n -> Nat \ {0}]
        /\ acc \in [1..n -> Nat \ {0}]
    OBVIOUS
  <2>2. sharp \in [1..(n - 1) -> Nat] /\ cap \in [1..(n - 1) -> Nat]
    OBVIOUS
  <2>3. i \in 1..n /\ b \in 0..n
    BY <1>1
  <2>4. /\ entry \in [1..n -> Nat] /\ exit \in [1..n -> Nat]
        /\ reach \in [0..n -> Nat] /\ peak \in [1..n -> Nat]
    OBVIOUS
  <2> QED  BY <1>1, <2>1, <2>2, <2>3, <2>4 DEF TypeOK
<1>3. PlanSucceeds /\ SectionsValid
  BY DEF PlanSucceeds, SectionsValid
<1>4. CurvesInPlace
  <2>1. \A j \in 1..n : target[j] \in Nat /\ half[j] \in Nat /\ j \in 0..n
    BY <1>1, <1>2 DEF TypeOK
  <2>2. \A j \in 1..n : j < n => target[j + 1] \in Nat /\ half[j + 1] \in Nat
    BY <1>1, <1>2 DEF TypeOK
  <2>3. 0 \in 0..n
    BY <1>1
  <2> QED  BY <1>1, <2>1, <2>2, <2>3 DEF CurvesInPlace
<1>5. SpeedsJoin
  BY <1>1 DEF SpeedsJoin, Settled
<1> QED  BY <1>2, <1>3, <1>4, <1>5 DEF IInv

(* compute_curve sets the speed and the place of a curve that nothing      *)
(* settled depends on.                                                     *)
LEMMA CurveStep == IInv /\ ComputeCurve => IInv'
<1> SUFFICES ASSUME IInv, ComputeCurve PROVE IInv'
  OBVIOUS
<1> USE DEF IInv
<1>1. /\ UNCHANGED <<n, half, target, acc, sharp, cap, i, b, entry, peak>>
      /\ phase = "curve" /\ phase' = "speeds"
  BY DEF ComputeCurve, path
<1>2. i \in 1..n /\ n \in Nat /\ i \in 0..n /\ (i < n => i + 1 \in 1..n)
  <2>1. i \in 1..n /\ n \in Nat
    BY DEF TypeOK
  <2> QED  BY <2>1
<1>3. /\ exit' \in [1..n -> Nat] /\ reach' \in [0..n -> Nat]
      /\ \A j \in 1..n : j # i => exit'[j] = exit[j]
      /\ \A j \in 0..n : j # i => reach'[j] = reach[j]
      /\ exit'[i] <= target[i] /\ reach'[i] <= half[i]
      /\ i < n => exit'[i] <= target[i + 1] /\ reach'[i] <= half[i + 1]
  <2>1. CASE i = n /\ UNCHANGED <<exit, reach>>
    BY <1>2, <2>1 DEF TypeOK, CurvesInPlace
  <2>2. CASE /\ i < n /\ sharp[i] * CurveSpeed(i) <= Room(i)
             /\ exit' = [exit EXCEPT ![i] = CurveSpeed(i)]
             /\ reach' = [reach EXCEPT ![i] = sharp[i] * CurveSpeed(i)]
    <3>1. /\ CurveSpeed(i) \in Nat /\ Room(i) \in Nat /\ sharp[i] \in Nat
          /\ CurveSpeed(i) <= target[i] /\ CurveSpeed(i) <= target[i + 1]
          /\ Room(i) <= half[i] /\ Room(i) <= half[i + 1]
      BY <1>2, <2>2, CurveSpeedIs
    <3>2. half[i] \in Nat /\ half[i + 1] \in Nat /\ i \in 0..n
      BY <1>2, <2>2 DEF TypeOK
    <3> DEFINE d == sharp[i] * CurveSpeed(i)
    <3>3. d \in Nat /\ d <= Room(i)
      BY <2>2, <3>1
    <3> HIDE DEF d
    <3>4. reach' = [reach EXCEPT ![i] = d]
      BY <2>2 DEF d
    <3>5. exit' \in [1..n -> Nat] /\ reach' \in [0..n -> Nat]
      <4>1. exit \in [1..n -> Nat] /\ reach \in [0..n -> Nat]
        BY DEF TypeOK
      <4>2. exit' \in [1..n -> Nat]
        BY <2>2, <3>1, <4>1
      <4>3. reach' \in [0..n -> Nat]
        BY <3>3, <3>4, <4>1
      <4> QED  BY <4>2, <4>3
    <3>6. exit'[i] = CurveSpeed(i) /\ reach'[i] = d
      BY <1>2, <2>2, <3>2, <3>4 DEF TypeOK
    <3>7. d <= half[i] /\ d <= half[i + 1]
      BY <3>1, <3>2, <3>3
    <3>8. /\ \A j \in 1..n : j # i => exit'[j] = exit[j]
          /\ \A j \in 0..n : j # i => reach'[j] = reach[j]
      BY <2>2, <3>4 DEF TypeOK
    <3> QED  BY <3>1, <3>5, <3>6, <3>7, <3>8
  <2>3. CASE /\ i < n /\ sharp[i] * CurveSpeed(i) > Room(i)
             /\ exit' = [exit EXCEPT ![i] = Room(i) \div sharp[i]]
             /\ reach' = [reach EXCEPT ![i] = Room(i)]
    <3>1. /\ CurveSpeed(i) \in Nat /\ Room(i) \in Nat /\ sharp[i] \in Nat
          /\ CurveSpeed(i) <= target[i] /\ CurveSpeed(i) <= target[i + 1]
          /\ Room(i) <= half[i] /\ Room(i) <= half[i + 1]
      BY <1>2, <2>3, CurveSpeedIs
    <3>2. target[i] \in Nat /\ target[i + 1] \in Nat /\ i \in 0..n
      BY <1>2, <2>3 DEF TypeOK
    <3> DEFINE w == Room(i) \div sharp[i]
    <3>3. w \in Nat /\ w <= CurveSpeed(i)
      BY <2>3, <3>1, Tightened
    <3> HIDE DEF w
    <3>4. exit' = [exit EXCEPT ![i] = w]
      BY <2>3 DEF w
    <3>5. exit' \in [1..n -> Nat] /\ reach' \in [0..n -> Nat]
      <4>1. exit \in [1..n -> Nat] /\ reach \in [0..n -> Nat]
        BY DEF TypeOK
      <4>2. exit' \in [1..n -> Nat]
        BY <3>3, <3>4, <4>1
      <4>3. reach' \in [0..n -> Nat]
        BY <2>3, <3>1, <4>1
      <4> QED  BY <4>2, <4>3
    <3>6. exit'[i] = w /\ reach'[i] = Room(i)
      BY <1>2, <2>3, <3>2, <3>4 DEF TypeOK
    <3>7. w <= target[i] /\ w <= target[i + 1]
      BY <3>1, <3>2, <3>3
    <3>8. /\ \A j \in 1..n : j # i => exit'[j] = exit[j]
          /\ \A j \in 0..n : j # i => reach'[j] = reach[j]
      BY <2>3, <3>4 DEF TypeOK
    <3> QED  BY <3>1, <3>5, <3>6, <3>7, <3>8
  <2> QED  BY <2>1, <2>2, <2>3 DEF ComputeCurve
<1>4. TypeOK'
  BY <1>1, <1>3 DEF TypeOK
<1>5. CurvesInPlace'
  <2>1. reach'[0] = 0
    BY <1>2, <1>3 DEF CurvesInPlace
  <2>2. ASSUME NEW j \in 1..n
        PROVE  /\ reach'[j] <= half[j] /\ (j < n => reach'[j] <= half[j + 1])
               /\ entry[j] <= target[j] /\ exit'[j] <= target[j]
               /\ j < n => exit'[j] <= target[j + 1]
    <3>1. j \in 0..n
      BY <1>2
    <3> QED  BY <1>3, <3>1 DEF CurvesInPlace
  <2> QED  BY <1>1, <2>1, <2>2 DEF CurvesInPlace
<1>6. SpeedsJoin'
  <2>1. Settled = 1..(i - 1) /\ Settled' = 1..(i - 1)
    BY <1>1 DEF Settled
  <2>2. ASSUME NEW j \in 1..(i - 1) PROVE Fits(j)'
    <3>1. j \in 1..n /\ j # i /\ j \in 0..n /\ j - 1 \in 0..n /\ j - 1 # i
      BY <1>2
    <3>2. exit'[j] = exit[j] /\ reach'[j] = reach[j] /\ reach'[j - 1] = reach[j - 1]
      BY <1>3, <3>1
    <3>3. Fits(j)
      BY <2>1 DEF SpeedsJoin
    <3> QED  BY <1>1, <3>2, <3>3 DEF Fits, Gain, Straight
  <2>3. entry'[1] = 0
    BY <1>1 DEF SpeedsJoin
  <2>4. ASSUME NEW j \in 1..n, j < n, j + 1 \in 1..(i - 1)
        PROVE  exit'[j] = entry'[j + 1]
    <3>1. j # i
      BY <1>2, <2>4
    <3> QED  BY <1>1, <1>3, <2>1, <2>4, <3>1 DEF SpeedsJoin
  <2>5. i > 1 => exit'[i - 1] = entry'[i]
    <3> SUFFICES ASSUME i > 1 PROVE exit'[i - 1] = entry'[i]
      OBVIOUS
    <3>1. i - 1 \in 1..n /\ i - 1 # i
      BY <1>2
    <3> QED  BY <1>1, <1>3, <3>1 DEF SpeedsJoin
  <2> QED  BY <1>1, <2>1, <2>2, <2>3, <2>4, <2>5 DEF SpeedsJoin
<1> QED  BY <1>1, <1>4, <1>5, <1>6 DEF PlanSucceeds, SectionsValid

(* What does not touch the curves' places leaves CurvesInPlace to the      *)
(* speeds alone, and those only get lower.                                 *)
LEMMA LowerKeepsCurves ==
  ASSUME TypeOK, TypeOK', CurvesInPlace, UNCHANGED <<path, reach>>,
         \A j \in 1..n : entry'[j] <= entry[j] /\ exit'[j] <= exit[j]
  PROVE  CurvesInPlace'
<1>1. UNCHANGED <<n, half, target, acc, sharp, cap, reach>>
  BY DEF path
<1>2. ASSUME NEW j \in 1..n
      PROVE  /\ entry'[j] <= target[j] /\ exit'[j] <= target[j]
             /\ j < n => exit'[j] <= target[j + 1]
  <2>1. /\ entry'[j] \in Nat /\ exit'[j] \in Nat /\ entry[j] \in Nat /\ exit[j] \in Nat
        /\ target[j] \in Nat
    BY <1>1 DEF TypeOK
  <2>2. entry[j] <= target[j] /\ exit[j] <= target[j]
    BY DEF CurvesInPlace
  <2>3. j < n => exit[j] <= target[j + 1] /\ target[j + 1] \in Nat
    <3>1. j < n => j + 1 \in 1..n
      BY DEF TypeOK
    <3> QED  BY <3>1 DEF CurvesInPlace, TypeOK
  <2> QED  BY <2>1, <2>2, <2>3
<1> QED  BY <1>1, <1>2 DEF CurvesInPlace

(* update_speeds_if_needed settles the segment, by lowering one of its     *)
(* speeds if it has to; never the entry of the first.                      *)
LEMMA UpdateStep == IInv /\ UpdateSpeeds => IInv'
<1> SUFFICES ASSUME IInv, UpdateSpeeds PROVE IInv'
  OBVIOUS
<1> USE DEF IInv
<1>1. /\ UNCHANGED <<n, half, target, acc, sharp, cap, i, reach, peak>>
      /\ UNCHANGED <<path, reach>> /\ phase = "speeds"
  BY DEF UpdateSpeeds, path
<1>2. i \in 1..n /\ n \in Nat \ {0} /\ entry[i] \in Nat /\ exit[i] \in Nat
  BY DEF TypeOK
<1>3. Gain(i) \in Nat /\ \A j \in 1..n : Gain(j)' = Gain(j)
  BY <1>1, <1>2, GainNat, GainStays
<1>4. Settled = 1..(i - 1)
  BY <1>1 DEF Settled
<1>5. CASE Fits(i) /\ phase' = "next" /\ UNCHANGED <<b, entry, exit>>
  <2>1. TypeOK'
    BY <1>1, <1>5 DEF TypeOK
  <2>2. CurvesInPlace'
    BY <1>1, <1>5 DEF CurvesInPlace
  <2>3. Settled' = 1..i
    BY <1>1, <1>5 DEF Settled
  <2>4. ASSUME NEW j \in 1..i PROVE Fits(j)'
    <3>1. j \in 1..n /\ (j = i \/ j \in 1..(i - 1))
      BY <1>2
    <3>2. Fits(j)
      BY <1>4, <1>5, <3>1 DEF SpeedsJoin
    <3> QED  BY <1>3, <1>5, <3>1, <3>2 DEF Fits
  <2>5. ASSUME NEW j \in 1..n, j < n, j + 1 \in 1..i PROVE exit[j] = entry[j + 1]
    <3>1. CASE j + 1 = i
      <4>1. i > 1 /\ j = i - 1
        BY <1>2, <3>1
      <4> QED  BY <1>1, <4>1, <3>1 DEF SpeedsJoin
    <3>2. CASE j + 1 # i
      <4>1. j + 1 \in 1..(i - 1)
        BY <1>2, <2>5, <3>2
      <4> QED  BY <1>1, <1>4, <2>5, <4>1 DEF SpeedsJoin
    <3> QED  BY <3>1, <3>2
  <2>6. SpeedsJoin'
    BY <1>1, <1>5, <2>3, <2>4, <2>5 DEF SpeedsJoin
  <2> QED  BY <1>1, <1>5, <2>1, <2>2, <2>6 DEF PlanSucceeds, SectionsValid
<1>6. CASE /\ ~Fits(i) /\ entry[i] < exit[i]
           /\ exit' = [exit EXCEPT ![i] = entry[i] + Gain(i)]
           /\ phase' = "next"
           /\ UNCHANGED <<b, entry>>
  <2> DEFINE w == entry[i] + Gain(i)
  <2>1. w \in Nat /\ w < exit[i] /\ Difference(entry[i], w) <= Gain(i)
    BY <1>2, <1>3, <1>6 DEF Fits, Difference
  <2> HIDE DEF w
  <2>2. exit' = [exit EXCEPT ![i] = w]
    BY <1>6 DEF w
  <2>3. TypeOK'
    <3>1. exit' \in [1..n -> Nat]
      BY <2>1, <2>2 DEF TypeOK
    <3> QED  BY <1>1, <1>6, <3>1 DEF TypeOK
  <2>4. \A j \in 1..n : exit'[j] = IF j = i THEN w ELSE exit[j]
    BY <1>2, <2>2 DEF TypeOK
  <2>5. CurvesInPlace'
    <3>1. ASSUME NEW j \in 1..n PROVE entry'[j] <= entry[j] /\ exit'[j] <= exit[j]
      <4>1. entry[j] \in Nat /\ exit[j] \in Nat
        BY DEF TypeOK
      <4> QED  BY <1>6, <2>1, <2>4, <4>1
    <3> QED  BY <1>1, <2>3, <3>1, LowerKeepsCurves
  <2>6. Settled' = 1..i
    BY <1>1, <1>6 DEF Settled
  <2>7. ASSUME NEW j \in 1..i PROVE Fits(j)'
    <3>1. j \in 1..n /\ (j = i \/ (j # i /\ j \in 1..(i - 1)))
      BY <1>2
    <3>2. CASE j = i
      BY <1>2, <1>3, <1>6, <2>1, <2>4, <3>2 DEF Fits
    <3>3. CASE j # i /\ j \in 1..(i - 1)
      <4>1. Fits(j)
        BY <1>4, <3>3 DEF SpeedsJoin
      <4> QED  BY <1>3, <1>6, <2>4, <3>1, <3>3, <4>1 DEF Fits
    <3> QED  BY <3>1, <3>2, <3>3
  <2>8. ASSUME NEW j \in 1..n, j < n, j + 1 \in 1..i PROVE exit'[j] = entry[j + 1]
    <3>1. j # i /\ exit'[j] = exit[j]
      BY <1>2, <2>4, <2>8
    <3>2. CASE j + 1 = i
      <4>1. i > 1 /\ j = i - 1
        BY <1>2, <3>2
      <4> QED  BY <1>1, <3>1, <3>2, <4>1 DEF SpeedsJoin
    <3>3. CASE j + 1 # i
      <4>1. j + 1 \in 1..(i - 1)
        BY <1>2, <2>8, <3>3
      <4> QED  BY <1>1, <1>4, <2>8, <3>1, <4>1 DEF SpeedsJoin
    <3> QED  BY <3>2, <3>3
  <2>9. SpeedsJoin'
    BY <1>1, <1>6, <2>6, <2>7, <2>8 DEF SpeedsJoin
  <2> QED  BY <1>1, <1>6, <2>3, <2>5, <2>9 DEF PlanSucceeds, SectionsValid
<1>7. CASE /\ ~Fits(i) /\ entry[i] > exit[i]
           /\ entry' = [entry EXCEPT ![i] = exit[i] + Gain(i)]
           /\ phase' = IF i = 1 THEN "failed" ELSE "back"
           /\ b' = i - 1
           /\ UNCHANGED exit
  <2> DEFINE v == exit[i] + Gain(i)
  <2>1. v \in Nat /\ v < entry[i] /\ Difference(v, exit[i]) <= Gain(i)
    BY <1>2, <1>3, <1>7 DEF Fits, Difference
  <2>2. i # 1
    BY <1>2, <1>7 DEF SpeedsJoin
  <2> HIDE DEF v
  <2>3. entry' = [entry EXCEPT ![i] = v] /\ phase' = "back"
    BY <1>7, <2>2 DEF v
  <2>4. b' = i - 1 /\ b' \in 1..(i - 1) /\ b' \in 0..n
    BY <1>2, <1>7, <2>2
  <2>5. TypeOK'
    <3>1. entry' \in [1..n -> Nat]
      BY <2>1, <2>3 DEF TypeOK
    <3>2. UNCHANGED <<n, half, target, acc, sharp, cap, i, exit, reach, peak>>
      BY <1>1, <1>7
    <3> QED  BY <2>3, <2>4, <3>1, <3>2 DEF TypeOK
  <2>6. \A j \in 1..n : entry'[j] = IF j = i THEN v ELSE entry[j]
    BY <1>2, <2>3 DEF TypeOK
  <2>7. CurvesInPlace'
    <3>1. ASSUME NEW j \in 1..n PROVE entry'[j] <= entry[j] /\ exit'[j] <= exit[j]
      <4>1. entry[j] \in Nat /\ exit[j] \in Nat
        BY DEF TypeOK
      <4> QED  BY <1>7, <2>1, <2>6, <4>1
    <3> QED  BY <1>1, <2>5, <3>1, LowerKeepsCurves
  <2>8. Settled' = 1..i
    BY <1>1, <2>3 DEF Settled
  <2>9. ASSUME NEW j \in 1..i PROVE Fits(j)'
    <3>1. j \in 1..n /\ (j = i \/ (j # i /\ j \in 1..(i - 1)))
      BY <1>2
    <3>2. CASE j = i
      BY <1>2, <1>3, <1>7, <2>1, <2>6, <3>2 DEF Fits
    <3>3. CASE j # i /\ j \in 1..(i - 1)
      <4>1. Fits(j)
        BY <1>4, <3>3 DEF SpeedsJoin
      <4> QED  BY <1>3, <1>7, <2>6, <3>1, <3>3, <4>1 DEF Fits
    <3> QED  BY <3>1, <3>2, <3>3
  <2>10. ASSUME NEW j \in 1..n, j < n, j + 1 \in 1..i, j # b'
         PROVE  exit'[j] = entry'[j + 1]
    <3>1. j + 1 # i /\ j + 1 \in 1..(i - 1) /\ j + 1 \in 1..n
      BY <1>2, <2>4, <2>10
    <3> QED  BY <1>1, <1>4, <1>7, <2>6, <2>10, <3>1 DEF SpeedsJoin
  <2>11. entry'[b' + 1] < exit'[b']
    <3>1. b' + 1 = i /\ b' = i - 1 /\ i > 1
      BY <1>2, <2>2, <2>4
    <3>2. exit[i - 1] = entry[i]
      BY <1>1, <3>1 DEF SpeedsJoin
    <3> QED  BY <1>2, <1>7, <2>1, <2>6, <3>1, <3>2
  <2>12. entry'[1] = 0
    <3>1. 1 \in 1..n
      BY <1>2
    <3> QED  BY <2>2, <2>6, <3>1 DEF SpeedsJoin
  <2>13. SpeedsJoin'
    BY <1>1, <2>3, <2>4, <2>8, <2>9, <2>10, <2>11, <2>12 DEF SpeedsJoin
  <2> QED  BY <2>3, <2>5, <2>7, <2>13 DEF PlanSucceeds, SectionsValid
<1> QED  BY <1>5, <1>6, <1>7 DEF UpdateSpeeds

(* The entry of the segment is slower than the curve before it: that curve  *)
(* becomes as slow, and if need be the entry of the segment before it too.  *)
LEMMA BackIs ==
  ASSUME IInv, BackPropagate
  PROVE  /\ UNCHANGED <<path, reach>> /\ UNCHANGED <<n, i>> /\ phase = "back"
         /\ i \in 1..n /\ n \in Nat \ {0} /\ b \in 1..(i - 1) /\ b \in 1..n
         /\ b + 1 \in 1..i /\ b < n /\ b + 1 \in 1..n
         /\ entry[b + 1] \in Nat /\ entry[b] \in Nat /\ exit[b] \in Nat /\ Gain(b) \in Nat
         /\ entry[b + 1] < exit[b] /\ Difference(entry[b], exit[b]) <= Gain(b)
         /\ exit' = [exit EXCEPT ![b] = entry[b + 1]]
         /\ \/ entry[b] <= entry[b + 1] + Gain(b) /\ phase' = "next" /\ UNCHANGED <<b, entry>>
            \/ /\ entry[b] > entry[b + 1] + Gain(b)
               /\ entry' = [entry EXCEPT ![b] = entry[b + 1] + Gain(b)]
               /\ phase' = IF b = 1 THEN "failed" ELSE "back"
               /\ b' = b - 1
<1> USE DEF IInv
<1>1. UNCHANGED <<path, reach>> /\ UNCHANGED <<n, i>> /\ phase = "back"
  BY DEF BackPropagate, path
<1>2. i \in 1..n /\ n \in Nat \ {0} /\ b \in 1..(i - 1) /\ b \in 1..n /\ b + 1 \in 1..i
      /\ b < n /\ b + 1 \in 1..n
  <2>1. i \in 1..n /\ n \in Nat \ {0} /\ b \in 1..(i - 1)
    BY <1>1 DEF TypeOK, SpeedsJoin
  <2> QED  BY <2>1
<1>3. entry[b + 1] \in Nat /\ entry[b] \in Nat /\ exit[b] \in Nat /\ Gain(b) \in Nat
  BY <1>2, GainNat DEF TypeOK
<1>4. entry[b + 1] < exit[b] /\ Difference(entry[b], exit[b]) <= Gain(b)
  <2>1. Settled = 1..i /\ b \in 1..i
    BY <1>1, <1>2 DEF Settled
  <2>2. Fits(b)
    BY <2>1 DEF SpeedsJoin
  <2> QED  BY <1>1, <2>2 DEF SpeedsJoin, Fits
<1>5. /\ exit[b] # entry[b + 1]
      /\ Least(entry[b + 1], entry[b] + Gain(b)) = entry[b + 1]
  BY <1>3, <1>4 DEF Least, Difference
<1>6. ~ (entry[b] > entry[b + 1] + Gain(b)) => entry[b] <= entry[b + 1] + Gain(b)
  BY <1>3
<1> QED  BY <1>1, <1>2, <1>3, <1>4, <1>5, <1>6 DEF BackPropagate

(* Propagating a slower entry back settles one junction, and opens the one *)
(* before it if the segment between them is too short to slow down on.     *)
LEMMA BackStep == IInv /\ BackPropagate => IInv'
<1> SUFFICES ASSUME IInv, BackPropagate PROVE IInv'
  OBVIOUS
<1> USE DEF IInv
<1>1. /\ UNCHANGED <<n, half, target, acc, sharp, cap, i, reach, peak>>
      /\ UNCHANGED <<path, reach>> /\ phase = "back"
  BY DEF BackPropagate, path
<1>2. i \in 1..n /\ n \in Nat \ {0} /\ b \in 1..(i - 1) /\ b \in 1..n /\ b + 1 \in 1..i
      /\ b < n /\ b + 1 \in 1..n
  BY BackIs
<1> DEFINE s == entry[b + 1]
           e == entry[b]
           x == exit[b]
           g == Gain(b)
<1>3. s \in Nat /\ e \in Nat /\ x \in Nat /\ g \in Nat
  BY BackIs
<1>4. s < x /\ Difference(e, x) <= g
  BY BackIs
<1>5. \A j \in 1..n : Gain(j)' = Gain(j)
  BY <1>1, GainStays
<1>6. /\ exit' = [exit EXCEPT ![b] = s]
      /\ \/ e <= s + g /\ phase' = "next" /\ UNCHANGED <<b, entry>>
         \/ /\ e > s + g
            /\ entry' = [entry EXCEPT ![b] = s + g]
            /\ phase' = IF b = 1 THEN "failed" ELSE "back"
            /\ b' = b - 1
  BY BackIs
<1> HIDE DEF s, e, x, g
<1>7. exit' \in [1..n -> Nat] /\ \A j \in 1..n : exit'[j] = IF j = b THEN s ELSE exit[j]
  BY <1>2, <1>3, <1>6 DEF TypeOK
<1>8. \A j \in 1..n : exit[j] \in Nat /\ entry[j] \in Nat
  BY DEF TypeOK
<1>9. Settled = 1..i
  BY <1>1 DEF Settled
<1>10. CASE e <= s + g /\ phase' = "next" /\ UNCHANGED <<b, entry>>
  <2>1. TypeOK'
    BY <1>1, <1>7, <1>10 DEF TypeOK
  <2>2. CurvesInPlace'
    <3>1. ASSUME NEW j \in 1..n PROVE entry'[j] <= entry[j] /\ exit'[j] <= exit[j]
      BY <1>3, <1>4, <1>7, <1>8, <1>10 DEF x
    <3> QED  BY <1>1, <2>1, <3>1, LowerKeepsCurves
  <2>3. Settled' = 1..i
    BY <1>1, <1>10 DEF Settled
  <2>4. ASSUME NEW j \in 1..i PROVE Fits(j)'
    <3>1. j \in 1..n
      BY <1>2
    <3>2. CASE j = b
      <4>1. Difference(e, s) <= g
        BY <1>3, <1>4, <1>10 DEF Difference
      <4>2. entry'[j] = e /\ exit'[j] = s /\ Gain(j)' = g
        BY <1>5, <1>7, <1>10, <3>1, <3>2 DEF e, g
      <4> QED  BY <4>1, <4>2 DEF Fits
    <3>3. CASE j # b
      BY <1>5, <1>7, <1>9, <1>10, <3>1, <3>3 DEF Fits, SpeedsJoin
    <3> QED  BY <3>2, <3>3
  <2>5. ASSUME NEW j \in 1..n, j < n, j + 1 \in 1..i PROVE exit'[j] = entry[j + 1]
    <3>1. CASE j = b
      BY <1>7, <3>1 DEF s
    <3>2. CASE j # b
      BY <1>7, <1>9, <2>5, <3>2 DEF SpeedsJoin
    <3> QED  BY <3>1, <3>2
  <2>6. SpeedsJoin'
    BY <1>1, <1>10, <2>3, <2>4, <2>5 DEF SpeedsJoin
  <2> QED  BY <1>10, <2>1, <2>2, <2>6 DEF PlanSucceeds, SectionsValid
<1>11. CASE /\ e > s + g
            /\ entry' = [entry EXCEPT ![b] = s + g]
            /\ phase' = IF b = 1 THEN "failed" ELSE "back"
            /\ b' = b - 1
  <2> DEFINE v == s + g
  <2>1. v \in Nat /\ v < e /\ Difference(v, s) = g
    BY <1>3, <1>11 DEF Difference
  <2> HIDE DEF v
  <2>2. b # 1
    BY <1>3, <2>1 DEF SpeedsJoin, e
  <2>3. entry' = [entry EXCEPT ![b] = v] /\ phase' = "back" /\ b' = b - 1
    BY <1>11, <2>2 DEF v
  <2>4. b' \in 0..n /\ b' \in 1..(i - 1) /\ b' + 1 = b /\ b' \in 1..n /\ b' # b
        /\ b' < n /\ b \in 1..i
    BY <1>2, <2>2, <2>3
  <2>5. entry' \in [1..n -> Nat] /\ \A j \in 1..n : entry'[j] = IF j = b THEN v ELSE entry[j]
    BY <1>2, <2>1, <2>3 DEF TypeOK
  <2>6. TypeOK'
    BY <1>1, <1>7, <2>3, <2>4, <2>5 DEF TypeOK
  <2>7. CurvesInPlace'
    <3>1. ASSUME NEW j \in 1..n PROVE entry'[j] <= entry[j] /\ exit'[j] <= exit[j]
      BY <1>3, <1>4, <1>7, <1>8, <2>1, <2>5 DEF x, e
    <3> QED  BY <1>1, <2>6, <3>1, LowerKeepsCurves
  <2>8. Settled' = 1..i
    BY <1>1, <2>3 DEF Settled
  <2>9. ASSUME NEW j \in 1..i PROVE Fits(j)'
    <3>1. j \in 1..n
      BY <1>2
    <3>2. CASE j = b
      <4>1. entry'[j] = v /\ exit'[j] = s /\ Gain(j)' = g
        BY <1>5, <1>7, <2>5, <3>1, <3>2 DEF g
      <4> QED  BY <1>3, <2>1, <4>1 DEF Fits
    <3>3. CASE j # b
      BY <1>5, <1>7, <1>9, <2>5, <3>1, <3>3 DEF Fits, SpeedsJoin
    <3> QED  BY <3>2, <3>3
  <2>10. ASSUME NEW j \in 1..n, j < n, j + 1 \in 1..i, j # b'
         PROVE  exit'[j] = entry'[j + 1]
    <3>1. j + 1 # b /\ j + 1 \in 1..n
      BY <1>2, <2>3, <2>10
    <3>2. CASE j = b
      BY <1>7, <2>5, <3>1, <3>2 DEF s
    <3>3. CASE j # b
      BY <1>7, <1>9, <2>5, <2>10, <3>1, <3>3 DEF SpeedsJoin
    <3> QED  BY <3>2, <3>3
  <2>11. entry'[b' + 1] < exit'[b']
    <3>1. exit[b'] = entry[b' + 1]
      BY <1>9, <2>4 DEF SpeedsJoin
    <3>2. exit'[b'] = e
      BY <1>7, <2>4, <3>1 DEF e
    <3>3. entry'[b' + 1] = v
      BY <1>2, <2>4, <2>5
    <3> QED  BY <2>1, <3>2, <3>3
  <2>12. entry'[1] = 0
    <3>1. 1 \in 1..n
      BY <1>2
    <3> QED  BY <2>2, <2>5, <3>1 DEF SpeedsJoin
  <2>13. SpeedsJoin'
    BY <1>1, <2>3, <2>4, <2>8, <2>9, <2>10, <2>11, <2>12 DEF SpeedsJoin
  <2> QED  BY <2>3, <2>6, <2>7, <2>13 DEF PlanSucceeds, SectionsValid
<1> QED  BY <1>6, <1>10, <1>11

(* The next segment is entered as fast as the last curve is left. *)
LEMMA NextSegmentStep == IInv /\ InitializeNext => IInv'
<1> SUFFICES ASSUME IInv, InitializeNext PROVE IInv'
  OBVIOUS
<1> USE DEF IInv
<1>1. /\ UNCHANGED <<n, half, target, acc, sharp, cap, b, exit, reach, peak>>
      /\ UNCHANGED <<path, reach>> /\ phase = "next"
  BY DEF InitializeNext, path
<1>2. i \in 1..n /\ n \in Nat \ {0} /\ Settled = 1..i
  BY <1>1 DEF TypeOK, Settled
<1>3. \A j \in 1..n : Gain(j)' = Gain(j)
  BY <1>1, GainStays
<1>4. CASE i < n
  <2>1. entry' = [entry EXCEPT ![i + 1] = exit[i]] /\ i' = i + 1 /\ phase' = "curve"
    BY <1>4 DEF InitializeNext
  <2>2. i + 1 \in 1..n /\ i' \in 1..n /\ Settled' = 1..i /\ i' - 1 = i
    <3>1. i + 1 \in 1..n /\ i' - 1 = i
      BY <1>2, <1>4, <2>1
    <3> QED  BY <2>1, <3>1 DEF Settled
  <2>3. entry' \in [1..n -> Nat] /\ \A j \in 1..n : entry'[j] = IF j = i + 1 THEN exit[i] ELSE entry[j]
    BY <1>2, <2>1, <2>2 DEF TypeOK
  <2>4. TypeOK'
    BY <1>1, <2>1, <2>2, <2>3 DEF TypeOK
  <2>5. CurvesInPlace'
    BY <1>1, <1>2, <1>4, <2>3 DEF CurvesInPlace
  <2>6. ASSUME NEW j \in 1..i PROVE Fits(j)'
    <3>1. j \in 1..n /\ j # i + 1
      BY <1>2
    <3> QED  BY <1>1, <1>2, <1>3, <2>3, <3>1 DEF Fits, SpeedsJoin
  <2>7. ASSUME NEW j \in 1..n, j < n, j + 1 \in 1..i PROVE exit[j] = entry'[j + 1]
    <3>1. j + 1 \in 1..n /\ j + 1 # i + 1
      BY <1>2, <2>7
    <3> QED  BY <1>1, <1>2, <2>3, <2>7, <3>1, SMTT(20) DEF SpeedsJoin
  <2>8. entry'[1] = 0
    <3>1. 1 \in 1..n /\ 1 # i + 1
      BY <1>2
    <3> QED  BY <2>3, <3>1 DEF SpeedsJoin
  <2>9. exit[i' - 1] = entry'[i']
    BY <2>1, <2>2, <2>3
  <2>10. SpeedsJoin'
    BY <1>1, <2>1, <2>2, <2>6, <2>7, <2>8, <2>9 DEF SpeedsJoin
  <2> QED  BY <2>1, <2>4, <2>5, <2>10 DEF PlanSucceeds, SectionsValid
<1>5. CASE ~(i < n)
  <2>1. i' = 1 /\ phase' = "accelerate" /\ entry' = entry
    BY <1>5 DEF InitializeNext
  <2>2. i = n
    BY <1>2, <1>5
  <2>3. TypeOK'
    <3>1. 1 \in 1..n
      BY <1>2
    <3> QED  BY <1>1, <2>1, <3>1 DEF TypeOK
  <2>4. CurvesInPlace'
    BY <1>1, <2>1 DEF CurvesInPlace
  <2>5. Settled' = 1..i
    BY <1>1, <2>1, <2>2 DEF Settled
  <2>6. ASSUME NEW j \in 1..i PROVE Fits(j)'
    BY <1>1, <1>2, <1>3, <2>1, <2>2 DEF Fits, SpeedsJoin
  <2>7. SpeedsJoin'
    BY <1>1, <1>2, <2>1, <2>5, <2>6 DEF SpeedsJoin
  <2>8. SectionsValid'
    BY <2>1 DEF SectionsValid
  <2> QED  BY <2>1, <2>3, <2>4, <2>7, <2>8 DEF PlanSucceeds
<1> QED  BY <1>4, <1>5

(* A segment that fits its change of speed can be travelled at its peak    *)
(* speed: sane, and made of three sections that pass is_valid.             *)
LEMMA PeakSpeedIs ==
  ASSUME NEW e \in Nat, NEW x \in Nat, NEW g \in Nat, NEW t \in Nat,
         e <= t, x <= t, Difference(e, x) <= g
  PROVE  LET v == Least(2 * t, g + e + x)
         IN  /\ v \in Nat /\ 2 * e <= v /\ 2 * x <= v /\ v <= 2 * t
             /\ 2 * g - (v - 2 * e) - (v - 2 * x) >= 0
BY DEF Least, Difference

LEMMA Factor ==
  ASSUME NEW a \in Nat, NEW x \in Nat, NEW y \in Nat
  PROVE  2 * a * x - 2 * a * y = 2 * (a * (x - y))
OBVIOUS

(* compute_accelerations finds a sane segment, and leaves a valid one. *)
LEMMA AccelerateStep == IInv /\ ComputeAccelerations => IInv'
<1> SUFFICES ASSUME IInv, ComputeAccelerations PROVE IInv'
  OBVIOUS
<1> USE DEF IInv
<1> DEFINE v == IF Straight(i) = 0 THEN 2 * entry[i] ELSE PeakSpeed(i)
<1>1. /\ UNCHANGED <<n, half, target, acc, sharp, cap, b, entry, exit, reach>>
      /\ UNCHANGED <<path, reach>> /\ phase = "accelerate"
  BY DEF ComputeAccelerations, path
<1>2. i \in 1..n /\ n \in Nat \ {0} /\ Settled = 1..n
  BY <1>1 DEF TypeOK, Settled
<1>3. /\ entry[i] \in Nat /\ exit[i] \in Nat /\ target[i] \in Nat
      /\ entry[i] <= target[i] /\ exit[i] <= target[i]
  BY <1>2 DEF TypeOK, CurvesInPlace
<1>4. Straight(i) \in Nat /\ Gain(i) \in Nat /\ Difference(entry[i], exit[i]) <= Gain(i)
  BY <1>2, GainNat DEF SpeedsJoin, Fits
<1>5. Straight(i) = 0 => Gain(i) = 0 /\ entry[i] = exit[i]
  <2>1. acc[i] \in Nat
    BY <1>2 DEF TypeOK
  <2>2. Straight(i) = 0 => Gain(i) = 0
    BY <2>1 DEF Gain
  <2> QED  BY <1>3, <1>4, <2>2 DEF Difference
<1>6. /\ v \in Nat /\ 2 * entry[i] <= v /\ 2 * exit[i] <= v /\ v <= 2 * target[i]
      /\ 2 * Gain(i) - (v - 2 * entry[i]) - (v - 2 * exit[i]) >= 0
  <2>1. CASE Straight(i) = 0
    BY <1>3, <1>5, <2>1
  <2>2. CASE Straight(i) # 0
    BY <1>3, <1>4, <2>2, PeakSpeedIs DEF PeakSpeed
  <2> QED  BY <2>1, <2>2
<1>7. Sane(i, v)
  BY <1>3, <1>5, <1>6 DEF Sane
<1>8. /\ peak' = [peak EXCEPT ![i] = v]
      /\ phase' = IF i < n THEN "accelerate" ELSE "check"
      /\ i' = IF i < n THEN i + 1 ELSE i
  BY <1>7 DEF ComputeAccelerations
<1> HIDE DEF v
<1>9. peak' \in [1..n -> Nat] /\ \A j \in 1..n : peak'[j] = IF j = i THEN v ELSE peak[j]
  BY <1>2, <1>6, <1>8 DEF TypeOK
<1>10. i' \in 1..n
  BY <1>2, <1>8
<1>11. TypeOK'
  BY <1>1, <1>8, <1>9, <1>10 DEF TypeOK
<1>12. CurvesInPlace'
  BY <1>1 DEF CurvesInPlace
<1>13. SpeedsJoin'
  <2>1. Settled' = 1..n
    BY <1>1, <1>8 DEF Settled
  <2>2. ASSUME NEW j \in 1..n PROVE Fits(j)'
    <3>1. Gain(j)' = Gain(j)
      BY <1>1, GainStays
    <3> QED  BY <1>1, <1>2, <3>1 DEF Fits, SpeedsJoin
  <2> QED  BY <1>1, <1>2, <1>8, <2>1, <2>2 DEF SpeedsJoin
<1>14. ASSUME NEW j \in 1..n, j = i PROVE IsValid(j)'
  <2>1. /\ acc[j] \in Nat /\ half[j] \in Nat
        /\ reach[j] \in Nat /\ reach[j - 1] \in Nat /\ reach[j] <= half[j]
    <3>1. j \in 0..n /\ j - 1 \in 0..n
      BY <1>2
    <3> QED  BY <3>1 DEF TypeOK, CurvesInPlace
  <2> DEFINE from == 2 * acc[j] * reach[j - 1]
             to == 2 * acc[j] * (2 * half[j] - reach[j])
  <2>2. from \in Nat /\ to \in Nat /\ to - from = 2 * Gain(j)
    <3>1. 2 * half[j] - reach[j] \in Nat
      BY <2>1
    <3> DEFINE y == 2 * half[j] - reach[j]
    <3> HIDE DEF y
    <3>2. /\ 2 * acc[j] * reach[j - 1] \in Nat /\ 2 * acc[j] * y \in Nat
          /\ 2 * acc[j] * y - 2 * acc[j] * reach[j - 1] = 2 * (acc[j] * (y - reach[j - 1]))
      BY <2>1, <3>1, Factor DEF y
    <3>3. Straight(j) = y - reach[j - 1]
      BY <2>1 DEF Straight, y
    <3> QED  BY <3>2, <3>3 DEF Gain, y
  <2> HIDE DEF from, to
  <2>3. peak'[j] = v /\ entry[j] = entry[i] /\ exit[j] = exit[i] /\ target[j] = target[i]
        /\ Gain(j) = Gain(i)
    BY <1>9, <1>14
  <2>4. Sections(j)' =
          [accelerate |-> [p0 |-> from, p1 |-> from + (v - 2 * entry[j]),
                           v0 |-> 2 * entry[j], v1 |-> v],
           travel |-> [p0 |-> from + (v - 2 * entry[j]), p1 |-> to - (v - 2 * exit[j]),
                       v0 |-> v, v1 |-> v],
           decelerate |-> [p0 |-> to - (v - 2 * exit[j]), p1 |-> to,
                           v0 |-> v, v1 |-> 2 * exit[j]]]
    BY <1>1, <2>3 DEF Sections, from, to
  <2>5. /\ from <= from + (v - 2 * entry[j])
        /\ from + (v - 2 * entry[j]) <= to - (v - 2 * exit[j])
        /\ to - (v - 2 * exit[j]) <= to
        /\ 2 * entry[j] <= v /\ 2 * exit[j] <= v
        /\ v <= 2 * target[j] /\ 2 * entry[j] <= 2 * target[j] /\ 2 * exit[j] <= 2 * target[j]
    BY <1>3, <1>4, <1>6, <2>2, <2>3
  <2>6. to = (2 * acc[j] * (2 * half[j] - reach[j]))' /\ (2 * exit[j])' = 2 * exit[j]
        /\ (2 * target[j])' = 2 * target[j]
    BY <1>1 DEF to
  <2> QED  BY <2>4, <2>5, <2>6 DEF IsValid
<1>15. ASSUME NEW j \in 1..n, j # i, IsValid(j) PROVE IsValid(j)'
  <2>1. peak'[j] = peak[j]
    BY <1>9, <1>15
  <2>2. Sections(j)' = Sections(j)
    BY <1>1, <2>1 DEF Sections
  <2> QED  BY <1>1, <1>15, <2>2 DEF IsValid
<1>16. SectionsValid'
  <2>1. ASSUME NEW j \in 1..i PROVE IsValid(j)'
    <3>1. j \in 1..n /\ (j # i => j \in 1..(i - 1))
      BY <1>2
    <3>2. j # i => IsValid(j)
      BY <1>1, <3>1 DEF SectionsValid
    <3> QED  BY <1>14, <1>15, <3>1, <3>2
  <2>2. CASE i < n
    <3>1. phase' = "accelerate" /\ 1..(i' - 1) = 1..i
      BY <1>2, <1>8, <2>2
    <3> QED  BY <2>1, <3>1 DEF SectionsValid
  <2>3. CASE ~(i < n)
    <3>1. phase' = "check" /\ n' = i
      BY <1>1, <1>2, <1>8, <2>3
    <3> QED  BY <2>1, <3>1 DEF SectionsValid
  <2> QED  BY <2>2, <2>3
<1> QED  BY <1>8, <1>11, <1>12, <1>13, <1>16 DEF PlanSucceeds

(* check_script finds nothing to complain about. *)
LEMMA CheckStep == IInv /\ CheckScript => IInv'
<1> SUFFICES ASSUME IInv, CheckScript PROVE IInv'
  OBVIOUS
<1> USE DEF IInv
<1>1. /\ UNCHANGED <<n, half, target, acc, sharp, cap, i, b, entry, exit, reach, peak>>
      /\ phase = "check" /\ phase' = "ready"
  BY DEF CheckScript, path, SectionsValid
<1>2. ASSUME NEW j \in 1..n PROVE IsValid(j)' /\ Fits(j)'
  <2>1. IsValid(j) /\ Fits(j)
    BY <1>1 DEF SectionsValid, SpeedsJoin, Settled
  <2> QED  BY <1>1, <2>1, SMTT(20) DEF IsValid, Sections, Fits, Gain, Straight
<1>3. TypeOK' /\ CurvesInPlace'
  BY <1>1 DEF TypeOK, CurvesInPlace
<1>4. SpeedsJoin'
  BY <1>1, <1>2 DEF SpeedsJoin, Settled
<1> QED  BY <1>1, <1>2, <1>3, <1>4 DEF PlanSucceeds, SectionsValid

-----------------------------------------------------------------------------
(* The invariant holds in every state: the speeds of the segments that     *)
(* have been dealt with fit and join, through every back propagation.      *)
THEOREM Invariance == Spec => []IInv
<1>1. IInv /\ [Next]_vars => IInv'
  <2> SUFFICES ASSUME IInv, [Next]_vars PROVE IInv'
    OBVIOUS
  <2>1. CASE UNCHANGED vars
    <3>1. UNCHANGED <<n, half, target, acc, sharp, cap, phase, i, b, entry, exit, reach, peak>>
      BY <2>1 DEF vars, path
    <3>2. Settled' = Settled
      BY <3>1 DEF Settled
    <3>3. ASSUME NEW j \in 1..n PROVE Fits(j)' = Fits(j) /\ IsValid(j)' = IsValid(j)
      BY <3>1 DEF Fits, Gain, Straight, IsValid, Sections
    <3>4. TypeOK' /\ PlanSucceeds' /\ CurvesInPlace'
      <4>1. TypeOK /\ PlanSucceeds /\ CurvesInPlace
        BY DEF IInv
      <4>2. TypeOK'
        BY <3>1, <4>1 DEF TypeOK
      <4>3. PlanSucceeds' /\ CurvesInPlace'
        BY <3>1, <4>1 DEF PlanSucceeds, CurvesInPlace
      <4> QED  BY <4>2, <4>3
    <3>5. Settled \subseteq 1..n /\ 1..(i - 1) \subseteq 1..n
      BY SMTT(20) DEF IInv, TypeOK, Settled
    <3>6. SpeedsJoin'
      <4>1. \A j \in Settled : Fits(j)'
        BY <3>3, <3>5 DEF IInv, SpeedsJoin
      <4> QED  BY <3>1, <3>2, <4>1 DEF IInv, SpeedsJoin
    <3>7. SectionsValid'
      BY <3>1, <3>3, <3>5 DEF IInv, SectionsValid
    <3> QED  BY <3>4, <3>6, <3>7 DEF IInv
  <2> QED  BY <2>1, CurveStep, UpdateStep, BackStep, NextSegmentStep, AccelerateStep,
             CheckStep DEF Next
<1> QED  BY <1>1, InitIInv, PTL DEF Spec

(* No path makes a sanity check throw or yields a script that is refused:  *)
(* SmoothPath::convert, ATDC::compute_accelerations and CNC::check_script. *)
THEOREM Succeeds == Spec => []PlanSucceeds
<1>1. IInv => PlanSucceeds
  BY DEF IInv
<1> QED  BY <1>1, Invariance, PTL

-----------------------------------------------------------------------------
(* The fastest speeds.  Speed(j) is that at the end of segment j, squared;  *)
(* at the start it is 0.  P holds what can be gained on the segments up to  *)
(* each: Sums(P, m).  Every speed that has been settled is the limit of     *)
(* some curve, with what can be gained between that curve and this one; and *)
(* while a slower entry goes back, the limit is that of the last curve.     *)

Speed(j) == IF j = 0 THEN 0 ELSE exit[j]

Sums(P, m) ==
  /\ P \in [0..m -> Nat] /\ P[0] = 0
  /\ \A k \in 1..m : P[k] = P[k - 1] + Gain(k)

Limited(P, m, j) == \E k \in 0..m : Speed(j) = CurveLimit(k) + Difference(P[j], P[k])

Last == IF phase \in {"curve", "speeds"} THEN i - 1
        ELSE IF phase \in {"back", "next"} THEN i ELSE n

Tight ==
  /\ \A j \in 1..n : /\ exit[j] <= CurveLimit(j)
                     /\ phase = "speeds" /\ j = i => exit[j] = CurveLimit(j)
  /\ \A m \in 0..n : \A P : m = Last /\ Sums(P, m) =>
       \A j \in 0..m : Limited(P, m, j) \/ (phase = "back" /\ j = b)
  /\ \A m \in 0..n : \A P : m = Last /\ Sums(P, m) =>
       \A a \in 1..n : phase = "back" /\ a = b =>
         entry[a + 1] = CurveLimit(m) + Difference(P[a], P[m])

LEMMA LimitNat == ASSUME TypeOK, NEW j \in 0..n PROVE CurveLimit(j) \in Nat
<1>1. n \in Nat \ {0}
  BY DEF TypeOK
<1>2. CASE j = 0 \/ j = n
  BY <1>2 DEF CurveLimit
<1>3. CASE j # 0 /\ j # n
  <2>1. j \in 1..n /\ j < n
    BY <1>1, <1>3
  <2>2. CurveSpeed(j) \in Nat /\ Room(j) \in Nat /\ sharp[j] \in Nat
    BY <2>1, CurveSpeedIs
  <2>3. CASE sharp[j] * CurveSpeed(j) <= Room(j)
    BY <1>3, <2>2, <2>3 DEF CurveLimit
  <2>4. CASE sharp[j] * CurveSpeed(j) > Room(j)
    <3>1. Room(j) \div sharp[j] \in Nat
      BY <2>2, <2>4, Tightened
    <3>2. ~ (sharp[j] * CurveSpeed(j) <= Room(j))
      BY <2>2, <2>4
    <3> QED  BY <1>3, <3>1, <3>2 DEF CurveLimit
  <2> QED  BY <2>2, <2>3, <2>4
<1> QED  BY <1>2, <1>3

LEMMA LimitStays ==
  ASSUME UNCHANGED path, NEW j
  PROVE  CurveLimit(j)' = CurveLimit(j)
BY DEF path, CurveLimit, CurveSpeed, Room

(* Sums only grow. *)
LEMMA SumsGrow ==
  ASSUME TypeOK, CurvesInPlace, NEW m \in 0..n, NEW P, Sums(P, m)
  PROVE  \A j \in 0..m : \A k \in 0..j : P[k] <= P[j]
<1>1. n \in Nat /\ m \in Nat
  BY DEF TypeOK
<1>2. \A k \in 1..m : Gain(k) \in Nat
  <2> SUFFICES ASSUME NEW k \in 1..m PROVE Gain(k) \in Nat
    OBVIOUS
  <2>1. k \in 1..n
    BY <1>1
  <2> QED  BY <2>1, GainNat
<1>3. \A k \in 0..m : P[k] \in Nat
  BY DEF Sums
<1> DEFINE T == {j \in 0..m : \A k \in 0..j : P[k] <= P[j]}
<1>4. 0 \in T
  BY <1>1, <1>3
<1>5. ASSUME NEW j \in 0..m, j \in T, j < m
      PROVE  j + 1 \in T
  <2>1. j + 1 \in 1..m /\ P[j + 1] = P[j] + Gain(j + 1) /\ P[j] \in Nat /\ P[j + 1] \in Nat
    <3>1. j + 1 \in 1..m /\ (j + 1) - 1 = j
      BY <1>1, <1>5
    <3> QED  BY <1>3, <3>1 DEF Sums
  <2>2. P[j] <= P[j + 1]
    BY <1>2, <2>1
  <2>3. ASSUME NEW k \in 0..j + 1 PROVE P[k] <= P[j + 1]
    <3>1. CASE k = j + 1
      BY <2>1, <3>1
    <3>2. CASE k # j + 1
      <4>1. k \in 0..j /\ k \in 0..m
        BY <1>1, <3>2
      <4>2. P[k] <= P[j] /\ P[k] \in Nat
        BY <1>3, <1>5, <4>1
      <4> QED  BY <2>1, <2>2, <4>2
    <3> QED  BY <3>1, <3>2
  <2> QED  BY <1>1, <2>1, <2>3
<1> HIDE DEF T
<1>6. \A j \in 0..m : j \in T
  BY <1>1, <1>4, <1>5, Climb
<1> QED  BY <1>6 DEF T

LEMMA TightInit == Init => Tight
<1> SUFFICES ASSUME Init PROVE Tight
  OBVIOUS
<1>1. IInv
  BY InitIInv
<1>2. TypeOK /\ Last = 0 /\ phase = "curve"
  BY <1>1 DEF IInv, Init, Last
<1>3. \A j \in 1..n : exit[j] <= CurveLimit(j)
  <2> SUFFICES ASSUME NEW j \in 1..n PROVE exit[j] <= CurveLimit(j)
    OBVIOUS
  <2>1. j \in 0..n /\ exit[j] = 0
    BY DEF Init
  <2> QED  BY <1>2, <2>1, LimitNat
<1>4. ASSUME NEW P, Sums(P, 0) PROVE Limited(P, 0, 0)
  <2>1. P[0] = 0
    BY <1>4 DEF Sums
  <2>2. CurveLimit(0) = 0
    BY DEF CurveLimit
  <2>3. Difference(P[0], P[0]) = 0
    BY <2>1 DEF Difference
  <2> QED  BY <2>2, <2>3 DEF Limited, Speed
<1> QED  BY <1>2, <1>3, <1>4 DEF Tight

(* With the gains of the first m segments the sums stay the same, and so    *)
(* does what limits a speed that stays.                                     *)
LEMMA SumsStay ==
  ASSUME NEW m, NEW P, \A k \in 1..m : Gain(k)' = Gain(k)
  PROVE  Sums(P, m)' <=> Sums(P, m)
BY DEF Sums

LEMMA LimitedStays ==
  ASSUME UNCHANGED path, NEW P, NEW m, NEW j, Speed(j)' = Speed(j), Limited(P, m, j)
  PROVE  Limited(P, m, j)'
BY LimitStays DEF Limited, Difference

(* compute_curve: the speed in the curve is its limit.                      *)
LEMMA TightCurve == IInv /\ Tight /\ ComputeCurve => Tight'
<1> SUFFICES ASSUME IInv, Tight, ComputeCurve PROVE Tight'
  OBVIOUS
<1>1. /\ UNCHANGED path /\ UNCHANGED <<n, i, b, entry, half, acc, sharp>>
      /\ phase = "curve" /\ phase' = "speeds"
  BY DEF ComputeCurve, path
<1>2. TypeOK /\ i \in 1..n /\ n \in Nat \ {0} /\ i \in 0..n
  <2>1. TypeOK /\ i \in 1..n /\ n \in Nat \ {0}
    BY DEF IInv, TypeOK
  <2> QED  BY <2>1
<1>3. Last = i - 1 /\ Last' = i - 1
  BY <1>1 DEF Last
<1>9. \A j \in 1..n : exit[j] <= CurveLimit(j)
  BY Zenon DEF Tight
<1>4. /\ \A j \in 1..n : j # i => exit'[j] = exit[j]
      /\ \A j \in 0..n : j # i => reach'[j] = reach[j]
      /\ i < n => exit'[i] = CurveLimit(i)
      /\ i = n => exit' = exit
  <2>1. CASE i = n /\ UNCHANGED <<exit, reach>>
    BY <1>2, <2>1
  <2>2. CASE /\ i < n /\ sharp[i] * CurveSpeed(i) <= Room(i)
             /\ exit' = [exit EXCEPT ![i] = CurveSpeed(i)]
             /\ reach' = [reach EXCEPT ![i] = sharp[i] * CurveSpeed(i)]
    <3>1. CurveLimit(i) = CurveSpeed(i)
      BY <1>2, <2>2 DEF CurveLimit
    <3> QED  BY <1>2, <2>2, <3>1 DEF TypeOK
  <2>3. CASE /\ i < n /\ sharp[i] * CurveSpeed(i) > Room(i)
             /\ exit' = [exit EXCEPT ![i] = Room(i) \div sharp[i]]
             /\ reach' = [reach EXCEPT ![i] = Room(i)]
    <3>1. CurveSpeed(i) \in Nat /\ Room(i) \in Nat /\ sharp[i] \in Nat
      BY <1>2, <2>3, CurveSpeedIs
    <3>2. ~ (sharp[i] * CurveSpeed(i) <= Room(i))
      BY <2>3, <3>1
    <3>3. CurveLimit(i) = Room(i) \div sharp[i]
      BY <1>2, <2>3, <3>2 DEF CurveLimit
    <3> QED  BY <1>2, <2>3, <3>3 DEF TypeOK
  <2> QED  BY <2>1, <2>2, <2>3 DEF ComputeCurve
<1>5. exit'[i] = CurveLimit(i)
  <2>1. CASE i = n
    <3>1. CurveLimit(i) = 0 /\ exit[i] <= 0 /\ exit[i] \in Nat
      BY <1>2, <1>9, <2>1 DEF CurveLimit, TypeOK
    <3> QED  BY <1>4, <2>1, <3>1
  <2> QED  BY <1>2, <1>4, <2>1
<1>6. \A j \in 1..n : exit'[j] <= CurveLimit(j)
  <2> SUFFICES ASSUME NEW j \in 1..n PROVE exit'[j] <= CurveLimit(j)
    OBVIOUS
  <2>1. j = i => CurveLimit(j) \in Nat
    BY <1>2, LimitNat
  <2> QED  BY <1>4, <1>5, <1>9, <2>1
<1>7. ASSUME NEW m \in 0..n, m = i - 1, NEW P, Sums(P, m)', NEW j \in 0..m
      PROVE  Limited(P, m, j)'
  <2>1. Sums(P, m)
    <3>1. ASSUME NEW k \in 1..m PROVE Gain(k)' = Gain(k)
      <4>1. k \in 0..n /\ k - 1 \in 0..n /\ k # i /\ k - 1 # i
        BY <1>2, <1>7
      <4>2. reach'[k] = reach[k] /\ reach'[k - 1] = reach[k - 1]
        BY <1>4, <4>1
      <4> QED  BY <1>1, <4>2 DEF Gain, Straight
    <3> QED  BY <1>7, <3>1, SumsStay
  <2>2. Limited(P, m, j)
    BY <1>1, <1>3, <1>7, <2>1 DEF Tight
  <2>3. Speed(j)' = Speed(j)
    <3>1. j # 0 => j \in 1..n /\ j # i
      BY <1>2, <1>7
    <3> QED  BY <1>4, <3>1 DEF Speed
  <2> QED  BY <1>1, <2>2, <2>3, LimitedStays
<1>8. \A j : CurveLimit(j)' = CurveLimit(j)
  BY <1>1, LimitStays
<1> QED  BY <1>1, <1>2, <1>3, <1>5, <1>6, <1>7, <1>8 DEF Tight

(* What limits a settled speed still does when one more segment is settled. *)
LEMMA LimitedBefore ==
  ASSUME TypeOK, Tight, phase = "speeds", NEW m \in 1..n, m = i, NEW P, Sums(P, m),
         NEW j \in 0..(m - 1)
  PROVE  \E k \in 0..(m - 1) : Speed(j) = CurveLimit(k) + Difference(P[j], P[k])
<1> DEFINE Q == [k \in 0..(m - 1) |-> P[k]]
<1>1. m \in Nat /\ m - 1 \in 0..n /\ Last = m - 1
  BY DEF TypeOK, Last
<1>2. Sums(Q, m - 1)
  <2>1. P \in [0..m -> Nat] /\ P[0] = 0 /\ \A k \in 1..m : P[k] = P[k - 1] + Gain(k)
    BY DEF Sums
  <2>2. Q \in [0..(m - 1) -> Nat] /\ Q[0] = 0
    BY <1>1, <2>1
  <2>3. ASSUME NEW k \in 1..(m - 1) PROVE Q[k] = Q[k - 1] + Gain(k)
    BY <1>1, <2>1
  <2> QED  BY <2>2, <2>3 DEF Sums
<1>3. \A k \in 0..(m - 1) : Q[k] = P[k]
  OBVIOUS
<1> HIDE DEF Q
<1>4. Limited(Q, m - 1, j)
  BY <1>1, <1>2 DEF Tight
<1>5. PICK k \in 0..(m - 1) : Speed(j) = CurveLimit(k) + Difference(Q[j], Q[k])
  BY <1>4 DEF Limited
<1> QED  BY <1>3, <1>5

(* update_speeds_if_needed: the segment is left at its own limit, or as     *)
(* fast as the segments before it let it; or it is entered as slowly as its *)
(* own limit asks for.                                                      *)
LEMMA TightUpdate == IInv /\ Tight /\ UpdateSpeeds => Tight'
<1> SUFFICES ASSUME IInv, Tight, UpdateSpeeds PROVE Tight'
  OBVIOUS
<1>1. /\ UNCHANGED path /\ UNCHANGED <<path, reach>> /\ UNCHANGED <<n, i>>
      /\ phase = "speeds" /\ phase' # "speeds"
  BY DEF UpdateSpeeds, path
<1>2. TypeOK /\ CurvesInPlace /\ i \in 1..n /\ n \in Nat \ {0} /\ i \in 0..n
  <2>1. TypeOK /\ CurvesInPlace /\ i \in 1..n /\ n \in Nat \ {0}
    BY DEF IInv, TypeOK
  <2> QED  BY <2>1
<1>3. phase' \in {"back", "next"} /\ Last' = i
  <2>1. phase' \in {"back", "next"}
    <3>1. i # 1 \/ phase' # "failed"
      <4>1. IInv'
        BY UpdateStep
      <4> QED  BY <4>1 DEF IInv, PlanSucceeds
    <3> QED  BY <3>1 DEF UpdateSpeeds
  <2> QED  BY <1>1, <2>1 DEF Last
<1>4. \A j : CurveLimit(j)' = CurveLimit(j)
  BY <1>1, LimitStays
<1>5. \A j \in 1..n : exit[j] <= CurveLimit(j) /\ exit[j] \in Nat /\ entry[j] \in Nat
  <2>1. \A j \in 1..n : exit[j] <= CurveLimit(j)
    BY Zenon DEF Tight
  <2> QED  BY <1>2, <2>1 DEF TypeOK
<1>6. exit[i] = CurveLimit(i)
  BY <1>1, <1>2 DEF Tight
<1>7. Gain(i) \in Nat
  BY <1>2, GainNat
<1>8. \A j \in 1..n : /\ j # i => exit'[j] = exit[j]
                      /\ exit'[j] <= CurveLimit(j)
  <2>1. CASE UNCHANGED exit
    BY <1>5, <2>1
  <2>2. CASE /\ ~Fits(i) /\ entry[i] < exit[i]
             /\ exit' = [exit EXCEPT ![i] = entry[i] + Gain(i)]
    <3>1. entry[i] + Gain(i) <= exit[i] /\ entry[i] + Gain(i) \in Nat
      BY <1>2, <1>5, <1>7, <2>2 DEF Fits, Difference
    <3>2. exit'[i] = entry[i] + Gain(i) /\ \A j \in 1..n : j # i => exit'[j] = exit[j]
      BY <1>2, <2>2 DEF TypeOK
    <3>3. exit'[i] <= CurveLimit(i)
      BY <1>2, <1>5, <1>6, <3>1, <3>2
    <3> QED  BY <1>5, <3>2, <3>3
  <2> QED  BY <2>1, <2>2 DEF UpdateSpeeds
<1>9. ASSUME NEW m \in 0..n, m = i, NEW P, Sums(P, m)'
      PROVE  /\ \A j \in 0..m : Limited(P, m, j)' \/ (phase' = "back" /\ j = b')
             /\ \A a \in 1..n : phase' = "back" /\ a = b' =>
                  entry'[a + 1] = CurveLimit(m) + Difference(P[a], P[m])
  <2>1. Sums(P, m) /\ m \in 1..n
    <3>1. ASSUME NEW k \in 1..m PROVE Gain(k)' = Gain(k)
      <4>1. k \in 1..n
        BY <1>2, <1>9
      <4> QED  BY <1>1, <1>2, <4>1, GainStays
    <3> QED  BY <1>2, <1>9, <3>1, SumsStay
  <2>2. /\ \A k \in 0..m : P[k] \in Nat
        /\ P[m] = P[m - 1] + Gain(m) /\ m - 1 \in 0..m
    BY <1>2, <1>9, <2>1 DEF Sums
  <2>3. ASSUME NEW j \in 0..(m - 1) PROVE Limited(P, m, j)'
    <3>1. j # 0 => j \in 1..n /\ j # i
      BY <1>2, <1>9
    <3>2. Speed(j)' = Speed(j)
      BY <1>8, <3>1 DEF Speed
    <3>3. \E k \in 0..(m - 1) : Speed(j) = CurveLimit(k) + Difference(P[j], P[k])
      BY <1>1, <1>2, <1>9, <2>1, LimitedBefore
    <3>4. Limited(P, m, j)
      BY <1>2, <1>9, <3>3 DEF Limited
    <3> QED  BY <1>1, <3>2, <3>4, LimitedStays
  <2>4. ASSUME exit'[m] = CurveLimit(m) PROVE Limited(P, m, m)'
    <3>1. Difference(P[m], P[m]) = 0 /\ CurveLimit(m) \in Nat
      BY <1>2, <2>1, <2>2, LimitNat DEF Difference
    <3>2. Speed(m)' = CurveLimit(m)' + Difference(P[m], P[m])
      BY <1>4, <2>1, <2>4, <3>1 DEF Speed
    <3>3. m \in 0..m
      BY <1>2, <1>9
    <3> QED  BY <3>2, <3>3 DEF Limited, Difference
  <2>5. \A j \in 0..m : j = m \/ j \in 0..(m - 1)
    BY <1>2, <1>9
  <2>6. CASE Fits(i) /\ phase' = "next" /\ UNCHANGED <<b, entry, exit>>
    BY <1>6, <1>9, <2>3, <2>4, <2>5, <2>6
  <2>7. CASE /\ ~Fits(i) /\ entry[i] < exit[i]
             /\ exit' = [exit EXCEPT ![i] = entry[i] + Gain(i)]
             /\ phase' = "next"
             /\ UNCHANGED <<b, entry>>
    <3>1. entry[i] = Speed(m - 1)
      <4>1. CASE i = 1
        BY <1>9, <4>1 DEF Speed, IInv, SpeedsJoin
      <4>2. CASE i > 1
        BY <1>1, <1>2, <1>9, <4>2 DEF Speed, IInv, SpeedsJoin
      <4> QED  BY <1>2, <4>1, <4>2
    <3>2. PICK k \in 0..(m - 1) : Speed(m - 1) = CurveLimit(k) + Difference(P[m - 1], P[k])
      <4>1. m - 1 \in 0..(m - 1)
        BY <1>2, <1>9
      <4> QED  BY <1>1, <1>2, <1>9, <2>1, <4>1, LimitedBefore
    <3>3. k \in 0..m /\ k \in 0..n /\ P[k] <= P[m - 1]
      <4>1. k \in 0..m /\ k \in 0..n
        BY <1>2, <1>9
      <4> QED  BY <1>2, <2>1, <2>2, <4>1, SumsGrow
    <3>4. Gain(m) \in Nat /\ CurveLimit(k) \in Nat
      BY <1>2, <1>7, <1>9, <3>3, LimitNat
    <3>5. exit'[m] = CurveLimit(k) + Difference(P[m], P[k])
      <4>1. exit'[m] = entry[m] + Gain(m)
        BY <1>2, <1>9, <2>7 DEF TypeOK
      <4>2. Difference(P[m], P[k]) = Difference(P[m - 1], P[k]) + Gain(m)
        BY <2>2, <3>3, <3>4 DEF Difference
      <4>3. Difference(P[m - 1], P[k]) \in Int
        BY <2>2, <3>3 DEF Difference
      <4> QED  BY <1>9, <3>1, <3>2, <3>4, <4>1, <4>2, <4>3
    <3>6. Speed(m)' = CurveLimit(k)' + Difference(P[m], P[k])
      BY <1>2, <1>4, <1>9, <3>5 DEF Speed
    <3>7. Limited(P, m, m)'
      BY <3>3, <3>6 DEF Limited, Difference
    <3> QED  BY <2>3, <2>5, <2>7, <3>7
  <2>8. CASE /\ ~Fits(i) /\ entry[i] > exit[i]
             /\ entry' = [entry EXCEPT ![i] = exit[i] + Gain(i)]
             /\ phase' = IF i = 1 THEN "failed" ELSE "back"
             /\ b' = i - 1
             /\ UNCHANGED exit
    <3>1. entry'[i] = CurveLimit(m) + Gain(m)
      BY <1>2, <1>6, <1>9, <2>8 DEF TypeOK
    <3>2. Difference(P[m - 1], P[m]) = Gain(m)
      BY <1>7, <1>9, <2>2 DEF Difference
    <3> QED  BY <1>2, <1>6, <1>9, <2>3, <2>4, <2>5, <2>8, <3>1, <3>2
  <2> QED  BY <2>6, <2>7, <2>8 DEF UpdateSpeeds
<1>10. ASSUME NEW m \in 0..n, NEW P, m = Last', Sums(P, m)'
       PROVE  /\ \A j \in 0..m : Limited(P, m, j)' \/ (phase' = "back" /\ j = b')
              /\ \A a \in 1..n : phase' = "back" /\ a = b' =>
                   entry'[a + 1] = CurveLimit(m)' + Difference(P[a], P[m])
  BY <1>3, <1>4, <1>9, <1>10
<1>11. (\A j \in 1..n : /\ exit[j] <= CurveLimit(j)
                        /\ phase = "speeds" /\ j = i => exit[j] = CurveLimit(j))'
  <2>1. \A j \in 1..n : exit'[j] <= CurveLimit(j)'
    <3> SUFFICES ASSUME NEW j \in 1..n PROVE exit'[j] <= CurveLimit(j)'
      OBVIOUS
    <3>1. CurveLimit(j)' = CurveLimit(j)
      BY <1>4
    <3> QED  BY <1>8, <3>1
  <2> QED  BY <1>1, <2>1
<1>12. (\A m \in 0..n : \A P : m = Last /\ Sums(P, m) =>
          \A j \in 0..m : Limited(P, m, j) \/ (phase = "back" /\ j = b))'
  BY <1>1, <1>10
<1>13. (\A m \in 0..n : \A P : m = Last /\ Sums(P, m) =>
          \A a \in 1..n : phase = "back" /\ a = b =>
            entry[a + 1] = CurveLimit(m) + Difference(P[a], P[m]))'
  BY <1>1, <1>10 DEF Difference
<1> QED  BY <1>11, <1>12, <1>13 DEF Tight

(* back_propagate_speed_change: the slower entry becomes the speed of the   *)
(* curve before it, and what the segment before can be entered with then is *)
(* the same limit, further away.                                            *)
LEMMA TightBack == IInv /\ Tight /\ BackPropagate => Tight'
<1> SUFFICES ASSUME IInv, Tight, BackPropagate PROVE Tight'
  OBVIOUS
<1>1. /\ UNCHANGED <<path, reach>> /\ UNCHANGED <<n, i>> /\ phase = "back" /\ Last = i
      /\ i \in 1..n /\ n \in Nat \ {0} /\ b \in 1..(i - 1) /\ b \in 1..n /\ i \in 0..n
  <2>1. i \in 1..n => i \in 0..n
    OBVIOUS
  <2> QED  BY <2>1, BackIs DEF Last
<1>2. TypeOK /\ CurvesInPlace
  BY DEF IInv
<1>3. /\ entry[b + 1] < exit[b] /\ entry[b + 1] \in Nat /\ Gain(b) \in Nat
      /\ \A j \in 1..n : exit'[j] = IF j = b THEN entry[b + 1] ELSE exit[j]
      /\ \/ phase' = "next"
         \/ phase' = "back" /\ b' = b - 1 /\ entry'[b] = entry[b + 1] + Gain(b)
  <2>1. b # 1 \/ phase' # "failed"
    <3>1. IInv'
      BY BackStep
    <3> QED  BY <3>1 DEF IInv, PlanSucceeds
  <2> QED  BY <1>2, <2>1, BackIs DEF TypeOK
<1>4. Last' = i /\ phase' # "speeds"
  BY <1>1, <1>3 DEF Last
<1>5. \A j : CurveLimit(j)' = CurveLimit(j)
  BY <1>1, LimitStays
<1>6. \A j \in 1..n : exit'[j] <= CurveLimit(j)
  <2> SUFFICES ASSUME NEW j \in 1..n PROVE exit'[j] <= CurveLimit(j)
    OBVIOUS
  <2>1. exit[j] <= CurveLimit(j)
    BY Zenon DEF Tight
  <2>2. j \in 0..n
    BY <1>1
  <2>3. CurveLimit(j) \in Nat /\ exit[j] \in Nat
    BY <1>2, <2>2, LimitNat DEF TypeOK
  <2> QED  BY <1>3, <2>1, <2>3
<1>7. ASSUME NEW m \in 0..n, m = i, NEW P, Sums(P, m)'
      PROVE  /\ \A j \in 0..m : Limited(P, m, j)'
             /\ phase' = "back" =>
                  entry'[b] = CurveLimit(m) + Difference(P[b - 1], P[m])
  <2>1. Sums(P, m) /\ m \in 1..n
    <3>1. ASSUME NEW k \in 1..m PROVE Gain(k)' = Gain(k)
      <4>1. k \in 1..n
        BY <1>1, <1>7
      <4> QED  BY <1>1, <1>2, <4>1, GainStays
    <3> QED  BY <1>1, <1>7, <3>1, SumsStay
  <2>2. entry[b + 1] = CurveLimit(m) + Difference(P[b], P[m])
    BY <1>1, <1>7, <2>1 DEF Tight
  <2>3. ASSUME NEW j \in 0..m, j # b PROVE Limited(P, m, j)'
    <3>1. j # 0 => j \in 1..n
      BY <1>1, <1>7
    <3>2. Speed(j)' = Speed(j)
      BY <1>3, <2>3, <3>1 DEF Speed
    <3>3. Limited(P, m, j)
      BY <1>1, <1>7, <2>1, <2>3 DEF Tight
    <3> QED  BY <1>1, <3>2, <3>3, LimitedStays
  <2>4. ASSUME NEW j \in 0..m, j = b PROVE Limited(P, m, j)'
    <3>1. j # 0 /\ m \in 0..m
      BY <1>1, <1>7, <2>4
    <3>2. exit'[j] = entry[b + 1]
      BY <1>1, <1>3, <2>4
    <3>3. Speed(j)' = CurveLimit(m)' + Difference(P[j], P[m])
      BY <1>5, <2>2, <2>4, <3>1, <3>2 DEF Speed
    <3> QED  BY <3>1, <3>3 DEF Limited, Difference
  <2>5. ASSUME phase' = "back"
        PROVE  entry'[b] = CurveLimit(m) + Difference(P[b - 1], P[m])
    <3>1. b \in 1..m /\ b \in 0..m /\ m \in 0..m /\ m \in 0..n
      BY <1>1, <1>7
    <3>2. P[b] \in Nat /\ P[b - 1] \in Nat /\ P[m] \in Nat /\ P[b] = P[b - 1] + Gain(b)
      <4>1. b - 1 \in 0..m
        BY <3>1
      <4> QED  BY <2>1, <3>1, <4>1 DEF Sums
    <3>3. P[b] <= P[m]
      BY <1>2, <2>1, <3>1, SumsGrow
    <3>4. Difference(P[b - 1], P[m]) = Difference(P[b], P[m]) + Gain(b)
          /\ Difference(P[b], P[m]) \in Int
      BY <1>3, <3>2, <3>3 DEF Difference
    <3>5. CurveLimit(m) \in Nat
      BY <1>2, <3>1, LimitNat
    <3>6. entry'[b] = entry[b + 1] + Gain(b)
      BY <1>3, <2>5
    <3> QED  BY <1>3, <2>2, <3>4, <3>5, <3>6
  <2> QED  BY <2>3, <2>4, <2>5
<1>8. (\A j \in 1..n : /\ exit[j] <= CurveLimit(j)
                       /\ phase = "speeds" /\ j = i => exit[j] = CurveLimit(j))'
  <2>1. \A j \in 1..n : exit'[j] <= CurveLimit(j)'
    <3> SUFFICES ASSUME NEW j \in 1..n PROVE exit'[j] <= CurveLimit(j)'
      OBVIOUS
    <3>1. CurveLimit(j)' = CurveLimit(j)
      BY <1>5
    <3> QED  BY <1>6, <3>1
  <2> QED  BY <1>1, <1>4, <2>1
<1>9. (\A m \in 0..n : \A P : m = Last /\ Sums(P, m) =>
         \A j \in 0..m : Limited(P, m, j) \/ (phase = "back" /\ j = b))'
  BY <1>1, <1>4, <1>7
<1>10. ASSUME NEW m \in 0..n, NEW P, m = Last', Sums(P, m)', NEW a \in 1..n,
              phase' = "back", a = b'
       PROVE  entry'[a + 1] = CurveLimit(m)' + Difference(P[a], P[m])
  <2>1. a = b - 1 /\ a + 1 = b
    BY <1>1, <1>3, <1>10
  <2> QED  BY <1>4, <1>5, <1>7, <1>10, <2>1
<1>11. (\A m \in 0..n : \A P : m = Last /\ Sums(P, m) =>
          \A a \in 1..n : phase = "back" /\ a = b =>
            entry[a + 1] = CurveLimit(m) + Difference(P[a], P[m]))'
  BY <1>1, <1>10 DEF Difference
<1> QED  BY <1>8, <1>9, <1>11 DEF Tight

(* The other steps change no speed in a curve. *)
LEMMA TightOtherwise ==
  ASSUME IInv, Tight, UNCHANGED <<path, reach, exit>>,
         Last' = Last, phase' # "speeds",
         phase # "back", phase' # "back"
  PROVE  Tight'
<1>1. UNCHANGED path /\ n' = n
  BY DEF path
<1>2. TypeOK
  BY DEF IInv
<1>3. \A j : CurveLimit(j)' = CurveLimit(j) /\ Speed(j)' = Speed(j)
  BY <1>1, LimitStays DEF Speed
<1>4. ASSUME NEW m \in 0..n, NEW P, m = Last, Sums(P, m)', NEW j \in 0..m
      PROVE  Limited(P, m, j)'
  <2>1. Sums(P, m)
    <3>1. ASSUME NEW k \in 1..m PROVE Gain(k)' = Gain(k)
      <4>1. k \in 1..n
        BY <1>2, <1>4 DEF TypeOK
      <4> QED  BY <1>2, <4>1, GainStays
    <3> QED  BY <1>4, <3>1, SumsStay
  <2>2. Limited(P, m, j)
    BY <1>4, <2>1 DEF Tight
  <2> QED  BY <1>1, <1>3, <2>2, LimitedStays
<1>5. \A j \in 1..n : exit'[j] <= CurveLimit(j)'
  <2> SUFFICES ASSUME NEW j \in 1..n PROVE exit'[j] <= CurveLimit(j)'
    OBVIOUS
  <2>1. CurveLimit(j)' = CurveLimit(j)
    BY <1>3
  <2>2. exit[j] <= CurveLimit(j)
    BY Zenon DEF Tight
  <2> QED  BY <2>1, <2>2
<1>6. (\A m \in 0..n : \A P : m = Last /\ Sums(P, m) => \A j \in 0..m : Limited(P, m, j))'
  BY <1>1, <1>4
<1> QED  BY <1>1, <1>5, <1>6 DEF Tight

LEMMA TightStep == IInv /\ Tight /\ [Next]_vars => Tight'
<1> SUFFICES ASSUME IInv, Tight, [Next]_vars PROVE Tight'
  OBVIOUS
<1>1. ASSUME InitializeNext PROVE Tight'
  <2>1. i \in 1..n /\ n \in Nat /\ phase = "next" /\ UNCHANGED <<path, reach, exit>>
    BY <1>1 DEF IInv, TypeOK, InitializeNext
  <2>2. CASE i < n
    <3>1. i' = i + 1 /\ phase' = "curve"
      BY <1>1, <2>2 DEF InitializeNext
    <3>2. Last' = Last
      BY <2>1, <3>1 DEF Last
    <3> QED  BY <2>1, <3>1, <3>2, TightOtherwise
  <2>3. CASE ~(i < n)
    <3>1. i = n /\ phase' = "accelerate" /\ n' = n
      BY <1>1, <2>1, <2>3 DEF InitializeNext, path
    <3>2. Last' = Last
      BY <2>1, <3>1 DEF Last
    <3> QED  BY <2>1, <3>1, <3>2, TightOtherwise
  <2> QED  BY <2>2, <2>3
<1>2. ASSUME ComputeAccelerations \/ CheckScript PROVE Tight'
  <2>1. /\ UNCHANGED <<path, reach, exit>> /\ n' = n
        /\ phase \in {"accelerate", "check"}
        /\ phase' \in {"accelerate", "check", "ready", "failed"}
    <3>1. CASE ComputeAccelerations
      BY <3>1 DEF ComputeAccelerations, path
    <3>2. CASE CheckScript
      BY <3>2 DEF CheckScript, path
    <3> QED  BY <1>2, <3>1, <3>2
  <2>2. Last' = Last
    BY <2>1 DEF Last
  <2> QED  BY <2>1, <2>2, TightOtherwise
<1>3. ASSUME UNCHANGED vars PROVE Tight'
  <2>1. UNCHANGED <<path, phase, i, b, entry, exit, reach>> /\ n' = n
    BY <1>3 DEF vars, path
  <2>2. Last' = Last
    BY <2>1 DEF Last
  <2>3. \A m : \A P : Sums(P, m)' <=> Sums(P, m)
    BY <2>1 DEF Sums, Gain, Straight, path
  <2>4. \A j : CurveLimit(j)' = CurveLimit(j)
    BY <2>1, LimitStays
  <2>5. \A P, m, j : Limited(P, m, j)' <=> Limited(P, m, j)
    BY <2>1, <2>4 DEF Limited, Speed, Difference
  <2> QED  BY <2>1, <2>2, <2>3, <2>4, <2>5 DEF Tight, Difference
<1> QED  BY <1>1, <1>2, <1>3, TightCurve, TightUpdate, TightBack DEF Next

(* GainUpTo is such a P: it is defined by recursion.                        *)
LEMMA GainUpToSums ==
  ASSUME TypeOK, CurvesInPlace
  PROVE  Sums(GainUpTo, n)
<1> DEFINE N == n
           G == [k \in 1 .. N |-> [x \in Nat |-> x + Gain(k)]]
<1>1. N \in Nat /\ \A k \in 1 .. N : Gain(k) \in Nat
  BY GainNat DEF TypeOK
<1>2. G \in Rules(N, Nat) /\ 0 \in Nat
  BY <1>1 DEF Rules
<1>3. PICK h : Follows(h, N, 0, G)
  <2> HIDE DEF G, N
  <2> QED  BY <1>1, <1>2, Recursion, Zenon
<1>4. \A k \in 0 .. N : h[k] \in Nat
  <2> HIDE DEF G, N
  <2> QED  BY <1>1, <1>2, <1>3, RecursionType, Zenon
<1>5. h = [k \in 0 .. N |-> IF k = 0 THEN 0 ELSE h[k - 1] + Gain(k)]
  <2>1. \A k \in 1 .. N : h[k - 1] \in Nat
    BY <1>1, <1>4
  <2>2. \A k \in 1 .. N : G[k][h[k - 1]] = h[k - 1] + Gain(k)
    BY <2>1
  <2>3. /\ h = [k \in 0 .. N |-> h[k]] /\ h[0] = 0
        /\ \A k \in 1 .. N : h[k] = h[k - 1] + Gain(k)
    <3> HIDE DEF G
    <3> QED  BY <1>3, <2>2 DEF Follows
  <2>4. \A k \in 0 .. N : k # 0 => k \in 1 .. N
    BY <1>1
  <2> HIDE DEF G, N
  <2> QED  BY <2>3, <2>4
<1> DEFINE f == CHOOSE f : f = [k \in 0 .. N |-> IF k = 0 THEN 0 ELSE f[k - 1] + Gain(k)]
<1>6. f = [k \in 0 .. N |-> IF k = 0 THEN 0 ELSE f[k - 1] + Gain(k)]
  BY <1>5
<1>7. GainUpTo = f
  BY DEF GainUpTo
<1> HIDE DEF f
<1>8. \A k \in 0 .. N : f[k] \in Nat
  <2> DEFINE T == {k \in 0 .. N : f[k] \in Nat}
  <2>1. 0 \in T
    BY <1>1, <1>6
  <2>2. \A k \in 0 .. N : k \in T /\ k < N => k + 1 \in T
    BY <1>1, <1>6
  <2> HIDE DEF T
  <2>3. \A k \in 0 .. N : k \in T
    BY <1>1, <2>1, <2>2, Climb
  <2> QED  BY <2>3 DEF T
<1>9. /\ f \in [0 .. N -> Nat] /\ f[0] = 0
      /\ \A k \in 1 .. N : f[k] = f[k - 1] + Gain(k)
  BY <1>1, <1>6, <1>8
<1> QED  BY <1>7, <1>9 DEF Sums

(* Once all segments fit, no two speeds are further apart than what can be  *)
(* gained between them.                                                     *)
LEMMA SpeedsClose ==
  ASSUME IInv, phase = "ready", NEW P, Sums(P, n)
  PROVE  \A j \in 0..n : \A k \in 0..j : /\ Speed(j) \in Nat /\ Speed(k) \in Nat
                                        /\ Difference(Speed(j), Speed(k)) <= P[j] - P[k]
<1>1. /\ n \in Nat /\ \A k \in 0..n : P[k] \in Nat
      /\ \A k \in 1..n : P[k] = P[k - 1] + Gain(k)
  BY DEF IInv, TypeOK, Sums
<1>2. \A j \in 0..n : Speed(j) \in Nat
  <2> SUFFICES ASSUME NEW j \in 0..n PROVE Speed(j) \in Nat
    OBVIOUS
  <2>1. j # 0 => j \in 1..n
    BY <1>1
  <2> QED  BY <2>1 DEF Speed, IInv, TypeOK
<1>3. ASSUME NEW j \in 0..n, j < n
      PROVE  Difference(Speed(j), Speed(j + 1)) <= Gain(j + 1)
  <2>1. j + 1 \in 1..n /\ j + 1 # 0 /\ (j # 0 => j \in 1..n)
    BY <1>1, <1>3
  <2>2. Settled = 1..n
    BY DEF Settled
  <2>3. entry[j + 1] = Speed(j)
    BY <1>3, <2>1, <2>2 DEF Speed, IInv, SpeedsJoin
  <2>4. Fits(j + 1)
    BY <2>1, <2>2 DEF IInv, SpeedsJoin
  <2> QED  BY <2>1, <2>3, <2>4 DEF Fits, Speed
<1> DEFINE T == {j \in 0..n : \A k \in 0..j : Difference(Speed(j), Speed(k)) <= P[j] - P[k]}
<1>4. 0 \in T
  <2>1. 0 \in 0..n /\ \A k \in 0..0 : k = 0
    BY <1>1
  <2>2. Difference(Speed(0), Speed(0)) <= P[0] - P[0]
    BY <1>1, <1>2, <2>1 DEF Difference
  <2> QED  BY <2>1, <2>2
<1>5. ASSUME NEW j \in 0..n, j \in T, j < n
      PROVE  j + 1 \in T
  <2>1. /\ j + 1 \in 1..n /\ j + 1 \in 0..n /\ (j + 1) - 1 = j
        /\ P[j + 1] = P[j] + Gain(j + 1)
    BY <1>1, <1>5
  <2>2. /\ Speed(j + 1) \in Nat /\ Speed(j) \in Nat /\ P[j] \in Nat /\ P[j + 1] \in Nat
        /\ Difference(Speed(j), Speed(j + 1)) <= Gain(j + 1)
    BY <1>1, <1>2, <1>3, <1>5, <2>1
  <2>3. Gain(j + 1) \in Nat
    BY <2>1, GainNat DEF IInv
  <2>4. ASSUME NEW k \in 0..j + 1
        PROVE  Difference(Speed(j + 1), Speed(k)) <= P[j + 1] - P[k]
    <3>1. CASE k = j + 1
      BY <2>2, <3>1 DEF Difference
    <3>2. CASE k # j + 1
      <4>1. k \in 0..j /\ k \in 0..n
        BY <1>1, <3>2
      <4>2. Difference(Speed(j), Speed(k)) <= P[j] - P[k]
        BY <1>5, <4>1
      <4>3. Speed(k) \in Nat /\ P[k] \in Nat
        BY <1>1, <1>2, <4>1
      <4> QED  BY <2>1, <2>2, <2>3, <4>2, <4>3 DEF Difference
    <3> QED  BY <3>1, <3>2
  <2> QED  BY <2>1, <2>4
<1> HIDE DEF T
<1>6. \A j \in 0..n : j \in T
  BY <1>1, <1>4, <1>5, Climb
<1>7. \A j \in 0..n : \A k \in 0..j : k \in 0..n
  BY <1>1
<1> QED  BY <1>2, <1>6, <1>7 DEF T

(* The pass over a path, with every correction that goes back over it,      *)
(* finds the fastest speeds there are: that in a curve is one of those that *)
(* the limits of the curves and the ends allow, and none of them is less.   *)
THEOREM FastestFound == Spec => []Fastest
<1>1. Init => Tight
  BY TightInit
<1>2. IInv /\ Tight /\ [Next]_vars => Tight'
  BY TightStep
<1>3. IInv /\ Tight => Fastest
  <2> SUFFICES ASSUME IInv, Tight, phase = "ready", NEW j \in 1..n
               PROVE  /\ exit[j] \in Possible(j)
                      /\ \A v \in Possible(j) : exit[j] <= v
    BY DEF Fastest
  <2> DEFINE P == GainUpTo
  <2>1. /\ n \in Nat /\ n \in 0..n /\ j \in 0..n /\ j # 0 /\ Last = n /\ Sums(P, n)
        /\ TypeOK
    <3>1. Sums(P, n)
      BY GainUpToSums DEF IInv
    <3>2. Last = n
      BY DEF Last
    <3>3. TypeOK /\ n \in Nat
      BY DEF IInv, TypeOK
    <3> HIDE DEF P
    <3> QED  BY <3>1, <3>2, <3>3
  <2> HIDE DEF P
  <2>2. Possible(j) = {CurveLimit(k) + Difference(P[j], P[k]) : k \in 0..n}
    BY DEF Possible, P
  <2>3. PICK k \in 0..n : Speed(j) = CurveLimit(k) + Difference(P[j], P[k])
    <3>1. Limited(P, n, j)
      BY <2>1 DEF Tight
    <3> QED  BY <3>1 DEF Limited
  <2>4. exit[j] \in Possible(j)
    BY <2>1, <2>2, <2>3 DEF Speed
  <2>5. ASSUME NEW m \in 0..n
        PROVE  Speed(j) <= CurveLimit(m) + Difference(P[j], P[m])
    <3>1. /\ Speed(j) \in Nat /\ Speed(m) \in Nat /\ P[j] \in Nat /\ P[m] \in Nat
          /\ CurveLimit(m) \in Nat
          /\ m <= j => Difference(Speed(j), Speed(m)) <= P[j] - P[m]
          /\ j <= m => Difference(Speed(m), Speed(j)) <= P[m] - P[j]
      <4>1. (m <= j => m \in 0..j) /\ (j <= m => j \in 0..m) /\ m \in 0..m /\ j \in 0..j
        BY <2>1
      <4>2. P[j] \in Nat /\ P[m] \in Nat
        BY <2>1 DEF Sums
      <4> QED  BY <2>1, <4>1, <4>2, SpeedsClose, LimitNat
    <3>2. Speed(m) <= CurveLimit(m)
      <4>1. CASE m = 0
        BY <3>1, <4>1 DEF Speed
      <4>2. CASE m # 0
        <5>1. m \in 1..n
          BY <2>1, <4>2
        <5>2. exit[m] <= CurveLimit(m)
          BY Zenon, <5>1 DEF Tight
        <5> QED  BY <4>2, <5>2 DEF Speed
      <4> QED  BY <4>1, <4>2
    <3>3. m <= j \/ j <= m
      BY <2>1
    <3> QED  BY <3>1, <3>2, <3>3 DEF Difference
  <2> QED  BY <2>1, <2>2, <2>4, <2>5 DEF Speed
<1> QED  BY <1>1, <1>2, <1>3, Invariance, PTL DEF Spec
=============================================================================
