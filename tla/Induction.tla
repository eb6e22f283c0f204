------------------------------- MODULE Induction -------------------------------
(***************************************************************************)
(* Induction over the natural numbers without a predicate as a parameter:  *)
(* the least number of a set, from the well-foundedness of <, and what     *)
(* follows from it for functions defined by recursion and for sums.        *)
(***************************************************************************)
EXTENDS Integers, Sequences, WellFoundedInduction, TLAPS

Less == OpToRel(<, Nat)

LEMMA LessPairs == Less = {p \in Nat \X Nat : p[1] < p[2]}
BY DEF OpToRel, Less

(* Every non-empty set of natural numbers has a least element. *)
LEMMA LeastNumber ==
  ASSUME NEW T \in SUBSET Nat, T # {}
  PROVE  \E m \in T : \A k \in T : m <= k
<1>1. IsWellFoundedOn(Less, Nat)
  BY NatLessThanWellFounded DEF Less
<1>2. PICK m \in T : \A k \in T : ~ (<<k, m>> \in Less)
  BY <1>1, WFMin
<1>3. \A k \in T : <<k, m>> \in {p \in Nat \X Nat : p[1] < p[2]} <=> k < m
  OBVIOUS
<1>4. \A k \in T : ~ (k < m)
  BY <1>2, <1>3, LessPairs
<1> QED  BY <1>4

(* A set that holds 0 and with each number up to N the next one has them all. *)
LEMMA Climb ==
  ASSUME NEW N \in Nat, NEW T, 0 \in T,
         \A n \in 0 .. N : n \in T /\ n < N => n + 1 \in T
  PROVE  \A n \in 0 .. N : n \in T
<1> SUFFICES ASSUME \E n \in 0 .. N : n \notin T PROVE FALSE
  OBVIOUS
<1> DEFINE U == {n \in 0 .. N : n \notin T}
<1>1. PICK m \in U : \A k \in U : m <= k
  <2>1. U \in SUBSET Nat /\ U # {}
    OBVIOUS
  <2> HIDE DEF U
  <2> QED  BY <2>1, LeastNumber
<1>2. m # 0
  BY <1>1
<1>3. m - 1 \in 0 .. N /\ m - 1 \notin U /\ m - 1 < N
  BY <1>1, <1>2
<1> QED  BY <1>1, <1>2, <1>3

-----------------------------------------------------------------------------
(* G[i] is what a definition by recursion over 0 .. N computes at i from    *)
(* the value at i - 1, which is in S.                                       *)
Rules(N, S) == [1 .. N -> [S -> S]]

Follows(f, N, b, G) ==
  /\ f = [i \in 0 .. N |-> f[i]]
  /\ f[0] = b
  /\ \A i \in 1 .. N : f[i] = G[i][f[i - 1]]

(* What follows the rules stays in S. *)
LEMMA RecursionType ==
  ASSUME NEW N \in Nat, NEW S, NEW b \in S, NEW G \in Rules(N, S),
         NEW f, Follows(f, N, b, G)
  PROVE  \A i \in 0 .. N : f[i] \in S
<1> DEFINE T == {n \in 0 .. N : f[n] \in S}
<1>1. 0 \in T
  BY DEF Follows
<1>2. ASSUME NEW n \in 0 .. N, n \in T, n < N
      PROVE  n + 1 \in T
  <2>1. n + 1 \in 1 .. N /\ (n + 1) - 1 = n /\ f[n] \in S
    BY <1>2
  <2>2. f[n + 1] = G[n + 1][f[n]]
    BY <2>1 DEF Follows
  <2>3. G[n + 1][f[n]] \in S
    BY <2>1 DEF Rules
  <2> QED  BY <2>1, <2>2, <2>3
<1> HIDE DEF T
<1>3. \A n \in 0 .. N : n \in T
  BY <1>1, <1>2, Climb
<1> QED  BY <1>3 DEF T

(* Some function follows them. *)
LEMMA Recursion ==
  ASSUME NEW N \in Nat, NEW S, NEW b \in S, NEW G \in Rules(N, S)
  PROVE  \E f : Follows(f, N, b, G)
<1> DEFINE Reaches(n, f) ==
             /\ f \in [0 .. N -> S]
             /\ f[0] = b
             /\ \A i \in 1 .. n : f[i] = G[i][f[i - 1]]
           T == {n \in 0 .. N : \E f : Reaches(n, f)}
<1>1. 0 \in T
  <2> DEFINE f == [i \in 0 .. N |-> b]
  <2>1. 0 \in 0 .. N /\ Reaches(0, f)
    OBVIOUS
  <2> HIDE DEF f, Reaches
  <2> QED  BY <2>1
<1>2. ASSUME NEW n \in 0 .. N, n \in T, n < N
      PROVE  n + 1 \in T
  <2>1. PICK f : Reaches(n, f)
    BY <1>2
  <2> DEFINE g == [f EXCEPT ![n + 1] = G[n + 1][f[n]]]
  <2>2. n + 1 \in 1 .. N /\ n + 1 \in 0 .. N
    BY <1>2
  <2>3. G[n + 1][f[n]] \in S
    BY <2>1, <2>2 DEF Rules
  <2>4. g \in [0 .. N -> S]
    BY <2>1, <2>3
  <2>5. g[0] = b
    BY <2>1, <2>2
  <2>6. ASSUME NEW i \in 1 .. n + 1 PROVE g[i] = G[i][g[i - 1]]
    <3>1. CASE i = n + 1
      BY <3>1, <2>1, <2>2
    <3>2. CASE i # n + 1
      <4>1. i \in 1 .. n /\ i \in 0 .. N /\ i - 1 \in 0 .. N /\ i - 1 # n + 1
        BY <3>2, <2>2
      <4> QED  BY <4>1, <2>1, <3>2
    <3> QED  BY <3>1, <3>2
  <2>7. Reaches(n + 1, g)
    BY <2>4, <2>5, <2>6
  <2> HIDE DEF Reaches, g
  <2> QED  BY <2>2, <2>7
<1>3. N \in T
  <2> HIDE DEF T
  <2>1. N \in 0 .. N
    OBVIOUS
  <2> QED  BY <1>1, <1>2, <2>1, Climb
<1>4. PICK f : Reaches(N, f)
  BY <1>3
<1> QED  BY <1>4 DEF Follows
=============================================================================
