----------------------------- MODULE FoldProofs -----------------------------
(***************************************************************************)
(* What a loop over a list comes to: a fold is a function by recurrence,   *)
(* which there is, and which tells the loop's turns one after the other.   *)
(***************************************************************************)
EXTENDS Integers, FiniteSetsExt, WellFoundedInduction, TLAPS

\* A set of numbers that is not empty has a least one.
LEMMA LeastNat ==
    ASSUME NEW T, T \subseteq Nat, T # {}
    PROVE  \E x \in T : \A y \in T : x <= y
  <1> DEFINE R == OpToRel(<, Nat)
  <1>1. IsWellFoundedOn(R, Nat)
    BY NatLessThanWellFounded
  <1>2. \A x, y \in Nat : y < x => <<y, x>> \in R
    BY DEF OpToRel
  <1> HIDE DEF R
  <1>3. PICK x \in T : \A y \in T : ~(<<y, x>> \in R)
    BY <1>1, WFMin
  <1>4. ASSUME NEW y \in T PROVE x <= y
    <2>1. x \in Nat /\ y \in Nat /\ ~(<<y, x>> \in R)
      BY <1>3
    <2>2. ~(y < x)
      BY <1>2, <2>1
    <2>3. QED
      BY <2>1, <2>2
  <1>5. QED
    BY <1>4

\* What holds of 0, and of each number up to n if of the one before it, holds up to n.
LEMMA CountsUp ==
    ASSUME NEW n \in Nat, NEW T, 0 \in T, \A k \in 1..n : k - 1 \in T => k \in T
    PROVE  \A k \in 0..n : k \in T
  <1> DEFINE W == {k \in 0..n : k \notin T}
  <1>1. SUFFICES ASSUME W # {} PROVE FALSE
    OBVIOUS
  <1>2. \E k \in W : \A j \in W : k <= j
    <2>1. W \subseteq Nat
      OBVIOUS
    <2> HIDE DEF W
    <2>2. QED
      BY <1>1, <2>1, LeastNat
  <1>3. PICK k \in W : \A j \in W : k <= j
    BY <1>2
  <1>4. k \in 1..n /\ k - 1 \in 0..n /\ k - 1 \notin W
    BY <1>3
  <1>5. QED
    BY <1>3, <1>4

\* The greatest of some numbers up to n.
LEMMA MaxIs ==
    ASSUME NEW n \in Nat, NEW t \in SUBSET (1..n), t # {}
    PROVE  Max(t) \in t /\ \A x \in t : Max(t) >= x
  <1> DEFINE T == {n - x : x \in t}
  <1>1. \E y \in T : \A z \in T : y <= z
    <2>1. \A x \in t : n - x \in Nat
      OBVIOUS
    <2>2. T \subseteq Nat /\ T # {}
      BY <2>1
    <2> HIDE DEF T
    <2>3. QED
      BY <2>2, LeastNat
  <1>2. PICK x \in t : \A z \in T : n - x <= z
    BY <1>1
  <1>3. \A y \in t : x >= y
    <2>1. SUFFICES ASSUME NEW y \in t PROVE x >= y
      OBVIOUS
    <2>2. n - x <= n - y
      BY <1>2
    <2>3. QED
      BY <2>2
  <1>4. QED
    BY <1>2, <1>3 DEF Max

\* The greatest number up to k is k, without which they are those up to the one before.
LEMMA MaxUpTo ==
    ASSUME NEW k \in Nat \ {0}
    PROVE  1..k # {} /\ Max(1..k) = k /\ (1..k) \ {k} = 1..(k - 1)
  <1>1. 1..k # {} /\ k \in 1..k /\ (1..k) \ {k} = 1..(k - 1)
    OBVIOUS
  <1>2. Max(1..k) \in 1..k /\ Max(1..k) >= k
    <2>1. k \in Nat /\ 1..k \in SUBSET (1..k)
      OBVIOUS
    <2>2. QED
      BY <1>1, <2>1, MaxIs
  <1>3. Max(1..k) = k
    BY <1>2
  <1>4. QED
    BY <1>1, <1>3

\* The recurrence a fold over a list of n is made of, from base and by F.
FoldsBy(g, n, base, F) ==
    \A t \in SUBSET (1..n) : g[t] = IF t = {} THEN base ELSE F[<<Max(t), g[t \ {Max(t)}]>>]

\* There is a function that keeps to it.
LEMMA FoldRuns ==
    ASSUME NEW n \in Nat, NEW S, NEW base \in S, NEW F \in [(1..n) \X S -> S]
    PROVE  \E g \in [SUBSET (1..n) -> S] : FoldsBy(g, n, base, F)
  <1> DEFINE Runs(g, k) == \A t \in SUBSET (1..k) :
                              g[t] = IF t = {} THEN base ELSE F[<<Max(t), g[t \ {Max(t)}]>>]
             T == {k \in 0..n : \E g \in [SUBSET (1..k) -> S] : Runs(g, k)}
  <1>1. 0 \in T
    <2> DEFINE none == [t \in SUBSET (1..0) |-> base]
    <2>1. 1..0 = {} /\ SUBSET (1..0) = {{}}
      OBVIOUS
    <2>2. none \in [SUBSET (1..0) -> S] /\ Runs(none, 0)
      BY <2>1
    <2> HIDE DEF none, Runs
    <2>3. 0 \in 0..n /\ \E g \in [SUBSET (1..0) -> S] : Runs(g, 0)
      BY <2>2
    <2>4. QED
      BY <2>3
  <1>2. ASSUME NEW k \in 1..n, k - 1 \in T PROVE k \in T
    <2>1. PICK g \in [SUBSET (1..(k - 1)) -> S] : Runs(g, k - 1)
      BY <1>2
    <2> DEFINE more == [t \in SUBSET (1..k) |-> IF k \in t THEN F[<<k, g[t \ {k}]>>] ELSE g[t]]
    <2>2. \A t \in SUBSET (1..k) : t \ {k} \in SUBSET (1..(k - 1)) /\ (k \notin t => t \in SUBSET (1..(k - 1)))
      OBVIOUS
    <2>3. more \in [SUBSET (1..k) -> S]
      <3>1. \A t \in SUBSET (1..k) : g[t \ {k}] \in S /\ (k \notin t => g[t] \in S)
        BY <2>1, <2>2
      <3>2. \A t \in SUBSET (1..k) : <<k, g[t \ {k}]>> \in (1..n) \X S
        BY <3>1
      <3>3. QED
        BY <3>1, <3>2
    <2>4. ASSUME NEW t \in SUBSET (1..k)
          PROVE  more[t] = IF t = {} THEN base ELSE F[<<Max(t), more[t \ {Max(t)}]>>]
      <3>1. CASE k \in t
        <4>0. k \in Nat /\ t # {}
          BY <3>1
        <4>1. Max(t) \in t /\ Max(t) >= k
          BY <3>1, <4>0, MaxIs
        <4>2. Max(t) = k /\ t # {}
          <5>1. Max(t) \in 1..k
            BY <4>1
          <5>2. QED
            BY <4>0, <4>1, <5>1
        <4>3. more[t \ {k}] = g[t \ {k}]
          BY <2>2
        <4>4. QED
          BY <3>1, <4>2, <4>3
      <3>2. CASE k \notin t
        <4>1. t \in SUBSET (1..(k - 1)) /\ more[t] = g[t]
          BY <2>2, <3>2
        <4>2. g[t] = IF t = {} THEN base ELSE F[<<Max(t), g[t \ {Max(t)}]>>]
          BY <2>1, <4>1
        <4>3. t \ {Max(t)} \in SUBSET (1..k) /\ more[t \ {Max(t)}] = g[t \ {Max(t)}]
          BY <3>2
        <4>4. QED
          BY <4>1, <4>2, <4>3
      <3>3. QED
        BY <3>1, <3>2
    <2>5. Runs(more, k)
      BY <2>4
    <2> HIDE DEF more, Runs
    <2>6. QED
      BY <2>3, <2>5
  <1>3. n \in T
    <2> HIDE DEF T
    <2>1. n \in 0..n
      OBVIOUS
    <2>2. QED
      BY <1>1, <1>2, <2>1, CountsUp
  <1>4. QED
    BY <1>3 DEF FoldsBy

\* A function by such a recurrence, on the first k numbers: what a fold is after k steps.
LEMMA FoldUpTo ==
    ASSUME NEW n \in Nat, NEW base, NEW f, NEW g,
           g = [t \in SUBSET (1..n) |-> IF t = {} THEN base ELSE f[t]]
    PROVE  g[1..0] = base /\ \A k \in 1..n : g[1..k] = f[1..k]
  <1>1. 1..0 = {} /\ {} \in SUBSET (1..n)
    OBVIOUS
  <1>2. \A k \in 1..n : 1..k \in SUBSET (1..n) /\ 1..k # {}
    OBVIOUS
  <1>3. QED
    BY <1>1, <1>2

=============================================================================
