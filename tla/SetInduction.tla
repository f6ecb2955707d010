--------------------------- MODULE SetInduction ---------------------------
(***************************************************************************)
(* Induction over the natural numbers, stated about the set of the numbers *)
(* that have a property instead of the property itself, so that it can be  *)
(* cited with first-order provers.                                         *)
(***************************************************************************)
EXTENDS Integers, FiniteSetsExt, TLAPS, WellFoundedInduction

\* A set of naturals that is not empty has a least element.
LEMMA LeastElement ==
    ASSUME NEW S, S \subseteq Nat, S /= {}
    PROVE  \E x \in S : \A y \in S : x <= y
<1> DEFINE R == OpToRel(<, Nat)
<1>1. IsWellFoundedOn(R, Nat)
  BY NatLessThanWellFounded
<1>2. \A x, y \in Nat : <<x, y>> \in R <=> x < y
  BY DEF R, OpToRel
<1> HIDE DEF R
<1>3. PICK x \in S : \A y \in S : ~(<<y, x>> \in R)
  BY <1>1, WFMin
<1>4. \A y \in S : ~(y < x)
  BY <1>2, <1>3
<1>5. \A y \in S : x <= y
  BY <1>4
<1>6. QED
  BY <1>5

\* What holds of a number when it holds of all smaller ones holds of all.
LEMMA UpwardInduction ==
    ASSUME NEW S, NEW n \in Nat,
           \A k \in 0..n : 0..(k - 1) \subseteq S => k \in S
    PROVE  0..n \subseteq S
<1> DEFINE Missing == (0..n) \ S
<1>1. SUFFICES ASSUME Missing /= {} PROVE FALSE
  OBVIOUS
<1>2. Missing \subseteq Nat
  OBVIOUS
<1>3. PICK k \in Missing : \A j \in Missing : k <= j
  BY <1>1, <1>2, LeastElement
<1>4. 0..(k - 1) \subseteq S
  BY <1>3
<1>5. QED
  BY <1>4

\* The same from the largest number down.
LEMMA DownwardInduction ==
    ASSUME NEW S, NEW n \in Nat,
           \A k \in 0..n : (k + 1)..n \subseteq S => k \in S
    PROVE  0..n \subseteq S
<1> DEFINE Distance == {n - k : k \in (0..n) \ S}
<1>1. SUFFICES ASSUME Distance /= {} PROVE FALSE
  OBVIOUS
<1>2. Distance \subseteq Nat
  OBVIOUS
<1>3. PICK d \in Distance : \A e \in Distance : d <= e
  BY <1>1, <1>2, LeastElement
<1>4. PICK k \in (0..n) \ S : d = n - k
  BY <1>3
<1>5. \A j \in (0..n) \ S : n - k <= n - j
  BY <1>3, <1>4
<1>6. (k + 1)..n \subseteq S
  BY <1>5
<1>7. QED
  BY <1>4, <1>6

\* The maximum of a set of naturals with an upper bound.
LEMMA MaxIs ==
    ASSUME NEW n \in Nat, NEW S, S \subseteq 0..n, S /= {}
    PROVE  Max(S) \in S /\ \A y \in S : y <= Max(S)
<1> DEFINE Distance == {n - x : x \in S}
<1>1. Distance \subseteq Nat /\ Distance /= {}
  <2>1. \A x \in S : x \in 0..n
    OBVIOUS
  <2>2. PICK x \in S : TRUE
    OBVIOUS
  <2>3. n - x \in Distance
    OBVIOUS
  <2>4. QED
    BY <2>1, <2>3
<1>2. PICK d \in Distance : \A e \in Distance : d <= e
  BY <1>1, LeastElement
<1>3. PICK x \in S : d = n - x
  BY <1>2
<1>4. \A y \in S : n - x <= n - y
  BY <1>2, <1>3
<1>5. \A y \in S : x >= y
  BY <1>4
<1>6. Max(S) \in S /\ \A y \in S : Max(S) >= y
  BY <1>5 DEF Max
<1>7. QED
  BY <1>6

\* The minimum of a set of naturals.
LEMMA MinIs ==
    ASSUME NEW S, S \subseteq Nat, S /= {}
    PROVE  Min(S) \in S /\ \A y \in S : Min(S) <= y
BY LeastElement DEF Min
=============================================================================
