----------------------------- MODULE Recursion -----------------------------
(***************************************************************************)
(* Induction over the natural numbers by the least counterexample, and     *)
(* what follows from it for the definitions of the models: recursive       *)
(* functions on 0..n, the greatest of a set of numbers, and a finite set   *)
(* as a sequence.                                                          *)
(***************************************************************************)
EXTENDS Naturals, Sequences, SequencesExt, FiniteSetTheorems, WellFoundedInduction, TLAPS

(* A nonempty set of naturals has a least element. *)
LEMMA LeastIsThere ==
  ASSUME NEW T, T \subseteq Nat, T # {}
  PROVE  \E x \in T : \A y \in T : x <= y
<1> DEFINE less == {p \in Nat \X Nat : p[1] < p[2]}
<1>1. IsWellFoundedOn(less, Nat)
  BY NatLessThanWellFounded DEF OpToRel
<1>2. PICK x \in T : \A y \in T : <<y, x>> \notin less
  <2> HIDE DEF less
  <2> QED
    BY <1>1, WFMin
<1>3. ASSUME NEW y \in T PROVE x <= y
  <2>1. <<y, x>> \notin less /\ x \in Nat /\ y \in Nat
    BY <1>2
  <2> QED
    BY <2>1
<1> QED
  BY <1>3

(* Induction up to n, for a set instead of a predicate: the sets that the  *)
(* proofs use are the numbers for which something holds.                   *)
LEMMA UpTo ==
  ASSUME NEW n \in Nat, NEW T, 0 \in T,
         \A i \in 1 .. n : i - 1 \in T => i \in T
  PROVE  0 .. n \subseteq T
<1> DEFINE D == {i \in 0 .. n : i \notin T}
<1> SUFFICES ASSUME D # {} PROVE FALSE
  OBVIOUS
<1>1. D \subseteq Nat
  OBVIOUS
<1>2. PICK x \in D : \A y \in D : x <= y
  <2> HIDE DEF D
  <2> QED
    BY <1>1, LeastIsThere
<1>3. x \in 1 .. n /\ x \notin T /\ x - 1 \in 0 .. n
  BY <1>2
<1>4. x - 1 \notin D
  BY <1>2, <1>3
<1> QED
  BY <1>3, <1>4

(* A function on 0..n is defined by its first value and its steps, given   *)
(* as a table T of the next value for each position and value.             *)
Steps(g, n, x, T) == g[0] = x /\ \A i \in 1 .. n : g[i] = T[i][g[i - 1]]

LEMMA StepsExist ==
  ASSUME NEW n \in Nat, NEW S, NEW x \in S, NEW T \in [1 .. n -> [S -> S]]
  PROVE  \E g \in [0 .. n -> S] : Steps(g, n, x, T)
<1> DEFINE Good == {k \in 0 .. n : \E g \in [0 .. k -> S] : Steps(g, k, x, T)}
<1>1. 0 \in Good
  <2>1. [i \in 0 .. 0 |-> x] \in [0 .. 0 -> S] /\ Steps([i \in 0 .. 0 |-> x], 0, x, T)
    BY DEF Steps
  <2> QED
    BY <2>1
<1>2. ASSUME NEW k \in 1 .. n, k - 1 \in Good
      PROVE  k \in Good
  <2>1. PICK g \in [0 .. (k - 1) -> S] : Steps(g, k - 1, x, T)
    BY <1>2
  <2>2. k - 1 \in 0 .. (k - 1) /\ g[k - 1] \in S /\ T[k] \in [S -> S]
    BY <2>1
  <2> DEFINE h == [i \in 0 .. k |-> IF i = k THEN T[k][g[k - 1]] ELSE g[i]]
  <2>3. h \in [0 .. k -> S]
    BY <2>1, <2>2
  <2>4. h[0] = x /\ \A i \in 1 .. k : h[i] = T[i][h[i - 1]]
    <3>1. h[0] = x
      BY <2>1 DEF Steps
    <3>2. ASSUME NEW i \in 1 .. k PROVE h[i] = T[i][h[i - 1]]
      <4>1. CASE i = k
        <5>1. h[i] = T[k][g[k - 1]] /\ k - 1 \in 0 .. k /\ k - 1 # k
          BY <4>1
        <5>2. h[i - 1] = g[k - 1]
          BY <4>1, <5>1
        <5> QED
          BY <4>1, <5>1, <5>2
      <4>2. CASE i # k
        <5>1. i \in 1 .. (k - 1) /\ h[i] = g[i] /\ h[i - 1] = g[i - 1]
          BY <4>2
        <5> QED
          BY <2>1, <5>1 DEF Steps
      <4> QED
        BY <4>1, <4>2
    <3> QED
      BY <3>1, <3>2
  <2>5. k \in 0 .. n
    OBVIOUS
  <2>6. Steps(h, k, x, T)
    BY <2>4, Zenon DEF Steps
  <2> HIDE DEF h
  <2> QED
    BY <2>3, <2>5, <2>6
<1>3. n \in Good
  <2> HIDE DEF Good
  <2>1. 0 .. n \subseteq Good
    BY <1>1, <1>2, UpTo
  <2> QED
    BY <2>1
<1> QED
  BY <1>3

(* The greatest of a nonempty bounded set of naturals. *)
LEMMA GreatestIsThere ==
  ASSUME NEW n \in Nat, NEW T, T \subseteq 0 .. n, T # {}
  PROVE  \E x \in T : \A y \in T : x >= y
<1> DEFINE D == {n - i : i \in T}
<1>1. D \subseteq Nat /\ D # {}
  <2>1. \A i \in T : n - i \in Nat
    OBVIOUS
  <2> QED
    BY <2>1
<1>2. PICK d \in D : \A y \in D : d <= y
  <2> HIDE DEF D
  <2> QED
    BY <1>1, LeastIsThere
<1>3. PICK x \in T : d = n - x
  OBVIOUS
<1>4. ASSUME NEW y \in T PROVE x >= y
  <2>1. n - y \in D /\ x \in 0 .. n /\ y \in 0 .. n
    OBVIOUS
  <2>2. n - x <= n - y
    BY <1>2, <1>3, <2>1
  <2> QED
    BY <2>1, <2>2
<1> QED
  BY <1>4

(* A finite set as a sequence: it has the elements of the set. *)
LEMMA SetToSeqHasAll ==
  ASSUME NEW S, IsFiniteSet(S)
  PROVE  /\ SetToSeq(S) \in Seq(S)
         /\ {SetToSeq(S)[i] : i \in 1 .. Len(SetToSeq(S))} = S
<1> DEFINE n == Cardinality(S)
<1>1. n \in Nat /\ ExistsBijection(1 .. n, S)
  BY FS_CardinalityType
<1>2. PICK b \in Bijection(1 .. n, S) : TRUE
  BY <1>1 DEF ExistsBijection
<1>3. b \in [1 .. n -> S] /\ IsInjective(b)
  BY <1>2 DEF Bijection, Injection
<1>4. SetToSeq(S) \in [1 .. n -> S] /\ IsInjective(SetToSeq(S))
  BY <1>3 DEF SetToSeq
<1> HIDE DEF n
<1>5. SetToSeq(S) \in Injection(1 .. n, S)
  BY <1>4 DEF Injection
<1>6. Cardinality(1 .. n) = n
  BY <1>1, FS_Interval
<1>7. SetToSeq(S) \in Surjection(1 .. n, S)
  BY <1>5, <1>6, FS_Injection DEF n
<1>8. \A x \in S : \E i \in 1 .. n : SetToSeq(S)[i] = x
  BY <1>7 DEF Surjection
<1>9. SetToSeq(S) \in Seq(S) /\ Len(SetToSeq(S)) = n
  BY <1>1, <1>4
<1> QED
  BY <1>4, <1>8, <1>9
=============================================================================
