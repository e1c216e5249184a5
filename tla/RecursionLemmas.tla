-------------------------- MODULE RecursionLemmas --------------------------
(***************************************************************************)
(* What the proofs about loops need: induction over the numbers up to a    *)
(* bound, and that a function exists that is defined from its value one    *)
(* before.                                                                 *)
(***************************************************************************)
EXTENDS Integers, Sequences, SequenceTheorems, WellFoundedInduction, TLAPS

(* A set of numbers has a least one: what induction over a length needs.   *)
LEMMA Least ==
  ASSUME NEW T \in SUBSET Nat, T # {}
  PROVE  \E m \in T : \A k \in T : m <= k
<1> DEFINE R == {p \in Nat \X Nat : p[1] < p[2]}
<1>1. IsWellFoundedOn(R, Nat)
  <2>1. IsWellFoundedOn(OpToRel(<, Nat), Nat)
    BY NatLessThanWellFounded
  <2> QED
    BY <2>1 DEF OpToRel
<1> HIDE DEF R
<1>2. PICK m \in T : \A y \in T : ~ (<<y, m>> \in R)
  BY <1>1, WFMin
<1>3. \A y \in T : ~ (y < m)
  BY <1>2 DEF R
<1> QED
  BY <1>3

(* A sequence with one more element. *)
LEMMA AddedIs ==
  ASSUME NEW S, NEW s \in Seq(S), NEW b \in S
  PROVE  /\ Append(s, b) \in Seq(S) /\ Len(Append(s, b)) = Len(s) + 1
         /\ \A m \in 1 .. Len(s) : Append(s, b)[m] = s[m]
         /\ Append(s, b)[Len(s) + 1] = b
         /\ s \o <<b>> = Append(s, b)
BY AppendProperties, AppendIsConcat

(* Induction up to a bound: T is the set of the numbers for which a fact   *)
(* holds.                                                                  *)
Inductive(T, L) == 0 \in T /\ \A n \in 1 .. L : n - 1 \in T => n \in T

LEMMA UpTo ==
  ASSUME NEW T, NEW L \in Nat, Inductive(T, L)
  PROVE  \A n \in 0 .. L : n \in T
<1> DEFINE Bad == {n \in Nat : n <= L /\ n \notin T}
<1>1. ASSUME Bad # {}
      PROVE  FALSE
  <2>1. PICK m \in Bad : \A k \in Bad : m <= k
    BY <1>1, Least
  <2>2. m \in 1 .. L /\ m \notin T
    BY <2>1 DEF Inductive
  <2>3. m - 1 \notin Bad
    BY <2>1, <2>2
  <2> QED
    BY <2>2, <2>3 DEF Inductive
<1> QED
  BY <1>1

(* A function that is defined from its value one before exists: G takes a  *)
(* value to the next one.                                                  *)
Steps(G, X, L) == \A n \in 1 .. L : \A x \in X : G[n][x] \in X

Unfolds(f, X, x0, G, L) ==
  /\ f = [n \in 0 .. L |-> f[n]]
  /\ \A n \in 0 .. L : f[n] \in X
  /\ f[0] = x0
  /\ \A n \in 1 .. L : f[n] = G[n][f[n - 1]]

LEMMA Recursion ==
  ASSUME NEW X, NEW x0 \in X, NEW G, NEW L \in Nat, Steps(G, X, L)
  PROVE  \E f : Unfolds(f, X, x0, G, L)
<1> DEFINE T == {l \in 0 .. L : \E f : Unfolds(f, X, x0, G, l)}
<1>1. 0 \in T
  <2> DEFINE f == [n \in 0 .. 0 |-> x0]
  <2>1. Unfolds(f, X, x0, G, 0)
    BY DEF Unfolds
  <2> QED
    BY <2>1
<1>2. ASSUME NEW l \in 1 .. L, l - 1 \in T
      PROVE  l \in T
  <2>1. PICK f : Unfolds(f, X, x0, G, l - 1)
    BY <1>2
  <2> DEFINE g == [n \in 0 .. l |-> IF n = l THEN G[l][f[l - 1]] ELSE f[n]]
  <2>2. l \in Nat /\ l >= 1 /\ l <= L
    OBVIOUS
  <2>3. /\ \A n \in 0 .. l - 1 : f[n] \in X
        /\ f[0] = x0
        /\ \A n \in 1 .. l - 1 : f[n] = G[n][f[n - 1]]
    BY <2>1 DEF Unfolds
  <2>4. /\ \A n \in 0 .. l - 1 : g[n] = f[n]
        /\ g[l] = G[l][f[l - 1]]
        /\ g = [n \in 0 .. l |-> g[n]]
    BY <2>2
  <2> HIDE DEF g
  <2>9. /\ l - 1 \in 0 .. l - 1 /\ \A n \in 0 .. l : n = l \/ n \in 0 .. l - 1
        /\ \A n \in 1 .. l : n - 1 \in 0 .. l - 1 /\ (n = l \/ n \in 1 .. l - 1)
    BY <2>2
  <2>5. g[l] \in X
    <3>1. f[l - 1] \in X
      BY <2>3, <2>9
    <3>2. \A x \in X : G[l][x] \in X
      BY DEF Steps
    <3> QED
      BY <2>4, <3>1, <3>2
  <2>6. \A n \in 0 .. l : g[n] \in X
    BY <2>3, <2>4, <2>5, <2>9
  <2>7. \A n \in 1 .. l : g[n] = G[n][g[n - 1]]
    <3>1. ASSUME NEW n \in 1 .. l
          PROVE  g[n] = G[n][g[n - 1]]
      <4>1. g[n - 1] = f[n - 1]
        BY <2>4, <2>9
      <4>2. CASE n = l
        BY <2>4, <4>1, <4>2
      <4>3. CASE n \in 1 .. l - 1
        <5>1. g[n] = f[n]
          <6>1. l = n \/ n \in 0 .. l - 1
            BY <2>9, <4>3, <2>2
          <6>2. n # l
            BY <2>2, <4>3
          <6> QED
            BY <2>4, <6>1, <6>2
        <5> QED
          BY <2>3, <4>1, <4>3, <5>1
      <4> QED
        BY <2>9, <4>2, <4>3
    <3> QED
      BY <3>1
  <2>8. Unfolds(g, X, x0, G, l)
    <3>1. g[0] = x0
      <4>1. 0 \in 0 .. l - 1
        BY <2>2
      <4> QED
        BY <2>3, <2>4, <4>1
    <3> QED
      BY <2>4, <2>6, <2>7, <3>1 DEF Unfolds
  <2> QED
    BY <2>2, <2>8
<1> HIDE DEF T
<1>3. Inductive(T, L)
  BY <1>1, <1>2 DEF Inductive
<1>4. \A n \in 0 .. L : n \in T
  BY <1>3, UpTo
<1> QED
  BY <1>4 DEF T
=============================================================================
