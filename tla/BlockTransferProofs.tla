------------------------- MODULE BlockTransferProofs -------------------------
(***************************************************************************)
(* Theorems about the social block store and its block provider: blocks    *)
(* that were added stay readable over crashes in the middle of a write,    *)
(* opening the store rebuilds the index and the room that is left, and a   *)
(* transmission sends what it should.  They hold for any sizes of stores,  *)
(* headers and blocks, and any base of the digits of a length.             *)
(*                                                                         *)
(* The inductive invariant StoreInv says that there is an index of blocks  *)
(* that lie in the stores one after the other (Laid) and of which memory   *)
(* holds what the step of AddBlock has reached (InMemory).  It is an index *)
(* that exists, whether it is in memory or not: the blocks of interrupted  *)
(* writes, which no step of the running process added, belong to it too.   *)
(***************************************************************************)
EXTENDS BlockTransfer, RecursionLemmas

-----------------------------------------------------------------------------
(* What the stores hold, and how it is read. *)
Bytes  == [digit : 0 .. Base - 1, block : 0 .. MaxBlocks, at : Nat]
Store  == [0 .. MaxSize - 1 -> Bytes]
Places == [StoreNum : Nat, Offset : Nat, Size : Nat]

(* Where a scan is: what it found, and the offset it has come to. *)
Found == [found : Seq(Places), offset : Nat]


-----------------------------------------------------------------------------
(* Numbers and their digits. *)
LEMMA Division ==
  ASSUME NEW x \in Nat, NEW b \in Nat \ {0}
  PROVE  /\ x \div b \in Nat /\ x % b \in 0 .. b - 1
         /\ x = (x % b) + b * (x \div b)
OBVIOUS

(* What the multiplications of the digits need. *)
LEMMA Product ==
  ASSUME NEW b \in Nat \ {0}, NEW x \in Nat, NEW y \in Nat
  PROVE  /\ b * x \in Nat
         /\ x <= y => b * x <= b * y
         /\ b * x = 0 => x = 0
OBVIOUS

(* Quotients is the function that its definition asks for. *)
LEMMA QuotientsIs ==
  ASSUME NEW number \in Nat
  PROVE  /\ \A i \in 0 .. Header : Quotients(number)[i] \in Nat
         /\ Quotients(number)[0] = number
         /\ \A i \in 1 .. Header : Quotients(number)[i] = Quotients(number)[i - 1] \div Base
<1> DEFINE L == Header
           X == Nat
           x0 == number
           onward(n, x) == x \div Base
           G == [n \in 1 .. L |-> [x \in X |-> onward(n, x)]]
           j == CHOOSE j : j = [n \in 0 .. Header |-> IF n = 0 THEN number ELSE j[n - 1] \div Base]
<1>1. L \in Nat /\ Base \in Nat \ {0}
  BY StoreAssumption
<1>2. x0 \in X
  OBVIOUS
<1>3. \A n \in 1 .. L : \A x \in X : onward(n, x) \in X
  BY <1>1, Division
<1>4. Quotients(number) = j
  BY DEF Quotients
<1>5. (\E f : f = [n \in 0 .. L |-> IF n = 0 THEN x0 ELSE onward(n, f[n - 1])])
        => j = [n \in 0 .. L |-> IF n = 0 THEN x0 ELSE onward(n, j[n - 1])]
  OBVIOUS
<1> HIDE DEF onward, j, X, x0, L
<1>6. \A n \in 1 .. L : \A x \in X : G[n][x] = onward(n, x)
  OBVIOUS
<1> HIDE DEF G
<1>7. Steps(G, X, L)
  BY <1>3, <1>6 DEF Steps
<1>8. PICK f : Unfolds(f, X, x0, G, L)
  BY <1>1, <1>2, <1>7, Recursion
<1>9. \A n \in 1 .. L : n - 1 \in 0 .. L
  BY <1>1
<1>10. \A n \in 1 .. L : f[n] = onward(n, f[n - 1])
  BY <1>6, <1>8, <1>9 DEF Unfolds
<1>11. f = [n \in 0 .. L |-> IF n = 0 THEN x0 ELSE onward(n, f[n - 1])]
  <2>1. \A n \in 0 .. L : f[n] = IF n = 0 THEN x0 ELSE onward(n, f[n - 1])
    <3>1. \A n \in 0 .. L : n = 0 \/ n \in 1 .. L
      BY <1>1
    <3>2. f[0] = x0
      BY <1>8 DEF Unfolds
    <3>3. \A n \in 1 .. L : n # 0
      OBVIOUS
    <3> QED
      BY <1>10, <3>1, <3>2, <3>3
  <2>2. f = [n \in 0 .. L |-> f[n]]
    BY <1>8 DEF Unfolds
  <2> QED
    BY <2>1, <2>2
<1>12. j = [n \in 0 .. L |-> IF n = 0 THEN x0 ELSE onward(n, j[n - 1])]
  BY <1>5, <1>11
<1>13. j[0] = x0 /\ \A n \in 1 .. L : j[n] = onward(n, j[n - 1])
  <2>1. \A n \in 0 .. L : j[n] = IF n = 0 THEN x0 ELSE onward(n, j[n - 1])
    BY <1>12
  <2>2. 0 \in 0 .. L /\ \A n \in 1 .. L : n \in 0 .. L /\ n # 0
    BY <1>1
  <2> QED
    BY <2>1, <2>2
<1> DEFINE T == {n \in 0 .. L : j[n] \in X}
<1>14. Inductive(T, L)
  <2>1. 0 \in T
    BY <1>1, <1>2, <1>13
  <2>2. ASSUME NEW n \in 1 .. L, n - 1 \in T
        PROVE  n \in T
    <3>1. n - 1 \in 0 .. L /\ n \in 0 .. L
      BY <1>1
    <3>2. j[n - 1] \in X
      BY <2>2
    <3>3. onward(n, j[n - 1]) \in X
      BY <1>3, <3>2
    <3> QED
      BY <1>13, <3>1, <3>3
  <2> QED
    BY <2>1, <2>2 DEF Inductive
<1> HIDE DEF T
<1>15. \A n \in 0 .. L : n \in T
  BY <1>1, <1>14, UpTo
<1>16. \A n \in 0 .. L : j[n] \in X
  BY <1>15 DEF T
<1> QED
  BY <1>4, <1>13, <1>16 DEF L, X, x0, onward

(* Bytes as ParseUint64 reads them. *)
DigitsOf(bytes) == \A i \in 1 .. Header : bytes[i].digit \in Nat

(* Values is the function that its definition asks for. *)
LEMMA ValuesIs ==
  ASSUME NEW bytes, DigitsOf(bytes)
  PROVE  /\ \A i \in 0 .. Header : Values(bytes)[i] \in Nat
         /\ Values(bytes)[0] = 0
         /\ \A i \in 1 .. Header :
              Values(bytes)[i] = bytes[Header - i + 1].digit + Base * Values(bytes)[i - 1]
<1> DEFINE L == Header
           X == Nat
           x0 == 0
           onward(n, x) == bytes[Header - n + 1].digit + Base * x
           G == [n \in 1 .. L |-> [x \in X |-> onward(n, x)]]
           j == CHOOSE j : j = [i \in 0 .. Header |->
                  IF i = 0 THEN 0 ELSE bytes[Header - i + 1].digit + Base * j[i - 1]]
<1>1. L \in Nat /\ Base \in Nat \ {0}
  BY StoreAssumption
<1>2. x0 \in X
  OBVIOUS
<1>3. \A n \in 1 .. L : \A x \in X : onward(n, x) \in X
  <2>1. \A n \in 1 .. L : Header - n + 1 \in 1 .. Header
    BY <1>1
  <2>2. \A n \in 1 .. L : bytes[Header - n + 1].digit \in Nat
    BY <2>1 DEF DigitsOf
  <2>3. \A x \in X : Base * x \in Nat
    BY <1>1, Product
  <2> QED
    BY <2>2, <2>3
<1>4. Values(bytes) = j
  BY DEF Values
<1>5. (\E f : f = [n \in 0 .. L |-> IF n = 0 THEN x0 ELSE onward(n, f[n - 1])])
        => j = [n \in 0 .. L |-> IF n = 0 THEN x0 ELSE onward(n, j[n - 1])]
  OBVIOUS
<1> HIDE DEF onward, j, X, x0, L
<1>6. \A n \in 1 .. L : \A x \in X : G[n][x] = onward(n, x)
  OBVIOUS
<1> HIDE DEF G
<1>7. Steps(G, X, L)
  BY <1>3, <1>6 DEF Steps
<1>8. PICK f : Unfolds(f, X, x0, G, L)
  BY <1>1, <1>2, <1>7, Recursion
<1>9. \A n \in 1 .. L : n - 1 \in 0 .. L
  BY <1>1
<1>10. \A n \in 1 .. L : f[n] = onward(n, f[n - 1])
  BY <1>6, <1>8, <1>9 DEF Unfolds
<1>11. f = [n \in 0 .. L |-> IF n = 0 THEN x0 ELSE onward(n, f[n - 1])]
  <2>1. \A n \in 0 .. L : f[n] = IF n = 0 THEN x0 ELSE onward(n, f[n - 1])
    <3>1. \A n \in 0 .. L : n = 0 \/ n \in 1 .. L
      BY <1>1
    <3>2. f[0] = x0
      BY <1>8 DEF Unfolds
    <3>3. \A n \in 1 .. L : n # 0
      OBVIOUS
    <3> QED
      BY <1>10, <3>1, <3>2, <3>3
  <2>2. f = [n \in 0 .. L |-> f[n]]
    BY <1>8 DEF Unfolds
  <2> QED
    BY <2>1, <2>2
<1>12. j = [n \in 0 .. L |-> IF n = 0 THEN x0 ELSE onward(n, j[n - 1])]
  BY <1>5, <1>11
<1>13. j[0] = x0 /\ \A n \in 1 .. L : j[n] = onward(n, j[n - 1])
  <2>1. \A n \in 0 .. L : j[n] = IF n = 0 THEN x0 ELSE onward(n, j[n - 1])
    BY <1>12
  <2>2. 0 \in 0 .. L /\ \A n \in 1 .. L : n \in 0 .. L /\ n # 0
    BY <1>1
  <2> QED
    BY <2>1, <2>2
<1> DEFINE T == {n \in 0 .. L : j[n] \in X}
<1>14. Inductive(T, L)
  <2>1. 0 \in T
    BY <1>1, <1>2, <1>13
  <2>2. ASSUME NEW n \in 1 .. L, n - 1 \in T
        PROVE  n \in T
    <3>1. n - 1 \in 0 .. L /\ n \in 0 .. L
      BY <1>1
    <3>2. j[n - 1] \in X
      BY <2>2
    <3>3. onward(n, j[n - 1]) \in X
      BY <1>3, <3>2
    <3> QED
      BY <1>13, <3>1, <3>3
  <2> QED
    BY <2>1, <2>2 DEF Inductive
<1> HIDE DEF T
<1>15. \A n \in 0 .. L : n \in T
  BY <1>1, <1>14, UpTo
<1>16. \A n \in 0 .. L : j[n] \in X
  BY <1>15 DEF T
<1> QED
  BY <1>4, <1>13, <1>16 DEF L, X, x0, onward

(* A byte of a length is a digit. *)
LEMMA DigitsAre ==
  ASSUME NEW s \in Nat
  PROVE  /\ Digits(s) \in Seq(Bytes)
         /\ Len(Digits(s)) = Header
         /\ \A i \in 1 .. Header :
              Digits(s)[i] = Byte(Quotients(s)[i - 1] % Base, 0, 0)
         /\ DigitsOf(Digits(s))
<1>1. Header \in Nat /\ Base \in Nat \ {0} /\ MaxBlocks \in Nat
  BY StoreAssumption
<1> DEFINE d(i) == Quotients(s)[i - 1] % Base
<1>2. \A i \in 1 .. Header : d(i) \in 0 .. Base - 1
  <2>1. \A i \in 1 .. Header : i - 1 \in 0 .. Header
    BY <1>1
  <2>2. \A i \in 1 .. Header : Quotients(s)[i - 1] \in Nat
    BY <2>1, QuotientsIs
  <2> QED
    BY <1>1, <2>2, Division
<1>3. Digits(s) = [i \in 1 .. Header |-> Byte(d(i), 0, 0)]
  BY DEF Digits
<1> HIDE DEF d
<1>4. \A i \in 1 .. Header :
        Byte(d(i), 0, 0) \in Bytes
  BY <1>1, <1>2 DEF Byte, Bytes
<1>5. \A i \in 1 .. Header : Byte(d(i), 0, 0).digit \in Nat
  BY <1>1, <1>2 DEF Byte
<1>6. Digits(s) \in Seq(Bytes) /\ Len(Digits(s)) = Header
  BY <1>1, <1>3, <1>4
<1>7. \A i \in 1 .. Header : Digits(s)[i] = Byte(d(i), 0, 0)
  BY <1>3
<1> QED
  BY <1>5, <1>6, <1>7 DEF DigitsOf, d

(* A length is read back as it was written, when it has no more digits than*)
(* a header.                                                               *)
LEMMA NumberDigits ==
  ASSUME NEW s \in Nat, Quotients(s)[Header] = 0
  PROVE  Number(Digits(s)) = s
<1> DEFINE v == Values(Digits(s))
           q == Quotients(s)
           x == Digits(s)
           L == Header
<1>1. L \in Nat /\ Base \in Nat \ {0}
  BY StoreAssumption
<1>2. /\ v[0] = 0
      /\ \A i \in 1 .. L : v[i] = x[L - i + 1].digit + Base * v[i - 1]
  BY DigitsAre, ValuesIs
<1>3. /\ \A i \in 0 .. L : q[i] \in Nat
      /\ q[0] = s
      /\ \A i \in 1 .. L : q[i] = q[i - 1] \div Base
  BY QuotientsIs
<1>4. \A i \in 1 .. L : x[i].digit = q[i - 1] % Base
  <2>1. \A i \in 1 .. Header : Digits(s)[i] = Byte(Quotients(s)[i - 1] % Base, 0, 0)
    BY DigitsAre
  <2>2. \A d : Byte(d, 0, 0).digit = d
    BY DEF Byte
  <2> QED
    BY <2>1, <2>2
<1>5. q[L] = 0 /\ Number(x) = v[L]
  BY DEF Number
<1> HIDE DEF v, q, x, L
<1> DEFINE T == {i \in 0 .. L : v[i] = q[L - i]}
<1>6. Inductive(T, L)
  <2>1. 0 \in T
    BY <1>1, <1>2, <1>5
  <2>2. ASSUME NEW n \in 1 .. L, n - 1 \in T
        PROVE  n \in T
    <3>1. /\ L - n \in 0 .. L /\ L - (n - 1) = L - n + 1
          /\ L - n + 1 \in 1 .. L /\ (L - n + 1) - 1 = L - n
      BY <1>1
    <3>2. v[n - 1] = q[L - n + 1]
      BY <2>2, <3>1
    <3>3. q[L - n + 1] = q[L - n] \div Base
      BY <1>3, <3>1
    <3>4. x[L - n + 1].digit = q[L - n] % Base
      BY <1>4, <3>1
    <3>5. q[L - n] = (q[L - n] % Base) + Base * (q[L - n] \div Base)
      <4>1. q[L - n] \in Nat
        BY <1>3, <3>1
      <4> HIDE DEF q
      <4> QED
        BY <1>1, <4>1, Division
    <3>6. v[n] = x[L - n + 1].digit + Base * v[n - 1]
      BY <1>2
    <3>7. n \in 0 .. L
      BY <1>1
    <3> QED
      BY <3>2, <3>3, <3>4, <3>5, <3>6, <3>7
  <2> QED
    BY <2>1, <2>2 DEF Inductive
<1> HIDE DEF T
<1>7. \A n \in 0 .. L : n \in T
  BY <1>1, <1>6, UpTo
<1>8. v[L] = q[L - L]
  BY <1>1, <1>7 DEF T
<1>9. L - L = 0
  BY <1>1
<1> QED
  BY <1>3, <1>5, <1>8, <1>9 DEF x

(* No digit of a number that is smaller makes the number no greater. *)
LEMMA NumberPart ==
  ASSUME NEW x, NEW y, DigitsOf(x), DigitsOf(y),
         \A i \in 1 .. Header : x[i].digit <= y[i].digit
  PROVE  Number(x) <= Number(y)
<1> DEFINE v == Values(x)
           u == Values(y)
           L == Header
<1>1. L \in Nat /\ Base \in Nat \ {0}
  BY StoreAssumption
<1>2. /\ v[0] = 0 /\ \A i \in 0 .. L : v[i] \in Nat
      /\ \A i \in 1 .. L : v[i] = x[L - i + 1].digit + Base * v[i - 1]
  BY ValuesIs
<1>3. /\ u[0] = 0 /\ \A i \in 0 .. L : u[i] \in Nat
      /\ \A i \in 1 .. L : u[i] = y[L - i + 1].digit + Base * u[i - 1]
  BY ValuesIs
<1>4. Number(x) = v[L] /\ Number(y) = u[L]
  BY DEF Number
<1>5. \A i \in 1 .. L : x[i].digit \in Nat /\ y[i].digit \in Nat /\ x[i].digit <= y[i].digit
  BY DEF DigitsOf
<1> HIDE DEF v, u, L
<1> DEFINE T == {i \in 0 .. L : v[i] <= u[i]}
<1>6. Inductive(T, L)
  <2>1. 0 \in T
    BY <1>1, <1>2, <1>3
  <2>2. ASSUME NEW n \in 1 .. L, n - 1 \in T
        PROVE  n \in T
    <3>1. n \in 0 .. L /\ n - 1 \in 0 .. L /\ L - n + 1 \in 1 .. L
      BY <1>1
    <3>2. v[n - 1] \in Nat /\ u[n - 1] \in Nat /\ v[n - 1] <= u[n - 1]
      BY <1>2, <1>3, <2>2, <3>1
    <3>3. /\ Base * v[n - 1] \in Nat /\ Base * u[n - 1] \in Nat
          /\ Base * v[n - 1] <= Base * u[n - 1]
      BY <1>1, <3>2, Product
    <3>4. v[n] = x[L - n + 1].digit + Base * v[n - 1]
      BY <1>2
    <3>5. u[n] = y[L - n + 1].digit + Base * u[n - 1]
      BY <1>3
    <3>6. /\ x[L - n + 1].digit \in Nat /\ y[L - n + 1].digit \in Nat
          /\ x[L - n + 1].digit <= y[L - n + 1].digit
      BY <1>5, <3>1
    <3> QED
      BY <3>1, <3>3, <3>4, <3>5, <3>6
  <2> QED
    BY <2>1, <2>2 DEF Inductive
<1> HIDE DEF T
<1>7. \A n \in 0 .. L : n \in T
  BY <1>1, <1>6, UpTo
<1> QED
  BY <1>1, <1>4, <1>7 DEF T

(* Only zeros make zero. *)
LEMMA NumberZero ==
  ASSUME NEW x, DigitsOf(x)
  PROVE  /\ Number(x) \in Nat
         /\ Number(x) = 0 <=> \A i \in 1 .. Header : x[i].digit = 0
<1> DEFINE v == Values(x)
           L == Header
<1>1. L \in Nat /\ Base \in Nat \ {0}
  BY StoreAssumption
<1>2. /\ v[0] = 0 /\ \A i \in 0 .. L : v[i] \in Nat
      /\ \A i \in 1 .. L : v[i] = x[L - i + 1].digit + Base * v[i - 1]
  BY ValuesIs
<1>4. Number(x) = v[L]
  BY DEF Number
<1>5. \A i \in 1 .. L : x[i].digit \in Nat
  BY DEF DigitsOf
<1> HIDE DEF v, L
<1> DEFINE T == {i \in 0 .. L : v[i] = 0 <=> \A k \in 1 .. i : x[L - k + 1].digit = 0}
<1>6. Inductive(T, L)
  <2>1. 0 \in T
    BY <1>1, <1>2
  <2>2. ASSUME NEW n \in 1 .. L, n - 1 \in T
        PROVE  n \in T
    <3>1. n \in 0 .. L /\ n - 1 \in 0 .. L /\ L - n + 1 \in 1 .. L
      BY <1>1
    <3>2. v[n - 1] = 0 <=> \A k \in 1 .. n - 1 : x[L - k + 1].digit = 0
      BY <2>2
    <3>3. v[n] = x[L - n + 1].digit + Base * v[n - 1]
      BY <1>2
    <3>4. x[L - n + 1].digit \in Nat /\ v[n - 1] \in Nat
      BY <1>2, <1>5, <3>1
    <3>5. Base * v[n - 1] \in Nat /\ (Base * v[n - 1] = 0 <=> v[n - 1] = 0)
      BY <1>1, <3>4, Product
    <3>6. v[n] = 0 <=> x[L - n + 1].digit = 0 /\ v[n - 1] = 0
      BY <3>3, <3>4, <3>5
    <3>7. (\A k \in 1 .. n : x[L - k + 1].digit = 0)
            <=> x[L - n + 1].digit = 0 /\ \A k \in 1 .. n - 1 : x[L - k + 1].digit = 0
      <4>1. \A k \in 1 .. n : k = n \/ k \in 1 .. n - 1
        BY <3>1, <1>1
      <4>2. n \in 1 .. n /\ \A k \in 1 .. n - 1 : k \in 1 .. n
        BY <3>1, <1>1
      <4> QED
        BY <4>1, <4>2
    <3> QED
      BY <3>1, <3>2, <3>6, <3>7
  <2> QED
    BY <2>1, <2>2 DEF Inductive
<1> HIDE DEF T
<1>7. \A n \in 0 .. L : n \in T
  BY <1>1, <1>6, UpTo
<1>8. v[L] = 0 <=> \A k \in 1 .. L : x[L - k + 1].digit = 0
  BY <1>1, <1>7 DEF T
<1>9. (\A k \in 1 .. L : x[L - k + 1].digit = 0) <=> (\A i \in 1 .. L : x[i].digit = 0)
  <2>1. ASSUME \A k \in 1 .. L : x[L - k + 1].digit = 0, NEW i \in 1 .. L
        PROVE  x[i].digit = 0
    <3>1. L - i + 1 \in 1 .. L /\ L - (L - i + 1) + 1 = i
      BY <1>1
    <3> QED
      BY <2>1, <3>1
  <2>2. \A k \in 1 .. L : L - k + 1 \in 1 .. L
    BY <1>1
  <2> QED
    BY <2>1, <2>2
<1> QED
  BY <1>1, <1>2, <1>4, <1>8, <1>9 DEF L

-----------------------------------------------------------------------------
(* A new store is zero everywhere. *)
LEMMA ZeroByte ==
  Zero \in Bytes /\ Zero.digit = 0 /\ EmptyStore \in Store
  /\ \A o \in 0 .. MaxSize - 1 : EmptyStore[o] = Zero
<1>1. MaxBlocks \in Nat /\ Base \in Nat \ {0}
  BY StoreAssumption
<1>2. Zero \in Bytes /\ Zero.digit = 0
  BY <1>1 DEF Zero, Byte, Bytes
<1> QED
  BY <1>2 DEF EmptyStore, Store

(* A read has the bytes it asked for, zeros past the end of the store. *)
LEMMA ReadIs ==
  ASSUME NEW store \in Store, NEW o \in Nat, NEW size \in Nat
  PROVE  /\ ReadAt(store, o, size) = [k \in 1 .. size |-> ReadAt(store, o, size)[k]]
         /\ ReadAt(store, o, size) \in Seq(Bytes)
         /\ Len(ReadAt(store, o, size)) = size
         /\ \A k \in 1 .. size :
              ReadAt(store, o, size)[k] = IF o + k - 1 < MaxSize THEN store[o + k - 1] ELSE Zero
<1> DEFINE b(k) == IF o + k - 1 \in DOMAIN store THEN store[o + k - 1] ELSE Zero
<1>1. MaxSize \in Nat /\ DOMAIN store = 0 .. MaxSize - 1
  BY StoreAssumption DEF Store
<1>2. \A k \in 1 .. size : b(k) = IF o + k - 1 < MaxSize THEN store[o + k - 1] ELSE Zero
  <2>1. \A k \in 1 .. size : o + k - 1 \in DOMAIN store <=> o + k - 1 < MaxSize
    BY <1>1
  <2> QED
    BY <2>1
<1>3. \A k \in 1 .. size : b(k) \in Bytes
  <2>1. \A k \in 1 .. size : o + k - 1 \in DOMAIN store => store[o + k - 1] \in Bytes
    BY <1>1 DEF Store
  <2> QED
    BY <2>1, ZeroByte
<1>4. ReadAt(store, o, size) = [k \in 1 .. size |-> b(k)]
  BY DEF ReadAt
<1> HIDE DEF b
<1>5. /\ [k \in 1 .. size |-> b(k)] \in Seq(Bytes)
      /\ Len([k \in 1 .. size |-> b(k)]) = size
      /\ \A k \in 1 .. size : [k1 \in 1 .. size |-> b(k1)][k] = b(k)
  BY <1>3
<1> QED
  BY <1>2, <1>4, <1>5

(* The length at an offset, as the scan reads it. *)
SizeAt(store, o) == Number(ReadAt(store, o, Header))

(* The length at an offset is a number, whatever the store holds there. *)
LEMMA SizeAtIs ==
  ASSUME NEW store \in Store, NEW o \in Nat
  PROVE  DigitsOf(ReadAt(store, o, Header)) /\ SizeAt(store, o) \in Nat
<1>1. Header \in Nat /\ Base \in Nat \ {0}
  BY StoreAssumption
<1>2. \A k \in 1 .. Header : ReadAt(store, o, Header)[k] \in Bytes
  <2>1. ReadAt(store, o, Header) \in Seq(Bytes) /\ Len(ReadAt(store, o, Header)) = Header
    BY <1>1, ReadIs
  <2> QED
    BY <2>1
<1>3. DigitsOf(ReadAt(store, o, Header))
  BY <1>1, <1>2 DEF DigitsOf, Bytes
<1> QED
  BY <1>3, NumberZero DEF SizeAt

(* A round finds a block, or stays where it is. *)
LEMMA ReadIndexIs ==
  ASSUME NEW n \in Nat, stores[n] \in Store, NEW x \in Found
  PROVE  /\ ReadIndex(n, x) \in Found
         /\ x.offset >= MaxSize \/ SizeAt(stores[n], x.offset) = 0 => ReadIndex(n, x) = x
         /\ ~ (x.offset >= MaxSize) /\ SizeAt(stores[n], x.offset) # 0 =>
              ReadIndex(n, x) =
                [found |-> Append(x.found, BlockIndex(n, x.offset + Header,
                                                      SizeAt(stores[n], x.offset))),
                 offset |-> x.offset + Header + SizeAt(stores[n], x.offset)]
<1> DEFINE s == SizeAt(stores[n], x.offset)
           e == BlockIndex(n, x.offset + Header, s)
<1>1. Header \in Nat /\ x.found \in Seq(Places) /\ x.offset \in Nat
  BY StoreAssumption DEF Found
<1>2. s \in Nat
  BY <1>1, SizeAtIs
<1>3. ReadIndex(n, x) = IF x.offset >= MaxSize \/ s = 0 THEN x
                        ELSE [found |-> Append(x.found, e), offset |-> x.offset + Header + s]
  BY DEF ReadIndex, SizeAt
<1> HIDE DEF s
<1>4. e \in Places
  BY <1>1, <1>2 DEF BlockIndex, Places
<1> HIDE DEF e
<1>5. [found |-> Append(x.found, e), offset |-> x.offset + Header + s] \in Found
  BY <1>1, <1>2, <1>4, AddedIs DEF Found
<1> QED
  BY <1>3, <1>5 DEF s, e

(* Rounds is the function that its definition asks for. *)
LEMMA RoundsIs ==
  ASSUME NEW n \in Nat, stores[n] \in Store, NEW found \in Seq(Places)
  PROVE  /\ \A k \in 0 .. MaxSize : Rounds(n, found)[k] \in Found
         /\ Rounds(n, found)[0] = [found |-> found, offset |-> 0]
         /\ \A k \in 1 .. MaxSize : Rounds(n, found)[k] = ReadIndex(n, Rounds(n, found)[k - 1])
<1> DEFINE L == MaxSize
           X == Found
           x0 == [found |-> found, offset |-> 0]
           onward(k, x) == ReadIndex(n, x)
           G == [k \in 1 .. L |-> [x \in X |-> onward(k, x)]]
           j == CHOOSE j : j = [k \in 0 .. MaxSize |->
                  IF k = 0 THEN [found |-> found, offset |-> 0] ELSE ReadIndex(n, j[k - 1])]
<1>1. L \in Nat
  BY StoreAssumption
<1>2. x0 \in X
  BY DEF Found
<1>3. \A k \in 1 .. L : \A x \in X : onward(k, x) \in X
  BY ReadIndexIs
<1>4. Rounds(n, found) = j
  BY DEF Rounds
<1>5. (\E f : f = [k \in 0 .. L |-> IF k = 0 THEN x0 ELSE onward(k, f[k - 1])])
        => j = [k \in 0 .. L |-> IF k = 0 THEN x0 ELSE onward(k, j[k - 1])]
  OBVIOUS
<1> HIDE DEF onward, j, X, x0, L
<1>6. \A k \in 1 .. L : \A x \in X : G[k][x] = onward(k, x)
  OBVIOUS
<1> HIDE DEF G
<1>7. Steps(G, X, L)
  BY <1>3, <1>6 DEF Steps
<1>8. PICK f : Unfolds(f, X, x0, G, L)
  BY <1>1, <1>2, <1>7, Recursion
<1>9. \A k \in 1 .. L : k - 1 \in 0 .. L
  BY <1>1
<1>10. \A k \in 1 .. L : f[k] = onward(k, f[k - 1])
  BY <1>6, <1>8, <1>9 DEF Unfolds
<1>11. f = [k \in 0 .. L |-> IF k = 0 THEN x0 ELSE onward(k, f[k - 1])]
  <2>1. \A k \in 0 .. L : f[k] = IF k = 0 THEN x0 ELSE onward(k, f[k - 1])
    <3>1. \A k \in 0 .. L : k = 0 \/ k \in 1 .. L
      BY <1>1
    <3>2. f[0] = x0
      BY <1>8 DEF Unfolds
    <3>3. \A k \in 1 .. L : k # 0
      OBVIOUS
    <3> QED
      BY <1>10, <3>1, <3>2, <3>3
  <2>2. f = [k \in 0 .. L |-> f[k]]
    BY <1>8 DEF Unfolds
  <2> QED
    BY <2>1, <2>2
<1>12. j = [k \in 0 .. L |-> IF k = 0 THEN x0 ELSE onward(k, j[k - 1])]
  BY <1>5, <1>11
<1>13. j[0] = x0 /\ \A k \in 1 .. L : j[k] = onward(k, j[k - 1])
  <2>1. \A k \in 0 .. L : j[k] = IF k = 0 THEN x0 ELSE onward(k, j[k - 1])
    BY <1>12
  <2>2. 0 \in 0 .. L /\ \A k \in 1 .. L : k \in 0 .. L /\ k # 0
    BY <1>1
  <2> QED
    BY <2>1, <2>2
<1> DEFINE T == {k \in 0 .. L : j[k] \in X}
<1>14. Inductive(T, L)
  <2>1. 0 \in T
    BY <1>1, <1>2, <1>13
  <2>2. ASSUME NEW k \in 1 .. L, k - 1 \in T
        PROVE  k \in T
    <3>1. k - 1 \in 0 .. L /\ k \in 0 .. L
      BY <1>1
    <3>2. j[k - 1] \in X
      BY <2>2
    <3>3. onward(k, j[k - 1]) \in X
      BY <1>3, <3>2
    <3> QED
      BY <1>13, <3>1, <3>3
  <2> QED
    BY <2>1, <2>2 DEF Inductive
<1> HIDE DEF T
<1>15. \A k \in 0 .. L : k \in T
  BY <1>1, <1>14, UpTo
<1>16. \A k \in 0 .. L : j[k] \in X
  BY <1>15 DEF T
<1> QED
  BY <1>4, <1>13, <1>16 DEF L, X, x0, onward

(* Every store is there. *)
StoresTyped(st) == st \in Seq(Store) /\ Len(st) \in Nat \ {0}

(* Scans is the function that its definition asks for. *)
LEMMA ScansAre ==
  ASSUME StoresTyped(stores)
  PROVE  /\ \A n \in 0 .. Len(stores) : Scans[n] \in Found
         /\ Scans[0] = [found |-> << >>, offset |-> 0]
         /\ \A n \in 1 .. Len(stores) : Scans[n] = Rounds(n, Scans[n - 1].found)[MaxSize]
<1> DEFINE L == Len(stores)
           X == Found
           x0 == [found |-> << >>, offset |-> 0]
           onward(n, x) == Rounds(n, x.found)[MaxSize]
           G == [n \in 1 .. L |-> [x \in X |-> onward(n, x)]]
           j == CHOOSE j : j = [n \in 0 .. Len(stores) |->
                  IF n = 0 THEN [found |-> << >>, offset |-> 0]
                  ELSE Rounds(n, j[n - 1].found)[MaxSize]]
<1>1. L \in Nat
  BY DEF StoresTyped
<1>2. x0 \in X
  BY EmptySeq DEF Found
<1>3. \A n \in 1 .. L : \A x \in X : onward(n, x) \in X
  <2>1. ASSUME NEW n \in 1 .. L, NEW x \in X
        PROVE  onward(n, x) \in X
    <3>1. stores[n] \in Store /\ n \in Nat /\ x.found \in Seq(Places)
      BY DEF StoresTyped, Found
    <3>2. MaxSize \in 0 .. MaxSize
      BY StoreAssumption
    <3> QED
      BY Zenon, <3>1, <3>2, RoundsIs
  <2> QED
    BY <2>1
<1>4. Scans = j
  BY DEF Scans
<1>5. (\E f : f = [n \in 0 .. L |-> IF n = 0 THEN x0 ELSE onward(n, f[n - 1])])
        => j = [n \in 0 .. L |-> IF n = 0 THEN x0 ELSE onward(n, j[n - 1])]
  BY Zenon
<1> HIDE DEF onward, j, X, x0, L
<1>6. \A n \in 1 .. L : \A x \in X : G[n][x] = onward(n, x)
  OBVIOUS
<1> HIDE DEF G
<1>7. Steps(G, X, L)
  BY <1>3, <1>6 DEF Steps
<1>8. PICK f : Unfolds(f, X, x0, G, L)
  BY <1>1, <1>2, <1>7, Recursion
<1>9. \A n \in 1 .. L : n - 1 \in 0 .. L
  BY <1>1
<1>10. \A n \in 1 .. L : f[n] = onward(n, f[n - 1])
  BY <1>6, <1>8, <1>9 DEF Unfolds
<1>11. f = [n \in 0 .. L |-> IF n = 0 THEN x0 ELSE onward(n, f[n - 1])]
  <2>1. \A n \in 0 .. L : f[n] = IF n = 0 THEN x0 ELSE onward(n, f[n - 1])
    <3>1. \A n \in 0 .. L : n = 0 \/ n \in 1 .. L
      BY <1>1
    <3>2. f[0] = x0
      BY <1>8 DEF Unfolds
    <3>3. \A n \in 1 .. L : n # 0
      OBVIOUS
    <3> QED
      BY <1>10, <3>1, <3>2, <3>3
  <2>2. f = [n \in 0 .. L |-> f[n]]
    BY <1>8 DEF Unfolds
  <2> QED
    BY <2>1, <2>2
<1>12. j = [n \in 0 .. L |-> IF n = 0 THEN x0 ELSE onward(n, j[n - 1])]
  BY <1>5, <1>11
<1>13. j[0] = x0 /\ \A n \in 1 .. L : j[n] = onward(n, j[n - 1])
  <2>1. \A n \in 0 .. L : j[n] = IF n = 0 THEN x0 ELSE onward(n, j[n - 1])
    BY <1>12
  <2>2. 0 \in 0 .. L /\ \A n \in 1 .. L : n \in 0 .. L /\ n # 0
    BY <1>1
  <2> QED
    BY <2>1, <2>2
<1> DEFINE T == {n \in 0 .. L : j[n] \in X}
<1>14. Inductive(T, L)
  <2>1. 0 \in T
    BY <1>1, <1>2, <1>13
  <2>2. ASSUME NEW n \in 1 .. L, n - 1 \in T
        PROVE  n \in T
    <3>1. n - 1 \in 0 .. L /\ n \in 0 .. L
      BY <1>1
    <3>2. j[n - 1] \in X
      BY <2>2
    <3>3. onward(n, j[n - 1]) \in X
      BY <1>3, <3>2
    <3> QED
      BY <1>13, <3>1, <3>3
  <2> QED
    BY <2>1, <2>2 DEF Inductive
<1> HIDE DEF T
<1>15. \A n \in 0 .. L : n \in T
  BY <1>1, <1>14, UpTo
<1>16. \A n \in 0 .. L : j[n] \in X
  BY <1>15 DEF T
<1> QED
  BY <1>4, <1>13, <1>16 DEF L, X, x0, onward

-----------------------------------------------------------------------------
(* How the blocks idx lie in the stores st.  The byte after the first m of *)
(* them in store n: *)
After(idx, m, n) ==
  IF m = 0 \/ idx[m].StoreNum # n THEN 0 ELSE idx[m].Offset + idx[m].Size

(* A scan stops here. *)
Stops(store, o) == o >= MaxSize \/ SizeAt(store, o) = 0

(* The first m blocks are in the stores up to n, the others are not. *)
Passed(idx, m, n) ==
  /\ m \in 0 .. Len(idx)
  /\ m > 0 => idx[m].StoreNum <= n
  /\ m < Len(idx) => idx[m + 1].StoreNum > n

(* Blocks come one after the other behind their lengths, ... *)
Indexed(st, idx) ==
  /\ idx \in Seq(Places)
  /\ \A m \in 1 .. Len(idx) - 1 : idx[m].StoreNum <= idx[m + 1].StoreNum
  /\ \A m \in 1 .. Len(idx) :
       /\ idx[m].StoreNum \in 1 .. Len(st)
       /\ idx[m].Size > 0 /\ idx[m].Offset + idx[m].Size <= MaxSize
       /\ idx[m].Offset = After(idx, m - 1, idx[m].StoreNum) + Header
       /\ SizeAt(st[idx[m].StoreNum], idx[m].Offset - Header) = idx[m].Size

(* ... a scan of a full store ends after the last of its blocks, ... *)
Ended(st, idx) ==
  \A m \in 0 .. Len(idx), n \in 1 .. Len(st) - 1 :
    Passed(idx, m, n) => Stops(st[n], After(idx, m, n))

(* ... and the last store is empty behind its blocks. *)
Room(st, idx, size) ==
  /\ size = After(idx, Len(idx), Len(st))
  /\ \A o \in 0 .. MaxSize - 1 : o >= size => st[Len(st)][o] = Zero
  /\ \A m \in 1 .. Len(idx) :
       idx[m].StoreNum = Len(st) => idx[m].Offset + idx[m].Size <= size

Laid(st, idx, size) == Indexed(st, idx) /\ Ended(st, idx) /\ Room(st, idx, size)

(* The byte after the first blocks is a number. *)
LEMMA AfterIs ==
  ASSUME NEW idx \in Seq(Places), NEW m \in 0 .. Len(idx), NEW n
  PROVE  After(idx, m, n) \in Nat
<1>1. m # 0 => idx[m] \in Places
  BY LenProperties
<1>2. \A e \in Places : e.Offset \in Nat /\ e.Size \in Nat /\ e.Offset + e.Size \in Nat
  BY DEF Places
<1> QED
  BY <1>1, <1>2 DEF After

(* There is no length where the bytes are zero. *)
LEMMA ZeroSize ==
  ASSUME NEW store \in Store, NEW o \in Nat,
         \A p \in 0 .. MaxSize - 1 : p >= o /\ p < o + Header => store[p] = Zero
  PROVE  SizeAt(store, o) = 0
<1>1. Header \in Nat /\ MaxSize \in Nat
  BY StoreAssumption
<1>2. \A k \in 1 .. Header : ReadAt(store, o, Header)[k] = Zero
  <2>1. ASSUME NEW k \in 1 .. Header
        PROVE  ReadAt(store, o, Header)[k] = Zero
    <3>1. ReadAt(store, o, Header)[k] = IF o + k - 1 < MaxSize THEN store[o + k - 1] ELSE Zero
      BY <1>1, ReadIs
    <3>2. o + k - 1 < MaxSize => o + k - 1 \in 0 .. MaxSize - 1 /\ o + k - 1 >= o /\ o + k - 1 < o + Header
      BY <1>1
    <3> QED
      BY <3>1, <3>2
  <2> QED
    BY <2>1
<1>3. \A k \in 1 .. Header : ReadAt(store, o, Header)[k].digit = 0
  BY <1>2, ZeroByte
<1> QED
  BY <1>3, SizeAtIs, NumberZero DEF SizeAt

(* A scan of any store, full or not, ends after the last of its blocks. *)
LEMMA StopsAt ==
  ASSUME NEW st, StoresTyped(st), NEW idx, NEW size, Laid(st, idx, size),
         NEW m, NEW n \in 1 .. Len(st), Passed(idx, m, n)
  PROVE  Stops(st[n], After(idx, m, n))
<1>1. CASE n \in 1 .. Len(st) - 1
  BY <1>1 DEF Laid, Ended, Passed
<1>2. CASE n = Len(st)
  <2>1. Len(st) \in Nat \ {0} /\ idx \in Seq(Places) /\ m \in 0 .. Len(idx) /\ st[n] \in Store
    BY DEF StoresTyped, Laid, Indexed, Passed
  <2>2. Len(idx) \in Nat
    BY <2>1
  <2>3. m = Len(idx)
    <3>1. SUFFICES ASSUME m < Len(idx)
                   PROVE  FALSE
      BY <2>1, <2>2
    <3>2. m + 1 \in 1 .. Len(idx) /\ idx[m + 1].StoreNum > n
      BY <2>1, <2>2, <3>1 DEF Passed
    <3>3. idx[m + 1].StoreNum \in 1 .. Len(st)
      BY <3>2 DEF Laid, Indexed
    <3> QED
      BY <1>2, <2>1, <3>2, <3>3
  <2>4. After(idx, m, n) = size /\ After(idx, m, n) \in Nat
    BY <1>2, <2>1, <2>3, AfterIs DEF Laid, Room
  <2>5. \A o \in 0 .. MaxSize - 1 : o >= size => st[n][o] = Zero
    BY <1>2 DEF Laid, Room
  <2>6. SizeAt(st[n], size) = 0
    BY <2>1, <2>4, <2>5, ZeroSize
  <2> QED
    BY <2>4, <2>6 DEF Stops
<1> QED
  BY <1>1, <1>2 DEF StoresTyped

(* The first m blocks, and one more. *)
LEMMA PartIs ==
  ASSUME NEW idx \in Seq(Places), NEW m \in 0 .. Len(idx)
  PROVE  /\ SubSeq(idx, 1, m) \in Seq(Places) /\ Len(SubSeq(idx, 1, m)) = m
         /\ \A k \in 1 .. m : SubSeq(idx, 1, m)[k] = idx[k]
         /\ m = Len(idx) => SubSeq(idx, 1, m) = idx
         /\ m < Len(idx) => SubSeq(idx, 1, m + 1) = Append(SubSeq(idx, 1, m), idx[m + 1])
<1>1. Len(idx) \in Nat /\ m \in Nat /\ m <= Len(idx)
  BY LenProperties
<1>2. \A l \in 0 .. Len(idx) :
         /\ SubSeq(idx, 1, l) \in Seq(Places) /\ Len(SubSeq(idx, 1, l)) = l
         /\ \A k \in 1 .. l : SubSeq(idx, 1, l)[k] = idx[k]
  <2>1. ASSUME NEW l \in 0 .. Len(idx)
        PROVE  /\ SubSeq(idx, 1, l) \in Seq(Places) /\ Len(SubSeq(idx, 1, l)) = l
               /\ \A k \in 1 .. l : SubSeq(idx, 1, l)[k] = idx[k]
    BY <1>1
  <2> QED
    BY <2>1
<1>3. m = Len(idx) => SubSeq(idx, 1, m) = idx
  BY <1>1
<1>4. ASSUME m < Len(idx)
      PROVE  SubSeq(idx, 1, m + 1) = Append(SubSeq(idx, 1, m), idx[m + 1])
  <2> DEFINE a == SubSeq(idx, 1, m + 1)
             b == SubSeq(idx, 1, m)
             c == Append(b, idx[m + 1])
  <2>1. m + 1 \in 0 .. Len(idx) /\ m + 1 \in 1 .. Len(idx) /\ idx[m + 1] \in Places
    BY <1>1, <1>4, LenProperties
  <2>2. a \in Seq(Places) /\ Len(a) = m + 1 /\ \A k \in 1 .. m + 1 : a[k] = idx[k]
    BY <1>2, <2>1
  <2>3. b \in Seq(Places) /\ Len(b) = m /\ \A k \in 1 .. m : b[k] = idx[k]
    BY <1>2
  <2> HIDE DEF a, b
  <2>4. c \in Seq(Places) /\ Len(c) = m + 1 /\ c[m + 1] = idx[m + 1] /\ \A k \in 1 .. m : c[k] = b[k]
    BY <2>1, <2>3, AddedIs
  <2> HIDE DEF c
  <2>5. \A k \in 1 .. m + 1 : k = m + 1 \/ k \in 1 .. m
    BY <1>1
  <2>6. \A k \in 1 .. m + 1 : a[k] = c[k]
    BY <2>2, <2>3, <2>4, <2>5
  <2>7. a = c
    BY <2>2, <2>4, <2>6, SeqEqual
  <2> QED
    BY <2>7 DEF a, b, c
<1> QED
  BY <1>2, <1>3, <1>4

(* A round of the scan of store n goes from one block to the next. *)
Reached(idx, m, n) ==
  /\ m \in 0 .. Len(idx)
  /\ m > 0 => idx[m].StoreNum <= n
  /\ m < Len(idx) => idx[m + 1].StoreNum >= n

Stand(idx, m, n) == [found |-> SubSeq(idx, 1, m), offset |-> After(idx, m, n)]

(* The parts of Stand. *)
LEMMA StandIs ==
  ASSUME NEW idx, NEW m, NEW n
  PROVE  Stand(idx, m, n).found = SubSeq(idx, 1, m) /\ Stand(idx, m, n).offset = After(idx, m, n)
<1> DEFINE f == SubSeq(idx, 1, m)
           o == After(idx, m, n)
<1>1. Stand(idx, m, n) = [found |-> f, offset |-> o]
  BY DEF Stand
<1> HIDE DEF f, o
<1>2. Stand(idx, m, n).found = f /\ Stand(idx, m, n).offset = o
  BY <1>1
<1> QED
  BY <1>2 DEF f, o

(* Where there is a block left in store n, a round of the scan finds it. *)
LEMMA NextBlock ==
  ASSUME StoresTyped(stores), NEW idx, NEW size, Laid(stores, idx, size),
         NEW n \in 1 .. Len(stores), NEW m, Reached(idx, m, n), ~ Passed(idx, m, n)
  PROVE  /\ Reached(idx, m + 1, n)
         /\ After(idx, m, n) < MaxSize /\ After(idx, m + 1, n) > After(idx, m, n)
         /\ ReadIndex(n, Stand(idx, m, n)) = Stand(idx, m + 1, n)
<1> DEFINE e == idx[m + 1]
           o == After(idx, m, n)
<1>1. /\ idx \in Seq(Places) /\ Len(idx) \in Nat /\ m \in 0 .. Len(idx)
      /\ n \in Nat /\ stores[n] \in Store /\ Len(stores) \in Nat
      /\ Header \in Nat \ {0} /\ MaxSize \in Nat
  BY StoreAssumption DEF StoresTyped, Laid, Indexed, Reached
<1>2. m < Len(idx) /\ ~ (e.StoreNum > n)
  BY DEF Reached, Passed
<1>3. m + 1 \in 1 .. Len(idx) /\ e \in Places
  BY <1>1, <1>2
<1>4. e.StoreNum = n
  <2>1. e.StoreNum >= n /\ e.StoreNum \in Nat
    BY <1>2, <1>3 DEF Reached, Places
  <2> QED
    BY <1>1, <1>2, <2>1
<1>5. /\ e.Size > 0 /\ e.Offset + e.Size <= MaxSize
      /\ e.Offset = After(idx, (m + 1) - 1, e.StoreNum) + Header
      /\ SizeAt(stores[e.StoreNum], e.Offset - Header) = e.Size
  BY <1>3 DEF Laid, Indexed
<1>6. o \in Nat /\ (m + 1) - 1 = m /\ e.Size \in Nat /\ e.Offset \in Nat
  <2>1. o \in Nat
    BY <1>1, AfterIs
  <2> HIDE DEF e, o
  <2>2. e.Size \in Nat /\ e.Offset \in Nat
    BY <1>3 DEF Places
  <2> QED
    BY <1>1, <2>1, <2>2
<1>7. e.Offset = o + Header
  BY <1>4, <1>5, <1>6
<1>8. o < MaxSize /\ SizeAt(stores[n], o) = e.Size /\ e.Size # 0
  <2>1. SizeAt(stores[n], e.Offset - Header) = e.Size
    BY <1>4, <1>5
  <2> HIDE DEF e, o
  <2>2. e.Offset - Header = o
    BY <1>1, <1>6, <1>7
  <2>3. SizeAt(stores[n], o) = e.Size
    BY <2>1, <2>2
  <2> QED
    BY SMTT(20), <1>1, <1>5, <1>6, <1>7, <2>3
<1>9. After(idx, m + 1, n) = o + Header + e.Size
  <2>1. m + 1 # 0
    BY <1>1
  <2> QED
    BY <1>4, <1>7, <2>1 DEF After
<1>10. Reached(idx, m + 1, n)
  <2>1. m + 1 < Len(idx) => idx[m + 1].StoreNum <= idx[(m + 1) + 1].StoreNum
    <3>1. m + 1 < Len(idx) => m + 1 \in 1 .. Len(idx) - 1
      BY <1>1
    <3> QED
      BY <3>1 DEF Laid, Indexed
  <2>2. m + 1 \in 0 .. Len(idx)
    BY <1>3
  <2>3. n <= n /\ \A x : n <= x <=> x >= n
    BY <1>1
  <2> QED
    BY <1>4, <2>1, <2>2, <2>3 DEF Reached
<1>11. e = BlockIndex(n, o + Header, e.Size)
  <2>1. e = [StoreNum |-> e.StoreNum, Offset |-> e.Offset, Size |-> e.Size]
    BY <1>3 DEF Places
  <2> QED
    BY <1>4, <1>7, <2>1 DEF BlockIndex
<1> HIDE DEF e, o
<1>12. ReadIndex(n, Stand(idx, m, n)) = Stand(idx, m + 1, n)
  <2> DEFINE x == Stand(idx, m, n)
  <2>1. x.found = SubSeq(idx, 1, m) /\ x.offset = o
    BY DEF Stand, o
  <2>2. x \in Found
    <3>1. SubSeq(idx, 1, m) \in Seq(Places)
      BY <1>1, PartIs
    <3> QED
      BY <1>6, <3>1 DEF Stand, o, Found
  <2> HIDE DEF x
  <2>3. ~ (x.offset >= MaxSize) /\ SizeAt(stores[n], x.offset) # 0
    BY <1>1, <1>6, <1>8, <2>1
  <2>4. ReadIndex(n, x) = [found |-> Append(x.found, BlockIndex(n, x.offset + Header,
                                                       SizeAt(stores[n], x.offset))),
                           offset |-> x.offset + Header + SizeAt(stores[n], x.offset)]
    BY <1>1, <2>2, <2>3, ReadIndexIs
  <2>5. ReadIndex(n, x) = [found |-> Append(SubSeq(idx, 1, m), e), offset |-> o + Header + e.Size]
    BY <1>8, <1>11, <2>1, <2>4
  <2>6. Append(SubSeq(idx, 1, m), e) = SubSeq(idx, 1, m + 1)
    BY <1>1, <1>2, PartIs DEF e
  <2> QED
    BY <1>9, <2>5, <2>6 DEF x, Stand
<1> QED
  BY <1>1, <1>6, <1>8, <1>9, <1>10, <1>12 DEF o

(* The scan of store n finds all of its blocks. *)
Scanning(idx, n, k, x) ==
  \E m : /\ Reached(idx, m, n) /\ x = Stand(idx, m, n)
         /\ After(idx, m, n) >= k \/ Passed(idx, m, n)

(* The scan of store n, from the blocks of the stores before, comes to the *)
(* end of its blocks.                                                      *)
LEMMA RoundsLaid ==
  ASSUME StoresTyped(stores), NEW idx, NEW size, Laid(stores, idx, size),
         NEW n \in 1 .. Len(stores), NEW m0, Passed(idx, m0, n - 1)
  PROVE  \E m : /\ Passed(idx, m, n)
                /\ Rounds(n, SubSeq(idx, 1, m0))[MaxSize] = Stand(idx, m, n)
<1> DEFINE r == Rounds(n, SubSeq(idx, 1, m0))
           T == {k \in 0 .. MaxSize : Scanning(idx, n, k, r[k])}
<1>1. /\ idx \in Seq(Places) /\ Len(idx) \in Nat /\ m0 \in 0 .. Len(idx)
      /\ n \in Nat /\ n >= 1 /\ stores[n] \in Store /\ MaxSize \in Nat
  BY StoreAssumption DEF StoresTyped, Laid, Indexed, Passed
<1>2. /\ r[0] = [found |-> SubSeq(idx, 1, m0), offset |-> 0]
      /\ \A k \in 1 .. MaxSize : r[k] = ReadIndex(n, r[k - 1])
  <2>1. SubSeq(idx, 1, m0) \in Seq(Places)
    BY <1>1, PartIs
  <2> QED
    BY <1>1, <2>1, RoundsIs
<1> HIDE DEF r
<1>3. \A m \in 1 .. Len(idx) : idx[m].StoreNum \in Nat
  <2>1. \A m \in 1 .. Len(idx) : idx[m] \in Places
    BY <1>1
  <2> QED
    BY <2>1 DEF Places
<1>4. 0 \in T
  <2>1. m0 > 0 => m0 \in 1 .. Len(idx) /\ idx[m0].StoreNum <= n - 1
    BY <1>1 DEF Passed
  <2>2. m0 > 0 => idx[m0].StoreNum # n /\ idx[m0].StoreNum <= n
    BY <1>1, <1>3, <2>1
  <2>3. m0 < Len(idx) => m0 + 1 \in 1 .. Len(idx) /\ idx[m0 + 1].StoreNum > n - 1
    BY <1>1 DEF Passed
  <2>4. m0 < Len(idx) => idx[m0 + 1].StoreNum >= n
    BY <1>1, <1>3, <2>3
  <2>5. Reached(idx, m0, n)
    BY <1>1, <2>2, <2>4 DEF Reached
  <2>6. After(idx, m0, n) = 0
    <3>1. m0 = 0 \/ m0 > 0
      BY <1>1
    <3> QED
      BY <2>2, <3>1 DEF After
  <2>7. r[0] = Stand(idx, m0, n)
    BY <1>2, <2>6 DEF Stand
  <2>8. After(idx, m0, n) >= 0 /\ 0 \in 0 .. MaxSize
    BY <1>1, <2>6
  <2> QED
    BY <2>5, <2>7, <2>8 DEF Scanning
<1>5. ASSUME NEW k \in 1 .. MaxSize, k - 1 \in T
      PROVE  k \in T
  <2>1. PICK m : /\ Reached(idx, m, n) /\ r[k - 1] = Stand(idx, m, n)
                 /\ After(idx, m, n) >= k - 1 \/ Passed(idx, m, n)
    BY <1>5 DEF Scanning
  <2>2. m \in 0 .. Len(idx) /\ k \in 0 .. MaxSize
    BY <1>1, <2>1 DEF Reached
  <2>3. CASE Passed(idx, m, n)
    <3>1. Stops(stores[n], After(idx, m, n))
      BY <2>3, StopsAt
    <3>2. Stand(idx, m, n) \in Found /\ Stand(idx, m, n).offset = After(idx, m, n)
      BY <1>1, <2>2, AfterIs, PartIs DEF Stand, Found
    <3>3. ReadIndex(n, Stand(idx, m, n)) = Stand(idx, m, n)
      BY <1>1, <3>1, <3>2, ReadIndexIs DEF Stops
    <3>4. r[k] = Stand(idx, m, n)
      BY <1>2, <2>1, <3>3
    <3> QED
      BY <2>1, <2>2, <2>3, <3>4 DEF Scanning
  <2>4. CASE ~ Passed(idx, m, n)
    <3>1. /\ Reached(idx, m + 1, n) /\ After(idx, m + 1, n) > After(idx, m, n)
          /\ ReadIndex(n, Stand(idx, m, n)) = Stand(idx, m + 1, n)
      BY <2>1, <2>4, NextBlock
    <3>2. r[k] = Stand(idx, m + 1, n)
      BY <1>2, <2>1, <3>1
    <3>3. After(idx, m, n) \in Nat /\ After(idx, m + 1, n) \in Nat
      <4>1. m + 1 \in 0 .. Len(idx)
        BY <3>1 DEF Reached
      <4> QED
        BY <1>1, <2>2, <4>1, AfterIs
    <3>4. After(idx, m + 1, n) >= k
      BY <2>1, <2>4, <3>1, <3>3
    <3> QED
      BY <2>2, <3>1, <3>2, <3>4 DEF Scanning
  <2> QED
    BY <2>3, <2>4
<1>6. Inductive(T, MaxSize)
  BY <1>4, <1>5 DEF Inductive
<1> HIDE DEF T
<1>7. \A k \in 0 .. MaxSize : k \in T
  BY <1>1, <1>6, UpTo
<1>8. Scanning(idx, n, MaxSize, r[MaxSize])
  BY <1>1, <1>7 DEF T
<1>9. PICK m : /\ Reached(idx, m, n) /\ r[MaxSize] = Stand(idx, m, n)
               /\ After(idx, m, n) >= MaxSize \/ Passed(idx, m, n)
  BY <1>8 DEF Scanning
<1>10. Passed(idx, m, n)
  <2>1. SUFFICES ASSUME ~ Passed(idx, m, n)
                 PROVE  FALSE
    OBVIOUS
  <2>2. After(idx, m, n) < MaxSize
    BY <1>9, <2>1, NextBlock
  <2>3. After(idx, m, n) \in Nat
    BY <1>1, <1>9, AfterIs DEF Reached
  <2> QED
    BY <1>1, <1>9, <2>1, <2>2, <2>3
<1> QED
  BY <1>9, <1>10 DEF r

CameTo(idx, n, x) ==
  \E m : /\ Passed(idx, m, n) /\ x.found = SubSeq(idx, 1, m)
         /\ n > 0 => x = Stand(idx, m, n)

(* Opening the store finds the blocks that lie in it, and the room that is *)
(* left.                                                                   *)
LEMMA ScannedLaid ==
  ASSUME StoresTyped(stores), NEW idx, NEW size, Laid(stores, idx, size)
  PROVE  Scanned = idx /\ ScannedSize = size
<1> DEFINE L == Len(stores)
           s == Scans
           T == {n \in 0 .. L : CameTo(idx, n, s[n])}
<1>1. L \in Nat /\ L >= 1 /\ idx \in Seq(Places) /\ Len(idx) \in Nat
  BY DEF StoresTyped, Laid, Indexed
<1>2. s[0].found = << >> /\ \A n \in 1 .. L : s[n] = Rounds(n, s[n - 1].found)[MaxSize]
  BY ScansAre
<1>3. Scanned = s[L].found /\ ScannedSize = s[L].offset
  BY DEF Scanned, ScannedSize
<1>4. \A m \in 1 .. Len(idx) : idx[m].StoreNum \in 1 .. L
  BY DEF Laid, Indexed
<1> HIDE DEF s
<1>5. 0 \in T
  <2>1. Passed(idx, 0, 0)
    <3>1. 0 < Len(idx) => 0 + 1 \in 1 .. Len(idx) /\ idx[0 + 1].StoreNum > 0
      BY <1>1, <1>4
    <3> QED
      BY <1>1, <3>1 DEF Passed
  <2>2. SubSeq(idx, 1, 0) = << >>
    BY <1>1, PartIs, EmptySeq
  <2>3. CameTo(idx, 0, s[0])
    <3>1. s[0].found = SubSeq(idx, 1, 0) /\ ~ (0 > 0)
      BY <1>2, <2>2
    <3> QED
      BY <2>1, <3>1 DEF CameTo
  <2> QED
    BY <1>1, <2>3
<1>6. ASSUME NEW n \in 1 .. L, n - 1 \in T
      PROVE  n \in T
  <2>1. PICK m0 : Passed(idx, m0, n - 1) /\ s[n - 1].found = SubSeq(idx, 1, m0)
    BY <1>6 DEF CameTo
  <2>2. PICK m : /\ Passed(idx, m, n)
                 /\ Rounds(n, SubSeq(idx, 1, m0))[MaxSize] = Stand(idx, m, n)
    BY <2>1, RoundsLaid
  <2>3. s[n] = Stand(idx, m, n)
    BY <1>2, <2>1, <2>2
  <2>4. s[n].found = SubSeq(idx, 1, m)
    BY <2>3, StandIs
  <2>5. n \in 0 .. L
    BY <1>1
  <2>6. CameTo(idx, n, s[n])
    BY <2>2, <2>3, <2>4 DEF CameTo
  <2> QED
    BY <2>5, <2>6
<1>7. Inductive(T, L)
  BY <1>5, <1>6 DEF Inductive
<1> HIDE DEF T, L
<1>8. L \in T
  BY <1>1, <1>7, UpTo
<1>9. PICK m : Passed(idx, m, L) /\ s[L] = Stand(idx, m, L)
  <2>1. L > 0
    BY <1>1
  <2> QED
    BY <1>8, <2>1 DEF T, CameTo
<1>10. m = Len(idx)
  <2>1. m \in 0 .. Len(idx) /\ (m < Len(idx) => idx[m + 1].StoreNum > L)
    BY <1>9 DEF Passed
  <2>2. m < Len(idx) => m + 1 \in 1 .. Len(idx)
    BY <1>1, <2>1
  <2>3. m < Len(idx) => FALSE
    BY <1>1, <1>4, <2>1, <2>2
  <2> QED
    BY <1>1, <2>1, <2>3
<1>11. SubSeq(idx, 1, m) = idx
  BY <1>1, <1>10, PartIs
<1>12. After(idx, m, L) = size
  BY <1>10 DEF Laid, Room, L
<1> QED
  BY <1>3, <1>9, <1>11, <1>12 DEF Stand

-----------------------------------------------------------------------------
(* What a write does to the blocks that lie in the stores. *)
LEMMA WriteIs ==
  ASSUME NEW store \in Store, NEW o \in Nat, NEW bytes \in Seq(Bytes)
  PROVE  /\ WriteAt(store, o, bytes) \in Store
         /\ \A p \in 0 .. MaxSize - 1 :
              WriteAt(store, o, bytes)[p] =
                IF p >= o /\ p < o + Len(bytes) THEN bytes[p - o + 1] ELSE store[p]
<1> DEFINE b(p) == IF p - o + 1 \in DOMAIN bytes /\ p >= o THEN bytes[p - o + 1] ELSE store[p]
<1>1. /\ MaxSize \in Nat /\ DOMAIN store = 0 .. MaxSize - 1
      /\ Len(bytes) \in Nat /\ DOMAIN bytes = 1 .. Len(bytes)
      /\ \A k \in 1 .. Len(bytes) : bytes[k] \in Bytes
  BY StoreAssumption, LenProperties DEF Store
<1>2. \A p \in 0 .. MaxSize - 1 :
        p - o + 1 \in DOMAIN bytes /\ p >= o <=> p >= o /\ p < o + Len(bytes)
  BY <1>1
<1>3. \A p \in 0 .. MaxSize - 1 :
        b(p) = IF p >= o /\ p < o + Len(bytes) THEN bytes[p - o + 1] ELSE store[p]
  BY <1>2
<1>4. \A p \in 0 .. MaxSize - 1 : b(p) \in Bytes
  BY <1>1 DEF Store
<1>5. WriteAt(store, o, bytes) = [p \in 0 .. MaxSize - 1 |-> b(p)]
  BY <1>1 DEF WriteAt
<1> HIDE DEF b
<1> QED
  BY <1>3, <1>4, <1>5 DEF Store

(* Bytes that did not change are read as before. *)
LEMMA SameRead ==
  ASSUME NEW store \in Store, NEW store2 \in Store, NEW o \in Nat, NEW size \in Nat,
         \A p \in 0 .. MaxSize - 1 : p >= o /\ p < o + size => store2[p] = store[p]
  PROVE  ReadAt(store2, o, size) = ReadAt(store, o, size)
<1> DEFINE a == ReadAt(store, o, size)
           b == ReadAt(store2, o, size)
<1>1. MaxSize \in Nat
  BY StoreAssumption
<1>2. /\ a \in Seq(Bytes) /\ Len(a) = size
      /\ \A k \in 1 .. size : a[k] = IF o + k - 1 < MaxSize THEN store[o + k - 1] ELSE Zero
  BY ReadIs
<1>3. /\ b \in Seq(Bytes) /\ Len(b) = size
      /\ \A k \in 1 .. size : b[k] = IF o + k - 1 < MaxSize THEN store2[o + k - 1] ELSE Zero
  BY ReadIs
<1> HIDE DEF a, b
<1>4. ASSUME NEW k \in 1 .. size
      PROVE  b[k] = a[k]
  <2>1. o + k - 1 < MaxSize => o + k - 1 \in 0 .. MaxSize - 1 /\ o + k - 1 >= o /\ o + k - 1 < o + size
    BY <1>1
  <2>2. o + k - 1 < MaxSize => store2[o + k - 1] = store[o + k - 1]
    BY <2>1
  <2> QED
    BY <1>2, <1>3, <2>2
<1>5. b = a
  BY <1>2, <1>3, <1>4, SeqEqual
<1> QED
  BY <1>5 DEF a, b

(* Nothing is written below size in the last store, nor in the others. *)
SameBelow(st, st2, size) ==
  /\ Len(st2) = Len(st)
  /\ \A n \in 1 .. Len(st) - 1 : st2[n] = st[n]
  /\ \A o \in 0 .. MaxSize - 1 : o < size => st2[Len(st)][o] = st[Len(st)][o]

(* What is known of one block. *)
LEMMA BlockIs ==
  ASSUME NEW st, StoresTyped(st), NEW idx, NEW size, Laid(st, idx, size),
         NEW m \in 1 .. Len(idx)
  PROVE  /\ idx[m] \in Places /\ idx[m].StoreNum \in 1 .. Len(st)
         /\ idx[m].Size \in Nat /\ idx[m].Size > 0 /\ idx[m].Offset \in Nat
         /\ idx[m].Offset + idx[m].Size <= MaxSize
         /\ idx[m].Offset - Header \in Nat
         /\ st[idx[m].StoreNum] \in Store
         /\ idx[m].StoreNum = Len(st) => idx[m].Offset + idx[m].Size <= size
         /\ size \in Nat
<1>1. /\ idx \in Seq(Places) /\ Len(idx) \in Nat
      /\ idx[m].StoreNum \in 1 .. Len(st)
      /\ idx[m].Size > 0 /\ idx[m].Offset + idx[m].Size <= MaxSize
      /\ idx[m].Offset = After(idx, m - 1, idx[m].StoreNum) + Header
  BY DEF Laid, Indexed
<1>2. idx[m] \in Places
  BY <1>1
<1>3. idx[m].Offset \in Nat /\ idx[m].Size \in Nat
  BY <1>2 DEF Places
<1>4. m - 1 \in 0 .. Len(idx) /\ Len(idx) \in 0 .. Len(idx)
  BY <1>1
<1>5. After(idx, m - 1, idx[m].StoreNum) \in Nat
  BY <1>1, <1>4, AfterIs
<1>6. idx[m].Offset - Header \in Nat
  BY <1>1, <1>3, <1>5, StoreAssumption
<1>7. size \in Nat
  BY <1>1, <1>4, AfterIs DEF Laid, Room
<1>8. idx[m].StoreNum = Len(st) => idx[m].Offset + idx[m].Size <= size
  BY DEF Laid, Room
<1> QED
  BY <1>1, <1>2, <1>3, <1>6, <1>7, <1>8 DEF StoresTyped

(* A block below size is read as before. *)
LEMMA StaysRead ==
  ASSUME NEW st, NEW st2, StoresTyped(st), StoresTyped(st2), NEW idx, NEW size,
         Laid(st, idx, size), SameBelow(st, st2, size), NEW m \in 1 .. Len(idx)
  PROVE  /\ ReadAt(st2[idx[m].StoreNum], idx[m].Offset, idx[m].Size)
              = ReadAt(st[idx[m].StoreNum], idx[m].Offset, idx[m].Size)
         /\ SizeAt(st2[idx[m].StoreNum], idx[m].Offset - Header)
              = SizeAt(st[idx[m].StoreNum], idx[m].Offset - Header)
<1> DEFINE n == idx[m].StoreNum
           o == idx[m].Offset
           s == idx[m].Size
<1>1. /\ n \in 1 .. Len(st) /\ s \in Nat /\ o \in Nat /\ o - Header \in Nat /\ size \in Nat
      /\ st[n] \in Store /\ (n = Len(st) => o + s <= size)
  BY BlockIs
<1>2. Len(st) \in Nat /\ Len(st2) = Len(st) /\ Header \in Nat /\ MaxSize \in Nat
  BY StoreAssumption DEF StoresTyped, SameBelow
<1>3. st2[n] \in Store
  BY <1>1, <1>2 DEF StoresTyped
<1> HIDE DEF n, o, s
<1>4. \A p \in 0 .. MaxSize - 1 : p < o + s => st2[n][p] = st[n][p]
  <2>1. CASE n = Len(st)
    <3>1. \A p \in 0 .. MaxSize - 1 : p < size => st2[n][p] = st[n][p]
      BY <2>1 DEF SameBelow
    <3> QED
      BY <1>1, <1>2, <2>1, <3>1
  <2>2. CASE n # Len(st)
    <3>1. n \in 1 .. Len(st) - 1
      BY <1>1, <1>2, <2>2
    <3> QED
      BY <3>1 DEF SameBelow
  <2> QED
    BY <2>1, <2>2
<1>5. ReadAt(st2[n], o, s) = ReadAt(st[n], o, s)
  <2> DEFINE f == st2[n]
             g == st[n]
  <2>1. f \in Store /\ g \in Store /\ \A p \in 0 .. MaxSize - 1 : p < o + s => f[p] = g[p]
    BY <1>1, <1>3, <1>4
  <2> HIDE DEF f, g
  <2>2. ReadAt(f, o, s) = ReadAt(g, o, s)
    BY <1>1, <2>1, SameRead
  <2> QED
    BY <2>2 DEF f, g
<1>6. \A p \in 0 .. MaxSize - 1 : p < (o - Header) + Header => st2[n][p] = st[n][p]
  <2>1. \A p \in 0 .. MaxSize - 1 : p < (o - Header) + Header => p < o + s
    BY <1>1, <1>2
  <2> QED
    BY <1>4, <2>1
<1>7. ReadAt(st2[n], o - Header, Header) = ReadAt(st[n], o - Header, Header)
  BY <1>1, <1>2, <1>3, <1>6, SameRead
<1> QED
  BY <1>5, <1>7 DEF n, o, s, SizeAt

(* Blocks stay where they are while only the room behind them changes. *)
LEMMA StaysIndexed ==
  ASSUME NEW st, NEW st2, StoresTyped(st), StoresTyped(st2), NEW idx, NEW size,
         Laid(st, idx, size), SameBelow(st, st2, size)
  PROVE  Indexed(st2, idx) /\ Ended(st2, idx)
<1>1. Len(st2) = Len(st) /\ \A n \in 1 .. Len(st) - 1 : st2[n] = st[n]
  BY DEF SameBelow
<1>2. \A m \in 1 .. Len(idx) :
        SizeAt(st2[idx[m].StoreNum], idx[m].Offset - Header)
          = SizeAt(st[idx[m].StoreNum], idx[m].Offset - Header)
  BY StaysRead
<1>3. Indexed(st2, idx)
  BY <1>1, <1>2 DEF Laid, Indexed
<1>4. Ended(st2, idx)
  BY <1>1 DEF Laid, Ended
<1> QED
  BY <1>3, <1>4

(* A write that leaves no length behind the blocks leaves no block. *)
LEMMA NothingAdded ==
  ASSUME NEW st, NEW st2, StoresTyped(st), StoresTyped(st2), NEW idx, NEW size,
         Laid(st, idx, size), SameBelow(st, st2, size),
         \A o \in 0 .. MaxSize - 1 : o >= size => st2[Len(st2)][o] = Zero
  PROVE  Laid(st2, idx, size)
<1>1. Room(st2, idx, size)
  BY DEF Laid, Room, SameBelow
<1> QED
  BY <1>1, StaysIndexed DEF Laid

(* One more block, of the length that is read behind the others. *)
LEMMA OneAdded ==
  ASSUME NEW st, NEW st2, StoresTyped(st), StoresTyped(st2), NEW idx, NEW size, NEW s,
         Laid(st, idx, size), SameBelow(st, st2, size),
         s = SizeAt(st2[Len(st2)], size), s > 0, size + Header + s <= MaxSize,
         \A o \in 0 .. MaxSize - 1 : o >= size + Header + s => st2[Len(st2)][o] = Zero
  PROVE  Laid(st2, Append(idx, BlockIndex(Len(st2), size + Header, s)), size + Header + s)
<1> DEFINE L == Len(st2)
           e == BlockIndex(L, size + Header, s)
           idx2 == Append(idx, e)
           K == Len(idx)
<1>1. /\ L \in Nat \ {0} /\ Len(st) = L /\ st2[L] \in Store
      /\ Header \in Nat \ {0} /\ MaxSize \in Nat
      /\ idx \in Seq(Places) /\ K \in Nat
  BY StoreAssumption DEF StoresTyped, SameBelow, Laid, Indexed
<1>2. size = After(idx, K, L) /\ size \in Nat
  BY <1>1, AfterIs DEF Laid, Room
<1>3. s \in Nat
  BY <1>1, <1>2, SizeAtIs
<1>4. /\ e \in Places /\ e.StoreNum = L /\ e.Offset = size + Header /\ e.Size = s
  BY <1>1, <1>2, <1>3 DEF BlockIndex, Places
<1> HIDE DEF e, L, K
<1>5. /\ idx2 \in Seq(Places) /\ Len(idx2) = K + 1 /\ idx2[K + 1] = e
      /\ \A m \in 1 .. K : idx2[m] = idx[m]
  BY <1>1, <1>4, AddedIs DEF K
<1> HIDE DEF idx2
<1>6. \A m \in 0 .. K : \A n : After(idx2, m, n) = After(idx, m, n)
  <2>1. \A m \in 0 .. K : m = 0 \/ m \in 1 .. K
    BY <1>1
  <2> QED
    BY <1>5, <2>1 DEF After
<1>7. \A m \in 1 .. K + 1 : m = K + 1 \/ m \in 1 .. K
  BY <1>1
<1>8. Indexed(st2, idx) /\ Ended(st2, idx)
  BY StaysIndexed
<1>9. Indexed(st2, idx2)
  <2>1. ASSUME NEW m \in 1 .. Len(idx2) - 1
        PROVE  idx2[m].StoreNum <= idx2[m + 1].StoreNum
    <3>1. m \in 1 .. K /\ idx2[m] = idx[m] /\ idx[m].StoreNum \in 1 .. L
      <4>1. m \in 1 .. K
        BY <1>1, <1>5
      <4> QED
        BY <1>5, <1>8, <4>1 DEF Indexed, K, L
    <3>2. CASE m = K
      <4>1. idx2[m + 1].StoreNum = L
        BY <1>4, <1>5, <3>2
      <4>2. idx2[m].StoreNum \in 1 .. L /\ L \in Nat
        BY <1>1, <3>1
      <4>3. \A n \in 1 .. L : n <= L
        OBVIOUS
      <4> QED
        BY <4>1, <4>2, <4>3
    <3>3. CASE m # K
      <4>1. m \in 1 .. K - 1 /\ m + 1 \in 1 .. K
        BY <1>1, <3>1, <3>3
      <4>2. idx[m].StoreNum <= idx[m + 1].StoreNum
        BY <1>8, <4>1 DEF Indexed, K
      <4>3. idx2[m] = idx[m] /\ idx2[m + 1] = idx[m + 1]
        BY <1>5, <3>1, <4>1
      <4> QED
        BY <4>2, <4>3
    <3> QED
      BY <3>2, <3>3
  <2>2. ASSUME NEW m \in 1 .. Len(idx2)
        PROVE  /\ idx2[m].StoreNum \in 1 .. L
               /\ idx2[m].Size > 0 /\ idx2[m].Offset + idx2[m].Size <= MaxSize
               /\ idx2[m].Offset = After(idx2, m - 1, idx2[m].StoreNum) + Header
               /\ SizeAt(st2[idx2[m].StoreNum], idx2[m].Offset - Header) = idx2[m].Size
    <3>1. CASE m = K + 1
      <4>1. idx2[m] = e /\ m - 1 = K /\ K \in 0 .. K
        BY <1>1, <1>5, <3>1
      <4>2. After(idx2, m - 1, L) = size
        BY <1>2, <1>6, <4>1
      <4>3. (size + Header) - Header = size /\ L \in 1 .. L
        BY <1>1, <1>2
      <4> QED
        BY <1>1, <1>2, <1>3, <1>4, <4>1, <4>2, <4>3 DEF L
    <3>2. CASE m \in 1 .. K
      <4>1. idx2[m] = idx[m] /\ m - 1 \in 0 .. K
        BY <1>1, <1>5, <3>2
      <4>2. After(idx2, m - 1, idx[m].StoreNum) = After(idx, m - 1, idx[m].StoreNum)
        BY <1>6, <4>1
      <4>3. /\ idx[m].StoreNum \in 1 .. L
            /\ idx[m].Size > 0 /\ idx[m].Offset + idx[m].Size <= MaxSize
            /\ idx[m].Offset = After(idx, m - 1, idx[m].StoreNum) + Header
            /\ SizeAt(st2[idx[m].StoreNum], idx[m].Offset - Header) = idx[m].Size
        BY <1>8, <3>2 DEF Indexed, K, L
      <4> QED
        BY <4>1, <4>2, <4>3
    <3> QED
      BY <1>5, <1>7, <3>1, <3>2
  <2> QED
    BY <1>5, <2>1, <2>2 DEF Indexed, L
<1>10. Ended(st2, idx2)
  <2> SUFFICES ASSUME NEW m \in 0 .. Len(idx2), NEW n \in 1 .. L - 1, Passed(idx2, m, n)
               PROVE  Stops(st2[n], After(idx2, m, n))
    BY DEF Ended, L
  <2>1. m \in 0 .. K
    <3>1. m = K + 1 => m > 0 /\ idx2[m].StoreNum <= n /\ idx2[m].StoreNum = L
      BY <1>1, <1>4, <1>5 DEF Passed
    <3>2. m # K + 1
      BY <1>1, <3>1
    <3> QED
      BY <1>1, <1>5, <3>2
  <2>2. Passed(idx, m, n)
    <3>1. m > 0 => m \in 1 .. K /\ idx2[m].StoreNum <= n
      BY <1>1, <2>1 DEF Passed
    <3>2. m < K => m + 1 \in 1 .. K /\ m < K + 1 /\ m + 1 \in 1 .. K
      BY <1>1, <2>1
    <3>3. m < K => idx2[m + 1].StoreNum > n
      BY <1>5, <3>2 DEF Passed
    <3> QED
      BY <1>5, <2>1, <3>1, <3>2, <3>3 DEF Passed, K
  <2>3. Stops(st2[n], After(idx, m, n))
    BY <1>8, <2>1, <2>2 DEF Ended, K, L
  <2> QED
    BY <1>6, <2>1, <2>3
<1>11. Room(st2, idx2, size + Header + s)
  <2>1. After(idx2, Len(idx2), L) = size + Header + s
    <3>1. K + 1 # 0
      BY <1>1
    <3> QED
      BY <1>4, <1>5, <3>1 DEF After
  <2>2. ASSUME NEW m \in 1 .. Len(idx2), idx2[m].StoreNum = L
        PROVE  idx2[m].Offset + idx2[m].Size <= size + Header + s
    <3>1. CASE m = K + 1
      BY <1>1, <1>2, <1>3, <1>4, <1>5, <3>1
    <3>2. CASE m \in 1 .. K
      <4>1. idx[m].Offset + idx[m].Size <= size
        <5>1. \A l \in 1 .. K : idx[l].StoreNum = Len(st) => idx[l].Offset + idx[l].Size <= size
          BY DEF Laid, Room, K
        <5>2. idx[m].StoreNum = Len(st)
          BY <1>1, <1>5, <2>2, <3>2
        <5> QED
          BY <3>2, <5>1, <5>2
      <4>2. idx[m].Offset \in Nat /\ idx[m].Size \in Nat
        BY <3>2, BlockIs DEF K
      <4>3. idx[m].Offset + idx[m].Size <= size + Header + s
        <5> HIDE DEF L, idx2, K
        <5> DEFINE top == idx[m].Offset + idx[m].Size
        <5>1. top \in Nat /\ top <= size
          BY SMTT(20), <4>1, <4>2
        <5>2. size \in Nat /\ Header \in Nat /\ s \in Nat
          BY <1>1, <1>2, <1>3
        <5> HIDE DEF L, idx2, K, top
        <5>3. top <= size + Header + s
          BY <5>1, <5>2
        <5> QED
          BY <5>3 DEF top
      <4> QED
        BY <1>5, <3>2, <4>3
    <3> QED
      BY <1>5, <1>7, <3>1, <3>2
  <2> QED
    BY <2>1, <2>2 DEF Room, L
<1> QED
  BY <1>9, <1>10, <1>11 DEF Laid, e, L, idx2

(* A new store behind the others. *)
LEMMA StoreAdded ==
  ASSUME NEW st, StoresTyped(st), NEW idx, NEW size, Laid(st, idx, size)
  PROVE  /\ StoresTyped(Append(st, EmptyStore))
         /\ Len(Append(st, EmptyStore)) = Len(st) + 1
         /\ \A n \in 1 .. Len(st) : Append(st, EmptyStore)[n] = st[n]
         /\ Laid(Append(st, EmptyStore), idx, 0)
<1> DEFINE st2 == Append(st, EmptyStore)
           L == Len(st)
           K == Len(idx)
<1>1. /\ st \in Seq(Store) /\ L \in Nat \ {0} /\ idx \in Seq(Places) /\ K \in Nat
      /\ MaxSize \in Nat
  BY StoreAssumption DEF StoresTyped, Laid, Indexed
<1>2. /\ st2 \in Seq(Store) /\ Len(st2) = L + 1 /\ st2[L + 1] = EmptyStore
      /\ \A n \in 1 .. L : st2[n] = st[n]
  BY <1>1, ZeroByte, AddedIs
<1> HIDE DEF st2, L, K
<1>3. StoresTyped(st2)
  BY <1>1, <1>2 DEF StoresTyped
<1>4. \A m \in 1 .. K : idx[m].StoreNum \in 1 .. L
  BY DEF Laid, Indexed, K, L
<1>5. Indexed(st2, idx)
  <2>1. \A m \in 1 .. K : st2[idx[m].StoreNum] = st[idx[m].StoreNum] /\ idx[m].StoreNum \in 1 .. L + 1
    BY <1>1, <1>2, <1>4
  <2> QED
    BY <1>2, <2>1 DEF Laid, Indexed, K
<1>6. Ended(st2, idx)
  <2> SUFFICES ASSUME NEW m \in 0 .. K, NEW n \in 1 .. Len(st2) - 1, Passed(idx, m, n)
               PROVE  Stops(st2[n], After(idx, m, n))
    BY DEF Ended, K
  <2>1. n \in 1 .. L
    BY <1>1, <1>2
  <2>2. Stops(st[n], After(idx, m, n))
    BY <2>1, StopsAt DEF L
  <2> QED
    BY <1>2, <2>1, <2>2
<1>7. Room(st2, idx, 0)
  <2>1. \A m \in 1 .. K : idx[m].StoreNum # L + 1
    BY <1>1, <1>4
  <2>2. After(idx, K, L + 1) = 0
    <3>1. K = 0 \/ K \in 1 .. K
      BY <1>1
    <3> QED
      BY <2>1, <3>1 DEF After
  <2> QED
    BY <1>2, <2>1, <2>2, ZeroByte DEF Room, K
<1> QED
  BY <1>2, <1>3, <1>5, <1>6, <1>7 DEF Laid, st2, L

(* What AddBlock writes. *)
LEMMA RecordIs ==
  ASSUME NEW b \in 0 .. MaxBlocks, NEW s \in Nat
  PROVE  /\ Record(b, s) \in Seq(Bytes) /\ Len(Record(b, s)) = Header + s
         /\ \A k \in 1 .. Header : Record(b, s)[k] = Digits(s)[k]
         /\ \A k \in 1 .. s : Record(b, s)[Header + k] = Byte(1, b, k)
         /\ Payload(b, s) \in Seq(Bytes) /\ Len(Payload(b, s)) = s
         /\ \A k \in 1 .. s : Payload(b, s)[k] = Byte(1, b, k)
<1> DEFINE d == Digits(s)
           p == Payload(b, s)
           r == d \o p
<1>1. Header \in Nat \ {0} /\ Base \in Nat \ {0, 1} /\ MaxBlocks \in Nat
  BY StoreAssumption
<1>2. d \in Seq(Bytes) /\ Len(d) = Header
  BY DigitsAre
<1>3. p \in Seq(Bytes) /\ Len(p) = s /\ \A k \in 1 .. s : p[k] = Byte(1, b, k)
  <2>1. \A k \in 1 .. s : Byte(1, b, k) \in Bytes
    BY <1>1 DEF Byte, Bytes
  <2>2. p = [k \in 1 .. s |-> Byte(1, b, k)]
    BY DEF Payload
  <2> HIDE DEF p
  <2> QED
    BY <2>1, <2>2
<1> HIDE DEF d, p
<1>4. /\ r \in Seq(Bytes) /\ Len(r) = Len(d) + Len(p)
      /\ \A k \in 1 .. Len(d) + Len(p) : r[k] = IF k <= Len(d) THEN d[k] ELSE p[k - Len(d)]
  BY <1>2, <1>3, ConcatProperties
<1> HIDE DEF r
<1>5. \A k \in 1 .. Header : r[k] = d[k]
  BY <1>1, <1>2, <1>3, <1>4
<1>6. ASSUME NEW k \in 1 .. s
      PROVE  r[Header + k] = p[k]
  <2>1. Header + k \in 1 .. Header + s /\ ~ (Header + k <= Header) /\ (Header + k) - Header = k
    BY <1>1
  <2> QED
    BY <1>2, <1>3, <1>4, <2>1
<1>7. Record(b, s) = r
  BY DEF Record, r, d, p
<1> QED
  BY <1>2, <1>3, <1>4, <1>5, <1>6, <1>7 DEF d, p

(* The first bytes of a record x, as a write that is interrupted leaves    *)
(* them, behind the other blocks of a store.                               *)
Begins(x, b, s) ==
  /\ x \in Seq(Bytes) /\ Len(x) <= Header + s
  /\ \A k \in 1 .. Len(x) : x[k] = Record(b, s)[k]

(* r is the record of the block b of size s, and p its payload. *)
Recorded(r, p, b, s) ==
  /\ \A k \in 1 .. Header : r[k] = Digits(s)[k]
  /\ \A k \in 1 .. s : r[Header + k] = Byte(1, b, k)
  /\ p \in Seq(Bytes) /\ Len(p) = s
  /\ \A k \in 1 .. s : p[k] = Byte(1, b, k)

(* f is what a read of size bytes at o of the store g returns. *)
Reads(f, g, o, size) ==
  /\ f \in Seq(Bytes) /\ Len(f) = size
  /\ \A k \in 1 .. size : f[k] = IF o + k - 1 < MaxSize THEN g[o + k - 1] ELSE Zero

(* ReadIs, by that name. *)
LEMMA ReadsIs ==
  ASSUME NEW g \in Store, NEW o \in Nat, NEW size \in Nat
  PROVE  Reads(ReadAt(g, o, size), g, o, size)
BY ReadIs DEF Reads

(* RecordIs, by that name. *)
LEMMA RecordedIs ==
  ASSUME NEW b \in 0 .. MaxBlocks, NEW s \in Nat
  PROVE  Recorded(Record(b, s), Payload(b, s), b, s)
BY RecordIs DEF Recorded

(* f is the store g with the bytes x from o on. *)
Lies(f, g, o, x) ==
  /\ f \in Store
  /\ \A p \in 0 .. MaxSize - 1 :
       f[p] = IF p >= o /\ p < o + Len(x) THEN x[p - o + 1] ELSE g[p]

(* WriteIs, by that name. *)
LEMMA WriteLies ==
  ASSUME NEW store \in Store, NEW o \in Nat, NEW x \in Seq(Bytes)
  PROVE  Lies(WriteAt(store, o, x), store, o, x)
BY WriteIs DEF Lies

(* What the beginning x of a record leaves in a store: a length that is no *)
(* greater than that of the record, zero bytes after as much, and the      *)
(* record when x is all of it.  The scan depends on this after a crash in  *)
(* the middle of a write.                                                  *)
Wrote(f, g, o, x, b, s) ==
  /\ f \in Store
  /\ \A p \in 0 .. MaxSize - 1 : p < o => f[p] = g[p]
  /\ SizeAt(f, o) \in Nat /\ SizeAt(f, o) <= s
  /\ \A p \in 0 .. MaxSize - 1 : p >= o + Header + SizeAt(f, o) => f[p] = Zero
  /\ SizeAt(f, o) = 0 => \A p \in 0 .. MaxSize - 1 : p >= o => f[p] = Zero
  /\ Len(x) = Header + s =>
       SizeAt(f, o) = s /\ ReadAt(f, o + Header, s) = Payload(b, s)

LEMMA Written ==
  ASSUME NEW store \in Store, NEW o \in Nat, NEW b \in 0 .. MaxBlocks, NEW s \in Nat \ {0},
         Quotients(s)[Header] = 0, o + Header + s <= MaxSize,
         \A p \in 0 .. MaxSize - 1 : p >= o => store[p] = Zero,
         NEW x, Begins(x, b, s)
  PROVE  Wrote(WriteAt(store, o, x), store, o, x, b, s)
<1> DEFINE w == Len(x)
           store2 == WriteAt(store, o, x)
           d == Digits(s)
           rd == ReadAt(store2, o, Header)
           z == SizeAt(store2, o)
<1>1. /\ Header \in Nat \ {0} /\ MaxSize \in Nat
      /\ x \in Seq(Bytes) /\ w \in Nat /\ w <= Header + s
  BY StoreAssumption DEF Begins
<1>2. /\ store2 \in Store
      /\ \A p \in 0 .. MaxSize - 1 :
           store2[p] = IF p >= o /\ p < o + w THEN x[p - o + 1] ELSE store[p]
  <2>1. Lies(store2, store, o, x)
    BY <1>1, WriteLies
  <2> HIDE DEF store2
  <2> QED
    BY <2>1 DEF Lies
<1>3. /\ \A k \in 1 .. Header : Record(b, s)[k] = d[k]
      /\ \A k \in 1 .. s : Record(b, s)[Header + k] = Byte(1, b, k)
      /\ Payload(b, s) \in Seq(Bytes) /\ Len(Payload(b, s)) = s
      /\ \A k \in 1 .. s : Payload(b, s)[k] = Byte(1, b, k)
  <2>1. Recorded(Record(b, s), Payload(b, s), b, s)
    BY RecordedIs
  <2> QED
    BY <2>1 DEF Recorded
<1>4. /\ DigitsOf(d) /\ Number(d) = s
      /\ \A k \in 1 .. Header : d[k].digit \in Nat
      /\ \A k \in 1 .. Header : d[k] = Byte(d[k].digit, 0, 0)
  <2>1. DigitsOf(d) /\ Number(d) = s
    BY DigitsAre, NumberDigits
  <2>2. \A k \in 1 .. Header : d[k] = Byte(Quotients(s)[k - 1] % Base, 0, 0)
    BY DigitsAre
  <2>3. \A v : Byte(v, 0, 0) = Byte(Byte(v, 0, 0).digit, 0, 0)
    BY DEF Byte
  <2> HIDE DEF d
  <2> QED
    BY <2>1, <2>2, <2>3 DEF DigitsOf
<1>5. DigitsOf(rd) /\ z \in Nat /\ z = Number(rd)
  BY <1>2, SizeAtIs DEF SizeAt
<1> HIDE DEF store2
<1>6. \A k \in 1 .. Header : rd[k] = IF o + k - 1 < MaxSize THEN store2[o + k - 1] ELSE Zero
  <2>1. Reads(rd, store2, o, Header)
    BY <1>1, <1>2, ReadsIs
  <2> HIDE DEF rd
  <2> QED
    BY <2>1 DEF Reads
<1> HIDE DEF w, d, rd, z
<1>7. \A k \in 1 .. Header : rd[k] = IF k <= w THEN d[k] ELSE Zero
  <2>1. ASSUME NEW k \in 1 .. Header
        PROVE  rd[k] = IF k <= w THEN d[k] ELSE Zero
    <3>1. /\ o + k - 1 < MaxSize /\ o + k - 1 \in 0 .. MaxSize - 1 /\ o + k - 1 >= o
          /\ (o + k - 1) - o + 1 = k /\ (o + k - 1 < o + w <=> k <= w)
      BY <1>1
    <3>2. rd[k] = store2[o + k - 1]
      BY <1>6, <3>1
    <3>3. store2[o + k - 1] = IF k <= w THEN x[k] ELSE store[o + k - 1]
      BY <1>2, <3>1
    <3>4. store[o + k - 1] = Zero
      BY <3>1
    <3>5. k <= w => k \in 1 .. w /\ k \in 1 .. Len(x)
      BY <1>1 DEF w
    <3>6. k <= w => x[k] = d[k]
      BY <1>3, <3>5 DEF Begins
    <3> QED
      BY <3>2, <3>3, <3>4, <3>6
  <2> QED
    BY <2>1
<1>8. z <= s
  <2>1. \A k \in 1 .. Header : rd[k].digit <= d[k].digit
    <3>1. ASSUME NEW k \in 1 .. Header
          PROVE  rd[k].digit <= d[k].digit
      <4>1. rd[k].digit = d[k].digit \/ rd[k].digit = 0
        BY <1>7, ZeroByte
      <4>2. d[k].digit \in Nat
        BY <1>4
      <4> QED
        BY <4>1, <4>2
    <3> QED
      BY <3>1
  <2>2. Number(rd) <= Number(d)
    BY <1>4, <1>5, <2>1, NumberPart
  <2> QED
    BY <1>4, <1>5, <2>2
<1>9. w >= Header => z = s
  <2> SUFFICES ASSUME w >= Header
               PROVE  z = s
    OBVIOUS
  <2>1. \A k \in 1 .. Header : k <= w
    BY <1>1
  <2>2. \A k \in 1 .. Header : rd[k].digit = d[k].digit
    BY <1>7, <2>1
  <2>3. \A k \in 1 .. Header : d[k].digit <= rd[k].digit
    BY <1>4, <2>2
  <2>4. Number(d) <= Number(rd)
    BY <1>4, <1>5, <2>3, NumberPart
  <2> QED
    BY <1>4, <1>5, <1>8, <2>4
<1>10. ASSUME NEW p \in 0 .. MaxSize - 1, p >= o + w
       PROVE  store2[p] = Zero
  BY <1>1, <1>2, <1>10
<1>11. ASSUME NEW p \in 0 .. MaxSize - 1, p >= o + Header + z
       PROVE  store2[p] = Zero
  <2>1. p >= o + w
    BY <1>1, <1>5, <1>9, <1>11
  <2> QED
    BY <1>10, <2>1
<1>12. ASSUME z = 0, NEW p \in 0 .. MaxSize - 1, p >= o
       PROVE  store2[p] = Zero
  <2>1. w < Header
    BY <1>1, <1>9, <1>12
  <2>2. CASE p >= o + w
    BY <1>10, <2>2
  <2>3. CASE p < o + w
    <3> DEFINE k == p - o + 1
    <3>1. k \in 1 .. Header /\ k <= w /\ p = o + k - 1 /\ o + k - 1 < MaxSize
      BY <1>1, <1>12, <2>1, <2>3
    <3> HIDE DEF k
    <3>2. rd[k] = d[k] /\ rd[k] = store2[p]
      <4>1. rd[k] = store2[o + k - 1]
        BY <1>6, <3>1
      <4>2. rd[k] = d[k]
        BY <1>7, <3>1
      <4> QED
        BY <3>1, <4>1, <4>2
    <3>3. rd[k].digit = 0
      BY <1>5, <1>12, <3>1, NumberZero
    <3>4. d[k] = Byte(d[k].digit, 0, 0)
      BY <1>4, <3>1
    <3>5. d[k] = Byte(0, 0, 0)
      BY <3>2, <3>3, <3>4
    <3> QED
      BY <3>2, <3>5 DEF Zero
  <2> QED
    BY <1>1, <2>2, <2>3
<1>13. ASSUME w = Header + s
       PROVE  ReadAt(store2, o + Header, s) = Payload(b, s)
  <2> DEFINE q == ReadAt(store2, o + Header, s)
  <2>1. /\ q \in Seq(Bytes) /\ Len(q) = s
        /\ \A k \in 1 .. s : q[k] = IF (o + Header) + k - 1 < MaxSize
                                      THEN store2[(o + Header) + k - 1] ELSE Zero
    <3>1. o + Header \in Nat /\ s \in Nat
      BY <1>1
    <3> QED
      BY <1>2, <3>1, ReadIs
  <2> HIDE DEF q
  <2>2. ASSUME NEW k \in 1 .. s
        PROVE  q[k] = Payload(b, s)[k]
    <3> DEFINE p == (o + Header) + k - 1
    <3>1. /\ p < MaxSize /\ p \in 0 .. MaxSize - 1 /\ p >= o /\ p < o + w
          /\ p - o + 1 = Header + k /\ Header + k \in 1 .. w
      BY <1>1, <1>13
    <3>2. q[k] = store2[p]
      BY <2>1, <3>1
    <3> HIDE DEF p
    <3>3. store2[p] = x[Header + k]
      BY <1>2, <3>1
    <3>4. x[Header + k] = Record(b, s)[Header + k]
      BY <3>1 DEF Begins, w
    <3> QED
      BY <1>3, <3>2, <3>3, <3>4
  <2>3. q = Payload(b, s)
    BY <1>3, <2>1, <2>2, SeqEqual
  <2> QED
    BY <2>3 DEF q
<1>14. \A p \in 0 .. MaxSize - 1 : p < o => store2[p] = store[p]
  BY <1>2
<1>15. w = Header + s => z = s
  BY <1>1, <1>9
<1>16. ReadAt(store2, o + Header, s) = Payload(b, s) \/ Len(x) # Header + s
  BY <1>13 DEF w
<1>17. /\ SizeAt(store2, o) \in Nat /\ SizeAt(store2, o) <= s
       /\ \A p \in 0 .. MaxSize - 1 : p >= o + Header + SizeAt(store2, o) => store2[p] = Zero
       /\ SizeAt(store2, o) = 0 => \A p \in 0 .. MaxSize - 1 : p >= o => store2[p] = Zero
       /\ Len(x) = Header + s => SizeAt(store2, o) = s
  BY <1>5, <1>8, <1>11, <1>12, <1>15 DEF w, z
<1>18. Wrote(store2, store, o, x, b, s)
  BY <1>2, <1>14, <1>16, <1>17 DEF Wrote
<1> QED
  BY <1>18 DEF store2

Overwritten(st, o, x) == [st EXCEPT ![Len(st)] = WriteAt(st[Len(st)], o, x)]

Grown(st, idx, size, s) ==
  Laid(st, Append(idx, BlockIndex(Len(st), size + Header, s)), size + Header + s)

(* A write of a record, whole or interrupted, adds one block of some       *)
(* length, or none.                                                        *)
Adds(st, st2, idx, size, x, b, s) ==
  /\ StoresTyped(st2) /\ Len(st2) = Len(st) /\ SameBelow(st, st2, size)
  /\ Laid(st2, idx, size) \/ \E z \in Nat : Grown(st2, idx, size, z)
  /\ Len(x) = Header + s =>
       /\ Grown(st2, idx, size, s)
       /\ ReadAt(st2[Len(st)], size + Header, s) = Payload(b, s)

LEMMA PartWritten ==
  ASSUME NEW st, StoresTyped(st), NEW idx, NEW size, Laid(st, idx, size),
         NEW b \in 0 .. MaxBlocks, NEW s \in Nat \ {0}, Quotients(s)[Header] = 0,
         size + Header + s <= MaxSize, NEW x, Begins(x, b, s)
  PROVE  Adds(st, Overwritten(st, size, x), idx, size, x, b, s)
<1> DEFINE L == Len(st)
           st2 == Overwritten(st, size, x)
           store == st[L]
           store2 == WriteAt(store, size, x)
           z == SizeAt(store2, size)
<1>1. /\ L \in Nat \ {0} /\ st \in Seq(Store) /\ store \in Store
      /\ idx \in Seq(Places) /\ Len(idx) \in Nat
      /\ Header \in Nat \ {0} /\ MaxSize \in Nat
  BY StoreAssumption DEF StoresTyped, Laid, Indexed
<1>2. size \in Nat
  BY <1>1, AfterIs DEF Laid, Room
<1>3. \A p \in 0 .. MaxSize - 1 : p >= size => store[p] = Zero
  BY DEF Laid, Room
<1> HIDE DEF store
<1>4. /\ store2 \in Store
      /\ \A p \in 0 .. MaxSize - 1 : p < size => store2[p] = store[p]
      /\ z \in Nat /\ z <= s
      /\ \A p \in 0 .. MaxSize - 1 : p >= size + Header + z => store2[p] = Zero
      /\ z = 0 => \A p \in 0 .. MaxSize - 1 : p >= size => store2[p] = Zero
      /\ Len(x) = Header + s => z = s /\ ReadAt(store2, size + Header, s) = Payload(b, s)
  <2>1. Wrote(store2, store, size, x, b, s)
    BY <1>1, <1>2, <1>3, Written
  <2> HIDE DEF store2
  <2> QED
    BY <2>1 DEF Wrote
<1> HIDE DEF store2, z, L
<1>5. st2 = [st EXCEPT ![L] = store2]
  BY DEF store2, store, L, Overwritten
<1> HIDE DEF st2
<1>6. /\ st2 \in Seq(Store) /\ Len(st2) = L /\ st2[L] = store2
      /\ \A n \in 1 .. L - 1 : st2[n] = st[n]
  <2>1. st2 \in Seq(Store) /\ Len(st2) = L
    BY <1>1, <1>4, <1>5, ExceptSeq DEF L
  <2>2. L \in 1 .. Len(st) /\ \A n \in 1 .. L - 1 : n \in 1 .. Len(st) /\ n # L
    BY <1>1 DEF L
  <2> QED
    BY <1>1, <1>5, <2>1, <2>2
<1>7. StoresTyped(st2)
  BY <1>1, <1>6 DEF StoresTyped
<1>8. SameBelow(st, st2, size)
  BY <1>4, <1>6 DEF SameBelow, L, store
<1>9. z = 0 => Laid(st2, idx, size) /\ Len(x) # Header + s
  <2> SUFFICES ASSUME z = 0
               PROVE  Laid(st2, idx, size) /\ Len(x) # Header + s
    OBVIOUS
  <2>1. \A o \in 0 .. MaxSize - 1 : o >= size => st2[Len(st2)][o] = Zero
    BY <1>4, <1>6
  <2>2. Laid(st2, idx, size)
    BY <1>7, <1>8, <2>1, NothingAdded
  <2>3. Len(x) # Header + s
    BY <1>4
  <2> QED
    BY <2>2, <2>3
<1>10. z # 0 => Grown(st2, idx, size, z)
  <2> SUFFICES ASSUME z # 0
               PROVE  Grown(st2, idx, size, z)
    OBVIOUS
  <2>1. z > 0 /\ size + Header + z <= MaxSize
    BY <1>1, <1>2, <1>4
  <2>2. z = SizeAt(st2[Len(st2)], size)
    BY <1>6 DEF z
  <2>3. \A o \in 0 .. MaxSize - 1 : o >= size + Header + z => st2[Len(st2)][o] = Zero
    BY <1>4, <1>6
  <2> QED
    BY <1>7, <1>8, <2>1, <2>2, <2>3, OneAdded DEF Grown
<1>11. Laid(st2, idx, size) \/ \E y \in Nat : Grown(st2, idx, size, y)
  <2>1. z \in Nat
    BY <1>4
  <2> QED
    BY Zenon, <1>9, <1>10, <2>1
<1>12. Len(x) = Header + s =>
         /\ Grown(st2, idx, size, s)
         /\ ReadAt(st2[Len(st)], size + Header, s) = Payload(b, s)
  <2> SUFFICES ASSUME Len(x) = Header + s
               PROVE  /\ Grown(st2, idx, size, s)
                      /\ ReadAt(st2[Len(st)], size + Header, s) = Payload(b, s)
    OBVIOUS
  <2>1. z = s /\ ReadAt(store2, size + Header, s) = Payload(b, s)
    BY <1>4
  <2>2. z # 0
    BY <1>9
  <2>3. st2[Len(st)] = store2
    BY <1>6 DEF L
  <2> QED
    BY Zenon, <1>10, <2>1, <2>2, <2>3
<1>13. Len(st2) = Len(st)
  BY <1>6 DEF L
<1>14. Adds(st, st2, idx, size, x, b, s)
  BY Zenon, <1>7, <1>8, <1>11, <1>12, <1>13 DEF Adds
<1> QED
  BY <1>14 DEF st2

-----------------------------------------------------------------------------
(* The inductive invariant. *)

(* The place of the block that is being added. *)
New == BlockIndex(Len(stores), currentSize + Header, adding.size)

(* AddBlock in memory, when idx lie in the stores and size bytes are used. *)
InMemory(idx, size) ==
  /\ adding.step = "none" => blocks = idx /\ currentSize = size
  /\ adding.step = "write" =>
       /\ blocks = Append(idx, New) /\ currentSize = size
       /\ size + Header + adding.size <= MaxSize
  /\ adding.step = "count" =>
       /\ blocks = idx /\ Len(idx) > 0 /\ idx[Len(idx)] = New
       /\ size = currentSize + Header + adding.size
       /\ ReadAt(stores[Len(stores)], currentSize + Header, adding.size)
            = Payload(adding.block, adding.size)

(* Blocks whose AddBlock has returned, or that an opening of the store     *)
(* found.                                                                  *)
Counted(idx) == IF adding.step = "count" THEN Len(idx) - 1 ELSE Len(idx)

(* A block that is kept is among the first c of idx, with all of its bytes.*)
Holds(st, idx, b) ==
  /\ idx[b.place + 1].Size = b.size
  /\ ReadAt(st[idx[b.place + 1].StoreNum], idx[b.place + 1].Offset, b.size)
       = Payload(b.block, b.size)

KeptOK(idx) ==
  \A b \in kept : b.place < Counted(idx) /\ Holds(stores, idx, b)

(* The Epoch is the number of blocks, or one less. *)
EpochOK(c) ==
  Epoch = c \/ Epoch + 1 = c \/ (c = 0 /\ Epoch = Wrap - 1)

Layout(idx, size) ==
  /\ Laid(stores, idx, size)
  /\ IF adding.step = "write" THEN Len(idx) + 1 <= added ELSE Len(idx) <= added
  /\ KeptOK(idx)
  /\ up => EpochOK(Counted(idx)) /\ InMemory(idx, size)

AddingOK ==
  /\ adding.step = "none" \/ ~ up => adding = NoAdd
  /\ adding.step # "none" => adding.block \in 1 .. MaxBlocks /\ adding.size \in Sizes

StoreInv ==
  /\ StoreTypeOK
  /\ Len(stores) > 0
  /\ AddingOK
  /\ \E idx, size : Layout(idx, size)

(* What is known of a block is a place. *)
LEMMA PlaceIs ==
  ASSUME NEW n \in Nat, NEW o \in Nat, NEW s \in Nat
  PROVE  /\ BlockIndex(n, o, s) \in Places
         /\ BlockIndex(n, o, s).StoreNum = n
BY DEF BlockIndex, Places

(* The sizes of the blocks that are added. *)
LEMMA SizesAre ==
  ASSUME NEW s \in Sizes
  PROVE  s \in Nat \ {0} /\ Quotients(s)[Header] = 0 /\ Header + s <= MaxSize
BY StoreAssumption

(* A store with no block. *)
LEMMA NothingLaid ==
  StoresTyped(<<EmptyStore>>) /\ Laid(<<EmptyStore>>, << >>, 0)
<1>1. <<EmptyStore>> \in Seq(Store) /\ Len(<<EmptyStore>>) = 1 /\ <<EmptyStore>>[1] = EmptyStore
  BY ZeroByte
<1>2. << >> \in Seq(Places) /\ Len(<< >>) = 0
  BY EmptySeq
<1>3. StoresTyped(<<EmptyStore>>)
  BY <1>1 DEF StoresTyped
<1>4. Indexed(<<EmptyStore>>, << >>)
  BY <1>1, <1>2 DEF Indexed
<1>5. Ended(<<EmptyStore>>, << >>)
  BY <1>1, <1>2 DEF Ended
<1>6. Room(<<EmptyStore>>, << >>, 0)
  <2>1. After(<< >>, 0, 1) = 0
    BY DEF After
  <2> QED
    BY <1>1, <1>2, <2>1, ZeroByte DEF Room
<1> QED
  BY <1>3, <1>4, <1>5, <1>6 DEF Laid

(* A store that was just created. *)
LEMMA StoreInitInv ==
  StoreInit => StoreInv
<1> SUFFICES ASSUME StoreInit
             PROVE  StoreInv
  OBVIOUS
<1> USE DEF StoreInit
<1>0. MaxBlocks \in Nat /\ Wrap \in Nat /\ Wrap > MaxBlocks + 1
  BY StoreAssumption
<1>1. StoresTyped(stores) /\ Laid(stores, << >>, 0)
  BY NothingLaid
<1>2. StoreTypeOK
  <2>1. stores \in Seq(Store)
    BY <1>1 DEF StoresTyped
  <2>2. blocks \in Seq(Places)
    BY EmptySeq
  <2>3. /\ adding \in [step : {"none", "write", "count"}, block : 0 .. MaxBlocks, size : Nat]
        /\ 0 \in 0 .. Wrap - 1 /\ 0 \in 0 .. MaxBlocks
    BY <1>0 DEF NoAdd
  <2> QED
    BY <2>1, <2>2, <2>3 DEF StoreTypeOK, Store, Bytes, Places
<1>3. AddingOK /\ adding.step = "none"
  BY DEF AddingOK, NoAdd
<1>4. Layout(<< >>, 0)
  <2>1. Len(<< >>) = 0 /\ Counted(<< >>) = 0
    BY <1>3, EmptySeq DEF Counted
  <2>2. InMemory(<< >>, 0)
    BY <1>3 DEF InMemory
  <2>3. EpochOK(0) /\ KeptOK(<< >>)
    BY DEF EpochOK, KeptOK
  <2> QED
    BY <1>1, <1>3, <2>1, <2>2, <2>3 DEF Layout
<1> QED
  BY <1>1, <1>2, <1>3, <1>4 DEF StoreInv, StoresTyped

(* What the proofs of the steps use of the invariant. *)
LEMMA StoreFacts ==
  ASSUME StoreInv
  PROVE  /\ StoresTyped(stores) /\ stores \in Seq(Store) /\ Len(stores) \in Nat \ {0}
         /\ blocks \in Seq(Places) /\ currentSize \in Nat
         /\ added \in 0 .. MaxBlocks /\ up \in BOOLEAN /\ Epoch \in 0 .. Wrap - 1
         /\ adding \in [step : {"none", "write", "count"}, block : 0 .. MaxBlocks, size : Nat]
         /\ kept \in SUBSET [place : Nat, block : 1 .. MaxBlocks, size : Sizes]
         /\ Header \in Nat \ {0} /\ MaxSize \in Nat /\ MaxBlocks \in Nat
         /\ Wrap \in Nat /\ Wrap > MaxBlocks + 1
         /\ AddingOK
<1>1. stores \in Seq(Store) /\ blocks \in Seq(Places)
  BY DEF StoreInv, StoreTypeOK, Store, Bytes, Places
<1>2. Len(stores) \in Nat \ {0}
  BY <1>1, LenProperties DEF StoreInv
<1>3. StoresTyped(stores)
  BY <1>1, <1>2 DEF StoresTyped
<1> QED
  BY <1>1, <1>2, <1>3, StoreAssumption DEF StoreInv, StoreTypeOK

(* The place of a block that is kept. *)
LEMMA KeptPlace ==
  ASSUME StoreInv, NEW idx, NEW size, Layout(idx, size), NEW b \in kept
  PROVE  /\ b.place \in Nat /\ b.place + 1 \in 1 .. Counted(idx) /\ b.place + 1 \in 1 .. Len(idx)
         /\ b.block \in 1 .. MaxBlocks /\ b.size \in Sizes /\ b.size \in Nat
         /\ Holds(stores, idx, b)
         /\ Counted(idx) \in Nat /\ Counted(idx) <= Len(idx) /\ Len(idx) \in Nat
<1>1. b \in [place : Nat, block : 1 .. MaxBlocks, size : Sizes]
  BY StoreFacts
<1>2. b.place \in Nat /\ b.block \in 1 .. MaxBlocks /\ b.size \in Sizes
  BY <1>1
<1>3. b.size \in Nat
  BY <1>2, SizesAre
<1>4. idx \in Seq(Places) /\ Len(idx) \in Nat
  BY LenProperties DEF Layout, Laid, Indexed
<1>5. b.place < Counted(idx) /\ Holds(stores, idx, b)
  BY DEF Layout, KeptOK
<1>6. Counted(idx) = Len(idx) \/ Counted(idx) = Len(idx) - 1
  BY DEF Counted
<1> QED
  BY <1>2, <1>3, <1>4, <1>5, <1>6

(* Blocks that are kept stay readable while they stay in the index. *)
LEMMA HoldsStill ==
  ASSUME StoreInv, NEW idx, NEW size, Layout(idx, size),
         NEW st2, NEW idx2, NEW b \in kept,
         idx2[b.place + 1] = idx[b.place + 1],
         ReadAt(st2[idx[b.place + 1].StoreNum], idx[b.place + 1].Offset, idx[b.place + 1].Size)
           = ReadAt(stores[idx[b.place + 1].StoreNum], idx[b.place + 1].Offset,
                    idx[b.place + 1].Size)
  PROVE  Holds(st2, idx2, b)
BY KeptPlace DEF Holds

(* AddBlock puts the block in the index, and opens a new store when there  *)
(* is no room.                                                             *)
LEMMA IndexBlockKeeps ==
  ASSUME StoreInv, NEW s \in Sizes, IndexBlock(s)
  PROVE  StoreInv'
<1>1. PICK idx, size : Layout(idx, size)
  BY DEF StoreInv
<1>2. /\ up /\ adding = NoAdd /\ added < MaxBlocks
      /\ stores' = IF Fits(s) THEN stores ELSE Append(stores, EmptyStore)
      /\ currentSize' = IF Fits(s) THEN currentSize ELSE 0
      /\ blocks' = Append(blocks, BlockIndex(Len(stores'), currentSize' + Header, s))
      /\ added' = added + 1
      /\ adding' = [step |-> "write", block |-> added + 1, size |-> s]
      /\ up' = up /\ Epoch' = Epoch /\ kept' = kept
  BY DEF IndexBlock
<1>3. /\ adding.step = "none" /\ adding'.step = "write" /\ adding'.size = s
      /\ adding'.block = added + 1
  BY <1>2 DEF NoAdd
<1>4. s \in Nat \ {0} /\ Header + s <= MaxSize
  BY SizesAre
<1>5. blocks = idx /\ currentSize = size /\ Len(idx) <= added /\ EpochOK(Counted(idx))
      /\ Laid(stores, idx, size)
  BY <1>1, <1>2, <1>3 DEF Layout, InMemory
<1>6. /\ StoresTyped(stores') /\ Laid(stores', idx, currentSize')
      /\ \A n \in 1 .. Len(stores) : stores'[n] = stores[n]
      /\ currentSize' + Header + s <= MaxSize
  <2>1. CASE Fits(s)
    BY <1>2, <1>5, <2>1, StoreFacts DEF Fits
  <2>2. CASE ~ Fits(s)
    <3>1. /\ StoresTyped(Append(stores, EmptyStore)) /\ Laid(Append(stores, EmptyStore), idx, 0)
          /\ \A n \in 1 .. Len(stores) : Append(stores, EmptyStore)[n] = stores[n]
      BY <1>5, StoreFacts, StoreAdded
    <3>2. stores' = Append(stores, EmptyStore) /\ currentSize' = 0
      BY <1>2, <2>2
    <3>3. 0 + Header + s <= MaxSize
      BY <1>4, StoreFacts
    <3> QED
      BY <3>1, <3>2, <3>3
  <2> QED
    BY <2>1, <2>2
<1>7. stores' \in Seq(Store) /\ Len(stores') \in Nat \ {0} /\ currentSize' \in Nat
  BY <1>2, <1>6, StoreFacts DEF StoresTyped
<1>8. blocks' \in Seq(Places)
  <2>1. BlockIndex(Len(stores'), currentSize' + Header, s) \in Places
    <3>1. \A x, y \in Nat : x + y \in Nat
      OBVIOUS
    <3>2. currentSize' \in Nat /\ Len(stores') \in Nat /\ Header \in Nat /\ s \in Nat
      BY <1>4, <1>7, StoreFacts
    <3>3. currentSize' + Header \in Nat
      BY Zenon, <3>1, <3>2
    <3> QED
      BY Zenon, <3>2, <3>3, PlaceIs
  <2> QED
    BY <1>2, <2>1, StoreFacts, AddedIs
<1>9. added' \in 1 .. MaxBlocks
  <2>1. added' = added + 1 /\ added < MaxBlocks
    BY <1>2
  <2>2. added \in 0 .. MaxBlocks /\ MaxBlocks \in Nat
    BY StoreFacts
  <2> QED
    BY <2>1, <2>2
<1>10. StoreTypeOK'
  <2>1. adding' \in [step : {"none", "write", "count"}, block : 0 .. MaxBlocks, size : Nat]
    BY <1>2, <1>4, <1>9
  <2> QED
    BY <1>2, <1>7, <1>8, <1>9, <2>1, StoreFacts DEF StoreTypeOK, Store, Bytes, Places
<1>11. AddingOK'
  BY <1>2, <1>3, <1>9, StoreFacts DEF AddingOK
<1>12. Counted(idx) = Len(idx) /\ (Counted(idx) = Len(idx))'
  BY <1>3 DEF Counted
<1>13. KeptOK(idx)'
  <2>1. ASSUME NEW b \in kept
        PROVE  b.place < Len(idx) /\ Holds(stores', idx, b)
    <3>1. b.place + 1 \in 1 .. Len(idx) /\ Len(idx) \in Nat /\ b.place \in Nat
      BY <1>1, KeptPlace
    <3>2. idx[b.place + 1].StoreNum \in 1 .. Len(stores)
      BY <1>5, <3>1, StoreFacts, BlockIs
    <3>3. stores'[idx[b.place + 1].StoreNum] = stores[idx[b.place + 1].StoreNum]
      BY <1>6, <3>2
    <3>4. Holds(stores', idx, b)
      BY <1>1, <3>3, HoldsStill
    <3> QED
      BY <3>1, <3>4
  <2> QED
    BY <1>2, <1>12, <2>1 DEF KeptOK
<1>0. PICK z : z = currentSize'
  OBVIOUS
<1>14. InMemory(idx, z)'
  <2>1. New' = BlockIndex(Len(stores'), currentSize' + Header, s)
    BY <1>3 DEF New
  <2> QED
    BY <1>0, <1>2, <1>3, <1>5, <1>6, <2>1 DEF InMemory
<1>15. EpochOK(Counted(idx))'
  BY <1>2, <1>5, <1>12 DEF EpochOK
<1>16. Len(idx) + 1 <= added'
  <2>1. Len(idx) \in Nat
    BY <1>5, LenProperties DEF Laid, Indexed
  <2> QED
    BY <1>2, <1>5, <2>1, StoreFacts
<1>17. Layout(idx, z)'
  BY <1>0, <1>3, <1>6, <1>13, <1>14, <1>15, <1>16 DEF Layout
<1> QED
  BY <1>7, <1>10, <1>11, <1>17 DEF StoreInv

(* Epoch wraps around at most once. *)
LEMMA Remainder ==
  ASSUME NEW x \in Nat, NEW w \in Nat \ {0}, x < w
  PROVE  x % w = x /\ w % w = 0 /\ (x + w) % w = x
OBVIOUS

(* The write of AddBlock, or of a part x of it. *)
LEMMA AfterWrite ==
  ASSUME StoreInv, NEW idx, NEW size, Layout(idx, size), up, adding.step = "write",
         NEW x, Begins(x, adding.block, adding.size),
         NEW st2, st2 = Overwritten(stores, currentSize, x)
  PROVE  /\ StoresTyped(st2) /\ Len(st2) = Len(stores)
         /\ \/ Laid(st2, idx, size)
            \/ \E e \in Places, z \in Nat : Laid(st2, Append(idx, e), z)
         /\ Len(x) = Header + adding.size =>
              /\ Laid(st2, blocks, currentSize + Header + adding.size)
              /\ ReadAt(st2[Len(stores)], currentSize + Header, adding.size)
                   = Payload(adding.block, adding.size)
         /\ \A b \in kept : Holds(st2, idx, b)
         /\ \A e \in Places, b \in kept : Holds(st2, Append(idx, e), b)
         /\ blocks = Append(idx, New) /\ New \in Places /\ idx \in Seq(Places)
<1> DEFINE b == adding.block
           s == adding.size
           L == Len(stores)
<1>1. /\ Laid(stores, idx, size) /\ blocks = Append(idx, New) /\ currentSize = size
      /\ size + Header + s <= MaxSize
  BY DEF Layout, InMemory
<1>2. b \in 1 .. MaxBlocks /\ s \in Sizes
  BY StoreFacts DEF AddingOK
<1>3. b \in 0 .. MaxBlocks /\ s \in Nat \ {0} /\ Quotients(s)[Header] = 0
  BY <1>2, SizesAre, StoreFacts
<1>4. StoresTyped(stores) /\ L \in Nat \ {0} /\ size \in Nat /\ idx \in Seq(Places) /\ Header \in Nat
  BY <1>1, StoreFacts DEF Laid, Indexed
<1>5. /\ StoresTyped(st2) /\ Len(st2) = L /\ SameBelow(stores, st2, size)
      /\ Laid(st2, idx, size) \/ \E z \in Nat : Grown(st2, idx, size, z)
      /\ Len(x) = Header + s =>
           /\ Grown(st2, idx, size, s)
           /\ ReadAt(st2[L], size + Header, s) = Payload(b, s)
  <2>1. st2 = Overwritten(stores, size, x)
    BY <1>1
  <2>2. Begins(x, b, s)
    OBVIOUS
  <2> HIDE DEF b, s
  <2>3. Adds(stores, Overwritten(stores, size, x), idx, size, x, b, s)
    BY <1>1, <1>3, <1>4, <2>2, PartWritten
  <2> QED
    BY <2>1, <2>3 DEF Adds, L
<1>6. New = BlockIndex(L, size + Header, s) /\ New \in Places
  <2>1. New = BlockIndex(L, size + Header, s)
    BY <1>1 DEF New
  <2> HIDE DEF L, s
  <2>2. L \in Nat /\ size \in Nat /\ Header \in Nat
    BY <1>4
  <2>3. size + Header \in Nat
    <3>1. \A y, z \in Nat : y + z \in Nat
      OBVIOUS
    <3> QED
      BY Zenon, <2>2, <3>1
  <2>4. s \in Nat
    BY <1>3
  <2> QED
    BY <2>1, <2>2, <2>3, <2>4, PlaceIs
<1>7. \A z \in Nat : BlockIndex(L, size + Header, z) \in Places /\ size + Header + z \in Nat
  BY <1>4 DEF BlockIndex, Places
<1>8. /\ \/ Laid(st2, idx, size)
         \/ \E e \in Places, z \in Nat : Laid(st2, Append(idx, e), z)
      /\ Len(x) = Header + s => Laid(st2, blocks, currentSize + Header + s)
  BY <1>1, <1>5, <1>6, <1>7 DEF Grown
<1>9. ASSUME NEW k \in kept
      PROVE  Holds(st2, idx, k) /\ \A e \in Places : Holds(st2, Append(idx, e), k)
  <2>0. PICK m : m = k.place + 1
    OBVIOUS
  <2>1. m \in 1 .. Len(idx)
    BY <2>0, KeptPlace
  <2>2. ReadAt(st2[idx[k.place + 1].StoreNum], idx[k.place + 1].Offset, idx[k.place + 1].Size)
           = ReadAt(stores[idx[k.place + 1].StoreNum], idx[k.place + 1].Offset,
                    idx[k.place + 1].Size)
    <3>1. ReadAt(st2[idx[m].StoreNum], idx[m].Offset, idx[m].Size)
            = ReadAt(stores[idx[m].StoreNum], idx[m].Offset, idx[m].Size)
      BY <1>1, <1>4, <1>5, <2>1, StaysRead
    <3> QED
      BY <2>0, <3>1
  <2>3. \A e \in Places : Append(idx, e)[k.place + 1] = idx[k.place + 1]
    BY <1>4, <2>0, <2>1, AddedIs
  <2>4. Holds(st2, idx, k)
    BY <2>2, HoldsStill
  <2>5. ASSUME NEW e \in Places
        PROVE  Holds(st2, Append(idx, e), k)
    <3>1. Append(idx, e)[k.place + 1] = idx[k.place + 1]
      BY <2>3
    <3> QED
      BY <2>2, <3>1, HoldsStill
  <2> QED
    BY <2>4, <2>5
<1> QED
  BY <1>1, <1>4, <1>5, <1>6, <1>8, <1>9

(* AddBlock writes the block behind its length. *)
LEMMA WriteBlockKeeps ==
  ASSUME StoreInv, WriteBlock
  PROVE  StoreInv'
<1>1. PICK idx, size : Layout(idx, size)
  BY DEF StoreInv
<1> DEFINE x == Record(adding.block, adding.size)
           L == Len(stores)
           z == currentSize + Header + adding.size
<1>2. /\ up /\ adding.step = "write"
      /\ stores' = Overwritten(stores, currentSize, x)
      /\ adding' = [adding EXCEPT !.step = "count"]
      /\ up' = up /\ blocks' = blocks /\ currentSize' = currentSize /\ Epoch' = Epoch
      /\ added' = added /\ kept' = kept
  BY DEF WriteBlock, Overwritten
<1>3. adding.block \in 1 .. MaxBlocks /\ adding.size \in Sizes
  BY <1>2, StoreFacts DEF AddingOK
<1>4. adding.block \in 0 .. MaxBlocks /\ adding.size \in Nat
  BY <1>3, SizesAre, StoreFacts
<1>5. adding'.step = "count" /\ adding'.block = adding.block /\ adding'.size = adding.size
      /\ adding' \in [step : {"none", "write", "count"}, block : 0 .. MaxBlocks, size : Nat]
  BY <1>2, StoreFacts
<1>6. Begins(x, adding.block, adding.size) /\ Len(x) = Header + adding.size
  <2>1. x \in Seq(Bytes) /\ Len(x) = Header + adding.size
    BY <1>4, RecordIs
  <2>2. Header + adding.size <= Header + adding.size
    BY <1>4, StoreFacts
  <2> QED
    BY <2>1, <2>2 DEF Begins
<1>7. /\ StoresTyped(stores') /\ Len(stores') = L
      /\ Laid(stores', blocks, z)
      /\ ReadAt(stores'[L], currentSize + Header, adding.size)
           = Payload(adding.block, adding.size)
      /\ \A b \in kept : Holds(stores', blocks, b)
      /\ blocks = Append(idx, New) /\ New \in Places /\ idx \in Seq(Places)
  <2>1. PICK st : st = Overwritten(stores, currentSize, x)
    OBVIOUS
  <2> HIDE DEF x
  <2>2. /\ StoresTyped(st) /\ Len(st) = L
        /\ Laid(st, blocks, z)
        /\ ReadAt(st[L], currentSize + Header, adding.size)
             = Payload(adding.block, adding.size)
        /\ \A b \in kept, e \in Places : Holds(st, Append(idx, e), b)
        /\ blocks = Append(idx, New) /\ New \in Places /\ idx \in Seq(Places)
    BY <1>1, <1>2, <1>6, <2>1, AfterWrite
  <2>3. st = stores'
    BY <1>2, <2>1
  <2>4. \A b \in kept : Holds(st, blocks, b)
    BY <2>2
  <2> QED
    BY <2>2, <2>3, <2>4
<1> HIDE DEF x
<1>8. Len(blocks) = Len(idx) + 1 /\ blocks[Len(blocks)] = New /\ Len(idx) \in Nat
  BY <1>7, AddedIs, LenProperties
<1>9. Len(idx) + 1 <= added /\ EpochOK(Len(idx)) /\ Counted(idx) = Len(idx)
  BY <1>1, <1>2 DEF Layout, Counted
<1>10. StoreTypeOK'
  BY <1>2, <1>5, <1>7, StoreFacts DEF StoreTypeOK, StoresTyped, Store, Bytes, Places
<1>11. AddingOK'
  BY <1>2, <1>3, <1>5 DEF AddingOK
<1>0. PICK c, y : c = blocks /\ y = z
  OBVIOUS
<1>12. Counted(c)' = Len(idx)
  BY <1>0, <1>5, <1>8 DEF Counted
<1>13. KeptOK(c)'
  <2>1. \A b \in kept : b.place < Len(idx)
    BY <1>1, <1>9 DEF Layout, KeptOK
  <2> QED
    BY <1>0, <1>2, <1>7, <1>12, <2>1 DEF KeptOK
<1>14. New' = New
  BY <1>2, <1>5, <1>7 DEF New
<1>15. InMemory(c, y)'
  <2>1. Len(c) > 0
    BY <1>0, <1>8
  <2> QED
    BY <1>0, <1>2, <1>5, <1>7, <1>8, <1>14, <2>1 DEF InMemory
<1>16. EpochOK(Counted(c))'
  BY <1>2, <1>9, <1>12 DEF EpochOK
<1>17. Layout(c, y)'
  BY <1>0, <1>2, <1>5, <1>7, <1>8, <1>9, <1>13, <1>15, <1>16 DEF Layout
<1>18. Len(stores') > 0
  BY <1>7, StoreFacts
<1> QED
  BY <1>10, <1>11, <1>17, <1>18 DEF StoreInv

(* AddBlock counts the block and returns. *)
LEMMA CountBlockKeeps ==
  ASSUME StoreInv, CountBlock
  PROVE  StoreInv'
<1>1. PICK idx, size : Layout(idx, size)
  BY DEF StoreInv
<1> DEFINE K == Len(idx)
           b0 == [place |-> Len(blocks) - 1, block |-> adding.block, size |-> adding.size]
<1>2. /\ up /\ adding.step = "count"
      /\ currentSize' = currentSize + Header + adding.size
      /\ Epoch' = (Epoch + 1) % Wrap
      /\ kept' = kept \cup {b0}
      /\ adding' = NoAdd
      /\ up' = up /\ stores' = stores /\ blocks' = blocks /\ added' = added
  BY DEF CountBlock
<1>3. /\ Laid(stores, idx, size) /\ K <= added /\ KeptOK(idx) /\ EpochOK(K - 1)
      /\ blocks = idx /\ K > 0 /\ idx[K] = New
      /\ size = currentSize + Header + adding.size
      /\ ReadAt(stores[Len(stores)], currentSize + Header, adding.size)
           = Payload(adding.block, adding.size)
  BY <1>1, <1>2 DEF Layout, InMemory, Counted
<1>4. idx \in Seq(Places) /\ K \in Nat \ {0}
  BY <1>3, LenProperties DEF Laid, Indexed
<1>5. adding.block \in 1 .. MaxBlocks /\ adding.size \in Sizes /\ adding.size \in Nat
  BY <1>2, StoreFacts, SizesAre DEF AddingOK
<1>6. b0 \in [place : Nat, block : 1 .. MaxBlocks, size : Sizes] /\ b0.place = K - 1
      /\ b0.place + 1 = K /\ b0.block = adding.block /\ b0.size = adding.size
  BY <1>3, <1>4, <1>5
<1>7. Epoch' \in 0 .. Wrap - 1 /\ (Epoch' = K \/ Epoch' + 1 = K)
  <2>1. K - 1 < MaxBlocks
    BY <1>3, <1>4, StoreFacts
  <2>2. /\ Epoch \in 0 .. Wrap - 1 /\ Wrap \in Nat \ {0} /\ Wrap > MaxBlocks + 1
        /\ MaxBlocks \in Nat
    BY StoreFacts
  <2>3. CASE Epoch + 1 < Wrap
    <3>1. Epoch + 1 \in Nat /\ ~ (Epoch = Wrap - 1)
      BY <2>2, <2>3
    <3>2. Epoch' = Epoch + 1
      BY <1>2, <2>2, <2>3, <3>1, Remainder
    <3>3. Epoch = K - 1 \/ Epoch + 1 = K - 1
      BY <1>3, <3>1 DEF EpochOK
    <3> QED
      BY <1>4, <2>2, <2>3, <3>2, <3>3
  <2>4. CASE ~ (Epoch + 1 < Wrap)
    <3>1. Epoch = Wrap - 1 /\ Epoch + 1 = Wrap
      BY <2>2, <2>4
    <3>2. K - 1 = 0
      BY <1>3, <1>4, <2>1, <2>2, <3>1 DEF EpochOK
    <3>3. Epoch' = 0
      BY <1>2, <2>2, <3>1, Remainder
    <3> QED
      BY <1>4, <2>2, <3>2, <3>3
  <2> QED
    BY <2>3, <2>4
<1>8. currentSize' \in Nat
  <2>1. currentSize \in Nat /\ Header \in Nat
    BY StoreFacts
  <2> QED
    BY <1>2, <1>5, <2>1
<1>9. adding'.step = "none"
      /\ adding' \in [step : {"none", "write", "count"}, block : 0 .. MaxBlocks, size : Nat]
  BY <1>2, StoreFacts DEF NoAdd
<1> HIDE DEF b0
<1>10. StoreTypeOK'
  <2>1. kept' \in SUBSET [place : Nat, block : 1 .. MaxBlocks, size : Sizes]
    BY <1>2, <1>6, StoreFacts
  <2> QED
    BY <1>2, <1>7, <1>8, <1>9, <2>1, StoreFacts DEF StoreTypeOK, Store, Bytes, Places
<1>11. AddingOK'
  BY <1>2, <1>9 DEF AddingOK
<1>12. Holds(stores, idx, b0)
  <2>1. New = BlockIndex(Len(stores), currentSize + Header, adding.size)
    BY DEF New
  <2>2. /\ idx[K].StoreNum = Len(stores) /\ idx[K].Offset = currentSize + Header
        /\ idx[K].Size = adding.size
    BY <1>3, <2>1 DEF BlockIndex
  <2> QED
    BY <1>3, <1>6, <2>2 DEF Holds
<1>13. KeptOK(idx)'
  <2>1. Counted(idx)' = K
    BY <1>9 DEF Counted
  <2>2. \A b \in kept : b.place < K /\ Holds(stores, idx, b)
    <3>1. ASSUME NEW b \in kept
          PROVE  b.place < K /\ Holds(stores, idx, b)
      BY <1>1, <1>4, KeptPlace
    <3> QED
      BY <3>1
  <2>3. b0.place < K
    BY <1>4, <1>6
  <2> QED
    BY <1>2, <1>12, <2>1, <2>2, <2>3 DEF KeptOK
<1>14. InMemory(idx, size)'
  BY <1>2, <1>3, <1>9 DEF InMemory
<1>15. EpochOK(Counted(idx))'
  BY <1>7, <1>9 DEF EpochOK, Counted
<1>16. Layout(idx, size)'
  BY <1>2, <1>3, <1>9, <1>13, <1>14, <1>15 DEF Layout
<1> QED
  BY <1>2, <1>10, <1>11, <1>16, StoreFacts DEF StoreInv

(* Blocks that are left when the process stops. *)
LEMMA StoppedKeeps ==
  ASSUME StoreInv, NEW idx, NEW size,
         up' = FALSE, blocks' = << >>, currentSize' = 0, Epoch' = 0, adding' = NoAdd,
         added' = added, kept' = kept,
         StoresTyped(stores'), Laid(stores', idx, size), Len(idx) <= added,
         \A b \in kept : b.place < Len(idx) /\ Holds(stores', idx, b)
  PROVE  StoreInv'
<1>1. adding'.step = "none"
      /\ adding' \in [step : {"none", "write", "count"}, block : 0 .. MaxBlocks, size : Nat]
  BY StoreFacts DEF NoAdd
<1>2. StoreTypeOK'
  <2>1. << >> \in Seq(Places) /\ 0 \in 0 .. Wrap - 1
    BY EmptySeq, StoreFacts
  <2>2. stores' \in Seq(Store)
    BY DEF StoresTyped
  <2> QED
    BY <1>1, <2>1, <2>2, StoreFacts DEF StoreTypeOK, Store, Bytes, Places
<1>3. AddingOK' /\ Len(stores') > 0
  BY <1>1 DEF AddingOK, StoresTyped
<1>4. Layout(idx, size)'
  <2>1. Counted(idx)' = Len(idx)
    BY <1>1 DEF Counted
  <2>2. KeptOK(idx)'
    BY <2>1 DEF KeptOK
  <2> QED
    BY <1>1, <2>2 DEF Layout
<1> QED
  BY <1>2, <1>3, <1>4 DEF StoreInv

(* The process stops, between the steps of AddBlock or inside a write. *)
LEMMA CrashKeeps ==
  ASSUME StoreInv, Crash
  PROVE  StoreInv'
<1>1. PICK idx, size : Layout(idx, size)
  BY DEF StoreInv
<1>2. /\ up /\ up' = FALSE /\ blocks' = << >> /\ currentSize' = 0 /\ Epoch' = 0
      /\ adding' = NoAdd /\ added' = added /\ kept' = kept
  BY DEF Crash
<1>3. Laid(stores, idx, size) /\ idx \in Seq(Places) /\ Len(idx) \in Nat
  BY <1>1, LenProperties DEF Layout, Laid, Indexed
<1>4. \A b \in kept : b.place < Len(idx) /\ Holds(stores, idx, b)
  <2>1. ASSUME NEW b \in kept
        PROVE  b.place < Len(idx) /\ Holds(stores, idx, b)
    <3>1. b.place \in Nat /\ b.place + 1 \in 1 .. Len(idx) /\ Holds(stores, idx, b)
      BY <1>1, KeptPlace
    <3> QED
      BY <1>3, <3>1
  <2> QED
    BY <2>1
<1>5. CASE adding.step # "write" /\ stores' = stores
  <2>1. Len(idx) <= added
    BY <1>1, <1>5 DEF Layout
  <2> QED
    BY <1>2, <1>3, <1>4, <1>5, <2>1, StoreFacts, StoppedKeeps
<1>6. CASE adding.step = "write"
           /\ \E w \in 0 .. Len(Record(adding.block, adding.size)) - 1 :
                stores' = Overwritten(stores, currentSize,
                                      SubSeq(Record(adding.block, adding.size), 1, w))
  <2>1. PICK w \in 0 .. Len(Record(adding.block, adding.size)) - 1 :
          stores' = Overwritten(stores, currentSize,
                                SubSeq(Record(adding.block, adding.size), 1, w))
    BY <1>6
  <2>2. adding.block \in 0 .. MaxBlocks /\ adding.size \in Nat
    BY StoreFacts
  <2> DEFINE r == Record(adding.block, adding.size)
             x == SubSeq(r, 1, w)
  <2>3. r \in Seq(Bytes) /\ Len(r) = Header + adding.size
    BY <2>2, RecordIs
  <2>4. Begins(x, adding.block, adding.size)
    <3>1. w \in 0 .. Len(r) - 1
      OBVIOUS
    <3> HIDE DEF r
    <3>3. w \in Nat /\ w <= Len(r) /\ Len(r) \in Nat
      BY <2>3, <3>1, LenProperties
    <3>2. x \in Seq(Bytes) /\ Len(x) = w /\ w <= Len(r) /\ \A k \in 1 .. w : x[k] = r[k]
      BY <2>3, <3>3
    <3> HIDE DEF x
    <3> QED
      BY <2>3, <3>2 DEF Begins, r
  <2>5. PICK st : st = Overwritten(stores, currentSize, x)
    OBVIOUS
  <2>6. stores' = st
    BY <2>1, <2>5
  <2> HIDE DEF x, r
  <2>7. /\ StoresTyped(st)
        /\ \/ Laid(st, idx, size)
           \/ \E e \in Places, z \in Nat : Laid(st, Append(idx, e), z)
        /\ \A b \in kept : Holds(st, idx, b)
        /\ \A e \in Places, b \in kept : Holds(st, Append(idx, e), b)
    BY <1>1, <1>2, <1>6, <2>4, <2>5, AfterWrite
  <2>8. Len(idx) + 1 <= added /\ added \in Nat
    BY <1>1, <1>6, StoreFacts DEF Layout
  <2>9. CASE Laid(st, idx, size)
    <3>1. Len(idx) <= added
      BY <1>3, <2>8
    <3> QED
      BY <1>2, <1>4, <2>6, <2>7, <2>9, <3>1, StoppedKeeps
  <2>10. CASE \E e \in Places, z \in Nat : Laid(st, Append(idx, e), z)
    <3>1. PICK e \in Places, z \in Nat : Laid(st, Append(idx, e), z)
      BY <2>10
    <3>2. PICK idx2 : idx2 = Append(idx, e)
      OBVIOUS
    <3>3. Len(idx2) = Len(idx) + 1
      BY <1>3, <3>2, AddedIs
    <3>4. \A b \in kept : b.place < Len(idx2) /\ Holds(st, idx2, b)
      <4>1. ASSUME NEW b \in kept
            PROVE  b.place < Len(idx2) /\ Holds(st, idx2, b)
        <5>1. b.place \in Nat /\ b.place < Len(idx)
          BY <1>1, <1>4, KeptPlace
        <5> QED
          BY <1>3, <2>7, <3>2, <3>3, <5>1
      <4> QED
        BY <4>1
    <3>5. Laid(st, idx2, z) /\ Len(idx2) <= added
      BY <2>8, <3>1, <3>2, <3>3
    <3> QED
      BY <1>2, <2>6, <2>7, <3>4, <3>5, StoppedKeeps
  <2> QED
    BY <2>7, <2>9, <2>10
<1> QED
  BY <1>5, <1>6 DEF Crash, Overwritten

(* OpenBlockStore scans the stores. *)
LEMMA OpenKeeps ==
  ASSUME StoreInv, OpenBlockStore
  PROVE  StoreInv'
<1>1. PICK idx, size : Layout(idx, size)
  BY DEF StoreInv
<1>2. /\ ~ up /\ up' = TRUE /\ blocks' = Scanned /\ currentSize' = ScannedSize
      /\ Epoch' = (Len(Scanned) + Wrap - 1) % Wrap
      /\ stores' = stores /\ adding' = adding /\ added' = added /\ kept' = kept
  BY DEF OpenBlockStore
<1>3. Laid(stores, idx, size) /\ Scanned = idx /\ ScannedSize = size
  BY <1>1, StoreFacts, ScannedLaid DEF Layout
<1>4. adding = NoAdd /\ adding.step = "none" /\ Len(idx) <= added /\ KeptOK(idx)
      /\ Counted(idx) = Len(idx)
  BY SMTT(20), <1>1, <1>2, StoreFacts DEF Layout, AddingOK, NoAdd, Counted
<1>5. idx \in Seq(Places) /\ Len(idx) \in Nat /\ size \in Nat
  <2>1. idx \in Seq(Places) /\ Len(idx) \in Nat
    BY <1>3, LenProperties DEF Laid, Indexed
  <2>2. Len(idx) \in 0 .. Len(idx)
    BY <2>1
  <2> QED
    BY <1>3, <2>1, <2>2, AfterIs DEF Laid, Room
<1>6. Epoch' \in 0 .. Wrap - 1 /\ (EpochOK(Len(idx)))'
  <2>1. /\ Wrap \in Nat \ {0} /\ Wrap > MaxBlocks + 1 /\ MaxBlocks \in Nat
        /\ added \in 0 .. MaxBlocks
    BY StoreFacts
  <2>2. Len(idx) < Wrap
    BY <1>4, <1>5, <2>1
  <2>3. CASE Len(idx) = 0
    <3>1. Len(idx) + Wrap - 1 = Wrap - 1 /\ Wrap - 1 \in Nat /\ Wrap - 1 < Wrap
      BY <2>1, <2>3
    <3>2. Epoch' = Wrap - 1
      BY <1>2, <1>3, <2>1, <3>1, Remainder
    <3> QED
      BY <2>1, <2>3, <3>2 DEF EpochOK
  <2>4. CASE Len(idx) # 0
    <3>1. PICK v : v = Len(idx) - 1
      OBVIOUS
    <3>2. v \in Nat /\ v < Wrap /\ Len(idx) + Wrap - 1 = v + Wrap
      BY <1>5, <2>1, <2>2, <2>4, <3>1
    <3>3. Epoch' = v
      BY <1>2, <1>3, <2>1, <3>2, Remainder
    <3> QED
      BY <1>5, <2>1, <3>1, <3>2, <3>3 DEF EpochOK
  <2> QED
    BY <2>3, <2>4
<1>7. StoreTypeOK'
  BY <1>2, <1>3, <1>5, <1>6, StoreFacts DEF StoreTypeOK, Store, Bytes, Places
<1>8. AddingOK' /\ Len(stores') > 0
  BY <1>2, <1>4, StoreFacts DEF AddingOK
<1>9. Layout(idx, size)'
  <2>1. Counted(idx)' = Len(idx)
    BY <1>2, <1>4 DEF Counted
  <2>2. KeptOK(idx)'
    BY <1>2, <1>4, <2>1 DEF KeptOK
  <2>3. InMemory(idx, size)'
    BY <1>2, <1>3, <1>4 DEF InMemory
  <2> QED
    BY <1>2, <1>3, <1>4, <1>6, <2>1, <2>2, <2>3 DEF Layout
<1> QED
  BY <1>7, <1>8, <1>9 DEF StoreInv

(* A step of a transmission leaves the store as it is. *)
LEMMA StoreStays ==
  ASSUME StoreInv, UNCHANGED storeVars
  PROVE  StoreInv'
<1>1. /\ up' = up /\ stores' = stores /\ blocks' = blocks /\ currentSize' = currentSize
      /\ Epoch' = Epoch /\ adding' = adding /\ added' = added /\ kept' = kept
  BY DEF storeVars
<1>2. PICK idx, size : Layout(idx, size)
  BY DEF StoreInv
<1>3. StoreTypeOK' /\ AddingOK' /\ Len(stores') > 0
  BY <1>1 DEF StoreInv, StoreTypeOK, AddingOK
<1>4. Layout(idx, size)'
  BY <1>1, <1>2 DEF Layout, KeptOK, Counted, EpochOK, InMemory, New
<1> QED
  BY <1>3, <1>4 DEF StoreInv

(* What follows from the invariant. *)
LEMMA StoreInvRebuildable ==
  ASSUME StoreInv
  PROVE  Rebuildable
<1>1. PICK idx, size : Layout(idx, size)
  BY DEF StoreInv
<1>2. Scanned = idx /\ ScannedSize = size
  BY <1>1, StoreFacts, ScannedLaid DEF Layout
<1>3. up /\ adding = NoAdd => blocks = idx /\ currentSize = size
  BY <1>1 DEF Layout, InMemory, NoAdd
<1> QED
  BY <1>2, <1>3 DEF Rebuildable

(* A block that is kept is in the index of a store that is up. *)
LEMMA StoreInvDurable ==
  ASSUME StoreInv
  PROVE  Durable
<1>1. PICK idx, size : Layout(idx, size)
  BY DEF StoreInv
<1> SUFFICES ASSUME up, NEW b \in kept
             PROVE  GetBlock(b.place) = Payload(b.block, b.size)
  BY DEF Durable
<1>2. /\ b.place \in Nat /\ b.place + 1 \in 1 .. Len(idx) /\ Holds(stores, idx, b)
      /\ Len(idx) \in Nat
  BY <1>1, KeptPlace
<1>3. idx \in Seq(Places)
  BY <1>1 DEF Layout, Laid, Indexed
<1>4. b.place < Len(blocks) /\ blocks[b.place + 1] = idx[b.place + 1]
  <2>1. CASE adding.step = "write"
    <3>1. blocks = Append(idx, New)
      BY <1>1, <2>1 DEF Layout, InMemory
    <3>2. New \in Places
      BY <3>1, StoreFacts DEF New, BlockIndex, Places
    <3>3. Len(blocks) = Len(idx) + 1 /\ blocks[b.place + 1] = idx[b.place + 1]
      BY <1>2, <1>3, <3>1, <3>2, AddedIs
    <3> QED
      BY <1>2, <3>3
  <2>2. CASE adding.step # "write"
    <3>1. adding.step \in {"none", "write", "count"}
      BY StoreFacts
    <3>2. blocks = idx
      BY <1>1, <2>2, <3>1 DEF Layout, InMemory
    <3> QED
      BY <1>2, <3>2
  <2> QED
    BY <2>1, <2>2
<1> QED
  BY <1>2, <1>4 DEF GetBlock, Holds

(* Every step of the store keeps the invariant, and no step forgets a      *)
(* block.                                                                  *)
LEMMA StoreNextKeeps ==
  ASSUME StoreInv, StoreNext
  PROVE  StoreInv' /\ kept \subseteq kept'
<1>1. CASE \E size \in Sizes : IndexBlock(size)
  BY <1>1, IndexBlockKeeps DEF IndexBlock
<1>2. CASE WriteBlock
  BY <1>2, WriteBlockKeeps DEF WriteBlock
<1>3. CASE CountBlock
  BY <1>3, CountBlockKeeps DEF CountBlock
<1>4. CASE Crash
  BY <1>4, CrashKeeps DEF Crash
<1>5. CASE OpenBlockStore
  BY <1>5, OpenKeeps DEF OpenBlockStore
<1> QED
  BY <1>1, <1>2, <1>3, <1>4, <1>5 DEF StoreNext, AddBlock

(* What a transmission reads is bytes. *)
LEMMA GetBlockIs ==
  ASSUME StoreInv, up, NEW n \in Nat
  PROVE  GetBlock(n) \in Seq(Bytes)
<1>1. CASE ~ (n < Len(blocks))
  BY <1>1, EmptySeq DEF GetBlock
<1>2. CASE n < Len(blocks)
  <2>1. PICK idx, size : Layout(idx, size)
    BY DEF StoreInv
  <2>2. Laid(stores, idx, size) /\ idx \in Seq(Places) /\ Len(idx) \in Nat
    BY <2>1, LenProperties DEF Layout, Laid, Indexed
  <2>3. n + 1 \in 1 .. Len(blocks) /\ blocks[n + 1] \in Places
    BY SMTT(20), <1>2, LenProperties, StoreFacts
  <2>4. blocks[n + 1].StoreNum \in 1 .. Len(stores)
    <3>1. \A m \in 1 .. Len(idx) : idx[m].StoreNum \in 1 .. Len(stores)
      BY <2>2 DEF Laid, Indexed
    <3>2. CASE blocks = idx
      BY <2>3, <3>1, <3>2
    <3>3. CASE blocks = Append(idx, New)
      <4>1. New \in Places /\ New.StoreNum = Len(stores) /\ Len(stores) \in 1 .. Len(stores)
        BY StoreFacts DEF New, BlockIndex, Places
      <4>2. /\ Len(blocks) = Len(idx) + 1 /\ blocks[Len(idx) + 1] = New
            /\ \A m \in 1 .. Len(idx) : blocks[m] = idx[m]
        BY <2>2, <3>3, <4>1, AddedIs
      <4>3. n + 1 = Len(idx) + 1 \/ n + 1 \in 1 .. Len(idx)
        BY <2>2, <2>3, <4>2
      <4> QED
        BY <3>1, <4>1, <4>2, <4>3
    <3>4. blocks = idx \/ blocks = Append(idx, New)
      <4>1. adding.step \in {"none", "write", "count"}
        BY StoreFacts
      <4> QED
        BY <2>1, <4>1 DEF Layout, InMemory
    <3> QED
      BY <3>2, <3>3, <3>4
  <2>5. PICK e : e = blocks[n + 1]
    OBVIOUS
  <2>6. e.Offset \in Nat /\ e.Size \in Nat /\ stores[e.StoreNum] \in Store
    <3>1. e \in Places /\ e.StoreNum \in 1 .. Len(stores)
      BY <2>3, <2>4, <2>5
    <3>2. stores \in Seq(Store)
      BY StoreFacts
    <3> QED
      BY <3>1, <3>2 DEF Places
  <2>7. ReadAt(stores[e.StoreNum], e.Offset, e.Size) \in Seq(Bytes)
    BY <2>6, ReadIs
  <2> QED
    BY <1>2, <2>5, <2>7 DEF GetBlock
<1> QED
  BY <1>1, <1>2

-----------------------------------------------------------------------------
(* The inductive invariant of the transmissions. *)
Messages == [epoch : 0 .. Wrap - 1, bytes : Seq(Bytes)]

TransferTyped ==
  /\ client \in {"none", "asking", "receiving"}
  /\ want \in [epoch : 0 .. MaxBlocks + 1, ended : BOOLEAN]
  /\ sending \in {"off", "waiting", "loop"}
  /\ last \in 0 .. Wrap - 1 /\ start \in 0 .. Wrap - 1 /\ next \in 0 .. Wrap - 1
  /\ sent \in Seq(Messages)
  /\ ending \in {"none", "all", "nothing", "broken"}
  /\ dialled \in 0 .. Dials

(* What is sent comes before what is sent next, ... *)
SentOK ==
  /\ sending = "waiting" => sent = << >>
  /\ sending # "off" => ending = "none"
  /\ sending = "loop" /\ last # Wrap - 1 =>
       \A m \in 1 .. Len(sent) : sent[m].epoch < next

(* ... and every block that was there when the transmission began is of an *)
(* epoch that it reaches.                                                  *)
DueOK ==
  /\ due \subseteq kept
  /\ \A b \in due : b.place \in Nat /\ b.place <= last

TransferInv == StoreInv /\ TransferTyped /\ SentOK /\ DueOK /\ TransferFaithful

(* The three parts of what a client is promised. *)
InOrder ==
  \A i, j \in DOMAIN sent : i < j /\ last # Wrap - 1 => sent[i].epoch < sent[j].epoch

Whole ==
  \A b \in due, m \in DOMAIN sent :
    sent[m].epoch = b.place => sent[m].bytes = Payload(b.block, b.size)

Complete ==
  \A b \in due :
    b.place \in start .. next - 1 \/ (ending = "all" /\ b.place >= start) =>
      \E m \in DOMAIN sent : sent[m].epoch = b.place

(* TransferFaithful in its three parts. *)
LEMMA Parts ==
  TransferFaithful <=> InOrder /\ Whole /\ Complete
BY DEF TransferFaithful, InOrder, Whole, Complete

(* The same after a step. *)
LEMMA PartsNext ==
  TransferFaithful' <=> InOrder' /\ Whole' /\ Complete'
BY DEF TransferFaithful, InOrder, Whole, Complete

(* No transmission has begun. *)
LEMMA TransferInitInv ==
  TransferInit => TransferInv
<1> SUFFICES ASSUME TransferInit
             PROVE  TransferInv
  OBVIOUS
<1> USE DEF TransferInit
<1>1. StoreInv
  BY StoreInitInv
<1>2. TransferTyped
  <2>1. 0 \in 0 .. Wrap - 1 /\ 0 \in 0 .. Dials /\ << >> \in Seq(Messages)
    BY StoreAssumption, TransferAssumption, EmptySeq
  <2>2. Idle \in [epoch : 0 .. MaxBlocks + 1, ended : BOOLEAN]
    BY StoreAssumption DEF Idle
  <2> QED
    BY <2>1, <2>2 DEF TransferTyped
<1>3. SentOK
  BY DEF SentOK
<1>4. DueOK /\ TransferFaithful
  BY EmptySeq DEF DueOK, TransferFaithful
<1> QED
  BY <1>1, <1>2, <1>3, <1>4 DEF TransferInv

(* The store goes on: a transmission still holds what it held. *)
LEMMA TransferStays ==
  ASSUME TransferInv, StoreInv', kept \subseteq kept', UNCHANGED transferVars
  PROVE  TransferInv'
<1>1. /\ client' = client /\ want' = want /\ sending' = sending /\ last' = last
      /\ start' = start /\ next' = next /\ sent' = sent /\ ending' = ending
      /\ due' = due /\ dialled' = dialled
  BY DEF transferVars
<1>2. TransferTyped' /\ SentOK'
  BY <1>1 DEF TransferInv, TransferTyped, SentOK
<1>3. DueOK' /\ TransferFaithful'
  BY <1>1 DEF TransferInv, DueOK, TransferFaithful
<1> QED
  BY <1>2, <1>3 DEF TransferInv

(* The transmission ends. *)
LEMMA LeaveKeeps ==
  ASSUME TransferInv, StoreInv', kept \subseteq kept', NEW how \in {"nothing", "broken"},
         Leave(how), start' = start, next' = next, sending # "off"
  PROVE  TransferInv'
<1>1. /\ sending' = "off" /\ ending' = how /\ client' = "none" /\ want' = Idle
      /\ last' = last /\ sent' = sent /\ due' = due /\ dialled' = dialled
  BY DEF Leave
<1>2. TransferTyped'
  <2>1. Idle \in [epoch : 0 .. MaxBlocks + 1, ended : BOOLEAN]
    BY StoreAssumption DEF Idle
  <2> QED
    BY <1>1, <2>1 DEF TransferInv, TransferTyped
<1>3. SentOK' /\ DueOK'
  BY <1>1 DEF TransferInv, SentOK, DueOK
<1>4. TransferFaithful'
  BY <1>1 DEF TransferInv, TransferFaithful
<1> QED
  BY <1>2, <1>3, <1>4 DEF TransferInv

(* A client connects. *)
LEMMA ConnectKeeps ==
  ASSUME TransferInv, NEW kind \in {"asking", "receiving"}, NEW e \in 0 .. MaxBlocks + 1,
         Connect(kind, e)
  PROVE  TransferInv'
<1>1. /\ sending = "off" /\ dialled < Dials /\ up
      /\ want' = Idle \/ want' = Wants(e)
      /\ client' = kind /\ sending' = "waiting" /\ ending' = "none" /\ last' = Epoch
      /\ start' = 0 /\ next' = 0 /\ sent' = << >> /\ due' = kept /\ dialled' = dialled + 1
      /\ UNCHANGED storeVars
  BY DEF Connect
<1>2. StoreInv /\ StoreInv' /\ kept' = kept
  BY <1>1, StoreStays DEF TransferInv, storeVars
<1>3. TransferTyped'
  <2>1. want' \in [epoch : 0 .. MaxBlocks + 1, ended : BOOLEAN]
    <3>1. 0 \in 0 .. MaxBlocks + 1
      BY StoreAssumption
    <3>2. (Epoch < e) \in BOOLEAN
      OBVIOUS
    <3>3. Wants(e) \in [epoch : 0 .. MaxBlocks + 1, ended : BOOLEAN]
      BY <3>2 DEF Wants
    <3>4. Idle \in [epoch : 0 .. MaxBlocks + 1, ended : BOOLEAN]
      BY <3>1 DEF Idle
    <3> QED
      BY <1>1, <3>3, <3>4
  <2>2. /\ 0 \in 0 .. Wrap - 1 /\ Epoch \in 0 .. Wrap - 1 /\ << >> \in Seq(Messages)
        /\ dialled + 1 \in 0 .. Dials
    BY <1>1, <1>2, StoreFacts, StoreAssumption, TransferAssumption, EmptySeq
       DEF TransferInv, TransferTyped
  <2> QED
    BY <1>1, <2>1, <2>2 DEF TransferTyped
<1>4. SentOK'
  BY <1>1 DEF SentOK
<1>5. DueOK'
  <2>1. ASSUME NEW b \in kept
        PROVE  b.place \in Nat /\ b.place <= Epoch
    <3>1. PICK idx, size : Layout(idx, size)
      BY <1>2 DEF StoreInv
    <3>2. b.place \in Nat /\ b.place + 1 \in 1 .. Counted(idx) /\ Counted(idx) \in Nat
      BY <1>2, <3>1, KeptPlace
    <3>3. EpochOK(Counted(idx)) /\ Epoch \in 0 .. Wrap - 1 /\ Wrap \in Nat
      BY <1>1, <1>2, <3>1, StoreFacts DEF Layout
    <3>4. Counted(idx) # 0
      BY <3>2
    <3>5. Epoch = Counted(idx) \/ Epoch + 1 = Counted(idx)
      BY <3>3, <3>4 DEF EpochOK
    <3> QED
      BY <3>2, <3>3, <3>5
  <2> QED
    BY <1>1, <1>2, <2>1 DEF DueOK
<1>6. InOrder' /\ Whole' /\ Complete'
  <2>1. DOMAIN sent' = {}
    BY <1>1, EmptySeq
  <2>2. start' .. next' - 1 = {}
    BY <1>1
  <2> QED
    BY <1>1, <2>1, <2>2 DEF InOrder, Whole, Complete
<1> QED
  BY <1>2, <1>3, <1>4, <1>5, <1>6, PartsNext DEF TransferInv

(* The provider reads from which epoch the client wants blocks. *)
LEMMA ReadStartKeeps ==
  ASSUME TransferInv, NEW e \in 0 .. MaxBlocks + 1, ReadStart(e)
  PROVE  TransferInv'
<1>1. UNCHANGED storeVars /\ sending = "waiting"
  BY DEF ReadStart
<1>2. StoreInv /\ StoreInv' /\ kept' = kept
  BY <1>1, StoreStays DEF TransferInv, storeVars
<1>3. CASE e > last /\ Leave("nothing") /\ start' = start /\ next' = next
  BY <1>1, <1>2, <1>3, LeaveKeeps
<1>4. CASE /\ e <= last /\ start' = (IF e = 0 THEN 1 ELSE e) /\ next' = start'
           /\ sending' = "loop"
           /\ client' = client /\ want' = want /\ last' = last /\ sent' = sent
           /\ ending' = ending /\ due' = due /\ dialled' = dialled
  <2>1. start' \in 0 .. Wrap - 1
    BY <1>4, StoreAssumption DEF TransferInv, TransferTyped
  <2>2. TransferTyped'
    BY <1>4, <2>1 DEF TransferInv, TransferTyped
  <2>3. sent = << >> /\ ending = "none" /\ Len(sent) = 0 /\ DOMAIN sent = {}
    BY <1>1, EmptySeq DEF TransferInv, SentOK
  <2>4. SentOK' /\ DueOK'
    BY <1>2, <1>4, <2>3 DEF TransferInv, SentOK, DueOK
  <2>5. InOrder' /\ Whole' /\ Complete'
    <3>1. start' .. next' - 1 = {}
      BY <1>4, <2>1
    <3> QED
      BY <1>4, <2>3, <3>1 DEF InOrder, Whole, Complete
  <2> QED
    BY <1>2, <2>2, <2>4, <2>5, PartsNext DEF TransferInv
<1> QED
  BY <1>3, <1>4 DEF ReadStart

(* The provider sends one block, or breaks off. *)
LEMMA SendBlockKeeps ==
  ASSUME TransferInv, SendBlock
  PROVE  TransferInv'
<1> DEFINE m0 == [epoch |-> next, bytes |-> GetBlock(next)]
<1>1. /\ up /\ sending = "loop" /\ next <= last
      /\ IF GetBlock(next) # << >> \/ next = last
           THEN sent' = Append(sent, m0)
           ELSE sent' = sent
      /\ next' = (next + 1) % Wrap
      /\ UNCHANGED storeVars
      /\ client' = client /\ want' = want /\ sending' = sending /\ last' = last
      /\ start' = start /\ ending' = ending /\ due' = due /\ dialled' = dialled
  BY DEF SendBlock, More
<1>2. StoreInv /\ StoreInv' /\ kept' = kept
  BY <1>1, StoreStays DEF TransferInv, storeVars
<1>3. /\ next \in 0 .. Wrap - 1 /\ last \in 0 .. Wrap - 1 /\ start \in 0 .. Wrap - 1
      /\ sent \in Seq(Messages) /\ Wrap \in Nat \ {0} /\ Len(sent) \in Nat
      /\ DOMAIN sent = 1 .. Len(sent) /\ \A m \in 1 .. Len(sent) : sent[m].epoch \in Nat
  <2>1. /\ next \in 0 .. Wrap - 1 /\ last \in 0 .. Wrap - 1 /\ start \in 0 .. Wrap - 1
        /\ sent \in Seq(Messages) /\ Wrap \in Nat \ {0}
    BY StoreAssumption DEF TransferInv, TransferTyped
  <2>2. \A m \in 1 .. Len(sent) : sent[m] \in Messages
    BY <2>1, LenProperties
  <2> QED
    BY <2>1, <2>2, LenProperties DEF Messages
<1>4. m0 \in Messages
  <2>1. GetBlock(next) \in Seq(Bytes)
    BY <1>1, <1>2, <1>3, GetBlockIs
  <2> QED
    BY <1>3, <2>1 DEF Messages
<1>5. m0.epoch = next /\ m0.bytes = GetBlock(next)
  OBVIOUS
<1> HIDE DEF m0
<1>6. /\ sent' \in Seq(Messages) /\ DOMAIN sent' = 1 .. Len(sent') /\ Len(sent') \in Nat
      /\ \A m \in 1 .. Len(sent) : m \in 1 .. Len(sent') /\ sent'[m] = sent[m]
      /\ \A m \in 1 .. Len(sent') :
           m \in 1 .. Len(sent) \/ (m = Len(sent) + 1 /\ sent'[m] = m0)
      /\ GetBlock(next) # << >> => \E m \in 1 .. Len(sent') : sent'[m] = m0
  <2>1. CASE sent' = Append(sent, m0)
    <3>1. /\ sent' \in Seq(Messages) /\ Len(sent') = Len(sent) + 1
          /\ \A m \in 1 .. Len(sent) : sent'[m] = sent[m]
          /\ sent'[Len(sent) + 1] = m0
      BY <1>3, <1>4, <2>1, AddedIs
    <3>2. /\ \A m \in 1 .. Len(sent) + 1 : m \in 1 .. Len(sent) \/ m = Len(sent) + 1
          /\ \A m \in 1 .. Len(sent) : m \in 1 .. Len(sent) + 1
          /\ Len(sent) + 1 \in 1 .. Len(sent) + 1
      BY <1>3
    <3> QED
      BY <3>1, <3>2, LenProperties
  <2>2. CASE sent' = sent /\ GetBlock(next) = << >>
    BY <1>3, <2>2
  <2> QED
    BY <1>1, <2>1, <2>2
<1>7. next' \in 0 .. Wrap - 1 /\ (next' = next + 1 \/ (next' = 0 /\ next = Wrap - 1))
  <2>1. CASE next + 1 < Wrap
    <3>1. next + 1 \in Nat /\ next + 1 \in 0 .. Wrap - 1
      BY <1>3, <2>1
    <3>2. next' = next + 1
      BY <1>1, <1>3, <2>1, <3>1, Remainder
    <3> QED
      BY <3>1, <3>2
  <2>2. CASE ~ (next + 1 < Wrap)
    <3>1. next + 1 = Wrap /\ 0 < Wrap
      BY <1>3, <2>2
    <3>2. next' = 0
      BY <1>1, <1>3, <3>1, Remainder
    <3> QED
      BY <1>3, <3>1, <3>2
  <2> QED
    BY <2>1, <2>2
<1>8. TransferTyped'
  BY Zenon, <1>1, <1>3, <1>6, <1>7 DEF TransferInv, TransferTyped
<1>9. DueOK'
  BY <1>1, <1>2 DEF TransferInv, DueOK
<1>10. \A m \in 1 .. Len(sent') :
         m \in 1 .. Len(sent) \/ (m = Len(sent) + 1 /\ sent'[m] = m0)
  BY <1>6
<1>11. last # Wrap - 1 => \A m \in 1 .. Len(sent) : sent[m].epoch < next
  BY <1>1 DEF TransferInv, SentOK
<1>12. SentOK'
  <2>1. ASSUME last # Wrap - 1, NEW m \in 1 .. Len(sent')
        PROVE  sent'[m].epoch < next'
    <3>1. next' = next + 1
      BY <1>1, <1>3, <1>7, <2>1
    <3>2. CASE m \in 1 .. Len(sent)
      <4>1. sent'[m] = sent[m] /\ sent[m].epoch \in Nat /\ sent[m].epoch < next
        BY <1>3, <1>6, <1>11, <2>1, <3>2
      <4>2. next \in Nat
        BY <1>3
      <4> QED
        BY <3>1, <4>1, <4>2
    <3>3. CASE sent'[m] = m0
      BY <1>3, <1>5, <3>1, <3>3
    <3> QED
      BY <1>10, <3>2, <3>3
  <2>2. ending' = "none"
    BY <1>1 DEF TransferInv, SentOK
  <2> QED
    BY <1>1, <2>1, <2>2 DEF SentOK
<1>13. InOrder'
  <2>1. ASSUME last # Wrap - 1, NEW i \in 1 .. Len(sent'), NEW j \in 1 .. Len(sent'), i < j
        PROVE  sent'[i].epoch < sent'[j].epoch
    <3>1. i \in 1 .. Len(sent)
      <4>1. j <= Len(sent) + 1 /\ Len(sent) \in Nat /\ i \in Nat /\ i >= 1 /\ j \in Nat
        BY <1>3, <1>10
      <4> QED
        BY <2>1, <4>1
    <3>2. CASE j \in 1 .. Len(sent)
      <4>1. sent[i].epoch < sent[j].epoch
        BY <1>3, <2>1, <3>1, <3>2, Parts DEF TransferInv, InOrder
      <4> QED
        BY <1>6, <3>1, <3>2, <4>1
    <3>3. CASE sent'[j] = m0
      BY <1>5, <1>6, <1>11, <2>1, <3>1, <3>3
    <3> QED
      BY <1>10, <3>2, <3>3
  <2> QED
    BY Zenon, <1>1, <1>6, <2>1 DEF InOrder
<1>14. \A b \in due : b.place \in Nat /\ b.place <= last
         /\ GetBlock(b.place) = Payload(b.block, b.size) /\ Payload(b.block, b.size) # << >>
  <2>1. ASSUME NEW b \in due
        PROVE  b.place \in Nat /\ b.place <= last
               /\ GetBlock(b.place) = Payload(b.block, b.size) /\ Payload(b.block, b.size) # << >>
    <3>1. b \in kept /\ b.place \in Nat /\ b.place <= last
      BY DEF TransferInv, DueOK
    <3>2. Durable
      BY <1>2, StoreInvDurable
    <3>3. GetBlock(b.place) = Payload(b.block, b.size)
      BY <1>1, <3>1, <3>2 DEF Durable
    <3>4. b.block \in 1 .. MaxBlocks /\ b.size \in Sizes
      BY <1>2, <3>1, StoreFacts
    <3>5. Len(Payload(b.block, b.size)) # 0
      <4>1. b.block \in 0 .. MaxBlocks
        BY <3>4
      <4>2. b.size \in Nat /\ b.size # 0
        BY <3>4, SizesAre
      <4> QED
        BY <4>1, <4>2, RecordIs
    <3>6. Payload(b.block, b.size) # << >>
      BY <3>5, EmptySeq
    <3> QED
      BY <3>1, <3>3, <3>6
  <2> QED
    BY <2>1
<1>15. Whole'
  <2>1. ASSUME NEW b \in due, NEW m \in 1 .. Len(sent'), sent'[m].epoch = b.place
        PROVE  sent'[m].bytes = Payload(b.block, b.size)
    <3>1. CASE m \in 1 .. Len(sent)
      <4>1. sent'[m] = sent[m]
        BY <1>6, <3>1
      <4>2. sent[m].epoch = b.place => sent[m].bytes = Payload(b.block, b.size)
        BY <1>3, <3>1, Parts DEF TransferInv, Whole
      <4> QED
        BY <2>1, <4>1, <4>2
    <3>2. CASE sent'[m] = m0
      BY <1>5, <1>14, <2>1, <3>2
    <3> QED
      BY <1>10, <3>1, <3>2
  <2> QED
    BY Zenon, <1>1, <1>6, <2>1 DEF Whole
<1>16. Complete'
  <2>1. ASSUME NEW b \in due, b.place \in start .. next' - 1 \/ (ending = "all" /\ b.place >= start)
        PROVE  \E m \in 1 .. Len(sent') : sent'[m].epoch = b.place
    <3>1. b.place \in Nat
      BY <1>14
    <3>2. CASE b.place \in start .. next - 1 \/ (ending = "all" /\ b.place >= start)
      <4>1. PICK m \in 1 .. Len(sent) : sent[m].epoch = b.place
        BY <1>3, <3>2, Parts DEF TransferInv, Complete
      <4>2. m \in 1 .. Len(sent') /\ sent'[m] = sent[m]
        BY <1>6
      <4> QED
        BY <4>1, <4>2
    <3>3. CASE b.place = next
      <4>1. GetBlock(next) # << >>
        BY <1>14, <3>3
      <4>2. \E m \in 1 .. Len(sent') : sent'[m] = m0
        BY <1>6, <4>1
      <4> QED
        BY <1>5, <3>3, <4>2
    <3>4. b.place \in start .. next' - 1 => b.place \in start .. next - 1 \/ b.place = next
      BY <1>3, <1>7, <3>1
    <3> QED
      BY <2>1, <3>2, <3>3, <3>4
  <2> QED
    BY Zenon, <1>1, <1>6, <2>1 DEF Complete
<1> QED
  BY <1>2, <1>8, <1>9, <1>12, <1>13, <1>15, <1>16, PartsNext DEF TransferInv

(* The provider has sent all it wanted to send. *)
LEMMA EndKeeps ==
  ASSUME TransferInv, EndTransmission
  PROVE  TransferInv'
<1>1. /\ sending = "loop" /\ ~ (next <= last)
      /\ sending' = "off" /\ ending' = "all" /\ client' = "none" /\ want' = Idle
      /\ last' = last /\ sent' = sent /\ due' = due /\ dialled' = dialled
      /\ UNCHANGED storeVars /\ start' = start /\ next' = next
  BY DEF EndTransmission, More, Leave
<1>2. StoreInv /\ StoreInv' /\ kept' = kept
  BY <1>1, StoreStays DEF TransferInv, storeVars
<1>3. TransferTyped'
  <2>1. Idle \in [epoch : 0 .. MaxBlocks + 1, ended : BOOLEAN]
    BY StoreAssumption DEF Idle
  <2> QED
    BY <1>1, <2>1 DEF TransferInv, TransferTyped
<1>4. SentOK' /\ DueOK'
  BY <1>1, <1>2 DEF TransferInv, SentOK, DueOK
<1>5. InOrder' /\ Whole'
  BY <1>1, Parts DEF TransferInv, InOrder, Whole
<1>6. Complete'
  <2>1. ASSUME NEW b \in due, b.place \in start .. next - 1 \/ b.place >= start
        PROVE  \E m \in DOMAIN sent : sent[m].epoch = b.place
    <3>1. b.place \in Nat /\ b.place <= last
      BY DEF TransferInv, DueOK
    <3>2. next \in Nat /\ last \in Nat /\ start \in Nat
      BY StoreAssumption DEF TransferInv, TransferTyped
    <3>3. b.place \in start .. next - 1
      BY <1>1, <2>1, <3>1, <3>2
    <3> QED
      BY <3>3, Parts DEF TransferInv, Complete
  <2> QED
    BY <1>1, <2>1 DEF Complete
<1> QED
  BY <1>2, <1>3, <1>4, <1>5, <1>6, PartsNext DEF TransferInv

(* Every step keeps the invariant. *)
LEMMA TransferNextKeeps ==
  ASSUME TransferInv, [TransferNext]_providerVars
  PROVE  TransferInv'
<1>0. StoreInv
  BY DEF TransferInv
<1>1. CASE (AddBlock \/ OpenBlockStore) /\ UNCHANGED transferVars
  BY <1>0, <1>1, StoreNextKeeps, TransferStays DEF StoreNext
<1>2. CASE Crash /\ IF sending = "off" THEN UNCHANGED transferVars
                    ELSE Leave("broken") /\ UNCHANGED <<start, next>>
  <2>1. StoreInv' /\ kept \subseteq kept'
    BY <1>0, <1>2, StoreNextKeeps DEF StoreNext
  <2>2. CASE sending = "off"
    BY <1>2, <2>1, <2>2, TransferStays
  <2>3. CASE sending # "off"
    BY <1>2, <2>1, <2>3, LeaveKeeps
  <2> QED
    BY <2>2, <2>3
<1>3. CASE \E kind \in {"asking", "receiving"}, e \in 0 .. MaxBlocks + 1 : Connect(kind, e)
  BY <1>3, ConnectKeeps
<1>4. CASE \E e \in 0 .. MaxBlocks + 1 : ReadStart(e)
  BY <1>4, ReadStartKeeps
<1>5. CASE SendBlock
  BY <1>5, SendBlockKeeps
<1>6. CASE EndTransmission
  BY <1>6, EndKeeps
<1>7. CASE Disconnect
  <2>1. /\ sending # "off" /\ Leave("broken") /\ UNCHANGED storeVars
        /\ start' = start /\ next' = next
    BY <1>7 DEF Disconnect
  <2>2. StoreInv' /\ kept \subseteq kept'
    BY <1>0, <2>1, StoreStays DEF storeVars
  <2> QED
    BY <2>1, <2>2, LeaveKeeps
<1>8. CASE UNCHANGED providerVars
  <2>1. UNCHANGED storeVars /\ UNCHANGED transferVars
    BY <1>8 DEF providerVars
  <2>2. StoreInv' /\ kept \subseteq kept'
    BY <1>0, <2>1, StoreStays DEF storeVars
  <2> QED
    BY <2>1, <2>2, TransferStays
<1> QED
  BY <1>1, <1>2, <1>3, <1>4, <1>5, <1>6, <1>7, <1>8 DEF TransferNext, StoreStep, Transmit

(* The invariant holds of every behaviour of store and provider. *)
LEMMA TransferAlways ==
  TransferSpec => []TransferInv
<1>1. TransferInit => TransferInv
  BY TransferInitInv
<1>2. TransferInv /\ [TransferNext]_providerVars => TransferInv'
  BY TransferNextKeeps
<1> QED
  BY <1>1, <1>2, PTL DEF TransferSpec

(* The variables of the provider and of the store have their types. *)
THEOREM TransferTypeCorrect ==
  TransferSpec => []TransferTypeOK
<1>1. TransferInv => TransferTypeOK
  <2> SUFFICES ASSUME TransferInv
               PROVE  TransferTypeOK
    OBVIOUS
  <2>1. \A m \in DOMAIN sent : sent[m].epoch \in 0 .. Wrap - 1
    <3>1. \A m \in DOMAIN sent : sent[m] \in Messages
      BY LenProperties DEF TransferInv, TransferTyped
    <3> QED
      BY <3>1 DEF Messages
  <2> QED
    BY <2>1 DEF TransferInv, StoreInv, TransferTyped, DueOK, TransferTypeOK
<1> QED
  BY <1>1, TransferAlways, PTL

(* Every block whose AddBlock returned, before or after any number of      *)
(* crashes and openings, is read at its epoch with its own bytes while the *)
(* store is up (AddBlock, OpenBlockStore and GetBlock of blocks/store.go). *)
THEOREM DurableCorrect ==
  TransferSpec => []Durable
<1>1. TransferInv => Durable
  BY StoreInvDurable DEF TransferInv
<1> QED
  BY <1>1, TransferAlways, PTL

(* While no AddBlock is under way, the scan of OpenBlockStore would find   *)
(* the index and the room that are in memory: a restart changes nothing.   *)
THEOREM RebuildableCorrect ==
  TransferSpec => []Rebuildable
<1>1. TransferInv => Rebuildable
  BY StoreInvRebuildable DEF TransferInv
<1> QED
  BY <1>1, TransferAlways, PTL

(* A transmission sends blocks in increasing order of their epochs, each   *)
(* with its own bytes, and every block that was there when it began and    *)
(* that it has passed (SendBlocks of the block provider), over crashes and *)
(* new blocks.                                                             *)
THEOREM TransferFaithfulCorrect ==
  TransferSpec => []TransferFaithful
<1>1. TransferInv => TransferFaithful
  BY DEF TransferInv
<1> QED
  BY <1>1, TransferAlways, PTL

-----------------------------------------------------------------------------
(* How far a transmission goes, and for whom. *)

(* The Epoch of a store that runs is that of an empty opened store, or at  *)
(* most the number of blocks that were added.                              *)
LEMMA EpochBounded ==
  ASSUME StoreInv, up
  PROVE  Epoch # Wrap - 1 => Epoch <= MaxBlocks
<1>1. PICK idx, size : Layout(idx, size)
  BY DEF StoreInv
<1>2. EpochOK(Counted(idx))
  BY <1>1 DEF Layout
<1>3. Len(idx) <= added
  BY <1>1, StoreFacts DEF Layout
<1>4. Len(idx) \in Nat
  BY <1>1, LenProperties DEF Layout, Laid, Indexed
<1>5. /\ added \in 0 .. MaxBlocks /\ MaxBlocks \in Nat
      /\ Epoch \in 0 .. Wrap - 1 /\ Wrap \in Nat
  BY StoreFacts, StoreAssumption
<1>6. Counted(idx) \in Int /\ Counted(idx) <= Len(idx)
  BY <1>4 DEF Counted
<1>7. Epoch = Counted(idx) \/ Epoch + 1 = Counted(idx) \/ Epoch = Wrap - 1
  BY <1>2 DEF EpochOK
<1> QED
  BY <1>3, <1>4, <1>5, <1>6, <1>7

(* The inductive invariant: from its first epoch, which is not zero, to the*)
(* next one a transmission has one message for each epoch at most.         *)
Paced ==
  /\ last # Wrap - 1 =>
       last <= MaxBlocks /\ next <= last + 1 /\ Len(sent) <= next - start
  /\ sending = "loop" => start > 0

(* Who does not ask stays at the request. *)
Served ==
  /\ client = "none" <=> sending = "off"
  /\ ReceiverWaits

LEMMA PacedInit ==
  TransferInit => Paced /\ Served
<1> SUFFICES ASSUME TransferInit
             PROVE  Paced /\ Served
  OBVIOUS
<1>1. Len(sent) = 0 /\ MaxBlocks \in Nat
  BY StoreAssumption DEF TransferInit
<1> QED
  BY <1>1 DEF TransferInit, Paced, Served, ReceiverWaits

(* The numbers that the steps compute with. *)
LEMMA PacedFacts ==
  ASSUME TransferInv
  PROVE  /\ last \in Nat /\ next \in Nat /\ start \in Nat /\ Len(sent) \in Nat
         /\ last < Wrap /\ next < Wrap /\ Wrap \in Nat /\ MaxBlocks \in Nat
BY StoreAssumption, LenProperties DEF TransferInv, TransferTyped

(* SendBlock moves on by one epoch, and adds a message at most. *)
LEMMA SendBlockPaced ==
  ASSUME TransferInv, Paced, SendBlock
  PROVE  /\ last # Wrap - 1 => next <= last /\ next' = next + 1
         /\ Len(sent') \in Nat /\ Len(sent') <= Len(sent) + 1
         /\ last' = last /\ start' = start /\ sending' = "loop" /\ sending = "loop"
         /\ client' = client
<1>1. /\ sending = "loop" /\ next <= last /\ next' = (next + 1) % Wrap
      /\ \/ sent' = Append(sent, [epoch |-> next, bytes |-> GetBlock(next)])
         \/ sent' = sent
      /\ client' = client /\ sending' = sending /\ last' = last /\ start' = start
  BY DEF SendBlock, More
<1>2. Len(sent') \in Nat /\ Len(sent') <= Len(sent) + 1
  <2>1. sent \in Seq(Messages)
    BY DEF TransferInv, TransferTyped
  <2>2. Len(Append(sent, [epoch |-> next, bytes |-> GetBlock(next)])) = Len(sent) + 1
    BY <2>1
  <2> QED
    BY <1>1, <2>2, PacedFacts
<1>3. last # Wrap - 1 => (next + 1) % Wrap = next + 1
  BY SMTT(20), <1>1, PacedFacts
<1> QED
  BY <1>1, <1>2, <1>3

LEMMA PacedStep ==
  ASSUME TransferInv, Paced, [TransferNext]_providerVars
  PROVE  Paced'
<1>1. CASE UNCHANGED transferVars
  BY <1>1 DEF Paced, transferVars
<1>2. ASSUME NEW how, Leave(how), UNCHANGED <<start, next>>
      PROVE  Paced'
  BY <1>2 DEF Paced, Leave
<1>3. CASE StoreStep
  BY <1>1, <1>2, <1>3 DEF StoreStep
<1>4. ASSUME NEW kind, NEW e, Connect(kind, e)
      PROVE  Paced'
  <2>1. /\ last' = Epoch /\ start' = 0 /\ next' = 0 /\ sent' = << >>
        /\ sending' = "waiting" /\ up
    BY <1>4 DEF Connect
  <2>2. Epoch # Wrap - 1 => Epoch <= MaxBlocks
    BY <2>1, EpochBounded DEF TransferInv
  <2>3. Epoch \in Nat
    BY StoreFacts, StoreAssumption DEF TransferInv
  <2>4. Len(<< >>) = 0
    OBVIOUS
  <2> QED
    BY <2>1, <2>2, <2>3, <2>4 DEF Paced
<1>5. ASSUME NEW e \in 0 .. MaxBlocks + 1, ReadStart(e)
      PROVE  Paced'
  <2>1. CASE Leave("nothing") /\ UNCHANGED <<start, next>>
    BY <1>2, <2>1
  <2>2. CASE /\ e <= last /\ start' = (IF e = 0 THEN 1 ELSE e) /\ next' = start'
             /\ sending' = "loop" /\ last' = last /\ sent' = sent
    <3>1. sent = << >> /\ Len(sent) = 0
      BY <1>5 DEF ReadStart, TransferInv, SentOK
    <3>2. start' > 0 /\ start' \in Nat /\ start' <= last + 1
      BY <2>2, PacedFacts
    <3> QED
      BY <2>2, <3>1, <3>2, PacedFacts DEF Paced
  <2> QED
    BY <1>5, <2>1, <2>2 DEF ReadStart
<1>6. CASE SendBlock
  <2>1. last # Wrap - 1 => next' <= last + 1 /\ Len(sent') <= next' - start
    BY <1>6, SendBlockPaced, PacedFacts DEF Paced
  <2> QED
    BY <1>6, <2>1, SendBlockPaced DEF Paced
<1>7. CASE EndTransmission
  BY <1>2, <1>7 DEF EndTransmission
<1>8. CASE Disconnect
  BY <1>2, <1>8 DEF Disconnect
<1> QED
  BY <1>1, <1>3, <1>4, <1>5, <1>6, <1>7, <1>8 DEF TransferNext, Transmit, providerVars

LEMMA ServedStep ==
  ASSUME Served, [TransferNext]_providerVars
  PROVE  Served'
<1> USE DEF Served, ReceiverWaits
<1>1. CASE UNCHANGED transferVars
  BY <1>1 DEF transferVars
<1>2. ASSUME NEW how, Leave(how)
      PROVE  Served'
  BY <1>2 DEF Leave
<1>3. CASE StoreStep
  BY <1>1, <1>2, <1>3 DEF StoreStep
<1>4. ASSUME NEW kind \in {"asking", "receiving"}, NEW e, Connect(kind, e)
      PROVE  Served'
  BY <1>4 DEF Connect
<1>5. ASSUME NEW e, ReadStart(e)
      PROVE  Served'
  BY <1>2, <1>5 DEF ReadStart
<1>6. CASE SendBlock
  BY <1>6 DEF SendBlock
<1>7. CASE EndTransmission
  BY <1>2, <1>7 DEF EndTransmission
<1>8. CASE Disconnect
  BY <1>2, <1>8 DEF Disconnect
<1> QED
  BY <1>1, <1>3, <1>4, <1>5, <1>6, <1>7, <1>8 DEF TransferNext, Transmit, providerVars

LEMMA PacedAlways == TransferSpec => [](TransferInv /\ Paced)
BY PacedInit, PacedStep, TransferInitInv, TransferNextKeeps, PTL DEF TransferSpec

(* A transmission sends at most as many messages as blocks were added, and *)
(* stops behind the last epoch that it told its client, whatever happens to*)
(* the store meanwhile.                                                    *)
THEOREM TransmissionBoundedCorrect == TransferSpec => []TransmissionBounded
<1>1. TransferInv /\ Paced => TransmissionBounded
  <2> SUFFICES ASSUME TransferInv, Paced, last # Wrap - 1
               PROVE  /\ last <= MaxBlocks /\ next <= last + 1
                      /\ Len(sent) <= next - start
                      /\ sending = "loop" /\ More => Len(sent) < MaxBlocks
    BY DEF TransmissionBounded
  <2> QED
    BY PacedFacts DEF Paced, More
<1> QED
  BY <1>1, PacedAlways, PTL

(* What is left of a transmission only shrinks while it goes on: with the  *)
(* fairness of its goroutine this is why it ends.                          *)
THEOREM TransmissionAdvancesCorrect == TransferSpec => TransmissionAdvances
<1> DEFINE Advance ==
      sending = "loop" /\ sending' = "loop" /\ last # Wrap - 1 =>
        /\ last' = last /\ start' = start
        /\ \/ next' = next /\ sent' = sent
           \/ next <= last /\ next' = next + 1
<1>1. ASSUME TransferInv, Paced, TransferNext, sending = "loop", sending' = "loop"
      PROVE  \/ SendBlock
             \/ UNCHANGED <<last, start, next, sent>>
  BY <1>1 DEF TransferNext, StoreStep, Transmit, Connect, ReadStart, EndTransmission,
              Disconnect, Leave, transferVars
<1>2. TransferInv /\ Paced /\ [TransferNext]_providerVars => [Advance]_providerVars
  BY <1>1, SendBlockPaced
<1> QED
  BY <1>2, PacedAlways, PTL DEF TransferSpec, TransmissionAdvances

(* No execution lets ReceiveBlocks get a block of a provider.              *)
THEOREM ReceiverWaitsCorrect == TransferSpec => []ReceiverWaits
<1>1. TransferInit => Served
  BY PacedInit
<1>2. Served /\ [TransferNext]_providerVars => Served'
  BY ServedStep
<1>3. Served => ReceiverWaits
  BY DEF Served
<1> QED
  BY <1>1, <1>2, <1>3, PTL DEF TransferSpec
=============================================================================
