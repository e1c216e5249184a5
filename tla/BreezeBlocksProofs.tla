------------------------- MODULE BreezeBlocksProofs -------------------------
(***************************************************************************)
(* Proofs about the breeze block store, for any number of epochs, actions  *)
(* and queries.                                                            *)
(*                                                                         *)
(* StoreInv says which list of the store has the block of which status of  *)
(* the node, and that the current block is the newest one while that is    *)
(* open: an action goes to the current block whatever block the node put it*)
(* into.  QueryInv says that a query has sent what each of the blocks that *)
(* it has read so far holds, or held when it was read.  Loop and Joined are recursive functions: by Recursion*)
(* of RecursionLemmas they exist, and UpTo is induction along them.        *)
(***************************************************************************)
EXTENDS BreezeBlocks, RecursionLemmas, FiniteSetTheorems, FunctionTheorems

-----------------------------------------------------------------------------
(* Sequences without one of their elements, or with one more. *)
LEMMA WithoutIs ==
  ASSUME NEW S, NEW s \in Seq(S), NEW n \in DOMAIN s
  PROVE  /\ Without(s, n) \in Seq(S)
         /\ Len(Without(s, n)) = Len(s) - 1
         /\ \A m \in 1 .. Len(s) - 1 :
              Without(s, n)[m] = IF m < n THEN s[m] ELSE s[m + 1]
<1> DEFINE l == Len(s)
           a == SubSeq(s, 1, n - 1)
           b == SubSeq(s, n + 1, l)
<1>1. l \in Nat /\ n \in 1 .. l /\ \A m \in 1 .. l : s[m] \in S
  BY LenProperties
<1>2. a \in Seq(S) /\ Len(a) = n - 1 /\ \A m \in 1 .. n - 1 : a[m] = s[m]
  BY <1>1
<1>3. b \in Seq(S) /\ Len(b) = l - n /\ \A m \in 1 .. l - n : b[m] = s[n + m]
  BY <1>1
<1> HIDE DEF a, b, l
<1> DEFINE c == a \o b
<1>7. /\ c \in Seq(S) /\ Len(c) = Len(a) + Len(b)
      /\ \A m \in 1 .. Len(a) + Len(b) : c[m] = IF m <= Len(a) THEN a[m] ELSE b[m - Len(a)]
  BY <1>2, <1>3, ConcatProperties
<1> HIDE DEF c
<1>4. /\ c \in Seq(S) /\ Len(c) = l - 1
      /\ \A m \in 1 .. l - 1 : c[m] = IF m <= n - 1 THEN a[m] ELSE b[m - (n - 1)]
  <2>1. Len(a) = n - 1 /\ Len(a) + Len(b) = l - 1
    BY <1>1, <1>2, <1>3
  <2>2. c \in Seq(S) /\ Len(c) = l - 1
    BY <1>7, <2>1
  <2>3. ASSUME NEW m \in 1 .. l - 1
        PROVE  c[m] = IF m <= n - 1 THEN a[m] ELSE b[m - (n - 1)]
    BY <1>7, <2>1
  <2> QED
    BY <2>2, <2>3
<1>5. ASSUME NEW m \in 1 .. l - 1
      PROVE  c[m] = IF m < n THEN s[m] ELSE s[m + 1]
  <2>1. CASE m < n
    BY <1>1, <1>2, <1>4, <2>1
  <2>2. CASE ~ (m < n)
    <3>1. m - (n - 1) \in 1 .. l - n /\ n + (m - (n - 1)) = m + 1 /\ ~ (m <= n - 1)
      BY <1>1, <2>2
    <3>2. c[m] = b[m - (n - 1)]
      BY <1>4, <3>1
    <3>3. b[m - (n - 1)] = s[n + (m - (n - 1))]
      BY <1>3, <3>1
    <3> QED
      BY <2>2, <3>1, <3>2, <3>3
  <2> QED
    BY <2>1, <2>2
<1>6. Without(s, n) = c
  BY DEF Without, a, b, c, l
<1> QED
  BY <1>4, <1>5, <1>6 DEF l

(* What is taken out of a list and its last element.                       *)
LEMMA WithoutAdded ==
  ASSUME NEW S, NEW s \in Seq(S), NEW b \in S
  PROVE  /\ Without(Append(s, b), Len(s) + 1) = s
         /\ \A n \in DOMAIN s : Without(Append(s, b), n) = Append(Without(s, n), b)
<1> DEFINE t == Append(s, b)
           l == Len(s)
<1>1. /\ t \in Seq(S) /\ Len(t) = l + 1 /\ l \in Nat /\ DOMAIN t = 1 .. l + 1
      /\ DOMAIN s = 1 .. l
      /\ \A m \in 1 .. l : t[m] = s[m]
      /\ t[l + 1] = b
  BY AddedIs, LenProperties
<1> HIDE DEF t, l
<1>2. Without(t, l + 1) = s
  <2> DEFINE w == Without(t, l + 1)
  <2>1. w \in Seq(S) /\ Len(w) = l /\ \A m \in 1 .. l : w[m] = t[m]
    <3>1. l + 1 \in DOMAIN t
      BY <1>1
    <3>2. /\ w \in Seq(S) /\ Len(w) = Len(t) - 1
          /\ \A m \in 1 .. Len(t) - 1 : w[m] = IF m < l + 1 THEN t[m] ELSE t[m + 1]
      BY <1>1, <3>1, WithoutIs
    <3> QED
      BY <1>1, <3>2
  <2> HIDE DEF w
  <2>2. Len(s) = l
    BY DEF l
  <2> QED
    BY <1>1, <2>1, <2>2, SeqEqual DEF w
<1>3. ASSUME NEW n \in DOMAIN s
      PROVE  Without(t, n) = Append(Without(s, n), b)
  <2> DEFINE w == Without(t, n)
             v == Without(s, n)
             u == Append(v, b)
  <2>1. /\ w \in Seq(S) /\ Len(w) = l
        /\ \A m \in 1 .. l : w[m] = IF m < n THEN t[m] ELSE t[m + 1]
    <3>1. n \in DOMAIN t
      BY <1>1
    <3>2. /\ w \in Seq(S) /\ Len(w) = Len(t) - 1
          /\ \A m \in 1 .. Len(t) - 1 : w[m] = IF m < n THEN t[m] ELSE t[m + 1]
      BY <1>1, <3>1, WithoutIs
    <3> QED
      BY <1>1, <3>2
  <2>2. /\ v \in Seq(S) /\ Len(v) = l - 1
        /\ \A m \in 1 .. l - 1 : v[m] = IF m < n THEN s[m] ELSE s[m + 1]
    BY WithoutIs DEF l
  <2> HIDE DEF w, v
  <2>3. /\ u \in Seq(S) /\ Len(u) = (l - 1) + 1 /\ u[(l - 1) + 1] = b
        /\ \A m \in 1 .. l - 1 : u[m] = v[m]
    BY <2>2, AddedIs
  <2> HIDE DEF u
  <2>4. ASSUME NEW m \in 1 .. l
        PROVE  w[m] = u[m]
    <3>1. CASE m = l
      BY <1>1, <2>1, <2>3, <3>1
    <3>2. CASE m # l
      BY <1>1, <2>1, <2>2, <2>3, <3>2
    <3> QED
      BY <3>1, <3>2
  <2> QED
    BY <1>1, <2>1, <2>3, <2>4, SeqEqual DEF w, u, v
<1> QED
  BY <1>2, <1>3 DEF t, l

-----------------------------------------------------------------------------
(* Blocks in s are those of the epochs of A, each once, as N has them. *)
Lists(s, A, N) ==
  /\ s \in Seq(Block)
  /\ \A n \in DOMAIN s : s[n].epoch \in A /\ s[n].actions = N[s[n].epoch].actions
  /\ \A m, n \in DOMAIN s : s[m].epoch = s[n].epoch => m = n
  /\ \A e \in A : \E n \in DOMAIN s : s[n].epoch = e

(* A block of one more epoch at the end. *)
LEMMA ListsAdd ==
  ASSUME NEW s, NEW A, NEW N, NEW b \in Block, NEW B,
         Lists(s, A, N), b.epoch \notin A, b.actions = N[b.epoch].actions,
         \A e : e \in B <=> e \in A \/ e = b.epoch
  PROVE  Lists(Append(s, b), B, N)
<1> DEFINE t == Append(s, b)
           l == Len(s)
<1>1. /\ s \in Seq(Block) /\ l \in Nat /\ DOMAIN s = 1 .. l
      /\ t \in Seq(Block) /\ DOMAIN t = 1 .. l + 1
      /\ \A m \in 1 .. l : t[m] = s[m]
      /\ t[l + 1] = b
  <2>1. s \in Seq(Block) /\ l \in Nat /\ DOMAIN s = 1 .. l
    BY LenProperties DEF Lists
  <2>2. t \in Seq(Block) /\ Len(t) = l + 1 /\ (\A m \in 1 .. l : t[m] = s[m]) /\ t[l + 1] = b
    BY <2>1, AddedIs
  <2>3. DOMAIN t = 1 .. Len(t)
    BY <2>2, LenProperties
  <2> QED
    BY <2>1, <2>2, <2>3
<1>2. /\ \A n \in 1 .. l : s[n].epoch \in A /\ s[n].actions = N[s[n].epoch].actions
      /\ \A m, n \in 1 .. l : s[m].epoch = s[n].epoch => m = n
      /\ \A e \in A : \E n \in 1 .. l : s[n].epoch = e
  BY <1>1 DEF Lists
<1> HIDE DEF t, l
<1>3. \A n \in 1 .. l + 1 : n \in 1 .. l \/ n = l + 1
  BY <1>1
<1>4. 1 .. l \subseteq 1 .. l + 1 /\ l + 1 \in 1 .. l + 1
  BY <1>1
<1>5. ASSUME NEW n \in 1 .. l + 1
      PROVE  t[n].epoch \in B /\ t[n].actions = N[t[n].epoch].actions
  BY <1>1, <1>2, <1>3
<1>6. ASSUME NEW m \in 1 .. l + 1, NEW n \in 1 .. l + 1, t[m].epoch = t[n].epoch
      PROVE  m = n
  BY <1>1, <1>2, <1>3, <1>6
<1>7. ASSUME NEW e \in B
      PROVE  \E n \in 1 .. l + 1 : t[n].epoch = e
  BY <1>1, <1>2, <1>4
<1>8. /\ \A n \in DOMAIN t : t[n].epoch \in B /\ t[n].actions = N[t[n].epoch].actions
      /\ \A m, n \in DOMAIN t : t[m].epoch = t[n].epoch => m = n
      /\ \A e \in B : \E n \in DOMAIN t : t[n].epoch = e
  BY <1>1, <1>5, <1>6, <1>7
<1> QED
  BY <1>1, <1>8 DEF Lists, t

(* A block less. *)
LEMMA ListsDrop ==
  ASSUME NEW s, NEW A, NEW N, NEW d \in DOMAIN s, NEW B,
         Lists(s, A, N), \A e : e \in B <=> e \in A /\ e # s[d].epoch
  PROVE  Lists(Without(s, d), B, N)
<1> DEFINE t == Without(s, d)
           l == Len(s)
           from(m) == IF m < d THEN m ELSE m + 1
           to(m) == IF m < d THEN m ELSE m - 1
<1>1. /\ s \in Seq(Block) /\ l \in Nat /\ DOMAIN s = 1 .. l /\ d \in 1 .. l
  BY LenProperties DEF Lists
<1>2. /\ \A n \in 1 .. l : s[n].epoch \in A /\ s[n].actions = N[s[n].epoch].actions
      /\ \A m, n \in 1 .. l : s[m].epoch = s[n].epoch => m = n
      /\ \A e \in A : \E n \in 1 .. l : s[n].epoch = e
  BY Zenon, <1>1 DEF Lists
<1>3. /\ t \in Seq(Block) /\ DOMAIN t = 1 .. l - 1
      /\ \A m \in 1 .. l - 1 : t[m] = s[from(m)]
  <2>1. /\ t \in Seq(Block) /\ Len(t) = l - 1
        /\ \A m \in 1 .. l - 1 : t[m] = IF m < d THEN s[m] ELSE s[m + 1]
    BY Zenon, <1>1, WithoutIs
  <2>2. DOMAIN t = 1 .. Len(t)
    BY <2>1, LenProperties
  <2> QED
    BY <2>1, <2>2
<1> HIDE DEF t, l
<1>4. /\ \A m \in 1 .. l - 1 : from(m) \in 1 .. l /\ from(m) # d
      /\ \A m, n \in 1 .. l - 1 : from(m) = from(n) => m = n
      /\ \A m \in 1 .. l : m # d => to(m) \in 1 .. l - 1 /\ from(to(m)) = m
  <2>1. \A m \in 1 .. l - 1 : from(m) \in 1 .. l /\ from(m) # d
    BY <1>1
  <2>2. \A m, n \in 1 .. l - 1 : from(m) = from(n) => m = n
    BY <1>1
  <2>3. \A m \in 1 .. l : m # d => to(m) \in 1 .. l - 1 /\ from(to(m)) = m
    BY <1>1
  <2> QED
    BY Zenon, <2>1, <2>2, <2>3
<1> HIDE DEF from, to
<1>5. ASSUME NEW m \in 1 .. l - 1
      PROVE  t[m].epoch \in B /\ t[m].actions = N[t[m].epoch].actions
  <2>1. t[m] = s[from(m)] /\ from(m) \in 1 .. l /\ from(m) # d
    BY <1>3, <1>4
  <2>2. /\ t[m].epoch \in A /\ t[m].actions = N[t[m].epoch].actions
        /\ t[m].epoch # s[d].epoch
    BY <1>1, <1>2, <2>1
  <2> QED
    BY <2>2
<1>6. \A m, n \in 1 .. l - 1 : t[m].epoch = t[n].epoch => m = n
  BY <1>2, <1>3, <1>4
<1>7. ASSUME NEW e \in B
      PROVE  \E n \in 1 .. l - 1 : t[n].epoch = e
  <2>1. PICK n \in 1 .. l : s[n].epoch = e
    BY <1>2
  <2>2. n # d
    BY <2>1
  <2> QED
    BY <1>3, <1>4, <2>1, <2>2
<1> QED
  BY <1>3, <1>5, <1>6, <1>7 DEF Lists, t

(* Nothing is said of epochs that are not in A. *)
LEMMA ListsOther ==
  ASSUME NEW s, NEW A, NEW N, NEW B, NEW N2,
         Lists(s, A, N), \A e : e \in B <=> e \in A, \A e \in A : N2[e].actions = N[e].actions
  PROVE  Lists(s, B, N2)
BY DEF Lists

(* Such a list has each of its blocks once and is as long as they are many.*)
LEMMA ListsCount ==
  ASSUME NEW s, NEW A, NEW N, Lists(s, A, N)
  PROVE  /\ IsFiniteSet(A) /\ Len(s) = Cardinality(A)
         /\ \A e \in A : Cardinality({n \in DOMAIN s :
                           s[n] = [epoch |-> e, actions |-> N[e].actions]}) = 1
<1> DEFINE l == Len(s)
           f == [n \in 1 .. l |-> s[n].epoch]
<1>1. s \in Seq(Block) /\ l \in Nat /\ DOMAIN s = 1 .. l /\ \A n \in 1 .. l : s[n] \in Block
  BY LenProperties, ElementOfSeq DEF Lists
<1>2. f \in Bijection(1 .. l, A)
  <2>1. f \in [1 .. l -> A]
    BY <1>1 DEF Lists
  <2>2. \A m, n \in 1 .. l : f[m] = f[n] => m = n
    BY <1>1 DEF Lists
  <2>3. \A e \in A : \E n \in 1 .. l : f[n] = e
    BY <1>1 DEF Lists
  <2> QED
    BY <2>1, <2>2, <2>3, Fun_IsBij
<1>3. IsFiniteSet(1 .. l) /\ Cardinality(1 .. l) = l
  <2> HIDE DEF l
  <2>1. IsFiniteSet(1 .. l) /\ Cardinality(1 .. l) = IF 1 > l THEN 0 ELSE l - 1 + 1
    BY <1>1, FS_Interval
  <2> QED
    BY <1>1, <2>1
<1>4. IsFiniteSet(A) /\ Cardinality(1 .. l) = Cardinality(A)
  <2>1. ExistsBijection(1 .. l, A)
    BY <1>2 DEF ExistsBijection
  <2> QED
    BY <2>1, <1>3, FS_Bijection
<1>5. ASSUME NEW e \in A
      PROVE  Cardinality({n \in DOMAIN s : s[n] = [epoch |-> e, actions |-> N[e].actions]}) = 1
  <2>1. PICK k \in 1 .. l : s[k].epoch = e
    BY <1>1 DEF Lists
  <2>2. s[k].actions = N[e].actions
    BY <1>1, <2>1 DEF Lists
  <2>3. s[k] = [epoch |-> e, actions |-> N[e].actions]
    BY <1>1, <2>1, <2>2 DEF Block
  <2>4. {n \in DOMAIN s : s[n] = [epoch |-> e, actions |-> N[e].actions]} = {k}
    BY <1>1, <2>1, <2>3 DEF Lists
  <2> QED
    BY <2>4, FS_Singleton
<1> QED
  BY <1>3, <1>4, <1>5 DEF l

-----------------------------------------------------------------------------
(* The node puts one of its blocks. *)
Statuses == {"none", "open", "sealed", "committed"}
Nodes == [Epochs -> [status : Statuses, actions : Seq(Action)]]

At(N, status) == {e \in Epochs : N[e].status = status}

Put(N, N2, e, status, actions) ==
  /\ N2 \in Nodes
  /\ N2[e] = [status |-> status, actions |-> actions]
  /\ \A f \in Epochs \ {e} : N2[f] = N[f]

LEMMA PutIs ==
  ASSUME NEW N \in Nodes, NEW e \in Epochs, NEW status \in Statuses, NEW actions \in Seq(Action)
  PROVE  /\ Put(N, [N EXCEPT ![e] = [status |-> status, actions |-> actions]], e, status, actions)
         /\ Put(N, [N EXCEPT ![e].status = status], e, status, N[e].actions)
         /\ N[e].status = status => [N EXCEPT ![e].status = status] = N
         /\ N[e].status = status => Put(N, [N EXCEPT ![e].actions = actions], e, status, actions)
<1>1. N[e] \in [status : Statuses, actions : Seq(Action)]
  BY DEF Nodes
<1>2. ASSUME NEW r \in [status : Statuses, actions : Seq(Action)]
      PROVE  /\ [N EXCEPT ![e] = r] \in Nodes /\ [N EXCEPT ![e] = r][e] = r
             /\ \A f \in Epochs \ {e} : [N EXCEPT ![e] = r][f] = N[f]
  BY <1>2 DEF Nodes
<1> DEFINE set == [N[e] EXCEPT !.status = status]
<1>3. set = [status |-> status, actions |-> N[e].actions] /\ set \in [status : Statuses, actions : Seq(Action)]
  BY <1>1
<1>4. [N EXCEPT ![e].status = status] = [N EXCEPT ![e] = set]
  BY DEF Nodes
<1>5. N[e].status = status => set = N[e]
  BY <1>1
<1> DEFINE edit == [N[e] EXCEPT !.actions = actions]
<1>9. [N EXCEPT ![e].actions = actions] = [N EXCEPT ![e] = edit]
  BY DEF Nodes
<1>10. N[e].status = status =>
         edit = [status |-> status, actions |-> actions] /\ edit \in [status : Statuses, actions : Seq(Action)]
  BY <1>1
<1> HIDE DEF set, edit
<1>11. N[e].status = status => Put(N, [N EXCEPT ![e] = edit], e, status, actions)
  BY <1>2, <1>10 DEF Put
<1>6. N[e].status = status => [N EXCEPT ![e] = set] = N
  BY <1>5 DEF Nodes
<1>7. Put(N, [N EXCEPT ![e] = [status |-> status, actions |-> actions]], e, status, actions)
  BY <1>2 DEF Put
<1>8. Put(N, [N EXCEPT ![e] = set], e, status, N[e].actions)
  BY <1>2, <1>3 DEF Put
<1> QED
  BY <1>4, <1>6, <1>7, <1>8, <1>9, <1>11

(* The epochs of a status after a block is put, and what that does to a    *)
(* list: another one keeps it, the list of its new status gets it at the   *)
(* end, the one of its old status loses it.                                *)
LEMMA AtIs ==
  ASSUME NEW N \in Nodes, NEW N2, NEW e \in Epochs, NEW status \in Statuses, NEW actions,
         Put(N, N2, e, status, actions)
  PROVE  \A other, f : f \in At(N2, other) <=>
                         IF f = e THEN status = other ELSE f \in At(N, other)
BY DEF Put, At

LEMMA ListsKeep ==
  ASSUME NEW N \in Nodes, NEW N2, NEW e \in Epochs, NEW status \in Statuses, NEW actions,
         Put(N, N2, e, status, actions),
         NEW s, NEW other, Lists(s, At(N, other), N), N[e].status # other, status # other
  PROVE  Lists(s, At(N2, other), N2)
<1>1. \A f : f \in At(N2, other) <=> f \in At(N, other)
  <2>1. \A f : f \in At(N2, other) <=> IF f = e THEN status = other ELSE f \in At(N, other)
    BY AtIs
  <2>2. e \notin At(N, other)
    BY DEF At
  <2> QED
    BY <2>1, <2>2
<1>2. \A f \in At(N, other) : N2[f].actions = N[f].actions
  BY DEF At, Put
<1> QED
  BY <1>1, <1>2, ListsOther

LEMMA ListsPut ==
  ASSUME NEW N \in Nodes, NEW N2, NEW e \in Epochs, NEW status \in Statuses, NEW actions,
         Put(N, N2, e, status, actions),
         NEW s, NEW b \in Block, Lists(s, At(N, status), N), N[e].status # status,
         b.epoch = e, b.actions = actions
  PROVE  Lists(Append(s, b), At(N2, status), N2)
<1>1. \A f : f \in At(N2, status) <=> f \in At(N, status) \/ f = b.epoch
  <2>1. \A f : f \in At(N2, status) <=> IF f = e THEN status = status ELSE f \in At(N, status)
    BY AtIs
  <2>2. e \notin At(N, status)
    BY DEF At
  <2> QED
    BY <2>1, <2>2
<1>2. \A f \in At(N, status) : N2[f].actions = N[f].actions
  BY DEF At, Put
<1>3. Lists(s, At(N, status), N2)
  BY <1>2, ListsOther
<1>4. b.epoch \notin At(N, status) /\ b.actions = N2[b.epoch].actions
  BY DEF At, Put
<1> HIDE DEF At
<1> QED
  BY <1>1, <1>3, <1>4, ListsAdd

LEMMA ListsTake ==
  ASSUME NEW N \in Nodes, NEW N2, NEW e \in Epochs, NEW status \in Statuses, NEW actions,
         Put(N, N2, e, status, actions),
         NEW s, NEW other, NEW d \in DOMAIN s, Lists(s, At(N, other), N),
         s[d].epoch = e, status # other
  PROVE  Lists(Without(s, d), At(N2, other), N2)
<1>1. \A f : f \in At(N2, other) <=> f \in At(N, other) /\ f # s[d].epoch
  BY AtIs
<1>2. Lists(Without(s, d), At(N2, other), N)
  BY <1>1, ListsDrop
<1>3. \A f \in At(N2, other) : N2[f].actions = N[f].actions
  BY DEF At, Put
<1> QED
  BY <1>2, <1>3, ListsOther

(* The last block of a list gets an action. *)
LEMMA ListsEdit ==
  ASSUME NEW N \in Nodes, NEW N2, NEW e \in Epochs, NEW status \in Statuses, NEW actions,
         Put(N, N2, e, status, actions),
         NEW s \in Seq(Block), NEW b \in Block, NEW c \in Block,
         Lists(Append(s, b), At(N, status), N),
         b.epoch = e, c.epoch = e, c.actions = actions
  PROVE  Lists(Append(s, c), At(N2, status), N2)
<1> DEFINE A == At(N, status) \ {e}
           d == Len(s) + 1
           t == Append(s, b)
<1>1. d \in DOMAIN t /\ t[d] = b
  BY AddedIs, LenProperties
<1>2. Without(t, d) = s
  BY WithoutAdded
<1>3. Lists(t, At(N, status), N)
  OBVIOUS
<1> HIDE DEF t, d
<1>4. \A f : f \in A <=> f \in At(N, status) /\ f # t[d].epoch
  BY <1>1
<1>5. Lists(s, A, N)
  <2> HIDE DEF A
  <2> QED
    BY <1>1, <1>2, <1>3, <1>4, ListsDrop
<1>6. \A f \in A : N2[f].actions = N[f].actions
  BY DEF At, Put
<1>7. c.epoch \notin A /\ c.actions = N2[c.epoch].actions
  BY DEF Put
<1>8. e \in At(N, status)
  BY <1>1, <1>3 DEF Lists
<1>9. \A f : f \in At(N2, status) <=> f \in A \/ f = c.epoch
  BY <1>8, AtIs
<1> HIDE DEF A
<1>10. Lists(s, A, N2)
  BY <1>5, <1>6, ListsOther
<1> QED
  BY <1>7, <1>9, <1>10, ListsAdd

(* A list of blocks that is not that of all epochs is shorter than they    *)
(* are many.                                                               *)
LEMMA Room ==
  ASSUME NEW s, NEW N, NEW status, Lists(s, At(N, status), N),
         NEW e \in Epochs, e \notin At(N, status)
  PROVE  Len(s) \in 0 .. MaxEpoch - 1
<1>1. IsFiniteSet(Epochs) /\ Cardinality(Epochs) = MaxEpoch
  <2>1. MaxEpoch \in Nat /\ 1 <= MaxEpoch
    BY BreezeAssumption DEF Epochs
  <2>2. IsFiniteSet(1 .. MaxEpoch) /\ Cardinality(1 .. MaxEpoch) = IF 1 > MaxEpoch THEN 0 ELSE MaxEpoch - 1 + 1
    BY <2>1, FS_Interval
  <2> QED
    BY <2>1, <2>2 DEF Epochs
<1>2. /\ IsFiniteSet(Epochs \ {e})
      /\ Cardinality(Epochs \ {e}) = MaxEpoch - 1
  <2>1. /\ IsFiniteSet(Epochs \ {e})
        /\ Cardinality(Epochs \ {e}) = IF e \in Epochs THEN Cardinality(Epochs) - 1 ELSE Cardinality(Epochs)
    BY <1>1, FS_RemoveElement
  <2> QED
    BY <1>1, <2>1
<1>3. At(N, status) \subseteq Epochs \ {e}
  BY DEF At
<1>4. Cardinality(At(N, status)) <= Cardinality(Epochs \ {e})
  BY <1>2, <1>3, FS_Subset
<1>5. Len(s) = Cardinality(At(N, status)) /\ Len(s) \in Nat
  <2>1. Len(s) = Cardinality(At(N, status))
    BY ListsCount
  <2>2. s \in Seq(Block)
    BY DEF Lists
  <2> QED
    BY <2>1, <2>2, LenProperties
<1> QED
  BY <1>2, <1>4, <1>5, BreezeAssumption

(* The blocks that wait for their seal, with the current one. *)
LEMMA OpenIs ==
  ASSUME NEW s \in Seq(Block), NEW c \in Block \cup {NoBuilder}
  PROVE  s \o (IF c = NoBuilder THEN << >> ELSE <<c>>) = IF c = NoBuilder THEN s ELSE Append(s, c)
BY ConcatEmptySeq, AddedIs, NoBuilderAssumption

-----------------------------------------------------------------------------
(* The invariant of the store. *)
StoreTyped ==
  /\ node \in Nodes
  /\ listener \in {"running", "ended", "panicked"}
  /\ Storage \in Seq(Block) /\ Blocks \in Seq(0 .. MaxEpoch - 1)
  /\ Current \in Block \cup {NoBuilder}
  /\ Unselaed \in Seq(Block) /\ Sealed \in Seq(Block)
  /\ appending \in Seq(Block) /\ Len(appending) <= 1

(* Epochs are opened one after the other. *)
NodeOK(N) ==
  /\ \A e \in Epochs : N[e].status = "none" => N[e].actions = << >>
  /\ \E d \in 0 .. MaxEpoch : \A e \in Epochs : N[e].status # "none" <=> e <= d

PlacesOK ==
  /\ Lists(Unselaed \o CurrentBlocks, At(node, "open"), node)
  /\ Lists(Sealed, At(node, "sealed"), node)
  /\ Lists(Storage \o appending, At(node, "committed"), node)

(* While the newest block is open it is the current one. *)
Last(N, e) == \A f \in Epochs : f > e => N[f].status = "none"

CurrentOK ==
  \A e \in Epochs :
    node[e].status = "open" /\ Last(node, e) => Current # NoBuilder /\ Current.epoch = e

OffsetsOK ==
  /\ Len(Blocks) = Len(Storage) + Len(appending)
  /\ \A i \in DOMAIN Blocks : Blocks[i] = i - 1

StoreInv ==
  /\ StoreTyped
  /\ NodeOK(node)
  /\ listener # "panicked" => PlacesOK /\ CurrentOK /\ OffsetsOK

(* The newest epoch of the node, and what is known after one is put. *)
LEMMA NewestIs ==
  ASSUME node \in Nodes, NodeOK(node)
  PROVE  /\ Newest \in 0 .. MaxEpoch
         /\ \A e \in Epochs : node[e].status # "none" <=> e <= Newest
<1>1. PICK d \in 0 .. MaxEpoch : \A e \in Epochs : node[e].status # "none" <=> e <= d
  BY DEF NodeOK
<1>2. {e \in Epochs : node[e].status # "none"} = 1 .. d
  BY <1>1, BreezeAssumption DEF Epochs
<1>3. d \in Int /\ Cardinality(1 .. d) = IF 1 > d THEN 0 ELSE d - 1 + 1
  BY <1>1, FS_Interval, BreezeAssumption
<1>4. Newest = d
  <2>1. Newest = Cardinality(1 .. d)
    BY <1>2 DEF Newest
  <2> QED
    BY <1>1, <1>3, <2>1, BreezeAssumption
<1> QED
  BY <1>1, <1>4

LEMMA NodePut ==
  ASSUME NEW N \in Nodes, NEW N2, NEW e \in Epochs, NEW status \in Statuses, NEW actions,
         Put(N, N2, e, status, actions), NodeOK(N), status # "none",
         \/ N[e].status # "none"
         \/ \A f \in Epochs : N[f].status # "none" <=> f <= e - 1
  PROVE  NodeOK(N2)
<1>1. \A f \in Epochs : N2[f] = N[f] \/ (f = e /\ N2[f].status = status)
  BY DEF Put
<1>2. \A f \in Epochs : N2[f].status = "none" => N2[f].actions = << >>
  BY <1>1 DEF NodeOK
<1>3. PICK d \in 0 .. MaxEpoch : \A f \in Epochs : N[f].status # "none" <=> f <= d
  BY DEF NodeOK
<1>4. e \in Nat /\ e <= MaxEpoch /\ e >= 1 /\ Epochs \subseteq Nat /\ MaxEpoch \in Nat
  BY BreezeAssumption DEF Epochs
<1>5. CASE N[e].status # "none"
  <2>1. \A f \in Epochs : N2[f].status # "none" <=> f <= d
    BY <1>1, <1>3, <1>5 DEF Put
  <2> QED
    BY <1>2, <2>1 DEF NodeOK
<1>6. CASE \A f \in Epochs : N[f].status # "none" <=> f <= e - 1
  <2>1. \A f \in Epochs : N2[f].status # "none" <=> f <= e
    <3>1. \A f \in Epochs \ {e} : N2[f] = N[f]
      BY DEF Put
    <3>2. N2[e].status # "none"
      BY DEF Put
    <3> QED
      BY <1>4, <1>6, <3>1, <3>2
  <2>2. e \in 0 .. MaxEpoch
    BY <1>4
  <2> QED
    BY <1>2, <2>1, <2>2 DEF NodeOK
<1> QED
  BY <1>5, <1>6

(* A step that puts a block of the node leaves the newest one the current  *)
(* one.                                                                    *)
LEMMA LastPut ==
  ASSUME NEW N \in Nodes, NEW N2, NEW e \in Epochs, NEW status \in Statuses, NEW actions,
         Put(N, N2, e, status, actions), status # "none",
         NEW f \in Epochs, N2[f].status = "open", Last(N2, f)
  PROVE  \/ f = e /\ status = "open"
         \/ f # e /\ N[f].status = "open" /\ Last(N, f)
<1>1. \A g \in Epochs : N2[g] = N[g] \/ (g = e /\ N2[g].status = status)
  BY DEF Put
<1>2. N2[e].status = status
  BY DEF Put
<1>3. \A g \in Epochs : g > f => N2[g] = N[g]
  BY <1>1 DEF Last
<1>4. Last(N, f)
  BY <1>3 DEF Last
<1> QED
  BY <1>1, <1>2, <1>4

(* Nothing is stored at the start. *)
THEOREM StoreInit == BreezeInit => StoreInv
<1> SUFFICES ASSUME BreezeInit
             PROVE  StoreInv
  OBVIOUS
<1> USE DEF BreezeInit
<1>1. node \in Nodes /\ \A e \in Epochs : node[e].status = "none" /\ node[e].actions = << >>
  BY DEF Nodes, Statuses
<1>2. << >> \in Seq(Block) /\ << >> \in Seq(0 .. MaxEpoch - 1) /\ Len(<< >>) = 0 /\ DOMAIN << >> = {}
  BY EmptySeq, LenProperties
<1>3. StoreTyped
  BY <1>1, <1>2 DEF StoreTyped
<1>4. NodeOK(node)
  <2>1. 0 \in 0 .. MaxEpoch /\ \A e \in Epochs : ~ (e <= 0)
    BY BreezeAssumption DEF Epochs
  <2> QED
    BY <1>1, <2>1 DEF NodeOK
<1>5. \A status \in {"open", "sealed", "committed"} : Lists(<< >>, At(node, status), node)
  BY <1>1, <1>2 DEF Lists, At
<1>6. Unselaed \o CurrentBlocks = << >> /\ Sealed = << >> /\ Storage \o appending = << >>
  BY <1>2, ConcatEmptySeq DEF CurrentBlocks
<1>7. PlacesOK
  BY <1>5, <1>6 DEF PlacesOK
<1>8. CurrentOK
  BY <1>1 DEF CurrentOK
<1>9. OffsetsOK
  BY <1>2 DEF OffsetsOK
<1> QED
  BY <1>3, <1>4, <1>7, <1>8, <1>9 DEF StoreInv

-----------------------------------------------------------------------------
(* Every step keeps it. *)

(* What the steps of the listener start from. *)
LEMMA ReadingIs ==
  ASSUME StoreInv, Reading
  PROVE  /\ node \in Nodes /\ NodeOK(node) /\ CurrentOK
         /\ Storage \in Seq(Block) /\ Blocks \in Seq(0 .. MaxEpoch - 1)
         /\ Current \in Block \cup {NoBuilder}
         /\ Unselaed \in Seq(Block) /\ Sealed \in Seq(Block)
         /\ appending = << >> /\ listener = "running"
         /\ Current = NoBuilder => Lists(Unselaed, At(node, "open"), node)
         /\ Current # NoBuilder =>
              Current \in Block /\ Lists(Append(Unselaed, Current), At(node, "open"), node)
         /\ Lists(Sealed, At(node, "sealed"), node)
         /\ Lists(Storage, At(node, "committed"), node)
         /\ Len(Blocks) = Len(Storage)
         /\ \A i \in DOMAIN Blocks : Blocks[i] = i - 1
         /\ Newest \in 0 .. MaxEpoch
         /\ \A e \in Epochs : node[e].status # "none" <=> e <= Newest
<1>1. listener = "running" /\ appending = << >>
  BY DEF Reading
<1>2. StoreTyped /\ NodeOK(node) /\ PlacesOK /\ CurrentOK /\ OffsetsOK
  BY <1>1 DEF StoreInv
<1>3. Unselaed \o CurrentBlocks = IF Current = NoBuilder THEN Unselaed ELSE Append(Unselaed, Current)
  BY <1>2, OpenIs DEF StoreTyped, CurrentBlocks
<1>4. Storage \o appending = Storage
  BY <1>1, <1>2, ConcatEmptySeq DEF StoreTyped
<1>5. Len(appending) = 0 /\ Len(Storage) \in Nat
  BY <1>1, <1>2, EmptySeq, LenProperties DEF StoreTyped
<1>6. Newest \in 0 .. MaxEpoch /\ \A e \in Epochs : node[e].status # "none" <=> e <= Newest
  BY <1>2, NewestIs DEF StoreTyped
<1> QED
  BY <1>1, <1>2, <1>3, <1>4, <1>5, <1>6 DEF StoreTyped, PlacesOK, OffsetsOK

(* What they have to show. *)
LEMMA ReadingThen ==
  ASSUME node' \in Nodes, NodeOK(node'), CurrentOK',
         Storage' \in Seq(Block), Blocks' \in Seq(0 .. MaxEpoch - 1),
         Current' \in Block \cup {NoBuilder}, Unselaed' \in Seq(Block), Sealed' \in Seq(Block),
         appending' \in Seq(Block), Len(appending') <= 1, listener' = "running",
         NEW open, Lists(open, At(node', "open"), node'),
         open = (IF Current' = NoBuilder THEN Unselaed' ELSE Append(Unselaed', Current')),
         Lists(Sealed', At(node', "sealed"), node'),
         NEW committed, Lists(committed, At(node', "committed"), node'),
         committed = Storage' \o appending',
         OffsetsOK'
  PROVE  StoreInv'
<1>1. Unselaed' \o CurrentBlocks' = open
  BY OpenIs DEF CurrentBlocks
<1>2. PlacesOK'
  BY <1>1 DEF PlacesOK
<1> QED
  BY <1>2 DEF StoreInv, StoreTyped

(* A panic leaves the lists as they are. *)
LEMMA PanicKeeps ==
  ASSUME StoreInv, node' \in Nodes, NodeOK(node'), listener' = "panicked", UNCHANGED storeVars
  PROVE  StoreInv'
BY DEF StoreInv, StoreTyped, storeVars

(* A block with other actions. *)
LEMMA EditIs ==
  ASSUME NEW b \in Block, NEW actions \in Seq(Action)
  PROVE  [b EXCEPT !.actions = actions] = [epoch |-> b.epoch, actions |-> actions]
BY DEF Block

(* A block from its parts. *)
LEMMA FreshIs ==
  ASSUME NEW e \in Epochs, NEW actions \in Seq(Action)
  PROVE  /\ [epoch |-> e, actions |-> actions] \in Block
         /\ [epoch |-> e, actions |-> actions].epoch = e
         /\ [epoch |-> e, actions |-> actions].actions = actions
BY DEF Block

(* A new epoch: its block becomes the current one. *)
LEMMA ReadNewBlockKeeps ==
  ASSUME StoreInv, ReadNewBlock
  PROVE  StoreInv'
<1> DEFINE e == Newest + 1
           fresh == [epoch |-> e, actions |-> << >>]
<1>1. Reading /\ Newest < MaxEpoch /\ NodeSets(e, "open") /\ New(e)
  BY DEF ReadNewBlock
<1>2. /\ node' = [node EXCEPT ![e].status = "open"]
      /\ Unselaed' = IF Current = NoBuilder THEN Unselaed ELSE Append(Unselaed, Current)
      /\ Current' = fresh
      /\ UNCHANGED <<Storage, Blocks, Sealed, appending, listener>>
  BY <1>1 DEF NodeSets, New, Fresh
<1>3. e \in Epochs /\ \A f \in Epochs : node[f].status # "none" <=> f <= e - 1
  BY <1>1, ReadingIs, BreezeAssumption DEF Epochs
<1> HIDE DEF e
<1>4. node[e].status = "none" /\ node[e].actions = << >>
  <2>1. ~ (e <= e - 1)
    BY <1>3 DEF Epochs
  <2> QED
    BY <1>1, <1>3, <2>1, ReadingIs DEF NodeOK
<1>5. << >> \in Seq(Action) /\ "open" \in Statuses
  BY EmptySeq DEF Statuses
<1>6. Put(node, node', e, "open", << >>)
  <2>1. Put(node, [node EXCEPT ![e].status = "open"], e, "open", node[e].actions)
    BY <1>1, <1>3, <1>5, PutIs, ReadingIs
  <2> QED
    BY <1>2, <1>4, <2>1
<1>7. NodeOK(node')
  BY <1>1, <1>3, <1>5, <1>6, NodePut, ReadingIs
<1>8. fresh \in Block /\ fresh.epoch = e /\ fresh.actions = << >>
  BY <1>3, <1>5, FreshIs
<1> HIDE DEF fresh
<1>9. Unselaed' \in Seq(Block) /\ Lists(Unselaed', At(node, "open"), node)
  BY <1>1, <1>2, ReadingIs, AddedIs
<1>10. Lists(Append(Unselaed', fresh), At(node', "open"), node')
  BY <1>1, <1>3, <1>4, <1>5, <1>6, <1>8, <1>9, ListsPut, ReadingIs
<1>11. Lists(Sealed', At(node', "sealed"), node')
  BY <1>1, <1>2, <1>3, <1>4, <1>5, <1>6, ListsKeep, ReadingIs
<1>12. Lists(Storage', At(node', "committed"), node')
  BY <1>1, <1>2, <1>3, <1>4, <1>5, <1>6, ListsKeep, ReadingIs
<1>13. CurrentOK'
  <2> SUFFICES ASSUME NEW f \in Epochs, node'[f].status = "open", Last(node', f)
               PROVE  Current' # NoBuilder /\ Current'.epoch = f
    BY DEF CurrentOK
  <2>1. f = e \/ (node[f].status = "open" /\ Last(node, f) /\ f # e)
    BY <1>1, <1>3, <1>5, <1>6, LastPut, ReadingIs
  <2>2. f # e => f < e
    BY <1>3, <2>1 DEF Epochs
  <2>3. f # e => node'[e].status = "none"
    BY <1>3, <2>2 DEF Last, Epochs
  <2>4. f = e
    BY <1>6, <2>3 DEF Put
  <2> QED
    BY <1>2, <1>8, <2>4, NoBuilderAssumption
<1>14. Storage' \o appending' = Storage'
  BY <1>1, <1>2, ReadingIs, ConcatEmptySeq
<1>15. OffsetsOK' /\ Len(appending') <= 1 /\ appending' \in Seq(Block)
  <2>1. appending' = << >> /\ Len(<< >>) = 0 /\ << >> \in Seq(Block) /\ Len(Storage) \in Nat
    BY <1>1, <1>2, ReadingIs, EmptySeq, LenProperties
  <2> QED
    BY <1>1, <1>2, <2>1, ReadingIs DEF OffsetsOK
<1>16. node' \in Nodes
  BY <1>6 DEF Put
<1>17. Current' # NoBuilder
  BY <1>2, <1>8, NoBuilderAssumption
<1>18. /\ Storage' \in Seq(Block) /\ Blocks' \in Seq(0 .. MaxEpoch - 1) /\ Sealed' \in Seq(Block)
       /\ Current' \in Block \cup {NoBuilder} /\ listener' = "running"
  BY <1>1, <1>2, <1>8, ReadingIs
<1> QED
  BY <1>2, <1>7, <1>9, <1>10, <1>11, <1>12, <1>13, <1>14, <1>15, <1>16, <1>17, <1>18, ReadingThen

(* An action of the newest block goes to the current block, which is that  *)
(* one.                                                                    *)
LEMMA ReadActionKeeps ==
  ASSUME StoreInv, NEW a \in Action, ReadAction(a)
  PROVE  StoreInv'
<1> DEFINE e == Newest
           actions == Append(node[e].actions, a)
           changed == [Current EXCEPT !.actions = Append(@, a)]
<1>1. /\ Reading /\ e > 0 /\ node[e].status = "open"
      /\ node' = [node EXCEPT ![e].actions = Append(@, a)]
  BY DEF ReadAction
<1>2. /\ e \in Epochs /\ node \in Nodes
      /\ \A f \in Epochs : node[f].status # "none" <=> f <= e
  BY <1>1, ReadingIs, BreezeAssumption DEF Epochs
<1>3. /\ Current = NoBuilder => Panic
      /\ Current # NoBuilder =>
           /\ Current' = changed
           /\ UNCHANGED <<listener, Storage, Blocks, Unselaed, Sealed, appending>>
  BY DEF ReadAction
<1> HIDE DEF e
<1>4. /\ node[e] \in [status : Statuses, actions : Seq(Action)]
      /\ actions \in Seq(Action) /\ "open" \in Statuses
  BY <1>2, AddedIs DEF Nodes, Statuses
<1>5. node' = [node EXCEPT ![e].actions = actions]
  BY <1>1
<1>6. Put(node, node', e, "open", actions)
  <2> HIDE DEF actions
  <2>1. Put(node, [node EXCEPT ![e].actions = actions], e, "open", actions)
    BY <1>1, <1>2, <1>4, PutIs
  <2> QED
    BY <1>5, <2>1
<1> HIDE DEF actions
<1>7. NodeOK(node') /\ node' \in Nodes
  <2>1. node' \in Nodes
    BY <1>6 DEF Put
  <2>2. node[e].status # "none" /\ NodeOK(node)
    BY <1>1, ReadingIs
  <2> QED
    BY <1>2, <1>4, <1>6, <2>1, <2>2, NodePut
<1>8. Last(node, e)
  BY <1>2 DEF Last, Epochs
<1>9. Current # NoBuilder /\ Current.epoch = e /\ Current \in Block
  BY <1>1, <1>2, <1>8, ReadingIs DEF CurrentOK
<1>10. Lists(Append(Unselaed, Current), At(node, "open"), node)
  BY <1>1, <1>9, ReadingIs
<1>11. Current.actions = node[e].actions
  <2>1. Append(Unselaed, Current)[Len(Unselaed) + 1] = Current /\ Len(Unselaed) + 1 \in DOMAIN Append(Unselaed, Current)
    BY <1>1, <1>9, AddedIs, LenProperties, ReadingIs
  <2> QED
    BY <1>9, <1>10, <2>1 DEF Lists
<1>12. changed = [epoch |-> e, actions |-> actions]
  <2>1. changed = [Current EXCEPT !.actions = actions]
    BY <1>11 DEF actions
  <2> QED
    BY <1>4, <1>9, <2>1, EditIs
<1>13. changed \in Block /\ changed.epoch = e /\ changed.actions = actions
  BY <1>2, <1>4, <1>12, FreshIs
<1>14. Current' = changed /\ UNCHANGED <<listener, Storage, Blocks, Unselaed, Sealed, appending>>
  BY <1>3, <1>9
<1> HIDE DEF changed
<1>15. Lists(Append(Unselaed, changed), At(node', "open"), node')
  BY <1>1, <1>2, <1>4, <1>6, <1>9, <1>10, <1>13, ListsEdit, ReadingIs
<1>16. Lists(Sealed', At(node', "sealed"), node')
  BY <1>1, <1>2, <1>4, <1>6, <1>14, ListsKeep, ReadingIs
<1>17. Lists(Storage', At(node', "committed"), node')
  BY <1>1, <1>2, <1>4, <1>6, <1>14, ListsKeep, ReadingIs
<1>18. CurrentOK'
  <2> SUFFICES ASSUME NEW f \in Epochs, node'[f].status = "open", Last(node', f)
               PROVE  Current' # NoBuilder /\ Current'.epoch = f
    BY DEF CurrentOK
  <2>1. f = e \/ (node[f].status = "open" /\ Last(node, f) /\ f # e)
    BY <1>2, <1>4, <1>6, LastPut
  <2>2. f = e
    BY <1>1, <2>1, <1>9, ReadingIs DEF CurrentOK
  <2> QED
    BY <1>13, <1>14, <2>2, NoBuilderAssumption
<1>19. Storage' \o appending' = Storage'
  BY <1>1, <1>14, ReadingIs, ConcatEmptySeq
<1>20. OffsetsOK' /\ Len(appending') <= 1 /\ appending' \in Seq(Block)
  <2>1. appending' = << >> /\ Len(<< >>) = 0 /\ << >> \in Seq(Block) /\ Len(Storage) \in Nat
    BY <1>1, <1>14, ReadingIs, EmptySeq, LenProperties
  <2> QED
    BY <1>1, <1>14, <2>1, ReadingIs DEF OffsetsOK
<1>21. Current' # NoBuilder
  BY <1>13, <1>14, NoBuilderAssumption
<1>22. /\ Storage' \in Seq(Block) /\ Blocks' \in Seq(0 .. MaxEpoch - 1) /\ Sealed' \in Seq(Block)
       /\ Current' \in Block \cup {NoBuilder} /\ listener' = "running" /\ Unselaed' \in Seq(Block)
  BY <1>1, <1>13, <1>14, ReadingIs
<1>23. Lists(Append(Unselaed', Current'), At(node', "open"), node')
  BY <1>14, <1>15
<1> QED
  BY <1>7, <1>16, <1>17, <1>18, <1>19, <1>20, <1>21, <1>22, <1>23, ReadingThen

(* The block of epoch e in a list. *)
LEMMA ElementIs ==
  ASSUME NEW s, NEW status, Lists(s, At(node, status), node), NEW n \in DOMAIN s
  PROVE  /\ s[n] \in Block /\ s[n].epoch \in Epochs /\ node[s[n].epoch].status = status
         /\ s[n].actions = node[s[n].epoch].actions
<1>1. s[n] \in Block
  BY ElementOfSeq, LenProperties DEF Lists
<1> QED
  BY <1>1 DEF Lists, At

(* What a message leaves alone that stores nothing. *)
LEMMA StoreRest ==
  ASSUME StoreInv, Reading, UNCHANGED <<Storage, Blocks, appending>>
  PROVE  /\ Storage' \o appending' = Storage
         /\ OffsetsOK' /\ Len(appending') <= 1 /\ appending' \in Seq(Block)
         /\ Storage' \in Seq(Block) /\ Blocks' \in Seq(0 .. MaxEpoch - 1)
<1>1. Storage' \o appending' = Storage
  BY ReadingIs, ConcatEmptySeq
<1>2. appending' = << >> /\ Len(<< >>) = 0 /\ << >> \in Seq(Block) /\ Len(Storage) \in Nat
  BY ReadingIs, EmptySeq, LenProperties
<1> QED
  BY <1>1, <1>2, ReadingIs DEF OffsetsOK

(* A seal moves the block of its epoch, the current one or one of those    *)
(* before it, to the sealed ones.                                          *)
LEMMA ReadSealKeeps ==
  ASSUME StoreInv, NEW e \in Epochs, ReadSeal(e)
  PROVE  StoreInv'
<1>1. /\ Reading /\ node[e].status # "none" /\ Seal(e)
      /\ node[e].status = "open" => node' = [node EXCEPT ![e].status = "sealed"]
      /\ node[e].status # "open" => node' = node
  BY DEF ReadSeal, NodeSets
<1>2. node \in Nodes /\ "sealed" \in Statuses /\ "open" # "sealed" /\ "committed" # "sealed"
  BY <1>1, ReadingIs DEF Statuses
<1>3. /\ node[e] \in [status : Statuses, actions : Seq(Action)] /\ node[e].actions \in Seq(Action)
      /\ << >> \in Seq(Action)
  BY <1>2, EmptySeq DEF Nodes
<1>4. node[e].status = "open" => Put(node, node', e, "sealed", node[e].actions)
  <2>1. Put(node, [node EXCEPT ![e].status = "sealed"], e, "sealed", node[e].actions)
    BY <1>2, <1>3, PutIs
  <2> QED
    BY <1>1, <2>1
<1>5. node' \in Nodes /\ NodeOK(node')
  <2>1. CASE node[e].status # "open"
    BY <1>1, <2>1, ReadingIs
  <2>2. CASE node[e].status = "open"
    <3>1. node' \in Nodes
      BY <1>4, <2>2 DEF Put
    <3> QED
      BY <1>1, <1>2, <1>4, <2>2, <3>1, NodePut, ReadingIs
  <2> QED
    BY <2>1, <2>2
<1>6. CASE Current = NoBuilder
  <2>1. listener' = "panicked" /\ UNCHANGED storeVars
    BY <1>1, <1>6 DEF Seal, Panic
  <2> QED
    BY <1>5, <2>1, PanicKeeps
<1>7. CASE Current # NoBuilder
  <2> DEFINE O == Append(Unselaed, Current)
             last == Len(Unselaed) + 1
  <2>1. /\ Unselaed \in Seq(Block) /\ Sealed \in Seq(Block) /\ Current \in Block
        /\ Lists(O, At(node, "open"), node)
        /\ Lists(Sealed, At(node, "sealed"), node)
        /\ Lists(Storage, At(node, "committed"), node)
    BY <1>1, <1>7, ReadingIs
  <2>2. /\ O[last] = Current /\ last \in DOMAIN O /\ Without(O, last) = Unselaed
        /\ \A n \in DOMAIN Unselaed :
             n \in DOMAIN O /\ O[n] = Unselaed[n] /\ Without(O, n) = Append(Without(Unselaed, n), Current)
        /\ \A n \in DOMAIN O : n = last \/ n \in DOMAIN Unselaed
    BY <2>1, AddedIs, WithoutAdded, LenProperties
  <2> HIDE DEF O, last
  <2>3. UNCHANGED <<listener, Storage, Blocks, appending>>
    BY <1>1, <1>7 DEF Seal
  <2>4. /\ Storage' \o appending' = Storage
        /\ OffsetsOK' /\ Len(appending') <= 1 /\ appending' \in Seq(Block)
        /\ Storage' \in Seq(Block) /\ Blocks' \in Seq(0 .. MaxEpoch - 1)
        /\ listener' = "running"
    <3>1. Storage' \o appending' = Storage
      BY <1>1, <2>3, StoreRest
    <3> QED
      BY <1>1, <2>3, <3>1, StoreRest, ReadingIs
  <2>5. ASSUME node[e].status = "open"
        PROVE  /\ Lists(Storage, At(node', "committed"), node')
               /\ \A f \in Epochs : node'[f].status = "open" /\ Last(node', f) => f # e /\ Current.epoch = f
    <3>1. Lists(Storage, At(node', "committed"), node')
      BY <1>2, <1>4, <2>1, <2>5, ListsKeep
    <3>2. ASSUME NEW f \in Epochs, node'[f].status = "open", Last(node', f)
          PROVE  f # e /\ Current.epoch = f
      <4>1. f # e /\ node[f].status = "open" /\ Last(node, f)
        BY <1>2, <1>4, <2>5, <3>2, LastPut
      <4> QED
        BY <1>1, <4>1, ReadingIs DEF CurrentOK
    <3> QED
      BY <3>1, <3>2
  <2>6. CASE /\ Current.epoch = e
             /\ Sealed' = Append(Sealed, Current)
             /\ Current' = NoBuilder
             /\ UNCHANGED Unselaed
    <3>1. node[e].status = "open" /\ Current.actions = node[e].actions
      BY <2>1, <2>2, <2>6, ElementIs
    <3>2. Lists(Unselaed', At(node', "open"), node')
      <4>1. Lists(Without(O, last), At(node', "open"), node')
        BY <1>2, <1>4, <2>1, <2>2, <2>6, <3>1, ListsTake
      <4> QED
        BY <2>2, <2>6, <4>1
    <3>3. Lists(Sealed', At(node', "sealed"), node')
      <4>1. Lists(Append(Sealed, Current), At(node', "sealed"), node')
        BY <1>2, <1>4, <2>1, <2>6, <3>1, ListsPut
      <4> QED
        BY <2>6, <4>1
    <3>4. CurrentOK'
      <4>1. \A f \in Epochs : node'[f].status = "open" /\ Last(node', f) => f # e /\ Current.epoch = f
        BY <2>5, <3>1
      <4> QED
        BY <2>6, <4>1 DEF CurrentOK
    <3>5. Sealed' \in Seq(Block) /\ Unselaed' \in Seq(Block) /\ Current' \in Block \cup {NoBuilder}
      BY <2>1, <2>6, AddedIs
    <3>6. Current' = NoBuilder
      BY <2>6
    <3>7. Lists(Storage, At(node', "committed"), node')
      BY <2>5, <3>1
    <3> QED
      BY <1>5, <2>4, <3>2, <3>3, <3>4, <3>5, <3>6, <3>7, ReadingThen
  <2>7. ASSUME NEW n \in DOMAIN Unselaed,
               First(Unselaed, e, n),
               Sealed' = Append(Sealed, Unselaed[n]),
               Unselaed' = Without(Unselaed, n),
               UNCHANGED Current
        PROVE  StoreInv'
    <3>1. Unselaed[n].epoch = e
      BY <2>7 DEF First
    <3>2. node[e].status = "open" /\ Unselaed[n].actions = node[e].actions /\ Unselaed[n] \in Block
      BY <2>1, <2>2, <3>1, ElementIs
    <3>3. Lists(Append(Unselaed', Current'), At(node', "open"), node')
      <4>1. n \in DOMAIN O /\ O[n].epoch = e
        BY <2>2, <3>1
      <4>2. Lists(Without(O, n), At(node', "open"), node')
        BY <1>2, <1>4, <2>1, <3>2, <4>1, ListsTake
      <4> QED
        BY <2>2, <2>7, <4>2
    <3>4. Lists(Sealed', At(node', "sealed"), node')
      <4> DEFINE b == Unselaed[n]
      <4>1. b \in Block /\ b.epoch = e /\ b.actions = node[e].actions
        BY <3>1, <3>2
      <4> HIDE DEF b
      <4>2. Lists(Append(Sealed, b), At(node', "sealed"), node')
        BY <1>2, <1>4, <2>1, <3>2, <4>1, ListsPut
      <4> QED
        BY <2>7, <4>2 DEF b
    <3>5. CurrentOK'
      <4>1. \A f \in Epochs : node'[f].status = "open" /\ Last(node', f) => f # e /\ Current.epoch = f
        BY <2>5, <3>2
      <4> QED
        BY <1>7, <2>7, <4>1 DEF CurrentOK
    <3>6. Sealed' \in Seq(Block) /\ Unselaed' \in Seq(Block) /\ Current' \in Block \cup {NoBuilder}
      BY <2>1, <2>7, <3>2, AddedIs, WithoutIs
    <3>7. Current' # NoBuilder
      BY <1>7, <2>7
    <3>8. Lists(Storage, At(node', "committed"), node')
      BY <2>5, <3>2
    <3> QED
      BY <1>5, <2>4, <3>3, <3>4, <3>5, <3>6, <3>7, <3>8, ReadingThen
  <2>8. CASE /\ Current.epoch # e /\ \A n \in DOMAIN Unselaed : Unselaed[n].epoch # e
             /\ UNCHANGED <<Current, Unselaed, Sealed>>
    <3>1. node[e].status # "open"
      <4>1. e \notin At(node, "open")
        BY <2>1, <2>2, <2>8 DEF Lists
      <4> QED
        BY <4>1 DEF At
    <3>2. node' = node
      BY <1>1, <3>1
    <3>3. CurrentOK'
      BY <1>1, <2>8, <3>2, ReadingIs DEF CurrentOK
    <3>4. /\ Sealed' \in Seq(Block) /\ Unselaed' \in Seq(Block) /\ Current' \in Block \cup {NoBuilder}
          /\ Current' # NoBuilder
      BY <1>7, <2>1, <2>8
    <3>5. /\ Lists(Append(Unselaed', Current'), At(node', "open"), node')
          /\ Lists(Sealed', At(node', "sealed"), node')
          /\ Lists(Storage, At(node', "committed"), node')
      BY <2>1, <2>8, <3>2 DEF O
    <3> QED
      BY <1>5, <2>4, <3>3, <3>4, <3>5, ReadingThen
  <2> QED
    BY <1>1, <1>7, <2>6, <2>7, <2>8 DEF Seal
<1> QED
  BY <1>6, <1>7
(* The offset is written before the bytes. *)
LEMMA AppendBlockIs ==
  ASSUME StoreInv, Reading, NEW b \in Block, AppendBlock(b), UNCHANGED Storage,
         NEW e \in Epochs, node[e].status # "committed"
  PROVE  /\ Storage' \o appending' = Append(Storage, b)
         /\ OffsetsOK' /\ Len(appending') <= 1 /\ appending' \in Seq(Block)
         /\ Storage' \in Seq(Block) /\ Blocks' \in Seq(0 .. MaxEpoch - 1)
<1> DEFINE l == Len(Storage)
<1>1. /\ Storage \in Seq(Block) /\ Blocks \in Seq(0 .. MaxEpoch - 1) /\ Len(Blocks) = l
      /\ \A i \in DOMAIN Blocks : Blocks[i] = i - 1
      /\ Lists(Storage, At(node, "committed"), node)
  BY ReadingIs
<1>2. l \in 0 .. MaxEpoch - 1
  BY <1>1, Room DEF At
<1> HIDE DEF l
<1>3. Blocks' = Append(Blocks, l) /\ appending' = <<b>> /\ Storage' = Storage
  BY DEF AppendBlock, l
<1>4. appending' \in Seq(Block) /\ Len(appending') = 1
  BY <1>3
<1>5. Storage \o <<b>> = Append(Storage, b)
  BY <1>1, AddedIs
<1>6. /\ Blocks' \in Seq(0 .. MaxEpoch - 1) /\ Len(Blocks') = Len(Blocks) + 1
      /\ \A m \in 1 .. Len(Blocks) : Blocks'[m] = Blocks[m]
      /\ Blocks'[Len(Blocks) + 1] = l
  BY <1>1, <1>2, <1>3, AddedIs
<1>7. DOMAIN Blocks = 1 .. l /\ DOMAIN Blocks' = 1 .. l + 1 /\ Len(Storage) = l
  BY <1>1, <1>6, LenProperties DEF l
<1>8. OffsetsOK'
  <2>1. Len(Blocks') = Len(Storage') + Len(appending')
    BY <1>1, <1>3, <1>4, <1>6, <1>7
  <2>2. ASSUME NEW i \in DOMAIN Blocks'
        PROVE  Blocks'[i] = i - 1
    BY <1>1, <1>2, <1>6, <1>7
  <2> QED
    BY <2>1, <2>2 DEF OffsetsOK
<1> QED
  BY <1>1, <1>3, <1>4, <1>5, <1>6, <1>8

(* A commit moves a sealed block to the store. *)
LEMMA ReadCommitKeeps ==
  ASSUME StoreInv, NEW e \in Epochs, ReadCommit(e)
  PROVE  StoreInv'
<1>1. /\ Reading /\ node[e].status \in {"sealed", "committed"} /\ Commit(e)
      /\ node' = [node EXCEPT ![e].status = "committed"]
      /\ UNCHANGED <<listener, Storage, Current, Unselaed>>
  BY DEF ReadCommit, NodeSets, Commit
<1>2. /\ node \in Nodes /\ "committed" \in Statuses
      /\ Sealed \in Seq(Block) /\ Storage \in Seq(Block)
      /\ Lists(Sealed, At(node, "sealed"), node)
      /\ Lists(Storage, At(node, "committed"), node)
  BY <1>1, ReadingIs DEF Statuses
<1>3. node[e].actions \in Seq(Action) /\ << >> \in Seq(Action)
  BY <1>2, EmptySeq DEF Nodes
<1>4. Put(node, node', e, "committed", node[e].actions)
  <2>1. Put(node, [node EXCEPT ![e].status = "committed"], e, "committed", node[e].actions)
    BY <1>2, <1>3, PutIs
  <2> QED
    BY <1>1, <2>1
<1>5. node' \in Nodes
  BY <1>4 DEF Put
<1>6. NodeOK(node')
  BY <1>1, <1>2, <1>4, NodePut, ReadingIs
<1> DEFINE open == IF Current = NoBuilder THEN Unselaed ELSE Append(Unselaed, Current)
<1>7. Lists(open, At(node', "open"), node')
  <2>1. Lists(open, At(node, "open"), node)
    BY <1>1, ReadingIs
  <2> HIDE DEF open
  <2> QED
    BY <1>1, <1>2, <1>4, <2>1, ListsKeep
<1>8. CurrentOK'
  <2> SUFFICES ASSUME NEW f \in Epochs, node'[f].status = "open", Last(node', f)
               PROVE  Current' # NoBuilder /\ Current'.epoch = f
    BY DEF CurrentOK
  <2>1. node[f].status = "open" /\ Last(node, f)
    <3>1. "committed" # "none" /\ "committed" # "open"
      OBVIOUS
    <3> QED
      BY <1>2, <1>4, <3>1, LastPut
  <2> QED
    BY <1>1, <2>1, ReadingIs DEF CurrentOK
<1>9. /\ listener' = "running" /\ Current' \in Block \cup {NoBuilder} /\ Unselaed' \in Seq(Block)
      /\ open = (IF Current' = NoBuilder THEN Unselaed' ELSE Append(Unselaed', Current'))
  BY <1>1, ReadingIs
<1> HIDE DEF open
<1>10. ASSUME NEW n \in DOMAIN Sealed,
              First(Sealed, e, n), AppendBlock(Sealed[n]), Sealed' = Without(Sealed, n)
       PROVE  StoreInv'
  <2> DEFINE b == Sealed[n]
  <2>1. b.epoch = e
    BY <1>10 DEF First
  <2>2. b \in Block /\ node[e].status = "sealed" /\ b.actions = node[e].actions
    BY <1>2, <2>1, ElementIs
  <2>3. AppendBlock(b) /\ Sealed[n].epoch = e
    BY <1>10, <2>1
  <2> HIDE DEF b
  <2>4. Lists(Append(Storage, b), At(node', "committed"), node')
    BY <1>2, <1>4, <2>1, <2>2, ListsPut
  <2>5. Lists(Sealed', At(node', "sealed"), node')
    <3>1. Lists(Without(Sealed, n), At(node', "sealed"), node')
      BY <1>2, <1>4, <2>3, ListsTake
    <3> QED
      BY <1>10, <3>1
  <2>6. Sealed' \in Seq(Block)
    BY <1>2, <1>10, WithoutIs
  <2>7. /\ Storage' \o appending' = Append(Storage, b)
        /\ OffsetsOK' /\ Len(appending') <= 1 /\ appending' \in Seq(Block)
        /\ Storage' \in Seq(Block) /\ Blocks' \in Seq(0 .. MaxEpoch - 1)
    <3>1. UNCHANGED Storage /\ node[e].status # "committed"
      BY <1>1, <2>2
    <3> QED
      BY <1>1, <2>2, <2>3, <3>1, AppendBlockIs
  <2> QED
    BY <1>5, <1>6, <1>7, <1>8, <1>9, <2>4, <2>5, <2>6, <2>7, ReadingThen
<1>11. CASE /\ \A n \in DOMAIN Sealed : Sealed[n].epoch # e
            /\ UNCHANGED <<Sealed, Blocks, appending>>
  <2>1. e \notin At(node, "sealed")
    BY <1>2, <1>11 DEF Lists
  <2>2. node[e].status = "committed"
    BY <1>1, <2>1 DEF At
  <2>3. node' = node
    <3>1. [node EXCEPT ![e].status = "committed"] = node
      BY <1>2, <1>3, <2>2, PutIs
    <3> QED
      BY <1>1, <3>1
  <2>4. Lists(Sealed', At(node', "sealed"), node') /\ Sealed' \in Seq(Block)
    BY <1>2, <1>11, <2>3
  <2>5. Lists(Storage, At(node', "committed"), node')
    BY <1>2, <2>3
  <2>6. /\ Storage' \o appending' = Storage
        /\ OffsetsOK' /\ Len(appending') <= 1 /\ appending' \in Seq(Block)
        /\ Storage' \in Seq(Block) /\ Blocks' \in Seq(0 .. MaxEpoch - 1)
    BY <1>1, <1>11, StoreRest
  <2> QED
    BY <1>5, <1>6, <1>7, <1>8, <1>9, <2>4, <2>5, <2>6, ReadingThen
<1> QED
  BY <1>1, <1>10, <1>11 DEF Commit

(* A block as one message. *)
LEMMA ReadWholeKeeps ==
  ASSUME StoreInv, NEW actions \in Seq(Action), ReadWhole(actions)
  PROVE  StoreInv'
<1> DEFINE e == Newest + 1
           b == [epoch |-> e, actions |-> actions]
<1>1. /\ Reading /\ e \in Epochs
      /\ \/ /\ Whole(e, "committed", actions) /\ AppendBlock(b) /\ UNCHANGED Sealed
         \/ /\ Whole(e, "sealed", actions) /\ Sealed' = Append(Sealed, b)
            /\ UNCHANGED <<Blocks, appending>>
      /\ UNCHANGED <<listener, Storage, Current, Unselaed>>
  BY DEF ReadWhole
<1>2. /\ node \in Nodes /\ "committed" \in Statuses /\ "sealed" \in Statuses
      /\ Sealed \in Seq(Block) /\ Storage \in Seq(Block)
      /\ Lists(Sealed, At(node, "sealed"), node)
      /\ Lists(Storage, At(node, "committed"), node)
      /\ \A f \in Epochs : node[f].status # "none" <=> f <= e - 1
  BY <1>1, ReadingIs, BreezeAssumption DEF Statuses, Epochs
<1>3. b \in Block /\ b.epoch = e /\ b.actions = actions
  BY <1>1, FreshIs
<1> HIDE DEF e, b
<1>4. node[e].status = "none"
  <2>1. ~ (e <= e - 1)
    BY <1>1 DEF Epochs
  <2> QED
    BY <1>1, <1>2, <2>1
<1> DEFINE open == IF Current = NoBuilder THEN Unselaed ELSE Append(Unselaed, Current)
<1>5. Lists(open, At(node, "open"), node)
  BY <1>1, ReadingIs
<1>6. /\ listener' = "running" /\ Current' \in Block \cup {NoBuilder} /\ Unselaed' \in Seq(Block)
      /\ open = (IF Current' = NoBuilder THEN Unselaed' ELSE Append(Unselaed', Current'))
  BY <1>1, ReadingIs
<1> HIDE DEF open
<1>7. ASSUME NEW status \in {"sealed", "committed"}, Put(node, node', e, status, actions)
      PROVE  /\ node' \in Nodes /\ NodeOK(node') /\ CurrentOK'
             /\ Lists(open, At(node', "open"), node')
  <2>1. status \in Statuses /\ status # "none" /\ status # "open"
    BY <1>7 DEF Statuses
  <2>2. node' \in Nodes
    BY <1>7 DEF Put
  <2>3. NodeOK(node')
    BY <1>1, <1>2, <1>7, <2>1, NodePut, ReadingIs
  <2>4. Lists(open, At(node', "open"), node')
    BY <1>1, <1>2, <1>4, <1>5, <1>7, <2>1, ListsKeep
  <2>5. CurrentOK'
    <3> SUFFICES ASSUME NEW f \in Epochs, node'[f].status = "open", Last(node', f)
                 PROVE  Current' # NoBuilder /\ Current'.epoch = f
      BY DEF CurrentOK
    <3>1. node[f].status = "open" /\ Last(node, f)
      BY <1>1, <1>2, <1>7, <2>1, LastPut
    <3> QED
      BY <1>1, <3>1, ReadingIs DEF CurrentOK
  <2> QED
    BY <2>2, <2>3, <2>4, <2>5
<1>8. CASE Whole(e, "committed", actions) /\ AppendBlock(b) /\ UNCHANGED Sealed
  <2>1. Put(node, node', e, "committed", actions)
    <3>1. Put(node, [node EXCEPT ![e] = [status |-> "committed", actions |-> actions]], e, "committed", actions)
      BY <1>1, <1>2, PutIs
    <3> QED
      BY <1>8, <3>1 DEF Whole
  <2>2. /\ node' \in Nodes /\ NodeOK(node') /\ CurrentOK'
        /\ Lists(open, At(node', "open"), node')
    BY <1>7, <2>1
  <2>3. Lists(Sealed', At(node', "sealed"), node') /\ Sealed' \in Seq(Block)
    <3>1. Lists(Sealed, At(node', "sealed"), node')
      BY <1>1, <1>2, <1>4, <2>1, ListsKeep
    <3> QED
      BY <1>2, <1>8, <3>1
  <2>4. Lists(Append(Storage, b), At(node', "committed"), node')
    BY <1>1, <1>2, <1>3, <1>4, <2>1, ListsPut
  <2>5. /\ Storage' \o appending' = Append(Storage, b)
        /\ OffsetsOK' /\ Len(appending') <= 1 /\ appending' \in Seq(Block)
        /\ Storage' \in Seq(Block) /\ Blocks' \in Seq(0 .. MaxEpoch - 1)
    <3>1. UNCHANGED Storage /\ node[e].status # "committed" /\ AppendBlock(b)
      BY <1>1, <1>4, <1>8
    <3> QED
      BY <1>1, <1>3, <3>1, AppendBlockIs
  <2> QED
    BY <1>6, <2>2, <2>3, <2>4, <2>5, ReadingThen
<1>9. CASE /\ Whole(e, "sealed", actions) /\ Sealed' = Append(Sealed, b)
           /\ UNCHANGED <<Blocks, appending>>
  <2>1. Put(node, node', e, "sealed", actions)
    <3>1. Put(node, [node EXCEPT ![e] = [status |-> "sealed", actions |-> actions]], e, "sealed", actions)
      BY <1>1, <1>2, PutIs
    <3> QED
      BY <1>9, <3>1 DEF Whole
  <2>2. /\ node' \in Nodes /\ NodeOK(node') /\ CurrentOK'
        /\ Lists(open, At(node', "open"), node')
    BY <1>7, <2>1
  <2>3. Lists(Sealed', At(node', "sealed"), node') /\ Sealed' \in Seq(Block)
    <3>1. Lists(Append(Sealed, b), At(node', "sealed"), node')
      BY <1>1, <1>2, <1>3, <1>4, <2>1, ListsPut
    <3>2. Append(Sealed, b) \in Seq(Block)
      BY <1>2, <1>3, AddedIs
    <3> QED
      BY <1>9, <3>1, <3>2
  <2>4. Lists(Storage, At(node', "committed"), node')
    BY <1>1, <1>2, <1>4, <2>1, ListsKeep
  <2>5. /\ Storage' \o appending' = Storage
        /\ OffsetsOK' /\ Len(appending') <= 1 /\ appending' \in Seq(Block)
        /\ Storage' \in Seq(Block) /\ Blocks' \in Seq(0 .. MaxEpoch - 1)
    <3>1. UNCHANGED <<Storage, Blocks, appending>>
      BY <1>1, <1>9
    <3> QED
      BY <1>1, <3>1, StoreRest
  <2> QED
    BY <1>6, <2>2, <2>3, <2>4, <2>5, ReadingThen
<1> QED
  BY <1>1, <1>8, <1>9

(* The bytes of the block whose offset is there. *)
LEMMA WriteBytesKeeps ==
  ASSUME StoreInv, WriteBytes
  PROVE  StoreInv'
<1>1. /\ listener = "running" /\ appending # << >>
      /\ Storage' = Storage \o appending /\ appending' = << >>
      /\ UNCHANGED <<node, listener, Blocks, Current, Unselaed, Sealed>>
  BY DEF WriteBytes
<1>2. StoreTyped /\ NodeOK(node) /\ PlacesOK /\ CurrentOK /\ OffsetsOK
  BY <1>1 DEF StoreInv
<1>3. /\ Storage' \in Seq(Block) /\ Len(Storage') = Len(Storage) + Len(appending)
      /\ appending' \in Seq(Block) /\ Len(appending') = 0
      /\ Len(Storage) \in Nat /\ Len(appending) \in Nat
  BY <1>1, <1>2, ConcatProperties, EmptySeq, LenProperties DEF StoreTyped
<1>4. Storage' \o appending' = Storage \o appending
  BY <1>1, <1>3, ConcatEmptySeq
<1>5. StoreTyped'
  BY <1>1, <1>2, <1>3 DEF StoreTyped
<1>6. PlacesOK'
  BY <1>1, <1>2, <1>4 DEF PlacesOK, CurrentBlocks
<1>7. CurrentOK'
  BY <1>1, <1>2 DEF CurrentOK
<1>8. OffsetsOK'
  <2>1. Len(Blocks') = Len(Storage') + Len(appending')
    BY <1>1, <1>2, <1>3 DEF OffsetsOK
  <2> QED
    BY <1>1, <1>2, <2>1 DEF OffsetsOK
<1> QED
  BY <1>1, <1>2, <1>5, <1>6, <1>7, <1>8 DEF StoreInv

(* Nothing of the store changes. *)
LEMMA StoreSame ==
  ASSUME StoreInv, node' = node, UNCHANGED storeVars,
         listener' # listener => listener # "panicked" /\ listener' \in {"ended", "panicked"}
  PROVE  StoreInv'
BY DEF StoreInv, StoreTyped, PlacesOK, CurrentOK, OffsetsOK, CurrentBlocks, storeVars

(* NewBlockListener and ExecuteQuery keep the invariant of the store. *)
THEOREM StoreStep == StoreInv /\ [BreezeNext]_breezeVars => StoreInv'
<1> SUFFICES ASSUME StoreInv, [BreezeNext]_breezeVars
             PROVE  StoreInv'
  OBVIOUS
<1>1. CASE ReadNewBlock
  BY <1>1, ReadNewBlockKeeps
<1>2. ASSUME NEW a \in Action, ReadAction(a)
      PROVE  StoreInv'
  BY <1>2, ReadActionKeeps
<1>3. ASSUME NEW e \in Epochs, ReadSeal(e)
      PROVE  StoreInv'
  BY <1>3, ReadSealKeeps
<1>4. ASSUME NEW e \in Epochs, ReadCommit(e)
      PROVE  StoreInv'
  BY <1>4, ReadCommitKeeps
<1>5. CASE ReadWhole(<< >>)
  <2>1. << >> \in Seq(Action)
    BY EmptySeq
  <2> QED
    BY <1>5, <2>1, ReadWholeKeeps
<1>6. ASSUME NEW a \in Action, ReadWhole(<<a>>)
      PROVE  StoreInv'
  <2>1. <<a>> \in Seq(Action)
    OBVIOUS
  <2> QED
    BY <1>6, <2>1, ReadWholeKeeps
<1>7. CASE WriteBytes
  BY <1>7, WriteBytesKeeps
<1>8. CASE ReadError
  <2>1. node' = node /\ UNCHANGED storeVars /\ listener = "running" /\ listener' = "ended"
    BY <1>8 DEF ReadError, Reading
  <2> QED
    BY <2>1, StoreSame
<1>9. CASE Query
  <2>1. node' = node /\ UNCHANGED storeVars
    BY <1>9 DEF Query, StartQuery, ReadBlock, QueryPanics, EndQuery
  <2>2. listener' # listener => listener # "panicked" /\ listener' \in {"ended", "panicked"}
    BY <1>9 DEF Query, StartQuery, ReadBlock, QueryPanics, EndQuery, Querying
  <2> QED
    BY <2>1, <2>2, StoreSame
<1>10. CASE UNCHANGED breezeVars
  <2>1. node' = node /\ listener' = listener /\ UNCHANGED storeVars
    BY <1>10 DEF breezeVars
  <2> QED
    BY <2>1, StoreSame
<1> QED
  BY <1>1, <1>2, <1>3, <1>4, <1>5, <1>6, <1>7, <1>8, <1>9, <1>10 DEF BreezeNext, Listen

-----------------------------------------------------------------------------
(* Sequences one after the other, from one prefix to the next. *)
LEMMA JoinedIs ==
  ASSUME NEW S, NEW w \in Seq(Seq(S))
  PROVE  /\ \A n \in 0 .. Len(w) : Joined(w)[n] \in Seq(S)
         /\ Joined(w)[0] = << >>
         /\ \A n \in 1 .. Len(w) : Joined(w)[n] = Joined(w)[n - 1] \o w[n]
<1> DEFINE L == Len(w)
           X == Seq(S)
           x0 == << >>
           G == [n \in 1 .. L |-> [x \in X |-> x \o w[n]]]
           j == CHOOSE j : j = [n \in 0 .. Len(w) |-> IF n = 0 THEN << >> ELSE j[n - 1] \o w[n]]
<1>1. L \in Nat /\ \A n \in 1 .. L : w[n] \in X
  BY LenProperties
<1>2. \A n \in 1 .. L : \A x \in X : G[n][x] = x \o w[n]
  OBVIOUS
<1>3. x0 \in X
  BY EmptySeq
<1>4. \A n \in 1 .. L : \A x \in X : x \o w[n] \in X
  BY <1>1, ConcatProperties
<1> HIDE DEF G, L, X
<1>5. Steps(G, X, L)
  BY <1>2, <1>4 DEF Steps
<1>6. PICK f : Unfolds(f, X, x0, G, L)
  <2> HIDE DEF x0
  <2> QED
    BY <1>1, <1>3, <1>5, Recursion
<1>7. \A n \in 1 .. L : n - 1 \in 0 .. L
  BY <1>1
<1>8. \A n \in 1 .. L : f[n] = f[n - 1] \o w[n]
  BY <1>2, <1>6, <1>7 DEF Unfolds
<1>9. f = [n \in 0 .. L |-> IF n = 0 THEN << >> ELSE f[n - 1] \o w[n]]
  <2>1. \A n \in 0 .. L : f[n] = IF n = 0 THEN << >> ELSE f[n - 1] \o w[n]
    <3>1. \A n \in 0 .. L : n = 0 \/ n \in 1 .. L
      BY <1>1
    <3>2. f[0] = << >>
      BY <1>6 DEF Unfolds
    <3> QED
      BY Zenon, <1>8, <3>1, <3>2
  <2>2. f = [n \in 0 .. L |-> f[n]]
    BY <1>6 DEF Unfolds
  <2> QED
    BY <2>1, <2>2
<1>10. j = [n \in 0 .. L |-> IF n = 0 THEN << >> ELSE j[n - 1] \o w[n]]
  BY Zenon, <1>9 DEF L
<1>11. Joined(w) = j
  BY DEF Joined
<1> HIDE DEF j
<1>12. j[0] = << >> /\ \A n \in 1 .. L : j[n] = j[n - 1] \o w[n]
  <2>1. \A n \in 0 .. L : j[n] = IF n = 0 THEN << >> ELSE j[n - 1] \o w[n]
    BY <1>10
  <2>2. 0 \in 0 .. L /\ \A n \in 1 .. L : n \in 0 .. L /\ n # 0
    BY <1>1
  <2> QED
    BY <2>1, <2>2
<1> DEFINE T == {n \in 0 .. L : j[n] \in X}
<1>13. Inductive(T, L)
  <2>1. 0 \in T
    BY <1>1, <1>3, <1>12
  <2>2. ASSUME NEW n \in 1 .. L, n - 1 \in T
        PROVE  n \in T
    <3>1. n - 1 \in 0 .. L /\ n \in 0 .. L
      BY <1>1
    <3>2. j[n - 1] \in X
      BY <2>2
    <3>3. j[n - 1] \o w[n] \in X
      BY <1>4, <3>2
    <3> QED
      BY <1>12, <3>1, <3>3
  <2> QED
    BY <2>1, <2>2 DEF Inductive
<1> HIDE DEF T
<1>14. \A n \in 0 .. L : n \in T
  BY <1>1, <1>13, UpTo
<1>15. \A n \in 0 .. L : j[n] \in X
  BY <1>14 DEF T
<1> QED
  BY <1>11, <1>12, <1>15 DEF L, X

-----------------------------------------------------------------------------
(* The loop of a query over a block. *)
Loops(wanted) == [processed : 0 .. Len(wanted), sent : Seq(Filtered)]

Stays(wanted, n, r) == r.processed = Len(wanted) \/ n - 1 # wanted[r.processed + 1]

(* One round of the loop: the action is not the next wanted one, or it is  *)
(* counted and sent if the filter takes it.                                *)
LEMMA OneActionIs ==
  ASSUME NEW block \in Seq(Action), NEW wanted \in Seq(Nat),
         NEW n \in 1 .. Len(block), NEW r \in Loops(wanted)
  PROVE  /\ OneAction(block, wanted, n, r) \in Loops(wanted)
         /\ Stays(wanted, n, r) => OneAction(block, wanted, n, r) = r
         /\ ~ Stays(wanted, n, r) =>
              /\ r.processed + 1 \in 1 .. Len(wanted) /\ wanted[r.processed + 1] = n - 1
              /\ OneAction(block, wanted, n, r).processed = r.processed + 1
              /\ OneAction(block, wanted, n, r).sent =
                   IF block[n] \in Filtered THEN Append(r.sent, block[n]) ELSE r.sent
<1> DEFINE p == r.processed
           sent == IF block[n] \in Filtered THEN Append(r.sent, block[n]) ELSE r.sent
<1>1. p \in 0 .. Len(wanted) /\ r.sent \in Seq(Filtered) /\ Len(wanted) \in Nat
  BY LenProperties DEF Loops
<1>2. sent \in Seq(Filtered)
  BY <1>1, AddedIs
<1>3. CASE Stays(wanted, n, r)
  BY <1>3 DEF Stays, OneAction
<1>4. CASE ~ Stays(wanted, n, r)
  <2>1. OneAction(block, wanted, n, r) = [processed |-> p + 1, sent |-> sent]
    BY <1>4 DEF Stays, OneAction, Found
  <2>2. p # Len(wanted) /\ wanted[p + 1] = n - 1
    BY <1>4 DEF Stays
  <2>3. p + 1 \in 1 .. Len(wanted)
    BY SMTT(20), <1>1, <2>2
  <2> HIDE DEF p, sent
  <2>4. /\ OneAction(block, wanted, n, r) \in Loops(wanted)
        /\ OneAction(block, wanted, n, r).processed = p + 1
        /\ OneAction(block, wanted, n, r).sent = sent
    BY <1>1, <1>2, <2>1, <2>3 DEF Loops
  <2> QED
    BY <1>4, <2>2, <2>3, <2>4 DEF p, sent
<1> QED
  BY <1>3, <1>4

(* The loop round by round. *)
LEMMA LoopIs ==
  ASSUME NEW block \in Seq(Action), NEW wanted \in Seq(Nat)
  PROVE  /\ \A n \in 0 .. Len(block) : Loop(block, wanted)[n] \in Loops(wanted)
         /\ Loop(block, wanted)[0] = Begun
         /\ \A n \in 1 .. Len(block) :
              Loop(block, wanted)[n] = OneAction(block, wanted, n, Loop(block, wanted)[n - 1])
<1> DEFINE L == Len(block)
           X == Loops(wanted)
           x0 == Begun
           next(n, x) == OneAction(block, wanted, n, x)
           G == [n \in 1 .. L |-> [x \in X |-> next(n, x)]]
           j == CHOOSE j : j = [n \in 0 .. Len(block) |->
                                  IF n = 0 THEN Begun ELSE OneAction(block, wanted, n, j[n - 1])]
<1>1. L \in Nat /\ Len(wanted) \in Nat
  BY LenProperties
<1>2. x0 \in X
  BY <1>1, EmptySeq DEF Loops, Begun
<1>3. \A n \in 1 .. L : \A x \in X : next(n, x) \in X
  BY OneActionIs
<1>4. Loop(block, wanted) = j
  BY DEF Loop
<1>5. (\E f : f = [n \in 0 .. L |-> IF n = 0 THEN x0 ELSE next(n, f[n - 1])])
        => j = [n \in 0 .. L |-> IF n = 0 THEN x0 ELSE next(n, j[n - 1])]
  OBVIOUS
<1> HIDE DEF next, j, X, x0, L
<1>6. \A n \in 1 .. L : \A x \in X : G[n][x] = next(n, x)
  OBVIOUS
<1> HIDE DEF G
<1>7. Steps(G, X, L)
  BY <1>3, <1>6 DEF Steps
<1>8. PICK f : Unfolds(f, X, x0, G, L)
  BY <1>1, <1>2, <1>7, Recursion
<1>9. \A n \in 1 .. L : n - 1 \in 0 .. L
  BY <1>1
<1>10. \A n \in 1 .. L : f[n] = next(n, f[n - 1])
  BY <1>6, <1>8, <1>9 DEF Unfolds
<1>11. f = [n \in 0 .. L |-> IF n = 0 THEN x0 ELSE next(n, f[n - 1])]
  <2>1. \A n \in 0 .. L : f[n] = IF n = 0 THEN x0 ELSE next(n, f[n - 1])
    <3>1. \A n \in 0 .. L : n = 0 \/ n \in 1 .. L
      BY <1>1
    <3>2. f[0] = x0
      BY <1>8 DEF Unfolds
    <3>3. \A n \in 1 .. L : n # 0
      OBVIOUS
    <3> QED
      BY <1>10, <3>1, <3>2, <3>3
  <2>2. f = [n \in 0 .. L |-> f[n]]
    BY <1>8 DEF Unfolds
  <2> QED
    BY <2>1, <2>2
<1>12. j = [n \in 0 .. L |-> IF n = 0 THEN x0 ELSE next(n, j[n - 1])]
  BY <1>5, <1>11
<1>13. j[0] = x0 /\ \A n \in 1 .. L : j[n] = next(n, j[n - 1])
  <2>1. \A n \in 0 .. L : j[n] = IF n = 0 THEN x0 ELSE next(n, j[n - 1])
    BY <1>12
  <2>2. 0 \in 0 .. L /\ \A n \in 1 .. L : n \in 0 .. L /\ n # 0
    BY <1>1
  <2> QED
    BY <2>1, <2>2
<1> DEFINE T == {n \in 0 .. L : j[n] \in X}
<1>14. Inductive(T, L)
  <2>1. 0 \in T
    BY <1>1, <1>2, <1>13
  <2>2. ASSUME NEW n \in 1 .. L, n - 1 \in T
        PROVE  n \in T
    <3>1. n - 1 \in 0 .. L /\ n \in 0 .. L
      BY <1>1
    <3>2. j[n - 1] \in X
      BY <2>2
    <3>3. next(n, j[n - 1]) \in X
      BY <1>3, <3>2
    <3> QED
      BY <1>13, <3>1, <3>3
  <2> QED
    BY <2>1, <2>2 DEF Inductive
<1> HIDE DEF T
<1>15. \A n \in 0 .. L : n \in T
  BY <1>1, <1>14, UpTo
<1>16. \A n \in 0 .. L : j[n] \in X
  BY <1>15 DEF T
<1> QED
  BY <1>4, <1>13, <1>16 DEF L, X, x0, next

(* What is sent are actions that the filter takes. *)
LEMMA MatchesIn ==
  ASSUME NEW block \in Seq(Action), NEW wanted \in Seq(Nat)
  PROVE  Matches(block, wanted) \in Seq(Filtered)
<1>1. Len(block) \in 0 .. Len(block)
  BY LenProperties
<1>2. Loop(block, wanted)[Len(block)] \in Loops(wanted)
  BY <1>1, LoopIs
<1> QED
  BY <1>2 DEF Matches, Loops

(* What a wanted position of a block stands for. *)
LEMMA HitsIs ==
  ASSUME NEW block \in Seq(Action), NEW wanted \in Seq(Nat)
  PROVE  /\ Hits(block, wanted) \in Seq(Seq(Filtered))
         /\ Len(Hits(block, wanted)) = Len(wanted)
         /\ \A k \in 1 .. Len(wanted) :
              Hits(block, wanted)[k] = IF wanted[k] < Len(block) /\ block[wanted[k] + 1] \in Filtered
                                         THEN <<block[wanted[k] + 1]>> ELSE << >>
<1> DEFINE K == Len(wanted)
           hit(k) == IF wanted[k] < Len(block) /\ block[wanted[k] + 1] \in Filtered
                       THEN <<block[wanted[k] + 1]>> ELSE << >>
           h == [k \in 1 .. K |-> hit(k)]
<1>1. K \in Nat /\ << >> \in Seq(Filtered)
  BY LenProperties, EmptySeq
<1>2. \A k \in 1 .. K : hit(k) \in Seq(Filtered)
  BY <1>1
<1>3. Hits(block, wanted) = h
  BY DEF Hits
<1> HIDE DEF hit, K
<1>4. h \in Seq(Seq(Filtered)) /\ Len(h) = K /\ \A k \in 1 .. K : h[k] = hit(k)
  BY <1>1, <1>2
<1> QED
  BY <1>3, <1>4 DEF hit, K

(* What the wanted actions of a block are. *)
LEMMA WantedIs ==
  ASSUME NEW block \in Seq(Action), NEW wanted \in Seq(Nat)
  PROVE  WantedOf(block, wanted) \in Seq(Filtered)
<1> DEFINE h == Hits(block, wanted)
<1>1. h \in Seq(Seq(Filtered)) /\ Len(h) = Len(wanted) /\ Len(wanted) \in 0 .. Len(wanted)
  BY HitsIs, LenProperties
<1>2. WantedOf(block, wanted) = Joined(h)[Len(wanted)]
  BY DEF WantedOf
<1> HIDE DEF h
<1> QED
  BY <1>1, <1>2, JoinedIs

(* The loop finds the wanted actions, when they are in order.              *)
THEOREM MatchesWanted ==
  ASSUME NEW block \in Seq(Action), NEW wanted \in Seq(Nat), Increasing(wanted)
  PROVE  Matches(block, wanted) = WantedOf(block, wanted)
<1> DEFINE L == Len(block)
           K == Len(wanted)
           h == Hits(block, wanted)
           j == Joined(h)
           f == Loop(block, wanted)
           Done(n) == /\ f[n].sent = j[f[n].processed]
                      /\ \A k \in 1 .. K : k > f[n].processed => wanted[k] >= n
           T == {n \in 0 .. L : Done(n)}
<1>1. /\ L \in Nat /\ K \in Nat
      /\ \A n \in 1 .. L : block[n] \in Action
      /\ \A k \in 1 .. K : wanted[k] \in Nat
  BY LenProperties
<1>2. h \in Seq(Seq(Filtered)) /\ Len(h) = K
  BY HitsIs
<1>3. \A k \in 1 .. K : h[k] = IF wanted[k] < L /\ block[wanted[k] + 1] \in Filtered
                                 THEN <<block[wanted[k] + 1]>> ELSE << >>
  BY HitsIs
<1>4. Matches(block, wanted) = f[L].sent /\ WantedOf(block, wanted) = j[K]
  BY DEF Matches, WantedOf
<1> HIDE DEF h
<1>5. /\ \A k \in 0 .. K : j[k] \in Seq(Filtered)
      /\ j[0] = << >>
      /\ \A k \in 1 .. K : j[k] = j[k - 1] \o h[k]
  BY <1>2, JoinedIs
<1>6. /\ \A n \in 0 .. L : f[n] \in Loops(wanted)
      /\ f[0] = Begun
      /\ \A n \in 1 .. L : f[n] = OneAction(block, wanted, n, f[n - 1])
  BY LoopIs
<1>7. \A i, k \in 1 .. K : i < k => wanted[i] < wanted[k]
  BY LenProperties DEF Increasing
<1> HIDE DEF j, f, L, K
<1>8. \A n \in 0 .. L : f[n].processed \in 0 .. K /\ f[n].sent \in Seq(Filtered)
  BY <1>6 DEF Loops, K
<1>9. 0 \in T
  <2>1. f[0].processed = 0 /\ f[0].sent = << >>
    BY <1>6 DEF Begun
  <2>2. Done(0)
    BY <1>1, <1>5, <2>1
  <2> QED
    BY <1>1, <2>2
<1>10. ASSUME NEW n \in 1 .. L, n - 1 \in T
       PROVE  n \in T
  <2> DEFINE r == f[n - 1]
             p == r.processed
  <2>1. n - 1 \in 0 .. L /\ n \in 0 .. L /\ n \in Nat
    BY <1>1
  <2>2. r \in Loops(wanted) /\ p \in 0 .. K /\ r.sent \in Seq(Filtered)
    BY <1>6, <1>8, <2>1
  <2>3. r.sent = j[p] /\ \A k \in 1 .. K : k > p => wanted[k] >= n - 1
    BY <1>10
  <2>4. f[n] = OneAction(block, wanted, n, r)
    BY <1>6
  <2> HIDE DEF r
  <2>5. CASE Stays(wanted, n, r)
    <3>1. f[n] = r
      BY <2>2, <2>4, <2>5, OneActionIs DEF L
    <3>2. ASSUME NEW k \in 1 .. K, k > p
          PROVE  wanted[k] >= n
      <4>1. p + 1 \in 1 .. K /\ p # K
        BY <1>1, <2>2, <3>2
      <4>2. wanted[p + 1] # n - 1 /\ wanted[p + 1] >= n - 1 /\ wanted[p + 1] \in Nat
        <5>1. wanted[p + 1] # n - 1
          BY <2>5, <4>1 DEF Stays, K
        <5>2. p + 1 > p
          BY <2>2
        <5> HIDE DEF p
        <5>3. wanted[p + 1] >= n - 1 /\ wanted[p + 1] \in Nat
          BY <1>1, <2>3, <4>1, <5>2
        <5> QED
          BY <5>1, <5>3
      <4>3. wanted[p + 1] >= n
        BY <2>1, <4>2
      <4>4. k = p + 1 \/ wanted[p + 1] < wanted[k]
        BY <1>7, <2>2, <3>2, <4>1
      <4> QED
        <5>1. wanted[k] \in Nat
          BY <1>1
        <5> HIDE DEF p
        <5> QED
          BY <2>1, <4>2, <4>3, <4>4, <5>1
    <3> QED
      BY <2>1, <2>3, <3>1, <3>2
  <2>6. CASE ~ Stays(wanted, n, r)
    <3>1. /\ p + 1 \in 1 .. K /\ wanted[p + 1] = n - 1
          /\ f[n].processed = p + 1
          /\ f[n].sent = IF block[n] \in Filtered THEN Append(r.sent, block[n]) ELSE r.sent
      BY <2>2, <2>4, <2>6, OneActionIs DEF L, K
    <3>2. h[p + 1] = IF block[n] \in Filtered THEN <<block[n]>> ELSE << >>
      <4>1. wanted[p + 1] < L /\ wanted[p + 1] + 1 = n
        BY <1>1, <2>1, <3>1
      <4> QED
        BY <1>3, <3>1, <4>1
    <3>3. j[p + 1] = j[p] \o h[p + 1]
      <4>1. (p + 1) - 1 = p
        BY <2>2
      <4> QED
        BY <1>5, <3>1, <4>1
    <3>4. f[n].sent = j[p + 1]
      <4>1. CASE block[n] \in Filtered
        <5>1. /\ f[n].sent = Append(j[p], block[n]) /\ j[p + 1] = j[p] \o <<block[n]>>
              /\ j[p] \in Seq(Filtered)
          BY <2>2, <2>3, <3>1, <3>2, <3>3, <4>1
        <5>2. j[p] \o <<block[n]>> = Append(j[p], block[n])
          <6> DEFINE s == j[p]
                     b == block[n]
          <6>1. s \in Seq(Filtered) /\ b \in Filtered
            BY <4>1, <5>1
          <6> HIDE DEF s, b
          <6>2. s \o <<b>> = Append(s, b)
            BY <6>1, AddedIs
          <6> QED
            BY <6>2 DEF s, b
        <5> QED
          BY <5>1, <5>2
      <4>2. CASE block[n] \notin Filtered
        BY <2>2, <2>3, <3>1, <3>2, <3>3, <4>2, ConcatEmptySeq
      <4> QED
        BY <4>1, <4>2
    <3>5. ASSUME NEW k \in 1 .. K, k > p + 1
          PROVE  wanted[k] >= n
      <4>1. wanted[p + 1] < wanted[k]
        BY <1>7, <3>1, <3>5
      <4> QED
        <5>1. wanted[k] \in Nat
          BY <1>1
        <5> HIDE DEF p
        <5> QED
          BY <2>1, <3>1, <4>1, <5>1
    <3> QED
      BY <2>1, <3>1, <3>4, <3>5
  <2> QED
    BY <2>5, <2>6
<1>11. Inductive(T, L)
  <2> HIDE DEF T
  <2> QED
    BY <1>9, <1>10 DEF Inductive
<1>12. L \in T
  <2> HIDE DEF T
  <2>1. \A n \in 0 .. L : n \in T
    BY <1>1, <1>11, UpTo
  <2> QED
    BY <1>1, <2>1
<1> DEFINE q == f[L].processed
           U == {k \in 0 .. K : k >= q => j[k] = j[q]}
<1>13. q \in 0 .. K /\ f[L].sent = j[q] /\ \A k \in 1 .. K : k > q => wanted[k] >= L
  BY <1>1, <1>8, <1>12
<1> HIDE DEF q
<1>14. Inductive(U, K)
  <2>1. 0 \in U
    BY <1>1, <1>13
  <2>2. ASSUME NEW k \in 1 .. K, k - 1 \in U
        PROVE  k \in U
    <3>1. CASE k > q
      <4>1. j[k - 1] = j[q] /\ k - 1 \in 0 .. K
        BY <1>1, <1>13, <2>2, <3>1
      <4>2. h[k] = << >>
        <5>1. ~ (wanted[k] < L)
          BY <1>1, <1>13, <3>1
        <5> QED
          BY <1>3, <5>1
      <4>3. j[k] = j[q] \o << >>
        BY <1>5, <4>1, <4>2
      <4>4. j[k] = j[q]
        BY <1>5, <1>13, <4>3, ConcatEmptySeq
      <4> QED
        BY <1>1, <4>4
    <3>2. CASE ~ (k > q)
      BY <1>1, <1>13, <3>2
    <3> QED
      BY <3>1, <3>2
  <2> HIDE DEF U
  <2> QED
    BY <2>1, <2>2 DEF Inductive
<1>15. K \in U
  <2> HIDE DEF U
  <2>1. \A n \in 0 .. K : n \in U
    BY <1>1, <1>14, UpTo
  <2> QED
    BY <1>1, <2>1
<1> QED
  BY <1>1, <1>4, <1>13, <1>15

-----------------------------------------------------------------------------
(* The invariant of the queries.  Right says of s, with the records blocks,*)
(* that it is what QueryExact allows for the QueryBlock b.                 *)
Right(blocks, b, bound, s, cut) ==
  LET wanted == WantedOf(blocks[b.Epoch + 1].actions, b.Actions) IN
  Increasing(b.Actions) =>
    \/ b.Epoch >= bound /\ s = << >>
    \/ b.Epoch < Len(blocks) /\ Prefix(s, wanted) /\ (cut \/ s = wanted)

Cut(n) == outcome = "error" /\ n = Len(answer)

QueryTyped ==
  /\ asked \in Seq(QueryBlock) /\ query \in Seq(QueryBlock)
  /\ stored \in Nat /\ stored <= Len(Storage)
  /\ answer \in Seq(Seq(Filtered))
  /\ outcome \in {"none", "running", "nil", "error"}

RestOK ==
  /\ Len(asked) = Len(answer) + Len(query)
  /\ \A i \in 1 .. Len(query) : query[i] = asked[Len(answer) + i]
  /\ outcome = "nil" => query = << >>

AnswerOK ==
  \A n \in 1 .. Len(answer) : Right(Storage, asked[n], stored, answer[n], Cut(n))

QueryInv == QueryTyped /\ RestOK /\ AnswerOK

BreezeInv == StoreInv /\ QueryInv

(* Blocks that are stored later change nothing of it. *)
LEMMA RightStays ==
  ASSUME NEW blocks \in Seq(Block), NEW more \in Seq(Block), NEW b \in QueryBlock,
         NEW bound, NEW s, NEW cut, Right(blocks, b, bound, s, cut)
  PROVE  Right(blocks \o more, b, bound, s, cut)
<1> DEFINE c == blocks \o more
<1>1. /\ Len(blocks) \in Nat /\ Len(more) \in Nat /\ b.Epoch \in Nat
      /\ Len(c) = Len(blocks) + Len(more)
      /\ \A i \in 1 .. Len(blocks) : c[i] = blocks[i]
  BY ConcatProperties, LenProperties DEF QueryBlock
<1> HIDE DEF c
<1>2. b.Epoch < Len(blocks) => b.Epoch < Len(c) /\ c[b.Epoch + 1] = blocks[b.Epoch + 1]
  BY <1>1
<1> QED
  BY <1>2 DEF Right, c

(* GetBlock finds a stored block. *)
LEMMA GetBlockIs ==
  ASSUME StoreInv, listener # "panicked", NEW place \in Nat
  PROVE  /\ GetBlock(place) \in Seq(Action)
         /\ GetBlock(place) = IF place < Len(Storage) THEN Storage[place + 1].actions ELSE << >>
<1>1. StoreTyped /\ OffsetsOK
  BY DEF StoreInv
<1>2. /\ Storage \in Seq(Block) /\ Len(Storage) \in Nat
      /\ \A i \in 1 .. Len(Storage) : Storage[i] \in Block
      /\ Len(Blocks) \in Nat /\ DOMAIN Blocks = 1 .. Len(Blocks)
      /\ Len(appending) \in Nat /\ << >> \in Seq(Action)
  BY <1>1, EmptySeq, LenProperties DEF StoreTyped
<1>3. place < Len(Blocks) => Blocks[place + 1] = place
  BY <1>1, <1>2 DEF OffsetsOK
<1>4. place < Len(Storage) => place < Len(Blocks)
  BY <1>1, <1>2 DEF OffsetsOK
<1>5. place < Len(Storage) => Storage[place + 1] \in Block
  BY <1>2
<1>6. place < Len(Storage) => Storage[place + 1].actions \in Seq(Action)
  BY <1>5 DEF Block
<1>7. GetBlock(place) = IF place < Len(Storage) THEN Storage[place + 1].actions ELSE << >>
  BY <1>3, <1>4 DEF GetBlock
<1> QED
  BY <1>2, <1>6, <1>7

(* What the loop finds in a block is right, and so is a part of it that is *)
(* cut.                                                                    *)
LEMMA MatchesRight ==
  ASSUME StoreInv, listener # "panicked", NEW b \in QueryBlock,
         NEW bound \in Nat, bound <= Len(Storage),
         NEW found, found = Matches(GetBlock(b.Epoch), b.Actions)
  PROVE  /\ found \in Seq(Filtered) /\ Right(Storage, b, bound, found, FALSE)
         /\ \A n \in 1 .. Len(found) :
              /\ SubSeq(found, 1, n - 1) \in Seq(Filtered)
              /\ Right(Storage, b, bound, SubSeq(found, 1, n - 1), TRUE)
<1> DEFINE c == GetBlock(b.Epoch)
           w == b.Actions
<1>1. b.Epoch \in Nat /\ w \in Seq(Nat)
  BY DEF QueryBlock
<1>2. /\ c \in Seq(Action)
      /\ c = IF b.Epoch < Len(Storage) THEN Storage[b.Epoch + 1].actions ELSE << >>
  BY <1>1, GetBlockIs
<1>3. found = Matches(c, w)
  OBVIOUS
<1>4. Storage \in Seq(Block) /\ Len(Storage) \in Nat
  BY LenProperties DEF StoreInv, StoreTyped
<1> HIDE DEF c, w
<1>5. found \in Seq(Filtered)
  BY <1>1, <1>2, <1>3, MatchesIn
<1>6. Len(found) \in Nat /\ \A i \in 1 .. Len(found) : found[i] \in Filtered
  BY <1>5, LenProperties
<1>7. ASSUME NEW n \in 1 .. Len(found)
      PROVE  SubSeq(found, 1, n - 1) \in Seq(Filtered) /\ Prefix(SubSeq(found, 1, n - 1), found)
  <2>1. n - 1 \in Nat /\ 1 \in Int /\ n - 1 \in Int /\ n - 1 <= Len(found)
        /\ \A i \in 1 .. n - 1 : found[i] \in Filtered
    BY <1>6
  <2> DEFINE m == n - 1
  <2> HIDE DEF m
  <2>2. /\ SubSeq(found, 1, m) \in Seq(Filtered)
        /\ Len(SubSeq(found, 1, m)) = IF 1 <= m THEN m - 1 + 1 ELSE 0
        /\ \A i \in 1 .. m - 1 + 1 : SubSeq(found, 1, m)[i] = found[1 + i - 1]
    BY <2>1, SubSeqProperties DEF m
  <2>3. m \in Nat /\ m <= Len(found)
    BY <2>1 DEF m
  <2>4. Len(SubSeq(found, 1, m)) = m /\ \A i \in 1 .. m : SubSeq(found, 1, m)[i] = found[i]
    BY <2>2, <2>3
  <2>5. Prefix(SubSeq(found, 1, m), found)
    BY <2>3, <2>4 DEF Prefix
  <2> QED
    BY <2>2, <2>5 DEF m
<1>8. CASE b.Epoch < Len(Storage)
  <2>1. Increasing(w) => found = WantedOf(Storage[b.Epoch + 1].actions, w)
    BY <1>1, <1>2, <1>3, <1>8, MatchesWanted
  <2>2. Prefix(found, found)
    BY <1>6 DEF Prefix
  <2>3. Right(Storage, b, bound, found, FALSE)
    BY <1>8, <2>1, <2>2 DEF Right, w
  <2>4. ASSUME NEW n \in 1 .. Len(found)
        PROVE  Right(Storage, b, bound, SubSeq(found, 1, n - 1), TRUE)
    BY <1>7, <1>8, <2>1 DEF Right, w
  <2> QED
    BY <1>5, <1>7, <2>3, <2>4
<1>9. CASE ~ (b.Epoch < Len(Storage))
  <2>1. c = << >> /\ Len(c) = 0
    BY <1>2, <1>9
  <2>2. Loop(c, w)[0] = Begun
    BY <1>1, <1>2, LoopIs
  <2>3. found = << >> /\ Len(found) = 0
    BY <1>3, <2>1, <2>2 DEF Matches, Begun
  <2>4. b.Epoch >= bound
    BY <1>1, <1>4, <1>9
  <2>5. Right(Storage, b, bound, found, FALSE)
    BY <2>3, <2>4 DEF Right
  <2>6. \A n \in 1 .. Len(found) : FALSE
    BY <2>3
  <2> QED
    BY <1>5, <2>5, <2>6
<1> QED
  BY <1>8, <1>9

(* No query at the start. *)
LEMMA QueryInit == BreezeInit => QueryInv
<1> SUFFICES ASSUME BreezeInit
             PROVE  QueryInv
  OBVIOUS
<1>1. /\ query = << >> /\ asked = << >> /\ stored = 0 /\ answer = << >> /\ Storage = << >>
      /\ outcome = "none"
      /\ Len(<< >>) = 0 /\ << >> \in Seq(QueryBlock) /\ << >> \in Seq(Seq(Filtered))
  BY EmptySeq DEF BreezeInit
<1> QED
  BY <1>1 DEF QueryInv, QueryTyped, RestOK, AnswerOK

(* A query begins with nothing sent. *)
LEMMA StartQueryKeeps ==
  ASSUME BreezeInv, NEW q \in Queries, StartQuery(q)
  PROVE  QueryInv'
<1>1. /\ query' = q /\ asked' = q /\ stored' = Len(Storage) /\ answer' = << >>
      /\ outcome' = "running" /\ Storage' = Storage
  BY DEF StartQuery, storeVars
<1>2. q \in Seq(QueryBlock) /\ Storage \in Seq(Block)
  BY BreezeAssumption DEF BreezeInv, StoreInv, StoreTyped
<1>3. /\ Len(q) \in Nat /\ Len(Storage) \in Nat
      /\ << >> \in Seq(Seq(Filtered)) /\ Len(<< >>) = 0
  BY <1>2, EmptySeq, LenProperties
<1> QED
  BY <1>1, <1>2, <1>3 DEF QueryInv, QueryTyped, RestOK, AnswerOK

(* It reads the next block and sends what it matches, or a part. *)
LEMMA ReadBlockKeeps ==
  ASSUME BreezeInv, ReadBlock
  PROVE  QueryInv'
<1> DEFINE L == Len(answer)
           m == Len(query)
           b == Head(query)
           found == Matches(GetBlock(b.Epoch), b.Actions)
<1>1. /\ listener # "panicked" /\ outcome = "running" /\ query # << >>
      /\ query' = Tail(query)
      /\ asked' = asked /\ stored' = stored /\ Storage' = Storage
      /\ \/ answer' = Append(answer, found) /\ outcome' = outcome
         \/ \E n \in 1 .. Len(found) :
              answer' = Append(answer, SubSeq(found, 1, n - 1)) /\ outcome' = "error"
  BY DEF ReadBlock, Querying, storeVars
<1>2. /\ StoreInv /\ QueryTyped /\ RestOK /\ AnswerOK
      /\ asked \in Seq(QueryBlock) /\ query \in Seq(QueryBlock)
      /\ stored \in Nat /\ stored <= Len(Storage)
      /\ answer \in Seq(Seq(Filtered))
  BY DEF BreezeInv, QueryInv, QueryTyped
<1>3. /\ L \in Nat /\ m \in Nat /\ m >= 1
      /\ b \in QueryBlock /\ b = query[1]
      /\ query' \in Seq(QueryBlock) /\ Len(query') = m - 1
      /\ \A i \in 1 .. m - 1 : query'[i] = query[i + 1]
  <2>1. L \in Nat /\ m \in Nat /\ m >= 1
    BY <1>1, <1>2, LenProperties, EmptySeq
  <2>2. b \in QueryBlock /\ b = query[1]
    BY <1>1, <1>2, HeadTailProperties
  <2>3. query' \in Seq(QueryBlock) /\ Len(query') = m - 1 /\ \A i \in 1 .. m - 1 : query'[i] = query[i + 1]
    BY <1>1, <1>2, HeadTailProperties
  <2> QED
    BY <2>1, <2>2, <2>3
<1>4. Len(asked) = L + m /\ \A i \in 1 .. m : query[i] = asked[L + i]
  BY <1>2 DEF RestOK
<1>5. PICK sent \in Seq(Filtered) :
        /\ answer' = Append(answer, sent)
        /\ outcome' \in {"running", "error"}
        /\ Right(Storage, b, stored, sent, outcome' = "error")
  <2>1. /\ found \in Seq(Filtered) /\ Right(Storage, b, stored, found, FALSE)
        /\ \A n \in 1 .. Len(found) :
             /\ SubSeq(found, 1, n - 1) \in Seq(Filtered)
             /\ Right(Storage, b, stored, SubSeq(found, 1, n - 1), TRUE)
    BY <1>1, <1>2, <1>3, MatchesRight
  <2> HIDE DEF found, b
  <2>2. CASE answer' = Append(answer, found) /\ outcome' = outcome
    BY <1>1, <2>1, <2>2 DEF Right
  <2>3. ASSUME NEW n \in 1 .. Len(found),
               answer' = Append(answer, SubSeq(found, 1, n - 1)), outcome' = "error"
        PROVE  \E sent \in Seq(Filtered) :
                 /\ answer' = Append(answer, sent)
                 /\ outcome' \in {"running", "error"}
                 /\ Right(Storage, b, stored, sent, outcome' = "error")
    BY <2>1, <2>3 DEF Right
  <2> QED
    BY <1>1, <2>2, <2>3
<1> HIDE DEF L, m, b, found
<1>6. /\ answer' \in Seq(Seq(Filtered)) /\ Len(answer') = L + 1
      /\ \A i \in 1 .. L : answer'[i] = answer[i]
      /\ answer'[L + 1] = sent
  BY <1>2, <1>5, AppendProperties DEF L
<1>7. b = asked[L + 1]
  BY <1>3, <1>4
<1>8. QueryTyped'
  BY <1>1, <1>2, <1>3, <1>5, <1>6 DEF QueryTyped
<1>9. RestOK'
  <2>1. ASSUME NEW i \in 1 .. m - 1
        PROVE  query'[i] = asked[L + 1 + i]
    <3>1. i + 1 \in 1 .. m /\ L + (i + 1) = L + 1 + i
      BY <1>3
    <3> QED
      BY <1>3, <1>4, <3>1
  <2>2. Len(asked) = (L + 1) + (m - 1)
    BY <1>3, <1>4
  <2>3. outcome' # "nil"
    BY <1>5
  <2> QED
    BY <1>1, <1>3, <1>6, <2>1, <2>2, <2>3 DEF RestOK
<1>10. AnswerOK'
  <2>1. ASSUME NEW n \in 1 .. L
        PROVE  Right(Storage, asked[n], stored, answer[n], FALSE) /\ ~ Cut(n)'
    <3>1. Right(Storage, asked[n], stored, answer[n], Cut(n))
      BY <1>2 DEF AnswerOK, L
    <3>2. ~ Cut(n)
      BY <1>1 DEF Cut
    <3>3. n # L + 1
      BY <1>3
    <3> QED
      BY <1>6, <3>1, <3>2, <3>3 DEF Cut, Right
  <2>2. Right(Storage, asked[L + 1], stored, sent, outcome' = "error")
    BY <1>5, <1>7
  <2>3. \A n \in 1 .. L + 1 : n \in 1 .. L \/ n = L + 1
    BY <1>3
  <2>4. ASSUME NEW n \in 1 .. L + 1
        PROVE  Right(Storage, asked[n], stored, answer'[n], Cut(n)')
    <3>1. CASE n \in 1 .. L
      BY <1>6, <2>1, <3>1 DEF Right
    <3>2. CASE n = L + 1
      BY <1>6, <2>2, <3>2 DEF Right, Cut
    <3> QED
      BY <2>3, <3>1, <3>2
  <2> QED
    BY <1>1, <1>6, <2>4 DEF AnswerOK
<1> QED
  BY <1>8, <1>9, <1>10 DEF QueryInv

(* It ends when there is no block left. *)
LEMMA EndQueryKeeps ==
  ASSUME BreezeInv, EndQuery
  PROVE  QueryInv'
<1>1. /\ outcome = "running" /\ query = << >> /\ outcome' = "nil"
      /\ query' = query /\ asked' = asked /\ stored' = stored /\ answer' = answer
      /\ Storage' = Storage
  BY DEF EndQuery, Querying, storeVars
<1>2. QueryTyped /\ RestOK /\ AnswerOK
  BY DEF BreezeInv, QueryInv
<1>3. QueryTyped' /\ RestOK'
  BY <1>1, <1>2 DEF QueryTyped, RestOK
<1>4. \A n : ~ Cut(n) /\ ~ Cut(n)'
  BY <1>1 DEF Cut
<1>5. AnswerOK'
  BY <1>1, <1>2, <1>4 DEF AnswerOK, Right
<1> QED
  BY <1>3, <1>5 DEF QueryInv

(* Blocks that are stored while it runs change nothing of it. *)
LEMMA QuerySame ==
  ASSUME BreezeInv, UNCHANGED queryVars,
         NEW more \in Seq(Block), Storage' = Storage \o more
  PROVE  QueryInv'
<1>1. /\ query' = query /\ asked' = asked /\ stored' = stored /\ answer' = answer
      /\ outcome' = outcome
  BY DEF queryVars
<1>2. /\ QueryTyped /\ RestOK /\ AnswerOK
      /\ Storage \in Seq(Block) /\ asked \in Seq(QueryBlock) /\ stored \in Nat
      /\ stored <= Len(Storage) /\ answer \in Seq(Seq(Filtered)) /\ query \in Seq(QueryBlock)
  BY DEF BreezeInv, QueryInv, QueryTyped, StoreInv, StoreTyped
<1>3. /\ Len(Storage) \in Nat /\ Len(more) \in Nat /\ Len(Storage \o more) = Len(Storage) + Len(more)
      /\ Len(answer) \in Nat /\ Len(query) \in Nat
  BY <1>2, ConcatProperties, LenProperties
<1>4. stored' <= Len(Storage')
  BY <1>1, <1>2, <1>3
<1>5. QueryTyped' /\ RestOK'
  BY <1>1, <1>2, <1>4 DEF QueryTyped, RestOK
<1>6. ASSUME NEW n \in 1 .. Len(answer)
      PROVE  Right(Storage', asked[n], stored, answer[n], Cut(n))
  <2>1. n \in 1 .. Len(asked)
    BY <1>2, <1>3 DEF RestOK
  <2>2. asked[n] \in QueryBlock
    BY <1>2, <2>1, ElementOfSeq
  <2>3. Right(Storage, asked[n], stored, answer[n], Cut(n))
    BY <1>2 DEF AnswerOK
  <2> QED
    BY <1>2, <2>2, <2>3, RightStays
<1>7. AnswerOK'
  BY <1>1, <1>6 DEF AnswerOK, Cut
<1> QED
  BY <1>5, <1>7 DEF QueryInv

(* BreezeInv is an inductive invariant of the store and its queries. *)
THEOREM BreezeInductive ==
  /\ BreezeInit => BreezeInv
  /\ BreezeInv /\ [BreezeNext]_breezeVars => BreezeInv'
<1>1. BreezeInit => BreezeInv
  BY StoreInit, QueryInit DEF BreezeInv
<1>2. ASSUME BreezeInv, [BreezeNext]_breezeVars
      PROVE  BreezeInv'
  <2>1. StoreInv'
    BY <1>2, StoreStep DEF BreezeInv
  <2>2. Storage \in Seq(Block) /\ << >> \in Seq(Block) /\ appending \in Seq(Block)
    BY <1>2, EmptySeq DEF BreezeInv, StoreInv, StoreTyped
  <2>3. Storage \o << >> = Storage
    BY <2>2, ConcatEmptySeq
  <2>4. ASSUME UNCHANGED queryVars, Storage' = Storage
        PROVE  QueryInv'
    <3>1. Storage' = Storage \o << >>
      BY <2>3, <2>4
    <3> QED
      BY <1>2, <2>2, <2>4, <3>1, QuerySame
  <2>5. ASSUME Listen
        PROVE  QueryInv'
    <3>1. CASE WriteBytes
      <4>1. UNCHANGED queryVars /\ Storage' = Storage \o appending
        BY <3>1 DEF WriteBytes
      <4> QED
        BY <1>2, <2>2, <4>1, QuerySame
    <3>2. CASE ReadNewBlock
      BY <2>4, <3>2 DEF ReadNewBlock, New
    <3>3. ASSUME NEW a \in Action, ReadAction(a)
          PROVE  QueryInv'
      BY <2>4, <3>3 DEF ReadAction, Panic, storeVars
    <3>4. ASSUME NEW e \in Epochs, ReadSeal(e)
          PROVE  QueryInv'
      BY <2>4, <3>4 DEF ReadSeal, Seal, Panic, storeVars
    <3>5. ASSUME NEW e \in Epochs, ReadCommit(e)
          PROVE  QueryInv'
      BY <2>4, <3>5 DEF ReadCommit, Commit
    <3>6. ASSUME NEW actions, ReadWhole(actions)
          PROVE  QueryInv'
      <4>1. UNCHANGED <<listener, Storage, Current, Unselaed, queryVars>>
        BY <3>6 DEF ReadWhole
      <4>2. UNCHANGED queryVars /\ Storage' = Storage
        BY <4>1
      <4> QED
        BY <2>4, <4>2
    <3>7. CASE ReadError
      <4>1. UNCHANGED queryVars /\ Storage' = Storage
        BY <3>7 DEF ReadError, storeVars
      <4> QED
        BY <2>4, <4>1
    <3> QED
      BY <2>5, <3>1, <3>2, <3>3, <3>4, <3>5, <3>6, <3>7 DEF Listen
  <2>6. ASSUME NEW q \in Queries, StartQuery(q)
        PROVE  QueryInv'
    BY <1>2, <2>6, StartQueryKeeps
  <2>7. ASSUME ReadBlock
        PROVE  QueryInv'
    BY <1>2, <2>7, ReadBlockKeeps
  <2>9. ASSUME EndQuery
        PROVE  QueryInv'
    BY <1>2, <2>9, EndQueryKeeps
  <2>10. ASSUME QueryPanics
        PROVE  QueryInv'
    <3>1. UNCHANGED queryVars /\ Storage' = Storage
      BY <2>10 DEF QueryPanics, storeVars
    <3> QED
      BY <2>4, <3>1
  <2>8. ASSUME UNCHANGED breezeVars
        PROVE  QueryInv'
    <3>1. UNCHANGED queryVars /\ Storage' = Storage
      BY <2>8 DEF breezeVars, storeVars
    <3> QED
      BY <2>4, <3>1
  <2> QED
    BY <1>2, <2>1, <2>5, <2>6, <2>7, <2>8, <2>9, <2>10 DEF BreezeNext, Query, BreezeInv
<1> QED
  BY <1>1, <1>2

(* BreezeInv holds of NewBlockListener with ExecuteQuery. *)
THEOREM BreezeCorrect == BreezeSpec => []BreezeInv
<1>1. BreezeInit => BreezeInv
  BY BreezeInductive
<1>2. BreezeInv /\ [BreezeNext]_breezeVars => BreezeInv'
  BY BreezeInductive
<1> QED
  BY <1>1, <1>2, PTL DEF BreezeSpec

-----------------------------------------------------------------------------
(* The lists of BlockStore hold blocks, offsets are records of the store,  *)
(* and ExecuteQuery sends actions that FilterFunc takes.                   *)
THEOREM BreezeTypeCorrect == BreezeSpec => []BreezeTypeOK
<1>1. BreezeInv => BreezeTypeOK
  BY DEF BreezeInv, StoreInv, StoreTyped, QueryInv, QueryTyped, BreezeTypeOK, Nodes, Statuses
<1> QED
  BY <1>1, BreezeCorrect, PTL

(* Seals and commits in any order: until the listener panics, BlockStore   *)
(* keeps each block of the node once, whole, in the list of its status.    *)
THEOREM EveryBlockOnceCorrect == BreezeSpec => []EveryBlockOnce
<1>1. ASSUME BreezeInv
      PROVE  EveryBlockOnce
  <2> SUFFICES ASSUME listener # "panicked"
               PROVE  EveryBlockOnce
    BY DEF EveryBlockOnce
  <2> DEFINE places == [open |-> Unselaed \o CurrentBlocks, sealed |-> Sealed,
                        committed |-> Storage \o appending]
  <2>1. PlacesOK
    BY <1>1 DEF BreezeInv, StoreInv
  <2>2. \A place \in DOMAIN places : Lists(places[place], At(node, place), node)
    <3>1. DOMAIN places = {"open", "sealed", "committed"}
      OBVIOUS
    <3>2. /\ places["open"] = Unselaed \o CurrentBlocks
          /\ places["sealed"] = Sealed
          /\ places["committed"] = Storage \o appending
      OBVIOUS
    <3> HIDE DEF places
    <3> QED
      BY <2>1, <3>1, <3>2 DEF PlacesOK
  <2> HIDE DEF places
  <2>3. ASSUME NEW place \in DOMAIN places
        PROVE  /\ \A e \in {e \in Epochs : node[e].status = place} : Copies(places[place], e) = 1
               /\ Len(places[place]) = Cardinality({e \in Epochs : node[e].status = place})
    <3>1. Lists(places[place], At(node, place), node)
      BY <2>2
    <3> DEFINE s == places[place]
    <3> HIDE DEF s
    <3>2. /\ Len(s) = Cardinality(At(node, place))
          /\ \A e \in At(node, place) : Copies(s, e) = 1
      BY <3>1, ListsCount DEF Copies, s
    <3> QED
      BY <3>2 DEF At, s
  <2> QED
    BY <2>3 DEF EveryBlockOnce, places
<1> QED
  BY <1>1, BreezeCorrect, PTL

(* For each QueryBlock ExecuteQuery sends the wanted actions of the block  *)
(* at that place in order, and no others, while the listener stores more   *)
(* blocks; of a block that is stored meanwhile all or none; and only after *)
(* a Send that failed, which it reports, less.                             *)
THEOREM QueryExactCorrect == BreezeSpec => []QueryExact
<1>1. ASSUME BreezeInv
      PROVE  QueryExact
  <2>1. /\ asked \in Seq(QueryBlock) /\ answer \in Seq(Seq(Filtered))
        /\ RestOK /\ AnswerOK
    BY <1>1 DEF BreezeInv, QueryInv, QueryTyped
  <2>2. DOMAIN answer = 1 .. Len(answer) /\ Len(answer) \in Nat /\ Len(<< >>) = 0
    BY <2>1, LenProperties, EmptySeq
  <2>3. outcome = "nil" => Len(answer) = Len(asked)
    BY <2>1, <2>2 DEF RestOK
  <2> QED
    BY <2>1, <2>2, <2>3 DEF AnswerOK, Right, Cut, QueryExact, WantedAt
<1> QED
  BY <1>1, BreezeCorrect, PTL
=============================================================================
