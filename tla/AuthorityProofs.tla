--------------------------- MODULE AuthorityProofs ---------------------------
(***************************************************************************)
(* Theorems about the single authority and about the gateway: what a       *)
(* subscriber of the one and the provider behind the other are told.       *)
(***************************************************************************)
EXTENDS SingleAuthority, Gateway, SequenceTheorems, TLAPS

-----------------------------------------------------------------------------
(* The inductive invariant of the authority. *)

(* The blocks that are kept are the last ones, without a gap. *)
RecentDense == \A i \in DOMAIN blocks : blocks[i] = current - Len(blocks) + i - 1

(* Manager and pool goroutine are at most one block apart, and what is     *)
(* under way between them is of the block the pool goroutine has or gets.  *)
HandOver ==
  failures = 0 =>
    /\ manager = "newBlock" => handed = current + 1 /\ stateEpoch = current + 1
    /\ manager # "newBlock" => stateEpoch = current
    /\ manager = "refused" => handed = current
    /\ pooling = "header" => header = current

(* What connections hold before they are synchronised and when they are.   *)
Connections ==
  \A s \in Subscriber :
    /\ stage[s] \in {"absent", "requesting"} =>
         s \notin pool /\ stream[s] = << >> /\ cache[s] = << >>
    /\ stage[s] = "started" => stream[s] = << >>
    /\ stage[s] = "ready" => cache[s] = << >>

(* Properties of the messages P that a subscriber is told, when c is the   *)
(* open block: they are of blocks up to c, the last header is that of c,   *)
(* each header follows that of the block before, and actions belong to the *)
(* header that they follow.                                                *)
Headers(P) == {n \in DOMAIN P : P[n].type = "block"}

UpTo(P, c) == \A n \in DOMAIN P : P[n].epoch <= c

LastIs(P, c) ==
  Headers(P) # {} =>
    \E n \in Headers(P) : P[n].epoch = c /\ \A m \in Headers(P) : m <= n

Climbs(P) ==
  \A n \in Headers(P) :
    \/ \A m \in Headers(P) : n <= m
    \/ \E m \in Headers(P) : m < n /\ P[m].epoch >= P[n].epoch - 1

Attributed(P) ==
  \A n \in DOMAIN P, k \in DOMAIN P :
    /\ k < n /\ P[n].type = "action" /\ P[k].type = "block"
    /\ \A m \in k + 1 .. n : P[m].type = "action"
    => IF P[k].from = "broadcast" THEN P[n].epoch = P[k].epoch
                                  ELSE P[n].epoch <= P[k].epoch

Told(P, c) == UpTo(P, c) /\ LastIs(P, c) /\ Climbs(P) /\ Attributed(P)

(* The headers after epoch e are all there, and the first is not too late. *)
Covers(P, e, c) ==
  /\ \A x \in e + 1 .. c : \E n \in Headers(P) : P[n].epoch = x
  /\ \A n \in Headers(P) : (\A m \in Headers(P) : n <= m) => P[n].epoch <= e + 1

Streams ==
  failures = 0 =>
    \A s \in pool :
      /\ stage[s] \in {"started", "syncing", "ready"} => Told(Promised(s), current)
      /\ stage[s] \in {"syncing", "ready"} /\ shift[s] # 1 =>
           Covers(Promised(s), since[s], current)

AuthorityInv ==
  /\ AuthorityTypeOK
  /\ RecentDense
  /\ HandOver
  /\ Connections
  /\ Streams

-----------------------------------------------------------------------------
(* Messages that are added behind those that a subscriber is told. *)

(* Nothing follows from no messages. *)
LEMMA ToldNothing == ASSUME NEW c PROVE Told(<< >>, c)
BY DEF Told, UpTo, LastIs, Climbs, Attributed, Headers

(* A longer sequence, message by message. *)
LEMMA AddMessage ==
  ASSUME NEW P \in Seq(Message), NEW m \in Message
  PROVE  LET Q == P \o <<m>>
         IN  /\ Q \in Seq(Message)
             /\ Len(P) \in Nat
             /\ DOMAIN P = 1 .. Len(P)
             /\ DOMAIN Q = 1 .. Len(P) + 1
             /\ \A n \in 1 .. Len(P) : Q[n] = P[n]
             /\ Q[Len(P) + 1] = m
             /\ m.type = "block" => Headers(Q) = Headers(P) \cup {Len(P) + 1}
             /\ m.type # "block" => Headers(Q) = Headers(P)
<1> DEFINE Q == P \o <<m>>
<1>1. /\ Q \in Seq(Message)
      /\ Len(P) \in Nat
      /\ DOMAIN P = 1 .. Len(P)
      /\ DOMAIN Q = 1 .. Len(P) + 1
      /\ \A n \in 1 .. Len(P) : Q[n] = P[n]
      /\ Q[Len(P) + 1] = m
  OBVIOUS
<1> HIDE DEF Q
<1>2. /\ m.type = "block" => Headers(Q) = Headers(P) \cup {Len(P) + 1}
      /\ m.type # "block" => Headers(Q) = Headers(P)
  BY <1>1 DEF Headers
<1> QED
  BY <1>1, <1>2 DEF Q

(* The header of the block after c, when c was open. *)
LEMMA AddHeader ==
  ASSUME NEW P \in Seq(Message), NEW c \in Nat, Told(P, c),
         NEW m \in Message, m = Msg("block", "broadcast", c + 1)
  PROVE  /\ Told(P \o <<m>>, c + 1)
         /\ \A e \in Nat : Covers(P, e, c) => Covers(P \o <<m>>, e, c + 1)
<1> DEFINE Q == P \o <<m>>
           last == Len(P) + 1
<1>1. /\ Len(P) \in Nat
      /\ DOMAIN P = 1 .. Len(P)
      /\ DOMAIN Q = 1 .. last
      /\ \A n \in 1 .. Len(P) : Q[n] = P[n]
      /\ Q[last] = m
      /\ Headers(Q) = Headers(P) \cup {last}
      /\ Headers(P) \subseteq 1 .. Len(P)
      /\ m.type = "block" /\ m.epoch = c + 1
      /\ P \in Seq(Message)
  BY AddMessage DEF Msg, Headers
<1> HIDE DEF Q
<1>2. \A n \in Headers(P) : Q[n] = P[n] /\ n < last
  BY <1>1
<1>3. UpTo(Q, c + 1)
  <2>1. \A n \in 1 .. Len(P) : P[n].epoch \in Nat /\ P[n].epoch <= c
    <3>1. \A n \in 1 .. Len(P) : P[n] \in Message
      BY <1>1
    <3> QED
      BY <1>1, <3>1 DEF Told, UpTo, Message
  <2> QED
    BY <1>1, <2>1 DEF UpTo
<1>4. LastIs(Q, c + 1)
  BY <1>1, <1>2 DEF LastIs
<1>5. Climbs(Q)
  <2> SUFFICES ASSUME NEW n \in Headers(Q)
               PROVE  \/ \A k \in Headers(Q) : n <= k
                      \/ \E k \in Headers(Q) : k < n /\ Q[k].epoch >= Q[n].epoch - 1
    BY DEF Climbs
  <2>1. CASE n \in Headers(P)
    BY <1>1, <1>2, <2>1 DEF Told, Climbs
  <2>2. CASE n = last /\ Headers(P) = {}
    BY <1>1, <2>2
  <2>3. CASE n = last /\ Headers(P) # {}
    <3>1. PICK k \in Headers(P) : P[k].epoch = c
      BY <2>3 DEF Told, LastIs
    <3> QED
      BY <1>1, <1>2, <2>3, <3>1
  <2> QED
    BY <1>1, <2>1, <2>2, <2>3
<1>6. Attributed(Q)
  <2> SUFFICES ASSUME NEW n \in DOMAIN Q, NEW k \in DOMAIN Q,
                      k < n, Q[n].type = "action", Q[k].type = "block",
                      \A l \in k + 1 .. n : Q[l].type = "action"
               PROVE  IF Q[k].from = "broadcast" THEN Q[n].epoch = Q[k].epoch
                                                 ELSE Q[n].epoch <= Q[k].epoch
    BY DEF Attributed
  <2>1. n \in 1 .. Len(P) /\ k \in 1 .. Len(P)
    BY <1>1
  <2>2. \A l \in k + 1 .. n : P[l].type = "action"
    BY <1>1, <2>1
  <2> QED
    BY <1>1, <2>1, <2>2 DEF Told, Attributed
<1>7. ASSUME NEW e \in Nat, Covers(P, e, c)
      PROVE  Covers(Q, e, c + 1)
  <2>1. \A x \in e + 1 .. c + 1 : \E n \in Headers(Q) : Q[n].epoch = x
    BY SMTT(20), <1>1, <1>2, <1>7 DEF Covers
  <2>2. ASSUME NEW n \in Headers(Q), \A k \in Headers(Q) : n <= k
        PROVE  Q[n].epoch <= e + 1
    <3>1. CASE n \in Headers(P)
      BY <1>1, <1>2, <1>7, <2>2, <3>1 DEF Covers
    <3>2. CASE n = last
      <4>1. Headers(P) = {}
        BY <1>1, <1>2, <2>2, <3>2
      <4>2. ~ (e + 1 <= c)
        BY <1>7, <4>1 DEF Covers
      <4> QED
        BY <1>1, <3>2, <4>2
    <3> QED
      BY <1>1, <3>1, <3>2
  <2> QED
    BY <2>1, <2>2 DEF Covers
<1> QED
  BY <1>3, <1>4, <1>5, <1>6, <1>7 DEF Told, Q

(* An action that was tried on the state of block c, when c was open. *)
LEMMA AddAction ==
  ASSUME NEW P \in Seq(Message), NEW c \in Nat, Told(P, c),
         NEW m \in Message, m = Msg("action", "broadcast", c)
  PROVE  /\ Told(P \o <<m>>, c)
         /\ \A e \in Nat : Covers(P, e, c) => Covers(P \o <<m>>, e, c)
<1> DEFINE Q == P \o <<m>>
           last == Len(P) + 1
<1>1. /\ Len(P) \in Nat
      /\ DOMAIN P = 1 .. Len(P)
      /\ DOMAIN Q = 1 .. last
      /\ \A n \in 1 .. Len(P) : Q[n] = P[n]
      /\ Q[last] = m
      /\ Headers(Q) = Headers(P)
      /\ Headers(P) \subseteq 1 .. Len(P)
      /\ m.type = "action" /\ m.epoch = c
      /\ \A n \in Headers(P) : P[n] \in Message
  BY AddMessage DEF Msg, Headers
<1> HIDE DEF Q
<1>2. \A n \in Headers(P) : Q[n] = P[n]
  BY <1>1
<1>3. UpTo(Q, c)
  BY <1>1 DEF Told, UpTo, Message
<1>4. LastIs(Q, c) /\ Climbs(Q)
  BY <1>1, <1>2 DEF Told, LastIs, Climbs
<1>5. \A e \in Nat : Covers(P, e, c) => Covers(Q, e, c)
  BY <1>1, <1>2 DEF Covers
<1>6. Attributed(Q)
  <2> SUFFICES ASSUME NEW n \in DOMAIN Q, NEW k \in DOMAIN Q,
                      k < n, Q[n].type = "action", Q[k].type = "block",
                      \A l \in k + 1 .. n : Q[l].type = "action"
               PROVE  IF Q[k].from = "broadcast" THEN Q[n].epoch = Q[k].epoch
                                                 ELSE Q[n].epoch <= Q[k].epoch
    BY DEF Attributed
  <2>1. k \in 1 .. Len(P) /\ k \in Headers(P)
    BY <1>1 DEF Headers
  <2>2. CASE n \in 1 .. Len(P)
    <3>1. \A l \in k + 1 .. n : P[l].type = "action"
      BY <1>1, <2>1, <2>2
    <3> QED
      BY <1>1, <2>1, <2>2, <3>1 DEF Told, Attributed
  <2>3. CASE n = last
    <3>1. PICK j \in Headers(P) : P[j].epoch = c /\ \A l \in Headers(P) : l <= j
      BY <2>1 DEF Told, LastIs
    <3>2. j = k
      <4>1. j \notin k + 1 .. n
        BY <1>1 DEF Headers
      <4> QED
        BY <1>1, <2>1, <2>3, <3>1, <4>1
    <3> QED
      BY <1>1, <2>1, <2>3, <3>1, <3>2
  <2> QED
    BY <1>1, <2>2, <2>3
<1> QED
  BY <1>3, <1>4, <1>5, <1>6 DEF Told, Q

(* What Sync copies for a request of epoch e, when it copies something:    *)
(* the headers of the blocks after e, up to the open one.                  *)
LEMMA SnapshotEpochs ==
  ASSUME AuthorityTypeOK, RecentDense, NEW e \in Nat, ~Empty
  PROVE  LET copied == SyncEpochs(ShiftOf(e))
         IN  /\ ShiftOf(e) \in Int
             /\ copied \in Seq(Nat)
             /\ ShiftOf(e) <= 1 => copied = << >>
             /\ ShiftOf(e) > 1 =>
                  /\ Len(copied) = IF current > e THEN current - e ELSE 0
                  /\ \A i \in 1 .. Len(copied) : copied[i] = e + i
<1> DEFINE n == ShiftOf(e)
           k == Len(blocks)
           part == SubSeq(blocks, n + 1, k)
           all == Append(part, current)
<1>1. /\ blocks \in Seq(Nat)
      /\ k \in Nat /\ k >= 1
      /\ current \in Nat
      /\ \A i \in 1 .. k : blocks[i] = current - k + i - 1 /\ blocks[i] \in Nat
  <2>1. blocks \in Seq(Nat) /\ current \in Nat
    BY DEF AuthorityTypeOK, RecentTypeOK
  <2>2. k \in Nat /\ k >= 1 /\ \A i \in 1 .. k : blocks[i] \in Nat
    BY <2>1 DEF Empty
  <2> QED
    BY <2>1, <2>2 DEF RecentDense
<1>2. n = e - current + k /\ n \in Int
  BY <1>1 DEF ShiftOf
<1>3. CASE n <= 1
  BY <1>2, <1>3 DEF SyncEpochs
<1>4. CASE n > 1
  <2>1. SyncEpochs(n) = Tail(all)
    BY <1>2, <1>4 DEF SyncEpochs
  <2>2. \A i \in n + 1 .. k : blocks[i] \in Nat
    BY <1>1, <1>2, <1>4
  <2>3. /\ part \in Seq(Nat)
        /\ Len(part) = IF n + 1 <= k THEN k - n ELSE 0
        /\ \A i \in 1 .. k - n : part[i] = blocks[n + i]
    <3> HIDE DEF n, k
    <3>1. n + 1 \in Int /\ k \in Int
      BY <1>1, <1>2
    <3>2. /\ SubSeq(blocks, n + 1, k) \in Seq(Nat)
          /\ Len(SubSeq(blocks, n + 1, k)) = IF n + 1 <= k THEN k - (n + 1) + 1 ELSE 0
          /\ \A i \in 1 .. k - (n + 1) + 1 : SubSeq(blocks, n + 1, k)[i] = blocks[(n + 1) + i - 1]
      BY <2>2, <3>1, SubSeqProperties
    <3>3. k - (n + 1) + 1 = k - n /\ \A i \in 1 .. k - n : (n + 1) + i - 1 = n + i
      BY <1>1, <1>2
    <3> QED
      BY <3>2, <3>3
  <2> HIDE DEF part, n, k
  <2>4. /\ all \in Seq(Nat)
        /\ Len(all) = Len(part) + 1
        /\ \A i \in 1 .. Len(part) : all[i] = part[i]
        /\ all[Len(part) + 1] = current
        /\ all # << >>
    <3>1. part \in Seq(Nat) /\ current \in Nat
      BY <1>1, <2>3
    <3> QED
      BY <3>1, AppendProperties DEF all
  <2>5. Len(part) = IF current > e THEN current - e ELSE 0
    BY <1>1, <1>2, <2>3
  <2>6. ASSUME NEW i \in 1 .. Len(all) - 1
        PROVE  all[i + 1] = e + i
    <3>1. i <= Len(part) /\ i \in Nat
      BY <2>3, <2>4, <2>5, <1>1
    <3>2. CASE i + 1 <= Len(part)
      <4>1. all[i + 1] = blocks[n + (i + 1)]
        BY <1>1, <1>2, <2>3, <2>4, <3>1, <3>2
      <4>2. n + (i + 1) \in 1 .. k
        BY <1>1, <1>2, <1>4, <2>3, <3>1, <3>2
      <4> QED
        BY <1>1, <1>2, <4>1, <4>2
    <3>3. CASE i + 1 = Len(part) + 1
      <4>1. Len(part) = current - e
        BY <1>1, <2>5, <3>1
      <4> QED
        BY <1>1, <2>4, <3>1, <3>3, <4>1
    <3> QED
      BY <1>1, <2>5, <3>1, <3>2, <3>3
  <2> HIDE DEF all
  <2>7. /\ Tail(all) \in Seq(Nat)
        /\ Len(Tail(all)) = Len(part)
        /\ \A i \in 1 .. Len(part) : Tail(all)[i] = all[i + 1]
    <3>1. /\ Tail(all) \in Seq(Nat)
          /\ Len(Tail(all)) = Len(all) - 1
          /\ \A i \in 1 .. Len(Tail(all)) : Tail(all)[i] = all[i + 1]
      BY <2>4, HeadTailProperties
    <3>2. Len(part) \in Nat
      BY <2>3
    <3> QED
      BY <2>4, <3>1, <3>2
  <2>8. \A i \in 1 .. Len(part) : Tail(all)[i] = e + i
    <3>1. Len(part) \in Nat
      BY <2>3
    <3> QED
      BY <2>4, <2>6, <2>7, <3>1
  <2>9. /\ SyncEpochs(n) \in Seq(Nat)
        /\ Len(SyncEpochs(n)) = IF current > e THEN current - e ELSE 0
        /\ \A i \in 1 .. Len(SyncEpochs(n)) : SyncEpochs(n)[i] = e + i
    BY <2>1, <2>5, <2>7, <2>8
  <2> QED
    BY <1>2, <1>4, <2>9 DEF n
<1> QED
  BY <1>2, <1>3, <1>4

(* The headers of the blocks from e to c, before what was kept meanwhile.  *)
LEMMA PutBefore ==
  ASSUME NEW P \in Seq(Message), NEW c \in Nat, Told(P, c), NEW e \in Nat,
         NEW Q \in Seq(Message),
         \A i \in 1 .. Len(Q) : Q[i] = Msg("block", "snapshot", e + i),
         Len(Q) = 0 \/ e + Len(Q) = c
  PROVE  /\ Told(Q \o P, c)
         /\ c <= e \/ Len(Q) # 0 => Covers(Q \o P, e, c)
<1> DEFINE R == Q \o P
           q == Len(Q)
           p == Len(P)
<1>1. /\ q \in Nat /\ p \in Nat
      /\ DOMAIN R = 1 .. q + p /\ DOMAIN P = 1 .. p
      /\ \A i \in 1 .. q : R[i] = Msg("block", "snapshot", e + i)
      /\ \A i \in 1 .. p : R[q + i] = P[i]
      /\ \A n \in 1 .. q + p : n \in 1 .. q \/ (n - q \in 1 .. p /\ n = q + (n - q))
      /\ \A i \in 1 .. p : P[i] \in Message /\ P[i].epoch \in Nat
  <2>1. \A i \in 1 .. p : P[i] \in Message
    OBVIOUS
  <2>2. \A i \in 1 .. p : P[i].epoch \in Nat
    BY <2>1 DEF Message
  <2> QED
    BY <2>1, <2>2
<1> HIDE DEF R, q, p
<1>2. \A i \in 1 .. q : R[i].type = "block" /\ R[i].from = "snapshot" /\ R[i].epoch = e + i
  <2> SUFFICES ASSUME NEW i \in 1 .. q
               PROVE  R[i].type = "block" /\ R[i].from = "snapshot" /\ R[i].epoch = e + i
    OBVIOUS
  <2>1. R[i] = Msg("block", "snapshot", e + i)
    BY <1>1
  <2> QED
    BY <2>1 DEF Msg
<1>3. /\ 1 .. q \subseteq Headers(R)
      /\ \A i \in Headers(P) : q + i \in Headers(R) /\ i \in 1 .. p
      /\ \A n \in Headers(R) : n \in 1 .. q \/ (n - q \in Headers(P) /\ R[n] = P[n - q])
  <2>1. 1 .. q \subseteq Headers(R)
    BY <1>1, <1>2 DEF Headers
  <2>2. ASSUME NEW i \in Headers(P)
        PROVE  q + i \in Headers(R) /\ i \in 1 .. p
    <3>1. i \in 1 .. p /\ P[i].type = "block"
      BY <1>1 DEF Headers
    <3>2. R[q + i] = P[i]
      BY <1>1, <3>1
    <3>3. q \in Nat /\ p \in Nat
      BY <1>1
    <3>4. q + i \in 1 .. q + p
      BY <3>1, <3>3
    <3>5. q + i \in DOMAIN R
      BY <1>1, <3>4
    <3> QED
      BY <3>1, <3>2, <3>5 DEF Headers
  <2>3. ASSUME NEW n \in Headers(R), n \notin 1 .. q
        PROVE  n - q \in Headers(P) /\ R[n] = P[n - q]
    <3>1. n \in 1 .. q + p /\ R[n].type = "block"
      BY <1>1 DEF Headers
    <3>2. n - q \in 1 .. p /\ n = q + (n - q)
      BY <1>1, <2>3, <3>1
    <3>3. R[n] = P[n - q]
      BY <1>1, <3>2
    <3> QED
      BY <1>1, <3>1, <3>2, <3>3 DEF Headers
  <2> QED
    BY <2>1, <2>2, <2>3
<1>4. q = 0 \/ e + q = c
  BY DEF q
<1>5. UpTo(R, c)
  <2> SUFFICES ASSUME NEW n \in 1 .. q + p PROVE R[n].epoch <= c
    BY <1>1 DEF UpTo
  <2>1. CASE n \in 1 .. q
    BY <1>1, <1>2, <1>4, <2>1
  <2>2. CASE n - q \in 1 .. p /\ n = q + (n - q)
    <3>1. n - q \in DOMAIN P /\ R[n] = P[n - q]
      BY <1>1, <2>2
    <3> QED
      BY <3>1 DEF Told, UpTo
  <2> QED
    BY <1>1, <2>1, <2>2
<1>6. LastIs(R, c)
  <2>1. CASE Headers(P) # {}
    <3>1. PICK n \in Headers(P) : P[n].epoch = c /\ \A m \in Headers(P) : m <= n
      BY <2>1 DEF Told, LastIs
    <3>2. q + n \in Headers(R) /\ R[q + n].epoch = c /\ n \in 1 .. p
      BY <1>1, <1>3, <3>1
    <3>3. ASSUME NEW m \in Headers(R)
          PROVE  m <= q + n
      <4>1. m \in 1 .. q + p
        BY <1>1 DEF Headers
      <4>2. CASE m - q \in Headers(P)
        <5>1. m - q <= n
          BY <3>1, <4>2
        <5> QED
          BY <1>1, <3>2, <4>1, <5>1
      <4>3. CASE m \in 1 .. q
        BY <1>1, <3>2, <4>3
      <4> QED
        BY <1>3, <4>2, <4>3
    <3> QED
      BY <3>2, <3>3 DEF LastIs
  <2>2. CASE Headers(P) = {} /\ q # 0
    <3>1. q \in Headers(R) /\ R[q].epoch = c
      <4>1. q \in 1 .. q
        BY <1>1, <2>2
      <4>2. q \in Headers(R)
        BY <1>3, <4>1
      <4>3. R[q].epoch = e + q
        BY <1>2, <4>1
      <4>4. e + q = c
        BY <1>4, <2>2
      <4> QED
        BY <4>2, <4>3, <4>4
    <3>2. \A m \in Headers(R) : m <= q
      BY <1>1, <1>3, <2>2
    <3> QED
      BY <3>1, <3>2 DEF LastIs
  <2>3. CASE Headers(P) = {} /\ q = 0
    BY <1>1, <1>3, <2>3 DEF LastIs
  <2> QED
    BY <2>1, <2>2, <2>3
<1>7. Climbs(R)
  <2> SUFFICES ASSUME NEW n \in Headers(R)
               PROVE  \/ \A m \in Headers(R) : n <= m
                      \/ \E m \in Headers(R) : m < n /\ R[m].epoch >= R[n].epoch - 1
    BY DEF Climbs
  <2>0. Headers(R) \subseteq 1 .. q + p
    BY <1>1 DEF Headers
  <2>1. CASE n = 1
    BY <1>1, <2>0, <2>1
  <2>2. CASE n \in 2 .. q
    <3>1. n - 1 \in 1 .. q /\ n \in 1 .. q /\ n - 1 < n
      BY <1>1, <2>2
    <3>2. /\ n - 1 \in Headers(R)
          /\ R[n - 1].epoch = e + (n - 1) /\ R[n].epoch = e + n
      BY <1>2, <1>3, <3>1
    <3>3. R[n - 1].epoch >= R[n].epoch - 1
      BY <3>1, <3>2
    <3> QED
      BY <3>1, <3>2, <3>3
  <2>3. CASE n \notin 1 .. q /\ q # 0
    <3>1. n - q \in Headers(P) /\ R[n] = P[n - q] /\ n - q \in 1 .. p
      BY <1>3, <2>3
    <3>2. R[n].epoch <= c /\ R[n].epoch \in Nat
      BY <1>1, <3>1 DEF Told, UpTo
    <3>3. q \in Headers(R) /\ R[q].epoch = c /\ q < n
      <4>1. q \in 1 .. q
        BY <1>1, <2>3
      <4>2. n \in 1 .. q + p
        BY <2>0
      <4>3. q < n
        BY <1>1, <2>3, <4>2
      <4>4. R[q].epoch = e + q
        BY <1>2, <4>1
      <4> QED
        BY <1>3, <1>4, <2>3, <4>1, <4>3, <4>4
    <3> QED
      BY <3>2, <3>3
  <2>4. CASE q = 0
    <3>1. n \in Headers(P) /\ R[n] = P[n]
      BY <1>1, <1>3, <2>0, <2>4
    <3>2. \A m \in Headers(R) : m \in Headers(P) /\ R[m] = P[m]
      BY <1>1, <1>3, <2>0, <2>4
    <3>3. \A m \in Headers(P) : m \in Headers(R)
      BY <1>1, <1>3, <2>4
    <3> QED
      BY <3>1, <3>2, <3>3 DEF Told, Climbs
  <2> QED
    BY <1>1, <2>0, <2>1, <2>2, <2>3, <2>4
<1>8. Attributed(R)
  <2> SUFFICES ASSUME NEW n \in 1 .. q + p, NEW k \in 1 .. q + p,
                      k < n, R[n].type = "action", R[k].type = "block",
                      \A m \in k + 1 .. n : R[m].type = "action"
               PROVE  IF R[k].from = "broadcast" THEN R[n].epoch = R[k].epoch
                                                 ELSE R[n].epoch <= R[k].epoch
    BY <1>1 DEF Attributed
  <2>1. n \notin 1 .. q
    BY <1>2
  <2>2. n - q \in 1 .. p /\ R[n] = P[n - q]
    BY <1>1, <2>1
  <2>3. CASE k \in 1 .. q
    <3>1. k = q
      <4>1. CASE k < q
        <5>1. k + 1 \in k + 1 .. n /\ k + 1 \in 1 .. q
          BY <1>1, <2>3, <4>1
        <5> QED
          BY <1>2, <5>1
      <4> QED
        BY <1>1, <2>3, <4>1
    <3>2. R[k].epoch = c /\ R[k].from = "snapshot"
      <4>1. q \in 1 .. q /\ q # 0
        BY <2>3, <3>1, <1>1
      <4> QED
        BY <1>2, <1>4, <3>1, <4>1
    <3>3. R[n].epoch <= c
      BY <1>1, <2>2 DEF Told, UpTo
    <3> QED
      BY <3>2, <3>3
  <2>4. CASE k \notin 1 .. q
    <3>1. k - q \in 1 .. p /\ R[k] = P[k - q] /\ k - q < n - q
      BY <1>1, <2>4
    <3>2. \A m \in (k - q) + 1 .. n - q : P[m].type = "action"
      <4> SUFFICES ASSUME NEW m \in (k - q) + 1 .. n - q PROVE P[m].type = "action"
        OBVIOUS
      <4>1. q + m \in k + 1 .. n /\ m \in 1 .. p
        BY <1>1, <2>2, <3>1
      <4> QED
        BY <1>1, <4>1
    <3>3. /\ n - q \in DOMAIN P /\ k - q \in DOMAIN P
          /\ P[n - q].type = "action" /\ P[k - q].type = "block"
      BY <1>1, <2>2, <3>1
    <3>4. IF P[k - q].from = "broadcast" THEN P[n - q].epoch = P[k - q].epoch
                                         ELSE P[n - q].epoch <= P[k - q].epoch
      BY <3>1, <3>2, <3>3 DEF Told, Attributed
    <3> QED
      BY <2>2, <3>1, <3>4
  <2> QED
    BY <2>3, <2>4
<1>9. ASSUME c <= e \/ q # 0
      PROVE  Covers(R, e, c)
  <2>1. \A x \in e + 1 .. c : \E n \in Headers(R) : R[n].epoch = x
    <3> SUFFICES ASSUME NEW x \in e + 1 .. c
                 PROVE  x - e \in Headers(R) /\ R[x - e].epoch = x
      OBVIOUS
    <3>1. x - e \in 1 .. q
      BY <1>1, <1>4, <1>9
    <3> QED
      BY <1>2, <1>3, <3>1
  <2>2. ASSUME NEW n \in Headers(R), \A m \in Headers(R) : n <= m
        PROVE  R[n].epoch <= e + 1
    <3>1. CASE q # 0
      <4>1. 1 \in 1 .. q /\ n = 1
        <5>1. 1 \in 1 .. q
          BY <1>1, <3>1
        <5>2. n <= 1
          BY <1>3, <2>2, <5>1
        <5>3. n \in 1 .. q + p
          BY <1>1 DEF Headers
        <5> QED
          BY <5>1, <5>2, <5>3
      <4> QED
        BY <1>2, <4>1
    <3>2. CASE q = 0
      <4>1. n \in Headers(P) /\ R[n] = P[n] /\ n \in 1 .. p
        BY <1>1, <1>3, <3>2 DEF Headers
      <4>2. R[n].epoch <= c /\ R[n].epoch \in Nat
        BY <1>1, <4>1 DEF Told, UpTo
      <4> QED
        BY <1>9, <3>2, <4>2
    <3> QED
      BY <3>1, <3>2
  <2> QED
    BY <2>1, <2>2 DEF Covers
<1> QED
  BY <1>5, <1>6, <1>7, <1>8, <1>9 DEF Told, R, q

-----------------------------------------------------------------------------
(* The parts of the invariant, one after the other. *)

(* What is sent and kept for a subscriber are messages. *)
LEMMA PromisedType ==
  ASSUME AuthorityTypeOK, NEW s \in Subscriber
  PROVE  stream[s] \in Seq(Message) /\ cache[s] \in Seq(Message)
         /\ Promised(s) \in Seq(Message)
<1>1. stream[s] \in Seq(Message) /\ cache[s] \in Seq(Message) /\ header \in Nat
  BY DEF AuthorityTypeOK
<1>2. <<Msg("block", "broadcast", header)>> \in Seq(Message) /\ << >> \in Seq(Message)
  BY <1>1 DEF Msg, Message
<1> QED
  BY <1>1, <1>2, ConcatProperties DEF Promised

(* The copy that Sync sends for a request of epoch e. *)
LEMMA SnapshotMessages ==
  ASSUME AuthorityTypeOK, RecentDense, NEW e \in Nat, ~Empty
  PROVE  LET copied == SyncEpochs(ShiftOf(e))
             copy   == [i \in DOMAIN copied |-> Msg("block", "snapshot", copied[i])]
         IN  /\ copy \in Seq(Message)
             /\ \A i \in 1 .. Len(copy) : copy[i] = Msg("block", "snapshot", e + i)
             /\ Len(copy) = 0 \/ e + Len(copy) = current
             /\ ShiftOf(e) > 1 => current <= e \/ Len(copy) # 0
<1> DEFINE copied == SyncEpochs(ShiftOf(e))
           copy == [i \in DOMAIN copied |-> Msg("block", "snapshot", copied[i])]
<1>1. /\ ShiftOf(e) \in Int /\ current \in Nat
      /\ copied \in Seq(Nat)
      /\ ShiftOf(e) <= 1 => copied = << >>
      /\ ShiftOf(e) > 1 =>
           /\ Len(copied) = IF current > e THEN current - e ELSE 0
           /\ \A i \in 1 .. Len(copied) : copied[i] = e + i
  BY SnapshotEpochs DEF AuthorityTypeOK, RecentTypeOK
<1> HIDE DEF copied
<1>2. Len(copied) \in Nat /\ DOMAIN copied = 1 .. Len(copied)
  BY <1>1
<1>3. \A i \in 1 .. Len(copied) : Msg("block", "snapshot", copied[i]) \in Message
  BY <1>1 DEF Msg, Message
<1>4. copy \in Seq(Message) /\ Len(copy) = Len(copied)
  BY <1>2, <1>3
<1>5. \A i \in 1 .. Len(copied) : copied[i] = e + i
  BY <1>1, <1>2
<1>6. \A i \in 1 .. Len(copy) : copy[i] = Msg("block", "snapshot", e + i)
  BY <1>2, <1>4, <1>5
<1>7. Len(copied) = 0 \/ e + Len(copied) = current
  BY <1>1, <1>2
<1>8. ShiftOf(e) > 1 => current <= e \/ Len(copied) # 0
  BY <1>1, <1>2
<1> HIDE DEF copy
<1>9. /\ copy \in Seq(Message)
      /\ \A i \in 1 .. Len(copy) : copy[i] = Msg("block", "snapshot", e + i)
      /\ Len(copy) = 0 \/ e + Len(copy) = current
      /\ ShiftOf(e) > 1 => current <= e \/ Len(copy) # 0
  BY <1>4, <1>6, <1>7, <1>8
<1> QED
  BY <1>9 DEF copy, copied

(* The blocks that NextBlock keeps. *)
LEMMA NextRecentKeeps ==
  ASSUME RecentTypeOK, RecentDense, NextRecent
  PROVE  RecentTypeOK' /\ RecentDense'
<1> DEFINE all == Append(blocks, current)
<1>1. blocks \in Seq(Nat) /\ Len(blocks) \in Nat /\ current \in Nat /\ maxBlocks \in Nat
  BY RecentAssumption DEF RecentTypeOK
<1>2. /\ all \in Seq(Nat) /\ all # << >>
      /\ Len(all) = Len(blocks) + 1
      /\ \A i \in 1 .. Len(blocks) : all[i] = blocks[i]
      /\ all[Len(blocks) + 1] = current
  BY <1>1, AppendProperties
<1>3. /\ blocks' = IF Len(all) > maxBlocks THEN Tail(all) ELSE all
      /\ current' = current + 1
  BY DEF NextRecent
<1> HIDE DEF all
<1>4. \A i \in 1 .. Len(all) : all[i] = current - Len(blocks) + i - 1
  <2>1. ASSUME NEW i \in 1 .. Len(blocks)
        PROVE  all[i] = current - Len(blocks) + i - 1
    <3>1. blocks[i] = current - Len(blocks) + i - 1
      BY DEF RecentDense
    <3> QED
      BY <1>2, <3>1
  <2>2. all[Len(blocks) + 1] = current - Len(blocks) + (Len(blocks) + 1) - 1
    BY <1>1, <1>2
  <2>3. \A i \in 1 .. Len(all) : i \in 1 .. Len(blocks) \/ i = Len(blocks) + 1
    BY <1>1, <1>2
  <2> QED
    BY <2>1, <2>2, <2>3
<1>5. CASE Len(all) > maxBlocks
  <2>1. /\ Tail(all) \in Seq(Nat)
        /\ Len(Tail(all)) = Len(blocks)
        /\ \A i \in 1 .. Len(Tail(all)) : Tail(all)[i] = all[i + 1]
    BY <1>1, <1>2, HeadTailProperties
  <2>2. /\ blocks' \in Seq(Nat) /\ Len(blocks') = Len(blocks)
        /\ DOMAIN blocks' = 1 .. Len(blocks)
    BY <1>1, <1>3, <1>5, <2>1
  <2>3. \A i \in 1 .. Len(blocks) : blocks'[i] = all[i + 1] /\ i + 1 \in 1 .. Len(all)
    BY <1>1, <1>2, <1>3, <1>5, <2>1
  <2>4. \A i \in 1 .. Len(blocks) : blocks'[i] = current' - Len(blocks') + i - 1
    <3> SUFFICES ASSUME NEW i \in 1 .. Len(blocks)
                 PROVE  blocks'[i] = current' - Len(blocks') + i - 1
      OBVIOUS
    <3>1. blocks'[i] = all[i + 1] /\ i + 1 \in 1 .. Len(all)
      BY <2>3
    <3>2. all[i + 1] = current - Len(blocks) + (i + 1) - 1
      BY <1>4, <3>1
    <3> QED
      <4>1. current' = current + 1 /\ i \in Int /\ Len(blocks') = Len(blocks)
        BY <1>1, <1>3, <2>2
      <4> QED
        BY <1>1, <3>1, <3>2, <4>1
  <2>5. RecentTypeOK'
    BY <1>1, <1>3, <2>2 DEF RecentTypeOK
  <2> QED
    BY <2>2, <2>4, <2>5 DEF RecentDense
<1>6. CASE ~ (Len(all) > maxBlocks)
  BY <1>1, <1>2, <1>3, <1>4, <1>6 DEF RecentTypeOK, RecentDense
<1> QED
  BY <1>5, <1>6

-----------------------------------------------------------------------------
(* Types, and the parts that concern everything but what is sent. *)

(* The authority starts with the invariant. *)
LEMMA InitInv == AuthorityInit => AuthorityInv
<1> SUFFICES ASSUME AuthorityInit PROVE AuthorityInv
  OBVIOUS
<1> USE RecentAssumption, AuthorityAssumption
<1>1. AuthorityTypeOK
  BY DEF AuthorityInit, NewRecentBlocks, AuthorityTypeOK, RecentTypeOK
<1>2. RecentDense
  BY DEF AuthorityInit, NewRecentBlocks, RecentDense
<1>3. HandOver
  BY DEF AuthorityInit, NewRecentBlocks, HandOver
<1>4. Connections
  BY DEF AuthorityInit, Connections
<1>5. Streams
  BY DEF AuthorityInit, Streams
<1> QED
  BY <1>1, <1>2, <1>3, <1>4, <1>5 DEF AuthorityInv

(* Every step of the authority keeps the types. *)
LEMMA TypeStep ==
  ASSUME AuthorityTypeOK, RecentDense, AuthorityNext
  PROVE  AuthorityTypeOK'
<1> USE RecentAssumption, AuthorityAssumption
<1> USE DEF stateVars, clientVars, managerVars, recentVars, poolVars, subscriberVars
<1>1. CASE StartAuthority \/ HandshakeFails
  BY <1>1 DEF StartAuthority, HandshakeFails, Panic, AuthorityTypeOK, RecentTypeOK
<1>2. ASSUME NEW c \in Client,
             NewIncoming(c) \/ EndIncoming(c) \/ TakeAction(c) \/ ReadSubmit(c) \/ ReadInvalid(c)
      PROVE  AuthorityTypeOK'
  <2>1. /\ client' \in [Client -> {"absent", "reading", "sending", "ending"}]
        /\ incomingConnections' = {d \in Client : client'[d] # "absent"}
    BY <1>2 DEF AuthorityTypeOK, ClientStep, NewIncoming, EndIncoming, TakeAction,
                ReadSubmit, ReadInvalid
  <2>2. submitted' \in 0 .. MaxActions
    BY <1>2 DEF AuthorityTypeOK, ClientStep, NewIncoming, EndIncoming, TakeAction,
                ReadSubmit, ReadInvalid
  <2>3. manager' \in {"select", "refused", "newBlock"} /\ handed' \in Nat
    BY <1>2 DEF AuthorityTypeOK, ClientStep, NewIncoming, EndIncoming, TakeAction,
                ReadSubmit, ReadInvalid
  <2>4. UNCHANGED <<stateVars, recentVars, poolVars, subscriberVars>>
    BY <1>2 DEF ClientStep, NewIncoming, EndIncoming, TakeAction, ReadSubmit, ReadInvalid
  <2> QED
    BY <2>1, <2>2, <2>3, <2>4 DEF AuthorityTypeOK, RecentTypeOK
<1>3. CASE Tick
  BY <1>3 DEF Tick, AuthorityTypeOK, RecentTypeOK
<1>4. CASE CloseBlock
  <2>1. RecentTypeOK'
    BY <1>4, NextRecentKeeps DEF CloseBlock, AuthorityTypeOK
  <2> QED
    BY <1>4, <2>1 DEF CloseBlock, PoolReceives, AuthorityTypeOK
<1>5. ASSUME NEW m \in Message, NEW to, Broadcast(m, to)
      PROVE  cache' \in [Subscriber -> Seq(Message)] /\ stream' \in [Subscriber -> Seq(Message)]
  <2>1. \A s \in Subscriber :
          /\ stream[s] \in Seq(Message) /\ Append(stream[s], m) \in Seq(Message)
          /\ cache[s] \in Seq(Message) /\ Append(cache[s], m) \in Seq(Message)
    BY <1>5, AppendProperties DEF AuthorityTypeOK
  <2> QED
    BY <1>5, <2>1 DEF Broadcast
<1>6. CASE BroadcastHeader
  <2>1. Msg("block", "broadcast", header) \in Message
    BY DEF AuthorityTypeOK, Msg, Message
  <2>2. cache' \in [Subscriber -> Seq(Message)] /\ stream' \in [Subscriber -> Seq(Message)]
    BY <1>5, <1>6, <2>1 DEF BroadcastHeader
  <2> QED
    BY <1>6, <2>2 DEF BroadcastHeader, AuthorityTypeOK, RecentTypeOK
<1>7. CASE BroadcastAction
  <2>1. Msg("action", "broadcast", handed) \in Message
    BY DEF AuthorityTypeOK, Msg, Message
  <2>2. cache' \in [Subscriber -> Seq(Message)] /\ stream' \in [Subscriber -> Seq(Message)]
    BY <1>5, <1>7, <2>1 DEF BroadcastAction
  <2> QED
    BY <1>7, <2>2 DEF BroadcastAction, PoolReceives, AuthorityTypeOK, RecentTypeOK
<1>8. ASSUME NEW s \in Subscriber,
             NewOutgoing(s) \/ (\E e \in 0 .. MaxBlock : RequestSync(s, e))
      PROVE  AuthorityTypeOK'
  <2>1. CASE NewOutgoing(s)
    BY <2>1 DEF NewOutgoing, AuthorityTypeOK, RecentTypeOK
  <2>2. ASSUME NEW e \in 0 .. MaxBlock, RequestSync(s, e)
        PROVE  AuthorityTypeOK'
    <3>1. e \in Nat
      OBVIOUS
    <3>2. since' \in [Subscriber -> Nat]
      BY <2>2, <3>1 DEF RequestSync, AuthorityTypeOK
    <3> QED
      BY <2>2, <3>2 DEF RequestSync, AuthorityTypeOK, RecentTypeOK
  <2> QED
    BY <1>8, <2>1, <2>2
<1>9. ASSUME NEW s \in Subscriber, Sync(s)
      PROVE  AuthorityTypeOK'
  <2>1. CASE Empty
    BY <1>9, <2>1 DEF Sync, Panic, AuthorityTypeOK, RecentTypeOK
  <2>2. CASE ~Empty
    <3> DEFINE n == ShiftOf(since[s])
               copied == SyncEpochs(n)
               copy == [i \in DOMAIN copied |-> Msg("block", "snapshot", copied[i])]
    <3>1. since[s] \in Nat
      BY DEF AuthorityTypeOK
    <3>2. copy \in Seq(Message) /\ n \in Int
      BY <2>2, <3>1, SnapshotMessages, SnapshotEpochs
    <3>3. /\ stage' = [stage EXCEPT ![s] = AfterCopy(n)]
          /\ shift' = [shift EXCEPT ![s] = n]
          /\ stream' = [stream EXCEPT ![s] = copy]
          /\ UNCHANGED <<stateVars, since, cache, clientVars, managerVars, recentVars, poolVars>>
      BY <1>9, <2>2 DEF Sync
    <3> HIDE DEF copy, n
    <3>4. AfterCopy(n) \in {"refused", "syncing"}
      BY DEF AfterCopy
    <3> QED
      BY <3>2, <3>3, <3>4 DEF AuthorityTypeOK, RecentTypeOK
  <2> QED
    BY <2>1, <2>2
<1>10. ASSUME NEW s \in Subscriber, Ready(s) \/ Break(s)
       PROVE  AuthorityTypeOK'
  <2>1. stream[s] \o cache[s] \in Seq(Message)
    BY PromisedType, ConcatProperties
  <2>2. << >> \in Seq(Message)
    OBVIOUS
  <2>3. /\ stream' \in [Subscriber -> Seq(Message)] /\ cache' \in [Subscriber -> Seq(Message)]
        /\ stage' \in [Subscriber -> {"absent", "requesting", "started", "syncing",
                                      "ready", "refused", "broken"}]
    <3>1. PICK x \in Seq(Message), y \in {"ready", "broken"} :
            /\ stream' = [stream EXCEPT ![s] = x] /\ cache' = [cache EXCEPT ![s] = << >>]
            /\ stage' = [stage EXCEPT ![s] = y]
      <4>1. CASE Ready(s)
        BY <2>1, <4>1 DEF Ready
      <4>2. CASE Break(s)
        BY <2>2, <4>2 DEF Break
      <4> QED
        BY <1>10, <4>1, <4>2
    <3>2. stream \in [Subscriber -> Seq(Message)] /\ cache \in [Subscriber -> Seq(Message)]
      BY DEF AuthorityTypeOK
    <3>3. stage' \in [Subscriber -> {"absent", "requesting", "started", "syncing",
                                     "ready", "refused", "broken"}]
      BY <3>1 DEF AuthorityTypeOK
    <3>4. stream' \in [Subscriber -> Seq(Message)] /\ cache' \in [Subscriber -> Seq(Message)]
      BY <2>2, <3>1, <3>2
    <3> QED
      BY <3>3, <3>4
  <2>4. UNCHANGED <<stateVars, clientVars, managerVars, recentVars, poolVars, since, shift>>
    BY <1>10 DEF Ready, Break
  <2> QED
    BY <2>3, <2>4 DEF AuthorityTypeOK, RecentTypeOK
<1> QED
  BY <1>1, <1>2, <1>3, <1>4, <1>6, <1>7, <1>8, <1>9, <1>10 DEF AuthorityNext

(* The manager hands over the block after the open one, or an action that  *)
(* it tried on the state of the open one.                                  *)
LEMMA HandOverStep ==
  ASSUME AuthorityTypeOK, HandOver, AuthorityNext
  PROVE  HandOver'
<1> USE DEF stateVars, clientVars, managerVars, recentVars, poolVars, subscriberVars
<1>1. CASE StartAuthority \/ HandshakeFails
  BY <1>1 DEF StartAuthority, HandshakeFails, Panic, HandOver
<1>2. ASSUME NEW c \in Client,
             NewIncoming(c) \/ EndIncoming(c) \/ ReadSubmit(c) \/ ReadInvalid(c)
      PROVE  HandOver'
  BY <1>2 DEF ClientStep, NewIncoming, EndIncoming, ReadSubmit, ReadInvalid, HandOver
<1>3. ASSUME NEW c \in Client, TakeAction(c)
      PROVE  HandOver'
  BY <1>3 DEF ClientStep, TakeAction, HandOver
<1>4. CASE Tick
  BY <1>4 DEF Tick, HandOver, AuthorityTypeOK
<1>5. CASE CloseBlock
  BY <1>5 DEF CloseBlock, PoolReceives, NextRecent, HandOver
<1>6. CASE BroadcastHeader \/ BroadcastAction
  BY <1>6 DEF BroadcastHeader, BroadcastAction, PoolReceives, HandOver
<1>7. ASSUME NEW s \in Subscriber,
             NewOutgoing(s) \/ (\E e \in 0 .. MaxBlock : RequestSync(s, e))
             \/ Ready(s) \/ Break(s)
      PROVE  HandOver'
  BY <1>7 DEF NewOutgoing, RequestSync, Ready, Break, HandOver
<1>8. ASSUME NEW s \in Subscriber, Sync(s)
      PROVE  HandOver'
  BY <1>8 DEF Sync, Panic, HandOver
<1> QED
  BY <1>1, <1>2, <1>3, <1>4, <1>5, <1>6, <1>7, <1>8 DEF AuthorityNext

(* The open block is closed behind the blocks that are kept. *)
LEMMA RecentDenseStep ==
  ASSUME AuthorityTypeOK, RecentDense, AuthorityNext
  PROVE  RecentDense'
<1>1. CASE CloseBlock
  BY <1>1, NextRecentKeeps DEF CloseBlock, AuthorityTypeOK
<1>2. CASE ~CloseBlock
  <2>1. UNCHANGED recentVars
    BY <1>2 DEF AuthorityNext, StartAuthority, HandshakeFails, ClientStep, NewIncoming,
      EndIncoming, TakeAction, ReadSubmit, ReadInvalid, Tick, BroadcastHeader,
      BroadcastAction, NewOutgoing, RequestSync, Sync, Ready, Break
  <2> QED
    BY <2>1 DEF recentVars, RecentDense
<1> QED
  BY <1>1, <1>2

(* Who is not in the pool is kept nothing for, and nothing is sent to a    *)
(* connection before it is synchronised.                                   *)
LEMMA ConnectionsStep ==
  ASSUME AuthorityTypeOK, Connections, AuthorityNext
  PROVE  Connections'
<1> USE DEF stateVars, clientVars, managerVars, recentVars, poolVars, subscriberVars
<1>1. CASE UNCHANGED <<pool, stage, stream, cache>>
  BY <1>1 DEF Connections
<1>2. ASSUME NEW m, NEW to, Broadcast(m, to), to \subseteq pool, pool' \subseteq pool,
             UNCHANGED stage
      PROVE  Connections'
  BY <1>2 DEF Broadcast, Connections, AuthorityTypeOK
<1>3. CASE BroadcastHeader \/ BroadcastAction
  BY <1>2, <1>3 DEF BroadcastHeader, BroadcastAction
<1>4. ASSUME NEW s \in Subscriber, NewOutgoing(s)
      PROVE  Connections'
  BY <1>4 DEF NewOutgoing, Connections, AuthorityTypeOK
<1>5. ASSUME NEW s \in Subscriber, NEW e \in 0 .. MaxBlock, RequestSync(s, e)
      PROVE  Connections'
  BY <1>5 DEF RequestSync, Connections, AuthorityTypeOK
<1>6. ASSUME NEW s \in Subscriber, Sync(s), ~Empty
      PROVE  Connections'
  <2>1. PICK n \in {ShiftOf(since[s])} :
          /\ stage' = [stage EXCEPT ![s] = AfterCopy(n)]
          /\ \A t \in Subscriber \ {s} : stream'[t] = stream[t]
          /\ UNCHANGED <<cache, pool>>
    BY <1>6 DEF Sync, AuthorityTypeOK
  <2>2. AfterCopy(n) \in {"refused", "syncing"}
    BY DEF AfterCopy
  <2>3. \A t \in Subscriber \ {s} : stage'[t] = stage[t]
    BY <2>1 DEF AuthorityTypeOK
  <2>4. stage'[s] \in {"refused", "syncing"}
    BY <2>1, <2>2 DEF AuthorityTypeOK
  <2> QED
    BY <2>1, <2>3, <2>4 DEF Connections
<1>7. ASSUME NEW s \in Subscriber, Ready(s) \/ Break(s)
      PROVE  Connections'
  <2>1. CASE Ready(s)
    BY <2>1 DEF Ready, Connections, AuthorityTypeOK
  <2>2. CASE Break(s)
    BY <2>2 DEF Break, Connections, AuthorityTypeOK
  <2> QED
    BY <1>7, <2>1, <2>2
<1>8. ASSUME NEW s \in Subscriber, Sync(s), Empty
      PROVE  Connections'
  BY <1>1, <1>8 DEF Sync
<1>9. CASE StartAuthority \/ HandshakeFails \/ Tick \/ CloseBlock
  BY <1>1, <1>9 DEF StartAuthority, HandshakeFails, Tick, CloseBlock
<1>10. ASSUME NEW c \in Client,
              NewIncoming(c) \/ EndIncoming(c) \/ TakeAction(c) \/ ReadSubmit(c) \/ ReadInvalid(c)
       PROVE  Connections'
  BY <1>1, <1>10 DEF ClientStep, NewIncoming, EndIncoming, TakeAction, ReadSubmit, ReadInvalid
<1> QED
  BY <1>3, <1>4, <1>5, <1>6, <1>7, <1>8, <1>9, <1>10 DEF AuthorityNext

-----------------------------------------------------------------------------
(* What subscribers are told. *)

(* Of one subscriber, in one state. *)
StreamOf(s) ==
  failures = 0 /\ s \in pool =>
    /\ stage[s] \in {"started", "syncing", "ready"} => Told(Promised(s), current)
    /\ stage[s] \in {"syncing", "ready"} /\ shift[s] # 1 =>
         Covers(Promised(s), since[s], current)

(* Nothing changes for a subscriber that is told what it was told.         *)
LEMMA StreamKept ==
  ASSUME AuthorityTypeOK, NEW s \in Subscriber, StreamOf(s),
         failures' = 0 => failures = 0,
         UNCHANGED <<current, pooling, header>>,
         s \in pool' => s \in pool,
         stage'[s] = stage[s] \/ stage'[s] \notin {"started", "syncing", "ready"}
           \/ (stage[s] = "syncing" /\ stage'[s] = "ready"),
         since'[s] = since[s], shift'[s] = shift[s],
         stage'[s] \in {"started", "syncing", "ready"} =>
           stream'[s] \o cache'[s] = stream[s] \o cache[s]
  PROVE  StreamOf(s)'
<1> SUFFICES ASSUME failures = 0, s \in pool, s \in pool',
                    stage'[s] \in {"started", "syncing", "ready"}
             PROVE  StreamOf(s)'
  BY DEF StreamOf
<1>1. Promised(s)' = Promised(s)
  BY DEF Promised
<1>2. Told(Promised(s)', current') = Told(Promised(s), current)
      /\ Covers(Promised(s)', since'[s], current') = Covers(Promised(s), since[s], current)
  BY <1>1
<1> QED
  BY <1>2 DEF StreamOf

(* What is sent, kept and pending can be read as one sequence. *)
LEMMA MessagesAssociative ==
  \A a, b, d \in Seq(Message) : (a \o b) \o d = a \o (b \o d)
BY ConcatAssociative

(* A message is broadcast to the pool to. *)
LEMMA BroadcastPromised ==
  ASSUME AuthorityTypeOK, Connections, NEW m \in Message, NEW to \in SUBSET Subscriber,
         Broadcast(m, to), NEW s \in to,
         stage[s] \in {"started", "syncing", "ready"}
  PROVE  stream'[s] \o cache'[s] = (stream[s] \o cache[s]) \o <<m>>
<1>1. /\ stream[s] \in Seq(Message) /\ cache[s] \in Seq(Message)
      /\ <<m>> \in Seq(Message) /\ << >> \in Seq(Message)
  BY PromisedType
<1>2. s \in to \ dead
  BY DEF dead
<1>3. CASE stage[s] = "ready"
  <2>1. /\ stream'[s] = Append(stream[s], m) /\ cache'[s] = cache[s] /\ cache[s] = << >>
    BY <1>2, <1>3 DEF Broadcast, Connections
  <2>2. Append(stream[s], m) = stream[s] \o <<m>>
    BY <1>1, AppendIsConcat
  <2>3. stream[s] \o <<m>> \in Seq(Message)
    BY <1>1, ConcatProperties
  <2>4. (stream[s] \o <<m>>) \o << >> = stream[s] \o <<m>> /\ stream[s] \o << >> = stream[s]
    BY <1>1, <2>3, ConcatEmptySeq
  <2>5. stream'[s] \o cache'[s] = (stream[s] \o <<m>>) \o << >>
    BY <2>1, <2>2
  <2>6. stream[s] \o cache[s] = stream[s] \o << >>
    BY <2>1
  <2> QED
    BY Zenon, <2>4, <2>5, <2>6
<1>4. CASE stage[s] # "ready"
  <2>1. cache'[s] = Append(cache[s], m) /\ stream'[s] = stream[s]
    BY <1>2, <1>4 DEF Broadcast
  <2>2. Append(cache[s], m) = cache[s] \o <<m>>
    BY <1>1, AppendIsConcat
  <2>3. (stream[s] \o cache[s]) \o <<m>> = stream[s] \o (cache[s] \o <<m>>)
    BY Zenon, <1>1, MessagesAssociative
  <2> QED
    BY <2>1, <2>2, <2>3
<1> QED
  BY <1>3, <1>4

(* Every step leaves a subscriber told all that it has to be told. *)
LEMMA StreamOfStep ==
  ASSUME AuthorityInv, AuthorityNext, NEW s \in Subscriber, StreamOf(s)
  PROVE  StreamOf(s)'
<1> USE DEF stateVars, clientVars, managerVars, recentVars, poolVars, subscriberVars
<1>1. AuthorityTypeOK /\ RecentDense /\ HandOver /\ Connections
  BY DEF AuthorityInv
<1>2. CASE UNCHANGED <<current, pooling, header, pool, stage, since, shift, stream, cache>>
           /\ (failures' = 0 => failures = 0)
  BY <1>1, <1>2, StreamKept
<1>3. CASE StartAuthority \/ HandshakeFails
  BY <1>2, <1>3 DEF StartAuthority, HandshakeFails, Panic
<1>4. ASSUME NEW c \in Client,
             NewIncoming(c) \/ EndIncoming(c) \/ TakeAction(c) \/ ReadSubmit(c) \/ ReadInvalid(c)
      PROVE  StreamOf(s)'
  BY <1>2, <1>4 DEF ClientStep, NewIncoming, EndIncoming, TakeAction, ReadSubmit, ReadInvalid
<1>5. CASE Tick
  BY <1>2, <1>5 DEF Tick
<1>6. CASE CloseBlock
  <2> SUFFICES ASSUME failures = 0, s \in pool, stage[s] \in {"started", "syncing", "ready"}
               PROVE  StreamOf(s)'
    BY <1>6 DEF CloseBlock, StreamOf
  <2> DEFINE m == Msg("block", "broadcast", current + 1)
  <2>1. /\ pooling = "select" /\ pooling' = "header" /\ header' = current + 1
        /\ current' = current + 1 /\ current \in Nat /\ since[s] \in Nat
        /\ UNCHANGED <<stage, since, shift, stream, cache, pool>>
    BY <1>1, <1>6 DEF CloseBlock, PoolReceives, NextRecent, HandOver, AuthorityTypeOK, RecentTypeOK
  <2>2. Promised(s) \in Seq(Message) /\ stream[s] \o cache[s] \in Seq(Message)
    BY <1>1, PromisedType, ConcatProperties
  <2>3. Promised(s) = stream[s] \o cache[s]
    BY <2>1, <2>2, ConcatEmptySeq DEF Promised
  <2>4. Promised(s)' = Promised(s) \o <<m>>
    BY <2>1, <2>3 DEF Promised
  <2>5. m \in Message
    BY <2>1 DEF Msg, Message
  <2>6. Told(Promised(s), current)
    BY DEF StreamOf
  <2>7. /\ Told(Promised(s) \o <<m>>, current + 1)
        /\ Covers(Promised(s), since[s], current) =>
             Covers(Promised(s) \o <<m>>, since[s], current + 1)
    BY <2>1, <2>2, <2>5, <2>6, AddHeader
  <2>8. Told(Promised(s)', current')
    BY <2>1, <2>4, <2>7
  <2>9. Covers(Promised(s), since[s], current) => Covers(Promised(s)', since'[s], current')
    BY <2>1, <2>4, <2>7
  <2> QED
    BY <2>1, <2>8, <2>9 DEF StreamOf
<1>7. CASE BroadcastHeader
  <2> SUFFICES ASSUME failures = 0, s \in pool', s \in pool,
                      stage[s] \in {"started", "syncing", "ready"}
               PROVE  StreamOf(s)'
    BY <1>7 DEF BroadcastHeader, StreamOf
  <2> DEFINE m == Msg("block", "broadcast", header)
  <2>1. /\ pooling = "header" /\ pooling' = "select"
        /\ Broadcast(m, pool') /\ pool' \in SUBSET Subscriber
        /\ UNCHANGED <<current, stage, since, shift>>
    BY <1>1, <1>7 DEF BroadcastHeader, AuthorityTypeOK
  <2>2. m \in Message
    BY <1>1 DEF Msg, Message, AuthorityTypeOK
  <2>3. stream'[s] \o cache'[s] = (stream[s] \o cache[s]) \o <<m>>
    BY <1>1, <2>1, <2>2, BroadcastPromised
  <2>4. Promised(s) = (stream[s] \o cache[s]) \o <<m>> /\ Promised(s) \in Seq(Message)
    BY <1>1, <2>1, PromisedType DEF Promised
  <2>5. Promised(s)' = Promised(s)
    BY <2>1, <2>3, <2>4, ConcatEmptySeq DEF Promised
  <2>6. /\ Told(Promised(s)', current') = Told(Promised(s), current)
        /\ Covers(Promised(s)', since'[s], current') = Covers(Promised(s), since[s], current)
    BY <2>1, <2>5
  <2> QED
    BY <2>1, <2>6 DEF StreamOf
<1>8. CASE BroadcastAction
  <2> SUFFICES ASSUME failures = 0, s \in pool, stage[s] \in {"started", "syncing", "ready"}
               PROVE  StreamOf(s)'
    BY <1>8 DEF BroadcastAction, StreamOf
  <2> DEFINE m == Msg("action", "broadcast", current)
  <2>1. /\ pooling = "select" /\ handed = current /\ current \in Nat /\ since[s] \in Nat
        /\ Broadcast(m, pool) /\ pool \in SUBSET Subscriber
        /\ UNCHANGED <<current, pooling, header, pool, stage, since, shift>>
    BY <1>1, <1>8 DEF BroadcastAction, PoolReceives, HandOver, AuthorityTypeOK, RecentTypeOK
  <2>2. m \in Message
    BY <2>1 DEF Msg, Message
  <2>3. stream'[s] \o cache'[s] = (stream[s] \o cache[s]) \o <<m>>
    BY <1>1, <2>1, <2>2, BroadcastPromised
  <2>4. stream[s] \o cache[s] \in Seq(Message) /\ <<m>> \in Seq(Message)
    BY <1>1, <2>2, PromisedType, ConcatProperties
  <2>5. (stream[s] \o cache[s]) \o <<m>> \in Seq(Message)
    BY <2>4, ConcatProperties
  <2>6. Promised(s) = stream[s] \o cache[s]
    BY <2>1, <2>4, ConcatEmptySeq DEF Promised
  <2>7. Promised(s)' = Promised(s) \o <<m>>
    BY <2>1, <2>3, <2>5, <2>6, ConcatEmptySeq DEF Promised
  <2>8. Told(Promised(s), current) /\ Promised(s) \in Seq(Message)
    BY <2>4, <2>6 DEF StreamOf
  <2>9. /\ Told(Promised(s) \o <<m>>, current)
        /\ Covers(Promised(s), since[s], current) =>
             Covers(Promised(s) \o <<m>>, since[s], current)
    BY <2>1, <2>2, <2>8, AddAction
  <2>10. Told(Promised(s)', current')
    BY <2>1, <2>7, <2>9
  <2>11. Covers(Promised(s), since[s], current) => Covers(Promised(s)', since'[s], current')
    BY <2>1, <2>7, <2>9
  <2> QED
    BY <2>1, <2>10, <2>11 DEF StreamOf
<1>9. ASSUME NEW t \in Subscriber, NewOutgoing(t)
      PROVE  StreamOf(s)'
  <2>1. CASE t # s
    <3>1. stage'[s] = stage[s] /\ (s \in pool' => s \in pool)
          /\ UNCHANGED <<failures, current, pooling, header, since, shift, stream, cache>>
      BY <1>1, <1>9, <2>1 DEF NewOutgoing, AuthorityTypeOK
    <3> QED
      BY <1>1, <3>1, StreamKept
  <2>2. CASE t = s
    <3>1. /\ pooling' = "select" /\ stage'[s] = "started"
          /\ stream'[s] = << >> /\ cache'[s] = << >>
      BY <1>1, <1>9, <2>2 DEF NewOutgoing, Connections, AuthorityTypeOK
    <3>2. << >> \o << >> = << >>
      BY ConcatEmptySeq
    <3>3. Promised(s)' = << >>
      BY <3>1, <3>2 DEF Promised
    <3>4. Told(Promised(s)', current')
      BY <3>3, ToldNothing
    <3> QED
      BY <3>1, <3>4 DEF StreamOf
  <2> QED
    BY <2>1, <2>2
<1>10. ASSUME NEW t \in Subscriber, NEW e \in 0 .. MaxBlock, RequestSync(t, e)
       PROVE  StreamOf(s)'
  <2>1. CASE t # s
    <3>1. /\ stage'[s] = stage[s] /\ since'[s] = since[s]
          /\ UNCHANGED <<failures, current, pooling, header, pool, shift, stream, cache>>
      BY <1>1, <1>10, <2>1 DEF RequestSync, AuthorityTypeOK
    <3> QED
      BY <1>1, <3>1, StreamKept
  <2>2. CASE t = s
    BY <1>1, <1>10, <2>2 DEF RequestSync, Connections, StreamOf
  <2> QED
    BY <2>1, <2>2
<1>11. ASSUME NEW t \in Subscriber, Sync(t), Empty
       PROVE  StreamOf(s)'
  BY <1>2, <1>11 DEF Sync, Panic
<1>12. ASSUME NEW t \in Subscriber, Sync(t), ~Empty
       PROVE  StreamOf(s)'
  <2> DEFINE n == ShiftOf(since[t])
             copied == SyncEpochs(n)
             copy == [i \in DOMAIN copied |-> Msg("block", "snapshot", copied[i])]
  <2>1. /\ stage' = [stage EXCEPT ![t] = AfterCopy(n)]
        /\ shift' = [shift EXCEPT ![t] = n]
        /\ stream' = [stream EXCEPT ![t] = copy]
        /\ UNCHANGED <<failures, since, cache, current, pooling, header, pool>>
        /\ stage[t] = "started"
    BY <1>12 DEF Sync
  <2>2. since[t] \in Nat /\ current \in Nat
    BY <1>1 DEF AuthorityTypeOK, RecentTypeOK
  <2>3. /\ n \in Int
        /\ copy \in Seq(Message)
        /\ \A i \in 1 .. Len(copy) : copy[i] = Msg("block", "snapshot", since[t] + i)
        /\ Len(copy) = 0 \/ since[t] + Len(copy) = current
        /\ n > 1 => current <= since[t] \/ Len(copy) # 0
    BY <1>1, <1>12, <2>2, SnapshotMessages, SnapshotEpochs
  <2> HIDE DEF copy, copied, n
  <2>4. CASE t # s
    <3>1. /\ stage'[s] = stage[s] /\ shift'[s] = shift[s] /\ stream'[s] = stream[s]
      BY <1>1, <2>1, <2>4 DEF AuthorityTypeOK
    <3> QED
      BY <1>1, <2>1, <3>1, StreamKept
  <2>5. CASE t = s
    <3> SUFFICES ASSUME failures = 0, s \in pool, stage'[s] \in {"started", "syncing", "ready"}
                 PROVE  StreamOf(s)'
      BY <2>1 DEF StreamOf
    <3>1. /\ stage'[s] = "syncing" /\ shift'[s] = n /\ n >= 1
          /\ stream'[s] = copy
      BY <1>1, <2>1, <2>3, <2>5 DEF AfterCopy, AuthorityTypeOK
    <3> DEFINE tail == IF pooling = "header" /\ s \in pool
                         THEN <<Msg("block", "broadcast", header)>> ELSE << >>
    <3>2. /\ stream[s] = << >> /\ cache[s] \in Seq(Message) /\ << >> \o cache[s] = cache[s]
          /\ << >> \in Seq(Message)
      BY <1>1, <2>1, <2>5, PromisedType, ConcatEmptySeq DEF Connections
    <3>3. tail \in Seq(Message)
      <4>1. Msg("block", "broadcast", header) \in Message
        BY <1>1 DEF Msg, Message, AuthorityTypeOK
      <4> QED
        BY <4>1
    <3>4. Promised(s) = cache[s] \o tail
      BY <3>2 DEF Promised
    <3>5. Promised(s)' = (copy \o cache[s]) \o tail
      BY <2>1, <3>1 DEF Promised
    <3> HIDE DEF tail
    <3>6. Promised(s)' = copy \o Promised(s) /\ Promised(s) \in Seq(Message)
      <4>1. (copy \o cache[s]) \o tail = copy \o (cache[s] \o tail)
        BY <2>3, <3>2, <3>3, MessagesAssociative
      <4>2. cache[s] \o tail \in Seq(Message)
        BY <3>2, <3>3, ConcatProperties
      <4> QED
        BY <3>4, <3>5, <4>1, <4>2
    <3>7. Told(Promised(s), current)
      BY <2>1, <2>5 DEF StreamOf
    <3>8. /\ Told(copy \o Promised(s), current)
          /\ current <= since[s] \/ Len(copy) # 0 =>
               Covers(copy \o Promised(s), since[s], current)
      BY <2>2, <2>3, <2>5, <3>6, <3>7, PutBefore
    <3>9. Told(Promised(s)', current')
      BY <2>1, <3>6, <3>8
    <3>10. shift'[s] # 1 => Covers(Promised(s)', since'[s], current')
      BY <2>1, <2>3, <2>5, <3>1, <3>6, <3>8
    <3> QED
      BY <3>9, <3>10 DEF StreamOf
  <2> QED
    BY <2>4, <2>5
<1>13. ASSUME NEW t \in Subscriber, Ready(t)
       PROVE  StreamOf(s)'
  <2>1. CASE t # s
    <3>1. /\ stage'[s] = stage[s] /\ stream'[s] = stream[s] /\ cache'[s] = cache[s]
          /\ UNCHANGED <<failures, current, pooling, header, pool, since, shift>>
      BY <1>1, <1>13, <2>1 DEF Ready, AuthorityTypeOK
    <3> QED
      BY <1>1, <3>1, StreamKept
  <2>2. CASE t = s
    <3>1. /\ stage[s] = "syncing" /\ stage'[s] = "ready"
          /\ stream'[s] = stream[s] \o cache[s] /\ cache'[s] = << >>
          /\ UNCHANGED <<failures, current, pooling, header, pool, since, shift>>
      BY <1>1, <1>13, <2>2 DEF Ready, AuthorityTypeOK
    <3>2. (stream[s] \o cache[s]) \o << >> = stream[s] \o cache[s]
      <4>1. stream[s] \o cache[s] \in Seq(Message)
        BY <1>1, PromisedType, ConcatProperties
      <4> QED
        BY <4>1, ConcatEmptySeq
    <3> QED
      BY <1>1, <3>1, <3>2, StreamKept
  <2> QED
    BY <2>1, <2>2
<1>14. ASSUME NEW t \in Subscriber, Break(t)
       PROVE  StreamOf(s)'
  <2>1. CASE t # s
    <3>1. /\ stage'[s] = stage[s] /\ stream'[s] = stream[s] /\ cache'[s] = cache[s]
          /\ UNCHANGED <<failures, current, pooling, header, pool, since, shift>>
      BY <1>1, <1>14, <2>1 DEF Break, AuthorityTypeOK
    <3> QED
      BY <1>1, <3>1, StreamKept
  <2>2. CASE t = s
    <3>1. stage'[s] = "broken"
      BY <1>1, <1>14, <2>2 DEF Break, AuthorityTypeOK
    <3> QED
      BY <3>1 DEF StreamOf
  <2> QED
    BY <2>1, <2>2
<1> QED
  BY <1>3, <1>4, <1>5, <1>6, <1>7, <1>8, <1>9, <1>10, <1>11, <1>12, <1>13, <1>14
  DEF AuthorityNext

(* Every step keeps the invariant. *)
LEMMA InvStep == AuthorityInv /\ [AuthorityNext]_authorityVars => AuthorityInv'
<1> SUFFICES ASSUME AuthorityInv, [AuthorityNext]_authorityVars PROVE AuthorityInv'
  OBVIOUS
<1>1. CASE UNCHANGED authorityVars
  BY <1>1 DEF AuthorityInv, AuthorityTypeOK, RecentTypeOK, RecentDense, HandOver, Connections,
    Streams, Promised, authorityVars, stateVars, clientVars, managerVars, recentVars, poolVars,
    subscriberVars
<1>2. CASE AuthorityNext
  <2>1. AuthorityTypeOK' /\ RecentDense' /\ HandOver' /\ Connections'
    BY <1>2, TypeStep, RecentDenseStep, HandOverStep, ConnectionsStep DEF AuthorityInv
  <2>2. \A s \in Subscriber : StreamOf(s)
    BY DEF AuthorityInv, Streams, StreamOf
  <2>3. \A s \in Subscriber : StreamOf(s)'
    BY <1>2, <2>2, StreamOfStep
  <2>4. Streams'
    BY <2>1, <2>3 DEF Streams, StreamOf, AuthorityTypeOK
  <2> QED
    BY <2>1, <2>4 DEF AuthorityInv
<1> QED
  BY <1>1, <1>2

(* What the authority keeps is what its goroutines expect of each other.   *)
THEOREM AuthorityInvariant == AuthoritySpec => []AuthorityInv
<1>1. AuthorityInit => AuthorityInv
  BY InitInv
<1>2. AuthorityInv /\ [AuthorityNext]_authorityVars => AuthorityInv'
  BY InvStep
<1> QED
  BY <1>1, <1>2, PTL DEF AuthoritySpec

(* The variables of the authority have their types. *)
THEOREM AuthorityTypeCorrect == AuthoritySpec => []AuthorityTypeOK
<1>1. AuthorityInv => AuthorityTypeOK
  BY DEF AuthorityInv
<1> QED
  BY <1>1, AuthorityInvariant, PTL

(* A subscriber that joins while blocks are closed misses none of them.    *)
THEOREM HeadersCompleteCorrect == AuthoritySpec => []HeadersComplete
<1>1. AuthorityInv => HeadersComplete
  <2> SUFFICES ASSUME AuthorityInv, failures = 0,
                      NEW s \in {t \in Served : shift[t] # 1}
               PROVE  LET told    == Promised(s)
                          headers == {n \in DOMAIN told : told[n].type = "block"}
                      IN  /\ \A e \in since[s] + 1 .. current :
                               \E n \in headers : told[n].epoch = e
                          /\ \A n \in headers :
                               \/ told[n].epoch <= since[s] + 1 /\ \A m \in headers : n <= m
                               \/ \E m \in headers :
                                    m < n /\ told[m].epoch >= told[n].epoch - 1
    BY DEF HeadersComplete
  <2> DEFINE told == Promised(s)
  <2>1. Told(told, current) /\ Covers(told, since[s], current)
    BY DEF AuthorityInv, Streams, Served
  <2> HIDE DEF told
  <2>2. \A e \in since[s] + 1 .. current : \E n \in Headers(told) : told[n].epoch = e
    BY <2>1 DEF Covers
  <2>3. \A n \in Headers(told) :
          \/ told[n].epoch <= since[s] + 1 /\ \A m \in Headers(told) : n <= m
          \/ \E m \in Headers(told) : m < n /\ told[m].epoch >= told[n].epoch - 1
    BY <2>1 DEF Covers, Told, Climbs
  <2> QED
    BY <2>2, <2>3 DEF Headers, told
<1> QED
  BY <1>1, AuthorityInvariant, PTL

(* An action is told behind the header of the block on whose state it was  *)
(* tried.                                                                  *)
THEOREM ActionAttributedCorrect == AuthoritySpec => []ActionAttributed
<1>1. AuthorityInv => ActionAttributed
  <2> SUFFICES ASSUME AuthorityInv, failures = 0, NEW s \in Served
               PROVE  LET all == Promised(s)
                      IN  \A n \in DOMAIN all, k \in DOMAIN all :
                            /\ k < n /\ all[n].type = "action" /\ all[k].type = "block"
                            /\ \A m \in k + 1 .. n : all[m].type = "action"
                            => IF all[k].from = "broadcast" THEN all[n].epoch = all[k].epoch
                                                            ELSE all[n].epoch <= all[k].epoch
    BY DEF ActionAttributed
  <2>1. Attributed(Promised(s))
    BY DEF AuthorityInv, Streams, Served, Told
  <2> QED
    BY <2>1 DEF Attributed
<1> QED
  BY <1>1, AuthorityInvariant, PTL

-----------------------------------------------------------------------------
(* The gateway. *)
GatewayTypeOK ==
  /\ gateway \in {"off", "failed", "on"} /\ link \in {"down", "up", "broken"}
  /\ source \in [Sender -> {"absent", "reading", "holding", "ending"}]
  /\ heard \in [Sender -> Seq(Submission)]
  /\ sent \in [Sender -> Seq({Dress[a] : a \in Submission})]

(* A client is heard only by a gateway that has its provider, and what its *)
(* goroutine holds is the last action that was read from it.               *)
GatewayInv ==
  /\ GatewayTypeOK
  /\ gateway = "on" => link # "down"
  /\ gateway # "on" => \A c \in Sender : heard[c] = << >>
  /\ \A c \in Sender : source[c] = "holding" => heard[c] # << >>
  /\ PassedOnInOrder

(* PassedOnInOrder, of one client. *)
InOrderOf(c) ==
  LET inHand == IF source[c] = "holding" THEN 1 ELSE 0
  IN  /\ Len(sent[c]) <= Len(heard[c]) - inHand
      /\ link = "up" => Len(sent[c]) = Len(heard[c]) - inHand
      /\ \A n \in DOMAIN sent[c] : sent[c][n] = Dress[heard[c][n]]

(* A client's action is read, and then passed on or lost with the link. *)
LEMMA GatewayStepOf ==
  ASSUME GatewayInv, GatewayNext, NEW d \in Sender
  PROVE  InOrderOf(d)' /\ (source[d] = "holding" => heard[d] # << >>)'
<1>1. /\ GatewayTypeOK /\ InOrderOf(d)
      /\ gateway = "on" => link # "down"
      /\ gateway # "on" => heard[d] = << >>
      /\ source[d] = "holding" => heard[d] # << >>
  BY DEF GatewayInv, PassedOnInOrder, InOrderOf
<1>2. /\ heard[d] \in Seq(Submission) /\ sent[d] \in Seq({Dress[a] : a \in Submission})
      /\ Len(heard[d]) \in Nat /\ Len(sent[d]) \in Nat /\ link \in {"down", "up", "broken"}
  BY <1>1 DEF GatewayTypeOK
<1>3. CASE /\ source'[d] = "holding" <=> source[d] = "holding"
           /\ heard'[d] = heard[d] /\ sent'[d] = sent[d]
           /\ link' = "up" => link = "up"
  BY <1>1, <1>3 DEF InOrderOf
<1>4. CASE StartGateway
  <2>1. heard[d] = << >> /\ source[d] # "holding" /\ Len(heard[d]) = 0
    BY <1>1, <1>4 DEF StartGateway
  <2>2. Len(sent[d]) = 0
    BY <1>1, <1>2, <2>1 DEF InOrderOf
  <2> QED
    BY <1>1, <1>4, <2>1, <2>2 DEF StartGateway, InOrderOf
<1>5. CASE AcceptFails
  BY <1>3, <1>5 DEF AcceptFails
<1>6. ASSUME NEW c \in Sender, AcceptSender(c) \/ HearInvalid(c) \/ ForgetSender(c)
      PROVE  InOrderOf(d)' /\ (source[d] = "holding" => heard[d] # << >>)'
  BY <1>1, <1>3, <1>6 DEF AcceptSender, HearInvalid, ForgetSender, SourceStep, GatewayTypeOK
<1>7. ASSUME NEW c \in Sender, NEW a \in Submission, HearAction(c, a)
      PROVE  InOrderOf(d)' /\ (source[d] = "holding" => heard[d] # << >>)'
  <2>1. CASE c # d
    BY <1>1, <1>3, <1>7, <2>1 DEF HearAction, SourceStep, GatewayTypeOK
  <2>2. CASE c = d
    <3>1. /\ source[d] = "reading" /\ source'[d] = "holding"
          /\ heard'[d] = Append(heard[d], a) /\ UNCHANGED <<sent, link>>
      BY <1>1, <1>7, <2>2 DEF HearAction, SourceStep, GatewayTypeOK
    <3> DEFINE h == heard[d]
               t == sent[d]
    <3>2. /\ Len(heard'[d]) = Len(heard[d]) + 1 /\ heard'[d] # << >>
          /\ \A n \in 1 .. Len(heard[d]) : heard'[d][n] = heard[d][n]
      BY <1>2, <3>1, AppendProperties
    <3>3. /\ Len(t) \in Nat /\ Len(h) \in Nat /\ Len(t) <= Len(h)
          /\ link = "up" => Len(t) = Len(h)
          /\ \A n \in 1 .. Len(t) : t[n] = Dress[h[n]]
          /\ DOMAIN t = 1 .. Len(t)
      BY <1>1, <1>2, <3>1 DEF InOrderOf
    <3>4. /\ sent'[d] = t /\ link' = link /\ source'[d] = "holding"
          /\ Len(heard'[d]) = Len(h) + 1 /\ heard'[d] # << >>
          /\ \A n \in 1 .. Len(h) : heard'[d][n] = h[n]
      BY <3>1, <3>2
    <3> HIDE DEF h, t
    <3>5. \A n \in 1 .. Len(t) : n \in 1 .. Len(h)
      BY <3>3
    <3>6. \A n \in DOMAIN t : t[n] = Dress[heard'[d][n]]
      BY <3>3, <3>4, <3>5
    <3>7. Len(t) <= (Len(h) + 1) - 1 /\ (link = "up" => Len(t) = (Len(h) + 1) - 1)
      BY <3>3
    <3> QED
      BY <3>4, <3>6, <3>7 DEF InOrderOf
  <2> QED
    BY <2>1, <2>2
<1>8. ASSUME NEW c \in Sender, PassOn(c)
      PROVE  InOrderOf(d)' /\ (source[d] = "holding" => heard[d] # << >>)'
  <2>1. CASE c # d
    BY <1>1, <1>3, <1>8, <2>1 DEF PassOn, SourceStep, GatewayTypeOK
  <2>2. CASE c = d
    <3>1. /\ source[d] = "holding" /\ source'[d] = "reading" /\ heard' = heard
          /\ heard[d] # << >> /\ Len(heard[d]) >= 1
      BY <1>1, <1>2, <1>8, <2>2 DEF PassOn, SourceStep, GatewayTypeOK
    <3>2. CASE link' = "broken" /\ UNCHANGED sent
      BY <1>1, <1>2, <3>1, <3>2 DEF InOrderOf
    <3>3. CASE /\ link = "up" /\ UNCHANGED link
               /\ sent' = [sent EXCEPT ![d] = Append(@, Dress[heard[d][Len(heard[d])]])]
      <4> DEFINE x == Dress[heard[d][Len(heard[d])]]
      <4>1. x \in {Dress[a] : a \in Submission} /\ sent'[d] = Append(sent[d], x)
        BY <1>1, <1>2, <3>1, <3>3 DEF GatewayTypeOK
      <4>2. Len(sent[d]) + 1 = Len(heard[d])
        BY <1>1, <1>2, <3>1, <3>3 DEF InOrderOf
      <4>3. x = Dress[heard[d][Len(sent[d]) + 1]]
        BY <4>2
      <4> HIDE DEF x
      <4>4. /\ Len(sent'[d]) = Len(sent[d]) + 1
            /\ \A n \in 1 .. Len(sent[d]) : sent'[d][n] = sent[d][n]
            /\ sent'[d][Len(sent[d]) + 1] = x
            /\ DOMAIN sent'[d] = 1 .. Len(sent[d]) + 1
        BY <1>2, <4>1, AppendProperties
      <4>5. \A n \in 1 .. Len(sent[d]) : sent[d][n] = Dress[heard[d][n]]
        BY <1>1, <1>2 DEF InOrderOf
      <4>6. ASSUME NEW n \in DOMAIN sent'[d]
            PROVE  sent'[d][n] = Dress[heard'[d][n]]
        <5>1. Len(sent[d]) \in Nat
          BY <1>2
        <5>2. n \in 1 .. Len(sent[d]) \/ n = Len(sent[d]) + 1
          BY <4>4, <4>6, <5>1
        <5> QED
          BY <3>1, <4>3, <4>4, <4>5, <5>2
      <4> QED
        BY <1>2, <3>1, <3>3, <4>2, <4>4, <4>6 DEF InOrderOf
    <3> QED
      BY <1>8, <2>2, <3>2, <3>3 DEF PassOn
  <2> QED
    BY <2>1, <2>2
<1> QED
  BY <1>4, <1>5, <1>6, <1>7, <1>8 DEF GatewayNext

(* Every step of the gateway keeps the types. *)
LEMMA GatewayTypeStep ==
  ASSUME GatewayInv, GatewayNext
  PROVE  /\ GatewayTypeOK'
         /\ (gateway = "on" => link # "down")'
         /\ (gateway # "on" => \A c \in Sender : heard[c] = << >>)'
<1>1. GatewayTypeOK /\ (gateway = "on" => link # "down")
      /\ (gateway # "on" => \A c \in Sender : heard[c] = << >>)
  BY DEF GatewayInv
<1>2. CASE StartGateway \/ AcceptFails
  BY <1>1, <1>2 DEF StartGateway, AcceptFails, GatewayTypeOK
<1>3. ASSUME NEW c \in Sender, AcceptSender(c) \/ HearInvalid(c) \/ ForgetSender(c)
      PROVE  /\ GatewayTypeOK'
             /\ (gateway = "on" => link # "down")'
             /\ (gateway # "on" => \A d \in Sender : heard[d] = << >>)'
  BY <1>1, <1>3 DEF AcceptSender, HearInvalid, ForgetSender, SourceStep, GatewayTypeOK
<1>4. ASSUME NEW c \in Sender, NEW a \in Submission, HearAction(c, a)
      PROVE  /\ GatewayTypeOK'
             /\ (gateway = "on" => link # "down")'
             /\ (gateway # "on" => \A d \in Sender : heard[d] = << >>)'
  <2>1. Append(heard[c], a) \in Seq(Submission)
    BY <1>1, AppendProperties DEF GatewayTypeOK
  <2> QED
    BY <1>1, <1>4, <2>1 DEF HearAction, SourceStep, GatewayTypeOK
<1>5. ASSUME NEW c \in Sender, PassOn(c)
      PROVE  /\ GatewayTypeOK'
             /\ (gateway = "on" => link # "down")'
             /\ (gateway # "on" => \A d \in Sender : heard[d] = << >>)'
  <2> DEFINE x == Dress[heard[c][Len(heard[c])]]
  <2>1. heard[c] \in Seq(Submission) /\ heard[c] # << >> /\ Len(heard[c]) \in 1 .. Len(heard[c])
    BY <1>5 DEF PassOn, SourceStep, GatewayInv, GatewayTypeOK
  <2>2. x \in {Dress[a] : a \in Submission}
    BY <2>1
  <2> HIDE DEF x
  <2>3. Append(sent[c], x) \in Seq({Dress[a] : a \in Submission})
    BY <1>1, <2>2, AppendProperties DEF GatewayTypeOK
  <2>4. /\ gateway = "on" /\ UNCHANGED <<gateway, accepting, heard>>
        /\ source' = [source EXCEPT ![c] = "reading"]
        /\ link' = link \/ link' = "broken"
        /\ sent' = sent \/ sent' = [sent EXCEPT ![c] = Append(sent[c], x)]
    BY <1>5 DEF PassOn, SourceStep, x
  <2> QED
    BY <1>1, <2>3, <2>4 DEF GatewayTypeOK
<1> QED
  BY <1>2, <1>3, <1>4, <1>5 DEF GatewayNext

(* What the gateway keeps while it passes actions on. *)
THEOREM GatewayInvariant == GatewaySpec => []GatewayInv
<1>1. GatewayInit => GatewayInv
  BY DEF GatewayInit, GatewayInv, GatewayTypeOK, PassedOnInOrder
<1>2. GatewayInv /\ [GatewayNext]_gatewayVars => GatewayInv'
  <2> SUFFICES ASSUME GatewayInv, [GatewayNext]_gatewayVars PROVE GatewayInv'
    OBVIOUS
  <2>1. CASE GatewayNext
    <3>1. \A d \in Sender : InOrderOf(d)' /\ (source[d] = "holding" => heard[d] # << >>)'
      BY <2>1, GatewayStepOf
    <3> QED
      BY <2>1, <3>1, GatewayTypeStep DEF GatewayInv, PassedOnInOrder, InOrderOf
  <2>2. CASE UNCHANGED gatewayVars
    BY <2>2 DEF GatewayInv, GatewayTypeOK, PassedOnInOrder, gatewayVars
  <2> QED
    BY <2>1, <2>2
<1> QED
  BY <1>1, <1>2, PTL DEF GatewaySpec

(* Each client's actions reach the provider dressed and in order. *)
THEOREM PassedOnInOrderCorrect == GatewaySpec => []PassedOnInOrder
<1>1. GatewayInv => PassedOnInOrder
  BY DEF GatewayInv
<1> QED
  BY <1>1, GatewayInvariant, PTL
=============================================================================
