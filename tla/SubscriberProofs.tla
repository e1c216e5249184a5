-------------------------- MODULE SubscriberProofs --------------------------
(***************************************************************************)
(* Theorems about a subscriber of a social protocol node, for any actions  *)
(* and any number of messages under way.                                   *)
(*                                                                         *)
(* Between the node and the listener there are messages, so that neither   *)
(* what was delivered nor what the listener holds can be compared with the *)
(* chain as it is now.  The inductive invariant SubscriberInv says that the*)
(* listener follows the chain (Follows): each of the states it comes to by *)
(* reading the messages under way has delivered what it should (Sound), and*)
(* the last of them agrees with the chain (UpToDate).  A call of the chain *)
(* adds a message behind the others and needs the last state only; reading *)
(* a message takes the first state away.                                   *)
(***************************************************************************)
EXTENDS SocialSubscriber, SocialChainProofs, RecursionLemmas

-----------------------------------------------------------------------------
(* The listener as one value, and what a message makes of it. *)
State(l, h, k, c, d) == [listener |-> l, heap |-> h, known |-> k, current |-> c, delivered |-> d]

Here == State(listener, heap, known, current, received \o newBlocks)

(* The block that a new block message opens. *)
Opened(m) == [Epoch |-> m.epoch, Actions |-> << >>, Invalidated |-> {}, opened |-> m.from]

EndOf(s) == State("ended", s.heap, s.known, s.current, Append(s.delivered, 0))

(* Element n of s becomes x. *)
Replaced(s, n, x) == [s EXCEPT ![n] = x]

AfterNew(s, m) ==
  State(s.listener, Append(s.heap, Opened(m)),
        Replaced(s.known, m.epoch, Len(s.heap) + 1), Len(s.heap) + 1, s.delivered)

(* Block b with one more action, and with the hashes of its commit. *)
Added(b, a)     == [b EXCEPT !.Actions = Append(@, a)]
Settled(b, inv) == [b EXCEPT !.Invalidated = inv]

AfterAction(s, m) ==
  IF s.current = 0 THEN EndOf(s)
  ELSE State(s.listener, Replaced(s.heap, s.current, Added(s.heap[s.current], m.action)),
             s.known, s.current, s.delivered)

AfterSeal(s, m) ==
  IF s.current = 0 THEN State("panicked", s.heap, s.known, s.current, s.delivered)
  ELSE IF s.known[m.epoch] = 0 THEN EndOf(s)
  ELSE State(s.listener, s.heap, s.known,
             IF s.heap[s.current].Epoch = m.epoch THEN 0 ELSE s.current, s.delivered)

AfterCommit(s, m) ==
  IF s.known[m.epoch] = 0 THEN EndOf(s)
  ELSE State(s.listener,
             Replaced(s.heap, s.known[m.epoch],
                      Settled(s.heap[s.known[m.epoch]], m.invalidated)),
             Replaced(s.known, m.epoch, 0), s.current,
             Append(s.delivered, s.known[m.epoch]))

After(s, m) ==
  IF s.listener # "reading" \/ m.type = "other" THEN s
  ELSE IF m.type = "new" THEN AfterNew(s, m)
  ELSE IF m.type = "action" THEN AfterAction(s, m)
  ELSE IF m.type = "seal" THEN AfterSeal(s, m)
  ELSE AfterCommit(s, m)

(* What s has delivered is in t as it was. *)
Kept(s, t) ==
  \A n \in 1 .. Len(s.delivered) :
    s.delivered[n] # 0 => t.heap[s.delivered[n]] = s.heap[s.delivered[n]]

(* The messages that the node sends. *)
Sent == {m \in Message : /\ m.type = "action" => m.action \in Input
                         /\ m.type \in {"seal", "commit"} => m.epoch \in Epochs}

-----------------------------------------------------------------------------
(* What the listener has delivered, compared with a chain C. *)
View == [recent |-> recentBlocks, live |-> live, epoch |-> epoch, commitEpoch |-> commitEpoch]

(* Places in a heap of N blocks.                                           *)
KnownIn(N) == [Epochs -> 0 .. N]

Typed(s) ==
  /\ s.listener \in {"absent", "reading", "ended", "panicked"}
  /\ s.heap \in Seq(ProtocolBlock)
  /\ s.known \in KnownIn(Len(s.heap))
  /\ s.current \in 0 .. Len(s.heap)
  /\ s.delivered \in Seq(0 .. Len(s.heap))

(* Blocks in the order of their epochs, none after the end signal. *)
InOrder(h, d) ==
  \A n \in 2 .. Len(d) :
    /\ d[n - 1] # 0
    /\ d[n] # 0 => h[d[n]].Epoch = h[d[n - 1]].Epoch + 1

Unended(s) == s.listener = "reading" => \A n \in 1 .. Len(s.delivered) : s.delivered[n] # 0

(* The actions of a block b of the listener are the latest of those of c.  *)
Matches(b, c) ==
  /\ Len(b.Actions) <= Len(c.Actions)
  /\ b.opened = "broadcast" => Len(b.Actions) = Len(c.Actions)
  /\ \A k \in 1 .. Len(b.Actions) :
       Transform[b.Actions[k]] = c.Actions[Len(c.Actions) - Len(b.Actions) + k]

(* A block of the listener is a committed block of the chain. *)
Whole(b, C) ==
  \E i \in DOMAIN C.recent :
    /\ C.recent[i].Epoch = b.Epoch /\ C.recent[i].Status = StatusCommit
    /\ b.Invalidated = C.recent[i].Invalidated
    /\ Matches(b, C.recent[i])

Faithful(h, d, C) == \A n \in 1 .. Len(d) : d[n] # 0 => Whole(h[d[n]], C)

Sound(s, C) ==
  /\ Typed(s) /\ Unended(s)
  /\ InOrder(s.heap, s.delivered)
  /\ Faithful(s.heap, s.delivered, C)

(* A block of the listener is a block of the chain. *)
Mirrored(b, C) ==
  \/ C.live # NoBlock /\ C.live.Epoch = b.Epoch /\ Matches(b, C.live)
  \/ \E i \in DOMAIN C.recent : C.recent[i].Epoch = b.Epoch /\ Matches(b, C.recent[i])

Ascending(h) == \A p, q \in 1 .. Len(h) : p < q => h[p].Epoch < h[q].Epoch

AllMirrored(h, C) == \A p \in 1 .. Len(h) : h[p].Epoch <= C.epoch /\ Mirrored(h[p], C)

KnownRight(s) == \A e \in Epochs : s.known[e] # 0 => s.heap[s.known[e]].Epoch = e

CurrentRight(s, C) ==
  C.live # NoBlock => s.current # 0 /\ s.heap[s.current].Epoch = C.live.Epoch

(* The last block that was delivered is the last one that was committed.   *)
LastRight(h, d, C) ==
  /\ \A n \in 1 .. Len(d) : d[n] # 0 => h[d[n]].Epoch <= C.commitEpoch
  /\ Len(d) > 0 => h[d[Len(d)]].Epoch = C.commitEpoch

UpToDate(s, C) ==
  s.listener = "reading" =>
    /\ Ascending(s.heap) /\ AllMirrored(s.heap, C)
    /\ KnownRight(s) /\ CurrentRight(s, C)
    /\ LastRight(s.heap, s.delivered, C)

-----------------------------------------------------------------------------
(* Chains, and what a call makes of them. *)
Proper(C) ==
  /\ C.recent \in Seq(Block) /\ C.live \in Block \cup {NoBlock}
  /\ C.epoch \in Nat /\ C.commitEpoch \in Nat
  /\ \A i, j \in DOMAIN C.recent : i < j => C.recent[i].Epoch < C.recent[j].Epoch
  /\ \A i \in DOMAIN C.recent :
       /\ C.recent[i].Epoch <= C.epoch
       /\ C.live # NoBlock => C.recent[i].Epoch < C.epoch
       /\ C.recent[i].Status = StatusCommit <=> C.recent[i].Epoch <= C.commitEpoch
  /\ C.live # NoBlock => C.live.Epoch = C.epoch

(* The recent blocks keep what the listener reads of them. *)
Carried(C, D) ==
  \A i \in DOMAIN C.recent :
    /\ i \in DOMAIN D.recent
    /\ D.recent[i].Epoch = C.recent[i].Epoch
    /\ D.recent[i].Actions = C.recent[i].Actions
    /\ C.recent[i].Status = StatusCommit =>
         /\ D.recent[i].Status = StatusCommit
         /\ D.recent[i].Invalidated = C.recent[i].Invalidated

(* The live block stays, or it becomes a recent one. *)
Retired(C, D) ==
  C.live # NoBlock =>
    \/ D.live = C.live
    \/ \E i \in DOMAIN D.recent : /\ D.recent[i].Epoch = C.live.Epoch
                                  /\ D.recent[i].Actions = C.live.Actions

(* A call without a message. *)
Silent(C, D) ==
  /\ Carried(C, D) /\ Retired(C, D)
  /\ D.epoch = C.epoch /\ D.commitEpoch = C.commitEpoch
  /\ D.live = C.live \/ D.live = NoBlock

(* A call with the message m. *)
TellsNew(C, D, m) ==
  /\ m.type = "new" /\ m.epoch = C.epoch + 1
  /\ Carried(C, D) /\ Retired(C, D)
  /\ D.epoch = C.epoch + 1 /\ D.commitEpoch = C.commitEpoch
  /\ D.live # NoBlock /\ D.live.Epoch = C.epoch + 1 /\ D.live.Actions = << >>

TellsAction(C, D, m) ==
  /\ m.type = "action"
  /\ C.live # NoBlock /\ D.live # NoBlock
  /\ D.recent = C.recent /\ D.epoch = C.epoch /\ D.commitEpoch = C.commitEpoch
  /\ D.live.Epoch = C.live.Epoch
  /\ D.live.Actions = Append(C.live.Actions, Transform[m.action])

TellsSeal(C, D, m) ==
  /\ m.type = "seal"
  /\ Carried(C, D)
  /\ D.epoch = C.epoch /\ D.commitEpoch = C.commitEpoch /\ D.live = C.live
  /\ C.live # NoBlock => C.live.Epoch # m.epoch

TellsCommit(C, D, m) ==
  /\ m.type = "commit"
  /\ Carried(C, D)
  /\ D.epoch = C.epoch /\ D.live = C.live
  /\ m.epoch = C.commitEpoch + 1 /\ D.commitEpoch = C.commitEpoch + 1
  /\ \E i \in DOMAIN D.recent : /\ D.recent[i].Epoch = m.epoch
                                /\ D.recent[i].Status = StatusCommit
                                /\ D.recent[i].Invalidated = m.invalidated

Tells(C, D, m) ==
  TellsNew(C, D, m) \/ TellsAction(C, D, m) \/ TellsSeal(C, D, m) \/ TellsCommit(C, D, m)

-----------------------------------------------------------------------------
(* Blocks and their replacement in a sequence. *)
LEMMA KnownIs ==
  ASSUME NEW M \in Nat, NEW N \in Nat, M <= N, NEW f \in KnownIn(M),
         NEW e, NEW v \in 0 .. N
  PROVE  /\ Replaced(f, e, v) \in KnownIn(N)
         /\ \A x \in Epochs : Replaced(f, e, v)[x] = IF x = e THEN v ELSE f[x]
         /\ \A x \in Epochs : f[x] \in 0 .. M
<1>1. f \in KnownIn(N) /\ \A x \in Epochs : f[x] \in 0 .. M
  BY DEF KnownIn
<1> QED
  BY <1>1 DEF Replaced, KnownIn

LEMMA ReplacedIs ==
  ASSUME NEW S, NEW s \in Seq(S), NEW n \in 1 .. Len(s), NEW x \in S
  PROVE  /\ Replaced(s, n, x) \in Seq(S)
         /\ Len(Replaced(s, n, x)) = Len(s)
         /\ Replaced(s, n, x)[n] = x
         /\ \A m \in 1 .. Len(s) : m # n => Replaced(s, n, x)[m] = s[m]
BY ExceptSeq, LenProperties DEF Replaced

LEMMA ReplacedElsewhere ==
  ASSUME NEW S, NEW s \in Seq(S), NEW n, NEW x, NEW m \in 1 .. Len(s), m # n
  PROVE  Replaced(s, n, x)[m] = s[m]
BY LenProperties DEF Replaced

LEMMA AddedBlock ==
  ASSUME NEW b \in ProtocolBlock, NEW a \in Input
  PROVE  /\ Added(b, a) \in ProtocolBlock
         /\ Added(b, a).Epoch = b.Epoch
         /\ Added(b, a).opened = b.opened
         /\ Added(b, a).Actions = Append(b.Actions, a)
<1> DEFINE s == Append(b.Actions, a)
<1>1. s \in Seq(Input)
  BY DEF ProtocolBlock
<1> HIDE DEF s
<1>2. LET c == [b EXCEPT !.Actions = s]
      IN  c \in ProtocolBlock /\ c.Epoch = b.Epoch /\ c.opened = b.opened /\ c.Actions = s
  BY <1>1 DEF ProtocolBlock
<1> QED
  BY <1>2 DEF s, Added

LEMMA SettledBlock ==
  ASSUME NEW b \in ProtocolBlock, NEW inv \in SUBSET Action
  PROVE  /\ Settled(b, inv) \in ProtocolBlock
         /\ Settled(b, inv).Epoch = b.Epoch
         /\ Settled(b, inv).opened = b.opened
         /\ Settled(b, inv).Actions = b.Actions
         /\ Settled(b, inv).Invalidated = inv
BY DEF ProtocolBlock, Settled

LEMMA OpenedBlock ==
  ASSUME NEW m \in Sent
  PROVE  /\ Opened(m) \in ProtocolBlock
         /\ Opened(m).Epoch = m.epoch
         /\ Opened(m).Actions = << >>
         /\ m.epoch \in Nat
BY DEF Opened, ProtocolBlock, Sent, Message

-----------------------------------------------------------------------------
(* Calls and the blocks of the listener. *)

LEMMA MatchesSame ==
  ASSUME NEW b, NEW c, NEW d, Matches(b, c), d.Actions = c.Actions
  PROVE  Matches(b, d)
BY DEF Matches

LEMMA MatchesOf ==
  ASSUME NEW a, NEW b, NEW c, Matches(b, c), a.Actions = b.Actions, a.opened = b.opened
  PROVE  Matches(a, c)
BY DEF Matches

LEMMA WholeStays ==
  ASSUME NEW C, NEW D, Carried(C, D), NEW b, Whole(b, C)
  PROVE  Whole(b, D)
<1>1. PICK i \in DOMAIN C.recent :
        /\ C.recent[i].Epoch = b.Epoch /\ C.recent[i].Status = StatusCommit
        /\ b.Invalidated = C.recent[i].Invalidated
        /\ Matches(b, C.recent[i])
  BY DEF Whole
<1>2. /\ i \in DOMAIN D.recent
      /\ D.recent[i].Epoch = C.recent[i].Epoch
      /\ D.recent[i].Actions = C.recent[i].Actions
      /\ D.recent[i].Status = StatusCommit
      /\ D.recent[i].Invalidated = C.recent[i].Invalidated
  BY <1>1 DEF Carried
<1>3. Matches(b, D.recent[i])
  BY <1>1, <1>2, MatchesSame
<1> QED
  BY <1>1, <1>2, <1>3 DEF Whole

LEMMA SoundStays ==
  ASSUME NEW C, NEW D, Carried(C, D), NEW s, Sound(s, C)
  PROVE  Sound(s, D)
BY WholeStays DEF Sound, Faithful

LEMMA MirroredStays ==
  ASSUME NEW C, NEW D, Carried(C, D), Retired(C, D), NEW b, Mirrored(b, C)
  PROVE  Mirrored(b, D)
<1>1. CASE C.live # NoBlock /\ C.live.Epoch = b.Epoch /\ Matches(b, C.live)
  <2>1. CASE D.live = C.live
    BY <1>1, <2>1 DEF Mirrored
  <2>2. ASSUME NEW i \in DOMAIN D.recent, D.recent[i].Epoch = C.live.Epoch,
               D.recent[i].Actions = C.live.Actions
        PROVE  Mirrored(b, D)
    BY <1>1, <2>2, MatchesSame DEF Mirrored
  <2> QED
    BY <1>1, <2>1, <2>2 DEF Retired
<1>2. ASSUME NEW i \in DOMAIN C.recent, C.recent[i].Epoch = b.Epoch, Matches(b, C.recent[i])
      PROVE  Mirrored(b, D)
  <2>1. /\ i \in DOMAIN D.recent
        /\ D.recent[i].Epoch = C.recent[i].Epoch
        /\ D.recent[i].Actions = C.recent[i].Actions
    BY DEF Carried
  <2>2. Matches(b, D.recent[i])
    BY <1>2, <2>1, MatchesSame
  <2> QED
    BY <1>2, <2>1, <2>2 DEF Mirrored
<1> QED
  BY <1>1, <1>2 DEF Mirrored

(* A call without a message leaves the listener up to date. *)
LEMMA SilentFollowed ==
  ASSUME NEW C, NEW D, Silent(C, D), NEW s, Sound(s, C), UpToDate(s, C)
  PROVE  Sound(s, D) /\ UpToDate(s, D)
<1>1. Sound(s, D)
  BY SoundStays DEF Silent
<1>2. ASSUME s.listener = "reading"
      PROVE  /\ Ascending(s.heap) /\ AllMirrored(s.heap, D)
             /\ KnownRight(s) /\ CurrentRight(s, D)
             /\ LastRight(s.heap, s.delivered, D)
  <2>1. /\ Ascending(s.heap) /\ AllMirrored(s.heap, C)
        /\ KnownRight(s) /\ CurrentRight(s, C)
        /\ LastRight(s.heap, s.delivered, C)
    BY <1>2 DEF UpToDate
  <2>2. AllMirrored(s.heap, D)
    BY <2>1, MirroredStays DEF AllMirrored, Silent
  <2>3. CurrentRight(s, D)
    BY <2>1 DEF CurrentRight, Silent
  <2>4. LastRight(s.heap, s.delivered, D)
    BY <2>1 DEF LastRight, Silent
  <2> QED
    BY <2>1, <2>2, <2>3, <2>4
<1> QED
  BY <1>1, <1>2 DEF UpToDate

-----------------------------------------------------------------------------
(* What is delivered: the end signal, or the block at place p of the heap. *)

LEMMA DeliveredMore ==
  ASSUME NEW d, NEW N \in Nat, d \in Seq(0 .. N), NEW p \in 0 .. N
  PROVE  /\ Append(d, p) \in Seq(0 .. N)
         /\ Len(Append(d, p)) = Len(d) + 1
         /\ Append(d, p)[Len(d) + 1] = p
         /\ \A n \in 1 .. Len(d) : Append(d, p)[n] = d[n] /\ d[n] \in 0 .. N
         /\ \A n \in 1 .. Len(d) + 1 : n \in 1 .. Len(d) \/ n = Len(d) + 1
BY AppendProperties, LenProperties, ElementOfSeq

LEMMA InOrderMore ==
  ASSUME NEW h, NEW N \in Nat, NEW d \in Seq(0 .. N), NEW p \in 0 .. N,
         InOrder(h, d), \A n \in 1 .. Len(d) : d[n] # 0,
         p # 0 /\ Len(d) > 0 => h[p].Epoch = h[d[Len(d)]].Epoch + 1
  PROVE  InOrder(h, Append(d, p))
<1>1. /\ Len(Append(d, p)) = Len(d) + 1 /\ Len(d) \in Nat
      /\ Append(d, p)[Len(d) + 1] = p
      /\ \A n \in 1 .. Len(d) : Append(d, p)[n] = d[n]
  BY DeliveredMore, LenProperties
<1> DEFINE e == Append(d, p)
<1> HIDE DEF e
<1>2. ASSUME NEW n \in 2 .. Len(d) + 1
      PROVE  /\ e[n - 1] # 0
             /\ e[n] # 0 => h[e[n]].Epoch = h[e[n - 1]].Epoch + 1
  <2>1. e[n - 1] = d[n - 1] /\ n - 1 \in 1 .. Len(d)
    BY <1>1 DEF e
  <2>2. CASE n \in 2 .. Len(d)
    <3>1. e[n] = d[n]
      BY <1>1, <2>2 DEF e
    <3> QED
      BY <2>1, <2>2, <3>1 DEF InOrder
  <2>3. CASE n = Len(d) + 1
    <3>1. e[n] = p /\ n - 1 = Len(d) /\ Len(d) > 0
      BY <1>1, <2>3 DEF e
    <3> QED
      BY <2>1, <3>1
  <2> QED
    BY <1>1, <2>2, <2>3
<1>3. Len(e) = Len(d) + 1
  BY <1>1 DEF e
<1>4. InOrder(h, e)
  BY <1>2, <1>3 DEF InOrder
<1> QED
  BY <1>4 DEF e

LEMMA FaithfulMore ==
  ASSUME NEW C, NEW h, NEW N \in Nat, NEW d \in Seq(0 .. N), NEW p \in 0 .. N,
         Faithful(h, d, C), p # 0 => Whole(h[p], C)
  PROVE  Faithful(h, Append(d, p), C)
BY DeliveredMore DEF Faithful

(* The end signal.                                                         *)
LEMMA EndFollowed ==
  ASSUME NEW C, NEW s, Sound(s, C), s.listener = "reading"
  PROVE  /\ Sound(EndOf(s), C)
         /\ \A D : UpToDate(EndOf(s), D)
<1> DEFINE t == EndOf(s)
<1>1. /\ t.listener = "ended" /\ t.heap = s.heap /\ t.known = s.known
      /\ t.current = s.current /\ t.delivered = Append(s.delivered, 0)
  BY DEF State, EndOf
<1>2. Len(s.heap) \in Nat /\ s.delivered \in Seq(0 .. Len(s.heap))
  BY LenProperties DEF Sound, Typed
<1>3. Typed(t)
  BY <1>1, <1>2, DeliveredMore DEF Sound, Typed
<1>4. InOrder(s.heap, Append(s.delivered, 0))
  BY SMTT(20), <1>2, InOrderMore DEF Sound, Unended
<1>5. Faithful(s.heap, Append(s.delivered, 0), C)
  BY <1>2, FaithfulMore DEF Sound
<1> HIDE DEF t
<1>6. Sound(t, C) /\ \A D : UpToDate(t, D)
  BY <1>1, <1>3, <1>4, <1>5 DEF Sound, Unended, UpToDate
<1> QED
  BY <1>6 DEF t

(* Where delivered blocks are read, a heap that keeps them is as good.     *)
LEMMA KeptBlocks ==
  ASSUME NEW C, NEW h, NEW g, NEW d,
         \A n \in 1 .. Len(d) : d[n] # 0 => g[d[n]] = h[d[n]],
         Len(d) \in Nat
  PROVE  /\ InOrder(h, d) => InOrder(g, d)
         /\ Faithful(h, d, C) => Faithful(g, d, C)
         /\ LastRight(h, d, C) /\ (\A n \in 1 .. Len(d) : d[n] # 0) => LastRight(g, d, C)
<1>1. InOrder(h, d) => InOrder(g, d)
  <2> SUFFICES ASSUME InOrder(h, d), NEW n \in 2 .. Len(d)
               PROVE  /\ d[n - 1] # 0
                      /\ d[n] # 0 => g[d[n]].Epoch = g[d[n - 1]].Epoch + 1
    BY DEF InOrder
  <2>1. n - 1 \in 1 .. Len(d) /\ n \in 1 .. Len(d)
    OBVIOUS
  <2> QED
    BY <2>1 DEF InOrder
<1>2. Faithful(h, d, C) => Faithful(g, d, C)
  BY DEF Faithful
<1>3. LastRight(h, d, C) /\ (\A n \in 1 .. Len(d) : d[n] # 0) => LastRight(g, d, C)
  <2>1. Len(d) > 0 => Len(d) \in 1 .. Len(d)
    OBVIOUS
  <2> QED
    BY <2>1 DEF LastRight
<1> QED
  BY <1>1, <1>2, <1>3

(* What a state that is sound and up to date says, piece by piece.         *)
LEMMA Pieces ==
  ASSUME NEW C, NEW s, Sound(s, C), UpToDate(s, C), s.listener = "reading"
  PROVE  /\ s.heap \in Seq(ProtocolBlock) /\ Len(s.heap) \in Nat
         /\ \A p \in 1 .. Len(s.heap) : s.heap[p] \in ProtocolBlock /\ s.heap[p].Epoch \in Nat
         /\ s.known \in KnownIn(Len(s.heap))
         /\ s.current \in 0 .. Len(s.heap)
         /\ s.delivered \in Seq(0 .. Len(s.heap)) /\ Len(s.delivered) \in Nat
         /\ \A e \in Epochs : s.known[e] \in 0 .. Len(s.heap)
         /\ \A n \in 1 .. Len(s.delivered) : s.delivered[n] \in 1 .. Len(s.heap)
         /\ InOrder(s.heap, s.delivered)
         /\ Faithful(s.heap, s.delivered, C)
         /\ Ascending(s.heap) /\ AllMirrored(s.heap, C)
         /\ KnownRight(s) /\ CurrentRight(s, C)
         /\ LastRight(s.heap, s.delivered, C)
<1>1. /\ s.heap \in Seq(ProtocolBlock)
      /\ s.delivered \in Seq(0 .. Len(s.heap))
      /\ \A n \in 1 .. Len(s.delivered) : s.delivered[n] # 0
  BY DEF Sound, Typed, Unended
<1>2. Len(s.heap) \in Nat /\ Len(s.delivered) \in Nat
  BY <1>1, LenProperties
<1>3. \A p \in 1 .. Len(s.heap) : s.heap[p] \in ProtocolBlock
  BY <1>1, ElementOfSeq, LenProperties
<1>4. \A n \in 1 .. Len(s.delivered) : s.delivered[n] \in 0 .. Len(s.heap)
  BY <1>1, ElementOfSeq, LenProperties
<1>5. \A p \in 1 .. Len(s.heap) : s.heap[p].Epoch \in Nat
  BY <1>3 DEF ProtocolBlock
<1>6. \A n \in 1 .. Len(s.delivered) : s.delivered[n] \in 1 .. Len(s.heap)
  BY <1>1, <1>2, <1>4
<1>7. \A e \in Epochs : s.known[e] \in 0 .. Len(s.heap)
  BY DEF Sound, Typed, KnownIn
<1> QED
  BY <1>1, <1>2, <1>3, <1>5, <1>6, <1>7 DEF Sound, Typed, UpToDate

(* A new block message.                                                    *)
LEMMA NewFollowed ==
  ASSUME NEW C, NEW D, NEW m \in Sent, TellsNew(C, D, m), Proper(C),
         NEW s, Sound(s, C), UpToDate(s, C), s.listener = "reading"
  PROVE  Sound(AfterNew(s, m), D) /\ UpToDate(AfterNew(s, m), D)
<1> DEFINE t == AfterNew(s, m)
           h == s.heap
           d == s.delivered
           g == Append(h, Opened(m))
           k == Replaced(s.known, m.epoch, Len(h) + 1)
<1>1. /\ t.listener = "reading" /\ t.heap = g /\ t.known = k
      /\ t.current = Len(h) + 1 /\ t.delivered = d
  BY DEF State, AfterNew
<1>2. /\ h \in Seq(ProtocolBlock) /\ Len(h) \in Nat
      /\ \A p \in 1 .. Len(h) : h[p] \in ProtocolBlock /\ h[p].Epoch \in Nat
      /\ s.known \in KnownIn(Len(h)) /\ \A e \in Epochs : s.known[e] \in 0 .. Len(h)
      /\ d \in Seq(0 .. Len(h)) /\ Len(d) \in Nat
      /\ \A n \in 1 .. Len(d) : d[n] \in 1 .. Len(h)
      /\ InOrder(h, d)
      /\ Faithful(h, d, C)
      /\ Ascending(h) /\ AllMirrored(h, C)
      /\ KnownRight(s)
      /\ LastRight(h, d, C)
  BY Pieces
<1>3. /\ Opened(m) \in ProtocolBlock /\ Opened(m).Epoch = m.epoch
      /\ Opened(m).Actions = << >> /\ m.epoch \in Nat
  BY OpenedBlock
<1>4. /\ g \in Seq(ProtocolBlock) /\ Len(g) = Len(h) + 1
      /\ \A p \in 1 .. Len(h) : g[p] = h[p]
      /\ g[Len(h) + 1] = Opened(m)
  BY <1>2, <1>3, AppendProperties
<1>5. /\ m.epoch = C.epoch + 1 /\ Carried(C, D) /\ Retired(C, D)
      /\ D.epoch = C.epoch + 1 /\ D.commitEpoch = C.commitEpoch
      /\ D.live # NoBlock /\ D.live.Epoch = C.epoch + 1 /\ D.live.Actions = << >>
      /\ C.epoch \in Nat
  BY DEF TellsNew, Proper
<1>6. /\ k \in KnownIn(Len(h) + 1)
      /\ \A e \in Epochs : k[e] = IF e = m.epoch THEN Len(h) + 1 ELSE s.known[e]
  <2>1. Len(h) <= Len(h) + 1 /\ Len(h) + 1 \in 0 .. Len(h) + 1 /\ Len(h) + 1 \in Nat
    BY <1>2
  <2> QED
    BY <1>2, <2>1, KnownIs
<1> HIDE DEF g, k, t
<1>7. InOrder(g, d) /\ Faithful(g, d, C) /\ LastRight(g, d, C)
  <2>1. \A n \in 1 .. Len(d) : d[n] # 0 /\ g[d[n]] = h[d[n]]
    BY SMTT(20), <1>2, <1>4
  <2> QED
    BY <1>2, <2>1, KeptBlocks
<1>8. Sound(t, D)
  <2>1. d \in Seq(0 .. Len(h) + 1)
    <3>1. 0 .. Len(h) \subseteq 0 .. Len(h) + 1
      BY <1>2
    <3> QED
      BY <1>2, <3>1, SeqMonotonic
  <2>2. Typed(t)
    BY <1>1, <1>2, <1>4, <1>6, <2>1 DEF Typed
  <2>3. Unended(t)
    BY <1>1, <1>2 DEF Unended
  <2>4. Sound(t, C)
    BY <1>1, <1>7, <2>2, <2>3 DEF Sound
  <2> QED
    BY <1>5, <2>4, SoundStays
<1>9. Ascending(g)
  <2>1. \A p \in 1 .. Len(h) : h[p].Epoch < m.epoch
    BY <1>2, <1>5 DEF AllMirrored
  <2> SUFFICES ASSUME NEW p \in 1 .. Len(h) + 1, NEW q \in 1 .. Len(h) + 1, p < q
               PROVE  g[p].Epoch < g[q].Epoch
    BY <1>4 DEF Ascending
  <2>2. p \in 1 .. Len(h) /\ g[p] = h[p]
    BY <1>2, <1>4
  <2>3. CASE q \in 1 .. Len(h)
    BY <1>2, <1>4, <2>2, <2>3 DEF Ascending
  <2>4. CASE q = Len(h) + 1
    BY <1>3, <1>4, <2>1, <2>2, <2>4
  <2>5. q \in 1 .. Len(h) \/ q = Len(h) + 1
    BY <2>2
  <2> QED
    BY <2>3, <2>4, <2>5
<1>10. AllMirrored(g, D)
  <2>1. ASSUME NEW p \in 1 .. Len(h)
        PROVE  g[p].Epoch <= D.epoch /\ Mirrored(g[p], D)
    <3>1. h[p].Epoch <= C.epoch /\ Mirrored(h[p], C)
      BY <1>2 DEF AllMirrored
    <3>2. Mirrored(h[p], D)
      BY <1>5, <3>1, MirroredStays
    <3> QED
      BY <1>2, <1>4, <1>5, <3>1, <3>2
  <2>2. Mirrored(Opened(m), D)
    <3>1. Matches(Opened(m), D.live)
      BY <1>3, <1>5 DEF Matches
    <3> QED
      BY <1>3, <1>5, <3>1 DEF Mirrored
  <2> QED
    BY <1>2, <1>3, <1>4, <1>5, <2>1, <2>2 DEF AllMirrored
<1>11. KnownRight(t)
  <2> SUFFICES ASSUME NEW e \in Epochs, k[e] # 0
               PROVE  g[k[e]].Epoch = e
    BY <1>1 DEF KnownRight
  <2>1. CASE e = m.epoch
    BY <1>3, <1>4, <1>6, <2>1
  <2>2. CASE e # m.epoch
    <3>1. k[e] = s.known[e] /\ s.known[e] \in 1 .. Len(h)
      BY <1>2, <1>6, <2>2
    <3> QED
      BY <1>2, <1>4, <3>1 DEF KnownRight
  <2> QED
    BY <2>1, <2>2
<1>12. CurrentRight(t, D)
  BY <1>1, <1>2, <1>3, <1>4, <1>5 DEF CurrentRight
<1>13. LastRight(g, d, D)
  BY <1>5, <1>7 DEF LastRight
<1>14. UpToDate(t, D)
  BY <1>1, <1>9, <1>10, <1>11, <1>12, <1>13 DEF UpToDate
<1> QED
  BY <1>8, <1>14 DEF t

(* A heap with another block of the same epoch at place p.                 *)
LEMMA HeapReplaced ==
  ASSUME NEW h \in Seq(ProtocolBlock), NEW p \in 1 .. Len(h), NEW x \in ProtocolBlock,
         x.Epoch = h[p].Epoch
  PROVE  /\ Replaced(h, p, x) \in Seq(ProtocolBlock)
         /\ Len(Replaced(h, p, x)) = Len(h)
         /\ Replaced(h, p, x)[p] = x
         /\ \A q \in 1 .. Len(h) : q # p => Replaced(h, p, x)[q] = h[q]
         /\ \A q \in 1 .. Len(h) : Replaced(h, p, x)[q].Epoch = h[q].Epoch
         /\ Ascending(h) => Ascending(Replaced(h, p, x))
<1>1. /\ Replaced(h, p, x) \in Seq(ProtocolBlock)
      /\ Len(Replaced(h, p, x)) = Len(h)
      /\ Replaced(h, p, x)[p] = x
      /\ \A q \in 1 .. Len(h) : q # p => Replaced(h, p, x)[q] = h[q]
  BY LenProperties, ExceptSeq DEF Replaced
<1>2. \A q \in 1 .. Len(h) : Replaced(h, p, x)[q].Epoch = h[q].Epoch
  BY <1>1
<1>3. Ascending(h) => Ascending(Replaced(h, p, x))
  BY <1>1, <1>2 DEF Ascending
<1> QED
  BY <1>1, <1>2, <1>3

(* The actions of the live block and those of its block in the heap. *)
LEMMA MatchesMore ==
  ASSUME NEW b \in ProtocolBlock, NEW c \in Block, Matches(b, c), NEW i \in Input,
         NEW d \in Block, d.Actions = Append(c.Actions, Transform[i])
  PROVE  Matches(Added(b, i), d)
<1> DEFINE x == b.Actions
           y == c.Actions
           a == Transform[i]
<1>1. x \in Seq(Input) /\ y \in Seq(Action) /\ Append(y, a) \in Seq(Action)
  BY DEF ProtocolBlock, Block
<1>2. /\ Len(x) \in Nat /\ Len(y) \in Nat
      /\ Len(Append(x, i)) = Len(x) + 1 /\ Append(x, i)[Len(x) + 1] = i
      /\ \A k \in 1 .. Len(x) : Append(x, i)[k] = x[k]
  BY <1>1, LenProperties, AppendProperties
<1>3. a \in Action
  <2>1. Len(Append(y, a)) = Len(y) + 1 /\ Append(y, a)[Len(y) + 1] = a
    BY <1>1
  <2>2. Append(y, a)[Len(y) + 1] \in Action
    BY <1>1, <1>2, <2>1, ElementOfSeq
  <2> QED
    BY <2>1, <2>2
<1>4. /\ Len(Append(y, a)) = Len(y) + 1 /\ Append(y, a)[Len(y) + 1] = a
      /\ \A k \in 1 .. Len(y) : Append(y, a)[k] = y[k]
  BY <1>1, <1>3, AppendProperties
<1>5. Added(b, i).Actions = Append(x, i) /\ Added(b, i).opened = b.opened
  BY AddedBlock
<1>6. /\ Len(x) <= Len(y)
      /\ b.opened = "broadcast" => Len(x) = Len(y)
      /\ \A k \in 1 .. Len(x) : Transform[x[k]] = y[Len(y) - Len(x) + k]
  BY DEF Matches
<1>7. d.Actions = Append(y, a)
  OBVIOUS
<1> HIDE DEF x, y
<1>8. ASSUME NEW k \in 1 .. Len(x) + 1
      PROVE  Transform[Append(x, i)[k]]
               = Append(y, a)[Len(Append(y, a)) - Len(Append(x, i)) + k]
  <2>1. Len(Append(y, a)) - Len(Append(x, i)) + k = Len(y) - Len(x) + k
    BY <1>2, <1>4
  <2>2. CASE k = Len(x) + 1
    <3>1. Len(y) - Len(x) + k = Len(y) + 1
      BY <1>2, <2>2
    <3> QED
      BY <1>2, <1>4, <2>1, <2>2, <3>1
  <2>3. CASE k \in 1 .. Len(x)
    <3>1. Len(y) - Len(x) + k \in 1 .. Len(y)
      BY <1>2, <1>6, <2>3
    <3> QED
      BY <1>2, <1>4, <1>6, <2>1, <2>3, <3>1
  <2>4. k \in 1 .. Len(x) \/ k = Len(x) + 1
    BY <1>2
  <2> QED
    BY <2>2, <2>3, <2>4
<1> DEFINE u == Added(b, i).Actions
           w == d.Actions
<1> HIDE DEF a, u, w
<1>9. /\ Len(u) <= Len(w)
      /\ b.opened = "broadcast" => Len(u) = Len(w)
      /\ \A k \in 1 .. Len(u) : Transform[u[k]] = w[Len(w) - Len(u) + k]
  <2>1. u = Append(x, i) /\ w = Append(y, a)
    BY <1>5, <1>7 DEF u, w
  <2>2. Len(u) = Len(x) + 1 /\ Len(w) = Len(y) + 1
    BY <1>2, <1>4, <2>1
  <2>3. \A k \in 1 .. Len(x) + 1 : Transform[u[k]] = w[Len(w) - Len(u) + k]
    BY <1>8, <2>1
  <2> QED
    BY <1>2, <1>6, <2>2, <2>3
<1> QED
  BY <1>5, <1>9 DEF Matches, u, w

(* An action message: it is for the current block, which is the live one.  *)
LEMMA ActionFollowed ==
  ASSUME NEW C, NEW D, NEW m \in Sent, TellsAction(C, D, m), Proper(C), Proper(D),
         NEW s, Sound(s, C), UpToDate(s, C), s.listener = "reading"
  PROVE  Sound(AfterAction(s, m), D) /\ UpToDate(AfterAction(s, m), D)
<1> DEFINE t == AfterAction(s, m)
           h == s.heap
           d == s.delivered
           c == s.current
           x == Added(h[c], m.action)
           g == Replaced(h, c, x)
<1>2. /\ h \in Seq(ProtocolBlock) /\ Len(h) \in Nat
      /\ \A p \in 1 .. Len(h) : h[p] \in ProtocolBlock /\ h[p].Epoch \in Nat
      /\ s.known \in KnownIn(Len(h)) /\ \A e \in Epochs : s.known[e] \in 0 .. Len(h)
      /\ c \in 0 .. Len(h)
      /\ d \in Seq(0 .. Len(h)) /\ Len(d) \in Nat
      /\ \A n \in 1 .. Len(d) : d[n] \in 1 .. Len(h)
      /\ InOrder(h, d)
      /\ Faithful(h, d, C)
      /\ Ascending(h) /\ AllMirrored(h, C)
      /\ KnownRight(s) /\ CurrentRight(s, C)
      /\ LastRight(h, d, C)
  BY Pieces
<1>3. /\ C.live # NoBlock /\ D.live # NoBlock
      /\ D.recent = C.recent /\ D.epoch = C.epoch /\ D.commitEpoch = C.commitEpoch
      /\ D.live.Epoch = C.live.Epoch
      /\ D.live.Actions = Append(C.live.Actions, Transform[m.action])
      /\ m.action \in Input
      /\ C.live \in Block /\ D.live \in Block
      /\ C.live.Epoch = C.epoch
      /\ \A i \in DOMAIN C.recent : C.recent[i].Epoch < C.epoch
  BY DEF TellsAction, Proper, Sent
<1>4. c \in 1 .. Len(h) /\ h[c].Epoch = C.live.Epoch
  BY <1>2, <1>3 DEF CurrentRight
<1>1. /\ t.listener = "reading" /\ t.heap = g /\ t.known = s.known
      /\ t.current = c /\ t.delivered = d
  BY <1>4 DEF State, AfterAction
<1>5. x \in ProtocolBlock /\ x.Epoch = h[c].Epoch
  BY <1>2, <1>3, <1>4, AddedBlock
<1>6. /\ g \in Seq(ProtocolBlock) /\ Len(g) = Len(h)
      /\ g[c] = x
      /\ \A q \in 1 .. Len(h) : q # c => g[q] = h[q]
      /\ \A q \in 1 .. Len(h) : g[q].Epoch = h[q].Epoch
      /\ Ascending(g)
  <2>1. /\ h \in Seq(ProtocolBlock) /\ c \in 1 .. Len(h) /\ x \in ProtocolBlock
        /\ x.Epoch = h[c].Epoch /\ Ascending(h)
    BY <1>2, <1>4, <1>5
  <2>2. g = Replaced(h, c, x)
    OBVIOUS
  <2> HIDE DEF g, h, x, c
  <2> QED
    BY ZenonT(60), <2>1, <2>2, HeapReplaced
<1> HIDE DEF g, t
<1>7. \A n \in 1 .. Len(d) : d[n] # 0 /\ d[n] # c
  <2> SUFFICES ASSUME NEW n \in 1 .. Len(d) PROVE d[n] # 0 /\ d[n] # c
    OBVIOUS
  <2>1. d[n] \in 1 .. Len(h)
    BY <1>2
  <2>2. Whole(h[d[n]], C)
    BY <1>2, <2>1 DEF Faithful
  <2>3. PICK i \in DOMAIN C.recent : C.recent[i].Epoch = h[d[n]].Epoch
    BY <2>2 DEF Whole
  <2>4. h[d[n]].Epoch < C.epoch /\ C.epoch \in Nat /\ h[d[n]].Epoch \in Nat
    BY <1>2, <1>3, <2>1, <2>3 DEF Proper
  <2> QED
    BY <1>3, <1>4, <2>1, <2>4
<1>8. InOrder(g, d) /\ Faithful(g, d, C) /\ LastRight(g, d, C)
  <2>1. \A n \in 1 .. Len(d) : d[n] # 0 /\ g[d[n]] = h[d[n]]
    BY <1>2, <1>6, <1>7
  <2> QED
    BY <1>2, <2>1, KeptBlocks
<1>9. Carried(C, D)
  BY <1>3 DEF Carried
<1>10. Sound(t, D)
  <2>1. Typed(t)
    BY <1>1, <1>2, <1>6 DEF Typed
  <2>2. Unended(t)
    BY <1>1, <1>7 DEF Unended
  <2>3. Sound(t, C)
    BY <1>1, <1>8, <2>1, <2>2 DEF Sound
  <2> QED
    BY <1>9, <2>3, SoundStays
<1>11. AllMirrored(g, D)
  <2> SUFFICES ASSUME NEW p \in 1 .. Len(h)
               PROVE  g[p].Epoch <= D.epoch /\ Mirrored(g[p], D)
    BY <1>6 DEF AllMirrored
  <2>1. h[p].Epoch <= C.epoch /\ Mirrored(h[p], C)
    BY <1>2 DEF AllMirrored
  <2>2. CASE p = c
    <3>1. Matches(h[p], C.live)
      <4>1. \A i \in DOMAIN C.recent : C.recent[i].Epoch # h[p].Epoch
        BY <1>3, <1>4, <2>2 DEF Proper
      <4> QED
        BY <2>1, <4>1 DEF Mirrored
    <3>2. Matches(x, D.live)
      BY <1>2, <1>3, <2>2, <3>1, MatchesMore
    <3>3. Mirrored(x, D)
      BY <1>3, <1>4, <1>5, <3>2 DEF Mirrored
    <3> QED
      BY <1>3, <1>6, <2>1, <2>2, <3>3
  <2>3. CASE p # c
    <3>1. h[p].Epoch # C.live.Epoch
      <4>1. h[p].Epoch \in Nat /\ h[c].Epoch \in Nat /\ (p < c \/ c < p)
        BY <1>2, <1>4, <2>3
      <4>2. h[p].Epoch < h[c].Epoch \/ h[c].Epoch < h[p].Epoch
        BY <1>2, <1>4, <4>1 DEF Ascending
      <4> QED
        BY <1>2, <1>4, <4>2
    <3>2. Mirrored(h[p], D)
      BY <1>3, <2>1, <3>1 DEF Mirrored
    <3> QED
      BY <1>3, <1>6, <2>1, <2>3, <3>2
  <2> QED
    BY <2>2, <2>3
<1>12. KnownRight(t)
  <2> SUFFICES ASSUME NEW e \in Epochs, s.known[e] # 0
               PROVE  g[s.known[e]].Epoch = e
    BY <1>1 DEF KnownRight
  <2>1. s.known[e] \in 1 .. Len(h)
    BY <1>2
  <2> QED
    BY <1>2, <1>6, <2>1 DEF KnownRight
<1>13. CurrentRight(t, D)
  BY <1>1, <1>3, <1>4, <1>6 DEF CurrentRight
<1>14. LastRight(g, d, D)
  BY <1>3, <1>8 DEF LastRight
<1>15. UpToDate(t, D)
  BY <1>1, <1>6, <1>11, <1>12, <1>13, <1>14 DEF UpToDate
<1> QED
  BY <1>10, <1>15 DEF t

(* A seal message.                                                         *)
LEMMA SealFollowed ==
  ASSUME NEW C, NEW D, NEW m \in Sent, TellsSeal(C, D, m), Proper(C),
         NEW s, Sound(s, C), UpToDate(s, C), s.listener = "reading"
  PROVE  Sound(AfterSeal(s, m), D) /\ UpToDate(AfterSeal(s, m), D)
<1>1. /\ Carried(C, D) /\ Retired(C, D) /\ Silent(C, D)
      /\ D.live = C.live
      /\ C.live # NoBlock => C.live.Epoch # m.epoch
  BY DEF TellsSeal, Retired, Silent
<1>2. Sound(s, D) /\ UpToDate(s, D)
  BY <1>1, SilentFollowed
<1>3. CASE s.current = 0
  <2> DEFINE t == State("panicked", s.heap, s.known, s.current, s.delivered)
  <2>1. /\ t.listener = "panicked" /\ t.heap = s.heap /\ t.known = s.known
        /\ t.current = s.current /\ t.delivered = s.delivered
    BY DEF State
  <2>2. AfterSeal(s, m) = t
    BY <1>3 DEF AfterSeal
  <2> HIDE DEF t
  <2>3. Sound(t, D)
    BY <1>2, <2>1 DEF Sound, Typed, Unended
  <2>4. UpToDate(t, D)
    BY <2>1 DEF UpToDate
  <2> QED
    BY <2>2, <2>3, <2>4
<1>4. CASE s.current # 0 /\ s.known[m.epoch] = 0
  <2>1. AfterSeal(s, m) = EndOf(s)
    BY <1>4 DEF AfterSeal
  <2> QED
    BY <1>2, <2>1, EndFollowed
<1>5. CASE s.current # 0 /\ s.known[m.epoch] # 0
  <2> DEFINE c == IF s.heap[s.current].Epoch = m.epoch THEN 0 ELSE s.current
             t == State(s.listener, s.heap, s.known, c, s.delivered)
  <2>1. /\ t.listener = "reading" /\ t.heap = s.heap /\ t.known = s.known
        /\ t.current = c /\ t.delivered = s.delivered
    BY DEF State
  <2>2. AfterSeal(s, m) = t
    BY <1>5 DEF AfterSeal
  <2> HIDE DEF t
  <2>3. c \in 0 .. Len(s.heap)
    BY LenProperties DEF Sound, Typed
  <2>4. CurrentRight(t, D)
    BY <1>1, <1>2, <2>1 DEF UpToDate, CurrentRight
  <2> HIDE DEF c
  <2>5. Sound(t, D)
    BY <1>2, <2>1, <2>3 DEF Sound, Typed, Unended
  <2>6. UpToDate(t, D)
    BY <1>2, <2>1, <2>4 DEF UpToDate, KnownRight
  <2> QED
    BY <2>2, <2>5, <2>6
<1> QED
  BY <1>3, <1>4, <1>5

(* A commit message for a block that is known: the block that follows the  *)
(* last one delivered.                                                     *)
LEMMA CommitDelivers ==
  ASSUME NEW C, NEW D, NEW m \in Sent, TellsCommit(C, D, m), Proper(C), Proper(D),
         NEW s, Sound(s, C), UpToDate(s, C), s.listener = "reading",
         s.known[m.epoch] # 0
  PROVE  Sound(AfterCommit(s, m), D) /\ UpToDate(AfterCommit(s, m), D)
<1> DEFINE t == AfterCommit(s, m)
           h == s.heap
           d == s.delivered
           p == s.known[m.epoch]
           x == Settled(h[p], m.invalidated)
           g == Replaced(h, p, x)
           k == Replaced(s.known, m.epoch, 0)
           e == Append(d, p)
<1>1. /\ t.listener = "reading" /\ t.heap = g /\ t.known = k
      /\ t.current = s.current /\ t.delivered = e
  BY DEF State, AfterCommit
<1>2. /\ h \in Seq(ProtocolBlock) /\ Len(h) \in Nat
      /\ \A q \in 1 .. Len(h) : h[q] \in ProtocolBlock /\ h[q].Epoch \in Nat
      /\ s.known \in KnownIn(Len(h)) /\ \A f \in Epochs : s.known[f] \in 0 .. Len(h)
      /\ s.current \in 0 .. Len(h)
      /\ d \in Seq(0 .. Len(h)) /\ Len(d) \in Nat
      /\ \A n \in 1 .. Len(d) : d[n] \in 1 .. Len(h)
      /\ InOrder(h, d)
      /\ Faithful(h, d, C)
      /\ Ascending(h) /\ AllMirrored(h, C)
      /\ KnownRight(s) /\ CurrentRight(s, C)
      /\ LastRight(h, d, C)
  BY Pieces
<1>3. /\ m.epoch \in Epochs /\ m.epoch \in Nat /\ m.invalidated \in SUBSET Action
      /\ m.epoch = C.commitEpoch + 1 /\ D.commitEpoch = m.epoch
      /\ C.commitEpoch \in Nat
      /\ Carried(C, D) /\ D.epoch = C.epoch /\ D.live = C.live
  BY DEF TellsCommit, Proper, Sent, Message
<1>4. Retired(C, D)
  BY <1>3 DEF Retired
<1>5. p \in 1 .. Len(h) /\ h[p].Epoch = m.epoch /\ h[p] \in ProtocolBlock
  BY SMTT(20), <1>2, <1>3 DEF KnownRight
<1>6. /\ x \in ProtocolBlock /\ x.Epoch = h[p].Epoch /\ x.opened = h[p].opened
      /\ x.Actions = h[p].Actions /\ x.Invalidated = m.invalidated
  BY <1>3, <1>5, SettledBlock
<1>7. /\ g \in Seq(ProtocolBlock) /\ Len(g) = Len(h)
      /\ g[p] = x
      /\ \A q \in 1 .. Len(h) : q # p => g[q] = h[q]
      /\ \A q \in 1 .. Len(h) : g[q].Epoch = h[q].Epoch
      /\ Ascending(g)
  <2>1. /\ h \in Seq(ProtocolBlock) /\ p \in 1 .. Len(h) /\ x \in ProtocolBlock
        /\ x.Epoch = h[p].Epoch /\ Ascending(h)
    BY <1>2, <1>5, <1>6
  <2>2. g = Replaced(h, p, x)
    OBVIOUS
  <2> HIDE DEF g, h, x
  <2> QED
    BY SMTT(40), <2>1, <2>2, HeapReplaced
<1>8. /\ k \in KnownIn(Len(h))
      /\ \A f \in Epochs : k[f] = IF f = m.epoch THEN 0 ELSE s.known[f]
  <2>1. 0 \in 0 .. Len(h) /\ Len(h) <= Len(h)
    BY <1>2
  <2> QED
    BY <1>2, <2>1, KnownIs
<1>9. /\ e \in Seq(0 .. Len(h)) /\ Len(e) = Len(d) + 1 /\ e[Len(d) + 1] = p
      /\ \A n \in 1 .. Len(d) : e[n] = d[n]
  BY <1>2, <1>5, DeliveredMore
<1> HIDE DEF g, k, t, x, p, e
<1>10. \A n \in 1 .. Len(d) : d[n] # 0 /\ d[n] # p
  <2> SUFFICES ASSUME NEW n \in 1 .. Len(d) PROVE d[n] # 0 /\ d[n] # p
    OBVIOUS
  <2>1. d[n] \in 1 .. Len(h)
    BY <1>2
  <2>2. h[d[n]].Epoch <= C.commitEpoch /\ h[d[n]].Epoch \in Nat
    BY <1>2, <2>1 DEF LastRight
  <2> QED
    BY SMTT(20), <1>3, <1>5, <2>1, <2>2
<1>11. InOrder(g, d) /\ Faithful(g, d, C) /\ LastRight(g, d, C)
  <2>1. \A n \in 1 .. Len(d) : d[n] # 0 /\ g[d[n]] = h[d[n]]
    BY <1>2, <1>7, <1>10
  <2> QED
    BY <1>2, <2>1, KeptBlocks
<1>12. Whole(x, D)
  <2>1. PICK i \in DOMAIN D.recent :
          /\ D.recent[i].Epoch = m.epoch
          /\ D.recent[i].Status = StatusCommit
          /\ D.recent[i].Invalidated = m.invalidated
    BY DEF TellsCommit
  <2>2. Mirrored(h[p], C)
    BY <1>5, <1>2 DEF AllMirrored
  <2>3. Mirrored(h[p], D)
    BY <1>3, <1>4, <2>2, MirroredStays
  <2>4. D.live # NoBlock => D.live.Epoch # m.epoch
    BY <2>1, <1>3 DEF Proper
  <2>5. PICK j \in DOMAIN D.recent : D.recent[j].Epoch = m.epoch /\ Matches(h[p], D.recent[j])
    BY <1>5, <2>3, <2>4 DEF Mirrored
  <2>6. i = j
    <3>1. /\ \A a, b \in DOMAIN D.recent : a < b => D.recent[a].Epoch < D.recent[b].Epoch
          /\ D.recent \in Seq(Block)
      BY DEF Proper
    <3>2. i \in Nat /\ j \in Nat
      BY <3>1, LenProperties
    <3>3. ~ (i < j) /\ ~ (j < i)
      BY <1>3, <2>1, <2>5, <3>1
    <3> QED
      BY <3>2, <3>3
  <2>7. Matches(x, D.recent[i])
    BY <1>6, <2>5, <2>6, MatchesOf
  <2> QED
    BY <1>5, <1>6, <2>1, <2>7 DEF Whole
<1>13. Faithful(g, e, D)
  <2>1. Faithful(g, d, D)
    BY <1>3, <1>11, WholeStays DEF Faithful
  <2>2. Whole(g[p], D)
    BY <1>7, <1>12
  <2> QED
    BY <1>2, <1>5, <2>1, <2>2, FaithfulMore DEF e
<1>14. Len(d) > 0 => h[d[Len(d)]].Epoch = C.commitEpoch /\ d[Len(d)] \in 1 .. Len(h)
  <2>1. Len(d) > 0 => Len(d) \in 1 .. Len(d)
    BY <1>2
  <2> QED
    BY <1>2, <2>1 DEF LastRight
<1>15. InOrder(g, e)
  <2>1. Len(d) > 0 => g[p].Epoch = g[d[Len(d)]].Epoch + 1
    BY <1>3, <1>5, <1>6, <1>7, <1>14
  <2>2. p \in 0 .. Len(h)
    BY <1>5
  <2>3. \A n \in 1 .. Len(d) : d[n] # 0
    BY <1>10
  <2> QED
    BY <1>2, <1>11, <2>1, <2>2, <2>3, InOrderMore DEF e
<1>16. \A n \in 1 .. Len(e) : e[n] # 0
  <2>1. \A n \in 1 .. Len(d) + 1 : n \in 1 .. Len(d) \/ n = Len(d) + 1
    BY <1>2
  <2> QED
    BY SMTT(30), <1>5, <1>9, <1>10, <2>1
<1>17. Sound(t, D)
  <2>1. Typed(t)
    BY <1>1, <1>2, <1>7, <1>8, <1>9 DEF Typed
  <2>2. Unended(t)
    BY <1>1, <1>16 DEF Unended
  <2> QED
    BY <1>1, <1>13, <1>15, <2>1, <2>2 DEF Sound
<1>18. AllMirrored(g, D)
  <2> SUFFICES ASSUME NEW q \in 1 .. Len(h)
               PROVE  g[q].Epoch <= D.epoch /\ Mirrored(g[q], D)
    BY <1>7 DEF AllMirrored
  <2>1. h[q].Epoch <= C.epoch /\ Mirrored(h[q], C)
    BY <1>2 DEF AllMirrored
  <2>2. Mirrored(h[q], D)
    BY <1>3, <1>4, <2>1, MirroredStays
  <2>3. CASE q = p
    <3>1. Mirrored(x, D)
      BY <1>12 DEF Whole, Mirrored
    <3> QED
      BY <1>3, <1>7, <2>1, <2>3, <3>1
  <2>4. CASE q # p
    BY <1>3, <1>7, <2>1, <2>2, <2>4
  <2> QED
    BY <2>3, <2>4
<1>19. KnownRight(t)
  <2> SUFFICES ASSUME NEW f \in Epochs, k[f] # 0
               PROVE  g[k[f]].Epoch = f
    BY <1>1 DEF KnownRight
  <2>1. k[f] = s.known[f] /\ s.known[f] \in 1 .. Len(h)
    BY <1>2, <1>8
  <2> QED
    BY <1>2, <1>7, <2>1 DEF KnownRight
<1>20. CurrentRight(t, D)
  <2>1. D.live # NoBlock => s.current \in 1 .. Len(h) /\ h[s.current].Epoch = D.live.Epoch
    BY <1>2, <1>3 DEF CurrentRight
  <2> QED
    BY <1>1, <1>7, <2>1 DEF CurrentRight
<1>21. LastRight(g, e, D)
  <2>1. \A n \in 1 .. Len(d) : g[d[n]].Epoch <= D.commitEpoch
    <3> SUFFICES ASSUME NEW n \in 1 .. Len(d) PROVE g[d[n]].Epoch <= D.commitEpoch
      OBVIOUS
    <3>1. d[n] \in 1 .. Len(h) /\ h[d[n]].Epoch \in Nat /\ h[d[n]].Epoch <= C.commitEpoch
      BY <1>2, <1>10 DEF LastRight
    <3> QED
      BY <1>3, <1>7, <3>1
  <2>2. g[p].Epoch = D.commitEpoch
    BY <1>3, <1>5, <1>7
  <2>3. \A n \in 1 .. Len(e) : g[e[n]].Epoch <= D.commitEpoch
    <3>1. \A n \in 1 .. Len(d) + 1 : n \in 1 .. Len(d) \/ n = Len(d) + 1
      BY <1>2
    <3> QED
      BY SMTT(20), <1>3, <1>9, <2>1, <2>2, <3>1
  <2> QED
    BY <1>9, <2>2, <2>3 DEF LastRight
<1>22. UpToDate(t, D)
  BY <1>1, <1>7, <1>18, <1>19, <1>20, <1>21 DEF UpToDate
<1> QED
  BY <1>17, <1>22 DEF t

(* A commit message for any block.                                         *)
LEMMA CommitFollowed ==
  ASSUME NEW C, NEW D, NEW m \in Sent, TellsCommit(C, D, m), Proper(C), Proper(D),
         NEW s, Sound(s, C), UpToDate(s, C), s.listener = "reading"
  PROVE  Sound(AfterCommit(s, m), D) /\ UpToDate(AfterCommit(s, m), D)
<1>1. CASE s.known[m.epoch] = 0
  <2>1. AfterCommit(s, m) = EndOf(s)
    BY <1>1 DEF AfterCommit
  <2>2. Sound(s, D)
    BY SoundStays DEF TellsCommit
  <2> QED
    BY <2>1, <2>2, EndFollowed
<1>2. CASE s.known[m.epoch] # 0
  BY <1>2, CommitDelivers
<1> QED
  BY <1>1, <1>2

(* Any message of the node, read behind all others.                        *)
LEMMA MessageFollowed ==
  ASSUME NEW C, NEW D, NEW m \in Sent, Tells(C, D, m), Proper(C), Proper(D),
         NEW s, Sound(s, C), UpToDate(s, C)
  PROVE  Sound(After(s, m), D) /\ UpToDate(After(s, m), D)
<1>1. CASE s.listener # "reading"
  <2>1. After(s, m) = s
    BY <1>1 DEF After
  <2>2. Carried(C, D)
    BY DEF Tells, TellsNew, TellsAction, TellsSeal, TellsCommit, Carried
  <2> QED
    BY <1>1, <2>1, <2>2, SoundStays DEF UpToDate
<1>2. CASE s.listener = "reading" /\ TellsNew(C, D, m)
  <2>1. After(s, m) = AfterNew(s, m)
    BY <1>2 DEF After, TellsNew
  <2> QED
    BY <1>2, <2>1, NewFollowed
<1>3. CASE s.listener = "reading" /\ TellsAction(C, D, m)
  <2>1. After(s, m) = AfterAction(s, m)
    BY <1>3 DEF After, TellsAction
  <2> QED
    BY <1>3, <2>1, ActionFollowed
<1>4. CASE s.listener = "reading" /\ TellsSeal(C, D, m)
  <2>1. After(s, m) = AfterSeal(s, m)
    BY <1>4 DEF After, TellsSeal
  <2> QED
    BY <1>4, <2>1, SealFollowed
<1>5. CASE s.listener = "reading" /\ TellsCommit(C, D, m)
  <2>1. After(s, m) = AfterCommit(s, m)
    BY <1>5 DEF After, TellsCommit
  <2> QED
    BY <1>5, <2>1, CommitFollowed
<1> QED
  BY <1>1, <1>2, <1>3, <1>4, <1>5 DEF Tells

-----------------------------------------------------------------------------
(* A message that says nothing of the blocks the listener holds.           *)
LEMMA KeptAlone ==
  ASSUME NEW C, NEW s, Sound(s, C), NEW m \in Sent, m.type \in {"new", "seal", "other"}
  PROVE  Kept(s, After(s, m))
<1>1. /\ s.heap \in Seq(ProtocolBlock) /\ Len(s.heap) \in Nat
      /\ \A n \in 1 .. Len(s.delivered) : s.delivered[n] \in 0 .. Len(s.heap)
  BY ElementOfSeq, LenProperties DEF Sound, Typed
<1>2. CASE After(s, m).heap = s.heap
  BY <1>2 DEF Kept
<1>3. CASE s.listener = "reading" /\ m.type = "new"
  <2>1. After(s, m).heap = Append(s.heap, Opened(m))
    BY <1>3 DEF After, AfterNew, State
  <2>2. \A n \in 1 .. Len(s.delivered) :
          s.delivered[n] # 0 => s.delivered[n] \in 1 .. Len(s.heap)
    BY <1>1
  <2>3. \A p \in 1 .. Len(s.heap) : Append(s.heap, Opened(m))[p] = s.heap[p]
    BY <1>1, OpenedBlock, AppendProperties
  <2> QED
    BY <2>1, <2>2, <2>3 DEF Kept
<1>4. CASE s.listener = "reading" /\ m.type = "seal"
  <2>1. After(s, m).heap = s.heap
    BY <1>4 DEF After, AfterSeal, EndOf, State
  <2> QED
    BY <1>2, <2>1
<1>5. CASE s.listener # "reading" \/ m.type = "other"
  BY <1>2, <1>5 DEF After
<1> QED
  BY <1>3, <1>4, <1>5

(* An action goes to the live block, of which nothing has been delivered.  *)
LEMMA KeptAction ==
  ASSUME NEW C, NEW D, NEW m \in Sent, TellsAction(C, D, m), Proper(C), Proper(D),
         NEW s, Sound(s, C), UpToDate(s, C), s.listener = "reading"
  PROVE  Kept(s, AfterAction(s, m))
<1> DEFINE h == s.heap
           d == s.delivered
           c == s.current
<1>1. /\ h \in Seq(ProtocolBlock) /\ Len(h) \in Nat
      /\ \A n \in 1 .. Len(d) : d[n] \in 1 .. Len(h)
      /\ Faithful(h, d, C)
      /\ CurrentRight(s, C)
      /\ \A n \in 1 .. Len(h) : h[n].Epoch \in Nat
      /\ c \in 0 .. Len(h)
  BY Pieces
<1>2. /\ C.live # NoBlock /\ C.live.Epoch = C.epoch /\ C.epoch \in Nat
      /\ \A i \in DOMAIN C.recent : C.recent[i].Epoch < C.epoch
  BY DEF TellsAction, Proper
<1>3. c \in 1 .. Len(h) /\ h[c].Epoch = C.epoch
  BY <1>1, <1>2 DEF CurrentRight
<1>4. \A n \in 1 .. Len(d) : d[n] # c
  <2> SUFFICES ASSUME NEW n \in 1 .. Len(d) PROVE d[n] # c
    OBVIOUS
  <2>1. d[n] \in 1 .. Len(h)
    BY <1>1
  <2>2. Whole(h[d[n]], C)
    BY <1>1, <2>1 DEF Faithful
  <2>3. PICK i \in DOMAIN C.recent : C.recent[i].Epoch = h[d[n]].Epoch
    BY <2>2 DEF Whole
  <2>4. h[d[n]].Epoch < C.epoch /\ h[d[n]].Epoch \in Nat
    BY <1>1, <1>2, <2>1, <2>3
  <2> QED
    BY <1>2, <1>3, <2>4
<1>5. AfterAction(s, m).heap = Replaced(h, c, Added(h[c], m.action))
  BY <1>3 DEF AfterAction, State
<1>6. \A n \in 1 .. Len(d) : Replaced(h, c, Added(h[c], m.action))[d[n]] = h[d[n]]
  BY <1>1, <1>4, ReplacedElsewhere
<1> QED
  BY <1>5, <1>6 DEF Kept

(* A commit goes to the block after the last one that was delivered.       *)
LEMMA KeptCommit ==
  ASSUME NEW C, NEW D, NEW m \in Sent, TellsCommit(C, D, m), Proper(C), Proper(D),
         NEW s, Sound(s, C), UpToDate(s, C), s.listener = "reading"
  PROVE  Kept(s, AfterCommit(s, m))
<1> DEFINE h == s.heap
           d == s.delivered
           p == s.known[m.epoch]
<1>1. /\ h \in Seq(ProtocolBlock) /\ Len(h) \in Nat
      /\ \A n \in 1 .. Len(d) : d[n] \in 1 .. Len(h)
      /\ KnownRight(s) /\ LastRight(h, d, C)
      /\ \A n \in 1 .. Len(h) : h[n].Epoch \in Nat
  BY Pieces
<1>2. m.epoch \in Epochs /\ m.epoch = C.commitEpoch + 1 /\ C.commitEpoch \in Nat
  BY DEF TellsCommit, Proper, Sent
<1>3. CASE p = 0
  BY <1>3 DEF AfterCommit, EndOf, State, Kept
<1>4. CASE p # 0
  <2>1. h[p].Epoch = m.epoch
    BY <1>1, <1>2, <1>4 DEF KnownRight
  <2>2. \A n \in 1 .. Len(d) : h[d[n]].Epoch <= C.commitEpoch /\ h[d[n]].Epoch \in Nat
    <3> SUFFICES ASSUME NEW n \in 1 .. Len(d)
                 PROVE  h[d[n]].Epoch <= C.commitEpoch /\ h[d[n]].Epoch \in Nat
      OBVIOUS
    <3>1. d[n] \in 1 .. Len(h) /\ d[n] # 0
      BY <1>1
    <3> QED
      BY <1>1, <3>1 DEF LastRight
  <2>3. \A n \in 1 .. Len(d) : d[n] # p
    BY SMTT(20), <1>2, <2>1, <2>2
  <2>4. AfterCommit(s, m).heap = Replaced(h, p, Settled(h[p], m.invalidated))
    BY <1>4 DEF AfterCommit, State
  <2>5. \A n \in 1 .. Len(d) : Replaced(h, p, Settled(h[p], m.invalidated))[d[n]] = h[d[n]]
    BY <1>1, <2>3, ReplacedElsewhere
  <2> QED
    BY <2>4, <2>5 DEF Kept
<1> QED
  BY <1>3, <1>4

(* Any message of the node, read behind all others, leaves what has been   *)
(* delivered alone.                                                        *)
LEMMA MessageKept ==
  ASSUME NEW C, NEW D, NEW m \in Sent, Tells(C, D, m), Proper(C), Proper(D),
         NEW s, Sound(s, C), UpToDate(s, C)
  PROVE  Kept(s, After(s, m))
<1>1. CASE s.listener # "reading"
  BY <1>1 DEF After, Kept
<1>2. CASE TellsNew(C, D, m) \/ TellsSeal(C, D, m)
  BY <1>2, KeptAlone DEF TellsNew, TellsSeal
<1>3. CASE s.listener = "reading" /\ TellsAction(C, D, m)
  <2>1. After(s, m) = AfterAction(s, m)
    BY <1>3 DEF After, TellsAction
  <2> QED
    BY <1>3, <2>1, KeptAction
<1>4. CASE s.listener = "reading" /\ TellsCommit(C, D, m)
  <2>1. After(s, m) = AfterCommit(s, m)
    BY <1>4 DEF After, TellsCommit
  <2> QED
    BY <1>4, <2>1, KeptCommit
<1> QED
  BY <1>1, <1>2, <1>3, <1>4 DEF Tells

-----------------------------------------------------------------------------
(* The states of the listener that starts in s and reads the messages w.   *)
Trace(tr, s, w) ==
  /\ tr[0] = s
  /\ \A n \in 1 .. Len(w) : tr[n] = After(tr[n - 1], w[n]) /\ Kept(tr[n - 1], tr[n])

(* The last of them is t, and all of them have delivered what they should. *)
Reaches(s, w, C, t) ==
  \E tr : /\ Trace(tr, s, w)
          /\ \A n \in 0 .. Len(w) : Sound(tr[n], C)
          /\ tr[Len(w)] = t

Follows(s, w, C) == \E t : Reaches(s, w, C, t) /\ UpToDate(t, C)

LEMMA ReachesHere ==
  ASSUME NEW C, NEW s, Sound(s, C)
  PROVE  Reaches(s, << >>, C, s)
<1> DEFINE tr == [n \in {0} |-> s]
<1>1. tr[0] = s /\ Len(<< >>) = 0
  OBVIOUS
<1> HIDE DEF tr
<1>2. Trace(tr, s, << >>)
  BY <1>1 DEF Trace
<1> QED
  BY <1>1, <1>2 DEF Reaches

LEMMA ReachesEnds ==
  ASSUME NEW C, NEW s, NEW w \in Seq(Sent), NEW t, Reaches(s, w, C, t)
  PROVE  Sound(s, C) /\ Sound(t, C)
<1>1. Len(w) \in Nat
  BY LenProperties
<1>2. 0 \in 0 .. Len(w) /\ Len(w) \in 0 .. Len(w)
  BY <1>1
<1> QED
  BY <1>2 DEF Reaches, Trace

LEMMA ReachesStays ==
  ASSUME NEW C, NEW D, Carried(C, D), NEW s, NEW w, NEW t, Reaches(s, w, C, t)
  PROVE  Reaches(s, w, D, t)
BY SoundStays DEF Reaches

(* One more message.                                                       *)
LEMMA ReachesMore ==
  ASSUME NEW C, NEW s, NEW w \in Seq(Sent), NEW m \in Sent, NEW t,
         Reaches(s, w, C, t), Sound(After(t, m), C), Kept(t, After(t, m))
  PROVE  Reaches(s, Append(w, m), C, After(t, m))
<1> DEFINE L == Len(w)
           v == Append(w, m)
<1>1. /\ L \in Nat /\ Len(v) = L + 1 /\ v[L + 1] = m
      /\ \A n \in 1 .. L : v[n] = w[n]
  BY AppendProperties, LenProperties
<1>2. PICK tr : /\ Trace(tr, s, w)
                /\ \A n \in 0 .. L : Sound(tr[n], C)
                /\ tr[L] = t
  BY DEF Reaches
<1> DEFINE x == After(t, m)
           tr2 == [n \in 0 .. L + 1 |-> IF n = L + 1 THEN x ELSE tr[n]]
<1>3. /\ tr2[L + 1] = x
      /\ \A n \in 0 .. L : tr2[n] = tr[n]
  BY <1>1
<1> HIDE DEF L, v, tr2
<1>4. \A n \in 1 .. L + 1 : n \in 1 .. L \/ n = L + 1
  BY <1>1
<1>5. \A n \in 1 .. L : n \in 0 .. L /\ n - 1 \in 0 .. L
  BY <1>1
<1>6. L \in 0 .. L /\ 0 \in 0 .. L /\ L + 1 - 1 = L
  BY <1>1
<1>7. /\ tr[0] = s
      /\ \A n \in 1 .. L : tr[n] = After(tr[n - 1], w[n]) /\ Kept(tr[n - 1], tr[n])
  BY <1>2 DEF Trace, L
<1>8. \A n \in 1 .. L + 1 : tr2[n] = After(tr2[n - 1], v[n]) /\ Kept(tr2[n - 1], tr2[n])
  <2>1. \A n \in 1 .. L : tr2[n] = After(tr2[n - 1], v[n]) /\ Kept(tr2[n - 1], tr2[n])
    BY <1>1, <1>3, <1>5, <1>7
  <2>2. ASSUME NEW n, n = L + 1
        PROVE  tr2[n] = After(tr2[n - 1], v[n]) /\ Kept(tr2[n - 1], tr2[n])
    BY <1>1, <1>2, <1>3, <1>6, <2>2
  <2> QED
    BY <1>4, <2>1, <2>2
<1>9. Trace(tr2, s, v)
  BY <1>1, <1>3, <1>6, <1>7, <1>8 DEF Trace
<1>10. \A n \in 0 .. L + 1 : Sound(tr2[n], C)
  <2>1. \A n \in 0 .. L + 1 : n \in 0 .. L \/ n = L + 1
    BY <1>1
  <2> QED
    BY <1>2, <1>3, <2>1
<1>11. Reaches(s, v, C, x)
  BY <1>1, <1>3, <1>9, <1>10 DEF Reaches
<1> QED
  BY <1>11 DEF v

(* The first message is read.                                              *)
LEMMA ReachesRest ==
  ASSUME NEW C, NEW s, NEW w \in Seq(Sent), w # << >>, NEW t, Reaches(s, w, C, t)
  PROVE  Reaches(After(s, Head(w)), Tail(w), C, t)
<1> DEFINE L == Len(w) - 1
           v == Tail(w)
<1>1. /\ L \in Nat /\ Len(w) = L + 1 /\ Len(v) = L /\ Head(w) = w[1]
      /\ \A n \in 1 .. L : v[n] = w[n + 1]
  BY HeadTailProperties, LenProperties, EmptySeq
<1>2. PICK tr : /\ Trace(tr, s, w)
                /\ \A n \in 0 .. Len(w) : Sound(tr[n], C)
                /\ tr[Len(w)] = t
  BY DEF Reaches
<1>3. /\ tr[0] = s
      /\ \A n \in 1 .. L + 1 : tr[n] = After(tr[n - 1], w[n]) /\ Kept(tr[n - 1], tr[n])
  BY <1>1, <1>2 DEF Trace
<1> DEFINE tr2 == [n \in 0 .. L |-> tr[n + 1]]
<1>4. \A n \in 0 .. L : tr2[n] = tr[n + 1]
  OBVIOUS
<1> HIDE DEF L, v, tr2
<1>5. tr2[0] = After(s, Head(w))
  <2>1. 1 \in 1 .. L + 1 /\ 1 - 1 = 0 /\ 0 \in 0 .. L /\ 0 + 1 = 1
    BY <1>1
  <2> QED
    BY <1>1, <1>3, <1>4, <2>1
<1>6. ASSUME NEW n \in 1 .. L
      PROVE  tr2[n] = After(tr2[n - 1], v[n]) /\ Kept(tr2[n - 1], tr2[n])
  <2>1. /\ n + 1 \in 1 .. L + 1 /\ n + 1 - 1 = n /\ n - 1 \in 0 .. L /\ n \in 0 .. L
        /\ n - 1 + 1 = n
    BY <1>1
  <2>2. tr[n + 1] = After(tr[n], w[n + 1]) /\ Kept(tr[n], tr[n + 1])
    BY <1>3, <2>1
  <2> QED
    BY <1>1, <1>4, <2>1, <2>2
<1>7. Trace(tr2, After(s, Head(w)), v)
  BY <1>1, <1>5, <1>6 DEF Trace
<1>8. \A n \in 0 .. L : Sound(tr2[n], C)
  <2>1. \A n \in 0 .. L : n + 1 \in 0 .. Len(w)
    BY <1>1
  <2> QED
    BY <1>2, <1>4, <2>1
<1>9. tr2[L] = t
  <2>1. L \in 0 .. L
    BY <1>1
  <2> QED
    BY <1>1, <1>2, <1>4, <2>1
<1>10. Reaches(After(s, Head(w)), v, C, t)
  BY <1>1, <1>7, <1>8, <1>9 DEF Reaches
<1> QED
  BY <1>10 DEF v

LEMMA ReachesKept ==
  ASSUME NEW C, NEW s, NEW w \in Seq(Sent), w # << >>, NEW t, Reaches(s, w, C, t)
  PROVE  Kept(s, After(s, Head(w)))
<1>1. 1 \in 1 .. Len(w) /\ Head(w) = w[1] /\ 1 - 1 = 0
  BY HeadTailProperties, LenProperties, EmptySeq
<1> QED
  BY <1>1 DEF Reaches, Trace

(* The same of a listener that follows the chain. *)
LEMMA FollowsSilent ==
  ASSUME NEW C, NEW D, Silent(C, D), NEW s, NEW w \in Seq(Sent), Follows(s, w, C)
  PROVE  Follows(s, w, D)
<1>1. PICK t : Reaches(s, w, C, t) /\ UpToDate(t, C)
  BY DEF Follows
<1>2. Reaches(s, w, D, t) /\ UpToDate(t, D)
  BY <1>1, ReachesStays, ReachesEnds, SilentFollowed DEF Silent
<1> QED
  BY <1>2 DEF Follows

LEMMA FollowsMore ==
  ASSUME NEW C, NEW D, NEW m \in Sent, Tells(C, D, m), Proper(C), Proper(D),
         NEW s, NEW w \in Seq(Sent), Follows(s, w, C)
  PROVE  Follows(s, Append(w, m), D)
<1>1. PICK t : Reaches(s, w, C, t) /\ UpToDate(t, C)
  BY DEF Follows
<1>2. Sound(After(t, m), D) /\ UpToDate(After(t, m), D)
  BY <1>1, ReachesEnds, MessageFollowed
<1>5. Kept(t, After(t, m))
  BY <1>1, ReachesEnds, MessageKept
<1>3. Carried(C, D)
  BY DEF Tells, TellsNew, TellsAction, TellsSeal, TellsCommit, Carried
<1>4. Reaches(s, Append(w, m), D, After(t, m))
  BY <1>1, <1>2, <1>3, <1>5, ReachesStays, ReachesMore
<1> QED
  BY <1>2, <1>4 DEF Follows

LEMMA FollowsRest ==
  ASSUME NEW C, NEW s, NEW w \in Seq(Sent), w # << >>, Follows(s, w, C)
  PROVE  Follows(After(s, Head(w)), Tail(w), C)
BY ReachesRest DEF Follows

LEMMA FollowsKept ==
  ASSUME NEW C, NEW s, NEW w \in Seq(Sent), w # << >>, Follows(s, w, C)
  PROVE  Kept(s, After(s, Head(w)))
BY ReachesKept DEF Follows

LEMMA FollowsSound ==
  ASSUME NEW C, NEW s, NEW w \in Seq(Sent), Follows(s, w, C)
  PROVE  Sound(s, C)
BY ReachesEnds DEF Follows

-----------------------------------------------------------------------------
(* What Sync sends, block after block.                                     *)
LEMMA HeadsAre ==
  ASSUME NEW e \in Nat
  PROVE  /\ Heads(e) \in Seq(Sent)
         /\ \E m, o \in Sent : /\ Heads(e) = <<m, o>>
                             /\ m.type = "new" /\ m.epoch = e /\ m.from = "snapshot"
                             /\ o.type = "other"
<1> DEFINE m == [Msg("new", e) EXCEPT !.from = "snapshot"]
           o == [Msg("other", e) EXCEPT !.from = "snapshot"]
<1>1. /\ m \in Sent /\ o \in Sent
      /\ m.type = "new" /\ m.epoch = e /\ m.from = "snapshot" /\ o.type = "other"
  BY DEF Msg, Sent, Message
<1>2. Heads(e) = <<m, o>>
  BY DEF Heads
<1> HIDE DEF m, o
<1>3. <<m, o>> \in Seq(Sent)
  BY <1>1
<1> QED
  BY <1>1, <1>2, <1>3

LEMMA EarlierIs ==
  ASSUME NEW S \in Seq(Block), NEW e
  PROVE  /\ \A n \in 0 .. Len(S) : Earlier(S, e)[n] \in Seq(Sent)
         /\ Earlier(S, e)[0] = << >>
         /\ \A n \in 1 .. Len(S) :
              Earlier(S, e)[n] = Earlier(S, e)[n - 1] \o HeadsAfter(S[n], e)
<1> DEFINE L == Len(S)
           X == Seq(Sent)
           x0 == << >>
           G == [n \in 1 .. L |-> [x \in X |-> x \o HeadsAfter(S[n], e)]]
           j == CHOOSE j : j = [n \in 0 .. Len(S) |->
                                  IF n = 0 THEN << >> ELSE j[n - 1] \o HeadsAfter(S[n], e)]
<1>1. L \in Nat /\ \A n \in 1 .. L : HeadsAfter(S[n], e) \in X
  <2>1. L \in Nat /\ \A n \in 1 .. L : S[n] \in Block
    BY LenProperties, ElementOfSeq
  <2>2. \A n \in 1 .. L : S[n].Epoch \in Nat
    BY <2>1 DEF Block
  <2>3. << >> \in X
    BY EmptySeq
  <2> HIDE DEF X, L
  <2>4. \A n \in 1 .. L : Heads(S[n].Epoch) \in X
    BY <2>2, HeadsAre DEF X
  <2> QED
    BY <2>1, <2>3, <2>4 DEF HeadsAfter
<1>2. \A n \in 1 .. L : \A x \in X : G[n][x] = x \o HeadsAfter(S[n], e)
  OBVIOUS
<1>3. x0 \in X
  BY EmptySeq
<1>4. \A n \in 1 .. L : \A x \in X : x \o HeadsAfter(S[n], e) \in X
  BY <1>1, ConcatProperties
<1> HIDE DEF G, L, X
<1>5. Steps(G, X, L)
  BY <1>2, <1>4 DEF Steps
<1>6. PICK f : Unfolds(f, X, x0, G, L)
  <2> HIDE DEF x0
  <2> QED
    BY <1>1, <1>3, <1>5, Recursion
<1>7. \A n \in 1 .. L : n - 1 \in 0 .. L
  BY <1>1
<1>8. \A n \in 1 .. L : f[n] = f[n - 1] \o HeadsAfter(S[n], e)
  BY <1>2, <1>6, <1>7 DEF Unfolds
<1>9. f = [n \in 0 .. L |-> IF n = 0 THEN << >> ELSE f[n - 1] \o HeadsAfter(S[n], e)]
  <2>1. \A n \in 0 .. L : f[n] = IF n = 0 THEN << >> ELSE f[n - 1] \o HeadsAfter(S[n], e)
    <3>1. \A n \in 0 .. L : n = 0 \/ n \in 1 .. L
      BY <1>1
    <3>2. f[0] = << >>
      BY <1>6 DEF Unfolds
    <3> QED
      BY <1>8, <3>1, <3>2
  <2>2. f = [n \in 0 .. L |-> f[n]]
    BY <1>6 DEF Unfolds
  <2> QED
    BY <2>1, <2>2
<1>10. j = [n \in 0 .. L |-> IF n = 0 THEN << >> ELSE j[n - 1] \o HeadsAfter(S[n], e)]
  BY Zenon, <1>9 DEF L
<1>11. Earlier(S, e) = j
  BY DEF Earlier
<1> HIDE DEF j
<1>12. j[0] = << >> /\ \A n \in 1 .. L : j[n] = j[n - 1] \o HeadsAfter(S[n], e)
  <2>1. \A n \in 0 .. L : j[n] = IF n = 0 THEN << >> ELSE j[n - 1] \o HeadsAfter(S[n], e)
    BY <1>10
  <2>2. 0 \in 0 .. L /\ \A n \in 1 .. L : n \in 0 .. L /\ n # 0
    BY <1>1
  <2> QED
    BY <2>1, <2>2
<1> DEFINE T == {n \in 0 .. L : j[n] \in X}
<1>13. Inductive(T, L)
  <2>1. 0 \in T
    BY <1>1, <1>3, <1>12
  <2>2. ASSUME NEW n \in 1 .. L, n - 1 \in T
        PROVE  n \in T
    <3>1. n - 1 \in 0 .. L /\ n \in 0 .. L
      BY <1>1
    <3>2. j[n - 1] \in X
      BY <2>2
    <3>3. j[n - 1] \o HeadsAfter(S[n], e) \in X
      BY <1>4, <3>2
    <3> QED
      BY <1>12, <3>1, <3>3
  <2> QED
    BY <2>1, <2>2 DEF Inductive
<1> HIDE DEF T
<1>14. \A n \in 0 .. L : n \in T
  BY <1>1, <1>13, UpTo
<1>15. \A n \in 0 .. L : j[n] \in X
  BY <1>14 DEF T
<1> QED
  BY <1>11, <1>12, <1>15 DEF L, X

(* A listener that has read new block messages only.                       *)
Fresh(t, C) ==
  /\ t.listener = "reading" /\ t.delivered = << >> /\ Typed(t)
  /\ Ascending(t.heap) /\ AllMirrored(t.heap, C) /\ KnownRight(t)

LEMMA FreshSound ==
  ASSUME NEW C, NEW t, Fresh(t, C)
  PROVE  Sound(t, C)
BY DEF Fresh, Sound, Unended, InOrder, Faithful

(* A block of the chain, and a heap with a block of that epoch added.      *)
InChain(c, C) == c = C.live \/ \E i \in DOMAIN C.recent : c = C.recent[i]

Below(h, e) == \A p \in 1 .. Len(h) : h[p].Epoch < e

OneMore(h, g, e) ==
  \A p \in 1 .. Len(g) :
    g[p].Epoch = e \/ \E q \in 1 .. Len(h) : g[p].Epoch = h[q].Epoch

(* It reads the messages of a block of the chain that comes after all of   *)
(* those that it holds.                                                    *)
LEMMA HeadsRead ==
  ASSUME NEW C, NEW s, NEW w \in Seq(Sent), NEW t, Reaches(s, w, C, t), Fresh(t, C),
         NEW c \in Block, c.Epoch <= C.epoch,
         InChain(c, C), Below(t.heap, c.Epoch)
  PROVE  \E t2 : /\ Reaches(s, w \o Heads(c.Epoch), C, t2) /\ Fresh(t2, C)
                 /\ t2.current # 0 /\ t2.heap[t2.current].Epoch = c.Epoch
                 /\ OneMore(t.heap, t2.heap, c.Epoch)
<1>1. c.Epoch \in Nat /\ c.Actions \in Seq(Action)
  BY DEF Block
<1>2. PICK m, o \in Sent : /\ Heads(c.Epoch) = <<m, o>>
                           /\ m.type = "new" /\ m.epoch = c.Epoch /\ m.from = "snapshot"
                           /\ o.type = "other"
  BY <1>1, HeadsAre
<1> DEFINE h == t.heap
           x == Opened(m)
           g == Append(h, x)
           k == Replaced(t.known, m.epoch, Len(h) + 1)
           t2 == AfterNew(t, m)
<1>3. /\ t2.listener = "reading" /\ t2.heap = g /\ t2.known = k
      /\ t2.current = Len(h) + 1 /\ t2.delivered = << >>
  BY DEF State, AfterNew, Fresh
<1>4. After(t, m) = t2 /\ After(t2, o) = t2
  <2>1. After(t, m) = t2
    BY <1>2 DEF After, Fresh
  <2> HIDE DEF t2
  <2>2. After(t2, o) = t2
    BY <1>2 DEF After
  <2> QED
    BY <2>1, <2>2
<1>5. h \in Seq(ProtocolBlock) /\ t.known \in KnownIn(Len(h)) /\ Len(h) \in Nat
  BY LenProperties DEF Fresh, Typed
<1>6. x \in ProtocolBlock /\ x.Epoch = c.Epoch /\ x.Actions = << >> /\ x.opened = "snapshot"
  BY <1>2, OpenedBlock DEF Opened
<1>7. /\ g \in Seq(ProtocolBlock) /\ Len(g) = Len(h) + 1
      /\ \A p \in 1 .. Len(h) : g[p] = h[p]
      /\ g[Len(h) + 1] = x
  BY <1>5, <1>6, AppendProperties
<1>8. /\ k \in KnownIn(Len(h) + 1)
      /\ \A e \in Epochs : k[e] = IF e = m.epoch THEN Len(h) + 1 ELSE t.known[e]
      /\ \A e \in Epochs : t.known[e] \in 0 .. Len(h)
  <2>1. Len(h) <= Len(h) + 1 /\ Len(h) + 1 \in 0 .. Len(h) + 1 /\ Len(h) + 1 \in Nat
    BY <1>5
  <2>2. /\ k \in KnownIn(Len(h) + 1)
        /\ \A e \in Epochs : k[e] = IF e = m.epoch THEN Len(h) + 1 ELSE t.known[e]
    BY <1>5, <2>1, KnownIs
  <2>3. \A e \in Epochs : t.known[e] \in 0 .. Len(h)
    BY <1>5 DEF KnownIn
  <2> QED
    BY <2>2, <2>3
<1> HIDE DEF t2, g, x, k
<1>9. \A p \in 1 .. Len(h) + 1 : p \in 1 .. Len(h) \/ p = Len(h) + 1
  BY <1>5
<1>10. Ascending(g)
  <2> SUFFICES ASSUME NEW p \in 1 .. Len(h) + 1, NEW q \in 1 .. Len(h) + 1, p < q
               PROVE  g[p].Epoch < g[q].Epoch
    BY <1>7 DEF Ascending
  <2>1. p \in 1 .. Len(h) /\ g[p] = h[p]
    BY <1>5, <1>7
  <2>2. CASE q \in 1 .. Len(h)
    BY <1>5, <1>7, <2>1, <2>2 DEF Ascending, Fresh
  <2>3. CASE q = Len(h) + 1
    BY <1>6, <1>7, <2>1, <2>3 DEF Below
  <2> QED
    BY <1>9, <2>2, <2>3
<1>11. Mirrored(x, C)
  <2>1. Matches(x, c)
    <3>1. Len(c.Actions) \in Nat /\ Len(x.Actions) = 0
      BY <1>1, <1>6, LenProperties
    <3> QED
      BY <1>6, <3>1 DEF Matches
  <2>2. CASE c = C.live
    BY <1>6, <2>1, <2>2, NoBlockAssumption DEF Mirrored
  <2>3. CASE \E i \in DOMAIN C.recent : c = C.recent[i]
    BY <1>6, <2>1, <2>3 DEF Mirrored
  <2> QED
    BY <2>2, <2>3 DEF InChain
<1>12. AllMirrored(g, C)
  BY <1>6, <1>7, <1>9, <1>11 DEF AllMirrored, Fresh
<1>13. KnownRight(t2)
  <2> SUFFICES ASSUME NEW e \in Epochs, k[e] # 0
               PROVE  g[k[e]].Epoch = e
    BY <1>3 DEF KnownRight
  <2>1. CASE e = m.epoch
    BY <1>2, <1>6, <1>7, <1>8, <2>1
  <2>2. CASE e # m.epoch
    <3>1. k[e] = t.known[e] /\ t.known[e] \in 1 .. Len(h)
      BY <1>5, <1>8, <2>2
    <3> QED
      BY <1>7, <3>1 DEF KnownRight, Fresh
  <2> QED
    BY <2>1, <2>2
<1>14. Fresh(t2, C)
  <2>1. << >> \in Seq(0 .. Len(h) + 1) /\ Len(h) + 1 \in 0 .. Len(h) + 1
    BY <1>5
  <2>2. Typed(t2)
    BY <1>3, <1>7, <1>8, <2>1 DEF Typed
  <2> QED
    BY <1>3, <1>10, <1>12, <1>13, <2>2 DEF Fresh
<1>15. Reaches(s, w \o Heads(c.Epoch), C, t2)
  <2>4. Kept(t, t2) /\ Kept(t2, t2)
    BY <1>14 DEF Kept, Fresh
  <2>1. Reaches(s, Append(w, m), C, t2) /\ Append(w, m) \in Seq(Sent)
    BY <1>4, <1>14, <2>4, FreshSound, ReachesMore, AppendProperties
  <2>2. Reaches(s, Append(Append(w, m), o), C, t2)
    BY <1>4, <1>14, <2>1, <2>4, FreshSound, ReachesMore
  <2>3. w \o <<m, o>> = Append(Append(w, m), o)
    OBVIOUS
  <2> QED
    BY <1>2, <2>2, <2>3
<1>16. t2.current # 0 /\ t2.heap[t2.current].Epoch = c.Epoch
  BY <1>3, <1>5, <1>6, <1>7
<1>17. OneMore(t.heap, t2.heap, c.Epoch)
  BY <1>3, <1>6, <1>7, <1>9 DEF OneMore
<1> QED
  BY <1>14, <1>15, <1>16, <1>17

(* A listener that has connected and has read nothing.                     *)
NoneKnown == [e \in Epochs |-> 0]

Connected == State("reading", << >>, NoneKnown, 0, << >>)

LEMMA ConnectedFresh ==
  ASSUME NEW C
  PROVE  Fresh(Connected, C) /\ Len(Connected.heap) = 0
<1>1. /\ Connected.listener = "reading" /\ Connected.heap = << >>
      /\ Connected.known = NoneKnown /\ Connected.current = 0
      /\ Connected.delivered = << >>
  BY DEF Connected, State
<1>2. Len(<< >>) = 0 /\ << >> \in Seq(ProtocolBlock) /\ << >> \in Seq(0 .. 0)
  OBVIOUS
<1>3. NoneKnown \in KnownIn(0) /\ \A e \in Epochs : NoneKnown[e] = 0
  BY DEF NoneKnown, KnownIn
<1> HIDE DEF NoneKnown
<1>4. Typed(Connected)
  BY <1>1, <1>2, <1>3 DEF Typed
<1>5. KnownRight(Connected)
  BY <1>1, <1>3 DEF KnownRight
<1> QED
  BY <1>1, <1>2, <1>4, <1>5 DEF Fresh, Ascending, AllMirrored

(* The blocks of h are among the first n of S.                             *)
FirstOf(h, S, n) ==
  \A p \in 1 .. Len(h) : \E i \in 1 .. n : h[p].Epoch = S[i].Epoch

(* A listener that has read what Sync sends of the recent blocks.          *)
LEMMA EarlierRead ==
  ASSUME NEW C, Proper(C), NEW e
  PROVE  /\ Earlier(C.recent, e)[Len(C.recent)] \in Seq(Sent)
         /\ \E t : /\ Reaches(Connected, Earlier(C.recent, e)[Len(C.recent)], C, t)
                   /\ Fresh(t, C)
                   /\ FirstOf(t.heap, C.recent, Len(C.recent))
<1> DEFINE S == C.recent
           L == Len(S)
           w == Earlier(S, e)
           T == {n \in 0 .. L : \E t : /\ Reaches(Connected, w[n], C, t)
                                       /\ Fresh(t, C) /\ FirstOf(t.heap, S, n)}
<1>1. /\ S \in Seq(Block) /\ L \in Nat /\ DOMAIN S = 1 .. L
      /\ \A i \in 1 .. L : S[i] \in Block /\ S[i].Epoch <= C.epoch
      /\ \A i, k \in 1 .. L : i < k => S[i].Epoch < S[k].Epoch
      /\ C.live \in Block \cup {NoBlock}
  BY LenProperties, ElementOfSeq DEF Proper
<1>2. /\ \A n \in 0 .. L : w[n] \in Seq(Sent)
      /\ w[0] = << >>
      /\ \A n \in 1 .. L : w[n] = w[n - 1] \o HeadsAfter(S[n], e)
  BY <1>1, EarlierIs
<1> HIDE DEF S, L, w
<1>3. 0 \in T
  <2>1. Fresh(Connected, C) /\ Len(Connected.heap) = 0
    BY ConnectedFresh
  <2>2. Reaches(Connected, w[0], C, Connected)
    BY <1>2, <2>1, FreshSound, ReachesHere
  <2>3. FirstOf(Connected.heap, S, 0)
    BY <2>1 DEF FirstOf
  <2>4. 0 \in 0 .. L
    BY <1>1
  <2> QED
    BY <2>1, <2>2, <2>3, <2>4
<1>4. ASSUME NEW n \in 1 .. L, n - 1 \in T
      PROVE  n \in T
  <2>1. /\ n \in 0 .. L /\ n - 1 \in 0 .. L
        /\ \A i \in 1 .. n - 1 : i \in 1 .. n /\ i \in 1 .. L /\ i < n
        /\ n \in 1 .. n
    BY <1>1
  <2>2. PICK t : /\ Reaches(Connected, w[n - 1], C, t)
                 /\ Fresh(t, C) /\ FirstOf(t.heap, S, n - 1)
    BY <1>4
  <2>3. CASE S[n].Epoch > e
    <3>1. w[n] = w[n - 1] \o Heads(S[n].Epoch)
      BY <1>2, <2>3 DEF HeadsAfter
    <3>2. Below(t.heap, S[n].Epoch)
      BY <1>1, <2>1, <2>2 DEF FirstOf, Below
    <3>3. InChain(S[n], C)
      BY <1>1 DEF S, InChain
    <3>4. PICK t2 : /\ Reaches(Connected, w[n - 1] \o Heads(S[n].Epoch), C, t2)
                    /\ Fresh(t2, C)
                    /\ OneMore(t.heap, t2.heap, S[n].Epoch)
      <4>1. w[n - 1] \in Seq(Sent) /\ S[n] \in Block /\ S[n].Epoch <= C.epoch
        BY <1>1, <1>2, <2>1
      <4> QED
        BY <1>1, <2>2, <3>2, <3>3, <4>1, HeadsRead
    <3>5. FirstOf(t2.heap, S, n)
      <4> SUFFICES ASSUME NEW p \in 1 .. Len(t2.heap)
                   PROVE  \E i \in 1 .. n : t2.heap[p].Epoch = S[i].Epoch
        BY DEF FirstOf
      <4>1. CASE t2.heap[p].Epoch = S[n].Epoch
        BY <2>1, <4>1
      <4>2. ASSUME NEW q \in 1 .. Len(t.heap), t2.heap[p].Epoch = t.heap[q].Epoch
            PROVE  \E i \in 1 .. n : t2.heap[p].Epoch = S[i].Epoch
        BY <2>1, <2>2, <4>2 DEF FirstOf
      <4> QED
        BY <3>4, <4>1, <4>2 DEF OneMore
    <3> QED
      BY <2>1, <3>1, <3>4, <3>5
  <2>4. CASE ~ (S[n].Epoch > e)
    <3>1. w[n] = w[n - 1]
      <4>1. HeadsAfter(S[n], e) = << >>
        BY <2>4 DEF HeadsAfter
      <4>2. w[n - 1] \o << >> = w[n - 1]
        BY <1>2, <2>1, ConcatEmptySeq
      <4> QED
        BY <1>2, <4>1, <4>2
    <3>2. FirstOf(t.heap, S, n)
      BY <2>1, <2>2 DEF FirstOf
    <3> QED
      BY <2>1, <2>2, <3>1, <3>2
  <2> QED
    BY <2>3, <2>4
<1> HIDE DEF T
<1>5. Inductive(T, L)
  BY <1>3, <1>4 DEF Inductive
<1>6. L \in T
  <2>1. L \in 0 .. L
    BY <1>1
  <2> QED
    BY <1>1, <1>5, <2>1, UpTo
<1>7. w[L] \in Seq(Sent)
  <2>1. L \in 0 .. L
    BY <1>1
  <2> QED
    BY <1>2, <2>1
<1> QED
  BY <1>6, <1>7 DEF T, w, L, S

(* A listener that has read a snapshot is up to date.                      *)
SnapshotOf(C, e) ==
  Earlier(C.recent, e)[Len(C.recent)] \o (IF C.live = NoBlock THEN << >> ELSE Heads(C.live.Epoch))

LEMMA SnapshotRead ==
  ASSUME NEW C, Proper(C), NEW e
  PROVE  /\ SnapshotOf(C, e) \in Seq(Sent)
         /\ Follows(Connected, SnapshotOf(C, e), C)
<1> DEFINE w == Earlier(C.recent, e)[Len(C.recent)]
<1>1. w \in Seq(Sent)
  BY EarlierRead
<1>2. PICK t : /\ Reaches(Connected, w, C, t) /\ Fresh(t, C)
               /\ FirstOf(t.heap, C.recent, Len(C.recent))
  BY EarlierRead
<1>3. /\ C.recent \in Seq(Block) /\ DOMAIN C.recent = 1 .. Len(C.recent)
      /\ C.live \in Block \cup {NoBlock}
      /\ C.live # NoBlock => C.live.Epoch = C.epoch /\ C.epoch \in Nat
      /\ \A i \in DOMAIN C.recent : C.live # NoBlock => C.recent[i].Epoch < C.epoch
      /\ C.epoch \in Nat
  BY LenProperties DEF Proper
<1> HIDE DEF w
<1>4. CASE C.live = NoBlock
  <2>1. SnapshotOf(C, e) = w
    BY <1>1, <1>4, ConcatEmptySeq DEF SnapshotOf, w
  <2>2. UpToDate(t, C)
    BY <1>2, <1>4 DEF Fresh, UpToDate, CurrentRight, LastRight
  <2> QED
    BY <1>1, <1>2, <2>1, <2>2 DEF Follows
<1>5. CASE C.live # NoBlock
  <2>1. SnapshotOf(C, e) = w \o Heads(C.live.Epoch)
    BY <1>5 DEF SnapshotOf, w
  <2>2. SnapshotOf(C, e) \in Seq(Sent)
    BY <1>1, <1>3, <1>5, <2>1, HeadsAre, ConcatProperties
  <2>3. Below(t.heap, C.live.Epoch) /\ InChain(C.live, C)
    BY <1>2, <1>3, <1>5 DEF FirstOf, Below, InChain
  <2>4. PICK t2 : /\ Reaches(Connected, w \o Heads(C.live.Epoch), C, t2) /\ Fresh(t2, C)
                  /\ t2.current # 0 /\ t2.heap[t2.current].Epoch = C.live.Epoch
    <3>1. C.live \in Block /\ C.live.Epoch <= C.epoch
      BY <1>3, <1>5
    <3> QED
      BY <1>1, <1>2, <1>3, <2>3, <3>1, HeadsRead
  <2>5. UpToDate(t2, C)
    BY <2>4 DEF Fresh, UpToDate, CurrentRight, LastRight
  <2> QED
    BY <2>1, <2>2, <2>4, <2>5 DEF Follows
<1> QED
  BY <1>4, <1>5

-----------------------------------------------------------------------------
(* The calls of the node and the messages that they send.                  *)
LEMMA ProperView == NodeInv => Proper(View)
<1> SUFFICES ASSUME NodeInv PROVE Proper(View)
  OBVIOUS
<1>1. ChainTypeOK /\ EpochOrder /\ LogParts(recentBlocks, commitEpoch, commit)
  BY DEF NodeInv, ChainInv
<1>2. \A i \in DOMAIN recentBlocks :
        recentBlocks[i].Status = StatusCommit <=> recentBlocks[i].Epoch <= commitEpoch
  BY <1>1 DEF LogParts
<1> QED
  BY <1>1, <1>2 DEF Proper, View, ChainTypeOK, EpochOrder

LEMMA ProperNext == NodeInv' => Proper(View')
<1> SUFFICES ASSUME NodeInv' PROVE Proper(View')
  OBVIOUS
<1>1. ChainTypeOK' /\ EpochOrder' /\ LogParts(recentBlocks', commitEpoch', commit')
  BY DEF NodeInv, ChainInv, LogParts
<1>2. \A i \in DOMAIN recentBlocks' :
        recentBlocks'[i].Status = StatusCommit <=> recentBlocks'[i].Epoch <= commitEpoch'
  BY <1>1 DEF LogParts
<1> QED
  BY <1>1, <1>2 DEF Proper, View, ChainTypeOK, EpochOrder

(* What a call must do whose message is m: it is refused and nobody need   *)
(* know, or m tells what it did.                                           *)
Told(m) ==
  \/ reply'.err # "ok" /\ Silent(View, View')
  \/ reply'.err = "ok" /\ m \in Sent /\ Tells(View, View', m)

LEMMA RefusedTold ==
  ASSUME NEW err, err # "ok", NEW e, Refuse(err, e), NEW m
  PROVE  Told(m)
<1>1. View' = View
  BY DEF Refuse, View
<1>2. \A C : Silent(C, C)
  BY DEF Silent, Carried, Retired
<1> QED
  BY <1>1, <1>2 DEF Refuse, Told

(* Recent blocks that stay as they are, with perhaps one more behind them. *)
LEMMA AppendCarried ==
  ASSUME NEW C, NEW D, NEW r, C.recent \in Seq(Block), r \in Block,
         D.recent = Append(C.recent, r)
  PROVE  /\ Carried(C, D)
         /\ Len(C.recent) + 1 \in DOMAIN D.recent
         /\ D.recent[Len(C.recent) + 1] = r
<1>1. /\ Len(C.recent) \in Nat
      /\ DOMAIN C.recent = 1 .. Len(C.recent)
      /\ DOMAIN D.recent = 1 .. Len(C.recent) + 1
      /\ \A i \in 1 .. Len(C.recent) : D.recent[i] = C.recent[i]
      /\ D.recent[Len(C.recent) + 1] = r
  BY AppendProperties, LenProperties
<1> QED
  BY <1>1 DEF Carried

(* The messages, by their fields.                                          *)
ActionMsg(i)    == [Msg("action", 0) EXCEPT !.action = i]
CommitMsg(e, h) == [Msg("commit", e) EXCEPT !.invalidated = h]

LEMMA MessagesAre ==
  /\ \A e \in Nat : LET m == Msg("new", e)
                    IN  m \in Sent /\ m.type = "new" /\ m.epoch = e
  /\ \A i \in Input : LET m == ActionMsg(i)
                      IN  m \in Sent /\ m.type = "action" /\ m.action = i
  /\ \A e \in Epochs : LET m == Msg("seal", e)
                       IN  m \in Sent /\ m.type = "seal" /\ m.epoch = e
  /\ \A e \in Epochs : \A h \in SUBSET Action :
       LET m == CommitMsg(e, h)
       IN  m \in Sent /\ m.type = "commit" /\ m.epoch = e /\ m.invalidated = h
<1>1. Epochs \subseteq Nat
  BY ChainAssumption DEF Epochs
<1>2. \A e \in Nat : LET m == Msg("new", e)
                     IN  m \in Sent /\ m.type = "new" /\ m.epoch = e
  BY DEF Sent, Message, Msg
<1>3. \A i \in Input : LET m == ActionMsg(i)
                       IN  m \in Sent /\ m.type = "action" /\ m.action = i
  BY DEF Sent, Message, Msg, ActionMsg
<1>4. \A e \in Epochs : LET m == Msg("seal", e)
                        IN  m \in Sent /\ m.type = "seal" /\ m.epoch = e
  BY <1>1 DEF Sent, Message, Msg
<1>5. ASSUME NEW e \in Epochs, NEW h \in SUBSET Action
      PROVE  LET m == CommitMsg(e, h)
             IN  m \in Sent /\ m.type = "commit" /\ m.epoch = e /\ m.invalidated = h
  BY <1>1 DEF Sent, Message, Msg, CommitMsg
<1> QED
  BY <1>2, <1>3, <1>4, <1>5

LEMMA ValidateTold ==
  ASSUME NodeInv, NEW i \in Input, Validate(i)
  PROVE  Told(ActionMsg(i))
<1> DEFINE a == Transform[i]
<1>0. ChainTypeOK /\ a \in Action \cup {Empty}
  BY ChainAssumption DEF NodeInv, ChainInv
<1>1. CASE ~ (a # Empty /\ live # NoBlock /\ Valid(a, validator))
  <2>1. Refuse("rejected", epoch)
    BY <1>1 DEF Validate
  <2> QED
    BY <2>1, RefusedTold
<1>2. CASE a # Empty /\ live # NoBlock /\ Valid(a, validator)
  <2>1. /\ live' = [live EXCEPT !.Actions = Append(@, a)]
        /\ reply'.err = "ok"
        /\ epoch' = epoch /\ commitEpoch' = commitEpoch /\ recentBlocks' = recentBlocks
    BY <1>2 DEF Validate, Ok
  <2>2. live \in Block /\ a \in Action
    BY <1>0, <1>2 DEF ChainTypeOK
  <2>3. live' \in Block
    BY <2>1, <2>2, BlockAppend
  <2>4. live'.Epoch = live.Epoch /\ live'.Actions = Append(live.Actions, a)
    BY <2>1, <2>2, AppendFields
  <2>5. live' # NoBlock
    BY <2>3, NoBlockAssumption
  <2>6. TellsAction(View, View', ActionMsg(i))
    BY <1>2, <2>1, <2>4, <2>5, MessagesAre DEF TellsAction, View
  <2> QED
    BY <2>1, <2>6, MessagesAre DEF Told, Tells
<1> QED
  BY <1>1, <1>2

LEMMA NextBlockTold ==
  ASSUME NodeInv, NEW e \in Nat, NextBlock(e)
  PROVE  Told(Msg("new", epoch'))
<1>0. /\ ChainTypeOK /\ recentBlocks \in Seq(Block) /\ epoch \in Nat
      /\ live # NoBlock => live.Epoch = epoch
  BY DEF NodeInv, ChainInv, ChainTypeOK, EpochOrder
<1>1. CASE Refuse("non-sequential block", e)
  BY <1>1, RefusedTold
<1>2. CASE ~ Refuse("non-sequential block", e)
  <2>1. /\ recentBlocks' = RetireLive /\ epoch' = epoch + 1
        /\ live' = NewBlock(epoch + 1) /\ commitEpoch' = commitEpoch
        /\ reply'.err = "ok"
    <3>1. /\ recentBlocks' = RetireLive /\ epoch' = epoch + 1
          /\ live' = NewBlock(epoch + 1) /\ Ok(e)
          /\ UNCHANGED <<commit, commitEpoch>>
      BY <1>2 DEF NextBlock
    <3> QED
      BY <3>1 DEF Ok
  <2>2. /\ live' \in Block /\ live'.Epoch = epoch + 1 /\ live'.Actions = << >>
        /\ epoch' \in Nat
    BY <1>0, <2>1, NewBlockType DEF NewBlock
  <2>3. live' # NoBlock
    BY <2>2, NoBlockAssumption
  <2>4. Carried(View, View') /\ Retired(View, View')
    <3>1. CASE live = NoBlock
      <4>1. recentBlocks' = recentBlocks
        BY <2>1, <3>1 DEF RetireLive
      <4> QED
        BY <3>1, <4>1 DEF View, Carried, Retired
    <3>2. CASE live # NoBlock
      <4> DEFINE r == [live EXCEPT !.Status = StatusDone, !.mutations = validator]
      <4>1. r \in Block /\ recentBlocks' = Append(recentBlocks, r)
        BY <1>0, <2>1, <3>2, RetireType DEF RetireLive
      <4>2. r.Epoch = live.Epoch /\ r.Actions = live.Actions
        <5>1. live \in Block /\ validator \in SUBSET Action
          BY <1>0, <3>2 DEF ChainTypeOK
        <5> QED
          BY <5>1, RetireFields
      <4> HIDE DEF r
      <4>3. PICK C : C = View
        OBVIOUS
      <4>4. PICK D : D = View'
        OBVIOUS
      <4>5. /\ C.recent = recentBlocks /\ C.live = live
            /\ D.recent = Append(recentBlocks, r)
        BY <4>1, <4>3, <4>4 DEF View
      <4>6. /\ Carried(C, D)
            /\ Len(C.recent) + 1 \in DOMAIN D.recent
            /\ D.recent[Len(C.recent) + 1] = r
        BY <1>0, <4>1, <4>5, AppendCarried
      <4>7. Retired(C, D)
        BY <4>2, <4>5, <4>6 DEF Retired
      <4> QED
        BY <4>3, <4>4, <4>6, <4>7
    <3> QED
      BY <3>1, <3>2
  <2>5. Msg("new", epoch') \in Sent /\ Msg("new", epoch').type = "new"
        /\ Msg("new", epoch').epoch = epoch + 1
    BY <2>1, <2>2, MessagesAre
  <2>6. TellsNew(View, View', Msg("new", epoch'))
    BY <2>1, <2>2, <2>3, <2>4, <2>5 DEF TellsNew, View
  <2> QED
    BY <2>1, <2>5, <2>6 DEF Told, Tells
<1> QED
  BY <1>1, <1>2

LEMMA SealTold ==
  ASSUME NodeInv, NEW e \in Epochs, SealBlock(e)
  PROVE  Told(Msg("seal", e))
<1>0. /\ ChainTypeOK /\ recentBlocks \in Seq(Block)
      /\ DOMAIN recentBlocks = 1 .. Len(recentBlocks)
  BY RecentSeq DEF NodeInv, ChainInv, ChainTypeOK
<1>1. CASE SealLive(e)
  <2>1. /\ live # NoBlock /\ recentBlocks' = Append(recentBlocks, live)
        /\ live' = NoBlock /\ epoch' = epoch /\ commitEpoch' = commitEpoch
        /\ reply'.err = "seal: not found"
    BY <1>1 DEF SealLive
  <2>2. live \in Block
    BY <1>0, <2>1 DEF ChainTypeOK
  <2>3. PICK C : C = View
    OBVIOUS
  <2>4. PICK D : D = View'
    OBVIOUS
  <2>5. /\ C.recent = recentBlocks /\ D.recent = Append(recentBlocks, live)
        /\ C.live = live /\ D.live = NoBlock
        /\ D.epoch = C.epoch /\ D.commitEpoch = C.commitEpoch
    BY <2>1, <2>3, <2>4 DEF View
  <2>6. /\ Carried(C, D)
        /\ Len(C.recent) + 1 \in DOMAIN D.recent
        /\ D.recent[Len(C.recent) + 1] = live
    BY <1>0, <2>2, <2>5, AppendCarried
  <2>7. Retired(C, D)
    BY <2>5, <2>6 DEF Retired
  <2>8. Silent(C, D)
    BY <2>5, <2>6, <2>7 DEF Silent
  <2> QED
    BY <2>1, <2>3, <2>4, <2>8 DEF Told
<1>2. ASSUME NEW err \in {"seal: not found", "already sealed"}, Refuse(err, e)
      PROVE  Told(Msg("seal", e))
  BY <1>2, RefusedTold
<1>3. ASSUME live # NoBlock => live.Epoch # e,
             NEW i \in DOMAIN recentBlocks, recentBlocks[i].Status < StatusSealed,
             recentBlocks' = [recentBlocks EXCEPT ![i].Status = StatusSealed],
             Ok(e),
             UNCHANGED <<epoch, live, validator, commit, commitEpoch>>
      PROVE  Told(Msg("seal", e))
  <2> DEFINE r == [recentBlocks[i] EXCEPT !.Status = StatusSealed]
  <2>1. recentBlocks[i] \in Block
    BY <1>0, RecentBlock
  <2>2. /\ r \in Block /\ r.Epoch = recentBlocks[i].Epoch
        /\ r.Actions = recentBlocks[i].Actions
        /\ recentBlocks[i].Status # StatusCommit
    <3>1. ASSUME NEW b \in Block
          PROVE  LET c == [b EXCEPT !.Status = StatusSealed]
                 IN  c \in Block /\ c.Epoch = b.Epoch /\ c.Actions = b.Actions
      BY DEF Block, StatusLive, StatusSealed, StatusCommit
    <3>2. recentBlocks[i].Status # StatusCommit
      BY <1>3 DEF StatusSealed, StatusCommit
    <3> QED
      BY <2>1, <3>1, <3>2
  <2>3. recentBlocks' = [recentBlocks EXCEPT ![i] = r]
    BY <1>3
  <2> HIDE DEF r
  <2>4. /\ DOMAIN recentBlocks' = DOMAIN recentBlocks
        /\ recentBlocks'[i] = r
        /\ \A j \in DOMAIN recentBlocks : j # i => recentBlocks'[j] = recentBlocks[j]
    BY <1>0, <2>3
  <2>5. Carried(View, View')
    BY <2>2, <2>4 DEF Carried, View
  <2>6. epoch' = epoch /\ commitEpoch' = commitEpoch /\ live' = live
    BY <1>3
  <2>7. TellsSeal(View, View', Msg("seal", e))
    BY <1>3, <2>5, <2>6, MessagesAre DEF TellsSeal, View
  <2>8. reply'.err = "ok"
    BY <1>3 DEF Ok
  <2> QED
    BY <2>7, <2>8, MessagesAre DEF Told, Tells
<1> QED
  BY <1>1, <1>2, <1>3 DEF SealBlock, SealRecent

(* The hashes that the node takes from the block after its commit.         *)
LEMMA InvalidatedIs ==
  ASSUME NodeInv, NEW e, NEW i \in DOMAIN recentBlocks, Found(i, e)
  PROVE  Invalidated(e) = recentBlocks'[i].Invalidated
<1>1. /\ DOMAIN recentBlocks \subseteq Nat
      /\ \A j, k \in DOMAIN recentBlocks :
           j < k => recentBlocks[j].Epoch < recentBlocks[k].Epoch
      /\ \A j \in DOMAIN recentBlocks : recentBlocks[j].Epoch \in Nat
  BY RecentSeq, RecentBlock DEF NodeInv, ChainInv, EpochOrder
<1>2. \A j \in DOMAIN recentBlocks : Found(j, e) => j = i
  BY <1>1 DEF Found
<1>3. {j \in DOMAIN recentBlocks : Found(j, e)} = {i}
  BY <1>2
<1> QED
  BY <1>3 DEF Invalidated

LEMMA CommitTold ==
  ASSUME NodeInv, NEW e \in Epochs, NEW h \in SUBSET Action, Commit(e, h)
  PROVE  Told(CommitMsg(e, Invalidated(e)))
<1>0. /\ ChainTypeOK /\ ChainInv
      /\ LogParts(recentBlocks, commitEpoch, commit)
      /\ Good(recentBlocks, commitEpoch)
      /\ recentBlocks \in Seq(Block)
      /\ DOMAIN recentBlocks = 1 .. Len(recentBlocks)
      /\ commitEpoch \in Nat /\ StartEpoch \in Nat
      /\ commit \in SUBSET Action
  BY RecentSeq, ChainInvParts DEF NodeInv, ChainTypeOK
<1>1. ASSUME NEW err \in {"commit: not found", "non-sequential commit",
                          "already committed", "not sealed"},
             Refuse(err, e)
      PROVE  Told(CommitMsg(e, Invalidated(e)))
  BY <1>1, RefusedTold
<1>2. ASSUME NEW i \in DOMAIN recentBlocks, CommitReaches(i, e),
             recentBlocks[i].Epoch = e, recentBlocks[i].Status = StatusSealed,
             CommitSealed(i, h)
      PROVE  Told(CommitMsg(e, Invalidated(e)))
  <2>1. PICK r \in Block :
          /\ r.Epoch = recentBlocks[i].Epoch
          /\ r.Status = StatusCommit
          /\ r.Actions = recentBlocks[i].Actions
          /\ \A a \in r.mutations : \A c \in commit : <<a, c>> \notin Conflict
          /\ recentBlocks' = [recentBlocks EXCEPT ![i] = r]
          /\ commitEpoch' = r.Epoch
          /\ UNCHANGED <<epoch, live, validator>>
    BY <1>0, <1>2, CommitSealedEffect
  <2>2. /\ \A j \in 1 .. i - 1 : recentBlocks[j].Status = StatusCommit
        /\ recentBlocks[i].Status # StatusCommit
        /\ Found(i, e)
    BY <1>2 DEF CommitReaches, Found, StatusSealed, StatusCommit
  <2>3. i = commitEpoch - StartEpoch + 1
    <3>1. LogParts([recentBlocks EXCEPT ![i] = r], r.Epoch, commit \cup r.mutations)
          /\ i = commitEpoch - StartEpoch + 1
      BY ZenonT(60), <1>0, <2>1, <2>2, LogCommit DEF StatusCommit
    <3> QED
      BY <3>1
  <2>4. e = commitEpoch + 1 /\ commitEpoch' = commitEpoch + 1
    <3>1. recentBlocks[i].Epoch = StartEpoch + i
      BY <1>0 DEF LogParts
    <3> QED
      BY <1>0, <1>2, <2>1, <2>3, <3>1
  <2>5. /\ DOMAIN recentBlocks' = DOMAIN recentBlocks
        /\ recentBlocks'[i] = r
        /\ \A j \in DOMAIN recentBlocks : j # i => recentBlocks'[j] = recentBlocks[j]
    BY <1>0, <2>1
  <2>6. Invalidated(e) = r.Invalidated /\ r.Invalidated \in SUBSET Action
    <3>1. Invalidated(e) = recentBlocks'[i].Invalidated
      BY <2>2, InvalidatedIs
    <3> QED
      BY <2>5, <3>1 DEF Block
  <2>7. Carried(View, View')
    BY <2>1, <2>2, <2>5 DEF Carried, View
  <2> DEFINE m == CommitMsg(e, r.Invalidated)
  <2>8. m \in Sent /\ m.type = "commit" /\ m.epoch = e /\ m.invalidated = r.Invalidated
    BY <2>6, MessagesAre
  <2> HIDE DEF m
  <2>9. epoch' = epoch /\ live' = live
    BY <2>1
  <2>10. TellsCommit(View, View', m)
    <3>1. /\ i \in DOMAIN recentBlocks' /\ recentBlocks'[i].Epoch = m.epoch
          /\ recentBlocks'[i].Status = StatusCommit
          /\ recentBlocks'[i].Invalidated = m.invalidated
      BY <1>2, <2>1, <2>5, <2>8
    <3> QED
      BY <2>4, <2>7, <2>8, <2>9, <3>1 DEF TellsCommit, View
  <2>11. reply'.err = "ok"
    BY <1>2 DEF CommitSealed, Ok
  <2> QED
    BY <2>6, <2>8, <2>10, <2>11 DEF m, Told, Tells
<1> QED
  BY <1>1, <1>2 DEF Commit

-----------------------------------------------------------------------------
(* What the node sends is followed.                                        *)
LEMMA SendFollowed ==
  ASSUME NodeInv, NodeInv', NEW m, Told(m), Send(m), wire \in Seq(Sent),
         listener # "absent" => Follows(Here, wire, View)
  PROVE  /\ wire' \in Seq(Sent)
         /\ listener = "absent" => wire' = wire
         /\ listener # "absent" => Follows(Here, wire', View')
<1>1. Proper(View) /\ Proper(View')
  BY ProperView, ProperNext
<1>2. PICK C : C = View
  OBVIOUS
<1>3. PICK D : D = View'
  OBVIOUS
<1>4. PICK v : v = wire'
  OBVIOUS
<1>5. CASE listener = "absent"
  <2>1. wire' = wire
    BY <1>5 DEF Send
  <2> QED
    BY <1>5, <2>1
<1>6. CASE listener # "absent" /\ reply'.err # "ok"
  <2>1. v = wire /\ Silent(C, D)
    BY <1>2, <1>3, <1>4, <1>6 DEF Send, Told
  <2>2. Follows(Here, wire, D)
    BY <1>2, <1>6, <2>1, FollowsSilent
  <2> QED
    BY <1>3, <1>4, <1>6, <2>1, <2>2
<1>7. CASE listener # "absent" /\ reply'.err = "ok"
  <2>1. v = Append(wire, m) /\ m \in Sent /\ Tells(C, D, m)
    BY <1>2, <1>3, <1>4, <1>7 DEF Send, Told
  <2>2. Follows(Here, v, D)
    BY <1>1, <1>2, <1>3, <1>7, <2>1, FollowsMore
  <2>3. v \in Seq(Sent)
    BY <2>1, AppendProperties
  <2> QED
    BY <1>3, <1>4, <1>7, <2>2, <2>3
<1> QED
  BY <1>5, <1>6, <1>7

(* Sequences that are moved along.                                         *)
LEMMA ConcatAppend ==
  ASSUME NEW S, NEW a \in Seq(S), NEW b \in Seq(S), NEW x \in S
  PROVE  a \o Append(b, x) = Append(a \o b, x)
<1>1. <<x>> \in Seq(S) /\ a \o b \in Seq(S)
  BY ConcatProperties
<1>2. Append(b, x) = b \o <<x>> /\ Append(a \o b, x) = (a \o b) \o <<x>>
  BY <1>1, AppendIsConcat
<1> QED
  BY <1>1, <1>2, ConcatAssociative

LEMMA ConcatMoved ==
  ASSUME NEW S, NEW a \in Seq(S), NEW b \in Seq(S), b # << >>
  PROVE  Append(a, Head(b)) \o Tail(b) = a \o b
<1> DEFINE h == Head(b)
           t == Tail(b)
<1>1. h \in S /\ t \in Seq(S)
  BY HeadTailProperties
<1>2. <<h>> \o t = b
  OBVIOUS
<1> HIDE DEF h, t
<1>3. Append(a, h) = a \o <<h>> /\ <<h>> \in Seq(S)
  BY <1>1, AppendIsConcat
<1>4. (a \o <<h>>) \o t = a \o (<<h>> \o t)
  BY <1>1, <1>3, ConcatAssociative
<1> QED
  BY <1>2, <1>3, <1>4 DEF h, t

-----------------------------------------------------------------------------
(* The inductive invariant.                                                *)
LoopOK ==
  /\ oldBlocks \in 0 .. 2 /\ fetched \in BOOLEAN
  /\ oldBlocks = 0 \/ fetched
  /\ loop \in {"running", "returned", "panicked"}
  /\ streaming \in BOOLEAN /\ finishedOld \in BOOLEAN
  /\ told \subseteq {"nil", "error"}
  /\ ~streaming => told # {}
  /\ loop = "returned" => told # {}

ChannelOK ==
  /\ received \in Seq(Nat) /\ newBlocks \in Seq(Nat)
  /\ Len(newBlocks) <= Capacity

(* Before the listener connects there is nothing of it.                    *)
Absent ==
  listener = "absent" =>
    /\ wire = << >> /\ heap = << >> /\ known = NoneKnown /\ current = 0
    /\ received = << >> /\ newBlocks = << >>

FollowsNode == listener # "absent" => Follows(Here, wire, View)

SubscriberInv ==
  /\ NodeInv
  /\ listener \in {"absent", "reading", "ended", "panicked"}
  /\ wire \in Seq(Sent)
  /\ LoopOK /\ ChannelOK /\ Absent /\ FollowsNode

(* What the listener delivers goes behind what it has delivered.           *)
LEMMA DeliverIs ==
  ASSUME ChannelOK, NEW x \in Nat, Deliver(x), UNCHANGED received
  PROVE  ChannelOK' /\ received' \o newBlocks' = Append(received \o newBlocks, x)
<1>1. /\ newBlocks' = Append(newBlocks, x) /\ Len(newBlocks) < Capacity
      /\ received' = received
      /\ received \in Seq(Nat) /\ newBlocks \in Seq(Nat)
  BY DEF Deliver, ChannelOK
<1>2. /\ Append(newBlocks, x) \in Seq(Nat)
      /\ Len(Append(newBlocks, x)) = Len(newBlocks) + 1
      /\ Len(newBlocks) \in Nat
  BY <1>1, AppendProperties, LenProperties
<1>3. received \o Append(newBlocks, x) = Append(received \o newBlocks, x)
  BY <1>1, ConcatAppend
<1> QED
  BY <1>1, <1>2, <1>3 DEF ChannelOK, Capacity

LEMMA HereIs ==
  /\ Here.listener = listener /\ Here.heap = heap /\ Here.known = known
  /\ Here.current = current /\ Here.delivered = received \o newBlocks
BY DEF Here, State

(* The end of the listener.                                                *)
LEMMA EndIs ==
  ASSUME ChannelOK, End, UNCHANGED received
  PROVE  Here' = EndOf(Here) /\ ChannelOK'
<1>1. /\ listener' = "ended" /\ heap' = heap /\ known' = known /\ current' = current
      /\ Deliver(0)
  BY DEF End
<1>2. ChannelOK' /\ received' \o newBlocks' = Append(received \o newBlocks, 0)
  BY <1>1, DeliverIs
<1> QED
  BY <1>1, <1>2, HereIs DEF Here, State, EndOf

-----------------------------------------------------------------------------
(* Reading a message.                                                      *)
LEMMA NewBlockRead ==
  ASSUME ChannelOK, Sound(Here, View), listener = "reading", NEW m \in Sent,
         ReadNewBlock(m), UNCHANGED received
  PROVE  Here' = After(Here, m) /\ ChannelOK'
<1>1. heap \in Seq(ProtocolBlock)
  BY HereIs DEF Sound, Typed
<1>2. /\ m.type = "new" /\ heap' = Append(heap, Opened(m)) /\ current' = Len(heap')
      /\ known' = Replaced(known, m.epoch, current')
      /\ listener' = listener /\ newBlocks' = newBlocks
  BY DEF ReadNewBlock, Opened, Replaced
<1>3. Len(heap') = Len(heap) + 1
  BY <1>1, <1>2, OpenedBlock, AppendProperties
<1>4. After(Here, m) = AfterNew(Here, m)
  BY <1>2, HereIs DEF After
<1> QED
  BY <1>2, <1>3, <1>4, HereIs DEF AfterNew, Here, State, ChannelOK

LEMMA ActionRead ==
  ASSUME ChannelOK, listener = "reading", NEW m \in Sent,
         ReadAction(m), UNCHANGED received
  PROVE  Here' = After(Here, m) /\ ChannelOK'
<1>1. After(Here, m) = AfterAction(Here, m)
  BY HereIs DEF After, ReadAction
<1>2. CASE current = 0
  <2>1. End /\ AfterAction(Here, m) = EndOf(Here)
    BY <1>2, HereIs DEF ReadAction, AfterAction
  <2> QED
    BY <1>1, <2>1, EndIs
<1>3. CASE current # 0
  <2>1. /\ heap' = Replaced(heap, current, Added(heap[current], m.action))
        /\ listener' = listener /\ known' = known /\ current' = current
        /\ newBlocks' = newBlocks
    BY <1>3 DEF ReadAction, Replaced, Added
  <2> QED
    BY <1>1, <1>3, <2>1, HereIs DEF AfterAction, Here, State, ChannelOK
<1> QED
  BY <1>2, <1>3

LEMMA SealRead ==
  ASSUME ChannelOK, listener = "reading", NEW m \in Sent,
         ReadSeal(m), UNCHANGED received
  PROVE  Here' = After(Here, m) /\ ChannelOK'
<1>1. After(Here, m) = AfterSeal(Here, m)
  BY HereIs DEF After, ReadSeal
<1>2. CASE current = 0
  <2>1. /\ listener' = "panicked" /\ heap' = heap /\ known' = known
        /\ current' = current /\ newBlocks' = newBlocks
    BY <1>2 DEF ReadSeal
  <2> QED
    BY <1>1, <1>2, <2>1, HereIs DEF AfterSeal, Here, State, ChannelOK
<1>3. CASE current # 0 /\ known[m.epoch] = 0
  <2>1. End /\ AfterSeal(Here, m) = EndOf(Here)
    BY <1>3, HereIs DEF ReadSeal, AfterSeal
  <2> QED
    BY <1>1, <2>1, EndIs
<1>4. CASE current # 0 /\ known[m.epoch] # 0
  <2>1. /\ current' = (IF heap[current].Epoch = m.epoch THEN 0 ELSE current)
        /\ listener' = listener /\ heap' = heap /\ known' = known
        /\ newBlocks' = newBlocks
    BY <1>4 DEF ReadSeal
  <2> QED
    BY <1>1, <1>4, <2>1, HereIs DEF AfterSeal, Here, State, ChannelOK
<1> QED
  BY <1>2, <1>3, <1>4

LEMMA CommitRead ==
  ASSUME ChannelOK, Sound(Here, View), listener = "reading", NEW m \in Sent,
         ReadCommit(m), UNCHANGED received
  PROVE  Here' = After(Here, m) /\ ChannelOK'
<1>1. m.type = "commit" /\ After(Here, m) = AfterCommit(Here, m)
  BY HereIs DEF After, ReadCommit
<1>2. CASE known[m.epoch] = 0
  <2>1. End /\ AfterCommit(Here, m) = EndOf(Here)
    BY <1>2, HereIs DEF ReadCommit, AfterCommit
  <2> QED
    BY <1>1, <2>1, EndIs
<1>3. CASE known[m.epoch] # 0
  <2> DEFINE p == known[m.epoch]
  <2>1. p \in Nat
    <3>1. known \in KnownIn(Len(heap)) /\ Len(heap) \in Nat
      BY HereIs, LenProperties DEF Sound, Typed
    <3>2. m.epoch \in Epochs
      BY <1>1 DEF Sent
    <3> QED
      BY <3>1, <3>2 DEF KnownIn
  <2>2. /\ heap' = Replaced(heap, p, Settled(heap[p], m.invalidated))
        /\ Deliver(p)
        /\ known' = Replaced(known, m.epoch, 0)
        /\ listener' = listener /\ current' = current
    BY <1>3 DEF ReadCommit, Replaced, Settled
  <2>3. ChannelOK' /\ received' \o newBlocks' = Append(received \o newBlocks, p)
    BY <2>1, <2>2, DeliverIs
  <2> QED
    BY <1>1, <1>3, <2>2, <2>3, HereIs DEF AfterCommit, Here, State
<1> QED
  BY <1>2, <1>3

LEMMA OtherRead ==
  ASSUME ChannelOK, NEW m \in Sent, ReadOther(m), UNCHANGED received
  PROVE  Here' = After(Here, m) /\ ChannelOK'
<1>1. After(Here, m) = Here
  BY DEF After, ReadOther
<1>2. /\ listener' = listener /\ heap' = heap /\ known' = known
      /\ current' = current /\ newBlocks' = newBlocks
  BY DEF ReadOther, listenerVars
<1>3. Here' = Here
  BY <1>2 DEF Here, State
<1>4. ChannelOK'
  BY <1>2 DEF ChannelOK
<1> QED
  BY <1>1, <1>3, <1>4

-----------------------------------------------------------------------------
(* The invariant, one step after the other.                                *)
LEMMA SubscriberInvInit == SubscriberInit => SubscriberInv
<1> SUFFICES ASSUME SubscriberInit PROVE SubscriberInv
  OBVIOUS
<1>1. NodeInv
  BY NodeInvInit DEF SubscriberInit
<1>2. << >> \in Seq(Nat) /\ << >> \in Seq(Sent) /\ Len(<< >>) = 0
  OBVIOUS
<1>3. LoopOK
  <2>1. /\ oldBlocks = 0 /\ fetched = FALSE /\ loop = "running"
        /\ streaming = TRUE /\ finishedOld = FALSE /\ told = {}
    BY DEF SubscriberInit
  <2>2. streaming /\ fetched \in BOOLEAN /\ streaming \in BOOLEAN /\ finishedOld \in BOOLEAN
    BY <2>1, Zenon
  <2>3. oldBlocks \in 0 .. 2 /\ loop \in {"running", "returned", "panicked"} /\ loop # "returned"
    BY <2>1
  <2> QED
    BY <2>1, <2>2, <2>3 DEF LoopOK
<1>4. ChannelOK
  BY <1>2 DEF SubscriberInit, ChannelOK, Capacity
<1>5. Absent /\ listener = "absent"
  BY DEF SubscriberInit, Absent, NoneKnown
<1>6. wire \in Seq(Sent)
  BY <1>2 DEF SubscriberInit
<1> QED
  BY <1>1, <1>3, <1>4, <1>5, <1>6 DEF SubscriberInv, FollowsNode

(* A call of the node.                                                     *)
LEMMA NodeStep ==
  ASSUME SubscriberInv, Node
  PROVE  SubscriberInv'
<1>0. /\ NodeInv /\ wire \in Seq(Sent) /\ Epochs \subseteq Nat
      /\ listener # "absent" => Follows(Here, wire, View)
  BY ChainAssumption DEF SubscriberInv, FollowsNode, Epochs
<1>1. NodeCall
  BY DEF Node, NodeCall
<1>2. NodeInv'
  BY <1>0, <1>1, NodeInvCall
<1>3. PICK m : Told(m) /\ Send(m)
  <2>1. ASSUME NEW e \in Epochs, NextBlock(e), Send(Msg("new", epoch'))
        PROVE  \E m : Told(m) /\ Send(m)
    BY <1>0, <2>1, NextBlockTold
  <2>2. ASSUME NEW i \in Input, Validate(i),
               Send([Msg("action", 0) EXCEPT !.action = i])
        PROVE  \E m : Told(m) /\ Send(m)
    BY <1>0, <2>2, ValidateTold DEF ActionMsg
  <2>3. ASSUME NEW e \in Epochs, SealBlock(e), Send(Msg("seal", e))
        PROVE  \E m : Told(m) /\ Send(m)
    BY <1>0, <2>3, SealTold
  <2>4. ASSUME NEW e \in Epochs, NEW h \in SUBSET Action, Commit(e, h),
               Send([Msg("commit", e) EXCEPT !.invalidated = Invalidated(e)])
        PROVE  \E m : Told(m) /\ Send(m)
    BY <1>0, <2>4, CommitTold DEF CommitMsg
  <2> QED
    BY <2>1, <2>2, <2>3, <2>4 DEF Node
<1>4. /\ wire' \in Seq(Sent)
      /\ listener = "absent" => wire' = wire
      /\ listener # "absent" => Follows(Here, wire', View')
  BY <1>0, <1>2, <1>3, SendFollowed
<1>5. UNCHANGED <<listenerVars, newBlocks, syncVars>>
  BY DEF Node
<1>6. Here' = Here
  BY <1>5 DEF Here, State, listenerVars, syncVars
<1>7. LoopOK' /\ ChannelOK' /\ Absent'
  BY <1>4, <1>5 DEF SubscriberInv, LoopOK, ChannelOK, Absent, listenerVars, syncVars
<1>8. listener' = listener
  BY <1>5 DEF listenerVars
<1> QED
  BY <1>2, <1>4, <1>6, <1>7, <1>8 DEF SubscriberInv, FollowsNode

(* The chain does not move.                                                *)
LEMMA SameChain ==
  ASSUME NodeInv, UNCHANGED chainVars
  PROVE  NodeInv' /\ View' = View
BY NodeInvCall DEF chainVars, View

(* The listener has ended and reads nothing any more.                      *)
LEMMA EndFollows ==
  ASSUME NEW C, NEW s, Sound(s, C), s.listener = "reading"
  PROVE  Follows(EndOf(s), << >>, C)
<1>1. PICK t : t = EndOf(s)
  OBVIOUS
<1>2. Sound(t, C) /\ UpToDate(t, C)
  BY <1>1, EndFollowed
<1> QED
  BY <1>1, <1>2, ReachesHere DEF Follows

LEMMA ConnectStep ==
  ASSUME SubscriberInv, NEW e, Connect(e)
  PROVE  SubscriberInv'
<1>1. NodeInv' /\ View' = View /\ Proper(View)
  BY SameChain, ProperView DEF SubscriberInv, Connect
<1>2. /\ listener = "absent" /\ listener' = "reading" /\ wire' = Snapshot(e)
      /\ heap' = heap /\ known' = known /\ current' = current
      /\ newBlocks' = newBlocks /\ UNCHANGED syncVars
  BY DEF Connect
<1>3. received' = received
  BY <1>2 DEF syncVars
<1>4. /\ heap = << >> /\ known = NoneKnown /\ current = 0
      /\ received = << >> /\ newBlocks = << >>
  BY <1>2 DEF SubscriberInv, Absent
<1>5. Here' = Connected
  <2>1. << >> \o << >> = << >>
    OBVIOUS
  <2> QED
    BY <1>2, <1>3, <1>4, <2>1 DEF Here, State, Connected
<1>6. wire' = SnapshotOf(View, e)
  BY <1>2 DEF Snapshot, SnapshotOf, View
<1>7. wire' \in Seq(Sent) /\ Follows(Here', wire', View')
  BY <1>1, <1>5, <1>6, SnapshotRead
<1>8. LoopOK'
  BY <1>2 DEF SubscriberInv, LoopOK, syncVars
<1>9. ChannelOK'
  BY <1>2, <1>3 DEF SubscriberInv, ChannelOK
<1> QED
  BY <1>1, <1>2, <1>7, <1>8, <1>9 DEF SubscriberInv, Absent, FollowsNode

LEMMA ConnectFailsStep ==
  ASSUME SubscriberInv, ConnectFails
  PROVE  SubscriberInv'
<1>1. NodeInv' /\ View' = View
  BY SameChain DEF SubscriberInv, ConnectFails
<1>2. /\ listener = "absent" /\ listener' = "ended" /\ wire' = wire
      /\ heap' = heap /\ known' = known /\ current' = current
      /\ newBlocks' = Append(newBlocks, 0) /\ UNCHANGED syncVars
  BY DEF ConnectFails
<1>3. received' = received
  BY <1>2 DEF syncVars
<1>4. /\ wire = << >> /\ heap = << >> /\ known = NoneKnown /\ current = 0
      /\ received = << >> /\ newBlocks = << >>
  BY <1>2 DEF SubscriberInv, Absent
<1>5. Here' = EndOf(Connected)
  <2>1. << >> \o Append(<< >>, 0) = Append(<< >>, 0)
    OBVIOUS
  <2> QED
    BY <1>2, <1>3, <1>4, <2>1 DEF Here, State, Connected, EndOf
<1>6. Follows(EndOf(Connected), << >>, View)
  <2>1. Sound(Connected, View)
    BY ConnectedFresh, FreshSound
  <2>2. Connected.listener = "reading"
    BY DEF Connected, State
  <2> QED
    BY <2>1, <2>2, EndFollows
<1>7. LoopOK'
  BY <1>2 DEF SubscriberInv, LoopOK, syncVars
<1>8. ChannelOK'
  <2>1. Append(<< >>, 0) \in Seq(Nat) /\ Len(Append(<< >>, 0)) = 1
    OBVIOUS
  <2> QED
    BY <1>2, <1>3, <1>4, <2>1 DEF SubscriberInv, ChannelOK, Capacity
<1> QED
  BY <1>1, <1>2, <1>4, <1>5, <1>6, <1>7, <1>8 DEF SubscriberInv, Absent, FollowsNode

(* Reading takes the first of the states to come away.                     *)
(* What the listener makes of the first message is what After says.        *)
LEMMA ReadIs ==
  ASSUME SubscriberInv, Read
  PROVE  Here' = After(Here, Head(wire)) /\ ChannelOK'
<1> DEFINE m == Head(wire)
<1>0. /\ ChannelOK /\ wire \in Seq(Sent) /\ listener = "reading" /\ wire # << >>
      /\ Follows(Here, wire, View)
  BY DEF SubscriberInv, FollowsNode, Read
<1>1. ReadNewBlock(m) \/ ReadAction(m) \/ ReadSeal(m) \/ ReadCommit(m) \/ ReadOther(m)
  BY DEF Read
<1>2. m \in Sent
  BY <1>0, HeadTailProperties
<1>3. Sound(Here, View)
  BY <1>0, FollowsSound
<1>4. UNCHANGED received
  BY DEF Read, syncVars
<1> SUFFICES Here' = After(Here, m) /\ ChannelOK'
  OBVIOUS
<1> HIDE DEF m
<1>5. CASE ReadNewBlock(m)
  BY <1>0, <1>2, <1>3, <1>4, <1>5, NewBlockRead
<1>6. CASE ReadAction(m)
  BY <1>0, <1>2, <1>4, <1>6, ActionRead
<1>7. CASE ReadSeal(m)
  BY <1>0, <1>2, <1>4, <1>7, SealRead
<1>8. CASE ReadCommit(m)
  BY <1>0, <1>2, <1>3, <1>4, <1>8, CommitRead
<1>9. CASE ReadOther(m)
  BY <1>0, <1>2, <1>4, <1>9, OtherRead
<1> QED
  BY <1>1, <1>5, <1>6, <1>7, <1>8, <1>9

LEMMA ReadStep ==
  ASSUME SubscriberInv, Read
  PROVE  SubscriberInv'
<1> DEFINE m == Head(wire)
<1>0. /\ NodeInv /\ LoopOK /\ wire \in Seq(Sent)
      /\ listener = "reading" /\ wire # << >>
      /\ Follows(Here, wire, View)
  BY DEF SubscriberInv, FollowsNode, Read
<1>1. /\ ReadNewBlock(m) \/ ReadAction(m) \/ ReadSeal(m) \/ ReadCommit(m) \/ ReadOther(m)
      /\ wire' = Tail(wire)
      /\ UNCHANGED chainVars /\ UNCHANGED syncVars
  BY DEF Read
<1>2. NodeInv' /\ View' = View
  BY <1>0, <1>1, SameChain
<1>3. Tail(wire) \in Seq(Sent)
  BY <1>0, HeadTailProperties
<1>4. Here' = After(Here, m) /\ ChannelOK'
  BY ReadIs
<1>5. Follows(After(Here, m), Tail(wire), View)
  BY <1>0, FollowsRest
<1> HIDE DEF m
<1>6. listener' \in {"reading", "ended", "panicked"}
  BY <1>0, <1>1 DEF ReadNewBlock, ReadAction, ReadSeal, ReadCommit, ReadOther, End,
                    listenerVars
<1>7. LoopOK'
  BY <1>0, <1>1 DEF LoopOK, syncVars
<1> QED
  BY <1>1, <1>2, <1>3, <1>4, <1>5, <1>6, <1>7 DEF SubscriberInv, Absent, FollowsNode

LEMMA ReadErrorStep ==
  ASSUME SubscriberInv, ReadError
  PROVE  SubscriberInv'
<1>0. /\ NodeInv /\ LoopOK /\ ChannelOK /\ wire \in Seq(Sent)
      /\ listener = "reading" /\ Follows(Here, wire, View)
  BY DEF SubscriberInv, FollowsNode, ReadError
<1>1. End /\ wire' = << >> /\ UNCHANGED chainVars /\ UNCHANGED syncVars
  BY DEF ReadError
<1>2. NodeInv' /\ View' = View
  BY <1>0, <1>1, SameChain
<1>3. UNCHANGED received
  BY <1>1 DEF syncVars
<1>4. Here' = EndOf(Here) /\ ChannelOK'
  BY <1>0, <1>1, <1>3, EndIs
<1>5. Follows(EndOf(Here), << >>, View)
  <2>1. Sound(Here, View)
    BY <1>0, FollowsSound
  <2> QED
    BY <1>0, <2>1, HereIs, EndFollows
<1>6. LoopOK'
  BY <1>0, <1>1 DEF LoopOK, syncVars
<1>7. << >> \in Seq(Sent) /\ listener' = "ended"
  BY <1>1 DEF End
<1> QED
  BY <1>1, <1>2, <1>4, <1>5, <1>6, <1>7 DEF SubscriberInv, Absent, FollowsNode

(* The steps of SyncSocial that leave the listener and its channel alone.  *)
LEMMA OldEndsStep ==
  ASSUME SubscriberInv, OldEnds
  PROVE  SubscriberInv'
<1>1. NodeInv' /\ View' = View
  BY SameChain DEF SubscriberInv, OldEnds
<1>2. /\ fetched' = TRUE
      /\ \/ oldBlocks' \in {1, 2} /\ loop' = loop
         \/ oldBlocks' = oldBlocks /\ loop' = "panicked"
      /\ UNCHANGED listenerVars /\ wire' = wire /\ newBlocks' = newBlocks
      /\ streaming' = streaming /\ finishedOld' = finishedOld
      /\ received' = received /\ told' = told
  BY DEF OldEnds
<1>3. /\ listener' = listener /\ heap' = heap /\ known' = known /\ current' = current
  BY <1>2 DEF listenerVars
<1>4. Here' = Here
  BY <1>2, <1>3 DEF Here, State
<1>5. LoopOK'
  <2>1. fetched' /\ fetched' \in BOOLEAN
    BY <1>2, Zenon
  <2>2. oldBlocks' \in 0 .. 2
    BY <1>2 DEF SubscriberInv, LoopOK
  <2>3. loop' = loop \/ loop' = "panicked"
    BY <1>2
  <2> QED
    BY <1>2, <2>1, <2>2, <2>3 DEF SubscriberInv, LoopOK
<1>6. ChannelOK' /\ Absent'
  BY <1>2, <1>3 DEF SubscriberInv, ChannelOK, Absent
<1> QED
  BY <1>1, <1>2, <1>3, <1>4, <1>5, <1>6 DEF SubscriberInv, FollowsNode

LEMMA TakeOldStep ==
  ASSUME SubscriberInv, TakeOld
  PROVE  SubscriberInv'
<1>1. NodeInv' /\ View' = View
  BY SameChain DEF SubscriberInv, TakeOld
<1>2. /\ oldBlocks > 0 /\ oldBlocks' = oldBlocks - 1
      /\ finishedOld' = TRUE
      /\ loop' = IF streaming THEN "running" ELSE "returned"
      /\ UNCHANGED listenerVars /\ wire' = wire /\ newBlocks' = newBlocks
      /\ fetched' = fetched /\ streaming' = streaming
      /\ received' = received /\ told' = told
  BY DEF TakeOld
<1>3. /\ listener' = listener /\ heap' = heap /\ known' = known /\ current' = current
  BY <1>2 DEF listenerVars
<1>4. Here' = Here
  BY <1>2, <1>3 DEF Here, State
<1>5. LoopOK'
  <2>0. LoopOK
    BY DEF SubscriberInv
  <2>1. oldBlocks \in 0 .. 2 /\ oldBlocks # 0
    BY <1>2, <2>0 DEF LoopOK
  <2>2. oldBlocks' \in 0 .. 2
    BY <1>2, <2>1
  <2>3. fetched
    BY <2>0, <2>1 DEF LoopOK
  <2>4. finishedOld' \in BOOLEAN
    BY <1>2, Zenon
  <2>5. loop' \in {"running", "returned", "panicked"} /\ (loop' = "returned" => ~streaming)
    BY <1>2
  <2> QED
    BY <1>2, <2>0, <2>2, <2>3, <2>4, <2>5 DEF LoopOK
<1>6. ChannelOK' /\ Absent'
  BY <1>2, <1>3 DEF SubscriberInv, ChannelOK, Absent
<1> QED
  BY <1>1, <1>2, <1>3, <1>4, <1>5, <1>6 DEF SubscriberInv, FollowsNode

LEMMA TakeNewStep ==
  ASSUME SubscriberInv, TakeNew
  PROVE  SubscriberInv'
<1>0. LoopOK /\ ChannelOK /\ Absent
  BY DEF SubscriberInv
<1>1. NodeInv' /\ View' = View
  BY SameChain DEF SubscriberInv, TakeNew
<1>2. /\ newBlocks # << >> /\ newBlocks' = Tail(newBlocks)
      /\ received' = Append(received, Head(newBlocks))
      /\ IF Head(newBlocks) = 0 THEN NewEnded ELSE UNCHANGED <<streaming, told, loop>>
      /\ UNCHANGED listenerVars /\ wire' = wire
      /\ oldBlocks' = oldBlocks /\ fetched' = fetched /\ finishedOld' = finishedOld
  BY DEF TakeNew
<1>3. /\ listener' = listener /\ heap' = heap /\ known' = known /\ current' = current
  BY <1>2 DEF listenerVars
<1>4. received \in Seq(Nat) /\ newBlocks \in Seq(Nat) /\ Len(newBlocks) <= Capacity
  BY <1>0 DEF ChannelOK
<1>5. received' \o newBlocks' = received \o newBlocks
  BY <1>2, <1>4, ConcatMoved
<1>6. Here' = Here
  BY <1>3, <1>5 DEF Here, State
<1>7. ChannelOK'
  <2>1. /\ Head(newBlocks) \in Nat /\ Tail(newBlocks) \in Seq(Nat)
        /\ Len(Tail(newBlocks)) = Len(newBlocks) - 1 /\ Len(newBlocks) \in Nat
    BY <1>2, <1>4, HeadTailProperties, LenProperties
  <2>2. Append(received, Head(newBlocks)) \in Seq(Nat)
    BY <1>4, <2>1, AppendProperties
  <2> QED
    BY <1>2, <1>4, <2>1, <2>2 DEF ChannelOK, Capacity
<1>8. LoopOK'
  <2>1. CASE NewEnded
    <3>1. streaming' \in BOOLEAN
      BY <2>1, Zenon DEF NewEnded
    <3>2. /\ told' \subseteq {"nil", "error"} /\ told' # {}
          /\ loop' \in {"running", "returned", "panicked"}
      BY <1>0, <2>1 DEF LoopOK, NewEnded
    <3> QED
      BY <1>0, <1>2, <3>1, <3>2 DEF LoopOK
  <2>2. CASE UNCHANGED <<streaming, told, loop>>
    BY <1>0, <1>2, <2>2 DEF LoopOK
  <2> QED
    BY <1>2, <2>1, <2>2
<1>9. Absent'
  BY <1>0, <1>2, <1>3 DEF Absent
<1> QED
  BY <1>1, <1>2, <1>3, <1>6, <1>7, <1>8, <1>9 DEF SubscriberInv, FollowsNode

LEMMA SubscriberInvStep ==
  SubscriberInv /\ [SubscriberNext]_subscriberVars => SubscriberInv'
<1> SUFFICES ASSUME SubscriberInv, [SubscriberNext]_subscriberVars
             PROVE  SubscriberInv'
  OBVIOUS
<1>1. CASE UNCHANGED subscriberVars
  <2>1. UNCHANGED chainVars /\ UNCHANGED listenerVars /\ UNCHANGED syncVars
    BY <1>1 DEF subscriberVars
  <2>2. /\ wire' = wire /\ newBlocks' = newBlocks
        /\ listener' = listener /\ heap' = heap /\ known' = known /\ current' = current
        /\ received' = received
    BY <1>1, <2>1 DEF subscriberVars, listenerVars, syncVars
  <2>3. NodeInv' /\ View' = View
    BY <2>1, SameChain DEF SubscriberInv
  <2>4. Here' = Here
    BY <2>2 DEF Here, State
  <2>5. LoopOK'
    BY <2>1 DEF SubscriberInv, LoopOK, syncVars
  <2>6. ChannelOK' /\ Absent'
    BY <2>2 DEF SubscriberInv, ChannelOK, Absent
  <2> QED
    BY <2>2, <2>3, <2>4, <2>5, <2>6 DEF SubscriberInv, FollowsNode
<1>2. CASE Node
  BY <1>2, NodeStep
<1>3. CASE \E e \in Epochs : Connect(e)
  BY <1>3, ConnectStep
<1>4. CASE ConnectFails
  BY <1>4, ConnectFailsStep
<1>5. CASE Read
  BY <1>5, ReadStep
<1>6. CASE ReadError
  BY <1>6, ReadErrorStep
<1>7. CASE OldEnds
  BY <1>7, OldEndsStep
<1>8. CASE TakeOld
  BY <1>8, TakeOldStep
<1>9. CASE TakeNew
  BY <1>9, TakeNewStep
<1> QED
  BY <1>1, <1>2, <1>3, <1>4, <1>5, <1>6, <1>7, <1>8, <1>9
    DEF SubscriberNext, Listener, SyncLoop

(* However the calls of the node, the reads of the listener and the loop of*)
(* SyncSocial interleave, the listener follows the chain.                  *)
THEOREM SubscriberInvariant == SubscriberSpec => []SubscriberInv
BY SubscriberInvInit, SubscriberInvStep, PTL DEF SubscriberSpec

-----------------------------------------------------------------------------
(* What the invariant is for. *)

(* The listener as it is: sound, or not there yet.                         *)
LEMMA SubscriberSound ==
  ASSUME SubscriberInv
  PROVE  /\ heap \in Seq(ProtocolBlock)
         /\ known \in KnownIn(Len(heap))
         /\ current \in 0 .. Len(heap)
         /\ Delivered \in Seq(0 .. Len(heap))
         /\ InOrder(heap, Delivered)
         /\ Faithful(heap, Delivered, View)
<1>1. CASE listener # "absent"
  <2>1. Sound(Here, View)
    BY <1>1, FollowsSound DEF SubscriberInv, FollowsNode
  <2> QED
    BY <2>1, HereIs DEF Sound, Typed, Delivered
<1>2. CASE listener = "absent"
  <2>1. /\ heap = << >> /\ known = NoneKnown /\ current = 0
        /\ received = << >> /\ newBlocks = << >>
    BY <1>2 DEF SubscriberInv, Absent
  <2>2. /\ Delivered = << >> /\ Len(<< >>) = 0 /\ << >> \in Seq(ProtocolBlock)
        /\ << >> \in Seq(0 .. 0)
    BY <2>1 DEF Delivered
  <2>3. NoneKnown \in KnownIn(0)
    BY DEF NoneKnown, KnownIn
  <2> QED
    BY <2>1, <2>2, <2>3 DEF InOrder, Faithful
<1> QED
  BY <1>1, <1>2

LEMMA TypeFollows == SubscriberInv => SubscriberTypeOK
<1> SUFFICES ASSUME SubscriberInv PROVE SubscriberTypeOK
  OBVIOUS
<1>1. /\ heap \in Seq(ProtocolBlock) /\ known \in [Epochs -> 0 .. Len(heap)]
      /\ current \in 0 .. Len(heap) /\ Delivered \in Seq(0 .. Len(heap))
  BY SubscriberSound DEF KnownIn
<1>2. wire \in Seq(Message)
  BY DEF SubscriberInv, Sent
<1>3. ChainTypeOK /\ LoopOK /\ ChannelOK
  BY DEF SubscriberInv, NodeInv, ChainInv
<1>4. \A n \in DOMAIN newBlocks : newBlocks[n] \in 0 .. Len(heap)
  <2> SUFFICES ASSUME NEW n \in DOMAIN newBlocks
               PROVE  newBlocks[n] \in 0 .. Len(heap)
    OBVIOUS
  <2>1. /\ received \in Seq(Nat) /\ newBlocks \in Seq(Nat)
        /\ Len(received) \in Nat /\ Len(newBlocks) \in Nat /\ n \in 1 .. Len(newBlocks)
    BY <1>3, LenProperties DEF ChannelOK
  <2>2. /\ Len(Delivered) = Len(received) + Len(newBlocks)
        /\ \A k \in 1 .. Len(received) + Len(newBlocks) :
             Delivered[k] = IF k <= Len(received) THEN received[k]
                            ELSE newBlocks[k - Len(received)]
    BY <2>1, ConcatProperties DEF Delivered
  <2> DEFINE k == Len(received) + n
  <2>3. k \in 1 .. Len(received) + Len(newBlocks) /\ ~ (k <= Len(received))
        /\ k - Len(received) = n
    BY <2>1
  <2> HIDE DEF k
  <2>4. Delivered[k] = newBlocks[n]
    BY <2>2, <2>3
  <2>5. k \in 1 .. Len(Delivered)
    BY <2>2, <2>3
  <2>6. Delivered[k] \in 0 .. Len(heap)
    BY <1>1, <2>5, ElementOfSeq
  <2> QED
    BY <2>4, <2>6
<1> QED
  BY <1>1, <1>2, <1>3, <1>4 DEF SubscriberTypeOK, LoopOK, ChannelOK, SubscriberInv

(* The pointers that the listener and the channel hold are blocks that it  *)
(* has allocated, and the channel never holds more than it has room for.   *)
THEOREM SubscriberTypeCorrect == SubscriberSpec => []SubscriberTypeOK
BY SubscriberInvariant, TypeFollows, PTL

(* SyncSocial never returns without a word to the application.             *)
THEOREM NeverSilentCorrect == SubscriberSpec => []NeverSilent
<1>1. SubscriberInv => NeverSilent
  BY DEF SubscriberInv, LoopOK, NeverSilent
<1> QED
  BY <1>1, SubscriberInvariant, PTL

(* Blocks arrive in the order of their epochs, each once, without a gap and*)
(* none after the end signal, wherever in the life of the chain the        *)
(* listener connects.                                                      *)
THEOREM DeliveredInOrderCorrect == SubscriberSpec => []DeliveredInOrder
<1>1. SubscriberInv => DeliveredInOrder
  BY SubscriberSound DEF InOrder, DeliveredInOrder
<1> QED
  BY <1>1, SubscriberInvariant, PTL

LEMMA FaithfulFollows == SubscriberInv => DeliveredFaithful
<1> SUFFICES ASSUME SubscriberInv, NEW n \in DOMAIN Delivered, Delivered[n] # 0
             PROVE  LET b == heap[Delivered[n]] IN
                    \E i \in DOMAIN recentBlocks :
                      LET c == recentBlocks[i]
                          missing == Len(c.Actions) - Len(b.Actions)
                      IN  /\ c.Epoch = b.Epoch /\ c.Status = StatusCommit
                          /\ b.Invalidated = c.Invalidated
                          /\ missing >= 0
                          /\ b.opened = "broadcast" => missing = 0
                          /\ \A k \in DOMAIN b.Actions :
                               Transform[b.Actions[k]] = c.Actions[missing + k]
  BY DEF DeliveredFaithful
<1> DEFINE b == heap[Delivered[n]]
<1>1. /\ heap \in Seq(ProtocolBlock) /\ Delivered \in Seq(0 .. Len(heap))
      /\ Faithful(heap, Delivered, View)
      /\ ChainTypeOK
  BY SubscriberSound DEF SubscriberInv, NodeInv, ChainInv
<1>2. n \in 1 .. Len(Delivered)
  BY <1>1, LenProperties
<1>3. Delivered[n] \in 1 .. Len(heap)
  <2>1. Delivered[n] \in 0 .. Len(heap) /\ Len(heap) \in Nat
    BY <1>1, <1>2, ElementOfSeq, LenProperties
  <2> QED
    BY <2>1
<1>4. b \in ProtocolBlock
  BY <1>1, <1>3, ElementOfSeq
<1>5. Whole(b, View)
  BY <1>1, <1>2 DEF Faithful
<1> HIDE DEF b
<1>6. PICK i \in DOMAIN recentBlocks :
        /\ recentBlocks[i].Epoch = b.Epoch /\ recentBlocks[i].Status = StatusCommit
        /\ b.Invalidated = recentBlocks[i].Invalidated
        /\ Matches(b, recentBlocks[i])
  BY <1>5 DEF Whole, View
<1>7. /\ b.Actions \in Seq(Input) /\ recentBlocks[i].Actions \in Seq(Action)
  BY <1>1, <1>4, RecentBlock DEF ProtocolBlock
<1>8. /\ Len(b.Actions) \in Nat /\ Len(recentBlocks[i].Actions) \in Nat
      /\ DOMAIN b.Actions = 1 .. Len(b.Actions)
  BY <1>7, LenProperties
<1> DEFINE missing == Len(recentBlocks[i].Actions) - Len(b.Actions)
<1>9. /\ missing >= 0 /\ (b.opened = "broadcast" => missing = 0)
      /\ \A k \in DOMAIN b.Actions :
           Transform[b.Actions[k]] = recentBlocks[i].Actions[missing + k]
  <2>1. /\ Len(b.Actions) <= Len(recentBlocks[i].Actions)
        /\ b.opened = "broadcast" => Len(b.Actions) = Len(recentBlocks[i].Actions)
    BY <1>6 DEF Matches
  <2>2. missing >= 0 /\ (b.opened = "broadcast" => missing = 0)
    BY <1>8, <2>1
  <2>3. \A k \in 1 .. Len(b.Actions) :
          Transform[b.Actions[k]] = recentBlocks[i].Actions[missing + k]
    BY <1>6 DEF Matches
  <2> HIDE DEF missing
  <2> QED
    BY <1>8, <2>2, <2>3
<1> HIDE DEF missing
<1> QED
  BY <1>6, <1>9 DEF b, missing

(* What is delivered is what the node has committed: the hashes that it    *)
(* left out, and its actions in order, all of them but for those that were *)
(* in the snapshot already.                                                *)
THEOREM DeliveredFaithfulCorrect == SubscriberSpec => []DeliveredFaithful
BY FaithfulFollows, SubscriberInvariant, PTL

(* Only a read writes to the blocks that are there.                        *)
LEMMA OnlyReadsWrite ==
  SubscriberNext => Read \/ UNCHANGED heap
BY DEF SubscriberNext, Listener, Node, Connect, ConnectFails, ReadError, End, OldEnds, SyncLoop,
       TakeOld, TakeNew, listenerVars

LEMMA FrozenStep ==
  ASSUME SubscriberInv, SubscriberNext, NEW n \in DOMAIN Delivered, Delivered[n] # 0
  PROVE  heap'[Delivered[n]] = heap[Delivered[n]]
<1>1. CASE Read
  <2>1. wire \in Seq(Sent) /\ wire # << >> /\ Follows(Here, wire, View)
    BY <1>1 DEF SubscriberInv, FollowsNode, Read
  <2>2. Kept(Here, After(Here, Head(wire)))
    BY <2>1, FollowsKept
  <2>3. Kept(Here, Here')
    BY <1>1, <2>2, ReadIs
  <2>4. Here'.heap = heap'
    BY DEF Here, State
  <2>5. n \in 1 .. Len(Delivered)
    BY SubscriberSound, LenProperties
  <2> QED
    BY <2>3, <2>4, <2>5, HereIs DEF Kept, Delivered
<1>2. CASE UNCHANGED heap
  BY <1>2
<1> QED
  BY <1>1, <1>2, OnlyReadsWrite

(* A block that SyncSocial has taken, or will take, is not written to any  *)
(* more: the pointers that the listener keeps in known and current never   *)
(* lead it back to a block that it has delivered.                          *)
THEOREM DeliveredFrozenCorrect == SubscriberSpec => DeliveredFrozen
<1>1. SubscriberInv /\ [SubscriberNext]_subscriberVars
        => [\A n \in DOMAIN Delivered :
              Delivered[n] # 0 => heap'[Delivered[n]] = heap[Delivered[n]]]_subscriberVars
  BY FrozenStep
<1> QED
  BY <1>1, SubscriberInvariant, PTL DEF SubscriberSpec, DeliveredFrozen
=============================================================================
