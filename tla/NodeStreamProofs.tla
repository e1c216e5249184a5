-------------------------- MODULE NodeStreamProofs --------------------------
(***************************************************************************)
(* Theorems about the whole node: its listener, signal loop, pool loop and *)
(* subscribers, in any interleaving, leave the chain with the properties   *)
(* that SocialChainProofs proves of it alone, and the node implements the  *)
(* abstract commit log.  Blocks of any size: nothing here uses Room.       *)
(*                                                                         *)
(* Theorems about what the node sends to its subscribers: the snapshot that*)
(* Sync collects and the broadcasts that are kept meanwhile tell every     *)
(* block once, in order, with all its actions and its commit.  They hold   *)
(* for any number of subscribers, blocks and actions, in any interleaving  *)
(* of listener, signal loop, pool loop and the goroutines of Sync.         *)
(*                                                                         *)
(* The inductive invariant StreamInv says of each subscriber what it is    *)
(* sent or promised (Promised): the new blocks follow one another up to the*)
(* live epoch, the actions between them are those of the blocks, and a     *)
(* commit is among the messages or its item is still in the snapshot.      *)
(***************************************************************************)
EXTENDS ValidatorNode, SocialChainProofs, FiniteSetTheorems

(* What the signal loop hands to the chain is a signal of the listener. *)
SignalsOK == pending \in Seq(Signal) /\ signal \in Signal

(* The inductive invariant of the node. *)
ValidatorInv == SignalsOK /\ NodeInv

-----------------------------------------------------------------------------
(* Signals of every kind. *)

LEMMA SignalType ==
  ASSUME NEW kind \in {"new", "action", "array", "unfilled", "seal", "commit", "error", "none"},
         NEW e \in Epochs
  PROVE  /\ Sig(kind, e) \in Signal
         /\ \A i \in Input : [Sig(kind, e) EXCEPT !.action = i] \in Signal
         /\ \A h \in SUBSET Action : [Sig(kind, e) EXCEPT !.invalidated = h] \in Signal
BY NodeAssumption DEF Sig, Signal

(* The epoch 0 of signals without one. *)
LEMMA ZeroEpoch == 0 \in Epochs
BY ChainAssumption DEF Epochs

LEMMA NoSignalType == NoSignal \in Signal
BY SignalType, ZeroEpoch DEF NoSignal

LEMMA SignalsInit == NodeInit => SignalsOK
BY NoSignalType DEF NodeInit, SignalsOK

(* The listener sends signals only. *)
LEMMA ReadMessageSignals ==
  ASSUME SignalsOK, ReadMessage
  PROVE  SignalsOK'
<1>1. signal' \in Signal
  BY DEF SignalsOK, ReadMessage, loopVars
<1>2. CASE \E i \in Input \ {NoAction} : pending' = <<[Sig("action", 0) EXCEPT !.action = i]>>
  BY <1>1, <1>2, SignalType, ZeroEpoch DEF SignalsOK
<1>3. ASSUME NEW e \in Epochs, pending' = <<Sig("new", e)>>
      PROVE  SignalsOK'
  BY <1>1, <1>3, SignalType DEF SignalsOK
<1>4. ASSUME NEW e \in Epochs, pending' = <<Sig("seal", e)>>
      PROVE  SignalsOK'
  BY <1>1, <1>4, SignalType DEF SignalsOK
<1>5. ASSUME NEW e \in Epochs, NEW h \in SUBSET Action
      PROVE  Committing(e, h) \in Signal
  BY SignalType DEF Committing
<1>6. ASSUME NEW e \in Epochs, NEW h \in SUBSET Action, pending' = <<Committing(e, h)>>
      PROVE  SignalsOK'
  BY <1>1, <1>5, <1>6 DEF SignalsOK
<1>7. ASSUME NEW e \in Epochs
      PROVE  <<Sig("new", e), Sig("array", e), Sig("seal", e)>> \in Seq(Signal)
  BY SignalType
<1>8. ASSUME NEW e \in Epochs, NEW h \in SUBSET Action
      PROVE  Append(<<Sig("new", e), Sig("array", e), Sig("seal", e)>>, Committing(e, h))
               \in Seq(Signal)
  BY <1>5, <1>7, AppendProperties
<1>9. CASE LET e == epoch + 1
               sealed == <<Sig("new", e), Sig("array", e), Sig("seal", e)>>
           IN  /\ e \in Epochs
               /\ \/ pending' = sealed
                  \/ \E h \in SUBSET Action : pending' = Append(sealed, Committing(e, h))
  BY <1>1, <1>7, <1>8, <1>9 DEF SignalsOK
<1> QED
  BY <1>2, <1>3, <1>4, <1>6, <1>9 DEF ReadMessage

(* A signal that is overwritten while it is read is still a signal. *)
LEMMA ReceiveSignals ==
  ASSUME SignalsOK, Receive
  PROVE  SignalsOK'
<1>1. pending \in Seq(Signal) /\ pending # << >> /\ pending' = Tail(pending)
  BY DEF SignalsOK, Receive
<1>2. pending' \in Seq(Signal)
  BY <1>1
<1>3. pending[1] \in Signal
  BY <1>1
<1>4. Len(pending) > 1 => pending[2] \in Signal
  BY <1>1
<1>5. ASSUME NEW s \in Signal
      PROVE  HalfWritten(s) \in Signal
  BY DEF Signal, HalfWritten
<1> QED
  BY <1>2, <1>3, <1>4, <1>5 DEF SignalsOK, Receive

(* Every step keeps the signals well-formed. *)
LEMMA SignalsStep == SignalsOK /\ [ValidatorNext]_nodeVars => SignalsOK'
<1> SUFFICES ASSUME SignalsOK, [ValidatorNext]_nodeVars PROVE SignalsOK'
  OBVIOUS
<1> USE DEF SignalsOK, listenerVars, loopVars
<1>1. CASE UNCHANGED nodeVars
  BY <1>1 DEF nodeVars
<1>2. CASE Listen
  <2>1. CASE ReadError
    BY <2>1, SignalType, ZeroEpoch DEF ReadError
  <2> QED
    BY <1>2, <2>1, ReadMessageSignals DEF Listen
<1>3. CASE Loop
  <2>1. CASE Dial
    BY <2>1 DEF Dial
  <2>2. CASE HandleError \/ HandleNewBlock \/ HandleAction \/ HandleActionArray
             \/ HandleSeal \/ HandleCommit
    BY <2>2, NoSignalType DEF HandleError, HandleNewBlock, HandleAction,
       HandleActionArray, HandleSeal, HandleCommit
  <2>3. CASE DropDead \/ Forward
    BY <2>3 DEF DropDead, Forward
  <2>4. CASE HandleUnfilledArray
    BY <2>4, NoSignalType DEF HandleUnfilledArray, Panic
  <2> QED
    BY <1>3, <2>1, <2>2, <2>3, <2>4, ReceiveSignals DEF Loop
<1>4. CASE Pool
  BY <1>4 DEF Pool, StartSync, TakeSyncRequest
<1>5. ASSUME NEW c \in Subscriber, Sync(c)
      PROVE  SignalsOK'
  BY <1>5 DEF Sync, SyncHead, SyncSeal, SyncCommit, SyncItem, Ready
<1>6. CASE Environment
  <2>1. CASE HandshakeFails
    BY <2>1, NoSignalType DEF HandshakeFails, Panic
  <2> QED
    BY <1>6, <2>1 DEF Environment, Break, RequestSync
<1> QED
  BY <1>1, <1>2, <1>3, <1>4, <1>5, <1>6 DEF ValidatorNext

-----------------------------------------------------------------------------
(* A step of the node is a call of the chain or does not touch it. *)

LEMMA StepIsCall == SignalsOK /\ [ValidatorNext]_nodeVars => [NodeCall]_chainVars
<1> SUFFICES ASSUME SignalsOK, [ValidatorNext]_nodeVars PROVE [NodeCall]_chainVars
  OBVIOUS
<1>0. /\ signal.epoch \in Epochs
      /\ signal.action \in Input
      /\ signal.invalidated \in SUBSET Action
      /\ NoAction \in Input
  BY NodeAssumption DEF SignalsOK, Signal
<1>1. CASE UNCHANGED nodeVars
  BY <1>1 DEF nodeVars
<1>2. CASE Listen
  BY <1>2 DEF Listen, ReadMessage, ReadError
<1>3. CASE Loop
  <2>1. CASE Dial \/ Receive \/ HandleError \/ DropDead \/ Forward \/ HandleUnfilledArray
    BY <2>1 DEF Dial, Receive, HandleError, DropDead, Forward, HandleUnfilledArray, Panic
  <2>2. CASE HandleNewBlock
    BY <1>0, <2>2 DEF HandleNewBlock, NodeCall
  <2>3. CASE HandleAction
    BY <1>0, <2>3 DEF HandleAction, NodeCall
  <2>4. CASE HandleActionArray
    BY <1>0, <2>4 DEF HandleActionArray, NodeCall
  <2>5. CASE HandleSeal
    BY <1>0, <2>5 DEF HandleSeal, NodeCall
  <2>6. CASE HandleCommit
    BY <1>0, <2>6 DEF HandleCommit, NodeCall
  <2> QED
    BY <1>3, <2>1, <2>2, <2>3, <2>4, <2>5, <2>6 DEF Loop
<1>4. CASE Pool
  BY <1>4 DEF Pool, StartSync, TakeSyncRequest
<1>5. ASSUME NEW c \in Subscriber, Sync(c)
      PROVE  UNCHANGED chainVars
  BY <1>5 DEF Sync, SyncHead, SyncSeal, SyncCommit, SyncItem, Ready
<1>6. CASE Environment
  BY <1>6 DEF Environment, Break, RequestSync, HandshakeFails, Panic
<1> QED
  BY <1>1, <1>2, <1>3, <1>4, <1>5, <1>6 DEF ValidatorNext

LEMMA ValidatorInvInit == NodeInit => ValidatorInv
BY SignalsInit, NodeInvInit DEF NodeInit, ValidatorInv

LEMMA ValidatorInvStep ==
  ValidatorInv /\ [ValidatorNext]_nodeVars => ValidatorInv' /\ LogStep
BY SignalsStep, StepIsCall, NodeInvCall DEF ValidatorInv

-----------------------------------------------------------------------------
(* The chain of a running node has every epoch between the start and the   *)
(* live block once, whatever the provider sends and the loop misreads.     *)
THEOREM NodeDenseEpochs == ValidatorSpec => []DenseEpochs
<1>1. ValidatorInv => DenseEpochs
  BY NodeInvImplies DEF ValidatorInv
<1> QED
  BY <1>1, ValidatorInvInit, ValidatorInvStep, PTL DEF ValidatorSpec

(* Exactly the blocks up to the commit epoch of a running node are         *)
(* committed.                                                              *)
THEOREM NodeCommitMark == ValidatorSpec => []CommitMark
<1>1. ValidatorInv => CommitMark
  BY NodeInvImplies DEF ValidatorInv
<1> QED
  BY <1>1, ValidatorInvInit, ValidatorInvStep, PTL DEF ValidatorSpec

(* The committed blocks of a running node rebuild its committed state.     *)
THEOREM NodeReplayable == ValidatorSpec => []Replayable
<1>1. ValidatorInv => Replayable
  BY NodeInvImplies DEF ValidatorInv
<1> QED
  BY <1>1, ValidatorInvInit, ValidatorInvStep, PTL DEF ValidatorSpec

(* No two committed blocks of a running node hold actions that exclude one *)
(* another, even when the invalidated hashes it received were overwritten. *)
THEOREM NodeNoDoubleSpend == ValidatorSpec => []NoDoubleSpend
<1>1. ValidatorInv => NoDoubleSpend
  BY NodeInvImplies DEF ValidatorInv
<1> QED
  BY <1>1, ValidatorInvInit, ValidatorInvStep, PTL DEF ValidatorSpec

(* The node implements the commit log: in any interleaving of its loops    *)
(* and subscribers the log only grows, without gaps, by valid blocks.      *)
THEOREM NodeImplementsLog == ValidatorSpec => ImplementsLog
<1>1. NodeInit => Log!LogInit
  BY LogInitRefined DEF NodeInit
<1>2. ValidatorInv => NodeInv
  BY DEF ValidatorInv
<1> QED
  BY <1>1, <1>2, ValidatorInvInit, ValidatorInvStep, LogSeq, LogStepRefined, PTL
     DEF ValidatorSpec, ImplementsLog, Log!LogSpec

-----------------------------------------------------------------------------
(* What a subscriber makes of its messages, and one message more.          *)

(* What is proved of the messages P of a subscriber when the live epoch is *)
(* e: the new blocks follow one another and end with e.                    *)
InOrder(P, e) ==
  /\ \A n \in News(P) : P[n].epoch <= e
  /\ News(P) # {} => \E n \in News(P) : P[n].epoch = e /\ \A k \in News(P) : k <= n
  /\ \A n, m \in News(P) :
       m < n /\ (\A k \in News(P) : k <= m \/ n <= k) => P[n].epoch = P[m].epoch + 1

Carries == {"action", "actions"}

(* The actions received for an epoch, one by one. *)
LEMMA ReceivedIs ==
  ASSUME NEW s, NEW e, NEW x
  PROVE  x \in ReceivedActions(s, e) <=>
           \E n \in Within(s, e) : s[n].type \in Carries /\ x \in Holds(s[n])
BY DEF ReceivedActions, Carries

LEMMA SameSet == ASSUME NEW A, NEW B, \A y : y \in A <=> y \in B PROVE A = B
OBVIOUS

(* Messages that are neither new blocks nor actions make no difference.    *)
LEMMA Spread ==
  ASSUME NEW P, NEW Q, DOMAIN P \subseteq Int, DOMAIN Q \subseteq Int,
         NEW h \in [DOMAIN P -> DOMAIN Q],
         \A n \in DOMAIN P : Q[h[n]] = P[n],
         \A n, m \in DOMAIN P : (n <= m <=> h[n] <= h[m]),
         \A n, m \in DOMAIN P : (n < m <=> h[n] < h[m]),
         \A q \in DOMAIN Q : \/ \E n \in DOMAIN P : q = h[n]
                             \/ Q[q].type \notin {"new", "action", "actions"}
  PROVE  /\ \A e \in Nat : InOrder(P, e) => InOrder(Q, e)
         /\ News(P) # {} => News(Q) # {}
         /\ \A e : ReceivedActions(Q, e) = ReceivedActions(P, e)
<1>1. \A n \in News(P) : h[n] \in News(Q) /\ Q[h[n]] = P[n] /\ n \in DOMAIN P
  BY DEF News
<1>2. \A q \in News(Q) : \E n \in News(P) : q = h[n]
  BY DEF News
<1>3. ASSUME NEW e \in Nat, InOrder(P, e)
      PROVE  InOrder(Q, e)
  <2>1. \A q \in News(Q) : Q[q].epoch <= e
    BY <1>1, <1>2, <1>3 DEF InOrder
  <2>2. ASSUME News(Q) # {}
        PROVE  \E q \in News(Q) : Q[q].epoch = e /\ \A k \in News(Q) : k <= q
    <3>1. News(P) # {}
      BY <1>2, <2>2
    <3>2. PICK n \in News(P) : P[n].epoch = e /\ \A k \in News(P) : k <= n
      BY <1>3, <3>1 DEF InOrder
    <3> QED
      BY <1>1, <1>2, <3>2
  <2>3. ASSUME NEW q \in News(Q), NEW r \in News(Q), r < q,
               \A k \in News(Q) : k <= r \/ q <= k
        PROVE  Q[q].epoch = Q[r].epoch + 1
    <3>1. PICK n \in News(P), m \in News(P) : q = h[n] /\ r = h[m]
      BY <1>2
    <3>2. m < n /\ \A k \in News(P) : k <= m \/ n <= k
      BY <1>1, <2>3, <3>1
    <3>3. P[n].epoch = P[m].epoch + 1
      BY <1>3, <3>2 DEF InOrder
    <3> QED
      BY <1>1, <3>1, <3>3
  <2> QED
    BY <2>1, <2>2, <2>3 DEF InOrder
<1>4. ASSUME NEW e, NEW n \in DOMAIN P
      PROVE  n \in Within(P, e) <=> h[n] \in Within(Q, e)
  <2>1. ASSUME n \in Within(P, e)
        PROVE  h[n] \in Within(Q, e)
    <3>1. PICK m \in News(P) : m <= n /\ P[m].epoch = e /\ \A k \in News(P) : k <= m \/ n < k
      BY <2>1 DEF Within
    <3>2. h[m] \in News(Q) /\ h[m] <= h[n] /\ Q[h[m]].epoch = e
      BY <1>1, <3>1
    <3>3. \A k \in News(Q) : k <= h[m] \/ h[n] < k
      BY <1>1, <1>2, <3>1
    <3> QED
      BY <3>2, <3>3 DEF Within
  <2>2. ASSUME h[n] \in Within(Q, e)
        PROVE  n \in Within(P, e)
    <3>1. PICK r \in News(Q) : r <= h[n] /\ Q[r].epoch = e /\ \A k \in News(Q) : k <= r \/ h[n] < k
      BY <2>2 DEF Within
    <3>2. PICK m \in News(P) : r = h[m]
      BY <1>2
    <3>3. m <= n /\ P[m].epoch = e
      BY <1>1, <3>1, <3>2
    <3>4. \A k \in News(P) : k <= m \/ n < k
      BY <1>1, <3>1, <3>2
    <3> QED
      BY <3>3, <3>4 DEF Within
  <2> QED
    BY <2>1, <2>2
<1>5. ASSUME NEW e, NEW x
      PROVE  x \in ReceivedActions(Q, e) <=> x \in ReceivedActions(P, e)
  <2>1. ASSUME x \in ReceivedActions(P, e)
        PROVE  x \in ReceivedActions(Q, e)
    <3>1. PICK n \in Within(P, e) : P[n].type \in Carries /\ x \in Holds(P[n])
      BY <2>1, ReceivedIs
    <3>2. n \in DOMAIN P
      BY DEF Within
    <3> QED
      BY <1>4, <3>1, <3>2, ReceivedIs
  <2>2. ASSUME x \in ReceivedActions(Q, e)
        PROVE  x \in ReceivedActions(P, e)
    <3>1. PICK q \in Within(Q, e) : Q[q].type \in Carries /\ x \in Holds(Q[q])
      BY <2>2, ReceivedIs
    <3>2. q \in DOMAIN Q
      BY DEF Within
    <3>3. PICK n \in DOMAIN P : q = h[n]
      BY <3>1, <3>2 DEF Carries
    <3> QED
      BY <1>4, <3>1, <3>3, ReceivedIs
  <2> QED
    BY <2>1, <2>2
<1> QED
  BY <1>1, <1>3, <1>5

(* The status of a block that Sync sends on its own. *)
LEMMA Insert ==
  ASSUME NEW A \in Seq(Message), NEW B \in Seq(Message),
         NEW m \in Message, m.type \in {"seal", "commit"}
  PROVE  LET P == A \o B
             Q == (A \o <<m>>) \o B
         IN  /\ \A e \in Nat : InOrder(P, e) => InOrder(Q, e)
             /\ News(P) # {} => News(Q) # {}
             /\ \A e : ReceivedActions(Q, e) = ReceivedActions(P, e)
             /\ Range(P) \subseteq Range(Q) /\ m \in Range(Q)
             /\ Q \in Seq(Message)
<1> DEFINE P == A \o B
           R == A \o <<m>>
           Q == R \o B
           a == Len(A)
           b == Len(B)
           h == [n \in DOMAIN P |-> IF n <= a THEN n ELSE n + 1]
<1>1. /\ P \in Seq(Message) /\ a \in Nat /\ b \in Nat
      /\ DOMAIN P = 1 .. a + b
      /\ \A n \in 1 .. a : P[n] = A[n]
      /\ \A n \in 1 .. b : P[a + n] = B[n]
  OBVIOUS
<1>2. /\ R \in Seq(Message) /\ Len(R) = a + 1
      /\ \A n \in 1 .. a : R[n] = A[n]
      /\ R[a + 1] = m
  OBVIOUS
<1> HIDE DEF P
<1>3. /\ Q \in Seq(Message) /\ DOMAIN Q = 1 .. (a + 1) + b
      /\ \A n \in 1 .. a + 1 : Q[n] = R[n]
      /\ \A n \in 1 .. b : Q[(a + 1) + n] = B[n]
  BY <1>1, <1>2
<1> HIDE DEF Q, R, a, b
<1>4. h \in [DOMAIN P -> DOMAIN Q]
  <2>1. \A n \in 1 .. a + b : (IF n <= a THEN n ELSE n + 1) \in 1 .. (a + 1) + b
    BY <1>1
  <2> QED
    BY <1>1, <1>3, <2>1
<1>5. ASSUME NEW n \in DOMAIN P
      PROVE  Q[h[n]] = P[n]
  <2>1. CASE n <= a
    BY <1>1, <1>2, <1>3, <2>1
  <2>2. CASE ~ (n <= a)
    <3>1. n - a \in 1 .. b /\ n = a + (n - a) /\ h[n] = (a + 1) + (n - a)
      BY <1>1, <2>2
    <3> QED
      BY SMTT(30), <1>1, <1>3, <3>1
  <2> QED
    BY <2>1, <2>2
<1>6. \A n, k \in DOMAIN P : (n <= k <=> h[n] <= h[k]) /\ (n < k <=> h[n] < h[k])
  BY <1>1
<1>7. Q[a + 1] = m /\ a + 1 \in DOMAIN Q
  BY <1>1, <1>2, <1>3
<1>8. ASSUME NEW q \in DOMAIN Q
      PROVE  \/ \E n \in DOMAIN P : q = h[n]
             \/ Q[q].type \notin {"new", "action", "actions"}
  <2>1. CASE q = a + 1
    BY <1>7, <2>1
  <2>2. CASE q <= a
    BY <1>1, <1>3, <2>2
  <2>3. CASE q > a + 1
    <3>1. q - 1 \in DOMAIN P /\ h[q - 1] = q
      BY <1>1, <1>3, <2>3
    <3> QED
      BY <3>1
  <2> QED
    BY <1>1, <1>3, <2>1, <2>2, <2>3
<1>9. DOMAIN P \subseteq Int /\ DOMAIN Q \subseteq Int
  BY <1>1, <1>3
<1> HIDE DEF h
<1>10. /\ \A e \in Nat : InOrder(P, e) => InOrder(Q, e)
       /\ News(P) # {} => News(Q) # {}
       /\ \A e : ReceivedActions(Q, e) = ReceivedActions(P, e)
  BY ZenonT(60), <1>4, <1>5, <1>6, <1>8, <1>9, Spread
<1>11. Range(P) \subseteq Range(Q) /\ m \in Range(Q)
  BY <1>4, <1>5, <1>7 DEF Range
<1> QED
  BY <1>3, <1>10, <1>11 DEF P, Q, R

(* A new block is announced behind the others. *)
LEMMA AppendNew ==
  ASSUME NEW P \in Seq(Message), NEW e \in Nat, InOrder(P, e),
         NEW m \in Message, m.type = "new", m.epoch = e + 1
  PROVE  LET Q == P \o <<m>>
         IN  /\ InOrder(Q, e + 1) /\ News(Q) # {}
             /\ \A x : ReceivedActions(Q, x) = ReceivedActions(P, x)
             /\ Range(P) \subseteq Range(Q) /\ m \in Range(Q)
             /\ Q \in Seq(Message)
<1> DEFINE Q == P \o <<m>>
           p == Len(P)
<1>1. /\ Q \in Seq(Message) /\ p \in Nat
      /\ DOMAIN P = 1 .. p /\ DOMAIN Q = 1 .. p + 1
      /\ \A n \in 1 .. p : Q[n] = P[n]
      /\ Q[p + 1] = m
  OBVIOUS
<1> HIDE DEF Q, p
<1>2. /\ News(Q) = News(P) \cup {p + 1}
      /\ News(P) \subseteq 1 .. p
      /\ \A n \in News(P) : Q[n] = P[n] /\ n < p + 1 /\ P[n].epoch \in Nat
  <2>1. News(Q) = News(P) \cup {p + 1} /\ News(P) \subseteq 1 .. p
    BY <1>1 DEF News
  <2>2. \A n \in 1 .. p : P[n] \in Message
    BY <1>1
  <2> QED
    BY <1>1, <2>1, <2>2 DEF Message
<1>3. InOrder(Q, e + 1)
  <2>1. \A n \in News(Q) : Q[n].epoch <= e + 1
    BY <1>1, <1>2 DEF InOrder
  <2>2. \E n \in News(Q) : Q[n].epoch = e + 1 /\ \A k \in News(Q) : k <= n
    BY <1>1, <1>2
  <2>3. ASSUME NEW n \in News(Q), NEW r \in News(Q), r < n,
               \A k \in News(Q) : k <= r \/ n <= k
        PROVE  Q[n].epoch = Q[r].epoch + 1
    <3>1. r \in News(P)
      BY <1>1, <1>2, <2>3
    <3>2. CASE n \in News(P)
      BY <1>2, <2>3, <3>1, <3>2 DEF InOrder
    <3>3. CASE n = p + 1
      <4>1. PICK j \in News(P) : P[j].epoch = e /\ \A k \in News(P) : k <= j
        BY <3>1 DEF InOrder
      <4>2. j = r
        BY <1>1, <1>2, <2>3, <3>1, <3>3, <4>1
      <4> QED
        BY <1>1, <1>2, <3>3, <4>1, <4>2
    <3> QED
      BY <1>2, <3>2, <3>3
  <2> QED
    BY <2>1, <2>2, <2>3 DEF InOrder
<1>4. ASSUME NEW x, NEW n \in 1 .. p
      PROVE  n \in Within(Q, x) <=> n \in Within(P, x)
  BY SMTT(20), <1>1, <1>2 DEF Within
<1>5. ASSUME NEW x, NEW y
      PROVE  y \in ReceivedActions(Q, x) <=> y \in ReceivedActions(P, x)
  <2>1. \A n \in Within(Q, x) : Q[n].type \in Carries => n \in 1 .. p
    BY <1>1 DEF Within, Carries
  <2>2. \A n \in Within(P, x) : n \in 1 .. p
    BY <1>1 DEF Within
  <2> QED
    BY <1>1, <1>4, <2>1, <2>2, ReceivedIs
<1>6. Range(P) \subseteq Range(Q) /\ m \in Range(Q)
  BY <1>1 DEF Range
<1>7. ASSUME NEW x
      PROVE  ReceivedActions(Q, x) = ReceivedActions(P, x)
  BY <1>5, SameSet
<1>8. News(Q) # {}
  BY <1>2
<1> QED
  BY <1>1, <1>3, <1>6, <1>7, <1>8 DEF Q

(* An action belongs to the block that was announced last. *)
LEMMA AppendAction ==
  ASSUME NEW P \in Seq(Message), NEW e \in Nat, InOrder(P, e), News(P) # {},
         NEW m \in Message, m.type = "action"
  PROVE  LET Q == P \o <<m>>
         IN  /\ InOrder(Q, e) /\ News(Q) # {}
             /\ ReceivedActions(Q, e) = ReceivedActions(P, e) \cup Holds(m)
             /\ \A x : x # e => ReceivedActions(Q, x) = ReceivedActions(P, x)
             /\ Range(P) \subseteq Range(Q) /\ m \in Range(Q)
             /\ Q \in Seq(Message)
<1> DEFINE Q == P \o <<m>>
           p == Len(P)
<1>1. /\ Q \in Seq(Message) /\ p \in Nat
      /\ DOMAIN P = 1 .. p /\ DOMAIN Q = 1 .. p + 1
      /\ \A n \in 1 .. p : Q[n] = P[n]
      /\ Q[p + 1] = m
  OBVIOUS
<1> HIDE DEF Q, p
<1>2. /\ News(Q) = News(P) /\ News(P) \subseteq 1 .. p
      /\ \A n \in News(P) : Q[n] = P[n]
  BY <1>1 DEF News
<1>3. InOrder(Q, e)
  BY <1>2 DEF InOrder
<1>4. PICK j \in News(P) : P[j].epoch = e /\ \A k \in News(P) : k <= j
  BY DEF InOrder
<1>5. ASSUME NEW x, NEW n \in 1 .. p
      PROVE  n \in Within(Q, x) <=> n \in Within(P, x)
  BY <1>1, <1>2 DEF Within
<1>6. ASSUME NEW x
      PROVE  p + 1 \in Within(Q, x) <=> x = e
  <2>1. ASSUME p + 1 \in Within(Q, x)
        PROVE  x = e
    <3>1. PICK r \in News(P) : P[r].epoch = x /\ \A k \in News(P) : k <= r \/ p + 1 < k
      BY <1>2, <2>1 DEF Within
    <3>2. r = j
      BY <1>1, <1>2, <1>4, <3>1
    <3> QED
      BY <1>4, <3>1, <3>2
  <2>2. p + 1 \in Within(Q, e)
    <3>1. j <= p + 1
      BY <1>1, <1>2, <1>4
    <3> QED
      BY <1>1, <1>2, <1>4, <3>1 DEF Within
  <2> QED
    BY <2>1, <2>2
<1>7. ASSUME NEW x, NEW y
      PROVE  y \in ReceivedActions(Q, x) <=>
               y \in ReceivedActions(P, x) \/ (x = e /\ y \in Holds(m))
  <2>1. \A n \in Within(Q, x) : n \in 1 .. p \/ n = p + 1
    BY <1>1 DEF Within
  <2>2. \A n \in Within(P, x) : n \in 1 .. p
    BY <1>1 DEF Within
  <2>3. Q[p + 1].type \in Carries
    BY <1>1 DEF Carries
  <2> QED
    BY <1>1, <1>5, <1>6, <2>1, <2>2, <2>3, ReceivedIs
<1>8. Range(P) \subseteq Range(Q) /\ m \in Range(Q)
  BY <1>1 DEF Range
<1>9. /\ ReceivedActions(Q, e) = ReceivedActions(P, e) \cup Holds(m)
      /\ \A x : x # e => ReceivedActions(Q, x) = ReceivedActions(P, x)
  BY <1>7
<1>10. News(Q) # {}
  BY <1>2
<1> QED
  BY <1>1, <1>3, <1>8, <1>9, <1>10 DEF Q

-----------------------------------------------------------------------------
(* The messages of a snapshot.                                             *)

(* Odd and even positions of a snapshot's messages. *)
LEMMA Halves ==
  /\ \A n \in Nat : n >= 1 =>
       /\ (n + 1) \div 2 \in Nat /\ (n + 1) \div 2 >= 1
       /\ n % 2 = 1 => n = 2 * ((n + 1) \div 2) - 1
       /\ n % 2 # 1 => n = 2 * ((n + 1) \div 2)
  /\ \A k \in Nat : k >= 1 =>
       /\ ((2 * k - 1) + 1) \div 2 = k /\ (2 * k - 1) % 2 = 1
       /\ (2 * k + 1) \div 2 = k /\ (2 * k) % 2 # 1
OBVIOUS

LEMMA HeadMessagesAre ==
  ASSUME NEW item \in SnapshotItem
  PROVE  /\ HeadMessages(item) \in Seq(Message)
         /\ Len(HeadMessages(item)) = 2
         /\ HeadMessages(item)[1] = Msg("new", "snapshot", item.epoch)
         /\ HeadMessages(item)[2].type = "actions"
         /\ Holds(HeadMessages(item)[2]) = Range(item.actions)
<1>1. item.epoch \in Nat /\ item.actions \in Seq(Input \cup Action)
  <2>1. item.actions \in Seq(Action) /\ item.epoch \in Nat
    BY DEF SnapshotItem
  <2> QED
    BY <2>1, SeqMonotonic
<1> DEFINE n == Msg("new", "snapshot", item.epoch)
           a == [Msg("actions", "snapshot", item.epoch) EXCEPT !.actions = item.actions]
<1>2. n \in Message
  BY <1>1 DEF Msg, Message
<1>3. a \in Message
  BY <1>1 DEF Msg, Message
<1>4. a.type = "actions" /\ a.from = "snapshot" /\ a.actions = item.actions
  BY DEF Msg
<1>5. HeadMessages(item) = <<n, a>>
  BY DEF HeadMessages
<1> HIDE DEF a
<1>6. HeadMessages(item) \in Seq(Message) /\ Len(HeadMessages(item)) = 2
  BY <1>2, <1>3, <1>5
<1>7. HeadMessages(item)[1] = n /\ HeadMessages(item)[2] = a
  BY <1>5
<1> QED
  BY <1>4, <1>6, <1>7 DEF Holds

(* The messages of the snapshot's k-th block. *)
LEMMA UnsentIs ==
  ASSUME NEW items \in Seq(SnapshotItem)
  PROVE  /\ Unsent(items) \in Seq(Message)
         /\ Len(Unsent(items)) = 2 * Len(items)
         /\ \A k \in 1 .. Len(items) :
              /\ Unsent(items)[2 * k - 1] = HeadMessages(items[k])[1]
              /\ Unsent(items)[2 * k] = HeadMessages(items[k])[2]
<1> DEFINE u == Unsent(items)
           l == Len(items)
           f(n) == HeadMessages(items[(n + 1) \div 2])[IF n % 2 = 1 THEN 1 ELSE 2]
<1>1. l \in Nat /\ \A k \in 1 .. l : items[k] \in SnapshotItem
  OBVIOUS
<1>2. \A k \in 1 .. l : /\ HeadMessages(items[k])[1] \in Message
                        /\ HeadMessages(items[k])[2] \in Message
  BY <1>1, HeadMessagesAre, ElementOfSeq
<1>3. u = [n \in 1 .. 2 * l |-> f(n)]
  BY DEF Unsent
<1> HIDE DEF u, l
<1>4. ASSUME NEW n \in 1 .. 2 * l
      PROVE  f(n) \in Message
  <2>1. (n + 1) \div 2 \in 1 .. l
    BY <1>1, Halves
  <2> QED
    BY <1>2, <2>1
<1>5. ASSUME NEW k \in 1 .. l
      PROVE  /\ 2 * k - 1 \in 1 .. 2 * l /\ 2 * k \in 1 .. 2 * l
             /\ f(2 * k - 1) = HeadMessages(items[k])[1]
             /\ f(2 * k) = HeadMessages(items[k])[2]
  <2>1. k \in Nat /\ k >= 1 /\ k <= l
    BY <1>1
  <2>2. /\ ((2 * k - 1) + 1) \div 2 = k /\ (2 * k - 1) % 2 = 1
        /\ (2 * k + 1) \div 2 = k /\ (2 * k) % 2 # 1
    BY <2>1, Halves
  <2>3. 2 * k - 1 \in 1 .. 2 * l /\ 2 * k \in 1 .. 2 * l
    BY <1>1, <2>1
  <2> QED
    BY <2>2, <2>3
<1> HIDE DEF f
<1>6. u \in [1 .. 2 * l -> Message]
  BY <1>3, <1>4
<1>7. u \in Seq(Message) /\ Len(u) = 2 * l
  BY <1>1, <1>6
<1>8. \A k \in 1 .. l : /\ u[2 * k - 1] = HeadMessages(items[k])[1]
                        /\ u[2 * k] = HeadMessages(items[k])[2]
  BY <1>3, <1>5
<1> QED
  BY <1>7, <1>8 DEF u, l

LEMMA UnsentNone == Unsent(<< >>) = << >>
<1>1. << >> \in Seq(SnapshotItem) /\ Len(<< >>) = 0
  OBVIOUS
<1>2. Unsent(<< >>) \in Seq(Message) /\ Len(Unsent(<< >>)) = 2 * Len(<< >>)
  BY <1>1, UnsentIs
<1>3. Len(Unsent(<< >>)) = 0
  BY <1>1, <1>2
<1> QED
  BY <1>2, <1>3, EmptySeq

(* The block that is sent next. *)
LEMMA UnsentFirst ==
  ASSUME NEW items \in Seq(SnapshotItem), items # << >>
  PROVE  Unsent(items) = HeadMessages(Head(items)) \o Unsent(Tail(items))
<1> DEFINE u == Unsent(items)
           h == HeadMessages(Head(items))
           t == Unsent(Tail(items))
           l == Len(items)
<1>1. /\ Head(items) \in SnapshotItem /\ Head(items) = items[1]
      /\ Tail(items) \in Seq(SnapshotItem)
      /\ Len(Tail(items)) = l - 1 /\ l \in Nat /\ l >= 1
      /\ \A k \in 1 .. l - 1 : Tail(items)[k] = items[k + 1]
  BY HeadTailProperties, LenProperties, EmptySeq
<1>2. /\ u \in Seq(Message) /\ Len(u) = 2 * l
      /\ \A k \in 1 .. l : /\ u[2 * k - 1] = HeadMessages(items[k])[1]
                           /\ u[2 * k] = HeadMessages(items[k])[2]
  BY UnsentIs
<1>3. /\ t \in Seq(Message) /\ Len(t) = 2 * (l - 1)
      /\ \A k \in 1 .. l - 1 : /\ t[2 * k - 1] = HeadMessages(items[k + 1])[1]
                               /\ t[2 * k] = HeadMessages(items[k + 1])[2]
  <2> DEFINE r == Tail(items)
  <2>1. /\ Unsent(r) \in Seq(Message)
        /\ Len(Unsent(r)) = 2 * Len(r)
        /\ \A k \in 1 .. Len(r) : /\ Unsent(r)[2 * k - 1] = HeadMessages(r[k])[1]
                                  /\ Unsent(r)[2 * k] = HeadMessages(r[k])[2]
    BY <1>1, UnsentIs
  <2>2. r \in Seq(SnapshotItem) /\ Len(r) = l - 1 /\ \A k \in 1 .. l - 1 : r[k] = items[k + 1]
    BY <1>1
  <2> HIDE DEF r, l
  <2>3. /\ Unsent(r) \in Seq(Message) /\ Len(Unsent(r)) = 2 * (l - 1)
        /\ \A k \in 1 .. l - 1 : /\ Unsent(r)[2 * k - 1] = HeadMessages(items[k + 1])[1]
                                 /\ Unsent(r)[2 * k] = HeadMessages(items[k + 1])[2]
    BY <2>1, <2>2
  <2> QED
    BY <2>3 DEF r
<1>4. /\ h \in Seq(Message) /\ Len(h) = 2
      /\ h[1] = HeadMessages(items[1])[1] /\ h[2] = HeadMessages(items[1])[2]
  BY <1>1, HeadMessagesAre
<1> HIDE DEF u, h, t, l
<1>5. /\ h \o t \in Seq(Message) /\ Len(h \o t) = 2 * l
      /\ \A n \in 1 .. 2 * l : (h \o t)[n] = IF n <= 2 THEN h[n] ELSE t[n - 2]
  <2>1. /\ h \o t \in Seq(Message)
        /\ Len(h \o t) = Len(h) + Len(t)
        /\ \A n \in 1 .. Len(h) + Len(t) : (h \o t)[n] = IF n <= Len(h) THEN h[n] ELSE t[n - Len(h)]
    BY <1>3, <1>4, ConcatProperties
  <2>2. Len(h) + Len(t) = 2 * l
    BY <1>1, <1>3, <1>4
  <2> QED
    BY <1>4, <2>1, <2>2
<1>6. ASSUME NEW k \in 1 .. l
      PROVE  u[2 * k - 1] = (h \o t)[2 * k - 1] /\ u[2 * k] = (h \o t)[2 * k]
  <2>1. 2 * k - 1 \in 1 .. 2 * l /\ 2 * k \in 1 .. 2 * l
    BY <1>1
  <2>2. CASE k = 1
    BY SMTT(20), <1>2, <1>4, <1>5, <2>1, <2>2
  <2>3. CASE k # 1
    <3>1. /\ k - 1 \in 1 .. l - 1 /\ (k - 1) + 1 = k
          /\ (2 * k - 1) - 2 = 2 * (k - 1) - 1 /\ 2 * k - 2 = 2 * (k - 1)
          /\ ~ (2 * k - 1 <= 2) /\ ~ (2 * k <= 2)
      BY <1>1, <2>3
    <3>2. (h \o t)[2 * k - 1] = t[2 * (k - 1) - 1] /\ (h \o t)[2 * k] = t[2 * (k - 1)]
      BY <1>5, <2>1, <3>1
    <3>3. t[2 * (k - 1) - 1] = HeadMessages(items[k])[1] /\ t[2 * (k - 1)] = HeadMessages(items[k])[2]
      BY <1>3, <3>1
    <3> QED
      BY <1>2, <3>2, <3>3
  <2> QED
    BY <2>2, <2>3
<1>7. ASSUME NEW n \in 1 .. 2 * l
      PROVE  u[n] = (h \o t)[n]
  <2>1. \E k \in 1 .. l : n = 2 * k - 1 \/ n = 2 * k
    <3>1. (n + 1) \div 2 \in 1 .. l
      BY <1>1, Halves
    <3> QED
      BY <1>1, <3>1, Halves
  <2> QED
    BY <1>6, <2>1
<1>8. u = h \o t
  BY <1>2, <1>5, <1>7, SeqEqual
<1> QED
  BY <1>8 DEF u, h, t

-----------------------------------------------------------------------------
(* What a snapshot tells: its blocks one after the other, with their actions. *)

(* A snapshot of successive blocks up to epoch e tells the whole story.   *)
LEMMA UnsentStory ==
  ASSUME NEW items \in Seq(SnapshotItem), NEW e \in Nat,
         \A k \in 1 .. Len(items) : items[k].epoch = (e - Len(items)) + k
  PROVE  LET P == Unsent(items)
         IN  /\ InOrder(P, e)
             /\ items # << >> => News(P) # {}
             /\ \A k \in 1 .. Len(items) :
                  ReceivedActions(P, items[k].epoch) = Range(items[k].actions)
<1> DEFINE P == Unsent(items)
           l == Len(items)
           p(k) == 2 * k - 1
           q(k) == 2 * k
<1>1. l \in Nat /\ P \in Seq(Message) /\ DOMAIN P = 1 .. 2 * l
  BY UnsentIs
<1>2. ASSUME NEW k \in 1 .. l
      PROVE  /\ P[p(k)].type = "new" /\ P[p(k)].epoch = (e - l) + k
             /\ P[q(k)].type = "actions" /\ Holds(P[q(k)]) = Range(items[k].actions)
  <2>1. items[k] \in SnapshotItem
    OBVIOUS
  <2>2. P[p(k)] = HeadMessages(items[k])[1] /\ P[q(k)] = HeadMessages(items[k])[2]
    BY UnsentIs
  <2>3. P[p(k)] = Msg("new", "snapshot", items[k].epoch)
    BY <2>1, <2>2, HeadMessagesAre
  <2>4. P[p(k)].type = "new" /\ P[p(k)].epoch = items[k].epoch
    BY <2>3 DEF Msg
  <2>5. items[k].epoch = (e - l) + k
    OBVIOUS
  <2>6. P[q(k)].type = "actions" /\ Holds(P[q(k)]) = Range(items[k].actions)
    BY <2>1, <2>2, HeadMessagesAre
  <2> QED
    BY <2>4, <2>5, <2>6
<1>3. items # << >> => l >= 1
  BY <1>1, EmptySeq
<1>4. \A k \in 1 .. l : items[k].epoch = (e - l) + k
  OBVIOUS
<1> HIDE DEF P, l
<1>5. /\ \A k \in 1 .. l : p(k) \in DOMAIN P /\ q(k) \in DOMAIN P /\ p(k) < q(k)
      /\ \A k, j \in 1 .. l : /\ p(k) <= p(j) <=> k <= j
                              /\ p(k) < p(j) <=> k < j
                              /\ q(k) < p(j) <=> k < j
  BY <1>1
<1>6. ASSUME NEW n \in DOMAIN P
      PROVE  \E k \in 1 .. l : n = p(k) \/ n = q(k)
  <2>1. n \in Nat /\ n >= 1 /\ n <= 2 * l
    BY <1>1
  <2>2. PICK k \in Nat : k >= 1 /\ (n = 2 * k - 1 \/ n = 2 * k)
    BY <2>1, Halves
  <2>3. k \in 1 .. l
    BY <1>1, <2>1, <2>2
  <2> QED
    BY <2>2, <2>3
<1>7. DOMAIN P \subseteq Int
  BY <1>1
<1> HIDE DEF p, q
<1>8. /\ \A k \in 1 .. l : p(k) \in News(P)
      /\ \A n \in News(P) : \E k \in 1 .. l : n = p(k)
  <2>1. \A k \in 1 .. l : p(k) \in News(P) /\ q(k) \notin News(P)
    BY <1>2, <1>5 DEF News
  <2>2. \A n \in News(P) : n \in DOMAIN P
    BY DEF News
  <2> QED
    BY <1>6, <2>1, <2>2
<1>9. InOrder(P, e)
  <2>1. ASSUME NEW n \in News(P)
        PROVE  P[n].epoch <= e
    <3>1. PICK k \in 1 .. l : n = p(k)
      BY <1>8
    <3> QED
      BY <1>1, <1>2, <3>1
  <2>2. ASSUME News(P) # {}
        PROVE  \E n \in News(P) : P[n].epoch = e /\ \A k \in News(P) : k <= n
    <3>1. l \in 1 .. l
      BY <1>1, <1>8, <2>2
    <3>2. p(l) \in News(P) /\ P[p(l)].epoch = e
      BY <1>1, <1>2, <1>8, <3>1
    <3>3. \A k \in News(P) : k <= p(l)
      BY <1>1, <1>5, <1>8, <3>1
    <3> QED
      BY <3>2, <3>3
  <2>3. ASSUME NEW n \in News(P), NEW m \in News(P), m < n,
               \A k \in News(P) : k <= m \/ n <= k
        PROVE  P[n].epoch = P[m].epoch + 1
    <3>1. PICK i \in 1 .. l, j \in 1 .. l : n = p(i) /\ m = p(j)
      BY <1>8
    <3>2. j < i
      BY <1>5, <2>3, <3>1
    <3>3. j + 1 \in 1 .. l
      BY <1>1, <3>2
    <3>4. p(j + 1) <= p(j) \/ p(i) <= p(j + 1)
      BY <1>8, <2>3, <3>1, <3>3
    <3>5. j + 1 <= j \/ i <= j + 1
      BY <1>5, <3>3, <3>4
    <3>6. i = j + 1
      BY <1>1, <3>2, <3>5
    <3>7. P[n].epoch = (e - l) + i /\ P[m].epoch = (e - l) + j
      BY <1>2, <3>1
    <3> QED
      BY <1>1, <3>6, <3>7
  <2> QED
    BY <2>1, <2>2, <2>3 DEF InOrder
<1>10. items # << >> => News(P) # {}
  BY <1>1, <1>3, <1>8
<1>11. ASSUME NEW k \in 1 .. l
       PROVE  ReceivedActions(P, (e - l) + k) = Range(items[k].actions)
  <2> DEFINE x == (e - l) + k
  <2>1. ASSUME NEW n \in Within(P, x)
        PROVE  n = p(k) \/ n = q(k)
    <3>1. PICK m \in News(P) : m <= n /\ P[m].epoch = x /\ \A j \in News(P) : j <= m \/ n < j
      BY DEF Within
    <3>2. PICK i \in 1 .. l : m = p(i)
      BY <1>8
    <3>3. P[m].epoch = (e - l) + i
      BY <1>2, <3>2
    <3>4. i = k
      BY <1>1, <3>1, <3>3
    <3>5. n \in DOMAIN P
      BY DEF Within
    <3>6. PICK j \in 1 .. l : n = p(j) \/ n = q(j)
      BY <1>6, <3>5
    <3>7. p(j) <= p(k) \/ n < p(j)
      BY <1>8, <3>1, <3>2, <3>4
    <3>8. ~ (n < p(j))
      BY <1>5, <1>7, <3>6
    <3>9. j <= k
      BY <1>5, <3>7, <3>8
    <3>10. ~ (q(j) < p(k)) /\ ~ (p(j) < p(k))
      <4>1. p(k) <= n
        BY <3>1, <3>2, <3>4
      <4>2. p(j) <= n /\ n <= q(j)
        BY <1>5, <1>7, <3>6
      <4>3. p(k) \in Int /\ n \in Int /\ q(j) \in Int /\ p(j) \in Int
        BY <1>5, <1>7, <3>5
      <4>4. ~ (q(j) < p(k))
        BY <4>1, <4>2, <4>3
      <4>5. ~ (j < k)
        BY <1>5, <4>4
      <4> QED
        BY <1>5, <4>4, <4>5
    <3>11. ~ (j < k)
      BY <1>5, <3>10
    <3> QED
      BY <3>6, <3>9, <3>11
  <2>2. q(k) \in Within(P, x)
    <3>1. p(k) \in News(P) /\ p(k) <= q(k) /\ P[p(k)].epoch = x
      BY <1>2, <1>5, <1>7, <1>8
    <3>2. ASSUME NEW j \in News(P)
          PROVE  j <= p(k) \/ q(k) < j
      <4>1. PICK i \in 1 .. l : j = p(i)
        BY <1>8
      <4>2. i <= k \/ k < i
        OBVIOUS
      <4> QED
        BY <1>5, <4>1, <4>2
    <3> QED
      BY <1>5, <3>1, <3>2 DEF Within
  <2>3. P[p(k)].type \notin Carries /\ P[q(k)].type \in Carries
    BY <1>2 DEF Carries
  <2> HIDE DEF x
  <2>4. ASSUME NEW y
        PROVE  y \in ReceivedActions(P, x) <=> y \in Holds(P[q(k)])
    BY <2>1, <2>2, <2>3, ReceivedIs
  <2>5. ReceivedActions(P, x) = Holds(P[q(k)])
    BY <2>4, SameSet
  <2> QED
    BY <1>2, <2>5 DEF x
<1> QED
  BY <1>4, <1>9, <1>10, <1>11 DEF P, l

-----------------------------------------------------------------------------
(* The blocks that Sync collects.                                          *)

LEMMA IntervalSize ==
  ASSUME NEW a \in Int, NEW b \in Int, a <= b + 1
  PROVE  Cardinality(a .. b) = b - a + 1
<1>1. Cardinality(a .. b) = IF a > b THEN 0 ELSE b - a + 1
  BY FS_Interval
<1> QED
  BY <1>1

(* The number of recent blocks that a subscriber of epoch e already has. *)
LEMMA Skipped ==
  ASSUME ChainTypeOK, DenseEpochs, NEW e \in Nat
  PROVE  \E d \in Nat : /\ d <= Len(recentBlocks)
                        /\ \A i \in DOMAIN recentBlocks : recentBlocks[i].Epoch > e <=> i > d
<1> DEFINE r == Len(recentBlocks)
           d == IF e <= StartEpoch THEN 0
                ELSE IF e >= StartEpoch + r THEN r ELSE e - StartEpoch
<1>1. /\ r \in Nat /\ StartEpoch \in Nat /\ DOMAIN recentBlocks = 1 .. r
      /\ \A i \in 1 .. r : recentBlocks[i].Epoch = StartEpoch + i
  BY RecentSeq DEF DenseEpochs
<1> HIDE DEF r
<1>2. d \in Nat /\ d <= r
  BY <1>1
<1>3. \A i \in 1 .. r : StartEpoch + i > e <=> i > d
  BY <1>1
<1> QED
  BY <1>1, <1>2, <1>3 DEF r

(* The blocks of the recent ones that Sync collects. *)
LEMMA RecentAfterIs ==
  ASSUME ChainTypeOK, DenseEpochs, NEW e \in Nat, NEW d \in Nat, d <= Len(recentBlocks),
         \A i \in DOMAIN recentBlocks : recentBlocks[i].Epoch > e <=> i > d
  PROVE  /\ RecentAfter(e) \in Seq(SnapshotItem)
         /\ Len(RecentAfter(e)) = Len(recentBlocks) - d
         /\ \A k \in 1 .. Len(recentBlocks) - d :
              RecentAfter(e)[k] = [block |-> d + k, epoch |-> recentBlocks[d + k].Epoch,
                                   actions |-> recentBlocks[d + k].Actions, next |-> "head"]
<1> DEFINE r == Len(recentBlocks)
           after == {i \in DOMAIN recentBlocks :
                       recentBlocks[i].Epoch > e /\ recentBlocks[i].Epoch <= epoch}
           place(n) == CHOOSE i \in after : Cardinality({j \in after : j <= i}) = n
           item(i) == [block |-> i, epoch |-> recentBlocks[i].Epoch,
                       actions |-> recentBlocks[i].Actions, next |-> "head"]
<1>1. /\ r \in Nat /\ StartEpoch \in Nat /\ DOMAIN recentBlocks = 1 .. r /\ epoch \in Nat
      /\ \A i \in 1 .. r : recentBlocks[i].Epoch = StartEpoch + i
      /\ epoch >= StartEpoch + r
      /\ \A i \in 1 .. r : recentBlocks[i] \in Block
  BY SMTT(40), RecentSeq, ElementOfSeq DEF DenseEpochs
<1>2. RecentAfter(e) = [n \in 1 .. Cardinality(after) |-> item(place(n))]
  BY DEF RecentAfter
<1>3. after = d + 1 .. r
  <2>1. \A i \in 1 .. r : i \in after <=> i > d
    BY <1>1
  <2> HIDE DEF after
  <2>2. after \subseteq 1 .. r
    BY <1>1 DEF after
  <2>3. ASSUME NEW i
        PROVE  i \in after <=> i \in d + 1 .. r
    <3>1. i \in d + 1 .. r => i \in 1 .. r /\ i > d
      BY <1>1
    <3>2. i \in 1 .. r /\ i > d => i \in d + 1 .. r
      BY <1>1
    <3> QED
      BY <2>1, <2>2, <3>1, <3>2
  <2> QED
    BY <2>3, SameSet
<1>4. d <= r
  OBVIOUS
<1> HIDE DEF after, r
<1>5. Cardinality(after) = r - d
  <2>1. Cardinality(d + 1 .. r) = r - (d + 1) + 1
    BY <1>1, <1>4, IntervalSize
  <2> QED
    BY <1>1, <1>3, <2>1
<1>6. ASSUME NEW i \in after
      PROVE  Cardinality({j \in after : j <= i}) = i - d
  <2> DEFINE below == {j \in after : j <= i}
  <2>1. below = d + 1 .. i
    BY <1>1, <1>3
  <2>2. i \in Int /\ d + 1 \in Int /\ d + 1 <= i
    BY <1>1, <1>3
  <2>3. Cardinality(d + 1 .. i) = i - (d + 1) + 1
    BY <2>2, IntervalSize
  <2> HIDE DEF below
  <2>4. Cardinality(below) = i - d
    BY <2>1, <2>2, <2>3
  <2> QED
    BY <2>4 DEF below
<1>7. ASSUME NEW n \in 1 .. r - d
      PROVE  place(n) = d + n
  <2>1. d + n \in after /\ (d + n) - d = n
    BY <1>1, <1>3
  <2>2. \A i \in after : i - d = n <=> i = d + n
    BY <1>1, <1>3
  <2> QED
    BY <1>6, <2>1, <2>2
<1> HIDE DEF place
<1>8. ASSUME NEW n \in 1 .. r - d
      PROVE  item(d + n) \in SnapshotItem
  <2>1. d + n \in 1 .. r
    BY <1>1
  <2>2. recentBlocks[d + n].Epoch \in Nat /\ recentBlocks[d + n].Actions \in Seq(Action)
    BY <1>1, <2>1 DEF Block
  <2> QED
    BY <2>2, <2>1 DEF SnapshotItem
<1>9. RecentAfter(e) = [n \in 1 .. r - d |-> item(d + n)]
  BY <1>2, <1>5, <1>7
<1> HIDE DEF item
<1>10. r - d \in Nat
  BY <1>1, <1>4
<1>11. RecentAfter(e) \in [1 .. r - d -> SnapshotItem]
  BY <1>8, <1>9
<1>12. RecentAfter(e) \in Seq(SnapshotItem) /\ Len(RecentAfter(e)) = r - d
  BY <1>10, <1>11
<1> QED
  BY <1>9, <1>12 DEF r, item

(* What Sync collects at live epoch epoch: blocks that follow one another  *)
(* up to it, each with its actions, and every block after epoch e.         *)
LEMMA SyncBlocksAre ==
  ASSUME ChainTypeOK, DenseEpochs, live # NoBlock => live.Epoch = epoch, NEW e \in Nat
  PROVE  LET items == SyncBlocks(e)
         IN  /\ items \in Seq(SnapshotItem)
             /\ live # NoBlock => items # << >>
             /\ \A k \in 1 .. Len(items) :
                  /\ items[k].epoch = (epoch - Len(items)) + k
                  /\ items[k].next = "head"
                  /\ items[k].block # 0 =>
                       /\ items[k].block \in DOMAIN recentBlocks
                       /\ recentBlocks[items[k].block].Epoch = items[k].epoch
                       /\ recentBlocks[items[k].block].Actions = items[k].actions
             /\ \A b \in ChainBlocks : b.Epoch > e =>
                  \E k \in 1 .. Len(items) :
                    items[k].epoch = b.Epoch /\ items[k].actions = b.Actions
             /\ \A i \in DOMAIN recentBlocks : recentBlocks[i].Epoch > e =>
                  \E item \in Range(items) : item.block = i
<1> DEFINE r == Len(recentBlocks)
           rec == RecentAfter(e)
           items == SyncBlocks(e)
           last == [block |-> 0, epoch |-> live.Epoch, actions |-> live.Actions, next |-> "head"]
<1>1. /\ r \in Nat /\ StartEpoch \in Nat /\ DOMAIN recentBlocks = 1 .. r /\ epoch \in Nat
      /\ \A i \in 1 .. r : recentBlocks[i].Epoch = StartEpoch + i
      /\ epoch = StartEpoch + r + (IF live = NoBlock THEN 0 ELSE 1)
  BY RecentSeq DEF DenseEpochs
<1>2. PICK d \in Nat : d <= r /\ \A i \in DOMAIN recentBlocks : recentBlocks[i].Epoch > e <=> i > d
  BY Skipped
<1>3. /\ rec \in Seq(SnapshotItem)
      /\ Len(rec) = r - d
      /\ \A k \in 1 .. r - d :
           rec[k] = [block |-> d + k, epoch |-> recentBlocks[d + k].Epoch,
                     actions |-> recentBlocks[d + k].Actions, next |-> "head"]
  BY <1>2, RecentAfterIs
<1> HIDE DEF r, rec
<1>4. ASSUME NEW k \in 1 .. r - d
      PROVE  /\ rec[k].block = d + k /\ rec[k].next = "head"
             /\ d + k \in 1 .. r
             /\ rec[k].epoch = (StartEpoch + d) + k
             /\ rec[k].epoch = recentBlocks[d + k].Epoch
             /\ rec[k].actions = recentBlocks[d + k].Actions
  <2>1. d + k \in 1 .. r
    BY <1>1, <1>2
  <2>2. rec[k] = [block |-> d + k, epoch |-> recentBlocks[d + k].Epoch,
                  actions |-> recentBlocks[d + k].Actions, next |-> "head"]
    BY <1>3
  <2>3. recentBlocks[d + k].Epoch = (StartEpoch + d) + k
    BY <1>1, <2>1
  <2> QED
    BY <2>1, <2>2, <2>3
<1>5. ASSUME NEW i \in 1 .. r, recentBlocks[i].Epoch > e
      PROVE  \E k \in 1 .. r - d : d + k = i
  <2>1. i - d \in 1 .. r - d /\ d + (i - d) = i
    BY <1>1, <1>2, <1>5
  <2> QED
    BY <2>1
<1>6. CASE live = NoBlock
  <2>1. items = rec /\ epoch - Len(items) = StartEpoch + d
    BY <1>1, <1>2, <1>3, <1>6 DEF SyncBlocks, rec
  <2> HIDE DEF items
  <2>2. ASSUME NEW k \in 1 .. Len(items)
        PROVE  /\ items[k].epoch = (epoch - Len(items)) + k
               /\ items[k].next = "head"
               /\ items[k].block # 0 =>
                    /\ items[k].block \in DOMAIN recentBlocks
                    /\ recentBlocks[items[k].block].Epoch = items[k].epoch
                    /\ recentBlocks[items[k].block].Actions = items[k].actions
    BY ZenonT(60), <1>1, <1>3, <1>4, <2>1
  <2>3. ASSUME NEW b \in ChainBlocks, b.Epoch > e
        PROVE  \E k \in 1 .. Len(items) : items[k].epoch = b.Epoch /\ items[k].actions = b.Actions
    <3>1. PICK i \in 1 .. r : b = recentBlocks[i]
      BY <1>1, <1>6 DEF ChainBlocks, Range
    <3>2. PICK k \in 1 .. r - d : d + k = i
      BY <1>5, <2>3, <3>1
    <3> QED
      BY <1>3, <1>4, <2>1, <3>1, <3>2
  <2>4. ASSUME NEW i \in DOMAIN recentBlocks, recentBlocks[i].Epoch > e
        PROVE  \E item \in Range(items) : item.block = i
    <3>1. PICK k \in 1 .. r - d : d + k = i
      BY <1>1, <1>5, <2>4
    <3>2. k \in DOMAIN items
      BY <1>3, <2>1
    <3> QED
      BY <1>4, <2>1, <3>1, <3>2 DEF Range
  <2> QED
    BY <1>3, <1>6, <2>1, <2>2, <2>3, <2>4 DEF items
<1>7. CASE live # NoBlock
  <2>1. last \in SnapshotItem
    <3>1. live \in Block
      BY <1>7 DEF ChainTypeOK
    <3> QED
      BY <3>1 DEF Block, SnapshotItem
  <2>2. items = Append(rec, last)
    BY <1>7 DEF SyncBlocks, rec
  <2>3. last.epoch = epoch /\ last.block = 0 /\ last.next = "head" /\ last.actions = live.Actions
    BY <1>7
  <2> HIDE DEF items, last
  <2>4. /\ items \in Seq(SnapshotItem) /\ Len(items) = (r - d) + 1
        /\ DOMAIN items = 1 .. (r - d) + 1
        /\ \A k \in 1 .. r - d : items[k] = rec[k]
        /\ items[(r - d) + 1] = last
    BY <1>1, <1>3, <2>1, <2>2, AppendProperties, LenProperties
  <2>5. epoch - Len(items) = StartEpoch + d /\ (r - d) + 1 \in 1 .. Len(items)
    BY <1>1, <1>2, <1>7, <2>4
  <2>6. \A k \in 1 .. Len(items) : k \in 1 .. r - d \/ k = (r - d) + 1
    BY <1>1, <1>2, <2>4
  <2>7. ASSUME NEW k \in 1 .. Len(items)
        PROVE  /\ items[k].epoch = (epoch - Len(items)) + k
               /\ items[k].next = "head"
               /\ items[k].block # 0 =>
                    /\ items[k].block \in DOMAIN recentBlocks
                    /\ recentBlocks[items[k].block].Epoch = items[k].epoch
                    /\ recentBlocks[items[k].block].Actions = items[k].actions
    <3>1. CASE k \in 1 .. r - d
      BY ZenonT(60), <1>1, <1>4, <2>4, <2>5, <3>1
    <3>2. CASE k = (r - d) + 1
      <4>1. items[k] = last /\ (epoch - Len(items)) + k = epoch
        BY <1>1, <1>2, <1>7, <2>4, <2>5, <3>2
      <4> QED
        BY <2>3, <4>1
    <3> QED
      BY <2>6, <3>1, <3>2
  <2>8. ASSUME NEW b \in ChainBlocks, b.Epoch > e
        PROVE  \E k \in 1 .. Len(items) : items[k].epoch = b.Epoch /\ items[k].actions = b.Actions
    <3>1. CASE b = live
      <4>1. b.Epoch = epoch
        BY <1>7, <3>1
      <4> QED
        BY <2>3, <2>4, <2>5, <3>1, <4>1
    <3>2. CASE b \in Range(recentBlocks)
      <4>1. PICK i \in 1 .. r : b = recentBlocks[i]
        BY <1>1, <3>2 DEF Range
      <4>2. PICK k \in 1 .. r - d : d + k = i
        BY <1>5, <2>8, <4>1
      <4>3. k \in 1 .. Len(items)
        BY <1>1, <1>2, <2>4
      <4> QED
        BY <1>4, <2>4, <4>1, <4>2, <4>3
    <3> QED
      BY <3>1, <3>2 DEF ChainBlocks
  <2>9. ASSUME NEW i \in DOMAIN recentBlocks, recentBlocks[i].Epoch > e
        PROVE  \E item \in Range(items) : item.block = i
    <3>1. PICK k \in 1 .. r - d : d + k = i
      BY <1>1, <1>5, <2>9
    <3>2. k \in DOMAIN items
      BY <1>1, <1>2, <2>4
    <3> QED
      BY <1>4, <2>4, <3>1, <3>2 DEF Range
  <2>10. items # << >>
    BY <1>1, <1>2, <2>4, EmptySeq
  <2> QED
    BY <2>4, <2>7, <2>8, <2>9, <2>10 DEF items
<1> QED
  BY <1>6, <1>7

-----------------------------------------------------------------------------
(* Places, queues and connections.                                         *)

(* Where listener, loops and subscribers are. *)
PlacesOK ==
  /\ link \in {"down", "up", "closed"}
  /\ loop \in {"connect", "unreported", "receive", "handle", "locking", "forward", "ended",
             "panicked"}
  /\ out \in Message
  /\ lock \in {"free", "loop"}
  /\ pooling \in {"select", "lock"}
  /\ request \in Subscriber \cup {NoSub}
  /\ pool \in SUBSET Subscriber
  /\ since \in [Subscriber -> Epochs]
  /\ stage \in [Subscriber -> {"absent", "requesting", "cached", "syncing", "ready", "broken"}]

QueuesOK ==
  /\ snapshot \in [Subscriber -> Seq(SnapshotItem)]
  /\ cache \in [Subscriber -> Seq(Message)]
  /\ stream \in [Subscriber -> Seq(Message)]

(* The mutex is held only on the way to the pool loop; what is forwarded   *)
(* without it is an action of the live block.                              *)
LoopOK ==
  /\ lock = "loop" => loop = "forward"
  /\ loop = "forward" /\ lock = "free" =>
       \E i \in Input : /\ out.type = "action" /\ Holds(out) = {Transform[i]}
                        /\ live # NoBlock /\ Transform[i] \in Range(live.Actions)

(* Nothing is sent to or kept for a subscriber before Sync has collected   *)
(* its blocks, and nothing is kept once it is ready.                       *)
Connected(c) ==
  /\ stage[c] \in {"absent", "requesting"} => c \notin pool
  /\ stage[c] \in {"cached", "syncing", "ready"} => c \in pool
  /\ stage[c] = "cached" => request = c /\ pooling = "lock"
  /\ stage[c] \in {"absent", "requesting", "cached"} =>
       stream[c] = << >> /\ snapshot[c] = << >> /\ cache[c] = << >>
  /\ stage[c] = "ready" => snapshot[c] = << >> /\ cache[c] = << >>

Connections ==
  /\ \A c \in Subscriber : Connected(c)
  /\ pooling = "lock" => request \in Subscriber /\ stage[request] = "cached"

(* The items of a snapshot are sent one after the other, and refer to      *)
(* blocks that the chain still has.                                        *)
ItemsIn(items, S) ==
  \A k \in 1 .. Len(items) :
    /\ k > 1 => items[k].next = "head"
    /\ items[k].block # 0 => /\ items[k].block \in DOMAIN S
                             /\ S[items[k].block].Epoch = items[k].epoch
                             /\ S[items[k].block].Actions = items[k].actions

ItemsOK == \A c \in Subscriber : ItemsIn(snapshot[c], recentBlocks)

LEMMA MessageType ==
  ASSUME NEW type \in {"new", "action", "actions", "seal", "commit"},
         NEW from \in {"snapshot", "broadcast"}, NEW e \in Nat
  PROVE  /\ Msg(type, from, e) \in Message
         /\ \A i \in Input : [Msg(type, from, e) EXCEPT !.actions = <<i>>] \in Message
         /\ \A h \in SUBSET Action : [Msg(type, from, e) EXCEPT !.invalidated = h] \in Message
<1>1. Msg(type, from, e) \in Message
  BY DEF Msg, Message
<1>2. ASSUME NEW i \in Input
      PROVE  [Msg(type, from, e) EXCEPT !.actions = <<i>>] \in Message
  <2>1. <<i>> \in Seq(Input \cup Action)
    OBVIOUS
  <2> QED
    BY <1>1, <2>1 DEF Message
<1>3. ASSUME NEW h \in SUBSET Action
      PROVE  [Msg(type, from, e) EXCEPT !.invalidated = h] \in Message
  BY <1>1 DEF Message
<1> QED
  BY <1>1, <1>2, <1>3

(* The message of an action, before Transform. *)
LEMMA ActionMessage ==
  ASSUME NEW i \in Input
  PROVE  LET m == [Msg("action", "broadcast", 0) EXCEPT !.actions = <<i>>]
         IN  m \in Message /\ m.type = "action" /\ Holds(m) = {Transform[i]}
<1> DEFINE m == [Msg("action", "broadcast", 0) EXCEPT !.actions = <<i>>]
<1>1. m \in Message
  BY MessageType
<1>2. m.type = "action" /\ m.from = "broadcast" /\ m.actions = <<i>>
  BY DEF Msg
<1> HIDE DEF m
<1>3. Range(m.actions) = {i}
  BY <1>2 DEF Range
<1>4. Holds(m) = {Transform[i]}
  BY <1>2, <1>3 DEF Holds
<1> QED
  BY <1>1, <1>2, <1>4 DEF m

(* The hashes of the block that Commit has committed. *)
CommittedHashes ==
  UNION {recentBlocks'[i].Invalidated :
           i \in {j \in DOMAIN recentBlocks : Found(j, signal.epoch)}}

LEMMA CommitHashes ==
  ASSUME ChainTypeOK, ChainTypeOK', NEW e \in Epochs, NEW h \in SUBSET Action, Commit(e, h)
  PROVE  CommittedHashes \in SUBSET Action
<1>1. DOMAIN recentBlocks' = DOMAIN recentBlocks
  BY DEF Commit, Refuse, CommitSealed
<1>2. \A i \in DOMAIN recentBlocks' : recentBlocks'[i].Invalidated \in SUBSET Action
  <2>1. recentBlocks' \in Seq(Block)
    BY DEF ChainTypeOK
  <2>2. \A i \in DOMAIN recentBlocks' : recentBlocks'[i] \in Block
    BY <2>1
  <2> QED
    BY <2>2 DEF Block
<1> QED
  BY <1>1, <1>2 DEF CommittedHashes

(* After a panic nothing is under way. *)
LEMMA PanicPlaces == Panic => PlacesOK' /\ QueuesOK' /\ LoopOK' /\ Connections' /\ ItemsOK'
<1> SUFFICES ASSUME Panic PROVE PlacesOK' /\ QueuesOK' /\ LoopOK' /\ Connections' /\ ItemsOK'
  OBVIOUS
<1>1. NoMsg \in Message /\ 0 \in Epochs
  BY MessageType, ZeroEpoch DEF NoMsg
<1>2. PlacesOK'
  BY <1>1 DEF Panic, PlacesOK
<1>3. QueuesOK'
  BY DEF Panic, QueuesOK
<1>4. LoopOK' /\ Connections'
  BY DEF Panic, LoopOK, Connections, Connected
<1>5. ItemsOK'
  <2>1. Len(<< >>) = 0 /\ \A c \in Subscriber : snapshot'[c] = << >>
    BY DEF Panic
  <2> QED
    BY <2>1 DEF ItemsOK, ItemsIn
<1> QED
  BY <1>2, <1>3, <1>4, <1>5

LEMMA PlacesStep ==
  ASSUME PlacesOK, SignalsOK, ChainTypeOK, ChainTypeOK', [ValidatorNext]_nodeVars
  PROVE  PlacesOK'
<1>0. /\ signal.epoch \in Epochs /\ signal.epoch \in Nat
      /\ signal.action \in Input
      /\ signal.invalidated \in SUBSET Action
      /\ epoch' \in Nat
      /\ 0 \in Epochs
  <2>1. signal.epoch \in Epochs /\ signal.action \in Input /\ signal.invalidated \in SUBSET Action
    BY DEF SignalsOK, Signal
  <2>2. Epochs \subseteq Nat
    BY ChainAssumption DEF Epochs
  <2> QED
    BY <2>1, <2>2, ZeroEpoch DEF ChainTypeOK
<1>1. NoMsg \in Message
  BY MessageType DEF NoMsg
<1> USE DEF PlacesOK, listenerVars, loopVars, poolVars, subscriberVars
<1>2. CASE UNCHANGED nodeVars
  BY <1>2 DEF nodeVars
<1>3. CASE Listen
  BY <1>3 DEF Listen, ReadMessage, ReadError
<1>4. CASE Loop
  <2>1. CASE Dial \/ Receive \/ HandleError \/ DropDead
    BY <2>1 DEF Dial, Receive, HandleError, DropDead
  <2>2. CASE HandleNewBlock
    <3>1. Msg("new", "broadcast", epoch') \in Message
      BY <1>0, MessageType
    <3> QED
      BY <2>2, <3>1 DEF HandleNewBlock, ForwardLocked
  <2>3. CASE HandleAction
    BY <1>0, <2>3, ActionMessage DEF HandleAction
  <2>4. CASE HandleActionArray
    BY <2>4 DEF HandleActionArray
  <2>5. CASE HandleSeal
    <3>1. Msg("seal", "broadcast", signal.epoch) \in Message
      BY <1>0, MessageType
    <3> QED
      BY <2>5, <3>1 DEF HandleSeal, ForwardLocked
  <2>6. CASE HandleCommit
    <3>1. CommittedHashes \in SUBSET Action
      BY <1>0, <2>6, CommitHashes DEF HandleCommit
    <3>2. [Msg("commit", "broadcast", signal.epoch) EXCEPT !.invalidated = CommittedHashes] \in Message
      BY <1>0, <3>1, MessageType
    <3> QED
      BY <2>6, <3>2 DEF HandleCommit, ForwardLocked, CommittedHashes
  <2>7. CASE Forward
    BY <1>1, <2>7 DEF Forward
  <2> QED
    BY <1>4, <2>1, <2>2, <2>3, <2>4, <2>5, <2>6, <2>7, PanicPlaces DEF Loop, HandleUnfilledArray
<1>5. CASE Pool
  BY <1>5 DEF Pool, StartSync, TakeSyncRequest
<1>6. ASSUME NEW c \in Subscriber, Sync(c)
      PROVE  PlacesOK'
  BY <1>6 DEF Sync, SyncHead, SyncSeal, SyncCommit, SyncItem, Ready
<1>7. CASE Environment
  BY <1>0, <1>7, PanicPlaces DEF Environment, HandshakeFails, Break, RequestSync
<1> QED
  BY <1>2, <1>3, <1>4, <1>5, <1>6, <1>7 DEF ValidatorNext

(* A step leaves the chain alone while a message waits for the pool loop.  *)
LEMMA LoopStep ==
  ASSUME LoopOK, ChainTypeOK, ChainTypeOK', SignalsOK, [ValidatorNext]_nodeVars
  PROVE  LoopOK'
<1> USE DEF LoopOK, listenerVars, loopVars, poolVars, subscriberVars
<1>2. CASE UNCHANGED nodeVars
  BY <1>2 DEF nodeVars, chainVars
<1>3. CASE Listen
  BY <1>3 DEF Listen, ReadMessage, ReadError, chainVars
<1>4. CASE Loop
  <2>1. CASE Dial \/ Receive \/ HandleError \/ DropDead
    BY <2>1 DEF Dial, Receive, HandleError, DropDead
  <2>2. CASE HandleNewBlock
    BY <2>2 DEF HandleNewBlock, ForwardLocked
  <2>3. CASE HandleAction
    <3>1. CASE loop' # "forward"
      BY <2>3, <3>1 DEF HandleAction
    <3>2. CASE loop' = "forward"
      <4>1. /\ reply'.err = "ok" /\ Validate(signal.action)
            /\ out' = [Msg("action", "broadcast", 0) EXCEPT !.actions = <<signal.action>>]
        BY <2>3, <3>2 DEF HandleAction
      <4>2. signal.action \in Input
        BY DEF SignalsOK, Signal
      <4>3. out'.type = "action" /\ Holds(out') = {Transform[signal.action]}
        BY <4>1, <4>2, ActionMessage
      <4>4. /\ live # NoBlock /\ Transform[signal.action] # Empty
            /\ live' = [live EXCEPT !.Actions = Append(@, Transform[signal.action])]
        BY <4>1 DEF Validate, Refuse
      <4>5. live \in Block /\ Transform[signal.action] \in Action
        BY <4>2, <4>4, ChainAssumption DEF ChainTypeOK
      <4>6. live'.Actions = Append(live.Actions, Transform[signal.action])
        BY <4>4, <4>5 DEF Block
      <4>7. live.Actions \in Seq(Action)
        BY <4>5 DEF Block
      <4>8. Transform[signal.action] \in Range(live'.Actions)
        <5> DEFINE n == Len(live.Actions) + 1
        <5>1. n \in DOMAIN live'.Actions /\ live'.Actions[n] = Transform[signal.action]
          BY <4>5, <4>6, <4>7
        <5> QED
          BY <5>1 DEF Range
      <4>9. live' # NoBlock
        <5>1. live' \in Block
          BY <4>4, <4>5, BlockAppend
        <5> QED
          BY <5>1, NoBlockAssumption
      <4>10. lock' = lock /\ loop = "handle"
        BY <2>3 DEF HandleAction
      <4> QED
        BY <4>2, <4>3, <4>8, <4>9, <4>10, <3>2
    <3> QED
      BY <3>1, <3>2
  <2>4. CASE HandleActionArray
    BY <2>4 DEF HandleActionArray
  <2>5. CASE HandleSeal
    BY <2>5 DEF HandleSeal, ForwardLocked
  <2>6. CASE HandleCommit
    BY <2>6 DEF HandleCommit, ForwardLocked
  <2>7. CASE Forward
    BY <2>7 DEF Forward
  <2> QED
    BY <1>4, <2>1, <2>2, <2>3, <2>4, <2>5, <2>6, <2>7, PanicPlaces DEF Loop, HandleUnfilledArray
<1>5. CASE Pool
  BY <1>5 DEF Pool, StartSync, TakeSyncRequest, chainVars
<1>6. ASSUME NEW c \in Subscriber, Sync(c)
      PROVE  LoopOK'
  BY <1>6 DEF Sync, SyncHead, SyncSeal, SyncCommit, SyncItem, Ready, chainVars
<1>7. CASE Environment
  BY <1>7, PanicPlaces DEF Environment, HandshakeFails, Break, RequestSync, chainVars
<1> QED
  BY <1>2, <1>3, <1>4, <1>5, <1>6, <1>7 DEF ValidatorNext

-----------------------------------------------------------------------------
(* Connections. *)

LEMMA ConnectionsStep ==
  ASSUME Connections, PlacesOK, QueuesOK, [ValidatorNext]_nodeVars
  PROVE  Connections'
<1> USE DEF listenerVars, loopVars, poolVars, subscriberVars
<1>0. /\ \A c \in Subscriber : Connected(c)
      /\ pooling = "lock" => request \in Subscriber /\ stage[request] = "cached"
      /\ stage \in [Subscriber -> {"absent", "requesting", "cached", "syncing", "ready", "broken"}]
      /\ snapshot \in [Subscriber -> Seq(SnapshotItem)]
      /\ cache \in [Subscriber -> Seq(Message)]
      /\ stream \in [Subscriber -> Seq(Message)]
      /\ pool \in SUBSET Subscriber
  BY DEF Connections, PlacesOK, QueuesOK
<1>1. ASSUME UNCHANGED <<pooling, request, pool, stage, snapshot, cache, stream>>
      PROVE  Connections'
  BY <1>1 DEF Connections, Connected
<1>2. CASE UNCHANGED nodeVars
  BY <1>1, <1>2 DEF nodeVars
<1>3. CASE Listen
  BY <1>1, <1>3 DEF Listen, ReadMessage, ReadError
<1>4. CASE Loop
  <2>1. CASE Dial \/ Receive \/ HandleError
    BY <1>1, <2>1 DEF Dial, Receive, HandleError
  <2>2. CASE HandleNewBlock \/ HandleAction \/ HandleActionArray \/ HandleSeal \/ HandleCommit
    BY <1>1, <2>2 DEF HandleNewBlock, HandleAction, HandleActionArray, HandleSeal, HandleCommit
  <2>3. CASE DropDead
    BY <1>0, <2>3 DEF DropDead, Connections, Connected, dead
  <2>4. CASE Forward
    <3>1. pooling = "select" /\ UNCHANGED <<poolVars, stage, snapshot>>
      BY <2>4 DEF Forward
    <3>2. ASSUME NEW c \in Subscriber
          PROVE  Connected(c)'
      <4>1. stage[c] # "cached"
        BY <1>0, <3>1 DEF Connected
      <4>2. CASE c \in pool \ dead /\ stage[c] # "ready"
        <5>1. stage[c] = "syncing"
          BY <1>0, <4>1, <4>2 DEF Connected, dead
        <5> QED
          BY <1>0, <3>1, <5>1 DEF Connected
      <4>3. CASE stage[c] = "ready" \/ c \notin pool \ dead
        <5>1. cache'[c] = cache[c]
          BY <2>4, <4>3 DEF Forward, Broadcast
        <5>2. stage[c] \in {"absent", "requesting"} => stream'[c] = stream[c]
          BY <2>4 DEF Forward, Broadcast
        <5> QED
          BY <1>0, <3>1, <4>1, <5>1, <5>2 DEF Connected
      <4> QED
        BY <4>2, <4>3
    <3> QED
      BY <1>0, <3>1, <3>2 DEF Connections
  <2> QED
    BY <1>4, <2>1, <2>2, <2>3, <2>4, PanicPlaces DEF Loop, HandleUnfilledArray
<1>5. CASE Pool
  <2>1. CASE StartSync
    <3>1. request \in Subscriber /\ stage[request] = "cached"
      BY <1>0, <2>1 DEF StartSync
    <3>2. /\ stage' = [stage EXCEPT ![request] = "syncing"]
          /\ pooling = "lock" /\ pooling' = "select"
          /\ UNCHANGED <<pool, cache, stream>>
          /\ \A c \in Subscriber : c # request => snapshot'[c] = snapshot[c]
      BY <1>0, <2>1 DEF StartSync
    <3>3. ASSUME NEW c \in Subscriber
          PROVE  Connected(c)'
      <4>1. CASE c = request
        BY <1>0, <3>1, <3>2, <4>1 DEF Connected
      <4>2. CASE c # request
        BY <1>0, <3>1, <3>2, <4>2 DEF Connected
      <4> QED
        BY <4>1, <4>2
    <3> QED
      BY <3>2, <3>3 DEF Connections
  <2>2. ASSUME NEW d \in Subscriber, TakeSyncRequest(d)
        PROVE  Connections'
    BY <1>0, <2>2 DEF TakeSyncRequest, Connections, Connected
  <2> QED
    BY <1>5, <2>1, <2>2 DEF Pool
<1>6. ASSUME NEW d \in Subscriber, Sync(d)
      PROVE  Connections'
  <2>1. stage[d] = "syncing" /\ UNCHANGED poolVars
    BY <1>6 DEF Sync, SyncHead, SyncSeal, SyncCommit, SyncItem, Ready
  <2>2. /\ stage' = stage \/ stage' = [stage EXCEPT ![d] = "ready"]
        /\ stage' = stage \/ (snapshot'[d] = << >> /\ cache'[d] = << >>)
    BY SMTT(30), <1>0, <1>6 DEF Sync, SyncHead, SyncSeal, SyncCommit, SyncItem, Ready
  <2>3. \A c \in Subscriber : c # d =>
          stream'[c] = stream[c] /\ snapshot'[c] = snapshot[c] /\ cache'[c] = cache[c]
    BY <1>0, <1>6 DEF Sync, SyncHead, SyncSeal, SyncCommit, SyncItem, Ready, SendDirect
  <2>4. ASSUME NEW c \in Subscriber
        PROVE  Connected(c)'
    BY <1>0, <2>1, <2>2, <2>3 DEF Connected
  <2> QED
    BY <1>0, <2>1, <2>2, <2>4 DEF Connections
<1>7. CASE Environment
  <2>1. ASSUME NEW d \in Subscriber, Break(d)
        PROVE  Connections'
    BY <1>0, <2>1 DEF Break, Connections, Connected
  <2>2. ASSUME NEW d \in Subscriber, NEW e \in Epochs, RequestSync(d, e)
        PROVE  Connections'
    BY <1>0, <2>2 DEF RequestSync, Connections, Connected
  <2> QED
    BY <1>7, <2>1, <2>2, PanicPlaces DEF Environment, HandshakeFails
<1> QED
  BY <1>2, <1>3, <1>4, <1>5, <1>6, <1>7 DEF ValidatorNext

-----------------------------------------------------------------------------
(* What the calls of the chain keep.                                       *)

(* The blocks that the chain had stay, with their epoch and actions. *)
RecentKept ==
  \A i \in DOMAIN recentBlocks :
    /\ i \in DOMAIN recentBlocks'
    /\ recentBlocks'[i].Epoch = recentBlocks[i].Epoch
    /\ recentBlocks'[i].Actions = recentBlocks[i].Actions

(* No commit is new, and none is changed. *)
CommitsKept ==
  \A i \in DOMAIN recentBlocks' : recentBlocks'[i].Status = StatusCommit =>
    /\ i \in DOMAIN recentBlocks
    /\ recentBlocks[i].Status = StatusCommit
    /\ recentBlocks[i].Epoch = recentBlocks'[i].Epoch
    /\ recentBlocks[i].Invalidated = recentBlocks'[i].Invalidated

(* No block and no action is new. *)
BlocksKept ==
  /\ epoch' = epoch
  /\ live' # NoBlock => live # NoBlock
  /\ \A b \in ChainBlocks' : \E d \in ChainBlocks : b.Epoch = d.Epoch /\ b.Actions = d.Actions

Quiet == RecentKept /\ CommitsKept /\ BlocksKept

LEMMA ChainSame == ASSUME UNCHANGED chainVars PROVE Quiet
BY DEF chainVars, Quiet, RecentKept, CommitsKept, BlocksKept, ChainBlocks

(* A block that is added behind the others. *)
LEMMA AppendKeeps ==
  ASSUME NEW S \in Seq(Block), NEW r \in Block
  PROVE  LET T == Append(S, r)
         IN  /\ \A i \in DOMAIN S : i \in DOMAIN T /\ T[i] = S[i]
             /\ \A i \in DOMAIN T : i \in DOMAIN S \/ T[i] = r
             /\ Range(T) = Range(S) \cup {r}
<1> DEFINE T == Append(S, r)
           n == Len(S)
<1>1. /\ n \in Nat /\ DOMAIN S = 1 .. n /\ DOMAIN T = 1 .. n + 1
      /\ \A i \in 1 .. n : T[i] = S[i]
      /\ T[n + 1] = r
  BY AppendProperties, LenProperties
<1> HIDE DEF T, n
<1>2. /\ \A i \in DOMAIN S : i \in DOMAIN T /\ T[i] = S[i]
      /\ \A i \in DOMAIN T : i \in DOMAIN S \/ i = n + 1
      /\ n + 1 \in DOMAIN T
  BY <1>1
<1>3. Range(T) = Range(S) \cup {r}
  BY <1>1, <1>2 DEF Range
<1> QED
  BY <1>1, <1>2, <1>3 DEF T

(* Validate that refuses, and Validate that accepts. *)
LEMMA ValidateKeeps ==
  ASSUME ChainTypeOK, live # NoBlock => live.Epoch = epoch, NEW input \in Input, Validate(input)
  PROVE  /\ reply'.err # "ok" => Quiet
         /\ reply'.err = "ok" =>
              /\ RecentKept /\ CommitsKept
              /\ epoch' = epoch /\ live # NoBlock /\ live'.Epoch = epoch
              /\ Transform[input] \in Action
              /\ live'.Actions = Append(live.Actions, Transform[input])
              /\ live.Actions \in Seq(Action)
              /\ ChainBlocks' = Range(recentBlocks) \cup {live'}
<1>1. CASE Refuse("rejected", epoch)
  BY <1>1 DEF Refuse, Quiet, RecentKept, CommitsKept, BlocksKept, ChainBlocks
<1>2. CASE /\ Transform[input] # Empty /\ live # NoBlock
           /\ live' = [live EXCEPT !.Actions = Append(@, Transform[input])]
           /\ Ok(epoch)
           /\ UNCHANGED <<epoch, commit, commitEpoch, recentBlocks>>
  <2>1. live \in Block /\ Transform[input] \in Action
    BY <1>2, ChainAssumption DEF ChainTypeOK
  <2>2. live' \in Block
    BY <1>2, <2>1, BlockAppend
  <2>3. live'.Epoch = live.Epoch /\ live'.Actions = Append(live.Actions, Transform[input])
    BY <1>2, <2>1, AppendFields
  <2>4. live' # NoBlock
    BY <2>2, NoBlockAssumption
  <2>5. live.Actions \in Seq(Action)
    BY <2>1 DEF Block
  <2> QED
    BY <1>2, <2>1, <2>3, <2>4, <2>5 DEF Ok, RecentKept, CommitsKept, ChainBlocks
<1> QED
  BY <1>1, <1>2 DEF Validate

LEMMA NextBlockKeeps ==
  ASSUME ChainTypeOK, NEW e \in Epochs, NextBlock(e)
  PROVE  /\ RecentKept /\ CommitsKept
         /\ reply'.err # "ok" => Quiet
         /\ reply'.err = "ok" =>
              /\ epoch' = epoch + 1 /\ live'.Epoch = epoch + 1 /\ live'.Actions = << >>
              /\ \A b \in ChainBlocks' : b # live' =>
                   \E d \in ChainBlocks : b.Epoch = d.Epoch /\ b.Actions = d.Actions
<1>1. CASE Refuse("non-sequential block", e)
  BY <1>1 DEF Refuse, Quiet, RecentKept, CommitsKept, BlocksKept, ChainBlocks
<1>2. CASE /\ recentBlocks' = RetireLive /\ epoch' = epoch + 1
           /\ live' = NewBlock(epoch + 1) /\ Ok(e)
  <2>1. live'.Epoch = epoch + 1 /\ live'.Actions = << >>
    BY <1>2 DEF NewBlock
  <2>2. recentBlocks \in Seq(Block)
    BY DEF ChainTypeOK
  <2>3. CASE live = NoBlock
    <3>1. recentBlocks' = recentBlocks
      BY <1>2, <2>3 DEF RetireLive
    <3> QED
      BY <1>2, <2>1, <3>1 DEF Ok, RecentKept, CommitsKept, ChainBlocks
  <2>4. CASE live # NoBlock
    <3> DEFINE r == [live EXCEPT !.Status = StatusDone, !.mutations = validator]
    <3>1. live \in Block /\ validator \in SUBSET Action
      BY <2>4 DEF ChainTypeOK
    <3>2. r.Epoch = live.Epoch /\ r.Actions = live.Actions /\ r.Status = StatusDone
      BY <3>1, RetireFields
    <3>3. r \in Block
      BY <2>4, RetireType
    <3>4. recentBlocks' = Append(recentBlocks, r)
      BY <1>2, <2>4 DEF RetireLive
    <3> HIDE DEF r
    <3>5. /\ \A i \in DOMAIN recentBlocks :
               i \in DOMAIN recentBlocks' /\ recentBlocks'[i] = recentBlocks[i]
          /\ \A i \in DOMAIN recentBlocks' : i \in DOMAIN recentBlocks \/ recentBlocks'[i] = r
          /\ Range(recentBlocks') = Range(recentBlocks) \cup {r}
      BY <2>2, <3>3, <3>4, AppendKeeps
    <3>6. RecentKept /\ CommitsKept
      BY <3>2, <3>5 DEF RecentKept, CommitsKept, StatusDone, StatusCommit
    <3>7. ASSUME NEW b \in ChainBlocks', b # live'
          PROVE  \E d \in ChainBlocks : b.Epoch = d.Epoch /\ b.Actions = d.Actions
      BY <2>4, <3>2, <3>5, <3>7 DEF ChainBlocks
    <3> QED
      BY <1>2, <2>1, <3>6, <3>7 DEF Ok
  <2> QED
    BY <2>3, <2>4
<1> QED
  BY <1>1, <1>2 DEF NextBlock

LEMMA SealBlockKeeps ==
  ASSUME ChainTypeOK, live # NoBlock => live.Status # StatusCommit, NEW e \in Epochs, SealBlock(e)
  PROVE  Quiet
<1>0. recentBlocks \in Seq(Block)
  BY DEF ChainTypeOK
<1>1. CASE SealLive(e)
  <2>1. /\ live \in Block /\ recentBlocks' = Append(recentBlocks, live)
        /\ epoch' = epoch /\ live' = NoBlock /\ live # NoBlock
    BY <1>1 DEF SealLive, ChainTypeOK
  <2>2. /\ \A i \in DOMAIN recentBlocks :
               i \in DOMAIN recentBlocks' /\ recentBlocks'[i] = recentBlocks[i]
        /\ \A i \in DOMAIN recentBlocks' : i \in DOMAIN recentBlocks \/ recentBlocks'[i] = live
        /\ Range(recentBlocks') = Range(recentBlocks) \cup {live}
    BY <1>0, <2>1, AppendKeeps
  <2> QED
    BY <2>1, <2>2 DEF Quiet, RecentKept, CommitsKept, BlocksKept, ChainBlocks
<1>2. ASSUME NEW err, Refuse(err, e)
      PROVE  Quiet
  BY <1>2 DEF Refuse, Quiet, RecentKept, CommitsKept, BlocksKept, ChainBlocks
<1>3. ASSUME NEW i \in DOMAIN recentBlocks,
             recentBlocks' = [recentBlocks EXCEPT ![i].Status = StatusSealed],
             UNCHANGED <<epoch, live>>
      PROVE  Quiet
  <2> DEFINE r == [recentBlocks[i] EXCEPT !.Status = StatusSealed]
  <2>1. recentBlocks[i] \in Block
    BY RecentBlock
  <2>2. r.Epoch = recentBlocks[i].Epoch /\ r.Actions = recentBlocks[i].Actions /\ r.Status = StatusSealed
    BY <2>1 DEF Block
  <2>3. /\ DOMAIN recentBlocks' = DOMAIN recentBlocks
        /\ recentBlocks'[i] = r
        /\ \A j \in DOMAIN recentBlocks : j # i => recentBlocks'[j] = recentBlocks[j]
    BY <1>0, <1>3
  <2> HIDE DEF r
  <2>4. RecentKept /\ CommitsKept
    BY <2>2, <2>3 DEF RecentKept, CommitsKept, StatusSealed, StatusCommit
  <2>5. \A b \in ChainBlocks' : \E d \in ChainBlocks : b.Epoch = d.Epoch /\ b.Actions = d.Actions
    BY <1>3, <2>2, <2>3 DEF ChainBlocks, Range
  <2> QED
    BY <1>3, <2>4, <2>5 DEF Quiet, BlocksKept
<1> QED
  BY <1>1, <1>2, <1>3 DEF SealBlock, SealRecent

(* A commit that is not refused changes one block, which is the one whose  *)
(* hashes are broadcast.                                                   *)
LEMMA CommitKeeps ==
  ASSUME ChainInv, DenseEpochs, NEW e \in Epochs, NEW h \in SUBSET Action, Commit(e, h)
  PROVE  /\ RecentKept /\ BlocksKept
         /\ reply'.err # "ok" => CommitsKept
         /\ \A i \in DOMAIN recentBlocks' : recentBlocks'[i].Status = StatusCommit =>
              \/ /\ i \in DOMAIN recentBlocks
                 /\ recentBlocks[i].Status = StatusCommit
                 /\ recentBlocks[i].Epoch = recentBlocks'[i].Epoch
                 /\ recentBlocks[i].Invalidated = recentBlocks'[i].Invalidated
              \/ /\ recentBlocks'[i].Epoch = e
                 /\ recentBlocks'[i].Invalidated =
                      UNION {recentBlocks'[k].Invalidated :
                               k \in {j \in DOMAIN recentBlocks : Found(j, e)}}
<1>0. ChainTypeOK /\ recentBlocks \in Seq(Block)
  BY DEF ChainInv, ChainTypeOK
<1>1. ASSUME NEW err, Refuse(err, e)
      PROVE  Quiet
  BY <1>1 DEF Refuse, Quiet, RecentKept, CommitsKept, BlocksKept, ChainBlocks
<1>2. ASSUME NEW i \in DOMAIN recentBlocks, recentBlocks[i].Epoch = e, CommitSealed(i, h)
      PROVE  /\ RecentKept /\ BlocksKept
             /\ reply'.err = "ok"
             /\ \A j \in DOMAIN recentBlocks' : recentBlocks'[j].Status = StatusCommit =>
                  \/ /\ j \in DOMAIN recentBlocks
                     /\ recentBlocks[j].Status = StatusCommit
                     /\ recentBlocks[j].Epoch = recentBlocks'[j].Epoch
                     /\ recentBlocks[j].Invalidated = recentBlocks'[j].Invalidated
                  \/ /\ recentBlocks'[j].Epoch = e
                     /\ recentBlocks'[j].Invalidated =
                          UNION {recentBlocks'[k].Invalidated :
                                   k \in {l \in DOMAIN recentBlocks : Found(l, e)}}
  <2>1. PICK r \in Block :
          /\ r.Epoch = recentBlocks[i].Epoch
          /\ r.Status = StatusCommit
          /\ r.Actions = recentBlocks[i].Actions
          /\ recentBlocks' = [recentBlocks EXCEPT ![i] = r]
          /\ UNCHANGED <<epoch, live, validator>>
    BY <1>2, CommitSealedEffect
  <2>2. /\ DOMAIN recentBlocks' = DOMAIN recentBlocks
        /\ recentBlocks'[i] = r
        /\ \A j \in DOMAIN recentBlocks : j # i => recentBlocks'[j] = recentBlocks[j]
    BY <1>0, <2>1
  <2>3. RecentKept
    BY <2>1, <2>2 DEF RecentKept
  <2>4. \A b \in ChainBlocks' : \E d \in ChainBlocks : b.Epoch = d.Epoch /\ b.Actions = d.Actions
    BY <2>1, <2>2 DEF ChainBlocks, Range
  <2>5. BlocksKept
    BY <2>1, <2>4 DEF BlocksKept
  <2>6. reply'.err = "ok"
    BY <1>2 DEF CommitSealed, Ok
  <2>7. DOMAIN recentBlocks = 1 .. Len(recentBlocks) /\ Len(recentBlocks) \in Nat /\ StartEpoch \in Nat
    BY <1>0, RecentSeq
  <2>8. \A j \in DOMAIN recentBlocks : recentBlocks[j].Epoch = e => j = i
    BY <1>2, <2>7 DEF DenseEpochs
  <2>9. Found(i, e)
    <3>1. \A j \in 1 .. i - 1 : j \in DOMAIN recentBlocks /\ j # i
      BY <2>7
    <3> QED
      BY <1>2, <2>8, <3>1 DEF Found
  <2>10. {l \in DOMAIN recentBlocks : Found(l, e)} = {i}
    BY <2>8, <2>9 DEF Found
  <2>11. UNION {recentBlocks'[k].Invalidated : k \in {l \in DOMAIN recentBlocks : Found(l, e)}}
           = recentBlocks'[i].Invalidated
    BY <2>10
  <2>12. recentBlocks'[i].Epoch = e
    BY <1>2, <2>1, <2>2
  <2> QED
    BY <2>2, <2>3, <2>5, <2>6, <2>11, <2>12
<1> QED
  BY <1>1, <1>2 DEF Commit, Quiet, CommitsKept

-----------------------------------------------------------------------------
(* The goroutine of Sync, one step at a time.                              *)

(* No call takes a block from the chain or changes its actions. *)
LEMMA CallKeepsRecent ==
  ASSUME NodeInv, [NodeCall]_chainVars
  PROVE  RecentKept
<1>1. ChainTypeOK /\ ChainInv /\ DenseEpochs
  BY NodeInvImplies DEF NodeInv, ChainInv
<1>2. /\ live # NoBlock => live.Epoch = epoch
      /\ live # NoBlock => live.Status # StatusCommit
  BY <1>1 DEF ChainInv, EpochOrder, LiveParts, StatusLive, StatusCommit
<1>3. CASE UNCHANGED chainVars
  BY <1>3, ChainSame DEF Quiet
<1>4. ASSUME NEW input \in Input, Validate(input)
      PROVE  RecentKept
  <2>1. /\ reply'.err # "ok" => Quiet
        /\ reply'.err = "ok" => RecentKept
    BY <1>1, <1>2, <1>4, ValidateKeeps
  <2> QED
    BY <2>1 DEF Quiet
<1>5. ASSUME NEW e \in Epochs, NextBlock(e)
      PROVE  RecentKept
  BY <1>1, <1>5, NextBlockKeeps
<1>6. ASSUME NEW e \in Epochs, SealBlock(e)
      PROVE  RecentKept
  <2>1. Quiet
    BY <1>1, <1>2, <1>6, SealBlockKeeps
  <2> QED
    BY <2>1 DEF Quiet
<1>7. ASSUME NEW e \in Epochs, NEW h \in SUBSET Action, Commit(e, h)
      PROVE  RecentKept
  BY <1>1, <1>7, CommitKeeps
<1> QED
  BY <1>3, <1>4, <1>5, <1>6, <1>7 DEF NodeCall

LEMMA ItemsKept ==
  ASSUME NEW items \in Seq(SnapshotItem), ItemsIn(items, recentBlocks), RecentKept
  PROVE  ItemsIn(items, recentBlocks')
BY DEF ItemsIn, RecentKept

(* The first item of a snapshot, once something of it has been sent. *)
LEMMA AdvancedIs ==
  ASSUME NEW items \in Seq(SnapshotItem), items # << >>, NEW x \in {"head", "seal", "commit"}
  PROVE  LET t == [items EXCEPT ![1].next = x]
         IN  /\ t \in Seq(SnapshotItem) /\ t # << >> /\ Tail(t) = Tail(items)
             /\ Head(t).next = x
             /\ \A S : ItemsIn(items, S) => ItemsIn(t, S)
             /\ \A i : (\E item \in Range(items) : item.block = i) =>
                         \E item \in Range(t) : item.block = i
<1> DEFINE r == [items[1] EXCEPT !.next = x]
           t == [items EXCEPT ![1] = r]
           n == Len(items)
<1>1. n \in Nat /\ n >= 1 /\ DOMAIN items = 1 .. n /\ \A k \in 1 .. n : items[k] \in SnapshotItem
  BY EmptySeq, LenProperties
<1>2. r \in SnapshotItem /\ r.next = x /\ r.block = items[1].block
      /\ r.epoch = items[1].epoch /\ r.actions = items[1].actions
  <2>1. items[1] \in SnapshotItem
    BY <1>1
  <2> QED
    BY <2>1 DEF SnapshotItem
<1> HIDE DEF r
<1>3. /\ t \in Seq(SnapshotItem) /\ Len(t) = n /\ DOMAIN t = 1 .. n
      /\ t[1] = r /\ \A k \in 2 .. n : t[k] = items[k]
  BY <1>1, <1>2, ExceptSeq
<1> HIDE DEF t, n
<1>4. t # << >>
  BY <1>1, <1>3
<1>5. Tail(t) = Tail(items)
  <2>1. /\ Tail(t) \in Seq(SnapshotItem) /\ Len(Tail(t)) = n - 1
        /\ \A i \in 1 .. n - 1 : Tail(t)[i] = t[i + 1]
    BY <1>3, <1>4, HeadTailProperties
  <2>2. /\ Tail(items) \in Seq(SnapshotItem) /\ Len(Tail(items)) = n - 1
        /\ \A i \in 1 .. n - 1 : Tail(items)[i] = items[i + 1]
    BY HeadTailProperties DEF n
  <2>3. \A i \in 1 .. n - 1 : t[i + 1] = items[i + 1]
    BY <1>1, <1>3
  <2> QED
    BY <2>1, <2>2, <2>3, SeqEqual
<1>6. Head(t).next = x
  BY <1>2, <1>3, <1>4
<1>7. ASSUME NEW S, ItemsIn(items, S)
      PROVE  ItemsIn(t, S)
  <2>1. \A k \in 1 .. n : /\ k > 1 => items[k].next = "head"
                          /\ items[k].block # 0 => /\ items[k].block \in DOMAIN S
                                                   /\ S[items[k].block].Epoch = items[k].epoch
                                                   /\ S[items[k].block].Actions = items[k].actions
    BY <1>7 DEF ItemsIn, n
  <2>2. ASSUME NEW k \in 1 .. n
        PROVE  /\ k > 1 => t[k].next = items[k].next
               /\ t[k].block = items[k].block /\ t[k].epoch = items[k].epoch
               /\ t[k].actions = items[k].actions
    <3>1. k = 1 \/ k \in 2 .. n
      BY <1>1
    <3> QED
      BY <1>1, <1>2, <1>3, <3>1
  <2> QED
    BY <1>3, <2>1, <2>2 DEF ItemsIn
<1>8. ASSUME NEW i, NEW item \in Range(items), item.block = i
      PROVE  \E other \in Range(t) : other.block = i
  <2>1. PICK k \in 1 .. n : item = items[k]
    BY <1>1 DEF Range
  <2>2. t[k].block = i
    BY <1>1, <1>2, <1>3, <1>8, <2>1
  <2> QED
    BY <1>3, <2>1, <2>2 DEF Range
<1>9. [items EXCEPT ![1].next = x] = t
  BY DEF t, r
<1> QED
  BY <1>3, <1>4, <1>5, <1>6, <1>7, <1>8, <1>9

(* The items that are left once the first one is done. *)
LEMMA TailItems ==
  ASSUME NEW items \in Seq(SnapshotItem), items # << >>
  PROVE  LET t == Tail(items)
         IN  /\ t \in Seq(SnapshotItem)
             /\ \A S : ItemsIn(items, S) =>
                  /\ ItemsIn(t, S)
                  /\ \A k \in 1 .. Len(t) : t[k].next = "head"
             /\ \A i : (\E item \in Range(items) : item.block = i) =>
                  Head(items).block = i \/ \E item \in Range(t) : item.block = i
<1> DEFINE t == Tail(items)
           n == Len(items)
<1>1. /\ n \in Nat /\ n >= 1 /\ DOMAIN items = 1 .. n
      /\ t \in Seq(SnapshotItem) /\ Len(t) = n - 1 /\ DOMAIN t = 1 .. n - 1
      /\ \A k \in 1 .. n - 1 : t[k] = items[k + 1]
      /\ Head(items) = items[1]
  BY HeadTailProperties, LenProperties, EmptySeq
<1> HIDE DEF t, n
<1>2. ASSUME NEW S, ItemsIn(items, S)
      PROVE  ItemsIn(t, S) /\ \A k \in 1 .. Len(t) : t[k].next = "head"
  <2>1. \A k \in 1 .. n : /\ k > 1 => items[k].next = "head"
                          /\ items[k].block # 0 => /\ items[k].block \in DOMAIN S
                                                   /\ S[items[k].block].Epoch = items[k].epoch
                                                   /\ S[items[k].block].Actions = items[k].actions
    BY <1>2 DEF ItemsIn, n
  <2>2. \A k \in 1 .. n - 1 : k + 1 \in 1 .. n /\ k + 1 > 1
    BY <1>1
  <2> QED
    BY <1>1, <2>1, <2>2 DEF ItemsIn
<1>3. ASSUME NEW i, NEW item \in Range(items), item.block = i
      PROVE  Head(items).block = i \/ \E other \in Range(t) : other.block = i
  <2>1. PICK k \in 1 .. n : item = items[k]
    BY <1>1 DEF Range
  <2>2. CASE k = 1
    BY <1>1, <1>3, <2>1, <2>2
  <2>3. CASE k # 1
    <3>1. k - 1 \in 1 .. n - 1 /\ t[k - 1] = items[k]
      BY <1>1, <2>3
    <3> QED
      BY <1>1, <1>3, <2>1, <3>1 DEF Range
  <2> QED
    BY <2>2, <2>3
<1> QED
  BY <1>1, <1>2, <1>3 DEF t

-----------------------------------------------------------------------------
(* What the goroutine of Sync does to its subscriber. *)

LEMMA SyncHeadEffect ==
  ASSUME QueuesOK, NEW c \in Subscriber, SyncHead(c)
  PROVE  /\ snapshot[c] # << >> /\ Head(snapshot[c]).next = "head"
         /\ HeadMessages(Head(snapshot[c])) \in Seq(Message)
         /\ stream' = [stream EXCEPT ![c] = stream[c] \o HeadMessages(Head(snapshot[c]))]
         /\ snapshot' = [snapshot EXCEPT ![c] = [snapshot[c] EXCEPT ![1].next = "seal"]]
<1>1. snapshot[c] # << >> /\ Head(snapshot[c]).next = "head"
  BY DEF SyncHead, SyncItem
<1>2. Head(snapshot[c]) \in SnapshotItem
  BY <1>1, HeadTailProperties DEF QueuesOK
<1>3. HeadMessages(Head(snapshot[c])) \in Seq(Message)
  BY <1>2, HeadMessagesAre
<1> QED
  BY <1>1, <1>3 DEF SyncHead, SendDirect

LEMMA SyncSealEffect ==
  ASSUME QueuesOK, NEW c \in Subscriber, SyncSeal(c)
  PROVE  /\ snapshot[c] # << >> /\ Head(snapshot[c]).next = "seal"
         /\ \/ UNCHANGED stream
            \/ \E m \in Message : /\ m.type = "seal"
                                  /\ stream' = [stream EXCEPT ![c] = stream[c] \o <<m>>]
         /\ snapshot' = [snapshot EXCEPT ![c] = [snapshot[c] EXCEPT ![1].next = "commit"]]
<1>1. snapshot[c] # << >> /\ Head(snapshot[c]).next = "seal"
  BY DEF SyncSeal, SyncItem
<1>2. Head(snapshot[c]).epoch \in Nat
  <2>1. Head(snapshot[c]) \in SnapshotItem
    BY <1>1, HeadTailProperties DEF QueuesOK
  <2> QED
    BY <2>1 DEF SnapshotItem
<1> DEFINE m == Msg("seal", "snapshot", Head(snapshot[c]).epoch)
<1>3. m \in Message /\ m.type = "seal"
  BY <1>2, MessageType DEF Msg
<1>4. UNCHANGED stream \/ stream' = [stream EXCEPT ![c] = stream[c] \o <<m>>]
  BY DEF SyncSeal, SendDirect
<1>5. snapshot' = [snapshot EXCEPT ![c] = [snapshot[c] EXCEPT ![1].next = "commit"]]
  BY DEF SyncSeal
<1> HIDE DEF m
<1> QED
  BY <1>1, <1>3, <1>4, <1>5

LEMMA SyncCommitEffect ==
  ASSUME QueuesOK, ItemsOK, ChainTypeOK, NEW c \in Subscriber, SyncCommit(c)
  PROVE  /\ snapshot[c] # << >> /\ Head(snapshot[c]).next = "commit"
         /\ \/ UNCHANGED stream
            \/ \E m \in Message : /\ m.type = "commit"
                                  /\ stream' = [stream EXCEPT ![c] = stream[c] \o <<m>>]
         /\ LET i == Head(snapshot[c]).block
            IN  i \in DOMAIN recentBlocks /\ recentBlocks[i].Status = StatusCommit =>
                  \E m \in Message :
                    /\ m.type = "commit" /\ m.epoch = recentBlocks[i].Epoch
                    /\ m.invalidated = recentBlocks[i].Invalidated
                    /\ stream' = [stream EXCEPT ![c] = stream[c] \o <<m>>]
         /\ snapshot' = [snapshot EXCEPT ![c] = Tail(snapshot[c])]
<1> DEFINE item == Head(snapshot[c])
           m == Msg("commit", "snapshot", item.epoch)
           full == [m EXCEPT !.invalidated = recentBlocks[item.block].Invalidated]
<1>1. /\ snapshot[c] # << >> /\ item.next = "commit"
      /\ snapshot' = [snapshot EXCEPT ![c] = Tail(snapshot[c])]
  BY DEF SyncCommit, SyncItem
<1>2. item.epoch \in Nat /\ item.block \in Nat
  <2>1. item \in SnapshotItem
    BY <1>1, HeadTailProperties DEF QueuesOK
  <2> QED
    BY <2>1 DEF SnapshotItem
<1>3. item.block # 0 => /\ item.block \in DOMAIN recentBlocks
                        /\ recentBlocks[item.block].Epoch = item.epoch
  <2>1. snapshot[c] \in Seq(SnapshotItem) /\ ItemsIn(snapshot[c], recentBlocks)
    BY DEF QueuesOK, ItemsOK
  <2>2. 1 \in 1 .. Len(snapshot[c]) /\ item = snapshot[c][1]
    BY <1>1, <2>1, EmptySeq
  <2> QED
    BY <2>1, <2>2 DEF ItemsIn
<1>4. ~ (0 \in DOMAIN recentBlocks)
  BY SMTT(30), RecentSeq
<1>5. /\ \/ /\ StatusOf(item) >= StatusCommit
            /\ stream' = [stream EXCEPT ![c] = stream[c] \o <<full>>]
         \/ /\ StatusOf(item) < StatusCommit
            /\ UNCHANGED stream
         \/ /\ CommitUnderWay(item.block)
            /\ stream' = [stream EXCEPT ![c] = stream[c] \o <<m>>]
  BY DEF SyncCommit, SendDirect
<1>6. m \in Message /\ m.type = "commit"
  BY <1>2, MessageType DEF Msg
<1>7. StatusOf(item) >= StatusCommit => item.block # 0
  BY DEF StatusOf, StatusLive, StatusCommit
<1>8. item.block # 0 => recentBlocks[item.block].Invalidated \in SUBSET Action
  BY <1>3, RecentBlock DEF Block
<1>9. item.block # 0 => full \in Message
  BY <1>2, <1>8, MessageType
<1>10. /\ full.type = "commit" /\ full.epoch = item.epoch
       /\ full.invalidated = recentBlocks[item.block].Invalidated
  BY DEF Msg
<1> HIDE DEF m, full
<1>11. UNCHANGED stream \/ \E w \in Message : /\ w.type = "commit"
                                              /\ stream' = [stream EXCEPT ![c] = stream[c] \o <<w>>]
  BY <1>5, <1>6, <1>7, <1>9, <1>10
<1>12. ASSUME item.block \in DOMAIN recentBlocks, recentBlocks[item.block].Status = StatusCommit
       PROVE  \E w \in Message :
                /\ w.type = "commit" /\ w.epoch = recentBlocks[item.block].Epoch
                /\ w.invalidated = recentBlocks[item.block].Invalidated
                /\ stream' = [stream EXCEPT ![c] = stream[c] \o <<w>>]
  <2>1. item.block # 0
    BY <1>4, <1>12
  <2>2. StatusOf(item) = StatusCommit
    BY <1>12, <2>1 DEF StatusOf
  <2>3. ~ (StatusOf(item) < StatusCommit)
    BY <2>2 DEF StatusCommit
  <2>4. ~ CommitUnderWay(item.block)
    BY <1>12 DEF CommitUnderWay, StatusSealed, StatusCommit
  <2>5. stream' = [stream EXCEPT ![c] = stream[c] \o <<full>>]
    BY <1>5, <2>3, <2>4
  <2> QED
    BY <1>3, <1>9, <1>10, <2>1, <2>5
<1> QED
  BY <1>1, <1>11, <1>12

LEMMA ReadyEffect ==
  ASSUME QueuesOK, NEW c \in Subscriber, Ready(c)
  PROVE  /\ snapshot[c] = << >> /\ UNCHANGED snapshot
         /\ stream' = [stream EXCEPT ![c] = stream[c] \o cache[c]]
         /\ cache' = [cache EXCEPT ![c] = << >>]
BY DEF Ready, SendDirect

-----------------------------------------------------------------------------
(* The queues of the subscribers.                                          *)

LEMMA EpochsNat == Epochs \subseteq Nat
BY ChainAssumption DEF Epochs

(* What Sync collects for the subscriber whose request the pool loop has   *)
(* taken.                                                                  *)
LEMMA StartSyncEffect ==
  ASSUME PlacesOK, QueuesOK, Connections, NodeInv, StartSync
  PROVE  /\ request \in Subscriber /\ stage[request] = "cached" /\ request \in pool
         /\ since[request] \in Nat
         /\ snapshot' = [snapshot EXCEPT ![request] = SyncBlocks(since[request])]
         /\ stage' = [stage EXCEPT ![request] = "syncing"]
         /\ stream[request] = << >> /\ cache[request] = << >>
         /\ UNCHANGED <<chainVars, listenerVars, loopVars, pool, since, cache, stream>>
         /\ LET items == SyncBlocks(since[request])
            IN  /\ items \in Seq(SnapshotItem)
                /\ live # NoBlock => items # << >>
                /\ \A k \in 1 .. Len(items) :
                     /\ items[k].epoch = (epoch - Len(items)) + k
                     /\ items[k].next = "head"
                     /\ items[k].block # 0 =>
                          /\ items[k].block \in DOMAIN recentBlocks
                          /\ recentBlocks[items[k].block].Epoch = items[k].epoch
                          /\ recentBlocks[items[k].block].Actions = items[k].actions
                /\ \A b \in ChainBlocks : b.Epoch > since[request] =>
                     \E k \in 1 .. Len(items) :
                       items[k].epoch = b.Epoch /\ items[k].actions = b.Actions
                /\ \A i \in DOMAIN recentBlocks : recentBlocks[i].Epoch > since[request] =>
                     \E item \in Range(items) : item.block = i
<1>1. request \in Subscriber /\ stage[request] = "cached" /\ Connected(request)
  BY DEF StartSync, Connections
<1>2. since[request] \in Nat
  BY <1>1, EpochsNat DEF PlacesOK
<1>3. ChainTypeOK /\ DenseEpochs /\ (live # NoBlock => live.Epoch = epoch)
  BY NodeInvImplies DEF NodeInv, ChainInv, EpochOrder
<1>4. /\ request \in pool /\ stream[request] = << >> /\ cache[request] = << >>
  BY <1>1 DEF Connected
<1>5. /\ snapshot' = [snapshot EXCEPT ![request] = SyncBlocks(since[request])]
      /\ stage' = [stage EXCEPT ![request] = "syncing"]
      /\ UNCHANGED <<chainVars, listenerVars, loopVars, pool, since, cache, stream>>
  BY DEF StartSync
<1> QED
  BY <1>1, <1>2, <1>3, <1>4, <1>5, SyncBlocksAre

(* Steps that leave the queues of the subscribers alone. *)
LEMMA QueuesAlone ==
  ASSUME [ValidatorNext]_nodeVars
  PROVE  \/ UNCHANGED <<snapshot, cache, stream>>
         \/ Forward
         \/ StartSync
         \/ Panic
         \/ \E c \in Subscriber : Sync(c) \/ Break(c)
<1> USE DEF subscriberVars
<1>1. CASE UNCHANGED nodeVars
  BY <1>1 DEF nodeVars
<1>2. CASE Listen
  BY <1>2 DEF Listen, ReadMessage, ReadError
<1>3. CASE Loop
  BY <1>3 DEF Loop, Dial, Receive, HandleError, DropDead, HandleNewBlock, HandleAction,
              HandleActionArray, HandleUnfilledArray, HandleSeal, HandleCommit
<1>4. CASE Pool
  BY <1>4 DEF Pool, TakeSyncRequest
<1>5. CASE Environment
  BY <1>5 DEF Environment, RequestSync, HandshakeFails
<1> QED
  BY <1>1, <1>2, <1>3, <1>4, <1>5 DEF ValidatorNext

LEMMA QueuesStep ==
  ASSUME PlacesOK, QueuesOK, Connections, ItemsOK, NodeInv, RecentKept, [ValidatorNext]_nodeVars
  PROVE  QueuesOK' /\ ItemsOK'
<1>0. /\ snapshot \in [Subscriber -> Seq(SnapshotItem)]
      /\ cache \in [Subscriber -> Seq(Message)]
      /\ stream \in [Subscriber -> Seq(Message)]
      /\ \A c \in Subscriber : ItemsIn(snapshot[c], recentBlocks)
      /\ ChainTypeOK
  BY DEF QueuesOK, ItemsOK, NodeInv, ChainInv
<1>1. \A c \in Subscriber : ItemsIn(snapshot[c], recentBlocks')
  <2> SUFFICES ASSUME NEW c \in Subscriber PROVE ItemsIn(snapshot[c], recentBlocks')
    OBVIOUS
  <2>1. snapshot[c] \in Seq(SnapshotItem) /\ ItemsIn(snapshot[c], recentBlocks)
    BY <1>0
  <2> QED
    BY <2>1, ItemsKept
(* Only the snapshot of one subscriber changes. *)
<1>2. ASSUME NEW c \in Subscriber, NEW items \in Seq(SnapshotItem),
             ItemsIn(items, recentBlocks'),
             snapshot' = [snapshot EXCEPT ![c] = items]
      PROVE  snapshot' \in [Subscriber -> Seq(SnapshotItem)] /\ ItemsOK'
  <2>1. snapshot' \in [Subscriber -> Seq(SnapshotItem)]
    BY <1>0, <1>2
  <2>2. \A d \in Subscriber : snapshot'[d] = IF d = c THEN items ELSE snapshot[d]
    BY <1>0, <1>2
  <2> QED
    BY <1>1, <1>2, <2>1, <2>2 DEF ItemsOK
<1>3. ASSUME NEW c \in Subscriber, NEW q \in Seq(Message),
             stream' = [stream EXCEPT ![c] = stream[c] \o q]
      PROVE  stream' \in [Subscriber -> Seq(Message)]
  <2>1. stream[c] \o q \in Seq(Message)
    BY <1>0, ConcatProperties
  <2> QED
    BY <1>0, <1>3, <2>1
<1>4. UNCHANGED snapshot => snapshot' \in [Subscriber -> Seq(SnapshotItem)] /\ ItemsOK'
  BY <1>0, <1>1 DEF ItemsOK
<1>5. CASE UNCHANGED <<snapshot, cache, stream>>
  BY <1>0, <1>4, <1>5 DEF QueuesOK
<1>6. CASE Forward
  <2>1. UNCHANGED snapshot
    BY <1>6 DEF Forward
  <2>2. out \in Message
    BY DEF PlacesOK
  <2>3. \A c \in Subscriber : /\ Append(stream[c], out) \in Seq(Message)
                              /\ Append(cache[c], out) \in Seq(Message)
    BY <1>0, <2>2, AppendProperties
  <2>4. stream' \in [Subscriber -> Seq(Message)] /\ cache' \in [Subscriber -> Seq(Message)]
    BY <1>0, <1>6, <2>3 DEF Forward, Broadcast
  <2> QED
    BY <1>4, <2>1, <2>4 DEF QueuesOK
<1>7. CASE StartSync
  <2> DEFINE items == SyncBlocks(since[request])
  <2>1. /\ request \in Subscriber
        /\ snapshot' = [snapshot EXCEPT ![request] = items]
        /\ items \in Seq(SnapshotItem)
        /\ UNCHANGED <<cache, stream, recentBlocks>>
        /\ \A k \in 1 .. Len(items) :
             /\ items[k].next = "head"
             /\ items[k].block # 0 => /\ items[k].block \in DOMAIN recentBlocks
                                      /\ recentBlocks[items[k].block].Epoch = items[k].epoch
                                      /\ recentBlocks[items[k].block].Actions = items[k].actions
    BY <1>7, StartSyncEffect DEF chainVars
  <2> HIDE DEF items
  <2>2. ItemsIn(items, recentBlocks')
    BY <2>1 DEF ItemsIn
  <2> QED
    BY <1>0, <1>2, <2>1, <2>2 DEF QueuesOK
<1>8. ASSUME NEW c \in Subscriber, SyncHead(c) \/ SyncSeal(c) \/ SyncCommit(c) \/ Ready(c)
      PROVE  QueuesOK' /\ ItemsOK'
  <2>0. snapshot[c] \in Seq(SnapshotItem) /\ ItemsIn(snapshot[c], recentBlocks')
    BY <1>0, <1>1
  <2>1. ASSUME NEW x \in {"seal", "commit"}, snapshot[c] # << >>
        PROVE  LET t == [snapshot[c] EXCEPT ![1].next = x]
               IN  t \in Seq(SnapshotItem) /\ ItemsIn(t, recentBlocks')
    BY <2>0, <2>1, AdvancedIs
  <2>2. CASE SyncHead(c)
    <3>1. /\ snapshot[c] # << >>
          /\ HeadMessages(Head(snapshot[c])) \in Seq(Message)
          /\ stream' = [stream EXCEPT ![c] = stream[c] \o HeadMessages(Head(snapshot[c]))]
          /\ snapshot' = [snapshot EXCEPT ![c] = [snapshot[c] EXCEPT ![1].next = "seal"]]
      BY <2>2, SyncHeadEffect
    <3>2. stream' \in [Subscriber -> Seq(Message)]
      BY <1>3, <3>1
    <3>3. snapshot' \in [Subscriber -> Seq(SnapshotItem)] /\ ItemsOK'
      BY <1>2, <2>1, <3>1
    <3>4. cache' = cache
      BY <2>2 DEF SyncHead, SyncItem
    <3> QED
      BY <1>0, <3>2, <3>3, <3>4 DEF QueuesOK
  <2>3. CASE SyncSeal(c)
    <3>1. /\ snapshot[c] # << >>
          /\ \/ UNCHANGED stream
             \/ \E m \in Message : stream' = [stream EXCEPT ![c] = stream[c] \o <<m>>]
          /\ snapshot' = [snapshot EXCEPT ![c] = [snapshot[c] EXCEPT ![1].next = "commit"]]
      BY <2>3, SyncSealEffect
    <3>2. \A m \in Message : <<m>> \in Seq(Message)
      OBVIOUS
    <3>3. stream' \in [Subscriber -> Seq(Message)]
      BY <1>0, <1>3, <3>1, <3>2
    <3>4. snapshot' \in [Subscriber -> Seq(SnapshotItem)] /\ ItemsOK'
      BY <1>2, <2>1, <3>1
    <3>5. cache' = cache
      BY <2>3 DEF SyncSeal, SyncItem
    <3> QED
      BY <1>0, <3>3, <3>4, <3>5 DEF QueuesOK
  <2>4. CASE SyncCommit(c)
    <3>1. /\ snapshot[c] # << >>
          /\ \/ UNCHANGED stream
             \/ \E m \in Message : stream' = [stream EXCEPT ![c] = stream[c] \o <<m>>]
          /\ snapshot' = [snapshot EXCEPT ![c] = Tail(snapshot[c])]
      BY <1>0, <2>4, SyncCommitEffect
    <3>2. \A m \in Message : <<m>> \in Seq(Message)
      OBVIOUS
    <3>3. stream' \in [Subscriber -> Seq(Message)]
      BY <1>0, <1>3, <3>1, <3>2
    <3>4. Tail(snapshot[c]) \in Seq(SnapshotItem) /\ ItemsIn(Tail(snapshot[c]), recentBlocks')
      BY <2>0, <3>1, TailItems
    <3>5. snapshot' \in [Subscriber -> Seq(SnapshotItem)] /\ ItemsOK'
      BY <1>2, <3>1, <3>4
    <3>6. cache' = cache
      BY <2>4 DEF SyncCommit, SyncItem
    <3> QED
      BY <1>0, <3>3, <3>5, <3>6 DEF QueuesOK
  <2>5. CASE Ready(c)
    <3>1. /\ UNCHANGED snapshot
          /\ stream' = [stream EXCEPT ![c] = stream[c] \o cache[c]]
          /\ cache' = [cache EXCEPT ![c] = << >>]
      BY <2>5, ReadyEffect
    <3>2. cache[c] \in Seq(Message) /\ << >> \in Seq(Message)
      BY <1>0
    <3>3. stream' \in [Subscriber -> Seq(Message)]
      BY <1>3, <3>1, <3>2
    <3>4. cache' \in [Subscriber -> Seq(Message)]
      BY <1>0, <3>1, <3>2
    <3> QED
      BY <1>4, <3>1, <3>3, <3>4 DEF QueuesOK
  <2> QED
    BY <1>8, <2>2, <2>3, <2>4, <2>5
<1>9. ASSUME NEW c \in Subscriber, Break(c)
      PROVE  QueuesOK' /\ ItemsOK'
  <2>1. /\ snapshot' = [snapshot EXCEPT ![c] = << >>]
        /\ cache' = [cache EXCEPT ![c] = << >>]
        /\ stream' = [stream EXCEPT ![c] = << >>]
    BY <1>9 DEF Break
  <2>2. << >> \in Seq(SnapshotItem) /\ << >> \in Seq(Message) /\ Len(<< >>) = 0
    OBVIOUS
  <2>3. ItemsIn(<< >>, recentBlocks')
    BY <2>2 DEF ItemsIn
  <2> QED
    BY <1>0, <1>2, <2>1, <2>2, <2>3 DEF QueuesOK
<1> QED
  BY <1>5, <1>6, <1>7, <1>8, <1>9, QueuesAlone, PanicPlaces DEF Sync

-----------------------------------------------------------------------------
(* What a subscriber is told.                                              *)

(* What a subscriber that asked for the blocks after epoch s knows of the  *)
(* blocks B from the messages P, when e is the live epoch and L the live   *)
(* block.  That P ends with the live epoch is what makes the next block    *)
(* follow and what puts the next action into the right block.              *)
ToldBlocks(P, s, e, L, B) ==
  /\ InOrder(P, e)
  /\ L # NoBlock => News(P) # {}
  /\ \A b \in B : b.Epoch > s => ReceivedActions(P, b.Epoch) = Range(b.Actions)

ToldCommit(P, b) ==
  \E m \in Range(P) : m.type = "commit" /\ m.epoch = b.Epoch /\ m.invalidated = b.Invalidated

(* What it knows of the commits of the recent blocks S, or will know from  *)
(* the items that are not sent yet.                                        *)
ToldCommits(P, s, S, items) ==
  \A i \in DOMAIN S : S[i].Epoch > s /\ S[i].Status = StatusCommit =>
    ToldCommit(P, S[i]) \/ \E item \in Range(items) : item.block = i

StreamOK(c) ==
  /\ ToldBlocks(Promised(c), since[c], epoch, live, ChainBlocks)
  /\ ToldCommits(Promised(c), since[c], recentBlocks, snapshot[c])

StreamsOK == \A c \in Served : StreamOK(c)

-----------------------------------------------------------------------------
(* The chain changes, or the messages do. *)

LEMMA ToldQuiet ==
  ASSUME NEW P, NEW s, BlocksKept, ToldBlocks(P, s, epoch, live, ChainBlocks)
  PROVE  ToldBlocks(P, s, epoch', live', ChainBlocks')
BY DEF BlocksKept, ToldBlocks

LEMMA ToldCommitsKept ==
  ASSUME NEW P, NEW s, NEW items, CommitsKept, ToldCommits(P, s, recentBlocks, items)
  PROVE  ToldCommits(P, s, recentBlocks', items)
<1> SUFFICES ASSUME NEW i \in DOMAIN recentBlocks', recentBlocks'[i].Epoch > s,
                    recentBlocks'[i].Status = StatusCommit
             PROVE  ToldCommit(P, recentBlocks'[i]) \/ \E item \in Range(items) : item.block = i
  BY DEF ToldCommits
<1>1. /\ i \in DOMAIN recentBlocks
      /\ recentBlocks[i].Status = StatusCommit
      /\ recentBlocks[i].Epoch = recentBlocks'[i].Epoch
      /\ recentBlocks[i].Invalidated = recentBlocks'[i].Invalidated
  BY DEF CommitsKept
<1>2. ToldCommit(P, recentBlocks[i]) \/ \E item \in Range(items) : item.block = i
  BY <1>1 DEF ToldCommits
<1> QED
  BY <1>1, <1>2 DEF ToldCommit

LEMMA ToldMore ==
  ASSUME NEW P, NEW Q, Range(P) \subseteq Range(Q), NEW s, NEW S, NEW items,
         ToldCommits(P, s, S, items)
  PROVE  ToldCommits(Q, s, S, items)
BY DEF ToldCommits, ToldCommit

LEMMA ToldInsert ==
  ASSUME NEW A \in Seq(Message), NEW B \in Seq(Message),
         NEW m \in Message, m.type \in {"seal", "commit"},
         NEW s, NEW e \in Nat, NEW L, NEW C, ToldBlocks(A \o B, s, e, L, C)
  PROVE  /\ ToldBlocks((A \o <<m>>) \o B, s, e, L, C)
         /\ Range(A \o B) \subseteq Range((A \o <<m>>) \o B)
         /\ m \in Range((A \o <<m>>) \o B)
<1>1. LET P == A \o B
          Q == (A \o <<m>>) \o B
      IN  /\ \A x \in Nat : InOrder(P, x) => InOrder(Q, x)
          /\ News(P) # {} => News(Q) # {}
          /\ \A x : ReceivedActions(Q, x) = ReceivedActions(P, x)
          /\ Range(P) \subseteq Range(Q) /\ m \in Range(Q)
  BY Insert
<1> QED
  BY <1>1 DEF ToldBlocks

-----------------------------------------------------------------------------
(* The parts of what is promised to a subscriber. *)

Waiting == IF loop = "forward" THEN <<out>> ELSE << >>

LEMMA Parts ==
  ASSUME QueuesOK, PlacesOK, NEW c \in Subscriber
  PROVE  /\ stream[c] \in Seq(Message) /\ StillSent(snapshot[c]) \in Seq(Message)
         /\ cache[c] \in Seq(Message) /\ Waiting \in Seq(Message)
         /\ Promised(c) \in Seq(Message)
         /\ Promised(c) = (stream[c] \o StillSent(snapshot[c])) \o (cache[c] \o Waiting)
<1>1. snapshot[c] \in Seq(SnapshotItem) /\ stream[c] \in Seq(Message) /\ cache[c] \in Seq(Message)
  BY DEF QueuesOK
<1>2. StillSent(snapshot[c]) \in Seq(Message)
  <2>1. snapshot[c] # << >> => Tail(snapshot[c]) \in Seq(SnapshotItem)
    BY <1>1, HeadTailProperties
  <2> QED
    BY <1>1, <2>1, UnsentIs DEF StillSent
<1>3. Waiting \in Seq(Message)
  BY DEF Waiting, PlacesOK
<1>4. Promised(c) = (stream[c] \o StillSent(snapshot[c])) \o (cache[c] \o Waiting)
  BY DEF Promised, Waiting
<1>5. Promised(c) \in Seq(Message)
  BY <1>1, <1>2, <1>3, <1>4, ConcatProperties
<1> QED
  BY <1>1, <1>2, <1>3, <1>4, <1>5

LEMMA Units ==
  /\ \A a \in Seq(Message) : a \o << >> = a /\ << >> \o a = a
  /\ \A a, b \in Seq(Message) : a \o b \in Seq(Message)
BY ConcatEmptySeq, ConcatProperties

LEMMA MessagesAssociative ==
  \A a, b, d \in Seq(Message) : (a \o b) \o d = a \o (b \o d)
BY ConcatAssociative

LEMMA RegroupEnd ==
  ASSUME NEW a \in Seq(Message), NEW b \in Seq(Message),
         NEW d \in Seq(Message), NEW f \in Seq(Message)
  PROVE  (a \o b) \o (d \o f) = ((a \o b) \o d) \o f
<1>1. a \o b \in Seq(Message)
  BY Units
<1> QED
  BY Zenon, <1>1, MessagesAssociative

LEMMA RegroupFront ==
  ASSUME NEW a \in Seq(Message), NEW b \in Seq(Message),
         NEW d \in Seq(Message), NEW f \in Seq(Message)
  PROVE  (a \o b) \o (d \o f) = a \o (b \o (d \o f))
<1>1. d \o f \in Seq(Message)
  BY Units
<1> QED
  BY ZenonT(60), <1>1, MessagesAssociative

LEMMA RegroupMiddle ==
  ASSUME NEW a \in Seq(Message), NEW b \in Seq(Message),
         NEW d \in Seq(Message), NEW f \in Seq(Message)
  PROVE  (a \o (b \o d)) \o f = ((a \o b) \o d) \o f
BY Zenon, MessagesAssociative

(* The signal loop has a message to forward. *)
LEMMA PromisedMore ==
  ASSUME QueuesOK, PlacesOK, PlacesOK', NEW c \in Subscriber,
         loop # "forward", UNCHANGED <<stream, snapshot, cache>>
  PROVE  /\ loop' = "forward" => Promised(c)' = Promised(c) \o <<out'>>
         /\ loop' # "forward" => Promised(c)' = Promised(c)
<1>1. /\ stream[c] \in Seq(Message) /\ StillSent(snapshot[c]) \in Seq(Message)
      /\ cache[c] \in Seq(Message) /\ Promised(c) \in Seq(Message)
      /\ Promised(c) = (stream[c] \o StillSent(snapshot[c])) \o (cache[c] \o << >>)
  BY Parts DEF Waiting
<1>2. Promised(c) = (stream[c] \o StillSent(snapshot[c])) \o cache[c]
  BY <1>1, Units
<1>3. CASE loop' = "forward"
  <2>1. Promised(c)' = (stream[c] \o StillSent(snapshot[c])) \o (cache[c] \o <<out'>>)
    BY <1>3 DEF Promised
  <2>2. <<out'>> \in Seq(Message)
    BY DEF PlacesOK
  <2> DEFINE a == stream[c]
             b == StillSent(snapshot[c])
             d == cache[c]
             w == <<out'>>
  <2>3. a \in Seq(Message) /\ b \in Seq(Message) /\ d \in Seq(Message) /\ w \in Seq(Message)
    BY <1>1, <2>2
  <2> HIDE DEF a, b, d, w
  <2>4. (a \o b) \o (d \o w) = ((a \o b) \o d) \o w
    BY SMTT(40), <2>3, RegroupEnd
  <2> QED
    BY <1>2, <1>3, <2>1, <2>4 DEF a, b, d, w
<1>4. CASE loop' # "forward"
  BY <1>1, <1>4 DEF Promised
<1> QED
  BY <1>3, <1>4

(* The pool loop takes it: it moves to the end of what was kept or sent.   *)
LEMMA PromisedForward ==
  ASSUME QueuesOK, PlacesOK, Connections, NEW c \in Served, Forward
  PROVE  Promised(c)' = Promised(c) /\ snapshot'[c] = snapshot[c]
<1>0. c \in Subscriber /\ c \in pool \ dead /\ stage[c] \in {"syncing", "ready"}
  BY DEF Served, PlacesOK
<1>1. /\ stream[c] \in Seq(Message) /\ StillSent(snapshot[c]) \in Seq(Message)
      /\ cache[c] \in Seq(Message) /\ <<out>> \in Seq(Message)
      /\ Promised(c) = (stream[c] \o StillSent(snapshot[c])) \o (cache[c] \o <<out>>)
  <2>1. loop = "forward"
    BY DEF Forward
  <2> QED
    BY <1>0, <2>1, Parts DEF Waiting
<1>2. loop' = "receive" /\ snapshot' = snapshot
  BY DEF Forward
<1>3. Promised(c)' = (stream'[c] \o StillSent(snapshot[c])) \o (cache'[c] \o << >>)
  BY <1>2 DEF Promised
<1>4. CASE stage[c] = "syncing"
  <2>1. stream'[c] = stream[c] /\ cache'[c] = Append(cache[c], out)
    BY <1>0, <1>4 DEF Forward, Broadcast
  <2>2. cache'[c] = cache[c] \o <<out>>
    <3>1. out \in Message
      BY DEF PlacesOK
    <3> QED
      BY <1>1, <2>1, <3>1, AppendIsConcat
  <2> QED
    <3>1. cache[c] \o <<out>> \in Seq(Message) /\ (cache[c] \o <<out>>) \o << >> = cache[c] \o <<out>>
      BY <1>1, Units
    <3> QED
      BY <1>1, <1>2, <1>3, <2>1, <2>2, <3>1
<1>5. CASE stage[c] = "ready"
  <2>1. snapshot[c] = << >> /\ cache[c] = << >>
    BY <1>0, <1>5 DEF Connections, Connected
  <2>2. StillSent(snapshot[c]) = << >>
    BY <2>1, UnsentNone DEF StillSent
  <2>3. stream'[c] = stream[c] \o <<out>> /\ cache'[c] = << >>
    <3>1. stream'[c] = Append(stream[c], out) /\ cache'[c] = cache[c]
      BY <1>0, <1>5 DEF Forward, Broadcast
    <3>2. out \in Message
      BY DEF PlacesOK
    <3> QED
      BY <1>1, <2>1, <3>1, <3>2, AppendIsConcat
  <2>4. << >> \in Seq(Message)
    OBVIOUS
  <2>5. stream[c] \o <<out>> \in Seq(Message)
    BY <1>1, Units
  <2>6. Promised(c)' = stream[c] \o <<out>>
    BY <1>3, <2>2, <2>3, <2>4, <2>5, Units
  <2>7. Promised(c) = stream[c] \o <<out>>
    BY <1>1, <2>1, <2>2, Units
  <2> QED
    BY <1>2, <2>6, <2>7
<1> QED
  BY <1>0, <1>2, <1>4, <1>5

-----------------------------------------------------------------------------
(* A step of Sync, and a message that is added.                            *)

LEMMA SameStillSent ==
  ASSUME NEW items, NEW t, items # << >>, t # << >>, Tail(t) = Tail(items),
         Head(items).next # "head", Head(t).next # "head"
  PROVE  StillSent(t) = StillSent(items)
BY DEF StillSent

(* The next block of the snapshot is sent. *)
LEMMA PromisedHead ==
  ASSUME QueuesOK, PlacesOK, NEW c \in Subscriber, SyncHead(c)
  PROVE  Promised(c)' = Promised(c)
<1> DEFINE items == snapshot[c]
           t == [items EXCEPT ![1].next = "seal"]
           h == HeadMessages(Head(items))
           u == Unsent(Tail(items))
           w == cache[c] \o Waiting
           s == stream[c]
<1>1. /\ items # << >> /\ Head(items).next = "head" /\ h \in Seq(Message)
      /\ stream' = [stream EXCEPT ![c] = stream[c] \o h]
      /\ snapshot' = [snapshot EXCEPT ![c] = t]
  BY SyncHeadEffect
<1>2. /\ items \in Seq(SnapshotItem)
      /\ stream'[c] = s \o h /\ snapshot'[c] = t
  BY <1>1 DEF QueuesOK
<1>3. cache' = cache /\ Waiting' = Waiting
  BY DEF SyncHead, SyncItem, loopVars, Waiting
<1>4. t # << >> /\ Tail(t) = Tail(items) /\ Head(t).next = "seal"
  BY <1>1, <1>2, AdvancedIs
<1>5. StillSent(t) = u
  BY <1>4 DEF StillSent
<1>6. StillSent(items) = h \o u
  BY <1>1, <1>2, UnsentFirst DEF StillSent
<1>7. u \in Seq(Message)
  <2>1. Tail(items) \in Seq(SnapshotItem)
    BY <1>1, <1>2, HeadTailProperties
  <2> QED
    BY <2>1, UnsentIs
<1>8. s \in Seq(Message) /\ w \in Seq(Message) /\ Promised(c) = (s \o StillSent(items)) \o w
  BY Parts, Units
<1>9. Promised(c)' = ((s \o h) \o u) \o w
  BY <1>2, <1>3, <1>5 DEF Promised, Waiting
<1>10. Promised(c) = (s \o (h \o u)) \o w
  BY <1>6, <1>8
<1> HIDE DEF h, u, w, s
<1>11. (s \o (h \o u)) \o w = ((s \o h) \o u) \o w
  BY SMTT(40), <1>1, <1>7, <1>8, RegroupMiddle
<1> QED
  BY <1>9, <1>10, <1>11

(* The status of a block is sent, or nothing. *)
LEMMA PromisedStatus ==
  ASSUME QueuesOK, PlacesOK, NEW c \in Subscriber,
         StillSent(snapshot[c]) = StillSent(snapshot'[c]),
         cache' = cache, UNCHANGED loopVars
  PROVE  /\ UNCHANGED stream => Promised(c)' = Promised(c)
         /\ \A m \in Message : stream' = [stream EXCEPT ![c] = stream[c] \o <<m>>] =>
              \E B \in Seq(Message) :
                Promised(c) = stream[c] \o B /\ Promised(c)' = (stream[c] \o <<m>>) \o B
<1> DEFINE u == StillSent(snapshot[c])
           w == cache[c] \o Waiting
           s == stream[c]
<1>1. s \in Seq(Message) /\ u \in Seq(Message) /\ w \in Seq(Message) /\ Promised(c) = (s \o u) \o w
  BY Parts, Units
<1>2. Waiting' = Waiting
  BY DEF loopVars, Waiting
<1>3. Promised(c)' = (stream'[c] \o u) \o w
  BY <1>2 DEF Promised, Waiting
<1>4. UNCHANGED stream => Promised(c)' = Promised(c)
  BY <1>1, <1>3
<1>5. ASSUME NEW m \in Message, stream' = [stream EXCEPT ![c] = stream[c] \o <<m>>]
      PROVE  \E B \in Seq(Message) : Promised(c) = s \o B /\ Promised(c)' = (s \o <<m>>) \o B
  <2>1. stream'[c] = s \o <<m>> /\ <<m>> \in Seq(Message)
    BY <1>5 DEF QueuesOK
  <2> HIDE DEF s, u, w
  <2>2. u \o w \in Seq(Message) /\ s \o <<m>> \in Seq(Message)
    BY <1>1, <2>1, Units
  <2>3. (s \o u) \o w = s \o (u \o w)
    BY Zenon, <1>1, MessagesAssociative
  <2>4. ((s \o <<m>>) \o u) \o w = (s \o <<m>>) \o (u \o w)
    BY ZenonT(60), <1>1, <2>2, MessagesAssociative
  <2> QED
    BY <1>1, <1>3, <2>1, <2>2, <2>3, <2>4
<1> QED
  BY <1>4, <1>5

(* What was kept is sent. *)
LEMMA PromisedReady ==
  ASSUME QueuesOK, PlacesOK, NEW c \in Subscriber, Ready(c)
  PROVE  Promised(c)' = Promised(c)
<1> DEFINE k == cache[c]
           w == Waiting
           s == stream[c]
<1>1. /\ snapshot[c] = << >> /\ snapshot' = snapshot
      /\ stream' = [stream EXCEPT ![c] = stream[c] \o cache[c]]
      /\ cache' = [cache EXCEPT ![c] = << >>]
  BY ReadyEffect
<1>2. stream'[c] = s \o k /\ cache'[c] = << >>
  BY <1>1 DEF QueuesOK
<1>3. StillSent(snapshot[c]) = << >>
  BY <1>1, UnsentNone DEF StillSent
<1>4. s \in Seq(Message) /\ k \in Seq(Message) /\ w \in Seq(Message)
      /\ Promised(c) = (s \o << >>) \o (k \o w)
  BY <1>3, Parts
<1>5. Waiting' = Waiting
  BY DEF Ready, loopVars, Waiting
<1>6. Promised(c)' = ((s \o k) \o << >>) \o (<< >> \o w)
  BY <1>1, <1>2, <1>3, <1>5 DEF Promised, Waiting
<1> HIDE DEF s, k, w
<1>7. s \o k \in Seq(Message)
  BY <1>4, Units
<1>8. Promised(c)' = (s \o k) \o w
  BY <1>4, <1>6, <1>7, Units
<1>9. Promised(c) = s \o (k \o w)
  BY <1>4, Units
<1> QED
  BY Zenon, <1>4, <1>8, <1>9, MessagesAssociative

(* The other subscribers are left alone. *)
LEMMA PromisedOther ==
  ASSUME NEW d, stream'[d] = stream[d], snapshot'[d] = snapshot[d], cache'[d] = cache[d],
         UNCHANGED loopVars
  PROVE  Promised(d)' = Promised(d)
BY DEF Promised, loopVars

LEMMA StreamKept ==
  ASSUME NEW c \in Subscriber, StreamOK(c), Promised(c)' = Promised(c),
         since'[c] = since[c], snapshot'[c] = snapshot[c], Quiet
  PROVE  StreamOK(c)'
<1> DEFINE P == Promised(c)
           s == since[c]
           items == snapshot[c]
<1>1. ToldBlocks(P, s, epoch, live, ChainBlocks) /\ ToldCommits(P, s, recentBlocks, items)
  BY DEF StreamOK
<1> HIDE DEF P, s, items
<1>2. ToldBlocks(P, s, epoch', live', ChainBlocks')
  BY <1>1, ToldQuiet DEF Quiet
<1>3. ToldCommits(P, s, recentBlocks', items)
  BY <1>1, ToldCommitsKept DEF Quiet
<1>4. ToldBlocks(Promised(c)', since'[c], epoch', live', ChainBlocks')
  BY <1>2 DEF P, s
<1>5. ToldCommits(Promised(c)', since'[c], recentBlocks', snapshot'[c])
  BY <1>3 DEF P, s, items
<1> QED
  BY <1>4, <1>5 DEF StreamOK, ToldBlocks, ToldCommits

-----------------------------------------------------------------------------
(* No action has been received for a block that was not announced. *)
LEMMA NotYet ==
  ASSUME NEW P, NEW e \in Nat, InOrder(P, e)
  PROVE  ReceivedActions(P, e + 1) = {}
<1>1. Within(P, e + 1) = {}
  BY DEF Within, InOrder
<1> QED
  BY <1>1 DEF ReceivedActions

(* P with one more message, and blocks R with one more. *)
Then(P, m) == P \o <<m>>
With(R, b) == R \cup {b}

NoneAt(e, R) == \A b \in R : b.Epoch # e

(* b is new among the blocks B2, the others were there before. *)
OnlyNew(b, B2, B) ==
  \A x \in B2 : x # b => \E d \in B : x.Epoch = d.Epoch /\ x.Actions = d.Actions

(* A new block is announced to a subscriber that knows the others. *)
LEMMA ToldNew ==
  ASSUME NEW P \in Seq(Message), NEW s, NEW e \in Nat, NEW f, f = e + 1,
         NEW L, NEW B, ToldBlocks(P, s, e, L, B),
         NEW m \in Message, m.type = "new", m.epoch = f,
         NEW L2, L2.Epoch = f, L2.Actions = << >>,
         NEW B2, OnlyNew(L2, B2, B)
  PROVE  /\ ToldBlocks(Then(P, m), s, f, L2, B2)
         /\ Range(P) \subseteq Range(Then(P, m))
<1> DEFINE Q == P \o <<m>>
<1>1. /\ InOrder(Q, e + 1) /\ News(Q) # {}
      /\ \A x : ReceivedActions(Q, x) = ReceivedActions(P, x)
      /\ Range(P) \subseteq Range(Q)
  BY AppendNew DEF ToldBlocks
<1> HIDE DEF Q
<1>2. ReceivedActions(Q, e + 1) = {}
  BY <1>1, NotYet DEF ToldBlocks
<1>3. Range(<< >>) = {}
  BY DEF Range
<1>4. ASSUME NEW b \in B2, b.Epoch > s
      PROVE  ReceivedActions(Q, b.Epoch) = Range(b.Actions)
  <2>1. CASE b = L2
    BY <1>2, <1>3, <2>1
  <2>2. CASE b # L2
    BY <1>1, <1>4, <2>2 DEF ToldBlocks, OnlyNew
  <2> QED
    BY <2>1, <2>2
<1>5. ToldBlocks(Q, s, e + 1, L2, B2)
  BY <1>1, <1>4 DEF ToldBlocks
<1> QED
  BY <1>1, <1>5 DEF Q, Then

(* An action enters the live block and is broadcast. *)
LEMMA ToldAction ==
  ASSUME NEW P \in Seq(Message), NEW s, NEW e \in Nat, NEW L, NEW R,
         L # NoBlock, L.Epoch = e, NoneAt(e, R),
         ToldBlocks(P, s, e, L, With(R, L)),
         NEW m \in Message, m.type = "action", NEW a, Holds(m) = {a},
         NEW L2, L2.Epoch = e, Range(L2.Actions) = Range(L.Actions) \cup {a}
  PROVE  /\ ToldBlocks(Then(P, m), s, e, L2, With(R, L2))
         /\ Range(P) \subseteq Range(Then(P, m))
<1> DEFINE Q == P \o <<m>>
<1>1. /\ InOrder(Q, e) /\ News(Q) # {}
      /\ ReceivedActions(Q, e) = ReceivedActions(P, e) \cup Holds(m)
      /\ \A x : x # e => ReceivedActions(Q, x) = ReceivedActions(P, x)
      /\ Range(P) \subseteq Range(Q)
  BY AppendAction DEF ToldBlocks
<1> HIDE DEF Q
<1>2. ASSUME NEW b \in R \cup {L2}, b.Epoch > s
      PROVE  ReceivedActions(Q, b.Epoch) = Range(b.Actions)
  <2>1. CASE b = L2
    <3>1. ReceivedActions(P, e) = Range(L.Actions)
      BY <1>2, <2>1 DEF ToldBlocks, With
    <3> QED
      BY <1>1, <2>1, <3>1
  <2>2. CASE b \in R
    BY <1>1, <1>2, <2>2 DEF ToldBlocks, With, NoneAt
  <2> QED
    BY <2>1, <2>2
<1>3. ToldBlocks(Q, s, e, L2, R \cup {L2})
  BY <1>1, <1>2 DEF ToldBlocks
<1> QED
  BY <1>1, <1>3 DEF Q, Then, With

(* A status is broadcast. *)
LEMMA ToldStatus ==
  ASSUME NEW P \in Seq(Message), NEW m \in Message, m.type \in {"seal", "commit"},
         NEW s, NEW e \in Nat, NEW L, NEW C, ToldBlocks(P, s, e, L, C)
  PROVE  /\ ToldBlocks(P \o <<m>>, s, e, L, C)
         /\ Range(P) \subseteq Range(P \o <<m>>) /\ m \in Range(P \o <<m>>)
<1> DEFINE B == << >>
           Q == P \o <<m>>
<1>1. P \o B = P /\ B \in Seq(Message) /\ Q \in Seq(Message)
  BY Units
<1>2. Q \o B = Q
  BY <1>1, Units
<1> HIDE DEF B
<1>3. ToldBlocks(P \o B, s, e, L, C)
  BY <1>1
<1>4. /\ ToldBlocks(Q \o B, s, e, L, C)
      /\ Range(P \o B) \subseteq Range(Q \o B) /\ m \in Range(Q \o B)
  BY <1>1, <1>3, ToldInsert
<1> HIDE DEF Q
<1>5. /\ ToldBlocks(Q, s, e, L, C)
      /\ Range(P) \subseteq Range(Q) /\ m \in Range(Q)
  BY <1>1, <1>2, <1>4
<1> QED
  BY <1>5 DEF Q

-----------------------------------------------------------------------------
(* The invariant, and the calls of the signal loop.                        *)

(* The inductive invariant of the streams. *)
StreamInv ==
  /\ ValidatorInv
  /\ PlacesOK /\ QueuesOK /\ LoopOK /\ Connections /\ ItemsOK
  /\ StreamsOK

(* The part of it that is proved first. *)
Base == ValidatorInv /\ PlacesOK /\ QueuesOK /\ LoopOK /\ Connections /\ ItemsOK

LEMMA BaseStep == Base /\ [ValidatorNext]_nodeVars => Base' /\ RecentKept
<1> SUFFICES ASSUME Base, [ValidatorNext]_nodeVars PROVE Base' /\ RecentKept
  OBVIOUS
<1>1. ValidatorInv' /\ ChainTypeOK /\ ChainTypeOK' /\ SignalsOK /\ NodeInv
  BY ValidatorInvStep DEF Base, ValidatorInv, NodeInv, ChainInv
<1>2. RecentKept
  BY <1>1, StepIsCall, CallKeepsRecent
<1>3. PlacesOK' /\ LoopOK'
  BY <1>1, PlacesStep, LoopStep DEF Base
<1>4. Connections'
  BY ConnectionsStep DEF Base
<1>5. QueuesOK' /\ ItemsOK'
  BY <1>1, <1>2, QueuesStep DEF Base
<1> QED
  BY <1>1, <1>2, <1>3, <1>4, <1>5 DEF Base

(* Steps that leave chain, messages and subscribers alone. *)
LEMMA StreamsAlone ==
  ASSUME PlacesOK, StreamsOK, Served' \subseteq Served, UNCHANGED chainVars,
         \A c \in Served' : /\ Promised(c)' = Promised(c)
                            /\ since'[c] = since[c] /\ snapshot'[c] = snapshot[c]
  PROVE  StreamsOK'
<1> SUFFICES ASSUME NEW c \in Served' PROVE StreamOK(c)'
  BY DEF StreamsOK
<1>1. c \in Served /\ c \in Subscriber
  BY DEF Served, PlacesOK
<1> QED
  BY <1>1, ChainSame, StreamKept DEF StreamsOK

(* The facts about the chain that the calls rely on. *)
LEMMA ChainFacts ==
  ASSUME Base
  PROVE  /\ ChainTypeOK /\ ChainInv /\ DenseEpochs /\ epoch \in Nat
         /\ live # NoBlock => /\ live.Epoch = epoch /\ live.Status # StatusCommit
                              /\ \A b \in Range(recentBlocks) : b.Epoch # epoch
         /\ signal.epoch \in Epochs /\ signal.epoch \in Nat
         /\ signal.action \in Input /\ NoAction \in Input
         /\ signal.invalidated \in SUBSET Action
<1>1. ChainTypeOK /\ ChainInv /\ DenseEpochs /\ SignalsOK
  BY NodeInvImplies DEF Base, ValidatorInv, NodeInv, ChainInv
<1>2. /\ signal.epoch \in Epochs /\ signal.action \in Input
      /\ signal.invalidated \in SUBSET Action
  BY <1>1 DEF SignalsOK, Signal
<1>3. ASSUME live # NoBlock
      PROVE  /\ live.Epoch = epoch /\ live.Status # StatusCommit
             /\ \A b \in Range(recentBlocks) : b.Epoch # epoch
  <2>1. live.Epoch = epoch /\ live.Status # StatusCommit
    BY <1>1, <1>3 DEF ChainInv, EpochOrder, LiveParts, StatusLive, StatusCommit
  <2>2. \A i \in DOMAIN recentBlocks : recentBlocks[i].Epoch < epoch
    BY <1>1, <1>3 DEF ChainInv, EpochOrder
  <2>3. epoch \in Nat
    BY <1>1 DEF ChainTypeOK
  <2>4. ASSUME NEW b \in Range(recentBlocks)
        PROVE  b.Epoch # epoch
    <3>1. PICK i \in DOMAIN recentBlocks : b = recentBlocks[i]
      BY DEF Range
    <3> QED
      BY <2>2, <2>3, <3>1
  <2> QED
    BY <2>1, <2>4
<1> QED
  BY <1>1, <1>2, <1>3, EpochsNat, NodeAssumption DEF ChainTypeOK

(* The signal loop is not at forward when it calls the chain, and the call *)
(* changes no subscriber.                                                  *)
LEMMA CallServed ==
  ASSUME Base, Base',
         HandleNewBlock \/ HandleAction \/ HandleActionArray \/ HandleSeal \/ HandleCommit
  PROVE  /\ Served' = Served /\ UNCHANGED <<since, snapshot>>
         /\ \A c \in Served :
              /\ c \in Subscriber /\ Promised(c) \in Seq(Message)
              /\ loop' = "forward" => Promised(c)' = Promised(c) \o <<out'>>
              /\ loop' # "forward" => Promised(c)' = Promised(c)
<1>1. loop # "forward" /\ UNCHANGED <<poolVars, subscriberVars>>
  BY DEF HandleNewBlock, HandleAction, HandleActionArray, HandleSeal, HandleCommit
<1>2. Served' = Served /\ UNCHANGED <<since, snapshot, stream, cache>>
  BY <1>1 DEF poolVars, subscriberVars, Served, dead
<1>3. \A c \in Served : c \in Subscriber
  BY DEF Served, Base, PlacesOK
<1>4. \A c \in Subscriber : /\ Promised(c) \in Seq(Message)
                            /\ loop' = "forward" => Promised(c)' = Promised(c) \o <<out'>>
                            /\ loop' # "forward" => Promised(c)' = Promised(c)
  BY <1>1, <1>2, PromisedMore, Parts DEF Base
<1> QED
  BY <1>2, <1>3, <1>4

(* A call after which nothing is forwarded changes nothing for anybody.    *)
LEMMA CallQuiet ==
  ASSUME Base, Base', StreamsOK, loop' # "forward", Quiet,
         HandleNewBlock \/ HandleAction \/ HandleActionArray \/ HandleSeal \/ HandleCommit
  PROVE  StreamsOK'
<1> SUFFICES ASSUME NEW c \in Served' PROVE StreamOK(c)'
  BY DEF StreamsOK
<1>1. /\ c \in Served /\ c \in Subscriber /\ Promised(c)' = Promised(c)
      /\ since'[c] = since[c] /\ snapshot'[c] = snapshot[c]
  BY CallServed
<1> QED
  BY <1>1, StreamKept DEF StreamsOK

LEMMA NewBlockStreams ==
  ASSUME Base, Base', StreamsOK, HandleNewBlock
  PROVE  StreamsOK'
<1>0. NextBlock(signal.epoch)
  BY DEF HandleNewBlock
<1>1. /\ RecentKept /\ CommitsKept
      /\ reply'.err # "ok" => Quiet
      /\ reply'.err = "ok" =>
           /\ epoch' = epoch + 1 /\ live'.Epoch = epoch + 1 /\ live'.Actions = << >>
           /\ \A b \in ChainBlocks' : b # live' =>
                \E d \in ChainBlocks : b.Epoch = d.Epoch /\ b.Actions = d.Actions
  BY <1>0, ChainFacts, NextBlockKeeps
<1>2. CASE reply'.err # "ok"
  <2>1. loop' # "forward"
    BY <1>2 DEF HandleNewBlock, ForwardLocked
  <2> QED
    BY <1>1, <1>2, <2>1, CallQuiet
<1>3. CASE reply'.err = "ok"
  <2>1. loop' = "forward" /\ out' = Msg("new", "broadcast", epoch')
    BY <1>3 DEF HandleNewBlock, ForwardLocked
  <2>2. out'.type = "new" /\ out'.epoch = epoch + 1 /\ out' \in Message
    BY <1>1, <1>3, <2>1 DEF Msg, Base, PlacesOK
  <2> SUFFICES ASSUME NEW c \in Served' PROVE StreamOK(c)'
    BY DEF StreamsOK
  <2> DEFINE P == Promised(c)
             s == since[c]
             items == snapshot[c]
  <2>3. /\ c \in Served /\ P \in Seq(Message)
        /\ Promised(c)' = P \o <<out'>>
        /\ since'[c] = s /\ snapshot'[c] = items
    BY <2>1, CallServed
  <2>4. ToldBlocks(P, s, epoch, live, ChainBlocks) /\ ToldCommits(P, s, recentBlocks, items)
    BY <2>3 DEF StreamsOK, StreamOK
  <2> HIDE DEF P, s, items
  <2>5. epoch \in Nat
    BY ChainFacts
  <2>6. /\ ToldBlocks(P \o <<out'>>, s, epoch + 1, live', ChainBlocks')
        /\ Range(P) \subseteq Range(P \o <<out'>>)
    <3> DEFINE m == out'
               L2 == live'
               B == ChainBlocks
               B2 == ChainBlocks'
    <3>1. L2.Epoch = epoch + 1 /\ L2.Actions = << >> /\ OnlyNew(L2, B2, B)
      BY <1>1, <1>3 DEF OnlyNew
    <3>2. m \in Message /\ m.type = "new" /\ m.epoch = epoch + 1
      BY <2>2
    <3>3. ToldBlocks(P, s, epoch, live, B)
      BY <2>4
    <3> HIDE DEF m, L2, B, B2
    <3>4. ToldBlocks(Then(P, m), s, epoch + 1, L2, B2) /\ Range(P) \subseteq Range(Then(P, m))
      BY <2>3, <2>5, <3>1, <3>2, <3>3, ToldNew
    <3> QED
      BY <3>4 DEF m, L2, B2, Then
  <2>7. ToldCommits(P \o <<out'>>, s, recentBlocks', items)
    <3>1. ToldCommits(P, s, recentBlocks', items)
      BY <1>1, <2>4, ToldCommitsKept
    <3> QED
      BY <2>6, <3>1, ToldMore
  <2>8. /\ ToldBlocks(Promised(c)', since'[c], epoch', live', ChainBlocks')
        /\ ToldCommits(Promised(c)', since'[c], recentBlocks', snapshot'[c])
    BY <1>1, <1>3, <2>3, <2>6, <2>7
  <2> QED
    BY <2>8 DEF StreamOK, ToldBlocks, ToldCommits
<1> QED
  BY <1>2, <1>3

LEMMA ActionStreams ==
  ASSUME Base, Base', StreamsOK, HandleAction
  PROVE  StreamsOK'
<1>0. Validate(signal.action)
  BY DEF HandleAction
<1> DEFINE a == Transform[signal.action]
<1>1. /\ reply'.err # "ok" => Quiet
      /\ reply'.err = "ok" =>
           /\ RecentKept /\ CommitsKept
           /\ epoch' = epoch /\ live # NoBlock /\ live'.Epoch = epoch
           /\ a \in Action
           /\ live'.Actions = Append(live.Actions, a)
           /\ live.Actions \in Seq(Action)
           /\ ChainBlocks' = Range(recentBlocks) \cup {live'}
  BY <1>0, ChainFacts, ValidateKeeps
<1>2. CASE reply'.err # "ok"
  <2>1. loop' # "forward"
    BY <1>2 DEF HandleAction
  <2> QED
    BY <1>1, <1>2, <2>1, CallQuiet
<1>3. CASE reply'.err = "ok"
  <2>1. /\ loop' = "forward"
        /\ out' = [Msg("action", "broadcast", 0) EXCEPT !.actions = <<signal.action>>]
    BY <1>3 DEF HandleAction
  <2>2. out' \in Message /\ out'.type = "action" /\ Holds(out') = {a}
    BY <2>1, ChainFacts, ActionMessage
  <2> SUFFICES ASSUME NEW c \in Served' PROVE StreamOK(c)'
    BY DEF StreamsOK
  <2> DEFINE P == Promised(c)
             s == since[c]
             items == snapshot[c]
             R == Range(recentBlocks)
  <2>3. /\ c \in Served /\ P \in Seq(Message)
        /\ Promised(c)' = P \o <<out'>>
        /\ since'[c] = s /\ snapshot'[c] = items
    BY <2>1, CallServed
  <2>4. ToldBlocks(P, s, epoch, live, R \cup {live}) /\ ToldCommits(P, s, recentBlocks, items)
    BY <1>1, <1>3, <2>3 DEF StreamsOK, StreamOK, ChainBlocks
  <2>5. /\ epoch \in Nat /\ live # NoBlock /\ live.Epoch = epoch
        /\ NoneAt(epoch, R)
    BY <1>1, <1>3, ChainFacts DEF NoneAt
  <2>6. Range(live'.Actions) = Range(live.Actions) \cup {a}
    <3> DEFINE q == live.Actions
               n == Len(q)
    <3>1. q \in Seq(Action) /\ a \in Action /\ live'.Actions = Append(q, a)
      BY <1>1, <1>3
    <3> HIDE DEF a, q
    <3>2. /\ n \in Nat /\ DOMAIN q = 1 .. n /\ DOMAIN Append(q, a) = 1 .. n + 1
          /\ \A k \in 1 .. n : Append(q, a)[k] = q[k]
          /\ Append(q, a)[n + 1] = a
      BY <3>1, AppendProperties, LenProperties
    <3>3. Range(Append(q, a)) = Range(q) \cup {a}
      BY <3>2 DEF Range
    <3> QED
      BY <3>1, <3>3 DEF q
  <2> HIDE DEF P, s, items, R, a
  <2>7. /\ ToldBlocks(P \o <<out'>>, s, epoch, live', R \cup {live'})
        /\ Range(P) \subseteq Range(P \o <<out'>>)
    <3> DEFINE m == out'
               L2 == live'
    <3>1. L2.Epoch = epoch /\ Range(L2.Actions) = Range(live.Actions) \cup {a}
      BY <1>1, <1>3, <2>6
    <3>2. m \in Message /\ m.type = "action" /\ Holds(m) = {a}
      BY <2>2
    <3> HIDE DEF m, L2
    <3>3. ToldBlocks(P, s, epoch, live, With(R, live))
      BY <2>4 DEF With
    <3>4. /\ ToldBlocks(Then(P, m), s, epoch, L2, With(R, L2))
          /\ Range(P) \subseteq Range(Then(P, m))
      BY <2>3, <2>5, <3>1, <3>2, <3>3, ToldAction
    <3> QED
      BY <3>4 DEF m, L2, Then, With
  <2>8. ToldCommits(P \o <<out'>>, s, recentBlocks', items)
    <3>1. ToldCommits(P, s, recentBlocks', items)
      BY <1>1, <1>3, <2>4, ToldCommitsKept
    <3> QED
      BY <2>7, <3>1, ToldMore
  <2>9. /\ ToldBlocks(Promised(c)', since'[c], epoch', live', ChainBlocks')
        /\ ToldCommits(Promised(c)', since'[c], recentBlocks', snapshot'[c])
    BY <1>1, <1>3, <2>3, <2>7, <2>8 DEF R
  <2> QED
    BY <2>9 DEF StreamOK, ToldBlocks, ToldCommits
<1> QED
  BY <1>2, <1>3

LEMMA ArrayStreams ==
  ASSUME Base, Base', StreamsOK, HandleActionArray
  PROVE  StreamsOK'
<1>1. Validate(NoAction) /\ loop' = "receive"
  BY DEF HandleActionArray
<1>2. reply'.err # "ok"
  BY <1>1, NodeAssumption DEF Validate, Refuse
<1>3. Quiet
  BY <1>1, <1>2, ChainFacts, ValidateKeeps
<1> QED
  BY <1>1, <1>3, CallQuiet

(* A status that is broadcast goes to the end of every stream. *)
LEMMA StatusStreams ==
  ASSUME Base, Base', StreamsOK, HandleSeal \/ HandleCommit, BlocksKept,
         loop' = "forward", out'.type \in {"seal", "commit"},
         NEW c \in Served
  PROVE  /\ ToldBlocks(Promised(c)', since'[c], epoch', live', ChainBlocks')
         /\ Range(Promised(c)) \subseteq Range(Promised(c)')
         /\ out' \in Range(Promised(c)')
         /\ ToldCommits(Promised(c), since[c], recentBlocks, snapshot[c])
         /\ since'[c] = since[c] /\ snapshot'[c] = snapshot[c]
<1> DEFINE P == Promised(c)
           s == since[c]
<1>1. /\ P \in Seq(Message) /\ Promised(c)' = P \o <<out'>>
      /\ since'[c] = s /\ snapshot'[c] = snapshot[c]
  BY CallServed
<1>2. /\ ToldBlocks(P, s, epoch, live, ChainBlocks)
      /\ ToldCommits(P, s, recentBlocks, snapshot[c])
  BY DEF StreamsOK, StreamOK
<1>3. out' \in Message /\ epoch' \in Nat
  BY DEF Base, PlacesOK, ValidatorInv, NodeInv, ChainInv, ChainTypeOK
<1> HIDE DEF P, s
<1>4. ToldBlocks(P, s, epoch', live', ChainBlocks')
  BY <1>2, ToldQuiet
<1>5. /\ ToldBlocks(P \o <<out'>>, s, epoch', live', ChainBlocks')
      /\ Range(P) \subseteq Range(P \o <<out'>>) /\ out' \in Range(P \o <<out'>>)
  BY <1>1, <1>3, <1>4, ToldStatus
<1> QED
  BY <1>1, <1>2, <1>5 DEF P, s

LEMMA SealStreams ==
  ASSUME Base, Base', StreamsOK, HandleSeal
  PROVE  StreamsOK'
<1>1. Quiet
  BY ChainFacts, SealBlockKeeps DEF HandleSeal
<1>2. CASE loop' # "forward"
  BY <1>1, <1>2, CallQuiet
<1>3. CASE loop' = "forward"
  <2>1. out' = Msg("seal", "broadcast", signal.epoch)
    BY <1>3 DEF HandleSeal, ForwardLocked
  <2>2. out'.type = "seal"
    BY <2>1 DEF Msg
  <2> SUFFICES ASSUME NEW c \in Served' PROVE StreamOK(c)'
    BY DEF StreamsOK
  <2>3. c \in Served
    BY CallServed
  <2>4. /\ ToldBlocks(Promised(c)', since'[c], epoch', live', ChainBlocks')
        /\ Range(Promised(c)) \subseteq Range(Promised(c)')
        /\ ToldCommits(Promised(c), since[c], recentBlocks, snapshot[c])
        /\ since'[c] = since[c] /\ snapshot'[c] = snapshot[c]
    BY <1>1, <1>3, <2>2, <2>3, StatusStreams DEF Quiet
  <2>5. ToldCommits(Promised(c), since[c], recentBlocks', snapshot[c])
    BY <1>1, <2>4, ToldCommitsKept DEF Quiet
  <2>6. ToldCommits(Promised(c)', since'[c], recentBlocks', snapshot'[c])
    BY <2>4, <2>5, ToldMore
  <2> QED
    BY <2>4, <2>6 DEF StreamOK, ToldBlocks, ToldCommits
<1> QED
  BY <1>2, <1>3

LEMMA CommitStreams ==
  ASSUME Base, Base', StreamsOK, HandleCommit
  PROVE  StreamsOK'
<1>0. Commit(signal.epoch, signal.invalidated)
  BY DEF HandleCommit
<1>1. /\ RecentKept /\ BlocksKept
      /\ reply'.err # "ok" => CommitsKept
      /\ \A i \in DOMAIN recentBlocks' : recentBlocks'[i].Status = StatusCommit =>
           \/ /\ i \in DOMAIN recentBlocks
              /\ recentBlocks[i].Status = StatusCommit
              /\ recentBlocks[i].Epoch = recentBlocks'[i].Epoch
              /\ recentBlocks[i].Invalidated = recentBlocks'[i].Invalidated
           \/ /\ recentBlocks'[i].Epoch = signal.epoch
              /\ recentBlocks'[i].Invalidated = CommittedHashes
  BY <1>0, ChainFacts, CommitKeeps DEF CommittedHashes
<1>2. CASE reply'.err # "ok"
  <2>1. loop' # "forward"
    BY <1>2 DEF HandleCommit, ForwardLocked
  <2> QED
    BY <1>1, <1>2, <2>1, CallQuiet DEF Quiet
<1>3. CASE reply'.err = "ok"
  <2> DEFINE h == CommittedHashes
  <2>1. /\ loop' = "forward"
        /\ out' = [Msg("commit", "broadcast", signal.epoch) EXCEPT !.invalidated = h]
    BY <1>3 DEF HandleCommit, ForwardLocked, CommittedHashes
  <2> HIDE DEF h
  <2>2. out'.type = "commit" /\ out'.epoch = signal.epoch /\ out'.invalidated = h
    BY <2>1 DEF Msg
  <2> SUFFICES ASSUME NEW c \in Served' PROVE StreamOK(c)'
    BY DEF StreamsOK
  <2>3. c \in Served
    BY CallServed
  <2>4. /\ ToldBlocks(Promised(c)', since'[c], epoch', live', ChainBlocks')
        /\ Range(Promised(c)) \subseteq Range(Promised(c)')
        /\ out' \in Range(Promised(c)')
        /\ ToldCommits(Promised(c), since[c], recentBlocks, snapshot[c])
        /\ since'[c] = since[c] /\ snapshot'[c] = snapshot[c]
    BY <1>1, <2>1, <2>2, <2>3, StatusStreams
  <2>5. ASSUME NEW i \in DOMAIN recentBlocks', recentBlocks'[i].Epoch > since'[c],
               recentBlocks'[i].Status = StatusCommit
        PROVE  \/ ToldCommit(Promised(c)', recentBlocks'[i])
               \/ \E item \in Range(snapshot'[c]) : item.block = i
    <3>1. CASE recentBlocks'[i].Epoch = signal.epoch /\ recentBlocks'[i].Invalidated = h
      BY <2>2, <2>4, <3>1 DEF ToldCommit
    <3>2. CASE /\ i \in DOMAIN recentBlocks
               /\ recentBlocks[i].Status = StatusCommit
               /\ recentBlocks[i].Epoch = recentBlocks'[i].Epoch
               /\ recentBlocks[i].Invalidated = recentBlocks'[i].Invalidated
      <4>1. ToldCommit(Promised(c), recentBlocks[i]) \/ \E item \in Range(snapshot[c]) : item.block = i
        BY <2>4, <2>5, <3>2 DEF ToldCommits
      <4> QED
        BY <2>4, <3>2, <4>1 DEF ToldCommit
    <3> QED
      BY <1>1, <2>5, <3>1, <3>2 DEF h
  <2>6. ToldCommits(Promised(c)', since'[c], recentBlocks', snapshot'[c])
    BY <2>5 DEF ToldCommits
  <2> QED
    BY <2>4, <2>6 DEF StreamOK, ToldBlocks, ToldCommits
<1> QED
  BY <1>2, <1>3

-----------------------------------------------------------------------------
(* The steps of Sync.                                                      *)

(* Steps that change at most what one subscriber is sent. *)
LEMMA OneStream ==
  ASSUME PlacesOK, StreamsOK, UNCHANGED chainVars, UNCHANGED loopVars, UNCHANGED since,
         NEW c \in Subscriber, Served' \subseteq Served \cup {c},
         \A d \in Subscriber : d # c => /\ stream'[d] = stream[d] /\ snapshot'[d] = snapshot[d]
                                        /\ cache'[d] = cache[d],
         c \in Served' => StreamOK(c)'
  PROVE  StreamsOK'
<1> SUFFICES ASSUME NEW d \in Served', d # c PROVE StreamOK(d)'
  BY DEF StreamsOK
<1>1. d \in Served /\ d \in Subscriber
  BY DEF Served, PlacesOK
<1>2. Promised(d)' = Promised(d)
  BY <1>1, PromisedOther
<1> QED
  BY <1>1, <1>2, ChainSame, StreamKept DEF StreamsOK

(* The first item of the snapshot is worked on. *)
LEMMA ToldItems ==
  ASSUME NEW P, NEW s, NEW S, NEW items, NEW t, ToldCommits(P, s, S, items),
         \A i : (\E item \in Range(items) : item.block = i) =>
                  \E item \in Range(t) : item.block = i
  PROVE  ToldCommits(P, s, S, t)
BY DEF ToldCommits

LEMMA SyncHeadStream ==
  ASSUME QueuesOK, PlacesOK, NEW c \in Subscriber, SyncHead(c), StreamOK(c)
  PROVE  StreamOK(c)'
<1> DEFINE P == Promised(c)
           s == since[c]
           items == snapshot[c]
           t == [items EXCEPT ![1].next = "seal"]
<1>1. /\ items \in Seq(SnapshotItem) /\ items # << >>
      /\ snapshot' = [snapshot EXCEPT ![c] = [snapshot[c] EXCEPT ![1].next = "seal"]]
  BY SyncHeadEffect DEF QueuesOK
<1>2. snapshot'[c] = t
  BY <1>1 DEF QueuesOK
<1>3. \A i : (\E item \in Range(items) : item.block = i) =>
               \E item \in Range(t) : item.block = i
  BY <1>1, AdvancedIs
<1>4. Promised(c)' = P /\ since'[c] = s
  BY PromisedHead DEF SyncHead, SyncItem
<1>5. UNCHANGED chainVars
  BY DEF SyncHead, SyncItem
<1>6. ToldBlocks(P, s, epoch, live, ChainBlocks) /\ ToldCommits(P, s, recentBlocks, items)
  BY DEF StreamOK
<1> HIDE DEF P, s, items, t
<1>7. ToldCommits(P, s, recentBlocks, t)
  BY <1>3, <1>6, ToldItems
<1>8. ToldBlocks(Promised(c)', since'[c], epoch', live', ChainBlocks')
  BY <1>4, <1>5, <1>6 DEF chainVars, ChainBlocks
<1>9. ToldCommits(Promised(c)', since'[c], recentBlocks', snapshot'[c])
  BY <1>2, <1>4, <1>5, <1>7 DEF chainVars
<1> QED
  BY <1>8, <1>9 DEF StreamOK, ToldBlocks, ToldCommits

(* A status goes to the subscriber between its blocks. *)
LEMMA StatusSent ==
  ASSUME QueuesOK, PlacesOK, ChainTypeOK, NEW c \in Subscriber, StreamOK(c),
         StillSent(snapshot[c]) = StillSent(snapshot'[c]), cache' = cache, UNCHANGED loopVars,
         NEW m \in Message, m.type \in {"seal", "commit"},
         stream' = [stream EXCEPT ![c] = stream[c] \o <<m>>]
  PROVE  /\ ToldBlocks(Promised(c)', since[c], epoch, live, ChainBlocks)
         /\ Range(Promised(c)) \subseteq Range(Promised(c)')
         /\ m \in Range(Promised(c)')
<1> DEFINE A == stream[c]
           s == since[c]
<1>1. PICK B \in Seq(Message) : Promised(c) = A \o B /\ Promised(c)' = (A \o <<m>>) \o B
  BY PromisedStatus
<1>2. A \in Seq(Message) /\ epoch \in Nat
  BY DEF QueuesOK, ChainTypeOK
<1>3. ToldBlocks(A \o B, s, epoch, live, ChainBlocks)
  BY <1>1 DEF StreamOK
<1> HIDE DEF A, s
<1>4. /\ ToldBlocks((A \o <<m>>) \o B, s, epoch, live, ChainBlocks)
      /\ Range(A \o B) \subseteq Range((A \o <<m>>) \o B)
      /\ m \in Range((A \o <<m>>) \o B)
  BY <1>2, <1>3, ToldInsert
<1> QED
  BY <1>1, <1>4 DEF s

LEMMA SyncSealStream ==
  ASSUME QueuesOK, PlacesOK, ChainTypeOK, NEW c \in Subscriber, SyncSeal(c), StreamOK(c)
  PROVE  StreamOK(c)'
<1> DEFINE P == Promised(c)
           s == since[c]
           items == snapshot[c]
           t == [items EXCEPT ![1].next = "commit"]
<1>1. /\ items \in Seq(SnapshotItem) /\ items # << >> /\ Head(items).next = "seal"
      /\ snapshot' = [snapshot EXCEPT ![c] = [snapshot[c] EXCEPT ![1].next = "commit"]]
      /\ \/ UNCHANGED stream
         \/ \E m \in Message : /\ m.type = "seal"
                               /\ stream' = [stream EXCEPT ![c] = stream[c] \o <<m>>]
  BY SyncSealEffect DEF QueuesOK
<1>2. snapshot'[c] = t
  BY <1>1 DEF QueuesOK
<1>3. /\ t # << >> /\ Tail(t) = Tail(items) /\ Head(t).next = "commit"
      /\ \A i : (\E item \in Range(items) : item.block = i) =>
                  \E item \in Range(t) : item.block = i
  BY <1>1, AdvancedIs
<1>4. UNCHANGED <<chainVars, loopVars>> /\ since' = since /\ cache' = cache
  BY DEF SyncSeal, SyncItem
<1>5. ToldBlocks(P, s, epoch, live, ChainBlocks) /\ ToldCommits(P, s, recentBlocks, items)
  BY DEF StreamOK
<1>6. StillSent(snapshot[c]) = StillSent(snapshot'[c])
  <2> HIDE DEF t
  <2>1. StillSent(t) = StillSent(items)
    BY <1>1, <1>3, SameStillSent
  <2> QED
    BY <1>2, <2>1
<1>7. /\ ToldBlocks(Promised(c)', s, epoch, live, ChainBlocks)
      /\ Range(P) \subseteq Range(Promised(c)')
  <2>1. CASE UNCHANGED stream
    BY <1>4, <1>5, <1>6, <2>1, PromisedStatus
  <2>2. ASSUME NEW m \in Message, m.type = "seal",
               stream' = [stream EXCEPT ![c] = stream[c] \o <<m>>]
        PROVE  /\ ToldBlocks(Promised(c)', s, epoch, live, ChainBlocks)
               /\ Range(P) \subseteq Range(Promised(c)')
    BY <1>4, <1>6, <2>2, StatusSent
  <2> QED
    BY <1>1, <2>1, <2>2
<1> HIDE DEF P, s, items, t
<1>8. ToldCommits(P, s, recentBlocks, t)
  BY <1>3, <1>5, ToldItems
<1>9. ToldCommits(Promised(c)', s, recentBlocks, t)
  BY <1>7, <1>8, ToldMore
<1>10. ToldBlocks(Promised(c)', since'[c], epoch', live', ChainBlocks')
  BY <1>4, <1>7 DEF s, chainVars, ChainBlocks
<1>11. ToldCommits(Promised(c)', since'[c], recentBlocks', snapshot'[c])
  BY <1>2, <1>4, <1>9 DEF s, chainVars
<1> QED
  BY <1>10, <1>11 DEF StreamOK, ToldBlocks, ToldCommits

LEMMA SyncCommitStream ==
  ASSUME QueuesOK, PlacesOK, ItemsOK, ChainTypeOK, NEW c \in Subscriber, SyncCommit(c),
         StreamOK(c)
  PROVE  StreamOK(c)'
<1> DEFINE P == Promised(c)
           s == since[c]
           items == snapshot[c]
           t == Tail(items)
<1>1. /\ items \in Seq(SnapshotItem) /\ items # << >> /\ Head(items).next = "commit"
      /\ snapshot' = [snapshot EXCEPT ![c] = Tail(snapshot[c])]
      /\ \/ UNCHANGED stream
         \/ \E m \in Message : /\ m.type = "commit"
                               /\ stream' = [stream EXCEPT ![c] = stream[c] \o <<m>>]
      /\ LET i == Head(items).block
         IN  i \in DOMAIN recentBlocks /\ recentBlocks[i].Status = StatusCommit =>
               \E m \in Message :
                 /\ m.type = "commit" /\ m.epoch = recentBlocks[i].Epoch
                 /\ m.invalidated = recentBlocks[i].Invalidated
                 /\ stream' = [stream EXCEPT ![c] = stream[c] \o <<m>>]
  BY SyncCommitEffect DEF QueuesOK
<1>2. snapshot'[c] = t
  BY <1>1 DEF QueuesOK
<1>3. /\ t \in Seq(SnapshotItem)
      /\ \A k \in 1 .. Len(t) : t[k].next = "head"
      /\ \A i : (\E item \in Range(items) : item.block = i) =>
                  Head(items).block = i \/ \E item \in Range(t) : item.block = i
  <2>1. ItemsIn(items, recentBlocks)
    BY DEF ItemsOK
  <2> HIDE DEF items
  <2> QED
    BY <1>1, <2>1, TailItems
<1>4. UNCHANGED <<chainVars, loopVars>> /\ since' = since /\ cache' = cache
  BY DEF SyncCommit, SyncItem
<1>5. ToldBlocks(P, s, epoch, live, ChainBlocks) /\ ToldCommits(P, s, recentBlocks, items)
  BY DEF StreamOK
<1>6. StillSent(snapshot[c]) = StillSent(snapshot'[c])
  <2> HIDE DEF t
  <2>1. t # << >> => Head(t).next = "head"
    <3>1. t # << >> => 1 \in 1 .. Len(t) /\ Head(t) = t[1]
      BY <1>3, EmptySeq
    <3> QED
      BY <1>3, <3>1
  <2>2. StillSent(t) = Unsent(t)
    BY <2>1 DEF StillSent
  <2>3. StillSent(items) = Unsent(t)
    BY <1>1 DEF StillSent, t
  <2> QED
    BY <1>2, <2>2, <2>3
<1>7. ASSUME NEW m \in Message, m.type = "commit",
             stream' = [stream EXCEPT ![c] = stream[c] \o <<m>>]
      PROVE  /\ ToldBlocks(Promised(c)', s, epoch, live, ChainBlocks)
             /\ Range(P) \subseteq Range(Promised(c)')
             /\ m \in Range(Promised(c)')
  BY <1>4, <1>6, <1>7, StatusSent
<1>8. /\ ToldBlocks(Promised(c)', s, epoch, live, ChainBlocks)
      /\ Range(P) \subseteq Range(Promised(c)')
  <2>1. CASE UNCHANGED stream
    BY <1>4, <1>5, <1>6, <2>1, PromisedStatus
  <2> QED
    BY <1>1, <1>7, <2>1
<1> HIDE DEF P, s, items, t
<1>9. ASSUME NEW i \in DOMAIN recentBlocks, recentBlocks[i].Epoch > s,
             recentBlocks[i].Status = StatusCommit
      PROVE  ToldCommit(Promised(c)', recentBlocks[i]) \/ \E item \in Range(t) : item.block = i
  <2>1. CASE ToldCommit(P, recentBlocks[i])
    BY <1>8, <2>1 DEF ToldCommit
  <2>2. CASE Head(items).block = i
    <3>1. PICK m \in Message : /\ m.type = "commit" /\ m.epoch = recentBlocks[i].Epoch
                               /\ m.invalidated = recentBlocks[i].Invalidated
                               /\ stream' = [stream EXCEPT ![c] = stream[c] \o <<m>>]
      BY <1>1, <1>9, <2>2
    <3>2. m \in Range(Promised(c)')
      BY <1>7, <3>1
    <3> QED
      BY <3>1, <3>2 DEF ToldCommit
  <2>3. ToldCommit(P, recentBlocks[i]) \/ \E item \in Range(items) : item.block = i
    BY <1>5, <1>9 DEF ToldCommits
  <2> QED
    BY <1>3, <2>1, <2>2, <2>3
<1>10. ToldBlocks(Promised(c)', since'[c], epoch', live', ChainBlocks')
  BY <1>4, <1>8 DEF s, chainVars, ChainBlocks
<1>11. ToldCommits(Promised(c)', s, recentBlocks, t)
  BY <1>9 DEF ToldCommits
<1>12. ToldCommits(Promised(c)', since'[c], recentBlocks', snapshot'[c])
  BY <1>2, <1>4, <1>11 DEF s, chainVars
<1> QED
  BY <1>10, <1>12 DEF StreamOK, ToldBlocks, ToldCommits

LEMMA ReadyStream ==
  ASSUME QueuesOK, PlacesOK, NEW c \in Subscriber, Ready(c), StreamOK(c)
  PROVE  StreamOK(c)'
<1>1. Promised(c)' = Promised(c) /\ snapshot' = snapshot
  BY PromisedReady, ReadyEffect
<1>2. since'[c] = since[c] /\ UNCHANGED chainVars
  BY DEF Ready
<1> QED
  BY <1>1, <1>2, ChainSame, StreamKept

(* The steps of the goroutine of Sync. *)
LEMMA SyncStreams ==
  ASSUME Base, StreamsOK, NEW c \in Subscriber, Sync(c)
  PROVE  StreamsOK'
<1>1. /\ UNCHANGED <<chainVars, loopVars, poolVars>> /\ since' = since
      /\ stage[c] = "syncing"
      /\ stage' = stage \/ stage' = [stage EXCEPT ![c] = "ready"]
  BY DEF Sync, SyncHead, SyncSeal, SyncCommit, SyncItem, Ready
<1>2. Served' = Served
  BY SMTT(30), <1>1 DEF Served, dead, poolVars, Base, PlacesOK
<1>3. \A d \in Subscriber : d # c =>
        stream'[d] = stream[d] /\ snapshot'[d] = snapshot[d] /\ cache'[d] = cache[d]
  BY DEF Sync, SyncHead, SyncSeal, SyncCommit, SyncItem, Ready, SendDirect, Base, QueuesOK
<1>4. ASSUME c \in Served
      PROVE  StreamOK(c)'
  <2>1. StreamOK(c)
    BY <1>4 DEF StreamsOK
  <2>2. ChainTypeOK /\ QueuesOK /\ PlacesOK /\ ItemsOK
    BY ChainFacts DEF Base
  <2> QED
    BY <2>1, <2>2, SyncHeadStream, SyncSealStream, SyncCommitStream, ReadyStream DEF Sync
<1> QED
  BY <1>1, <1>2, <1>3, <1>4, OneStream DEF Base

-----------------------------------------------------------------------------
(* The steps of pool loop and environment, and the theorems.               *)

(* The subscriber whose blocks Sync collects: the signal loop may be about *)
(* to broadcast an action that the clone of the live block already has,    *)
(* because Validate runs without the mutex.                                *)
LEMMA StartSyncStream ==
  ASSUME Base, StartSync, NEW c, c = request
  PROVE  c \in Subscriber /\ StreamOK(c)'
<1> DEFINE s == since[c]
           items == SyncBlocks(s)
           U == Unsent(items)
           R == Range(recentBlocks)
<1>0. /\ PlacesOK /\ QueuesOK /\ Connections /\ NodeInv /\ LoopOK
      /\ ChainTypeOK /\ epoch \in Nat
  BY ChainFacts DEF Base, ValidatorInv
<1>1. /\ c \in Subscriber /\ stream[c] = << >> /\ cache[c] = << >>
      /\ snapshot' = [snapshot EXCEPT ![c] = items]
      /\ UNCHANGED <<chainVars, loopVars, since, cache, stream>>
      /\ items \in Seq(SnapshotItem)
      /\ live # NoBlock => items # << >>
      /\ \A k \in 1 .. Len(items) : /\ items[k].epoch = (epoch - Len(items)) + k
                                    /\ items[k].next = "head"
      /\ \A b \in ChainBlocks : b.Epoch > s =>
           \E k \in 1 .. Len(items) : items[k].epoch = b.Epoch /\ items[k].actions = b.Actions
      /\ \A i \in DOMAIN recentBlocks : recentBlocks[i].Epoch > s =>
           \E item \in Range(items) : item.block = i
  BY <1>0, StartSyncEffect
<1>2. snapshot'[c] = items
  BY <1>0, <1>1 DEF QueuesOK
<1> HIDE DEF items, s
<1>3. StillSent(items) = U
  <2>1. items # << >> => 1 \in 1 .. Len(items) /\ Head(items) = items[1]
    BY <1>1, EmptySeq
  <2>2. items # << >> => Head(items).next = "head"
    BY <1>1, <2>1
  <2> QED
    BY <2>2 DEF StillSent
<1>4. U \in Seq(Message)
  BY <1>1, UnsentIs
<1>5. Waiting \in Seq(Message)
  BY <1>0 DEF Waiting, PlacesOK
<1>6. Promised(c)' = U \o Waiting
  <2>1. Promised(c)' = (<< >> \o U) \o (<< >> \o Waiting)
    BY <1>1, <1>2, <1>3 DEF Promised, Waiting, loopVars
  <2> HIDE DEF U
  <2> QED
    BY <1>4, <1>5, <2>1, Units
<1>7. ToldBlocks(U, s, epoch, live, ChainBlocks)
  <2>1. /\ InOrder(U, epoch)
        /\ items # << >> => News(U) # {}
        /\ \A k \in 1 .. Len(items) : ReceivedActions(U, items[k].epoch) = Range(items[k].actions)
    BY <1>0, <1>1, UnsentStory
  <2> HIDE DEF U
  <2>2. ASSUME NEW b \in ChainBlocks, b.Epoch > s
        PROVE  ReceivedActions(U, b.Epoch) = Range(b.Actions)
    <3>1. PICK k \in 1 .. Len(items) : items[k].epoch = b.Epoch /\ items[k].actions = b.Actions
      BY <1>1, <2>2
    <3> QED
      BY <2>1, <3>1
  <2> QED
    BY <1>1, <2>1, <2>2 DEF ToldBlocks
<1>8. ToldBlocks(U \o Waiting, s, epoch, live, ChainBlocks)
  <2>1. CASE loop # "forward"
    <3>1. Waiting = << >>
      BY <2>1 DEF Waiting
    <3> HIDE DEF U
    <3> QED
      BY <1>4, <1>7, <3>1, Units
  <2>2. CASE loop = "forward"
    <3>1. lock = "free"
      BY DEF StartSync
    <3>2. PICK i \in Input : /\ out.type = "action" /\ Holds(out) = {Transform[i]}
                             /\ live # NoBlock /\ Transform[i] \in Range(live.Actions)
      BY <1>0, <2>2, <3>1 DEF LoopOK
    <3> DEFINE a == Transform[i]
    <3>3. live.Epoch = epoch /\ NoneAt(epoch, R)
      BY <3>2, ChainFacts DEF NoneAt
    <3>4. ChainBlocks = With(R, live)
      BY <3>2 DEF ChainBlocks, With
    <3>5. Range(live.Actions) = Range(live.Actions) \cup {a} /\ Holds(out) = {a}
      BY <3>2
    <3>6. out \in Message
      BY <1>0 DEF PlacesOK
    <3> HIDE DEF U, R, a
    <3>7. ToldBlocks(U, s, epoch, live, With(R, live))
      BY <1>7, <3>4
    <3>8. ToldBlocks(Then(U, out), s, epoch, live, With(R, live))
      BY <1>0, <1>4, <3>2, <3>3, <3>5, <3>6, <3>7, ToldAction
    <3>9. Waiting = <<out>>
      BY <2>2 DEF Waiting
    <3> QED
      BY <3>4, <3>8, <3>9 DEF Then
  <2> QED
    BY <2>1, <2>2
<1>9. ToldCommits(U \o Waiting, s, recentBlocks, items)
  BY <1>1 DEF ToldCommits
<1> HIDE DEF U
<1>10. ToldBlocks(Promised(c)', since'[c], epoch', live', ChainBlocks')
  BY <1>1, <1>6, <1>8 DEF s, chainVars, ChainBlocks
<1>11. ToldCommits(Promised(c)', since'[c], recentBlocks', snapshot'[c])
  BY <1>1, <1>2, <1>6, <1>9 DEF s, chainVars
<1> QED
  BY <1>1, <1>10, <1>11 DEF StreamOK, ToldBlocks, ToldCommits

LEMMA PoolStreams ==
  ASSUME Base, StreamsOK, Pool
  PROVE  StreamsOK'
<1>1. CASE StartSync
  <2>0. PICK c \in Subscriber : c = request
    BY <1>1 DEF StartSync, Base, Connections
  <2>1. StreamOK(c)'
    BY <1>1, <2>0, StartSyncStream
  <2>2. /\ UNCHANGED <<chainVars, loopVars, since, pool, cache, stream>>
        /\ snapshot' = [snapshot EXCEPT ![c] = SyncBlocks(since[c])]
        /\ stage' = [stage EXCEPT ![c] = "syncing"]
    BY <1>1, <2>0 DEF StartSync
  <2>3. Served' \subseteq Served \cup {c}
    BY <2>1, <2>2 DEF Served, dead, Base, PlacesOK
  <2>4. \A d \in Subscriber : d # c => /\ stream'[d] = stream[d] /\ snapshot'[d] = snapshot[d]
                                      /\ cache'[d] = cache[d]
    BY <2>2 DEF Base, QueuesOK
  <2>5. PlacesOK /\ UNCHANGED chainVars /\ UNCHANGED loopVars /\ UNCHANGED since
    BY <2>2 DEF Base
  <2> QED
    BY <2>1, <2>3, <2>4, <2>5, OneStream
<1>2. ASSUME NEW c \in Subscriber, TakeSyncRequest(c)
      PROVE  StreamsOK'
  <2>1. /\ UNCHANGED <<chainVars, loopVars, since, snapshot, cache, stream>>
        /\ pool' = pool \cup {c} /\ stage' = [stage EXCEPT ![c] = "cached"]
    BY <1>2 DEF TakeSyncRequest
  <2>2. Served' \subseteq Served
    BY <2>1 DEF Served, dead, Base, PlacesOK
  <2>3. \A d : Promised(d)' = Promised(d)
    BY <2>1, PromisedOther
  <2>4. \A d \in Served' : /\ Promised(d)' = Promised(d)
                           /\ since'[d] = since[d] /\ snapshot'[d] = snapshot[d]
    BY <2>1, <2>3
  <2>5. PlacesOK /\ UNCHANGED chainVars
    BY <2>1 DEF Base
  <2> QED
    BY <2>2, <2>4, <2>5, StreamsAlone
<1> QED
  BY <1>1, <1>2 DEF Pool

(* After a panic nobody is served. *)
LEMMA PanicStreams == Panic => StreamsOK'
<1>1. Panic => Served' = {}
  BY DEF Panic, Served
<1> QED
  BY <1>1 DEF StreamsOK

(* Subscribers come and go. *)
LEMMA EnvironmentStreams ==
  ASSUME Base, StreamsOK, Environment
  PROVE  StreamsOK'
<1>1. ASSUME NEW c \in Subscriber, Break(c)
      PROVE  StreamsOK'
  <2>1. /\ UNCHANGED <<chainVars, loopVars, poolVars>>
        /\ stage' = [stage EXCEPT ![c] = "broken"]
    BY <1>1 DEF Break
  <2>2. Served' \subseteq Served /\ c \notin Served'
    BY <2>1 DEF Served, dead, poolVars, Base, PlacesOK
  <2>3. \A d \in Subscriber : d # c =>
          /\ stream'[d] = stream[d] /\ snapshot'[d] = snapshot[d]
          /\ cache'[d] = cache[d] /\ since'[d] = since[d]
    BY <1>1 DEF Break, Base, PlacesOK, QueuesOK
  <2>4. \A d \in Served' : d \in Subscriber /\ d # c
    BY <2>2 DEF Served, Base, PlacesOK
  <2>5. \A d \in Served' : Promised(d)' = Promised(d)
    BY <2>1, <2>3, <2>4, PromisedOther
  <2> QED
    BY <2>1, <2>2, <2>3, <2>4, <2>5, StreamsAlone DEF Base
<1>2. ASSUME NEW c \in Subscriber, NEW e \in Epochs, RequestSync(c, e)
      PROVE  StreamsOK'
  <2>1. /\ UNCHANGED <<chainVars, loopVars, poolVars, snapshot, cache, stream>>
        /\ stage' = [stage EXCEPT ![c] = "requesting"]
        /\ since' = [since EXCEPT ![c] = e]
    BY <1>2 DEF RequestSync
  <2>2. Served' \subseteq Served /\ c \notin Served'
    BY <2>1 DEF Served, dead, poolVars, Base, PlacesOK
  <2>3. \A d : Promised(d)' = Promised(d)
    BY <2>1, PromisedOther
  <2>4. \A d \in Served' : since'[d] = since[d]
    BY <2>1, <2>2 DEF Base, PlacesOK
  <2> QED
    BY <2>1, <2>2, <2>3, <2>4, StreamsAlone DEF Base
<1> QED
  BY <1>1, <1>2, PanicStreams DEF Environment, HandshakeFails

(* The steps of the signal loop that do not call the chain. *)
LEMMA LoopStreams ==
  ASSUME Base, StreamsOK, Dial \/ Receive \/ HandleError \/ DropDead
  PROVE  StreamsOK'
<1>1. /\ UNCHANGED <<chainVars, since, stage, snapshot, cache, stream>>
      /\ loop # "forward" /\ loop' # "forward"
      /\ pool' = pool \/ pool' = pool \ dead
  BY DEF Dial, Receive, HandleError, DropDead, poolVars, subscriberVars
<1>2. Served' \subseteq Served
  BY <1>1 DEF Served, dead
<1>3. \A d : Promised(d)' = Promised(d)
  BY <1>1 DEF Promised
<1> QED
  BY <1>1, <1>2, <1>3, StreamsAlone DEF Base

LEMMA ForwardStreams ==
  ASSUME Base, StreamsOK, Forward
  PROVE  StreamsOK'
<1>1. UNCHANGED <<chainVars, poolVars, since, stage>>
  BY DEF Forward
<1>2. Served' = Served
  BY <1>1 DEF Served, dead, poolVars
<1>3. \A d \in Served : Promised(d)' = Promised(d) /\ snapshot'[d] = snapshot[d]
  BY PromisedForward DEF Base
<1> QED
  BY <1>1, <1>2, <1>3, StreamsAlone DEF Base

LEMMA StreamsStep == StreamInv /\ [ValidatorNext]_nodeVars => StreamInv'
<1> SUFFICES ASSUME StreamInv, [ValidatorNext]_nodeVars PROVE StreamInv'
  OBVIOUS
<1>1. Base /\ Base' /\ StreamsOK
  BY BaseStep DEF StreamInv, Base
<1>2. CASE UNCHANGED nodeVars \/ Listen
  <2>1. UNCHANGED <<chainVars, loopVars, poolVars, subscriberVars>>
    BY <1>2 DEF nodeVars, Listen, ReadMessage, ReadError
  <2>2. Served' \subseteq Served /\ UNCHANGED <<since, snapshot, cache, stream>>
    BY <2>1 DEF Served, dead, poolVars, subscriberVars
  <2>3. \A d : Promised(d)' = Promised(d)
    BY <2>1, <2>2, PromisedOther
  <2>4. StreamsOK'
    BY <1>1, <2>1, <2>2, <2>3, StreamsAlone DEF Base
  <2> QED
    BY <1>1, <2>4 DEF StreamInv, Base
<1>3. CASE Loop
  <2>1. StreamsOK'
    BY <1>1, <1>3, LoopStreams, ForwardStreams, NewBlockStreams, ActionStreams, ArrayStreams,
       SealStreams, CommitStreams, PanicStreams DEF Loop, HandleUnfilledArray
  <2> QED
    BY <1>1, <2>1 DEF StreamInv, Base
<1>4. CASE Pool
  <2>1. StreamsOK'
    BY <1>1, <1>4, PoolStreams
  <2> QED
    BY <1>1, <2>1 DEF StreamInv, Base
<1>5. ASSUME NEW c \in Subscriber, Sync(c)
      PROVE  StreamInv'
  <2>1. StreamsOK'
    BY <1>1, <1>5, SyncStreams
  <2> QED
    BY <1>1, <2>1 DEF StreamInv, Base
<1>6. CASE Environment
  <2>1. StreamsOK'
    BY <1>1, <1>6, EnvironmentStreams
  <2> QED
    BY <1>1, <2>1 DEF StreamInv, Base
<1> QED
  BY <1>2, <1>3, <1>4, <1>5, <1>6 DEF ValidatorNext

LEMMA StreamsInit == NodeInit => StreamInv
<1> SUFFICES ASSUME NodeInit PROVE StreamInv
  OBVIOUS
<1>1. ValidatorInv
  BY ValidatorInvInit
<1>2. PlacesOK
  BY MessageType, ZeroEpoch DEF NodeInit, PlacesOK, NoMsg
<1>3. QueuesOK /\ LoopOK /\ Connections
  BY DEF NodeInit, QueuesOK, LoopOK, Connections, Connected
<1>4. ItemsOK
  <2>1. Len(<< >>) = 0 /\ \A c \in Subscriber : snapshot[c] = << >>
    BY DEF NodeInit
  <2> QED
    BY <2>1 DEF ItemsOK, ItemsIn
<1>5. Served = {}
  BY DEF NodeInit, Served
<1> QED
  BY <1>1, <1>2, <1>3, <1>4, <1>5 DEF StreamInv, StreamsOK

LEMMA StreamInvImplies ==
  StreamInv => NodeTypeOK /\ StreamFaithful /\ CommitKnown /\ NewBlocksInOrder
<1> SUFFICES ASSUME StreamInv PROVE NodeTypeOK /\ StreamFaithful /\ CommitKnown /\ NewBlocksInOrder
  OBVIOUS
<1>1. NodeTypeOK
  BY DEF StreamInv, ValidatorInv, NodeInv, ChainInv, SignalsOK, PlacesOK, QueuesOK, NodeTypeOK
<1>2. \A c \in Served : StreamOK(c)
  BY DEF StreamInv, StreamsOK
<1>3. StreamFaithful
  BY <1>2 DEF StreamOK, ToldBlocks, StreamFaithful
<1>4. CommitKnown
  BY <1>2 DEF StreamOK, ToldCommits, ToldCommit, CommitKnown
<1>5. NewBlocksInOrder
  BY <1>2 DEF StreamOK, ToldBlocks, InOrder, NewBlocksInOrder
<1> QED
  BY <1>1, <1>3, <1>4, <1>5

(* The state of a running node stays well-formed: whatever the provider    *)
(* sends, signals, snapshots, messages and blocks are what the listener,   *)
(* the signal loop and the goroutines of Sync build.                       *)
THEOREM NodeTypeCorrect == ValidatorSpec => []NodeTypeOK
BY StreamsInit, StreamsStep, StreamInvImplies, PTL DEF ValidatorSpec

(* A subscriber receives the new blocks once, in order and without gaps,   *)
(* across the switch from its snapshot to the broadcasts, with any number  *)
(* of subscribers, blocks and actions.                                     *)
THEOREM NewBlocksInOrderCorrect == ValidatorSpec => []NewBlocksInOrder
BY StreamsInit, StreamsStep, StreamInvImplies, PTL DEF ValidatorSpec

(* Every commit after its sync epoch reaches a subscriber with the hashes  *)
(* of the block, also one that happens while its snapshot is sent.         *)
THEOREM CommitKnownCorrect == ValidatorSpec => []CommitKnown
BY StreamsInit, StreamsStep, StreamInvImplies, PTL DEF ValidatorSpec

(* What is still to be sent of a block is what the chain holds of it: the  *)
(* goroutine of Sync may read it without the mutex.                        *)
THEOREM SnapshotsCurrentCorrect == ValidatorSpec => []SnapshotsCurrent
<1>1. StreamInv => SnapshotsCurrent
  <2> SUFFICES ASSUME StreamInv, NEW c \in Subscriber, NEW n \in DOMAIN snapshot[c],
                      snapshot[c][n].block # 0
               PROVE  /\ snapshot[c][n].block \in DOMAIN recentBlocks
                      /\ recentBlocks[snapshot[c][n].block].Epoch = snapshot[c][n].epoch
                      /\ recentBlocks[snapshot[c][n].block].Actions = snapshot[c][n].actions
    BY DEF SnapshotsCurrent
  <2>1. snapshot[c] \in Seq(SnapshotItem) /\ ItemsIn(snapshot[c], recentBlocks)
    BY DEF StreamInv, QueuesOK, ItemsOK
  <2>2. n \in 1 .. Len(snapshot[c])
    BY <2>1, LenProperties
  <2> QED
    BY <2>1, <2>2 DEF ItemsIn
<1> QED
  BY <1>1, StreamsInit, StreamsStep, PTL DEF ValidatorSpec

(* A subscriber that attributes actions to the last new block holds exactly*)
(* the actions of every block after its sync epoch, although actions are   *)
(* validated and forwarded without the mutex.                              *)
THEOREM StreamFaithfulCorrect == ValidatorSpec => []StreamFaithful
BY StreamsInit, StreamsStep, StreamInvImplies, PTL DEF ValidatorSpec

-----------------------------------------------------------------------------
(* Where the node waits. *)

(* The signal loop has a signal that it still has to deal with, and the    *)
(* last thing the listener sends, before it is gone, is an error, after    *)
(* which the loop ends.                                                    *)
HandsOK ==
  /\ \A n \in 1 .. Len(pending) : pending[n].kind # "none"
  /\ loop = "handle" => signal.kind # "none"
  /\ loop = "connect" => link = "down" /\ pending = << >>
  /\ loop \in {"receive", "handle", "locking", "forward"} => link \in {"up", "closed"}
  /\ loop = "receive" => link = "up" \/ pending # << >>
  /\ link = "closed" /\ loop \notin {"ended", "panicked"} =>
       \/ loop = "receive" /\ pending # << >> /\ pending[1].kind = "error" /\ Len(pending) = 1
       \/ loop = "handle" /\ signal.kind = "error" /\ pending = << >>

WaitingInv == StreamInv /\ HandsOK

(* A sequence of three, and a fourth element behind it. *)
LEMMA Third ==
  ASSUME NEW S, NEW a \in S, NEW b \in S, NEW c \in S
  PROVE  /\ <<a, b, c>> \in Seq(S) /\ Len(<<a, b, c>>) = 3
         /\ <<a, b, c>>[1] = a /\ <<a, b, c>>[2] = b /\ <<a, b, c>>[3] = c
OBVIOUS

LEMMA AppendFourth ==
  ASSUME NEW S, NEW a \in S, NEW b \in S, NEW c \in S, NEW d \in S
  PROVE  Append(<<a, b, c>>, d) = <<a, b, c, d>>
<1>1. PICK s : s = <<a, b, c>>
  OBVIOUS
<1>2. s \in Seq(S) /\ Len(s) = 3 /\ s[1] = a /\ s[2] = b /\ s[3] = c
  BY <1>1, Third
<1>3. PICK t : t = Append(s, d)
  OBVIOUS
<1>4. t \in Seq(S) /\ Len(t) = Len(s) + 1 /\ t[Len(s) + 1] = d
  BY ZenonT(60), <1>2, <1>3, AppendProperties
<1>5. \A i \in 1 .. Len(s) : t[i] = s[i]
  BY <1>2, <1>3, AppendProperties
<1>6. Len(t) = 4 /\ t[1] = a /\ t[2] = b /\ t[3] = c /\ t[4] = d
  BY <1>2, <1>4, <1>5
<1>7. PICK u : u = <<a, b, c, d>>
  OBVIOUS
<1>8. u \in Seq(S) /\ Len(u) = 4 /\ u[1] = a /\ u[2] = b /\ u[3] = c /\ u[4] = d
  BY <1>7
<1>9. \A i \in 1 .. 4 : t[i] = u[i]
  <2>1. \A i \in 1 .. 4 : i = 1 \/ i = 2 \/ i = 3 \/ i = 4
    OBVIOUS
  <2> QED
    BY <1>6, <1>8, <2>1
<1>10. t = u
  BY <1>4, <1>6, <1>8, <1>9, SeqEqual
<1> QED
  BY <1>1, <1>3, <1>7, <1>10

LEMMA HandsListen ==
  ASSUME SignalsOK, HandsOK, Listen
  PROVE  HandsOK'
<1>1. /\ link = "up" /\ loop = "receive"
      /\ loop' = loop /\ signal' = signal
  BY DEF Listen, ReadMessage, ReadError, loopVars
<1>2. CASE ReadError
  BY <1>1, <1>2 DEF ReadError, HandsOK, Sig
<1>3. CASE ReadMessage
  <2>1. link' = "up"
    BY <1>1, <1>3 DEF ReadMessage
  <2>2. ASSUME NEW i \in Input, pending' = <<[Sig("action", 0) EXCEPT !.action = i]>>
        PROVE  HandsOK'
    BY <1>1, <2>1, <2>2 DEF HandsOK, Sig
  <2>3. ASSUME NEW e \in Epochs, pending' = <<Sig("new", e)>> \/ pending' = <<Sig("seal", e)>>
        PROVE  HandsOK'
    BY <1>1, <2>1, <2>3 DEF HandsOK, Sig
  <2>4. ASSUME NEW e \in Epochs, NEW h \in SUBSET Action, pending' = <<Committing(e, h)>>
        PROVE  HandsOK'
    BY <1>1, <2>1, <2>4 DEF HandsOK, Sig, Committing
  <2>5. ASSUME NEW e \in Epochs, pending' = <<Sig("new", e), Sig("array", e), Sig("seal", e)>>
        PROVE  HandsOK'
    BY <1>1, <2>1, <2>5 DEF HandsOK, Sig
  <2>6. ASSUME NEW e \in Epochs, NEW h \in SUBSET Action,
               pending' = Append(<<Sig("new", e), Sig("array", e), Sig("seal", e)>>,
                                 Committing(e, h))
        PROVE  HandsOK'
    <3>1. pending' = <<Sig("new", e), Sig("array", e), Sig("seal", e), Committing(e, h)>>
      <4>1. /\ Sig("new", e) \in Signal /\ Sig("array", e) \in Signal
            /\ Sig("seal", e) \in Signal /\ Committing(e, h) \in Signal
        BY SignalType DEF Committing
      <4> QED
        BY <2>6, <4>1, AppendFourth
    <3> QED
      BY <1>1, <2>1, <3>1 DEF HandsOK, Sig, Committing
  <2> QED
    BY <1>3, <2>2, <2>3, <2>4, <2>5, <2>6 DEF ReadMessage
<1> QED
  BY <1>2, <1>3 DEF Listen

LEMMA HandsReceive ==
  ASSUME SignalsOK, HandsOK, Receive
  PROVE  HandsOK'
<1>1. /\ pending \in Seq(Signal) /\ pending # << >> /\ pending' = Tail(pending)
      /\ loop = "receive" /\ loop' = "handle" /\ link' = link
      /\ \/ signal' = pending[1]
         \/ /\ Len(pending) > 1
            /\ \/ signal' = pending[2]
               \/ signal' = HalfWritten(pending[2])
  BY DEF SignalsOK, Receive
<1>2. /\ Len(pending) \in Nat \ {0} /\ Len(pending') = Len(pending) - 1
      /\ \A n \in 1 .. Len(pending') : pending'[n] = pending[n + 1]
  BY <1>1, HeadTailProperties, LenProperties, EmptySeq
<1>3. \A n \in 1 .. Len(pending') : pending'[n].kind # "none"
  BY <1>2 DEF HandsOK
<1>4. signal'.kind # "none" /\ (Len(pending) = 1 => signal' = pending[1])
  <2>1. 1 \in 1 .. Len(pending) /\ (Len(pending) > 1 => 2 \in 1 .. Len(pending))
    BY <1>2
  <2>2. pending[1].kind # "none" /\ (Len(pending) > 1 => pending[2].kind # "none")
    BY <2>1 DEF HandsOK
  <2>3. Len(pending) > 1 => HalfWritten(pending[2]).kind \in {"unfilled", pending[2].kind}
    <3>1. Len(pending) > 1 => pending[2] \in Signal
      BY <1>1, <2>1
    <3> QED
      BY <3>1 DEF Signal, HalfWritten
  <2>4. Len(pending) = 1 => signal' = pending[1]
    BY <1>1, <1>2
  <2> QED
    BY <1>1, <2>2, <2>3, <2>4
<1>5. Len(pending) = 1 => pending' = << >>
  BY <1>1, <1>2, EmptySeq, HeadTailProperties
<1>6. link' = "closed" => loop' = "handle" /\ signal'.kind = "error" /\ pending' = << >>
  BY <1>1, <1>4, <1>5 DEF HandsOK
<1> QED
  BY <1>1, <1>3, <1>4, <1>6 DEF HandsOK

LEMMA HandsPanic == Panic => HandsOK'
BY DEF Panic, HandsOK

(* The two loops and the listener hand over as they should. *)
LEMMA HandsStep ==
  ASSUME SignalsOK, HandsOK, [ValidatorNext]_nodeVars
  PROVE  HandsOK'
<1> USE DEF listenerVars, loopVars, poolVars, subscriberVars
<1>1. CASE UNCHANGED nodeVars
  BY <1>1 DEF nodeVars, HandsOK
<1>2. CASE Listen
  BY <1>2, HandsListen
<1>3. CASE Loop
  <2>1. CASE Dial
    BY <2>1 DEF Dial, HandsOK
  <2>2. CASE HandleError
    BY <2>2 DEF HandleError, HandsOK
  <2>3. CASE HandleNewBlock
    BY <2>3 DEF HandleNewBlock, ForwardLocked, HandsOK
  <2>4. CASE HandleAction
    BY <2>4 DEF HandleAction, HandsOK
  <2>5. CASE HandleActionArray
    BY <2>5 DEF HandleActionArray, HandsOK
  <2>6. CASE HandleSeal
    BY <2>6 DEF HandleSeal, ForwardLocked, HandsOK
  <2>7. CASE HandleCommit
    BY <2>7 DEF HandleCommit, ForwardLocked, HandsOK
  <2>8. CASE DropDead \/ Forward
    BY <2>8 DEF DropDead, Forward, HandsOK
  <2> QED
    BY <1>3, <2>1, <2>2, <2>3, <2>4, <2>5, <2>6, <2>7, <2>8, HandsReceive, HandsPanic
       DEF Loop, HandleUnfilledArray
<1>4. CASE Pool
  BY <1>4 DEF Pool, StartSync, TakeSyncRequest, HandsOK
<1>5. ASSUME NEW c \in Subscriber, Sync(c)
      PROVE  HandsOK'
  BY <1>5 DEF Sync, SyncHead, SyncSeal, SyncCommit, SyncItem, Ready, HandsOK
<1>6. CASE Environment
  BY <1>6, HandsPanic DEF Environment, HandshakeFails, Break, RequestSync, HandsOK
<1> QED
  BY <1>1, <1>2, <1>3, <1>4, <1>5, <1>6 DEF ValidatorNext

LEMMA WaitingInit == NodeInit => WaitingInv
<1> SUFFICES ASSUME NodeInit PROVE WaitingInv
  OBVIOUS
<1>1. HandsOK
  BY DEF NodeInit, HandsOK
<1> QED
  BY <1>1, StreamsInit DEF WaitingInv

LEMMA WaitingStep == WaitingInv /\ [ValidatorNext]_nodeVars => WaitingInv'
BY StreamsStep, HandsStep DEF WaitingInv, StreamInv, Base, ValidatorInv

LEMMA WaitingImplies == WaitingInv => WaitsOnlyThere
<1> SUFFICES ASSUME WaitingInv PROVE WaitsOnlyThere
  OBVIOUS
<1>1. SignalsOK /\ PlacesOK /\ LoopOK /\ HandsOK
  BY DEF WaitingInv, StreamInv, Base, ValidatorInv
<1>2. CASE loop = "receive"
  BY <1>1, <1>2 DEF HandsOK, WaitsOnlyThere, SignalLoopGoes, ListenerGoes
<1>3. CASE loop = "handle"
  <2>1. signal.kind \in {"new", "action", "array", "unfilled", "seal", "commit", "error"}
    BY <1>1, <1>3 DEF HandsOK, SignalsOK, Signal
  <2>2. lock = "free"
    BY <1>1, <1>3 DEF LoopOK, PlacesOK
  <2> QED
    BY <1>1, <1>3, <2>1, <2>2 DEF PlacesOK, WaitsOnlyThere, SignalLoopGoes, PoolLoopGoes
<1>4. CASE loop = "forward"
  BY <1>1, <1>4 DEF PlacesOK, WaitsOnlyThere, SignalLoopGoes, PoolLoopGoes, Embrace
<1>5. CASE loop = "locking"
  BY <1>1, <1>5 DEF LoopOK, PlacesOK, WaitsOnlyThere, SignalLoopGoes
<1>6. CASE loop \in {"connect", "ended", "unreported", "panicked"}
  BY <1>6 DEF WaitsOnlyThere, SignalLoopGoes
<1> QED
  BY <1>1, <1>2, <1>3, <1>4, <1>5, <1>6 DEF PlacesOK

(* Short of the stops and panics of the code one of the goroutines of the  *)
(* node has the mutex, the message or the receiver that it waits for: the  *)
(* embrace is the only circle of goroutines that wait for one another, for *)
(* any number of subscribers.                                              *)
THEOREM WaitsOnlyThereCorrect == ValidatorSpec => []WaitsOnlyThere
BY WaitingInit, WaitingStep, WaitingImplies, PTL DEF ValidatorSpec

(* Nothing that provider, subscribers or goroutines can do ends the embrace*)
(* of signal loop and pool loop, short of a panic of the process: the node *)
(* is dead from then on.                                                   *)
THEOREM EmbraceForeverCorrect == ValidatorSpec => EmbraceForever
<1>1. ASSUME [ValidatorNext]_nodeVars, Embrace PROVE Embrace' \/ ~Alive'
  <2> USE DEF listenerVars, loopVars, poolVars, subscriberVars
  <2>1. CASE UNCHANGED nodeVars
    BY <1>1, <2>1 DEF nodeVars, Embrace
  <2>2. CASE Listen
    BY <1>1, <2>2 DEF Listen, ReadMessage, ReadError, Embrace
  <2>3. CASE Loop
    BY <1>1, <2>3 DEF Loop, Dial, Receive, HandleError, DropDead, HandleNewBlock, HandleAction,
                      HandleActionArray, HandleUnfilledArray, HandleSeal, HandleCommit,
                      Forward, Embrace
  <2>4. CASE Pool
    BY <1>1, <2>4 DEF Pool, StartSync, TakeSyncRequest, Embrace
  <2>5. ASSUME NEW c \in Subscriber, Sync(c)
        PROVE  Embrace'
    BY <1>1, <2>5 DEF Sync, SyncHead, SyncSeal, SyncCommit, SyncItem, Ready, Embrace
  <2>6. CASE Environment
    BY <1>1, <2>6 DEF Environment, HandshakeFails, Panic, Break, RequestSync,
                      Embrace, Alive
  <2> QED
    BY <1>1, <2>1, <2>2, <2>3, <2>4, <2>5, <2>6 DEF ValidatorNext
<1> QED
  BY <1>1, PTL DEF ValidatorSpec, EmbraceForever
=============================================================================
