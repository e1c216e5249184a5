------------------------- MODULE SocialChainProofs -------------------------
(***************************************************************************)
(* Theorems about the social chain, for any set of actions, any conflict   *)
(* relation and any number of epochs and actions per block.                *)
(*                                                                         *)
(* The first part is about every call of the chain, with rollback and      *)
(* recovery; the second about the calls of LaunchNode, which never rolls   *)
(* back and never recovers: what the committed state is made of, and that  *)
(* the chain implements the abstract commit log.                           *)
(***************************************************************************)
EXTENDS SocialChainLog, TLAPS, SequenceTheorems

USE DEF StatusLive, StatusDone, StatusSealed, StatusCommit

-----------------------------------------------------------------------------
(* Typing. *)

(* Appending an action to a block gives a block. *)
LEMMA BlockAppend ==
  ASSUME NEW b \in Block, NEW a \in Action
  PROVE  [b EXCEPT !.Actions = Append(@, a)] \in Block
<1> DEFINE s == Append(b.Actions, a)
<1>1. s \in Seq(Action)
  BY DEF Block
<1> HIDE DEF s
<1>2. [b EXCEPT !.Actions = s] \in Block
  BY <1>1 DEF Block
<1> QED
  BY <1>2 DEF s

(* A new block is a block. *)
LEMMA NewBlockType ==
  ASSUME ChainTypeOK, NEW e \in Nat
  PROVE  NewBlock(e) \in Block
BY DEF ChainTypeOK, NewBlock, Block

(* A retired live block is a block. *)
LEMMA RetireType ==
  ASSUME ChainTypeOK
  PROVE  /\ RetireLive \in Seq(Block)
         /\ live # NoBlock =>
              [live EXCEPT !.Status = StatusDone, !.mutations = validator] \in Block
<1>1. ASSUME NEW b \in Block, NEW m \in SUBSET Action
      PROVE  [b EXCEPT !.Status = StatusDone, !.mutations = m] \in Block
  <2>1. [b EXCEPT !.Status = StatusDone] \in Block
    BY DEF Block
  <2> QED
    BY <2>1 DEF Block
<1>2. live # NoBlock =>
        [live EXCEPT !.Status = StatusDone, !.mutations = validator] \in Block
  BY Zenon, <1>1 DEF ChainTypeOK
<1> QED
  BY <1>2, AppendProperties DEF ChainTypeOK, RetireLive

(* A committed block is a block. *)
LEMMA CommittedBlockType ==
  ASSUME NEW b \in Block, NEW K \in SUBSET (DOMAIN b.Actions)
  PROVE  CommittedBlock(b, K) \in Block
<1>1. \A n \in DOMAIN b.Actions : b.Actions[n] \in Action
  BY ElementOfSeq DEF Block
<1>2. /\ {b.Actions[n] : n \in (DOMAIN b.Actions) \ K} \in SUBSET Action
      /\ {b.Actions[n] : n \in K} \in SUBSET Action
  BY <1>1
<1>3. ASSUME NEW i \in SUBSET Action, NEW m \in SUBSET Action
      PROVE  [b EXCEPT !.Status = StatusCommit, !.Invalidated = i, !.mutations = m] \in Block
  <2>1. [b EXCEPT !.Status = StatusCommit] \in Block
    BY DEF Block
  <2>2. [b EXCEPT !.Status = StatusCommit, !.Invalidated = i] \in Block
    BY <2>1 DEF Block
  <2> QED
    BY <2>2 DEF Block
<1> QED
  BY Zenon, <1>2, <1>3 DEF CommittedBlock

(* A sealed block is a block. *)
LEMMA SealedType ==
  ASSUME NEW b \in Block
  PROVE  [b EXCEPT !.Status = StatusSealed] \in Block
BY DEF Block

(* A new chain is well-formed. *)
LEMMA ChainTypeInit == ChainInit => ChainTypeOK
BY ChainAssumption DEF ChainInit, ChainTypeOK, Replies

(* A refused call changes nothing but the reply. *)
LEMMA RefuseType ==
  ASSUME ChainTypeOK, NEW err \in Replies, NEW e \in Nat, Refuse(err, e)
  PROVE  ChainTypeOK'
BY DEF ChainTypeOK, Refuse

(* Validate adds an action of the protocol to the live block, or nothing. *)
LEMMA ValidateType ==
  ASSUME ChainTypeOK, NEW input \in Input, Validate(input)
  PROVE  ChainTypeOK'
<1> DEFINE a == Transform[input]
<1>0. a \in Action \cup {Empty}
  BY ChainAssumption
<1>1. CASE a # Empty /\ live # NoBlock /\ Valid(a, validator)
  <2>1. [live EXCEPT !.Actions = Append(@, a)] \in Block
    BY <1>0, <1>1, BlockAppend DEF ChainTypeOK
  <2>2. /\ live' = [live EXCEPT !.Actions = Append(@, a)]
        /\ validator' = validator \cup {a}
        /\ Ok(epoch)
        /\ UNCHANGED <<epoch, commit, commitEpoch, recentBlocks>>
    BY <1>1 DEF Validate
  <2> QED
    BY <1>0, <1>1, <2>1, <2>2 DEF ChainTypeOK, Ok, Replies
<1>2. CASE ~(a # Empty /\ live # NoBlock /\ Valid(a, validator))
  <2>1. Refuse("rejected", epoch)
    BY <1>2 DEF Validate
  <2> QED
    BY <2>1, RefuseType DEF ChainTypeOK, Replies
<1> QED
  BY <1>1, <1>2

(* NextBlock moves the live block to the recent ones and opens a block. *)
LEMMA NextBlockType ==
  ASSUME ChainTypeOK, NEW e \in Nat, NextBlock(e)
  PROVE  ChainTypeOK'
<1>1. CASE Refuse("non-sequential block", e)
  BY <1>1, RefuseType DEF Replies
<1>2. CASE e = epoch + 1 /\ ~Refuse("non-sequential block", e)
  <2>1. NewBlock(epoch + 1) \in Block
    BY NewBlockType DEF ChainTypeOK
  <2>2. /\ recentBlocks' = RetireLive
        /\ epoch' = epoch + 1
        /\ live' = NewBlock(epoch + 1)
        /\ validator' = {}
        /\ reply' = [err |-> "ok", epoch |-> e]
        /\ UNCHANGED <<commit, commitEpoch>>
    BY <1>2 DEF NextBlock, Ok
  <2>3. RetireLive \in Seq(Block)
    BY RetireType
  <2>4. epoch' \in Nat
    <3>1. epoch' = epoch + 1
      BY <2>2
    <3> QED
      BY <3>1 DEF ChainTypeOK
  <2>6. reply' \in [err : Replies, epoch : Nat]
    <3>1. reply' = [err |-> "ok", epoch |-> e]
      BY <2>2
    <3> QED
      BY <3>1 DEF Replies
  <2>5. live' \in Block
    BY <2>1, <2>2
  <2> QED
    BY <2>2, <2>3, <2>4, <2>5, <2>6 DEF ChainTypeOK
<1> QED
  BY <1>1, <1>2 DEF NextBlock

(* SealBlock changes the status of one block and may make it recent. *)
LEMMA SealBlockType ==
  ASSUME ChainTypeOK, NEW e \in Nat, SealBlock(e)
  PROVE  ChainTypeOK'
<1>1. CASE SealLive(e)
  <2>1. recentBlocks' \in Seq(Block)
    BY <1>1, AppendProperties DEF ChainTypeOK, SealLive
  <2> QED
    BY <1>1, <2>1 DEF ChainTypeOK, SealLive, Replies
<1>2. ASSUME NEW err \in {"seal: not found", "already sealed"}, Refuse(err, e)
      PROVE  ChainTypeOK'
  BY <1>2, RefuseType DEF Replies
<1>3. ASSUME NEW i \in DOMAIN recentBlocks,
             recentBlocks' = [recentBlocks EXCEPT ![i].Status = StatusSealed],
             Ok(e),
             UNCHANGED <<epoch, live, validator, commit, commitEpoch>>
      PROVE  ChainTypeOK'
  <2>1. recentBlocks[i] \in Block
    BY ElementOfSeq DEF ChainTypeOK
  <2>2. recentBlocks' \in Seq(Block)
    BY <1>3, <2>1, SealedType, ExceptSeq DEF ChainTypeOK
  <2> QED
    BY <1>3, <2>2 DEF ChainTypeOK, Ok, Replies
<1> QED
  BY <1>1, <1>2, <1>3 DEF SealBlock, SealRecent

(* Commit changes the committed block, the state and the commit epoch. *)
LEMMA CommitType ==
  ASSUME ChainTypeOK, NEW e \in Nat, NEW invalidated \in SUBSET Action,
         Commit(e, invalidated)
  PROVE  ChainTypeOK'
<1>1. ASSUME NEW err \in {"commit: not found", "non-sequential commit",
                          "already committed", "not sealed"},
             Refuse(err, e)
      PROVE  ChainTypeOK'
  BY <1>1, RefuseType DEF Replies
<1>2. ASSUME NEW i \in DOMAIN recentBlocks, CommitSealed(i, invalidated)
      PROVE  ChainTypeOK'
  <2> DEFINE b == recentBlocks[i]
  <2>1. b \in Block
    BY ElementOfSeq DEF ChainTypeOK
  <2>2. PICK K \in SUBSET (DOMAIN b.Actions) :
          /\ recentBlocks' = [recentBlocks EXCEPT ![i] = CommittedBlock(b, K)]
          /\ commit' = commit \cup CommittedBlock(b, K).mutations
          /\ commitEpoch' = b.Epoch
          /\ Ok(b.Epoch)
          /\ UNCHANGED <<epoch, live, validator>>
    BY <1>2 DEF CommitSealed
  <2>3. CommittedBlock(b, K) \in Block
    BY <2>1, CommittedBlockType
  <2>4. recentBlocks' \in Seq(Block)
    BY <2>2, <2>3, ExceptSeq DEF ChainTypeOK
  <2>5. /\ b.Epoch \in Nat
        /\ CommittedBlock(b, K).mutations \in SUBSET Action
    BY <2>1, <2>3 DEF Block
  <2> HIDE DEF b
  <2> QED
    BY <2>2, <2>4, <2>5 DEF ChainTypeOK, Ok, Replies
<1> QED
  BY <1>1, <1>2 DEF Commit

(* A prefix of the recent blocks is a sequence of blocks. *)
LEMMA PrefixType ==
  ASSUME ChainTypeOK, NEW i \in DOMAIN recentBlocks
  PROVE  /\ SubSeq(recentBlocks, 1, i - 1) \in Seq(Block)
         /\ DOMAIN SubSeq(recentBlocks, 1, i - 1) = 1 .. i - 1
         /\ 1 .. i - 1 \subseteq DOMAIN recentBlocks
         /\ \A j \in 1 .. i - 1 : SubSeq(recentBlocks, 1, i - 1)[j] = recentBlocks[j]
BY SubSeqProperties DEF ChainTypeOK

(* Rollback leaves a prefix of the recent blocks and no live block. *)
LEMMA RollbackType ==
  ASSUME ChainTypeOK, NEW e \in Nat, Rollback(e)
  PROVE  ChainTypeOK'
<1>1. ASSUME NEW err \in {"rollback to a commit epoch", "rollback: not found"},
             Refuse(err, e)
      PROVE  ChainTypeOK'
  BY <1>1, RefuseType DEF Replies
<1>2. ASSUME NEW i \in DOMAIN recentBlocks,
             recentBlocks' = SubSeq(recentBlocks, 1, i - 1),
             live' = NoBlock, epoch' = e, Ok(e),
             UNCHANGED <<validator, commit, commitEpoch>>
      PROVE  ChainTypeOK'
  BY <1>2, PrefixType DEF ChainTypeOK, Ok, Replies
<1> QED
  BY <1>1, <1>2 DEF Rollback

(* Recovery leaves a prefix of the recent blocks and a state of actions of *)
(* the protocol.                                                           *)
LEMMA RecoveryType ==
  ASSUME ChainTypeOK, NEW e \in Nat, Recovery(e)
  PROVE  ChainTypeOK'
<1>1. CASE Refuse("after commit epoch", e)
  BY <1>1, RefuseType DEF Replies
<1>2. CASE ~Refuse("after commit epoch", e)
  <2>1. recentBlocks' \in Seq(Block)
    <3>1. CASE UNCHANGED recentBlocks
      BY <3>1 DEF ChainTypeOK
    <3>2. ASSUME NEW i \in DOMAIN recentBlocks,
                 recentBlocks' = SubSeq(recentBlocks, 1, i - 1)
          PROVE  recentBlocks' \in Seq(Block)
      BY <3>2, PrefixType
    <3> QED
      BY <1>2, <3>1, <3>2 DEF Recovery
  <2>2. \A i \in DOMAIN recentBlocks : recentBlocks[i].mutations \in SUBSET Action
    <3>1. \A i \in DOMAIN recentBlocks : recentBlocks[i] \in Block
      BY ElementOfSeq DEF ChainTypeOK
    <3> QED
      BY <3>1 DEF Block
  <2>3. Genesis \cup RecoveredMutations \in SUBSET Action
    BY <2>2, ChainAssumption DEF RecoveredMutations
  <2>4. /\ commit' = Genesis \cup RecoveredMutations
        /\ commitEpoch' = e
        /\ live' = NoBlock
        /\ reply' = [err |-> "ok", epoch |-> e]
        /\ UNCHANGED <<epoch, validator>>
    BY <1>2 DEF Recovery, Ok
  <2> QED
    BY <2>1, <2>3, <2>4 DEF ChainTypeOK, Replies
<1> QED
  BY <1>1, <1>2

(* No call leaves the types. *)
LEMMA ChainTypeStep == ChainTypeOK /\ [ChainNext]_chainVars => ChainTypeOK'
<1> SUFFICES ASSUME ChainTypeOK, [ChainNext]_chainVars PROVE ChainTypeOK'
  OBVIOUS
<1>0. Epochs \subseteq Nat
  BY ChainAssumption DEF Epochs
<1>1. CASE UNCHANGED chainVars
  BY <1>1 DEF chainVars, ChainTypeOK
<1>2. CASE Room(1) /\ \E input \in Input : Validate(input)
  BY <1>2, ValidateType
<1>3. CASE \E e \in Epochs : NextBlock(e)
  BY <1>0, <1>3, NextBlockType
<1>4. CASE \E e \in Epochs : SealBlock(e)
  BY <1>0, <1>4, SealBlockType
<1>5. CASE \E e \in Epochs, invalidated \in SUBSET Action : Commit(e, invalidated)
  BY <1>0, <1>5, CommitType
<1>6. CASE \E e \in Epochs : Rollback(e)
  BY <1>0, <1>6, RollbackType
<1>7. CASE \E e \in Epochs : Recovery(e)
  BY <1>0, <1>7, RecoveryType
<1> QED
  BY <1>1, <1>2, <1>3, <1>4, <1>5, <1>6, <1>7 DEF ChainNext, NodeNext

(* Every call of SocialBlockChain leaves well-formed blocks, epochs and    *)
(* sets of actions, Recovery and Rollback included.                        *)
THEOREM ChainTypeCorrect == ChainSpec => []ChainTypeOK
BY ChainTypeInit, ChainTypeStep, PTL DEF ChainSpec

-----------------------------------------------------------------------------
(* The inductive invariant of the whole interface.  The epochs, the commit *)
(* prefix and the consistency of the state are not inductive alone: a block*)
(* that is appended must be known to be later than the commit epoch and not*)
(* committed, and what Recovery incorporates again, which is whatever the  *)
(* first block holds as its mutations, must agree with the initial state.  *)
(* The report of Commit is right only because the live validator lets no   *)
(* action into a block twice when it excludes its own repetition.          *)

(* No action excludes an earlier one, its own repetition included. *)
Ordered(actions) ==
  \A i, j \in DOMAIN actions : i < j => <<actions[j], actions[i]>> \notin Conflict

LiveParts ==
  live # NoBlock => /\ live.Status = StatusLive
                    /\ live.mutations = {}
                    /\ commitEpoch < epoch
                    /\ Ordered(live.Actions)
                    /\ \A n \in DOMAIN live.Actions : live.Actions[n] \in validator

StateParts ==
  /\ Genesis \subseteq commit
  /\ Consistent(commit)
  /\ Consistent(validator \cup Genesis)
  /\ \A i \in DOMAIN recentBlocks :
       /\ Consistent(recentBlocks[i].mutations \cup Genesis)
       /\ Ordered(recentBlocks[i].Actions)

ChainInv ==
  /\ ChainTypeOK
  /\ EpochOrder
  /\ CommitPrefix
  /\ CommitReport
  /\ LiveParts
  /\ StateParts

(* Every recent block is a block. *)
LEMMA RecentBlock ==
  ASSUME ChainTypeOK, NEW i \in DOMAIN recentBlocks
  PROVE  /\ recentBlocks[i] \in Block
         /\ recentBlocks[i].Epoch \in Nat
         /\ recentBlocks[i].mutations \in SUBSET Action
         /\ recentBlocks[i].Actions \in Seq(Action)
<1>1. recentBlocks[i] \in Block
  BY ElementOfSeq DEF ChainTypeOK
<1> QED
  BY <1>1 DEF Block

(* What Commit changes in a block. *)
LEMMA CommittedFields ==
  ASSUME NEW b \in Block, NEW K \in SUBSET (DOMAIN b.Actions)
  PROVE  /\ CommittedBlock(b, K).Epoch = b.Epoch
         /\ CommittedBlock(b, K).Status = StatusCommit
         /\ CommittedBlock(b, K).Actions = b.Actions
         /\ CommittedBlock(b, K).Invalidated = {b.Actions[n] : n \in (DOMAIN b.Actions) \ K}
         /\ CommittedBlock(b, K).mutations = {b.Actions[n] : n \in K}
<1> DEFINE i == {b.Actions[n] : n \in (DOMAIN b.Actions) \ K}
           m == {b.Actions[n] : n \in K}
           b1 == [b EXCEPT !.Status = StatusCommit]
           b2 == [b1 EXCEPT !.Invalidated = i]
           b3 == [b2 EXCEPT !.mutations = m]
<1>0. /\ i \in SUBSET Action
      /\ m \in SUBSET Action
  <2>1. \A n \in DOMAIN b.Actions : b.Actions[n] \in Action
    BY ElementOfSeq DEF Block
  <2> QED
    BY <2>1
<1>4. CommittedBlock(b, K) = b3
  BY DEF CommittedBlock
<1> HIDE DEF i, m
<1>1. b1 \in Block /\ b1.Epoch = b.Epoch /\ b1.Actions = b.Actions /\ b1.Status = StatusCommit
  BY DEF Block
<1> HIDE DEF b1
<1>2. /\ b2 \in Block /\ b2.Epoch = b.Epoch /\ b2.Actions = b.Actions
      /\ b2.Status = StatusCommit /\ b2.Invalidated = i
  BY <1>0, <1>1 DEF Block
<1> HIDE DEF b2
<1>3. /\ b3 \in Block /\ b3.Epoch = b.Epoch /\ b3.Actions = b.Actions
      /\ b3.Status = StatusCommit /\ b3.Invalidated = i /\ b3.mutations = m
  BY <1>0, <1>2 DEF Block
<1> HIDE DEF b3
<1> QED
  BY <1>3, <1>4 DEF i, m

(* The actions that revalidate keeps exclude neither one another nor       *)
(* anything in the committed state, and they are the actions of the block  *)
(* without those it reports: an action that occurs twice is kept twice or  *)
(* reported twice, because no action of the block excludes its repetition. *)
LEMMA RevalidatedKeeps ==
  ASSUME ChainTypeOK, Consistent(commit), NEW b \in Block,
         NEW invalidated \in SUBSET Action,
         NEW K \in SUBSET (DOMAIN b.Actions),
         Revalidated(b.Actions, invalidated, K), Ordered(b.Actions)
  PROVE  LET m == {b.Actions[n] : n \in K}
         IN  /\ m \in SUBSET Action
             /\ \A a \in m : \A c \in commit : <<a, c>> \notin Conflict
             /\ Consistent(m)
             /\ Consistent(commit \cup m)
             /\ m = Range(b.Actions) \ {b.Actions[n] : n \in (DOMAIN b.Actions) \ K}
<1> DEFINE A == b.Actions
           D == DOMAIN b.Actions
           m == {A[n] : n \in K}
<1>1. /\ \A n \in D : A[n] \in Action
      /\ D \subseteq Nat
      /\ K \subseteq D
  BY ElementOfSeq, LenProperties DEF Block
<1>2. \A n \in K : /\ A[n] \notin invalidated
                   /\ \A c \in commit : <<A[n], c>> \notin Conflict
                   /\ \A k \in K : k < n => <<A[n], A[k]>> \notin Conflict
  BY DEF Revalidated, Valid
<1>3. \A n \in D : \/ n \in K
                   \/ A[n] \in invalidated
                   \/ \E c \in commit : <<A[n], c>> \in Conflict
                   \/ \E k \in K : k < n /\ <<A[n], A[k]>> \in Conflict
  BY DEF Revalidated, Valid
<1>0. \A l, k \in D : l < k => <<A[k], A[l]>> \notin Conflict
  BY DEF Ordered
<1> HIDE DEF A, D
<1>4. \A n, k \in K : n # k => <<A[n], A[k]>> \notin Conflict
  <2> SUFFICES ASSUME NEW n \in K, NEW k \in K, n # k
               PROVE  <<A[n], A[k]>> \notin Conflict
    OBVIOUS
  <2>1. n \in Nat /\ k \in Nat /\ A[n] \in Action /\ A[k] \in Action
    BY <1>1 DEF D
  <2>2. CASE k < n
    BY <1>2, <2>2
  <2>3. CASE n < k
    <3>1. <<A[k], A[n]>> \notin Conflict
      BY <1>2, <2>3
    <3> QED
      BY <2>1, <3>1, ChainAssumption
  <2> QED
    BY <2>1, <2>2, <2>3
<1>5. m \in SUBSET Action
  BY <1>1 DEF D
<1>6. \A a \in m : \A c \in commit : <<a, c>> \notin Conflict
  BY <1>2
<1>7. Consistent(m)
  BY <1>4 DEF Consistent
<1>8. Consistent(commit \cup m)
  <2>1. commit \subseteq Action
    BY DEF ChainTypeOK
  <2>2. \A a \in m : \A c \in commit : <<c, a>> \notin Conflict
    BY <1>5, <1>6, <2>1, ChainAssumption
  <2> QED
    BY <1>6, <1>7, <2>2 DEF Consistent
<1>9. \A n \in K : \A k \in D \ K : A[n] # A[k]
  <2> SUFFICES ASSUME NEW n \in K, NEW k \in D \ K, A[n] = A[k]
               PROVE  FALSE
    OBVIOUS
  <2>1. n \in Nat /\ k \in Nat /\ n # k
    BY <1>1 DEF D
  <2>2. ~ (A[k] \in invalidated) /\ \A c \in commit : <<A[k], c>> \notin Conflict
    BY <1>2
  <2>3. PICK l \in K : l < k /\ <<A[k], A[l]>> \in Conflict
    BY <1>3, <2>2
  <2> QED
    BY <1>1, <1>0, <2>3
<1>10. m = {A[n] : n \in D} \ {A[n] : n \in D \ K}
  BY <1>9 DEF D
<1>11. Range(b.Actions) = {A[n] : n \in D}
  BY DEF A, D, Range
<1> QED
  BY <1>5, <1>6, <1>7, <1>8, <1>10, <1>11 DEF A, D

(* The clauses of the invariant that speak of a sequence of blocks and a   *)
(* commit epoch.                                                           *)
Good(S, ce) ==
  /\ \A i, j \in DOMAIN S : i < j => S[i].Epoch < S[j].Epoch
  /\ \A j \in DOMAIN S :
       /\ S[j].Status = StatusCommit => \A i \in 1 .. j - 1 : S[i].Status = StatusCommit
       /\ S[j].Status # StatusCommit => S[j].Epoch > ce
  /\ \A i \in DOMAIN S :
       S[i].Status = StatusCommit => S[i].mutations = Range(S[i].Actions) \ S[i].Invalidated
  /\ \A i \in DOMAIN S : /\ Consistent(S[i].mutations \cup Genesis)
                         /\ Ordered(S[i].Actions)

(* The other clauses: epochs and live block, and the state. *)
Frame ==
  /\ \A i \in DOMAIN recentBlocks :
       /\ recentBlocks[i].Epoch <= epoch
       /\ live # NoBlock => recentBlocks[i].Epoch < epoch
  /\ live # NoBlock => live.Epoch = epoch
  /\ commitEpoch <= epoch
  /\ LiveParts

StateOK ==
  /\ Genesis \subseteq commit
  /\ Consistent(commit)
  /\ Consistent(validator \cup Genesis)

(* The invariant, with its clauses arranged by what a call disturbs: the   *)
(* recent blocks and the commit epoch, the live block, the state.          *)
LEMMA ChainInvParts ==
  ChainInv <=> ChainTypeOK /\ Good(recentBlocks, commitEpoch) /\ Frame /\ StateOK
BY DEF ChainInv, EpochOrder, CommitPrefix, CommitReport, StateParts, Good, Frame, StateOK

(* The same of the next state. *)
LEMMA ChainInvNext ==
  ChainTypeOK' /\ Good(recentBlocks', commitEpoch') /\ Frame' /\ StateOK' => ChainInv'
BY DEF ChainInv, EpochOrder, CommitPrefix, CommitReport, StateParts, Good, Frame, StateOK

(* A block that is later than all others and not committed may be added. *)
LEMMA GoodAppend ==
  ASSUME NEW S \in Seq(Block), NEW ce \in Nat, Good(S, ce), NEW r \in Block,
         \A i \in DOMAIN S : S[i].Epoch < r.Epoch,
         r.Status # StatusCommit, r.Epoch > ce,
         Consistent(r.mutations \cup Genesis), Ordered(r.Actions)
  PROVE  /\ Good(Append(S, r), ce)
         /\ \A i \in DOMAIN Append(S, r) : Append(S, r)[i].Epoch <= r.Epoch
<1> DEFINE T == Append(S, r)
           n == Len(S)
<1>1. /\ n \in Nat
      /\ DOMAIN S = 1 .. n
      /\ DOMAIN T = 1 .. n + 1
      /\ \A i \in 1 .. n : T[i] = S[i]
      /\ T[n + 1] = r
  BY AppendProperties, LenProperties
<1>0. r.Epoch \in Nat /\ \A i \in 1 .. n : S[i].Epoch \in Nat
  <2>1. \A i \in 1 .. n : S[i] \in Block
    BY <1>1, ElementOfSeq
  <2> QED
    BY <2>1 DEF Block
<1>2. \A i \in 1 .. n + 1 : i \in 1 .. n \/ i = n + 1
  BY <1>1
<1> HIDE DEF T, n
<1>3. \A i, j \in DOMAIN T : i < j => T[i].Epoch < T[j].Epoch
  <2> SUFFICES ASSUME NEW i \in DOMAIN T, NEW j \in DOMAIN T, i < j
               PROVE  T[i].Epoch < T[j].Epoch
    OBVIOUS
  <2>1. i \in 1 .. n
    BY <1>1
  <2>2. CASE j \in 1 .. n
    BY <1>1, <2>1, <2>2 DEF Good
  <2>3. CASE j = n + 1
    BY <1>1, <2>1, <2>3
  <2> QED
    BY <1>1, <1>2, <2>2, <2>3
<1>4. ASSUME NEW j \in DOMAIN T
      PROVE  /\ T[j].Status = StatusCommit => \A i \in 1 .. j - 1 : T[i].Status = StatusCommit
             /\ T[j].Status # StatusCommit => T[j].Epoch > ce
  <2>1. CASE j \in 1 .. n
    <3>1. 1 .. j - 1 \subseteq 1 .. n
      BY <1>1, <2>1
    <3> QED
      BY <1>1, <2>1, <3>1 DEF Good
  <2>2. CASE j = n + 1
    BY <1>1, <2>2
  <2> QED
    BY <1>1, <1>2, <2>1, <2>2
<1>5. ASSUME NEW i \in DOMAIN T
      PROVE  /\ T[i].Status = StatusCommit =>
                  T[i].mutations = Range(T[i].Actions) \ T[i].Invalidated
             /\ Consistent(T[i].mutations \cup Genesis)
             /\ Ordered(T[i].Actions)
  BY <1>1, <1>2 DEF Good
<1>6. \A i \in DOMAIN T : T[i].Epoch <= r.Epoch
  <2> SUFFICES ASSUME NEW i \in DOMAIN T PROVE T[i].Epoch <= r.Epoch
    OBVIOUS
  <2>1. CASE i \in 1 .. n
    BY <1>0, <1>1, <2>1
  <2>2. CASE i = n + 1
    BY <1>0, <1>1, <2>2
  <2> QED
    BY <1>1, <1>2, <2>1, <2>2
<1> QED
  BY <1>3, <1>4, <1>5, <1>6 DEF Good, T

(* The last blocks may be forgotten, and the commit epoch taken back. *)
LEMMA GoodPrefix ==
  ASSUME NEW S \in Seq(Block), NEW ce \in Nat, Good(S, ce), NEW i \in DOMAIN S,
         NEW d \in Nat, d <= ce
  PROVE  /\ Good(SubSeq(S, 1, i - 1), d)
         /\ Good(S, d)
         /\ \A j \in DOMAIN SubSeq(S, 1, i - 1) : SubSeq(S, 1, i - 1)[j].Epoch < S[i].Epoch
<1> DEFINE T == SubSeq(S, 1, i - 1)
<1>1. /\ DOMAIN T = 1 .. i - 1
      /\ 1 .. i - 1 \subseteq DOMAIN S
      /\ \A j \in 1 .. i - 1 : T[j] = S[j]
      /\ DOMAIN S \subseteq Nat
  BY SubSeqProperties, LenProperties
<1>0. \A j \in DOMAIN S : S[j].Epoch \in Nat
  <2>1. \A j \in DOMAIN S : S[j] \in Block
    BY ElementOfSeq
  <2> QED
    BY <2>1 DEF Block
<1>2. \A j \in DOMAIN S : S[j].Status # StatusCommit => S[j].Epoch > d
  BY <1>0 DEF Good
<1>3. Good(S, d)
  BY <1>2 DEF Good
<1> HIDE DEF T
<1>4. Good(T, d)
  <2>1. \A j \in DOMAIN T : 1 .. j - 1 \subseteq 1 .. i - 1
    BY <1>1
  <2> QED
    BY <1>1, <1>3, <2>1 DEF Good
<1>5. \A j \in DOMAIN T : T[j].Epoch < S[i].Epoch
  BY <1>1 DEF Good
<1> QED
  BY <1>3, <1>4, <1>5 DEF T

(* An uncommitted block may become sealed. *)
LEMMA GoodSeal ==
  ASSUME NEW S \in Seq(Block), NEW ce \in Nat, Good(S, ce), NEW i \in DOMAIN S,
         S[i].Status # StatusCommit
  PROVE  LET T == [S EXCEPT ![i].Status = StatusSealed]
         IN  /\ Good(T, ce)
             /\ DOMAIN T = DOMAIN S
             /\ \A j \in DOMAIN S : T[j].Epoch = S[j].Epoch
<1> DEFINE T == [S EXCEPT ![i].Status = StatusSealed]
           r == [S[i] EXCEPT !.Status = StatusSealed]
<1>1. S[i] \in Block
  BY ElementOfSeq
<1>2. /\ r.Epoch = S[i].Epoch
      /\ r.Actions = S[i].Actions
      /\ r.mutations = S[i].mutations
      /\ r.Status # StatusCommit
  BY <1>1 DEF Block
<1>3. /\ DOMAIN T = DOMAIN S
      /\ T[i] = r
      /\ \A j \in DOMAIN S : j # i => T[j] = S[j]
  BY LenProperties
<1>4. \A j \in DOMAIN S : 1 .. j - 1 \subseteq DOMAIN S
  BY LenProperties
<1> HIDE DEF T, r
<1>5. \A j \in DOMAIN S : /\ T[j].Epoch = S[j].Epoch
                          /\ T[j].Actions = S[j].Actions
                          /\ T[j].mutations = S[j].mutations
                          /\ T[j].Status = StatusCommit <=> S[j].Status = StatusCommit
                          /\ T[j].Status = StatusCommit => T[j] = S[j]
  BY <1>2, <1>3
<1>6. Good(T, ce)
  BY <1>3, <1>4, <1>5 DEF Good
<1> QED
  BY <1>3, <1>5, <1>6 DEF T

(* The first uncommitted block may be committed. *)
LEMMA GoodCommit ==
  ASSUME NEW S \in Seq(Block), NEW ce \in Nat, Good(S, ce), NEW i \in DOMAIN S,
         \A j \in 1 .. i - 1 : S[j].Status = StatusCommit,
         NEW r \in Block, r.Epoch = S[i].Epoch, r.Status = StatusCommit,
         r.Actions = S[i].Actions,
         r.mutations = Range(r.Actions) \ r.Invalidated,
         Consistent(r.mutations \cup Genesis)
  PROVE  LET T == [S EXCEPT ![i] = r]
         IN  /\ Good(T, r.Epoch)
             /\ DOMAIN T = DOMAIN S
             /\ \A j \in DOMAIN S : T[j].Epoch = S[j].Epoch
<1> DEFINE T == [S EXCEPT ![i] = r]
<1>1. /\ DOMAIN T = DOMAIN S
      /\ T[i] = r
      /\ \A j \in DOMAIN S : j # i => T[j] = S[j]
  BY LenProperties
<1>2. /\ \A j \in DOMAIN S : 1 .. j - 1 \subseteq DOMAIN S
      /\ DOMAIN S \subseteq Nat
  BY LenProperties
<1> HIDE DEF T
<1>3. \A j \in DOMAIN S : T[j].Epoch = S[j].Epoch
  BY <1>1
<1>4. ASSUME NEW j \in DOMAIN S, T[j].Status = StatusCommit, NEW k \in 1 .. j - 1
      PROVE  T[k].Status = StatusCommit
  <2>1. k \in DOMAIN S /\ j \in Nat /\ k \in Nat /\ i \in Nat /\ 1 <= k
    BY <1>2
  <2>2. CASE k = i
    BY <1>1, <2>2
  <2>3. CASE k < i
    BY <1>1, <2>1, <2>3
  <2>4. CASE i < k
    <3>1. i < j /\ j # i
      BY <2>1, <2>4
    <3>2. S[j].Status = StatusCommit
      BY <1>1, <1>4, <3>1
    <3> QED
      BY <1>1, <2>1, <2>4, <3>2 DEF Good
  <2> QED
    BY <2>1, <2>2, <2>3, <2>4
<1>5. ASSUME NEW j \in DOMAIN S, T[j].Status # StatusCommit
      PROVE  T[j].Epoch > r.Epoch
  <2>1. j # i
    BY <1>1, <1>5
  <2>2. i \in Nat /\ j \in Nat /\ i >= 1 /\ j >= 1
    BY LenProperties
  <2>3. ~ (j < i)
    BY <1>1, <1>5, <2>1, <2>2
  <2> QED
    BY <1>3, <2>1, <2>2, <2>3 DEF Good
<1>6. ASSUME NEW j \in DOMAIN S
      PROVE  /\ T[j].Status = StatusCommit =>
                  T[j].mutations = Range(T[j].Actions) \ T[j].Invalidated
             /\ Consistent(T[j].mutations \cup Genesis)
             /\ Ordered(T[j].Actions)
  <2>1. CASE j = i
    BY <1>1, <2>1 DEF Good
  <2>2. CASE j # i
    BY <1>1, <2>2 DEF Good
  <2> QED
    BY <2>1, <2>2
<1>7. Good(T, r.Epoch)
  BY <1>1, <1>3, <1>4, <1>5, <1>6 DEF Good
<1> QED
  BY <1>1, <1>3, <1>7 DEF T

-----------------------------------------------------------------------------
(* Each call preserves the invariant. *)

(* A chain starts in the invariant. *)
LEMMA ChainInvInit == ChainInit => ChainInv
<1> SUFFICES ASSUME ChainInit PROVE ChainInv
  OBVIOUS
<1>1. ChainTypeOK
  BY ChainTypeInit
<1>2. Good(recentBlocks, commitEpoch)
  BY DEF ChainInit, Good
<1>3. Frame
  BY ChainAssumption DEF ChainInit, Frame, LiveParts
<1>4. StateOK
  BY ChainAssumption DEF ChainInit, StateOK
<1> QED
  BY <1>1, <1>2, <1>3, <1>4, ChainInvParts

(* A call that changes nothing but its reply keeps the invariant. *)
LEMMA SameInv ==
  ASSUME ChainInv, ChainTypeOK',
         UNCHANGED <<epoch, live, validator, commit, commitEpoch, recentBlocks>>
  PROVE  ChainInv'
BY DEF ChainInv, EpochOrder, CommitPrefix, CommitReport, LiveParts, StateParts

(* The fields of a block to which an action was appended. *)
LEMMA AppendFields ==
  ASSUME NEW b \in Block, NEW a \in Action
  PROVE  LET r == [b EXCEPT !.Actions = Append(@, a)]
         IN  /\ r.Epoch = b.Epoch
             /\ r.Status = b.Status
             /\ r.mutations = b.mutations
             /\ r.Actions = Append(b.Actions, a)
<1> DEFINE s == Append(b.Actions, a)
           r == [b EXCEPT !.Actions = s]
<1>1. s \in Seq(Action)
  BY DEF Block
<1> HIDE DEF s
<1>2. /\ r.Epoch = b.Epoch
      /\ r.Status = b.Status
      /\ r.mutations = b.mutations
      /\ r.Actions = s
  BY <1>1 DEF Block
<1> QED
  BY <1>2 DEF s

(* Validate keeps the live block in order and its actions in the validator. *)
LEMMA ValidateInv ==
  ASSUME ChainInv, NEW input \in Input, Validate(input)
  PROVE  ChainInv'
<1> DEFINE a == Transform[input]
<1>0. ChainTypeOK /\ ChainTypeOK' /\ a \in Action \cup {Empty}
  BY ValidateType, ChainAssumption DEF ChainInv
<1>1. CASE a # Empty /\ live # NoBlock /\ Valid(a, validator)
  <2> DEFINE A == live.Actions
  <2>0. a \in Action /\ live \in Block
    BY <1>0, <1>1 DEF ChainTypeOK
  <2>1. /\ live' = [live EXCEPT !.Actions = Append(@, a)]
        /\ validator' = validator \cup {a}
        /\ UNCHANGED <<epoch, commit, commitEpoch, recentBlocks>>
    BY <1>1 DEF Validate
  <2>2. /\ live' # NoBlock
        /\ live'.Epoch = live.Epoch
        /\ live'.Status = live.Status
        /\ live'.mutations = live.mutations
        /\ live'.Actions = Append(A, a)
    BY <2>0, <2>1, AppendFields, BlockAppend, NoBlockAssumption
  <2>3. /\ Genesis \subseteq commit
        /\ \A c \in commit \cup validator : <<a, c>> \notin Conflict /\ <<c, a>> \notin Conflict
    BY <1>0, <1>1, <2>0, ChainAssumption DEF Valid, ChainInv, StateParts, ChainTypeOK
  <2>4. StateOK'
    <3>1. Consistent((validator \cup {a}) \cup Genesis)
      BY <2>3 DEF ChainInv, StateParts, Consistent
    <3> QED
      BY <2>1, <3>1, ChainInvParts DEF StateOK
  <2>5. \A n \in DOMAIN A : A[n] \in validator
    BY <1>1 DEF ChainInv, LiveParts
  <2>6. A \in Seq(Action) /\ Ordered(A)
    BY <1>1, <2>0 DEF ChainInv, LiveParts, Block
  <2>7. /\ Ordered(Append(A, a))
        /\ \A n \in DOMAIN Append(A, a) : Append(A, a)[n] \in validator \cup {a}
    <3> DEFINE T == Append(A, a)
               m == Len(A)
    <3>1. /\ m \in Nat
          /\ DOMAIN A = 1 .. m
          /\ DOMAIN T = 1 .. m + 1
          /\ \A i \in 1 .. m : T[i] = A[i]
          /\ T[m + 1] = a
      BY <2>0, <2>6, AppendProperties, LenProperties
    <3>2. \A i \in 1 .. m + 1 : i \in 1 .. m \/ i = m + 1
      BY <3>1
    <3> HIDE DEF T, m, A
    <3>3. \A n \in DOMAIN T : T[n] \in validator \cup {a}
      BY <2>5, <3>1, <3>2
    <3>4. ASSUME NEW i \in DOMAIN T, NEW j \in DOMAIN T, i < j
          PROVE  <<T[j], T[i]>> \notin Conflict
      <4>1. i \in 1 .. m
        BY <3>1, <3>4
      <4>2. CASE j \in 1 .. m
        BY <2>6, <3>1, <3>4, <4>1, <4>2 DEF Ordered
      <4>3. CASE j = m + 1
        BY <2>3, <2>5, <3>1, <4>1, <4>3
      <4> QED
        BY <3>1, <3>2, <4>2, <4>3
    <3> QED
      BY <3>3, <3>4 DEF Ordered, T
  <2>8. Frame'
    <3> HIDE DEF A
    <3>1. LiveParts'
      BY <1>1, <2>1, <2>2, <2>7 DEF ChainInv, LiveParts
    <3> QED
      BY <1>1, <2>1, <2>2, <3>1, ChainInvParts DEF Frame
  <2>9. Good(recentBlocks', commitEpoch')
    BY <2>1, ChainInvParts
  <2> QED
    BY <1>0, <2>4, <2>8, <2>9, ChainInvNext
<1>2. CASE ~(a # Empty /\ live # NoBlock /\ Valid(a, validator))
  <2>1. Refuse("rejected", epoch)
    BY <1>2 DEF Validate
  <2> QED
    BY <1>0, <2>1, SameInv DEF Refuse
<1> QED
  BY <1>1, <1>2

(* The fields of the live block as NextBlock leaves it in recentBlocks. *)
LEMMA RetireFields ==
  ASSUME NEW b \in Block, NEW m \in SUBSET Action
  PROVE  LET r == [b EXCEPT !.Status = StatusDone, !.mutations = m]
         IN  /\ r.Epoch = b.Epoch
             /\ r.Status = StatusDone
             /\ r.mutations = m
             /\ r.Actions = b.Actions
<1> DEFINE b1 == [b EXCEPT !.Status = StatusDone]
<1>1. b1 \in Block /\ b1.Epoch = b.Epoch /\ b1.Actions = b.Actions /\ b1.Status = StatusDone
  BY DEF Block
<1> HIDE DEF b1
<1>2. LET r == [b1 EXCEPT !.mutations = m]
      IN  /\ r.Epoch = b.Epoch
          /\ r.Status = StatusDone
          /\ r.mutations = m
          /\ r.Actions = b.Actions
  BY <1>1 DEF Block
<1> QED
  BY <1>2 DEF b1

(* NextBlock appends the live block behind blocks that are all earlier. *)
LEMMA NextBlockInv ==
  ASSUME ChainInv, NEW e \in Nat, NextBlock(e)
  PROVE  ChainInv'
<1>0. /\ ChainTypeOK /\ ChainTypeOK'
      /\ Good(recentBlocks, commitEpoch) /\ Frame /\ StateOK
  BY NextBlockType, ChainInvParts
<1>1. CASE Refuse("non-sequential block", e)
  BY <1>0, <1>1, SameInv DEF Refuse
<1>2. CASE ~Refuse("non-sequential block", e)
  <2> DEFINE nb == NewBlock(epoch + 1)
  <2>1. /\ recentBlocks' = RetireLive
        /\ epoch' = epoch + 1
        /\ live' = nb
        /\ validator' = {}
        /\ UNCHANGED <<commit, commitEpoch>>
    BY <1>2 DEF NextBlock
  <2>2. epoch \in Nat /\ commitEpoch \in Nat
    BY <1>0 DEF ChainTypeOK
  <2>3. /\ nb \in Block
        /\ nb.Epoch = epoch + 1
        /\ nb.Status = StatusLive
        /\ nb.mutations = {}
        /\ nb.Actions = << >>
    BY <1>0, <2>2, NewBlockType DEF NewBlock
  <2>4. /\ Good(recentBlocks', commitEpoch)
        /\ \A i \in DOMAIN recentBlocks' : recentBlocks'[i].Epoch <= epoch
    <3>1. CASE live = NoBlock
      BY <1>0, <2>1, <3>1 DEF RetireLive, Frame
    <3>2. CASE live # NoBlock
      <4> DEFINE r == [live EXCEPT !.Status = StatusDone, !.mutations = validator]
      <4>1. live \in Block /\ validator \in SUBSET Action
        BY <1>0, <3>2 DEF ChainTypeOK
      <4>2. /\ r \in Block
            /\ r.Epoch = epoch
            /\ r.Status = StatusDone
            /\ r.mutations = validator
            /\ r.Actions = live.Actions
        BY <1>0, <3>2, <4>1, RetireFields, RetireType DEF Frame
      <4>3. recentBlocks' = Append(recentBlocks, r)
        BY <2>1, <3>2 DEF RetireLive
      <4> HIDE DEF r
      <4>4. /\ \A i \in DOMAIN recentBlocks : recentBlocks[i].Epoch < r.Epoch
            /\ r.Epoch > commitEpoch
            /\ Consistent(r.mutations \cup Genesis)
            /\ Ordered(r.Actions)
        BY <1>0, <2>2, <3>2, <4>2 DEF Frame, LiveParts, StateOK
      <4>5. recentBlocks \in Seq(Block) /\ r.Status # StatusCommit
        BY <1>0, <4>2 DEF ChainTypeOK
      <4> QED
        BY <1>0, <2>2, <4>2, <4>3, <4>4, <4>5, GoodAppend
    <3> QED
      BY <3>1, <3>2
  <2>5. Frame'
    <3>1. commitEpoch <= epoch /\ commitEpoch < epoch + 1
      BY <1>0, <2>2 DEF Frame
    <3>2. \A i \in DOMAIN recentBlocks' : recentBlocks'[i].Epoch \in Nat
      <4>1. \A i \in DOMAIN recentBlocks' : recentBlocks'[i] \in Block
        BY <1>0, ElementOfSeq DEF ChainTypeOK
      <4> QED
        BY <4>1 DEF Block
    <3>3. \A i \in DOMAIN recentBlocks' : recentBlocks'[i].Epoch < epoch + 1
      <4>1. \A x \in Nat : x <= epoch => x < epoch + 1
        BY <2>2
      <4> QED
        BY <2>4, <3>2, <4>1
    <3>4. LiveParts'
      BY <2>1, <2>3, <3>1 DEF LiveParts, Ordered
    <3>5. /\ epoch' = epoch + 1
          /\ commitEpoch' = commitEpoch
          /\ live'.Epoch = epoch + 1
      BY <2>1, <2>3
    <3>6. \A x \in Nat : x < epoch + 1 => x <= epoch + 1
      BY <2>2
    <3> QED
      BY <2>2, <3>1, <3>2, <3>3, <3>4, <3>5, <3>6 DEF Frame
  <2>6. StateOK'
    BY <1>0, <2>1, ChainAssumption DEF StateOK
  <2> QED
    BY <1>0, <2>1, <2>4, <2>5, <2>6, ChainInvNext
<1> QED
  BY <1>1, <1>2

(* SealBlock appends the live block or changes a block that waits. *)
LEMMA SealBlockInv ==
  ASSUME ChainInv, NEW e \in Nat, SealBlock(e)
  PROVE  ChainInv'
<1>0. /\ ChainTypeOK /\ ChainTypeOK'
      /\ Good(recentBlocks, commitEpoch) /\ Frame /\ StateOK
  BY SealBlockType, ChainInvParts
<1>1. CASE SealLive(e)
  <2>1. /\ live # NoBlock
        /\ recentBlocks' = Append(recentBlocks, live)
        /\ live' = NoBlock
        /\ UNCHANGED <<epoch, validator, commit, commitEpoch>>
    BY <1>1 DEF SealLive
  <2>2. /\ live \in Block
        /\ recentBlocks \in Seq(Block)
        /\ commitEpoch \in Nat
    BY <1>0, <2>1 DEF ChainTypeOK
  <2>3. /\ live.Epoch = epoch
        /\ live.Status # StatusCommit
        /\ live.Epoch > commitEpoch
        /\ Consistent(live.mutations \cup Genesis)
        /\ Ordered(live.Actions)
        /\ \A i \in DOMAIN recentBlocks : recentBlocks[i].Epoch < live.Epoch
    <3>1. live.mutations \cup Genesis = Genesis
      BY <1>0, <2>1 DEF Frame, LiveParts
    <3>2. /\ live.Epoch = epoch
          /\ live.Status # StatusCommit
          /\ commitEpoch < epoch
          /\ Ordered(live.Actions)
          /\ \A i \in DOMAIN recentBlocks : recentBlocks[i].Epoch < epoch
      BY <1>0, <2>1 DEF Frame, LiveParts
    <3>3. live.Epoch > commitEpoch
      BY <1>0, <2>2, <3>2 DEF ChainTypeOK
    <3> QED
      BY <3>1, <3>2, <3>3, ChainAssumption
  <2>4. /\ Good(recentBlocks', commitEpoch)
        /\ \A i \in DOMAIN recentBlocks' : recentBlocks'[i].Epoch <= live.Epoch
    BY <1>0, <2>1, <2>2, <2>3, GoodAppend
  <2>5. Frame'
    BY <1>0, <2>1, <2>3, <2>4 DEF Frame, LiveParts
  <2> QED
    BY <1>0, <2>1, <2>4, <2>5, ChainInvNext DEF StateOK
<1>2. ASSUME NEW err, Refuse(err, e)
      PROVE  ChainInv'
  BY <1>0, <1>2, SameInv DEF Refuse
<1>3. ASSUME NEW i \in DOMAIN recentBlocks, recentBlocks[i].Status < StatusSealed,
             recentBlocks' = [recentBlocks EXCEPT ![i].Status = StatusSealed],
             UNCHANGED <<epoch, live, validator, commit, commitEpoch>>
      PROVE  ChainInv'
  <2>1. /\ recentBlocks \in Seq(Block)
        /\ commitEpoch \in Nat
        /\ recentBlocks[i].Status # StatusCommit
    BY <1>0, <1>3 DEF ChainTypeOK
  <2>2. /\ Good(recentBlocks', commitEpoch)
        /\ DOMAIN recentBlocks' = DOMAIN recentBlocks
        /\ \A j \in DOMAIN recentBlocks : recentBlocks'[j].Epoch = recentBlocks[j].Epoch
    BY <1>0, <1>3, <2>1, GoodSeal
  <2>3. Frame'
    BY <1>0, <1>3, <2>2 DEF Frame, LiveParts
  <2> QED
    BY <1>0, <1>3, <2>2, <2>3, ChainInvNext DEF StateOK
<1> QED
  BY <1>1, <1>2, <1>3 DEF SealBlock, SealRecent

(* What a commit that is not refused does to a chain in the invariant. *)
LEMMA CommitSealedEffect ==
  ASSUME ChainInv, NEW i \in DOMAIN recentBlocks,
         NEW invalidated \in SUBSET Action, CommitSealed(i, invalidated)
  PROVE  \E r \in Block :
           /\ r.Epoch = recentBlocks[i].Epoch
           /\ r.Status = StatusCommit
           /\ r.Actions = recentBlocks[i].Actions
           /\ r.mutations = Range(r.Actions) \ r.Invalidated
           /\ \A a \in r.mutations : \A c \in commit : <<a, c>> \notin Conflict
           /\ Consistent(r.mutations)
           /\ Consistent(commit \cup r.mutations)
           /\ recentBlocks' = [recentBlocks EXCEPT ![i] = r]
           /\ commit' = commit \cup r.mutations
           /\ commitEpoch' = r.Epoch
           /\ UNCHANGED <<epoch, live, validator>>
<1> DEFINE b == recentBlocks[i]
<1>0. /\ ChainTypeOK
      /\ b \in Block
      /\ Consistent(commit)
      /\ Ordered(b.Actions)
  BY RecentBlock DEF ChainInv, StateParts
<1>1. PICK K \in SUBSET (DOMAIN b.Actions) :
        /\ Revalidated(b.Actions, invalidated, K)
        /\ recentBlocks' = [recentBlocks EXCEPT ![i] = CommittedBlock(b, K)]
        /\ commit' = commit \cup CommittedBlock(b, K).mutations
        /\ commitEpoch' = b.Epoch
        /\ UNCHANGED <<epoch, live, validator>>
  BY DEF CommitSealed
<1> DEFINE r == CommittedBlock(b, K)
           m == {b.Actions[n] : n \in K}
<1> HIDE DEF b
<1>2. /\ r \in Block
      /\ r.Epoch = b.Epoch
      /\ r.Status = StatusCommit
      /\ r.Actions = b.Actions
      /\ r.Invalidated = {b.Actions[n] : n \in (DOMAIN b.Actions) \ K}
      /\ r.mutations = m
  BY <1>0, CommittedFields, CommittedBlockType
<1>3. /\ \A a \in m : \A c \in commit : <<a, c>> \notin Conflict
      /\ Consistent(m)
      /\ Consistent(commit \cup m)
      /\ m = Range(b.Actions) \ {b.Actions[n] : n \in (DOMAIN b.Actions) \ K}
  BY <1>0, <1>1, RevalidatedKeeps
<1> HIDE DEF r, m
<1>4. /\ r.mutations = Range(r.Actions) \ r.Invalidated
      /\ \A a \in r.mutations : \A c \in commit : <<a, c>> \notin Conflict
      /\ Consistent(r.mutations)
      /\ Consistent(commit \cup r.mutations)
  BY <1>2, <1>3
<1>5. /\ recentBlocks' = [recentBlocks EXCEPT ![i] = r]
      /\ commit' = commit \cup r.mutations
      /\ commitEpoch' = r.Epoch
      /\ UNCHANGED <<epoch, live, validator>>
  BY <1>1, <1>2 DEF r
<1>6. r.Epoch = recentBlocks[i].Epoch /\ r.Actions = recentBlocks[i].Actions
  BY <1>2 DEF b
<1> QED
  BY <1>2, <1>4, <1>5, <1>6

(* Commit commits the first block that waits, and refuses otherwise. *)
LEMMA CommitInv ==
  ASSUME ChainInv, NEW e \in Nat, NEW invalidated \in SUBSET Action,
         Commit(e, invalidated)
  PROVE  ChainInv'
<1>0. /\ ChainTypeOK /\ ChainTypeOK'
      /\ Good(recentBlocks, commitEpoch) /\ Frame /\ StateOK
  BY CommitType, ChainInvParts
<1>1. ASSUME NEW err, Refuse(err, e)
      PROVE  ChainInv'
  BY <1>0, <1>1, SameInv DEF Refuse
<1>2. ASSUME NEW i \in DOMAIN recentBlocks, CommitReaches(i, e),
             CommitSealed(i, invalidated)
      PROVE  ChainInv'
  <2>1. PICK r \in Block :
           /\ r.Epoch = recentBlocks[i].Epoch
           /\ r.Status = StatusCommit
           /\ r.Actions = recentBlocks[i].Actions
           /\ r.mutations = Range(r.Actions) \ r.Invalidated
           /\ Consistent(commit \cup r.mutations)
           /\ recentBlocks' = [recentBlocks EXCEPT ![i] = r]
           /\ commit' = commit \cup r.mutations
           /\ commitEpoch' = r.Epoch
           /\ UNCHANGED <<epoch, live, validator>>
    BY <1>2, CommitSealedEffect
  <2>2. /\ recentBlocks \in Seq(Block)
        /\ commitEpoch \in Nat
        /\ \A j \in 1 .. i - 1 : recentBlocks[j].Status = StatusCommit
        /\ Consistent(r.mutations \cup Genesis)
    BY <1>0, <1>2, <2>1 DEF ChainTypeOK, CommitReaches, StateOK, Consistent
  <2>3. /\ Good(recentBlocks', commitEpoch')
        /\ DOMAIN recentBlocks' = DOMAIN recentBlocks
        /\ \A j \in DOMAIN recentBlocks : recentBlocks'[j].Epoch = recentBlocks[j].Epoch
    BY <1>0, <2>1, <2>2, GoodCommit
  <2>4. Frame'
    <3>1. LiveParts'
      BY <1>0, <2>1 DEF Frame, LiveParts
    <3> QED
      BY <1>0, <2>1, <2>3, <3>1 DEF Frame
  <2>5. StateOK'
    BY <1>0, <2>1 DEF StateOK
  <2> QED
    BY <1>0, <2>3, <2>4, <2>5, ChainInvNext
<1> QED
  BY <1>1, <1>2 DEF Commit

(* Rollback forgets the last blocks and the live one; the commit stays. *)
LEMMA RollbackInv ==
  ASSUME ChainInv, NEW e \in Nat, Rollback(e)
  PROVE  ChainInv'
<1>0. /\ ChainTypeOK /\ ChainTypeOK'
      /\ Good(recentBlocks, commitEpoch) /\ Frame /\ StateOK
      /\ recentBlocks \in Seq(Block) /\ commitEpoch \in Nat
  BY RollbackType, ChainInvParts DEF ChainTypeOK
<1>1. ASSUME NEW err, Refuse(err, e)
      PROVE  ChainInv'
  BY <1>0, <1>1, SameInv DEF Refuse
<1>2. ASSUME NEW i \in DOMAIN recentBlocks, Found(i, e), e >= commitEpoch,
             recentBlocks' = SubSeq(recentBlocks, 1, i - 1),
             live' = NoBlock, epoch' = e,
             UNCHANGED <<validator, commit, commitEpoch>>
      PROVE  ChainInv'
  <2>1. /\ Good(recentBlocks', commitEpoch)
        /\ \A j \in DOMAIN recentBlocks' : recentBlocks'[j].Epoch < recentBlocks[i].Epoch
    BY <1>0, <1>2, GoodPrefix
  <2>2. recentBlocks[i].Epoch = e
    BY <1>2 DEF Found
  <2>3. \A j \in DOMAIN recentBlocks' : recentBlocks'[j] \in Block
    BY <1>0, ElementOfSeq DEF ChainTypeOK
  <2>4. \A j \in DOMAIN recentBlocks' : recentBlocks'[j].Epoch <= e
    BY <2>1, <2>2, <2>3 DEF Block
  <2>5. Frame'
    BY <1>0, <1>2, <2>4 DEF Frame, LiveParts
  <2> QED
    BY <1>0, <1>2, <2>1, <2>5, ChainInvNext DEF StateOK
<1> QED
  BY <1>1, <1>2 DEF Rollback

(* Recovery incorporates the mutations of at most one block on the initial *)
(* state, with which they agree.                                           *)
LEMMA RecoveryInv ==
  ASSUME ChainInv, NEW e \in Nat, Recovery(e)
  PROVE  ChainInv'
<1>0. /\ ChainTypeOK /\ ChainTypeOK'
      /\ Good(recentBlocks, commitEpoch) /\ Frame /\ StateOK
      /\ recentBlocks \in Seq(Block) /\ commitEpoch \in Nat /\ epoch \in Nat
  BY RecoveryType, ChainInvParts DEF ChainTypeOK
<1>1. CASE Refuse("after commit epoch", e)
  BY <1>0, <1>1, SameInv DEF Refuse
<1>2. CASE ~Refuse("after commit epoch", e)
  <2>1. /\ e < commitEpoch
        /\ commit' = Genesis \cup RecoveredMutations
        /\ commitEpoch' = e
        /\ live' = NoBlock
        /\ UNCHANGED <<epoch, validator>>
    BY <1>2 DEF Recovery
  <2>2. \/ UNCHANGED recentBlocks
        \/ \E i \in DOMAIN recentBlocks :
             recentBlocks' = SubSeq(recentBlocks, 1, i - 1)
    BY <1>2 DEF Recovery
  <2>3. \A i \in DOMAIN recentBlocks : recentBlocks[i].Epoch \in Nat
    BY <1>0, RecentBlock
  <2>4. /\ Good(recentBlocks', e)
        /\ \A j \in DOMAIN recentBlocks' : recentBlocks'[j].Epoch <= epoch
    <3>1. CASE UNCHANGED recentBlocks
      <4>1. Good(recentBlocks, e)
        <5>1. \A j \in DOMAIN recentBlocks :
                recentBlocks[j].Status # StatusCommit => recentBlocks[j].Epoch > commitEpoch
          BY <1>0 DEF Good
        <5>2. \A j \in DOMAIN recentBlocks :
                recentBlocks[j].Status # StatusCommit => recentBlocks[j].Epoch > e
          BY <1>0, <2>1, <2>3, <5>1
        <5> QED
          BY <1>0, <5>2 DEF Good
      <4> QED
        BY <1>0, <3>1, <4>1 DEF Frame
    <3>2. ASSUME NEW i \in DOMAIN recentBlocks,
                 recentBlocks' = SubSeq(recentBlocks, 1, i - 1)
          PROVE  /\ Good(recentBlocks', e)
                 /\ \A j \in DOMAIN recentBlocks' : recentBlocks'[j].Epoch <= epoch
      <4>1. Good(recentBlocks', e)
        BY <1>0, <2>1, <3>2, GoodPrefix
      <4>2. \A j \in DOMAIN recentBlocks' :
              j \in DOMAIN recentBlocks /\ recentBlocks'[j] = recentBlocks[j]
        BY <1>0, <3>2, PrefixType
      <4> QED
        BY <1>0, <4>1, <4>2 DEF Frame
    <3> QED
      BY <2>2, <3>1, <3>2
  <2>5. Frame'
    BY <1>0, <2>1, <2>4 DEF Frame, LiveParts
  <2>6. StateOK'
    <3>1. \A i, j \in DOMAIN recentBlocks :
            Found(i, checksumEpoch + 1) /\ Found(j, checksumEpoch + 1) => i = j
      <4>1. \A i, j \in DOMAIN recentBlocks :
              recentBlocks[i].Epoch = recentBlocks[j].Epoch => ~ (i < j)
        BY <1>0, <2>3 DEF Good
      <4>2. DOMAIN recentBlocks \subseteq Nat
        BY <1>0, LenProperties
      <4> QED
        BY <4>1, <4>2 DEF Found
    <3>2. \/ RecoveredMutations = {}
          \/ \E i \in DOMAIN recentBlocks : RecoveredMutations = recentBlocks[i].mutations
      <4>1. CASE \E i \in DOMAIN recentBlocks : Found(i, checksumEpoch + 1)
        <5>1. PICK i \in DOMAIN recentBlocks : Found(i, checksumEpoch + 1)
          BY <4>1
        <5>2. {j \in DOMAIN recentBlocks : Found(j, checksumEpoch + 1)} = {i}
          BY <3>1, <5>1
        <5>3. RecoveredMutations = recentBlocks[i].mutations
          BY <5>2 DEF RecoveredMutations
        <5> QED
          BY <5>3
      <4>2. CASE \A i \in DOMAIN recentBlocks : ~Found(i, checksumEpoch + 1)
        <5>1. {j \in DOMAIN recentBlocks : Found(j, checksumEpoch + 1)} = {}
          BY <4>2
        <5> QED
          BY <5>1 DEF RecoveredMutations
      <4> QED
        BY <4>1, <4>2
    <3>3. Consistent(Genesis \cup RecoveredMutations)
      BY <1>0, <3>2, ChainAssumption DEF Good, Consistent
    <3> QED
      BY <1>0, <2>1, <3>3 DEF StateOK
  <2> QED
    BY <1>0, <2>1, <2>4, <2>5, <2>6, ChainInvNext
<1> QED
  BY <1>1, <1>2

(* No call leaves the invariant. *)
LEMMA ChainInvStep == ChainInv /\ [ChainNext]_chainVars => ChainInv'
<1> SUFFICES ASSUME ChainInv, [ChainNext]_chainVars PROVE ChainInv'
  OBVIOUS
<1>0. Epochs \subseteq Nat
  BY ChainAssumption DEF Epochs
<1>1. CASE UNCHANGED chainVars
  <2>1. ChainTypeOK'
    BY <1>1, ChainTypeStep DEF ChainInv
  <2> QED
    BY <1>1, <2>1, SameInv DEF chainVars
<1>2. CASE Room(1) /\ \E input \in Input : Validate(input)
  BY <1>2, ValidateInv
<1>3. CASE \E e \in Epochs : NextBlock(e)
  BY <1>0, <1>3, NextBlockInv
<1>4. CASE \E e \in Epochs : SealBlock(e)
  BY <1>0, <1>4, SealBlockInv
<1>5. CASE \E e \in Epochs, invalidated \in SUBSET Action : Commit(e, invalidated)
  BY <1>0, <1>5, CommitInv
<1>6. CASE \E e \in Epochs : Rollback(e)
  BY <1>0, <1>6, RollbackInv
<1>7. CASE \E e \in Epochs : Recovery(e)
  BY <1>0, <1>7, RecoveryInv
<1> QED
  BY <1>1, <1>2, <1>3, <1>4, <1>5, <1>6, <1>7 DEF ChainNext, NodeNext

(* Whatever calls are made in whatever order, epochs never repeat or go    *)
(* backwards among the blocks that the chain holds.                        *)
THEOREM EpochOrderCorrect == ChainSpec => []EpochOrder
<1>1. ChainInv => EpochOrder
  BY DEF ChainInv
<1> QED
  BY <1>1, ChainInvInit, ChainInvStep, PTL DEF ChainSpec

(* No committed block ever waits behind an uncommitted one. *)
THEOREM CommitPrefixCorrect == ChainSpec => []CommitPrefix
<1>1. ChainInv => CommitPrefix
  BY DEF ChainInv
<1> QED
  BY <1>1, ChainInvInit, ChainInvStep, PTL DEF ChainSpec

(* The hashes that Commit returns are exactly what it left out of the state. *)
THEOREM CommitReportCorrect == ChainSpec => []CommitReport
<1>1. ChainInv => CommitReport
  BY DEF ChainInv
<1> QED
  BY <1>1, ChainInvInit, ChainInvStep, PTL DEF ChainSpec

(* The committed state never holds two actions that exclude one another. *)
THEOREM StateConsistentCorrect == ChainSpec => []StateConsistent
<1>1. ChainInv => StateConsistent
  BY DEF ChainInv, StateParts, StateConsistent
<1> QED
  BY <1>1, ChainInvInit, ChainInvStep, PTL DEF ChainSpec

-----------------------------------------------------------------------------
(* What the two disagreements with the code's own words leave true.        *)

(* Epochs increase, so a block is the first of its epoch, and the only one. *)
LEMMA OnlyOfEpoch ==
  ASSUME ChainInv, NEW i \in DOMAIN recentBlocks, NEW e, recentBlocks[i].Epoch = e
  PROVE  /\ Found(i, e)
         /\ \A j \in DOMAIN recentBlocks : recentBlocks[j].Epoch = e => j = i
<1>1. /\ \A j, k \in DOMAIN recentBlocks :
           j < k => recentBlocks[j].Epoch < recentBlocks[k].Epoch
      /\ \A j \in DOMAIN recentBlocks : recentBlocks[j].Epoch \in Nat
  BY RecentBlock DEF ChainInv, EpochOrder
<1>2. /\ \A j \in 1 .. i - 1 : j \in DOMAIN recentBlocks /\ j < i
      /\ DOMAIN recentBlocks \subseteq Nat
  BY LenProperties DEF ChainInv, ChainTypeOK
<1>3. \A j \in DOMAIN recentBlocks : recentBlocks[j].Epoch = e => ~(j < i) /\ ~(i < j)
  BY <1>1
<1>4. \A j \in DOMAIN recentBlocks : recentBlocks[j].Epoch = e => j = i
  BY <1>2, <1>3
<1>5. \A j \in 1 .. i - 1 : recentBlocks[j].Epoch # e
  BY <1>2, <1>3
<1> QED
  BY <1>4, <1>5 DEF Found

(* A call that reports anything else keeps the property. *)
LEMMA OtherReport ==
  ASSUME NEW err, NEW e, err # "seal: not found", reply' = [err |-> err, epoch |-> e]
  PROVE  SealReportElsewhere'
BY DEF SealReportElsewhere

(* Each call of the seal: the live block has become the last recent block, *)
(* and findBlock misses no block of any other epoch.                       *)
LEMMA SealBlockReport ==
  ASSUME ChainInv, NEW e \in Nat, SealBlock(e)
  PROVE  SealReportElsewhere'
<1>1. CASE SealLive(e)
  <2>1. /\ live \in Block
        /\ recentBlocks \in Seq(Block)
        /\ live.Epoch = e
        /\ e = epoch
        /\ live.Status = StatusLive
        /\ \A i \in DOMAIN recentBlocks : recentBlocks[i].Epoch < epoch
    BY <1>1 DEF SealLive, ChainInv, ChainTypeOK, EpochOrder, LiveParts
  <2>2. /\ recentBlocks' = Append(recentBlocks, live)
        /\ live' = NoBlock
        /\ epoch' = epoch
        /\ reply' = [err |-> "seal: not found", epoch |-> e]
    BY <1>1 DEF SealLive
  <2> DEFINE n == Len(recentBlocks)
  <2>3. /\ n \in Nat
        /\ DOMAIN recentBlocks = 1 .. n
        /\ Len(recentBlocks') = n + 1
        /\ DOMAIN recentBlocks' = 1 .. n + 1
        /\ \A i \in 1 .. n : recentBlocks'[i] = recentBlocks[i]
        /\ recentBlocks'[n + 1] = live
    <3> DEFINE T == Append(recentBlocks, live)
    <3>1. /\ n \in Nat
          /\ DOMAIN recentBlocks = 1 .. n
          /\ Len(T) = n + 1
          /\ DOMAIN T = 1 .. n + 1
          /\ \A i \in 1 .. n : T[i] = recentBlocks[i]
          /\ T[n + 1] = live
      BY <2>1, AppendProperties, LenProperties
    <3>2. recentBlocks' = T
      BY <2>2
    <3> HIDE DEF T, n
    <3> QED
      BY <3>1, <3>2
  <2> HIDE DEF n
  <2>4. \A i \in 1 .. n + 1 : i \in 1 .. n \/ i = n + 1
    BY <2>3
  <2>5. \A i \in 1 .. n : recentBlocks[i].Epoch # epoch
    <3>1. \A i \in 1 .. n : recentBlocks[i].Epoch \in Nat
      BY <2>3, RecentBlock DEF ChainInv
    <3>2. epoch \in Nat
      BY DEF ChainInv, ChainTypeOK
    <3> QED
      BY <2>1, <2>3, <3>1, <3>2
  <2>6. \A i \in DOMAIN recentBlocks' : recentBlocks'[i].Epoch = e => i = n + 1
    BY <2>1, <2>3, <2>4, <2>5
  <2> QED
    BY <2>1, <2>2, <2>3, <2>6 DEF SealReportElsewhere
<1>2. CASE SealRecent(e)
  <2>1. CASE \A i \in DOMAIN recentBlocks : ~Found(i, e)
    <3>1. Refuse("seal: not found", e)
      BY <1>2, <2>1 DEF SealRecent
    <3>2. \A i \in DOMAIN recentBlocks : recentBlocks[i].Epoch # e
      BY <2>1, OnlyOfEpoch
    <3> QED
      BY <3>1, <3>2 DEF Refuse, SealReportElsewhere
  <2>2. CASE \E i \in DOMAIN recentBlocks : Found(i, e)
    <3>1. Refuse("already sealed", e) \/ Ok(e)
      BY <1>2, <2>2 DEF SealRecent
    <3> QED
      BY <3>1, OtherReport DEF Refuse, Ok
  <2> QED
    BY <2>1, <2>2
<1> QED
  BY <1>1, <1>2 DEF SealBlock

(* Only the seal reports that a block to seal is not found. *)
LEMMA ReportStep ==
  ASSUME ChainInv, SealReportElsewhere, [ChainNext]_chainVars
  PROVE  SealReportElsewhere'
<1>0. Epochs \subseteq Nat
  BY ChainAssumption DEF Epochs
<1>1. CASE UNCHANGED chainVars
  BY <1>1 DEF chainVars, SealReportElsewhere
<1>2. ASSUME NEW input \in Input, Validate(input)
      PROVE  SealReportElsewhere'
  <2>1. Refuse("rejected", epoch) \/ Ok(epoch)
    BY <1>2 DEF Validate
  <2> QED
    BY <2>1, OtherReport DEF Refuse, Ok
<1>3. ASSUME NEW e \in Epochs, NextBlock(e)
      PROVE  SealReportElsewhere'
  <2>1. Refuse("non-sequential block", e) \/ Ok(e)
    BY <1>3 DEF NextBlock
  <2> QED
    BY <2>1, OtherReport DEF Refuse, Ok
<1>4. ASSUME NEW e \in Epochs, SealBlock(e)
      PROVE  SealReportElsewhere'
  BY <1>0, <1>4, SealBlockReport
<1>5. ASSUME NEW e \in Epochs, NEW invalidated \in SUBSET Action, Commit(e, invalidated)
      PROVE  SealReportElsewhere'
  <2>1. \/ \E err \in {"commit: not found", "non-sequential commit",
                       "already committed", "not sealed"} : Refuse(err, e)
        \/ \E i \in DOMAIN recentBlocks : CommitSealed(i, invalidated)
    BY <1>5 DEF Commit
  <2>2. ASSUME NEW i \in DOMAIN recentBlocks, CommitSealed(i, invalidated)
        PROVE  Ok(recentBlocks[i].Epoch)
    BY <2>2 DEF CommitSealed
  <2>3. ASSUME NEW x, Ok(x)
        PROVE  SealReportElsewhere'
    BY <2>3, OtherReport DEF Ok
  <2>4. ASSUME NEW err, Refuse(err, e), err # "seal: not found"
        PROVE  SealReportElsewhere'
    BY <2>4, OtherReport DEF Refuse
  <2> QED
    BY <2>1, <2>2, <2>3, <2>4
<1>6. ASSUME NEW e \in Epochs, Rollback(e)
      PROVE  SealReportElsewhere'
  <2>1. \/ Refuse("rollback to a commit epoch", e)
        \/ Refuse("rollback: not found", e)
        \/ Ok(e)
    BY <1>6 DEF Rollback
  <2> QED
    BY <2>1, OtherReport DEF Refuse, Ok
<1>7. ASSUME NEW e \in Epochs, Recovery(e)
      PROVE  SealReportElsewhere'
  <2>1. Refuse("after commit epoch", e) \/ Ok(e)
    BY <1>7 DEF Recovery
  <2> QED
    BY <2>1, OtherReport DEF Refuse, Ok
<1> QED
  BY <1>1, <1>2, <1>3, <1>4, <1>5, <1>6, <1>7 DEF ChainNext, NodeNext

(* SealBlock denies one block only: the one that this very call took off   *)
(* the live position.                                                      *)
THEOREM SealReportElsewhereCorrect == ChainSpec => []SealReportElsewhere
<1>1. ChainInit => SealReportElsewhere
  BY DEF ChainInit, SealReportElsewhere
<1> QED
  BY <1>1, ChainInvInit, ChainInvStep, ReportStep, PTL DEF ChainSpec

(* No block of epoch zero is ever made: the first is the one after the     *)
(* epoch the chain starts with, or after one it was rolled back to.        *)
FromOne == \A i \in DOMAIN recentBlocks : recentBlocks[i].Epoch # 0

(* Recent blocks whose epochs the chain held already, or held live. *)
LEMMA FromOneKept ==
  ASSUME ChainInv, FromOne,
         \A i \in DOMAIN recentBlocks' :
           \/ \E j \in DOMAIN recentBlocks : recentBlocks'[i].Epoch = recentBlocks[j].Epoch
           \/ live # NoBlock /\ recentBlocks'[i].Epoch = epoch
  PROVE  FromOne'
<1>1. live # NoBlock => epoch # 0
  BY DEF ChainInv, ChainTypeOK, LiveParts
<1> QED
  BY <1>1 DEF FromOne

(* The live block, retired or sealed, is appended with its epoch. *)
LEMMA FromOneAppend ==
  ASSUME ChainInv, FromOne, live # NoBlock, NEW r \in Block, r.Epoch = live.Epoch,
         recentBlocks' = Append(recentBlocks, r)
  PROVE  FromOne'
<1> DEFINE n == Len(recentBlocks)
<1>1. recentBlocks \in Seq(Block) /\ live.Epoch = epoch
  BY DEF ChainInv, ChainTypeOK, EpochOrder
<1>2. /\ n \in Nat
      /\ DOMAIN recentBlocks = 1 .. n
      /\ DOMAIN recentBlocks' = 1 .. n + 1
      /\ \A i \in 1 .. n : recentBlocks'[i] = recentBlocks[i]
      /\ recentBlocks'[n + 1] = r
  BY <1>1, AppendProperties, LenProperties
<1> HIDE DEF n
<1>3. \A i \in 1 .. n + 1 : i \in 1 .. n \/ i = n + 1
  BY <1>2
<1> QED
  BY <1>1, <1>2, <1>3, FromOneKept

(* A block whose status or content changes keeps its epoch. *)
LEMMA FromOneChanged ==
  ASSUME ChainInv, FromOne, NEW i \in DOMAIN recentBlocks, NEW r,
         r.Epoch = recentBlocks[i].Epoch,
         recentBlocks' = [recentBlocks EXCEPT ![i] = r]
  PROVE  FromOne'
<1>1. /\ DOMAIN recentBlocks' = DOMAIN recentBlocks
      /\ recentBlocks'[i] = r
      /\ \A j \in DOMAIN recentBlocks : j # i => recentBlocks'[j] = recentBlocks[j]
  BY DEF ChainInv, ChainTypeOK
<1> QED
  BY <1>1, FromOneKept

(* Forgetting the last blocks adds none. *)
LEMMA FromOnePrefix ==
  ASSUME ChainInv, FromOne, NEW i \in DOMAIN recentBlocks,
         recentBlocks' = SubSeq(recentBlocks, 1, i - 1)
  PROVE  FromOne'
<1>1. \A j \in DOMAIN recentBlocks' :
        j \in DOMAIN recentBlocks /\ recentBlocks'[j] = recentBlocks[j]
  BY PrefixType DEF ChainInv, ChainTypeOK
<1> QED
  BY <1>1, FromOneKept

(* No call adds a block of epoch zero. *)
LEMMA FromOneStep ==
  ASSUME ChainInv, FromOne, [ChainNext]_chainVars
  PROVE  FromOne'
<1>0. Epochs \subseteq Nat
  BY ChainAssumption DEF Epochs
<1>1. CASE UNCHANGED recentBlocks
  BY <1>1 DEF FromOne
<1>2. ASSUME NEW input \in Input, Validate(input)
      PROVE  UNCHANGED recentBlocks
  BY <1>2 DEF Validate, Refuse
<1>3. ASSUME NEW e \in Epochs, NextBlock(e)
      PROVE  FromOne'
  <2>1. CASE live = NoBlock
    BY <1>1, <1>3, <2>1 DEF NextBlock, Refuse, RetireLive
  <2>2. CASE live # NoBlock
    <3>1. live \in Block /\ validator \in SUBSET Action
      BY <2>2 DEF ChainInv, ChainTypeOK
    <3> DEFINE r == [live EXCEPT !.Status = StatusDone, !.mutations = validator]
    <3>2. r.Epoch = live.Epoch /\ r \in Block
      <4>1. r.Epoch = live.Epoch
        BY <3>1, RetireFields
      <4>2. r \in Block
        BY <2>2, RetireType DEF ChainInv
      <4> QED
        BY <4>1, <4>2
    <3>3. UNCHANGED recentBlocks \/ recentBlocks' = Append(recentBlocks, r)
      BY <1>3, <2>2 DEF NextBlock, Refuse, RetireLive
    <3> HIDE DEF r
    <3> QED
      BY <1>1, <2>2, <3>2, <3>3, FromOneAppend
  <2> QED
    BY <2>1, <2>2
<1>4. ASSUME NEW e \in Epochs, SealBlock(e)
      PROVE  FromOne'
  <2>1. CASE SealLive(e)
    <3>1. live # NoBlock /\ recentBlocks' = Append(recentBlocks, live)
      BY <2>1 DEF SealLive
    <3>2. live \in Block
      BY <3>1 DEF ChainInv, ChainTypeOK
    <3> QED
      BY <3>1, <3>2, FromOneAppend
  <2>2. ASSUME NEW i \in DOMAIN recentBlocks,
               recentBlocks' = [recentBlocks EXCEPT ![i].Status = StatusSealed]
        PROVE  FromOne'
    <3>1. [recentBlocks[i] EXCEPT !.Status = StatusSealed].Epoch = recentBlocks[i].Epoch
      <4>1. recentBlocks[i] \in Block
        BY RecentBlock DEF ChainInv
      <4> QED
        BY <4>1 DEF Block
    <3> QED
      BY <2>2, <3>1, FromOneChanged
  <2> QED
    BY <1>1, <1>4, <2>1, <2>2 DEF SealBlock, SealRecent, Refuse
<1>5. ASSUME NEW e \in Epochs, NEW invalidated \in SUBSET Action, Commit(e, invalidated)
      PROVE  FromOne'
  <2>1. ASSUME NEW i \in DOMAIN recentBlocks, CommitSealed(i, invalidated)
        PROVE  FromOne'
    BY <2>1, CommitSealedEffect, FromOneChanged
  <2> QED
    BY <1>1, <1>5, <2>1 DEF Commit, Refuse
<1>6. ASSUME NEW e \in Epochs, Rollback(e)
      PROVE  FromOne'
  BY <1>1, <1>6, FromOnePrefix DEF Rollback, Refuse
<1>7. ASSUME NEW e \in Epochs, Recovery(e)
      PROVE  FromOne'
  BY <1>1, <1>7, FromOnePrefix DEF Recovery, Refuse
<1>8. CASE UNCHANGED chainVars
  BY <1>1, <1>8 DEF chainVars
<1> QED
  BY <1>1, <1>2, <1>3, <1>4, <1>5, <1>6, <1>7, <1>8 DEF ChainNext, NodeNext

(* What Recovery incorporates again is what the blocks up to the first     *)
(* epoch after the checksum did: it is the only such block.                *)
LEMMA FirstOnly ==
  ASSUME ChainInv, FromOne
  PROVE  Genesis \cup RecoveredMutations = StateUpTo(checksumEpoch + 1)
<1>1. \A j \in DOMAIN recentBlocks :
        recentBlocks[j].Epoch <= checksumEpoch + 1 <=> recentBlocks[j].Epoch = checksumEpoch + 1
  BY RecentBlock DEF ChainInv, FromOne, checksumEpoch
<1>2. \A j \in DOMAIN recentBlocks :
        Found(j, checksumEpoch + 1) <=> recentBlocks[j].Epoch = checksumEpoch + 1
  BY OnlyOfEpoch DEF Found
<1>3. {j \in DOMAIN recentBlocks : Found(j, checksumEpoch + 1)}
        = {j \in DOMAIN recentBlocks : recentBlocks[j].Epoch <= checksumEpoch + 1}
  BY <1>1, <1>2
<1> QED
  BY <1>3 DEF RecoveredMutations, StateUpTo

(* The commit epoch goes back in Recovery only: Commit stops at the first  *)
(* block that waits, which is later than the commit epoch.                 *)
LEMMA RecoveredStep ==
  ASSUME ChainInv, FromOne, [ChainNext]_chainVars
  PROVE  commitEpoch' < commitEpoch => commit' = StateUpTo(checksumEpoch + 1)
<1>0. commitEpoch \in Nat /\ Epochs \subseteq Nat
  BY ChainAssumption DEF ChainInv, ChainTypeOK, Epochs
<1>1. CASE UNCHANGED commitEpoch
  BY <1>0, <1>1
<1>2. ASSUME NEW input \in Input, Validate(input)
      PROVE  UNCHANGED commitEpoch
  BY <1>2 DEF Validate, Refuse
<1>3. ASSUME NEW e \in Epochs, NextBlock(e)
      PROVE  UNCHANGED commitEpoch
  BY <1>3 DEF NextBlock, Refuse
<1>4. ASSUME NEW e \in Epochs, SealBlock(e)
      PROVE  UNCHANGED commitEpoch
  BY <1>4 DEF SealBlock, SealLive, SealRecent, Refuse
<1>5. ASSUME NEW e \in Epochs, NEW invalidated \in SUBSET Action, Commit(e, invalidated)
      PROVE  UNCHANGED commitEpoch \/ commitEpoch' > commitEpoch
  <2>1. ASSUME NEW i \in DOMAIN recentBlocks, CommitSealed(i, invalidated),
               recentBlocks[i].Status = StatusSealed
        PROVE  commitEpoch' > commitEpoch
    <3>1. commitEpoch' = recentBlocks[i].Epoch
      BY <2>1 DEF CommitSealed
    <3> QED
      BY <2>1, <3>1 DEF ChainInv, CommitPrefix
  <2> QED
    BY <1>5, <2>1 DEF Commit, Refuse
<1>6. ASSUME NEW e \in Epochs, Rollback(e)
      PROVE  UNCHANGED commitEpoch
  BY <1>6 DEF Rollback, Refuse
<1>7. ASSUME NEW e \in Epochs, Recovery(e)
      PROVE  UNCHANGED commitEpoch \/ commit' = StateUpTo(checksumEpoch + 1)
  BY <1>7, FirstOnly DEF Recovery, Refuse
<1>8. CASE UNCHANGED chainVars
  BY <1>1, <1>8 DEF chainVars
<1>9. \/ UNCHANGED commitEpoch
      \/ commitEpoch' > commitEpoch /\ commitEpoch' \in Nat
      \/ commit' = StateUpTo(checksumEpoch + 1)
  <2>1. commitEpoch' \in Nat
    BY ChainTypeStep DEF ChainInv, ChainTypeOK
  <2> QED
    BY <1>2, <1>3, <1>4, <1>5, <1>6, <1>7, <1>8, <2>1 DEF ChainNext, NodeNext, chainVars
<1> QED
  BY <1>0, <1>9

(* Recovery leaves the state of the first epoch after the checksum: no     *)
(* other call takes the commit epoch back, and the blocks whose mutations  *)
(* it drops are all those after the first.                                 *)
THEOREM RecoveredFirstCorrect == ChainSpec => RecoveredFirst
<1>1. ChainInit => FromOne
  BY DEF ChainInit, FromOne
<1> QED
  BY <1>1, ChainInvInit, ChainInvStep, FromOneStep, RecoveredStep, PTL
  DEF ChainSpec, RecoveredFirst

-----------------------------------------------------------------------------
(* The chain under the calls of LaunchNode. *)

(* The clauses that speak of the recent blocks S, the commit epoch ce and  *)
(* the committed state st.  The last one is not a property of its own: the *)
(* commit epoch is that of a block the chain still holds, or of the start. *)
LogParts(S, ce, st) ==
  /\ \A i \in DOMAIN S : S[i].Epoch = StartEpoch + i
  /\ \A i \in DOMAIN S : S[i].Status = StatusCommit <=> S[i].Epoch <= ce
  /\ st = Genesis \cup UNION {S[i].mutations :
                                i \in {j \in DOMAIN S : S[j].Status = StatusCommit}}
  /\ \A i, j \in DOMAIN S :
       i # j /\ S[i].Status = StatusCommit /\ S[j].Status = StatusCommit =>
         \A a \in S[i].mutations, b \in S[j].mutations : <<a, b>> \notin Conflict
  /\ StartEpoch <= ce
  /\ ce <= StartEpoch + Len(S)

(* The live epoch is the one after the recent blocks. *)
LiveNext == epoch = StartEpoch + Len(recentBlocks) + (IF live = NoBlock THEN 0 ELSE 1)

(* The inductive invariant of the node's chain. *)
NodeInv ==
  /\ ChainInv
  /\ LogParts(recentBlocks, commitEpoch, commit)
  /\ LiveNext

(* The same of the next state. *)
LEMMA NodeInvNext ==
  ChainInv' /\ LogParts(recentBlocks', commitEpoch', commit') /\ LiveNext' => NodeInv'
BY DEF NodeInv, LogParts

(* It implies the properties that the runs check. *)
LEMMA NodeInvImplies ==
  NodeInv => DenseEpochs /\ CommitMark /\ Replayable /\ NoDoubleSpend
BY DEF NodeInv, LogParts, LiveNext, DenseEpochs, CommitMark, Replayable,
       NoDoubleSpend, Committed

(* The epoch of the recent block at i, in numbers. *)
LEMMA RecentSeq ==
  ASSUME ChainTypeOK
  PROVE  /\ recentBlocks \in Seq(Block)
         /\ Len(recentBlocks) \in Nat
         /\ DOMAIN recentBlocks = 1 .. Len(recentBlocks)
         /\ commitEpoch \in Nat
         /\ epoch \in Nat
         /\ StartEpoch \in Nat
BY LenProperties, ChainAssumption DEF ChainTypeOK

(* Blocks that are added uncommitted behind the others, and changes that   *)
(* neither commit a block nor touch its mutations, leave the log alone.    *)
LEMMA LogSame ==
  ASSUME NEW S \in Seq(Block), NEW T \in Seq(Block), NEW ce \in Nat, NEW st,
         LogParts(S, ce, st),
         Len(S) <= Len(T),
         \A i \in 1 .. Len(S) :
           /\ T[i].Epoch = S[i].Epoch
           /\ T[i].mutations = S[i].mutations
           /\ T[i].Status = StatusCommit <=> S[i].Status = StatusCommit,
         \A i \in 1 .. Len(T) : i > Len(S) =>
           /\ T[i].Epoch = StartEpoch + i
           /\ T[i].Status # StatusCommit
  PROVE  LogParts(T, ce, st)
<1> DEFINE m == Len(S)
           n == Len(T)
           CS == {j \in DOMAIN S : S[j].Status = StatusCommit}
           CT == {j \in DOMAIN T : T[j].Status = StatusCommit}
<1>1. /\ m \in Nat /\ n \in Nat /\ m <= n
      /\ DOMAIN S = 1 .. m
      /\ DOMAIN T = 1 .. n
      /\ StartEpoch \in Nat
      /\ \A i \in 1 .. n : i \in 1 .. m \/ (i > m /\ i \in Nat)
  BY LenProperties, ChainAssumption
<1>2. \A i \in 1 .. m : /\ T[i].Epoch = S[i].Epoch
                        /\ T[i].mutations = S[i].mutations
                        /\ T[i].Status = StatusCommit <=> S[i].Status = StatusCommit
  OBVIOUS
<1>3. \A i \in 1 .. n : i > m => T[i].Epoch = StartEpoch + i /\ T[i].Status # StatusCommit
  OBVIOUS
<1>4. /\ \A i \in 1 .. m : S[i].Epoch = StartEpoch + i
      /\ \A i \in 1 .. m : S[i].Status = StatusCommit <=> S[i].Epoch <= ce
      /\ st = Genesis \cup UNION {S[i].mutations : i \in CS}
      /\ \A i, j \in 1 .. m :
           i # j /\ S[i].Status = StatusCommit /\ S[j].Status = StatusCommit =>
             \A a \in S[i].mutations, b \in S[j].mutations : <<a, b>> \notin Conflict
      /\ StartEpoch <= ce
      /\ ce <= StartEpoch + m
  BY <1>1 DEF LogParts
<1> HIDE DEF m, n
<1>5. CT = CS
  BY <1>1, <1>2, <1>3
<1>6. {S[i].mutations : i \in CS} = {T[i].mutations : i \in CT}
  BY SMTT(30), <1>1, <1>2, <1>5
<1> HIDE DEF CS, CT
<1>7. ASSUME NEW i \in 1 .. n
      PROVE  /\ T[i].Epoch = StartEpoch + i
             /\ T[i].Status = StatusCommit <=> T[i].Epoch <= ce
  <2>1. CASE i \in 1 .. m
    BY <1>2, <1>4, <2>1
  <2>2. CASE i > m
    BY <1>1, <1>3, <1>4, <2>2
  <2> QED
    BY <1>1, <2>1, <2>2
<1>8. ASSUME NEW i \in 1 .. n, NEW j \in 1 .. n, i # j,
             T[i].Status = StatusCommit, T[j].Status = StatusCommit
      PROVE  \A a \in T[i].mutations, b \in T[j].mutations : <<a, b>> \notin Conflict
  <2>1. i \in 1 .. m /\ j \in 1 .. m
    BY <1>1, <1>3, <1>8
  <2> QED
    BY <1>2, <1>4, <1>8, <2>1
<1>9. ce <= StartEpoch + n
  BY <1>1, <1>4
<1> QED
  BY <1>1, <1>4, <1>6, <1>7, <1>8, <1>9 DEF LogParts, n, CT

(* The first block that waits is committed: everything up to it, and       *)
(* nothing after it, is now the log, and the state has its mutations.      *)
LEMMA LogCommit ==
  ASSUME NEW S \in Seq(Block), NEW ce \in Nat, NEW st \in SUBSET Action,
         LogParts(S, ce, st), Good(S, ce),
         NEW i \in DOMAIN S, S[i].Status # StatusCommit,
         \A j \in 1 .. i - 1 : S[j].Status = StatusCommit,
         NEW r \in Block, r.Epoch = S[i].Epoch, r.Status = StatusCommit,
         \A a \in r.mutations : \A c \in st : <<a, c>> \notin Conflict
  PROVE  /\ LogParts([S EXCEPT ![i] = r], r.Epoch, st \cup r.mutations)
         /\ i = ce - StartEpoch + 1
<1> DEFINE T == [S EXCEPT ![i] = r]
           m == Len(S)
           CS == {j \in DOMAIN S : S[j].Status = StatusCommit}
           CT == {j \in DOMAIN T : T[j].Status = StatusCommit}
<1>1. /\ m \in Nat /\ StartEpoch \in Nat
      /\ DOMAIN S = 1 .. m
      /\ DOMAIN T = 1 .. m
      /\ T[i] = r
      /\ \A j \in 1 .. m : j # i => T[j] = S[j]
      /\ Len(T) = m
      /\ i \in 1 .. m
  BY LenProperties, ChainAssumption
<1>2. /\ \A j \in 1 .. m : S[j].Epoch = StartEpoch + j
      /\ \A j \in 1 .. m : S[j].Status = StatusCommit <=> S[j].Epoch <= ce
      /\ st = Genesis \cup UNION {S[j].mutations : j \in CS}
      /\ \A k, j \in 1 .. m :
           k # j /\ S[k].Status = StatusCommit /\ S[j].Status = StatusCommit =>
             \A a \in S[k].mutations, b \in S[j].mutations : <<a, b>> \notin Conflict
      /\ StartEpoch <= ce
      /\ ce <= StartEpoch + m
  BY <1>1 DEF LogParts
<1>3. r.Epoch = StartEpoch + i
  BY <1>1, <1>2
<1>4. \A j \in 1 .. m : S[j].Status = StatusCommit <=> j < i
  <2> SUFFICES ASSUME NEW j \in 1 .. m
               PROVE  S[j].Status = StatusCommit <=> j < i
    OBVIOUS
  <2>1. CASE j < i
    <3>1. j \in 1 .. i - 1
      BY <1>1, <2>1
    <3> QED
      BY <2>1, <3>1
  <2>2. CASE j = i
    BY <1>1, <2>2
  <2>3. CASE j > i
    <3>1. i \in 1 .. j - 1
      BY <1>1, <2>3
    <3>2. S[j].Status # StatusCommit
      BY <1>1, <3>1 DEF Good
    <3> QED
      BY <1>1, <2>3, <3>2
  <2> QED
    BY <1>1, <2>1, <2>2, <2>3
<1>5. i = ce - StartEpoch + 1
  <2>1. StartEpoch + i > ce
    BY <1>1, <1>2
  <2>2. i > 1 => StartEpoch + (i - 1) <= ce
    <3> SUFFICES ASSUME i > 1 PROVE StartEpoch + (i - 1) <= ce
      OBVIOUS
    <3>1. i - 1 \in 1 .. m /\ i - 1 < i
      BY <1>1
    <3>2. S[i - 1].Epoch <= ce
      BY <1>2, <1>4, <3>1
    <3> QED
      BY <1>2, <3>1, <3>2
  <2> QED
    BY <1>1, <1>2, <2>1, <2>2
<1>6. \A j \in CS : S[j].mutations \subseteq st
  BY <1>2
<1> HIDE DEF T, m
<1>7. CT = CS \cup {i} /\ i \notin CS
  BY <1>1
<1>8. \A j \in CS : T[j] = S[j]
  BY <1>1, <1>7
<1> HIDE DEF CS, CT
<1>9. st \cup r.mutations = Genesis \cup UNION {T[j].mutations : j \in CT}
  BY <1>1, <1>2, <1>7, <1>8
<1>10. ASSUME NEW j \in 1 .. m
       PROVE  /\ T[j].Epoch = StartEpoch + j
              /\ T[j].Status = StatusCommit <=> T[j].Epoch <= r.Epoch
  <2>1. CASE j = i
    BY <1>1, <1>3, <2>1
  <2>2. CASE j # i
    BY <1>1, <1>2, <1>3, <1>4, <2>2
  <2> QED
    BY <2>1, <2>2
<1>11. \A a \in r.mutations : \A c \in st : <<c, a>> \notin Conflict
  <2>1. r.mutations \subseteq Action
    BY DEF Block
  <2> QED
    BY <2>1, ChainAssumption
<1>12. ASSUME NEW k \in 1 .. m, NEW j \in 1 .. m, k # j,
              T[k].Status = StatusCommit, T[j].Status = StatusCommit
       PROVE  \A a \in T[k].mutations, b \in T[j].mutations : <<a, b>> \notin Conflict
  <2>1. \A l \in 1 .. m : T[l].Status = StatusCommit /\ l # i => l \in CS
    BY <1>1 DEF CS
  <2>2. CASE k = i
    BY <1>1, <1>6, <1>8, <1>12, <2>1, <2>2
  <2>3. CASE j = i
    BY <1>1, <1>6, <1>8, <1>11, <1>12, <2>1, <2>3
  <2>4. CASE k # i /\ j # i
    BY ZenonT(60), <1>1, <1>2, <1>12, <2>4
  <2> QED
    BY <2>2, <2>3, <2>4
<1>13. StartEpoch <= r.Epoch /\ r.Epoch <= StartEpoch + m
  BY <1>1, <1>3
<1>14. LogParts(T, r.Epoch, st \cup r.mutations)
  BY <1>1, <1>9, <1>10, <1>12, <1>13 DEF LogParts, CT
<1> QED
  BY <1>5, <1>14 DEF T

-----------------------------------------------------------------------------
(* Each call of the node preserves the invariant. *)

(* A chain starts with an empty log. *)
LEMMA NodeInvInit == ChainInit => NodeInv
<1> SUFFICES ASSUME ChainInit PROVE NodeInv
  OBVIOUS
<1>1. ChainInv
  BY ChainInvInit
<1>2. /\ recentBlocks = << >>
      /\ commit = Genesis
      /\ commitEpoch = StartEpoch
      /\ epoch = StartEpoch
      /\ live = NoBlock
      /\ StartEpoch \in Nat
  BY ChainAssumption DEF ChainInit
<1>3. LogParts(<< >>, StartEpoch, Genesis)
  BY <1>2 DEF LogParts
<1>4. LiveNext
  BY <1>2 DEF LiveNext
<1> QED
  BY <1>1, <1>2, <1>3, <1>4 DEF NodeInv

(* What a call does to the log: nothing, or it commits the first block     *)
(* after the commit epoch, whose actions are valid on the committed state. *)
CommitsBlock(r) ==
  LET i == commitEpoch - StartEpoch + 1
  IN  /\ i \in DOMAIN recentBlocks
      /\ r.Epoch = StartEpoch + i
      /\ \A a \in r.mutations : \A c \in commit : <<a, c>> \notin Conflict
      /\ Consistent(r.mutations)
      /\ recentBlocks' = [recentBlocks EXCEPT ![i] = r]
      /\ commit' = commit \cup r.mutations
      /\ commitEpoch' = r.Epoch

LogKept ==
  /\ UNCHANGED <<commit, commitEpoch>>
  /\ Len(recentBlocks) <= Len(recentBlocks')
  /\ \A i \in 1 .. Len(recentBlocks) :
       /\ recentBlocks'[i].Epoch = recentBlocks[i].Epoch
       /\ recentBlocks'[i].mutations = recentBlocks[i].mutations

LogStep == LogKept \/ \E r \in Block : CommitsBlock(r)

(* A call that changes nothing but its reply, or only the live block. *)
LEMMA NodeSame ==
  ASSUME NodeInv, ChainInv', UNCHANGED <<epoch, commit, commitEpoch, recentBlocks>>,
         live' = NoBlock <=> live = NoBlock
  PROVE  NodeInv' /\ LogStep
<1>1. LogParts(recentBlocks', commitEpoch', commit') /\ LiveNext'
  BY DEF NodeInv, LiveNext
<1>2. ChainTypeOK
  BY DEF NodeInv, ChainInv
<1>3. LogKept
  BY <1>2, RecentSeq DEF LogKept
<1> QED
  BY <1>1, <1>3, NodeInvNext DEF LogStep

(* A block that leaves live comes behind the recent ones. *)
LEMMA NodeAppend ==
  ASSUME NodeInv, ChainInv', NEW r \in Block, live # NoBlock,
         r.Epoch = live.Epoch, r.Status # StatusCommit,
         recentBlocks' = Append(recentBlocks, r),
         UNCHANGED <<commit, commitEpoch>>
  PROVE  /\ LogParts(recentBlocks', commitEpoch', commit')
         /\ Len(recentBlocks') = Len(recentBlocks) + 1
         /\ epoch = StartEpoch + Len(recentBlocks')
         /\ LogKept
<1>1. /\ ChainTypeOK
      /\ live.Epoch = epoch
      /\ LiveNext
      /\ LogParts(recentBlocks, commitEpoch, commit)
  BY DEF NodeInv, ChainInv, EpochOrder
<1>2. /\ recentBlocks \in Seq(Block)
      /\ Len(recentBlocks) \in Nat
      /\ commitEpoch \in Nat
      /\ StartEpoch \in Nat
  BY <1>1, RecentSeq
<1>3. /\ recentBlocks' \in Seq(Block)
      /\ Len(recentBlocks') = Len(recentBlocks) + 1
      /\ \A i \in 1 .. Len(recentBlocks) : recentBlocks'[i] = recentBlocks[i]
      /\ recentBlocks'[Len(recentBlocks) + 1] = r
  BY <1>2, AppendProperties
<1>4. r.Epoch = StartEpoch + Len(recentBlocks) + 1
  BY <1>1, <1>2 DEF LiveNext
<1>5. \A i \in 1 .. Len(recentBlocks') : i > Len(recentBlocks) =>
        /\ recentBlocks'[i].Epoch = StartEpoch + i
        /\ recentBlocks'[i].Status # StatusCommit
  <2>1. \A i \in 1 .. Len(recentBlocks') :
          i > Len(recentBlocks) => i = Len(recentBlocks) + 1
    BY <1>2, <1>3
  <2> QED
    BY <1>2, <1>3, <1>4, <2>1
<1>6. LogParts(recentBlocks', commitEpoch, commit)
  <2>1. \A i \in 1 .. Len(recentBlocks) :
          /\ recentBlocks'[i].Epoch = recentBlocks[i].Epoch
          /\ recentBlocks'[i].mutations = recentBlocks[i].mutations
          /\ recentBlocks'[i].Status = StatusCommit <=> recentBlocks[i].Status = StatusCommit
    BY <1>3
  <2>2. Len(recentBlocks) <= Len(recentBlocks')
    BY <1>2, <1>3
  <2>3. LogParts(recentBlocks, commitEpoch, commit)
    BY <1>1
  <2> QED
    BY ZenonT(30), <1>2, <1>3, <1>5, <2>1, <2>2, <2>3, LogSame
<1>7. LogKept
  BY <1>2, <1>3 DEF LogKept
<1> QED
  BY <1>1, <1>2, <1>3, <1>4, <1>6, <1>7

(* NextBlock opens the epoch after all others. *)
LEMMA NextBlockNode ==
  ASSUME NodeInv, ChainInv', NEW e \in Nat, NextBlock(e)
  PROVE  NodeInv' /\ LogStep
<1>0. ChainTypeOK
  BY DEF NodeInv, ChainInv
<1>1. CASE Refuse("non-sequential block", e)
  BY <1>1, NodeSame DEF Refuse
<1>2. CASE ~Refuse("non-sequential block", e)
  <2>1. /\ recentBlocks' = RetireLive
        /\ epoch' = epoch + 1
        /\ live' = NewBlock(epoch + 1)
        /\ UNCHANGED <<commit, commitEpoch>>
    BY <1>2 DEF NextBlock
  <2>2. live' # NoBlock
    BY <1>0, <2>1, NewBlockType, NoBlockAssumption DEF ChainTypeOK
  <2>3. CASE live = NoBlock
    <3>1. recentBlocks' = recentBlocks
      BY <2>1, <2>3 DEF RetireLive
    <3>2. LogParts(recentBlocks', commitEpoch', commit')
      BY <2>1, <3>1 DEF NodeInv
    <3>3. LiveNext'
      BY <1>0, <2>1, <2>2, <2>3, <3>1, RecentSeq DEF NodeInv, LiveNext
    <3>4. LogKept
      BY <1>0, <2>1, <3>1, RecentSeq DEF LogKept
    <3> QED
      BY <3>2, <3>3, <3>4, NodeInvNext DEF LogStep
  <2>4. CASE live # NoBlock
    <3> DEFINE r == [live EXCEPT !.Status = StatusDone, !.mutations = validator]
    <3>1. r \in Block /\ recentBlocks' = Append(recentBlocks, r)
      BY <1>0, <2>1, <2>4, RetireType DEF RetireLive
    <3>2. r.Epoch = live.Epoch /\ r.Status # StatusCommit
      <4>1. live \in Block /\ validator \in SUBSET Action
        BY <1>0, <2>4 DEF ChainTypeOK
      <4>2. /\ r.Epoch = live.Epoch
            /\ r.Status = StatusDone
            /\ r.mutations = validator
            /\ r.Actions = live.Actions
        BY <4>1, RetireFields
      <4> QED
        BY <4>2
    <3> HIDE DEF r
    <3>3. /\ LogParts(recentBlocks', commitEpoch', commit')
          /\ epoch = StartEpoch + Len(recentBlocks')
          /\ LogKept
      BY <2>1, <2>4, <3>1, <3>2, NodeAppend
    <3>4. LiveNext'
      BY <2>1, <2>2, <3>3 DEF LiveNext
    <3> QED
      BY <3>3, <3>4, NodeInvNext DEF LogStep
  <2> QED
    BY <2>3, <2>4
<1> QED
  BY <1>1, <1>2

(* SealBlock keeps epochs and mutations, and commits nothing. *)
LEMMA SealBlockNode ==
  ASSUME NodeInv, ChainInv', NEW e \in Nat, SealBlock(e)
  PROVE  NodeInv' /\ LogStep
<1>0. /\ ChainTypeOK
      /\ ChainInv
      /\ LiveNext
      /\ LogParts(recentBlocks, commitEpoch, commit)
      /\ recentBlocks \in Seq(Block)
      /\ Len(recentBlocks) \in Nat
      /\ DOMAIN recentBlocks = 1 .. Len(recentBlocks)
      /\ commitEpoch \in Nat
  BY RecentSeq DEF NodeInv, ChainInv
<1>1. CASE SealLive(e)
  <2>1. /\ live # NoBlock
        /\ recentBlocks' = Append(recentBlocks, live)
        /\ live' = NoBlock
        /\ UNCHANGED <<epoch, validator, commit, commitEpoch>>
    BY <1>1 DEF SealLive
  <2>2. live \in Block /\ live.Status # StatusCommit
    BY <1>0, <2>1 DEF ChainTypeOK, ChainInv, LiveParts
  <2>3. /\ LogParts(recentBlocks', commitEpoch', commit')
        /\ epoch = StartEpoch + Len(recentBlocks')
        /\ Len(recentBlocks') = Len(recentBlocks) + 1
        /\ LogKept
    BY <2>1, <2>2, NodeAppend
  <2>4. LiveNext'
    BY <1>0, <2>1, <2>3, ChainAssumption DEF LiveNext
  <2> QED
    BY <2>3, <2>4, NodeInvNext DEF LogStep
<1>2. ASSUME NEW err, Refuse(err, e)
      PROVE  NodeInv' /\ LogStep
  BY <1>2, NodeSame DEF Refuse
<1>3. ASSUME NEW i \in DOMAIN recentBlocks, recentBlocks[i].Status < StatusSealed,
             recentBlocks' = [recentBlocks EXCEPT ![i].Status = StatusSealed],
             UNCHANGED <<epoch, live, validator, commit, commitEpoch>>
      PROVE  NodeInv' /\ LogStep
  <2> DEFINE r == [recentBlocks[i] EXCEPT !.Status = StatusSealed]
  <2>1. recentBlocks[i] \in Block
    BY <1>0, RecentBlock
  <2>2. /\ r \in Block
        /\ r.Epoch = recentBlocks[i].Epoch
        /\ r.mutations = recentBlocks[i].mutations
        /\ r.Status # StatusCommit
        /\ recentBlocks[i].Status # StatusCommit
    <3>1. ASSUME NEW b \in Block
          PROVE  LET c == [b EXCEPT !.Status = StatusSealed]
                 IN  /\ c \in Block
                     /\ c.Epoch = b.Epoch
                     /\ c.mutations = b.mutations
                     /\ c.Status = StatusSealed
      BY DEF Block
    <3>2. recentBlocks[i].Status # StatusCommit
      BY <1>3
    <3> QED
      BY <2>1, <3>1, <3>2
  <2>3. recentBlocks' = [recentBlocks EXCEPT ![i] = r]
    BY <1>3
  <2> HIDE DEF r
  <2>4. /\ recentBlocks' \in Seq(Block)
        /\ Len(recentBlocks') = Len(recentBlocks)
        /\ recentBlocks'[i] = r
        /\ \A j \in 1 .. Len(recentBlocks) : j # i => recentBlocks'[j] = recentBlocks[j]
    BY <1>0, <2>2, <2>3, ExceptSeq
  <2>5. \A j \in 1 .. Len(recentBlocks) :
          /\ recentBlocks'[j].Epoch = recentBlocks[j].Epoch
          /\ recentBlocks'[j].mutations = recentBlocks[j].mutations
          /\ recentBlocks'[j].Status = StatusCommit <=> recentBlocks[j].Status = StatusCommit
    BY <2>2, <2>4
  <2>6. Len(recentBlocks) <= Len(recentBlocks')
    BY <1>0, <2>4
  <2>7. \A j \in 1 .. Len(recentBlocks') : ~ (j > Len(recentBlocks))
    BY <1>0, <2>4
  <2>8. LogParts(recentBlocks', commitEpoch, commit)
    BY <1>0, <2>4, <2>5, <2>6, <2>7, LogSame
  <2>9. LogParts(recentBlocks', commitEpoch', commit') /\ LiveNext' /\ LogKept
    BY <1>0, <1>3, <2>4, <2>5, <2>6, <2>8 DEF LiveNext, LogKept
  <2> QED
    BY <2>9, NodeInvNext DEF LogStep
<1> QED
  BY <1>1, <1>2, <1>3 DEF SealBlock, SealRecent

(* Commit appends one entry to the log or refuses. *)
LEMMA CommitNode ==
  ASSUME NodeInv, ChainInv', NEW e \in Nat, NEW invalidated \in SUBSET Action,
         Commit(e, invalidated)
  PROVE  NodeInv' /\ LogStep
<1>0. /\ ChainTypeOK
      /\ ChainInv
      /\ LiveNext
      /\ LogParts(recentBlocks, commitEpoch, commit)
      /\ Good(recentBlocks, commitEpoch)
      /\ recentBlocks \in Seq(Block)
      /\ DOMAIN recentBlocks = 1 .. Len(recentBlocks)
      /\ commitEpoch \in Nat
      /\ commit \in SUBSET Action
  BY RecentSeq, ChainInvParts DEF NodeInv, ChainTypeOK
<1>1. ASSUME NEW err, Refuse(err, e)
      PROVE  NodeInv' /\ LogStep
  BY <1>1, NodeSame DEF Refuse
<1>2. ASSUME NEW i \in DOMAIN recentBlocks, CommitReaches(i, e),
             recentBlocks[i].Status = StatusSealed, CommitSealed(i, invalidated)
      PROVE  NodeInv' /\ LogStep
  <2>1. PICK r \in Block :
          /\ r.Epoch = recentBlocks[i].Epoch
          /\ r.Status = StatusCommit
          /\ \A a \in r.mutations : \A c \in commit : <<a, c>> \notin Conflict
          /\ Consistent(r.mutations)
          /\ recentBlocks' = [recentBlocks EXCEPT ![i] = r]
          /\ commit' = commit \cup r.mutations
          /\ commitEpoch' = r.Epoch
          /\ UNCHANGED <<epoch, live, validator>>
    BY <1>0, <1>2, CommitSealedEffect
  <2>2. /\ \A j \in 1 .. i - 1 : recentBlocks[j].Status = StatusCommit
        /\ recentBlocks[i].Status # StatusCommit
    BY <1>2 DEF CommitReaches
  <2>3. /\ LogParts(recentBlocks', commitEpoch', commit')
        /\ i = commitEpoch - StartEpoch + 1
    BY ZenonT(60), <1>0, <2>1, <2>2, LogCommit
  <2>4. LiveNext'
    <3>1. Len(recentBlocks') = Len(recentBlocks)
      BY <1>0, <2>1, ExceptSeq
    <3> QED
      BY <1>0, <2>1, <3>1 DEF LiveNext
  <2>5. CommitsBlock(r)
    <3>1. r.Epoch = StartEpoch + i
      BY <1>0, <2>1 DEF LogParts
    <3> QED
      BY <2>1, <2>3, <3>1 DEF CommitsBlock
  <2> QED
    BY <2>3, <2>4, <2>5, NodeInvNext DEF LogStep
<1> QED
  BY <1>1, <1>2 DEF Commit

(* A call of the node, for a block of any size. *)
NodeCall ==
  \/ \E input \in Input : Validate(input)
  \/ \E e \in Epochs : NextBlock(e)
  \/ \E e \in Epochs : SealBlock(e)
  \/ \E e \in Epochs, invalidated \in SUBSET Action : Commit(e, invalidated)

(* Every call of the node keeps the invariant and steps the log. *)
LEMMA NodeInvCall == NodeInv /\ [NodeCall]_chainVars => NodeInv' /\ LogStep
<1> SUFFICES ASSUME NodeInv, [NodeCall]_chainVars PROVE NodeInv' /\ LogStep
  OBVIOUS
<1>0. Epochs \subseteq Nat
  BY ChainAssumption DEF Epochs
<1>1. ChainInv'
  <2>1. CASE UNCHANGED chainVars
    BY <2>1, ChainInvStep DEF NodeInv
  <2>2. CASE NodeCall
    BY <1>0, <2>2, ValidateInv, NextBlockInv, SealBlockInv, CommitInv DEF NodeInv, NodeCall
  <2> QED
    BY <2>1, <2>2
<1>2. CASE UNCHANGED chainVars
  BY <1>1, <1>2, NodeSame DEF chainVars
<1>3. ASSUME NEW input \in Input, Validate(input)
      PROVE  NodeInv' /\ LogStep
  <2>1. UNCHANGED <<epoch, commit, commitEpoch, recentBlocks>>
    BY <1>3 DEF Validate, Refuse
  <2>2. live' = NoBlock <=> live = NoBlock
    <3>1. CASE live = NoBlock
      BY <1>3, <3>1 DEF Validate, Refuse
    <3>2. CASE live # NoBlock
      <4>1. ChainTypeOK
        BY DEF NodeInv, ChainInv
      <4>2. CASE UNCHANGED live
        BY <3>2, <4>2
      <4>3. CASE live' = [live EXCEPT !.Actions = Append(@, Transform[input])]
                 /\ Transform[input] # Empty
        <5>1. live \in Block /\ Transform[input] \in Action
          BY <3>2, <4>1, <4>3, ChainAssumption DEF ChainTypeOK
        <5> QED
          BY <3>2, <4>3, <5>1, BlockAppend, NoBlockAssumption
      <4> QED
        BY <1>3, <4>2, <4>3 DEF Validate, Refuse
    <3> QED
      BY <3>1, <3>2
  <2> QED
    BY <1>1, <2>1, <2>2, NodeSame
<1>4. CASE \E e \in Epochs : NextBlock(e)
  BY <1>0, <1>1, <1>4, NextBlockNode
<1>5. CASE \E e \in Epochs : SealBlock(e)
  BY <1>0, <1>1, <1>5, SealBlockNode
<1>6. CASE \E e \in Epochs, invalidated \in SUBSET Action : Commit(e, invalidated)
  BY <1>0, <1>1, <1>6, CommitNode
<1> QED
  BY <1>2, <1>3, <1>4, <1>5, <1>6 DEF NodeCall

(* The bound of the specification only restricts the calls. *)
LEMMA NodeInvStep == NodeInv /\ [NodeNext]_chainVars => NodeInv' /\ LogStep
BY NodeInvCall DEF NodeNext, NodeCall

(* LaunchNode never loses or repeats an epoch, whatever the breeze node    *)
(* sends and whatever the chain refuses.                                   *)
THEOREM DenseEpochsCorrect == NodeSpec => []DenseEpochs
<1>1. NodeInv => DenseEpochs
  BY NodeInvImplies
<1> QED
  BY <1>1, NodeInvInit, NodeInvStep, PTL DEF NodeSpec

(* Exactly the blocks up to the commit epoch are committed.                *)
THEOREM CommitMarkCorrect == NodeSpec => []CommitMark
<1>1. NodeInv => CommitMark
  BY NodeInvImplies
<1> QED
  BY <1>1, NodeInvInit, NodeInvStep, PTL DEF NodeSpec

(* The committed blocks rebuild the committed state.                       *)
THEOREM ReplayableCorrect == NodeSpec => []Replayable
<1>1. NodeInv => Replayable
  BY NodeInvImplies
<1> QED
  BY <1>1, NodeInvInit, NodeInvStep, PTL DEF NodeSpec

(* No two committed blocks hold actions that exclude one another, however  *)
(* many blocks were validated on the same old state.                       *)
THEOREM NoDoubleSpendCorrect == NodeSpec => []NoDoubleSpend
<1>1. NodeInv => NoDoubleSpend
  BY NodeInvImplies
<1> QED
  BY <1>1, NodeInvInit, NodeInvStep, PTL DEF NodeSpec

-----------------------------------------------------------------------------
(* The refinement: the committed blocks are the abstract log. *)

Entry == [epoch : Nat, valid : SUBSET Action]

(* The log is a sequence of the first recent blocks. *)
LogShape ==
  /\ commitEpoch - StartEpoch \in Nat
  /\ CommittedLog \in Seq(Entry)
  /\ Len(CommittedLog) = commitEpoch - StartEpoch
  /\ \A i \in 1 .. commitEpoch - StartEpoch :
       /\ i \in DOMAIN recentBlocks
       /\ CommittedLog[i] = [epoch |-> recentBlocks[i].Epoch,
                             valid |-> recentBlocks[i].mutations]

(* It is, because the commit epoch is that of a block the chain holds.     *)
LEMMA LogSeq == NodeInv => LogShape
<1> SUFFICES ASSUME NodeInv PROVE LogShape
  OBVIOUS
<1> DEFINE n == commitEpoch - StartEpoch
<1>1. ChainTypeOK /\ LogParts(recentBlocks, commitEpoch, commit)
  BY DEF NodeInv, ChainInv
<1>2. /\ n \in Nat
      /\ \A i \in 1 .. n : i \in DOMAIN recentBlocks
  BY <1>1, RecentSeq DEF LogParts
<1>3. \A i \in 1 .. n : recentBlocks[i].Epoch \in Nat /\ recentBlocks[i].mutations \in SUBSET Action
  BY <1>1, <1>2, RecentBlock
<1>4. CommittedLog = [i \in 1 .. n |-> [epoch |-> recentBlocks[i].Epoch,
                                        valid |-> recentBlocks[i].mutations]]
  BY DEF CommittedLog
<1> HIDE DEF n
<1>5. CommittedLog \in [1 .. n -> Entry]
  BY <1>3, <1>4 DEF Entry
<1>6. CommittedLog \in Seq(Entry)
  BY <1>2, <1>5, SeqDef
<1>7. Len(CommittedLog) = n
  BY <1>2, <1>5, <1>6, LenProperties
<1> QED
  BY <1>2, <1>4, <1>6, <1>7 DEF n, LogShape

(* A new chain is a new log. *)
LEMMA LogInitRefined == ChainInit => Log!LogInit
<1> SUFFICES ASSUME ChainInit PROVE Log!LogInit
  OBVIOUS
<1>1. NodeInv /\ commitEpoch = StartEpoch /\ commit = Genesis
  BY NodeInvInit DEF ChainInit
<1>2. CommittedLog \in Seq(Entry) /\ Len(CommittedLog) = 0
  BY <1>1, LogSeq, ChainAssumption DEF LogShape
<1>3. CommittedLog = << >>
  BY <1>2
<1> QED
  BY <1>1, <1>3 DEF Log!LogInit

(* A call extends the log by the block it commits, or leaves it alone. *)
LEMMA LogStepRefined ==
  NodeInv /\ LogShape /\ LogShape' /\ LogStep => [Log!LogNext]_(Log!logVars)
<1> SUFFICES ASSUME NodeInv, LogShape, LogShape', LogStep
             PROVE  [Log!LogNext]_(Log!logVars)
  OBVIOUS
<1> DEFINE n == commitEpoch - StartEpoch
<1>1. /\ n \in Nat
      /\ CommittedLog \in Seq(Entry)
      /\ Len(CommittedLog) = n
      /\ \A i \in 1 .. n :
           /\ i \in DOMAIN recentBlocks
           /\ CommittedLog[i] = [epoch |-> recentBlocks[i].Epoch,
                                 valid |-> recentBlocks[i].mutations]
  BY DEF LogShape
<1>2. /\ CommittedLog' \in Seq(Entry)
      /\ Len(CommittedLog') = commitEpoch' - StartEpoch
      /\ \A i \in 1 .. commitEpoch' - StartEpoch :
           CommittedLog'[i] = [epoch |-> recentBlocks'[i].Epoch,
                               valid |-> recentBlocks'[i].mutations]
  BY DEF LogShape, Entry
<1>3. /\ ChainTypeOK
      /\ recentBlocks \in Seq(Block)
      /\ DOMAIN recentBlocks = 1 .. Len(recentBlocks)
      /\ StartEpoch \in Nat
      /\ commitEpoch \in Nat
  BY RecentSeq DEF NodeInv, ChainInv
<1>4. CASE LogKept
  <2>1. UNCHANGED <<commit, commitEpoch>>
    BY <1>4 DEF LogKept
  <2>2. \A i \in 1 .. n : CommittedLog'[i] = CommittedLog[i]
    BY <1>1, <1>2, <1>3, <1>4, <2>1 DEF LogKept
  <2>3. Len(CommittedLog') = Len(CommittedLog)
    BY <1>1, <1>2, <2>1
  <2>4. CommittedLog' = CommittedLog
    BY <1>1, <1>2, <2>2, <2>3, SeqEqual
  <2> QED
    BY <2>1, <2>4 DEF Log!logVars
<1>5. ASSUME NEW r \in Block, CommitsBlock(r)
      PROVE  Log!LogNext
  <2>1. /\ n + 1 \in DOMAIN recentBlocks
        /\ r.Epoch = StartEpoch + (n + 1)
        /\ \A a \in r.mutations : \A c \in commit : <<a, c>> \notin Conflict
        /\ Consistent(r.mutations)
        /\ recentBlocks' = [recentBlocks EXCEPT ![n + 1] = r]
        /\ commit' = commit \cup r.mutations
        /\ commitEpoch' = r.Epoch
    BY <1>5 DEF CommitsBlock
  <2> DEFINE entry == [epoch |-> StartEpoch + Len(CommittedLog) + 1, valid |-> r.mutations]
  <2>2. r.mutations \in SUBSET Action
    BY DEF Block
  <2>3. entry \in Entry
    BY <1>1, <1>3, <2>2 DEF Entry
  <2>4. commitEpoch' - StartEpoch = n + 1
    BY <1>1, <1>3, <2>1
  <2> HIDE DEF n
  <2>5. /\ recentBlocks'[n + 1] = r
        /\ \A i \in 1 .. n : recentBlocks'[i] = recentBlocks[i]
    BY <1>1, <1>3, <2>1
  <2>6. CommittedLog'[n + 1] = entry
    BY <1>1, <1>2, <1>3, <2>1, <2>4, <2>5
  <2>7. \A i \in 1 .. n : CommittedLog'[i] = CommittedLog[i]
    BY <1>1, <1>2, <2>4, <2>5
  <2> HIDE DEF entry
  <2>8. /\ Append(CommittedLog, entry) \in Seq(Entry)
        /\ Len(Append(CommittedLog, entry)) = n + 1
        /\ \A i \in 1 .. n : Append(CommittedLog, entry)[i] = CommittedLog[i]
        /\ Append(CommittedLog, entry)[n + 1] = entry
    BY <1>1, <2>3, AppendProperties
  <2>9. CommittedLog' = Append(CommittedLog, entry)
    <3>1. \A i \in 1 .. n + 1 : CommittedLog'[i] = Append(CommittedLog, entry)[i]
      <4>1. \A i \in 1 .. n + 1 : i \in 1 .. n \/ i = n + 1
        BY <1>1
      <4> QED
        BY <2>6, <2>7, <2>8, <4>1
    <3> QED
      BY <1>2, <2>4, <2>8, <3>1, SeqEqual
  <2>10. Log!Extend(r.mutations)
    BY <2>1, <2>9 DEF Log!Extend, Consistent, entry
  <2> QED
    BY <2>2, <2>10 DEF Log!LogNext
<1> QED
  BY <1>4, <1>5 DEF LogStep

(* Whoever follows the commits of a node sees a log that only grows, has   *)
(* no gaps, and whose every block is valid after those before it.          *)
THEOREM ImplementsLogCorrect == NodeSpec => ImplementsLog
BY NodeInvInit, NodeInvStep, LogSeq, LogInitRefined, LogStepRefined, PTL
   DEF NodeSpec, ImplementsLog, Log!LogSpec
=============================================================================
