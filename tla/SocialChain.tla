---------------------------- MODULE SocialChain ----------------------------
(***************************************************************************)
(* SocialBlockChain of social/chain.go: the live block, the recent blocks  *)
(* that wait for their seal and their commit, and the committed state of a *)
(* social protocol that is validated on top of breeze blocks.              *)
(*                                                                         *)
(* The protocol state (Stateful, Blocker and Merger of social/interface.go)*)
(* lives in another repository.  It is abstracted to the set of actions    *)
(* incorporated so far; whether an action is valid on a state is given by  *)
(* the relation Conflict.  A validator refers to the committed state and   *)
(* keeps its own mutations, the set of actions it accepted.  The hash of   *)
(* an action is the action itself.                                         *)
(***************************************************************************)
EXTENDS Integers, Sequences, Functions

CONSTANTS
  Input,       \* what the breeze node delivers as actions
  Action,      \* actions of the social protocol
  Empty,       \* an action of length zero
  Transform,   \* SocialBlockChain.Transform; the identity when it is nil
  Conflict,    \* pairs of actions that exclude one another
  Genesis,     \* the state given to NewSocialBlockChain
  StartEpoch,  \* the epoch given to NewSocialBlockChain
  NoBlock,     \* the nil *SocialBlock
  MaxEpoch,    \* bound: epochs of the calls
  MaxActions   \* bound: actions per block

(* No two different actions of S exclude one another. *)
Consistent(S) == \A a, b \in S : a # b => <<a, b>> \notin Conflict

ASSUME ChainAssumption ==
  /\ Empty \notin Action
  /\ Transform \in [Input -> Action \cup {Empty}]
  /\ Conflict \subseteq Action \X Action
  /\ \A a, b \in Action : <<a, b>> \in Conflict => <<b, a>> \in Conflict
  /\ Genesis \subseteq Action
  /\ Consistent(Genesis)
  /\ StartEpoch \in Nat
  /\ MaxEpoch \in Nat
  /\ MaxActions \in Nat

VARIABLES
  epoch,         \* live epoch
  live,          \* live block, or NoBlock
  validator,     \* mutations of the live validator
  commit,        \* committed state
  commitEpoch,   \* epoch of the last commit
  recentBlocks,  \* blocks that are no longer live, oldest first
  reply          \* what the last call returned to its caller

chainVars == <<epoch, live, validator, commit, commitEpoch, recentBlocks, reply>>

StatusLive   == 0
StatusDone   == 1
StatusSealed == 2
StatusCommit == 3

(* SocialBlock, without Origin, which is stored and never read. *)
Block == [Epoch       : Nat,
          Checkpoint  : Nat,
          Actions     : Seq(Action),
          Invalidated : SUBSET Action,
          Status      : StatusLive .. StatusCommit,
          mutations   : SUBSET Action]

ASSUME NoBlockAssumption == NoBlock \notin Block

(* checksumEpoch has no assignment in the code: it keeps Go's zero value.  *)
(* Likewise Recover takes the state back to the one the chain started with.*)
checksumEpoch == 0

Epochs == 0 .. MaxEpoch

Replies == {"ok", "rejected", "non-sequential block", "seal: not found",
            "already sealed", "already committed", "not sealed",
            "non-sequential commit", "commit: not found",
            "rollback to a commit epoch", "rollback: not found",
            "after commit epoch"}

ChainTypeOK ==
  /\ epoch \in Nat
  /\ live \in Block \cup {NoBlock}
  /\ validator \in SUBSET Action
  /\ commit \in SUBSET Action
  /\ commitEpoch \in Nat
  /\ recentBlocks \in Seq(Block)
  /\ reply \in [err : Replies, epoch : Nat]

-----------------------------------------------------------------------------
(* A call that returns err and leaves the chain as it is. *)
Refuse(err, e) ==
  /\ reply' = [err |-> err, epoch |-> e]
  /\ UNCHANGED <<epoch, live, validator, commit, commitEpoch, recentBlocks>>

Ok(e) == reply' = [err |-> "ok", epoch |-> e]

(* Blocker.Validate against the committed state and some mutations. *)
Valid(a, mutations) == \A b \in commit \cup mutations : <<a, b>> \notin Conflict

(* findBlock: i is the position of the first recent block of epoch e. *)
Found(i, e) ==
  /\ i \in DOMAIN recentBlocks
  /\ recentBlocks[i].Epoch = e
  /\ \A j \in 1 .. i - 1 : recentBlocks[j].Epoch # e

ChainInit ==
  /\ epoch = StartEpoch
  /\ live = NoBlock
  /\ validator = {}
  /\ commit = Genesis
  /\ commitEpoch = StartEpoch
  /\ recentBlocks = << >>
  /\ reply = [err |-> "ok", epoch |-> StartEpoch]

(* Fault: the length of the transformed action is not tested. *)
ValidateEmpty(input) ==
  LET a == Transform[input]
  IN  /\ live # NoBlock
      /\ Valid(a, validator)
      /\ live' = [live EXCEPT !.Actions = Append(@, a)]
      /\ validator' = validator \cup {a}
      /\ Ok(epoch)
      /\ UNCHANGED <<epoch, commit, commitEpoch, recentBlocks>>

(* Validate: an action enters the live block when the live validator takes it. *)
Validate(input) ==
  LET a == Transform[input]
      accepted == a # Empty /\ live # NoBlock /\ Valid(a, validator)
  IN  \/ /\ accepted
         /\ live' = [live EXCEPT !.Actions = Append(@, a)]
         /\ validator' = validator \cup {a}
         /\ Ok(epoch)
         /\ UNCHANGED <<epoch, commit, commitEpoch, recentBlocks>>
      \/ /\ ~accepted
         /\ Refuse("rejected", epoch)

(* The recent blocks after the live block, if any, is done. *)
RetireLive ==
  IF live = NoBlock
    THEN recentBlocks
    ELSE Append(recentBlocks,
                [live EXCEPT !.Status = StatusDone, !.mutations = validator])

(* The block that NextBlock makes live. *)
NewBlock(e) == [Epoch |-> e, Checkpoint |-> commitEpoch, Actions |-> << >>,
                Invalidated |-> {}, Status |-> StatusLive, mutations |-> {}]

(* Fault: a later epoch than the next one is accepted. *)
NextBlockJump(e) ==
  /\ e > epoch
  /\ recentBlocks' = RetireLive
  /\ epoch' = e
  /\ live' = NewBlock(e)
  /\ validator' = {}
  /\ Ok(e)
  /\ UNCHANGED <<commit, commitEpoch>>

(* NextBlock: the validator of the new block starts from the committed     *)
(* state alone, whatever blocks still wait for their commit.               *)
NextBlock(e) ==
  \/ /\ e # epoch + 1
     /\ Refuse("non-sequential block", e)
  \/ /\ e = epoch + 1
     /\ recentBlocks' = RetireLive
     /\ epoch' = epoch + 1
     /\ live' = NewBlock(epoch + 1)
     /\ validator' = {}
     /\ Ok(e)
     /\ UNCHANGED <<commit, commitEpoch>>

(* SealBlock of the live epoch: the block leaves live, but the local       *)
(* variable sealed stays nil, so the call reports that there is no block.  *)
SealLive(e) ==
  /\ live # NoBlock
  /\ live.Epoch = e
  /\ recentBlocks' = Append(recentBlocks, live)
  /\ live' = NoBlock
  /\ reply' = [err |-> "seal: not found", epoch |-> e]
  /\ UNCHANGED <<epoch, validator, commit, commitEpoch>>

(* SealBlock of any other epoch. *)
SealRecent(e) ==
  /\ live # NoBlock => live.Epoch # e
  /\ \/ /\ \A i \in DOMAIN recentBlocks : ~Found(i, e)
        /\ Refuse("seal: not found", e)
     \/ \E i \in DOMAIN recentBlocks :
          /\ Found(i, e)
          /\ \/ /\ recentBlocks[i].Status >= StatusSealed
                /\ Refuse("already sealed", e)
             \/ /\ recentBlocks[i].Status < StatusSealed
                /\ recentBlocks' = [recentBlocks EXCEPT ![i].Status = StatusSealed]
                /\ Ok(e)
                /\ UNCHANGED <<epoch, live, validator, commit, commitEpoch>>

SealBlock(e) == SealLive(e) \/ SealRecent(e)

(* Fault: only the invalidated hashes are skipped, nothing is validated. *)
RevalidatedHashes(actions, invalidated, K) ==
  \A n \in DOMAIN actions : n \in K <=> actions[n] \notin invalidated

(* revalidate: K is the set of positions whose action the fresh validator  *)
(* is asked about and takes, one action after the other.                   *)
Revalidated(actions, invalidated, K) ==
  \A n \in DOMAIN actions :
    n \in K <=> /\ actions[n] \notin invalidated
                /\ Valid(actions[n], {actions[m] : m \in {k \in K : k < n}})

(* Fault: the loop of Commit looks for the epoch alone. *)
CommitReachesAny(i, e) == Found(i, e)

(* The loop of Commit stops at position i: it has passed committed blocks  *)
(* of other epochs only.                                                   *)
CommitReaches(i, e) ==
  /\ i \in DOMAIN recentBlocks
  /\ recentBlocks[i].Epoch = e \/ recentBlocks[i].Status # StatusCommit
  /\ \A j \in 1 .. i - 1 : /\ recentBlocks[j].Epoch # e
                           /\ recentBlocks[j].Status = StatusCommit

(* Fault: the block keeps the mutations of its live validator. *)
CommittedBlockStale(b, K) ==
  [b EXCEPT !.Status = StatusCommit,
            !.Invalidated = {b.Actions[n] : n \in (DOMAIN b.Actions) \ K}]

(* Block b once revalidate has kept the actions at the positions K. *)
CommittedBlock(b, K) ==
  [b EXCEPT !.Status = StatusCommit,
            !.Invalidated = {b.Actions[n] : n \in (DOMAIN b.Actions) \ K},
            !.mutations = {b.Actions[n] : n \in K}]

(* Fault: the state incorporates the mutations of the live validator. *)
CommitSealedEarly(i, invalidated) ==
  LET b == recentBlocks[i] IN
  \E K \in SUBSET (DOMAIN b.Actions) :
    /\ Revalidated(b.Actions, invalidated, K)
    /\ recentBlocks' = [recentBlocks EXCEPT ![i] = CommittedBlock(b, K)]
    /\ commit' = commit \cup b.mutations
    /\ commitEpoch' = b.Epoch
    /\ Ok(b.Epoch)
    /\ UNCHANGED <<epoch, live, validator>>

(* Fault: the commit epoch becomes the live epoch. *)
CommitSealedAtLive(i, invalidated) ==
  LET b == recentBlocks[i] IN
  \E K \in SUBSET (DOMAIN b.Actions) :
    /\ Revalidated(b.Actions, invalidated, K)
    /\ recentBlocks' = [recentBlocks EXCEPT ![i] = CommittedBlock(b, K)]
    /\ commit' = commit \cup CommittedBlock(b, K).mutations
    /\ commitEpoch' = epoch
    /\ Ok(b.Epoch)
    /\ UNCHANGED <<epoch, live, validator>>

(* Commit of a sealed block: the actions are validated again, on the       *)
(* committed state, and what they change is incorporated.                  *)
CommitSealed(i, invalidated) ==
  LET b == recentBlocks[i] IN
  \E K \in SUBSET (DOMAIN b.Actions) :
    /\ Revalidated(b.Actions, invalidated, K)
    /\ recentBlocks' = [recentBlocks EXCEPT ![i] = CommittedBlock(b, K)]
    /\ commit' = commit \cup CommittedBlock(b, K).mutations
    /\ commitEpoch' = b.Epoch
    /\ Ok(b.Epoch)
    /\ UNCHANGED <<epoch, live, validator>>

Commit(e, invalidated) ==
  \/ /\ \A i \in DOMAIN recentBlocks : ~CommitReaches(i, e)
     /\ Refuse("commit: not found", e)
  \/ \E i \in DOMAIN recentBlocks :
       /\ CommitReaches(i, e)
       /\ LET b == recentBlocks[i] IN
          \/ b.Epoch # e /\ Refuse("non-sequential commit", e)
          \/ b.Epoch = e /\ b.Status = StatusCommit /\ Refuse("already committed", e)
          \/ b.Epoch = e /\ b.Status < StatusSealed /\ Refuse("not sealed", e)
          \/ b.Epoch = e /\ b.Status = StatusSealed /\ CommitSealed(i, invalidated)

(* Fault: the live block survives the rollback. *)
RollbackKeepsLive(e) ==
  /\ e >= commitEpoch
  /\ \E i \in DOMAIN recentBlocks :
       /\ Found(i, e)
       /\ recentBlocks' = SubSeq(recentBlocks, 1, i - 1)
  /\ epoch' = e
  /\ Ok(e)
  /\ UNCHANGED <<live, validator, commit, commitEpoch>>

(* Rollback: the block of epoch e and the later ones are forgotten. *)
Rollback(e) ==
  \/ /\ e < commitEpoch
     /\ Refuse("rollback to a commit epoch", e)
  \/ /\ e >= commitEpoch
     /\ \A i \in DOMAIN recentBlocks : ~Found(i, e)
     /\ Refuse("rollback: not found", e)
  \/ /\ e >= commitEpoch
     /\ \E i \in DOMAIN recentBlocks :
          /\ Found(i, e)
          /\ recentBlocks' = SubSeq(recentBlocks, 1, i - 1)
     /\ live' = NoBlock
     /\ epoch' = e
     /\ Ok(e)
     /\ UNCHANGED <<validator, commit, commitEpoch>>

(* What Recovery incorporates again: the mutations of the first block      *)
(* after the checksum.  The value that Merge returns for the later blocks  *)
(* is dropped.                                                             *)
RecoveredMutations ==
  UNION {recentBlocks[i].mutations :
           i \in {j \in DOMAIN recentBlocks : Found(j, checksumEpoch + 1)}}

(* Recovery: live epoch and validator stay as they are.  No unsigned epoch *)
(* is below the checksum epoch, so the refusal for that case has no step.  *)
Recovery(e) ==
  \/ /\ e >= commitEpoch
     /\ Refuse("after commit epoch", e)
  \/ /\ e < commitEpoch
     /\ \/ /\ \A i \in DOMAIN recentBlocks : ~Found(i, e)
           /\ UNCHANGED recentBlocks
        \/ \E i \in DOMAIN recentBlocks :
             /\ Found(i, e)
             /\ recentBlocks' = SubSeq(recentBlocks, 1, i - 1)
     /\ commit' = Genesis \cup RecoveredMutations
     /\ commitEpoch' = e
     /\ live' = NoBlock
     /\ Ok(e)
     /\ UNCHANGED <<epoch, validator>>

-----------------------------------------------------------------------------
(* Bound: n more actions fit into the live block. *)
Room(n) == live # NoBlock => Len(live.Actions) + n <= MaxActions

(* The calls that LaunchNode makes. *)
NodeNext ==
  \/ Room(1) /\ \E input \in Input : Validate(input)
  \/ \E e \in Epochs : NextBlock(e)
  \/ \E e \in Epochs : SealBlock(e)
  \/ \E e \in Epochs, invalidated \in SUBSET Action : Commit(e, invalidated)

(* The whole interface. *)
ChainNext ==
  \/ NodeNext
  \/ \E e \in Epochs : Rollback(e)
  \/ \E e \in Epochs : Recovery(e)

NodeSpec  == ChainInit /\ [][NodeNext]_chainVars
ChainSpec == ChainInit /\ [][ChainNext]_chainVars

-----------------------------------------------------------------------------
(* Properties of the whole interface. *)

(* The epochs of the recent blocks increase, the live block comes after    *)
(* all of them, and no call makes the chain forget how far it is: findBlock*)
(* and Commit, which stop at the first match, never see two blocks of one  *)
(* epoch, whatever Rollback and Recovery removed before.                   *)
EpochOrder ==
  /\ \A i, j \in DOMAIN recentBlocks :
       i < j => recentBlocks[i].Epoch < recentBlocks[j].Epoch
  /\ \A i \in DOMAIN recentBlocks :
       /\ recentBlocks[i].Epoch <= epoch
       /\ live # NoBlock => recentBlocks[i].Epoch < epoch
  /\ live # NoBlock => live.Epoch = epoch
  /\ commitEpoch <= epoch

(* The committed blocks come first, and every block that still waits is    *)
(* later than the commit epoch: the early return of Commit at the first    *)
(* uncommitted block never hides a committed one.                          *)
CommitPrefix ==
  \A j \in DOMAIN recentBlocks :
    /\ recentBlocks[j].Status = StatusCommit =>
         \A i \in 1 .. j - 1 : recentBlocks[i].Status = StatusCommit
    /\ recentBlocks[j].Status # StatusCommit => recentBlocks[j].Epoch > commitEpoch

(* What Commit reports as invalidated is exactly what it did not           *)
(* incorporate: a listener that drops the reported hashes, all occurrences *)
(* of each, holds the actions that the committed state holds.              *)
CommitReport ==
  \A i \in DOMAIN recentBlocks :
    recentBlocks[i].Status = StatusCommit =>
      recentBlocks[i].mutations = Range(recentBlocks[i].Actions) \ recentBlocks[i].Invalidated

(* The committed state never holds two actions that exclude one another,   *)
(* although the blocks in flight were all validated on an older state.     *)
StateConsistent == Consistent(commit)

-----------------------------------------------------------------------------
(* Properties of the calls that LaunchNode makes. *)

(* No epoch is missing between the start of the chain and its live epoch.  *)
DenseEpochs ==
  /\ \A i \in DOMAIN recentBlocks : recentBlocks[i].Epoch = StartEpoch + i
  /\ epoch = StartEpoch + Len(recentBlocks) + (IF live = NoBlock THEN 0 ELSE 1)

(* The blocks up to the commit epoch are the committed ones. *)
CommitMark ==
  \A i \in DOMAIN recentBlocks :
    recentBlocks[i].Status = StatusCommit <=> recentBlocks[i].Epoch <= commitEpoch

Committed == {i \in DOMAIN recentBlocks : recentBlocks[i].Status = StatusCommit}

(* The committed state is the initial one and the mutations of the         *)
(* committed blocks: replaying the blocks rebuilds it.                     *)
Replayable == commit = Genesis \cup UNION {recentBlocks[i].mutations : i \in Committed}

(* Two committed blocks hold no actions that exclude one another, nor the  *)
(* same action where an action excludes its repetition, even when both     *)
(* blocks accepted them while they were in flight together.                *)
NoDoubleSpend ==
  \A i, j \in Committed :
    i # j => \A a \in recentBlocks[i].mutations, b \in recentBlocks[j].mutations :
               <<a, b>> \notin Conflict

-----------------------------------------------------------------------------
(* What the messages and comments of the code promise and the code does    *)
(* not keep.                                                               *)

(* SealBlock says "block %d not found" only when there is no such block.   *)
SealReport ==
  reply.err = "seal: not found" =>
    \A i \in DOMAIN recentBlocks : recentBlocks[i].Epoch # reply.epoch

(* The initial state and the mutations of the blocks up to epoch e. *)
StateUpTo(e) ==
  Genesis \cup UNION {recentBlocks[i].mutations :
                        i \in {j \in DOMAIN recentBlocks : recentBlocks[j].Epoch <= e}}

(* Recovery leaves the commit state of the epoch it goes back to: the      *)
(* checksum state and the mutations of the blocks up to that epoch.        *)
RecoveredState == [][commitEpoch' < commitEpoch => commit' = StateUpTo(commitEpoch')]_chainVars

-----------------------------------------------------------------------------
(* What is left of the two promises.                                       *)

(* SealBlock is wrong about one block only: the one that was live until    *)
(* that call.  It is now the last of the recent blocks, has the status it  *)
(* had when it was live, and no other block has its epoch; of every other  *)
(* epoch the report is right.                                              *)
SealReportElsewhere ==
  reply.err = "seal: not found" =>
    \A i \in DOMAIN recentBlocks :
      recentBlocks[i].Epoch = reply.epoch =>
        /\ i = Len(recentBlocks)
        /\ recentBlocks[i].Status = StatusLive
        /\ live = NoBlock
        /\ reply.epoch = epoch

(* Recovery leaves the state of the first epoch after the checksum, never  *)
(* more of the blocks and never less, whatever epoch it goes back to.      *)
RecoveredFirst == [][commitEpoch' < commitEpoch => commit' = StateUpTo(checksumEpoch + 1)]_chainVars
=============================================================================
