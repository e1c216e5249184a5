----------------------------- MODULE RecentBlocks -----------------------------
(***************************************************************************)
(* RecentBlocks of topos/chain.go: the blocks that an authority keeps for  *)
(* subscribers.  Nothing in the repository calls its Append or Clone, so   *)
(* that the blocks hold no actions: a MemoryBlock is its epoch.  The mutex *)
(* makes NextBlock and the first part of Sync one step each.               *)
(***************************************************************************)
EXTENDS Integers, Sequences

CONSTANT maxBlocks

ASSUME RecentAssumption == maxBlocks \in Nat

VARIABLES
  blocks,   \* closed blocks, oldest first
  current   \* open block

recentVars == <<blocks, current>>

NewRecentBlocks(epoch) == blocks = << >> /\ current = epoch

(* Fault: no block is dropped. *)
KeepAllRecent ==
  /\ blocks' = Append(blocks, current)
  /\ current' = current + 1

NextRecent ==
  /\ blocks' = LET all == Append(blocks, current)
               IN  IF Len(all) > maxBlocks THEN Tail(all) ELSE all
  /\ current' = current + 1

(* Sync panics on blocks[0] when no block is closed. *)
Empty == blocks = << >>

(* shift: how far an epoch is behind the oldest block that is kept. *)
ShiftOf(epoch) == epoch - blocks[1]

(* The epochs of the new-block messages of Sync: of what it copies, the    *)
(* first block is only hashed; with a shift of 1 it copies nothing.        *)
SyncEpochs(shift) ==
  IF shift > 1
    THEN Tail(Append(SubSeq(blocks, shift + 1, Len(blocks)), current))
    ELSE << >>

RecentTypeOK ==
  /\ blocks \in Seq(Nat) /\ Len(blocks) <= maxBlocks
  /\ current \in Nat
=============================================================================
