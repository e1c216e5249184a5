--------------------------- MODULE SocialChainLog ---------------------------
(***************************************************************************)
(* The social chain, driven by the calls of LaunchNode, implements the     *)
(* abstract commit log.  The log is made of the recent blocks up to the    *)
(* commit epoch; the calls that only prepare a block are stuttering steps. *)
(***************************************************************************)
EXTENDS SocialChain

CommittedLog ==
  [i \in 1 .. commitEpoch - StartEpoch |->
     [epoch |-> recentBlocks[i].Epoch, valid |-> recentBlocks[i].mutations]]

Log == INSTANCE CommitLog WITH log <- CommittedLog, state <- commit

(* The blocks that Commit processes form a log that is never rewritten and *)
(* has no gaps, and each is valid on the state the earlier ones left, for  *)
(* every interleaving of blocks in flight, seals and commits.              *)
ImplementsLog == Log!LogSpec
=============================================================================
