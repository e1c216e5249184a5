--------------------------- MODULE MCSocialChain ---------------------------
(***************************************************************************)
(* Instance of the social chain for TLC.  Actions actA and actB exclude one*)
(* another (two spends of one coin), actA may not be repeated, actB may,   *)
(* and the input noise is no action of the protocol: Transform makes it    *)
(* empty.  reply, which no action reads, is left out of the view where no  *)
(* property of the run reads it.                                           *)
(***************************************************************************)
EXTENDS SocialChainLog

CONSTANTS actA, actB, noise

MCTransform == [i \in Input |-> IF i = noise THEN Empty ELSE i]
MCConflict  == {<<actA, actA>>, <<actA, actB>>, <<actB, actA>>}

ChainView == <<epoch, live, validator, commit, commitEpoch, recentBlocks>>
=============================================================================
