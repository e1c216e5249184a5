-------------------------- MODULE MCValidatorNode --------------------------
(***************************************************************************)
(* Instance of the validator node for TLC: one action, which may not be    *)
(* repeated, and one subscriber.  The reply of the last call, which is read*)
(* only in the step that makes the call, is left out of the view, and so is*)
(* what tells apart two signals that the chain will refuse.  The           *)
(* chain properties of NodeSpec are checked here, on the chain that the    *)
(* node drives: every step of the node is a call of NodeNext, but for the  *)
(* bound on its actions, or leaves the chain alone.                        *)
(***************************************************************************)
EXTENDS ValidatorNode, SocialChainLog

CONSTANT actA

MCTransform == [i \in Input |-> IF i = NoAction THEN Empty ELSE i]
MCConflict  == {<<actA, actA>>}

(* A signal that the chain will answer with an error alone.  (The signal of*)
(* a block beyond the next one is not among them: that it is refused is    *)
(* what DenseEpochs is about.)                                             *)
Useless(s) ==
  \/ s.kind = "new" /\ s.epoch <= epoch
  \/ s.kind = "seal" /\ \A b \in ChainBlocks : b.Epoch # s.epoch \/ b.Status >= StatusSealed
  \/ s.kind = "commit" /\ \A i \in DOMAIN recentBlocks :
       ~(/\ CommitReaches(i, s.epoch)
         /\ recentBlocks[i].Epoch = s.epoch /\ recentBlocks[i].Status = StatusSealed)

(* What a signal is good for: as long as one that is useless is the next   *)
(* one, the chain does not change, and its epoch and hashes do not matter. *)
Use(s) == IF Useless(s) THEN <<s.kind>> ELSE <<s>>

NodeView ==
  <<epoch, live, validator, commit, commitEpoch, recentBlocks, link,
    IF loop = "receive" /\ Len(pending) = 1 THEN Use(pending[1]) ELSE pending,
    loop, Use(signal), out, lock, poolVars, subscriberVars>>
=============================================================================
