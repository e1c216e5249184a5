------------------------- MODULE MCSocialSubscriber -------------------------
(***************************************************************************)
(* Instance of the subscriber for TLC: one action, which may not be        *)
(* repeated.  The reply of the last call is left out of the view.          *)
(***************************************************************************)
EXTENDS SocialSubscriber

CONSTANT actA

MCTransform == [i \in Input |-> i]
MCConflict  == {<<actA, actA>>}

SubscriberView == <<epoch, live, validator, commit, commitEpoch, recentBlocks,
                    listenerVars, wire, newBlocks, syncVars>>
=============================================================================
