--------------------------- MODULE MCBreezeBlocks ---------------------------
(***************************************************************************)
(* Instance of the breeze block store for TLC: one action that the filter  *)
(* takes and one that it does not; queries of one or two blocks, one of    *)
(* them with a QueryBlock without actions.                                 *)
(***************************************************************************)
EXTENDS BreezeBlocks

CONSTANTS actA, actB

Wants == {<<0>>, <<1>>, <<0, 1>>}
MCQueries ==
  {<<[Epoch |-> 0, Actions |-> <<0>>], [Epoch |-> 1, Actions |-> << >>]>>,
   <<[Epoch |-> 0, Actions |-> <<0, 1>>]>>}
    \cup {<<[Epoch |-> 1, Actions |-> w], [Epoch |-> 0, Actions |-> <<0>>]>> : w \in Wants}
=============================================================================
