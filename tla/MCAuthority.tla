----------------------------- MODULE MCAuthority -----------------------------
(***************************************************************************)
(* Instance for TLC of the two programs of topos that take actions from    *)
(* clients: the single authority, which keeps four recent blocks, and the  *)
(* gateway, which dresses one of two actions.  They do not meet: a         *)
(* behaviour starts the one or the other.                                  *)
(***************************************************************************)
EXTENDS SingleAuthority, Gateway

CONSTANTS plain, void, signed

MCDress == [a \in Submission |-> IF a = void THEN signed ELSE a]

TakerInit == AuthorityInit /\ GatewayInit

TakerNext ==
  \/ gateway = "off" /\ AuthorityNext /\ UNCHANGED gatewayVars
  \/ authority = "off" /\ GatewayNext /\ UNCHANGED authorityVars

TakerSpec ==
  /\ TakerInit /\ [][TakerNext]_<<authorityVars, gatewayVars>>
  /\ AuthorityFairness
=============================================================================
