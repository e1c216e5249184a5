------------------------------- MODULE Gateway -------------------------------
(***************************************************************************)
(* NewGateway of topos/gateway.go: actions of many clients are dressed and *)
(* sent to a block provider over one connection.  All channels are         *)
(* unbuffered: an action that a client's goroutine has read stays in its   *)
(* hand until the select takes it.                                         *)
(*                                                                         *)
(* The map live and the flag shutdown keep their first values: connections *)
(* are only ever reported as not live, and WaitForActions ends a connection*)
(* that sends an empty action.  External: the provider, and a connection   *)
(* that stays broken once it is.                                           *)
(***************************************************************************)
EXTENDS Naturals, Sequences

CONSTANTS
  Sender,      \* clients of the gateway
  Submission,  \* actions
  Dress,       \* Dresser; the identity when it is nil
  MaxSent      \* bound: actions of a client

ASSUME GatewayAssumption == Submission \subseteq DOMAIN Dress /\ MaxSent \in Nat

VARIABLES
  gateway,    \* "off", "failed" (to listen or to dial) or "on"
  accepting,  \* whether the goroutine that accepts connections runs
  source,     \* progress of each client's goroutine
  link,       \* connection to the provider
  heard,      \* history: actions read from each client
  sent        \* history: what was sent to the provider for each client

gatewayVars == <<gateway, accepting, source, link, heard, sent>>

GatewayInit ==
  /\ gateway = "off" /\ accepting = FALSE
  /\ source = [c \in Sender |-> "absent"]
  /\ link = "down"
  /\ heard = [c \in Sender |-> << >>] /\ sent = [c \in Sender |-> << >>]

StartGateway ==
  /\ gateway = "off"
  /\ \/ gateway' = "failed" /\ UNCHANGED <<accepting, link>>
     \/ gateway' = "on" /\ accepting' = TRUE /\ link' = "up"
  /\ UNCHANGED <<source, heard, sent>>

(* The goroutine returns; the gateway goes on with the clients it has. *)
AcceptFails ==
  /\ accepting /\ accepting' = FALSE
  /\ UNCHANGED <<gateway, source, link, heard, sent>>

SourceStep(c, from, to) ==
  /\ gateway = "on" /\ source[c] = from
  /\ source' = [source EXCEPT ![c] = to]
  /\ UNCHANGED <<gateway, accepting>>

AcceptSender(c) ==
  /\ accepting
  /\ SourceStep(c, "absent", "reading")
  /\ UNCHANGED <<link, heard, sent>>

(* Fault: the goroutine reads on, into the same buffer. *)
HearActionUnwaited(c, a) ==
  /\ gateway = "on" /\ source[c] # "absent" /\ source[c] # "ending"
  /\ Len(heard[c]) < MaxSent
  /\ source' = [source EXCEPT ![c] = "holding"]
  /\ heard' = [heard EXCEPT ![c] = Append(@, a)]
  /\ UNCHANGED <<gateway, accepting, link, sent>>

HearAction(c, a) ==
  /\ SourceStep(c, "reading", "holding")
  /\ Len(heard[c]) < MaxSent
  /\ heard' = [heard EXCEPT ![c] = Append(@, a)]
  /\ UNCHANGED <<link, sent>>

(* An error or a message that is no action: the select forgets the client. *)
HearInvalid(c) ==
  /\ SourceStep(c, "reading", "ending")
  /\ UNCHANGED <<link, heard, sent>>

ForgetSender(c) ==
  /\ SourceStep(c, "ending", "absent")
  /\ UNCHANGED <<link, heard, sent>>

(* The action is dressed and sent; when that fails, it is logged and lost. *)
PassOn(c) ==
  /\ SourceStep(c, "holding", "reading")
  /\ \/ /\ link = "up"
        /\ sent' = [sent EXCEPT ![c] = Append(@, Dress[heard[c][Len(heard[c])]])]
        /\ UNCHANGED link
     \/ link' = "broken" /\ UNCHANGED sent
  /\ UNCHANGED heard

GatewayNext ==
  \/ StartGateway \/ AcceptFails
  \/ \E c \in Sender : \/ AcceptSender(c) \/ HearInvalid(c) \/ ForgetSender(c) \/ PassOn(c)
                       \/ \E a \in Submission : HearAction(c, a)

GatewaySpec == GatewayInit /\ [][GatewayNext]_gatewayVars

-----------------------------------------------------------------------------
(* Each client's actions reach the provider dressed, in the order in which *)
(* they were read, none twice and none for another; none is missing but the*)
(* one in the hand of its goroutine, until a send fails.                   *)
PassedOnInOrder ==
  \A c \in Sender :
    LET inHand == IF source[c] = "holding" THEN 1 ELSE 0
    IN  /\ Len(sent[c]) <= Len(heard[c]) - inHand
        /\ link = "up" => Len(sent[c]) = Len(heard[c]) - inHand
        /\ \A n \in DOMAIN sent[c] : sent[c][n] = Dress[heard[c][n]]
=============================================================================
