---------------------------- MODULE BlockTransfer ----------------------------
(***************************************************************************)
(* A block provider of topos/blockstore.go: it transmits the blocks of a   *)
(* store to a client while other blocks are added.  The transmissions of   *)
(* several clients only read the store: one client at a time is enough.    *)
(*                                                                         *)
(* A client is either some program that follows the comment of             *)
(* TransmitBlocks and asks for a first epoch ("asking"), or ReceiveBlocks  *)
(* of the same file, which never asks ("receiving").  The connection is    *)
(* reliable until it breaks.  An append to the index is seen at once by the*)
(* transmission, which does not synchronize with AddBlock.                 *)
(***************************************************************************)
EXTENDS SocialStore, FiniteSets

CONSTANTS
  MaxSent,  \* bound: messages of one transmission
  Dials     \* bound: number of connections

ASSUME TransferAssumption == MaxSent \in Nat /\ Dials \in Nat

VARIABLES
  client,     \* "none", "asking" or "receiving"
  want,       \* epoch given to ReceiveBlocks, and whether its caller has an end
  sending,    \* where TransmitBlocks is: "off", "waiting" (for a start epoch) or "loop"
  last,       \* the Epoch of the store when the transmission began
  start, next,\* first epoch of the transmission and the next one
  sent,       \* messages with blocks
  ending,     \* how the last transmission ended: "none", "all", "nothing" or "broken"
  due,        \* history: blocks kept when the transmission began
  dialled     \* number of connections so far

transferVars == <<client, want, sending, last, start, next, sent, ending, due, dialled>>
providerVars == <<storeVars, transferVars>>

TransferTypeOK ==
  /\ StoreTypeOK
  /\ client \in {"none", "asking", "receiving"}
  /\ want \in [epoch : 0 .. MaxBlocks + 1, ended : BOOLEAN]
  /\ sending \in {"off", "waiting", "loop"}
  /\ {last, start, next} \subseteq 0 .. Wrap - 1
  /\ \A m \in DOMAIN sent : sent[m].epoch \in 0 .. Wrap - 1
  /\ ending \in {"none", "all", "nothing", "broken"}
  /\ due \subseteq kept
  /\ dialled \in 0 .. Dials

Idle == [epoch |-> 0, ended |-> FALSE]

TransferInit ==
  /\ StoreInit
  /\ client = "none" /\ want = Idle
  /\ sending = "off" /\ ending = "none"
  /\ last = 0 /\ start = 0 /\ next = 0
  /\ sent = << >>
  /\ due = {}
  /\ dialled = 0

-----------------------------------------------------------------------------
(* ReceiveBlocks, which refuses epoch 0, ends at once when it wants a later*)
(* epoch than the last one: its caller gets the end signal, the connection *)
(* stays open.                                                             *)
Wants(e) == [epoch |-> e, ended |-> Epoch < e]

(* A client connects, and TransmitBlocks sends the last epoch of the store.*)
Connect(kind, e) ==
  /\ up /\ sending = "off" /\ dialled < Dials
  /\ \/ kind = "asking" /\ e = 0 /\ want' = Idle
     \/ kind = "receiving" /\ e > 0 /\ want' = Wants(e)
  /\ client' = kind
  /\ sending' = "waiting" /\ ending' = "none"
  /\ last' = Epoch
  /\ start' = 0 /\ next' = 0 /\ sent' = << >>
  /\ due' = kept
  /\ dialled' = dialled + 1
  /\ UNCHANGED storeVars

(* TransmitBlocks returns and shuts the connection down.  A client of      *)
(* ReceiveBlocks that still reads passes the end signal on.                *)
Leave(how) ==
  /\ sending' = "off"
  /\ ending' = how
  /\ client' = "none"
  /\ want' = Idle
  /\ UNCHANGED <<last, sent, due, dialled>>

(* The client asks for the blocks from epoch e on.  Eight zero bytes answer*)
(* a request for an epoch that is greater than the last one.               *)
ReadStart(e) ==
  /\ up /\ sending = "waiting" /\ client = "asking"
  /\ \/ e > last /\ Leave("nothing") /\ UNCHANGED <<start, next>>
     \/ /\ e <= last
        /\ start' = (IF e = 0 THEN 1 ELSE e)
        /\ next' = start'
        /\ sending' = "loop"
        /\ UNCHANGED <<client, want, last, sent, ending, due, dialled>>
  /\ UNCHANGED storeVars

(* Fault: the loop stops before the last epoch. *)
MoreShort == next < last

(* The condition of the loop. *)
More == next <= last

(* Fault: the counter of the loop does not wrap around. *)
SendBlockNoWrap ==
  LET block == GetBlock(next) IN
  /\ up /\ sending = "loop" /\ More
  /\ IF block # << >> \/ next = last
       THEN /\ Len(sent) < MaxSent
            /\ sent' = Append(sent, [epoch |-> next, bytes |-> block])
       ELSE UNCHANGED sent
  /\ next' = next + 1
  /\ UNCHANGED <<storeVars, client, want, sending, last, start, ending, due, dialled>>

(* Fault: the loop tries again when there is no block. *)
SendBlockWaits ==
  LET block == GetBlock(next) IN
  /\ up /\ sending = "loop" /\ More
  /\ IF block # << >> \/ next = last
       THEN /\ Len(sent) < MaxSent
            /\ sent' = Append(sent, [epoch |-> next, bytes |-> block])
       ELSE UNCHANGED sent
  /\ next' = IF block = << >> THEN next ELSE (next + 1) % Wrap
  /\ UNCHANGED <<storeVars, client, want, sending, last, start, ending, due, dialled>>

(* buffersize is 1 >> 24, which is zero: the buffer is sent as soon as it  *)
(* holds a block.  It is also sent, empty or not, for the last epoch.      *)
(* Bound: MaxSent messages.                                                *)
SendBlock ==
  LET block == GetBlock(next) IN
  /\ up /\ sending = "loop" /\ More
  /\ IF block # << >> \/ next = last
       THEN /\ Len(sent) < MaxSent
            /\ sent' = Append(sent, [epoch |-> next, bytes |-> block])
       ELSE UNCHANGED sent
  /\ next' = (next + 1) % Wrap
  /\ UNCHANGED <<storeVars, client, want, sending, last, start, ending, due, dialled>>

EndTransmission ==
  /\ up /\ sending = "loop" /\ ~More
  /\ Leave("all")
  /\ UNCHANGED <<storeVars, start, next>>

(* The connection breaks, or the client goes away. *)
Disconnect ==
  /\ sending # "off"
  /\ Leave("broken")
  /\ UNCHANGED <<storeVars, start, next>>

(* The store goes on meanwhile; a crash takes the transmission with it. *)
StoreStep ==
  \/ (AddBlock \/ OpenBlockStore) /\ UNCHANGED transferVars
  \/ /\ Crash
     /\ IF sending = "off" THEN UNCHANGED transferVars
        ELSE Leave("broken") /\ UNCHANGED <<start, next>>

Transmit == SendBlock \/ EndTransmission

TransferNext ==
  \/ StoreStep
  \/ \E kind \in {"asking", "receiving"}, e \in 0 .. MaxBlocks + 1 : Connect(kind, e)
  \/ \E e \in 0 .. MaxBlocks + 1 : ReadStart(e)
  \/ Transmit
  \/ Disconnect

(* The goroutine of TransmitBlocks runs.  Nothing says that blocks are     *)
(* added, that a client asks, that the process stops or that a connection  *)
(* breaks.                                                                 *)
TransferSpec ==
  TransferInit /\ [][TransferNext]_providerVars /\ WF_providerVars(Transmit)

-----------------------------------------------------------------------------
(* A client gets the blocks it asked for: every block that had been added  *)
(* before it connected, from its first epoch on, comes whole, in the order *)
(* of the index, once, although others are added meanwhile and the place of*)
(* the last one depends on how the store was opened.  Only the message for *)
(* the last epoch may hold no block, or one that is being written.  (A     *)
(* transmission of a store that was opened empty starts over for ever.)    *)
TransferFaithful ==
  /\ \A i, j \in DOMAIN sent :
       i < j /\ last # Wrap - 1 => sent[i].epoch < sent[j].epoch
  /\ \A b \in due, m \in DOMAIN sent :
       sent[m].epoch = b.place => sent[m].bytes = Payload(b.block, b.size)
  /\ \A b \in due :
       b.place \in start .. next - 1 \/ (ending = "all" /\ b.place >= start) =>
         \E m \in DOMAIN sent : sent[m].epoch = b.place

(* A transmission has at most one message for each block that was ever     *)
(* added, and never goes beyond its last epoch, whatever is added or taken *)
(* away by a crash meanwhile.  (MaxSent >= MaxBlocks cuts nothing off.)    *)
TransmissionBounded ==
  last # Wrap - 1 =>
    /\ last <= MaxBlocks /\ next <= last + 1
    /\ Len(sent) <= next - start
    /\ sending = "loop" /\ More => Len(sent) < MaxBlocks

(* While it goes on, what is left of it, last + 1 - next, only shrinks.    *)
TransmissionAdvances ==
  [][sending = "loop" /\ sending' = "loop" /\ last # Wrap - 1 =>
       /\ last' = last /\ start' = start
       /\ \/ next' = next /\ sent' = sent
          \/ next <= last /\ next' = next + 1]_providerVars

(* A transmission ends, except that of a store that was opened empty: its  *)
(* Epoch is the greatest number there is, and no epoch is beyond it.       *)
TransmissionEnds == sending = "loop" /\ last # Wrap - 1 ~> sending = "off"

(* ReceiveBlocks gets no block, of no store: its transmission does not come*)
(* past the request, which nobody sends.                                   *)
ReceiverWaits == client = "receiving" => sending = "waiting" /\ sent = << >>

(* "It then waits the receiver to send 8 bytes indicating the first epoch  *)
(* the receiver wants blocks to be transmitted": a receiver that is behind *)
(* the last epoch gets the blocks, or an end.                              *)
ReceiverServed ==
  client = "receiving" /\ ~want.ended ~> sent # << >> \/ sending = "off"
=============================================================================
