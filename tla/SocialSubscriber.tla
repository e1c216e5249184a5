-------------------------- MODULE SocialSubscriber --------------------------
(***************************************************************************)
(* A subscriber of a social protocol node: SocialProtocolBlockListener of  *)
(* social/listener.go, which turns the messages of the node into blocks,   *)
(* and SyncSocial of topos/sync.go, which takes them, together with the    *)
(* end of the old blocks that ReceiveBlocks fetches from the provider.     *)
(*                                                                         *)
(* The node is the chain of SocialChain under the calls of LaunchNode.  Its*)
(* messages reach the subscriber in the order of the calls, after the      *)
(* snapshot of Sync: ValidatorNode shows that its goroutines keep to that. *)
(*                                                                         *)
(* External: the connection keeps the order and may break.  SyncSocial     *)
(* gives the listener the address of the block provider (topos/sync.go:75; *)
(* nothing reads NodeAddress and NodeToken).  Of what TransmitBlocks sends *)
(* the listener takes nothing before it ends: that is ConnectFails.        *)
(* Connect is for an address where a node listens, for whose messages the  *)
(* listener is made.                                                       *)
(*                                                                         *)
(* ReceiveBlocks passes no block on: ParseProtocolBlockWithPosition goes on*)
(* with an action in place of its data (social/block.go:89) and slices it  *)
(* at a position in the data (96), which panics unless what lies behind    *)
(* the slice is long enough, or finds a wrong hash.                        *)
(***************************************************************************)
EXTENDS SocialChain

CONSTANT MaxWire  \* bound: messages under way

ASSUME SubscriberAssumption == MaxWire \in Nat

VARIABLES
  listener,  \* "absent", "reading", "ended" or "panicked"
  wire,      \* messages from the node to the listener
  heap,      \* the ProtocolBlocks that the listener has allocated
  known,     \* blocks: the place in heap of the block of an epoch, or 0
  current,   \* the place of the current block, or 0
  newBlocks, \* channel of blocks: places, or 0 for the end signal
  oldBlocks, \* end signals of ReceiveBlocks that wait in its channel
  fetched,   \* whether ReceiveBlocks has ended
  loop,      \* SyncSocial: "running" or "returned", or "panicked" with the process
  streaming, \* its variable live
  finishedOld, \* its variable finishedOld
  received,  \* history: what the loop has taken from newBlocks
  told       \* history: what the application has been told: "nil", "error"

listenerVars == <<listener, heap, known, current>>
syncVars     == <<oldBlocks, fetched, loop, streaming, finishedOld, received, told>>
subscriberVars == <<chainVars, listenerVars, wire, newBlocks, syncVars>>

Capacity == 2

Message == [type : {"new", "action", "seal", "commit", "other"}, epoch : Nat,
            from : {"snapshot", "broadcast"}, action : Input \cup {Empty},
            invalidated : SUBSET Action]

Msg(type, e) == [type |-> type, epoch |-> e, from |-> "broadcast", action |-> Empty,
                 invalidated |-> {}]

(* ProtocolBlock; opened, which is history, is how its new block message came.*)
ProtocolBlock == [Epoch : Nat, Actions : Seq(Input), Invalidated : SUBSET Action,
                  opened : {"snapshot", "broadcast"}]

SubscriberTypeOK ==
  /\ ChainTypeOK
  /\ listener \in {"absent", "reading", "ended", "panicked"}
  /\ wire \in Seq(Message)
  /\ heap \in Seq(ProtocolBlock)
  /\ known \in [Epochs -> 0 .. Len(heap)]
  /\ current \in 0 .. Len(heap)
  /\ \A n \in DOMAIN newBlocks : newBlocks[n] \in 0 .. Len(heap)
  /\ Len(newBlocks) <= Capacity
  /\ oldBlocks \in 0 .. 2 /\ fetched \in BOOLEAN
  /\ loop \in {"running", "returned", "panicked"}
  /\ streaming \in BOOLEAN /\ finishedOld \in BOOLEAN
  /\ told \subseteq {"nil", "error"}

SubscriberInit ==
  /\ ChainInit
  /\ listener = "absent" /\ wire = << >> /\ heap = << >>
  /\ known = [e \in Epochs |-> 0] /\ current = 0
  /\ newBlocks = << >>
  /\ oldBlocks = 0 /\ fetched = FALSE
  /\ loop = "running" /\ streaming = TRUE /\ finishedOld = FALSE
  /\ received = << >> /\ told = {}

-----------------------------------------------------------------------------
(* The node: a call of the chain, and its message if it succeeds. *)

Send(m) ==
  wire' = IF listener # "absent" /\ reply'.err = "ok" THEN Append(wire, m) ELSE wire

Invalidated(e) ==
  UNION {recentBlocks'[i].Invalidated : i \in {j \in DOMAIN recentBlocks : Found(j, e)}}

Node ==
  /\ Len(wire) < MaxWire
  /\ \/ \E e \in Epochs : NextBlock(e) /\ Send(Msg("new", epoch'))
     \/ \E i \in Input : /\ Room(1) /\ Validate(i)
                         /\ Send([Msg("action", 0) EXCEPT !.action = i])
     \/ \E e \in Epochs : SealBlock(e) /\ Send(Msg("seal", e))
     \/ \E e \in Epochs, h \in SUBSET Action :
          /\ Commit(e, h)
          /\ Send([Msg("commit", e) EXCEPT !.invalidated = Invalidated(e)])
  /\ UNCHANGED <<listenerVars, newBlocks, syncVars>>

(* What Sync sends of a block: a new block message and others, for which   *)
(* the listener has no case.                                               *)
Heads(e) == <<[Msg("new", e) EXCEPT !.from = "snapshot"],
              [Msg("other", e) EXCEPT !.from = "snapshot"]>>

HeadsAfter(b, e) == IF b.Epoch > e THEN Heads(b.Epoch) ELSE << >>

(* Earlier(S, e)[n] is what it sends of the first n of the blocks S.       *)
Earlier(S, e) ==
  LET sent[n \in 0 .. Len(S)] == IF n = 0 THEN << >> ELSE sent[n - 1] \o HeadsAfter(S[n], e)
  IN  sent

(* The listener connects and asks for the blocks after epoch e: Sync sends *)
(* each recent block after that epoch and the live block.                  *)
Snapshot(e) ==
  Earlier(recentBlocks, e)[Len(recentBlocks)]
    \o (IF live = NoBlock THEN << >> ELSE Heads(live.Epoch))

Connect(e) ==
  /\ listener = "absent"
  /\ listener' = "reading"
  /\ wire' = Snapshot(e)
  /\ UNCHANGED <<chainVars, heap, known, current, newBlocks, syncVars>>

(* The listener cannot connect, cannot send its request, or has dialled a  *)
(* block provider and has come to the end of what it sends.                *)
ConnectFails ==
  /\ listener = "absent"
  /\ listener' = "ended"
  /\ newBlocks' = Append(newBlocks, 0)
  /\ UNCHANGED <<chainVars, wire, heap, known, current, syncVars>>

-----------------------------------------------------------------------------
(* SocialProtocolBlockListener.  A handler that sends waits for room in the*)
(* channel; nobody sees what it did before.                                *)

(* Fault: the channel has no limit. *)
DeliverAlways(x) == newBlocks' = Append(newBlocks, x)

Deliver(x) ==
  /\ Len(newBlocks) < Capacity
  /\ newBlocks' = Append(newBlocks, x)

(* The end signal; the goroutine returns. *)
End ==
  /\ Deliver(0)
  /\ listener' = "ended"
  /\ UNCHANGED <<heap, known, current>>

(* Fault: actions go on to the block that was current before. *)
ReadNewBlockKeeps(m) ==
  /\ m.type = "new"
  /\ heap' = Append(heap, [Epoch |-> m.epoch, Actions |-> << >>, Invalidated |-> {},
                           opened |-> m.from])
  /\ current' = (IF current = 0 THEN Len(heap') ELSE current)
  /\ known' = [known EXCEPT ![m.epoch] = Len(heap')]
  /\ UNCHANGED <<listener, newBlocks>>

ReadNewBlock(m) ==
  /\ m.type = "new"
  /\ heap' = Append(heap, [Epoch |-> m.epoch, Actions |-> << >>, Invalidated |-> {},
                           opened |-> m.from])
  /\ current' = Len(heap')
  /\ known' = [known EXCEPT ![m.epoch] = current']
  /\ UNCHANGED <<listener, newBlocks>>

ReadAction(m) ==
  /\ m.type = "action"
  /\ IF current = 0
       THEN End
       ELSE /\ heap' = [heap EXCEPT ![current].Actions = Append(@, m.action)]
            /\ UNCHANGED <<listener, known, current, newBlocks>>

(* current.Epoch is read without a test for nil: a seal that comes while no*)
(* block is current panics, and the program with it.                       *)
ReadSeal(m) ==
  /\ m.type = "seal"
  /\ IF current = 0
       THEN listener' = "panicked" /\ UNCHANGED <<heap, known, current, newBlocks>>
       ELSE IF known[m.epoch] = 0
         THEN End
         ELSE /\ current' = (IF heap[current].Epoch = m.epoch THEN 0 ELSE current)
              /\ UNCHANGED <<listener, heap, known, newBlocks>>

(* Fault: the listener goes on after the end signal. *)
ReadCommitGoesOn(m) ==
  /\ m.type = "commit"
  /\ IF known[m.epoch] = 0
       THEN Deliver(0) /\ UNCHANGED <<listener, heap, known, current>>
       ELSE /\ heap' = [heap EXCEPT ![known[m.epoch]].Invalidated = m.invalidated]
            /\ Deliver(known[m.epoch])
            /\ known' = [known EXCEPT ![m.epoch] = 0]
            /\ UNCHANGED <<listener, current>>

ReadCommit(m) ==
  /\ m.type = "commit"
  /\ IF known[m.epoch] = 0
       THEN End
       ELSE /\ heap' = [heap EXCEPT ![known[m.epoch]].Invalidated = m.invalidated]
            /\ Deliver(known[m.epoch])
            /\ known' = [known EXCEPT ![m.epoch] = 0]
            /\ UNCHANGED <<listener, current>>

(* Messages for which there is no case. *)
ReadOther(m) == m.type = "other" /\ UNCHANGED <<listenerVars, newBlocks>>

Read ==
  /\ listener = "reading" /\ wire # << >>
  /\ LET m == Head(wire) IN
     ReadNewBlock(m) \/ ReadAction(m) \/ ReadSeal(m) \/ ReadCommit(m) \/ ReadOther(m)
  /\ wire' = Tail(wire)
  /\ UNCHANGED <<chainVars, syncVars>>

(* The connection breaks, or a message cannot be parsed. *)
ReadError ==
  /\ listener = "reading"
  /\ End
  /\ wire' = << >>
  /\ UNCHANGED <<chainVars, syncVars>>

-----------------------------------------------------------------------------
(* SyncSocial. *)

(* ReceiveBlocks ends: with one end signal, or two after a message that is *)
(* too short, or with the process when a block comes.                      *)
OldEnds ==
  /\ ~fetched
  /\ fetched' = TRUE
  /\ \/ oldBlocks' \in {1, 2} /\ UNCHANGED loop
     \/ loop' = "panicked" /\ UNCHANGED oldBlocks
  /\ UNCHANGED <<chainVars, listenerVars, wire, newBlocks, streaming, finishedOld,
                 received, told>>

(* Fault: the loop returns after the old blocks, whatever comes. *)
TakeOldReturns ==
  /\ loop = "running" /\ oldBlocks > 0
  /\ oldBlocks' = oldBlocks - 1
  /\ finishedOld' = TRUE
  /\ loop' = "returned"
  /\ UNCHANGED <<chainVars, listenerVars, wire, newBlocks, fetched, streaming, received, told>>

TakeOld ==
  /\ loop = "running" /\ oldBlocks > 0
  /\ oldBlocks' = oldBlocks - 1
  /\ finishedOld' = TRUE
  /\ loop' = IF streaming THEN "running" ELSE "returned"
  /\ UNCHANGED <<chainVars, listenerVars, wire, newBlocks, fetched, streaming, received, told>>

(* Fault: the end of the new blocks is not passed on. *)
NewEndedSilent ==
  /\ streaming' = FALSE
  /\ IF finishedOld
       THEN told' = told \cup {"error"} /\ loop' = "returned"
       ELSE UNCHANGED <<told, loop>>

(* The end of the new blocks: an error, or nil to the application through  *)
(* AddBlock while the old blocks are still awaited.                        *)
NewEnded ==
  /\ streaming' = FALSE
  /\ IF finishedOld
       THEN told' = told \cup {"error"} /\ loop' = "returned"
       ELSE told' = told \cup {"nil"} /\ UNCHANGED loop

(* A block that is not nil is dropped. *)
TakeNew ==
  /\ loop = "running" /\ newBlocks # << >>
  /\ newBlocks' = Tail(newBlocks)
  /\ received' = Append(received, Head(newBlocks))
  /\ IF Head(newBlocks) = 0 THEN NewEnded ELSE UNCHANGED <<streaming, told, loop>>
  /\ UNCHANGED <<chainVars, listenerVars, wire, oldBlocks, fetched, finishedOld>>

SyncLoop == TakeOld \/ TakeNew

-----------------------------------------------------------------------------
Alive == listener # "panicked" /\ loop # "panicked"

Listener == (\E e \in Epochs : Connect(e)) \/ ConnectFails \/ Read \/ ReadError

SubscriberNext == Node \/ (Alive /\ (Listener \/ OldEnds \/ SyncLoop))

(* The goroutines of the subscriber run. *)
SubscriberSpec ==
  /\ SubscriberInit /\ [][SubscriberNext]_subscriberVars
  /\ WF_subscriberVars(Alive /\ Read)
  /\ WF_subscriberVars(Alive /\ SyncLoop)

-----------------------------------------------------------------------------
(* What the listener has delivered and the loop has taken or will take. *)
Delivered == received \o newBlocks

(* A block that is delivered is the committed block of the node: the hashes*)
(* that were invalidated, and its actions in order, all of them when the   *)
(* listener saw the block open, the latest ones when it came in a snapshot,*)
(* whose action array the listener does not read.                          *)
DeliveredFaithful ==
  \A n \in DOMAIN Delivered :
    Delivered[n] # 0 =>
      LET b == heap[Delivered[n]] IN
      \E i \in DOMAIN recentBlocks :
        LET c == recentBlocks[i]
            missing == Len(c.Actions) - Len(b.Actions)
        IN  /\ c.Epoch = b.Epoch /\ c.Status = StatusCommit
            /\ b.Invalidated = c.Invalidated
            /\ missing >= 0
            /\ b.opened = "broadcast" => missing = 0
            /\ \A k \in DOMAIN b.Actions : Transform[b.Actions[k]] = c.Actions[missing + k]

(* Blocks are delivered in the order of their epochs, each once and without*)
(* a gap, and nothing follows the end signal.                              *)
DeliveredInOrder ==
  \A n \in 2 .. Len(Delivered) :
    /\ Delivered[n - 1] # 0
    /\ Delivered[n] # 0 => heap[Delivered[n]].Epoch = heap[Delivered[n - 1]].Epoch + 1

(* A block that has been delivered is no longer written to, although the   *)
(* listener goes on with the pointers in known and current, of which one   *)
(* may still point to it.                                                  *)
DeliveredFrozen ==
  [][\A n \in DOMAIN Delivered :
       Delivered[n] # 0 => heap'[Delivered[n]] = heap[Delivered[n]]]_subscriberVars

(* SyncSocial does not return behind the back of the application: it has   *)
(* passed the end of the blocks on, or an error.                           *)
NeverSilent == loop = "returned" => told # {}

(* A block that the listener knows and whose commit it can read is taken by*)
(* SyncSocial, unless the listener or the process ends first.              *)
CommitsTaken ==
  \A e \in Epochs :
    known[e] # 0 /\ (\E n \in DOMAIN wire : wire[n].type = "commit" /\ wire[n].epoch = e)
      ~> \/ listener = "ended"
         \/ ~Alive
         \/ \E n \in DOMAIN received : received[n] # 0 /\ heap[received[n]].Epoch = e

(* "SocialProtocolBlockListener: sealed unkown block": a seal that does not*)
(* fit ends the listener with an end signal, and not the whole program.    *)
SealAnswered == listener # "panicked"
=============================================================================
