---------------------------- MODULE ValidatorNode ----------------------------
(***************************************************************************)
(* The node of social/node.go around a social chain: the listener of the   *)
(* breeze provider, the signal loop that drives the chain, the pool loop   *)
(* that broadcasts to the subscribers, and one goroutine per new subscriber*)
(* that sends it the recent blocks.  All channels are unbuffered: a send   *)
(* and its receive are one step.                                           *)
(*                                                                         *)
(* External, modelled from their use: the provider sends any messages; a   *)
(* CachedConnection keeps what is broadcast to it until it is Ready and    *)
(* sends SendDirect at once; a broadcast to a dead connection is lost; a   *)
(* method of a nil connection or of a nil action array panics.             *)
(***************************************************************************)
EXTENDS SocialChain, FiniteSets

CONSTANTS
  Subscriber,  \* the connections that listeners of the node may open
  NoSub,       \* no subscriber
  NoAction     \* the nil action of a signal that carries an action array

ASSUME NodeAssumption ==
  /\ NoSub \notin Subscriber
  /\ NoAction \in Input
  /\ Transform[NoAction] = Empty

VARIABLES
  link,      \* connection to the provider: "down", "up" or "closed"
  pending,   \* signals that the listener still sends for its last message
  loop,      \* where the signal loop is
  signal,    \* the signal the signal loop has received last
  out,       \* the message it forwards
  lock,      \* holder of the mutex of the chain: "free" or "loop"
  pooling,   \* where the pool loop is: "select" or "lock"
  request,   \* the subscriber whose sync request the pool loop has taken
  pool,      \* connections in the pool
  since,     \* epoch of the sync request of each subscriber
  stage,     \* progress of each subscriber
  snapshot,  \* blocks that the goroutine of Sync still sends to it
  cache,     \* broadcasts kept for it
  stream     \* messages sent to it

listenerVars   == <<link, pending>>
poolVars       == <<pooling, request, pool>>
subscriberVars == <<since, stage, snapshot, cache, stream>>
loopVars       == <<loop, signal, out, lock>>
nodeVars == <<chainVars, listenerVars, loopVars, poolVars, subscriberVars>>

(* An action array whose Actions are still nil is "unfilled". *)
Signal == [kind : {"new", "action", "array", "unfilled", "seal", "commit", "error", "none"},
           epoch : Epochs, action : Input, invalidated : SUBSET Action]

Sig(kind, e) == [kind |-> kind, epoch |-> e, action |-> NoAction, invalidated |-> {}]

(* The variables signal and messages of the loop have no value between two *)
(* iterations.                                                             *)
NoSignal == Sig("none", 0)

Committing(e, h) == [Sig("commit", e) EXCEPT !.invalidated = h]

(* What is sent to a subscriber.  A "new", "seal" or "commit" of a snapshot*)
(* and of a broadcast differ in their message byte: see from.              *)
Message == [type : {"new", "action", "actions", "seal", "commit"},
            from : {"snapshot", "broadcast"},
            epoch : Nat, actions : Seq(Input \cup Action),
            invalidated : SUBSET Action]

Msg(type, from, e) == [type |-> type, from |-> from, epoch |-> e,
                       actions |-> << >>, invalidated |-> {}]

NoMsg == Msg("new", "broadcast", 0)

(* An item of a snapshot: a pointer to a recent block, which is read when  *)
(* it is sent, or the clone of the live block; and what is sent next.      *)
SnapshotItem == [block : Nat, epoch : Nat, actions : Seq(Action),
                 next : {"head", "seal", "commit"}]

NodeTypeOK ==
  /\ ChainTypeOK
  /\ link \in {"down", "up", "closed"}
  /\ pending \in Seq(Signal)
  /\ loop \in {"connect", "unreported", "receive", "handle", "locking", "forward", "ended",
             "panicked"}
  /\ signal \in Signal
  /\ out \in Message
  /\ lock \in {"free", "loop"}
  /\ pooling \in {"select", "lock"}
  /\ request \in Subscriber \cup {NoSub}
  /\ pool \in SUBSET Subscriber
  /\ since \in [Subscriber -> Epochs]
  /\ stage \in [Subscriber -> {"absent", "requesting", "cached", "syncing", "ready", "broken"}]
  /\ snapshot \in [Subscriber -> Seq(SnapshotItem)]
  /\ cache \in [Subscriber -> Seq(Message)]
  /\ stream \in [Subscriber -> Seq(Message)]

NodeInit ==
  /\ ChainInit
  /\ link = "down"
  /\ pending = << >>
  /\ loop = "connect"
  /\ signal = NoSignal
  /\ out = NoMsg
  /\ lock = "free"
  /\ pooling = "select"
  /\ request = NoSub
  /\ pool = {}
  /\ since = [c \in Subscriber |-> 0]
  /\ stage = [c \in Subscriber |-> "absent"]
  /\ snapshot = [c \in Subscriber |-> << >>]
  /\ cache = [c \in Subscriber |-> << >>]
  /\ stream = [c \in Subscriber |-> << >>]

(* Connections that are broken. *)
dead == {c \in Subscriber : stage[c] = "broken"}

(* A goroutine that panics ends the process and its connections: nothing is*)
(* under way any more, and nobody reads the chain again.                   *)
Panic ==
  /\ loop' = "panicked"
  /\ link' = "closed" /\ pending' = << >>
  /\ signal' = NoSignal /\ out' = NoMsg /\ lock' = "free"
  /\ pooling' = "select" /\ request' = NoSub /\ pool' = {}
  /\ since' = [c \in Subscriber |-> 0]
  /\ stage' = [c \in Subscriber |-> "broken"]
  /\ snapshot' = [c \in Subscriber |-> << >>]
  /\ cache' = [c \in Subscriber |-> << >>]
  /\ stream' = [c \in Subscriber |-> << >>]
  /\ UNCHANGED chainVars

Alive == loop # "panicked"

-----------------------------------------------------------------------------
(* BreezeBlockListener. *)

(* The signal loop starts the listener.  When it cannot connect, it sends  *)
(* the error on a channel that it has not yet returned: nobody receives.   *)
Dial ==
  /\ loop = "connect"
  /\ \/ loop' = "receive" /\ link' = "up"
     \/ loop' = "unreported" /\ UNCHANGED link
  /\ UNCHANGED <<chainVars, pending, signal, out, lock, poolVars, subscriberVars>>

(* The signals for one message.  A sealed or committed block becomes three *)
(* or four signals.  Nothing but Receive looks at a message that has been  *)
(* read: it is enough to read it when the signal loop is ready for it.     *)
(* Bound: whole blocks come for the next epoch only.                       *)
ReadMessage ==
  /\ link = "up" /\ pending = << >> /\ loop = "receive"
  /\ \/ /\ Room(1)
        /\ \E i \in Input \ {NoAction} : pending' = <<[Sig("action", 0) EXCEPT !.action = i]>>
     \/ \E e \in Epochs :
          \/ pending' = <<Sig("new", e)>>
          \/ pending' = <<Sig("seal", e)>>
          \/ \E h \in SUBSET Action : pending' = <<Committing(e, h)>>
     \/ LET e == epoch + 1
            sealed == <<Sig("new", e), Sig("array", e), Sig("seal", e)>>
        IN  /\ e \in Epochs
            /\ \/ pending' = sealed
               \/ \E h \in SUBSET Action : pending' = Append(sealed, Committing(e, h))
  /\ UNCHANGED <<chainVars, link, loopVars, poolVars, subscriberVars>>

ReadError ==
  /\ link = "up" /\ pending = << >> /\ loop = "receive"
  /\ pending' = <<Sig("error", 0)>>
  /\ link' = "closed"
  /\ UNCHANGED <<chainVars, loopVars, poolVars, subscriberVars>>

(* The signal loop receives a signal.  The signals of one message are one  *)
(* object, which the listener overwrites for the next send while the signal*)
(* loop reads it: the loop may already see the next kind, and then what    *)
(* goes with it, which is written after the kind, or what was there before:*)
(* no action array, or no invalidated hashes.                              *)
HalfWritten(s) ==
  IF s.kind = "array" THEN [s EXCEPT !.kind = "unfilled"] ELSE [s EXCEPT !.invalidated = {}]

Receive ==
  /\ loop = "receive" /\ pending # << >>
  /\ pending' = Tail(pending)
  /\ \/ signal' = pending[1]
     \/ /\ Len(pending) > 1
        /\ \/ signal' = pending[2]
           \/ signal' = HalfWritten(pending[2])
  /\ loop' = "handle"
  /\ UNCHANGED <<chainVars, link, out, lock, poolVars, subscriberVars>>

-----------------------------------------------------------------------------
(* The signal loop of LaunchNode. *)

(* Fault: the mutex is released before the message is forwarded. *)
ForwardUnlocked(m) ==
  IF reply'.err = "ok"
    THEN loop' = "forward" /\ out' = m /\ lock' = "free"
    ELSE loop' = "receive" /\ UNCHANGED <<out, lock>>

(* Fault: the mutex is not released after a call that fails. *)
ForwardLeak(m) ==
  IF reply'.err = "ok"
    THEN loop' = "forward" /\ out' = m /\ lock' = "loop"
    ELSE loop' = "receive" /\ lock' = "loop" /\ UNCHANGED out

(* After a call under the mutex: the message of a call that succeeds is    *)
(* forwarded before the mutex is released.                                 *)
ForwardLocked(m) ==
  IF reply'.err = "ok"
    THEN loop' = "forward" /\ out' = m /\ lock' = "loop"
    ELSE loop' = "receive" /\ UNCHANGED <<out, lock>>

HandleError ==
  /\ loop = "handle" /\ signal.kind = "error"
  /\ loop' = "ended"
  /\ signal' = NoSignal
  /\ UNCHANGED <<chainVars, listenerVars, out, lock, poolVars, subscriberVars>>

(* newBlock <- struct{}{}: the pool loop drops its dead connections. *)
DropDead ==
  /\ loop = "handle" /\ signal.kind = "new"
  /\ pooling = "select"
  /\ pool' = pool \ dead
  /\ loop' = "locking"
  /\ UNCHANGED <<chainVars, listenerVars, signal, out, lock, pooling, request, subscriberVars>>

HandleNewBlock ==
  /\ loop = "locking" /\ lock = "free"
  /\ NextBlock(signal.epoch)
  /\ ForwardLocked(Msg("new", "broadcast", epoch'))
  /\ signal' = NoSignal
  /\ UNCHANGED <<listenerVars, poolVars, subscriberVars>>

(* The chain is not locked, and the action is forwarded as it came, before *)
(* Transform.                                                              *)
HandleAction ==
  /\ loop = "handle" /\ signal.kind = "action"
  /\ Validate(signal.action)
  /\ IF reply'.err = "ok"
       THEN /\ loop' = "forward"
            /\ out' = [Msg("action", "broadcast", 0) EXCEPT !.actions = <<signal.action>>]
       ELSE loop' = "receive" /\ UNCHANGED out
  /\ signal' = NoSignal
  /\ UNCHANGED <<listenerVars, lock, poolVars, subscriberVars>>

(* For every action of the array the loop validates signal.Action, which is*)
(* nil: no action of the array is accepted.                                *)
HandleActionArray ==
  /\ loop = "handle" /\ signal.kind = "array"
  /\ Validate(NoAction)
  /\ loop' = "receive"
  /\ signal' = NoSignal
  /\ UNCHANGED <<listenerVars, out, lock, poolVars, subscriberVars>>

(* The length of an action array that is not yet there. *)
HandleUnfilledArray ==
  /\ loop = "handle" /\ signal.kind = "unfilled"
  /\ Panic

HandleSeal ==
  /\ loop = "handle" /\ signal.kind = "seal" /\ lock = "free"
  /\ SealBlock(signal.epoch)
  /\ ForwardLocked(Msg("seal", "broadcast", signal.epoch))
  /\ signal' = NoSignal
  /\ UNCHANGED <<listenerVars, poolVars, subscriberVars>>

(* The hashes that Commit returns are those of the block it has committed. *)
HandleCommit ==
  /\ loop = "handle" /\ signal.kind = "commit" /\ lock = "free"
  /\ Commit(signal.epoch, signal.invalidated)
  /\ ForwardLocked(
       [Msg("commit", "broadcast", signal.epoch) EXCEPT !.invalidated =
          UNION {recentBlocks'[i].Invalidated :
                   i \in {j \in DOMAIN recentBlocks : Found(j, signal.epoch)}}])
  /\ signal' = NoSignal
  /\ UNCHANGED <<listenerVars, poolVars, subscriberVars>>

-----------------------------------------------------------------------------
(* The pool loop. *)

(* Fault: the message reaches the connections that are already served only.*)
BroadcastReady(m) ==
  /\ stream' = [c \in Subscriber |->
       IF c \in pool \ dead /\ stage[c] = "ready" THEN Append(stream[c], m) ELSE stream[c]]
  /\ UNCHANGED cache

(* pool.Broadcast: connections that are not ready keep the message. *)
Broadcast(m) ==
  /\ stream' = [c \in Subscriber |->
       IF c \in pool \ dead /\ stage[c] = "ready" THEN Append(stream[c], m) ELSE stream[c]]
  /\ cache' = [c \in Subscriber |->
       IF c \in pool \ dead /\ stage[c] # "ready" THEN Append(cache[c], m) ELSE cache[c]]

(* Fault: the mutex is kept. *)
ForwardKeepsLock ==
  /\ loop = "forward" /\ pooling = "select"
  /\ Broadcast(out)
  /\ loop' = "receive"
  /\ out' = NoMsg
  /\ UNCHANGED <<chainVars, listenerVars, signal, lock, poolVars, since, stage, snapshot>>

(* forward <- message; the mutex, if it is held, is released next. *)
Forward ==
  /\ loop = "forward" /\ pooling = "select"
  /\ Broadcast(out)
  /\ loop' = "receive"
  /\ out' = NoMsg
  /\ lock' = "free"
  /\ UNCHANGED <<chainVars, listenerVars, signal, poolVars, since, stage, snapshot>>

(* A handshake fails: the connection is closed, and nil is given in its    *)
(* place to WaitForOutgoingSyncRequest, which reads from it.               *)
HandshakeFails == Panic

(* WaitForOutgoingSyncRequest has read a request of subscriber c; a        *)
(* connection that sends anything else is shut down.                       *)
RequestSync(c, e) ==
  /\ stage[c] = "absent"
  /\ stage' = [stage EXCEPT ![c] = "requesting"]
  /\ since' = [since EXCEPT ![c] = e]
  /\ UNCHANGED <<chainVars, listenerVars, loopVars, poolVars, snapshot, cache, stream>>

TakeSyncRequest(c) ==
  /\ pooling = "select" /\ stage[c] = "requesting"
  /\ pool' = pool \cup {c}
  /\ pooling' = "lock"
  /\ request' = c
  /\ stage' = [stage EXCEPT ![c] = "cached"]
  /\ UNCHANGED <<chainVars, listenerVars, loopVars, since, snapshot, cache, stream>>

(* The recent blocks after epoch e, by reference and in order. *)
RecentAfter(e) ==
  LET after    == {i \in DOMAIN recentBlocks :
                     recentBlocks[i].Epoch > e /\ recentBlocks[i].Epoch <= epoch}
      place(n) == CHOOSE i \in after : Cardinality({j \in after : j <= i}) = n
  IN  [n \in 1 .. Cardinality(after) |->
         [block |-> place(n), epoch |-> recentBlocks[place(n)].Epoch,
          actions |-> recentBlocks[place(n)].Actions, next |-> "head"]]

(* Fault: the live block is left out. *)
SyncBlocksRecent(e) == RecentAfter(e)

(* The blocks that Sync collects: the recent blocks after epoch e and a    *)
(* clone of the live block, whatever its epoch.                            *)
SyncBlocks(e) ==
  IF live = NoBlock
    THEN RecentAfter(e)
    ELSE Append(RecentAfter(e), [block |-> 0, epoch |-> live.Epoch,
                                 actions |-> live.Actions, next |-> "head"])

(* Sync under the mutex starts the goroutine that sends the blocks. *)
StartSync ==
  /\ pooling = "lock" /\ lock = "free"
  /\ snapshot' = [snapshot EXCEPT ![request] = SyncBlocks(since[request])]
  /\ stage' = [stage EXCEPT ![request] = "syncing"]
  /\ pooling' = "select"
  /\ request' = NoSub
  /\ UNCHANGED <<chainVars, listenerVars, loopVars, pool, since, cache, stream>>

-----------------------------------------------------------------------------
(* The goroutine of Sync, which does not hold the mutex. *)

SendDirect(c, messages) == stream' = [stream EXCEPT ![c] = @ \o messages]

SyncItem(c, next) ==
  /\ stage[c] = "syncing" /\ snapshot[c] # << >>
  /\ Head(snapshot[c]).next = next
  /\ UNCHANGED <<chainVars, listenerVars, loopVars, poolVars, since, stage, cache>>

(* The epoch and the actions of a block: they are fixed once the block has *)
(* left live.                                                              *)
HeadMessages(item) ==
  <<Msg("new", "snapshot", item.epoch),
    [Msg("actions", "snapshot", item.epoch) EXCEPT !.actions = item.actions]>>

SyncHead(c) ==
  /\ SyncItem(c, "head")
  /\ SendDirect(c, HeadMessages(Head(snapshot[c])))
  /\ snapshot' = [snapshot EXCEPT ![c][1].next = "seal"]

(* Status of the block of an item, as it is when the goroutine reads it. *)
StatusOf(item) ==
  IF item.block = 0 THEN StatusLive ELSE recentBlocks[item.block].Status

SyncSeal(c) ==
  /\ SyncItem(c, "seal")
  /\ LET item == Head(snapshot[c])
     IN  IF StatusOf(item) >= StatusSealed
           THEN SendDirect(c, <<Msg("seal", "snapshot", item.epoch)>>)
           ELSE UNCHANGED stream
  /\ snapshot' = [snapshot EXCEPT ![c][1].next = "commit"]

(* The signal loop is inside Commit of the block at position i: its status *)
(* may already be written, its invalidated hashes not.                     *)
CommitUnderWay(i) ==
  /\ loop = "handle" /\ signal.kind = "commit"
  /\ CommitReaches(i, signal.epoch)
  /\ recentBlocks[i].Epoch = signal.epoch /\ recentBlocks[i].Status = StatusSealed

SyncCommit(c) ==
  /\ SyncItem(c, "commit")
  /\ LET item == Head(snapshot[c])
         commitMsg == Msg("commit", "snapshot", item.epoch)
     IN  \/ /\ StatusOf(item) >= StatusCommit
            /\ SendDirect(c, <<[commitMsg EXCEPT !.invalidated =
                                  recentBlocks[item.block].Invalidated]>>)
         \/ /\ StatusOf(item) < StatusCommit
            /\ UNCHANGED stream
         \/ /\ CommitUnderWay(item.block)
            /\ SendDirect(c, <<commitMsg>>)
  /\ snapshot' = [snapshot EXCEPT ![c] = Tail(@)]

(* conn.Ready(): what was kept is sent, and later broadcasts directly. *)
Ready(c) ==
  /\ stage[c] = "syncing" /\ snapshot[c] = << >>
  /\ SendDirect(c, cache[c])
  /\ cache' = [cache EXCEPT ![c] = << >>]
  /\ stage' = [stage EXCEPT ![c] = "ready"]
  /\ UNCHANGED <<chainVars, listenerVars, loopVars, poolVars, since, snapshot>>

(* A connection breaks: what is still sent to it is lost. *)
Break(c) ==
  /\ stage[c] \in {"syncing", "ready"}
  /\ stage' = [stage EXCEPT ![c] = "broken"]
  /\ since' = [since EXCEPT ![c] = 0]
  /\ snapshot' = [snapshot EXCEPT ![c] = << >>]
  /\ cache' = [cache EXCEPT ![c] = << >>]
  /\ stream' = [stream EXCEPT ![c] = << >>]
  /\ UNCHANGED <<chainVars, listenerVars, loopVars, poolVars>>

-----------------------------------------------------------------------------
Listen == ReadMessage \/ ReadError

Loop == \/ Dial \/ Receive
        \/ HandleError \/ DropDead \/ HandleNewBlock \/ HandleAction
        \/ HandleActionArray \/ HandleUnfilledArray \/ HandleSeal \/ HandleCommit
        \/ Forward

Pool == Alive /\ (StartSync \/ \E c \in Subscriber : TakeSyncRequest(c))

Sync(c) == Alive /\ (SyncHead(c) \/ SyncSeal(c) \/ SyncCommit(c) \/ Ready(c))

Environment ==
  /\ Alive
  /\ \/ HandshakeFails
     \/ \E c \in Subscriber : Break(c) \/ \E e \in Epochs : RequestSync(c, e)

ValidatorNext == Listen \/ Loop \/ Pool \/ (\E c \in Subscriber : Sync(c)) \/ Environment

ValidatorSpec == NodeInit /\ [][ValidatorNext]_nodeVars

(* The two loops of the node are goroutines that run when they can. *)
LoopsSpec == ValidatorSpec /\ WF_nodeVars(Loop) /\ WF_nodeVars(Pool)

(* So are those that serve subscribers; provider and subscribers owe       *)
(* nothing.                                                                *)
FairSpec == LoopsSpec /\ \A c \in Subscriber : WF_nodeVars(Sync(c))

-----------------------------------------------------------------------------
(* The signal loop waits at forward and holds the mutex, for which the pool*)
(* loop, the only reader of forward, waits.                                *)
Embrace == loop = "forward" /\ lock = "loop" /\ pooling = "lock"

(* The node stops only where the code makes it stop: on an error of the    *)
(* provider connection that it reports, on a failed dial, in the embrace of*)
(* signal loop and pool loop, or by a panic, that of a failed handshake or *)
(* of an action array that is read before it is there.  Everywhere else one*)
(* of its own goroutines can go on.                                        *)
StopsOnlyThere ==
  \/ Embrace
  \/ loop \in {"ended", "unreported", "panicked"}
  \/ ENABLED (Listen \/ Loop \/ Pool)

(* The embrace is for ever: no message of the provider, no subscriber that *)
(* comes, breaks or is served gets the two loops out of it, but only a     *)
(* panic of the whole process.                                             *)
EmbraceForever == [][Embrace => Embrace' \/ ~Alive']_nodeVars

(* What each goroutine needs for its next step. *)
SignalLoopGoes ==
  \/ loop = "connect"
  \/ loop = "receive" /\ pending # << >>
  \/ loop = "handle" /\ signal.kind \in {"error", "action", "array", "unfilled"}
  \/ loop = "handle" /\ signal.kind = "new" /\ pooling = "select"
  \/ loop = "handle" /\ signal.kind \in {"seal", "commit"} /\ lock = "free"
  \/ loop = "locking" /\ lock = "free"
  \/ loop = "forward" /\ pooling = "select"

PoolLoopGoes == pooling = "lock" /\ lock = "free"

ListenerGoes == link = "up" /\ pending = << >> /\ loop = "receive"

(* StopsOnlyThere in terms of the mutex and the channels: short of the     *)
(* stops one of the node's own goroutines has what it waits for.           *)
WaitsOnlyThere ==
  \/ Embrace
  \/ loop \in {"ended", "unreported", "panicked"}
  \/ SignalLoopGoes \/ PoolLoopGoes \/ ListenerGoes

(* Subscribers the pool loop has served and whose connection works. *)
Served == {c \in pool \ dead : stage[c] \in {"syncing", "ready"}}

(* The blocks of a snapshot, two messages each, but for those already sent.*)
Unsent(items) ==
  [n \in 1 .. 2 * Len(items) |->
     HeadMessages(items[(n + 1) \div 2])[IF n % 2 = 1 THEN 1 ELSE 2]]

StillSent(items) ==
  Unsent(IF items # << >> /\ Head(items).next # "head" THEN Tail(items) ELSE items)

(* All that c has been sent or will be sent, as things are: its snapshot,  *)
(* what is kept for it and what the signal loop is about to broadcast.     *)
Promised(c) ==
  (stream[c] \o StillSent(snapshot[c])) \o
    (cache[c] \o (IF loop = "forward" THEN <<out>> ELSE << >>))

(* The goroutine of Sync reads blocks of the chain after the pool loop has *)
(* given the mutex back, while the signal loop goes on to seal, commit and *)
(* append.  The epoch and the actions of a block are the ones of its item, *)
(* however late it comes to them.                                          *)
SnapshotsCurrent ==
  \A c \in Subscriber : \A n \in DOMAIN snapshot[c] :
    LET item == snapshot[c][n] IN
    item.block # 0 =>
      /\ item.block \in DOMAIN recentBlocks
      /\ recentBlocks[item.block].Epoch = item.epoch
      /\ recentBlocks[item.block].Actions = item.actions

News(s) == {n \in DOMAIN s : s[n].type = "new"}

(* Positions of s whose message belongs to the block of epoch e for a      *)
(* receiver that takes the last new block as the current one.              *)
Within(s, e) ==
  {n \in DOMAIN s : \E m \in News(s) : /\ m <= n /\ s[m].epoch = e
                                       /\ \A k \in News(s) : k <= m \/ n < k}

Holds(m) == IF m.from = "snapshot" THEN Range(m.actions)
                                   ELSE {Transform[i] : i \in Range(m.actions)}

ReceivedActions(s, e) ==
  UNION {Holds(s[n]) : n \in {k \in Within(s, e) : s[k].type \in {"action", "actions"}}}

ChainBlocks == Range(recentBlocks) \cup (IF live = NoBlock THEN {} ELSE {live})

(* A subscriber that attributes each action to the last new block holds,   *)
(* for every block after its sync epoch, exactly the actions of the block: *)
(* the switch from snapshot to broadcasts neither loses an action nor moves*)
(* one to another block, although Validate runs without the mutex.         *)
StreamFaithful ==
  \A c \in Served, b \in ChainBlocks :
    b.Epoch > since[c] => ReceivedActions(Promised(c), b.Epoch) = Range(b.Actions)

(* Every commit after the sync epoch reaches the subscriber with the hashes*)
(* that the block holds: a commit that happens while the snapshot is sent  *)
(* is in the snapshot or among the broadcasts.                             *)
CommitKnown ==
  \A c \in Served, i \in DOMAIN recentBlocks :
    LET b == recentBlocks[i]
    IN  b.Epoch > since[c] /\ b.Status = StatusCommit =>
          \/ \E m \in Range(Promised(c)) :
               m.type = "commit" /\ m.epoch = b.Epoch /\ m.invalidated = b.Invalidated
          \/ \E item \in Range(snapshot[c]) : item.block = i

(* New blocks reach a subscriber once, in order and without gaps, across   *)
(* the switch from snapshot to broadcasts: this is what the mutex that is  *)
(* held while a message is forwarded is for.                               *)
NewBlocksInOrder ==
  \A c \in Served :
    LET all == Promised(c)
    IN  \A n, m \in News(all) :
          m < n /\ (\A k \in News(all) : k <= m \/ n <= k) => all[n].epoch = all[m].epoch + 1

(* Every signal is dealt with, whatever the goroutines of Sync do: the     *)
(* signal loop always comes back to its channel, unless it ends, panics,   *)
(* was never connected or gets into the embrace.                           *)
SignalServed == []<>(loop \in {"receive", "ended", "unreported", "panicked"} \/ Embrace)

(* "connection pool loop: receive new connections, drop dead and           *)
(* broadcast": a sync request that the loop has taken is served, in a      *)
(* process that does not panic.                                            *)
RequestServed == Alive /\ pooling = "lock" ~> pooling = "select" \/ ~Alive
=============================================================================
