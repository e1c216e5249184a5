--------------------------- MODULE SingleAuthority ---------------------------
(***************************************************************************)
(* NewSingleAuthority of topos/poa.go: clients hand actions to the manager *)
(* goroutine, which alone touches the protocol state; the pool goroutine   *)
(* keeps the recent blocks and broadcasts; each new subscriber is brought  *)
(* up to date by a goroutine of its own.  All channels are unbuffered.     *)
(*                                                                         *)
(* External, modelled from their use: the state answers Action either way, *)
(* and NextBlock may fail; PromoteConnection returns nil when it fails; a  *)
(* CachedConnection keeps what is broadcast until Ready and sends          *)
(* SendDirect at once.  Nothing reads incomingConnections: a client has at *)
(* most one connection at a time.                                          *)
(***************************************************************************)
EXTENDS RecentBlocks, SequencesExt

CONSTANTS
  Client,      \* who may send actions
  Subscriber,  \* who may follow the blocks
  FirstEpoch,  \* of the state that NewSingleAuthority is given
  MaxBlock,    \* bound: epochs
  MaxActions   \* bound: actions

ASSUME AuthorityAssumption ==
  FirstEpoch \in Nat /\ MaxBlock \in Nat /\ MaxActions \in Nat

VARIABLES
  authority,  \* "off", "failed" (to listen), "on", or "crashed" by a panic
  stateEpoch, \* Epoch() of the state
  failures,   \* history: how often NextBlock of the state failed
  client,     \* progress of each client's goroutine
  incomingConnections,
  submitted,  \* number of actions so far
  manager,    \* manager: at its "select" or sending "refused" or "newBlock"
  handed,     \* epoch that the manager sends
  pooling,    \* pool goroutine: at its "select" or about to send a "header"
  header,     \* epoch of that header
  pool,       \* connections in the pool
  stage,      \* progress of each subscriber
  since,      \* epoch of its sync request
  shift,      \* local variable of its Sync
  cache,      \* broadcasts kept for it
  stream      \* messages sent to it

stateVars == <<authority, stateEpoch, failures>>
clientVars == <<client, incomingConnections, submitted>>
managerVars == <<manager, handed>>
poolVars == <<pooling, header, pool>>
subscriberVars == <<stage, since, shift, cache, stream>>
authorityVars ==
  <<stateVars, clientVars, managerVars, recentVars, poolVars, subscriberVars>>

(* epoch of an action: that of the state when it took the action. *)
Message == [type : {"block", "action"}, from : {"snapshot", "broadcast"}, epoch : Nat]

Msg(type, from, e) == [type |-> type, from |-> from, epoch |-> e]

AuthorityTypeOK ==
  /\ authority \in {"off", "failed", "on", "crashed"}
  /\ stateEpoch \in Nat /\ failures \in Nat
  /\ client \in [Client -> {"absent", "reading", "sending", "ending"}]
  /\ incomingConnections = {c \in Client : client[c] # "absent"}
  /\ submitted \in 0 .. MaxActions
  /\ manager \in {"select", "refused", "newBlock"} /\ handed \in Nat
  /\ RecentTypeOK
  /\ pooling \in {"select", "header"} /\ header \in Nat
  /\ pool \subseteq Subscriber
  /\ stage \in [Subscriber -> {"absent", "requesting", "started", "syncing",
                               "ready", "refused", "broken"}]
  /\ since \in [Subscriber -> Nat] /\ shift \in [Subscriber -> Int]
  /\ cache \in [Subscriber -> Seq(Message)]
  /\ stream \in [Subscriber -> Seq(Message)]

AuthorityInit ==
  /\ authority = "off"
  /\ stateEpoch = FirstEpoch /\ failures = 0
  /\ client = [c \in Client |-> "absent"]
  /\ incomingConnections = {} /\ submitted = 0
  /\ manager = "select" /\ handed = 0
  /\ NewRecentBlocks(FirstEpoch)
  /\ pooling = "select" /\ header = 0 /\ pool = {}
  /\ stage = [s \in Subscriber |-> "absent"]
  /\ since = [s \in Subscriber |-> 0]
  /\ shift = [s \in Subscriber |-> 0]
  /\ cache = [s \in Subscriber |-> << >>]
  /\ stream = [s \in Subscriber |-> << >>]

(* Both listeners or an error on the channel finalize. *)
StartAuthority ==
  /\ authority = "off"
  /\ authority' \in {"on", "failed"}
  /\ UNCHANGED <<stateEpoch, failures, clientVars, managerVars, recentVars, poolVars,
                 subscriberVars>>

(* A connection that fails its handshake is handed on as nil: the manager  *)
(* dereferences it, and WaitForOutgoingSyncRequest reads from it.          *)
Panic == authority' = "crashed" /\ UNCHANGED <<stateEpoch, failures>>

HandshakeFails ==
  /\ authority = "on"
  /\ Panic
  /\ UNCHANGED <<clientVars, managerVars, recentVars, poolVars, subscriberVars>>

-----------------------------------------------------------------------------
(* Clients: WaitForProtocolActions. *)
ClientStep(c, from, to) ==
  /\ authority = "on" /\ client[c] = from
  /\ client' = [client EXCEPT ![c] = to]
  /\ UNCHANGED <<stateEpoch, failures, authority, recentVars, poolVars, subscriberVars>>

ReadSubmit(c) ==
  /\ ClientStep(c, "reading", "sending")
  /\ submitted < MaxActions /\ submitted' = submitted + 1
  /\ UNCHANGED <<incomingConnections, managerVars>>

(* An error, or a message that is no action. *)
ReadInvalid(c) ==
  /\ ClientStep(c, "reading", "ending")
  /\ UNCHANGED <<incomingConnections, submitted, managerVars>>

-----------------------------------------------------------------------------
(* The manager. *)
NewIncoming(c) ==
  /\ manager = "select"
  /\ ClientStep(c, "absent", "reading")
  /\ incomingConnections' = incomingConnections \cup {c}
  /\ UNCHANGED <<submitted, managerVars>>

EndIncoming(c) ==
  /\ manager = "select"
  /\ ClientStep(c, "ending", "absent")
  /\ incomingConnections' = incomingConnections \ {c}
  /\ UNCHANGED <<submitted, managerVars>>

(* Only an action that the state refuses is passed on. *)
TakeAction(c) ==
  /\ manager = "select"
  /\ ClientStep(c, "sending", "reading")
  /\ \/ UNCHANGED managerVars
     \/ manager' = "refused" /\ handed' = stateEpoch
  /\ UNCHANGED <<incomingConnections, submitted>>

(* The error of NextBlock is not looked at. Bound: it fails once. *)
Tick ==
  /\ authority = "on" /\ manager = "select" /\ stateEpoch < MaxBlock
  /\ \/ stateEpoch' = stateEpoch + 1 /\ UNCHANGED failures
     \/ failures = 0 /\ failures' = 1 /\ UNCHANGED stateEpoch
  /\ manager' = "newBlock" /\ handed' = stateEpoch + 1
  /\ UNCHANGED <<authority, clientVars, recentVars, poolVars, subscriberVars>>

-----------------------------------------------------------------------------
(* The pool goroutine. *)
dead == {s \in Subscriber : stage[s] \in {"refused", "broken"}}

(* Fault: only connections that are up to date are served. *)
BroadcastReady(m, to) ==
  /\ stream' = [s \in Subscriber |->
       IF s \in to \ dead /\ stage[s] = "ready" THEN Append(stream[s], m) ELSE stream[s]]
  /\ UNCHANGED cache

Broadcast(m, to) ==
  /\ stream' = [s \in Subscriber |->
       IF s \in to \ dead /\ stage[s] = "ready" THEN Append(stream[s], m) ELSE stream[s]]
  /\ cache' = [s \in Subscriber |->
       IF s \in to \ dead /\ stage[s] # "ready" THEN Append(cache[s], m) ELSE cache[s]]

(* Fault: the header is broadcast by a goroutine of its own. *)
Receives(from) == authority = "on" /\ manager = from

(* The pool goroutine receives from the manager, which goes on at once. *)
PoolReceives(from) == authority = "on" /\ pooling = "select" /\ manager = from

CloseBlock ==
  /\ PoolReceives("newBlock")
  /\ NextRecent
  /\ pooling' = "header" /\ header' = handed
  /\ manager' = "select" /\ handed' = 0
  /\ UNCHANGED <<stateVars, clientVars, pool, subscriberVars>>

BroadcastHeader ==
  /\ authority = "on" /\ pooling = "header"
  /\ pool' = pool \ dead
  /\ Broadcast(Msg("block", "broadcast", header), pool')
  /\ pooling' = "select" /\ header' = 0
  /\ UNCHANGED <<stateVars, clientVars, managerVars, recentVars, stage, since, shift>>

BroadcastAction ==
  /\ PoolReceives("refused")
  /\ Broadcast(Msg("action", "broadcast", handed), pool)
  /\ manager' = "select" /\ handed' = 0
  /\ UNCHANGED <<stateVars, clientVars, recentVars, poolVars, stage, since, shift>>

NewOutgoing(s) ==
  /\ authority = "on" /\ pooling = "select" /\ stage[s] = "requesting"
  /\ pool' = pool \cup {s}
  /\ stage' = [stage EXCEPT ![s] = "started"]
  /\ UNCHANGED <<stateVars, clientVars, managerVars, recentVars, pooling, header,
                 since, shift, cache, stream>>

-----------------------------------------------------------------------------
(* Subscribers: WaitForOutgoingSyncRequest and the goroutine of Sync. *)
RequestSync(s, e) ==
  /\ authority = "on" /\ stage[s] = "absent"
  /\ stage' = [stage EXCEPT ![s] = "requesting"]
  /\ since' = [since EXCEPT ![s] = e]
  /\ UNCHANGED <<stateVars, clientVars, managerVars, recentVars, poolVars, shift, cache, stream>>

(* Fault: with nothing to send, Sync returns. *)
AfterCopyReturns(n) ==
  IF n < 1 THEN "refused" ELSE IF SyncEpochs(n) = << >> THEN "started" ELSE "syncing"

(* A request from before the blocks that are kept is refused. *)
AfterCopy(n) == IF n < 1 THEN "refused" ELSE "syncing"

Sync(s) ==
  /\ authority = "on" /\ stage[s] = "started"
  /\ \/ /\ Empty
        /\ Panic
        /\ UNCHANGED subscriberVars
     \/ /\ ~Empty
        /\ LET n == ShiftOf(since[s])
           IN  /\ stage' = [stage EXCEPT ![s] = AfterCopy(n)]
               /\ shift' = [shift EXCEPT ![s] = n]
               /\ stream' = [stream EXCEPT ![s] =
                    [i \in DOMAIN SyncEpochs(n) |->
                       Msg("block", "snapshot", SyncEpochs(n)[i])]]
        /\ UNCHANGED <<stateVars, since, cache>>
  /\ UNCHANGED <<clientVars, managerVars, recentVars, poolVars>>

Ready(s) ==
  /\ authority = "on" /\ stage[s] = "syncing"
  /\ stage' = [stage EXCEPT ![s] = "ready"]
  /\ stream' = [stream EXCEPT ![s] = @ \o cache[s]]
  /\ cache' = [cache EXCEPT ![s] = << >>]
  /\ UNCHANGED <<stateVars, clientVars, managerVars, recentVars, poolVars, since, shift>>

(* A connection breaks: nothing else of it is looked at. *)
Break(s) ==
  /\ authority = "on" /\ stage[s] \in {"syncing", "ready"}
  /\ stage' = [stage EXCEPT ![s] = "broken"]
  /\ stream' = [stream EXCEPT ![s] = << >>]
  /\ cache' = [cache EXCEPT ![s] = << >>]
  /\ UNCHANGED <<stateVars, clientVars, managerVars, recentVars, poolVars, since, shift>>

-----------------------------------------------------------------------------
AuthorityNext ==
  \/ StartAuthority \/ HandshakeFails
  \/ \E c \in Client : \/ NewIncoming(c) \/ EndIncoming(c) \/ TakeAction(c)
                       \/ ReadSubmit(c) \/ ReadInvalid(c)
  \/ Tick \/ CloseBlock \/ BroadcastHeader \/ BroadcastAction
  \/ \E s \in Subscriber : \/ NewOutgoing(s) \/ Sync(s) \/ Ready(s) \/ Break(s)
                           \/ \E e \in 0 .. MaxBlock : RequestSync(s, e)

AuthoritySpec == AuthorityInit /\ [][AuthorityNext]_authorityVars

(* Goroutines that can run do run, and a select does not pass over the same*)
(* ready case for ever; clients, subscribers and the ticker owe nothing.   *)
AuthorityFairness ==
  /\ WF_authorityVars(CloseBlock) /\ WF_authorityVars(BroadcastHeader)
  /\ WF_authorityVars(BroadcastAction)
  /\ \A c \in Client : SF_authorityVars(EndIncoming(c)) /\ SF_authorityVars(TakeAction(c))
  /\ \A s \in Subscriber : /\ SF_authorityVars(NewOutgoing(s))
                           /\ WF_authorityVars(Sync(s)) /\ WF_authorityVars(Ready(s))

-----------------------------------------------------------------------------
(* All that has been or will be sent to a subscriber, as things are. *)
Promised(s) ==
  stream[s] \o cache[s]
    \o (IF pooling = "header" /\ s \in pool
          THEN <<Msg("block", "broadcast", header)>> ELSE << >>)

Served == {s \in pool : stage[s] \in {"syncing", "ready"}}

(* Unless the state failed to move, a subscriber that joins while blocks   *)
(* are closed is told of every block after its epoch, none before the one  *)
(* it follows: joining the pool before the blocks are copied leaves no gap.*)
(* The shift of 1, for which Sync copies nothing, is left out.             *)
HeadersComplete ==
  failures = 0 =>
    \A s \in {t \in Served : shift[t] # 1} :
      LET told    == Promised(s)
          headers == {n \in DOMAIN told : told[n].type = "block"}
      IN  /\ \A e \in since[s] + 1 .. current : \E n \in headers : told[n].epoch = e
          /\ \A n \in headers :
               \/ told[n].epoch <= since[s] + 1 /\ \A m \in headers : n <= m
               \/ \E m \in headers : m < n /\ told[m].epoch >= told[n].epoch - 1

(* Unless the state failed to move, an action that follows the header of a *)
(* block was tried on the state of that block, although manager and pool   *)
(* goroutine close the block one after the other; only what was kept while *)
(* the copied blocks were sent may belong to an earlier one.               *)
ActionAttributed ==
  failures = 0 =>
    \A s \in Served :
      LET all == Promised(s)
      IN  \A n \in DOMAIN all, k \in DOMAIN all :
            /\ k < n /\ all[n].type = "action" /\ all[k].type = "block"
            /\ \A m \in k + 1 .. n : all[m].type = "action"
            => IF all[k].from = "broadcast" THEN all[n].epoch = all[k].epoch
                                            ELSE all[n].epoch <= all[k].epoch

(* Whoever waits for the authority, a client with an action or a subscriber*)
(* with a request, is attended to as long as the authority runs.           *)
EveryoneServed ==
  /\ \A c \in Client : client[c] = "sending" ~> (client[c] = "reading" \/ authority # "on")
  /\ \A s \in Subscriber :
       stage[s] = "requesting" ~>
         (stage[s] \in {"ready", "refused", "broken"} \/ authority # "on")
=============================================================================
