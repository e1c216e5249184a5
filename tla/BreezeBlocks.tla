---------------------------- MODULE BreezeBlocks ----------------------------
(***************************************************************************)
(* The block store of blocks/: NewBlockListener follows a breeze node and  *)
(* gives its messages to BlockStore, which keeps the committed blocks;     *)
(* ExecuteQuery reads actions of stored blocks while blocks are stored.    *)
(*                                                                         *)
(* External: the node opens epochs one after the other, puts actions into  *)
(* the newest block until it seals it, seals blocks that are open and      *)
(* commits blocks that are sealed, in any order of epochs; it may repeat   *)
(* that, and blocks that it closed before may come as one message.  Its    *)
(* messages are well-formed and in order: sending, reading and handling one*)
(* is a step.                                                              *)
(* The byte store keeps the records that are appended; what is read past   *)
(* its end is zero.  An offset is the number of records before it.         *)
(***************************************************************************)
EXTENDS Integers, Sequences, FiniteSets

CONSTANTS
  Action,      \* actions
  Filtered,    \* those that FilterFunc takes
  MaxEpoch,    \* bound: epochs of the node
  MaxActions,  \* bound: actions per block
  NoBuilder,   \* the nil *BlockBuilder
  Queries      \* bound: queries

(* QueryBlock of blocks/job.go.  One without Actions stands for a nil      *)
(* *QueryBlock too: ExecuteQuery panics at either.                         *)
QueryBlock == [Epoch : Nat, Actions : Seq(Nat)]

ASSUME BreezeAssumption ==
  /\ Filtered \subseteq Action /\ MaxEpoch \in Nat /\ MaxActions \in Nat
  /\ Queries \subseteq Seq(QueryBlock)

VARIABLES
  node,      \* external: status and actions of the blocks of the node
  listener,  \* "running", "ended" or "panicked" (then the whole process)
  Storage,   \* records in the byte store
  Blocks,    \* offset of each block
  Current,   \* the block that actions go to
  Unselaed,  \* blocks before it that wait for their seal
  Sealed,    \* blocks that wait for their commit
  appending, \* blocks whose index is there and whose bytes are not
  query,     \* QueryBlocks that the query under way still has to read
  asked,     \* the query as it was given
  stored,    \* history: number of blocks whose bytes were there when it began
  answer,    \* what it has sent for each of the QueryBlocks that it has read
  outcome    \* "none", "running", or what it has put on finalize: "nil", "error"

storeVars == <<Storage, Blocks, Current, Unselaed, Sealed, appending>>
queryVars == <<query, asked, stored, answer, outcome>>
breezeVars == <<node, listener, storeVars, queryVars>>

Epochs == 1 .. MaxEpoch
Block == [epoch : Epochs, actions : Seq(Action)]

ASSUME NoBuilderAssumption == NoBuilder \notin Block

Fresh(e) == [epoch |-> e, actions |-> << >>]

BreezeTypeOK ==
  /\ node \in [Epochs -> [status : {"none", "open", "sealed", "committed"}, actions : Seq(Action)]]
  /\ listener \in {"running", "ended", "panicked"}
  /\ Storage \in Seq(Block)
  /\ Blocks \in Seq(0 .. MaxEpoch - 1)
  /\ Current \in Block \cup {NoBuilder}
  /\ Unselaed \in Seq(Block) /\ Sealed \in Seq(Block)
  /\ appending \in Seq(Block) /\ Len(appending) <= 1
  /\ answer \in Seq(Seq(Filtered))
  /\ outcome \in {"none", "running", "nil", "error"}

(* NewBlockListener; when it cannot dial, the error goes to finalize and   *)
(* nobody follows the node.                                                *)
BreezeInit ==
  /\ node = [e \in Epochs |-> [status |-> "none", actions |-> << >>]]
  /\ listener \in {"running", "ended"}
  /\ Storage = << >> /\ Blocks = << >>
  /\ Current = NoBuilder /\ Unselaed = << >> /\ Sealed = << >>
  /\ appending = << >>
  /\ query = << >> /\ asked = << >> /\ stored = 0 /\ answer = << >>
  /\ outcome = "none"

-----------------------------------------------------------------------------
(* The node. *)
Newest == Cardinality({e \in Epochs : node[e].status # "none"})

NodeSets(e, status) == node' = [node EXCEPT ![e].status = status]

Panic == listener' = "panicked" /\ UNCHANGED storeVars

(* The listener reads the next message once the last one is dealt with. *)
Reading == listener = "running" /\ appending = << >>

Without(s, n) == SubSeq(s, 1, n - 1) \o SubSeq(s, n + 1, Len(s))

(* The first block of epoch e in s. *)
First(s, e, n) ==
  n \in DOMAIN s /\ s[n].epoch = e /\ \A m \in 1 .. n - 1 : s[m].epoch # e

New(e) ==
  /\ Unselaed' = IF Current = NoBuilder THEN Unselaed ELSE Append(Unselaed, Current)
  /\ Current' = Fresh(e)
  /\ UNCHANGED <<Storage, Blocks, Sealed, appending, listener>>

ReadNewBlock ==
  /\ Reading /\ Newest < MaxEpoch
  /\ NodeSets(Newest + 1, "open")
  /\ New(Newest + 1)
  /\ UNCHANGED queryVars

(* Action: Current is used without a test for nil. *)
ReadAction(a) ==
  /\ Reading /\ Newest > 0 /\ node[Newest].status = "open"
  /\ Len(node[Newest].actions) < MaxActions
  /\ node' = [node EXCEPT ![Newest].actions = Append(@, a)]
  /\ IF Current = NoBuilder
       THEN Panic
       ELSE /\ Current' = [Current EXCEPT !.actions = Append(@, a)]
            /\ UNCHANGED <<listener, Storage, Blocks, Unselaed, Sealed, appending>>
  /\ UNCHANGED queryVars

(* Fault: a seal is taken to be that of the current block. *)
SealCurrent(e) ==
  IF Current = NoBuilder THEN Panic
  ELSE /\ Sealed' = Append(Sealed, [Current EXCEPT !.epoch = e])
       /\ Current' = NoBuilder
       /\ UNCHANGED <<listener, Storage, Blocks, Unselaed, appending>>

(* Seal: Current is used without a test for nil, so a seal of an earlier   *)
(* block panics once the current block has been sealed.                    *)
Seal(e) ==
  IF Current = NoBuilder THEN Panic
  ELSE /\ \/ /\ Current.epoch = e
             /\ Sealed' = Append(Sealed, Current)
             /\ Current' = NoBuilder
             /\ UNCHANGED Unselaed
          \/ /\ Current.epoch # e
             /\ \E n \in DOMAIN Unselaed :
                  /\ First(Unselaed, e, n)
                  /\ Sealed' = Append(Sealed, Unselaed[n])
                  /\ Unselaed' = Without(Unselaed, n)
             /\ UNCHANGED Current
          \/ /\ Current.epoch # e /\ \A n \in DOMAIN Unselaed : Unselaed[n].epoch # e
             /\ UNCHANGED <<Current, Unselaed, Sealed>>
       /\ UNCHANGED <<listener, Storage, Blocks, appending>>

ReadSeal(e) ==
  /\ Reading /\ node[e].status # "none"
  /\ IF node[e].status = "open" THEN NodeSets(e, "sealed") ELSE UNCHANGED node
  /\ Seal(e)
  /\ UNCHANGED queryVars

(* AppendBlock: the offset of the block, then its bytes. *)
AppendBlock(block) ==
  /\ Blocks' = Append(Blocks, Len(Storage))
  /\ appending' = <<block>>

(* Fault: the committed block stays among the sealed ones. *)
CommitKeeps(e) ==
  /\ \/ /\ \E n \in DOMAIN Sealed : First(Sealed, e, n) /\ AppendBlock(Sealed[n])
        /\ UNCHANGED Sealed
     \/ /\ \A n \in DOMAIN Sealed : Sealed[n].epoch # e
        /\ UNCHANGED <<Sealed, Blocks, appending>>
  /\ UNCHANGED <<listener, Storage, Current, Unselaed>>

Commit(e) ==
  /\ \/ \E n \in DOMAIN Sealed :
          /\ First(Sealed, e, n)
          /\ AppendBlock(Sealed[n])
          /\ Sealed' = Without(Sealed, n)
     \/ /\ \A n \in DOMAIN Sealed : Sealed[n].epoch # e
        /\ UNCHANGED <<Sealed, Blocks, appending>>
  /\ UNCHANGED <<listener, Storage, Current, Unselaed>>

ReadCommit(e) ==
  /\ Reading /\ node[e].status \in {"sealed", "committed"}
  /\ NodeSets(e, "committed")
  /\ Commit(e)
  /\ UNCHANGED queryVars

(* A block as one message.  Bound: it has one action or none. *)
Whole(e, status, actions) == node' = [node EXCEPT ![e] = [status |-> status, actions |-> actions]]

ReadWhole(actions) ==
  LET e == Newest + 1 IN
  /\ Reading /\ e \in Epochs /\ Len(actions) <= MaxActions
  /\ \/ /\ Whole(e, "committed", actions)
        /\ AppendBlock([epoch |-> e, actions |-> actions])
        /\ UNCHANGED Sealed
     \/ /\ Whole(e, "sealed", actions)
        /\ Sealed' = Append(Sealed, [epoch |-> e, actions |-> actions])
        /\ UNCHANGED <<Blocks, appending>>
  /\ UNCHANGED <<listener, Storage, Current, Unselaed, queryVars>>

WriteBytes ==
  /\ listener = "running" /\ appending # << >>
  /\ Storage' = Storage \o appending
  /\ appending' = << >>
  /\ UNCHANGED <<node, listener, Blocks, Current, Unselaed, Sealed, queryVars>>

(* The connection breaks: the error goes to finalize. *)
ReadError ==
  /\ Reading
  /\ listener' = "ended"
  /\ UNCHANGED <<node, storeVars, queryVars>>

-----------------------------------------------------------------------------
(* GetBlock: the parameter is called epoch and is a place in Blocks. *)
GetBlock(place) ==
  IF place < Len(Blocks) /\ Blocks[place + 1] < Len(Storage)
    THEN Storage[Blocks[place + 1] + 1].actions
    ELSE << >>

(* The loop of ExecuteQuery over the actions of a block: after n of them,  *)
(* how many of the wanted ones were found and what was sent.               *)
Begun == [processed |-> 0, sent |-> << >>]

Found(block, n, before) ==
  [processed |-> before.processed + 1,
   sent |-> IF block[n] \in Filtered THEN Append(before.sent, block[n]) ELSE before.sent]

(* Fault: an action that the filter does not take is not counted. *)
OneActionTaken(block, wanted, n, before) ==
  IF before.processed = Len(wanted) \/ n - 1 # wanted[before.processed + 1] \/ block[n] \notin Filtered
    THEN before
    ELSE Found(block, n, before)

OneAction(block, wanted, n, before) ==
  IF before.processed = Len(wanted) \/ n - 1 # wanted[before.processed + 1]
    THEN before
    ELSE Found(block, n, before)

Loop(block, wanted) ==
  LET loop[n \in 0 .. Len(block)] ==
        IF n = 0 THEN Begun ELSE OneAction(block, wanted, n, loop[n - 1])
  IN  loop

Matches(block, wanted) == Loop(block, wanted)[Len(block)].sent

(* ExecuteQuery, with FilterProtocol (without it nothing is sent).  It runs*)
(* in a goroutine of its own and reads one block after the other.          *)
StartQuery(q) ==
  /\ listener # "panicked" /\ outcome # "running"
  /\ query' = q /\ asked' = q
  /\ stored' = Len(Storage)
  /\ answer' = << >>
  /\ outcome' = "running"
  /\ UNCHANGED <<node, listener, storeVars>>

Querying == listener # "panicked" /\ outcome = "running"

(* The next block: all that it matches is sent, or the n-th Send fails,    *)
(* which ends the query.                                                   *)
ReadBlock ==
  /\ Querying /\ query # << >> /\ Head(query).Actions # << >>
  /\ LET found == Matches(GetBlock(Head(query).Epoch), Head(query).Actions) IN
     \/ answer' = Append(answer, found) /\ UNCHANGED outcome
     \/ \E n \in 1 .. Len(found) :
          answer' = Append(answer, SubSeq(found, 1, n - 1)) /\ outcome' = "error"
  /\ query' = Tail(query)
  /\ UNCHANGED <<node, listener, storeVars, asked, stored>>

(* Actions[0] of a QueryBlock that has none, or a nil QueryBlock. *)
QueryPanics ==
  /\ Querying /\ query # << >> /\ Head(query).Actions = << >>
  /\ listener' = "panicked"
  /\ UNCHANGED <<node, storeVars, queryVars>>

EndQuery ==
  /\ Querying /\ query = << >>
  /\ outcome' = "nil"
  /\ UNCHANGED <<node, listener, storeVars, query, asked, stored, answer>>

Query == (\E q \in Queries : StartQuery(q)) \/ ReadBlock \/ QueryPanics \/ EndQuery

Listen ==
  \/ ReadNewBlock
  \/ \E a \in Action : ReadAction(a)
  \/ \E e \in Epochs : ReadSeal(e) \/ ReadCommit(e)
  \/ ReadWhole(<< >>) \/ \E a \in Action : ReadWhole(<<a>>)
  \/ WriteBytes
  \/ ReadError

BreezeNext == Listen \/ Query

BreezeSpec == BreezeInit /\ [][BreezeNext]_breezeVars

-----------------------------------------------------------------------------
CurrentBlocks == IF Current = NoBuilder THEN << >> ELSE <<Current>>

(* How often s holds the block of epoch e as the node has it. *)
Copies(s, e) ==
  Cardinality({n \in DOMAIN s : s[n] = [epoch |-> e, actions |-> node[e].actions]})

(* Every block of the node is kept once, with all its actions and no       *)
(* others, where its status says: among the blocks that wait for their     *)
(* seal, for their commit, or in the byte store, and nothing else is kept  *)
(* there.  Seals and commits come in any order.                            *)
EveryBlockOnce ==
  listener # "panicked" =>
    LET places == [open |-> Unselaed \o CurrentBlocks, sealed |-> Sealed,
                   committed |-> Storage \o appending]
    IN  \A place \in DOMAIN places :
          LET at == {e \in Epochs : node[e].status = place} IN
          /\ \A e \in at : Copies(places[place], e) = 1
          /\ Len(places[place]) = Cardinality(at)

(* Sequences one after the other: Joined(w)[n] is made of the first n of w. *)
Joined(w) ==
  LET upTo[n \in 0 .. Len(w)] == IF n = 0 THEN << >> ELSE upTo[n - 1] \o w[n] IN upTo

(* The wanted actions of a block, where there is one and the filter takes  *)
(* it.                                                                     *)
Hits(block, wanted) ==
  [k \in 1 .. Len(wanted) |->
     IF wanted[k] < Len(block) /\ block[wanted[k] + 1] \in Filtered
       THEN <<block[wanted[k] + 1]>> ELSE << >>]

WantedOf(block, wanted) == Joined(Hits(block, wanted))[Len(wanted)]

(* The actions that a QueryBlock wants of a record. *)
WantedAt(i, b) == WantedOf(Storage[i].actions, b.Actions)

Increasing(wanted) == \A i, j \in DOMAIN wanted : i < j => wanted[i] < wanted[j]

Prefix(s, t) == Len(s) <= Len(t) /\ \A i \in 1 .. Len(s) : s[i] = t[i]

(* For each QueryBlock, whose Epoch is the place of a block in the store   *)
(* (GetBlock) and whose Actions "must be sorted", a query sends in order   *)
(* the wanted actions that pass the filter, and no others, although blocks *)
(* are stored while it runs.  Of a block that was not stored when the query*)
(* began it sends all of them or none.  Only the query whose Send failed   *)
(* stops before, and says so.                                              *)
QueryExact ==
  /\ outcome = "nil" => Len(answer) = Len(asked)
  /\ \A n \in DOMAIN answer :
       LET b == asked[n]
           cut == outcome = "error" /\ n = Len(answer)
       IN  Increasing(b.Actions) =>
             \/ b.Epoch >= stored /\ answer[n] = << >>
             \/ /\ b.Epoch < Len(Storage)
                /\ Prefix(answer[n], WantedAt(b.Epoch + 1, b))
                /\ cut \/ answer[n] = WantedAt(b.Epoch + 1, b)

(* "GetBlock(epoch int)", "Epoch uint64": a query that has ended well has  *)
(* answered for the blocks of the epochs that it names, those that were    *)
(* stored when it began.                                                   *)
QueryOfEpoch ==
  outcome = "nil" =>
    \A n \in DOMAIN asked, i \in 1 .. stored :
      Storage[i].epoch = asked[n].Epoch /\ Increasing(asked[n].Actions) =>
        answer[n] = WantedAt(i, asked[n])
=============================================================================
