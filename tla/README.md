# Verification of freehandle/cb

TLA+ models of the social blockchain layer in this repository and of the
programs around it, the TLC runs that check them on small instances, and proofs
that TLAPS checks for every value of the parameters.

A *social protocol* runs on top of the breeze blockchain. A validator node
follows a breeze block provider, filters and validates the actions of its own
protocol, and keeps a chain of its own whose blocks are opened, sealed and
committed as the breeze blocks are. It forwards what it does to subscribers,
which rebuild the protocol's blocks, store them and serve them again. Beside it
stand a single authority, which makes blocks of its own at a fixed rhythm, a
gateway, which dresses actions and passes them to a provider, an index of
actions by hash, and a vault of keys.

## 1. Inventory

### 1.1 Components, state and operations

| component | source | state | operations | interacts with |
|---|---|---|---|---|
| social chain | `social/chain.go`, `social/interface.go` | live block, live validator, recent blocks, commit state, commit epoch | `Validate`, `NextBlock`, `SealBlock`, `Commit`, `Rollback`, `Recovery`, `Sync` | called by the validator node; calls the protocol's `Stateful`/`Blocker` |
| validator node | `social/node.go`, `social/messages.go` | signal loop, pool of connections, mutex of the chain | `LaunchNode`, `WaitForOutgoingSyncRequest` | signals in from the listener, messages out to subscribers |
| breeze block listener | `social/listener.go:120-229` | connection, one signal object per message | `BreezeBlockListener` | sends signals on an unbuffered channel |
| social protocol block listener | `social/listener.go:1-118` | blocks by epoch, current block, channel of two blocks | `SocialProtocolBlockListener` | reads the node's messages, feeds `SyncSocial` |
| social sync | `topos/sync.go` | which of two sources has ended | `SyncSocial`, `BlockSorter` | takes new blocks from the listener and old ones from `ReceiveBlocks` |
| social block store | `social/store.go` | byte stores, index of blocks, room in the last store, `Epoch` | `NewBlockStore`, `OpenBlockStore`, `AddBlock`, `GetBlock` | read by the provider |
| block provider | `topos/blockstore.go`, `social/block.go` | per client: start epoch, next epoch | `TransmitBlocks`, `ReceiveBlocks`, `NewBlockProvider`, `BlockProviderNode` | reads the store without a lock |
| breeze block store | `blocks/*.go` | current, unsealed, sealed and stored blocks | `NewBlockListener`, `New`, `Action`, `Seal`, `Commit`, `GetBlock`, `ExecuteQuery` | listener and queries are goroutines of their own |
| secure vault | `vault/vault.go`, `config/config.go:21-47,128-156` | file of salt and sealed keys, keys in memory | `NewSecureVault`, `OpenVaultFromPassword`, `GenerateNewKey`, `Close` | the file outlives the process |
| single authority | `topos/poa.go`, `topos/messages.go` | client connections, protocol state, pool of subscribers | `NewSingleAuthority`, `WaitForProtocolActions`, `WaitForOutgoingSyncRequest` | four goroutines over six channels; keeps the recent blocks |
| recent blocks | `topos/chain.go:226-305`, `topos/block.go` | last closed blocks, open block | `NewRecentBlocks`, `NextBlock`, `Sync`, `Append`, `Clone` | `Sync` in a goroutine per subscriber |
| gateway | `topos/gateway.go` | table of connections, connection to the provider | `NewGateway`, `WaitForActions` | one goroutine per client, one select |
| index | `index/index.go` | file of hash records, map from the first bytes of a hash to places | `OpenIndex`, `Add`, `NextBlock`, `Retrieve` | its positions are queries for the breeze block store |
| blockchain file, relay | `topos/chain.go:1-224`, `topos/relay.go` | file, positions of blocks, current block | `OpenFSBlockchain`, `Append`, `NextBlock`, `Block`, `Sync`, `NewRelay` | relay fills it and serves clients from it |
| index database | `index/db.go` | a chain file and an index | `NewDB` | |
| commands, configuration | `cmd/*`, `config/config.go` | none | start the others | |

External and modelled from their use only: `papirus` byte stores, the
`socket` package (signed, cached and pooled connections), `crypto`, and the
breeze node that sends blocks.

### 1.2 What is hard in this code, and what makes each part correct

* **Social chain.** Several blocks are in flight: each is validated on a state
  that its predecessors have not reached yet, and is validated again when it
  is committed. Seals and commits come in any order and may be refused, and
  `Rollback` and `Recovery` cut the chain in between. Correct means: epochs stay
  ordered, commits form a prefix, the commit state never holds two actions that
  exclude one another, the hashes reported as invalidated are exactly what was
  left out, and the state is the replay of the committed blocks.
* **Validator node.** Signal loop, pool loop and a goroutine per subscriber share
  the mutex of the chain and unbuffered channels; `Validate` runs without the
  mutex. Correct means: a subscriber that joins at any time gets every block,
  action and commit, in order, partly by snapshot and partly by broadcast; and
  nobody waits for ever.
* **Block store and provider.** The process may stop in the middle of a write;
  blocks are transmitted while others are added; two conventions for `Epoch`.
  Correct means: what was added is read back from its place for ever, and a
  client gets all blocks it asked for, whole and in order.
* **Subscriber.** Two goroutines, a channel with two places, two sources that end
  in either order. Correct means: blocks delivered are the node's, in order; the
  application is told when they end; commits do not get stuck.
* **Breeze block store.** Blocks move between four places as seals and commits
  come in any order; queries run meanwhile. Correct means: each block is in the
  place its status says, once, and a query sends what it was asked for or says that it could not.
* **Vault.** The process may stop between or inside the writes to the file.
  Correct means: a vault that opens has every key that was returned, the first key
  stays the wallet's, and one pass phrase opens the file.

* **Single authority.** The state moves in one goroutine and the recent blocks in
  another, and a third copies them for a new subscriber. Correct means: a
  subscriber that joins at any time is told of every block after its epoch and
  gets actions under the header of their block; and everyone who waits is served.
* **Gateway.** One select takes what the goroutines of all clients have read.
  Correct means: no client's actions are lost, doubled, reordered or taken for another's.
* **Index.** The file grows by records without a mark of where one starts, the
  epoch overwrites its first bytes, and the map holds four bytes of a hash.
  Correct means: what was added is found again after a restart, and nothing is found
  that was not added.

`PROJECT.json` lists the hazards line by line with the properties that cover
them. What else the code does that no property speaks of, mostly because no comment,
message or test promises anything for it:

* `topos/chain.go:237,244`: `RecentBlocks.Sync` says and sends nothing at a shift
  of exactly one; line 235 panics before the first block is closed. Both are in
  the model.
* `topos/chain.go:249`: the refusal is sent by `Send` on a connection that is not ready.
* `topos/block.go:28`: `Get` leaves out the first byte of an action; nothing calls
  `Append`, so there are no actions.
* `topos/poa.go`: an action is broadcast when the state refuses it and dropped when
  the state takes it (82); a connection that was not promoted is handed on as nil
  (67, 126), which ends the process; `ValidateOutgoing` is never read (122); the
  error of the state's `NextBlock` is not looked at (87). All but the third are in the model.
* `topos/gateway.go:118`: no connection is ever entered as live and no action is
  empty, so the gateway never shuts down. When the send fails, the action is
  logged and lost (in the model).
* `topos/blockstore.go`: `BlockProviderNode` looks blocks up in a map that
  nothing is entered into (68); failed dials are used (36); `NewBlockProvider`
  returns nil for its channel (136).
* `topos/sync.go`: `BlockSorter` never advances (54); new blocks are dropped (91, in
  the model); the listener for new blocks is given the address of the provider of
  old ones (75): see 2.3.
* `social/block.go`: the parser goes on with an action in place of its input (89) and
  slices it at a position in the input (96), which panics in most cases; it rejects
  good signatures (103). The model has the panic and no block that is passed on.
* `social/node.go`: the actions of an array are never validated (59); an array
  that is read before the listener has written it panics (58), and so does the read
  from nil after a failed handshake (91, 128). All are in the model, and
  `StopsOnlyThere` names the two panics without excluding them.
* `blocks/job.go`: without a filter nothing is sent (36); a `QueryBlock` without
  actions, or a nil one, panics (28, 30; in the model).
* `social/store.go:62`: `Epoch` is the number of blocks in a store that was made and the
  last place in one that was opened, 2^64-1 if that was empty. `TransmitBlocks` announces it as
  the last epoch there is, and does not come to an end in the last case. All is in the
  model; `TransferFaithful` and `TransmissionEnds` leave the store that was opened empty out.
* `index/index.go`: of several actions of one epoch `Retrieve` keeps the last (142-146),
  although `Positions` are "block and sequences" (102); the result of `Retrieve` starts with as many nil pointers as it has
  answers (149), which `ExecuteQuery` would dereference; the sign bit of a sequence
  number survives its conversion (141). All are in the model. Of a hash one
  of whose records was cut short (92), and of a file that does not begin with an epoch
  (32), no property says that anything is found.
* `vault/vault.go`: a record that was cut short (50) keeps the file from opening, and
  with it all keys are lost; a file that was cut short after its salt (77) opens with any
  pass phrase, has the zero key for the secret of the wallet and takes its next key
  for it. Both are in the model, outside what `KeysKept`, `WalletKey` and
  `Reopenable` speak of.

## 2. Modules

| module | models | composed with |
|---|---|---|
| `SocialChain` | all methods of `SocialBlockChain` but `Sync` | |
| `CommitLog` | abstract: the log of committed blocks that the chain promises | |
| `SocialChainLog` | refinement mapping from the chain to `CommitLog` | `SocialChain`, `CommitLog` |
| `ValidatorNode` | `LaunchNode`, `BreezeBlockListener`, `WaitForOutgoingSyncRequest`, `Sync` | `SocialChain` |
| `SocialSubscriber` | `SocialProtocolBlockListener` and the loop of `SyncSocial` | `SocialChain` |
| `SocialStore` | `BlockStore` over byte stores, with crashes | |
| `BlockTransfer` | `TransmitBlocks`, `ReceiveBlocks` | `SocialStore` |
| `BreezeBlocks` | `blocks.BlockStore`, `NewBlockListener`, `ExecuteQuery` | |
| `SecureVault` | `SecureVault` and the callers that make or open it | |
| `RecentBlocks` | `NewRecentBlocks`, `NextBlock` and `Sync` of `RecentBlocks` | |
| `SingleAuthority` | `NewSingleAuthority` with its clients and subscribers | `RecentBlocks` |
| `Gateway` | `NewGateway`, `WaitForActions` | |
| `HashIndex` | `Index` and its file, with crashes | |
| `MCFiles` | instance of the three components that keep data in a file or a byte store | `SecureVault`, `HashIndex`, `BreezeBlocks` |
| `MCAuthority` | instance of the two programs that take actions from clients | `SingleAuthority`, `Gateway` |
| other `MC*` | constants and views for TLC | one of the above |

| module of theorems | about |
|---|---|
| `RecursionLemmas` | induction up to a bound, functions defined from their value one before |
| `SocialChainProofs` | `ChainSpec`, `NodeSpec`, and that the chain implements `CommitLog` |
| `NodeStreamProofs` | `ValidatorSpec`: the chain in the node, and what subscribers are sent |
| `BlockTransferProofs` | `TransferSpec`: the store over crashes, and its transmissions |
| `BreezeBlocksProofs` | `BreezeSpec`: places of the blocks, and queries |
| `AuthorityProofs` | `AuthoritySpec` and `GatewaySpec` |
| `FileProofs` | `VaultSpec` and `IndexSpec` |
| `SubscriberProofs` | `SubscriberSpec`: what the listener delivers, and the loop of `SyncSocial` |

The components of `MCFiles` and of `MCAuthority` do not interact. Such a module
joins instances in one state graph: a behaviour uses one of them,
and the state graph is the sum of theirs, not the product.

Operators marked `Fault` in a comment are altered versions of the operator that
follows them, each with a mistake one could make there. They occur in no
specification; they serve to test that the properties notice the mistake.

### 2.1 SocialChain

Every field of `SocialBlockChain` is a variable (`checksumEpoch`, which nothing
assigns, is the constant 0), and `reply` is what the last call returned. One
action per method, with one disjunct per path through it: `Validate`,
`NextBlock`, `SealBlock` (of the live block and of a recent one), `Commit` (which
replies for blocks before its block, refuses what is not sealed, and validates
again), `Rollback`, `Recovery`. `NodeSpec` has the calls that `LaunchNode` makes,
in any order and with any argument; `ChainSpec` has the two others as well.

The protocol lives in other repositories. Its state is the set of actions
incorporated, and `Conflict` says which pairs of actions exclude one another
(a pair of an action with itself: it may not be repeated). This keeps what the
chain depends on: validity depends on the state, a validator adds its own
mutations to the state it was made from, and a later state may refuse what an
earlier one took. An action is its own hash. `Transform` is any function to
actions or the empty action.

The validator refers to the commit state *by reference* in this abstraction
(`Valid` reads `commit` and the validator's mutations), as the `Blocker`
interface is used; whether a protocol copies its state is decided elsewhere.

### 2.2 ValidatorNode

One process per goroutine: `Listen` (read a message, send its signals one by
one), `Loop` (receive a signal, call the chain, forward the message), `Pool`
(take a sync request or a message to broadcast), `Sync(c)` (send a snapshot,
then be ready), `Environment` (subscribers ask and break off). Channels are
unbuffered, so a send and its receive are one step. `lock` is the mutex of the
chain, which the loop holds over a call and the forwarding of its message
(not around `Validate`), and the pool loop while it clones the chain. The four
signals of one message share one object that the listener overwrites: a signal
may be read as its successor, or as half of it. The kind is written first, so the loop may
see the kind of an array without the array (`HalfWritten`), which panics
(`HandleUnfilledArray`), or that of a commit without its hashes. A failed handshake
panics too (`HandshakeFails`). A panic ends the process: nothing is under way
after it and no goroutine takes a step. The goroutine of `Sync` holds pointers to recent
blocks and reads their status when it sends them.

### 2.3 SocialSubscriber

The chain under the calls of `LaunchNode`, whose messages reach the listener in
order after a snapshot. That is `Connect`, the case of an address where a node listens.
`SyncSocial` hands over the address of its block provider instead (`topos/sync.go:75`); of
what a provider sends, the listener takes nothing before it ends, and the
model has that with the connections that fail (`ConnectFails`). `ReceiveBlocks` is
reduced to its end (`OldEnds`): one end signal or two, or a panic of the parser, for it never
passes a block on. The listener reads messages into blocks and delivers a
block on its commit; the channel holds two. `SyncSocial` takes from two channels
until both ended. `heap` gives blocks an identity, because the listener goes on
holding a block it has delivered.

### 2.4 SocialStore and BlockTransfer

Stores of bytes, lengths of `Header` digits in base `Base`, and an index in memory. `AddBlock`
is three steps, `IndexBlock`, `WriteBlock`, `CountBlock`, because a transmission
may read between them; a crash leaves any prefix of the write that is under way;
`OpenBlockStore` scans. `Epoch` wraps at `Wrap` (2^64 in the code).
`BlockTransfer` serves one client: it sends the last epoch, waits for the first
one that is wanted, and sends blocks until it is beyond the last.

### 2.5 BreezeBlocks

The four places of a block are the variables `Current`, `Unselaed`, `Sealed` and
`Storage` (the spelling is the code's). A message of the node and its handling
are one step; the index entry and the bytes of a stored block are two, because
queries run in between. Using a nil current block is a step to `panicked`. A listener
that cannot dial has ended from the start.

A query reads one block per step. `answer` has one element for each `QueryBlock` read, and
`outcome` is what comes on `finalize`: nil at the end, or the error of a `Send`, which may
be any of those of a block (`ReadBlock`). A `QueryBlock` without positions panics
(`QueryPanics`). Its `Epoch` is used as the code uses it, as a place in `Blocks`.

### 2.6 SecureVault

A file is a salt and records; each write is a step, and a process may stop
before it, after it, or with a part of it in the file. A failed write ends the
program by `log.Fatalf` and is the same step. A record opens under the pass
phrase that sealed it. What a write has returned stays in the file: the model
has processes that stop, not machines that lose power.

### 2.7 RecentBlocks and SingleAuthority

Nothing in the repository calls `Append` of `RecentBlocks`, so a block is its
epoch. `SingleAuthority` has one process per goroutine: a client
(`WaitForProtocolActions`), the manager, the pool goroutine, and a subscriber
(`WaitForOutgoingSyncRequest`, then `Sync`). Channels are unbuffered, so a send
and its receive are one step, and a goroutine at a select takes any case that is
ready. The manager alone touches the protocol state; it calls `NextBlock` of the
state and then hands the epoch to the pool goroutine, which closes the recent
block in one step (`CloseBlock`) and broadcasts the header in the next
(`BroadcastHeader`): between them, a `Sync` may copy the blocks. An action has
the epoch of the state when the state answered it. Panics are steps to
`crashed`: `blocks[0]` before a block is closed, and the nil of a failed
handshake.

### 2.8 Gateway

A client's goroutine reads an action and holds it until the select takes it;
the select dresses it and sends it. `heard` and `sent` are histories.

### 2.9 HashIndex

The file is a sequence of cells of eight bytes: the epoch, and for each record
two cells of hash and one of value. `OpenIndex` scans from the second cell in
steps of a record, `NextIndexed` overwrites the first cell, `Add` appends a
record and its place in memory, `CutAdd` is a process that ends with a part of
the record in the file. Every key of `Retrieve` is the first part of a hash, and
what is read at a place is compared with the whole hash (`Matches`). `Positions` is the
map that it makes of them, and `Retrieve` the result: nil pointers, then one
`QueryBlock` per epoch. Bytes of a hash that
are read as the epoch of the file may be any number; read as the value of a record,
which happens only behind a record that was cut short, they count as 0.

## 3. Runs

| run | instance | question |
|---|---|---|
| `chain_api` | 3 epochs, 2 actions of which one may not be repeated, 2 per block, all six calls | `EpochOrder`, `CommitPrefix`, `CommitReport`, `StateConsistent`, type |
| `chain_seal_report` | as `chain_api` | `SealReport`: violated, see 3.2 |
| `chain_recovery` | as `chain_api` | `RecoveredState`: violated, see 3.2 |
| `node` | 2 epochs, 1 action that may not be repeated, 1 subscriber | of the node: `StopsOnlyThere`, `StreamFaithful`, `CommitKnown`, `NewBlocksInOrder`, `SignalServed`, type; of the chain that it drives: `DenseEpochs`, `CommitMark`, `Replayable`, `NoDoubleSpend`, `ImplementsLog` |
| `node_embrace` | 1 epoch | `RequestServed`: violated, see 3.2 |
| `transfer` | 3 blocks of 2 or 3 bytes, stores of 9, crashes at any time, 1 client | `Durable`, `Rebuildable`, `TransferFaithful`, `TransmissionEnds`, type |
| `transfer_receive` | the same | `ReceiverServed`: violated, see 3.2 |
| `subscriber` | 2 epochs, 3 messages under way | `DeliveredFaithful`, `DeliveredInOrder`, `NeverSilent`, `CommitsTaken`, type |
| `subscriber_panic` | the same | `SealAnswered`: violated, see 3.2 |
| `files` | vault: 2 pass phrases, 4 keys; index: 2 hashes with the same first bytes, 2 epochs, 3 sequence numbers, 3 records; breeze blocks: 3 blocks, 2 actions of which one passes the filter, queries of 1 or 2 blocks | `KeysKept`, `WalletKey`, `Reopenable`, type of the vault; `LastRetrieved`, `RetrieveSound`; `EveryBlockOnce`, `QueryExact`, type of the block store |
| `query_epoch` | the block store of `files` | `QueryOfEpoch`: violated, see 3.2 |
| `authority` | authority: epochs up to 6, 4 recent blocks, 1 client, 1 action, 1 subscriber; gateway: 2 clients, 2 actions, 2 per client | `HeadersComplete`, `ActionAttributed`, `EveryoneServed`, type; `PassedOnInOrder` |

### 3.1 Bounds and why they are enough

* Chain: three blocks are the fewest with a block before and a block after a
  refused one, and the fewest that can be committed out of order in two ways.
  Two actions that exclude one another, one of which may not be repeated, give
  every kind of conflict: within a block, between two blocks in flight, and of
  an action with itself.
* Node: two epochs let a subscriber join before, between and after blocks and
  let a commit or a seal happen while a snapshot is sent. Subscribers share only
  the pool loop, which deals with them one at a time, and are otherwise
  independent: one is enough for what a subscriber receives.
  The chain in this run has two blocks, which may both be in flight, and one
  action that both may hold: enough for a double spend and for a commit out of
  order. The theorems of 4.2 cover every larger instance.
* Subscriber: two blocks and the end signal are one more than the channel holds.
  The listener depends on the order of its messages and not on how many are
  under way; three let the node run ahead.
* Store: in stores of nine bytes, blocks of two and three bytes with a length of two
  fill a store exactly, leave less than a length, or leave room for a shorter
  block only. A length of two digits can be cut in the middle. `Wrap` is above every
  epoch reached, so that only the -1 of an empty store is affected. A transmission
  that ends sends at most one message per epoch, three in all; one that does not
  end is cut after three.
* Breeze blocks: a current block, an unsealed one and another can exist at once
  with three; a query of two blocks meets stores between its reads. The queries
  (`MCQueries`) have positions within and past the end of a block, and none.
* Vault: the secret of the wallet and three more keys, one of them before and
  one after a restart.

* Authority: a shift of one more than one is the smallest for which `Sync` copies
  blocks, and it needs three closed blocks; with six epochs and four recent
  blocks the oldest is dropped, and a subscriber joins before, at and after that, while
  a block is closed and with headers still to come. Subscribers share only the pool
  goroutine, which treats them alike; one action is enough to be in the wrong block.
  `NextBlock` of the state fails at most once.
* Gateway: two clients with two actions each can overtake one another and themselves.
* Index: two hashes with the same first bytes are the fewest that a lookup can
  mix up, and three records the fewest with one before and one after a record that
  is cut short. `Wide` (2^32 in the code) is 4: the sequence numbers 0, 1 and 2 are zero,
  an ordinary one and one whose sign bit is set.

`reply` is left out of the state view where no property of the run reads it: no
action reads it either. The view of the node also identifies the signals that the
chain refuses, except those of a block beyond the next one: from the moment such a signal is the next one until it has been dealt
with, the chain does not change, so two states that differ in its epoch or its hashes
have the same future.

Deadlock is checked in the three chain runs. It is switched off where the program
does stop: the listener or the process has ended, the client has gone, a bound
is reached, or (in the node) the stop is what `StopsOnlyThere` classifies.

### 3.2 Where the code departs from what it says

* `SealReport`: `SealBlock` of the live block answers "block %d not found"
  (`social/chain.go:115`), although the block exists: the branch for it moves it
  to the recent blocks without setting the variable that line 114 tests. The block stays
  unsealed, and the node forwards no seal. It is the only block that is denied
  (`SealReportElsewhereCorrect`).
* `RecoveredState`: `Recovery` incorporates the mutations of the first block even when
  the target is before it, which is what the trace shows, and drops what `Merge`
  returns (`social/chain.go:201`): the state after it has the mutations of the first
  block, and those only (`RecoveredFirstCorrect`).
* `RequestServed`: the signal loop holds the mutex of the chain and waits for the pool
  loop to take its message, and the pool loop has taken a sync request and waits for the
  mutex (`social/node.go:110`): neither goes on. `StopsOnlyThere` in the `node`
  run shows that the other stops are a failed dial, a reported error and a panic, and its other properties hold
  up to it. `WaitsOnlyThereCorrect` and `EmbraceForeverCorrect` prove both halves:
  nothing else stops the loops, and nothing short of a panic gets them out of it.
* `ReceiverServed`: `ReceiveBlocks` waits for blocks and `TransmitBlocks` waits
  for the start epoch (`topos/blockstore.go:178`, 221-222), in every store
  (`ReceiverWaitsCorrect`).
* `SealAnswered`: a seal that comes while the listener has no current block
  stops the program with a nil dereference (`social/listener.go:91`), where
  line 97 has a message for a seal of an unknown block.
* `QueryOfEpoch`: `GetBlock(epoch)` takes the epoch for a place (`blocks/blocks.go:34`). The
  block of epoch 1 is the first that is stored, at place 0, and a query of epoch 1
  does not get it.

### 3.3 Fairness

* `LoopsSpec` of the node: weak fairness of the signal loop and of the pool loop,
  goroutines in loops that run when they can. `SignalServed` holds under it,
  whatever the `Sync` goroutines do. `FairSpec` adds weak fairness of each `Sync`
  goroutine: `RequestServed` fails even then.
  The provider and the subscribers owe nothing, so the listener, which waits for
  the provider, has no fairness.
* `TransferSpec`: weak fairness of the transmission loop, a goroutine. Blocks,
  requests, crashes and disconnections may happen or not.
* `SubscriberSpec`: weak fairness of the listener reading messages that are
  there and of the select loop, while the program has not panicked.
* `AuthorityFairness`: weak fairness of what one goroutine does when it can
  (closing and broadcasting, `Sync`), and strong fairness of the cases of a
  select on behalf of clients and subscribers. Go's select chooses at random
  among the cases that are ready, so a case that is ready again and again is not
  passed over for ever, while another may be chosen first each time. Ticker, clients and
  subscribers owe nothing; a panic may come at any time and ends the obligation.
* The chain, the breeze store, the vault, the index and the gateway state safety
  only and have no fairness: nothing makes their callers call.

## 4. Proofs

### 4.1 The social chain

`SocialChainProofs` proves, for any set of actions, any transformation, any
symmetric conflict relation, any consistent initial state, any start epoch and
any bounds (`ChainAssumption`, `NoBlockAssumption` in `SocialChain`):

* `ChainTypeCorrect`: `ChainSpec => []ChainTypeOK`
* `EpochOrderCorrect`: `ChainSpec => []EpochOrder`
* `CommitPrefixCorrect`: `ChainSpec => []CommitPrefix`
* `CommitReportCorrect`: `ChainSpec => []CommitReport`
* `StateConsistentCorrect`: `ChainSpec => []StateConsistent`

Type correctness is inductive by itself. The others follow from one inductive
invariant, `ChainInv`: they need each other and three additions.

* The live block is later than the commit epoch and has status live
  (`LiveParts`): otherwise moving it behind the committed blocks would break
  the prefix.
* The actions of a block are ordered: none excludes an earlier one, its own
  repetition included (`Ordered`), because the live validator holds them
  all (`LiveParts`). Without it an action that occurs twice could be kept once and
  reported once, and `CommitReport` would fail.
* The initial state is part of the commit state and agrees with the validator
  and with the mutations of every recent block (`StateParts`). Without it
  `Recovery`, which incorporates the mutations of the first block on the initial
  state whether that block was committed or not, could make the state
  inconsistent.

The step lemmas are one per call. Those that append, cut, seal or commit a
block go through lemmas about sequences of blocks (`GoodAppend`, `GoodPrefix`,
`GoodSeal`, `GoodCommit`). `RevalidatedKeeps` is the heart of `Commit`: what the
second validation keeps is consistent with the state and is the block without
what it reports.

Two theorems say what the findings of 3.2 leave true of the chain:

* `SealReportElsewhereCorrect`: `ChainSpec => []SealReportElsewhere`. A block that
  `SealBlock` has just denied is the last recent block, still has the status of a live
  one, and the chain has no live block: it is the one that this call moved. Of any
  other epoch the answer is right, because epochs increase and `findBlock` cannot
  miss a block (`OnlyOfEpoch`).
* `RecoveredFirstCorrect`: `ChainSpec => RecoveredFirst`. Only `Recovery` takes the
  commit epoch back, and it leaves the initial state and the mutations of the block of the first
  epoch after the checksum, whichever epoch it was asked for. It needs that no
  block of epoch zero ever exists (`FromOne`), which would belong to that state too.

### 4.2 The chain that a node drives

`SocialChainProofs` proves under the same assumptions, for the calls of
`LaunchNode`:

* `DenseEpochsCorrect`: `NodeSpec => []DenseEpochs`
* `CommitMarkCorrect`: `NodeSpec => []CommitMark`
* `ReplayableCorrect`: `NodeSpec => []Replayable`
* `NoDoubleSpendCorrect`: `NodeSpec => []NoDoubleSpend`
* `ImplementsLogCorrect`: `NodeSpec => ImplementsLog`

`NodeInv` adds to `ChainInv` what is true without `Rollback` and `Recovery`. It is
arranged as `LogParts`, which speaks of the recent blocks, the commit epoch and the
commit state, and `LiveNext`, the place of the live block. One clause is no property
of its own: the commit epoch lies between the start and the last recent block.
It is what makes a new block a waiting one (`LogSame`) and gives the log its
length (`LogSeq`). `LogCommit` is the step in which the first waiting block becomes the
last of the log: its mutations exclude nothing in the state, which has those of all
earlier blocks, and that is `NoDoubleSpend`.

`NodeInvCall` shows in the same induction that each call keeps the log or extends
it by the block after the commit epoch (`LogStep`), and `LogStepRefined`
that this is a step of `CommitLog` or a stutter, with the log as a sequence.

### 4.3 The chain inside the node

`NodeStreamProofs` carries this over to the whole node, for any set of
subscribers (`NodeAssumption` in `ValidatorNode`, besides those above):
`NodeDenseEpochs`, `NodeCommitMark`, `NodeReplayable` and `NodeNoDoubleSpend`
(`ValidatorSpec => []` of the property) and `NodeImplementsLog`
(`ValidatorSpec => ImplementsLog`). `StepIsCall` is the argument: in any interleaving
of listener, signal loop, pool loop and subscribers, a step is one call of the
chain or leaves the chain alone. What it needs of the node
is `SignalsOK`: whatever the signal loop reads of an object that the listener
overwrites is still a signal, with or without its hashes. The calls
are those of `NodeCall`, without the bound on the actions of a block, so that the
theorems hold for blocks of any size.

### 4.4 What the node sends

The same module proves `NodeTypeCorrect`, `NewBlocksInOrderCorrect`,
`CommitKnownCorrect` and `StreamFaithfulCorrect` from the invariant `StreamInv`.
None of these properties is inductive: what a subscriber has received says
nothing of what is still on its way. `StreamInv` therefore speaks of what a
subscriber is *promised* (`Promised`): the messages it has been sent, those that
are kept for it while `Sync` runs, and the one that the signal loop holds for the
pool loop. Promised new blocks follow one another up to the live epoch, the
actions between two of them are those of the block (`ToldBlocks`), and each
commit is among the messages or its block is still an item of the snapshot
(`ToldCommits`). Around it stand what each goroutine holds: the mutex is taken only
on the way to the pool loop (`LoopOK`), nothing is kept for a subscriber before
its blocks are collected (`Connections`), and the items of a snapshot point to
blocks that the chain still has (`ItemsOK`), as `RecentKept` shows of every step.

`SnapshotsCurrentCorrect` (`ValidatorSpec => []SnapshotsCurrent`) is what `Sync`
relies on when it reads blocks after the mutex was given back: epoch and actions of
the blocks it has collected are those they had then. `ItemsOK` has it as a clause.

Two theorems are the part of `StopsOnlyThere` and `RequestServed` that needs
neither `ENABLED` nor fairness. `WaitsOnlyThereCorrect` (`ValidatorSpec =>
[]WaitsOnlyThere`) says of each goroutine what it waits for, and that one of
them has it unless the provider failed, the two loops are in their embrace or the process
has panicked.
Besides `LoopOK` (who holds the mutex at which of its steps) it needs `HandsOK`: the
signal loop never waits for a listener that is gone, because the last signal of a listener is the
error that ends the loop. `EmbraceForeverCorrect` (`ValidatorSpec => EmbraceForever`) says that no step
but a panic ends the embrace. Together they make the finding about the pool loop complete for
any number of subscribers: there is one place, and no way out of it but the end of the
process.

### 4.5 The store and its transmissions

`BlockTransferProofs` proves `TransferTypeCorrect`, `DurableCorrect`,
`RebuildableCorrect` and `TransferFaithfulCorrect`, for any sizes of stores, blocks
and headers and any base of the digits of a length (`StoreAssumption`).

`StoreInv` says that there *is* an index of blocks which lie in the stores one
after the other (`Laid`: each is indexed where a length says so, a store ends with
a zero length or without room for one, and what follows is empty), that all blocks that
are kept are in it with their bytes (`KeptOK`), and that memory holds what
the step of `AddBlock` has reached (`InMemory`). The index is quantified and not the
variable `blocks`, because memory may have less: a process that stopped between
`WriteBlock` and `CountBlock` leaves a block that it never counted, and one that
stopped within a write leaves a length without its bytes, which the next
opening reads as a block. `OpenBlockStore` finds exactly that index: `ScannedLaid` follows
the scan of a store, block by block.

`TransferInv` adds the client: the epochs it was sent ascend, and a block
that was kept before it asked (`due`) and whose turn has come was sent with its bytes.

Three theorems are the safety that the liveness of a transmission rests on.
`TransmissionBoundedCorrect` (`TransferSpec => []TransmissionBounded`) and
`TransmissionAdvancesCorrect` (`TransferSpec => TransmissionAdvances`), from the
invariant `Paced`: a transmission keeps the two ends it began with, is never beyond its
last epoch, and each of its iterations leaves one epoch less, over the blocks that are added and
the crashes in between. With fairness of the loop this is `TransmissionEnds`, and it
shows that the bound on messages (`MaxSent`, at least `MaxBlocks`) cuts nothing
off. A store that was opened empty is excepted, as in `TransmissionEnds`: its epoch
is the greatest number of 64 bits. `ReceiverWaitsCorrect` (`TransferSpec => []ReceiverWaits`),
from the invariant `Served`, is the finding about `ReceiverServed` for every store.

### 4.6 The breeze block store

`BreezeBlocksProofs` proves `BreezeTypeCorrect`, `EveryBlockOnceCorrect` and
`QueryExactCorrect`. `BreezeInv` has two halves. `StoreInv` says which list has the
blocks of which status of the node (`PlacesOK`), and that the newest block is the
current one as long as it is open (`CurrentOK`): an action goes to the current block
whatever block the node put it into, so `EveryBlockOnce` does not hold without it.
`QueryInv` says that each element of the answer is right (`Right`): what its `QueryBlock` wants of
the record at its place, nothing if the record was not there when the query began, or a
prefix if it is the last and a `Send` failed. Records are only added, so what is right stays
right (`RightStays`). `MatchesWanted` shows that the loop of `ExecuteQuery`, which walks
two ascending sequences, finds what a set would. The theorem is about places: whose
epoch a place has is the finding `QueryOfEpoch`, and lists that are not ascending are
left out, as the comment of `QueryBlock` does.

### 4.7 The single authority and the gateway

`AuthorityProofs` proves `AuthorityTypeCorrect`, `HeadersCompleteCorrect` and
`ActionAttributedCorrect`. The invariant follows the hand-over between the
manager and the pool goroutine, which are at most one block apart (`HandOver`), the
recent blocks without a gap (`RecentDense`), and of each subscriber what
it is promised (`Streams`): headers up to the current epoch and actions after the
header of their block. It holds as long as no `NextBlock` of the state has failed,
as the properties do. For the gateway, `GatewayInv` adds to
`PassedOnInOrder` that an action which a goroutine holds is the last one it read.

### 4.8 The vault and the index

`FileProofs` proves `VaultTypeCorrect`, `KeysKeptCorrect`,
`WalletKeyCorrect` and `ReopenableCorrect` (each `VaultSpec => []` of the
property), for any pass phrases and any number of keys and restarts
(`VaultAssumption`). `VaultInv` is inductive: what was returned is in the file,
and whoever holds the vault has it in memory (so a restart in between loses
nothing); all records are sealed under one pass phrase, that of the cipher; and a
vault that was made has its first record, without which any pass phrase would
open it. Its parts say what holds of the file, while a vault is made, while it is held,
and after it was made.

`RetrieveSoundCorrect` and `LastRetrievedCorrect` follow from `IndexInv`: the
record of a hash that was never cut short is whole wherever it lies, even behind the
rest of another one (`WholeOK`, for soundness), and while no record was cut short,
records and places in memory are those of the actions in order (`RecordsOK`,
`PlacesOK`, for the second). `RetrieveSound` is about what follows the nil pointers in the result,
and about hashes none of whose own records was cut short: the rest of such a record
reads as one of epoch 0. `LastRetrieved` asks for the last action of an epoch only, which is
all that `Retrieve` keeps, in files that begin with an epoch and are not cut short.

### 4.9 The subscriber

`SubscriberProofs` proves `SubscriberTypeCorrect`, `DeliveredFaithfulCorrect`,
`DeliveredInOrderCorrect` and `NeverSilentCorrect`, for any actions, any chain that
`NodeInv` allows and any number of messages under way (`SubscriberAssumption`).

Between the node and the listener there are messages, so that neither what
was delivered nor what the listener holds can be compared with the chain as it is now:
the listener may know a block that the chain has long committed, and not know
the live one. `SubscriberInv` therefore looks ahead. It takes the listener as one
value (`Here`) and what a message makes of it as a function (`After`), and says that the
listener *follows* the chain (`Follows`): each of the states it comes to by reading the
messages under way is sound (`Sound`: what it has delivered is in order and is what the
chain committed), and the last of them agrees with the chain (`UpToDate`: its blocks
ascend and are blocks of the chain with the latest of their actions, its current
block is the live one, and the last that it delivered is the last that was committed).

A call of the node adds its message behind the others and needs the last state
only (`MessageFollowed`, one lemma for each kind of message, from what the call did to
the chain: `NextBlockTold`, `ValidateTold`, `SealTold`, `CommitTold`); the states
before it stay sound because a committed block never changes (`Carried`). A call
without a message, a refused one or the seal of the live block, leaves the listener up
to date as it is (`Silent`). Reading a message takes the first state away
(`FollowsRest`). The snapshot of `Sync` is a sequence of messages whose reading leads from an
empty listener to one that agrees with the chain, by induction over the recent blocks
(`SnapshotRead`). That a subscriber joins with actions missing is in `Matches`: the
actions of a block are the latest of those of the chain's, and all of them if it saw the
block open.

`DeliveredFrozenCorrect` (`SubscriberSpec => DeliveredFrozen`) is about the pointers
that the listener shares with the application: a block on the channel may still be in the
table, but no message that follows writes to it. It comes from `Follows`: only
reading a message writes to a block (`OnlyReadsWrite`), and a message that the chain could have
sent keeps the delivered ones (`FollowsKept`).

### 4.10 Induction

`UpTo` of `RecursionLemmas` is induction up to a bound, as a fact about a *set* of
numbers, derived from the well-foundedness of the naturals; `Recursion` says that a
function defined from its value one before exists. With these, what recursive
functions of the model compute (`Loop`, `Joined`, digits of a length, the scan of a
store) is proved for every input and not only model-checked.

### 4.11 What is not proved

Model-checked only: liveness (`SignalServed`, `RequestServed`, `TransmissionEnds`,
`CommitsTaken`, `ReceiverServed`, `EveryoneServed`), and `StopsOnlyThere`, which
speaks of `ENABLED`. Both are out of the prover's reach. Every other property of
a run that passes is a theorem.

The other way round, `SealReportElsewhere`, `RecoveredFirst`, `WaitsOnlyThere`,
`EmbraceForever`, `SnapshotsCurrent`, `TransmissionBounded`, `TransmissionAdvances`,
`ReceiverWaits` and `DeliveredFrozen` are theorems that no run lists. TLC found
them true on the instances of `chain_seal_report`, `node`, `transfer` and
`subscriber` before they were proved.

## 5. Not modelled

* The blockchain file (`topos/chain.go:1-224`). It has no working state that a model
  could start from. `OpenFSBlockchain`, its only constructor, closes the file of
  the chain that it returns (193) and leaves `current` and `state` nil. The only way
  to set `state` is `UpdateState`, which locks the mutex (26) and calls
  `UpdateStateWithChain`, which locks it again (`topos/messages.go:24`): it never
  returns and keeps the mutex. Every other method dereferences `current` or uses
  the closed file. Nothing in the repository calls the constructor.
* The relay and the index database. `NewRelay` calls `Epoch` of that state, nil
  unless the mutex is held for ever, before it starts a goroutine, and `NewDB` uses that nil `current` for its
  first action or client. Nothing in the repository calls either.
* `Append` and `Clone` of the recent blocks: nothing calls them, so that `Get`, `Hash`
  and the actions of a `MemoryBlock` meet empty blocks only.
* The loop of `BlockProviderNode`: it changes its map by deletions only and nothing
  is ever entered, so no message of it changes anything.
* `BlockSorter` beyond nil: `SyncSocial`, its only caller, gives it nothing else.
* Byte layout and signatures of protocol blocks (`social/block.go`); the parser's
  consequence, that no received block is accepted, is modelled.
* Parts of a cell of the index file: a record that is cut short is cut between
  its eight-byte cells, and the overwriting of the epoch is not cut at all.
* Handshakes and TCP, beyond whether they fail. Memory races inside a
  slice header. Several processes on one vault, store or index.
* Commands and configuration: wiring, parsing and asking, without state of their own.

## 6. Plan

Done, in this order: the chain and its log; its proofs; the node; the store and the
transfer; the subscriber; the breeze blocks; the vault and its proofs; the recent
blocks and the single authority; the gateway; the index; the proofs of the node's
chain and of its refinement, and of both for the whole node; the proofs of the
authority and the gateway, of the node's streams, of the breeze blocks, of the
store and its transmissions, of the index, and of the subscriber; what is safe about
the embrace, the transmissions and the blocks that goroutines share; what the findings
leave true of the chain.

Left: the liveness properties, which stay with TLC, and whatever the code gains: the
blockchain file and the relay once they can be opened (section 5).
