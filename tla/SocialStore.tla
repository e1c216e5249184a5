----------------------------- MODULE SocialStore -----------------------------
(***************************************************************************)
(* BlockStore of social/store.go: blocks of bytes one after the other in   *)
(* stores of a fixed size, each behind its length, and the index of their  *)
(* places, which lives in memory and is rebuilt by OpenBlockStore.         *)
(*                                                                         *)
(* External, modelled from its use: a papirus.ByteStore of size MaxSize is *)
(* full of zeros when it is new; bytes past its end read as zero; a write  *)
(* that a crash of the process interrupts leaves a prefix of its bytes.    *)
(*                                                                         *)
(* A byte is a digit, and for a byte of a block which block and where in   *)
(* it.  Lengths are written in base Base with Header digits, the lowest    *)
(* first: base 256 and 8 digits in the code.                               *)
(***************************************************************************)
EXTENDS Naturals, Sequences

CONSTANTS
  MaxSize,   \* bytes of a store
  Header,    \* bytes of a length
  Base,      \* values of a byte
  Wrap,      \* 2^64: Epoch is a uint64
  Sizes,     \* bound: lengths of the blocks that are added
  MaxBlocks  \* bound: calls of AddBlock

(* A number without its lowest digits. *)
Quotients(number) ==
  LET q[i \in 0 .. Header] == IF i = 0 THEN number ELSE q[i - 1] \div Base IN q

(* Blocks are not empty (a serialized block starts with its epoch) and fit *)
(* into a store, their length into a header.                               *)
ASSUME StoreAssumption ==
  /\ MaxSize \in Nat /\ Header \in Nat \ {0} /\ Base \in Nat \ {0, 1} /\ MaxBlocks \in Nat
  /\ Wrap \in Nat /\ Wrap > MaxBlocks + 1
  /\ \A s \in Sizes : s \in Nat \ {0} /\ Quotients(s)[Header] = 0 /\ Header + s <= MaxSize

VARIABLES
  up,           \* whether the process runs
  stores,       \* contents of the byte stores
  blocks,       \* BlockIndex of each block
  currentSize,  \* bytes used in the last store
  Epoch,        \* the field Epoch
  adding,       \* the call of AddBlock under way, or NoAdd
  added,        \* number of calls of AddBlock
  kept          \* history: blocks whose AddBlock has returned, and their place

storeVars == <<up, stores, blocks, currentSize, Epoch, adding, added, kept>>

Byte(d, b, k) == [digit |-> d, block |-> b, at |-> k]
Zero == Byte(0, 0, 0)
EmptyStore == [o \in 0 .. MaxSize - 1 |-> Zero]

NoAdd == [step |-> "none", block |-> 0, size |-> 0]

(* ReadAt. *)
ReadAt(store, offset, size) ==
  [k \in 1 .. size |->
     IF offset + k - 1 \in DOMAIN store THEN store[offset + k - 1] ELSE Zero]

(* WriteAt. *)
WriteAt(store, offset, bytes) ==
  [o \in DOMAIN store |->
     IF o - offset + 1 \in DOMAIN bytes /\ o >= offset
       THEN bytes[o - offset + 1]
       ELSE store[o]]

Payload(b, size) == [k \in 1 .. size |-> Byte(1, b, k)]

(* util.PutUint64, the lowest digit first. *)
Digits(number) == [i \in 1 .. Header |-> Byte(Quotients(number)[i - 1] % Base, 0, 0)]

(* The bytes that AddBlock writes: the length and the block. *)
Record(b, size) == Digits(size) \o Payload(b, size)

(* util.ParseUint64: the last i bytes make value[i]. *)
Values(bytes) ==
  LET value[i \in 0 .. Header] ==
        IF i = 0 THEN 0 ELSE bytes[Header - i + 1].digit + Base * value[i - 1]
  IN  value

Number(bytes) == Values(bytes)[Header]

(* What AddBlock and OpenBlockStore know of a block. *)
BlockIndex(n, offset, size) == [StoreNum |-> n, Offset |-> offset, Size |-> size]

GetBlock(n) ==
  IF n < Len(blocks)
    THEN LET index == blocks[n + 1] IN ReadAt(stores[index.StoreNum], index.Offset, index.Size)
    ELSE << >>

StoreTypeOK ==
  /\ up \in BOOLEAN
  /\ stores \in Seq([0 .. MaxSize - 1 ->
                       [digit : 0 .. Base - 1, block : 0 .. MaxBlocks, at : Nat]])
  /\ blocks \in Seq([StoreNum : Nat, Offset : Nat, Size : Nat])
  /\ currentSize \in Nat
  /\ Epoch \in 0 .. Wrap - 1
  /\ adding \in [step : {"none", "write", "count"}, block : 0 .. MaxBlocks, size : Nat]
  /\ added \in 0 .. MaxBlocks
  /\ kept \in SUBSET [place : Nat, block : 1 .. MaxBlocks, size : Sizes]

(* NewBlockStore. *)
StoreInit ==
  /\ up = TRUE
  /\ stores = <<EmptyStore>>
  /\ blocks = << >>
  /\ currentSize = 0
  /\ Epoch = 0
  /\ adding = NoAdd
  /\ added = 0
  /\ kept = {}

-----------------------------------------------------------------------------
(* Fault: the room for the length is forgotten. *)
FitsBlock(size) == currentSize + size <= MaxSize

Fits(size) == currentSize + Header + size <= MaxSize

(* AddBlock up to the write: a new store when the last one is too full, and*)
(* the place of the block in the index.                                    *)
IndexBlock(size) ==
  LET offset == IF Fits(size) THEN currentSize ELSE 0 IN
  /\ up /\ adding = NoAdd /\ added < MaxBlocks
  /\ stores' = IF Fits(size) THEN stores ELSE Append(stores, EmptyStore)
  /\ currentSize' = offset
  /\ blocks' = Append(blocks, BlockIndex(Len(stores'), offset + Header, size))
  /\ added' = added + 1
  /\ adding' = [step |-> "write", block |-> added + 1, size |-> size]
  /\ UNCHANGED <<up, Epoch, kept>>

WriteBlock ==
  LET n == Len(stores) IN
  /\ up /\ adding.step = "write"
  /\ stores' = [stores EXCEPT ![n] =
                  WriteAt(@, currentSize, Record(adding.block, adding.size))]
  /\ adding' = [adding EXCEPT !.step = "count"]
  /\ UNCHANGED <<up, blocks, currentSize, Epoch, added, kept>>

(* The end of AddBlock. *)
CountBlock ==
  /\ up /\ adding.step = "count"
  /\ currentSize' = currentSize + Header + adding.size
  /\ Epoch' = (Epoch + 1) % Wrap
  /\ kept' = kept \cup {[place |-> Len(blocks) - 1, block |-> adding.block, size |-> adding.size]}
  /\ adding' = NoAdd
  /\ UNCHANGED <<up, stores, blocks, added>>

(* The process stops: what was in memory is gone. *)
Crash ==
  LET record == Record(adding.block, adding.size)
      n == Len(stores)
  IN
  /\ up
  /\ \/ adding.step # "write" /\ UNCHANGED stores
     \/ /\ adding.step = "write"
        /\ \E w \in 0 .. Len(record) - 1 :
             stores' = [stores EXCEPT ![n] = WriteAt(@, currentSize, SubSeq(record, 1, w))]
  /\ up' = FALSE
  /\ blocks' = << >>
  /\ currentSize' = 0
  /\ Epoch' = 0
  /\ adding' = NoAdd
  /\ UNCHANGED <<added, kept>>

(* Fault: the scan of a store forgets the length in front of a block. *)
ReadIndexNoHeader(n, before) ==
  LET size == Number(ReadAt(stores[n], before.offset, Header)) IN
  IF before.offset >= MaxSize \/ size = 0
    THEN before
    ELSE [found |-> Append(before.found, BlockIndex(n, before.offset + Header, size)),
          offset |-> before.offset + size]

(* A round of the loop over store n: it ends at a length of zero or at the *)
(* end of the store.                                                       *)
ReadIndex(n, before) ==
  LET size == Number(ReadAt(stores[n], before.offset, Header)) IN
  IF before.offset >= MaxSize \/ size = 0
    THEN before
    ELSE [found |-> Append(before.found, BlockIndex(n, before.offset + Header, size)),
          offset |-> before.offset + Header + size]

Rounds(n, found) ==
  LET round[k \in 0 .. MaxSize] ==
        IF k = 0 THEN [found |-> found, offset |-> 0] ELSE ReadIndex(n, round[k - 1])
  IN  round

(* The blocks of all stores and the offset at which the last scan stops. *)
Scans ==
  LET upTo[n \in 0 .. Len(stores)] ==
        IF n = 0 THEN [found |-> << >>, offset |-> 0]
        ELSE Rounds(n, upTo[n - 1].found)[MaxSize]
  IN  upTo

Scanned     == Scans[Len(stores)].found
ScannedSize == Scans[Len(stores)].offset

(* OpenBlockStore: its Epoch starts from -1, that of NewBlockStore from 0. *)
OpenBlockStore ==
  /\ ~up
  /\ up' = TRUE
  /\ blocks' = Scanned
  /\ currentSize' = ScannedSize
  /\ Epoch' = (Len(Scanned) + Wrap - 1) % Wrap
  /\ UNCHANGED <<stores, adding, added, kept>>

AddBlock == (\E size \in Sizes : IndexBlock(size)) \/ WriteBlock \/ CountBlock

StoreNext == AddBlock \/ Crash \/ OpenBlockStore

-----------------------------------------------------------------------------
(* A block whose AddBlock has returned is read back at its place, whole,   *)
(* however often the process stops, in the middle of a write or not, and   *)
(* the store is opened again: no block is written over another, none moves.*)
Durable ==
  up => \A b \in kept : GetBlock(b.place) = Payload(b.block, b.size)

(* Between two calls, opening the store again would rebuild what is in     *)
(* memory: the index of the blocks and the room that is left.              *)
Rebuildable ==
  up /\ adding = NoAdd => blocks = Scanned /\ currentSize = ScannedSize
=============================================================================
