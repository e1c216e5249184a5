------------------------------ MODULE HashIndex ------------------------------
(***************************************************************************)
(* Index of index/index.go: a file with the last indexed epoch and one     *)
(* record for each hash of each action, and a map in memory from the first *)
(* bytes of a hash to the places of its records, rebuilt by OpenIndex.     *)
(*                                                                         *)
(* The file is a sequence of cells of 8 bytes: one for the epoch, and for  *)
(* each record two for the 16 bytes of the hash and one for its value.     *)
(* External (papirus.FileStore): bytes past the end of the file read as    *)
(* zero; an append that a crash interrupts leaves a prefix, here of cells. *)
(***************************************************************************)
EXTENDS Integers, Sequences, FiniteSets

CONSTANTS
  Hash,
  Partial,    \* the first IndexBytes of a hash
  Wide,       \* 2^32
  Sequences,  \* bound: sequence numbers, of 0 .. Wide - 1
  MaxIndexed, \* bound: epochs
  MaxRecords  \* bound: records and parts of records

ASSUME IndexAssumption ==
  /\ Wide \in Nat \ {0} /\ MaxIndexed \in Nat /\ MaxRecords \in Nat
  /\ Sequences \subseteq 0 .. Wide - 1
  /\ Hash \subseteq DOMAIN Partial

VARIABLES
  indexer,    \* whether the process runs: "off" or "on"
  file,       \* cells of the file
  index,      \* places in memory, in the order in which they came in
  lastEpoch,
  added,      \* history: the records that were written, in order
  cut,        \* history: hashes whose record a crash cut short
  aligned     \* history: the epoch came first and no record was cut short

indexVars == <<indexer, file, index, lastEpoch, added, cut, aligned>>

StoreCells == 2                \* StoreBytes
RecordCells == StoreCells + 1  \* StoreBytes + 8

NumberCell(n)   == [kind |-> "number", number |-> n]
HashCell(h, k)  == [kind |-> "hash", hash |-> h, part |-> k]

(* ReadAt of the cell at a position, counted from 0. *)
CellAt(position) ==
  IF position < Len(file) THEN file[position + 1] ELSE NumberCell(0)

IndexInit ==
  /\ indexer = "off"
  /\ file = << >> /\ index = << >> /\ lastEpoch = 0
  /\ added = << >> /\ cut = {} /\ aligned = TRUE

-----------------------------------------------------------------------------
(* util.ParseUint64; bytes of a hash make any number. *)
Parsed(cell) == IF cell.kind = "number" THEN {cell.number} ELSE 0 .. MaxIndexed

(* The keys under which OpenIndex files the record at a position; a record *)
(* that does not start with a hash is under a key that nobody looks up.    *)
KeyAt(position) ==
  LET cell == CellAt(position)
  IN  IF cell.kind = "hash" /\ cell.part = 1 THEN <<Partial[cell.hash]>> ELSE << >>

Places(start) ==
  LET n == (Len(file) - start + RecordCells - 1) \div RecordCells
  IN  [i \in 1 .. n |-> LET p == start + (i - 1) * RecordCells
                        IN  [key |-> KeyAt(p), position |-> p]]

(* Fault: the scan starts with the epoch. *)
ScannedFromStart == Places(0)

Scanned == Places(1)

OpenIndex ==
  /\ indexer = "off"
  /\ indexer' = "on"
  /\ lastEpoch' \in Parsed(CellAt(0))
  /\ index' = Scanned
  /\ UNCHANGED <<file, added, cut, aligned>>

(* The epoch overwrites the first cell, whatever is there. *)
NextIndexed(epoch) ==
  /\ indexer = "on"
  /\ lastEpoch' = epoch
  /\ file' = <<NumberCell(epoch)>> \o SubSeq(file, 2, Len(file))
  /\ UNCHANGED <<indexer, index, added, cut, aligned>>

RecordOf(hash, epoch, sequence) ==
  <<HashCell(hash, 1), HashCell(hash, 2), NumberCell(epoch * Wide + sequence)>>

(* Bound: the file takes one more record. *)
RoomOnFile == Len(file) <= RecordCells * (MaxRecords - 1) + 1

(* Add of one hash; a call with several does this for each in turn. *)
Add(epoch, sequence, hash) ==
  /\ indexer = "on" /\ RoomOnFile
  /\ file' = file \o RecordOf(hash, epoch, sequence)
  /\ index' = Append(index, [key |-> <<Partial[hash]>>, position |-> Len(file)])
  /\ added' = Append(added, [hash |-> hash, epoch |-> epoch, sequence |-> sequence])
  /\ aligned' = (aligned /\ file # << >>)
  /\ UNCHANGED <<indexer, lastEpoch, cut>>

Exit ==
  /\ indexer' = "off" /\ index' = << >> /\ lastEpoch' = 0

(* The process ends between two writes. *)
StopIndexer == indexer = "on" /\ Exit /\ UNCHANGED <<file, added, cut, aligned>>

(* The process ends while it appends a record. *)
CutAdd(epoch, sequence, hash) ==
  /\ indexer = "on" /\ RoomOnFile
  /\ \E n \in 1 .. RecordCells - 1 :
       file' = file \o SubSeq(RecordOf(hash, epoch, sequence), 1, n)
  /\ Exit
  /\ cut' = cut \cup {hash} /\ aligned' = FALSE
  /\ UNCHANGED added

IndexNext ==
  \/ OpenIndex \/ StopIndexer
  \/ \E epoch \in 1 .. MaxIndexed :
       \/ NextIndexed(epoch)
       \/ \E sequence \in Sequences, hash \in Hash :
            Add(epoch, sequence, hash) \/ CutAdd(epoch, sequence, hash)

IndexSpec == IndexInit /\ [][IndexNext]_indexVars

-----------------------------------------------------------------------------
(* Fault: the first bytes are taken for the hash. *)
ComparePartial(hash, position) == TRUE

CompareHash(hash, position) ==
  \A k \in 1 .. StoreCells : CellAt(position + k - 1) = HashCell(hash, k)

(* (int(value) << 32) >> 32 keeps the sign bit of 32. *)
Sequence(value) ==
  LET low == value % Wide IN IF 2 * low < Wide THEN low ELSE low - Wide

(* Places that Retrieve reads for a hash, and the epoch of each. *)
Matching(hash) ==
  {i \in DOMAIN index : index[i].key = <<Partial[hash]>>
                        /\ CompareHash(hash, index[i].position)}

ValueAt(i) ==
  LET cell == CellAt(index[i].position + StoreCells)
  IN  IF cell.kind = "number" THEN cell.number ELSE 0

EpochAt(i) == ValueAt(i) \div Wide

(* The map positions of Retrieve: the list of an epoch is made anew at each*)
(* further place of it, so that the last one is left.                      *)
Positions(hash) ==
  {[epoch |-> EpochAt(i), sequence |-> Sequence(ValueAt(i))] :
     i \in {j \in Matching(hash) :
              \A k \in Matching(hash) : k > j => EpochAt(k) # EpochAt(j)}}

(* Retrieve appends a QueryBlock for each epoch, in any order, to an output*)
(* that begins with as many nil pointers.                                  *)
Retrieve(hash) == [nils |-> Cardinality(Positions(hash)), found |-> Positions(hash)]

-----------------------------------------------------------------------------
(* The last action of every epoch that was added for a hash is retrieved,  *)
(* after any restarts and among hashes with the same first bytes, while no *)
(* record was cut short, the file started with an epoch and the sequence   *)
(* leaves the sign bit alone.                                              *)
LastRetrieved ==
  indexer = "on" /\ aligned =>
    \A i \in DOMAIN added :
      LET a == added[i] IN
        /\ 2 * a.sequence < Wide
        /\ \A k \in i + 1 .. Len(added) : added[k].hash # a.hash \/ added[k].epoch # a.epoch
        => [epoch |-> a.epoch, sequence |-> a.sequence] \in Retrieve(a.hash).found

(* What is found for a hash was added for it, up to the sign bit, even     *)
(* after a record of another hash was cut short or written over by the     *)
(* epoch.  It is not said of the nil pointers before it, nor of a hash one *)
(* of whose own records was cut short.                                     *)
RetrieveSound ==
  indexer = "on" =>
    \A hash \in Hash \ cut : \A p \in Retrieve(hash).found :
      \E a \in {added[i] : i \in DOMAIN added} :
        /\ a.hash = hash /\ a.epoch = p.epoch
        /\ p.sequence \in {a.sequence, a.sequence - Wide}
=============================================================================
