----------------------------- MODULE FileProofs -----------------------------
(***************************************************************************)
(* Theorems about the two components that live on a file of their own.     *)
(*                                                                         *)
(* The key vault, for any pass phrases and any number of keys and restarts:*)
(* VaultInv.  The hash index, for any hashes, any width of a sequence      *)
(* number and any number of records, restarts and records that were cut    *)
(* short: IndexInv says that the record of a hash that was never cut short *)
(* is whole wherever it lies, and, while none was, that the records and the*)
(* places in memory are those of the actions in order.                     *)
(***************************************************************************)
EXTENDS SecureVault, HashIndex, SequenceTheorems, TLAPS

-----------------------------------------------------------------------------
(* The key vault. *)

(* The processes that make a vault, and those that NewSecureVault or       *)
(* OpenVaultFromPassword has given one.                                    *)
Making == {"salting", "sealing", "made"}
Holding == {"open", "closed"} \cup Generating

(* The inductive invariant.  That a key is not lost depends on the file    *)
(* and on memory: what is returned is in the file, and whoever holds the   *)
(* vault has it in memory.  That the pass phrase stays depends on all      *)
(* records being sealed under one, which is that of the cipher while the   *)
(* vault is held; a vault that was made has a first record, so that only   *)
(* this pass phrase opens it.                                              *)
FileParts ==
  /\ kept \subseteq Loaded
  /\ \A m, n \in DOMAIN records : records[m].password = records[n].password
  /\ torn => process = "off"

MakingParts ==
  /\ process \in Making => SecretKey \in Key /\ created = Nothing
  /\ process \in {"salting", "sealing"} => records = << >>
  /\ process \in {"sealing", "made"} => salt = "whole"
  /\ process = "made" => records = <<[key |-> SecretKey, password |-> cipher]>>

HoldingParts ==
  process \in Holding =>
    /\ salt = "whole"
    /\ kept \subseteq Secrets
    /\ created # Nothing => SecretKey = created.key
    /\ \A n \in DOMAIN records : records[n].password = cipher
    /\ process = "written" => newKey \in Loaded

MadeParts ==
  created # Nothing =>
    /\ records # << >>
    /\ records[1].key = created.key
    /\ records[1].password = created.password

VaultInv ==
  /\ VaultTypeOK
  /\ FileParts
  /\ MakingParts
  /\ HoldingParts
  /\ MadeParts
  /\ process \in Making => kept = {}

-----------------------------------------------------------------------------
(* No vault is yet made, and none is held.                                 *)
LEMMA VaultInvInit == VaultInit => VaultInv
<1> SUFFICES ASSUME VaultInit
             PROVE  VaultInv
  OBVIOUS
<1>1. VaultTypeOK
  <2>1. records \in Seq(Record) /\ keys \in 0 .. MaxKeys
    BY VaultAssumption DEF VaultInit
  <2>2. process \notin Generating
    BY DEF VaultInit, Generating
  <2>3. created \in Record \cup {Nothing}
    BY DEF VaultInit
  <2> QED
    BY <2>1, <2>2, <2>3 DEF VaultInit, VaultTypeOK
<1>2. FileParts /\ MadeParts
  BY DEF VaultInit, FileParts, MadeParts
<1>3. MakingParts /\ HoldingParts /\ (process \in Making => kept = {})
  BY DEF VaultInit, MakingParts, HoldingParts, Making, Holding, Generating
<1> QED
  BY <1>1, <1>2, <1>3 DEF VaultInv

(* A record holds a key. *)
LEMMA RecordKeys ==
  ASSUME VaultTypeOK
  PROVE  \A n \in DOMAIN records : records[n].key \in Key
<1>1. \A n \in DOMAIN records : records[n] \in Record
  BY DEF VaultTypeOK
<1> QED
  BY <1>1 DEF Record

(* A record that is appended comes after the ones that are there. *)
LEMMA WriteAppends ==
  ASSUME records \in Seq(Record), NEW key \in Key, cipher \in Password, Write(key)
  PROVE  /\ records' \in Seq(Record)
         /\ DOMAIN records' = DOMAIN records \cup {Len(records) + 1}
         /\ \A n \in DOMAIN records : records'[n] = records[n]
         /\ records'[Len(records) + 1] = [key |-> key, password |-> cipher]
         /\ records = << >> => records' = <<[key |-> key, password |-> cipher]>>
         /\ records' # << >>
<1> DEFINE r == [key |-> key, password |-> cipher]
<1>1. r \in Record
  BY DEF Record
<1> HIDE DEF r
<1>2. records' = Append(records, r)
  BY DEF Write, r
<1>3. /\ records' \in Seq(Record)
      /\ DOMAIN records' = DOMAIN records \cup {Len(records) + 1}
      /\ \A n \in DOMAIN records : records'[n] = records[n]
      /\ records'[Len(records) + 1] = r
      /\ records' # << >>
  BY <1>1, <1>2
<1>4. records = << >> => records' = <<r>>
  BY <1>1, <1>2
<1> QED
  BY <1>3, <1>4 DEF r

(* A vault is only made where there is no file, so no key is overwritten.   *)
LEMMA CreateInv ==
  ASSUME VaultInv, NEW p \in Password, Create(p)
  PROVE  VaultInv'
<1> USE DEF VaultInv, Generating, Making, Holding, fileVars, memoryVars, historyVars,
        Create
<1>f. records = << >> /\ ~torn /\ created = Nothing /\ kept = {}
  BY DEF VaultTypeOK, FileExists, FileParts, MadeParts, Loaded
<1>k. keys' \in 0 .. MaxKeys /\ keys' \in Key
  BY VaultAssumption DEF VaultTypeOK, RandomKey, Key
<1>1. VaultTypeOK'
  BY <1>f, <1>k DEF VaultTypeOK
<1>2. FileParts'
  BY <1>f DEF FileParts
<1>3. MakingParts'
  BY <1>f, <1>k DEF MakingParts
<1>4. HoldingParts'
  BY DEF HoldingParts
<1>5. MadeParts'
  BY <1>f DEF MadeParts
<1>6. process' \in Making => kept' = {}
  BY <1>f
<1> QED
  BY <1>1, <1>2, <1>3, <1>4, <1>5, <1>6

(* The salt comes before any record. *)
LEMMA WriteSaltInv ==
  ASSUME VaultInv, WriteSalt
  PROVE  VaultInv'
<1> USE DEF VaultInv, Generating, Making, Holding, fileVars, memoryVars, historyVars,
        WriteSalt
<1>1. VaultTypeOK'
  BY DEF VaultTypeOK
<1>2. FileParts'
  BY DEF FileParts
<1>3. MakingParts'
  BY DEF MakingParts
<1>4. HoldingParts'
  BY DEF HoldingParts
<1>5. MadeParts'
  BY DEF MadeParts
<1>6. process' \in Making => kept' = {}
  OBVIOUS
<1> QED
  BY <1>1, <1>2, <1>3, <1>4, <1>5, <1>6

(* The first record is the secret of the wallet. *)
LEMMA WriteSecretInv ==
  ASSUME VaultInv, WriteSecret
  PROVE  VaultInv'
<1> USE DEF VaultInv, Generating, Making, Holding, fileVars, memoryVars, historyVars,
        WriteSecret, Write
<1>1. VaultTypeOK'
  BY WriteAppends DEF VaultTypeOK, MakingParts
<1>2. FileParts'
  BY DEF FileParts, MakingParts
<1>3. MakingParts'
  BY DEF MakingParts
<1>4. HoldingParts'
  BY DEF HoldingParts
<1>5. MadeParts'
  BY DEF MadeParts
<1>6. process' \in Making => kept' = {}
  OBVIOUS
<1> QED
  BY <1>1, <1>2, <1>3, <1>4, <1>5, <1>6

(* The vault that is returned has that secret. *)
LEMMA CreateReturnsInv ==
  ASSUME VaultInv, CreateReturns
  PROVE  VaultInv'
<1> USE DEF VaultInv, Generating, Making, Holding, fileVars, memoryVars, historyVars,
        CreateReturns
<1>1. VaultTypeOK'
  BY SMTT(20) DEF VaultTypeOK, MakingParts
<1>2. FileParts'
  BY DEF FileParts
<1>3. MakingParts'
  BY DEF MakingParts
<1>4. HoldingParts'
  BY DEF MakingParts, HoldingParts
<1>5. MadeParts'
  BY DEF MakingParts, MadeParts
<1>6. process' \in Making => kept' = {}
  OBVIOUS
<1> QED
  BY <1>1, <1>2, <1>3, <1>4, <1>5, <1>6

(* The vault that is opened has all that the file has. *)
LEMMA OpenVaultFromPasswordInv ==
  ASSUME VaultInv, NEW p \in Password, OpenVaultFromPassword(p)
  PROVE  VaultInv'
<1> USE DEF VaultInv, Generating, Making, Holding, fileVars, memoryVars, historyVars,
        OpenVaultFromPassword, FileExists, Opens, Decrypts, WalletSecret, Loaded
<1>r. \A n \in DOMAIN records : records[n].key \in Key
  BY RecordKeys
<1>s. SecretKey' \in Key \cup {NoKey} /\ Secrets' \subseteq Key
  BY <1>r
<1>1. VaultTypeOK'
  BY <1>s DEF VaultTypeOK
<1>2. FileParts'
  BY DEF FileParts
<1>3. MakingParts'
  BY DEF MakingParts
<1>4. HoldingParts'
  BY DEF FileParts, HoldingParts, MadeParts
<1>5. MadeParts'
  BY DEF MadeParts
<1>6. process' \in Making => kept' = {}
  OBVIOUS
<1> QED
  BY <1>1, <1>2, <1>3, <1>4, <1>5, <1>6

(* A new key is not yet returned. *)
LEMMA GenerateNewKeyInv ==
  ASSUME VaultInv, GenerateNewKey
  PROVE  VaultInv'
<1> USE DEF VaultInv, Generating, Making, Holding, fileVars, memoryVars, historyVars,
        GenerateNewKey
<1>1. VaultTypeOK'
  BY VaultAssumption DEF VaultTypeOK, RandomKey, Key
<1>2. FileParts'
  BY DEF FileParts, Loaded
<1>3. MakingParts'
  BY DEF MakingParts
<1>4. HoldingParts'
  BY DEF HoldingParts
<1>5. MadeParts'
  BY DEF MadeParts
<1>6. process' \in Making => kept' = {}
  OBVIOUS
<1> QED
  BY <1>1, <1>2, <1>3, <1>4, <1>5, <1>6

(* A new key is written after the others, sealed like them. *)
LEMMA WriteKeyInv ==
  ASSUME VaultInv, WriteKey
  PROVE  VaultInv'
<1> USE DEF VaultInv, Generating, Making, Holding, fileVars, memoryVars, historyVars,
        WriteKey, Write
<1>w. /\ records' \in Seq(Record)
      /\ DOMAIN records' = DOMAIN records \cup {Len(records) + 1}
      /\ \A n \in DOMAIN records : records'[n] = records[n]
      /\ records'[Len(records) + 1] = [key |-> newKey, password |-> cipher]
      /\ records' # << >>
  BY WriteAppends DEF VaultTypeOK
<1>1. VaultTypeOK'
  BY <1>w DEF VaultTypeOK, HoldingParts
<1>2. FileParts'
  BY <1>w DEF FileParts, HoldingParts, Loaded
<1>3. MakingParts'
  BY <1>w DEF MakingParts
<1>4. HoldingParts'
  BY <1>w DEF HoldingParts, Loaded
<1>5. MadeParts'
  BY <1>w DEF MadeParts
<1>6. process' \in Making => kept' = {}
  BY <1>w
<1> QED
  BY <1>1, <1>2, <1>3, <1>4, <1>5, <1>6

(* A key that is returned is in the file and in memory. *)
LEMMA KeyReturnsInv ==
  ASSUME VaultInv, KeyReturns
  PROVE  VaultInv'
<1> USE DEF VaultInv, Generating, Making, Holding, fileVars, memoryVars, historyVars,
        KeyReturns
<1>1. VaultTypeOK'
  BY DEF VaultTypeOK
<1>2. FileParts'
  BY DEF FileParts, HoldingParts, Loaded
<1>3. MakingParts'
  BY DEF MakingParts
<1>4. HoldingParts'
  BY DEF HoldingParts
<1>5. MadeParts'
  BY DEF MadeParts
<1>6. process' \in Making => kept' = {}
  OBVIOUS
<1> QED
  BY <1>1, <1>2, <1>3, <1>4, <1>5, <1>6

(* A vault that is closed keeps its file. *)
LEMMA CloseInv ==
  ASSUME VaultInv, Close
  PROVE  VaultInv'
<1> USE DEF VaultInv, Generating, Making, Holding, fileVars, memoryVars, historyVars,
        Close
<1>1. VaultTypeOK'
  BY DEF VaultTypeOK
<1>2. FileParts'
  BY DEF FileParts, Loaded
<1>3. MakingParts'
  BY DEF MakingParts
<1>4. HoldingParts'
  BY DEF HoldingParts
<1>5. MadeParts'
  BY DEF MadeParts
<1>6. process' \in Making => kept' = {}
  OBVIOUS
<1> QED
  BY <1>1, <1>2, <1>3, <1>4, <1>5, <1>6

(* A process that stops leaves whole records behind. *)
LEMMA StopInv ==
  ASSUME VaultInv, Stop
  PROVE  VaultInv'
<1> USE DEF VaultInv, Generating, Making, Holding, fileVars, memoryVars, historyVars,
        Stop, Forget
<1>s. /\ salt' \in {"absent", "none", "part", "whole"}
      /\ torn' \in BOOLEAN
      /\ salt' = "whole" \/ (records' = << >> /\ ~torn')
  <2>1. CASE process = "salting"
    BY <2>1 DEF VaultTypeOK, MakingParts, FileParts
  <2>2. CASE process \in {"sealing", "writing"}
    BY <2>2 DEF MakingParts, HoldingParts
  <2>3. CASE process \notin {"salting", "sealing", "writing"}
    BY <2>3 DEF VaultTypeOK
  <2> QED
    BY <2>1, <2>2, <2>3
<1>1. VaultTypeOK'
  BY <1>s DEF VaultTypeOK
<1>2. FileParts'
  BY DEF FileParts, Loaded
<1>3. MakingParts'
  BY DEF MakingParts
<1>4. HoldingParts'
  BY DEF HoldingParts
<1>5. MadeParts'
  BY DEF MadeParts
<1>6. process' \in Making => kept' = {}
  OBVIOUS
<1> QED
  BY <1>1, <1>2, <1>3, <1>4, <1>5, <1>6

(* No step leaves the invariant. *)
LEMMA VaultInvStep == VaultInv /\ [VaultNext]_vaultVars => VaultInv'
<1> SUFFICES ASSUME VaultInv, [VaultNext]_vaultVars
             PROVE  VaultInv'
  OBVIOUS
<1>1. CASE UNCHANGED vaultVars
  BY <1>1 DEF vaultVars, fileVars, memoryVars, historyVars, VaultInv, VaultTypeOK, FileParts,
    MakingParts, HoldingParts, MadeParts, Loaded
<1>2. ASSUME NEW p \in Password, Create(p) PROVE VaultInv'
  BY <1>2, CreateInv
<1>3. ASSUME NEW p \in Password, OpenVaultFromPassword(p) PROVE VaultInv'
  BY <1>3, OpenVaultFromPasswordInv
<1>4. CASE WriteSalt
  BY <1>4, WriteSaltInv
<1>5. CASE WriteSecret
  BY <1>5, WriteSecretInv
<1>6. CASE CreateReturns
  BY <1>6, CreateReturnsInv
<1>7. CASE GenerateNewKey
  BY <1>7, GenerateNewKeyInv
<1>8. CASE WriteKey
  BY <1>8, WriteKeyInv
<1>9. CASE KeyReturns
  BY <1>9, KeyReturnsInv
<1>10. CASE Close
  BY <1>10, CloseInv
<1>11. CASE Stop
  BY <1>11, StopInv
<1> QED
  BY <1>1, <1>2, <1>3, <1>4, <1>5, <1>6, <1>7, <1>8, <1>9, <1>10, <1>11 DEF VaultNext

(* What the invariant says of the properties. *)
LEMMA VaultInvImplies == VaultInv => VaultTypeOK /\ KeysKept /\ WalletKey /\ Reopenable
<1> SUFFICES ASSUME VaultInv
             PROVE  VaultTypeOK /\ KeysKept /\ WalletKey /\ Reopenable
  OBVIOUS
<1>1. VaultTypeOK
  BY DEF VaultInv
<1>2. KeysKept /\ WalletKey
  BY DEF VaultInv, HoldingParts, Holding, KeysKept, WalletKey
<1>3. ASSUME created # Nothing, ~torn, NEW p \in Password
      PROVE  Opens(p) <=> p = created.password
  <2>1. salt = "whole" /\ 1 \in DOMAIN records
    BY <1>3 DEF VaultInv, VaultTypeOK, MadeParts
  <2>2. \A n \in DOMAIN records : records[n].password = created.password
    BY <1>3, <2>1 DEF VaultInv, FileParts, MadeParts
  <2> QED
    BY <1>3, <2>1, <2>2 DEF Opens, Decrypts
<1> QED
  BY <1>1, <1>2, <1>3 DEF Reopenable

(* The vault is in the invariant whatever its callers do and wherever they *)
(* are stopped.                                                            *)
THEOREM VaultInvariant == VaultSpec => []VaultInv
BY VaultInvInit, VaultInvStep, PTL DEF VaultSpec

(* No call and no stop leaves a vault or its file malformed. *)
THEOREM VaultTypeCorrect == VaultSpec => []VaultTypeOK
BY VaultInvariant, VaultInvImplies, PTL

(* A key that GenerateNewKey has returned is in every vault that is opened.*)
THEOREM KeysKeptCorrect == VaultSpec => []KeysKept
BY VaultInvariant, VaultInvImplies, PTL

(* The secret of the wallet never changes. *)
THEOREM WalletKeyCorrect == VaultSpec => []WalletKey
BY VaultInvariant, VaultInvImplies, PTL

(* The pass phrase of a vault opens it, and no other one does, unless a    *)
(* write was cut short.                                                    *)
THEOREM ReopenableCorrect == VaultSpec => []Reopenable
BY VaultInvariant, VaultInvImplies, PTL

-----------------------------------------------------------------------------
(* The hash index. *)


Cells  == {NumberCell(n) : n \in Nat} \cup {HashCell(h, k) : h \in Hash, k \in 1 .. StoreCells}
Added  == [hash : Hash, epoch : Nat, sequence : 0 .. Wide - 1]
PlacesOf == [key : {<< >>} \cup {<<Partial[h]>> : h \in Hash}, position : Nat]

(* The value of a record: epoch and sequence in one number. *)
ValueOf(a) == a.epoch * Wide + a.sequence

(* The record at a place of the file, counted from 1, is that of a. *)
Recorded(f, p, a) ==
  /\ p + StoreCells <= Len(f)
  /\ f[p] = HashCell(a.hash, 1) /\ f[p + 1] = HashCell(a.hash, 2)
  /\ f[p + 2] = NumberCell(ValueOf(a))

(* A record that starts with the first half of a hash none of whose records*)
(* was cut short is whole, wherever it lies.                               *)
WholeOK(f, A, c) ==
  \A p \in 1 .. Len(f), h \in Hash \ c :
    f[p] = HashCell(h, 1) => \E i \in 1 .. Len(A) : A[i].hash = h /\ Recorded(f, p, A[i])

(* While no record was cut short and the file starts with the epoch, the   *)
(* records lie one after the other,                                        *)
RecordsOK(f, A) ==
  \/ f = << >> /\ A = << >>
  \/ /\ Len(f) = 1 + RecordCells * Len(A)
     /\ f[1].kind = "number"
     /\ \A i \in 1 .. Len(A) : Recorded(f, RecordCells * i - 1, A[i])

(* and the places in memory are theirs.                                    *)
PlacesOK(x, A) ==
  /\ Len(x) = Len(A)
  /\ \A i \in 1 .. Len(A) :
       x[i] = [key |-> <<Partial[A[i].hash]>>, position |-> RecordCells * i - 2]

IndexTyped ==
  /\ file \in Seq(Cells) /\ added \in Seq(Added) /\ index \in Seq(PlacesOf)
  /\ indexer \in {"off", "on"} /\ aligned \in BOOLEAN

IndexInv ==
  /\ IndexTyped
  /\ WholeOK(file, added, cut)
  /\ aligned => RecordsOK(file, added)
  /\ aligned /\ indexer = "on" => PlacesOK(index, added)

(* A number is less than the next multiple of a greater number. *)
LEMMA Multiples ==
  ASSUME NEW w \in Nat \ {0}, NEW x \in Nat, NEW y \in Nat, x < y
  PROVE  w * x \in Nat /\ w * y \in Nat /\ w * x + w <= w * y
OBVIOUS

(* Division with remainder. *)
LEMMA Remains ==
  ASSUME NEW x \in Nat, NEW w \in Nat \ {0}
  PROVE  x \div w \in Nat /\ x % w \in 0 .. w - 1 /\ x = (x % w) + w * (x \div w)
OBVIOUS

(* Epoch and sequence are read back from the value. *)
LEMMA ValueIs ==
  ASSUME NEW e \in Nat, NEW s \in 0 .. Wide - 1
  PROVE  /\ e * Wide + s \in Nat
         /\ (e * Wide + s) \div Wide = e
         /\ (e * Wide + s) % Wide = s
<1> DEFINE x == Wide * e + s
           q == x \div Wide
           r == x % Wide
<1>1. Wide \in Nat \ {0}
  BY IndexAssumption
<1>2. Wide * e \in Nat /\ e * Wide = Wide * e /\ x \in Nat
  BY <1>1
<1>3. q \in Nat /\ r \in 0 .. Wide - 1 /\ x = r + Wide * q
  BY <1>1, <1>2, Remains
<1>4. Wide * q \in Nat /\ x = Wide * e + s
  BY <1>1, <1>3
<1> HIDE DEF q, r, x
<1>5. q = e
  <2>1. CASE q < e
    <3>1. Wide * q + Wide <= Wide * e
      BY <1>1, <1>3, <2>1, Multiples
    <3> QED
      BY <1>1, <1>2, <1>3, <1>4, <3>1
  <2>2. CASE e < q
    <3>1. Wide * e + Wide <= Wide * q
      BY <1>1, <1>3, <2>2, Multiples
    <3> QED
      BY <1>1, <1>2, <1>3, <1>4, <3>1
  <2> QED
    BY <1>3, <2>1, <2>2
<1>6. r = s
  BY <1>2, <1>3, <1>4, <1>5
<1> QED
  BY <1>2, <1>5, <1>6 DEF x, q, r

(* Cells are told apart by what they hold. *)
LEMMA CellsDiffer ==
  /\ \A h, g, k, m : HashCell(h, k) = HashCell(g, m) <=> h = g /\ k = m
  /\ \A h, k, n : HashCell(h, k) # NumberCell(n)
  /\ \A n, m : NumberCell(n) = NumberCell(m) <=> n = m
  /\ \A h, k : HashCell(h, k).kind = "hash" /\ HashCell(h, k).hash = h /\ HashCell(h, k).part = k
  /\ \A n : NumberCell(n).kind = "number" /\ NumberCell(n).number = n
BY DEF HashCell, NumberCell

(* The cells of a record. *)
LEMMA RecordIs ==
  ASSUME NEW h \in Hash, NEW e \in Nat, NEW s \in 0 .. Wide - 1
  PROVE  /\ RecordOf(h, e, s) \in Seq(Cells) /\ Len(RecordOf(h, e, s)) = RecordCells
         /\ RecordOf(h, e, s)[1] = HashCell(h, 1)
         /\ RecordOf(h, e, s)[2] = HashCell(h, 2)
         /\ RecordOf(h, e, s)[3] = NumberCell(e * Wide + s)
<1>1. e * Wide + s \in Nat
  BY ValueIs
<1> DEFINE x == HashCell(h, 1)
           y == HashCell(h, 2)
           z == NumberCell(e * Wide + s)
<1>2. x \in Cells /\ y \in Cells /\ z \in Cells
  BY <1>1 DEF Cells, StoreCells
<1> HIDE DEF x, y, z
<1>3. <<x, y, z>> \in Seq(Cells) /\ Len(<<x, y, z>>) = 3
      /\ <<x, y, z>>[1] = x /\ <<x, y, z>>[2] = y /\ <<x, y, z>>[3] = z
  BY <1>2
<1>4. RecordOf(h, e, s) = <<x, y, z>>
  BY DEF RecordOf, x, y, z
<1> QED
  BY <1>3, <1>4 DEF RecordCells, StoreCells, x, y, z

(* The list of records only grows. *)
Grows(A, B) == Len(A) <= Len(B) /\ \A i \in 1 .. Len(A) : B[i] = A[i]

(* The file keeps its cells, except that a number may overwrite the first. *)
Keeps(f, g) ==
  /\ Len(f) <= Len(g)
  /\ \A p \in 1 .. Len(f) : g[p] = f[p] \/ (p = 1 /\ g[1].kind = "number")

(* A record stays whole when nothing is written over its first cell. *)
LEMMA RecordedStays ==
  ASSUME NEW f \in Seq(Cells), NEW g \in Seq(Cells), Keeps(f, g), NEW p \in 1 .. Len(f),
         g[p] = f[p], NEW a, Recorded(f, p, a)
  PROVE  Recorded(g, p, a)
<1>1. Len(f) \in Nat /\ Len(g) \in Nat /\ p + 2 <= Len(f)
  BY LenProperties DEF Recorded, StoreCells
<1>2. p + 1 \in 1 .. Len(f) /\ p + 2 \in 1 .. Len(f) /\ p + 1 # 1 /\ p + 2 # 1
  BY <1>1
<1>3. g[p + 1] = f[p + 1] /\ g[p + 2] = f[p + 2]
  BY <1>2 DEF Keeps
<1>4. p + 2 <= Len(g)
  BY <1>1 DEF Keeps
<1> QED
  BY <1>3, <1>4 DEF Recorded, StoreCells

(* The records of whole hashes among the cells that are new. *)
NewWhole(f, g, B, d) ==
  \A p \in Len(f) + 1 .. Len(g), h \in Hash \ d :
    g[p] = HashCell(h, 1) => \E i \in 1 .. Len(B) : B[i].hash = h /\ Recorded(g, p, B[i])

(* The records that are whole stay so when the file grows. *)
LEMMA WholeStays ==
  ASSUME NEW f \in Seq(Cells), NEW g \in Seq(Cells), NEW A \in Seq(Added), NEW B \in Seq(Added),
         NEW c, NEW d, c \subseteq d, WholeOK(f, A, c), Keeps(f, g), Grows(A, B),
         NewWhole(f, g, B, d)
  PROVE  WholeOK(g, B, d)
<1> SUFFICES ASSUME NEW p \in 1 .. Len(g), NEW h \in Hash \ d, g[p] = HashCell(h, 1)
             PROVE  \E i \in 1 .. Len(B) : B[i].hash = h /\ Recorded(g, p, B[i])
  BY DEF WholeOK
<1>1. Len(f) \in Nat /\ Len(g) \in Nat /\ Len(A) \in Nat /\ Len(B) \in Nat
  BY LenProperties
<1>2. CASE p > Len(f)
  <2>1. p \in Len(f) + 1 .. Len(g)
    BY <1>1, <1>2
  <2> QED
    BY <2>1 DEF NewWhole
<1>3. CASE p <= Len(f)
  <2>1. p \in 1 .. Len(f)
    BY <1>1, <1>3
  <2>2. g[p] = f[p]
    BY <2>1, CellsDiffer DEF Keeps
  <2>3. PICK i \in 1 .. Len(A) : A[i].hash = h /\ Recorded(f, p, A[i])
    BY <2>1, <2>2 DEF WholeOK
  <2>4. i \in 1 .. Len(B) /\ B[i] = A[i]
    BY <1>1 DEF Grows
  <2>5. Recorded(g, p, A[i])
    BY <2>1, <2>2, <2>3, RecordedStays
  <2> QED
    BY <2>3, <2>4, <2>5
<1> QED
  BY <1>1, <1>2, <1>3

(* An empty file. *)
LEMMA IndexInitInv == IndexInit => IndexInv
<1> SUFFICES ASSUME IndexInit PROVE IndexInv
  OBVIOUS
<1>1. file = << >> /\ added = << >> /\ index = << >> /\ indexer = "off" /\ aligned = TRUE
  BY DEF IndexInit
<1>2. << >> \in Seq(Cells) /\ << >> \in Seq(Added) /\ << >> \in Seq(PlacesOf) /\ Len(<< >>) = 0
  OBVIOUS
<1>3. WholeOK(<< >>, << >>, cut)
  BY <1>2 DEF WholeOK
<1> QED
  BY <1>1, <1>2, <1>3 DEF IndexInv, IndexTyped, RecordsOK

(* OpenIndex finds the places of the file, whatever it holds. *)
LEMMA ScannedIs ==
  ASSUME IndexTyped
  PROVE  /\ Scanned \in Seq(PlacesOf)
         /\ RecordsOK(file, added) => PlacesOK(Scanned, added)
<1> DEFINE n == (Len(file) - 1 + RecordCells - 1) \div RecordCells
           at(i) == 1 + (i - 1) * RecordCells
<1>1. Len(file) \in Nat /\ Len(added) \in Nat /\ RecordCells = 3
  BY LenProperties DEF IndexTyped, RecordCells, StoreCells
<1>2. n \in Nat /\ \A i \in 1 .. n : at(i) \in Nat /\ at(i) = 3 * i - 2
  BY <1>1
<1>3. Scanned = [i \in 1 .. n |-> [key |-> KeyAt(at(i)), position |-> at(i)]]
  BY DEF Scanned, Places
<1>4. \A q \in Nat : KeyAt(q) \in {<< >>} \cup {<<Partial[h]>> : h \in Hash}
  <2>1. ASSUME NEW q \in Nat
        PROVE  KeyAt(q) \in {<< >>} \cup {<<Partial[h]>> : h \in Hash}
    <3>1. CellAt(q) \in Cells
      <4>1. CASE q < Len(file)
        <5>1. q + 1 \in 1 .. Len(file)
          BY <1>1, <4>1
        <5> QED
          BY <4>1, <5>1, ElementOfSeq DEF CellAt, IndexTyped
      <4>2. CASE ~ (q < Len(file))
        <5>1. NumberCell(0) \in Cells
          BY DEF Cells
        <5> QED
          BY <4>2, <5>1 DEF CellAt
      <4> QED
        BY <4>1, <4>2
    <3> DEFINE z == CellAt(q)
    <3>2. z.kind = "hash" => z.hash \in Hash
      <4>1. z \in Cells
        BY <3>1
      <4> HIDE DEF z
      <4> QED
        BY <4>1, CellsDiffer DEF Cells
    <3> HIDE DEF z
    <3>3. KeyAt(q) = IF z.kind = "hash" /\ z.part = 1 THEN <<Partial[z.hash]>> ELSE << >>
      BY DEF KeyAt, z
    <3> QED
      BY <3>2, <3>3
  <2> QED
    BY <2>1
<1> HIDE DEF n, at
<1>5. \A i \in 1 .. n : [key |-> KeyAt(at(i)), position |-> at(i)] \in PlacesOf
  BY <1>2, <1>4 DEF PlacesOf
<1>6. Scanned \in Seq(PlacesOf) /\ Len(Scanned) = n
      /\ \A i \in 1 .. n : Scanned[i] = [key |-> KeyAt(at(i)), position |-> at(i)]
  BY <1>2, <1>3, <1>5
<1>7. ASSUME RecordsOK(file, added)
      PROVE  PlacesOK(Scanned, added)
  <2>1. n = Len(added)
    BY <1>1, <1>7 DEF RecordsOK, n
  <2>2. ASSUME NEW i \in 1 .. Len(added)
        PROVE  Scanned[i] = [key |-> <<Partial[added[i].hash]>>, position |-> RecordCells * i - 2]
    <3>1. Recorded(file, 3 * i - 1, added[i])
      BY <1>1, <1>7 DEF RecordsOK
    <3>2. file[3 * i - 1] = HashCell(added[i].hash, 1) /\ 3 * i - 1 + 2 <= Len(file)
      BY <3>1 DEF Recorded, StoreCells
    <3>3. CellAt(3 * i - 2) = HashCell(added[i].hash, 1)
      <4>1. 3 * i - 2 < Len(file) /\ 3 * i - 2 + 1 = 3 * i - 1
        BY <1>1, <3>2
      <4> QED
        BY <3>2, <4>1 DEF CellAt
    <3>4. KeyAt(3 * i - 2) = <<Partial[added[i].hash]>>
      BY <3>3, CellsDiffer DEF KeyAt
    <3> QED
      BY <1>1, <1>2, <1>6, <2>1, <3>4
  <2> QED
    BY <1>6, <2>1, <2>2 DEF PlacesOK
<1> QED
  BY <1>6, <1>7

(* OpenIndex rebuilds the places in memory. *)
LEMMA OpenIndexInv == IndexInv /\ OpenIndex => IndexInv'
<1> SUFFICES ASSUME IndexInv, OpenIndex PROVE IndexInv'
  OBVIOUS
<1>1. /\ indexer' = "on" /\ index' = Scanned
      /\ file' = file /\ added' = added /\ cut' = cut /\ aligned' = aligned
  BY DEF OpenIndex
<1>2. IndexTyped
  BY DEF IndexInv
<1>3. Scanned \in Seq(PlacesOf) /\ (RecordsOK(file, added) => PlacesOK(Scanned, added))
  BY <1>2, ScannedIs
<1>4. IndexTyped'
  BY <1>1, <1>2, <1>3 DEF IndexTyped
<1> QED
  BY <1>1, <1>3, <1>4 DEF IndexInv

(* The epoch is written over the first cell. *)
EpochFirst(f, n) == <<NumberCell(n)>> \o SubSeq(f, 2, Len(f))

LEMMA EpochWritten ==
  ASSUME NEW f \in Seq(Cells), NEW n \in Nat
  PROVE  /\ EpochFirst(f, n) \in Seq(Cells)
         /\ Len(EpochFirst(f, n)) = IF f = << >> THEN 1 ELSE Len(f)
         /\ EpochFirst(f, n)[1] = NumberCell(n)
         /\ Keeps(f, EpochFirst(f, n))
<1> DEFINE g == EpochFirst(f, n)
           z == NumberCell(n)
           t == SubSeq(f, 2, Len(f))
           l == Len(f)
<1>1. z \in Cells /\ z.kind = "number"
  BY CellsDiffer DEF Cells
<1>2. l \in Nat /\ (f = << >> <=> l = 0) /\ \A p \in 1 .. l : f[p] \in Cells
  BY LenProperties, EmptySeq, ElementOfSeq
<1> HIDE DEF z
<1>3. t \in Seq(Cells) /\ Len(t) = (IF 2 <= l THEN l - 1 ELSE 0)
      /\ \A i \in 1 .. l - 1 : t[i] = f[i + 1]
  <2>1. 2 \in Int /\ l \in Int /\ \A i \in 2 .. l : f[i] \in Cells
    BY <1>2
  <2>2. t \in Seq(Cells) /\ Len(t) = (IF 2 <= l THEN l - 2 + 1 ELSE 0)
        /\ \A i \in 1 .. l - 2 + 1 : t[i] = f[2 + i - 1]
    BY <2>1, SubSeqProperties
  <2> QED
    BY <1>2, <2>2
<1> HIDE DEF t
<1>4. <<z>> \in Seq(Cells) /\ Len(<<z>>) = 1 /\ <<z>>[1] = z
  BY <1>1
<1>5. /\ <<z>> \o t \in Seq(Cells)
      /\ Len(<<z>> \o t) = 1 + Len(t)
      /\ \A i \in 1 .. 1 + Len(t) : (<<z>> \o t)[i] = IF i <= 1 THEN <<z>>[i] ELSE t[i - 1]
  BY <1>3, <1>4, ConcatProperties
<1>6. g = <<z>> \o t
  BY DEF z, t, EpochFirst
<1> HIDE DEF g
<1>7. Len(t) \in Nat /\ g[1] = z
  BY <1>2, <1>3, <1>4, <1>5, <1>6
<1>8. ASSUME NEW p \in 2 .. l
      PROVE  g[p] = f[p]
  <2>1. p \in 1 .. 1 + Len(t) /\ ~ (p <= 1) /\ p - 1 \in 1 .. l - 1 /\ p - 1 + 1 = p
    BY <1>2, <1>3
  <2> QED
    BY <1>3, <1>5, <1>6, <2>1
<1> HIDE DEF l
<1>9. Len(g) = (IF f = << >> THEN 1 ELSE l) /\ l <= Len(g)
  <2>1. Len(g) = 1 + Len(t)
    BY <1>5, <1>6
  <2>2. PICK k : k = Len(t)
    OBVIOUS
  <2>3. k = IF 2 <= l THEN l - 1 ELSE 0
    BY <1>3, <2>2
  <2>4. l # 0 => 1 + k = l
    BY <1>2, <2>3
  <2>5. l = 0 => 1 + k = 1
    BY <2>3
  <2>6. Len(g) = 1 + k /\ (f = << >> <=> l = 0) /\ l \in Nat /\ k \in Nat
    BY <1>2, <1>7, <2>1, <2>2
  <2> QED
    BY <2>4, <2>5, <2>6
<1>10. Keeps(f, g)
  <2>1. \A p \in 1 .. l : p = 1 \/ p \in 2 .. l
    BY <1>2
  <2>2. g[1].kind = "number"
    BY <1>1, <1>7
  <2>3. \A p \in 1 .. l : g[p] = f[p] \/ (p = 1 /\ g[1].kind = "number")
    BY <1>8, <2>1, <2>2
  <2> QED
    BY <1>9, <2>3 DEF Keeps, l
<1> QED
  BY <1>5, <1>6, <1>7, <1>9, <1>10 DEF g, z, l

(* Records stay where they are behind the first cell. *)
LEMMA RecordsStay ==
  ASSUME NEW f \in Seq(Cells), NEW g \in Seq(Cells), NEW A \in Seq(Added), Keeps(f, g),
         Len(f) = 1 + RecordCells * Len(A),
         \A i \in 1 .. Len(A) : Recorded(f, RecordCells * i - 1, A[i])
  PROVE  \A i \in 1 .. Len(A) : Recorded(g, RecordCells * i - 1, A[i])
<1> SUFFICES ASSUME NEW i \in 1 .. Len(A)
             PROVE  Recorded(g, RecordCells * i - 1, A[i])
  OBVIOUS
<1>1. Len(A) \in Nat /\ Len(f) = 1 + 3 * Len(A)
  BY LenProperties DEF RecordCells, StoreCells
<1>2. 3 * i - 1 \in 1 .. Len(f) /\ 3 * i - 1 # 1
  BY <1>1
<1>3. g[3 * i - 1] = f[3 * i - 1]
  BY <1>2 DEF Keeps
<1>4. Recorded(f, 3 * i - 1, A[i])
  BY DEF RecordCells, StoreCells
<1>5. Recorded(g, 3 * i - 1, A[i])
  BY <1>2, <1>3, <1>4, RecordedStays
<1> QED
  BY <1>5 DEF RecordCells, StoreCells

(* NextBlock writes the epoch, over the start of a record when the file was*)
(* begun without one: the hash of that record is not found any more.       *)
LEMMA NextIndexedInv ==
  ASSUME IndexInv, NEW e \in 1 .. MaxIndexed, NextIndexed(e)
  PROVE  IndexInv'
<1>1. /\ file' = <<NumberCell(e)>> \o SubSeq(file, 2, Len(file))
      /\ indexer' = indexer /\ index' = index
      /\ added' = added /\ cut' = cut /\ aligned' = aligned
  BY DEF NextIndexed
<1>2. IndexTyped /\ file \in Seq(Cells) /\ added \in Seq(Added) /\ e \in Nat
  BY IndexAssumption DEF IndexInv, IndexTyped
<1>3. PICK g : g = file'
  OBVIOUS
<1>4. /\ g \in Seq(Cells) /\ Len(g) = IF file = << >> THEN 1 ELSE Len(file)
      /\ g[1] = NumberCell(e) /\ Keeps(file, g)
  <2>1. g = EpochFirst(file, e)
    BY <1>1, <1>3 DEF EpochFirst
  <2>2. e \in Nat /\ file \in Seq(Cells)
    BY <1>2
  <2>3. /\ EpochFirst(file, e) \in Seq(Cells)
        /\ Len(EpochFirst(file, e)) = IF file = << >> THEN 1 ELSE Len(file)
        /\ EpochFirst(file, e)[1] = NumberCell(e)
        /\ Keeps(file, EpochFirst(file, e))
    BY <2>2, EpochWritten
  <2> QED
    BY <2>1, <2>3
<1>5. Len(file) \in Nat /\ (file = << >> => Len(file) = 0) /\ (file # << >> => Len(file) # 0)
      /\ Len(added) \in Nat /\ (added = << >> => Len(added) = 0)
  BY <1>2, LenProperties, EmptySeq
<1>6. WholeOK(g, added, cut)
  <2>1. NewWhole(file, g, added, cut)
    <3>1. \A p \in Len(file) + 1 .. Len(g) : p = 1
      BY <1>4, <1>5
    <3>2. \A h \in Hash \ cut : g[1] # HashCell(h, 1)
      BY <1>4, CellsDiffer
    <3> QED
      BY <3>1, <3>2 DEF NewWhole
  <2>2. Grows(added, added)
    BY <1>5 DEF Grows
  <2>3. WholeOK(file, added, cut)
    BY DEF IndexInv
  <2> QED
    BY <1>2, <1>4, <2>1, <2>2, <2>3, WholeStays
<1>7. RecordsOK(file, added) => RecordsOK(g, added)
  <2> SUFFICES ASSUME RecordsOK(file, added) PROVE RecordsOK(g, added)
    OBVIOUS
  <2>1. g[1].kind = "number"
    BY <1>4, CellsDiffer
  <2>2. CASE file = << >> /\ added = << >>
    <3>1. Len(g) = 1 /\ Len(added) = 0
      BY <1>4, <1>5, <2>2
    <3> QED
      BY <2>1, <3>1 DEF RecordsOK, RecordCells, StoreCells
  <2>3. CASE ~ (file = << >> /\ added = << >>)
    <3>1. /\ Len(file) = 1 + RecordCells * Len(added)
          /\ \A i \in 1 .. Len(added) : Recorded(file, RecordCells * i - 1, added[i])
      BY <2>3 DEF RecordsOK
    <3>2. \A i \in 1 .. Len(added) : Recorded(g, RecordCells * i - 1, added[i])
      BY <1>2, <1>4, <3>1, RecordsStay
    <3>3. Len(g) = 1 + RecordCells * Len(added)
      <4>1. Len(file) # 0
        BY <1>5, <3>1 DEF RecordCells, StoreCells
      <4> QED
        BY <1>4, <1>5, <3>1, <4>1
    <3> QED
      BY <2>1, <3>2, <3>3 DEF RecordsOK
  <2> QED
    BY <2>2, <2>3
<1>8. IndexTyped'
  BY <1>1, <1>2, <1>3, <1>4 DEF IndexTyped
<1> QED
  BY <1>1, <1>3, <1>6, <1>7, <1>8 DEF IndexInv

(* Cells behind those of the file. *)
Extended(f, r) == f \o r

LEMMA CellsAppended ==
  ASSUME NEW f \in Seq(Cells), NEW r \in Seq(Cells)
  PROVE  /\ Extended(f, r) \in Seq(Cells)
         /\ Len(Extended(f, r)) = Len(f) + Len(r)
         /\ Len(f) \in Nat /\ Len(r) \in Nat
         /\ \A p \in 1 .. Len(f) : Extended(f, r)[p] = f[p]
         /\ \A p \in 1 .. Len(r) : Extended(f, r)[Len(f) + p] = r[p]
         /\ Keeps(f, Extended(f, r))
<1> DEFINE g == Extended(f, r)
<1>1. Len(f) \in Nat /\ Len(r) \in Nat
  BY LenProperties
<1>2. /\ g \in Seq(Cells) /\ Len(g) = Len(f) + Len(r)
      /\ \A i \in 1 .. Len(f) + Len(r) : g[i] = IF i <= Len(f) THEN f[i] ELSE r[i - Len(f)]
  BY ConcatProperties DEF Extended
<1> HIDE DEF g
<1>3. \A p \in 1 .. Len(f) : p \in 1 .. Len(f) + Len(r) /\ p <= Len(f)
  BY <1>1
<1>4. \A p \in 1 .. Len(f) : g[p] = f[p]
  BY <1>2, <1>3
<1>5. \A p \in 1 .. Len(r) : /\ Len(f) + p \in 1 .. Len(f) + Len(r)
                            /\ ~ (Len(f) + p <= Len(f)) /\ Len(f) + p - Len(f) = p
  BY <1>1
<1>6. \A p \in 1 .. Len(r) : g[Len(f) + p] = r[p]
  BY <1>2, <1>5
<1> QED
  BY <1>1, <1>2, <1>4, <1>6 DEF Keeps, g

(* One more record. *)
RecordFor(a) == RecordOf(a.hash, a.epoch, a.sequence)

LEMMA RecordAdded ==
  ASSUME NEW f \in Seq(Cells), NEW A \in Seq(Added), NEW c, WholeOK(f, A, c), NEW a \in Added,
         NEW g, g = Extended(f, RecordFor(a)), NEW B, B = Append(A, a)
  PROVE  /\ g \in Seq(Cells) /\ B \in Seq(Added) /\ WholeOK(g, B, c)
         /\ f # << >> /\ RecordsOK(f, A) => RecordsOK(g, B)
<1>1. a.hash \in Hash /\ a.epoch \in Nat /\ a.sequence \in 0 .. Wide - 1
  BY DEF Added
<1> DEFINE r == RecordFor(a)
<1>2. /\ r \in Seq(Cells) /\ Len(r) = 3
      /\ r[1] = HashCell(a.hash, 1) /\ r[2] = HashCell(a.hash, 2) /\ r[3] = NumberCell(ValueOf(a))
  <2>1. /\ r \in Seq(Cells) /\ Len(r) = RecordCells
        /\ r[1] = HashCell(a.hash, 1) /\ r[2] = HashCell(a.hash, 2)
        /\ r[3] = NumberCell(ValueOf(a))
    BY Zenon, <1>1, RecordIs DEF ValueOf, RecordFor
  <2>2. RecordCells = 3
    BY DEF RecordCells, StoreCells
  <2> QED
    BY <2>1, <2>2
<1> HIDE DEF r
<1>3. /\ g \in Seq(Cells) /\ Len(g) = Len(f) + 3 /\ Len(f) \in Nat
      /\ \A p \in 1 .. Len(f) : g[p] = f[p]
      /\ \A p \in 1 .. 3 : g[Len(f) + p] = r[p]
      /\ Keeps(f, g)
  <2>1. g = Extended(f, r)
    BY DEF r
  <2>2. /\ Extended(f, r) \in Seq(Cells)
        /\ Len(Extended(f, r)) = Len(f) + Len(r)
        /\ Len(f) \in Nat /\ Len(r) \in Nat
        /\ \A p \in 1 .. Len(f) : Extended(f, r)[p] = f[p]
        /\ \A p \in 1 .. Len(r) : Extended(f, r)[Len(f) + p] = r[p]
        /\ Keeps(f, Extended(f, r))
    BY <1>2, CellsAppended
  <2> QED
    BY <1>2, <2>1, <2>2
<1>4. g[Len(f) + 1] = r[1] /\ g[Len(f) + 2] = r[2] /\ g[Len(f) + 3] = r[3]
  BY <1>3
<1>5. Recorded(g, Len(f) + 1, a)
  BY <1>2, <1>3, <1>4 DEF Recorded, StoreCells
<1>6. /\ B \in Seq(Added) /\ Len(B) = Len(A) + 1 /\ Len(A) \in Nat
      /\ \A i \in 1 .. Len(A) : B[i] = A[i]
      /\ B[Len(A) + 1] = a
  BY AppendProperties, LenProperties
<1>7. Grows(A, B)
  BY <1>6 DEF Grows
<1>8. WholeOK(g, B, c)
  <2>1. ASSUME NEW p \in Len(f) + 1 .. Len(g), NEW h \in Hash \ c, g[p] = HashCell(h, 1)
        PROVE  \E i \in 1 .. Len(B) : B[i].hash = h /\ Recorded(g, p, B[i])
    <3>1. p = Len(f) + 1 \/ p = Len(f) + 2 \/ p = Len(f) + 3
      BY SMTT(20), <1>3
    <3>2. p = Len(f) + 1
      BY <1>2, <1>4, <2>1, <3>1, CellsDiffer
    <3>3. a.hash = h
      BY <1>2, <1>4, <2>1, <3>2, CellsDiffer
    <3>4. Len(A) + 1 \in 1 .. Len(B)
      BY <1>6
    <3> QED
      BY <1>5, <1>6, <3>2, <3>3, <3>4
  <2>2. NewWhole(f, g, B, c)
    BY <2>1 DEF NewWhole
  <2>3. c \subseteq c /\ g \in Seq(Cells) /\ Keeps(f, g) /\ B \in Seq(Added)
    BY <1>3, <1>6
  <2> QED
    BY <1>7, <2>2, <2>3, WholeStays
<1>9. ASSUME f # << >>, RecordsOK(f, A)
      PROVE  RecordsOK(g, B)
  <2>1. /\ Len(f) = 1 + RecordCells * Len(A)
        /\ f[1].kind = "number"
        /\ \A i \in 1 .. Len(A) : Recorded(f, RecordCells * i - 1, A[i])
    BY <1>9 DEF RecordsOK
  <2>2. \A i \in 1 .. Len(A) : Recorded(g, RecordCells * i - 1, A[i])
    BY <1>3, <2>1, RecordsStay
  <2>3. Len(f) = 1 + 3 * Len(A) /\ Len(f) + 1 = 3 * (Len(A) + 1) - 1 /\ 1 \in 1 .. Len(f)
    BY <1>6, <2>1 DEF RecordCells, StoreCells
  <2>4. g[1].kind = "number"
    BY <1>3, <2>1, <2>3
  <2>5. Len(g) = 1 + RecordCells * Len(B)
    BY <1>3, <1>6, <2>3 DEF RecordCells, StoreCells
  <2>6. ASSUME NEW i \in 1 .. Len(B)
        PROVE  Recorded(g, RecordCells * i - 1, B[i])
    <3>1. CASE i \in 1 .. Len(A)
      BY <1>6, <2>2, <3>1
    <3>2. CASE i = Len(A) + 1
      <4>1. RecordCells * i - 1 = Len(f) + 1
        BY <1>6, <2>3, <3>2 DEF RecordCells, StoreCells
      <4> QED
        BY <1>5, <1>6, <3>2, <4>1
    <3> QED
      BY <1>6, <3>1, <3>2
  <2> QED
    BY <2>4, <2>5, <2>6 DEF RecordsOK
<1> QED
  BY <1>3, <1>6, <1>8, <1>9

(* Add appends a record and its place. *)
LEMMA AddInv ==
  ASSUME IndexInv, NEW e \in 1 .. MaxIndexed, NEW s \in Sequences, NEW h \in Hash, Add(e, s, h)
  PROVE  IndexInv'
<1>1. e \in Nat /\ s \in 0 .. Wide - 1 /\ IndexTyped
  BY IndexAssumption DEF IndexInv
<1>2. /\ file' = file \o RecordOf(h, e, s)
      /\ index' = Append(index, [key |-> <<Partial[h]>>, position |-> Len(file)])
      /\ added' = Append(added, [hash |-> h, epoch |-> e, sequence |-> s])
      /\ aligned' = (aligned /\ file # << >>)
      /\ indexer = "on" /\ indexer' = indexer /\ cut' = cut
  BY DEF Add
<1>3. PICK a : a = [hash |-> h, epoch |-> e, sequence |-> s]
  OBVIOUS
<1>4. a \in Added /\ a.hash = h /\ a.epoch = e /\ a.sequence = s
  BY <1>1, <1>3 DEF Added
<1>6. file' = Extended(file, RecordFor(a)) /\ added' = Append(added, a)
  BY <1>2, <1>3, <1>4 DEF Extended, RecordFor
<1>7. PICK g : g = file'
  OBVIOUS
<1>8. PICK B : B = added'
  OBVIOUS
<1>9. file \in Seq(Cells) /\ added \in Seq(Added) /\ index \in Seq(PlacesOf) /\ WholeOK(file, added, cut)
  BY DEF IndexInv, IndexTyped
<1>10. /\ g \in Seq(Cells) /\ B \in Seq(Added) /\ WholeOK(g, B, cut)
       /\ (file # << >> /\ RecordsOK(file, added) => RecordsOK(g, B))
  <2>1. g = Extended(file, RecordFor(a)) /\ B = Append(added, a)
    BY <1>6, <1>7, <1>8
  <2> QED
    BY <1>4, <1>9, <2>1, RecordAdded
<1>11. PICK x : x = [key |-> <<Partial[h]>>, position |-> Len(file)]
  OBVIOUS
<1>12. Len(file) \in Nat /\ Len(added) \in Nat /\ Len(index) \in Nat
  BY <1>9, LenProperties
<1>13. x \in PlacesOf
  BY <1>11, <1>12 DEF PlacesOf
<1>14. /\ index' \in Seq(PlacesOf) /\ Len(index') = Len(index) + 1
       /\ \A i \in 1 .. Len(index) : index'[i] = index[i]
       /\ index'[Len(index) + 1] = x
  BY <1>2, <1>9, <1>11, <1>13, AppendProperties
<1>15. IndexTyped'
  BY <1>1, <1>2, <1>7, <1>8, <1>10, <1>14 DEF IndexTyped
<1>16. ASSUME aligned'
       PROVE  RecordsOK(g, B) /\ PlacesOK(index', B)
  <2>1. aligned /\ file # << >> /\ RecordsOK(file, added) /\ PlacesOK(index, added)
    BY <1>1, <1>2, <1>16 DEF IndexInv, IndexTyped
  <2>2. Len(file) = 1 + 3 * Len(added)
    BY <2>1 DEF RecordsOK, RecordCells, StoreCells
  <2>3. /\ Len(index) = Len(added)
        /\ \A i \in 1 .. Len(added) :
             index[i] = [key |-> <<Partial[added[i].hash]>>, position |-> RecordCells * i - 2]
    BY <2>1 DEF PlacesOK
  <2>4. /\ Len(B) = Len(added) + 1 /\ \A i \in 1 .. Len(added) : B[i] = added[i]
        /\ B[Len(added) + 1] = a
    BY <1>4, <1>6, <1>8, <1>9, AppendProperties
  <2>5. ASSUME NEW i \in 1 .. Len(B)
        PROVE  index'[i] = [key |-> <<Partial[B[i].hash]>>, position |-> RecordCells * i - 2]
    <3>1. CASE i \in 1 .. Len(added)
      BY <1>14, <2>3, <2>4, <3>1
    <3>2. CASE i = Len(added) + 1
      <4>1. RecordCells * i - 2 = Len(file)
        BY <1>12, <2>2, <3>2 DEF RecordCells, StoreCells
      <4> QED
        BY <1>4, <1>11, <1>14, <2>3, <2>4, <3>2, <4>1
    <3> QED
      BY <1>12, <2>4, <3>1, <3>2
  <2>6. PlacesOK(index', B)
    BY <1>14, <2>3, <2>4, <2>5 DEF PlacesOK
  <2> QED
    BY <1>10, <2>1, <2>6
<1> QED
  BY <1>2, <1>7, <1>8, <1>10, <1>15, <1>16 DEF IndexInv
(* A record that a crash cuts short is one of a hash that counts no more.  *)
LEMMA CutAddInv ==
  ASSUME IndexInv, NEW e \in 1 .. MaxIndexed, NEW s \in Sequences, NEW h \in Hash, CutAdd(e, s, h)
  PROVE  IndexInv'
<1>1. e \in Nat /\ s \in 0 .. Wide - 1 /\ IndexTyped
  BY IndexAssumption DEF IndexInv
<1>2. PICK n \in 1 .. 2 : file' = file \o SubSeq(RecordOf(h, e, s), 1, n)
  BY DEF CutAdd, RecordCells, StoreCells
<1>3. /\ indexer' = "off" /\ index' = << >> /\ aligned' = FALSE
      /\ cut' = cut \cup {h} /\ added' = added
  BY DEF CutAdd, Exit
<1> DEFINE x == RecordOf(h, e, s)
           r == SubSeq(x, 1, n)
<1>4. /\ x \in Seq(Cells) /\ Len(x) = 3
      /\ x[1] = HashCell(h, 1) /\ x[2] = HashCell(h, 2)
  <2>1. /\ x \in Seq(Cells) /\ Len(x) = RecordCells
        /\ x[1] = HashCell(h, 1) /\ x[2] = HashCell(h, 2)
    BY Zenon, <1>1, RecordIs
  <2>2. RecordCells = 3
    BY DEF RecordCells, StoreCells
  <2> QED
    BY <2>1, <2>2
<1> HIDE DEF x
<1>5. \A i \in 1 .. n : x[i] \in Cells
  <2>1. \A i \in 1 .. Len(x) : x[i] \in Cells
    BY Zenon, <1>4, ElementOfSeq
  <2>2. \A i \in 1 .. n : i \in 1 .. 3
    OBVIOUS
  <2> QED
    BY <1>4, <2>1, <2>2
<1>6. r \in Seq(Cells) /\ Len(r) = n /\ \A i \in 1 .. n : r[i] = x[i]
  <2>1. 1 \in Int /\ n \in Int /\ 1 <= n
    OBVIOUS
  <2>2. /\ r \in Seq(Cells) /\ Len(r) = (IF 1 <= n THEN n - 1 + 1 ELSE 0)
        /\ \A i \in 1 .. n - 1 + 1 : r[i] = x[1 + i - 1]
    BY <1>5, <2>1, SubSeqProperties
  <2> QED
    BY <2>1, <2>2
<1> HIDE DEF r
<1>7. PICK g : g = file'
  OBVIOUS
<1>8. /\ g \in Seq(Cells) /\ Len(g) = Len(file) + n /\ Len(file) \in Nat
      /\ \A p \in 1 .. n : g[Len(file) + p] = r[p]
      /\ Keeps(file, g)
  <2>1. g = Extended(file, r) /\ file \in Seq(Cells)
    BY <1>1, <1>2, <1>7 DEF Extended, IndexTyped, r, x
  <2>2. /\ Extended(file, r) \in Seq(Cells)
        /\ Len(Extended(file, r)) = Len(file) + Len(r)
        /\ Len(file) \in Nat
        /\ \A p \in 1 .. Len(r) : Extended(file, r)[Len(file) + p] = r[p]
        /\ Keeps(file, Extended(file, r))
    BY <1>6, <2>1, CellsAppended
  <2> QED
    BY <1>6, <2>1, <2>2
<1>9. NewWhole(file, g, added, cut \cup {h})
  <2>1. ASSUME NEW p \in Len(file) + 1 .. Len(g), NEW k \in Hash \ (cut \cup {h})
        PROVE  g[p] # HashCell(k, 1)
    <3>1. p - Len(file) \in 1 .. n /\ Len(file) + (p - Len(file)) = p
      BY <1>8
    <3>2. g[p] = r[p - Len(file)]
      BY <1>8, <3>1
    <3>3. g[p] = x[p - Len(file)]
      BY <1>6, <3>1, <3>2
    <3>4. p - Len(file) = 1 \/ p - Len(file) = 2
      BY <3>1
    <3>5. g[p] = HashCell(h, 1) \/ g[p] = HashCell(h, 2)
      BY <1>4, <3>3, <3>4
    <3> QED
      BY <3>5, CellsDiffer
  <2> QED
    BY <2>1 DEF NewWhole
<1>10. WholeOK(g, added, cut \cup {h})
  <2>1. Grows(added, added)
    BY <1>1, LenProperties DEF Grows, IndexTyped
  <2>2. WholeOK(file, added, cut) /\ file \in Seq(Cells) /\ added \in Seq(Added)
    BY DEF IndexInv, IndexTyped
  <2>3. cut \subseteq cut \cup {h} /\ g \in Seq(Cells) /\ Keeps(file, g)
    BY <1>8
  <2> QED
    BY <1>9, <2>1, <2>2, <2>3, WholeStays
<1>11. IndexTyped'
  <2>1. << >> \in Seq(PlacesOf)
    OBVIOUS
  <2>2. index' \in Seq(PlacesOf)
    BY <1>3, <2>1
  <2>3. file' \in Seq(Cells) /\ added' \in Seq(Added) /\ indexer' \in {"off", "on"} /\ aligned' \in BOOLEAN
    BY <1>1, <1>3, <1>7, <1>8 DEF IndexTyped
  <2> QED
    BY <2>2, <2>3 DEF IndexTyped
<1> QED
  BY <1>3, <1>7, <1>10, <1>11 DEF IndexInv

(* The process ends between two writes, or nothing happens. *)
LEMMA IndexerStopsInv == IndexInv /\ (StopIndexer \/ UNCHANGED indexVars) => IndexInv'
<1>1. ASSUME IndexInv, StopIndexer
      PROVE  IndexInv'
  <2>1. /\ indexer' = "off" /\ index' = << >>
        /\ file' = file /\ added' = added /\ cut' = cut /\ aligned' = aligned
    BY <1>1 DEF StopIndexer, Exit
  <2>2. IndexTyped'
    BY <1>1, <2>1 DEF IndexInv, IndexTyped
  <2> QED
    BY <1>1, <2>1, <2>2 DEF IndexInv
<1>2. ASSUME IndexInv, UNCHANGED indexVars
      PROVE  IndexInv'
  BY <1>2 DEF IndexInv, IndexTyped, indexVars
<1> QED
  BY <1>1, <1>2

(* Every step keeps the invariant. *)
LEMMA IndexInvStep == IndexInv /\ [IndexNext]_indexVars => IndexInv'
<1> SUFFICES ASSUME IndexInv, [IndexNext]_indexVars PROVE IndexInv'
  OBVIOUS
<1>1. CASE OpenIndex
  BY <1>1, OpenIndexInv
<1>2. CASE StopIndexer \/ UNCHANGED indexVars
  BY <1>2, IndexerStopsInv
<1>3. ASSUME NEW e \in 1 .. MaxIndexed, NextIndexed(e)
      PROVE  IndexInv'
  BY <1>3, NextIndexedInv
<1>4. ASSUME NEW e \in 1 .. MaxIndexed, NEW s \in Sequences, NEW h \in Hash, Add(e, s, h)
      PROVE  IndexInv'
  BY <1>4, AddInv
<1>5. ASSUME NEW e \in 1 .. MaxIndexed, NEW s \in Sequences, NEW h \in Hash, CutAdd(e, s, h)
      PROVE  IndexInv'
  BY <1>5, CutAddInv
<1> QED
  BY <1>1, <1>2, <1>3, <1>4, <1>5 DEF IndexNext

(* What Retrieve reads at the place of a record. *)
LEMMA ReadBack ==
  ASSUME IndexInv, NEW i \in DOMAIN index, NEW a \in Added,
         Recorded(file, index[i].position + 1, a)
  PROVE  EpochAt(i) = a.epoch /\ ValueAt(i) % Wide = a.sequence
<1>1. index[i].position \in Nat /\ Len(file) \in Nat
  <2>1. index \in Seq(PlacesOf) /\ file \in Seq(Cells)
    BY DEF IndexInv, IndexTyped
  <2>2. index[i] \in PlacesOf
    BY <2>1, LenProperties, ElementOfSeq
  <2> QED
    BY <2>1, <2>2, LenProperties DEF PlacesOf
<1> DEFINE q == index[i].position
<1>2. q + 2 < Len(file) /\ file[q + 2 + 1] = NumberCell(ValueOf(a))
  <2>1. q + 1 + 2 <= Len(file) /\ file[q + 1 + 2] = NumberCell(ValueOf(a))
    BY DEF Recorded, StoreCells
  <2>2. q + 1 + 2 = q + 2 + 1
    BY <1>1
  <2> QED
    BY <1>1, <2>1, <2>2
<1>3. CellAt(q + 2) = NumberCell(ValueOf(a))
  BY <1>2 DEF CellAt
<1>4. ValueAt(i) = ValueOf(a)
  BY <1>3, CellsDiffer DEF ValueAt, StoreCells
<1>5. a.epoch \in Nat /\ a.sequence \in 0 .. Wide - 1
  BY DEF Added
<1> HIDE DEF q
<1> QED
  BY <1>4, <1>5, ValueIs DEF EpochAt, ValueOf

(* A match is a place at which the two cells of the hash lie. *)
LEMMA MatchIs ==
  ASSUME IndexInv, NEW h \in Hash, NEW i \in Matching(h)
  PROVE  /\ i \in DOMAIN index /\ index[i].position + 1 \in 1 .. Len(file)
         /\ file[index[i].position + 1] = HashCell(h, 1)
<1>1. i \in DOMAIN index /\ CompareHash(h, index[i].position)
  BY DEF Matching
<1>2. index[i].position \in Nat /\ Len(file) \in Nat
  <2>1. index \in Seq(PlacesOf) /\ file \in Seq(Cells)
    BY DEF IndexInv, IndexTyped
  <2>2. index[i] \in PlacesOf
    BY <1>1, <2>1, LenProperties, ElementOfSeq
  <2> QED
    BY <2>1, <2>2, LenProperties DEF PlacesOf
<1>3. CellAt(index[i].position + 1 - 1) = HashCell(h, 1)
  BY <1>1 DEF CompareHash, StoreCells
<1>4. index[i].position + 1 - 1 = index[i].position
  BY <1>2
<1>5. CellAt(index[i].position) = HashCell(h, 1)
  BY <1>3, <1>4
<1>6. index[i].position < Len(file)
  BY <1>5, CellsDiffer DEF CellAt
<1> QED
  BY <1>1, <1>2, <1>5, <1>6 DEF CellAt

(* What follows from the invariant. *)
LEMMA IndexInvSound == IndexInv => RetrieveSound
<1> SUFFICES ASSUME IndexInv, NEW h \in Hash \ cut, NEW p \in Retrieve(h).found
             PROVE  \E a \in {added[i] : i \in DOMAIN added} :
                      /\ a.hash = h /\ a.epoch = p.epoch
                      /\ p.sequence \in {a.sequence, a.sequence - Wide}
  BY DEF RetrieveSound
<1>1. PICK i \in Matching(h) : p = [epoch |-> EpochAt(i), sequence |-> Sequence(ValueAt(i))]
  BY DEF Retrieve, Positions
<1>2. /\ i \in DOMAIN index /\ index[i].position + 1 \in 1 .. Len(file)
      /\ file[index[i].position + 1] = HashCell(h, 1)
  BY MatchIs
<1>3. PICK k \in 1 .. Len(added) : added[k].hash = h /\ Recorded(file, index[i].position + 1, added[k])
  BY <1>2 DEF IndexInv, WholeOK
<1>4. added \in Seq(Added) /\ k \in DOMAIN added
  BY LenProperties DEF IndexInv, IndexTyped
<1>5. added[k] \in Added
  BY <1>4, ElementOfSeq
<1>6. EpochAt(i) = added[k].epoch /\ ValueAt(i) % Wide = added[k].sequence
  BY <1>2, <1>3, <1>5, ReadBack
<1>7. p.sequence \in {added[k].sequence, added[k].sequence - Wide}
  <2>1. added[k].sequence \in 0 .. Wide - 1 /\ Wide \in Nat
    BY <1>5, IndexAssumption DEF Added
  <2>2. p.sequence = IF 2 * added[k].sequence < Wide THEN added[k].sequence ELSE added[k].sequence - Wide
    BY <1>1, <1>6 DEF Sequence
  <2> QED
    BY <2>1, <2>2
<1> QED
  BY <1>1, <1>3, <1>4, <1>6, <1>7

LEMMA IndexInvLast == IndexInv => LastRetrieved
<1> SUFFICES ASSUME IndexInv, indexer = "on", aligned, NEW i \in DOMAIN added,
                    2 * added[i].sequence < Wide,
                    \A k \in i + 1 .. Len(added) :
                      added[k].hash # added[i].hash \/ added[k].epoch # added[i].epoch
             PROVE  [epoch |-> added[i].epoch, sequence |-> added[i].sequence]
                      \in Retrieve(added[i].hash).found
  BY DEF LastRetrieved
<1> DEFINE h == added[i].hash
<1>1. /\ added \in Seq(Added) /\ index \in Seq(PlacesOf)
      /\ RecordsOK(file, added) /\ PlacesOK(index, added)
  BY DEF IndexInv, IndexTyped
<1>2. Len(added) \in Nat /\ DOMAIN added = 1 .. Len(added) /\ DOMAIN index = 1 .. Len(added)
  BY <1>1, LenProperties DEF PlacesOK
<1>3. ASSUME NEW k \in 1 .. Len(added)
      PROVE  /\ added[k] \in Added
             /\ index[k] = [key |-> <<Partial[added[k].hash]>>, position |-> 3 * k - 2]
             /\ Recorded(file, 3 * k - 1, added[k])
             /\ EpochAt(k) = added[k].epoch /\ ValueAt(k) % Wide = added[k].sequence
  <2>1. added[k] \in Added
    BY <1>1, ElementOfSeq
  <2>2. index[k] = [key |-> <<Partial[added[k].hash]>>, position |-> 3 * k - 2]
    BY <1>1 DEF PlacesOK, RecordCells, StoreCells
  <2>3. Recorded(file, 3 * k - 1, added[k])
    <3>1. added # << >>
      BY <1>2
    <3> QED
      BY <1>1, <3>1 DEF RecordsOK, RecordCells, StoreCells
  <2>4. index[k].position + 1 = 3 * k - 1
    BY <2>2
  <2>5. EpochAt(k) = added[k].epoch /\ ValueAt(k) % Wide = added[k].sequence
    BY <1>2, <2>1, <2>3, <2>4, ReadBack
  <2> QED
    BY <2>1, <2>2, <2>3, <2>5
<1>4. i \in Matching(h)
  <2>1. index[i].key = <<Partial[h]>> /\ index[i].position = 3 * i - 2
    BY <1>2, <1>3
  <2>2. /\ 3 * i - 1 + 2 <= Len(file)
        /\ file[3 * i - 1] = HashCell(h, 1) /\ file[3 * i - 1 + 1] = HashCell(h, 2)
    BY <1>2, <1>3 DEF Recorded, StoreCells
  <2>3. Len(file) \in Nat
    BY LenProperties DEF IndexInv, IndexTyped
  <2>4. CellAt(3 * i - 2 + 1 - 1) = HashCell(h, 1) /\ CellAt(3 * i - 2 + 2 - 1) = HashCell(h, 2)
    <3>1. /\ 3 * i - 2 + 1 - 1 < Len(file) /\ 3 * i - 2 + 1 - 1 + 1 = 3 * i - 1
          /\ 3 * i - 2 + 2 - 1 < Len(file) /\ 3 * i - 2 + 2 - 1 + 1 = 3 * i - 1 + 1
      BY <1>2, <2>2, <2>3
    <3> QED
      BY <2>2, <3>1 DEF CellAt
  <2>5. CompareHash(h, 3 * i - 2)
    <3>1. \A k \in 1 .. 2 : k = 1 \/ k = 2
      OBVIOUS
    <3> QED
      BY <2>4, <3>1 DEF CompareHash, StoreCells
  <2> QED
    BY <1>2, <2>1, <2>5 DEF Matching
<1>5. ASSUME NEW k \in Matching(h), k > i
      PROVE  EpochAt(k) # EpochAt(i)
  <2>1. h \in Hash
    BY <1>2, <1>3 DEF Added
  <2>2. k \in 1 .. Len(added) /\ file[index[k].position + 1] = HashCell(h, 1)
    BY <1>2, <2>1, MatchIs
  <2>3. index[k].position + 1 = 3 * k - 1
    <3>3. k \in 1 .. Len(added)
      BY <2>2
    <3>4. index[k] = [key |-> <<Partial[added[k].hash]>>, position |-> 3 * k - 2]
      BY <1>3, <3>3
    <3>1. index[k].position = 3 * k - 2
      BY <3>4
    <3>2. k \in Nat
      BY <1>2, <2>2
    <3> QED
      BY <3>1, <3>2
  <2>4. file[3 * k - 1] = HashCell(added[k].hash, 1)
    BY <1>3, <2>2 DEF Recorded
  <2>5. added[k].hash = h
    BY <2>2, <2>3, <2>4, CellsDiffer
  <2>6. k \in i + 1 .. Len(added)
    BY <1>2, <1>5, <2>2
  <2> QED
    BY <1>2, <1>3, <2>2, <2>5, <2>6
<1>6. EpochAt(i) = added[i].epoch /\ Sequence(ValueAt(i)) = added[i].sequence
  BY <1>2, <1>3 DEF Sequence
<1> QED
  BY <1>4, <1>5, <1>6 DEF Retrieve, Positions

(* The inductive invariant of the index. *)
THEOREM IndexInvariant == IndexSpec => []IndexInv
<1> QED
  BY IndexInitInv, IndexInvStep, PTL DEF IndexSpec

(* The positions that Retrieve returns after its nil pointers were added   *)
(* for the hash, up to the sign bit, whatever was cut short or written over*)
(* for other hashes (Retrieve of index.go).                                *)
THEOREM RetrieveSoundCorrect == IndexSpec => []RetrieveSound
<1> QED
  BY IndexInvariant, IndexInvSound, PTL

(* Retrieve finds the last action of every epoch of a hash, after any      *)
(* number of restarts (OpenIndex, Add and Retrieve of index.go).           *)
THEOREM LastRetrievedCorrect == IndexSpec => []LastRetrieved
<1> QED
  BY IndexInvariant, IndexInvLast, PTL
=============================================================================
