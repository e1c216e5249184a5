---------------------------- MODULE SecureVault ----------------------------
(***************************************************************************)
(* The key vault of vault/vault.go and the choice between making and       *)
(* opening it in config/config.go.  A vault file is a salt and records: a  *)
(* secret key each, sealed with the password and the salt.  A process may  *)
(* stop at any moment, in a write too; what it has written stays.          *)
(*                                                                         *)
(* One process uses the file at a time.  The salt is random, so a record is*)
(* opened with the password that sealed it and no other; keys are new.     *)
(***************************************************************************)
EXTENDS Naturals, Sequences

CONSTANTS
  Password,    \* pass phrases
  NoPassword,
  MaxKeys      \* bound: random keys

ASSUME VaultAssumption == NoPassword \notin Password /\ MaxKeys \in Nat

VARIABLES
  process,   \* where the process is; "off" when there is none
  salt,      \* of the file: "absent" (no file), "none", "part", "whole"
  records,   \* whole records of the file
  torn,      \* whether part of another follows them
  cipher,    \* pass phrase behind vault.cipher
  SecretKey,
  Secrets,
  newKey,    \* the key that is being written and returned
  keys,      \* random keys so far
  created,   \* history: what NewSecureVault has returned and made it from
  kept       \* history: keys that GenerateNewKey has returned

fileVars == <<salt, records, torn>>
memoryVars == <<cipher, SecretKey, Secrets, newKey>>
historyVars == <<created, kept>>
vaultVars == <<process, fileVars, memoryVars, keys, historyVars>>

NoKey == 0   \* the zero crypto.PrivateKey
Key == 1 .. MaxKeys
Record == [key : Key, password : Password]
Nothing == [key |-> NoKey, password |-> NoPassword]

Generating == {"writing", "written"}

VaultTypeOK ==
  /\ process \in {"off", "salting", "sealing", "made", "open", "closed"} \cup Generating
  /\ salt \in {"absent", "none", "part", "whole"}
  /\ records \in Seq(Record) /\ torn \in BOOLEAN
  /\ salt = "whole" \/ (records = << >> /\ ~torn)
  /\ cipher \in IF process = "off" THEN {NoPassword} ELSE Password
  /\ SecretKey \in Key \cup {NoKey} /\ Secrets \subseteq Key
  /\ newKey \in IF process \in Generating THEN Key ELSE {NoKey}
  /\ keys \in 0 .. MaxKeys
  /\ created \in Record \cup {Nothing} /\ kept \subseteq Key

Forget == cipher' = NoPassword /\ SecretKey' = NoKey /\ Secrets' = {} /\ newKey' = NoKey

VaultInit ==
  /\ process = "off"
  /\ salt = "absent" /\ records = << >> /\ torn = FALSE
  /\ cipher = NoPassword /\ SecretKey = NoKey /\ Secrets = {} /\ newKey = NoKey
  /\ keys = 0 /\ created = Nothing /\ kept = {}

FileExists == salt # "absent"

RandomKey == keys < MaxKeys /\ keys' = keys + 1

-----------------------------------------------------------------------------
(* NewSecureVault: the file, the salt and the sealed secret, in turn.      *)
Create(p) ==
  /\ process = "off" /\ ~FileExists
  /\ RandomKey
  /\ process' = "salting" /\ salt' = "none"
  /\ cipher' = p /\ SecretKey' = keys' /\ Secrets' = {}
  /\ UNCHANGED <<records, torn, newKey, historyVars>>

WriteSalt ==
  /\ process = "salting"
  /\ process' = "sealing" /\ salt' = "whole"
  /\ UNCHANGED <<records, torn, memoryVars, keys, historyVars>>

Write(key) ==
  /\ records' = Append(records, [key |-> key, password |-> cipher])
  /\ UNCHANGED <<salt, torn, memoryVars, keys, historyVars>>

WriteSecret == process = "sealing" /\ process' = "made" /\ Write(SecretKey)

CreateReturns ==
  /\ process = "made"
  /\ process' = "open"
  /\ created' = [key |-> SecretKey, password |-> cipher]
  /\ UNCHANGED <<fileVars, memoryVars, keys, kept>>

(* Fault: a record that cannot be opened is passed over. *)
DecryptsAny(p) == p \in Password

(* OpenVaultFromPassword ends the program unless it reads a whole salt and *)
(* whole records that the pass phrase opens; with no record any one does.  *)
Decrypts(p) == \A n \in DOMAIN records : records[n].password = p

Opens(p) == salt = "whole" /\ ~torn /\ Decrypts(p)

(* Fault: every key that is read becomes the secret of the wallet. *)
LastSecret == IF records = << >> THEN NoKey ELSE records[Len(records)].key

WalletSecret == IF records = << >> THEN NoKey ELSE records[1].key

(* Fault: the first key is not one of the secrets' and ends the loop. *)
LoadedFirst == {records[n].key : n \in DOMAIN records \cap {1}}

(* Fault: a key is kept at the end of the file, too. *)
LoadedAtEnd == {records[n].key : n \in DOMAIN records} \cup {NoKey}

Loaded == {records[n].key : n \in DOMAIN records}

OpenVaultFromPassword(p) ==
  /\ process = "off" /\ FileExists /\ Opens(p)
  /\ process' = "open" /\ cipher' = p
  /\ SecretKey' = WalletSecret /\ Secrets' = Loaded
  /\ UNCHANGED <<fileVars, newKey, keys, historyVars>>

(* GenerateNewKey, in three steps under the mutex of the vault.            *)
GenerateNewKey ==
  /\ process = "open"
  /\ RandomKey
  /\ process' = "writing" /\ newKey' = keys'
  /\ UNCHANGED <<fileVars, cipher, SecretKey, Secrets, historyVars>>

WriteKey == process = "writing" /\ process' = "written" /\ Write(newKey)

KeyReturns ==
  /\ process = "written"
  /\ process' = "open" /\ newKey' = NoKey
  /\ Secrets' = Secrets \cup {newKey} /\ kept' = kept \cup {newKey}
  /\ UNCHANGED <<fileVars, cipher, SecretKey, keys, created>>

(* SecretKey can still be read; GenerateNewKey would end the program. *)
Close ==
  /\ process = "open"
  /\ process' = "closed"
  /\ UNCHANGED <<fileVars, memoryVars, keys, historyVars>>

(* The process ends, with any part of the write it is in; a failed write   *)
(* ends it in the same way (log.Fatalf).                                   *)
Stop ==
  /\ process # "off"
  /\ process' = "off" /\ Forget
  /\ salt' \in IF process = "salting" THEN {"none", "part", "whole"} ELSE {salt}
  /\ torn' \in IF process \in {"sealing", "writing"} THEN {TRUE, FALSE} ELSE {torn}
  /\ UNCHANGED <<records, keys, historyVars>>

VaultNext ==
  \/ \E p \in Password : Create(p) \/ OpenVaultFromPassword(p)
  \/ WriteSalt \/ WriteSecret \/ CreateReturns
  \/ GenerateNewKey \/ WriteKey \/ KeyReturns
  \/ Close \/ Stop

VaultSpec == VaultInit /\ [][VaultNext]_vaultVars

-----------------------------------------------------------------------------
(* Every key that GenerateNewKey has returned is among the secrets of every*)
(* vault opened later: a restart loses all the keys or none.  It loses all *)
(* when a record was cut short, because then the file does not open.       *)
KeysKept == process = "open" => kept \subseteq Secrets

(* "first key is the private key for the wallet app itself" (vault.go:113):*)
(* once NewSecureVault has returned, an opened vault has the SecretKey that*)
(* was returned, whatever has been generated and cut short since.  It says *)
(* nothing of a file that was cut short before NewSecureVault returned.    *)
WalletKey == created # Nothing /\ process = "open" => SecretKey = created.key

(* A vault that NewSecureVault returned is opened with its pass phrase and *)
(* with no other one, unless a write was cut short.                        *)
Reopenable ==
  created # Nothing /\ ~torn => \A p \in Password : Opens(p) <=> p = created.password
=============================================================================
