SPECIFICATION FilesSpec
INVARIANT VaultTypeOK
INVARIANT KeysKept
INVARIANT WalletKey
INVARIANT Reopenable
INVARIANT LastRetrieved
INVARIANT RetrieveSound
INVARIANT BreezeTypeOK
INVARIANT EveryBlockOnce
INVARIANT QueryExact
CONSTANTS
  phraseA = phraseA
  phraseB = phraseB
  hashA = hashA
  hashB = hashB
  NoPassword = NoPassword
  Password = {phraseA, phraseB}
  MaxKeys = 4
  Hash = {hashA, hashB}
  Partial <- MCPartial
  Wide = 4
  Sequences = {0, 1, 2}
  MaxIndexed = 2
  MaxRecords = 3
  actA = actA
  actB = actB
  NoBuilder = NoBuilder
  Action = {actA, actB}
  Filtered = {actA}
  MaxEpoch = 3
  MaxActions = 2
  Queries <- MCQueries
CHECK_DEADLOCK FALSE
