SPECIFICATION ChainSpec
INVARIANT SealReport
CONSTANTS
  actA = actA
  actB = actB
  noise = noise
  Empty = Empty
  NoBlock = NoBlock
  Action = {actA, actB}
  Input = {actA, actB, noise}
  Transform <- MCTransform
  Conflict <- MCConflict
  Genesis = {}
  StartEpoch = 0
  MaxEpoch = 3
  MaxActions = 2
