SPECIFICATION FairSpec
PROPERTY RequestServed
VIEW NodeView
CONSTANTS
  actA = actA
  Empty = Empty
  NoBlock = NoBlock
  NoAction = NoAction
  NoSub = NoSub
  Subscriber = {s1}
  Action = {actA}
  Input = {actA, NoAction}
  Transform <- MCTransform
  Conflict <- MCConflict
  Genesis = {}
  StartEpoch = 0
  MaxEpoch = 1
  MaxActions = 1
CHECK_DEADLOCK FALSE
