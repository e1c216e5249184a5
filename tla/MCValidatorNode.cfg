SPECIFICATION LoopsSpec
INVARIANT NodeTypeOK
INVARIANT StopsOnlyThere
INVARIANT StreamFaithful
INVARIANT CommitKnown
INVARIANT NewBlocksInOrder
INVARIANT DenseEpochs
INVARIANT CommitMark
INVARIANT Replayable
INVARIANT NoDoubleSpend
PROPERTY SignalServed
PROPERTY ImplementsLog
VIEW NodeView
CONSTANTS
  actA = actA
  Empty = Empty
  NoBlock = NoBlock
  NoAction = NoAction
  NoSub = NoSub
  Subscriber = {s1}
  Action = {actA}
  Input = {actA, NoAction}
  Transform <- MCTransform
  Conflict <- MCConflict
  Genesis = {}
  StartEpoch = 0
  MaxEpoch = 2
  MaxActions = 1
CHECK_DEADLOCK FALSE
