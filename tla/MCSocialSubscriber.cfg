SPECIFICATION SubscriberSpec
INVARIANT SubscriberTypeOK
INVARIANT DeliveredFaithful
INVARIANT DeliveredInOrder
INVARIANT NeverSilent
PROPERTY CommitsTaken
VIEW SubscriberView
CONSTANTS
  actA = actA
  Empty = Empty
  NoBlock = NoBlock
  Action = {actA}
  Input = {actA}
  Transform <- MCTransform
  Conflict <- MCConflict
  Genesis = {}
  StartEpoch = 0
  MaxEpoch = 2
  MaxActions = 1
  MaxWire = 3
CHECK_DEADLOCK FALSE
