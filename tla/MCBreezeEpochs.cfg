SPECIFICATION BreezeSpec
INVARIANT QueryOfEpoch
CONSTANTS
  actA = actA
  actB = actB
  NoBuilder = NoBuilder
  Action = {actA, actB}
  Filtered = {actA}
  MaxEpoch = 3
  MaxActions = 2
  Queries <- MCQueries
CHECK_DEADLOCK FALSE
