SPECIFICATION TakerSpec
INVARIANT AuthorityTypeOK
INVARIANT HeadersComplete
INVARIANT ActionAttributed
INVARIANT PassedOnInOrder
PROPERTY EveryoneServed
CONSTANTS
  maxBlocks = 4
  Client = {c1}
  Subscriber = {s1}
  FirstEpoch = 1
  MaxBlock = 6
  MaxActions = 1
  Sender = {g1, g2}
  plain = plain
  void = void
  signed = signed
  Submission = {plain, void}
  Dress <- MCDress
  MaxSent = 2
CHECK_DEADLOCK FALSE
