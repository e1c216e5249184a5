SPECIFICATION TransferSpec
PROPERTY ReceiverServed
CONSTANTS
  MaxSize = 9
  Header = 2
  Base = 2
  Wrap = 6
  Sizes = {2, 3}
  MaxBlocks = 3
  MaxSent = 3
  Dials = 1
CHECK_DEADLOCK FALSE
