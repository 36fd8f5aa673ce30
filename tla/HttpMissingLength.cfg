SPECIFICATION Spec
CONSTANTS
  Numbers <- Digits
  NumberValue <- DigitValue
  MaxInt = 3
  Feeds <- AllFeeds
  Modes = {"BUFFERED"}
  MaxPieces = 0
  MaxAfterBlock = 2
INVARIANTS
  BodyForEveryBlock
CHECK_DEADLOCK FALSE
