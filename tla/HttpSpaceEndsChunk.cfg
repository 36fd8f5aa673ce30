SPECIFICATION Spec
CONSTANTS
  Numbers <- Digits
  NumberValue <- DigitValue
  MaxInt = 3
  Feeds <- AllFeeds
  Modes = {"BUFFERED"}
  MaxPieces = 3
  MaxAfterBlock = 2
INVARIANTS
  SpacesAreSkipped
CHECK_DEADLOCK FALSE
