SPECIFICATION FairSpec
CONSTANTS
  Numbers <- Digits
  NumberValue <- DigitValue
  MaxInt = 3
  Feeds <- AllFeeds
  Modes = {"BUFFERED", "UNBUFFERED"}
  MaxPieces = 3
  MaxAfterBlock = 2
INVARIANTS
  TypeOK
  TokensStartAtData
  BodyAsLongAsAnnounced
  ChunkingIrrelevant
  DeliversMessages
  DeliversWhenNested
PROPERTIES
  EveryChunkEnds
  ImplementsChannel
  NothingHeldBack
CHECK_DEADLOCK FALSE
