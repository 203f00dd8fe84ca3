CONSTANTS
  PageSize = 2
  Length = 4
  Byte = {b1, NL}
  Nul = Nul
  Junk = Junk
  MaxRequest = 5
  PieceLength = 3
  NL = NL
  CR = CR
  MaxSent = 2
SPECIFICATION PartsSpec
INVARIANTS TypeOK IndicesOrdered Relayed
PROPERTIES CountFollowsCalls IsByteQueue OthersAreByteQueues ReachesTheOther
CHECK_DEADLOCK FALSE
