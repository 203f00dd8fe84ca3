CONSTANTS
  Urls <- AllUrls
  Delim = 1
  DebugUrl <- abc
  DebugParent <- ab
  Samplings <- OneSampling
  CountWrap = 8
  MaxCalls = 6
  SumCalls = 7
  Value = {v1, v2}
  NoValue = NoValue
SPECIFICATION PartsSpec
INVARIANTS StoreIsSound StatsFollowChildren WordsAreFound
PROPERTIES SafeUntilFreed
CHECK_DEADLOCK FALSE
