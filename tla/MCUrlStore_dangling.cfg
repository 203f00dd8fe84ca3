CONSTANTS
  Urls <- DelimUrls
  Delim = 1
  DebugUrl <- abc
  DebugParent <- ab
  Samplings <- OneSampling
  CountWrap = 8
  MaxCalls = 5
SPECIFICATION Spec
INVARIANT DeletedIsGone
CHECK_DEADLOCK FALSE
