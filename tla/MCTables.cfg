CONSTANTS
  Key = {1, 2, 3, 4}
  Data <- KeyData
  HashOf <- Hashes
  Buckets = 2
  InitialMax = 1
  ExpandRate = 2
  WordSize = 2
  MaxNodes = 4
  Null = Null
  Junk = Junk
  TreeKey = {1, 2, 3, 4}
  TreeNode = {n1, n2, n3, n4, n5}
SPECIFICATION PartsSpec
SYMMETRY Interchangeable
INVARIANTS RoomForPush NodesInPlace TreesFitTogether
PROPERTIES IsMapInOrder TreeIsEntryBag SetKeepsBalance
