CONSTANTS
  ExpandRate = 2
  WordSize = 2
  Null = Null
  Junk = Junk
  Member = {1, 2}
  Initial = 2
  MaxEnd = 4
  NodeId = {n1, n2, n3}
  ListId = {l1, l2, l3}
  Value = {1, 2}
  RadixKey = {0, 5, 6, 9}
  RadixValue = {1, 2}
SPECIFICATION PartsSpec
SYMMETRY Interchangeable
INVARIANTS ArrayIsSound ListsWellLinked
PROPERTIES ArrayIsKept ListsAreSequences RadixIsEntryBag
CHECK_DEADLOCK FALSE
