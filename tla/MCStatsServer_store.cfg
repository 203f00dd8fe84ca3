CONSTANTS
  c1 = c1
  c2 = c2
  c3 = c3
  u1 = u1
  u2 = u2
  Threads = {t1, t2}
  Clients = {c1, c2}
  Script <- WriterScript
  MessageLength = 2
  Length = 3
  Byte = {1, 2, 3, 4}
  Nul = 0
  Junk = Junk
  None = None
SPECIFICATION Spec
SYMMETRY ThreadSymmetry
INVARIANTS MutualExclusion Serialized InStep RingsInBounds
CHECK_DEADLOCK FALSE
