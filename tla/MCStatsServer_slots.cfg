CONSTANTS
  c1 = c1
  c2 = c2
  c3 = c3
  u1 = u1
  u2 = u2
  Threads = {t1, t2}
  Clients = {c1, c2, c3}
  Script <- NoScript
  MessageLength = 2
  Length = 2
  Byte = {1, 2}
  Nul = 0
  Junk = Junk
  None = None
SPECIFICATION Spec
SYMMETRY ThreadSymmetry
INVARIANT FreeSlotAccepts
CHECK_DEADLOCK FALSE
