CONSTANTS
  c1 = c1
  c2 = c2
  c3 = c3
  u1 = u1
  u2 = u2
  Threads = {t1, t2}
  Clients = {c1, c2}
  Script <- ShortScript
  MessageLength = 1
  Length = 2
  Byte = {1, 2}
  Nul = 0
  Junk = Junk
  None = None
SPECIFICATION FairSpec
PROPERTIES GoneIsReleased SentIsAnswered ServerEnds
CHECK_DEADLOCK FALSE
