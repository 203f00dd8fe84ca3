CONSTANTS
  Length = 4
  Byte = {b1, b2}
  Nul = Nul
  Junk = Junk
  MaxRequest = 5
SPECIFICATION Spec
INVARIANT GetsLength
