\* Two messages with one sequence number, sent whole over the serial line.
SPECIFICATION Spec
CONSTANTS
  m1 = m1
  m2 = m2
  m3 = m3
  a = a
  b = b
  c = c
  Messages = {m1, m2, m3}
  Parts <- MCParts
  Ident <- MCIdentAgain
  Garbled = Garbled
  MaxAge = 0
  Readers = {"serial"}
  MaxNow = 0
  MaxWire = 2
  MaxQueue = 1
  MaxFaults = 0
INVARIANTS DecodedWhole
CHECK_DEADLOCK FALSE
