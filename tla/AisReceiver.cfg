\* Every way a read can cut the line, and datagrams with one fault.
SPECIFICATION FairSpec
CONSTANTS
  m1 = m1
  m2 = m2
  m3 = m3
  a = a
  b = b
  c = c
  Messages = {m1, m2, m3}
  Parts <- MCParts
  Ident <- MCIdent
  Garbled = Garbled
  MaxAge = 0
  Readers = {"serial", "udp"}
  MaxNow = 1
  MaxWire = 2
  MaxQueue = 1
  MaxFaults = 1
INVARIANTS TypeOK DecodedWholeAlone SerialLinesKept
PROPERTIES RefinesDecrypt MessagesEventuallyDecoded
CHECK_DEADLOCK FALSE
