CONSTANTS
  SOI = SOI
  EOI = EOI
  a1 = a1
  a2 = a2
  Payload <- MCPayload
  Kind <- MCKind
  Addr <- MCAddr
  NoAddr = NoAddr
  MaxStream = 8
  MaxChunk = 7
  MaxFrame = 4
  MaxTyped = 3
SPECIFICATION FairSpec
INVARIANTS TypeOK LedAddressesLatest OneCommandPerLine
PROPERTIES QuitEndsClient
CHECK_DEADLOCK FALSE
