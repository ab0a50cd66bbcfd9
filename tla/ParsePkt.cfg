CONSTANTS
  SOI = SOI
  EOI = EOI
  Payload = {p, q}
  MaxStream = 9
  MaxChunk = 5
  MaxFrame = 4
SPECIFICATION ParseSpec
SYMMETRY Symmetry
INVARIANTS PacketsExact PacketsNotLost CarryFits
PROPERTIES PromptDelivery
CHECK_DEADLOCK FALSE
