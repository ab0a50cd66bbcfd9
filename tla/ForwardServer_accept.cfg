CONSTANTS
  Conns = {c1, c2}
  Cell = {"qu", "it"}
  QuitWord <- MCQuitWord
  Chunk = 2
  MaxSent = 0
  Prints <- MCPrintsOne
  NoConn = NoConn
SPECIFICATION FairSpec
PROPERTIES EveryClientAccepted
CHECK_DEADLOCK FALSE
