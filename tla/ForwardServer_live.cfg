CONSTANTS
  Conns = {c1}
  Cell = {"qu", "it"}
  QuitWord <- MCQuitWord
  Chunk = 2
  MaxSent = 3
  Prints <- MCPrintsOne
  NoConn = NoConn
SPECIFICATION FairSpec
INVARIANTS UplinkInOrder
PROPERTIES QuitEndsSession EventuallyRelayed
CHECK_DEADLOCK FALSE
