CONSTANTS
  Conns = {c1}
  Cell = {"qu", "it"}
  QuitWord <- MCQuitWord
  Chunk = 2
  MaxSent = 1
  Prints <- MCPrintsOne
  NoConn = NoConn
SPECIFICATION FairSpec
PROPERTIES HangupEndsSession
CHECK_DEADLOCK FALSE
