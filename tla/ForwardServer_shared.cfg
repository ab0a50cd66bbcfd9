CONSTANTS
  Conns = {c1, c2}
  Cell = {"qu", "it"}
  QuitWord <- MCQuitWord
  Chunk = 2
  MaxSent = 0
  Prints <- MCPrintsThree
  NoConn = NoConn
SPECIFICATION Spec
SYMMETRY Symmetry
INVARIANTS TypeOK LossIsOneRead NoSpuriousEnd ReleasedWhenIdle
PROPERTIES KeepsPromise
CHECK_DEADLOCK FALSE
