CONSTANTS
  Word <- MCWord
  Number <- MCNumber
  Garbage <- MCGarbage
  Texts = {}
  Room <- MCRoom
  Flags <- MCFlags
  LineMax = 8
  MaxComment = 1
SPECIFICATION Spec
INVARIANTS LineAsConfigured
CHECK_DEADLOCK FALSE
