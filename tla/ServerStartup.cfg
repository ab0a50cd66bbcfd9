CONSTANTS
  Word <- MCWord
  Number <- MCNumber
  Garbage <- MCGarbage
  Texts <- MCTexts
  Room <- MCRoom
  Flags <- MCFlags
  LineMax = 8
  MaxComment = 1
SPECIFICATION Spec
INVARIANTS TypeOK OnlyFlagsLeft SpeedAsConfigured CommentsFit
CHECK_DEADLOCK FALSE
