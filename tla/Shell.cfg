CONSTANTS
  Name <- MCName
  Exec = {"show", "quit"}
  Rank <- MCRank
  MaxInstalled = 3
  Lines <- MCLines
  MaxRan = 2
  MaxArgc = 2
SPECIFICATION FairSpec
INVARIANTS TypeOK ListComplete ListOrdered FirstInstalledRuns ArgvIsWords QuitIsLast
PROPERTIES QuitEndsShell
CHECK_DEADLOCK FALSE
