CONSTANTS
  Client = {c1, c2}
  S = S
  Nt = Nt
  MaxSent = 2
  MaxNt = 2
  MaxLinks = 2
SPECIFICATION FairSpec
INVARIANTS TypeOK WatchedExactly SameFeed CommandsInOrder CrashHasCause
PROPERTIES EveryoneServed
CHECK_DEADLOCK FALSE
