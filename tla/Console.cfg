CONSTANTS
  N = 2
  MaxLines = 3
  MaxInput = 2
  Plain = {"x"}
SPECIFICATION ConsoleSpec
INVARIANTS RunsWhatIsSeen
CHECK_DEADLOCK FALSE
