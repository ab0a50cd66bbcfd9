CONSTANTS
  N = 2
  MaxLines = 4
  MaxInput = 2
  Plain = {"x"}
SPECIFICATION EditorSpec
INVARIANTS EditorTypeOK ScreenIsInput RingHoldsLatest
PROPERTIES HistoryIsSeen KeepsPromise
CHECK_DEADLOCK FALSE
