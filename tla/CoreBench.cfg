SPECIFICATION SafeSpec
CONSTANTS
  Map <- MCMap
  Programs <- MCPrograms
  Bytes = {0, 1}
  Waits = {0, 1, 3}
  MtimeDiv = 2
  Half = 2
  ResetCycles = 3
  None = None
CHECK_DEADLOCK FALSE
INVARIANTS ClintKeepsTime AnswerInTime
PROPERTIES Refines
