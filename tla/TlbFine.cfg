SPECIFICATION Spec
CONSTANTS
  Vpns = {0, 1, 4, 6}
  Ppns = {1, 2, 3, 8}
  Asids = {1, 2}
  Sv32Span = 4
  OtherSpan = 2
  None = None
  EntryCount = 2
  EnableFineTlbFlush = TRUE
  PageTable <- Leaves
  FenceModes = {"Sv32"}
INVARIANTS NoDuplicates
PROPERTIES Refines
