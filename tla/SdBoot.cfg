SPECIFICATION Spec
CONSTANTS
  BlockBytes = 12
  MemoryBlocks = 3
  Crc16 <- MCCrc16
  WordBytes = 2
  RxDepth = 2
  BlockWords = 6
  Magic = 17234
  MaxImage = 36
  TrampWords = 1
  Memories <- MCMemories
  Pattern <- MCPattern
  Tramp = Tramp
  Junk = Junk
  MaxResets = 2
  None = None
INVARIANTS EntersImage Verdict
PROPERTIES Refines Terminates
