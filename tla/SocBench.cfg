SPECIFICATION MCSpec
CONSTANTS
  Commands <- CommandLines
  SramBases = {0, 8}
  SramSize = 4
  MemBase = 8
  MemSize = 8
  FlashSize = 6
  Align = 2
  StageBytes = 4
  PatternStart = 3
  MaxPolls = 1
  Pass = 3
  Fail = 5
  None = None
  Error = Error
  Nothing = Nothing
  Writes <- MCWrites
  Reads <- MCReads
  WriteData <- Words
  MemorySize = 4
  WordBytes = 2
  BitCycles = 32
  SocBits = {31, 32, 33}
  ByteBits = 8
  Texts <- MCTexts
  Pages <- MCPages
  PageAt <- MCPageAt
  FlashReads = {0, 66051, 16777215}
  MaxBytes = 4
INVARIANTS VerdictTrue RomWaits ReadIsFresh WriteIsDone BytesInOrder BytesAreFlash
PROPERTIES JumpsIntoImage AllEnd
CHECK_DEADLOCK FALSE
