SPECIFICATION SafeSpec
CONSTANTS
  Regs = {1}
  NPc = 8
  DataAddrs = {10, 11}
  FaultAddrs = {7, 12}
  W = 2
  Programs <- SequentialPrograms
  DivCycles = 2
  DmHalt = 5
  DmExc = 5
  Debugged <- DebugPrograms
  InitTvec = 3
  Rams <- DistinctRams
  Irqs = {FALSE}
  None = None
INVARIANTS AccessOnPath AmoAddressOwn FaultComesWithInstruction
PROPERTIES Refines PortStable TranslationQuiet
