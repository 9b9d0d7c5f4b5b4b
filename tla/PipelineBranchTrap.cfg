SPECIFICATION Spec
CONSTANTS
  Regs = {1}
  NPc = 6
  DataAddrs = {10}
  FaultAddrs = {12}
  W = 2
  Programs <- BranchTrapPrograms
  DivCycles = 2
  DmHalt = 4
  DmExc = 4
  Debugged = {}
  InitTvec = 4
  Rams <- DistinctRams
  Irqs = {FALSE}
  None = None
PROPERTIES BranchTrapTaken
