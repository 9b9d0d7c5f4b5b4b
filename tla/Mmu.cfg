SPECIFICATION Spec
CONSTANTS
  Vpns = {0, 2}
  Ppns = {4, 5, 6}
  Asids = {1}
  Sv32Span = 2
  OtherSpan = 1
  None = None
  Entries = 1
  Satps <- Roots
  Privs = {"S", "M"}
  UserFrames = {6}
  ReadOnlyFrames = {5}
  InitTables <- Tables
  PtPage = 4
  PteWrites <- Writes
  MmuFences <- SomeFences
  FetchPages = {0, 2}
  IdlePages = {2}
  DataReqs <- Stores
INVARIANTS RequestServed FillForMiss AnsweredInTime
PROPERTIES PortStable
