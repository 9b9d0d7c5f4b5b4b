SPECIFICATION Spec
CONSTANTS
  Memory = {0, 1, 2, 3}
  WordBytes = 2
  Byte = {0, 1, 2, 3, 4, 5, 6}
  Sessions <- MCSessions
  RemoteSessions <- MCRemoteSessions
  DMI_RETRIES = 3
  Polls = 3
  DMI_IDLE_CYCLES = 1
  Capacity = 5
  ChunkMax = 3
  Error = Error
  None = None
INVARIANTS InStep NeverMistaken
PROPERTIES HartAsAsked Refines Ends
