CONSTANTS
  Calls = {"open", "openat", "socket", "close", "mmap", "munmap",
           "accept", "read", "write"}
  Data = {1}
  WriteSize = 2
  Inherited = {0}
  MaxCalls = 4
  MaxLost = 1
  Signals = TRUE
SPECIFICATION Spec
CHECK_DEADLOCK FALSE
INVARIANTS
  TypeOK
  SeesRecording
  MapsSameFiles
  ClosesSameFiles
  OutputReplayed
  CallsAreExpected
  OnlyOpenAndErrorsRaise
  LossIsNoticed
