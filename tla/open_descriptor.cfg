CONSTANTS
  Calls = {"open", "close", "mmap"}
  Data = {1, 2}
  WriteSize = 2
  Inherited = {}
  MaxCalls = 4
  MaxLost = 0
  Signals = FALSE
SPECIFICATION Spec
CHECK_DEADLOCK FALSE
INVARIANTS
  ReturnsAreExpected
