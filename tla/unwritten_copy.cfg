CONSTANTS
  Mapped = {2, 3, 4, 5}
  Source <- MCSource
  NewSource <- MCNewSource
  Foreign = 3
  CopyArgs <- MCCopyArgs
  PutSizes = {2}
  WrapSize = 2
  LongSize = 2
  WordSize = 2
  ByteValues = 4
  NumRegisters = 4
  Returns <- MCReturns
  WriteCalls <- MCWriteCalls
  MaxWrites = 2
  MaxRecords = 2
  CutWrites = 0
SPECIFICATION Spec
CHECK_DEADLOCK FALSE
INVARIANT EveryCopyIsWritten
