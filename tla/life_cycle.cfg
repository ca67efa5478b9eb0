CONSTANTS
  t1 = t1
  d1 = d1
  r1 = r1
  r2 = r2
  Task = {t1}
  Reader = {d1}
  NonBlocking = {}
  Record = {r1, r2}
  NoPid = NoPid
  NULL = NULL
  FifoSlots = 1
  BufferSizes = {2}
  MaxCopies = 1
  Exclusive = TRUE
  MaxLoads = 2
SPECIFICATION FairLife
CHECK_DEADLOCK FALSE
INVARIANTS
  LifeTypeOK
  UsersFindTheFifo
  ReadsAreFaithful
  FailedInitIsUndone
  OopsOnlyByStaleHook
  LifeInv
PROPERTIES
  RemovalEnds
