CONSTANTS
  t1 = t1
  t2 = t2
  d1 = d1
  r1 = r1
  r2 = r2
  Task = {t1, t2}
  Client = {t1}
  Reader = {d1}
  NonBlocking = {}
  Record = {r1, r2}
  NoPid = NoPid
  NULL = NULL
  Nobody = Nobody
  FifoSlots = 1
  BufferSizes = {2}
  MaxCopies = 1
  Exclusive = FALSE
SPECIFICATION FairSession
CHECK_DEADLOCK FALSE
INVARIANTS
  SessionTypeOK
  NoUndefinedUse
  RecordFaithful
  SnapshotIsFirst
PROPERTIES
  FirstCallIsRecorded
  StoppedClientResumes
