CONSTANTS
  t1 = t1
  t2 = t2
  d1 = d1
  d2 = d2
  r1 = r1
  r2 = r2
  r3 = r3
  Task = {t1, t2}
  Reader = {d1}
  NonBlocking = {}
  Record = {r1, r2, r3}
  NoPid = NoPid
  NULL = NULL
  FifoSlots = 2
  BufferSizes = {1, 2}
  MaxCopies = 1
  Exclusive = TRUE
SPECIFICATION Spec
SYMMETRY Records
INVARIANTS
  TypeOK
  NoUndefinedUse
  RecordFaithful
  MemoryAccounted
  BufferNeverOverrun
  IInv
