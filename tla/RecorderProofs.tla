--------------------------- MODULE RecorderProofs ---------------------------
(***************************************************************************)
(* Proofs about Recorder.  DumpInv is proved for every use of the pid      *)
(* file, IInv and what follows from it under Exclusive; so is that         *)
(* Recorder implements RecordStream, where a read of many steps is one     *)
(* step, taken when it returns.                                            *)
(***************************************************************************)
EXTENDS Recorder, SequenceTheorems, TLAPS

(* What a wrapped system call may add to a record. *)
LEMMA CopySeq ==
  ASSUME NEW t \in Task, NEW cs \in {<<>>, <<t>>}
  PROVE  cs \in Seq(Task)
<1>1. <<>> \in Seq(Task)
  OBVIOUS
<1>2. <<t>> \in Seq(Task)
  OBVIOUS
<1> QED
  BY <1>1, <1>2

LEMMA CopiedType ==
  ASSUME TypeOK, NEW t \in Task, NEW cs \in Seq(Task),
         Copied(t, cs) \/ UNCHANGED truth
  PROVE  truth' \in [Record -> Seq(Task)]
<1>1. \A r \in Record : truth[r] \o cs \in Seq(Task)
  BY ConcatProperties DEF TypeOK
<1>2. CASE Copied(t, cs)
  <2> DEFINE f == [r \in Record |-> IF "syscall" \in probes[t] /\ r = mine[t]
                                  THEN truth[r] \o cs ELSE truth[r]]
  <2>1. truth' = f
    BY <1>2 DEF Copied
  <2>2. \A r \in Record : f[r] \in Seq(Task)
    BY <1>1 DEF TypeOK
  <2>3. f \in [Record -> Seq(Task)]
    BY <2>2
  <2> QED
    BY <2>1, <2>3
<1> QED
  BY <1>2 DEF TypeOK

(* A hook keeps the types, and the readers' use of the mutex. *)
LEMMA TaskKeepsDumpInv ==
  ASSUME NEW t \in Task, TaskStep(t),
         DumpInv
  PROVE  DumpInv'
<1>0. \A cs \in {<<>>, <<t>>} : cs \in Seq(Task)
  BY CopySeq
<1> USE ConstantsAssumption
    DEF DumpInv, TypeOK, DumpState, hookVars, recordVars, otherVars, dumpVars,
        fifoVars, Probe, TaskPC, ReaderPC, Goto, Copied, Live, Oops,
        FreeRecord
<1>1. ASSUME NEW nr \in {"execve", "exit", "other"}, PreSyscallSkips(t, nr)
      PROVE  DumpInv'
  BY <1>1 DEF PreSyscallSkips
<1>2. CASE PreSyscallAllocates(t)
  BY <1>2 DEF PreSyscallAllocates
<1>3. ASSUME NEW r \in Record, NewRecord(t, r)
      PROVE  DumpInv'
  BY <1>3 DEF NewRecord
<1>4. CASE NoRecord(t)
  BY <1>4 DEF NoRecord
<1>5. CASE PreCopyAllocates(t)
  BY <1>5 DEF PreCopyAllocates
<1>6. CASE PreCopySkips(t)
  BY <1>6 DEF PreCopySkips
<1>7. CASE NewCopy(t)
  BY <1>7 DEF NewCopy
<1>8. CASE NoCopy(t)
  BY <1>8 DEF NoCopy
<1>9. CASE PostCopy(t)
  BY <1>9 DEF PostCopy, DropCopy
<1>10. CASE PostCopyOops(t)
  BY <1>10 DEF PostCopyOops
<1>11. CASE PostCopyFailed(t)
  BY <1>11 DEF PostCopyFailed, DropCopy
<1>12. CASE PreWrap(t)
  BY <1>12 DEF PreWrap
<1>13. ASSUME NEW cs \in {<<>>, <<t>>}, PostWrap(t, cs)
      PROVE  DumpInv'
  <2>1. cs \in Seq(Task)
    BY <1>0
  <2> HIDE DEF Copied
  <2>2. truth' \in [Record -> Seq(Task)]
    BY <1>13, <2>1, CopiedType DEF PostWrap
  <2>3. copies_to_user' \in [Record -> Seq(Task)]
    <3>1. CASE cs = <<>>
      BY <1>13, <3>1 DEF PostWrap
    <3>2. CASE cs # <<>>
      BY <1>13, <2>1, <3>2 DEF PostWrap
    <3> QED
      BY <3>1, <3>2
  <2> QED
    BY <1>13, <2>2, <2>3 DEF PostWrap
<1>14. CASE PostWrapOops(t)
  BY <1>14 DEF PostWrapOops
<1>15. CASE ReturnUnrecorded(t)
  BY <1>15 DEF ReturnUnrecorded
<1>16. CASE PostSyscall(t)
  BY <1>16 DEF PostSyscall
<1>17. CASE PostSyscallOops(t)
  BY <1>17 DEF PostSyscallOops
<1>18. CASE PostSyscallUndefined(t)
  BY <1>18 DEF PostSyscallUndefined
<1>19. CASE PushRecord(t)
  BY <1>19 DEF PushRecord
<1>20. CASE DropRecord(t)
  BY <1>20 DEF DropRecord
<1>21. CASE DropRecordOops(t)
  BY <1>21 DEF DropRecordOops
<1>22. CASE EndRecord(t)
  BY <1>22 DEF EndRecord, ClearCurrent
<1>23. CASE Killed(t)
  BY <1>23 DEF Killed
<1>24. ASSUME NEW pid \in Task \cup {NoPid}, WriteProc(t, pid)
      PROVE  DumpInv'
  BY <1>24 DEF WriteProc
<1> HIDE DEF TypeOK, DumpState, Oops
<1> QED
  BY <1>1, <1>2, <1>3, <1>4, <1>5, <1>6, <1>7, <1>8, <1>9, <1>10, <1>11,
     <1>12, <1>13, <1>14, <1>15, <1>16, <1>17, <1>18, <1>19, <1>20, <1>21,
     <1>22, <1>23, <1>24
  DEF TaskStep

(* So does a read. *)
LEMMA ReaderKeepsDumpInv ==
  ASSUME NEW d \in Reader, ReaderStep(d),
         DumpInv
  PROVE  DumpInv'
<1> USE ConstantsAssumption
    DEF DumpInv, TypeOK, DumpState, hookVars, recordVars, otherVars, dumpVars,
        fifoVars, Probe, TaskPC, ReaderPC, Goto, Copied, Live, Oops,
        FreeRecord, ReaderAt, FinishWait, Locks, IsEmpty, TakesRecord,
        EndRead, Unlock, RecordLen
<1>1. CASE ReadProc(d)
  BY <1>1 DEF ReadProc
<1>2. ASSUME NEW n \in BufferSizes, ReadFindsRecords(d, n)
      PROVE  DumpInv'
  BY <1>2 DEF ReadFindsRecords, IsEmpty
<1>3. CASE ReadReturnsEmpty(d)
  BY <1>3 DEF ReadReturnsEmpty, IsEmpty
<1>4. CASE ReadMustWait(d)
  BY <1>4 DEF ReadMustWait, IsEmpty
<1>5. CASE PrepareToWait(d)
  BY <1>5 DEF PrepareToWait
<1>6. CASE Interrupted(d)
  BY <1>6 DEF Interrupted
<1>7. CASE TakeOops(d)
  BY <1>7 DEF TakeOops
<1>8. CASE TakeRecord(d)
  <2>1. /\ Head(recorded_syscalls) \in Record
        /\ Tail(recorded_syscalls) \in Seq(Record \cup {NULL})
    BY <1>8 DEF TakeRecord, Fits
  <2>2. TypeOK'
    BY <1>8, <2>1, SMTT(30) DEF TakeRecord, Fits
  <2>3. DumpState'
    BY <1>8, <2>1 DEF TakeRecord, Fits
  <2> QED
    BY <2>2, <2>3
<1>9. CASE ShortFirstRecord(d)
  BY <1>9 DEF ShortFirstRecord, Fits
<1>10. CASE ShortLaterRecord(d)
  <2>1. stream' \in [Reader -> Seq(Record)]
    BY <1>10 DEF ShortLaterRecord, Fits
  <2>2. /\ Head(recorded_syscalls) \in Record
        /\ Tail(recorded_syscalls) \in Seq(Record \cup {NULL})
    BY <1>10 DEF ShortLaterRecord, Fits
  <2>3. TypeOK'
    BY <1>10, <2>1, <2>2, SMTT(30) DEF ShortLaterRecord, Fits
  <2>4. DumpState'
    BY <1>10, SMTT(30) DEF ShortLaterRecord, Fits
  <2> QED
    BY <2>3, <2>4
<1>11. CASE WriteRecord(d)
  BY <1>11 DEF WriteRecord, Dumped
<1>12. CASE WriteLastRecord(d)
  BY <1>12 DEF WriteLastRecord, Dumped
<1>13. CASE WriteFails(d)
  BY <1>13, SMTT(30) DEF WriteFails
<1> HIDE DEF TypeOK, DumpState, Oops
<1> QED
  BY <1>1, <1>2, <1>3, <1>4, <1>5, <1>6, <1>7, <1>8, <1>9, <1>10, <1>11,
     <1>12, <1>13
  DEF ReaderStep

LEMMA DumpInvStep ==
  DumpInv /\ [Next]_vars => DumpInv'
<1> SUFFICES ASSUME DumpInv, [Next]_vars
             PROVE  DumpInv'
  OBVIOUS
<1>1. CASE \E t \in Task : TaskStep(t)
  BY <1>1, TaskKeepsDumpInv
<1>2. ASSUME NEW pid \in Task \cup {NoPid}, StartRecording(pid)
      PROVE  DumpInv'
  BY <1>2 DEF StartRecording, DumpInv, TypeOK, DumpState, otherVars, dumpVars,
     fifoVars
<1>3. CASE \E d \in Reader : ReaderStep(d)
  BY <1>3, ReaderKeepsDumpInv
<1>4. CASE UNCHANGED vars
  BY <1>4 DEF vars, DumpInv, TypeOK, DumpState, hookVars, recordVars,
     otherVars, dumpVars, fifoVars
<1> QED
  BY <1>1, <1>2, <1>3, <1>4 DEF Next

(* The hooks are at work for no other task. *)
LEMMA OthersIdle ==
  ASSUME ControlInv, NEW t \in Task, Busy(t), NEW u \in Task, u # t
  PROVE  /\ ~Busy(u)
         /\ probes[u] = {}
         /\ tpc[u] \notin {"pre", "precopy", "copying", "post", "unlocked"}
  BY DEF ControlInv, OneTaskAtWork, ProbesMatchControl, Busy

(* Until then the record in progress is the hooks' own. *)
LEMMA CurrentIsFresh ==
  ASSUME SafeInv, NEW t \in Task, Busy(t), tpc[t] # "unlocked",
         current_syscall_record # NULL
  PROVE  /\ Live(current_syscall_record)
         /\ current_syscall_record \notin published
         /\ current_syscall_record \notin InFifo
         /\ current_syscall_record # held
<1>1. \A u \in Task : tpc[u] # "unlocked"
  BY OthersIdle DEF SafeInv
<1>2. Live(current_syscall_record) /\ current_syscall_record \notin published
  BY <1>1 DEF SafeInv, CurrentIsOwned
<1> QED
  BY <1>2 DEF SafeInv, FifoIsOwned, InFifo

(* No step of a task has another task recorded while hooks are at work. *)
PidIsSafe == Exclusive \/ UNCHANGED recorded_process_pid

(* One task at a time. *)
LEMMA TaskKeepsControlInv ==
  ASSUME NEW t \in Task, TaskStep(t),
         SafeInv, PidIsSafe
  PROVE  ControlInv'
<1> USE ConstantsAssumption
    DEF SafeInv, DumpInv, TypeOK, ControlInv, OneTaskAtWork,
        ProbesMatchControl,
        CopyIsOwned, Busy, Probe, TaskPC, Goto, Oops, hookVars, recordVars,
        otherVars
<1>1. ASSUME NEW nr \in {"execve", "exit", "other"}, PreSyscallSkips(t, nr)
      PROVE  ControlInv'
  BY <1>1 DEF PreSyscallSkips
<1>2. CASE PreSyscallAllocates(t)
  BY <1>2 DEF PreSyscallAllocates
<1>3. ASSUME NEW r \in Record, NewRecord(t, r)
      PROVE  ControlInv'
  BY <1>3 DEF NewRecord
<1>4. CASE NoRecord(t)
  BY <1>4 DEF NoRecord
<1>5. CASE PreCopyAllocates(t)
  BY <1>5 DEF PreCopyAllocates, CopyIsRecorded
<1>6. CASE PreCopySkips(t)
  BY <1>6 DEF PreCopySkips
<1>7. CASE NewCopy(t)
  BY <1>7 DEF NewCopy
<1>8. CASE NoCopy(t)
  BY <1>8 DEF NoCopy
<1>9. CASE PostCopy(t)
  BY <1>9 DEF PostCopy, DropCopy
<1>10. CASE PostCopyOops(t)
  BY <1>10 DEF PostCopyOops
<1>11. CASE PostCopyFailed(t)
  BY <1>11 DEF PostCopyFailed, DropCopy
<1>12. CASE PreWrap(t)
  BY <1>12 DEF PreWrap
<1>13. ASSUME NEW cs \in {<<>>, <<t>>}, PostWrap(t, cs)
      PROVE  ControlInv'
  BY <1>13 DEF PostWrap
<1>14. CASE PostWrapOops(t)
  BY <1>14 DEF PostWrapOops
<1>15. CASE ReturnUnrecorded(t)
  BY <1>15 DEF ReturnUnrecorded
<1>16. CASE PostSyscall(t)
  BY <1>16 DEF PostSyscall
<1>17. CASE PostSyscallOops(t)
  BY <1>17 DEF PostSyscallOops
<1>18. CASE PostSyscallUndefined(t)
  BY <1>18 DEF PostSyscallUndefined
<1>19. CASE PushRecord(t)
  BY <1>19 DEF PushRecord
<1>20. CASE DropRecord(t)
  BY <1>20 DEF DropRecord
<1>21. CASE DropRecordOops(t)
  BY <1>21 DEF DropRecordOops
<1>22. CASE EndRecord(t)
  BY <1>22 DEF EndRecord, ClearCurrent
<1>23. CASE Killed(t)
  BY <1>23 DEF Killed
<1>24. ASSUME NEW pid \in Task \cup {NoPid}, WriteProc(t, pid)
      PROVE  ControlInv'
  <2>1. CASE Exclusive
    BY <1>24, <2>1 DEF WriteProc, ExclusiveWrite
  <2>2. CASE UNCHANGED recorded_process_pid
    BY <1>24, <2>2 DEF WriteProc
  <2> QED
    BY <2>1, <2>2 DEF PidIsSafe
<1> HIDE DEF OneTaskAtWork, ProbesMatchControl, CopyIsOwned, TypeOK
<1> QED
  BY <1>1, <1>2, <1>3, <1>4, <1>5, <1>6, <1>7, <1>8, <1>9, <1>10, <1>11,
     <1>12, <1>13, <1>14, <1>15, <1>16, <1>17, <1>18, <1>19, <1>20, <1>21,
     <1>22, <1>23, <1>24
  DEF TaskStep

(* The record in progress. *)
LEMMA TaskKeepsCurrent ==
  ASSUME NEW t \in Task, TaskStep(t),
         SafeInv
  PROVE  CurrentIsOwned'
<1> USE ConstantsAssumption
    DEF SafeInv, DumpInv, TypeOK, ControlInv, OneTaskAtWork,
        ProbesMatchControl,
        CurrentIsOwned, Recording, Busy, Probe, TaskPC, Goto, Live,
        Oops, FreeRecord, hookVars, recordVars, otherVars, fifoVars, dumpVars,
        FifoIsOwned
<1>1. ASSUME NEW nr \in {"execve", "exit", "other"}, PreSyscallSkips(t, nr)
      PROVE  CurrentIsOwned'
  BY <1>1 DEF PreSyscallSkips
<1>2. CASE PreSyscallAllocates(t)
  BY <1>2 DEF PreSyscallAllocates
<1>3. ASSUME NEW r \in Record, NewRecord(t, r)
      PROVE  CurrentIsOwned'
  BY <1>3 DEF NewRecord
<1>4. CASE NoRecord(t)
  BY <1>4 DEF NoRecord
<1>5. CASE PreCopyAllocates(t)
  BY <1>5 DEF PreCopyAllocates, CopyIsRecorded
<1>6. CASE PreCopySkips(t)
  BY <1>6 DEF PreCopySkips
<1>7. CASE NewCopy(t)
  BY <1>7 DEF NewCopy
<1>8. CASE NoCopy(t)
  BY <1>8 DEF NoCopy
<1>9. CASE PostCopy(t)
  BY <1>9 DEF PostCopy, DropCopy
<1>10. CASE PostCopyOops(t)
  BY <1>10 DEF PostCopyOops
<1>11. CASE PostCopyFailed(t)
  BY <1>11 DEF PostCopyFailed, DropCopy
<1>12. CASE PreWrap(t)
  BY <1>12 DEF PreWrap
<1>13. ASSUME NEW cs \in {<<>>, <<t>>}, PostWrap(t, cs)
      PROVE  CurrentIsOwned'
  BY <1>13 DEF PostWrap
<1>14. CASE PostWrapOops(t)
  BY <1>14 DEF PostWrapOops
<1>15. CASE ReturnUnrecorded(t)
  BY <1>15 DEF ReturnUnrecorded
<1>16. CASE PostSyscall(t)
  BY <1>16 DEF PostSyscall
<1>17. CASE PostSyscallOops(t)
  BY <1>17 DEF PostSyscallOops
<1>18. CASE PostSyscallUndefined(t)
  BY <1>18 DEF PostSyscallUndefined
<1>19. CASE PushRecord(t)
  BY <1>19 DEF PushRecord
<1>20. CASE DropRecord(t)
  BY <1>20 DEF DropRecord
<1>21. CASE DropRecordOops(t)
  BY <1>21 DEF DropRecordOops
<1>22. CASE EndRecord(t)
  <2>1. \A u \in Task : u # t => ~Busy(u)
    BY <1>22, OthersIdle DEF EndRecord, ClearCurrent
  <2> QED
    BY <1>22, <2>1 DEF EndRecord, ClearCurrent
<1>23. CASE Killed(t)
  BY <1>23 DEF Killed
<1>24. ASSUME NEW pid \in Task \cup {NoPid}, WriteProc(t, pid)
      PROVE  CurrentIsOwned'
  BY <1>24 DEF WriteProc
<1> HIDE DEF CurrentIsOwned, FifoIsOwned, ControlInv, SafeInv
<1> QED
  BY <1>1, <1>2, <1>3, <1>4, <1>5, <1>6, <1>7, <1>8, <1>9, <1>10, <1>11,
     <1>12, <1>13, <1>14, <1>15, <1>16, <1>17, <1>18, <1>19, <1>20, <1>21,
     <1>22, <1>23, <1>24
  DEF TaskStep

(* No hook uses a null or dangling pointer. *)
LEMMA TaskIsDefined ==
  ASSUME NEW t \in Task, TaskStep(t),
         SafeInv
  PROVE  UNCHANGED oops
<1>0. Busy(t) /\ tpc[t] # "unlocked" /\ current_syscall_record # NULL
        => Live(current_syscall_record)
  BY CurrentIsFresh
<1>00. /\ ProbesMatchControl /\ CurrentIsOwned
       /\ tpc[t] = "copying" => current_copy = t
       /\ NULL \notin Task
  BY ConstantsAssumption DEF SafeInv, ControlInv, CopyIsOwned
<1> USE <1>0, <1>00 DEF SafeInv, Oops, Busy, ProbesMatchControl,
   CurrentIsOwned, hookVars, recordVars, otherVars
<1>1. ASSUME NEW nr \in {"execve", "exit", "other"}, PreSyscallSkips(t, nr)
      PROVE  UNCHANGED oops
  BY <1>1 DEF PreSyscallSkips
<1>2. CASE PreSyscallAllocates(t)
  BY <1>2 DEF PreSyscallAllocates
<1>3. ASSUME NEW r \in Record, NewRecord(t, r)
      PROVE  UNCHANGED oops
  BY <1>3 DEF NewRecord
<1>4. CASE NoRecord(t)
  BY <1>4 DEF NoRecord
<1>5. CASE PreCopyAllocates(t)
  BY <1>5 DEF PreCopyAllocates
<1>6. CASE PreCopySkips(t)
  BY <1>6 DEF PreCopySkips
<1>7. CASE NewCopy(t)
  BY <1>7 DEF NewCopy
<1>8. CASE NoCopy(t)
  BY <1>8 DEF NoCopy
<1>9. CASE PostCopy(t)
  BY <1>9 DEF PostCopy, DropCopy
<1>10. CASE PostCopyOops(t)
  BY <1>10 DEF PostCopyOops
<1>11. CASE PostCopyFailed(t)
  BY <1>11 DEF PostCopyFailed, DropCopy
<1>12. CASE PreWrap(t)
  BY <1>12 DEF PreWrap
<1>13. ASSUME NEW cs \in {<<>>, <<t>>}, PostWrap(t, cs)
      PROVE  UNCHANGED oops
  BY <1>13 DEF PostWrap
<1>14. CASE PostWrapOops(t)
  BY <1>14 DEF PostWrapOops
<1>15. CASE ReturnUnrecorded(t)
  BY <1>15 DEF ReturnUnrecorded
<1>16. CASE PostSyscall(t)
  BY <1>16 DEF PostSyscall
<1>17. CASE PostSyscallOops(t)
  BY <1>17 DEF PostSyscallOops
<1>18. CASE PostSyscallUndefined(t)
  BY <1>18 DEF PostSyscallUndefined
<1>19. CASE PushRecord(t)
  BY <1>19 DEF PushRecord
<1>20. CASE DropRecord(t)
  BY <1>20 DEF DropRecord
<1>21. CASE DropRecordOops(t)
  BY <1>21 DEF DropRecordOops
<1>22. CASE EndRecord(t)
  BY <1>22 DEF EndRecord, ClearCurrent
<1>23. CASE Killed(t)
  BY <1>23 DEF Killed
<1>24. ASSUME NEW pid \in Task \cup {NoPid}, WriteProc(t, pid)
      PROVE  UNCHANGED oops
  BY <1>24 DEF WriteProc
<1> HIDE DEF SafeInv, ProbesMatchControl, CurrentIsOwned
<1> QED
  BY <1>1, <1>2, <1>3, <1>4, <1>5, <1>6, <1>7, <1>8, <1>9, <1>10, <1>11,
     <1>12, <1>13, <1>14, <1>15, <1>16, <1>17, <1>18, <1>19, <1>20, <1>21,
     <1>22, <1>23, <1>24
  DEF TaskStep

(* What Append and Tail do to the elements of a sequence. *)
LEMMA AppendElements ==
  ASSUME NEW S, NEW s \in Seq(S), NEW e \in S
  PROVE  /\ DOMAIN Append(s, e) = 1..Len(s) + 1
         /\ DOMAIN s = 1..Len(s)
         /\ Len(s) \in Nat
         /\ \A i \in 1..Len(s) : Append(s, e)[i] = s[i]
         /\ Append(s, e)[Len(s) + 1] = e
  BY AppendProperties

LEMMA TailElements ==
  ASSUME NEW S, NEW s \in Seq(S), s # <<>>
  PROVE  /\ DOMAIN s = 1..Len(s)
         /\ Len(s) \in Nat \ {0}
         /\ Head(s) = s[1]
         /\ DOMAIN Tail(s) = 1..Len(s) - 1
         /\ \A i \in 1..Len(s) - 1 : Tail(s)[i] = s[i + 1]
  BY HeadTailProperties

(* A record that is not there joins the fifo. *)
LEMMA PushInFifo ==
  ASSUME recorded_syscalls \in Seq(Record \cup {NULL}), FifoIsOwned,
         NEW r \in Record \cup {NULL}, r \notin InFifo,
         recorded_syscalls' = Append(recorded_syscalls, r)
  PROVE  /\ InFifo' = InFifo \cup {r}
         /\ \A i, j \in DOMAIN recorded_syscalls' :
              recorded_syscalls'[i] = recorded_syscalls'[j] => i = j
<1> DEFINE n == Len(recorded_syscalls)
<1>1. /\ DOMAIN recorded_syscalls' = 1..n + 1
      /\ DOMAIN recorded_syscalls = 1..n
      /\ n \in Nat
      /\ \A i \in 1..n : recorded_syscalls'[i] = recorded_syscalls[i]
      /\ recorded_syscalls'[n + 1] = r
  BY AppendElements
<1>2. \A i \in DOMAIN recorded_syscalls' : i \in 1..n \/ i = n + 1
  BY <1>1
<1>3. \A i \in 1..n : recorded_syscalls[i] # r
  BY <1>1 DEF InFifo
<1>4. \A i, j \in 1..n : recorded_syscalls[i] = recorded_syscalls[j] => i = j
  BY <1>1 DEF FifoIsOwned
<1> HIDE DEF n
<1>5. InFifo' = InFifo \cup {r}
  BY <1>1, <1>2 DEF InFifo
<1>6. ASSUME NEW i \in DOMAIN recorded_syscalls',
             NEW j \in DOMAIN recorded_syscalls',
             recorded_syscalls'[i] = recorded_syscalls'[j]
      PROVE  i = j
  BY <1>1, <1>2, <1>3, <1>4, <1>6
<1> QED
  BY <1>5, <1>6

(* The head leaves a fifo whose records are distinct. *)
LEMMA TakeInFifo ==
  ASSUME recorded_syscalls \in Seq(Record \cup {NULL}),
         recorded_syscalls # <<>>, FifoIsOwned,
         recorded_syscalls' = Tail(recorded_syscalls)
  PROVE  /\ InFifo' = InFifo \ {Head(recorded_syscalls)}
         /\ Head(recorded_syscalls) \in InFifo
         /\ \A i, j \in DOMAIN recorded_syscalls' :
              recorded_syscalls'[i] = recorded_syscalls'[j] => i = j
<1>1. /\ DOMAIN recorded_syscalls = 1..Len(recorded_syscalls)
      /\ Len(recorded_syscalls) \in Nat \ {0}
      /\ Head(recorded_syscalls) = recorded_syscalls[1]
      /\ DOMAIN recorded_syscalls' = 1..Len(recorded_syscalls) - 1
      /\ \A i \in 1..Len(recorded_syscalls) - 1 :
           recorded_syscalls'[i] = recorded_syscalls[i + 1]
  BY TailElements
<1>2. \A i, j \in DOMAIN recorded_syscalls :
        recorded_syscalls[i] = recorded_syscalls[j] => i = j
  BY DEF FifoIsOwned
<1>3. ASSUME NEW i \in DOMAIN recorded_syscalls, i # 1
      PROVE  i - 1 \in DOMAIN recorded_syscalls'
             /\ recorded_syscalls'[i - 1] = recorded_syscalls[i]
  BY <1>1, <1>3
<1>4. InFifo' \subseteq InFifo \ {Head(recorded_syscalls)}
  BY <1>1, <1>2 DEF InFifo
<1>5. InFifo \ {Head(recorded_syscalls)} \subseteq InFifo'
  BY <1>1, <1>3 DEF InFifo
<1> QED
  BY <1>1, <1>2, <1>4, <1>5, SMTT(30) DEF InFifo

(* Which hooks touch the fifo, the heap and the readers. *)
LEMMA TaskFrame ==
  ASSUME NEW t \in Task, TaskStep(t)
  PROVE  \/ \E r \in Record : NewRecord(t, r)
         \/ PushRecord(t)
         \/ DropRecord(t)
         \/ UNCHANGED <<dumpVars, fifoVars, heap, rpc>>
<1> USE DEF hookVars, recordVars, otherVars, Oops
<1>1. ASSUME NEW nr \in {"execve", "exit", "other"}, PreSyscallSkips(t, nr)
      PROVE  UNCHANGED <<dumpVars, fifoVars, heap, rpc>>
  BY <1>1 DEF PreSyscallSkips
<1>2. CASE \/ PreSyscallAllocates(t) \/ NoRecord(t) \/ PreCopyAllocates(t)
           \/ PreCopySkips(t) \/ NewCopy(t) \/ NoCopy(t) \/ PostCopy(t)
  BY <1>2 DEF PreSyscallAllocates, NoRecord, PreCopyAllocates, PreCopySkips,
     NewCopy, NoCopy, PostCopy
<1>3. CASE \/ PostCopyOops(t) \/ PostCopyFailed(t) \/ PreWrap(t)
           \/ PostWrapOops(t) \/ ReturnUnrecorded(t) \/ PostSyscall(t)
           \/ PostSyscallOops(t)
  BY <1>3 DEF PostCopyOops, PostCopyFailed, PreWrap, PostWrapOops,
     ReturnUnrecorded, PostSyscall, PostSyscallOops
<1>4. ASSUME NEW cs \in {<<>>, <<t>>}, PostWrap(t, cs)
      PROVE  UNCHANGED <<dumpVars, fifoVars, heap, rpc>>
  BY <1>4 DEF PostWrap
<1>5. CASE \/ PostSyscallUndefined(t) \/ DropRecordOops(t) \/ EndRecord(t)
           \/ Killed(t)
  BY <1>5 DEF PostSyscallUndefined, DropRecordOops, EndRecord, Killed
<1>6. ASSUME NEW pid \in Task \cup {NoPid}, WriteProc(t, pid)
      PROVE  UNCHANGED <<dumpVars, fifoVars, heap, rpc>>
  BY <1>6 DEF WriteProc
<1> QED
  BY <1>1, <1>2, <1>3, <1>4, <1>5, <1>6 DEF TaskStep

(* A task that is about to push or drop owns the record. *)
LEMMA PostOwnsCurrent ==
  ASSUME SafeInv, NEW t \in Task, tpc[t] = "post"
  PROVE  /\ Recording(t)
         /\ mine[t] = current_syscall_record
         /\ Live(current_syscall_record)
         /\ current_syscall_record \notin published
         /\ current_syscall_record \notin InFifo
         /\ current_syscall_record # held
<1>1. /\ Busy(t) /\ tpc[t] # "unlocked" /\ current_syscall_record # NULL
      /\ Recording(t) /\ mine[t] = current_syscall_record
  BY DEF SafeInv, ControlInv, ProbesMatchControl, CurrentIsOwned, Busy,
     Recording
<1> QED
  BY <1>1, CurrentIsFresh

(* The fifo has live records, each of them once. *)
LEMMA TaskKeepsFifo ==
  ASSUME NEW t \in Task, TaskStep(t),
         SafeInv
  PROVE  FifoIsOwned'
<1> USE ConstantsAssumption
    DEF SafeInv, DumpInv, TypeOK, FifoIsOwned, Live, FreeRecord, recordVars,
        otherVars, fifoVars, dumpVars
<1>1. ASSUME NEW r \in Record, NewRecord(t, r)
      PROVE  FifoIsOwned'
  <2>1. r \notin published
    BY <1>1 DEF NewRecord
  <2> QED
    BY <1>1, <2>1 DEF NewRecord, InFifo
<1>2. CASE PushRecord(t)
  <2>1. /\ Live(current_syscall_record)
        /\ current_syscall_record \notin published
        /\ current_syscall_record \notin InFifo
        /\ current_syscall_record # held
    BY <1>2, PostOwnsCurrent DEF PushRecord
  <2>2. /\ InFifo' = InFifo \cup {current_syscall_record}
        /\ \A i, j \in DOMAIN recorded_syscalls' :
             recorded_syscalls'[i] = recorded_syscalls'[j] => i = j
    BY <1>2, <2>1, PushInFifo DEF PushRecord
  <2>3. \A e \in InFifo : Live(e) /\ e \in published
    BY DEF InFifo
  <2>4. \A i \in DOMAIN recorded_syscalls' : recorded_syscalls'[i] \in InFifo'
    BY DEF InFifo
  <2> QED
    BY <1>2, <2>1, <2>2, <2>3, <2>4 DEF PushRecord
<1>3. CASE DropRecord(t)
  <2>1. /\ current_syscall_record \notin published
        /\ current_syscall_record \notin InFifo
        /\ current_syscall_record # held
    BY <1>3, PostOwnsCurrent DEF DropRecord
  <2> QED
    BY <1>3, <2>1 DEF DropRecord, InFifo
<1>4. CASE UNCHANGED <<dumpVars, fifoVars, heap, rpc>>
  BY <1>4 DEF InFifo
<1> QED
  BY <1>1, <1>2, <1>3, <1>4, TaskFrame

(***************************************************************************)
(* Nothing is forgotten by a step that changes no record's place: no       *)
(* recording ends, no task comes back from the dead.                       *)
(***************************************************************************)
LEMMA MemoryFrame ==
  ASSUME MemoryInv,
         UNCHANGED <<heap, current_syscall_record, mine>>,
         UNCHANGED <<held, InFifo, swallowed, rejected>>,
         \A u \in Task : Recording(u) => Recording(u)',
         \A u \in Task : /\ tpc'[u] = "unlocked" => tpc[u] = "unlocked"
                         /\ tpc[u] = "dead" => tpc'[u] = "dead"
  PROVE  MemoryInv'
<1>1. PushedIsLetGo'
  BY DEF MemoryInv, PushedIsLetGo, Live
<1>2. MemoryAccounted'
  BY DEF MemoryInv, MemoryAccounted, WillBeFreed, LeakedByShortRead,
     LeakedByKill, Live
<1> QED
  BY <1>1, <1>2 DEF MemoryInv

(* A record in progress that is live has not left the hooks. *)
LEMMA TaskKeepsMemoryInv ==
  ASSUME NEW t \in Task, TaskStep(t),
         IInv
  PROVE  MemoryInv'
<1> DEFINE Placed(r) == \/ r = held
                        \/ r \in InFifo
                        \/ r \in swallowed \cup rejected
<1> USE ConstantsAssumption DEF Goto, Oops, hookVars, recordVars, otherVars,
    fifoVars, dumpVars
<1>1. /\ MemoryInv /\ SafeInv
      /\ tpc \in [Task -> TaskPC] /\ probes \in [Task -> SUBSET Probe]
      /\ mine \in [Task -> Record \cup {NULL}]
      /\ heap \in [Record -> {"unused", "live", "freed"}]
  BY DEF IInv, SafeInv, DumpInv, TypeOK
<1>2. CASE /\ UNCHANGED <<heap, current_syscall_record, mine>>
           /\ UNCHANGED <<recorded_syscalls, held, swallowed, rejected>>
           /\ \A u \in Task : Recording(u) => Recording(u)'
           /\ \A u \in Task : /\ tpc'[u] = "unlocked" => tpc[u] = "unlocked"
                              /\ tpc[u] = "dead" => tpc'[u] = "dead"
  <2>1. UNCHANGED InFifo
    BY <1>2 DEF InFifo
  <2> QED
    BY <1>1, <1>2, <2>1, MemoryFrame, Zenon
<1>3. ASSUME NEW r \in Record, NewRecord(t, r)
      PROVE  MemoryInv'
  <2>1. /\ current_syscall_record = NULL /\ current_syscall_record' = r
        /\ mine' = [mine EXCEPT ![t] = r]
        /\ probes' = [probes EXCEPT ![t] = {"syscall"}]
        /\ tpc' = [tpc EXCEPT ![t] = "body"]
        /\ heap' = [heap EXCEPT ![r] = "live"]
        /\ UNCHANGED <<InFifo, held, swallowed, rejected>>
    BY <1>1, <1>3 DEF NewRecord, SafeInv, CurrentIsOwned, InFifo
  <2>2. PushedIsLetGo'
    BY <1>1, <1>3, <2>1, OthersIdle
       DEF NewRecord, Busy, SafeInv, PushedIsLetGo
  <2>3. \A q \in Record : Live(q) => WillBeFreed(q) \/ LeakedByShortRead(q)
    BY <1>1, <2>1 DEF MemoryInv, MemoryAccounted, LeakedByKill
  <2>4. \A u \in Task : u # t => Recording(u)' = Recording(u)
                               /\ tpc'[u] = tpc[u] /\ mine'[u] = mine[u]
    BY <1>1, <2>1 DEF Recording
  <2>5. ~Recording(t) /\ Recording(t)' /\ tpc'[t] = "body" /\ mine'[t] = r
    BY <1>1, <1>3, <2>1
       DEF NewRecord, Recording, SafeInv, ControlInv, ProbesMatchControl
  <2>6. MemoryAccounted'
    <3> SUFFICES ASSUME NEW q \in Record, Live(q)'
                 PROVE  WillBeFreed(q)' \/ LeakedByShortRead(q)'
      BY DEF MemoryAccounted
    <3>1. CASE q = r
      BY <2>5, <3>1 DEF WillBeFreed
    <3>2. CASE q # r
      <4>1. WillBeFreed(q) \/ LeakedByShortRead(q)
        BY <1>1, <2>1, <2>3, <3>2 DEF Live
      <4> QED
        BY <2>1, <2>4, <2>5, <4>1 DEF WillBeFreed, LeakedByShortRead
    <3> QED
      BY <3>1, <3>2
  <2> QED
    BY <2>2, <2>6 DEF MemoryInv
<1>4. CASE NoRecord(t)
  BY <1>1, <1>2, <1>4
     DEF NoRecord, SafeInv, CurrentIsOwned, Recording, InFifo
<1>5. CASE PushRecord(t) \/ DropRecord(t)
  <2>1. /\ mine[t] = current_syscall_record /\ Recording(t)
        /\ current_syscall_record \in Record
        /\ tpc[t] = "post" /\ tpc' = [tpc EXCEPT ![t] = "unlocked"]
        /\ UNCHANGED <<probes, mine, current_syscall_record, held>>
        /\ UNCHANGED <<swallowed, rejected>>
    BY <1>1, <1>5, PostOwnsCurrent DEF PushRecord, DropRecord, Live
  <2>2. \/ /\ InFifo' = InFifo \cup {current_syscall_record}
           /\ UNCHANGED heap
        \/ /\ heap' = [heap EXCEPT ![current_syscall_record] = "freed"]
           /\ UNCHANGED InFifo
    <3>1. CASE PushRecord(t)
      BY <1>1, <3>1, PostOwnsCurrent, PushInFifo
         DEF PushRecord, SafeInv, DumpInv, TypeOK
    <3>2. CASE DropRecord(t)
      BY <3>2 DEF DropRecord, FreeRecord, InFifo
    <3> QED
      BY <1>5, <3>1, <3>2
  <2>3. \A u \in Task : u # t => tpc[u] # "unlocked"
    BY <1>1, <2>1, OthersIdle DEF SafeInv, Busy, Recording
  <2>4. PushedIsLetGo'
    BY <1>1, <2>1, <2>2, <2>3 DEF PushedIsLetGo, Live
  <2>5. ASSUME NEW q \in Record, Live(q)', q # current_syscall_record
        PROVE  WillBeFreed(q)' \/ LeakedByShortRead(q)'
    <3>1. Live(q)
      BY <1>1, <2>2, <2>5 DEF Live
    <3>2. WillBeFreed(q) \/ LeakedByShortRead(q)
      BY <1>1, <2>5, <3>1 DEF MemoryInv, MemoryAccounted, LeakedByKill
    <3>3. ASSUME NEW u \in Task,
                 Recording(u), tpc[u] # "unlocked", mine[u] = q
          PROVE  Recording(u)' /\ tpc'[u] # "unlocked" /\ mine'[u] = q
      BY <1>1, <2>1, <2>5, <3>3 DEF Recording
    <3> QED
      BY <2>1, <2>2, <3>2, <3>3 DEF WillBeFreed, LeakedByShortRead
  <2>6. Live(current_syscall_record)' => WillBeFreed(current_syscall_record)'
    BY <1>1, <2>1, <2>2 DEF Live, WillBeFreed
  <2> QED
    BY <2>1, <2>4, <2>5, <2>6 DEF MemoryInv, MemoryAccounted
<1>6. CASE EndRecord(t) \/ PostSyscallUndefined(t)
  <2>1. /\ current_syscall_record' = NULL
        /\ probes' = [probes EXCEPT ![t] = {}]
        /\ mine' = [mine EXCEPT ![t] = NULL]
        /\ tpc' = [tpc EXCEPT ![t] = "user"]
        /\ UNCHANGED <<InFifo, heap, held, swallowed, rejected>>
    BY <1>6 DEF EndRecord, ClearCurrent, PostSyscallUndefined, InFifo
  <2>2. Live(current_syscall_record) => Placed(current_syscall_record)
    BY <1>1, <1>6 DEF EndRecord, PostSyscallUndefined, Live, MemoryInv,
       PushedIsLetGo
  <2>3. \A u \in Task : Recording(u) => mine[u] = current_syscall_record
    BY <1>1 DEF SafeInv, CurrentIsOwned
  <2>4. \A q \in Record : Live(q) => Placed(q)
    BY <1>1, <2>2, <2>3
       DEF MemoryInv, MemoryAccounted, WillBeFreed, LeakedByShortRead,
           LeakedByKill
  <2>5. PushedIsLetGo' /\ MemoryAccounted'
    BY <2>1, <2>4 DEF PushedIsLetGo, MemoryAccounted, WillBeFreed,
       LeakedByShortRead, Live
  <2> QED
    BY <2>5 DEF MemoryInv
<1>7. CASE Killed(t)
  <2>1. /\ tpc[t] # "unlocked" /\ tpc' = [tpc EXCEPT ![t] = "dead"]
        /\ probes' = [probes EXCEPT ![t] = {}]
        /\ UNCHANGED <<current_syscall_record, mine, heap>>
        /\ UNCHANGED <<InFifo, held, swallowed, rejected>>
    BY <1>7 DEF Killed, InFifo
  <2>2. PushedIsLetGo'
    BY <1>1, <2>1 DEF MemoryInv, PushedIsLetGo, Live
  <2>3. ASSUME NEW q \in Record, WillBeFreed(q)
        PROVE  WillBeFreed(q)' \/ LeakedByKill(q)'
    <3>1. CASE Recording(t) /\ mine[t] = q
      <4>1. q = current_syscall_record
        BY <1>1, <3>1 DEF SafeInv, CurrentIsOwned
      <4> QED
        BY <1>1, <2>1, <3>1, <4>1 DEF LeakedByKill
    <3>2. CASE ~(Recording(t) /\ mine[t] = q)
      BY <1>1, <2>1, <2>3, <3>2 DEF WillBeFreed, Recording
    <3> QED
      BY <3>1, <3>2
  <2>4. \A q \in Record : LeakedByKill(q) => LeakedByKill(q)'
    BY <1>1, <2>1 DEF LeakedByKill
  <2> QED
    BY <1>1, <2>1, <2>2, <2>3, <2>4
       DEF MemoryInv, MemoryAccounted, LeakedByShortRead, Live
<1> HIDE DEF Goto, Oops
<1>8. CASE \/ \E nr \in {"execve", "exit", "other"} : PreSyscallSkips(t, nr)
           \/ PreSyscallAllocates(t) \/ PreCopyAllocates(t)
           \/ PreCopySkips(t) \/ NewCopy(t) \/ NoCopy(t) \/ PostCopy(t)
           \/ PostCopyFailed(t) \/ ReturnUnrecorded(t) \/ PostSyscall(t)
           \/ \E pid \in Task \cup {NoPid} : WriteProc(t, pid)
  <2>1. /\ UNCHANGED <<heap, current_syscall_record, mine, probes>>
        /\ UNCHANGED <<recorded_syscalls, held, swallowed, rejected>>
        /\ tpc[t] \notin {"dead", "unlocked"}
        /\ \E pc \in TaskPC \ {"unlocked"} : Goto(t, pc) \/ UNCHANGED tpc
    BY <1>8 DEF PreSyscallSkips, PreSyscallAllocates, PreCopyAllocates,
       PreCopySkips, NewCopy, NoCopy, PostCopy, PostCopyFailed, TaskPC,
       ReturnUnrecorded, PostSyscall, WriteProc
  <2> QED
    BY <1>1, <1>2, <2>1 DEF Goto, Recording
<1>9. CASE \/ PreWrap(t) \/ \E cs \in {<<>>, <<t>>} : PostWrap(t, cs)
  BY <1>1, <1>2, <1>9 DEF PreWrap, PostWrap, Recording
<1>10. CASE \/ PostCopyOops(t) \/ PostWrapOops(t) \/ PostSyscallOops(t)
            \/ DropRecordOops(t)
  BY <1>2, <1>10 DEF PostCopyOops, PostWrapOops, PostSyscallOops,
     DropRecordOops, Oops, Recording
<1> QED
  BY <1>3, <1>4, <1>5, <1>6, <1>7, <1>8, <1>9, <1>10 DEF TaskStep

(* What is in the fifo, or has left it, is not added to. *)
FinishedStays ==
  \A r \in published \ {NULL} :
    copies_to_user'[r] = copies_to_user[r] /\ truth'[r] = truth[r]

CallStaysTrue == FinishedStays /\ (CallIsTrue => CallIsTrue')

(***************************************************************************)
(* A hook of t adds cs to the current record, which t's own system call,   *)
(* if it is recorded, has too.                                             *)
(***************************************************************************)
LEMMA AddKeepsCopies ==
  ASSUME SafeInv, NEW t \in Task, Busy(t), tpc[t] # "unlocked",
         current_syscall_record # NULL, NEW cs,
         copies_to_user' = [copies_to_user EXCEPT ![current_syscall_record] =
                                                     @ \o cs],
         Copied(t, cs),
         UNCHANGED <<published, mine>>,
         "syscall" \in probes'[t] <=> "syscall" \in probes[t],
         \A u \in Task \ {t} : probes'[u] = probes[u]
  PROVE  FinishedStays /\ (RecordingIsTrue => RecordingIsTrue')
<1>1. /\ current_syscall_record \in Record
      /\ current_syscall_record \notin published
  BY CurrentIsFresh DEF Live
<1>2. \A u \in Task \ {t} : probes[u] = {}
  BY OthersIdle DEF SafeInv
<1>3. Recording(t) => mine[t] = current_syscall_record
  BY DEF SafeInv, CurrentIsOwned
<1>4. /\ copies_to_user \in [Record -> Seq(Task)]
      /\ published \subseteq Record
  BY DEF SafeInv, DumpInv, TypeOK, FifoIsOwned
<1>5. FinishedStays
  BY <1>1, <1>3, <1>4 DEF FinishedStays, Copied, Recording
<1>6. ASSUME RecordingIsTrue
      PROVE  RecordingIsTrue'
  <2>1. \A u \in Task : Recording(u)' => u = t /\ Recording(t)
    BY <1>2 DEF Recording
  <2>2. ASSUME Recording(t)
        PROVE  copies_to_user'[mine'[t]] = truth'[mine'[t]]
    <3>1. copies_to_user[mine[t]] = truth[mine[t]]
      BY <1>6, <2>2 DEF RecordingIsTrue
    <3>2. copies_to_user'[mine[t]] = copies_to_user[mine[t]] \o cs
      BY <1>1, <1>3, <1>4, <2>2
    <3>3. truth'[mine[t]] = truth[mine[t]] \o cs
      BY <1>1, <1>3, <2>2 DEF Copied, Recording
    <3> QED
      BY <3>1, <3>2, <3>3
  <2> QED
    BY <2>1, <2>2 DEF RecordingIsTrue
<1> QED
  BY <1>5, <1>6

(* The record of a call in progress keeps up with the call. *)
LEMMA TaskKeepsCopies ==
  ASSUME NEW t \in Task, TaskStep(t),
         SafeInv
  PROVE  CallStaysTrue
<1>0. published \subseteq Record
  BY DEF SafeInv, FifoIsOwned
<1> USE <1>0, ConstantsAssumption
    DEF SafeInv, DumpInv, TypeOK, CallStaysTrue, FinishedStays, CallIsTrue,
        CopyIsFree, RecordingIsTrue, CurrentIsOwned, Recording, Probe, TaskPC,
        Goto, Live, Oops, Copied, hookVars, recordVars, otherVars, fifoVars
<1>1. ASSUME NEW nr \in {"execve", "exit", "other"}, PreSyscallSkips(t, nr)
      PROVE  CallStaysTrue
  BY <1>1 DEF PreSyscallSkips
<1>2. CASE PreSyscallAllocates(t)
  BY <1>2 DEF PreSyscallAllocates
<1>3. ASSUME NEW r \in Record, NewRecord(t, r)
      PROVE  CallStaysTrue
  <2>1. r \notin published
    BY <1>3 DEF NewRecord, FifoIsOwned
  <2>2. \A u \in Task \ {t} : probes[u] = {} /\ tpc[u] # "copying"
    BY <1>3, OthersIdle DEF NewRecord, Busy
  <2> QED
    BY <1>3, <2>1, <2>2 DEF NewRecord
<1>4. CASE NoRecord(t)
  BY <1>4 DEF NoRecord
<1>5. CASE PreCopyAllocates(t)
  BY <1>5 DEF PreCopyAllocates
<1>6. CASE PreCopySkips(t)
  <2>1. Recording(t) => mine[t] \notin published
    BY <1>6, CurrentIsFresh DEF PreCopySkips, Busy
  <2>2. FinishedStays
    BY <1>6, <2>1 DEF PreCopySkips
  <2>3. CopyIsFree => ~Recording(t)
    BY <1>6 DEF PreCopySkips, CopyIsRecorded, ControlInv, OneTaskAtWork,
             CopyIsOwned, Busy
  <2> QED
    BY <1>6, <2>2, <2>3 DEF PreCopySkips
<1>7. CASE NewCopy(t)
  BY <1>7 DEF NewCopy
<1>8. CASE NoCopy(t)
  BY <1>8 DEF NoCopy
<1>9. CASE PostCopy(t)
  <2>1. Busy(t) /\ tpc[t] # "unlocked" /\ current_copy = t
    BY <1>9 DEF PostCopy, DropCopy, Busy, ControlInv, CopyIsOwned
  <2> HIDE DEF SafeInv, Copied, FinishedStays, RecordingIsTrue
  <2>2. FinishedStays /\ (RecordingIsTrue => RecordingIsTrue')
    BY <1>9, <2>1, AddKeepsCopies DEF PostCopy, DropCopy
  <2>3. CopyIsFree'
    BY <1>9 DEF PostCopy, DropCopy
  <2> QED
    BY <2>2, <2>3
<1>10. CASE PostCopyOops(t)
  BY <1>10 DEF PostCopyOops
<1>11. CASE PostCopyFailed(t)
  BY <1>11 DEF PostCopyFailed, DropCopy
<1>12. CASE PreWrap(t)
  BY <1>12 DEF PreWrap
<1>13. ASSUME NEW cs \in {<<>>, <<t>>}, PostWrap(t, cs)
      PROVE  CallStaysTrue
  <2>1. CASE cs = <<>>
    BY <1>13, <2>1 DEF PostWrap
  <2>2. CASE cs # <<>>
    <3>1. Busy(t) /\ tpc[t] # "unlocked" /\ current_syscall_record # NULL
      BY <1>13, <2>2 DEF PostWrap, Busy
    <3>2. /\ probes'[t] = probes[t] \ {"wrap"}
          /\ \A u \in Task \ {t} : probes'[u] = probes[u]
      BY <1>13 DEF PostWrap
    <3> HIDE DEF SafeInv, Copied, FinishedStays, RecordingIsTrue
    <3>3. FinishedStays /\ (RecordingIsTrue => RecordingIsTrue')
      BY <1>13, <2>2, <3>1, <3>2, AddKeepsCopies DEF PostWrap
    <3>4. CopyIsFree => CopyIsFree'
      BY <1>13 DEF PostWrap
    <3> QED
      BY <3>3, <3>4
  <2> QED
    BY <2>1, <2>2
<1>14. CASE PostWrapOops(t)
  BY <1>14 DEF PostWrapOops
<1>15. CASE ReturnUnrecorded(t)
  BY <1>15 DEF ReturnUnrecorded
<1>16. CASE PostSyscall(t)
  BY <1>16 DEF PostSyscall
<1>17. CASE PostSyscallOops(t)
  BY <1>17 DEF PostSyscallOops
<1>18. CASE PostSyscallUndefined(t)
  BY <1>18 DEF PostSyscallUndefined
<1>19. CASE PushRecord(t)
  BY <1>19 DEF PushRecord
<1>20. CASE DropRecord(t)
  BY <1>20 DEF DropRecord
<1>21. CASE DropRecordOops(t)
  BY <1>21 DEF DropRecordOops
<1>22. CASE EndRecord(t)
  BY <1>22 DEF EndRecord, ClearCurrent
<1>23. CASE Killed(t)
  BY <1>23 DEF Killed
<1>24. ASSUME NEW pid \in Task \cup {NoPid}, WriteProc(t, pid)
      PROVE  CallStaysTrue
  BY <1>24 DEF WriteProc
<1> HIDE DEF CallStaysTrue, SafeInv, TypeOK
<1> QED
  BY <1>1, <1>2, <1>3, <1>4, <1>5, <1>6, <1>7, <1>8, <1>9, <1>10, <1>11,
     <1>12, <1>13, <1>14, <1>15, <1>16, <1>17, <1>18, <1>19, <1>20, <1>21,
     <1>22, <1>23, <1>24
  DEF TaskStep

(* A task neither adds to the record a reader holds nor moves the reader. *)
LEMMA TaskKeepsBuffer ==
  ASSUME NEW t \in Task, TaskStep(t),
         SafeInv
  PROVE  BufferNeverOverrun'
<1>1. FinishedStays
  BY TaskKeepsCopies DEF CallStaysTrue
<1>2. ASSUME NEW d \in Reader, rpc[d] = "write"
      PROVE  copies_to_user'[held] = copies_to_user[held]
  BY <1>1, <1>2 DEF FinishedStays, SafeInv, DumpInv, DumpState, FifoIsOwned
<1>3. /\ \A d \in Reader : rpc'[d] = "write" => rpc[d] = "write"
      /\ UNCHANGED <<held, len, size>>
  BY TaskFrame DEF NewRecord, PushRecord, DropRecord, dumpVars
<1> QED
  BY <1>2, <1>3 DEF SafeInv, BufferNeverOverrun, RecordLen

(* What is pushed is the record of the call that pushes it. *)
LEMMA TaskPublishes ==
  ASSUME NEW t \in Task, TaskStep(t),
         SafeInv
  PROVE  \/ UNCHANGED <<recorded_syscalls, published>>
         \/ /\ Recording(t) /\ mine[t] \in Record
            /\ published' = published \cup {mine[t]}
            /\ InFifo' = InFifo \cup {mine[t]}
            /\ UNCHANGED <<copies_to_user, truth>>
<1>1. CASE PushRecord(t)
  BY <1>1, PostOwnsCurrent, PushInFifo
     DEF PushRecord, Live, SafeInv, DumpInv, TypeOK, recordVars
<1> QED
  BY <1>1, TaskFrame DEF NewRecord, DropRecord, fifoVars

LEMMA TaskKeepsCopiesInv ==
  ASSUME NEW t \in Task, TaskStep(t),
         IInv
  PROVE  CopiesInv'
  BY TaskKeepsCopies, TaskPublishes
     DEF IInv, CopiesInv, CallStaysTrue, FinishedStays, CallIsTrue,
         RecordingIsTrue, RecordFaithful

(* A reader touches nothing of the hooks. *)
LEMMA ReaderFrame ==
  ASSUME NEW d \in Reader, ReaderStep(d)
  PROVE  UNCHANGED <<hookVars, published>>
  BY DEF ReaderStep, ReadProc, ReadFindsRecords, ReadReturnsEmpty,
     ReadMustWait, PrepareToWait, Interrupted, TakeOops, Oops, TakeRecord,
     ShortFirstRecord, ShortLaterRecord, WriteRecord, WriteLastRecord,
     WriteFails, fifoVars

(* A reader that takes the head of the fifo may keep it in its hand. *)
LEMMA TakeKeepsFifo ==
  ASSUME SafeInv, recorded_syscalls # <<>>, held = NULL,
         recorded_syscalls' = Tail(recorded_syscalls),
         held' \in {NULL, Head(recorded_syscalls)},
         UNCHANGED <<heap, published>>
  PROVE  /\ FifoIsOwned'
         /\ InFifo' = InFifo \ {Head(recorded_syscalls)}
         /\ Head(recorded_syscalls) \in InFifo
<1>1. /\ InFifo' = InFifo \ {Head(recorded_syscalls)}
      /\ Head(recorded_syscalls) \in InFifo
      /\ \A i, j \in DOMAIN recorded_syscalls' :
           recorded_syscalls'[i] = recorded_syscalls'[j] => i = j
  BY TakeInFifo DEF SafeInv, DumpInv, TypeOK
<1>2. \A e \in InFifo : Live(e) /\ e \in published
  BY DEF SafeInv, FifoIsOwned, InFifo
<1>3. \A i \in DOMAIN recorded_syscalls' : recorded_syscalls'[i] \in InFifo'
  BY DEF InFifo
<1> QED
  BY <1>1, <1>2, <1>3 DEF SafeInv, FifoIsOwned, Live

LEMMA ReaderKeepsFifo ==
  ASSUME NEW d \in Reader, ReaderStep(d),
         SafeInv
  PROVE  FifoIsOwned'
<1> USE ConstantsAssumption
    DEF SafeInv, DumpInv, TypeOK, DumpState, FifoIsOwned, Live, Oops,
        FreeRecord, InFifo, fifoVars, dumpVars, EndRead
<1>1. CASE \/ ReadProc(d) \/ ReadReturnsEmpty(d) \/ ReadMustWait(d)
           \/ PrepareToWait(d) \/ Interrupted(d) \/ TakeOops(d)
  <2>1. UNCHANGED <<recorded_syscalls, published, heap, held>>
    BY <1>1 DEF ReadProc, ReadReturnsEmpty, ReadMustWait, PrepareToWait,
       Interrupted, TakeOops
  <2> QED
    BY <2>1
<1>2. ASSUME NEW n \in BufferSizes, ReadFindsRecords(d, n)
      PROVE  FifoIsOwned'
  BY <1>2 DEF ReadFindsRecords
<1>3. CASE TakeRecord(d) \/ ShortFirstRecord(d) \/ ShortLaterRecord(d)
  <2>1. /\ recorded_syscalls # <<>> /\ held = NULL
        /\ recorded_syscalls' = Tail(recorded_syscalls)
        /\ held' \in {NULL, Head(recorded_syscalls)}
        /\ UNCHANGED <<heap, published>>
    BY <1>3 DEF TakeRecord, ShortFirstRecord, ShortLaterRecord, TakesRecord
  <2> HIDE DEF SafeInv, FifoIsOwned
  <2> QED
    BY <2>1, TakeKeepsFifo
<1>4. CASE WriteRecord(d) \/ WriteLastRecord(d) \/ WriteFails(d)
  BY <1>4, SMTT(30) DEF WriteRecord, WriteLastRecord, WriteFails
<1> QED
  BY <1>1, <1>2, <1>3, <1>4 DEF ReaderStep

(* A reader frees what it has taken, or leaks it. *)
LEMMA ReaderKeepsMemoryInv ==
  ASSUME NEW d \in Reader, ReaderStep(d),
         IInv
  PROVE  MemoryInv'
<1> DEFINE ByTask(r) ==
      \/ \E t \in Task : Recording(t) /\ tpc[t] # "unlocked" /\ mine[t] = r
      \/ LeakedByKill(r)
<1>0. \A r \in Record : ByTask(r)' = ByTask(r)
  BY ReaderFrame DEF hookVars, recordVars, Recording, LeakedByKill
<1>a. /\ MemoryAccounted
        <=> \A r \in Record : Live(r) =>
              ByTask(r) \/ r = held \/ r \in InFifo \cup swallowed \cup rejected
      /\ MemoryAccounted'
        <=> \A r \in Record : Live(r)' =>
              \/ ByTask(r)'
              \/ r = held' \/ r \in InFifo' \cup swallowed' \cup rejected'
  BY DEF MemoryAccounted, WillBeFreed, LeakedByShortRead
<1> HIDE DEF ByTask
<1> USE <1>0, <1>a, ConstantsAssumption
    DEF IInv, SafeInv, DumpInv, TypeOK, DumpState, MemoryInv, FifoIsOwned,
        PushedIsLetGo, Live, Oops, FreeRecord, InFifo,
        hookVars, recordVars, otherVars,
        fifoVars, dumpVars, ReaderAt,
        FinishWait, Locks, IsEmpty, EndRead, Unlock
<1>1. CASE ReadProc(d)
  BY <1>1 DEF ReadProc
<1>2. ASSUME NEW n \in BufferSizes, ReadFindsRecords(d, n)
      PROVE  MemoryInv'
  BY <1>2 DEF ReadFindsRecords, IsEmpty
<1>3. CASE ReadReturnsEmpty(d)
  BY <1>3 DEF ReadReturnsEmpty, IsEmpty
<1>4. CASE ReadMustWait(d)
  BY <1>4 DEF ReadMustWait, IsEmpty
<1>5. CASE PrepareToWait(d)
  BY <1>5 DEF PrepareToWait
<1>6. CASE Interrupted(d)
  BY <1>6 DEF Interrupted
<1>7. CASE TakeOops(d)
  BY <1>7 DEF TakeOops
<1>8. CASE TakeRecord(d)
  <2>1. /\ recorded_syscalls # <<>> /\ held = NULL
        /\ recorded_syscalls' = Tail(recorded_syscalls)
        /\ UNCHANGED <<heap, published, current_syscall_record, tpc>>
        /\ held' = Head(recorded_syscalls)
        /\ UNCHANGED <<swallowed, rejected>>
    BY <1>8 DEF TakeRecord, TakesRecord
  <2>2. /\ InFifo' = InFifo \ {Head(recorded_syscalls)}
        /\ Head(recorded_syscalls) \in InFifo
    BY <2>1, TakeKeepsFifo
  <2> HIDE DEF InFifo
  <2> QED
    BY <2>1, <2>2
<1>9. CASE ShortFirstRecord(d)
  <2>1. /\ recorded_syscalls # <<>> /\ held = NULL
        /\ recorded_syscalls' = Tail(recorded_syscalls)
        /\ UNCHANGED <<heap, published, current_syscall_record, tpc>>
        /\ held' = NULL /\ UNCHANGED swallowed
        /\ rejected' = rejected \cup {Head(recorded_syscalls)}
    BY <1>9 DEF ShortFirstRecord, TakesRecord
  <2>2. /\ InFifo' = InFifo \ {Head(recorded_syscalls)}
        /\ Head(recorded_syscalls) \in InFifo
    BY <2>1, TakeKeepsFifo
  <2> HIDE DEF InFifo
  <2> QED
    BY <2>1, <2>2
<1>10. CASE ShortLaterRecord(d)
  <2>1. /\ recorded_syscalls # <<>> /\ held = NULL
        /\ recorded_syscalls' = Tail(recorded_syscalls)
        /\ UNCHANGED <<heap, published, current_syscall_record, tpc>>
        /\ held' = NULL /\ UNCHANGED rejected
        /\ swallowed' = swallowed \cup {Head(recorded_syscalls)}
    BY <1>10 DEF ShortLaterRecord, TakesRecord
  <2>2. /\ InFifo' = InFifo \ {Head(recorded_syscalls)}
        /\ Head(recorded_syscalls) \in InFifo
    BY <2>1, TakeKeepsFifo
  <2> HIDE DEF InFifo
  <2> QED
    BY <2>1, <2>2
<1>11. CASE WriteRecord(d)
  BY <1>11 DEF WriteRecord, Dumped
<1>12. CASE WriteLastRecord(d)
  BY <1>12 DEF WriteLastRecord, Dumped
<1>13. CASE WriteFails(d)
  BY <1>13 DEF WriteFails
<1> HIDE DEF IInv, SafeInv, MemoryInv, FifoIsOwned, PushedIsLetGo, TypeOK,
   DumpState
<1> QED
  BY <1>1, <1>2, <1>3, <1>4, <1>5, <1>6, <1>7, <1>8, <1>9, <1>10, <1>11,
     <1>12, <1>13
  DEF ReaderStep

(* No reader has the record in progress. *)
LEMMA ReaderKeepsCurrent ==
  ASSUME NEW d \in Reader, ReaderStep(d),
         SafeInv
  PROVE  CurrentIsOwned'
<1> USE ConstantsAssumption
    DEF SafeInv, DumpInv, TypeOK, DumpState, FifoIsOwned,
        CurrentIsOwned, Recording, Live, Oops, FreeRecord, hookVars,
        recordVars, otherVars, fifoVars, ReaderAt,
        FinishWait, Locks, IsEmpty, EndRead, Unlock
<1>1. CASE ReadProc(d)
  BY <1>1 DEF ReadProc
<1>2. ASSUME NEW n \in BufferSizes, ReadFindsRecords(d, n)
      PROVE  CurrentIsOwned'
  BY <1>2 DEF ReadFindsRecords, IsEmpty
<1>3. CASE ReadReturnsEmpty(d)
  BY <1>3 DEF ReadReturnsEmpty, IsEmpty
<1>4. CASE ReadMustWait(d)
  BY <1>4 DEF ReadMustWait, IsEmpty
<1>5. CASE PrepareToWait(d)
  BY <1>5 DEF PrepareToWait
<1>6. CASE Interrupted(d)
  BY <1>6 DEF Interrupted
<1>7. CASE TakeOops(d)
  BY <1>7 DEF TakeOops
<1>8. CASE TakeRecord(d)
  BY <1>8 DEF TakeRecord, Fits
<1>9. CASE ShortFirstRecord(d)
  BY <1>9 DEF ShortFirstRecord, Fits
<1>10. CASE ShortLaterRecord(d)
  BY <1>10 DEF ShortLaterRecord, Fits
<1>11. CASE WriteRecord(d)
  BY <1>11 DEF WriteRecord, Dumped
<1>12. CASE WriteLastRecord(d)
  BY <1>12 DEF WriteLastRecord, Dumped
<1>13. CASE WriteFails(d)
  BY <1>13 DEF WriteFails
<1> HIDE DEF CurrentIsOwned, SafeInv, TypeOK, DumpState
<1> QED
  BY <1>1, <1>2, <1>3, <1>4, <1>5, <1>6, <1>7, <1>8, <1>9, <1>10, <1>11,
     <1>12, <1>13
  DEF ReaderStep

(* No reader uses a dangling pointer, or finds the fifo empty. *)
LEMMA ReaderIsDefined ==
  ASSUME NEW d \in Reader, ReaderStep(d),
         SafeInv
  PROVE  UNCHANGED oops
<1> USE DEF SafeInv, DumpInv, DumpState, FifoIsOwned
<1>1. CASE ReadProc(d)
  BY <1>1 DEF ReadProc
<1>2. ASSUME NEW n \in BufferSizes, ReadFindsRecords(d, n)
      PROVE  UNCHANGED oops
  BY <1>2 DEF ReadFindsRecords, IsEmpty
<1>3. CASE ReadReturnsEmpty(d)
  BY <1>3 DEF ReadReturnsEmpty, IsEmpty
<1>4. CASE ReadMustWait(d)
  BY <1>4 DEF ReadMustWait, IsEmpty
<1>5. CASE PrepareToWait(d)
  BY <1>5 DEF PrepareToWait
<1>6. CASE Interrupted(d)
  BY <1>6 DEF Interrupted
<1>7. CASE TakeOops(d)
  <2>1. recorded_syscalls # <<>> => Live(Head(recorded_syscalls))
    <3>1. recorded_syscalls # <<>>
            => /\ Head(recorded_syscalls) = recorded_syscalls[1]
               /\ 1 \in DOMAIN recorded_syscalls
      BY TailElements DEF TypeOK
    <3> QED
      BY <3>1
  <2> QED
    BY <1>7, <2>1 DEF TakeOops
<1>8. CASE TakeRecord(d)
  BY <1>8 DEF TakeRecord, Fits
<1>9. CASE ShortFirstRecord(d)
  BY <1>9 DEF ShortFirstRecord, Fits
<1>10. CASE ShortLaterRecord(d)
  BY <1>10 DEF ShortLaterRecord, Fits
<1>11. CASE WriteRecord(d)
  BY <1>11 DEF WriteRecord, Dumped
<1>12. CASE WriteLastRecord(d)
  BY <1>12 DEF WriteLastRecord, Dumped
<1>13. CASE WriteFails(d)
  BY <1>13 DEF WriteFails
<1> HIDE DEF DumpState, SafeInv
<1> QED
  BY <1>1, <1>2, <1>3, <1>4, <1>5, <1>6, <1>7, <1>8, <1>9, <1>10, <1>11,
     <1>12, <1>13
  DEF ReaderStep

(* A record does not grow in a reader's hand. *)
LEMMA ReaderKeepsBuffer ==
  ASSUME NEW d \in Reader, ReaderStep(d),
         SafeInv
  PROVE  BufferNeverOverrun'
<1> USE ConstantsAssumption
    DEF SafeInv, DumpInv, TypeOK, DumpState, BufferNeverOverrun, Live, Oops,
        RecordLen, hookVars, recordVars, otherVars, fifoVars, dumpVars,
        TakesRecord, ReaderAt, FinishWait, Locks, IsEmpty, EndRead, Unlock
<1>1. CASE ReadProc(d)
  BY <1>1 DEF ReadProc
<1>2. ASSUME NEW n \in BufferSizes, ReadFindsRecords(d, n)
      PROVE  BufferNeverOverrun'
  BY <1>2 DEF ReadFindsRecords, IsEmpty
<1>3. CASE ReadReturnsEmpty(d)
  BY <1>3 DEF ReadReturnsEmpty, IsEmpty
<1>4. CASE ReadMustWait(d)
  BY <1>4 DEF ReadMustWait, IsEmpty
<1>5. CASE PrepareToWait(d)
  BY <1>5 DEF PrepareToWait
<1>6. CASE Interrupted(d)
  BY <1>6 DEF Interrupted
<1>7. CASE TakeOops(d)
  BY <1>7 DEF TakeOops
<1>8. CASE TakeRecord(d)
  BY <1>8 DEF TakeRecord, Fits
<1>9. CASE ShortFirstRecord(d)
  BY <1>9 DEF ShortFirstRecord, Fits
<1>10. CASE ShortLaterRecord(d)
  BY <1>10 DEF ShortLaterRecord, Fits
<1>11. CASE WriteRecord(d)
  BY <1>11 DEF WriteRecord, Dumped
<1>12. CASE WriteLastRecord(d)
  BY <1>12 DEF WriteLastRecord, Dumped
<1>13. CASE WriteFails(d)
  BY <1>13 DEF WriteFails
<1> HIDE DEF BufferNeverOverrun, SafeInv, TypeOK, DumpState
<1> QED
  BY <1>1, <1>2, <1>3, <1>4, <1>5, <1>6, <1>7, <1>8, <1>9, <1>10, <1>11,
     <1>12, <1>13
  DEF ReaderStep

(* Without a change to the pid file only hooks and readers take steps. *)
LEMMA TaskKeepsSafeInv ==
  ASSUME NEW t \in Task, TaskStep(t),
         SafeInv, PidIsSafe
  PROVE  SafeInv'
  BY TaskKeepsDumpInv, TaskKeepsControlInv, TaskKeepsCurrent, TaskKeepsFifo,
     TaskKeepsBuffer DEF SafeInv

LEMMA ReaderKeepsSafeInv ==
  ASSUME NEW d \in Reader, ReaderStep(d),
         SafeInv
  PROVE  SafeInv'
<1>1. ControlInv'
  BY ReaderFrame DEF hookVars, recordVars, SafeInv, ControlInv, OneTaskAtWork,
     ProbesMatchControl, CopyIsOwned, Busy
<1> QED
  BY <1>1, ReaderKeepsDumpInv, ReaderKeepsCurrent, ReaderKeepsFifo,
     ReaderKeepsBuffer DEF SafeInv

(* The pid changes while no hook is at work. *)
LEMMA WriteKeepsSafeInv ==
  ASSUME NEW pid \in Task \cup {NoPid}, StartRecording(pid),
         SafeInv, Exclusive
  PROVE  SafeInv' /\ UNCHANGED oops /\ CallStaysTrue
<1> USE DEF StartRecording, SafeInv, otherVars, fifoVars, dumpVars
<1>1. \A t \in Task : ~Busy(t)
  BY ConstantsAssumption DEF ExclusiveWrite
<1>2. ControlInv'
  BY <1>1 DEF ControlInv, OneTaskAtWork, ProbesMatchControl, CopyIsOwned, Busy
<1>3. DumpInv'
  BY DEF DumpInv, TypeOK, DumpState
<1>4. CurrentIsOwned' /\ FifoIsOwned' /\ BufferNeverOverrun'
  BY DEF CurrentIsOwned, Recording, Live, FifoIsOwned, InFifo,
     BufferNeverOverrun, RecordLen
<1>5. CallStaysTrue
  BY DEF CallStaysTrue, FinishedStays, CallIsTrue, CopyIsFree,
     RecordingIsTrue, Recording
<1> QED
  BY <1>2, <1>3, <1>4, <1>5

----------------------------------------------------------------------------
LEMMA InitIInv == Init => IInv
<1> SUFFICES ASSUME Init PROVE IInv
  OBVIOUS
<1> USE ConstantsAssumption DEF Init
<1>1. DumpInv
  <2>1. \A S : <<>> \in Seq(S)
    BY EmptySeq
  <2>2. /\ copies_to_user \in [Record -> Seq(Task)]
        /\ truth \in [Record -> Seq(Task)]
        /\ stream \in [Reader -> Seq(Record)]
    BY <2>1
  <2>3. TypeOK
    BY <2>1, <2>2 DEF TypeOK, TaskPC, ReaderPC
  <2>4. DumpState
    BY DEF DumpState
  <2> QED
    BY <2>3, <2>4 DEF DumpInv
<1>2. NoUndefinedUse /\ ControlInv /\ CurrentIsOwned
  BY DEF NoUndefinedUse, ControlInv, OneTaskAtWork, ProbesMatchControl,
         CopyIsOwned, CurrentIsOwned, Recording, Busy
<1>3. FifoIsOwned /\ BufferNeverOverrun /\ MemoryInv
  BY DEF FifoIsOwned, BufferNeverOverrun, MemoryInv, PushedIsLetGo,
         MemoryAccounted, Live, InFifo
<1>4. CopiesInv
  BY DEF CopiesInv, CallIsTrue, CopyIsFree, RecordingIsTrue, Recording,
         RecordFaithful
<1> QED
  BY <1>1, <1>2, <1>3, <1>4 DEF IInv, SafeInv

LEMMA TaskKeepsIInv ==
  ASSUME NEW t \in Task, TaskStep(t),
         IInv, PidIsSafe
  PROVE  IInv'
  BY TaskKeepsSafeInv, TaskIsDefined, TaskKeepsMemoryInv, TaskKeepsCopiesInv
     DEF IInv, NoUndefinedUse

LEMMA ReaderKeepsIInv ==
  ASSUME NEW d \in Reader, ReaderStep(d),
         IInv
  PROVE  IInv'
<1>1. CopiesInv'
  BY ReaderFrame DEF hookVars, recordVars, IInv, CopiesInv, CallIsTrue,
     CopyIsFree, RecordingIsTrue, Recording, RecordFaithful
<1> QED
  BY <1>1, ReaderKeepsSafeInv, ReaderIsDefined, ReaderKeepsMemoryInv
     DEF IInv, NoUndefinedUse

(* Only the pid may change, and not who hooks are at work for. *)
LEMMA PidKeepsIInv ==
  ASSUME IInv, OneTaskAtWork', recorded_process_pid' \in Task \cup {NoPid},
         UNCHANGED <<current_syscall_record, current_copy, copies_to_user>>,
         UNCHANGED <<tpc, probes, mine, truth, otherVars>>
  PROVE  IInv'
<1> USE DEF otherVars, fifoVars, dumpVars, IInv, SafeInv
<1>1. DumpInv'
  BY DEF DumpInv, TypeOK, DumpState
<1>2. NoUndefinedUse' /\ ControlInv' /\ CurrentIsOwned'
  BY DEF NoUndefinedUse, ControlInv, ProbesMatchControl, CopyIsOwned,
     CurrentIsOwned, Recording, Live
<1>3. FifoIsOwned' /\ BufferNeverOverrun' /\ MemoryInv'
  BY MemoryFrame
     DEF FifoIsOwned, BufferNeverOverrun, RecordLen, Live, InFifo, Recording
<1>4. CopiesInv'
  BY DEF CopiesInv, CallIsTrue, CopyIsFree, RecordingIsTrue, Recording,
     RecordFaithful
<1> QED
  BY <1>1, <1>2, <1>3, <1>4

LEMMA VarsKeepIInv ==
  ASSUME IInv, UNCHANGED vars
  PROVE  IInv'
<1>1. OneTaskAtWork'
  BY DEF IInv, SafeInv, ControlInv, OneTaskAtWork, Busy, vars, hookVars,
     recordVars
<1>2. recorded_process_pid' \in Task \cup {NoPid}
  BY DEF IInv, SafeInv, DumpInv, TypeOK, vars, hookVars, recordVars
<1> QED
  BY <1>1, <1>2, PidKeepsIInv DEF vars, hookVars, recordVars

LEMMA IInvStep ==
  ASSUME Exclusive, IInv, [Next]_vars
  PROVE  IInv'
<1>1. ASSUME NEW pid \in Task \cup {NoPid}, StartRecording(pid)
      PROVE  IInv'
  <2>1. OneTaskAtWork'
    BY <1>1, WriteKeepsSafeInv DEF IInv, SafeInv, ControlInv
  <2> QED
    BY <1>1, <2>1, PidKeepsIInv DEF StartRecording
<1> QED
  BY <1>1, TaskKeepsIInv, ReaderKeepsIInv, VarsKeepIInv DEF Next, PidIsSafe

----------------------------------------------------------------------------
(***************************************************************************)
(* Whatever is written to the pid file and whoever reads the dump file,    *)
(* the mutex's holder is the reader that is in a dump, a reader that looks *)
(* for a record finds one, and nothing is left in hand when it unlocks.    *)
(***************************************************************************)
THEOREM DumpInvAlways == Spec => []DumpInv
<1>1. Init => DumpInv
  BY InitIInv DEF IInv, SafeInv
<1>2. DumpInv /\ [Next]_vars => DumpInv'
  BY DumpInvStep
<1> QED
  BY <1>1, <1>2, PTL DEF Spec

(* Every variable of the recorder has its type. *)
THEOREM TypeOKAlways == Spec => []TypeOK
<1>1. DumpInv => TypeOK
  BY DEF DumpInv
<1> QED
  BY <1>1, DumpInvAlways, PTL

(***************************************************************************)
(* So whoever dumps holds the mutex and finds a record in the fifo.        *)
(***************************************************************************)
THEOREM DumpCorrect == Spec => [](TypeOK /\ DumpFindsRecord)
<1>1. DumpInv => TypeOK /\ DumpFindsRecord
  BY DEF DumpInv, DumpState, DumpFindsRecord
<1> QED
  BY <1>1, DumpInvAlways, PTL

(* The strengthening, for a pid file written as ExclusiveWrite says. *)
THEOREM IInvAlways ==
  ASSUME Exclusive
  PROVE  Spec => []IInv
<1>1. Init => IInv
  BY InitIInv
<1>2. IInv /\ [Next]_vars => IInv'
  BY IInvStep
<1> QED
  BY <1>1, <1>2, PTL DEF Spec

(***************************************************************************)
(* Then no handler and no reader ever uses a null or dangling pointer,     *)
(* though reader and hooks free records without telling each other.        *)
(***************************************************************************)
THEOREM NoUndefinedUseAlways ==
  ASSUME Exclusive
  PROVE  Spec => []NoUndefinedUse
<1>1. IInv => NoUndefinedUse
  BY DEF IInv
<1> QED
  BY <1>1, IInvAlways, PTL

(* And every record in the fifo, or taken from it, has the copies of its   *)
(* own system call, and those only.                                        *)
THEOREM RecordFaithfulAlways ==
  ASSUME Exclusive
  PROVE  Spec => []RecordFaithful
<1>1. IInv => RecordFaithful
  BY DEF IInv, CopiesInv
<1> QED
  BY <1>1, IInvAlways, PTL

(* And a record fits the room that was checked when it is copied out. *)
THEOREM BufferNeverOverrunAlways ==
  ASSUME Exclusive
  PROVE  Spec => []BufferNeverOverrun
<1>1. IInv => BufferNeverOverrun
  BY DEF IInv, SafeInv
<1> QED
  BY <1>1, IInvAlways, PTL

(***************************************************************************)
(* A record is leaked by a read that has no room for it, or by the kill of *)
(* the task whose call it records, and then it is the current one: every   *)
(* other live record is the hooks', the fifo's or the reader's to free.    *)
(***************************************************************************)
THEOREM MemoryAccountedAlways ==
  ASSUME Exclusive
  PROVE  Spec => []MemoryAccounted
<1>1. IInv => MemoryAccounted
  BY DEF IInv, MemoryInv
<1> QED
  BY <1>1, IInvAlways, PTL

----------------------------------------------------------------------------
(* Facts about sequences. *)
LEMMA ConcatAppend ==
  ASSUME NEW S, NEW a \in Seq(S), NEW f \in Seq(S), NEW e \in S
  PROVE  a \o Append(f, e) = Append(a \o f, e)
  OBVIOUS

LEMMA ConcatHeadTail ==
  ASSUME NEW S, NEW f \in Seq(S), f # <<>>
  PROVE  <<Head(f)>> \o Tail(f) = f
  OBVIOUS

LEMMA ConcatElement ==
  ASSUME NEW S, NEW a \in Seq(S), NEW e \in S
  PROVE  /\ a \o <<e>> = Append(a, e)
         /\ a \o <<e>> \in Seq(S)
  OBVIOUS

LEMMA SubSeqPrefix ==
  ASSUME NEW S, NEW a \in Seq(S), NEW f \in Seq(S)
  PROVE  SubSeq(a \o f, 1, Len(a)) = a
  OBVIOUS

LEMMA SubSeqSuffix ==
  ASSUME NEW S, NEW a \in Seq(S), NEW f \in Seq(S)
  PROVE  SubSeq(a \o f, Len(a) + 1, Len(a \o f)) = f
  OBVIOUS

LEMMA SubSeqTail ==
  ASSUME NEW S, NEW a \in Seq(S), NEW f \in Seq(S), f # <<>>
  PROVE  SubSeq(a \o f, Len(a) + 2, Len(a \o f)) = Tail(f)
  OBVIOUS

----------------------------------------------------------------------------
Elem == Record \cup {NULL}

(* The queue while no record is held. *)
LEMMA QueueUnheld ==
  ASSUME DumpInv, held = NULL
  PROVE  /\ TheQueue = written \o recorded_syscalls
         /\ written \in Seq(Elem)
         /\ recorded_syscalls \in Seq(Elem)
<1>1. written \in Seq(Elem) /\ recorded_syscalls \in Seq(Elem)
  BY DEF DumpInv, TypeOK, Elem
<1>2. written \o <<>> = written
  BY <1>1, ConcatEmptySeq
<1> QED
  BY <1>1, <1>2 DEF TheQueue

(* The queue while one is: it is one of the records taken. *)
LEMMA QueueHeld ==
  ASSUME DumpInv, held # NULL
  PROVE  /\ TheQueue = Append(written, held) \o recorded_syscalls
         /\ written \in Seq(Elem)
         /\ Append(written, held) \in Seq(Elem)
         /\ recorded_syscalls \in Seq(Elem)
<1>1. /\ written \in Seq(Elem) /\ recorded_syscalls \in Seq(Elem)
      /\ held \in Elem
  BY DEF DumpInv, TypeOK, Elem
<1>2. written \o <<held>> = Append(written, held)
  BY <1>1, ConcatElement
<1> QED
  BY <1>1, <1>2, AppendProperties DEF TheQueue

(* Steps that do not touch the queue, nor what was read. *)
LEMMA StreamStutters ==
  ASSUME UNCHANGED <<written, held, recorded_syscalls, stream, published>>
  PROVE  UNCHANGED Stream!streamVars
  BY DEF Stream!streamVars, TheQueue

(* A hook finishes a record, or none. *)
LEMMA TaskStreams ==
  ASSUME IInv, NEW t \in Task, TaskStep(t)
  PROVE  Stream!Next \/ UNCHANGED Stream!streamVars
<1>1. CASE PushRecord(t)
  <2>2. current_syscall_record \in Record \ published
    BY <1>1, PostOwnsCurrent DEF PushRecord, IInv, Live
  <2>3. TheQueue' = Append(TheQueue, current_syscall_record)
    <3> DEFINE taken == written \o (IF held = NULL THEN <<>> ELSE <<held>>)
    <3>1. taken \in Seq(Elem) /\ recorded_syscalls \in Seq(Elem)
      <4>1. written \in Seq(Elem) /\ held \in Elem
            /\ recorded_syscalls \in Seq(Elem)
        BY DEF IInv, SafeInv, DumpInv, TypeOK, Elem
      <4>2. CASE held = NULL
        BY <4>1, <4>2, ConcatEmptySeq
      <4>3. CASE held # NULL
        BY <4>1, <4>3, ConcatElement
      <4> QED
        BY <4>1, <4>2, <4>3
    <3>2. current_syscall_record \in Elem
      BY <2>2 DEF Elem
    <3>3. /\ TheQueue = taken \o recorded_syscalls
          /\ TheQueue' = taken \o Append(recorded_syscalls,
                                         current_syscall_record)
      BY <1>1 DEF PushRecord, TheQueue, dumpVars
    <3> HIDE DEF taken
    <3> QED
      BY <3>1, <3>2, <3>3, ConcatAppend
  <2>4. Stream!Finish(current_syscall_record)
    BY <1>1, <2>2, <2>3 DEF Stream!Finish, PushRecord, otherVars, dumpVars
  <2> QED
    BY <2>2, <2>4 DEF Stream!Next
<1>2. CASE ~PushRecord(t)
  <2>1. UNCHANGED <<dumpVars, fifoVars>>
    BY <1>2, TaskFrame DEF NewRecord, DropRecord
  <2> QED
    BY <2>1, StreamStutters DEF dumpVars, fifoVars
<1> QED
  BY <1>1, <1>2

----------------------------------------------------------------------------
(* A read that returns is a Return or a Fail; its other steps are stutters. *)
LEMMA ReaderStreams ==
  ASSUME IInv, NEW d \in Reader, ReaderStep(d)
  PROVE  Stream!Next \/ UNCHANGED Stream!streamVars
<1>0. DumpInv /\ DumpState /\ DumpInv'
  BY TypeOK, ReaderKeepsDumpInv DEF IInv, SafeInv, DumpInv
<1>1. CASE TakeRecord(d)
  <2>1. /\ held = NULL
        /\ held' = Head(recorded_syscalls) /\ held' # NULL
        /\ recorded_syscalls # <<>>
        /\ recorded_syscalls' = Tail(recorded_syscalls)
        /\ UNCHANGED <<written, stream, published>>
    BY <1>0, <1>1, ConstantsAssumption
       DEF TakeRecord, Fits, TakesRecord, DumpState, Live
  <2>2. TheQueue = written \o recorded_syscalls
        /\ written \in Seq(Elem) /\ recorded_syscalls \in Seq(Elem)
    BY <1>0, <2>1, QueueUnheld
  <2>3. TheQueue' = (written \o <<Head(recorded_syscalls)>>)
                      \o Tail(recorded_syscalls)
    BY <2>1 DEF TheQueue
  <2>4. Head(recorded_syscalls) \in Elem /\ Tail(recorded_syscalls) \in Seq(Elem)
    BY <2>1, <2>2, HeadTailProperties
  <2>5. <<Head(recorded_syscalls)>> \in Seq(Elem)
    BY <2>4
  <2>6. TheQueue' = written \o (<<Head(recorded_syscalls)>>
                                  \o Tail(recorded_syscalls))
    BY <2>2, <2>3, <2>4, <2>5, ConcatAssociative
  <2>7. TheQueue' = TheQueue
    BY <2>1, <2>2, <2>6, ConcatHeadTail
  <2> QED
    BY <2>1, <2>7 DEF Stream!streamVars
<1>2. CASE WriteRecord(d)
  <2>1. /\ held # NULL /\ held' = NULL
        /\ written' = Append(written, held)
        /\ UNCHANGED <<recorded_syscalls, stream, published>>
    BY <1>0, <1>2 DEF WriteRecord, Dumped, DumpState, fifoVars
  <2>2. TheQueue = Append(written, held) \o recorded_syscalls
    BY <1>0, <2>1, QueueHeld
  <2>3. TheQueue' = (Append(written, held) \o <<>>) \o recorded_syscalls
    BY <2>1 DEF TheQueue
  <2>4. Append(written, held) \in Seq(Elem)
    BY <1>0, <2>1, QueueHeld
  <2>5. Append(written, held) \o <<>> = Append(written, held)
    BY <2>4, ConcatEmptySeq
  <2> QED
    BY <2>1, <2>2, <2>3, <2>5 DEF Stream!streamVars
<1>3. CASE WriteLastRecord(d)
  <2> DEFINE w == Append(written, held)
  <2>1. /\ held # NULL /\ held' = NULL /\ written' = <<>>
        /\ recorded_syscalls = <<>> /\ recorded_syscalls' = <<>>
        /\ stream' = [stream EXCEPT ![d] = @ \o w]
        /\ UNCHANGED published
    BY <1>0, <1>3 DEF WriteLastRecord, Dumped, EndRead, Unlock, DumpState
  <2>2. TheQueue = w /\ w \in Seq(Elem) /\ w # <<>> /\ Len(w) \in Nat \ {0}
    <3>1. /\ TheQueue = w \o <<>> /\ w \in Seq(Elem)
          /\ written \in Seq(Elem) /\ held \in Elem
      BY <1>0, <2>1, QueueHeld DEF DumpInv, TypeOK, Elem
    <3>2. w \o <<>> = w
      BY <3>1, ConcatEmptySeq
    <3> QED
      BY <3>1, <3>2, AppendProperties, EmptySeq
  <2>3. TheQueue' = <<>>
    BY <2>1 DEF TheQueue
  <2> HIDE DEF w
  <2>4. SubSeq(w, 1, Len(w)) = w /\ SubSeq(w, Len(w) + 1, Len(w)) = <<>>
    BY <2>2
  <2>5. Len(w) + 0 = Len(w) /\ Len(w) <= Len(TheQueue) /\ TheQueue = w
    BY <2>2
  <2>6. Stream!Return(d, Len(w), 0)
    <3>1. SubSeq(TheQueue, Len(w) + 0 + 1, Len(TheQueue)) = TheQueue'
      BY <2>3, <2>4, <2>5
    <3> QED
      BY <2>1, <2>4, <2>5, <3>1 DEF Stream!Return, Stream!From
  <2> QED
    BY <2>2, <2>6 DEF Stream!Next
<1>4. CASE ShortLaterRecord(d)
  <2>1. /\ held = NULL /\ held' = NULL /\ written' = <<>> /\ written # <<>>
        /\ recorded_syscalls # <<>>
        /\ recorded_syscalls' = Tail(recorded_syscalls)
        /\ stream' = [stream EXCEPT ![d] = @ \o written]
        /\ UNCHANGED published
    BY <1>0, <1>4 DEF ShortLaterRecord, Fits, TakesRecord, EndRead, Unlock,
       DumpState
  <2>2. TheQueue = written \o recorded_syscalls
        /\ written \in Seq(Elem) /\ recorded_syscalls \in Seq(Elem)
    BY <1>0, <2>1, QueueUnheld
  <2>3. TheQueue' = Tail(recorded_syscalls)
    <3>1. Tail(recorded_syscalls) \in Seq(Elem)
      BY <2>1, <2>2, HeadTailProperties
    <3>2. TheQueue' = (<<>> \o <<>>) \o Tail(recorded_syscalls)
      BY <2>1 DEF TheQueue
    <3> QED
      BY <3>1, <3>2, ConcatEmptySeq
  <2>4. /\ Len(written) \in Nat \ {0}
        /\ Len(written) + 1 <= Len(TheQueue)
        /\ Len(written) \in 1..Len(TheQueue)
    BY <2>1, <2>2, ConcatProperties, EmptySeq
  <2>5. SubSeq(TheQueue, 1, Len(written)) = written
    BY <2>2, SubSeqPrefix
  <2>6. SubSeq(TheQueue, Len(written) + 1 + 1, Len(TheQueue))
          = Tail(recorded_syscalls)
    BY <2>1, <2>2, <2>4, SubSeqTail
  <2>7. Stream!Return(d, Len(written), 1)
    BY <2>1, <2>3, <2>4, <2>5, <2>6 DEF Stream!Return, Stream!From
  <2> QED
    BY <2>4, <2>7 DEF Stream!Next
<1>5. CASE ShortFirstRecord(d)
  <2>1. /\ held = NULL /\ held' = NULL /\ written' = <<>> /\ written = <<>>
        /\ recorded_syscalls # <<>>
        /\ recorded_syscalls' = Tail(recorded_syscalls)
        /\ UNCHANGED <<stream, published>>
    BY <1>0, <1>5 DEF ShortFirstRecord, Fits, TakesRecord, EndRead, Unlock,
       DumpState
  <2>2. TheQueue = <<>> \o recorded_syscalls /\ recorded_syscalls \in Seq(Elem)
        /\ <<>> \in Seq(Elem) /\ Len(<<>>) = 0
    BY <1>0, <2>1, QueueUnheld, EmptySeq
  <2>3. TheQueue' = Tail(recorded_syscalls)
    <3>1. Tail(recorded_syscalls) \in Seq(Elem)
      BY <2>1, <2>2, HeadTailProperties
    <3>2. TheQueue' = (<<>> \o <<>>) \o Tail(recorded_syscalls)
      BY <2>1 DEF TheQueue
    <3> QED
      BY <3>1, <3>2, ConcatEmptySeq
  <2>4. SubSeq(TheQueue, 1 + 1, Len(TheQueue)) = Tail(recorded_syscalls)
    BY <2>1, <2>2, SubSeqTail
  <2>5. 1 <= Len(TheQueue) /\ 1 \in 1..Len(TheQueue)
    BY <2>1, <2>2, ConcatProperties, EmptySeq
  <2>6. Stream!Fail(1)
    BY <2>1, <2>3, <2>4, <2>5 DEF Stream!Fail, Stream!From
  <2> QED
    BY <2>5, <2>6 DEF Stream!Next
<1>6. CASE WriteFails(d)
  <2> DEFINE w == Append(written, held)
  <2>1. /\ held # NULL /\ held' = NULL /\ written' = <<>>
        /\ UNCHANGED <<recorded_syscalls, stream, published>>
    BY <1>0, <1>6 DEF WriteFails, EndRead, Unlock, DumpState
  <2>2. /\ TheQueue = w \o recorded_syscalls
        /\ w \in Seq(Elem) /\ recorded_syscalls \in Seq(Elem)
        /\ Len(w) \in Nat \ {0}
    <3>1. /\ TheQueue = w \o recorded_syscalls
          /\ w \in Seq(Elem) /\ recorded_syscalls \in Seq(Elem)
          /\ written \in Seq(Elem) /\ held \in Elem
      BY <1>0, <2>1, QueueHeld DEF DumpInv, TypeOK, Elem
    <3> QED
      BY <3>1, AppendProperties, EmptySeq
  <2>3. TheQueue' = recorded_syscalls
    <3>1. TheQueue' = (<<>> \o <<>>) \o recorded_syscalls
      BY <2>1 DEF TheQueue
    <3> QED
      BY <2>2, <3>1, ConcatEmptySeq
  <2> HIDE DEF w
  <2>4. SubSeq(TheQueue, Len(w) + 1, Len(TheQueue)) = recorded_syscalls
    BY <2>2, SubSeqSuffix
  <2>5. Len(w) \in 1..Len(TheQueue)
    BY <2>2, ConcatProperties, LenProperties
  <2>6. Stream!Fail(Len(w))
    BY <2>1, <2>3, <2>4, <2>5 DEF Stream!Fail, Stream!From
  <2> QED
    BY <2>5, <2>6 DEF Stream!Next
<1>7. CASE /\ ~TakeRecord(d) /\ ~WriteRecord(d) /\ ~WriteLastRecord(d)
           /\ ~ShortLaterRecord(d) /\ ~ShortFirstRecord(d) /\ ~WriteFails(d)
  <2>1. UNCHANGED <<written, held, recorded_syscalls, stream, published>>
    BY <1>7 DEF ReaderStep, ReadProc, ReadFindsRecords, ReadReturnsEmpty,
       ReadMustWait, PrepareToWait, Interrupted, TakeOops, Oops, dumpVars,
       fifoVars, otherVars, IsEmpty
  <2> QED
    BY <2>1, StreamStutters
<1> QED
  BY <1>1, <1>2, <1>3, <1>4, <1>5, <1>6, <1>7

----------------------------------------------------------------------------
LEMMA StreamStep ==
  ASSUME IInv, [Next]_vars
  PROVE  [Stream!Next]_(Stream!streamVars)
<1>1. ASSUME NEW pid \in Task \cup {NoPid}, StartRecording(pid)
      PROVE  UNCHANGED Stream!streamVars
  BY <1>1, StreamStutters DEF StartRecording, otherVars, dumpVars, fifoVars
<1>2. CASE UNCHANGED vars
  BY <1>2, StreamStutters DEF vars, otherVars, dumpVars, fifoVars
<1> QED
  BY <1>1, <1>2, TaskStreams, ReaderStreams DEF Next

(***************************************************************************)
(* The recorder implements RecordStream: records are read in the order in  *)
(* which their system calls finished, each by one read, which returns all  *)
(* that it took or fails.                                                  *)
(***************************************************************************)
THEOREM ImplementsStreamAlways ==
  ASSUME Exclusive
  PROVE  Spec => ImplementsStream
<1>1. Init => Stream!Init
  BY ConcatEmptySeq, EmptySeq DEF Init, Stream!Init, TheQueue
<1>2. IInv /\ [Next]_vars => [Stream!Next]_(Stream!streamVars)
  BY StreamStep
<1> QED
  BY <1>1, <1>2, IInvAlways, PTL DEF Spec, ImplementsStream, Stream!Spec
=============================================================================
