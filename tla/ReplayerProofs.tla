--------------------------- MODULE ReplayerProofs ---------------------------
(***************************************************************************)
(* Proofs about Replayer, for programs, recordings and losses of any       *)
(* length: the decisions of should_simulate.py agree with each other; what *)
(* a finished replay says of its recording; and that a complete recording  *)
(* is reproduced: the tracee makes the recorded calls, sees their results, *)
(* and has the files, the mappings and the output of the recorded process. *)
(***************************************************************************)
EXTENDS Replayer, Recursion

----------------------------------------------------------------------------
(* No call between i and j closes fd, or returns it. *)
StaysOpen(calls, fd, i, j) ==
  \A k \in (i + 1)..(j - 1) : ~IsClose(calls[k], fd) /\ ~IsOpen(calls[k], fd)

(***************************************************************************)
(* The decisions for open and for close, which search the recording in     *)
(* opposite directions, agree: a file is opened in the tracee if and only  *)
(* if the close of it is made in the tracee, whatever other files had its  *)
(* descriptor before or after.                                             *)
(***************************************************************************)
THEOREM OpenAndCloseAgree ==
  ASSUME NEW calls, Len(calls) \in Nat,
         NEW i \in 1..Len(calls), NEW j \in (i + 1)..Len(calls),
         calls[i].num \in {"open", "openat"},
         IsClose(calls[j], calls[i].ret),
         StaysOpen(calls, calls[i].ret, i, j)
  PROVE  ShouldSimulate(calls, i) <=> ShouldSimulate(calls, j)
<1> DEFINE fd == calls[i].ret
           mapped == \E m \in (i + 1)..(j - 1) : IsMmap(calls[m], fd)
<1>0. ~IsMmap(calls[i], fd) /\ ~IsClose(calls[i], fd) /\ IsOpen(calls[i], fd)
  BY DEF IsMmap, IsClose, IsOpen, OpenCalls
<1>1. FdAppearsInMmapBeforeClose(fd, calls, i) <=> mapped
  <2>1. ASSUME NEW m \in i..Len(calls), IsMmap(calls[m], fd),
               \A k \in i..(m - 1) : ~IsClose(calls[k], fd)
        PROVE  mapped
    <3>1. m # i /\ m # j
      BY <1>0, <2>1 DEF IsMmap, IsClose
    <3>2. ~(m > j)
      BY <2>1
    <3> QED
      BY <2>1, <3>1, <3>2
  <2>2. ASSUME NEW m \in (i + 1)..(j - 1), IsMmap(calls[m], fd)
        PROVE  FdAppearsInMmapBeforeClose(fd, calls, i)
    <3>1. \A k \in i..(m - 1) : ~IsClose(calls[k], fd)
      BY <1>0 DEF StaysOpen
    <3> QED
      BY <2>2, <3>1 DEF FdAppearsInMmapBeforeClose
  <2> QED
    BY <2>1, <2>2 DEF FdAppearsInMmapBeforeClose
<1>2. MmapAppearsAfterOpen(fd, calls, j) <=> mapped
  <2>1. ASSUME NEW m \in 1..(j - 1), IsMmap(calls[m], fd),
               \A k \in (m + 1)..(j - 1) : ~IsOpen(calls[k], fd)
        PROVE  mapped
    <3>1. m # i /\ ~(m < i)
      BY <1>0, <2>1
    <3> QED
      BY <2>1, <3>1
  <2>2. ASSUME NEW m \in (i + 1)..(j - 1), IsMmap(calls[m], fd)
        PROVE  MmapAppearsAfterOpen(fd, calls, j)
    <3>1. \A k \in (m + 1)..(j - 1) : ~IsOpen(calls[k], fd)
      BY DEF StaysOpen
    <3> QED
      BY <2>2, <3>1 DEF MmapAppearsAfterOpen
  <2> QED
    BY <2>1, <2>2 DEF MmapAppearsAfterOpen
<1>3. /\ ShouldSimulate(calls, i) = ~FdAppearsInMmapBeforeClose(fd, calls, i)
      /\ ShouldSimulate(calls, j) = ~MmapAppearsAfterOpen(fd, calls, j)
  BY DEF ShouldSimulate, IsClose
<1> QED
  BY <1>1, <1>2, <1>3

----------------------------------------------------------------------------
(* A sequence, whatever its elements are. *)
IsSeq(s) == s \in Seq({s[i] : i \in 1..Len(s)})

(* The recording is the calls that were made, or shorter. *)
RecordingInv ==
  /\ IsSeq(executed) /\ IsSeq(system_calls)
  /\ Len(system_calls) <= Len(executed)
  /\ Len(system_calls) = Len(executed) => Complete
  /\ \A k \in 1..Len(executed) : executed[k].num \in Calls

(* The replayer uses up one record for each call of the tracee. *)
PositionInv ==
  /\ IsSeq(seen)
  /\ index \in Nat
  /\ index <= Len(system_calls) + 1
  /\ pc # "unexpectedReturn" => index = Len(seen) + 1
  /\ pc \in {"simulating", "wrapping"} => index <= Len(system_calls)

(* The call the tracee is in is one its program makes. *)
CallInv ==
  /\ pc \in {"entered", "done"} => regs \in NextCalls
  /\ pc = "done" => regs.num = "exit_group" /\ index > Len(system_calls)

LossInv == RecordingInv /\ PositionInv /\ CallInv

----------------------------------------------------------------------------
LEMMA AppendIsSeq ==
  ASSUME NEW s, NEW e, IsSeq(s)
  PROVE  /\ IsSeq(Append(s, e))
         /\ Len(s) \in Nat
         /\ Len(Append(s, e)) = Len(s) + 1
         /\ \A i \in 1..Len(s) : Append(s, e)[i] = s[i]
         /\ Append(s, e)[Len(s) + 1] = e
<1> DEFINE S == {s[i] : i \in 1..Len(s)} \cup {e}
           t == Append(s, e)
<1>1. s \in Seq(S) /\ e \in S /\ Len(s) \in Nat
  <2>1. s \in Seq({s[i] : i \in 1..Len(s)})
    BY DEF IsSeq
  <2>2. \A i \in 1..Len(s) : s[i] \in S
    OBVIOUS
  <2>3. Len(s) \in Nat /\ s = [i \in 1..Len(s) |-> s[i]]
    BY <2>1
  <2>4. s \in [1..Len(s) -> S]
    BY <2>2, <2>3
  <2> QED
    BY <2>3, <2>4, SeqDef
<1> HIDE DEF S
<1>2. /\ t \in Seq(S)
      /\ Len(t) = Len(s) + 1
      /\ \A i \in 1..Len(s) : t[i] = s[i]
      /\ t[Len(s) + 1] = e
  BY <1>1, AppendProperties
<1>3. t \in Seq({t[i] : i \in 1..Len(t)})
  <2>1. Len(t) \in Nat /\ t \in [1..Len(t) -> S]
    BY <1>2, LenProperties
  <2>2. t \in [1..Len(t) -> {t[i] : i \in 1..Len(t)}]
    BY <2>1
  <2> QED
    BY <2>1, <2>2, SeqDef
<1> QED
  BY <1>1, <1>2, <1>3 DEF IsSeq

LEMMA EmptyIsSeq == IsSeq(<<>>)
BY EmptySeq DEF IsSeq

LEMMA LenIsNat ==
  ASSUME NEW s, IsSeq(s)
  PROVE  Len(s) \in Nat
BY LenProperties DEF IsSeq

LEMMA LossInit == Init => LossInv
BY EmptyIsSeq DEF Init, LossInv, RecordingInv, PositionInv, CallInv, Complete

----------------------------------------------------------------------------
(* A call that is made while the process is recorded, on record or lost. *)
LEMMA ExecutesKeepsLossInv ==
  ASSUME LossInv, NEW call, NEW table, Executes(call, table)
  PROVE  LossInv'
<1> USE DEF LossInv
<1>1. /\ executed' = Append(executed, call) /\ call.num \in Calls
      /\ pc = "recording" /\ UNCHANGED <<pc, index, seen, regs>>
      /\ system_calls' = Append(system_calls, call)
           \/ system_calls' = system_calls
  BY DEF Executes, traceeVars, replayVars
<1>2. /\ IsSeq(executed') /\ Len(executed') = Len(executed) + 1
      /\ Len(executed) \in Nat /\ Len(system_calls) \in Nat
      /\ \A i \in 1..Len(executed) : executed'[i] = executed[i]
      /\ executed'[Len(executed) + 1] = call
  BY <1>1, AppendIsSeq DEF RecordingInv
<1>3. /\ IsSeq(system_calls')
      /\ Len(system_calls') <= Len(executed')
      /\ Len(system_calls') >= Len(system_calls)
      /\ Len(system_calls') = Len(executed') => system_calls' = executed'
  <2>1. CASE system_calls' = Append(system_calls, call)
    <3>1. /\ IsSeq(system_calls')
          /\ Len(system_calls') = Len(system_calls) + 1
      BY <2>1, AppendIsSeq DEF RecordingInv
    <3> QED
      BY <1>1, <1>2, <2>1, <3>1 DEF RecordingInv, Complete
  <2>2. CASE system_calls' = system_calls
    BY <1>2, <2>2 DEF RecordingInv
  <2> QED
    BY <1>1, <2>1, <2>2
<1>4. RecordingInv'
  BY <1>1, <1>2, <1>3 DEF RecordingInv, Complete
<1>5. Len(system_calls') \in Nat
  BY <1>3, LenIsNat
<1>6. PositionInv'
  BY <1>1, <1>2, <1>3, <1>5 DEF PositionInv
<1>7. CallInv'
  BY <1>1 DEF CallInv
<1> QED
  BY <1>4, <1>6, <1>7

LEMMA RecordingKeepsLossInv ==
  ASSUME LossInv, RecordingStep
  PROVE  LossInv'
<1>1. CASE RecordingEnds
  BY <1>1 DEF RecordingEnds, recordVars, traceeVars, LossInv, RecordingInv,
     PositionInv, CallInv, Complete
<1>2. CASE \E call, table : Executes(call, table)
  BY <1>2, ExecutesKeepsLossInv
<1> QED
  BY <1>1, <1>2 DEF RecordingStep, RecordOpen, RecordFailedOpen, RecordClose,
     RecordMmap, RecordAnonymousMmap, RecordFailedMmap, RecordMunmap,
     RecordFailedMunmap, RecordRead, RecordWrite

----------------------------------------------------------------------------
(* The steps at which the tracee's call returns. *)
LEMMA ReturnKeepsLossInv ==
  ASSUME LossInv, NEW ret,
         UNCHANGED recordVars,
         pc \in {"simulating", "wrapping"},
         seen' = Append(seen, ret),
         \/ pc' = "run" /\ index' = index + 1
         \/ pc' = "unexpectedReturn" /\ index' = index
  PROVE  LossInv'
<1>1. RecordingInv'
  BY DEF LossInv, RecordingInv, Complete, recordVars
<1>2. IsSeq(seen') /\ Len(seen) \in Nat /\ Len(seen') = Len(seen) + 1
  BY AppendIsSeq DEF LossInv, PositionInv
<1>3. Len(system_calls) \in Nat /\ UNCHANGED system_calls
  BY LenIsNat DEF LossInv, RecordingInv, recordVars
<1>4. PositionInv'
  <2>1. /\ index \in Nat /\ index = Len(seen) + 1
        /\ index <= Len(system_calls)
        /\ index <= Len(system_calls) + 1
    BY DEF LossInv, PositionInv
  <2>2. CASE pc' = "run" /\ index' = index + 1
    BY <1>2, <1>3, <2>1, <2>2 DEF PositionInv
  <2>3. CASE pc' = "unexpectedReturn" /\ index' = index
    <3>1. index' \in Nat /\ index' <= Len(system_calls') + 1
      BY <1>3, <2>1, <2>3
    <3>2. pc' = "unexpectedReturn" /\ pc' \notin {"simulating", "wrapping"}
      BY <2>3
    <3> QED
      BY <1>2, <3>1, <3>2 DEF PositionInv
  <2> QED
    BY <2>2, <2>3
<1>5. CallInv'
  BY DEF CallInv
<1> QED
  BY <1>1, <1>4, <1>5 DEF LossInv

LEMMA ReplayKeepsLossInv ==
  ASSUME LossInv, ReplayStep
  PROVE  LossInv'
<1>0. Len(system_calls) \in Nat
  BY LenIsNat DEF LossInv, RecordingInv
<1> USE DEF LossInv, recordVars
<1>1. CASE Attach \/ StoppedBySignal \/ UnexpectedSysCall
  BY <1>1 DEF Attach, StoppedBySignal, UnexpectedSysCall, traceeVars,
     RecordingInv, PositionInv, CallInv, Complete
<1>2. CASE RunToEntry
  <2>1. NextCalls' = NextCalls
    <3>1. executed' = executed /\ seen' = seen
      BY <1>2 DEF RunToEntry
    <3> QED
      BY <3>1 DEF NextCalls, Diverged, Agrees
  <2>2. regs' \in NextCalls
    BY <1>2 DEF RunToEntry
  <2> QED
    BY <1>2, <2>1, <2>2
       DEF RunToEntry, RecordingInv, PositionInv, CallInv, Complete
<1>3. CASE Simulate \/ Wrap
  BY <1>3 DEF Simulate, Wrap, AtRecordedCall, RecordingInv, PositionInv,
     CallInv, Complete
<1>4. CASE Answer
  BY <1>4, ReturnKeepsLossInv DEF Answer, NextRecord
<1>5. ASSUME NEW ret, RunReal(ret)
      PROVE  LossInv'
  BY <1>5, ReturnKeepsLossInv DEF RunReal, NextRecord
<1>6. CASE Exits
  <2>1. NextCalls' = NextCalls
    BY <1>6 DEF Exits, NextCalls, Diverged, Agrees
  <2> QED
    BY <1>0, <1>6, <2>1 DEF Exits, IsExitGroup, RecordingInv, PositionInv,
       CallInv, Complete
<1> QED
  BY <1>1, <1>2, <1>3, <1>4, <1>5, <1>6 DEF ReplayStep

LEMMA LossStep == LossInv /\ [Next]_vars => LossInv'
<1> SUFFICES ASSUME LossInv, [Next]_vars
             PROVE  LossInv'
  OBVIOUS
<1>1. CASE UNCHANGED vars
  <2>1. NextCalls' = NextCalls
    BY <1>1 DEF vars, recordVars, traceeVars, NextCalls, Diverged, Agrees
  <2> QED
    BY <1>1, <2>1 DEF vars, recordVars, traceeVars, replayVars, LossInv,
       RecordingInv, PositionInv, CallInv, Complete
<1> QED
  BY <1>1, RecordingKeepsLossInv, ReplayKeepsLossInv DEF Next

(* A program that has seen what it saw when recorded exits at its end. *)
LEMMA LossInvIsEnough == LossInv => LossIsNoticed
<1> SUFFICES ASSUME LossInv, pc = "done", ~Diverged
             PROVE  Complete
  BY DEF LossIsNoticed
<1> DEFINE k == Len(seen) + 1
<1>1. Len(seen) \in Nat /\ Len(system_calls) \in Nat /\ Len(executed) \in Nat
  BY LenIsNat DEF LossInv, RecordingInv, PositionInv
<1>2. Len(seen) <= Len(executed)
  BY <1>1 DEF Diverged
<1>3. k > Len(executed)
  <2>1. SUFFICES ASSUME k \in 1..Len(executed)
                 PROVE  FALSE
    BY <1>1
  <2>2. regs \in NextCalls /\ regs.num = "exit_group"
    BY DEF LossInv, CallInv
  <2>3. regs.num = executed[k].num
    BY <1>1, <2>1, <2>2 DEF NextCalls, Regs
  <2>4. executed[k].num # "exit_group"
    BY <2>1, ConstantsAssumption DEF LossInv, RecordingInv, OpenCalls
  <2> QED
    BY <2>2, <2>3, <2>4
<1>4. Len(system_calls) = Len(executed)
  BY <1>1, <1>2, <1>3 DEF LossInv, RecordingInv, PositionInv, CallInv
<1> QED
  BY <1>4 DEF LossInv, RecordingInv

(***************************************************************************)
(* A replay that returns an exit status missed no record, unless the       *)
(* tracee was already given a wrong answer: raise_on_unexpected_state and  *)
(* get_exit_status notice each call that is missing, wherever it is.       *)
(***************************************************************************)
THEOREM LossIsNoticedAlways == Spec => []LossIsNoticed
<1>1. Spec => []LossInv
  BY LossInit, LossStep, PTL DEF Spec
<1> QED
  BY <1>1, LossInvIsEnough, PTL

----------------------------------------------------------------------------
(* Call o returned a descriptor; a call up to call n closed it. *)
Opens(o) == executed[o].num \in NewDescriptor /\ executed[o].ret >= 0

Closed(o, n) ==
  \E j \in 1..n : executed[j].num = "close" /\ executed[j].opener = o

(* The descriptor that may be open from the start. *)
Kept == CHOOSE fd \in Nat : Inherited \subseteq {fd}

LEMMA KeptFact == Kept \in Nat /\ Inherited \subseteq {Kept}
<1>1. \E fd \in Nat : Inherited \subseteq {fd}
  <2>1. CASE Inherited = {}
    BY <2>1
  <2>2. CASE Inherited # {}
    <3>1. PICK fd : fd \in Inherited
      BY <2>2
    <3> QED
      BY <3>1, ConstantsAssumption
  <2> QED
    BY <2>1, <2>2
<1> QED
  BY <1>1 DEF Kept

(* Descriptor fd of the recorded process, after n calls. *)
FileIsOpen(fd, n) ==
  LET o == files[fd]
  IN  /\ fd \in Nat
      /\ ~Closed(o, n)
      /\ o = Snapshot =>
           fd = Kept /\ \A i \in 1..n : Opens(i) => executed[i].ret # Kept
      /\ o # Snapshot => o \in 1..n /\ Opens(o) /\ executed[o].ret = fd

(* What call o opened, after n calls. *)
OpenIsFile(o, n) ==
  Opens(o) /\ ~Closed(o, n) =>
    executed[o].ret \in DOMAIN files /\ files[executed[o].ret] = o

(* The descriptors of the recorded process are what its calls left open. *)
FilesInv ==
  /\ IsFiniteSet(DOMAIN files)
  /\ \A fd \in DOMAIN files : FileIsOpen(fd, Len(executed))
  /\ \A o \in 1..Len(executed) : OpenIsFile(o, Len(executed))

(* What call k may be, whatever its descriptor is. *)
CallIsTyped(k) ==
  LET call == executed[k]
  IN  /\ call.num \in Calls /\ call.fd \in Int /\ call.ret \in Int
      /\ call.num = "read" => call.ret \in Data
      /\ call.num \in {"open", "openat"} => call.ret >= 0 \/ call.ret = Error
      /\ call.num = "close" => call.fd # NoFd /\ call.ret = 0
      /\ call.num = "mmap" => call.ret \in {k, Error}
      /\ call.num = "munmap" =>
           call.ret = IF call.fd = NoFd THEN Invalid ELSE 0
      /\ call.num = "write" =>
           call.fd # NoFd /\ call.ret \in {Error} \cup 1..WriteSize
      /\ call.num \notin {"close", "mmap", "munmap", "write"} => call.fd = NoFd
      /\ call.fd = NoFd => call.opener = k

(* A call closes, maps or writes to a descriptor that is open. *)
DescriptorIsOpen(k) ==
  LET call == executed[k]
  IN  call.num \in {"close", "mmap", "write"} /\ call.fd # NoFd =>
        /\ ~Closed(call.opener, k - 1)
        /\ call.opener = Snapshot =>
             /\ call.fd = Kept
             /\ \A o \in 1..(k - 1) : Opens(o) => executed[o].ret # Kept
        /\ call.opener # Snapshot =>
             /\ call.opener \in 1..(k - 1)
             /\ Opens(call.opener)
             /\ executed[call.opener].ret = call.fd
             /\ call.num = "mmap" =>
                  executed[call.opener].num \in {"open", "openat"}

(* It unmaps what is mapped. *)
MappingIsThere(k) ==
  LET call == executed[k]
  IN  call.num = "munmap" /\ call.fd # NoFd =>
        /\ call.opener \in 1..(k - 1)
        /\ IsMapped(call.opener, k - 1)
        /\ call.fd = call.opener

(* The descriptor a call returns is not open. *)
DescriptorIsNew(k) ==
  Opens(k) => \A o \in 1..(k - 1) :
                Opens(o) /\ ~Closed(o, k - 1)
                  => executed[o].ret # executed[k].ret

CallIsProper(k) ==
  CallIsTyped(k) /\ DescriptorIsOpen(k) /\ MappingIsThere(k)
    /\ DescriptorIsNew(k)

CallsInv == \A k \in 1..Len(executed) : CallIsProper(k)

ProgramInv == FilesInv /\ CallsInv

----------------------------------------------------------------------------
(* Before the replay, the tracee has the files the process started with. *)
HasSnapshot == Kept \in DOMAIN real /\ real[Kept] = Snapshot

StartInv ==
  pc = "recording" =>
    /\ seen = <<>> /\ maps = <<>> /\ stdout = <<>>
    /\ buffer = 0 /\ index = 1
    /\ IsFiniteSet(DOMAIN real)
    /\ \A fd \in DOMAIN real : fd = Kept /\ real[fd] = Snapshot
    /\ \A fd \in DOMAIN files : files[fd] = Snapshot => HasSnapshot
    /\ \A k \in 1..Len(executed) :
         executed[k].opener = Snapshot => HasSnapshot

(* The tracee opens a file, where it is mapped before it is closed. *)
Opened(o) ==
  executed[o].num \in {"open", "openat"} /\ ~ShouldSimulate(executed, o)

(* What call o opened in the tracee, after n calls of it. *)
FileIsHeld(o, n) ==
  Opened(o) /\ ~Closed(o, n) =>
    seen[o] \in DOMAIN real /\ real[seen[o]] = o

(* Descriptor fd of the tracee, after n calls. *)
HeldIsFile(fd, n) ==
  LET o == real[fd]
  IN  /\ fd \in Nat
      /\ o = Snapshot => fd = Kept
      /\ o # Snapshot =>
           o \in 1..n /\ Opened(o) /\ seen[o] = fd /\ ~Closed(o, n)

(* The files of the tracee are those among the files of the process. *)
FilesTracked ==
  /\ IsFiniteSet(DOMAIN real)
  /\ \A o \in 1..Len(seen) : FileIsHeld(o, Len(seen))
  /\ \A fd \in DOMAIN real : HeldIsFile(fd, Len(seen))
  /\ \A k \in (Len(seen) + 1)..Len(executed) :
       executed[k].opener = Snapshot => HasSnapshot

MapsTracked ==
  /\ DOMAIN maps = {k \in 1..Len(seen) : IsMapped(k, Len(seen))}
  /\ \A k \in DOMAIN maps :
       maps[k] = IF executed[k].fd = NoFd THEN NoFd ELSE executed[k].opener

(* The registers are those of the recorded call, but for its descriptor. *)
TraceeFd(k) ==
  IF executed[k].fd = NoFd \/ executed[k].opener = Snapshot
  THEN executed[k].fd
  ELSE seen[executed[k].opener]

CallTracked ==
  LET k == Len(seen) + 1
  IN  /\ pc \in {"simulating", "wrapping"} =>
           /\ k <= Len(executed)
           /\ ShouldSimulate(executed, k) <=> pc = "simulating"
      /\ pc = "wrapping" =>
           /\ regs.num = executed[k].num
           /\ regs.fd = TraceeFd(k)
           /\ regs.addr = IF regs.num = "mmap" THEN executed[k].ret ELSE 0

MemoryTracked == buffer = Held(Len(seen))

(* A chunk is the whole of the buffer the recorded process wrote from. *)
OutputTracked ==
  /\ Len(stdout) = Cardinality(Prints(Reached))
  /\ \A i \in Prints(Reached) :
       stdout[Cardinality(Prints(i))] = Bytes(Held(i))

Tracked ==
  ~Diverged /\ FilesTracked /\ MapsTracked /\ CallTracked /\ MemoryTracked
    /\ OutputTracked /\ CallsAreExpected /\ OnlyOpenAndErrorsRaise

(* The records are of calls that were made; what is printed was read. *)
ValuesInv ==
  /\ \A i \in 1..Len(system_calls) :
       \E k \in 1..Len(executed) : system_calls[i] = executed[k]
  /\ buffer \in Data \cup {0}
  /\ IsSeq(stdout)
  /\ \A i \in 1..Len(stdout) : stdout[i] \in [1..WriteSize -> Data \cup {0}]
  /\ \A i \in 1..Len(seen) : seen[i] \in Int
  /\ tracee \in {"user", "entry", "exited"}
  /\ index >= 1
  /\ pc \in {"recording", "attach", "run", "entered", "simulating", "wrapping",
             "done", "stopped", "unexpectedCall", "unexpectedReturn"}

ReplayInv ==
  /\ LossInv /\ ProgramInv /\ StartInv /\ ValuesInv
  /\ pc # "recording" /\ Reproducible => Tracked
----------------------------------------------------------------------------
(* The lowest free descriptor of a table is free. *)
LEMMA FreeIsFree ==
  ASSUME NEW table, IsFiniteSet(DOMAIN table)
  PROVE  Free(table) \in Nat /\ Free(table) \notin DOMAIN table
<1> DEFINE n == Cardinality(DOMAIN table)
           T == {fd \in 0..n : fd \notin DOMAIN table}
<1>1. n \in Nat
  BY FS_CardinalityType
<1>2. T # {}
  <2>1. SUFFICES ASSUME 0..n \subseteq DOMAIN table
                 PROVE  FALSE
    OBVIOUS
  <2>2. Cardinality(0..n) <= n
    BY <2>1, FS_Subset
  <2>3. Cardinality(0..n) = n + 1
    BY <1>1, FS_Interval
  <2> QED
    BY <1>1, <2>2, <2>3
<1>3. PICK fd \in T : \A y \in T : fd <= y
  <2>1. T \subseteq Nat
    BY <1>1
  <2> QED
    BY <1>2, <2>1, LeastNumber
<1>4. \A lower \in 0..(fd - 1) : lower \in DOMAIN table
  BY <1>1, <1>3
<1> QED
  BY <1>1, <1>3, <1>4 DEF Free

----------------------------------------------------------------------------
(* A call that is made changes nothing of the calls before it. *)
LEMMA ExecutedGrows ==
  ASSUME RecordingInv, NEW call, executed' = Append(executed, call),
         NEW n, n = Len(executed)
  PROVE  /\ n \in Nat /\ Len(executed') = n + 1
         /\ \A k \in 1..n : executed'[k] = executed[k]
         /\ executed'[n + 1] = call
         /\ \A o \in 1..n : Opens(o)' <=> Opens(o)
         /\ \A m \in 0..n : \A o : Closed(o, m)' <=> Closed(o, m)
         /\ \A o : Closed(o, n + 1)' <=>
               Closed(o, n) \/ (call.num = "close" /\ call.opener = o)
         /\ \A k \in 1..n : \A m \in 0..n :
               IsMapped(k, m)' <=> IsMapped(k, m)
<1>1. /\ n \in Nat /\ Len(executed') = n + 1
      /\ \A k \in 1..n : executed'[k] = executed[k]
      /\ executed'[n + 1] = call
  BY AppendIsSeq DEF RecordingInv
<1>2. \A o \in 1..n : Opens(o)' <=> Opens(o)
  BY <1>1 DEF Opens
<1>3. \A m \in 0..n : \A o : Closed(o, m)' <=> Closed(o, m)
  BY <1>1 DEF Closed
<1>4. \A o : Closed(o, n + 1)' <=>
           Closed(o, n) \/ (call.num = "close" /\ call.opener = o)
  <2>1. 1..(n + 1) = (1..n) \cup {n + 1}
    BY <1>1
  <2>2. ASSUME NEW o, NEW j \in 1..(n + 1), executed'[j].num = "close",
               executed'[j].opener = o
        PROVE  Closed(o, n) \/ (call.num = "close" /\ call.opener = o)
    <3>1. CASE j = n + 1
      BY <1>1, <2>2, <3>1
    <3>2. CASE j \in 1..n
      <4>1. executed[j].num = "close" /\ executed[j].opener = o
        BY <1>1, <2>2, <3>2
      <4> QED
        BY <3>2, <4>1 DEF Closed
    <3> QED
      BY <2>1, <3>1, <3>2
  <2>3. ASSUME NEW o, NEW j \in 1..n, executed[j].num = "close",
               executed[j].opener = o
        PROVE  Closed(o, n + 1)'
    BY <1>1, <2>1, <2>3 DEF Closed
  <2>4. ASSUME NEW o, call.num = "close" /\ call.opener = o
        PROVE  Closed(o, n + 1)'
    <3>1. n + 1 \in 1..(n + 1)
      BY <1>1
    <3> QED
      BY <1>1, <2>4, <3>1 DEF Closed
  <2> QED
    BY <2>2, <2>3, <2>4 DEF Closed
<1>5. \A k \in 1..n : \A m \in 0..n : IsMapped(k, m)' <=> IsMapped(k, m)
  BY <1>1 DEF IsMapped
<1> QED
  BY <1>1, <1>2, <1>3, <1>4, <1>5

LEMMA ProperCallsStay ==
  ASSUME RecordingInv, CallsInv, NEW call,
         executed' = Append(executed, call),
         NEW n, n = Len(executed), CallIsProper(n + 1)'
  PROVE  CallsInv'
<1>1. /\ n \in Nat /\ Len(executed') = n + 1
      /\ \A k \in 1..n : executed'[k] = executed[k]
      /\ \A o \in 1..n : Opens(o)' <=> Opens(o)
      /\ \A m \in 0..n : \A o : Closed(o, m)' <=> Closed(o, m)
      /\ \A k \in 1..n : \A m \in 0..n : IsMapped(k, m)' <=> IsMapped(k, m)
  BY ExecutedGrows
<1>2. CallIsProper(n + 1)'
  OBVIOUS
<1>3. ASSUME NEW k \in 1..n
      PROVE  CallIsProper(k)'
  <2>0. CallIsProper(k) /\ executed'[k] = executed[k] /\ k - 1 \in 0..n
    BY <1>1 DEF CallsInv
  <2>1. CallIsTyped(k)'
    BY <2>0 DEF CallIsProper, CallIsTyped
  <2>2. DescriptorIsOpen(k)'
    BY <1>1, <2>0 DEF CallIsProper, DescriptorIsOpen, NewDescriptor
  <2>3. MappingIsThere(k)'
    BY <1>1, <2>0 DEF CallIsProper, MappingIsThere
  <2>4. DescriptorIsNew(k)'
    <3>1. ASSUME Opens(k), NEW o \in 1..(k - 1), Opens(o), ~Closed(o, k - 1)
          PROVE  executed'[o].ret # executed'[k].ret
      BY <1>1, <2>0, <3>1 DEF CallIsProper, DescriptorIsNew
    <3>2. \A o \in 1..(k - 1) : Opens(o)' <=> Opens(o)
      BY <1>1
    <3>3. Opens(k)' <=> Opens(k)
      BY <1>1
    <3>4. \A o : Closed(o, k - 1)' <=> Closed(o, k - 1)
      BY <1>1, <2>0
    <3> QED
      BY <3>1, <3>2, <3>3, <3>4 DEF DescriptorIsNew
  <2> QED
    BY <2>1, <2>2, <2>3, <2>4 DEF CallIsProper
<1>4. ASSUME NEW k \in 1..(n + 1)
      PROVE  CallIsProper(k)'
  <2>1. CASE k = n + 1
    BY <1>2, <2>1
  <2>2. CASE k # n + 1
    BY <1>1, <1>3, <2>2
  <2> QED
    BY <2>1, <2>2
<1> QED
  BY <1>1, <1>4 DEF CallsInv
----------------------------------------------------------------------------
(* The descriptors of the process, after a call. *)
LEMMA OtherCallKeepsFilesInv ==
  ASSUME RecordingInv, FilesInv, NEW call, executed' = Append(executed, call),
         files' = files, call.num # "close",
         ~(call.num \in NewDescriptor /\ call.ret >= 0)
  PROVE  FilesInv'
<1>1. PICK n : n = Len(executed)
  OBVIOUS
<1>2. /\ n \in Nat /\ Len(executed') = n + 1
      /\ \A k \in 1..n : executed'[k] = executed[k]
      /\ executed'[n + 1] = call
      /\ \A o \in 1..n : Opens(o)' <=> Opens(o)
      /\ \A o : Closed(o, n + 1)' <=> Closed(o, n)
  BY <1>1, ExecutedGrows
<1>3. ~Opens(n + 1)'
  BY <1>2 DEF Opens, NewDescriptor, OpenCalls
<1>4. ASSUME NEW fd \in DOMAIN files'
      PROVE  FileIsOpen(fd, n + 1)'
  BY <1>1, <1>2, <1>3 DEF FilesInv, FileIsOpen
<1>5. ASSUME NEW o \in 1..(n + 1)
      PROVE  OpenIsFile(o, n + 1)'
  BY <1>1, <1>2, <1>3 DEF FilesInv, OpenIsFile
<1> QED
  BY <1>2, <1>4, <1>5 DEF FilesInv

LEMMA OpenKeepsFilesInv ==
  ASSUME RecordingInv, FilesInv, CallsInv,
         NEW call, executed' = Append(executed, call),
         NEW n, n = Len(executed),
         call.num \in NewDescriptor, call.ret = Free(files),
         files' = With(files, call.ret, n + 1)
  PROVE  FilesInv'
<1>2. /\ n \in Nat /\ Len(executed') = n + 1
      /\ \A k \in 1..n : executed'[k] = executed[k]
      /\ executed'[n + 1] = call
      /\ \A o \in 1..n : Opens(o)' <=> Opens(o)
      /\ \A o : Closed(o, n + 1)' <=> Closed(o, n)
  BY ExecutedGrows DEF NewDescriptor, OpenCalls
<1>3. call.ret \in Nat /\ call.ret \notin DOMAIN files
  BY FreeIsFree DEF FilesInv
<1>4. Opens(n + 1)'
  BY <1>2, <1>3 DEF Opens
<1>5. ~Closed(n + 1, n)
  BY <1>2 DEF Closed, CallsInv, CallIsProper, DescriptorIsOpen, CallIsTyped,
     Snapshot
<1>6. /\ DOMAIN files' = DOMAIN files \cup {call.ret}
      /\ files'[call.ret] = n + 1
      /\ \A fd \in DOMAIN files : files'[fd] = files[fd]
  BY <1>3 DEF With
<1>7. IsFiniteSet(DOMAIN files')
  BY <1>6, FS_AddElement DEF FilesInv
<1>8. ASSUME NEW fd \in DOMAIN files'
      PROVE  FileIsOpen(fd, n + 1)'
  <2>1. CASE fd = call.ret
    BY <1>2, <1>3, <1>4, <1>5, <1>6, <2>1 DEF FileIsOpen, Snapshot
  <2>2. CASE fd \in DOMAIN files
    <3>1. FileIsOpen(fd, n) /\ files'[fd] = files[fd] /\ fd # call.ret
      BY <1>3, <1>6, <2>2 DEF FilesInv
    <3>2. ~Closed(files[fd], n + 1)'
      BY <1>2, <3>1 DEF FileIsOpen
    <3>3. fd = Kept => executed'[n + 1].ret # Kept
      BY <1>2, <3>1
    <3> QED
      BY <1>2, <3>1, <3>2, <3>3 DEF FileIsOpen
  <2> QED
    BY <1>6, <2>1, <2>2
<1>9. ASSUME NEW o \in 1..(n + 1)
      PROVE  OpenIsFile(o, n + 1)'
  BY <1>2, <1>6 DEF FilesInv, OpenIsFile
<1> QED
  BY <1>2, <1>7, <1>8, <1>9 DEF FilesInv

LEMMA CloseKeepsFilesInv ==
  ASSUME RecordingInv, FilesInv, NEW call, executed' = Append(executed, call),
         NEW fd \in DOMAIN files,
         call.num = "close", call.opener = files[fd],
         files' = Without(files, fd)
  PROVE  FilesInv'
<1>1. PICK n : n = Len(executed)
  OBVIOUS
<1>2. /\ n \in Nat /\ Len(executed') = n + 1
      /\ \A k \in 1..n : executed'[k] = executed[k]
      /\ executed'[n + 1] = call
      /\ \A o \in 1..n : Opens(o)' <=> Opens(o)
  BY <1>1, ExecutedGrows
<1>3. \A o : Closed(o, n + 1)' <=> Closed(o, n) \/ o = files[fd]
  BY <1>1, ExecutedGrows
<1>4. ~Opens(n + 1)'
  BY <1>2 DEF Opens, NewDescriptor, OpenCalls
<1>5. /\ DOMAIN files' = DOMAIN files \ {fd}
      /\ \A x \in DOMAIN files' : files'[x] = files[x]
  BY DEF Without
<1>6. \A x \in DOMAIN files' : files[x] # files[fd]
  BY <1>5 DEF FilesInv, FileIsOpen
<1>7. IsFiniteSet(DOMAIN files')
  BY <1>5, FS_RemoveElement DEF FilesInv
<1>8. ASSUME NEW x \in DOMAIN files'
      PROVE  FileIsOpen(x, n + 1)'
  <2>1. FileIsOpen(x, n) /\ files'[x] = files[x]
    BY <1>1, <1>5 DEF FilesInv
  <2>2. ~Closed(files[x], n + 1)'
    BY <1>3, <1>6, <2>1 DEF FileIsOpen
  <2> QED
    BY <1>2, <1>4, <2>1, <2>2 DEF FileIsOpen
<1>9. ASSUME NEW o \in 1..(n + 1)
      PROVE  OpenIsFile(o, n + 1)'
  BY <1>1, <1>2, <1>3, <1>4, <1>5 DEF FilesInv, OpenIsFile
<1> QED
  BY <1>2, <1>7, <1>8, <1>9 DEF FilesInv
----------------------------------------------------------------------------
(* Each call is proper when it is made. *)
LEMMA CallWithoutFdIsProper ==
  ASSUME RecordingInv, NEW call, executed' = Append(executed, call),
         NEW n, n = Len(executed),
         CallIsTyped(n + 1)', call.fd = NoFd,
         ~(call.num \in NewDescriptor /\ call.ret >= 0)
  PROVE  CallIsProper(n + 1)'
<1>1. n \in Nat /\ executed'[n + 1] = call
  BY ExecutedGrows
<1>2. DescriptorIsOpen(n + 1)' /\ MappingIsThere(n + 1)'
  BY <1>1 DEF DescriptorIsOpen, MappingIsThere
<1>3. DescriptorIsNew(n + 1)'
  BY <1>1 DEF DescriptorIsNew, Opens
<1> QED
  BY <1>2, <1>3 DEF CallIsProper

LEMMA OpenIsProper ==
  ASSUME RecordingInv, FilesInv, NEW num \in NewDescriptor \cap Calls,
         NEW call, executed' = Append(executed, call),
         NEW n, n = Len(executed),
         call = Call(num, NoFd, n + 1, Free(files))
  PROVE  CallIsProper(n + 1)'
<1>1. /\ n \in Nat /\ executed'[n + 1] = call
      /\ \A k \in 1..n : executed'[k] = executed[k]
      /\ \A o \in 1..n : Opens(o)' <=> Opens(o)
      /\ \A o : Closed(o, n)' <=> Closed(o, n)
  BY ExecutedGrows
<1>2. /\ call.num = num /\ call.fd = NoFd /\ call.opener = n + 1
      /\ call.ret = Free(files)
  BY DEF Call
<1>3. call.ret \in Nat /\ call.ret \notin DOMAIN files
  BY <1>2, FreeIsFree DEF FilesInv
<1>4. CallIsTyped(n + 1)'
  BY <1>1, <1>2, <1>3 DEF CallIsTyped, NewDescriptor, OpenCalls, NoFd
<1>5. DescriptorIsOpen(n + 1)' /\ MappingIsThere(n + 1)'
  BY <1>1, <1>2 DEF DescriptorIsOpen, MappingIsThere
<1>6. ASSUME NEW o \in 1..n, Opens(o), ~Closed(o, n)
      PROVE  executed[o].ret # call.ret
  BY <1>1, <1>3, <1>6 DEF FilesInv, OpenIsFile
<1>7. DescriptorIsNew(n + 1)'
  BY <1>1, <1>6 DEF DescriptorIsNew
<1> QED
  BY <1>4, <1>5, <1>7 DEF CallIsProper

LEMMA FdCallIsProper ==
  ASSUME RecordingInv, FilesInv, NEW fd \in DOMAIN files,
         NEW call, executed' = Append(executed, call),
         NEW n, n = Len(executed),
         call.num \in {"close", "mmap", "write"} \cap Calls,
         call.fd = fd, call.opener = files[fd], call.ret \in Int,
         call.num = "close" => call.ret = 0,
         call.num = "mmap" => call.ret = n + 1,
         call.num = "write" => call.ret \in {Error} \cup 1..WriteSize,
         call.num = "mmap" /\ files[fd] # Snapshot =>
           executed[files[fd]].num \in {"open", "openat"}
  PROVE  CallIsProper(n + 1)'
<1>1. /\ n \in Nat /\ executed'[n + 1] = call
      /\ \A k \in 1..n : executed'[k] = executed[k]
      /\ \A o \in 1..n : Opens(o)' <=> Opens(o)
      /\ \A o : Closed(o, n)' <=> Closed(o, n)
  BY ExecutedGrows
<1>2. FileIsOpen(fd, n)
  BY DEF FilesInv
<1>3. fd \in Nat /\ fd # NoFd
  BY <1>2 DEF FileIsOpen, NoFd
<1>4. CallIsTyped(n + 1)'
  BY <1>1, <1>3 DEF CallIsTyped
<1>5. MappingIsThere(n + 1)' /\ DescriptorIsNew(n + 1)'
  BY <1>1 DEF MappingIsThere, DescriptorIsNew, Opens, NewDescriptor, OpenCalls
<1>6. DescriptorIsOpen(n + 1)'
  <2>1. (n + 1) - 1 = n
    BY <1>1
  <2>2. ~Closed(call.opener, n)'
    BY <1>1, <1>2 DEF FileIsOpen
  <2>3. CASE files[fd] = Snapshot
    BY <1>1, <1>2, <2>1, <2>2, <2>3 DEF FileIsOpen, DescriptorIsOpen
  <2>4. CASE files[fd] # Snapshot
    BY <1>1, <1>2, <2>1, <2>2, <2>4 DEF FileIsOpen, DescriptorIsOpen
  <2> QED
    BY <2>3, <2>4
<1> QED
  BY <1>4, <1>5, <1>6 DEF CallIsProper

LEMMA MunmapIsProper ==
  ASSUME RecordingInv, CallsInv,
         NEW call, executed' = Append(executed, call),
         NEW n, n = Len(executed), NEW k \in 1..n, IsMapped(k, n),
         "munmap" \in Calls, call = Call("munmap", executed[k].ret, k, 0)
  PROVE  CallIsProper(n + 1)'
<1>1. /\ n \in Nat /\ executed'[n + 1] = call
      /\ IsMapped(k, n)' <=> IsMapped(k, n)
  BY ExecutedGrows
<1>2. call.num = "munmap" /\ call.opener = k /\ call.fd = k /\ call.ret = 0
  BY DEF Call, IsMapped, CallsInv, CallIsProper, CallIsTyped
<1>3. CallIsTyped(n + 1)'
  BY <1>1, <1>2 DEF CallIsTyped, NoFd
<1>4. MappingIsThere(n + 1)'
  <2>1. (n + 1) - 1 = n
    BY <1>1
  <2> QED
    BY <1>1, <1>2, <2>1 DEF MappingIsThere
<1>5. DescriptorIsOpen(n + 1)' /\ DescriptorIsNew(n + 1)'
  BY <1>1, <1>2 DEF DescriptorIsOpen, DescriptorIsNew, Opens, NewDescriptor,
     OpenCalls
<1> QED
  BY <1>3, <1>4, <1>5 DEF CallIsProper
----------------------------------------------------------------------------
(* The steps of the recorded process. *)
LEMMA ExecutesFacts ==
  ASSUME NEW call, NEW table, Executes(call, table)
  PROVE  /\ executed' = Append(executed, call) /\ files' = table
         /\ call.num \in Calls /\ pc = "recording"
         /\ UNCHANGED <<traceeVars, replayVars>>
BY DEF Executes

(* A call that neither returns a descriptor nor uses one. *)
LEMMA OtherCallKeepsProgramInv ==
  ASSUME LossInv, ProgramInv, NEW call, Executes(call, files),
         NEW n, n = Len(executed), CallIsTyped(n + 1)', call.fd = NoFd,
         ~(call.num \in NewDescriptor /\ call.ret >= 0)
  PROVE  ProgramInv'
<1>1. /\ executed' = Append(executed, call) /\ files' = files
      /\ RecordingInv
  BY ExecutesFacts DEF LossInv
<1>2. n \in Nat /\ executed'[n + 1] = call
  BY <1>1, ExecutedGrows
<1>3. call.num # "close"
  BY <1>2 DEF CallIsTyped
<1>4. FilesInv'
  BY <1>1, <1>3, OtherCallKeepsFilesInv DEF ProgramInv
<1>5. CallIsProper(n + 1)'
  BY <1>1, CallWithoutFdIsProper
<1>6. CallsInv'
  BY <1>1, <1>5, ProperCallsStay DEF ProgramInv
<1> QED
  BY <1>4, <1>6 DEF ProgramInv

LEMMA OpenKeepsProgramInv ==
  ASSUME LossInv, ProgramInv, NEW num \in NewDescriptor, RecordOpen(num)
  PROVE  ProgramInv'
<1>1. PICK n : n = Len(executed)
  OBVIOUS
<1> DEFINE call == Call(num, NoFd, n + 1, Free(files))
<1>2. /\ executed' = Append(executed, call) /\ call.num \in Calls
      /\ files' = With(files, Free(files), n + 1)
  BY <1>1 DEF RecordOpen, Executes, This
<1>3. call.num = num /\ call.ret = Free(files)
  BY DEF Call
<1>4. RecordingInv /\ FilesInv /\ CallsInv
  BY DEF LossInv, ProgramInv
<1>5. PICK c : c = call
  OBVIOUS
<1> HIDE DEF call
<1>6. FilesInv'
  BY <1>1, <1>2, <1>3, <1>4, OpenKeepsFilesInv
<1>7. CallIsProper(n + 1)'
  <2>1. c = Call(num, NoFd, n + 1, Free(files))
    BY <1>5 DEF call
  <2> QED
    BY <1>1, <1>2, <1>3, <1>4, <1>5, <2>1, OpenIsProper
<1>8. CallsInv'
  BY <1>1, <1>2, <1>4, <1>7, ProperCallsStay
<1> QED
  BY <1>6, <1>8 DEF ProgramInv

LEMMA CloseKeepsProgramInv ==
  ASSUME LossInv, ProgramInv, NEW fd \in DOMAIN files, RecordClose(fd)
  PROVE  ProgramInv'
<1>1. PICK n : n = Len(executed)
  OBVIOUS
<1>2. PICK call : call = Call("close", fd, files[fd], 0)
  OBVIOUS
<1>3. /\ executed' = Append(executed, call) /\ call.num \in Calls
      /\ files' = Without(files, fd)
  BY <1>2, ExecutesFacts DEF RecordClose
<1>4. /\ call.num = "close" /\ call.fd = fd /\ call.opener = files[fd]
      /\ call.ret = 0
  BY <1>2 DEF Call
<1>5. RecordingInv /\ FilesInv /\ CallsInv
  BY DEF LossInv, ProgramInv
<1>6. FilesInv'
  BY <1>3, <1>4, <1>5, CloseKeepsFilesInv
<1>7. CallIsProper(n + 1)'
  BY <1>1, <1>3, <1>4, <1>5, FdCallIsProper
<1>8. CallsInv'
  BY <1>1, <1>3, <1>5, <1>7, ProperCallsStay
<1> QED
  BY <1>6, <1>8 DEF ProgramInv

LEMMA MmapKeepsProgramInv ==
  ASSUME LossInv, ProgramInv, NEW fd \in DOMAIN files, RecordMmap(fd)
  PROVE  ProgramInv'
<1>1. PICK n : n = Len(executed)
  OBVIOUS
<1>2. PICK call : call = Call("mmap", fd, files[fd], n + 1)
  OBVIOUS
<1>3. /\ executed' = Append(executed, call) /\ call.num \in Calls
      /\ files' = files
  BY <1>1, <1>2, ExecutesFacts DEF RecordMmap, This
<1>4. /\ call.num = "mmap" /\ call.fd = fd /\ call.opener = files[fd]
      /\ call.ret = n + 1
  BY <1>2 DEF Call
<1>5. files[fd] # Snapshot => executed[files[fd]].num \in {"open", "openat"}
  BY DEF RecordMmap
<1>6. RecordingInv /\ FilesInv /\ CallsInv
  BY DEF LossInv, ProgramInv
<1>7. FilesInv'
  BY <1>3, <1>4, <1>6, OtherCallKeepsFilesInv DEF NewDescriptor, OpenCalls
<1>8. CallIsProper(n + 1)'
  BY <1>1, <1>3, <1>4, <1>5, <1>6, FdCallIsProper
<1>9. CallsInv'
  BY <1>1, <1>3, <1>6, <1>8, ProperCallsStay
<1> QED
  BY <1>7, <1>9 DEF ProgramInv

LEMMA WriteKeepsProgramInv ==
  ASSUME LossInv, ProgramInv, NEW fd \in DOMAIN files,
         NEW ret \in {Error} \cup 1..WriteSize, RecordWrite(fd, ret)
  PROVE  ProgramInv'
<1>1. PICK n : n = Len(executed)
  OBVIOUS
<1>2. PICK call : call = Call("write", fd, files[fd], ret)
  OBVIOUS
<1>3. /\ executed' = Append(executed, call) /\ call.num \in Calls
      /\ files' = files
  BY <1>2, ExecutesFacts DEF RecordWrite
<1>4. /\ call.num = "write" /\ call.fd = fd /\ call.opener = files[fd]
      /\ call.ret = ret /\ ret \in Int
  BY <1>2, ConstantsAssumption DEF Call, Error
<1>5. RecordingInv /\ FilesInv /\ CallsInv
  BY DEF LossInv, ProgramInv
<1>6. FilesInv'
  BY <1>3, <1>4, <1>5, OtherCallKeepsFilesInv DEF NewDescriptor, OpenCalls
<1>7. CallIsProper(n + 1)'
  BY <1>1, <1>3, <1>4, <1>5, FdCallIsProper
<1>8. CallsInv'
  BY <1>1, <1>3, <1>5, <1>7, ProperCallsStay
<1> QED
  BY <1>6, <1>8 DEF ProgramInv

LEMMA MunmapKeepsProgramInv ==
  ASSUME LossInv, ProgramInv, NEW k \in 1..Len(executed), RecordMunmap(k)
  PROVE  ProgramInv'
<1>1. PICK n : n = Len(executed)
  OBVIOUS
<1>2. PICK call : call = Call("munmap", executed[k].ret, k, 0)
  OBVIOUS
<1>3. /\ executed' = Append(executed, call) /\ call.num \in Calls
      /\ files' = files
  BY <1>2, ExecutesFacts DEF RecordMunmap
<1>4. call.num = "munmap"
  BY <1>2 DEF Call
<1>5. IsMapped(k, n)
  BY <1>1 DEF RecordMunmap
<1>6. RecordingInv /\ FilesInv /\ CallsInv
  BY DEF LossInv, ProgramInv
<1>7. FilesInv'
  BY <1>3, <1>4, <1>6, OtherCallKeepsFilesInv DEF NewDescriptor, OpenCalls
<1>8. CallIsProper(n + 1)'
  BY <1>1, <1>2, <1>3, <1>4, <1>5, <1>6, MunmapIsProper
<1>9. CallsInv'
  BY <1>1, <1>3, <1>6, <1>8, ProperCallsStay
<1> QED
  BY <1>7, <1>9 DEF ProgramInv
LEMMA RecordingKeepsProgramInv ==
  ASSUME LossInv, ProgramInv, RecordingStep
  PROVE  ProgramInv'
<1>1. PICK n : n = Len(executed)
  OBVIOUS
<1>2. RecordingInv /\ n \in Nat
  BY <1>1, LenIsNat DEF LossInv, RecordingInv
<1>3. ASSUME NEW call, Executes(call, files), call.fd = NoFd,
             call.opener = n + 1, call.ret \in Int,
             call.num = "read" => call.ret \in Data,
             call.num \in {"open", "openat"} => call.ret = Error,
             call.num \notin {"close", "socket", "accept", "write"},
             call.num = "mmap" => call.ret \in {n + 1, Error},
             call.num = "munmap" => call.ret = Invalid
      PROVE  ProgramInv'
  <2>1. executed'[n + 1] = call /\ call.num \in Calls
    BY <1>1, <1>2, <1>3, ExecutesFacts, ExecutedGrows
  <2>2. CallIsTyped(n + 1)'
    BY <1>3, <2>1 DEF CallIsTyped, NoFd
  <2>3. ~(call.num \in NewDescriptor /\ call.ret >= 0)
    BY <1>3 DEF NewDescriptor, OpenCalls, Error
  <2> QED
    BY <1>1, <1>3, <2>2, <2>3, OtherCallKeepsProgramInv
<1>4. CASE \E num \in NewDescriptor : RecordOpen(num)
  BY <1>4, OpenKeepsProgramInv
<1>5. CASE RecordFailedOpen
  <2>1. PICK call : call = Call("openat", NoFd, n + 1, Error)
    OBVIOUS
  <2>2. Executes(call, files)
    BY <1>1, <1>5, <2>1 DEF RecordFailedOpen, This
  <2> QED
    BY <1>3, <2>1, <2>2 DEF Call, Error
<1>6. CASE \E fd \in DOMAIN files : RecordClose(fd)
  BY <1>6, CloseKeepsProgramInv
<1>7. CASE \E fd \in DOMAIN files : RecordMmap(fd)
  BY <1>7, MmapKeepsProgramInv
<1>8. CASE RecordAnonymousMmap \/ RecordFailedMmap
  <2>1. PICK ret \in {n + 1, Error} :
               Executes(Call("mmap", NoFd, n + 1, ret), files)
    BY <1>1, <1>8 DEF RecordAnonymousMmap, RecordFailedMmap, This
  <2>2. PICK call : call = Call("mmap", NoFd, n + 1, ret)
    OBVIOUS
  <2> QED
    BY <1>2, <1>3, <2>1, <2>2 DEF Call, Error
<1>9. CASE \E k \in 1..Len(executed) : RecordMunmap(k)
  BY <1>9, MunmapKeepsProgramInv
<1>10. CASE RecordFailedMunmap
  <2>1. PICK call : call = Call("munmap", NoFd, n + 1, Invalid)
    OBVIOUS
  <2>2. Executes(call, files)
    BY <1>1, <1>10, <2>1 DEF RecordFailedMunmap, This
  <2> QED
    BY <1>3, <2>1, <2>2 DEF Call, Invalid
<1>11. CASE \E data \in Data : RecordRead(data)
  <2>1. PICK data \in Data : RecordRead(data)
    BY <1>11
  <2>2. PICK call : call = Call("read", NoFd, n + 1, data)
    OBVIOUS
  <2>3. Executes(call, files) /\ data \in Nat
    BY <1>1, <2>1, <2>2, ConstantsAssumption DEF RecordRead, This
  <2> QED
    BY <1>3, <2>2, <2>3 DEF Call
<1>12. CASE \E fd \in DOMAIN files, ret \in {Error} \cup 1..WriteSize :
              RecordWrite(fd, ret)
  BY <1>12, WriteKeepsProgramInv
<1>13. CASE RecordingEnds
  <2>1. executed' = executed /\ files' = files
    BY <1>13 DEF RecordingEnds, recordVars
  <2> QED
    BY <2>1, SMTT(30) DEF ProgramInv, FilesInv, FileIsOpen, OpenIsFile, Opens, Closed,
       CallsInv, CallIsProper, CallIsTyped, DescriptorIsOpen, MappingIsThere,
       DescriptorIsNew, IsMapped
<1> QED
  BY <1>4, <1>5, <1>6, <1>7, <1>8, <1>9, <1>10, <1>11, <1>12, <1>13
     DEF RecordingStep

(* The tracee does not run yet, and only its own files have no opener. *)
LEMMA RecordingKeepsStartInv ==
  ASSUME LossInv, ProgramInv, StartInv, RecordingStep
  PROVE  StartInv'
<1>1. CASE RecordingEnds
  BY <1>1 DEF RecordingEnds, StartInv
<1>2. ASSUME NEW call, NEW table, Executes(call, table),
             call.opener = Snapshot =>
               \E fd \in DOMAIN files : files[fd] = Snapshot,
             \A fd \in DOMAIN table : table[fd] = Snapshot =>
               fd \in DOMAIN files /\ files[fd] = Snapshot
      PROVE  StartInv'
  <2>1. /\ executed' = Append(executed, call) /\ files' = table
        /\ pc = "recording" /\ UNCHANGED <<traceeVars, replayVars>>
    BY <1>2, ExecutesFacts
  <2>2. PICK n : n = Len(executed)
    OBVIOUS
  <2>3. /\ n \in Nat /\ Len(executed') = n + 1
        /\ \A k \in 1..n : executed'[k] = executed[k]
        /\ executed'[n + 1] = call
    BY <2>1, <2>2, ExecutedGrows DEF LossInv
  <2>4. HasSnapshot' = HasSnapshot
    BY <2>1 DEF HasSnapshot, traceeVars
  <2>5. UNCHANGED <<seen, maps, real, buffer, stdout, index, pc>>
    BY <2>1 DEF traceeVars, replayVars
  <2>6. ASSUME NEW k \in 1..(n + 1), executed'[k].opener = Snapshot
        PROVE  HasSnapshot
    BY <1>2, <2>1, <2>2, <2>3, <2>6 DEF StartInv
  <2>7. ASSUME NEW fd \in DOMAIN files', files'[fd] = Snapshot
        PROVE  HasSnapshot
    BY <1>2, <2>1, <2>7 DEF StartInv
  <2> QED
    BY <2>1, <2>3, <2>4, <2>5, <2>6, <2>7 DEF StartInv
<1>3. Len(executed) + 1 # Snapshot
  BY LenIsNat DEF LossInv, RecordingInv, Snapshot
<1>4. ASSUME NEW num, RecordOpen(num)
      PROVE  StartInv'
  <2>1. PICK call, table :
          /\ Executes(call, table)
          /\ call.opener = Len(executed) + 1
          /\ table = With(files, Free(files), Len(executed) + 1)
    BY <1>4 DEF RecordOpen, This, Call
  <2> QED
    BY <1>2, <1>3, <2>1 DEF With
<1>5. ASSUME NEW fd \in DOMAIN files, RecordClose(fd)
      PROVE  StartInv'
  <2>1. PICK call, table :
          /\ Executes(call, table)
          /\ call.opener = files[fd]
          /\ table = Without(files, fd)
    BY <1>5 DEF RecordClose, Call
  <2> QED
    BY <1>2, <2>1 DEF Without
<1>6. ASSUME NEW fd \in DOMAIN files, RecordMmap(fd)
      PROVE  StartInv'
  BY <1>2, <1>6 DEF RecordMmap, Call
<1>7. ASSUME NEW k \in 1..Len(executed), RecordMunmap(k)
      PROVE  StartInv'
  <2>1. k # Snapshot
    BY DEF Snapshot
  <2> QED
    BY <1>2, <1>7, <2>1 DEF RecordMunmap, Call
<1>8. ASSUME NEW call, Executes(call, files), call.opener = This
      PROVE  StartInv'
  BY <1>2, <1>3, <1>8 DEF This
<1>9. CASE \/ RecordFailedOpen \/ RecordAnonymousMmap \/ RecordFailedMmap
           \/ RecordFailedMunmap
           \/ \E data \in Data : RecordRead(data)
  BY <1>8, <1>9 DEF RecordFailedOpen, RecordAnonymousMmap, RecordFailedMmap,
     RecordFailedMunmap, RecordRead, Call
<1>10. ASSUME NEW fd \in DOMAIN files, NEW ret, RecordWrite(fd, ret)
       PROVE  StartInv'
  BY <1>2, <1>10 DEF RecordWrite, Call
<1> QED
  BY <1>1, <1>4, <1>5, <1>6, <1>7, <1>9, <1>10 DEF RecordingStep
----------------------------------------------------------------------------
(***************************************************************************)
(* What should_simulate.py decides, of the calls of a process.             *)
(***************************************************************************)
LEMMA StillOpen ==
  ASSUME RecordingInv, NEW o, NEW n \in Int, NEW m \in Int, m <= n,
         ~Closed(o, n)
  PROVE  ~Closed(o, m)
BY DEF Closed

(* While a call's descriptor is open, the descriptor is that call's. *)
LEMMA DescriptorHasOneOpener ==
  ASSUME RecordingInv, CallsInv, NEW k \in 1..Len(executed),
         executed[k].num \in {"close", "mmap"}, executed[k].fd # NoFd,
         NEW o \in 1..(k - 1), Opens(o), ~Closed(o, k - 1),
         executed[o].ret = executed[k].fd
  PROVE  executed[k].opener = o
<1> DEFINE p == executed[k].opener
<1>1. Len(executed) \in Nat
  BY LenIsNat DEF RecordingInv
<1>2. DescriptorIsOpen(k)
  BY DEF CallsInv, CallIsProper
<1>3. p # Snapshot
  BY <1>2 DEF DescriptorIsOpen
<1>4. /\ p \in 1..(k - 1) /\ Opens(p) /\ ~Closed(p, k - 1)
      /\ executed[p].ret = executed[k].fd
  BY <1>2, <1>3 DEF DescriptorIsOpen
<1> HIDE DEF p
<1>5. ~(o < p)
  <2>1. SUFFICES ASSUME o < p
                 PROVE  FALSE
    OBVIOUS
  <2>2. ~Closed(o, p - 1) /\ o \in 1..(p - 1)
    BY <1>4, <2>1, StillOpen
  <2>3. DescriptorIsNew(p)
    BY <1>1, <1>4 DEF CallsInv, CallIsProper
  <2> QED
    BY <1>4, <2>2, <2>3 DEF DescriptorIsNew
<1>6. ~(p < o)
  <2>1. SUFFICES ASSUME p < o
                 PROVE  FALSE
    OBVIOUS
  <2>2. ~Closed(p, o - 1) /\ p \in 1..(o - 1)
    BY <1>4, <2>1, StillOpen
  <2>3. DescriptorIsNew(o)
    BY <1>1 DEF CallsInv, CallIsProper
  <2> QED
    BY <1>4, <2>2, <2>3 DEF DescriptorIsNew
<1> QED
  BY <1>4, <1>5, <1>6 DEF p

(* A file that is mapped is opened in the tracee. *)
LEMMA MappedIsOpened ==
  ASSUME RecordingInv, CallsInv, NEW k \in 1..Len(executed),
         executed[k].num = "mmap", executed[k].fd # NoFd,
         executed[k].opener # Snapshot
  PROVE  Opened(executed[k].opener)
<1> DEFINE o == executed[k].opener
           fd == executed[k].fd
<1>1. Len(executed) \in Nat
  BY LenIsNat DEF RecordingInv
<1>2. /\ o \in 1..(k - 1) /\ Opens(o) /\ ~Closed(o, k - 1)
      /\ executed[o].ret = fd /\ executed[o].num \in {"open", "openat"}
  BY DEF CallsInv, CallIsProper, DescriptorIsOpen
<1> HIDE DEF o
<1>3. ASSUME NEW j \in o..(k - 1), IsClose(executed[j], fd)
      PROVE  FALSE
  <2>1. j # o /\ executed[j].num = "close" /\ executed[j].fd = fd
    BY <1>2, <1>3 DEF IsClose
  <2>2. o \in 1..(j - 1) /\ j \in 1..Len(executed) /\ ~Closed(o, j - 1)
    BY <1>1, <1>2, <2>1, StillOpen
  <2>3. executed[j].opener = o
    BY <1>2, <2>1, <2>2, DescriptorHasOneOpener
  <2> QED
    BY <1>2, <2>1, <2>2, <2>3 DEF Closed
<1>4. FdAppearsInMmapBeforeClose(fd, executed, o)
  BY <1>1, <1>2, <1>3 DEF FdAppearsInMmapBeforeClose, IsMmap
<1>5. Opened(o)
  BY <1>2, <1>4 DEF Opened, ShouldSimulate
<1> QED
  BY <1>5 DEF o

(* From its opening to its closing no call uses the descriptor otherwise. *)
LEMMA FileStaysOpen ==
  ASSUME RecordingInv, CallsInv, NEW k \in 1..Len(executed),
         executed[k].num = "close", executed[k].opener # Snapshot
  PROVE  LET o == executed[k].opener
         IN  /\ o \in 1..(k - 1) /\ Opens(o) /\ ~Closed(o, k - 1)
             /\ executed[o].ret = executed[k].fd
             /\ StaysOpen(executed, executed[k].fd, o, k)
<1> DEFINE o == executed[k].opener
           fd == executed[k].fd
<1>1. Len(executed) \in Nat
  BY LenIsNat DEF RecordingInv
<1>2. /\ o \in 1..(k - 1) /\ Opens(o) /\ ~Closed(o, k - 1)
      /\ executed[o].ret = fd /\ fd # NoFd
  BY DEF CallsInv, CallIsProper, CallIsTyped, DescriptorIsOpen
<1> HIDE DEF o
<1>3. ASSUME NEW m \in (o + 1)..(k - 1), IsClose(executed[m], fd)
      PROVE  FALSE
  <2>1. o \in 1..(m - 1) /\ m \in 1..Len(executed) /\ ~Closed(o, m - 1)
    BY <1>1, <1>2, StillOpen
  <2>2. executed[m].opener = o
    BY <1>2, <1>3, <2>1, DescriptorHasOneOpener DEF IsClose
  <2> QED
    BY <1>2, <1>3, <2>1, <2>2 DEF Closed, IsClose
<1>4. ASSUME NEW m \in (o + 1)..(k - 1), IsOpen(executed[m], fd)
      PROVE  FALSE
  <2>1. o \in 1..(m - 1) /\ m \in 1..Len(executed) /\ ~Closed(o, m - 1)
    BY <1>1, <1>2, StillOpen
  <2>2. Opens(m)
    BY <1>2, <1>4 DEF IsOpen, Opens, NewDescriptor
  <2>3. DescriptorIsNew(m)
    BY <2>1 DEF CallsInv, CallIsProper
  <2> QED
    BY <1>2, <1>4, <2>1, <2>2, <2>3 DEF DescriptorIsNew, IsOpen
<1>5. StaysOpen(executed, fd, o, k)
  BY <1>3, <1>4 DEF StaysOpen
<1> QED
  BY <1>2, <1>5 DEF o

(* A file is closed in the tracee if and only if it is opened in it. *)
LEMMA OpenedIsClosed ==
  ASSUME RecordingInv, CallsInv, NEW k \in 1..Len(executed),
         executed[k].num = "close", executed[k].opener # Snapshot,
         executed[executed[k].opener].num # "accept"
  PROVE  Opened(executed[k].opener) <=> ~ShouldSimulate(executed, k)
<1> DEFINE o == executed[k].opener
           fd == executed[k].fd
<1>1. Len(executed) \in Nat
  BY LenIsNat DEF RecordingInv
<1>2. /\ o \in 1..(k - 1) /\ Opens(o) /\ ~Closed(o, k - 1)
      /\ executed[o].ret = fd /\ StaysOpen(executed, fd, o, k)
      /\ fd # NoFd
  BY FileStaysOpen DEF CallsInv, CallIsProper, CallIsTyped
<1>3. o \in 1..Len(executed) /\ k \in (o + 1)..Len(executed)
  BY <1>1, <1>2
<1> HIDE DEF o
<1>4. CASE executed[o].num \in {"open", "openat"}
  <2>1. IsClose(executed[k], executed[o].ret)
    BY <1>2 DEF IsClose
  <2>2. ShouldSimulate(executed, o) <=> ShouldSimulate(executed, k)
    BY <1>1, <1>2, <1>3, <1>4, <2>1, OpenAndCloseAgree
  <2> QED
    BY <1>4, <2>2 DEF Opened, o
<1>5. CASE executed[o].num = "socket"
  <2>1. ASSUME NEW m \in 1..(k - 1), IsMmap(executed[m], fd),
               \A j \in (m + 1)..(k - 1) : ~IsOpen(executed[j], fd)
        PROVE  FALSE
    <3>1. m # o
      BY <1>5, <2>1 DEF IsMmap
    <3>2. ~(m < o)
      <4>1. IsOpen(executed[o], fd)
        BY <1>2, <1>5 DEF IsOpen, OpenCalls
      <4>2. m < o => o \in (m + 1)..(k - 1)
        BY <1>2
      <4> QED
        BY <2>1, <4>1, <4>2
    <3>3. o \in 1..(m - 1) /\ m \in 1..Len(executed) /\ ~Closed(o, m - 1)
      BY <1>1, <1>2, <3>1, <3>2, StillOpen
    <3>4. executed[m].opener = o
      BY <1>2, <2>1, <3>3, DescriptorHasOneOpener DEF IsMmap
    <3>5. o # Snapshot
      BY DEF o
    <3>6. DescriptorIsOpen(m)
      BY <3>3 DEF CallsInv, CallIsProper
    <3> QED
      BY <1>2, <1>5, <2>1, <3>4, <3>5, <3>6 DEF DescriptorIsOpen, IsMmap
  <2>2. ShouldSimulate(executed, k)
    BY <2>1 DEF ShouldSimulate, MmapAppearsAfterOpen
  <2> QED
    BY <1>5, <2>2 DEF Opened, o
<1> QED
  BY <1>2, <1>4, <1>5 DEF Opens, NewDescriptor, OpenCalls, o

(* What is opened in the tracee did not fail when it was recorded. *)
LEMMA OpenedDidNotFail ==
  ASSUME RecordingInv, CallsInv, NEW o \in 1..Len(executed), Opened(o)
  PROVE  executed[o].ret >= 0
<1>1. Len(executed) \in Nat
  BY LenIsNat DEF RecordingInv
<1>2. PICK i \in o..Len(executed) : IsMmap(executed[i], executed[o].ret)
  BY DEF Opened, ShouldSimulate, FdAppearsInMmapBeforeClose
<1>3. i \in 1..Len(executed)
  BY <1>1
<1>4. CallIsTyped(o) /\ CallIsProper(i)
  BY <1>3 DEF CallsInv, CallIsProper
<1>5. executed[i].fd # Error
  <2>1. CASE executed[i].fd = NoFd
    BY <2>1 DEF NoFd, Error
  <2>2. CASE executed[i].fd # NoFd
    BY <1>2, <1>4, <2>2, KeptFact
       DEF CallIsProper, DescriptorIsOpen, IsMmap, Opens, Error
  <2> QED
    BY <2>1, <2>2
<1> QED
  BY <1>2, <1>4, <1>5 DEF Opened, CallIsTyped, IsMmap
----------------------------------------------------------------------------
(***************************************************************************)
(* The tracee is where the recorded process was, and stays there.          *)
(***************************************************************************)
LEMMA EmptyFacts ==
  /\ Cardinality({}) = 0
  /\ Len(<<>>) = 0 /\ DOMAIN <<>> = {}
  /\ Prints(0) = {} /\ Held(0) = 0
BY FS_EmptySet DEF Prints, LastOf, Held

LEMMA StartIsTracked ==
  ASSUME LossInv, StartInv, RecordingEnds
  PROVE  Tracked'
<1>1. /\ pc = "recording" /\ pc' = "attach"
      /\ UNCHANGED <<executed, system_calls, seen, real, maps, buffer, stdout>>
  BY DEF RecordingEnds, recordVars, traceeVars
<1>2. /\ seen = <<>> /\ maps = <<>> /\ stdout = <<>> /\ buffer = 0
      /\ IsFiniteSet(DOMAIN real)
      /\ \A fd \in DOMAIN real : fd = Kept /\ real[fd] = Snapshot
      /\ \A k \in 1..Len(executed) :
           executed[k].opener = Snapshot => HasSnapshot
  BY <1>1 DEF StartInv
<1>3. Len(seen') = 0 /\ seen' = seen
  BY <1>1, <1>2
<1>4. ~Diverged'
  BY <1>3 DEF Diverged
<1>5. FilesTracked'
  BY <1>1, <1>2, <1>3 DEF FilesTracked, FileIsHeld, HeldIsFile, HasSnapshot
<1>6. MapsTracked'
  BY <1>1, <1>2, <1>3, EmptyFacts DEF MapsTracked
<1>7. CallTracked'
  BY <1>1 DEF CallTracked
<1>8. MemoryTracked'
  <2>1. Held(0)' = 0
    BY DEF Held, LastOf
  <2> QED
    BY <1>1, <1>2, <1>3, <2>1 DEF MemoryTracked
<1>9. OutputTracked'
  <2>1. Prints(0)' = {}
    BY DEF Prints
  <2>2. Reached' = 0
    BY <1>1, <1>3 DEF Reached
  <2> QED
    BY <1>1, <1>2, <1>3, <2>1, <2>2, EmptyFacts DEF OutputTracked
<1> QED
  BY <1>1, <1>4, <1>5, <1>6, <1>7, <1>8, <1>9
     DEF Tracked, CallsAreExpected, OnlyOpenAndErrorsRaise

(* The state of the tracee, between two of its calls. *)
LEMMA TraceeStays ==
  ASSUME UNCHANGED <<executed, system_calls, seen, real, maps, buffer>>
  PROVE  /\ Diverged' = Diverged
         /\ FilesTracked' = FilesTracked
         /\ MapsTracked' = MapsTracked
         /\ MemoryTracked' = MemoryTracked
         /\ Reproducible' = Reproducible
         /\ \A n : Prints(n)' = Prints(n) /\ Held(n)' = Held(n)
<1>1. Diverged' = Diverged
  BY DEF Diverged, Agrees
<1>2. FilesTracked' = FilesTracked
  BY DEF FilesTracked, FileIsHeld, HeldIsFile, Opened, Closed, HasSnapshot
<1>3. MapsTracked' = MapsTracked
  BY DEF MapsTracked, IsMapped
<1>4. \A n : Prints(n)' = Prints(n) /\ Held(n)' = Held(n)
  BY DEF Prints, LastOf, Held
<1>5. MemoryTracked' = MemoryTracked
  BY <1>4 DEF MemoryTracked
<1>6. Reproducible' = Reproducible
  BY DEF Reproducible, Irreproducible, Complete
<1> QED
  BY <1>1, <1>2, <1>3, <1>4, <1>5, <1>6

(* The call the tracee makes is the recorded one. *)
LEMMA NextCallIsRecorded ==
  ASSUME LossInv, Reproducible, Tracked, pc = "entered",
         NEW k, k = Len(seen) + 1
  PROVE  /\ k \in Nat /\ index = k /\ regs \in NextCalls
         /\ system_calls = executed
         /\ k <= Len(executed) =>
              k \in 1..Len(executed) /\ regs = Regs(executed[k].num, TraceeFd(k))
         /\ k > Len(executed) => regs.num = "exit_group"
<1>1. /\ Len(seen) \in Nat /\ Len(executed) \in Nat /\ index = k
      /\ system_calls = executed /\ regs \in NextCalls /\ ~Diverged
  BY LenIsNat DEF LossInv, RecordingInv, PositionInv, CallInv, Tracked,
     Reproducible, Complete
<1>2. k > Len(executed) => regs.num = "exit_group"
  BY <1>1 DEF NextCalls, Regs
<1>3. k <= Len(executed) => regs = Regs(executed[k].num, TraceeFd(k))
  BY <1>1 DEF NextCalls, TraceeFd
<1> QED
  BY <1>1, <1>2, <1>3
(* A step at which no call is taken up or returns. *)
LEMMA QuietStepIsTracked ==
  ASSUME Reproducible, Tracked,
         UNCHANGED <<executed, system_calls, seen, real, maps, buffer, stdout>>,
         pc \notin {"simulating", "wrapping"},
         pc' \in {"run", "entered", "stopped", "done"}
  PROVE  Tracked'
<1>1. /\ ~Diverged' /\ FilesTracked' /\ MapsTracked' /\ MemoryTracked'
      /\ \A n : Prints(n)' = Prints(n) /\ Held(n)' = Held(n)
  <2>1. UNCHANGED <<executed, system_calls, seen, real, maps, buffer>>
    OBVIOUS
  <2> QED
    BY <2>1, TraceeStays DEF Tracked
<1>2. Reached' = Reached
  BY DEF Reached
<1>3. OutputTracked'
  BY <1>1, <1>2 DEF Tracked, OutputTracked
<1>4. CallTracked' /\ CallsAreExpected' /\ OnlyOpenAndErrorsRaise'
  BY DEF CallTracked, CallsAreExpected, OnlyOpenAndErrorsRaise
<1> QED
  BY <1>1, <1>3, <1>4 DEF Tracked

(* raise_on_unexpected_state has no reason to raise. *)
LEMMA CallIsExpected ==
  ASSUME LossInv, Reproducible, Tracked
  PROVE  ~UnexpectedSysCall
<1>1. SUFFICES ASSUME pc = "entered", regs.num # Expected
               PROVE  FALSE
  BY DEF UnexpectedSysCall
<1>2. PICK k : k = Len(seen) + 1
  OBVIOUS
<1>3. /\ k \in Nat /\ index = k /\ system_calls = executed
      /\ k <= Len(executed) => regs = Regs(executed[k].num, TraceeFd(k))
      /\ k > Len(executed) => regs.num = "exit_group"
  BY <1>1, <1>2, NextCallIsRecorded
<1>4. Len(executed) \in Nat
  BY LenIsNat DEF LossInv, RecordingInv
<1> QED
  BY <1>1, <1>3, <1>4 DEF Expected, Recorded, Regs

(* The calls up to n + 1 that print. *)
LEMMA NextPrint ==
  ASSUME NEW n \in Nat
  PROVE  /\ IsFiniteSet(Prints(n)) /\ Cardinality(Prints(n)) \in Nat
         /\ \A i \in Prints(n) : Cardinality(Prints(i)) \in
                                 1..Cardinality(Prints(n))
         /\ executed[n + 1].num = "write" /\ executed[n + 1].fd = Stdout =>
              /\ Prints(n + 1) = Prints(n) \cup {n + 1}
              /\ Cardinality(Prints(n + 1)) = Cardinality(Prints(n)) + 1
         /\ ~(executed[n + 1].num = "write" /\ executed[n + 1].fd = Stdout) =>
              Prints(n + 1) = Prints(n)
<1>1. \A m \in Nat : IsFiniteSet(Prints(m)) /\ Cardinality(Prints(m)) \in Nat
  <2>1. ASSUME NEW m \in Nat
        PROVE  IsFiniteSet(Prints(m)) /\ Cardinality(Prints(m)) \in Nat
    <3>1. Prints(m) \in SUBSET (1..m) /\ IsFiniteSet(1..m)
      BY FS_Interval DEF Prints
    <3> QED
      BY <3>1, FS_Subset, FS_CardinalityType
  <2> QED
    BY <2>1
<1>2. ASSUME NEW i \in Prints(n)
      PROVE  Cardinality(Prints(i)) \in 1..Cardinality(Prints(n))
  <2>1. i \in 1..n /\ i \in Prints(i) /\ Prints(i) \in SUBSET Prints(n)
    BY DEF Prints
  <2>2. Cardinality(Prints(i)) <= Cardinality(Prints(n))
    BY <1>1, <2>1, FS_Subset
  <2>3. Cardinality(Prints(i)) # 0
    BY <1>1, <2>1, FS_EmptySet
  <2> QED
    BY <1>1, <2>1, <2>2, <2>3
<1>3. /\ executed[n + 1].num = "write" /\ executed[n + 1].fd = Stdout =>
           Prints(n + 1) = Prints(n) \cup {n + 1}
      /\ ~(executed[n + 1].num = "write" /\ executed[n + 1].fd = Stdout) =>
           Prints(n + 1) = Prints(n)
      /\ n + 1 \notin Prints(n)
  <2>1. 1..(n + 1) = (1..n) \cup {n + 1} /\ n + 1 \notin 1..n
    OBVIOUS
  <2> QED
    BY <2>1 DEF Prints
<1> QED
  BY <1>1, <1>2, <1>3, FS_AddElement

(* What is given to stdout_callback at the entry of a recorded call. *)
LEMMA OutputIsTracked ==
  ASSUME LossInv, ValuesInv, Reproducible, Tracked,
         UNCHANGED <<executed, system_calls, seen, real, maps, buffer>>,
         AtRecordedCall, StdoutCallback, pc' \in {"simulating", "wrapping"}
  PROVE  OutputTracked'
<1>1. PICK n : n = Len(seen)
  OBVIOUS
<1>2. /\ n \in Nat /\ index = n + 1 /\ Recorded = executed[n + 1]
  BY <1>1, LenIsNat
     DEF LossInv, PositionInv, AtRecordedCall, Reproducible, Complete, Recorded
<1>3. Reached = n /\ Reached' = n + 1
  BY <1>1, <1>2 DEF Reached, AtRecordedCall
<1>4. /\ Len(stdout) = Cardinality(Prints(n))
      /\ \A i \in Prints(n) : stdout[Cardinality(Prints(i))] = Bytes(Held(i))
      /\ buffer = Held(n)
  BY <1>1, <1>3 DEF Tracked, OutputTracked, MemoryTracked
<1>5. \A m : Prints(m)' = Prints(m) /\ Held(m)' = Held(m)
  BY TraceeStays
<1>6. /\ Len(stdout') = Cardinality(Prints(n + 1))
      /\ \A i \in Prints(n + 1) :
           stdout'[Cardinality(Prints(i))] = Bytes(Held(i))
  <2>1. CASE executed[n + 1].num = "write" /\ executed[n + 1].fd = Stdout
    <3>1. stdout' = Append(stdout, Bytes(buffer))
      BY <1>2, <2>1 DEF StdoutCallback
    <3>2. /\ Len(stdout) \in Nat /\ Len(stdout') = Len(stdout) + 1
          /\ \A i \in 1..Len(stdout) : stdout'[i] = stdout[i]
          /\ stdout'[Len(stdout) + 1] = Bytes(buffer)
      BY <3>1, AppendIsSeq DEF ValuesInv
    <3>3. Held(n + 1) = Held(n)
      <4>1. {i \in 1..(n + 1) : executed[i].num = "read"} =
              {i \in 1..n : executed[i].num = "read"}
        BY <1>2, <2>1
      <4> QED
        BY <4>1 DEF Held
    <3> QED
      BY <1>2, <1>4, <2>1, <3>2, <3>3, NextPrint
  <2>2. CASE ~(executed[n + 1].num = "write" /\ executed[n + 1].fd = Stdout)
    BY <1>2, <1>4, <2>2, NextPrint DEF StdoutCallback
  <2> QED
    BY <2>1, <2>2
<1> QED
  BY <1>3, <1>5, <1>6 DEF OutputTracked

LEMMA EntryIsTracked ==
  ASSUME LossInv, ValuesInv, Reproducible, Tracked, Simulate \/ Wrap
  PROVE  Tracked'
<1>1. /\ UNCHANGED <<executed, system_calls, seen, real, maps, buffer, index>>
      /\ AtRecordedCall /\ StdoutCallback /\ pc = "entered"
      /\ pc' \in {"simulating", "wrapping"}
      /\ pc' = "simulating" <=> ShouldSimulate(system_calls, index)
      /\ pc' = "wrapping" => regs' = NewRegisters
  BY DEF Simulate, Wrap, recordVars, AtRecordedCall
<1>2. PICK k : k = Len(seen) + 1
  OBVIOUS
<1>3. /\ k \in Nat /\ index = k /\ system_calls = executed
      /\ k <= Len(executed) /\ Recorded = executed[k]
      /\ regs = Regs(executed[k].num, TraceeFd(k))
  BY <1>1, <1>2, NextCallIsRecorded DEF AtRecordedCall, Recorded
<1>4. /\ ~Diverged' /\ FilesTracked' /\ MapsTracked' /\ MemoryTracked'
  BY <1>1, TraceeStays DEF Tracked
<1>5. OutputTracked'
  BY <1>1, OutputIsTracked
<1>6. CallTracked'
  <2>1. Len(seen') + 1 = k /\ TraceeFd(k)' = TraceeFd(k)
    BY <1>1, <1>2 DEF TraceeFd
  <2>2. ShouldSimulate(executed', k) <=> pc' = "simulating"
    BY <1>1, <1>3
  <2>3. pc' = "wrapping" =>
          /\ regs'.num = executed'[k].num
          /\ regs'.fd = TraceeFd(k)
          /\ regs'.addr = IF regs'.num = "mmap" THEN executed'[k].ret ELSE 0
    BY <1>1, <1>3 DEF NewRegisters, Regs
  <2> QED
    BY <1>1, <1>3, <2>1, <2>2, <2>3 DEF CallTracked
<1> QED
  BY <1>1, <1>4, <1>5, <1>6
     DEF Tracked, CallsAreExpected, OnlyOpenAndErrorsRaise
----------------------------------------------------------------------------
(* The k-th call of the tracee returns. *)
LEMMA ReturnFacts ==
  ASSUME LossInv, ProgramInv, Reproducible, Tracked,
         pc \in {"simulating", "wrapping"}, UNCHANGED recordVars,
         NEW ret, seen' = Append(seen, ret), NEW k, k = Len(seen) + 1
  PROVE  /\ Len(executed) \in Nat /\ k \in 1..Len(executed) /\ index = k
         /\ Recorded = executed[k] /\ executed' = executed
         /\ CallIsProper(k) /\ ~Irreproducible(k)
         /\ Len(seen') = k /\ seen'[k] = ret
         /\ \A o \in 1..(k - 1) : seen'[o] = seen[o]
         /\ Reproducible' = Reproducible
         /\ \/ ret = executed[k].ret
            \/ /\ executed[k].num \in NewDescriptor
               /\ executed[k].ret >= 0 /\ ret >= 0
            => ~Diverged'
<1>1. /\ system_calls = executed /\ ~Irreproducible(k)
      /\ k <= Len(executed) /\ IsSeq(seen) /\ index = k
      /\ Len(executed) \in Nat /\ k \in Nat /\ k >= 1
      /\ ~Diverged
  BY LenIsNat DEF LossInv, PositionInv, RecordingInv, Tracked, CallTracked,
     Reproducible, Complete
<1>2. /\ Len(seen') = k /\ seen'[k] = ret
      /\ \A o \in 1..(k - 1) : seen'[o] = seen[o]
  BY <1>1, AppendIsSeq
<1>3. CallIsProper(k)
  BY <1>1 DEF ProgramInv, CallsInv
<1>4. executed' = executed /\ system_calls' = system_calls
  BY DEF recordVars
<1>5. Reproducible' = Reproducible
  BY <1>4 DEF Reproducible, Irreproducible, Complete
<1>6. ASSUME \/ ret = executed[k].ret
             \/ /\ executed[k].num \in NewDescriptor
                /\ executed[k].ret >= 0 /\ ret >= 0
      PROVE  ~Diverged'
  <2>1. ASSUME NEW i \in 1..k
        PROVE  Agrees(i)'
    <3>1. CASE i = k
      BY <1>2, <1>4, <1>6, <3>1 DEF Agrees
    <3>2. CASE i \in 1..(k - 1)
      BY <1>1, <1>2, <1>4, <3>2 DEF Diverged, Agrees
    <3> QED
      BY <1>1, <3>1, <3>2
  <2> QED
    BY <1>1, <1>2, <1>4, <2>1 DEF Diverged
<1>7. Recorded = executed[k]
  BY <1>1 DEF Recorded
<1> QED
  BY <1>1, <1>2, <1>3, <1>4, <1>5, <1>6, <1>7

(* Which files and mappings it leaves. *)
LEMMA CallFacts ==
  ASSUME NEW k \in Nat \ {0}, executed' = executed
  PROVE  /\ \A o : Closed(o, k)' <=>
               \/ Closed(o, k - 1)
               \/ (executed[k].num = "close" /\ executed[k].opener = o)
         /\ \A o : Opened(o)' <=> Opened(o)
         /\ \A j \in 1..(k - 1) : IsMapped(j, k)' <=>
               /\ IsMapped(j, k - 1)
               /\ ~(executed[k].num = "munmap" /\ executed[k].opener = j)
         /\ IsMapped(k, k)' <=>
               executed[k].num = "mmap" /\ executed[k].ret # Error
<1>1. 1..k = (1..(k - 1)) \cup {k}
  OBVIOUS
<1>2. \A o : Closed(o, k)' <=>
           \/ Closed(o, k - 1)
           \/ (executed[k].num = "close" /\ executed[k].opener = o)
  BY <1>1 DEF Closed
<1>3. \A o : Opened(o)' <=> Opened(o)
  BY DEF Opened
<1>4. \A j \in 1..(k - 1) : IsMapped(j, k)' <=>
        /\ IsMapped(j, k - 1)
        /\ ~(executed[k].num = "munmap" /\ executed[k].opener = j)
  <2>1. \A j \in 1..(k - 1) : (j + 1)..k = ((j + 1)..(k - 1)) \cup {k}
    OBVIOUS
  <2> QED
    BY <2>1 DEF IsMapped
<1>5. IsMapped(k, k)' <=> executed[k].num = "mmap" /\ executed[k].ret # Error
  BY DEF IsMapped
<1> QED
  BY <1>2, <1>3, <1>4, <1>5
(* The buffer of the recorded process, after its n-th call. *)
LEMMA NextHeld ==
  ASSUME NEW n \in Nat \ {0}
  PROVE  Held(n) = IF executed[n].num = "read" THEN executed[n].ret
                   ELSE Held(n - 1)
<1>1. 1..n = (1..(n - 1)) \cup {n}
  OBVIOUS
<1>2. CASE executed[n].num = "read"
  <2> DEFINE reads == {i \in 1..n : executed[i].num = "read"}
  <2>1. n \in reads /\ \A j \in reads : j <= n
    BY <1>2
  <2>2. \A i \in reads : (\A j \in reads : j <= i) => i = n
    BY <2>1
  <2> HIDE DEF reads
  <2>3. (CHOOSE i \in reads : \A j \in reads : j <= i) = n
    BY <2>1, <2>2
  <2>4. LastOf(reads) = executed[n].ret
    BY <2>1, <2>3 DEF LastOf
  <2> QED
    BY <1>2, <2>4 DEF Held, reads
<1>3. CASE executed[n].num # "read"
  <2>1. {i \in 1..n : executed[i].num = "read"} =
          {i \in 1..(n - 1) : executed[i].num = "read"}
    BY <1>1, <1>3
  <2> QED
    BY <1>3, <2>1 DEF Held
<1> QED
  BY <1>2, <1>3

LEMMA ReturnIsTracked ==
  ASSUME Reproducible, Tracked,
         pc \in {"simulating", "wrapping"}, UNCHANGED executed,
         NEW k \in Nat \ {0}, k = Len(seen) + 1, Len(seen') = k,
         pc' \in {"run", "unexpectedReturn"},
         stdout' = stdout,
         buffer' = IF executed[k].num = "read" THEN executed[k].ret
                   ELSE buffer,
         ~Diverged', FilesTracked', MapsTracked', OnlyOpenAndErrorsRaise'
  PROVE  Tracked'
<1>1. CallTracked' /\ CallsAreExpected'
  BY DEF CallTracked, CallsAreExpected
<1>2. \A n : Prints(n)' = Prints(n) /\ Held(n)' = Held(n)
  BY DEF Prints, LastOf, Held
<1>3. MemoryTracked'
  <2>1. buffer = Held(k - 1)
    BY DEF Tracked, MemoryTracked
  <2>2. buffer' = Held(k)
    BY <2>1, NextHeld
  <2> QED
    BY <1>2, <2>2 DEF MemoryTracked
<1>4. OutputTracked'
  <2>1. Reached = k /\ Reached' = k
    BY DEF Reached
  <2> QED
    BY <1>2, <2>1 DEF Tracked, OutputTracked
<1> QED
  BY <1>1, <1>3, <1>4 DEF Tracked

(***************************************************************************)
(* The files and mappings of the tracee, at a call that is none of theirs. *)
(***************************************************************************)
LEMMA OtherReturnIsTracked ==
  ASSUME Tracked, executed' = executed, real' = real, maps' = maps,
         NEW k \in 1..Len(executed), Len(executed) \in Nat,
         k = Len(seen) + 1, Len(seen') = k,
         \A o \in 1..(k - 1) : seen'[o] = seen[o],
         executed[k].num \notin {"mmap", "munmap"}, ~Opened(k),
         \A o \in 1..(k - 1) : Opened(o) =>
           ~(executed[k].num = "close" /\ executed[k].opener = o)
  PROVE  FilesTracked' /\ MapsTracked'
<1>1. /\ \A o : Closed(o, k)' <=>
           \/ Closed(o, k - 1)
           \/ (executed[k].num = "close" /\ executed[k].opener = o)
      /\ \A o : Opened(o)' <=> Opened(o)
      /\ \A j \in 1..(k - 1) : IsMapped(j, k)' <=> IsMapped(j, k - 1)
      /\ ~IsMapped(k, k)'
  BY CallFacts
<1>2. Len(seen) = k - 1 /\ FilesTracked /\ MapsTracked
  BY DEF Tracked
<1>3. FilesTracked'
  <2>1. ASSUME NEW o \in 1..k
        PROVE  FileIsHeld(o, k)'
    <3>1. CASE o = k
      BY <1>1, <3>1 DEF FileIsHeld
    <3>2. CASE o \in 1..(k - 1)
      BY <1>1, <1>2, <3>2 DEF FilesTracked, FileIsHeld
    <3> QED
      BY <3>1, <3>2
  <2>2. ASSUME NEW fd \in DOMAIN real
        PROVE  HeldIsFile(fd, k)'
    <3>1. HeldIsFile(fd, k - 1)
      BY <1>2 DEF FilesTracked
    <3> QED
      BY <1>1, <3>1 DEF HeldIsFile
  <2>3. HasSnapshot' = HasSnapshot
    BY DEF HasSnapshot
  <2> QED
    BY <1>2, <2>1, <2>2, <2>3 DEF FilesTracked
<1>4. MapsTracked'
  <2>1. {j \in 1..k : IsMapped(j, k)'} = {j \in 1..(k - 1) : IsMapped(j, k - 1)}
    BY <1>1
  <2> QED
    BY <1>2, <2>1 DEF MapsTracked
<1> QED
  BY <1>3, <1>4
(* A call that is answered from the recording. *)
LEMMA AnswerIsTracked ==
  ASSUME LossInv, ProgramInv, Reproducible, Tracked, Answer
  PROVE  Tracked'
<1>1. PICK k : k = Len(seen) + 1
  OBVIOUS
<1>2. /\ pc = "simulating" /\ pc' = "run" /\ UNCHANGED recordVars
      /\ seen' = Append(seen, Recorded.ret) /\ MemoryCopies
      /\ real' = real /\ maps' = maps /\ stdout' = stdout
  BY DEF Answer
<1>3. /\ Len(executed) \in Nat /\ k \in 1..Len(executed)
      /\ Recorded = executed[k] /\ executed' = executed /\ Len(seen') = k
      /\ \A o \in 1..(k - 1) : seen'[o] = seen[o]
      /\ ~Diverged'
  BY <1>1, <1>2, ReturnFacts
<1>4. ShouldSimulate(executed, k)
  BY <1>1, <1>2 DEF Tracked, CallTracked
<1>5. executed[k].num \notin {"mmap", "munmap"} /\ ~Opened(k)
  BY <1>4 DEF ShouldSimulate, NotToSimulate, Opened
<1>6. ASSUME NEW o \in 1..(k - 1), Opened(o),
             executed[k].num = "close", executed[k].opener = o
      PROVE  FALSE
  <2>1. o # Snapshot /\ executed[o].num # "accept"
    BY <1>6 DEF Snapshot, Opened
  <2> QED
    BY <1>3, <1>4, <1>6, <2>1, OpenedIsClosed DEF LossInv, ProgramInv
<1>7. FilesTracked' /\ MapsTracked'
  BY <1>1, <1>2, <1>3, <1>5, <1>6, OtherReturnIsTracked
<1>8. OnlyOpenAndErrorsRaise'
  BY <1>2 DEF OnlyOpenAndErrorsRaise
<1>9. /\ pc \in {"simulating", "wrapping"} /\ pc' \in {"run", "unexpectedReturn"}
      /\ k \in Nat \ {0}
      /\ buffer' = IF executed[k].num = "read" THEN executed[k].ret ELSE buffer
  BY <1>2, <1>3 DEF MemoryCopies
<1> QED
  BY <1>1, <1>2, <1>3, <1>7, <1>8, <1>9, ReturnIsTracked

(* A file is opened in the tracee, at any descriptor that is free there. *)
LEMMA KernelOpensIsTracked ==
  ASSUME Tracked, executed' = executed, LossInv, ProgramInv,
         NEW k \in 1..Len(executed), Len(executed) \in Nat,
         k = Len(seen) + 1, Len(seen') = k,
         \A o \in 1..(k - 1) : seen'[o] = seen[o],
         NEW ret, seen'[k] = ret, Opened(k), KernelOpens(ret)
  PROVE  FilesTracked' /\ MapsTracked' /\ ret \in Nat
<1>1. /\ \A o : Closed(o, k)' <=>
           \/ Closed(o, k - 1)
           \/ (executed[k].num = "close" /\ executed[k].opener = o)
      /\ \A o : Opened(o)' <=> Opened(o)
      /\ \A j \in 1..(k - 1) : IsMapped(j, k)' <=>
           /\ IsMapped(j, k - 1)
           /\ ~(executed[k].num = "munmap" /\ executed[k].opener = j)
      /\ IsMapped(k, k)' <=>
           executed[k].num = "mmap" /\ executed[k].ret # Error
  BY CallFacts
<1>2. executed[k].num \in {"open", "openat"}
  BY DEF Opened
<1>3. Len(seen) = k - 1 /\ FilesTracked /\ MapsTracked
  BY DEF Tracked
<1>4. /\ ret \in Nat /\ ret \notin DOMAIN real
      /\ real' = With(real, ret, k) /\ maps' = maps
  BY <1>3, FreeIsFree DEF KernelOpens, FilesTracked
<1>5. /\ DOMAIN real' = DOMAIN real \cup {ret} /\ real'[ret] = k
      /\ \A fd \in DOMAIN real : real'[fd] = real[fd]
  BY <1>4 DEF With
<1>6. \A o : Closed(o, k)' <=> Closed(o, k - 1)
  BY <1>1, <1>2
<1>7. ~Closed(k, k - 1)
  <2>1. ASSUME NEW j \in 1..(k - 1), executed[j].num = "close"
        PROVE  executed[j].opener # k
    <3>1. CallIsTyped(j) /\ DescriptorIsOpen(j)
      BY DEF ProgramInv, CallsInv, CallIsProper
    <3> QED
      BY <2>1, <3>1 DEF CallIsTyped, DescriptorIsOpen, Snapshot
  <2> QED
    BY <2>1 DEF Closed
<1>8. ASSUME NEW o \in 1..k
      PROVE  FileIsHeld(o, k)'
  <2>1. CASE o = k
    BY <1>5, <2>1 DEF FileIsHeld
  <2>2. CASE o \in 1..(k - 1)
    <3>1. FileIsHeld(o, k - 1) /\ seen'[o] = seen[o]
      BY <1>3, <2>2 DEF FilesTracked
    <3> QED
      BY <1>1, <1>5, <1>6, <3>1 DEF FileIsHeld
  <2> QED
    BY <2>1, <2>2
<1>9. ASSUME NEW fd \in DOMAIN real'
      PROVE  HeldIsFile(fd, k)'
  <2>1. CASE fd = ret
    BY <1>1, <1>4, <1>5, <1>6, <1>7, <2>1 DEF HeldIsFile, Snapshot
  <2>2. CASE fd \in DOMAIN real
    <3>1. HeldIsFile(fd, k - 1) /\ real'[fd] = real[fd]
      BY <1>3, <1>5, <2>2 DEF FilesTracked
    <3> QED
      BY <1>1, <1>6, <3>1 DEF HeldIsFile
  <2> QED
    BY <1>5, <2>1, <2>2
<1>10. HasSnapshot => HasSnapshot'
  BY <1>5 DEF HasSnapshot
<1>11. IsFiniteSet(DOMAIN real')
  BY <1>3, <1>5, FS_AddElement DEF FilesTracked
<1>12. FilesTracked'
  BY <1>3, <1>8, <1>9, <1>10, <1>11 DEF FilesTracked
<1>13. MapsTracked'
  <2>1. {j \in 1..k : IsMapped(j, k)'} = {j \in 1..(k - 1) : IsMapped(j, k - 1)}
    BY <1>1, <1>2
  <2> QED
    BY <1>3, <1>4, <2>1 DEF MapsTracked
<1> QED
  BY <1>4, <1>12, <1>13
(* The descriptor that the tracee closes is the one of the recorded file. *)
LEMMA KernelClosesIsTracked ==
  ASSUME Tracked, executed' = executed, LossInv, ProgramInv,
         NEW k \in 1..Len(executed), Len(executed) \in Nat,
         k = Len(seen) + 1, Len(seen') = k,
         \A o \in 1..(k - 1) : seen'[o] = seen[o],
         ~ShouldSimulate(executed, k), ~Irreproducible(k),
         executed[k].num = "close", regs.fd = TraceeFd(k),
         NEW ret, KernelCloses(ret)
  PROVE  FilesTracked' /\ MapsTracked' /\ ret = 0
<1> DEFINE p == executed[k].opener
<1>1. /\ \A o : Closed(o, k)' <=> Closed(o, k - 1) \/ p = o
      /\ \A o : Opened(o)' <=> Opened(o)
      /\ \A j \in 1..(k - 1) : IsMapped(j, k)' <=> IsMapped(j, k - 1)
      /\ ~IsMapped(k, k)'
  BY CallFacts
<1>2. Len(seen) = k - 1 /\ FilesTracked /\ MapsTracked
  BY DEF Tracked
<1>3. CallIsTyped(k) /\ DescriptorIsOpen(k)
  BY DEF ProgramInv, CallsInv, CallIsProper
<1>4. ~Closed(p, k - 1) /\ executed[k].fd # NoFd
  BY <1>3 DEF DescriptorIsOpen, CallIsTyped
<1>5. regs.fd \in DOMAIN real /\ real[regs.fd] = p
  <2>1. CASE p = Snapshot
    <3>1. regs.fd = Kept
      BY <1>3, <1>4, <2>1 DEF TraceeFd, DescriptorIsOpen
    <3>2. HasSnapshot
      BY <1>2, <2>1 DEF FilesTracked
    <3> QED
      BY <2>1, <3>1, <3>2 DEF HasSnapshot
  <2>2. CASE p # Snapshot
    <3>1. p \in 1..(k - 1)
      BY <1>3, <1>4, <2>2 DEF DescriptorIsOpen
    <3>2. executed[p].num # "accept"
      BY <2>2 DEF Irreproducible
    <3>3. Opened(p)
      BY <2>2, <3>2, OpenedIsClosed DEF LossInv, ProgramInv
    <3>4. regs.fd = seen[p]
      BY <1>4, <2>2 DEF TraceeFd
    <3> QED
      BY <1>2, <1>4, <3>1, <3>3, <3>4 DEF FilesTracked, FileIsHeld
  <2> QED
    BY <2>1, <2>2
<1>6. ret = 0 /\ real' = Without(real, regs.fd) /\ maps' = maps
  BY <1>5 DEF KernelCloses
<1>7. /\ DOMAIN real' = DOMAIN real \ {regs.fd}
      /\ \A fd \in DOMAIN real' : real'[fd] = real[fd]
  BY <1>6 DEF Without
<1>8. IsFiniteSet(DOMAIN real')
  BY <1>2, <1>7, FS_RemoveElement DEF FilesTracked
<1>9. ~Opened(k)
  BY DEF Opened
<1> HIDE DEF p
<1>10. ASSUME NEW o \in 1..k
       PROVE  FileIsHeld(o, k)'
  <2>1. CASE o = k
    BY <1>1, <1>9, <2>1 DEF FileIsHeld
  <2>2. CASE o \in 1..(k - 1)
    <3>1. FileIsHeld(o, k - 1) /\ seen'[o] = seen[o]
      BY <1>2, <2>2 DEF FilesTracked
    <3>2. CASE o = p \/ Closed(o, k - 1) \/ ~Opened(o)
      BY <1>1, <3>2 DEF FileIsHeld
    <3>3. CASE o # p /\ ~Closed(o, k - 1) /\ Opened(o)
      <4>1. seen[o] \in DOMAIN real /\ real[seen[o]] = o
        BY <3>1, <3>3 DEF FileIsHeld
      <4>2. seen[o] # regs.fd
        BY <1>5, <3>3, <4>1
      <4>3. seen'[o] \in DOMAIN real' /\ real'[seen'[o]] = o
        BY <1>7, <3>1, <4>1, <4>2
      <4> QED
        BY <4>3 DEF FileIsHeld
    <3> QED
      BY <3>2, <3>3
  <2> QED
    BY <2>1, <2>2
<1>11. ASSUME NEW fd \in DOMAIN real'
       PROVE  HeldIsFile(fd, k)'
  <2>1. HeldIsFile(fd, k - 1) /\ real'[fd] = real[fd] /\ fd # regs.fd
    BY <1>2, <1>7 DEF FilesTracked
  <2>2. CASE real[fd] = Snapshot
    BY <2>1, <2>2 DEF HeldIsFile
  <2>3. CASE real[fd] # Snapshot
    <3>1. /\ real[fd] \in 1..(k - 1) /\ Opened(real[fd])
          /\ seen[real[fd]] = fd /\ ~Closed(real[fd], k - 1)
      BY <2>1, <2>3 DEF HeldIsFile
    <3>2. real[fd] # p
      <4>1. SUFFICES ASSUME real[fd] = p
                     PROVE  FALSE
        OBVIOUS
      <4>2. regs.fd = seen[p]
        BY <1>4, <2>3, <4>1 DEF TraceeFd, p
      <4> QED
        BY <2>1, <3>1, <4>1, <4>2
    <3> QED
      BY <1>1, <2>1, <2>3, <3>1, <3>2 DEF HeldIsFile
  <2> QED
    BY <2>2, <2>3
<1>12. ASSUME NEW j \in (k + 1)..Len(executed),
              executed[j].opener = Snapshot
       PROVE  HasSnapshot'
  <2>1. CallIsTyped(j) /\ DescriptorIsOpen(j) /\ MappingIsThere(j)
    BY DEF ProgramInv, CallsInv, CallIsProper
  <2>2. ~Closed(Snapshot, j - 1)
    BY <1>12, <2>1
       DEF CallIsTyped, DescriptorIsOpen, MappingIsThere, Snapshot
  <2>3. p # Snapshot
    BY <2>2 DEF Closed, p
  <2>4. HasSnapshot
    BY <1>2, <1>12 DEF FilesTracked
  <2> QED
    BY <1>5, <1>7, <2>3, <2>4 DEF HasSnapshot
<1>13. FilesTracked'
  BY <1>2, <1>8, <1>10, <1>11, <1>12 DEF FilesTracked
<1>14. MapsTracked'
  <2>1. {j \in 1..k : IsMapped(j, k)'} = {j \in 1..(k - 1) : IsMapped(j, k - 1)}
    BY <1>1
  <2> QED
    BY <1>2, <1>6, <2>1 DEF MapsTracked
<1> QED
  BY <1>6, <1>13, <1>14

(* The tracee has the file that is mapped, and maps it where it was. *)
LEMMA KernelMapsIsTracked ==
  ASSUME Tracked, executed' = executed, LossInv, ProgramInv,
         NEW k \in 1..Len(executed), Len(executed) \in Nat,
         k = Len(seen) + 1, Len(seen') = k,
         \A o \in 1..(k - 1) : seen'[o] = seen[o],
         ~Irreproducible(k), executed[k].num = "mmap",
         regs.fd = TraceeFd(k), regs.addr = executed[k].ret,
         NEW ret, KernelMaps(ret)
  PROVE  FilesTracked' /\ MapsTracked' /\ ret = executed[k].ret
<1> DEFINE p == executed[k].opener
<1>1. /\ \A j \in 1..(k - 1) : IsMapped(j, k)' <=> IsMapped(j, k - 1)
      /\ IsMapped(k, k)' <=> executed[k].ret # Error
  BY CallFacts
<1>2. Len(seen) = k - 1 /\ FilesTracked /\ MapsTracked
  BY DEF Tracked
<1>3. CallIsTyped(k) /\ DescriptorIsOpen(k)
  BY DEF ProgramInv, CallsInv, CallIsProper
<1>4. executed[k].ret = k
  BY <1>3 DEF CallIsTyped, Irreproducible
<1>5. /\ executed[k].fd = NoFd => regs.fd = NoFd
      /\ executed[k].fd # NoFd =>
           regs.fd \in DOMAIN real /\ real[regs.fd] = p /\ regs.fd # NoFd
  <2>1. CASE executed[k].fd = NoFd
    BY <2>1 DEF TraceeFd
  <2>2. CASE executed[k].fd # NoFd /\ p = Snapshot
    <3>1. regs.fd = Kept
      BY <1>3, <2>2 DEF TraceeFd, DescriptorIsOpen
    <3>2. HasSnapshot
      BY <1>2, <2>2 DEF FilesTracked
    <3> QED
      BY <2>2, <3>1, <3>2, KeptFact DEF HasSnapshot, NoFd
  <2>3. CASE executed[k].fd # NoFd /\ p # Snapshot
    <3>1. p \in 1..(k - 1) /\ ~Closed(p, k - 1)
      BY <1>3, <2>3 DEF DescriptorIsOpen
    <3>2. Opened(p)
      BY <2>3, MappedIsOpened DEF LossInv, ProgramInv
    <3>3. regs.fd = seen[p]
      BY <2>3 DEF TraceeFd
    <3>4. regs.fd \in DOMAIN real /\ real[regs.fd] = p
      BY <1>2, <3>1, <3>2, <3>3 DEF FilesTracked, FileIsHeld
    <3>5. regs.fd \in Nat
      BY <1>2, <3>4 DEF FilesTracked, HeldIsFile
    <3> QED
      BY <2>3, <3>4, <3>5 DEF NoFd
  <2> QED
    BY <2>1, <2>2, <2>3
<1>6. /\ ret = k /\ real' = real
      /\ maps' = With(maps, k, IF regs.fd = NoFd THEN NoFd ELSE real[regs.fd])
  BY <1>4, <1>5 DEF KernelMaps
<1>7. /\ DOMAIN maps' = DOMAIN maps \cup {k}
      /\ \A j \in DOMAIN maps : j # k => maps'[j] = maps[j]
      /\ maps'[k] = IF executed[k].fd = NoFd THEN NoFd ELSE p
  <2>1. maps'[k] = IF regs.fd = NoFd THEN NoFd ELSE real[regs.fd]
    BY <1>6 DEF With
  <2> QED
    BY <1>5, <1>6, <2>1 DEF With
<1>8. DOMAIN maps' = {j \in 1..k : IsMapped(j, k)'}
  <2>1. IsMapped(k, k)' /\ 1..k = (1..(k - 1)) \cup {k}
    BY <1>1, <1>4 DEF Error
  <2> QED
    BY <1>1, <1>2, <1>7, <2>1 DEF MapsTracked
<1>9. MapsTracked'
  <2>1. ASSUME NEW j \in DOMAIN maps'
        PROVE  maps'[j] = IF executed[j].fd = NoFd THEN NoFd
                          ELSE executed[j].opener
    BY <1>2, <1>7, <2>1 DEF MapsTracked
  <2> QED
    BY <1>8, <2>1 DEF MapsTracked
<1>10. FilesTracked'
  <2>1. /\ \A o : Closed(o, k)' <=> Closed(o, k - 1)
        /\ \A o : Opened(o)' <=> Opened(o)
        /\ ~Opened(k)
    BY CallFacts DEF Opened
  <2>2. ASSUME NEW o \in 1..k
        PROVE  FileIsHeld(o, k)'
    BY <1>2, <1>6, <2>1 DEF FilesTracked, FileIsHeld
  <2>3. ASSUME NEW fd \in DOMAIN real
        PROVE  HeldIsFile(fd, k)'
    <3>1. HeldIsFile(fd, k - 1)
      BY <1>2 DEF FilesTracked
    <3> QED
      BY <1>6, <2>1, <3>1 DEF HeldIsFile
  <2>4. HasSnapshot' = HasSnapshot
    BY <1>6 DEF HasSnapshot
  <2> QED
    BY <1>2, <1>6, <2>2, <2>3, <2>4 DEF FilesTracked
<1> QED
  BY <1>4, <1>6, <1>9, <1>10
(* What the tracee unmaps is at the address it was at. *)
LEMMA KernelUnmapsIsTracked ==
  ASSUME Tracked, executed' = executed, LossInv, ProgramInv,
         NEW k \in 1..Len(executed), Len(executed) \in Nat,
         k = Len(seen) + 1, Len(seen') = k,
         \A o \in 1..(k - 1) : seen'[o] = seen[o],
         executed[k].num = "munmap", regs.fd = TraceeFd(k),
         NEW ret, KernelUnmaps(ret)
  PROVE  FilesTracked' /\ MapsTracked' /\ ret = executed[k].ret
<1> DEFINE p == executed[k].opener
<1>1. /\ \A j \in 1..(k - 1) : IsMapped(j, k)' <=> IsMapped(j, k - 1) /\ p # j
      /\ ~IsMapped(k, k)'
  BY CallFacts
<1>2. Len(seen) = k - 1 /\ FilesTracked /\ MapsTracked /\ ~Diverged
  BY DEF Tracked
<1>3. CallIsTyped(k) /\ MappingIsThere(k)
  BY DEF ProgramInv, CallsInv, CallIsProper
<1>4. /\ executed[k].fd = NoFd => regs.fd = NoFd /\ p = k
      /\ executed[k].fd # NoFd => regs.fd = p /\ regs.fd # NoFd
  <2>1. CASE executed[k].fd = NoFd
    BY <1>3, <2>1 DEF TraceeFd, CallIsTyped
  <2>2. CASE executed[k].fd # NoFd
    <3>1. p \in 1..(k - 1) /\ IsMapped(p, k - 1)
      BY <1>3, <2>2 DEF MappingIsThere
    <3>2. executed[p].ret = p
      <4>1. CallIsTyped(p)
        BY <3>1 DEF ProgramInv, CallsInv, CallIsProper
      <4> QED
        BY <3>1, <4>1 DEF CallIsTyped, IsMapped
    <3>3. regs.fd = seen[p]
      BY <2>2, <3>1 DEF TraceeFd, Snapshot
    <3>4. seen[p] = executed[p].ret
      BY <1>2, <3>1
         DEF Diverged, Agrees, IsMapped, NewDescriptor, OpenCalls
    <3> QED
      BY <2>2, <3>1, <3>2, <3>3, <3>4 DEF NoFd
  <2> QED
    BY <2>1, <2>2
<1>5. /\ ret = executed[k].ret /\ real' = real
      /\ maps' = Without(maps, regs.fd)
  BY <1>3, <1>4 DEF KernelUnmaps, CallIsTyped
<1>6. /\ DOMAIN maps' = DOMAIN maps \ {regs.fd}
      /\ \A j \in DOMAIN maps' : maps'[j] = maps[j]
  BY <1>5 DEF Without
<1> HIDE DEF p
<1>7. DOMAIN maps' = {j \in 1..k : IsMapped(j, k)'}
  <2>1. \A j \in 1..(k - 1) : j # regs.fd <=> j # p
    BY <1>4 DEF NoFd
  <2> QED
    BY <1>1, <1>2, <1>6, <2>1 DEF MapsTracked
<1>8. MapsTracked'
  <2>1. ASSUME NEW j \in DOMAIN maps'
        PROVE  maps'[j] = IF executed[j].fd = NoFd THEN NoFd
                          ELSE executed[j].opener
    BY <1>2, <1>6, <2>1 DEF MapsTracked
  <2> QED
    BY <1>7, <2>1 DEF MapsTracked
<1>9. FilesTracked'
  <2>1. /\ \A o : Closed(o, k)' <=> Closed(o, k - 1)
        /\ \A o : Opened(o)' <=> Opened(o)
        /\ ~Opened(k)
    BY CallFacts DEF Opened
  <2>2. ASSUME NEW o \in 1..k
        PROVE  FileIsHeld(o, k)'
    BY <1>2, <1>5, <2>1 DEF FilesTracked, FileIsHeld
  <2>3. ASSUME NEW fd \in DOMAIN real
        PROVE  HeldIsFile(fd, k)'
    <3>1. HeldIsFile(fd, k - 1)
      BY <1>2 DEF FilesTracked
    <3> QED
      BY <1>5, <2>1, <3>1 DEF HeldIsFile
  <2>4. HasSnapshot' = HasSnapshot
    BY <1>5 DEF HasSnapshot
  <2> QED
    BY <1>2, <1>5, <2>2, <2>3, <2>4 DEF FilesTracked
<1> QED
  BY <1>5, <1>8, <1>9

(***************************************************************************)
(* A call that the tracee makes itself: its result is the recorded one, or *)
(* another descriptor.                                                     *)
(***************************************************************************)
LEMMA RealCallIsTracked ==
  ASSUME LossInv, ProgramInv, Reproducible, Tracked, NEW ret, RunReal(ret)
  PROVE  Tracked'
<1>1. PICK k : k = Len(seen) + 1
  OBVIOUS
<1>2. /\ pc = "wrapping" /\ UNCHANGED recordVars /\ seen' = Append(seen, ret)
      /\ buffer' = buffer /\ stdout' = stdout
      /\ \/ KernelOpens(ret) \/ KernelCloses(ret) \/ KernelMaps(ret)
         \/ KernelUnmaps(ret)
      /\ \/ pc' = "run"
         \/ /\ pc' = "unexpectedReturn" /\ index' = index
            /\ ~ReturnIsExpected(ret)
  BY DEF RunReal
<1>3. /\ Len(executed) \in Nat /\ k \in 1..Len(executed) /\ index = k
      /\ Recorded = executed[k] /\ executed' = executed
      /\ CallIsProper(k) /\ ~Irreproducible(k)
      /\ Len(seen') = k /\ seen'[k] = ret
      /\ \A o \in 1..(k - 1) : seen'[o] = seen[o]
  <2>1. /\ pc \in {"simulating", "wrapping"} /\ UNCHANGED recordVars
        /\ seen' = Append(seen, ret)
    BY <1>2
  <2>2. /\ Len(executed) \in Nat /\ k \in 1..Len(executed) /\ index = k
        /\ Recorded = executed[k] /\ executed' = executed
    BY <1>1, <2>1, ReturnFacts
  <2>3. CallIsProper(k) /\ ~Irreproducible(k)
    BY <1>1, <2>1, ReturnFacts
  <2>4. /\ Len(seen') = k /\ seen'[k] = ret
        /\ \A o \in 1..(k - 1) : seen'[o] = seen[o]
    BY <1>1, <2>1, ReturnFacts
  <2> QED
    BY <2>2, <2>3, <2>4
<1>4. \/ ret = executed[k].ret
      \/ /\ executed[k].num \in NewDescriptor
         /\ executed[k].ret >= 0 /\ ret >= 0
      => ~Diverged'
  BY <1>1, <1>2, ReturnFacts
<1>5. /\ ~ShouldSimulate(executed, k)
      /\ regs.num = executed[k].num /\ regs.fd = TraceeFd(k)
      /\ regs.num = "mmap" => regs.addr = executed[k].ret
  BY <1>1, <1>2 DEF Tracked, CallTracked
<1>6. CallIsTyped(k)
  BY <1>3 DEF CallIsProper
<1>7. /\ FilesTracked' /\ MapsTracked'
      /\ \/ ret = executed[k].ret
         \/ /\ executed[k].num \in {"open", "openat"}
            /\ executed[k].ret >= 0 /\ ret >= 0
  <2>1. CASE KernelOpens(ret)
    <3>1. Opened(k)
      BY <1>5, <2>1 DEF KernelOpens, Opened
    <3>2. executed[k].ret >= 0
      BY <1>3, <3>1, OpenedDidNotFail DEF LossInv, ProgramInv
    <3>3. FilesTracked' /\ MapsTracked' /\ ret \in Nat
      BY <1>1, <1>3, <2>1, <3>1, KernelOpensIsTracked
    <3> QED
      BY <3>1, <3>2, <3>3 DEF Opened
  <2>2. CASE KernelCloses(ret)
    <3>1. executed[k].num = "close"
      BY <1>5, <2>2 DEF KernelCloses
    <3>2. FilesTracked' /\ MapsTracked' /\ ret = 0
      BY <1>1, <1>3, <1>5, <2>2, <3>1, KernelClosesIsTracked
    <3> QED
      BY <1>6, <3>1, <3>2 DEF CallIsTyped
  <2>3. CASE KernelMaps(ret)
    <3>1. executed[k].num = "mmap"
      BY <1>5, <2>3 DEF KernelMaps
    <3> QED
      BY <1>1, <1>3, <1>5, <2>3, <3>1, KernelMapsIsTracked
  <2>4. CASE KernelUnmaps(ret)
    <3>1. executed[k].num = "munmap"
      BY <1>5, <2>4 DEF KernelUnmaps
    <3> QED
      BY <1>1, <1>3, <1>5, <2>4, <3>1, KernelUnmapsIsTracked
  <2> QED
    BY <1>2, <2>1, <2>2, <2>3, <2>4
<1>8. ~Diverged'
  BY <1>4, <1>7 DEF NewDescriptor, OpenCalls
<1>9. OnlyOpenAndErrorsRaise'
  <2>1. SUFFICES ASSUME pc' = "unexpectedReturn", index' = index,
                        ~ReturnIsExpected(ret)
                 PROVE  executed[k].num = "open" \/ executed[k].ret < 0
    <3>1. pc' = "unexpectedReturn" => Recorded' = executed[k]
      BY <1>2, <1>3 DEF Recorded, recordVars
    <3> QED
      BY <1>2, <3>1 DEF OnlyOpenAndErrorsRaise
  <2>2. /\ executed[k].num \notin {"read", "close", "mmap", "openat"}
        /\ executed[k].ret # InRegister(ret)
    BY <1>3, <2>1 DEF ReturnIsExpected, IgnoredInValidation
  <2>3. executed[k].num \in {"open", "munmap"}
    BY <1>2, <1>5, <2>2
       DEF KernelOpens, KernelCloses, KernelMaps, KernelUnmaps
  <2>4. CASE executed[k].num = "munmap"
    <3>1. ret = executed[k].ret /\ executed[k].ret \in {Invalid, 0}
      BY <1>6, <1>7, <2>4 DEF CallIsTyped
    <3>2. InRegister(0) = 0
      BY DEF InRegister
    <3> QED
      BY <2>2, <3>1, <3>2 DEF Invalid
  <2> QED
    BY <2>3, <2>4
<1>10. executed[k].num # "read"
  BY <1>2, <1>5 DEF KernelOpens, KernelCloses, KernelMaps, KernelUnmaps
<1>11. /\ pc \in {"simulating", "wrapping"}
       /\ pc' \in {"run", "unexpectedReturn"} /\ k \in Nat \ {0}
       /\ buffer' = IF executed[k].num = "read" THEN executed[k].ret ELSE buffer
  BY <1>2, <1>3, <1>10
<1> QED
  BY <1>1, <1>2, <1>3, <1>7, <1>8, <1>9, <1>11, ReturnIsTracked
----------------------------------------------------------------------------
(* The values that are recorded, returned and printed. *)
LEMMA TypesFollow ==
  ASSUME LossInv, ProgramInv, ValuesInv
  PROVE  TypeOK
<1>1. Len(system_calls) \in Nat /\ index \in Nat
  BY LenIsNat DEF LossInv, RecordingInv, PositionInv
<1>2. index \in 1..(Len(system_calls) + 1)
  BY <1>1 DEF LossInv, PositionInv, ValuesInv
<1>3. \A i \in 1..Len(executed) : /\ executed[i].num \in Calls
                                  /\ executed[i].fd \in Int
                                  /\ executed[i].ret \in Int
  BY DEF ProgramInv, CallsInv, CallIsProper, CallIsTyped
<1>4. \A i \in 1..Len(system_calls) : /\ system_calls[i].num \in Calls
                                      /\ system_calls[i].fd \in Int
                                      /\ system_calls[i].ret \in Int
  BY <1>3 DEF ValuesInv
<1> QED
  BY <1>2, <1>3, <1>4 DEF TypeOK, ValuesInv

LEMMA RecordingKeepsValuesInv ==
  ASSUME LossInv, ValuesInv, RecordingStep
  PROVE  ValuesInv'
<1>1. CASE RecordingEnds
  BY <1>1 DEF RecordingEnds, ValuesInv, recordVars, traceeVars
<1>2. ASSUME NEW call, NEW table, Executes(call, table)
      PROVE  ValuesInv'
  <2>1. /\ executed' = Append(executed, call)
        /\ system_calls' = Append(system_calls, call)
             \/ system_calls' = system_calls
    BY <1>2 DEF Executes
  <2>2. UNCHANGED <<buffer, stdout, seen, tracee, index, pc>>
    BY <1>2 DEF Executes, traceeVars, replayVars
  <2>3. PICK n : n = Len(executed)
    OBVIOUS
  <2>4. /\ n \in Nat /\ Len(executed') = n + 1
        /\ \A k \in 1..n : executed'[k] = executed[k]
        /\ executed'[n + 1] = call
    BY <2>1, <2>3, ExecutedGrows DEF LossInv
  <2>5. \A i \in 1..Len(system_calls) :
          \E k \in 1..Len(executed') : system_calls[i] = executed'[k]
    BY <2>3, <2>4 DEF ValuesInv
  <2>6. \A i \in 1..Len(system_calls') :
          \E k \in 1..Len(executed') : system_calls'[i] = executed'[k]
    <3>1. CASE system_calls' = system_calls
      BY <2>5, <3>1
    <3>2. CASE system_calls' = Append(system_calls, call)
      <4>1. /\ Len(system_calls) \in Nat
            /\ Len(system_calls') = Len(system_calls) + 1
            /\ \A i \in 1..Len(system_calls) :
                 system_calls'[i] = system_calls[i]
            /\ system_calls'[Len(system_calls) + 1] = call
        BY <3>2, AppendIsSeq DEF LossInv, RecordingInv
      <4>2. ASSUME NEW i \in 1..Len(system_calls')
            PROVE  \E k \in 1..Len(executed') : system_calls'[i] = executed'[k]
        <5>1. CASE i = Len(system_calls) + 1
          BY <2>4, <4>1, <5>1
        <5>2. CASE i \in 1..Len(system_calls)
          BY <2>5, <4>1, <5>2
        <5> QED
          BY <4>1, <5>1, <5>2
      <4> QED
        BY <4>2
    <3> QED
      BY <2>1, <3>1, <3>2
  <2> QED
    BY <2>2, <2>6 DEF ValuesInv
<1> QED
  BY <1>1, <1>2 DEF RecordingStep, RecordOpen, RecordFailedOpen, RecordClose,
     RecordMmap, RecordAnonymousMmap, RecordFailedMmap, RecordMunmap,
     RecordFailedMunmap, RecordRead, RecordWrite

(* What is recorded is what a call may be. *)
LEMMA RecordedIsTyped ==
  ASSUME LossInv, ProgramInv, ValuesInv, index <= Len(system_calls)
  PROVE  /\ Recorded.ret \in Int
         /\ Recorded.num = "read" => Recorded.ret \in Data
<1>1. index \in 1..Len(system_calls)
  BY LenIsNat DEF LossInv, RecordingInv, PositionInv, ValuesInv
<1>2. PICK k \in 1..Len(executed) : Recorded = executed[k]
  BY <1>1 DEF ValuesInv, Recorded
<1> QED
  BY <1>2 DEF ProgramInv, CallsInv, CallIsProper, CallIsTyped

LEMMA ReplayKeepsValuesInv ==
  ASSUME LossInv, ProgramInv, ValuesInv, ReplayStep
  PROVE  ValuesInv'
<1> USE DEF recordVars
<1>1. ASSUME UNCHANGED <<recordVars, seen, buffer>>, index' = index,
             tracee' \in {"user", "entry", "exited"},
             pc' \in {"run", "entered", "simulating", "wrapping", "done",
                     "stopped", "unexpectedCall", "unexpectedReturn"},
             stdout' = stdout \/ stdout' = Append(stdout, Bytes(buffer))
      PROVE  ValuesInv'
  <2>1. CASE stdout' = stdout
    BY <1>1, <2>1 DEF ValuesInv
  <2>2. CASE stdout' = Append(stdout, Bytes(buffer))
    <3>1. /\ IsSeq(stdout') /\ Len(stdout) \in Nat
          /\ Len(stdout') = Len(stdout) + 1
          /\ \A i \in 1..Len(stdout) : stdout'[i] = stdout[i]
          /\ stdout'[Len(stdout) + 1] = Bytes(buffer)
      BY <2>2, AppendIsSeq DEF ValuesInv
    <3>2. Bytes(buffer) \in [1..WriteSize -> Data \cup {0}]
      BY DEF Bytes, ValuesInv
    <3>3. \A i \in 1..Len(stdout') :
            stdout'[i] \in [1..WriteSize -> Data \cup {0}]
      BY <3>1, <3>2 DEF ValuesInv
    <3> QED
      BY <1>1, <3>1, <3>3 DEF ValuesInv
  <2> QED
    BY <1>1, <2>1, <2>2
<1>2. CASE Attach \/ StoppedBySignal \/ UnexpectedSysCall
  <2>1. /\ UNCHANGED <<recordVars, seen, buffer>> /\ index' = index
        /\ tracee' = tracee /\ stdout' = stdout
        /\ pc' \in {"run", "stopped", "unexpectedCall"}
    BY <1>2 DEF Attach, StoppedBySignal, UnexpectedSysCall, traceeVars
  <2> QED
    BY <1>1, <2>1 DEF ValuesInv
<1>3. CASE RunToEntry \/ Exits
  <2>1. /\ UNCHANGED <<recordVars, seen, buffer>> /\ index' = index
        /\ tracee' \in {"entry", "exited"} /\ stdout' = stdout
        /\ pc' \in {"entered", "done"}
    BY <1>3 DEF RunToEntry, Exits
  <2> QED
    BY <1>1, <2>1
<1>4. CASE Simulate \/ Wrap
  <2>1. /\ UNCHANGED <<recordVars, seen, buffer>> /\ index' = index
        /\ tracee' = tracee /\ pc' \in {"simulating", "wrapping"}
        /\ stdout' = stdout \/ stdout' = Append(stdout, Bytes(buffer))
    BY <1>4 DEF Simulate, Wrap, StdoutCallback
  <2> QED
    BY <1>1, <2>1 DEF ValuesInv
<1>5. ASSUME UNCHANGED <<recordVars, stdout>>,
             NEW ret \in Int, seen' = Append(seen, ret),
             buffer' \in Data \cup {0}, tracee' = "user",
             index' \in {index, index + 1},
             pc' \in {"run", "unexpectedReturn"}
      PROVE  ValuesInv'
  <2>1. /\ Len(seen) \in Nat /\ Len(seen') = Len(seen) + 1
        /\ \A i \in 1..Len(seen) : seen'[i] = seen[i]
        /\ seen'[Len(seen) + 1] = ret
    BY <1>5, AppendIsSeq DEF LossInv, PositionInv
  <2>2. \A i \in 1..Len(seen') : seen'[i] \in Int
    BY <2>1 DEF ValuesInv
  <2>3. index' >= 1
    BY <1>5 DEF LossInv, PositionInv, ValuesInv
  <2> QED
    BY <1>5, <2>2, <2>3 DEF ValuesInv
<1>6. CASE Answer
  <2>1. index <= Len(system_calls)
    BY <1>6 DEF Answer, LossInv, PositionInv
  <2>2. Recorded.ret \in Int /\ buffer' \in Data \cup {0}
    BY <1>6, <2>1, RecordedIsTyped DEF Answer, MemoryCopies, ValuesInv
  <2> QED
    BY <1>5, <1>6, <2>2 DEF Answer, NextRecord
<1>7. ASSUME NEW ret \in Invalid..(2 * MaxCalls + 1), RunReal(ret)
      PROVE  ValuesInv'
  <2>1. ret \in Int
    BY ConstantsAssumption DEF Invalid
  <2>2. /\ UNCHANGED <<recordVars, stdout>> /\ seen' = Append(seen, ret)
        /\ buffer' = buffer /\ tracee' = "user"
        /\ index' \in {index, index + 1}
        /\ pc' \in {"run", "unexpectedReturn"}
    BY <1>7 DEF RunReal, NextRecord
  <2> QED
    BY <1>5, <2>1, <2>2 DEF ValuesInv
<1> QED
  BY <1>2, <1>3, <1>4, <1>6, <1>7 DEF ReplayStep
----------------------------------------------------------------------------
LEMMA ReplayInvInit == Init => ReplayInv
<1> SUFFICES ASSUME Init
             PROVE  ReplayInv
  OBVIOUS
<1>1. LossInv
  BY LossInit
<1>2. /\ executed = <<>> /\ system_calls = <<>> /\ real = files /\ seen = <<>>
      /\ files = [fd \in Inherited |-> Snapshot]
      /\ Len(executed) = 0 /\ Len(system_calls) = 0
  BY DEF Init
<1>3. /\ IsFiniteSet(DOMAIN files)
      /\ \A fd \in DOMAIN files : fd = Kept /\ files[fd] = Snapshot
  <2>1. DOMAIN files = Inherited
    BY <1>2
  <2>2. IsFiniteSet({Kept})
    BY FS_Singleton
  <2> QED
    BY <1>2, <2>1, <2>2, FS_Subset, KeptFact
<1>4. ProgramInv
  BY <1>2, <1>3, KeptFact DEF ProgramInv, FilesInv, FileIsOpen, OpenIsFile, CallsInv,
     Closed, Snapshot
<1>5. StartInv
  BY <1>2, <1>3 DEF Init, StartInv, HasSnapshot
<1>6. ValuesInv
  BY <1>2, EmptyIsSeq DEF Init, ValuesInv
<1>7. pc = "recording"
  BY DEF Init
<1> QED
  BY <1>1, <1>4, <1>5, <1>6, <1>7 DEF ReplayInv

LEMMA RecordingKeepsReplayInv ==
  ASSUME ReplayInv, RecordingStep
  PROVE  ReplayInv'
<1>1. LossInv' /\ ProgramInv' /\ StartInv' /\ ValuesInv'
  BY RecordingKeepsLossInv, RecordingKeepsProgramInv, RecordingKeepsStartInv,
     RecordingKeepsValuesInv DEF ReplayInv
<1>2. RecordingEnds \/ pc' = "recording"
  BY DEF RecordingStep, RecordOpen, RecordFailedOpen, RecordClose, RecordMmap,
     RecordAnonymousMmap, RecordFailedMmap, RecordMunmap, RecordFailedMunmap,
     RecordRead, RecordWrite, Executes, replayVars
<1>3. RecordingEnds => Tracked'
  BY StartIsTracked DEF ReplayInv
<1> QED
  BY <1>1, <1>2, <1>3 DEF ReplayInv

LEMMA ReplayKeepsTracked ==
  ASSUME ReplayInv, ReplayStep, Reproducible
  PROVE  Tracked'
<1>1. LossInv /\ ProgramInv /\ ValuesInv
  BY DEF ReplayInv
<1>2. pc # "recording"
  BY DEF ReplayStep, Attach, RunToEntry, StoppedBySignal, UnexpectedSysCall,
     Simulate, Answer, Wrap, RunReal, Exits, AtRecordedCall
<1>3. Tracked
  BY <1>2 DEF ReplayInv
<1>4. CASE Attach \/ RunToEntry \/ StoppedBySignal \/ Exits
  <2>1. /\ executed' = executed /\ system_calls' = system_calls /\ seen' = seen
        /\ real' = real /\ maps' = maps /\ buffer' = buffer /\ stdout' = stdout
        /\ pc \notin {"simulating", "wrapping"}
        /\ pc' \in {"run", "entered", "stopped", "done"}
    BY <1>4 DEF Attach, RunToEntry, StoppedBySignal, Exits, recordVars, traceeVars
  <2> QED
    BY <1>3, <2>1, QuietStepIsTracked
<1>5. CASE UnexpectedSysCall
  BY <1>1, <1>3, <1>5, CallIsExpected
<1>6. CASE Simulate \/ Wrap
  BY <1>1, <1>3, <1>6, EntryIsTracked
<1>7. CASE Answer
  BY <1>1, <1>3, <1>7, AnswerIsTracked
<1>8. ASSUME NEW ret, RunReal(ret)
      PROVE  Tracked'
  BY <1>1, <1>3, <1>8, RealCallIsTracked
<1> QED
  BY <1>4, <1>5, <1>6, <1>7, <1>8 DEF ReplayStep

LEMMA ReplayKeepsReplayInv ==
  ASSUME ReplayInv, ReplayStep
  PROVE  ReplayInv'
<1>1. /\ executed' = executed /\ system_calls' = system_calls /\ files' = files
      /\ pc' # "recording"
  BY DEF ReplayStep, Attach, RunToEntry, StoppedBySignal, UnexpectedSysCall,
     Simulate, Answer, Wrap, RunReal, Exits, recordVars
<1>2. LossInv' /\ ValuesInv'
  BY ReplayKeepsLossInv, ReplayKeepsValuesInv DEF ReplayInv
<1>3. ProgramInv'
  BY <1>1 DEF ReplayInv, ProgramInv, FilesInv, FileIsOpen, OpenIsFile, Opens,
     Closed, CallsInv, CallIsProper, CallIsTyped, DescriptorIsOpen,
     MappingIsThere, DescriptorIsNew, IsMapped
<1>4. StartInv'
  BY <1>1 DEF StartInv
<1>5. Reproducible' = Reproducible
  BY <1>1 DEF Reproducible, Irreproducible, Complete
<1> QED
  BY <1>2, <1>3, <1>4, <1>5, ReplayKeepsTracked DEF ReplayInv

LEMMA ReplayInvStep == ReplayInv /\ [Next]_vars => ReplayInv'
<1> SUFFICES ASSUME ReplayInv, [Next]_vars
             PROVE  ReplayInv'
  OBVIOUS
<1>1. CASE UNCHANGED vars
  <2>1. /\ executed' = executed /\ system_calls' = system_calls /\ files' = files
        /\ seen' = seen /\ real' = real /\ maps' = maps /\ buffer' = buffer
        /\ stdout' = stdout /\ pc' = pc /\ index' = index /\ tracee' = tracee
        /\ regs' = regs
    BY <1>1 DEF vars, recordVars, traceeVars, replayVars
  <2>2. LossInv'
    BY <1>1, LossStep DEF ReplayInv
  <2>3. ProgramInv'
    BY <2>1 DEF ReplayInv, ProgramInv, FilesInv, FileIsOpen, OpenIsFile,
       Opens, Closed, CallsInv, CallIsProper, CallIsTyped, DescriptorIsOpen,
       MappingIsThere, DescriptorIsNew, IsMapped
  <2>4. StartInv'
    BY <2>1 DEF ReplayInv, StartInv, HasSnapshot
  <2>5. ValuesInv'
    BY <2>1 DEF ReplayInv, ValuesInv
  <2>6. /\ Diverged' = Diverged /\ FilesTracked' = FilesTracked
        /\ MapsTracked' = MapsTracked /\ MemoryTracked' = MemoryTracked
        /\ Reproducible' = Reproducible
        /\ \A n : Prints(n)' = Prints(n) /\ Held(n)' = Held(n)
    BY <2>1, TraceeStays
  <2>7. CallTracked' = CallTracked
    BY <2>1 DEF CallTracked, TraceeFd
  <2>8. Reached' = Reached
    BY <2>1 DEF Reached
  <2>9. OutputTracked' <=> OutputTracked
    BY <2>1, <2>6, <2>8 DEF OutputTracked
  <2>10. /\ CallsAreExpected' <=> CallsAreExpected
         /\ OnlyOpenAndErrorsRaise' <=> OnlyOpenAndErrorsRaise
    BY <2>1, <2>6 DEF CallsAreExpected, OnlyOpenAndErrorsRaise, Recorded
  <2>11. Tracked => Tracked'
    BY <2>6, <2>7, <2>9, <2>10 DEF Tracked
  <2> QED
    BY <2>1, <2>2, <2>3, <2>4, <2>5, <2>6, <2>11 DEF ReplayInv
<1> QED
  BY <1>1, RecordingKeepsReplayInv, ReplayKeepsReplayInv DEF Next

(***************************************************************************)
(* The replay of a complete recording is, at each step, where the recorded *)
(* process was: get_exit_status goes through the recording in step with    *)
(* the tracee.                                                             *)
(***************************************************************************)
THEOREM ReplayInvAlways == Spec => []ReplayInv
<1> QED
  BY ReplayInvInit, ReplayInvStep, PTL DEF Spec

(***************************************************************************)
(* The types of the recording, of the tracee and of what is printed.       *)
(***************************************************************************)
THEOREM ReplayTypeOKAlways == Spec => []TypeOK
<1>1. ReplayInv => TypeOK
  BY TypesFollow DEF ReplayInv
<1> QED
  BY <1>1, ReplayInvAlways, PTL

LEMMA StartIsTrivial ==
  ASSUME ReplayInv, pc = "recording"
  PROVE  /\ Len(seen) = 0 /\ ~Diverged /\ maps = <<>>
         /\ \A fd \in DOMAIN real : real[fd] = Snapshot
         /\ OutputTracked
<1>1. /\ seen = <<>> /\ maps = <<>> /\ stdout = <<>>
      /\ \A fd \in DOMAIN real : real[fd] = Snapshot
  BY DEF ReplayInv, StartInv
<1>2. Len(seen) = 0 /\ ~Diverged
  BY <1>1 DEF Diverged
<1>3. Reached = 0
  BY <1>2 DEF Reached
<1>4. OutputTracked
  BY <1>1, <1>3, EmptyFacts DEF OutputTracked
<1> QED
  BY <1>1, <1>2, <1>4

(***************************************************************************)
(* "recreating the exact same execution as in the recording": of a         *)
(* complete recording, each call returns to the tracee what it returned to *)
(* the recorded process, descriptors excepted, for programs of any length. *)
(***************************************************************************)
THEOREM SeesRecordingAlways == Spec => []SeesRecording
<1>1. ReplayInv => SeesRecording
  BY StartIsTrivial DEF ReplayInv, Tracked, SeesRecording
<1> QED
  BY <1>1, ReplayInvAlways, PTL

(***************************************************************************)
(* The tracee maps what the recorded process mapped, where it mapped it:   *)
(* should_simulate.py opens in the tracee each file that is mapped, and    *)
(* get_mmap_registers gives the address.                                   *)
(***************************************************************************)
THEOREM MapsSameFilesAlways == Spec => []MapsSameFiles
<1>1. ASSUME ReplayInv, Reproducible
      PROVE  LET mapped == {k \in 1..Len(seen) : IsMapped(k, Len(seen))}
             IN  /\ DOMAIN maps = {executed[k].ret : k \in mapped}
                 /\ \A k \in mapped :
                      maps[executed[k].ret] =
                        IF executed[k].fd = NoFd THEN NoFd
                        ELSE executed[k].opener
  <2> DEFINE mapped == {k \in 1..Len(seen) : IsMapped(k, Len(seen))}
  <2>1. Len(seen) \in Nat /\ Len(executed) \in Nat
    BY <1>1, LenIsNat DEF ReplayInv, LossInv, PositionInv, RecordingInv
  <2>2. Len(seen) <= Len(executed)
    BY <1>1, <2>1, StartIsTrivial DEF ReplayInv, Tracked, Diverged
  <2>3. \A k \in mapped : executed[k].ret = k
    BY <1>1, <2>1, <2>2 DEF ReplayInv, ProgramInv, CallsInv, CallIsProper,
       CallIsTyped, IsMapped
  <2>4. /\ DOMAIN maps = mapped
        /\ \A k \in mapped :
             maps[k] = IF executed[k].fd = NoFd THEN NoFd
                       ELSE executed[k].opener
    <3>1. CASE pc = "recording"
      <4>1. Len(seen) = 0 /\ maps = <<>>
        BY <1>1, <3>1, StartIsTrivial
      <4>2. DOMAIN maps = {} /\ mapped = {}
        BY <4>1
      <4> QED
        BY <4>2
    <3>2. CASE pc # "recording"
      BY <1>1, <3>2 DEF ReplayInv, Tracked, MapsTracked
    <3> QED
      BY <3>1, <3>2
  <2> HIDE DEF mapped
  <2>5. DOMAIN maps = {executed[k].ret : k \in mapped}
    BY <2>3, <2>4
  <2>6. \A k \in mapped :
          maps[executed[k].ret] =
            IF executed[k].fd = NoFd THEN NoFd ELSE executed[k].opener
    BY <2>3, <2>4
  <2> QED
    BY <2>5, <2>6 DEF mapped
<1>2. ReplayInv => MapsSameFiles
  BY <1>1 DEF MapsSameFiles
<1> QED
  BY <1>2, ReplayInvAlways, PTL

(***************************************************************************)
(* A file that the replay opened in the tracee is closed in it when the    *)
(* recorded process closed it: the two searches of should_simulate.py      *)
(* agree, whatever descriptors were used again in between.                 *)
(***************************************************************************)
THEOREM ClosesSameFilesAlways == Spec => []ClosesSameFiles
<1>1. ReplayInv => ClosesSameFiles
  BY StartIsTrivial DEF ReplayInv, Tracked, FilesTracked, HeldIsFile, Closed,
     ClosesSameFiles
<1> QED
  BY <1>1, ReplayInvAlways, PTL

(* What a write put out starts its buffer, and is all of it if full. *)
LEMMA PrintedIsPrefix ==
  ASSUME NEW i, executed[i].ret \in {Error} \cup 1..WriteSize
  PROVE  /\ \A k \in 1..executed[i].ret : Bytes(Held(i))[k] = Printed(i)[k]
         /\ Bytes(Held(i)) = Printed(i) <=> executed[i].ret = WriteSize
<1> DEFINE ret == executed[i].ret
<1>1. WriteSize \in Nat \ {0} /\ ret \in Int /\ ret <= WriteSize
  BY ConstantsAssumption DEF Error
<1>2. \A k \in 1..ret : k \in 1..WriteSize
  BY <1>1
<1>3. \A k \in 1..ret : Bytes(Held(i))[k] = Printed(i)[k]
  BY <1>2 DEF Bytes, Printed
<1>4. ASSUME Bytes(Held(i)) = Printed(i)
      PROVE  ret = WriteSize
  <2>1. DOMAIN Bytes(Held(i)) = 1..WriteSize /\ DOMAIN Printed(i) = 1..ret
    BY DEF Bytes, Printed
  <2>2. WriteSize \in 1..ret
    BY <1>1, <1>4, <2>1
  <2> QED
    BY <1>1, <2>2
<1>5. ret = WriteSize => Bytes(Held(i)) = Printed(i)
  BY DEF Bytes, Printed
<1> QED
  BY <1>3, <1>4, <1>5

(***************************************************************************)
(* For each write to stdout, stdout_callback is given what the recorded    *)
(* process printed with it, and bytes it did not print if and only if that *)
(* write was short or failed: the callback is given rdx bytes, whatever    *)
(* the recorded return value.  For programs of any length.                 *)
(***************************************************************************)
THEOREM OutputReplayedAlways == Spec => []OutputReplayed
<1>1. ASSUME ReplayInv, Reproducible
      PROVE  OutputTracked /\ Reached \in Nat /\ Reached <= Len(executed)
  <2>1. Len(seen) \in Nat /\ Len(executed) \in Nat
    BY <1>1, LenIsNat DEF ReplayInv, LossInv, PositionInv, RecordingInv
  <2>2. CASE pc = "recording"
    BY <1>1, <2>1, <2>2, StartIsTrivial DEF Reached
  <2>3. CASE pc # "recording"
    BY <1>1, <2>1, <2>3
       DEF ReplayInv, Tracked, CallTracked, Diverged, Reached
  <2> QED
    BY <2>2, <2>3
<1>2. ASSUME ReplayInv, Reproducible, NEW i \in Prints(Reached)
      PROVE  executed[i].ret \in {Error} \cup 1..WriteSize
  <2>1. i \in 1..Len(executed) /\ executed[i].num = "write"
    BY <1>1, <1>2, LenIsNat DEF Prints, ReplayInv, LossInv, RecordingInv
  <2> QED
    BY <1>2, <2>1
       DEF ReplayInv, ProgramInv, CallsInv, CallIsProper, CallIsTyped
<1>3. ReplayInv => OutputReplayed
  BY <1>1, <1>2, PrintedIsPrefix DEF OutputReplayed, OutputTracked
<1> QED
  BY <1>3, ReplayInvAlways, PTL

(***************************************************************************)
(* From a complete recording, raise_on_unexpected_state never raises.      *)
(***************************************************************************)
THEOREM CallsAreExpectedAlways == Spec => []CallsAreExpected
<1>1. ReplayInv => CallsAreExpected
  BY DEF ReplayInv, Tracked, CallsAreExpected
<1> QED
  BY <1>1, ReplayInvAlways, PTL

(***************************************************************************)
(* raise_on_unexpected_return_value raises only where the call is open, or *)
(* failed when it was recorded.                                            *)
(***************************************************************************)
THEOREM OnlyOpenAndErrorsRaiseAlways == Spec => []OnlyOpenAndErrorsRaise
<1>1. ReplayInv => OnlyOpenAndErrorsRaise
  BY DEF ReplayInv, Tracked, OnlyOpenAndErrorsRaise
<1> QED
  BY <1>1, ReplayInvAlways, PTL
=============================================================================
