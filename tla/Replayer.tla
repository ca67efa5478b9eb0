------------------------------ MODULE Replayer ------------------------------
(***************************************************************************)
(* replayer.py and creplayer.c: a process is recorded, restored, and       *)
(* replayed under ptrace from the recording.                               *)
(*                                                                         *)
(* The process is a program: which call it makes next, and with what, is   *)
(* determined by what its calls returned.  It is recorded once, with any   *)
(* outcome; replayed, it makes the same calls as long as it sees the same  *)
(* results, and any call after it saw another.  Its memory is one buffer,  *)
(* which read fills and write is given; how many bytes of it a write puts  *)
(* out is up to the kernel.                                                *)
(***************************************************************************)
EXTENDS ShouldSimulate, FiniteSets

CONSTANTS
  Calls,       \* numbers of the calls the program makes, exit_group excepted
  Data,        \* what a read may return, and fills the buffer with
  WriteSize,   \* the bytes of the buffer, all of which a write is given
  Inherited,   \* the descriptors that are open when the snapshot is taken:
               \* one at most, so that its opener tells which
  MaxCalls,    \* bound: calls of the recorded process
  MaxLost,     \* bound: records that are missing from the recording
  Signals      \* TRUE: the tracee may be stopped by a signal

ASSUME ConstantsAssumption ==
  /\ Calls \subseteq OpenCalls \cup
                   {"accept", "close", "mmap", "munmap", "read", "write"}
  /\ Data \subseteq Nat
  /\ WriteSize \in Nat \ {0}
  /\ Inherited \subseteq Nat
  /\ \A fd, other \in Inherited : fd = other
  /\ MaxCalls \in Nat
  /\ MaxLost \in Nat
  /\ Signals \in BOOLEAN

VARIABLES
  \* the recorded process, and its recording
  executed,      \* the calls it made; uses: which call returned its fd
  files,         \* its open descriptors: the call that opened each one
  system_calls,  \* the calls that were recorded
  \* the tracee
  tracee,        \* where it is: "user", "entry" (of a call) or "exited"
  regs,          \* the registers of the call it is in
  seen,          \* what its calls have returned to it
  real,          \* its open descriptors: the call that opened each one
  maps,          \* its mappings: the file at each address
  buffer,        \* its memory
  \* the replayer
  pc,            \* where start_replaying is
  index,         \* recorded_system_call_index
  stdout         \* what stdout_callback was called with

recordVars == <<executed, files, system_calls>>
traceeVars == <<tracee, regs, seen, real, maps, buffer>>
replayVars == <<pc, index, stdout>>
vars == <<recordVars, traceeVars, replayVars>>

NoFd == -1        \* the descriptor of a call that has none
Error == -2       \* a negative return value
Invalid == -3     \* that of a call with an argument that cannot be: EINVAL
Stdout == 1       \* the descriptor whose writes the replayer prints
Snapshot == 0     \* who opened what was open when the snapshot was taken

(***************************************************************************)
(* A call, as recorded.  fd is its descriptor, or the address of munmap;   *)
(* opener, which no code reads, is the earlier call that returned it.      *)
(***************************************************************************)
Call(num, fd, opener, ret) ==
  [num |-> num, fd |-> fd, opener |-> opener, ret |-> ret]

(* The registers of a call: addr is the address mmap is told to map at. *)
Regs(num, fd) == [num |-> num, fd |-> fd, addr |-> 0]

Init ==
  /\ executed = <<>>
  /\ files = [fd \in Inherited |-> Snapshot]
  /\ system_calls = <<>>
  /\ tracee = "user"
  /\ regs = Regs("none", NoFd)
  /\ seen = <<>>
  /\ real = files
  /\ maps = <<>>
  /\ buffer = 0
  /\ pc = "recording"
  /\ index = 1
  /\ stdout = <<>>

----------------------------------------------------------------------------
(* Descriptor tables: the lowest free descriptor is used first. *)
Free(table) ==
  CHOOSE fd \in 0..Cardinality(DOMAIN table) :
    /\ fd \notin DOMAIN table
    /\ \A lower \in 0..(fd - 1) : lower \in DOMAIN table

With(f, x, y) == [z \in DOMAIN f \cup {x} |-> IF z = x THEN y ELSE f[z]]
Without(f, x) == [z \in DOMAIN f \ {x} |-> f[z]]

(***************************************************************************)
(* The process makes a call while it is recorded, and its descriptors are  *)
(* then those of table.                                                    *)
(***************************************************************************)
Executes(call, table) ==
  /\ pc = "recording"
  /\ Len(executed) < MaxCalls
  /\ call.num \in Calls
  /\ executed' = Append(executed, call)
  /\ files' = table
  /\ \/ system_calls' = Append(system_calls, call)
     \/ /\ Len(executed) < Len(system_calls) + MaxLost
        /\ UNCHANGED system_calls
  /\ UNCHANGED <<traceeVars, replayVars>>

This == Len(executed) + 1

NewDescriptor == OpenCalls \cup {"accept"}

RecordOpen(num) ==
  Executes(Call(num, NoFd, This, Free(files)), With(files, Free(files), This))

RecordFailedOpen == Executes(Call("openat", NoFd, This, Error), files)

RecordClose(fd) ==
  Executes(Call("close", fd, files[fd], 0), Without(files, fd))

(* The address of a mapping is the number of its call. *)
RecordMmap(fd) ==
  /\ files[fd] # Snapshot => executed[files[fd]].num \in {"open", "openat"}
  /\ Executes(Call("mmap", fd, files[fd], This), files)

RecordAnonymousMmap == Executes(Call("mmap", NoFd, This, This), files)

RecordFailedMmap == Executes(Call("mmap", NoFd, This, Error), files)

(* What call k mapped is still mapped after n calls. *)
IsMapped(k, n) ==
  /\ executed[k].num = "mmap" /\ executed[k].ret # Error
  /\ \A j \in (k + 1)..n : executed[j].num = "munmap" => executed[j].opener # k

RecordMunmap(k) ==
  /\ IsMapped(k, Len(executed))
  /\ Executes(Call("munmap", executed[k].ret, k, 0), files)

(* The address is none where a mapping could be. *)
RecordFailedMunmap == Executes(Call("munmap", NoFd, This, Invalid), files)

RecordRead(data) == Executes(Call("read", NoFd, This, data), files)

(***************************************************************************)
(* write(2) of the buffer to fd, with any outcome: it fails, or puts out   *)
(* the first ret bytes, all of them or fewer.                              *)
(***************************************************************************)
RecordWrite(fd, ret) == Executes(Call("write", fd, files[fd], ret), files)

(* The snapshot is restored: the tracee is the process as it started. *)
RecordingEnds ==
  /\ pc = "recording"
  /\ pc' = "attach"
  /\ UNCHANGED <<recordVars, traceeVars, index, stdout>>

----------------------------------------------------------------------------
(***************************************************************************)
(* The tracee is a program.  It tells one descriptor from another by the   *)
(* call that returned it, so that descriptors may differ from the          *)
(* recorded ones; nothing else may.                                        *)
(***************************************************************************)
Agrees(k) ==
  \/ seen[k] = executed[k].ret
  \/ executed[k].num \in NewDescriptor /\ executed[k].ret >= 0 /\ seen[k] >= 0

Diverged == \E k \in 1..Len(seen) : k > Len(executed) \/ ~Agrees(k)

NextCalls ==
  LET k == Len(seen) + 1
      call == executed[k]
  IN  IF Diverged
      THEN {Regs(num, NoFd) : num \in Calls \cup {"exit_group"}}
             \cup {Regs(num, 0) : num \in Calls \cap {"close", "mmap"}}
      ELSE IF k > Len(executed) THEN {Regs("exit_group", NoFd)}
      ELSE IF call.fd = NoFd \/ call.opener = Snapshot
           THEN {Regs(call.num, call.fd)}
           ELSE {Regs(call.num, seen[call.opener])}

(***************************************************************************)
(* What the kernel does for the call in regs at its exit: the tracee's     *)
(* descriptors and mappings change, and the call returns ret.              *)
(***************************************************************************)
KernelOpens(ret) ==
  /\ regs.num \in {"open", "openat"}
  /\ ret = Free(real)
  /\ real' = With(real, ret, Len(seen) + 1)
  /\ UNCHANGED maps

KernelCloses(ret) ==
  /\ regs.num = "close"
  /\ ret = IF regs.fd \in DOMAIN real THEN 0 ELSE Error
  /\ real' = Without(real, regs.fd)
  /\ UNCHANGED maps

(* Where it is not told an address, the kernel maps at a new one. *)
KernelMaps(ret) ==
  /\ regs.num = "mmap"
  /\ IF regs.fd \in DOMAIN real \cup {NoFd} /\ regs.addr >= 0
     THEN /\ ret = IF regs.addr = 0 THEN MaxCalls + 1 ELSE regs.addr
          /\ maps' = With(maps, ret,
                          IF regs.fd = NoFd THEN NoFd ELSE real[regs.fd])
     ELSE ret = Invalid /\ UNCHANGED maps
  /\ UNCHANGED real

KernelUnmaps(ret) ==
  /\ regs.num = "munmap"
  /\ ret = IF regs.fd = NoFd THEN Invalid ELSE 0
  /\ maps' = Without(maps, regs.fd)
  /\ UNCHANGED real

----------------------------------------------------------------------------
(* attach_to_tracee_and_begin *)
Attach ==
  /\ pc = "attach"
  /\ pc' = "run"
  /\ UNCHANGED <<recordVars, traceeVars, index, stdout>>

(***************************************************************************)
(* run_until_enter_or_exit_of_next_syscall, from user mode: the tracee     *)
(* stops at the entry of its next call, or for a signal, which raises.     *)
(***************************************************************************)
RunToEntry ==
  /\ pc = "run"
  /\ tracee = "user"
  /\ regs' \in NextCalls
  /\ tracee' = "entry"
  /\ pc' = "entered"
  /\ UNCHANGED <<recordVars, seen, real, maps, buffer, index, stdout>>

StoppedBySignal ==
  /\ pc = "run"
  /\ Signals
  /\ pc' = "stopped"
  /\ UNCHANGED <<recordVars, traceeVars, index, stdout>>

Recorded == system_calls[index]

(* get_exit_status expects exit_group once the recording is used up. *)
Expected == IF index <= Len(system_calls) THEN Recorded.num ELSE "exit_group"

(* raise_on_unexpected_state *)
UnexpectedSysCall ==
  /\ pc = "entered"
  /\ regs.num # Expected
  /\ pc' = "unexpectedCall"
  /\ UNCHANGED <<recordVars, traceeVars, index, stdout>>

AtRecordedCall ==
  pc = "entered" /\ index <= Len(system_calls) /\ regs.num = Recorded.num

(* The bytes of a buffer that data was read into. *)
Bytes(data) == [k \in 1..WriteSize |-> data]

(***************************************************************************)
(* call_stdout_callback_if_relevant reads the tracee's memory: as many     *)
(* bytes as the recorded write was given, whatever it returned.            *)
(***************************************************************************)
StdoutCallback ==
  stdout' = IF Recorded.num = "write" /\ Recorded.fd = Stdout
            THEN Append(stdout, Bytes(buffer)) ELSE stdout

(* simulate_system_call_for_tracee: the call becomes an invalid one. *)
Simulate ==
  /\ AtRecordedCall
  /\ StdoutCallback
  /\ ShouldSimulate(system_calls, index)
  /\ regs' = [regs EXCEPT !.num = "invalid"]
  /\ pc' = "simulating"
  /\ UNCHANGED <<recordVars, tracee, seen, real, maps, buffer, index>>

(* Mutant: the memory copies are not made. *)
NoMemoryCopies == UNCHANGED buffer

(* copy_memory_copies_to_tracee *)
MemoryCopies ==
  buffer' = IF Recorded.num = "read" THEN Recorded.ret ELSE buffer

(* Mutant: a record is left out. *)
SkipsRecord == index' = index + 2

NextRecord == index' = index + 1

(* The rest of it: memory copies and return value come from the recording. *)
Answer ==
  /\ pc = "simulating"
  /\ tracee = "entry"
  /\ tracee' = "user"
  /\ MemoryCopies
  /\ seen' = Append(seen, Recorded.ret)
  /\ NextRecord
  /\ pc' = "run"
  /\ UNCHANGED <<recordVars, regs, real, maps, stdout>>

(* get_mmap_registers: mmap is told the recorded address (MAP_FIXED). *)
NewRegisters ==
  IF Recorded.num = "mmap" THEN [regs EXCEPT !.addr = Recorded.ret] ELSE regs

(* wrap_and_run_real_system_call_in_tracee *)
Wrap ==
  /\ AtRecordedCall
  /\ StdoutCallback
  /\ ~ShouldSimulate(system_calls, index)
  /\ regs' = NewRegisters
  /\ pc' = "wrapping"
  /\ UNCHANGED <<recordVars, tracee, seen, real, maps, buffer, index>>

(* Mutant: openat is not ignored. *)
IgnoredButOpenat == {"read", "close", "mmap"}

(* SYS_CALLS_TO_IGNORE_IN_VALIDATION: open is not among them. *)
IgnoredInValidation == {"read", "close", "mmap", "openat"}

(***************************************************************************)
(* What raise_on_unexpected_return_value lets pass.  The loader unpacks    *)
(* the recorded value as a signed long; the registers of the tracee are    *)
(* unsigned (16 bits of them will do), so that no error equals itself.     *)
(***************************************************************************)
InRegister(ret) == ret % 2^16

ReturnIsExpected(ret) ==
  Recorded.ret = InRegister(ret) \/ Recorded.num \in IgnoredInValidation

(* The rest of wrap_and_run_real_system_call_in_tracee. *)
RunReal(ret) ==
  /\ pc = "wrapping"
  /\ tracee = "entry"
  /\ KernelOpens(ret) \/ KernelCloses(ret) \/ KernelMaps(ret)
                         \/ KernelUnmaps(ret)
  /\ tracee' = "user"
  /\ seen' = Append(seen, ret)
  /\ IF ReturnIsExpected(ret)
     THEN pc' = "run" /\ NextRecord
     ELSE pc' = "unexpectedReturn" /\ UNCHANGED index
  /\ UNCHANGED <<recordVars, regs, buffer, stdout>>

(* Mutant: any call is taken for exit_group. *)
AnyCall == TRUE

IsExitGroup == regs.num = "exit_group"

(* The rest of get_exit_status. *)
Exits ==
  /\ pc = "entered"
  /\ index > Len(system_calls)
  /\ IsExitGroup
  /\ tracee' = "exited"
  /\ pc' = "done"
  /\ UNCHANGED <<recordVars, regs, seen, real, maps, buffer, index, stdout>>

RecordingStep ==
  \/ \E num \in NewDescriptor : RecordOpen(num)
  \/ RecordFailedOpen
  \/ \E fd \in DOMAIN files : RecordClose(fd)
  \/ \E fd \in DOMAIN files : RecordMmap(fd)
  \/ RecordAnonymousMmap
  \/ RecordFailedMmap
  \/ \E k \in 1..Len(executed) : RecordMunmap(k)
  \/ RecordFailedMunmap
  \/ \E data \in Data : RecordRead(data)
  \/ \E fd \in DOMAIN files, ret \in {Error} \cup 1..WriteSize :
       RecordWrite(fd, ret)
  \/ RecordingEnds

ReplayStep ==
  \/ Attach
  \/ RunToEntry
  \/ StoppedBySignal
  \/ UnexpectedSysCall
  \/ Simulate
  \/ Answer
  \/ Wrap
  \/ \E ret \in Invalid..(2 * MaxCalls + 1) : RunReal(ret)
  \/ Exits

Next == RecordingStep \/ ReplayStep

Spec == Init /\ [][Next]_vars

----------------------------------------------------------------------------
TypeOK ==
  /\ \A calls \in {executed, system_calls} : \A i \in 1..Len(calls) :
       calls[i].num \in Calls /\ calls[i].fd \in Int /\ calls[i].ret \in Int
  /\ tracee \in {"user", "entry", "exited"}
  /\ index \in 1..(Len(system_calls) + 1)
  /\ \A i \in 1..Len(seen) : seen[i] \in Int
  /\ \A i \in 1..Len(stdout) : stdout[i] \in [1..WriteSize -> Data \cup {0}]
  /\ pc \in {"recording", "attach", "run", "entered", "simulating", "wrapping",
             "done", "stopped", "unexpectedCall",
             "unexpectedReturn"}

(* Nothing is missing from the recording. *)
Complete == system_calls = executed

(***************************************************************************)
(* Two calls that the replayer does not reproduce.  An mmap that failed is *)
(* told to map at its error; and the close of a descriptor that accept     *)
(* returned is made in the tracee, where it was not opened, when a file    *)
(* that was mapped had the descriptor before.                              *)
(***************************************************************************)
Irreproducible(k) ==
  \/ executed[k].num = "mmap" /\ executed[k].ret = Error
  \/ /\ executed[k].num = "close" /\ executed[k].opener # Snapshot
     /\ executed[executed[k].opener].num = "accept"
     /\ ~ShouldSimulate(executed, k)

Reproducible == Complete /\ \A k \in 1..Len(executed) : ~Irreproducible(k)

(***************************************************************************)
(* "recreating the exact same execution as in the recording": from a       *)
(* complete recording, each call returns to the tracee what it returned to *)
(* the recorded process, descriptors excepted.                             *)
(***************************************************************************)
SeesRecording == Reproducible => ~Diverged

(***************************************************************************)
(* The mappings of the tracee are those of the recorded process: of the    *)
(* same files, at the same addresses.  Files that are mapped are opened in *)
(* the tracee and stay open until they are mapped, whatever descriptors    *)
(* were closed and used again in between.                                  *)
(***************************************************************************)
MapsSameFiles ==
  LET mapped == {k \in 1..Len(seen) : IsMapped(k, Len(seen))}
  IN  Reproducible =>
        /\ DOMAIN maps = {executed[k].ret : k \in mapped}
        /\ \A k \in mapped :
             maps[executed[k].ret] =
               IF executed[k].fd = NoFd THEN NoFd ELSE executed[k].opener

(***************************************************************************)
(* A file the replay opened in the tracee is closed in it when the         *)
(* recorded process closed it.                                             *)
(***************************************************************************)
ClosesSameFiles ==
  Reproducible =>
    \A fd \in DOMAIN real, k \in 1..Len(seen) :
      executed[k].num = "close" /\ real[fd] # Snapshot
        => executed[k].opener # real[fd]

(* The calls that were given to stdout_callback. *)
Reached == Len(seen) + IF pc \in {"simulating", "wrapping"} THEN 1 ELSE 0

(* The calls that wrote to stdout, of the first n. *)
Prints(n) ==
  {i \in 1..n : executed[i].num = "write" /\ executed[i].fd = Stdout}

(* What the last of these reads returned, and so what the recorded process *)
(* had in its buffer at call n.                                            *)
LastOf(reads) ==
  IF reads = {} THEN 0
  ELSE executed[CHOOSE i \in reads : \A j \in reads : j <= i].ret

Held(n) == LastOf({i \in 1..n : executed[i].num = "read"})

(* What the recorded process printed with its write i. *)
Printed(i) == [k \in 1..executed[i].ret |-> Held(i)]

(***************************************************************************)
(* The output of the replay against that of the recorded process, up to    *)
(* the call reached: for its n-th write to descriptor 1, whatever that was *)
(* open on, the n-th chunk is printed, which starts with what the write put *)
(* out.  It is just that where the write was full, and only there: after   *)
(* one that was short or failed, call_stdout_callback_if_relevant prints   *)
(* bytes that the recorded process never wrote.                            *)
(***************************************************************************)
OutputReplayed ==
  Reproducible =>
    /\ Len(stdout) = Cardinality(Prints(Reached))
    /\ \A i \in Prints(Reached) :
         LET chunk == stdout[Cardinality(Prints(i))]
         IN  /\ \A k \in 1..executed[i].ret : chunk[k] = Printed(i)[k]
             /\ chunk = Printed(i) <=> executed[i].ret = WriteSize

(* From a complete recording, the tracee makes the calls it expects. *)
CallsAreExpected == Reproducible => pc # "unexpectedCall"

(* The same of return values: an unequal descriptor is no reason to raise. *)
ReturnsAreExpected == Reproducible => pc # "unexpectedReturn"

(***************************************************************************)
(* It raises for the return value of a call it lets the tracee make only   *)
(* where the call is open, or failed when it was recorded.                 *)
(***************************************************************************)
OnlyOpenAndErrorsRaise ==
  Reproducible /\ pc = "unexpectedReturn"
    => Recorded.num = "open" \/ Recorded.ret < 0

(***************************************************************************)
(* A replay that returns an exit status missed no record, unless the       *)
(* tracee was already given a wrong answer.                                *)
(***************************************************************************)
LossIsNoticed == pc = "done" /\ ~Diverged => Complete
=============================================================================
