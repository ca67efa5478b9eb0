---------------------------- MODULE SyscallDumper ----------------------------
(***************************************************************************)
(* read_proc of /proc/syscall_dumper (syscall_dumper.c): a reader waits    *)
(* for a record, then takes records off the fifo and copies them into its  *)
(* buffer, with recorded_syscalls_mutex held, until the fifo is empty, the *)
(* buffer is too short or the copy fails.                                  *)
(*                                                                         *)
(* A read is cut where it may sleep: at its mutex_locks, at the schedule() *)
(* of its wait loop, and at the copy_to_user of each record.               *)
(***************************************************************************)
EXTENDS RecorderState

ReaderAt(d, pc) == rpc' = [rpc EXCEPT ![d] = pc]

(* add_wait_queue: the reader is on the queue, and runs. *)
ReadProc(d) ==
  /\ rpc[d] = "idle"
  /\ recorded_syscalls_wait' = recorded_syscalls_wait \cup {d}
  /\ ReaderAt(d, "lock")
  /\ UNCHANGED <<hookVars, dumpVars, recorded_syscalls,
                 recorded_syscalls_mutex, published, heap, oops>>

FinishWait(d) == recorded_syscalls_wait' = recorded_syscalls_wait \ {d}

----------------------------------------------------------------------------
(* mutex_lock, before the wait loop or after a wake-up. *)
Locks(d) == rpc[d] \in {"lock", "woken"} /\ recorded_syscalls_mutex = NULL

(* Mutant: the fifo is not looked at again after a wake-up. *)
NeverEmpty == FALSE

(* kfifo_is_empty *)
IsEmpty == recorded_syscalls = <<>>

ReadFindsRecords(d, n) ==
  /\ Locks(d)
  /\ ~IsEmpty
  /\ recorded_syscalls_mutex' = d
  /\ FinishWait(d)
  /\ size' = n
  /\ ReaderAt(d, "dump")
  /\ UNCHANGED <<hookVars, written, held, len, stream, swallowed, rejected,
                 recorded_syscalls, published, heap, oops>>

(* The fifo is empty and the file is O_NONBLOCK: the read returns 0. *)
ReadReturnsEmpty(d) ==
  /\ Locks(d)
  /\ IsEmpty
  /\ d \in NonBlocking
  /\ FinishWait(d)
  /\ ReaderAt(d, "idle")
  /\ UNCHANGED <<hookVars, dumpVars, recorded_syscalls,
                 recorded_syscalls_mutex, published, heap, oops>>

(* The fifo is empty: the mutex is unlocked and the reader will sleep. *)
ReadMustWait(d) ==
  /\ Locks(d)
  /\ IsEmpty
  /\ d \notin NonBlocking
  /\ ReaderAt(d, "unlocked")
  /\ UNCHANGED <<hookVars, dumpVars, fifoVars, heap, oops>>

(* prepare_to_wait and schedule: the fifo is not looked at again. *)
PrepareToWait(d) ==
  /\ rpc[d] = "unlocked"
  /\ recorded_syscalls_wait' = recorded_syscalls_wait \cup {d}
  /\ ReaderAt(d, "asleep")
  /\ UNCHANGED <<hookVars, dumpVars, recorded_syscalls,
                 recorded_syscalls_mutex, published, heap, oops>>

(* A signal is pending after schedule(): the read returns -ERESTARTSYS. *)
Interrupted(d) ==
  /\ rpc[d] \in {"asleep", "woken"}
  /\ FinishWait(d)
  /\ ReaderAt(d, "idle")
  /\ UNCHANGED <<hookVars, dumpVars, recorded_syscalls,
                 recorded_syscalls_mutex, published, heap, oops>>

----------------------------------------------------------------------------
(***************************************************************************)
(* dump_records and dump_single_record.  The kfifo_out that finds nothing  *)
(* would free an uninitialized pointer.                                    *)
(***************************************************************************)
TakesRecord(d) ==
  /\ rpc[d] = "dump"
  /\ recorded_syscalls # <<>>
  /\ Live(Head(recorded_syscalls))

TakeOops(d) ==
  /\ rpc[d] = "dump"
  /\ recorded_syscalls = <<>> \/ ~Live(Head(recorded_syscalls))
  /\ Oops

(* Mutant: the length is not compared with the room left. *)
FitsAnyhow(r) == TRUE

Fits(r) == RecordLen(r) <= size

TakeRecord(d) ==
  /\ TakesRecord(d)
  /\ Fits(Head(recorded_syscalls))
  /\ recorded_syscalls' = Tail(recorded_syscalls)
  /\ held' = Head(recorded_syscalls)
  /\ len' = RecordLen(Head(recorded_syscalls))
  /\ ReaderAt(d, "write")
  /\ UNCHANGED <<hookVars, size, written, stream, swallowed, rejected,
                 recorded_syscalls_mutex, recorded_syscalls_wait, published,
                 heap, oops>>

(* Mutant: read_proc returns without unlocking. *)
KeepLock == UNCHANGED recorded_syscalls_mutex

Unlock == recorded_syscalls_mutex' = NULL

(* read_proc returns, and its local variables go. *)
EndRead(d) ==
  /\ Unlock
  /\ size' = 0
  /\ written' = <<>>
  /\ held' = NULL
  /\ len' = 0
  /\ ReaderAt(d, "idle")

(***************************************************************************)
(* The record is longer than the room left: it is off the fifo, and        *)
(* neither written nor freed.  The read fails if it is the first one.      *)
(***************************************************************************)
ShortFirstRecord(d) ==
  /\ TakesRecord(d)
  /\ ~Fits(Head(recorded_syscalls))
  /\ written = <<>>
  /\ recorded_syscalls' = Tail(recorded_syscalls)
  /\ rejected' = rejected \cup {Head(recorded_syscalls)}
  /\ EndRead(d)
  /\ UNCHANGED <<hookVars, stream, swallowed, recorded_syscalls_wait,
                 published, heap, oops>>

ShortLaterRecord(d) ==
  /\ TakesRecord(d)
  /\ ~Fits(Head(recorded_syscalls))
  /\ written # <<>>
  /\ recorded_syscalls' = Tail(recorded_syscalls)
  /\ swallowed' = swallowed \cup {Head(recorded_syscalls)}
  /\ stream' = [stream EXCEPT ![d] = @ \o written]
  /\ EndRead(d)
  /\ UNCHANGED <<hookVars, rejected, recorded_syscalls_wait, published, heap,
                 oops>>

(* Mutant: each record is written over the one before. *)
DumpedInPlace == <<held>>

Dumped == Append(written, held)

(* The record is in the buffer: it is freed and the next one is taken. *)
WriteRecord(d) ==
  /\ rpc[d] = "write"
  /\ recorded_syscalls # <<>>
  /\ FreeRecord(held)
  /\ written' = Dumped
  /\ size' = size - len
  /\ held' = NULL
  /\ len' = 0
  /\ ReaderAt(d, "dump")
  /\ UNCHANGED <<hookVars, stream, swallowed, rejected, fifoVars, oops>>

(* The same, and the fifo is empty: the read returns. *)
WriteLastRecord(d) ==
  /\ rpc[d] = "write"
  /\ recorded_syscalls = <<>>
  /\ FreeRecord(held)
  /\ stream' = [stream EXCEPT ![d] = @ \o Dumped]
  /\ EndRead(d)
  /\ UNCHANGED <<hookVars, swallowed, rejected, recorded_syscalls,
                 recorded_syscalls_wait, published, oops>>

(* A copy_to_user fails: the read fails, whatever it had written. *)
WriteFails(d) ==
  /\ rpc[d] = "write"
  /\ FreeRecord(held)
  /\ EndRead(d)
  /\ UNCHANGED <<hookVars, stream, swallowed, rejected, recorded_syscalls,
                 recorded_syscalls_wait, published, oops>>

ReaderStep(d) ==
  \/ ReadProc(d)
  \/ \E n \in BufferSizes : ReadFindsRecords(d, n)
  \/ ReadReturnsEmpty(d)
  \/ ReadMustWait(d)
  \/ PrepareToWait(d)
  \/ Interrupted(d)
  \/ TakeOops(d)
  \/ TakeRecord(d)
  \/ ShortFirstRecord(d)
  \/ ShortLaterRecord(d)
  \/ WriteRecord(d)
  \/ WriteLastRecord(d)
  \/ WriteFails(d)
=============================================================================
