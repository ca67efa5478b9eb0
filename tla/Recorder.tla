------------------------------ MODULE Recorder ------------------------------
(***************************************************************************)
(* The kernel recorder: the hooks, the pid file and the dump file, loaded. *)
(***************************************************************************)
EXTENDS SyscallHooks, SyscallDumper, FiniteSets

Next ==
  \/ \E t \in Task : TaskStep(t)
  \/ \E pid \in Task \cup {NoPid} : StartRecording(pid)
  \/ \E d \in Reader : ReaderStep(d)

Spec == Init /\ [][Next]_vars

(* Bound: nothing is explored after a null or dangling pointer was used. *)
StillDefined == ~oops

(***************************************************************************)
(* The kernel runs every handler that has started to its end, and every    *)
(* read that does not sleep.  Where they contend for the mutex they need   *)
(* strong fairness, which the fifo order of a kernel mutex gives.  Nothing *)
(* is assumed of the processes (a system call may never return), of what   *)
(* is written to the pid file, of kills, of reads starting and of signals. *)
(***************************************************************************)
HookFairness(t) ==
  /\ WF_vars(NoRecord(t) \/ \E r \in Record : NewRecord(t, r))
  /\ WF_vars(NewCopy(t) \/ NoCopy(t))
  /\ WF_vars(PostCopy(t) \/ PostCopyFailed(t))
  /\ SF_vars(PushRecord(t) \/ DropRecord(t))
  /\ WF_vars(EndRecord(t))

ReadFairness(d) ==
  /\ SF_vars(\/ \E n \in BufferSizes : ReadFindsRecords(d, n)
             \/ ReadReturnsEmpty(d)
             \/ ReadMustWait(d))
  /\ WF_vars(PrepareToWait(d))
  /\ WF_vars(TakeRecord(d) \/ ShortFirstRecord(d) \/ ShortLaterRecord(d))
  /\ WF_vars(WriteRecord(d) \/ WriteLastRecord(d) \/ WriteFails(d))

FairSpec ==
  /\ Spec
  /\ \A t \in Task : HookFairness(t)
  /\ \A d \in Reader : ReadFairness(d)

----------------------------------------------------------------------------
Recording(t) == "syscall" \in probes[t]

InFifo == {recorded_syscalls[i] : i \in DOMAIN recorded_syscalls}

(***************************************************************************)
(* No handler uses a null or dangling pointer: post_copy, post_wrap_syscall*)
(* and post_syscall do not check current_syscall_record, which reader and  *)
(* hooks free and which stays set after the mutex of post_syscall is gone. *)
(***************************************************************************)
NoUndefinedUse == ~oops

(***************************************************************************)
(* "Record all data kernel copies to userspace processes we record": a     *)
(* record that reaches the fifo holds the copies of its own system call,   *)
(* all of them, in order, and no other process's.                          *)
(***************************************************************************)
RecordFaithful ==
  \A r \in published \ {NULL} : copies_to_user[r] = truth[r]

(***************************************************************************)
(* Who will still free r: the post_syscall of the call it records, by a    *)
(* push or a drop that is yet to come, or a reader.                        *)
(***************************************************************************)
WillBeFreed(r) ==
  \/ \E t \in Task : Recording(t) /\ tpc[t] # "unlocked" /\ mine[t] = r
  \/ r = held
  \/ r \in InFifo

(***************************************************************************)
(* r was leaked: dump_single_record took it out of the fifo and had no     *)
(* room for it, or the task was killed in the call it records, so that no  *)
(* post_syscall will ever come for it.                                     *)
(***************************************************************************)
LeakedByShortRead(r) == r \in swallowed \cup rejected

LeakedByKill(r) ==
  /\ r = current_syscall_record
  /\ \E t \in Task : tpc[t] = "dead" /\ mine[t] = r

(***************************************************************************)
(* A live record is one that somebody will still free, or one of those two *)
(* kinds of leak: in any interleaving of hooks, kills and a reader, no     *)
(* third way to lose a record, and by kills no more than the current one.  *)
(***************************************************************************)
MemoryAccounted ==
  \A r \in Record :
    Live(r) => WillBeFreed(r) \/ LeakedByShortRead(r) \/ LeakedByKill(r)

(***************************************************************************)
(* The length that dump_single_record checked against the room in the      *)
(* user's buffer is still the record's when the record is copied there.    *)
(***************************************************************************)
BufferNeverOverrun ==
  \A d \in Reader : rpc[d] = "write" => RecordLen(held) = len /\ len <= size

(***************************************************************************)
(* A dump runs with the mutex held, and never looks for a record in an     *)
(* empty fifo: the failure of kfifo_out, which frees an uninitialized      *)
(* pointer, is out of reach.                                               *)
(***************************************************************************)
DumpFindsRecord ==
  \A d \in Reader :
    /\ rpc[d] \in {"dump", "write"} <=> recorded_syscalls_mutex = d
    /\ rpc[d] = "dump" => recorded_syscalls # <<>>

(***************************************************************************)
(* The recorder implements RecordStream: the records a read has taken      *)
(* leave the queue when the read returns.                                  *)
(***************************************************************************)
TheQueue ==
  written \o (IF held = NULL THEN <<>> ELSE <<held>>) \o recorded_syscalls

Stream == INSTANCE RecordStream WITH queue <- TheQueue, used <- published

ImplementsStream == Stream!Spec

----------------------------------------------------------------------------
(***************************************************************************)
(* The inductive invariants, in named parts: DumpInv whatever is written   *)
(* to the pid file, IInv under Exclusive.                                  *)
(***************************************************************************)
(* Hooks are at work for at most one task, and it is the recorded one. *)
OneTaskAtWork ==
  /\ \A t, u \in Task : Busy(t) /\ Busy(u) => t = u
  /\ \A t \in Task :
       Busy(t) => \/ recorded_process_pid = t
                  \/ /\ recorded_process_pid = NoPid
                     /\ tpc[t] \in {"ret", "post", "unlocked"}

(* Where a task is says which return probes it may have. *)
ProbesMatchControl ==
  \A t \in Task :
    /\ tpc[t] \in {"user", "pre", "dead"} => probes[t] = {}
    /\ tpc[t] \in {"post", "unlocked"} => probes[t] = {"syscall"}
    /\ tpc[t] = "ret" => "wrap" \notin probes[t]

(***************************************************************************)
(* The record in progress is live and no reader can see it, until          *)
(* post_syscall has let go of the mutex.  It may have outlived a task that *)
(* was killed.                                                             *)
(***************************************************************************)
CurrentIsOwned ==
  /\ (\A t \in Task : tpc[t] # "unlocked") =>
       \/ current_syscall_record = NULL
       \/ /\ Live(current_syscall_record)
          /\ current_syscall_record \notin published
  /\ \A t \in Task :
       /\ Recording(t) => mine[t] = current_syscall_record
       /\ probes[t] # {} \/ tpc[t] \in {"precopy", "copying"}
            => current_syscall_record # NULL
       /\ tpc[t] = "pre" => current_syscall_record = NULL

(* The copy in progress is that of the task that is copying. *)
CopyIsOwned == \A t \in Task : tpc[t] = "copying" => current_copy = t

(* Without a copy in progress the next one is recorded. *)
CopyIsFree == (\A t \in Task : tpc[t] # "copying") => current_copy = NULL

(* The records in the fifo and in a reader's hand are live, and distinct. *)
FifoIsOwned ==
  /\ published \subseteq Record
  /\ \A r \in published : heap[r] # "unused"
  /\ \A i \in DOMAIN recorded_syscalls :
       Live(recorded_syscalls[i]) /\ recorded_syscalls[i] \in published
  /\ \A i, j \in DOMAIN recorded_syscalls :
       recorded_syscalls[i] = recorded_syscalls[j] => i = j
  /\ held # NULL => Live(held) /\ held \in published /\ held \notin InFifo

(* After post_syscall's mutex_unlock the record is the readers' to free. *)
PushedIsLetGo ==
  \A t \in Task :
    tpc[t] = "unlocked" /\ Live(current_syscall_record) =>
      \/ current_syscall_record = held
      \/ current_syscall_record \in InFifo \cup swallowed \cup rejected

(* What the holder of the mutex has between the steps of its dump. *)
DumpState ==
  /\ recorded_syscalls_mutex = NULL => held = NULL /\ written = <<>>
  /\ \A d \in Reader :
       /\ rpc[d] \in {"dump", "write"} <=> recorded_syscalls_mutex = d
       /\ rpc[d] = "dump" => recorded_syscalls # <<>> /\ held = NULL
       /\ rpc[d] = "write" => held # NULL /\ len <= size

(* The record of a call in progress has the copies the call has made. *)
RecordingIsTrue ==
  \A t \in Task : Recording(t) => copies_to_user[mine[t]] = truth[mine[t]]

DumpInv == TypeOK /\ DumpState

ControlInv == OneTaskAtWork /\ ProbesMatchControl /\ CopyIsOwned

(***************************************************************************)
(* Who owns which record, which makes every use of a pointer safe.  It     *)
(* also holds while the module is loaded and removed.                      *)
(***************************************************************************)
SafeInv ==
  /\ DumpInv
  /\ ControlInv
  /\ CurrentIsOwned
  /\ FifoIsOwned
  /\ BufferNeverOverrun

MemoryInv == PushedIsLetGo /\ MemoryAccounted

CallIsTrue == CopyIsFree /\ RecordingIsTrue

CopiesInv == CallIsTrue /\ RecordFaithful

IInv == SafeInv /\ NoUndefinedUse /\ MemoryInv /\ CopiesInv

----------------------------------------------------------------------------
(* post_syscall ends, though it waits for a mutex held across user copies. *)
PostSyscallEnds ==
  \A t \in Task : tpc[t] = "post" ~> tpc[t] = "user"

(* A read with O_NONBLOCK ends. *)
NonBlockingReadEnds ==
  \A d \in NonBlocking : rpc[d] # "idle" ~> rpc[d] = "idle"

(* A blocking read ends once there is a record, or the records are taken. *)
PendingRecordIsRead ==
  \A d \in Reader \ NonBlocking :
    rpc[d] # "idle" /\ recorded_syscalls # <<>>
      ~> rpc[d] = "idle" \/ recorded_syscalls = <<>>

(* The same, for a reader that was asleep when post_syscall woke it. *)
WokenReaderReads ==
  \A d \in Reader : rpc[d] = "woken" ~> rpc[d] \in {"idle", "unlocked"}

(* A read that returns records has not removed others. *)
ReadKeepsTheRest == swallowed = {}

(***************************************************************************)
(* A record in progress belongs to a system call that will return to       *)
(* post_syscall; otherwise nothing is ever recorded again.                 *)
(***************************************************************************)
RecorderIsFree ==
  current_syscall_record # NULL => \E t \in Task : "syscall" \in probes[t]
=============================================================================
