---------------------------- MODULE SyscallHooks ----------------------------
(***************************************************************************)
(* What runs on the stack of a hooked process: the kretprobe handlers of   *)
(* do_syscall_64 (syscall_recorder.c), of the functions that copy to user  *)
(* memory (copy_to_user_wrapper.c) and of the wrapped system calls         *)
(* (syscall_wrapper.c), and the write handler of /proc/recorded_process    *)
(* (recorded_processes_loader.c).                                          *)
(*                                                                         *)
(* The kernel runs a return handler when the entry handler returned 0.     *)
(* "syscall" \in probes[t] says that post_syscall will run on t, "wrap"    *)
(* that post_wrap_syscall will, tpc[t] = "copying" that post_copy or       *)
(* post_put will.  A handler is cut where it lets others run between two   *)
(* accesses to a shared variable: at its kmalloc and around its mutex.     *)
(***************************************************************************)
EXTENDS RecorderState

(***************************************************************************)
(* pre_syscall: a system call starts.  execve and exit are not recorded;   *)
(* nor is anything while another record is in progress.                    *)
(***************************************************************************)
PreSyscallSkips(t, nr) ==
  /\ tpc[t] = "user"
  /\ \/ nr \in {"execve", "exit"}
     \/ recorded_process_pid # t
     \/ current_syscall_record # NULL
  /\ Goto(t, IF nr = "exit" THEN "dead" ELSE "body")
  /\ UNCHANGED <<recordVars, probes, mine, truth, otherVars>>

PreSyscallAllocates(t) ==
  /\ tpc[t] = "user"
  /\ recorded_process_pid = t
  /\ current_syscall_record = NULL
  /\ Goto(t, "pre")
  /\ UNCHANGED <<recordVars, probes, mine, truth, otherVars>>

(* The rest of pre_syscall, once kmalloc has returned a record. *)
NewRecord(t, r) ==
  /\ tpc[t] = "pre"
  /\ heap[r] = "unused"
  /\ heap' = [heap EXCEPT ![r] = "live"]
  /\ current_syscall_record' = r
  /\ copies_to_user' = [copies_to_user EXCEPT ![r] = <<>>]
  /\ probes' = [probes EXCEPT ![t] = {"syscall"}]
  /\ mine' = [mine EXCEPT ![t] = r]
  /\ truth' = [truth EXCEPT ![r] = <<>>]
  /\ Goto(t, "body")
  /\ UNCHANGED <<recorded_process_pid, current_copy, dumpVars, fifoVars, rpc,
                 oops>>

(* kmalloc returned NULL, which the assignment stores. *)
NoRecord(t) ==
  /\ tpc[t] = "pre"
  /\ current_syscall_record' = NULL
  /\ Goto(t, "body")
  /\ UNCHANGED <<recorded_process_pid, current_copy, copies_to_user, probes,
                 mine, truth, otherVars>>

----------------------------------------------------------------------------
(* Mutant: copies of every process are recorded. *)
CopyIsRecordedForAnyone(t) ==
  /\ current_syscall_record # NULL
  /\ current_copy = NULL

(***************************************************************************)
(* The hooks of _copy_to_user, copyout and __put_user_N.  pre_copy and     *)
(* pre_put take the same decisions, as do post_copy and post_put.          *)
(***************************************************************************)
CopyIsRecorded(t) ==
  /\ recorded_process_pid = t
  /\ current_syscall_record # NULL
  /\ current_copy = NULL

(* t made the copies cs in the system call it is in. *)
Copied(t, cs) ==
  truth' = [r \in Record |-> IF "syscall" \in probes[t] /\ r = mine[t]
                             THEN truth[r] \o cs
                             ELSE truth[r]]

(* Bound: the copies of a system call, and of a record. *)
MayCopy(t) ==
  /\ mine[t] # NULL => Len(truth[mine[t]]) < MaxCopies
  /\ current_syscall_record # NULL
       => Len(copies_to_user[current_syscall_record]) < MaxCopies

PreCopyAllocates(t) ==
  /\ tpc[t] = "body"
  /\ CopyIsRecorded(t)
  /\ MayCopy(t)
  /\ Goto(t, "precopy")
  /\ UNCHANGED <<recordVars, probes, mine, truth, otherVars>>

(* The copy is made and not recorded: the entry handler returned 1. *)
PreCopySkips(t) ==
  /\ tpc[t] = "body"
  /\ ~CopyIsRecorded(t)
  /\ MayCopy(t)
  /\ Copied(t, <<t>>)
  /\ UNCHANGED <<recordVars, tpc, probes, mine, otherVars>>

NewCopy(t) ==
  /\ tpc[t] = "precopy"
  /\ current_copy' = t
  /\ Goto(t, "copying")
  /\ UNCHANGED <<recorded_process_pid, current_syscall_record, copies_to_user,
                 probes, mine, truth, otherVars>>

(***************************************************************************)
(* kmalloc returned NULL: the copy is made and lost to the record.  truth  *)
(* leaves such a copy out, see the README.                                 *)
(***************************************************************************)
NoCopy(t) ==
  /\ tpc[t] = "precopy"
  /\ current_copy' = NULL
  /\ Goto(t, "body")
  /\ UNCHANGED <<recorded_process_pid, current_syscall_record, copies_to_user,
                 probes, mine, truth, otherVars>>

(* Mutant: the copy that is over stays the current copy. *)
KeepCopy == UNCHANGED current_copy

DropCopy == current_copy' = NULL

(* The copy succeeded: post_copy adds current_copy to the current record. *)
PostCopy(t) ==
  /\ tpc[t] = "copying"
  /\ current_copy # NULL
  /\ Live(current_syscall_record)
  /\ copies_to_user' =
       [copies_to_user EXCEPT ![current_syscall_record] =
                                 @ \o <<current_copy>>]
  /\ Copied(t, <<t>>)
  /\ DropCopy
  /\ Goto(t, "body")
  /\ UNCHANGED <<recorded_process_pid, current_syscall_record, probes, mine,
                 otherVars>>

PostCopyOops(t) ==
  /\ tpc[t] = "copying"
  /\ current_copy = NULL \/ ~Live(current_syscall_record)
  /\ Oops

(* The copy failed: nothing is recorded.  kfree(NULL) is harmless. *)
PostCopyFailed(t) ==
  /\ tpc[t] = "copying"
  /\ DropCopy
  /\ Goto(t, "body")
  /\ UNCHANGED <<recorded_process_pid, current_syscall_record, copies_to_user,
                 probes, mine, truth, otherVars>>

----------------------------------------------------------------------------
(***************************************************************************)
(* The wrapped system calls (poll, getdents, getdents64): pre_wrap_syscall *)
(* saves the user memory the call may write, post_wrap_syscall adds a copy *)
(* of one byte for each byte that changed.  A pre_wrap_syscall that fails  *)
(* changes nothing.                                                        *)
(***************************************************************************)
PreWrap(t) ==
  /\ tpc[t] = "body"
  /\ "wrap" \notin probes[t]
  /\ recorded_process_pid = t
  /\ current_syscall_record # NULL
  /\ probes' = [probes EXCEPT ![t] = @ \cup {"wrap"}]
  /\ UNCHANGED <<recordVars, tpc, mine, truth, otherVars>>

(***************************************************************************)
(* The bytes cs are recorded: none when the copy of the memory fails,      *)
(* fewer than changed when an allocation does.                             *)
(***************************************************************************)
PostWrap(t, cs) ==
  /\ tpc[t] = "body"
  /\ "wrap" \in probes[t]
  /\ cs # <<>> => MayCopy(t) /\ Live(current_syscall_record)
  /\ copies_to_user' =
       IF cs = <<>> THEN copies_to_user
       ELSE [copies_to_user EXCEPT ![current_syscall_record] = @ \o cs]
  /\ IF cs = <<>> THEN UNCHANGED truth ELSE Copied(t, cs)
  /\ probes' = [probes EXCEPT ![t] = @ \ {"wrap"}]
  /\ UNCHANGED <<recorded_process_pid, current_syscall_record, current_copy,
                 tpc, mine, otherVars>>

PostWrapOops(t) ==
  /\ tpc[t] = "body"
  /\ "wrap" \in probes[t]
  /\ ~Live(current_syscall_record)
  /\ Oops

----------------------------------------------------------------------------
(***************************************************************************)
(* The system call of t ends.  Without the probe it just returns.          *)
(***************************************************************************)
ReturnUnrecorded(t) ==
  /\ tpc[t] \in {"body", "ret"}
  /\ probes[t] = {}
  /\ Goto(t, "user")
  /\ UNCHANGED <<recordVars, probes, mine, truth, otherVars>>

(* post_syscall up to the mutex: the return value goes to the record. *)
PostSyscall(t) ==
  /\ tpc[t] \in {"body", "ret"}
  /\ probes[t] = {"syscall"}
  /\ Live(current_syscall_record)
  /\ Goto(t, "post")
  /\ UNCHANGED <<recordVars, probes, mine, truth, otherVars>>

PostSyscallOops(t) ==
  /\ tpc[t] \in {"body", "ret"}
  /\ probes[t] = {"syscall"}
  /\ current_syscall_record # NULL
  /\ ~Live(current_syscall_record)
  /\ Oops

(* "Current syscall not defined!" *)
PostSyscallUndefined(t) ==
  /\ tpc[t] \in {"body", "ret"}
  /\ probes[t] = {"syscall"}
  /\ current_syscall_record = NULL
  /\ probes' = [probes EXCEPT ![t] = {}]
  /\ mine' = [mine EXCEPT ![t] = NULL]
  /\ Goto(t, "user")
  /\ UNCHANGED <<recordVars, truth, otherVars>>

(***************************************************************************)
(* post_syscall under the mutex: the pointer goes to the fifo and every    *)
(* reader asleep on the wait queue is woken and taken off it.  A reader    *)
(* that is on the queue and has not gone to sleep is not affected.         *)
(***************************************************************************)
PushRecord(t) ==
  /\ tpc[t] = "post"
  /\ recorded_syscalls_mutex = NULL
  /\ Len(recorded_syscalls) < FifoSlots
  /\ recorded_syscalls' = Append(recorded_syscalls, current_syscall_record)
  /\ published' = published \cup {current_syscall_record}
  /\ rpc' = [d \in Reader |->
               IF d \in recorded_syscalls_wait /\ rpc[d] = "asleep"
               THEN "woken" ELSE rpc[d]]
  /\ recorded_syscalls_wait' =
       {d \in recorded_syscalls_wait : rpc[d] # "asleep"}
  /\ Goto(t, "unlocked")
  /\ UNCHANGED <<recordVars, probes, mine, truth, dumpVars,
                 recorded_syscalls_mutex, heap, oops>>

(* The fifo is full: the record is freed. *)
DropRecord(t) ==
  /\ tpc[t] = "post"
  /\ recorded_syscalls_mutex = NULL
  /\ Len(recorded_syscalls) >= FifoSlots
  /\ Live(current_syscall_record)
  /\ FreeRecord(current_syscall_record)
  /\ Goto(t, "unlocked")
  /\ UNCHANGED <<recordVars, probes, mine, truth, dumpVars, fifoVars, rpc,
                 oops>>

DropRecordOops(t) ==
  /\ tpc[t] = "post"
  /\ recorded_syscalls_mutex = NULL
  /\ Len(recorded_syscalls) >= FifoSlots
  /\ ~Live(current_syscall_record)
  /\ Oops

(* Mutant: post_syscall does not clear the current record. *)
KeepCurrent == UNCHANGED current_syscall_record

ClearCurrent == current_syscall_record' = NULL

(* post_syscall after mutex_unlock. *)
EndRecord(t) ==
  /\ tpc[t] = "unlocked"
  /\ ClearCurrent
  /\ probes' = [probes EXCEPT ![t] = {}]
  /\ mine' = [mine EXCEPT ![t] = NULL]
  /\ Goto(t, "user")
  /\ UNCHANGED <<recorded_process_pid, current_copy, copies_to_user, truth,
                 otherVars>>

(***************************************************************************)
(* t is killed in the system call: it never returns from do_syscall_64,    *)
(* and the kernel drops its return probes without running them.  The       *)
(* record of the call, which mine keeps, stays the current one.            *)
(***************************************************************************)
Killed(t) ==
  /\ tpc[t] \in {"body", "ret"}
  /\ probes' = [probes EXCEPT ![t] = {}]
  /\ Goto(t, "dead")
  /\ UNCHANGED <<recordVars, mine, truth, otherVars>>

----------------------------------------------------------------------------
(***************************************************************************)
(* write_proc of /proc/recorded_process stores the pid it parses.  The     *)
(* handler itself takes any pid at any time.  ExclusiveWrite is what a     *)
(* user of it has to respect for the recorder to serve one task at a time: *)
(* the pid changes when no hook is at work for another task, and a task    *)
(* that is being recorded only stops its own recording.                    *)
(***************************************************************************)
Busy(t) == probes[t] # {} \/ tpc[t] \in {"pre", "precopy", "copying"}

ExclusiveWrite(w, pid) ==
  /\ \A t \in Task \ {w} : ~Busy(t)
  /\ w \in Task => (Busy(w) => pid \in {NoPid, w})

(* A task writes the file itself; write(2) copies nothing to user memory. *)
WriteProc(t, pid) ==
  /\ tpc[t] = "body"
  /\ "wrap" \notin probes[t]
  /\ mine[t] # NULL => truth[mine[t]] = <<>>
  /\ Exclusive => ExclusiveWrite(t, pid)
  /\ recorded_process_pid' = pid
  /\ Goto(t, "ret")
  /\ UNCHANGED <<current_syscall_record, current_copy, copies_to_user, probes,
                 mine, truth, otherVars>>

(* Another process writes it: the pager's start_recording. *)
StartRecording(pid) ==
  /\ Exclusive => ExclusiveWrite(NULL, pid)
  /\ recorded_process_pid' = pid
  /\ UNCHANGED <<current_syscall_record, current_copy, copies_to_user, tpc,
                 probes, mine, truth, otherVars>>

TaskStep(t) ==
  \/ \E nr \in {"execve", "exit", "other"} : PreSyscallSkips(t, nr)
  \/ PreSyscallAllocates(t)
  \/ \E r \in Record : NewRecord(t, r)
  \/ NoRecord(t)
  \/ PreCopyAllocates(t)
  \/ PreCopySkips(t)
  \/ NewCopy(t)
  \/ NoCopy(t)
  \/ PostCopy(t)
  \/ PostCopyOops(t)
  \/ PostCopyFailed(t)
  \/ PreWrap(t)
  \/ \E cs \in {<<>>, <<t>>} : PostWrap(t, cs)
  \/ PostWrapOops(t)
  \/ ReturnUnrecorded(t)
  \/ PostSyscall(t)
  \/ PostSyscallOops(t)
  \/ PostSyscallUndefined(t)
  \/ PushRecord(t)
  \/ DropRecord(t)
  \/ DropRecordOops(t)
  \/ EndRecord(t)
  \/ Killed(t)
  \/ \E pid \in Task \cup {NoPid} : WriteProc(t, pid)
=============================================================================
