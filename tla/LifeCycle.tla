----------------------------- MODULE LifeCycle -----------------------------
(***************************************************************************)
(* main.c, and the init_ and remove_ functions it calls: the recorder is   *)
(* loaded, may fail half way, is used, and is removed while processes are  *)
(* in hooked system calls and in reads of the dump file.                   *)
(***************************************************************************)
EXTENDS Recorder

CONSTANT MaxLoads   \* bound: how often insmod is run

ASSUME LoadsAssumption == MaxLoads \in Nat

VARIABLES
  mpc,         \* where the module is: unloaded, at an init_ function of
               \* recorder_init, loaded, or removing what it registered
  removals,    \* the remove_ functions that have yet to return
  registered,  \* the module's probes and proc files the kernel has
  stale,       \* the ones it still has of a module whose memory was freed
  kfifo,       \* recorded_syscalls has a buffer
  loads        \* how often insmod was run

lifeVars == <<mpc, removals, registered, stale, kfifo, loads>>

Names == {"syscall", "copy", "put", "wrap", "syscall_dumper",
          "recorded_process"}

Removal == {"syscall_dumper", "syscall_wrappers", "copy_hook", "syscall_hook",
            "recorded_processes_loader"}

LifeTypeOK ==
  /\ mpc \in {"unloaded", "init_syscall_hook", "init_copy_hook",
              "init_syscall_wrappers", "init_syscall_dumper",
              "init_recorded_processes_loader", "loaded", "removing"}
  /\ removals \in Seq(Removal)
  /\ removals # <<>> => mpc = "removing"
  /\ registered \subseteq Names
  /\ mpc = "loaded" => registered = Names
  /\ stale \subseteq Names
  /\ kfifo \in BOOLEAN
  /\ loads \in 0..MaxLoads

LifeInit ==
  /\ Init
  /\ mpc = "unloaded"
  /\ removals = <<>>
  /\ registered = {}
  /\ stale = {}
  /\ kfifo = FALSE
  /\ loads = 0

----------------------------------------------------------------------------
(* insmod: the globals have their initial values again. *)
Insmod ==
  /\ mpc = "unloaded"
  /\ loads < MaxLoads
  /\ loads' = loads + 1
  /\ mpc' = "init_syscall_hook"
  /\ kfifo' = FALSE
  /\ recorded_process_pid' = NoPid
  /\ current_syscall_record' = NULL
  /\ current_copy' = NULL
  /\ recorded_syscalls' = <<>>
  /\ recorded_syscalls_mutex' = NULL
  /\ recorded_syscalls_wait' = {}
  /\ UNCHANGED <<copies_to_user, tpc, probes, mine, truth, dumpVars, published,
                 heap, rpc, oops, removals, registered, stale>>

(* An init_ function registered names, and recorder_init goes on. *)
Succeeds(call, next, names) ==
  /\ mpc = call
  /\ mpc' = next
  /\ registered' = registered \cup names
  /\ kfifo' = TRUE
  /\ UNCHANGED <<vars, removals, stale, loads>>

(* The labels of recorder_init, in their order. *)
Cleanup ==
  <<"syscall_dumper", "syscall_wrappers", "copy_hook", "syscall_hook">>

(* It failed and left names registered; recorder_init goes to a label. *)
Fails(call, names, label) ==
  /\ mpc = call
  /\ mpc' = "removing"
  /\ removals' = SubSeq(Cleanup, label, 4)
  /\ registered' = registered \cup names
  /\ UNCHANGED <<vars, stale, loads>>

InitSyscallHook == Succeeds("init_syscall_hook", "init_copy_hook", {"syscall"})

(***************************************************************************)
(* kfifo_alloc failed, or register_kretprobe did and the fifo's buffer is  *)
(* leaked.  To unregister a probe that is not registered does nothing.     *)
(***************************************************************************)
InitSyscallHookFails == Fails("init_syscall_hook", {}, 5) /\ kfifo' \in BOOLEAN

InitCopyHook ==
  Succeeds("init_copy_hook", "init_syscall_wrappers", {"copy", "put"})

(* The put_user probes failed, and the copy probes stay, or both failed. *)
InitCopyHookFails ==
  /\ \E names \in {{}, {"copy"}} : Fails("init_copy_hook", names, 4)
  /\ UNCHANGED kfifo

InitSyscallWrappers ==
  Succeeds("init_syscall_wrappers", "init_syscall_dumper", {"wrap"})

(* Mutant: what was registered before is left. *)
InitSyscallWrappersFailsAndReturns ==
  Fails("init_syscall_wrappers", {}, 5) /\ UNCHANGED kfifo

InitSyscallWrappersFails ==
  Fails("init_syscall_wrappers", {}, 3) /\ UNCHANGED kfifo

InitSyscallDumper ==
  Succeeds("init_syscall_dumper", "init_recorded_processes_loader",
           {"syscall_dumper"})

InitSyscallDumperFails ==
  Fails("init_syscall_dumper", {}, 2) /\ UNCHANGED kfifo

(* Mutant: the pid file's entry is forgotten. *)
InitNoRecordedProcessesLoader ==
  Succeeds("init_recorded_processes_loader", "loaded", {})

InitRecordedProcessesLoader ==
  Succeeds("init_recorded_processes_loader", "loaded", {"recorded_process"})

InitRecordedProcessesLoaderFails ==
  Fails("init_recorded_processes_loader", {}, 1) /\ UNCHANGED kfifo

----------------------------------------------------------------------------
(* Mutant: the hooks are removed first. *)
ExitOrderHooksFirst ==
  <<"copy_hook", "syscall_hook", "syscall_wrappers", "syscall_dumper",
    "recorded_processes_loader">>

(* Mutant: the copy hooks are removed first. *)
ExitOrderCopyHookFirst ==
  <<"copy_hook", "syscall_dumper", "syscall_wrappers",
    "recorded_processes_loader", "syscall_hook">>

(* The calls of recorder_exit. *)
ExitOrder ==
  <<"syscall_dumper", "syscall_wrappers", "recorded_processes_loader",
    "copy_hook", "syscall_hook">>

Rmmod ==
  /\ mpc = "loaded"
  /\ mpc' = "removing"
  /\ removals' = ExitOrder
  /\ UNCHANGED <<vars, registered, stale, kfifo, loads>>

(* The remove_ function that is running, and what it unregisters. *)
Removing(call) == removals # <<>> /\ Head(removals) = call

NamesOf(call) ==
  CASE call = "syscall_hook" -> {"syscall"}
    [] call = "copy_hook" -> {"copy", "put"}
    [] call = "syscall_wrappers" -> {"wrap"}
    [] call = "syscall_dumper" -> {"syscall_dumper"}
    [] call = "recorded_processes_loader" -> {"recorded_process"}

(***************************************************************************)
(* The kernel first makes sure that no handler and no read starts any      *)
(* more, then waits for the ones that run.  Return probes that are still   *)
(* on a stack do nothing from then on.                                     *)
(***************************************************************************)
Unregister ==
  /\ \E call \in Removal :
       /\ Removing(call)
       /\ NamesOf(call) \cap registered # {}
       /\ registered' = registered \ NamesOf(call)
  /\ UNCHANGED <<vars, mpc, removals, stale, kfifo, loads>>

Ends(call) ==
  /\ Removing(call)
  /\ NamesOf(call) \cap registered = {}
  /\ removals' = Tail(removals)
  /\ UNCHANGED <<mpc, registered, stale, loads>>

RemoveSyscallDumper ==
  /\ Ends("syscall_dumper")
  /\ \A d \in Reader : rpc[d] = "idle"
  /\ UNCHANGED <<vars, kfifo>>

RemoveRecordedProcessesLoader ==
  Ends("recorded_processes_loader") /\ UNCHANGED <<vars, kfifo>>

RemoveSyscallWrappers ==
  /\ Ends("syscall_wrappers")
  /\ probes' = [t \in Task |-> probes[t] \ {"wrap"}]
  /\ UNCHANGED <<recordVars, tpc, mine, truth, otherVars, kfifo>>

(* A copy in progress is made, and its post_copy does not run. *)
RemoveCopyHook ==
  /\ Ends("copy_hook")
  /\ \A t \in Task : tpc[t] # "precopy"
  /\ tpc' = [t \in Task |-> IF tpc[t] = "copying" THEN "body" ELSE tpc[t]]
  /\ truth' = [r \in Record |->
       LET copying == {t \in Task : tpc[t] = "copying" /\ mine[t] = r} IN
       IF copying = {} THEN truth[r]
       ELSE Append(truth[r], CHOOSE t \in copying : TRUE)]
  /\ UNCHANGED <<recordVars, probes, mine, otherVars, kfifo>>

(* remove_syscall_hook frees the buffer; the records in it stay allocated. *)
RemoveSyscallHook ==
  /\ Ends("syscall_hook")
  /\ \A t \in Task : tpc[t] \notin {"pre", "post", "unlocked"}
  /\ probes' = [t \in Task |-> probes[t] \ {"syscall"}]
  /\ mine' = [t \in Task |-> NULL]
  /\ kfifo' = FALSE
  /\ recorded_syscalls' = <<>>
  /\ UNCHANGED <<recordVars, tpc, truth, dumpVars, recorded_syscalls_mutex,
                 recorded_syscalls_wait, published, heap, rpc, oops>>

(* recorder_init failed or recorder_exit returned: the memory is freed. *)
Unload ==
  /\ mpc = "removing"
  /\ removals = <<>>
  /\ mpc' = "unloaded"
  /\ stale' = stale \cup registered
  /\ registered' = {}
  /\ UNCHANGED <<vars, removals, kfifo, loads>>

RemovalReturns ==
  \/ RemoveSyscallDumper
  \/ RemoveSyscallWrappers
  \/ RemoveRecordedProcessesLoader
  \/ RemoveCopyHook
  \/ RemoveSyscallHook

ModuleStep ==
  \/ Insmod
  \/ InitSyscallHook \/ InitSyscallHookFails
  \/ InitCopyHook \/ InitCopyHookFails
  \/ InitSyscallWrappers \/ InitSyscallWrappersFails
  \/ InitSyscallDumper \/ InitSyscallDumperFails
  \/ InitRecordedProcessesLoader \/ InitRecordedProcessesLoaderFails
  \/ Rmmod
  \/ Unregister
  \/ RemovalReturns
  \/ Unload

----------------------------------------------------------------------------
(* Processes run as in Recorder where the probe or file is registered. *)
TaskRuns(t) ==
  /\ TaskStep(t)
  /\ tpc[t] = "user" => "syscall" \in registered
  /\ tpc[t] = "body" /\ tpc'[t] = "precopy" => "copy" \in registered
  /\ "wrap" \in probes'[t] \ probes[t] => "wrap" \in registered
  /\ tpc[t] = "body" /\ tpc'[t] = "ret" => "recorded_process" \in registered
  /\ UNCHANGED lifeVars

PidWritten(pid) ==
  /\ "recorded_process" \in registered
  /\ StartRecording(pid)
  /\ UNCHANGED lifeVars

ReaderRuns(d) ==
  /\ ReaderStep(d)
  /\ rpc[d] = "idle" => "syscall_dumper" \in registered
  /\ UNCHANGED lifeVars

(* System calls and copies nobody hooks. *)
UnhookedSyscall(t) ==
  /\ "syscall" \notin registered
  /\ tpc[t] = "user"
  /\ Goto(t, "body")
  /\ UNCHANGED <<recordVars, probes, mine, truth, otherVars, lifeVars>>

UnhookedCopy(t) ==
  /\ "copy" \notin registered
  /\ tpc[t] = "body"
  /\ MayCopy(t)
  /\ Copied(t, <<t>>)
  /\ UNCHANGED <<recordVars, tpc, probes, mine, otherVars, lifeVars>>

(* A copy calls pre_copy of a module that is gone. *)
StaleCopyHook(t) ==
  "copy" \in stale /\ tpc[t] = "body" /\ Oops /\ UNCHANGED lifeVars

ProcessStep ==
  \/ \E t \in Task :
       TaskRuns(t) \/ UnhookedSyscall(t) \/ UnhookedCopy(t) \/ StaleCopyHook(t)
  \/ \E pid \in Task \cup {NoPid} : PidWritten(pid)
  \/ \E d \in Reader : ReaderRuns(d)

LifeNext == ModuleStep \/ ProcessStep

LifeSpec == LifeInit /\ [][LifeNext]_<<vars, lifeVars>>

(* recorder_init and recorder_exit run on when what they wait for is over. *)
FairLife ==
  /\ LifeSpec
  /\ \A t \in Task : HookFairness(t)
  /\ \A d \in Reader : ReadFairness(d)
  /\ WF_<<vars, lifeVars>>(Unregister \/ Unload)
  /\ WF_<<vars, lifeVars>>(RemovalReturns)

----------------------------------------------------------------------------
(***************************************************************************)
(* "What happens if we remove while in hook?"  Whoever is in the code of   *)
(* post_syscall or read_proc finds the fifo's buffer: it is allocated      *)
(* before and freed after everything that uses it, and nobody is in the    *)
(* module's code when it is gone.                                          *)
(***************************************************************************)
UsersFindTheFifo ==
  (\/ \E t \in Task : tpc[t] \in {"pre", "post", "unlocked"}
   \/ \E d \in Reader : rpc[d] # "idle")
    => kfifo /\ mpc # "unloaded"

(***************************************************************************)
(* A record a reader was given has all copies of its call, also when the   *)
(* hooks were being removed while the call ran.                            *)
(***************************************************************************)
ReadsAreFaithful ==
  \A d \in Reader : \A i \in DOMAIN stream[d] :
    copies_to_user[stream[d][i]] = truth[stream[d][i]]

(***************************************************************************)
(* Whatever fails in recorder_init, what was registered is unregistered,   *)
(* except for the copy probes when the put_user probes fail.               *)
(***************************************************************************)
FailedInitIsUndone == stale \subseteq {"copy"}

(* A null or dangling pointer is used only through those copy probes. *)
OopsOnlyByStaleHook == oops => stale # {}

(* rmmod, and an insmod that fails, come to an end, unless a reader sleeps: *)
(* remove_proc_entry waits for its read.                                   *)
RemovalEnds ==
  mpc = "removing" ~> mpc = "unloaded" \/ \E d \in Reader : rpc[d] = "asleep"

----------------------------------------------------------------------------
(***************************************************************************)
(* The inductive invariants, in named parts: LifeInv whatever is written   *)
(* to the pid file, OwnInv under Exclusive.                                *)
(***************************************************************************)
(* The init_ function has returned 0, and the remove_ function not yet. *)
Installed(call) ==
  IF mpc = "removing" THEN \E i \in DOMAIN removals : removals[i] = call
  ELSE NamesOf(call) \subseteq registered

InitPC == {"init_syscall_hook", "init_copy_hook", "init_syscall_wrappers",
           "init_syscall_dumper", "init_recorded_processes_loader"}

(* What is registered when each init_ function is called. *)
StageRegisters ==
  /\ mpc \in {"unloaded", "init_syscall_hook"} => registered = {}
  /\ mpc = "init_copy_hook" => registered = {"syscall"}
  /\ mpc = "init_syscall_wrappers" => registered = {"syscall", "copy", "put"}
  /\ mpc = "init_syscall_dumper"
       => registered = {"syscall", "copy", "put", "wrap"}
  /\ mpc = "init_recorded_processes_loader"
       => registered = Names \ {"recorded_process"}

(* The dump file goes first, and the fifo last. *)
RemovalOrder ==
  \A i \in DOMAIN removals :
    /\ removals[i] = "syscall_hook" <=> i = Len(removals)
    /\ removals[i] = "syscall_dumper" => i = 1

(* Nothing is registered that no call of recorder_exit will unregister, *)
(* but for the copy probes whose put_user probes failed.                *)
RegisteredIsInstalled ==
  \A name \in registered \ {"copy"} :
    \E call \in Removal : Installed(call) /\ name \in NamesOf(call)

(* Whoever is in a handler, or will be, or in a read, is waited for. *)
UsersAreWaitedFor ==
  /\ \A t \in Task :
       /\ tpc[t] \in {"pre", "post", "unlocked"} \/ "syscall" \in probes[t]
            => Installed("syscall_hook")
       /\ "wrap" \in probes[t] => Installed("syscall_wrappers")
       /\ tpc[t] \in {"precopy", "copying"} => Installed("copy_hook")
  /\ \A d \in Reader : rpc[d] # "idle" => Installed("syscall_dumper")

(* The fifo is there with the system call hook, and is empty without it. *)
FifoComesWithTheHook ==
  IF Installed("syscall_hook") THEN kfifo ELSE recorded_syscalls = <<>>

NothingRecorded ==
  /\ recorded_process_pid = NoPid
  /\ current_copy = NULL
  /\ recorded_syscalls = <<>>
  /\ \A t \in Task : ~Busy(t) /\ tpc[t] \notin {"post", "unlocked"}

(* Nothing is recorded before the pid file is there, and never if the copy *)
(* probes were left alone.                                                 *)
NotYetUsed ==
  /\ mpc \in InitPC => NothingRecorded
  /\ mpc = "removing" /\ "copy" \in registered /\ ~Installed("copy_hook")
       => NothingRecorded /\ "recorded_process" \notin registered

LifeInv ==
  /\ LifeTypeOK
  /\ DumpInv
  /\ StageRegisters
  /\ RemovalOrder
  /\ RegisteredIsInstalled
  /\ UsersAreWaitedFor
  /\ FifoComesWithTheHook
  /\ NotYetUsed
  /\ FailedInitIsUndone

(* While there is a dump file, what it may return has all its copies. *)
DumpableIsTrue ==
  Installed("syscall_dumper") =>
    /\ "copy" \in registered
    /\ CallIsTrue
    /\ \A r \in InFifo \cup ({held} \ {NULL}) : copies_to_user[r] = truth[r]

(* What it has returned was finished, and stays as it was. *)
Delivered ==
  {written[i] : i \in DOMAIN written}
    \cup UNION {{stream[d][i] : i \in DOMAIN stream[d]} : d \in Reader}

DeliveredIsTrue ==
  /\ Delivered \subseteq published
  /\ \A r \in Delivered : copies_to_user[r] = truth[r]

(* A record of one's own is that of a call in progress, or cut by a kill. *)
MineIsRecorded ==
  \A t \in Task : mine[t] # NULL => Recording(t) \/ tpc[t] = "dead"

OwnInv ==
  /\ SafeInv
  /\ DumpableIsTrue
  /\ DeliveredIsTrue
  /\ OopsOnlyByStaleHook
  /\ MineIsRecorded
=============================================================================
