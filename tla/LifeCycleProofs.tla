-------------------------- MODULE LifeCycleProofs --------------------------
(***************************************************************************)
(* Proofs about LifeCycle.  LifeInv is proved for every use of the pid     *)
(* file, OwnInv under Exclusive, with the lemmas of RecorderProofs for the *)
(* steps of the processes.                                                 *)
(***************************************************************************)
EXTENDS LifeCycle, RecorderProofs

LEMMA NamesOfCalls ==
  /\ NamesOf("syscall_hook") = {"syscall"}
  /\ NamesOf("copy_hook") = {"copy", "put"}
  /\ NamesOf("syscall_wrappers") = {"wrap"}
  /\ NamesOf("syscall_dumper") = {"syscall_dumper"}
  /\ NamesOf("recorded_processes_loader") = {"recorded_process"}
  BY DEF NamesOf

(* What the processes can see of a step of the module that changes none of *)
(* their state.                                                            *)
LEMMA InstallKeepsUsers ==
  ASSUME UsersAreWaitedFor, UNCHANGED vars,
         \A call \in Removal : Installed(call) => Installed(call)'
  PROVE  UsersAreWaitedFor'
  BY DEF UsersAreWaitedFor, Removal, vars, hookVars, otherVars

LEMMA VarsKeepDumpInv ==
  ASSUME DumpInv, UNCHANGED vars
  PROVE  DumpInv'
  BY DumpInvStep

(* An init_ function that succeeds. *)
LEMMA SuccessKeepsLifeInv ==
  ASSUME LifeInv,
         \/ InitSyscallHook \/ InitCopyHook \/ InitSyscallWrappers
         \/ InitSyscallDumper \/ InitRecordedProcessesLoader
  PROVE  LifeInv'
<1> USE NamesOfCalls DEF LifeInv
<1>a. \E call \in InitPC, next \in InitPC \cup {"loaded"},
         names \in SUBSET Names :
        /\ Succeeds(call, next, names)
        /\ call = "init_syscall_hook" => names = {"syscall"}
  BY DEF InitSyscallHook, InitCopyHook, InitSyscallWrappers,
     InitSyscallDumper, InitRecordedProcessesLoader, InitPC, Names
<1>1. /\ UNCHANGED <<vars, removals, stale, loads>>
      /\ mpc \in InitPC /\ mpc' \in InitPC \cup {"loaded"}
      /\ registered \subseteq registered' /\ kfifo' = TRUE
      /\ "syscall" \in registered'
  BY <1>a DEF Succeeds, InitPC, StageRegisters, Names
<1>2. /\ StageRegisters' /\ registered' \subseteq Names
      /\ mpc' = "loaded" => registered' = Names
  BY DEF StageRegisters, InitSyscallHook, InitCopyHook,
     InitSyscallWrappers, InitSyscallDumper, InitRecordedProcessesLoader,
     Succeeds, Names
<1>0. LifeTypeOK'
  BY <1>1, <1>2 DEF LifeTypeOK, StageRegisters, Names, InitPC
<1>3. \A call \in Removal : Installed(call) => Installed(call)'
  BY <1>1 DEF Installed, InitPC
<1>4. UsersAreWaitedFor' /\ DumpInv'
  BY <1>1, <1>3, InstallKeepsUsers, VarsKeepDumpInv
<1>5. RemovalOrder' /\ FailedInitIsUndone'
  BY <1>1 DEF RemovalOrder, FailedInitIsUndone
<1>6. \A call \in Removal :
        Installed(call)' <=> NamesOf(call) \subseteq registered'
  BY <1>1 DEF Installed, InitPC
<1>7. RegisteredIsInstalled'
  BY <1>1, <1>2, <1>6 DEF RegisteredIsInstalled, StageRegisters, InitPC,
     LifeTypeOK, Removal, Names
<1>8. FifoComesWithTheHook'
  BY <1>1, <1>6 DEF FifoComesWithTheHook, Removal
<1>9. NotYetUsed'
  BY <1>1 DEF NotYetUsed, NothingRecorded, Busy, InitPC, vars, hookVars,
     recordVars, otherVars, fifoVars
<1> QED
  BY <1>0, <1>2, <1>4, <1>5, <1>7, <1>8, <1>9

(* The calls that follow a label of recorder_init; the fifth only returns. *)
LEMMA CleanupFrom ==
  ASSUME NEW label \in 1..5
  PROVE  /\ SubSeq(Cleanup, label, 4) \in Seq(Removal)
         /\ Len(SubSeq(Cleanup, label, 4)) = 5 - label
         /\ DOMAIN SubSeq(Cleanup, label, 4) = 1..5 - label
         /\ \A i \in 1..5 - label :
              SubSeq(Cleanup, label, 4)[i] = Cleanup[label + i - 1]
<1>1. \A i \in label..4 : Cleanup[i] \in Removal
  BY DEF Cleanup, Removal
<1>2. /\ SubSeq(Cleanup, label, 4) \in Seq(Removal)
      /\ Len(SubSeq(Cleanup, label, 4)) = 5 - label
      /\ \A i \in 1..4 - label + 1 :
           SubSeq(Cleanup, label, 4)[i] = Cleanup[label + i - 1]
  BY <1>1, SubSeqProperties
<1>3. DOMAIN SubSeq(Cleanup, label, 4) = 1..5 - label
  BY <1>2, LenProperties
<1> QED
  BY <1>2, <1>3

(***************************************************************************)
(* An init_ function that fails: the calls from its label on undo what is  *)
(* installed, and what it left of its own is the copy probes at most.      *)
(***************************************************************************)
LEMMA FailureUndoes ==
  ASSUME LifeInv, NEW call \in InitPC, NEW names \in {{}, {"copy"}},
         NEW label \in 1..5, Fails(call, names, label),
         \A c \in Removal :
           NamesOf(c) \subseteq registered
             <=> \E j \in label..4 : Cleanup[j] = c,
         IF label = 5 THEN kfifo' \in BOOLEAN ELSE UNCHANGED kfifo
  PROVE  LifeInv'
<1> USE DEF LifeInv
<1>1. /\ mpc = call /\ mpc' = "removing"
      /\ removals' = SubSeq(Cleanup, label, 4)
      /\ registered' = registered \cup names
      /\ UNCHANGED <<vars, stale, loads>>
  BY DEF Fails
<1>2. /\ removals' \in Seq(Removal)
      /\ Len(removals') = 5 - label
      /\ DOMAIN removals' = 1..5 - label
      /\ \A i \in 1..5 - label : removals'[i] = Cleanup[label + i - 1]
  BY <1>1, CleanupFrom
<1>3. \A c \in Removal : Installed(c)' <=> Installed(c)
  <2> SUFFICES ASSUME NEW c \in Removal
               PROVE  Installed(c)' <=> \E j \in label..4 : Cleanup[j] = c
    BY <1>1 DEF Installed, InitPC
  <2>1. Installed(c)' <=> \E i \in 1..5 - label : Cleanup[label + i - 1] = c
    BY <1>1, <1>2, ZenonT(30) DEF Installed
  <2>2. ASSUME NEW j \in label..4, Cleanup[j] = c
        PROVE  \E i \in 1..5 - label : Cleanup[label + i - 1] = c
    <3>1. j - label + 1 \in 1..5 - label /\ label + (j - label + 1) - 1 = j
      OBVIOUS
    <3> QED
      BY <2>2, <3>1
  <2>3. \A i \in 1..5 - label : label + i - 1 \in label..4
    OBVIOUS
  <2> QED
    BY <2>1, <2>2, <2>3
<1>4. LifeTypeOK' /\ StageRegisters' /\ FailedInitIsUndone'
  BY <1>1, <1>2 DEF LifeTypeOK, StageRegisters, FailedInitIsUndone, Names,
     InitPC
<1>5. DumpInv' /\ UsersAreWaitedFor'
  BY <1>1, <1>3, InstallKeepsUsers, VarsKeepDumpInv
<1>6. RemovalOrder'
  <2>1. \A j \in 1..4 :
          /\ Cleanup[j] = "syscall_hook" <=> j = 4
          /\ Cleanup[j] = "syscall_dumper" <=> j = 1
    BY DEF Cleanup
  <2>2. \A i \in 1..5 - label :
          /\ label + i - 1 \in 1..4
          /\ label + i - 1 = 4 <=> i = 5 - label
          /\ label + i - 1 = 1 => i = 1
    OBVIOUS
  <2> QED
    BY <1>2, <2>1, <2>2 DEF RemovalOrder
<1>7. RegisteredIsInstalled'
  BY <1>1, <1>3 DEF RegisteredIsInstalled
<1>8. FifoComesWithTheHook'
  <2>1. label = 5 => ~Installed("syscall_hook")
    BY <1>1 DEF Installed, InitPC, Removal
  <2> QED
    BY <1>1, <1>3, <2>1 DEF FifoComesWithTheHook, Removal, vars, otherVars,
       fifoVars
<1>9. NotYetUsed'
  <2>1. "recorded_process" \notin registered
    BY <1>1 DEF StageRegisters, InitPC, Names
  <2>2. NothingRecorded'
    BY <1>1 DEF NotYetUsed, NothingRecorded, Busy, vars, hookVars,
       recordVars, otherVars, fifoVars
  <2> QED
    BY <1>1, <2>1, <2>2 DEF NotYetUsed, InitPC
<1> QED
  BY <1>4, <1>5, <1>6, <1>7, <1>8, <1>9

LEMMA FailureKeepsLifeInv ==
  ASSUME LifeInv,
         \/ InitSyscallHookFails \/ InitCopyHookFails
         \/ InitSyscallWrappersFails \/ InitSyscallDumperFails
         \/ InitRecordedProcessesLoaderFails
  PROVE  LifeInv'
<1>1. /\ Cleanup[1] = "syscall_dumper" /\ Cleanup[2] = "syscall_wrappers"
      /\ Cleanup[3] = "copy_hook" /\ Cleanup[4] = "syscall_hook"
  BY DEF Cleanup
<1>2. /\ \A j \in 1..4 : j = 1 \/ j = 2 \/ j = 3 \/ j = 4
      /\ \A j \in 2..4 : j = 2 \/ j = 3 \/ j = 4
      /\ \A j \in 3..4 : j = 3 \/ j = 4
      /\ \A j \in 4..4 : j = 4
      /\ \A j \in 5..4 : FALSE
  OBVIOUS
<1> USE <1>1, <1>2, NamesOfCalls, FailureUndoes
    DEF Removal, Names, InitPC, LifeInv, StageRegisters
<1>3. CASE InitSyscallHookFails
  <2>1. Fails("init_syscall_hook", {}, 5) /\ kfifo' \in BOOLEAN
    BY <1>3 DEF InitSyscallHookFails
  <2>2. registered = {}
    BY <2>1 DEF Fails
  <2> HIDE DEF LifeInv, StageRegisters
  <2> QED
    BY <2>1, <2>2
<1>4. CASE InitCopyHookFails
  <2>1. PICK names \in {{}, {"copy"}} :
          Fails("init_copy_hook", names, 4) /\ UNCHANGED kfifo
    BY <1>4 DEF InitCopyHookFails
  <2>2. registered = {"syscall"}
    BY <2>1 DEF Fails
  <2> HIDE DEF LifeInv, StageRegisters
  <2> QED
    BY <2>1, <2>2
<1>5. CASE InitSyscallWrappersFails
  <2>1. Fails("init_syscall_wrappers", {}, 3) /\ UNCHANGED kfifo
    BY <1>5 DEF InitSyscallWrappersFails
  <2>2. registered = {"syscall", "copy", "put"}
    BY <2>1 DEF Fails
  <2> HIDE DEF LifeInv, StageRegisters
  <2> QED
    BY <2>1, <2>2
<1>6. CASE InitSyscallDumperFails
  <2>1. Fails("init_syscall_dumper", {}, 2) /\ UNCHANGED kfifo
    BY <1>6 DEF InitSyscallDumperFails
  <2>2. registered = {"syscall", "copy", "put", "wrap"}
    BY <2>1 DEF Fails
  <2> HIDE DEF LifeInv, StageRegisters
  <2> QED
    BY <2>1, <2>2
<1>7. CASE InitRecordedProcessesLoaderFails
  <2>1. Fails("init_recorded_processes_loader", {}, 1) /\ UNCHANGED kfifo
    BY <1>7 DEF InitRecordedProcessesLoaderFails
  <2>2. registered = Names \ {"recorded_process"}
    BY <2>1 DEF Fails
  <2> HIDE DEF LifeInv, StageRegisters
  <2> QED
    BY <2>1, <2>2
<1> QED
  BY <1>3, <1>4, <1>5, <1>6, <1>7

LEMMA RmmodKeepsLifeInv ==
  ASSUME LifeInv, Rmmod
  PROVE  LifeInv'
<1> USE DEF LifeInv, Rmmod
<1>1. /\ removals' = ExitOrder /\ Len(removals') = 5
      /\ removals' \in Seq(Removal) /\ DOMAIN removals' = 1..5
      /\ removals'[1] = "syscall_dumper" /\ removals'[2] = "syscall_wrappers"
      /\ removals'[3] = "recorded_processes_loader"
      /\ removals'[4] = "copy_hook" /\ removals'[5] = "syscall_hook"
  BY DEF ExitOrder, Removal
<1>2. \A call \in Removal : Installed(call) /\ Installed(call)'
  BY <1>1, NamesOfCalls DEF Installed, Removal, LifeTypeOK, Names
<1>3. LifeTypeOK' /\ StageRegisters' /\ FailedInitIsUndone'
  BY <1>1 DEF LifeTypeOK, StageRegisters, FailedInitIsUndone
<1>4. DumpInv' /\ UsersAreWaitedFor'
  BY <1>2, InstallKeepsUsers, VarsKeepDumpInv
<1>5. RemovalOrder'
  BY <1>1 DEF RemovalOrder
<1>6. RegisteredIsInstalled'
  BY <1>2 DEF RegisteredIsInstalled
<1>7. FifoComesWithTheHook' /\ NotYetUsed'
  BY <1>2 DEF FifoComesWithTheHook, NotYetUsed, InitPC, Removal
<1> QED
  BY <1>3, <1>4, <1>5, <1>6, <1>7

LEMMA UnregisterKeepsLifeInv ==
  ASSUME LifeInv, Unregister
  PROVE  LifeInv'
<1> USE DEF LifeInv
<1>1. PICK call \in Removal :
        /\ removals # <<>> /\ Head(removals) = call
        /\ registered' = registered \ NamesOf(call)
  BY DEF Unregister, Removing
<1>2. UNCHANGED <<vars, mpc, removals, stale, kfifo, loads>>
  BY DEF Unregister
<1>3. mpc = "removing" /\ removals[1] = call /\ 1 \in DOMAIN removals
  BY <1>1, TailElements DEF LifeTypeOK
<1>4. \A c \in Removal : Installed(c)' <=> Installed(c)
  BY <1>2, <1>3 DEF Installed
<1>5. LifeTypeOK' /\ StageRegisters' /\ FailedInitIsUndone' /\ RemovalOrder'
  BY <1>1, <1>2, <1>3
     DEF LifeTypeOK, StageRegisters, FailedInitIsUndone, RemovalOrder
<1>6. DumpInv' /\ UsersAreWaitedFor'
  BY <1>2, <1>4, InstallKeepsUsers, VarsKeepDumpInv
<1>7. RegisteredIsInstalled'
  BY <1>1, <1>4 DEF RegisteredIsInstalled
<1>8. FifoComesWithTheHook'
  BY <1>2, <1>4 DEF FifoComesWithTheHook, Removal, vars, otherVars, fifoVars
<1>9. NotYetUsed'
  BY <1>1, <1>2, <1>3, <1>4 DEF NotYetUsed, NothingRecorded, Busy, InitPC,
     Removal, vars, hookVars, recordVars, otherVars, fifoVars
<1> QED
  BY <1>5, <1>6, <1>7, <1>8, <1>9

(***************************************************************************)
(* A remove_ function that returns: its call is installed no more, unless  *)
(* recorder_exit would call it again, and the others still are.            *)
(***************************************************************************)
LEMMA EndKeepsOrder ==
  ASSUME LifeInv, NEW call \in Removal, Ends(call)
  PROVE  /\ mpc = "removing" /\ Installed(call)
         /\ \A c \in Removal \ {call} : Installed(c)' <=> Installed(c)
         /\ call \in {"syscall_hook", "syscall_dumper"} => ~Installed(call)'
         /\ call # "syscall_dumper" => ~Installed("syscall_dumper")
         /\ LifeTypeOK' \/ kfifo' \notin BOOLEAN
         /\ StageRegisters' /\ FailedInitIsUndone'
         /\ RemovalOrder' /\ RegisteredIsInstalled'
<1> USE DEF LifeInv
<1>1. /\ removals # <<>> /\ Head(removals) = call /\ removals \in Seq(Removal)
      /\ NamesOf(call) \cap registered = {}
      /\ removals' = Tail(removals)
      /\ UNCHANGED <<mpc, registered, stale, loads>>
      /\ mpc = "removing"
  BY DEF Ends, Removing, LifeTypeOK
<1> DEFINE n == Len(removals)
<1>2. /\ DOMAIN removals = 1..n /\ n \in Nat \ {0} /\ removals[1] = call
      /\ DOMAIN removals' = 1..n - 1 /\ Len(removals') = n - 1
      /\ \A i \in 1..n - 1 : removals'[i] = removals[i + 1]
      /\ removals' \in Seq(Removal)
  BY <1>1, TailElements, HeadTailProperties
<1> HIDE DEF n
<1>3. ASSUME NEW c \in Removal
      PROVE  Installed(c) <=> \E i \in 1..n : removals[i] = c
  BY <1>1, <1>2 DEF Installed
<1>4. ASSUME NEW c \in Removal
      PROVE  Installed(c)' <=> \E i \in 1..n - 1 : removals[i + 1] = c
  <2>1. Installed(c)' <=> \E i \in 1..n - 1 : removals'[i] = c
    BY <1>1, <1>2 DEF Installed
  <2> QED
    BY <1>2, <2>1
<1>5. \A i \in 1..n - 1 : i + 1 \in 1..n /\ i + 1 # 1
  BY <1>2
<1>6. ASSUME NEW c \in Removal \ {call}
      PROVE  Installed(c)' <=> Installed(c)
  <2>1. ASSUME NEW i \in 1..n, removals[i] = c
        PROVE  \E j \in 1..n - 1 : removals[j + 1] = c
    <3>1. i - 1 \in 1..n - 1 /\ (i - 1) + 1 = i
      BY <1>2, <2>1
    <3> QED
      BY <2>1, <3>1
  <2> QED
    BY <1>3, <1>4, <1>5, <2>1
<1>7. /\ \A i \in 1..n : removals[i] = "syscall_hook" => i = n
      /\ \A i \in 1..n : i = n => removals[i] = "syscall_hook"
      /\ \A i \in 1..n : removals[i] = "syscall_dumper" => i = 1
  BY <1>2 DEF RemovalOrder, n
<1>8. ASSUME call \in {"syscall_hook", "syscall_dumper"}, Installed(call)'
      PROVE  FALSE
  <2>1. PICK i \in 1..n - 1 : removals[i + 1] = call
    BY <1>4, <1>8
  <2>2. 1 \in 1..n /\ i + 1 \in 1..n /\ i + 1 # 1
    BY <1>2, <1>5
  <2>3. call = "syscall_dumper" => i + 1 = 1
    BY <1>7, <2>1, <2>2
  <2>4. call = "syscall_hook" => 1 = n /\ i + 1 = n
    BY <1>2, <1>7, <2>1, <2>2
  <2> QED
    BY <1>8, <2>2, <2>3, <2>4
<1>9. ASSUME call # "syscall_dumper", Installed("syscall_dumper")
      PROVE  FALSE
  <2>1. PICK i \in 1..n : removals[i] = "syscall_dumper"
    BY <1>3, <1>9 DEF Removal
  <2>2. i = 1
    BY <1>7, <2>1
  <2> QED
    BY <1>2, <1>9, <2>1, <2>2
<1>10. RemovalOrder'
  BY <1>2, <1>5, <1>7 DEF RemovalOrder
<1>11. RegisteredIsInstalled'
  BY <1>1, <1>6 DEF RegisteredIsInstalled
<1>12. /\ StageRegisters' /\ FailedInitIsUndone'
       /\ LifeTypeOK' \/ kfifo' \notin BOOLEAN
  BY <1>1, <1>2 DEF StageRegisters, FailedInitIsUndone, LifeTypeOK
<1> QED
  BY <1>1, <1>2, <1>3, <1>6, <1>8, <1>9, <1>10, <1>11, <1>12

(* Each remove_ function waits for those who are in its code. *)
LEMMA RemovalKeepsLifeInv ==
  ASSUME LifeInv, RemovalReturns
  PROVE  LifeInv'
<1>0. /\ "syscall_hook" \in Removal /\ "copy_hook" \in Removal
      /\ "syscall_wrappers" \in Removal /\ "syscall_dumper" \in Removal
      /\ "recorded_processes_loader" \in Removal
      /\ NULL \notin Reader
  BY ConstantsAssumption DEF Removal
<1> USE <1>0 DEF LifeInv
<1>1. CASE RemoveSyscallDumper
  <2>1. Ends("syscall_dumper") /\ UNCHANGED <<vars, kfifo>>
    BY <1>1 DEF RemoveSyscallDumper
  <2>2. UsersAreWaitedFor'
    BY <1>1, <2>1, EndKeepsOrder DEF RemoveSyscallDumper, UsersAreWaitedFor,
       vars, hookVars, otherVars
  <2>3. DumpInv' /\ kfifo' \in BOOLEAN
    BY <2>1, VarsKeepDumpInv DEF LifeTypeOK
  <2>4. FifoComesWithTheHook' /\ NotYetUsed'
    BY <2>1, EndKeepsOrder DEF Ends, FifoComesWithTheHook, NotYetUsed,
       NothingRecorded, Busy, InitPC, vars, hookVars, recordVars, otherVars,
       fifoVars
  <2> QED
    BY <2>1, <2>2, <2>3, <2>4, EndKeepsOrder
<1>2. CASE RemoveRecordedProcessesLoader
  <2>1. Ends("recorded_processes_loader") /\ UNCHANGED <<vars, kfifo>>
    BY <1>2 DEF RemoveRecordedProcessesLoader
  <2>2. UsersAreWaitedFor'
    BY <2>1, EndKeepsOrder DEF UsersAreWaitedFor, vars, hookVars, otherVars
  <2>3. DumpInv' /\ kfifo' \in BOOLEAN
    BY <2>1, VarsKeepDumpInv DEF LifeTypeOK
  <2>4. FifoComesWithTheHook' /\ NotYetUsed'
    BY <2>1, EndKeepsOrder DEF Ends, FifoComesWithTheHook, NotYetUsed,
       NothingRecorded, Busy, InitPC, vars, hookVars, recordVars, otherVars,
       fifoVars
  <2> QED
    BY <2>1, <2>2, <2>3, <2>4, EndKeepsOrder
<1>3. CASE RemoveSyscallWrappers
  <2>1. /\ Ends("syscall_wrappers") /\ UNCHANGED kfifo
        /\ probes' = [t \in Task |-> probes[t] \ {"wrap"}]
        /\ UNCHANGED <<recordVars, tpc, mine, truth, otherVars>>
    BY <1>3 DEF RemoveSyscallWrappers
  <2>2. UsersAreWaitedFor'
    BY <2>1, EndKeepsOrder DEF UsersAreWaitedFor, otherVars
  <2>3. DumpInv' /\ kfifo' \in BOOLEAN
    BY <2>1 DEF LifeTypeOK, DumpInv, TypeOK, DumpState, recordVars, otherVars,
       dumpVars, fifoVars
  <2>4. FifoComesWithTheHook' /\ NotYetUsed'
    BY <2>1, EndKeepsOrder DEF Ends, FifoComesWithTheHook, NotYetUsed,
       NothingRecorded, Busy, InitPC, recordVars, otherVars, fifoVars
  <2> QED
    BY <2>1, <2>2, <2>3, <2>4, EndKeepsOrder
<1>4. CASE RemoveCopyHook
  <2>1. /\ Ends("copy_hook") /\ UNCHANGED kfifo
        /\ \A t \in Task : tpc[t] # "precopy"
        /\ tpc' = [t \in Task |-> IF tpc[t] = "copying" THEN "body"
                                 ELSE tpc[t]]
        /\ UNCHANGED <<recordVars, probes, mine, otherVars>>
    BY <1>4 DEF RemoveCopyHook
  <2>2. UsersAreWaitedFor'
    BY <2>1, EndKeepsOrder DEF UsersAreWaitedFor, otherVars, DumpInv, TypeOK
  <2>3. DumpInv' /\ kfifo' \in BOOLEAN
    <3>1. truth' \in [Record -> Seq(Task)]
      <4> DEFINE copying(r) == {t \in Task : tpc[t] = "copying" /\ mine[t] = r}
                 f(r) == IF copying(r) = {} THEN truth[r]
                         ELSE Append(truth[r], CHOOSE t \in copying(r) : TRUE)
      <4>1. truth' = [r \in Record |-> f(r)]
        BY <1>4 DEF RemoveCopyHook
      <4>2. ASSUME NEW r \in Record
            PROVE  f(r) \in Seq(Task)
        <5>1. truth[r] \in Seq(Task)
          BY DEF DumpInv, TypeOK
        <5>2. copying(r) # {}
                => (CHOOSE t \in copying(r) : TRUE) \in copying(r)
          OBVIOUS
        <5>3. \A t \in Task : Append(truth[r], t) \in Seq(Task)
          BY <5>1, AppendProperties
        <5> QED
          BY <5>1, <5>2, <5>3
      <4> HIDE DEF f
      <4> QED
        BY <4>1, <4>2
    <3> QED
      BY <2>1, <3>1 DEF LifeTypeOK, DumpInv, TypeOK, TaskPC, DumpState,
         recordVars, otherVars, dumpVars, fifoVars
  <2>4. FifoComesWithTheHook' /\ NotYetUsed'
    <3>1. "copy" \notin registered'
      BY <2>1, NamesOfCalls DEF Ends
    <3> QED
      BY <2>1, <3>1, EndKeepsOrder DEF Ends, FifoComesWithTheHook, NotYetUsed,
         InitPC, recordVars, otherVars, fifoVars
  <2> QED
    BY <2>1, <2>2, <2>3, <2>4, EndKeepsOrder
<1>5. CASE RemoveSyscallHook
  <2>1. /\ Ends("syscall_hook") /\ kfifo' = FALSE
        /\ \A t \in Task : tpc[t] \notin {"pre", "post", "unlocked"}
        /\ probes' = [t \in Task |-> probes[t] \ {"syscall"}]
        /\ mine' = [t \in Task |-> NULL]
        /\ recorded_syscalls' = <<>>
        /\ UNCHANGED <<recordVars, tpc, truth, dumpVars,
                       recorded_syscalls_mutex, recorded_syscalls_wait,
                       published, heap, rpc, oops>>
    BY <1>5 DEF RemoveSyscallHook
  <2>2. UsersAreWaitedFor'
    BY <2>1, EndKeepsOrder DEF UsersAreWaitedFor
  <2>3. DumpInv' /\ kfifo' \in BOOLEAN
    <3>1. \A d \in Reader : rpc[d] = "idle"
      BY <2>1, EndKeepsOrder DEF UsersAreWaitedFor
    <3>2. TypeOK'
      BY <2>1 DEF DumpInv, TypeOK, recordVars, dumpVars
    <3>3. DumpState'
      BY <2>1, <3>1 DEF DumpInv, DumpState, dumpVars
    <3> QED
      BY <2>1, <3>2, <3>3 DEF DumpInv
  <2>4. FifoComesWithTheHook' /\ NotYetUsed'
    BY <2>1, EndKeepsOrder DEF Ends, FifoComesWithTheHook, NotYetUsed,
       NothingRecorded, Busy, InitPC, recordVars
  <2> QED
    BY <2>1, <2>2, <2>3, <2>4, EndKeepsOrder
<1> QED
  BY <1>1, <1>2, <1>3, <1>4, <1>5 DEF RemovalReturns

(* What a hook that runs may change of what LifeInv is about. *)
TaskUses(t) ==
  /\ \A u \in Task \ {t} : tpc'[u] = tpc[u] /\ probes'[u] = probes[u]
  /\ tpc'[t] \in {"pre", "post", "unlocked"} \/ "syscall" \in probes'[t]
       => \/ tpc[t] \in {"user", "pre", "post", "unlocked"}
          \/ "syscall" \in probes[t]
  /\ tpc'[t] \in {"precopy", "copying"}
       => \/ tpc[t] \in {"precopy", "copying"}
          \/ /\ recorded_process_pid = t
             /\ tpc[t] = "body" /\ tpc'[t] = "precopy"
  /\ recorded_syscalls' = recorded_syscalls \/ tpc[t] = "post"
  /\ \A d \in Reader : rpc[d] = "idle" => rpc'[d] = "idle"
  /\ \/ UNCHANGED recorded_process_pid
     \/ tpc[t] = "body" /\ tpc'[t] = "ret"
  /\ /\ recorded_process_pid = NoPid
     /\ ~Busy(t) /\ tpc[t] \notin {"post", "unlocked"}
     => /\ ~Busy(t)' /\ tpc'[t] \notin {"post", "unlocked"}
        /\ UNCHANGED <<current_copy, recorded_syscalls>>

LEMMA TaskUse ==
  ASSUME NEW t \in Task, TaskStep(t),
         TypeOK
  PROVE  TaskUses(t)
<1> USE ConstantsAssumption
    DEF TaskUses, TypeOK, Busy, Goto, Oops, TaskPC, Probe, ReaderPC, hookVars,
        recordVars, otherVars, fifoVars
<1>1. ASSUME NEW nr \in {"execve", "exit", "other"}, PreSyscallSkips(t, nr)
      PROVE  TaskUses(t)
  BY <1>1 DEF PreSyscallSkips
<1>2. CASE PreSyscallAllocates(t)
  BY <1>2 DEF PreSyscallAllocates
<1>3. ASSUME NEW r \in Record, NewRecord(t, r)
      PROVE  TaskUses(t)
  BY <1>3 DEF NewRecord
<1>4. CASE NoRecord(t)
  BY <1>4 DEF NoRecord
<1>5. CASE PreCopyAllocates(t)
  BY <1>5 DEF PreCopyAllocates, CopyIsRecorded
<1>6. CASE PreCopySkips(t)
  BY <1>6 DEF PreCopySkips
<1>7. CASE NewCopy(t)
  BY <1>7 DEF NewCopy
<1>8. CASE NoCopy(t)
  BY <1>8 DEF NoCopy
<1>9. CASE PostCopy(t)
  BY <1>9 DEF PostCopy, DropCopy
<1>10. CASE PostCopyOops(t)
  BY <1>10 DEF PostCopyOops
<1>11. CASE PostCopyFailed(t)
  BY <1>11 DEF PostCopyFailed, DropCopy
<1>12. CASE PreWrap(t)
  BY <1>12 DEF PreWrap
<1>13. ASSUME NEW cs \in {<<>>, <<t>>}, PostWrap(t, cs)
      PROVE  TaskUses(t)
  BY <1>13 DEF PostWrap
<1>14. CASE PostWrapOops(t)
  BY <1>14 DEF PostWrapOops
<1>15. CASE ReturnUnrecorded(t)
  BY <1>15 DEF ReturnUnrecorded
<1>16. CASE PostSyscall(t)
  BY <1>16 DEF PostSyscall
<1>17. CASE PostSyscallOops(t)
  BY <1>17 DEF PostSyscallOops
<1>18. CASE PostSyscallUndefined(t)
  BY <1>18 DEF PostSyscallUndefined
<1>19. CASE PushRecord(t)
  <2>1. /\ tpc[t] = "post" /\ tpc'[t] = "unlocked"
        /\ \A u \in Task \ {t} : tpc'[u] = tpc[u]
        /\ UNCHANGED <<probes, recorded_process_pid>>
    BY <1>19 DEF PushRecord
  <2>2. \A d \in Reader : rpc[d] = "idle" => rpc'[d] = "idle"
    BY <1>19 DEF PushRecord
  <2> QED
    BY <2>1, <2>2
<1>20. CASE DropRecord(t)
  BY <1>20 DEF DropRecord
<1>21. CASE DropRecordOops(t)
  BY <1>21 DEF DropRecordOops
<1>22. CASE EndRecord(t)
  BY <1>22 DEF EndRecord
<1>23. CASE Killed(t)
  BY <1>23 DEF Killed
<1>24. ASSUME NEW pid \in Task \cup {NoPid}, WriteProc(t, pid)
      PROVE  TaskUses(t)
  BY <1>24 DEF WriteProc
<1> HIDE DEF TaskUses, TypeOK
<1> QED
  BY <1>1, <1>2, <1>3, <1>4, <1>5, <1>6, <1>7, <1>8, <1>9, <1>10, <1>11,
     <1>12, <1>13, <1>14, <1>15, <1>16, <1>17, <1>18, <1>19, <1>20, <1>21,
     <1>22, <1>23, <1>24
  DEF TaskStep

(* What is registered is in use only with its init_ function's work done. *)
LEMMA RegisteredWorks ==
  ASSUME LifeInv
  PROVE  /\ "syscall" \in registered => Installed("syscall_hook")
         /\ "wrap" \in registered => Installed("syscall_wrappers")
         /\ "syscall_dumper" \in registered => Installed("syscall_dumper")
         /\ "copy" \in registered => \/ Installed("copy_hook")
                                    \/ NothingRecorded
         /\ "recorded_process" \in registered
              => /\ mpc \notin InitPC
                 /\ "copy" \in registered => \/ mpc # "removing"
                                            \/ Installed("copy_hook")
<1>1. \A name \in registered \ {"copy"} :
        \E call \in Removal : Installed(call) /\ name \in NamesOf(call)
  BY DEF LifeInv, RegisteredIsInstalled
<1>2. "copy" \in registered => Installed("copy_hook") \/ NothingRecorded
  <2>1. CASE mpc = "removing"
    BY <2>1 DEF LifeInv, NotYetUsed
  <2>2. CASE mpc # "removing"
    BY <2>2, NamesOfCalls DEF LifeInv, StageRegisters, Installed, LifeTypeOK,
       Names
  <2> QED
    BY <2>1, <2>2
<1>3. "recorded_process" \in registered
        => /\ mpc \notin InitPC
           /\ "copy" \in registered => \/ mpc # "removing"
                                      \/ Installed("copy_hook")
  BY DEF LifeInv, StageRegisters, NotYetUsed, InitPC, Names
<1>4. \A call \in Removal :
        /\ "syscall" \in NamesOf(call) => call = "syscall_hook"
        /\ "wrap" \in NamesOf(call) => call = "syscall_wrappers"
        /\ "syscall_dumper" \in NamesOf(call) => call = "syscall_dumper"
  BY NamesOfCalls DEF Removal
<1> QED
  BY <1>1, <1>2, <1>3, <1>4

(* The parts of LifeInv that a step of a process cannot disturb. *)
LEMMA ProcessFrame ==
  ASSUME LifeInv, UNCHANGED lifeVars
  PROVE  /\ LifeTypeOK' /\ StageRegisters' /\ RemovalOrder'
         /\ RegisteredIsInstalled' /\ FailedInitIsUndone'
         /\ \A call \in Removal : Installed(call)' <=> Installed(call)
<1>1. UNCHANGED <<mpc, removals, registered, stale, kfifo, loads>>
  BY DEF lifeVars
<1>2. \A call \in Removal : Installed(call)' <=> Installed(call)
  BY <1>1 DEF Installed
<1> QED
  BY <1>1, <1>2 DEF LifeInv, LifeTypeOK, StageRegisters, RemovalOrder,
     RegisteredIsInstalled, FailedInitIsUndone

LEMMA TaskRunsKeepsLifeInv ==
  ASSUME LifeInv, NEW t \in Task, TaskRuns(t)
  PROVE  LifeInv'
<1>0. /\ "syscall_hook" \in Removal /\ "copy_hook" \in Removal
      /\ "syscall_wrappers" \in Removal /\ "syscall_dumper" \in Removal
  BY DEF Removal
<1>1. /\ TaskStep(t)
      /\ tpc[t] = "user" => "syscall" \in registered
      /\ tpc[t] = "body" /\ tpc'[t] = "precopy" => "copy" \in registered
      /\ "wrap" \in probes'[t] \ probes[t] => "wrap" \in registered
      /\ tpc[t] = "body" /\ tpc'[t] = "ret"
           => "recorded_process" \in registered
      /\ UNCHANGED <<mpc, removals, registered, stale, kfifo, loads>>
  BY DEF TaskRuns, lifeVars
<1>2. TaskUses(t)
  BY <1>1, TaskUse DEF LifeInv, DumpInv
<1>3. DumpInv'
  BY <1>1, TaskKeepsDumpInv DEF LifeInv
<1>4. \A call \in Removal : Installed(call)' <=> Installed(call)
  BY ProcessFrame DEF TaskRuns
<1>5. recorded_process_pid = t => ~NothingRecorded
  BY ConstantsAssumption DEF NothingRecorded
<1>6. UsersAreWaitedFor'
  <2>1. ASSUME NEW u \in Task \ {t}
        PROVE  /\ tpc'[u] = tpc[u] /\ probes'[u] = probes[u]
    BY <1>2 DEF TaskUses
  <2>2. tpc'[t] \in {"pre", "post", "unlocked"} \/ "syscall" \in probes'[t]
          => Installed("syscall_hook")
    BY <1>1, <1>2, RegisteredWorks DEF TaskUses, LifeInv, UsersAreWaitedFor
  <2>3. "wrap" \in probes'[t] => Installed("syscall_wrappers")
    BY <1>1, RegisteredWorks DEF LifeInv, UsersAreWaitedFor
  <2>4. tpc'[t] \in {"precopy", "copying"} => Installed("copy_hook")
    BY <1>1, <1>2, <1>5, RegisteredWorks
       DEF TaskUses, LifeInv, UsersAreWaitedFor
  <2>5. \A d \in Reader : rpc'[d] # "idle" => Installed("syscall_dumper")
    BY <1>2 DEF TaskUses, LifeInv, UsersAreWaitedFor
  <2> QED
    BY <1>0, <1>4, <2>1, <2>2, <2>3, <2>4, <2>5
       DEF LifeInv, UsersAreWaitedFor
<1>7. FifoComesWithTheHook'
  <2>1. tpc[t] = "post" => Installed("syscall_hook")
    BY DEF LifeInv, UsersAreWaitedFor
  <2> QED
    BY <1>0, <1>1, <1>2, <1>4, <2>1 DEF TaskUses, LifeInv, FifoComesWithTheHook
<1>8. NotYetUsed'
  <2>1. ASSUME NothingRecorded, "recorded_process" \notin registered
        PROVE  NothingRecorded'
    <3>1. recorded_process_pid' = NoPid
      BY <1>1, <1>2, <2>1 DEF TaskUses, NothingRecorded
    <3>2. /\ ~Busy(t)' /\ tpc'[t] \notin {"post", "unlocked"}
          /\ UNCHANGED <<current_copy, recorded_syscalls>>
      BY <1>2, <2>1 DEF TaskUses, NothingRecorded
    <3>3. \A u \in Task \ {t} :
            ~Busy(u)' /\ tpc'[u] \notin {"post", "unlocked"}
      BY <1>2, <2>1 DEF TaskUses, NothingRecorded, Busy
    <3> QED
      BY <2>1, <3>1, <3>2, <3>3 DEF NothingRecorded
  <2>2. mpc \in InitPC => "recorded_process" \notin registered
    BY RegisteredWorks
  <2> QED
    BY <1>0, <1>1, <1>4, <2>1, <2>2 DEF LifeInv, NotYetUsed
<1> QED
  BY <1>3, <1>6, <1>7, <1>8, ProcessFrame DEF LifeInv, TaskRuns

(* insmod: nobody is in a module that is not loaded. *)
LEMMA InsmodKeepsLifeInv ==
  ASSUME LifeInv, Insmod
  PROVE  LifeInv' /\ NothingRecorded'
<1> USE ConstantsAssumption, LoadsAssumption DEF LifeInv, Insmod
<1>1. mpc = "unloaded" /\ registered = {} /\ removals = <<>>
  BY DEF StageRegisters, LifeTypeOK
<1>2. \A call \in Removal : ~Installed(call) /\ ~Installed(call)'
  BY <1>1, NamesOfCalls DEF Installed, Removal
<1>3. /\ \A t \in Task : /\ tpc[t] \notin {"pre", "post", "unlocked",
                                          "precopy", "copying"}
                        /\ "syscall" \notin probes[t]
                        /\ "wrap" \notin probes[t]
      /\ \A d \in Reader : rpc[d] = "idle"
  BY <1>2 DEF UsersAreWaitedFor, Removal
<1>4. ASSUME NEW t \in Task
      PROVE  probes[t] = {}
  <2>1. probes[t] \subseteq {"syscall", "wrap"}
    BY DEF DumpInv, TypeOK, Probe
  <2>2. "syscall" \notin probes[t] /\ "wrap" \notin probes[t]
    BY <1>3
  <2> HIDE DEF LifeInv, Insmod
  <2> QED
    BY <2>1, <2>2
<1>5. UsersAreWaitedFor'
  <2>1. UNCHANGED <<tpc, probes, rpc>>
    OBVIOUS
  <2> HIDE DEF LifeInv, Insmod
  <2> QED
    BY <1>3, <2>1 DEF UsersAreWaitedFor
<1>6. NothingRecorded'
  BY <1>3, <1>4 DEF NothingRecorded, Busy
<1>7. TypeOK'
  <2>1. <<>> \in Seq(Record \cup {NULL})
    BY EmptySeq
  <2> QED
    BY <2>1 DEF DumpInv, TypeOK, dumpVars
<1>8. DumpState'
  <2>1. held = NULL /\ written = <<>>
    BY <1>3 DEF DumpInv, DumpState, TypeOK
  <2> QED
    BY <1>3, <2>1 DEF DumpInv, DumpState, dumpVars
<1>9. LifeTypeOK'
  <2>1. /\ mpc' = "init_syscall_hook" /\ kfifo' = FALSE
        /\ loads' = loads + 1 /\ loads < MaxLoads /\ loads \in 0..MaxLoads
        /\ removals' = removals /\ registered' = {} /\ stale' = stale
    BY <1>1 DEF LifeTypeOK
  <2>2. loads' \in 0..MaxLoads
    BY <2>1
  <2> QED
    BY <1>1, <2>1, <2>2 DEF LifeTypeOK
<1>10. /\ StageRegisters' /\ RemovalOrder' /\ RegisteredIsInstalled'
       /\ FifoComesWithTheHook' /\ FailedInitIsUndone'
  BY <1>1, <1>2 DEF StageRegisters, RemovalOrder, RegisteredIsInstalled,
     FifoComesWithTheHook, Removal, FailedInitIsUndone
<1> QED
  BY <1>5, <1>6, <1>7, <1>8, <1>9, <1>10 DEF NotYetUsed, DumpInv

(* Unload: when recorder_exit is over only those copy probes are left. *)
LEMMA UnloadKeepsLifeInv ==
  ASSUME LifeInv, Unload
  PROVE  LifeInv'
<1> USE DEF LifeInv, Unload
<1>1. \A call \in Removal : ~Installed(call) /\ ~Installed(call)'
  BY NamesOfCalls DEF Installed, Removal
<1>2. registered \subseteq {"copy"}
  BY <1>1 DEF RegisteredIsInstalled
<1>3. FailedInitIsUndone'
  BY <1>2 DEF FailedInitIsUndone
<1>4. LifeTypeOK'
  BY DEF LifeTypeOK
<1>5. DumpInv' /\ UsersAreWaitedFor'
  BY <1>1, InstallKeepsUsers, VarsKeepDumpInv
<1>6. FifoComesWithTheHook'
  BY <1>1 DEF FifoComesWithTheHook, Removal, vars, otherVars, fifoVars
<1> QED
  BY <1>1, <1>3, <1>4, <1>5, <1>6 DEF StageRegisters, RemovalOrder,
     RegisteredIsInstalled, NotYetUsed, InitPC

LEMMA ModuleKeepsLifeInv ==
  ASSUME LifeInv, ModuleStep
  PROVE  LifeInv'
<1>1. CASE InitSyscallHookFails \/ InitCopyHookFails
           \/ InitSyscallWrappersFails \/ InitSyscallDumperFails
           \/ InitRecordedProcessesLoaderFails
  BY <1>1, FailureKeepsLifeInv
<1> QED
  BY <1>1, InsmodKeepsLifeInv, SuccessKeepsLifeInv, RmmodKeepsLifeInv,
     UnregisterKeepsLifeInv, RemovalKeepsLifeInv, UnloadKeepsLifeInv
     DEF ModuleStep

----------------------------------------------------------------------------
(* The pid file, its readers, and what runs without the module's hooks. *)
LEMMA PidWrittenKeepsLifeInv ==
  ASSUME LifeInv, NEW pid \in Task \cup {NoPid}, PidWritten(pid)
  PROVE  LifeInv'
<1>0. "syscall_hook" \in Removal /\ "copy_hook" \in Removal
  BY DEF Removal
<1>1. /\ "recorded_process" \in registered
      /\ StartRecording(pid) /\ UNCHANGED lifeVars
  BY DEF PidWritten
<1>2. /\ UNCHANGED <<tpc, probes, rpc, recorded_syscalls>>
      /\ UNCHANGED <<mpc, registered, kfifo>>
  BY <1>1 DEF StartRecording, otherVars, fifoVars, lifeVars
<1>3. DumpInv'
  BY <1>1, DumpInvStep DEF LifeInv, Next
<1>4. \A call \in Removal : Installed(call)' <=> Installed(call)
  BY <1>1, ProcessFrame
<1>5. UsersAreWaitedFor' /\ FifoComesWithTheHook'
  BY <1>0, <1>2, <1>4 DEF LifeInv, UsersAreWaitedFor, FifoComesWithTheHook,
     Removal
<1>6. NotYetUsed'
  BY <1>0, <1>1, <1>2, <1>4, RegisteredWorks DEF NotYetUsed
<1> QED
  BY <1>1, <1>3, <1>5, <1>6, ProcessFrame DEF LifeInv

(* A reader does not move the others, and finds nothing in an empty fifo. *)
LEMMA ReaderMoves ==
  ASSUME NEW d \in Reader, ReaderStep(d),
         DumpInv
  PROVE  /\ \A e \in Reader \ {d} : rpc'[e] = rpc[e]
         /\ recorded_syscalls = <<>> => recorded_syscalls' = <<>>
  BY DEF ReaderStep, ReadProc, ReadFindsRecords, ReadReturnsEmpty,
     ReadMustWait, PrepareToWait, Interrupted, TakeOops, Oops, TakeRecord,
     TakesRecord, ShortFirstRecord, ShortLaterRecord, WriteRecord,
     WriteLastRecord, WriteFails, EndRead, ReaderAt, fifoVars, DumpInv,
     TypeOK

LEMMA ReaderRunsKeepsLifeInv ==
  ASSUME LifeInv, NEW d \in Reader, ReaderRuns(d)
  PROVE  LifeInv'
<1>0. "syscall_hook" \in Removal /\ "copy_hook" \in Removal
      /\ "syscall_dumper" \in Removal /\ "syscall_wrappers" \in Removal
  BY DEF Removal
<1>1. /\ ReaderStep(d) /\ UNCHANGED lifeVars
      /\ rpc[d] = "idle" => "syscall_dumper" \in registered
  BY DEF ReaderRuns
<1>2. /\ UNCHANGED <<recorded_process_pid, current_copy, tpc, probes>>
      /\ UNCHANGED <<mpc, registered, kfifo>>
  BY <1>1, ReaderFrame DEF hookVars, recordVars, lifeVars
<1>3. DumpInv'
  BY <1>1, DumpInvStep DEF LifeInv, Next
<1>4. \A call \in Removal : Installed(call)' <=> Installed(call)
  BY <1>1, ProcessFrame
<1>5. /\ \A e \in Reader \ {d} : rpc'[e] = rpc[e]
      /\ recorded_syscalls = <<>> => recorded_syscalls' = <<>>
  BY <1>1, ReaderMoves DEF LifeInv
<1>6. Installed("syscall_dumper")
  BY <1>1, RegisteredWorks DEF LifeInv, UsersAreWaitedFor
<1>7. UsersAreWaitedFor'
  BY <1>0, <1>2, <1>4, <1>5, <1>6 DEF LifeInv, UsersAreWaitedFor
<1>8. FifoComesWithTheHook'
  BY <1>0, <1>2, <1>4, <1>5 DEF LifeInv, FifoComesWithTheHook
<1>9. NotYetUsed'
  BY <1>0, <1>2, <1>4, <1>5 DEF LifeInv, NotYetUsed, NothingRecorded, Busy
<1> QED
  BY <1>1, <1>3, <1>7, <1>8, <1>9, ProcessFrame DEF LifeInv

LEMMA UnhookedKeepsLifeInv ==
  ASSUME LifeInv, NEW t \in Task, UnhookedSyscall(t) \/ UnhookedCopy(t)
  PROVE  LifeInv'
<1>1. /\ UNCHANGED <<recordVars, probes, mine, otherVars, lifeVars>>
      /\ \/ tpc' = [tpc EXCEPT ![t] = "body"] /\ UNCHANGED truth
         \/ UNCHANGED tpc /\ Copied(t, <<t>>)
  BY DEF UnhookedSyscall, UnhookedCopy, Goto
<1>2. TypeOK'
  <2>1. TypeOK
    BY DEF LifeInv, DumpInv
  <2>2. truth' \in [Record -> Seq(Task)]
    <3>1. <<t>> \in Seq(Task)
      BY CopySeq
    <3> QED
      BY <1>1, <2>1, <3>1, CopiedType DEF TypeOK
  <2>3. tpc' \in [Task -> TaskPC]
    BY <1>1, <2>1 DEF TypeOK, TaskPC
  <2> QED
    BY <1>1, <2>1, <2>2, <2>3 DEF TypeOK, recordVars, otherVars, dumpVars,
       fifoVars
<1>3. DumpState'
  BY <1>1 DEF LifeInv, DumpInv, DumpState, otherVars, dumpVars, fifoVars
<1>4. \A u \in Task : tpc'[u] = tpc[u] \/ tpc'[u] = "body"
  BY <1>1 DEF LifeInv, DumpInv, TypeOK
<1>5. /\ UNCHANGED <<recorded_process_pid, current_copy, probes, rpc>>
      /\ UNCHANGED <<recorded_syscalls, mpc, registered, kfifo>>
  BY <1>1 DEF recordVars, otherVars, fifoVars, lifeVars
<1>6. \A call \in Removal : Installed(call)' <=> Installed(call)
  BY <1>1, ProcessFrame
<1>7. UsersAreWaitedFor'
  BY <1>4, <1>5, <1>6 DEF LifeInv, UsersAreWaitedFor, Removal
<1>8. FifoComesWithTheHook' /\ NotYetUsed'
  BY <1>4, <1>5, <1>6 DEF LifeInv, FifoComesWithTheHook, NotYetUsed,
     NothingRecorded, Busy, Removal
<1> QED
  BY <1>1, <1>2, <1>3, <1>7, <1>8, ProcessFrame DEF LifeInv, DumpInv

LEMMA OopsKeepsLifeInv ==
  ASSUME LifeInv, Oops, UNCHANGED lifeVars
  PROVE  LifeInv'
<1>1. DumpInv'
  BY DEF LifeInv, DumpInv, TypeOK, DumpState, Oops, hookVars, recordVars,
     dumpVars, fifoVars
<1>2. /\ UNCHANGED <<recorded_process_pid, current_copy, tpc, probes, rpc>>
      /\ UNCHANGED <<recorded_syscalls, mpc, registered, kfifo>>
  BY DEF Oops, hookVars, recordVars, fifoVars, lifeVars
<1>3. \A call \in Removal : Installed(call)' <=> Installed(call)
  BY ProcessFrame
<1>4. UsersAreWaitedFor'
  BY <1>2, <1>3 DEF LifeInv, UsersAreWaitedFor, Removal
<1>5. FifoComesWithTheHook' /\ NotYetUsed'
  BY <1>2, <1>3 DEF LifeInv, FifoComesWithTheHook, NotYetUsed,
     NothingRecorded, Busy, Removal
<1> QED
  BY <1>1, <1>4, <1>5, ProcessFrame DEF LifeInv

LEMMA LifeInvStep ==
  ASSUME LifeInv, [LifeNext]_<<vars, lifeVars>>
  PROVE  LifeInv'
<1>1. CASE ModuleStep
  BY <1>1, ModuleKeepsLifeInv
<1>2. ASSUME NEW t \in Task,
             TaskRuns(t) \/ UnhookedSyscall(t) \/ UnhookedCopy(t)
             \/ StaleCopyHook(t)
      PROVE  LifeInv'
  <2>1. CASE TaskRuns(t)
    BY <2>1, TaskRunsKeepsLifeInv
  <2>2. CASE UnhookedSyscall(t) \/ UnhookedCopy(t)
    BY <2>2, UnhookedKeepsLifeInv
  <2>3. CASE StaleCopyHook(t)
    BY <2>3, OopsKeepsLifeInv DEF StaleCopyHook
  <2> QED
    BY <1>2, <2>1, <2>2, <2>3
<1>3. CASE \E pid \in Task \cup {NoPid} : PidWritten(pid)
  BY <1>3, PidWrittenKeepsLifeInv
<1>4. CASE \E d \in Reader : ReaderRuns(d)
  BY <1>4, ReaderRunsKeepsLifeInv
<1>5. CASE UNCHANGED <<vars, lifeVars>>
  <2>1. DumpInv'
    BY <1>5, VarsKeepDumpInv DEF LifeInv
  <2>2. \A call \in Removal : Installed(call)' <=> Installed(call)
    BY <1>5, ProcessFrame
  <2>3. UsersAreWaitedFor'
    BY <1>5, <2>2, InstallKeepsUsers DEF LifeInv
  <2>4. FifoComesWithTheHook' /\ NotYetUsed'
    BY <1>5, <2>2 DEF LifeInv, FifoComesWithTheHook, NotYetUsed,
       NothingRecorded, Busy, Removal, vars, hookVars, recordVars, otherVars,
       fifoVars, lifeVars
  <2> QED
    BY <1>5, <2>1, <2>3, <2>4, ProcessFrame DEF LifeInv
<1> QED
  BY <1>1, <1>2, <1>3, <1>4, <1>5 DEF LifeNext, ProcessStep

LEMMA InitLifeInv == LifeInit => LifeInv
<1> SUFFICES ASSUME LifeInit PROVE LifeInv
  OBVIOUS
<1> USE ConstantsAssumption, LoadsAssumption DEF LifeInit
<1>1. DumpInv
  BY InitIInv DEF IInv, SafeInv
<1>2. LifeTypeOK
  <2>1. removals \in Seq(Removal)
    BY EmptySeq
  <2>2. loads \in 0..MaxLoads
    OBVIOUS
  <2> QED
    BY <2>1, <2>2 DEF LifeTypeOK
<1>3. UsersAreWaitedFor
  <2>1. /\ \A t \in Task : tpc[t] = "user" /\ probes[t] = {}
        /\ \A d \in Reader : rpc[d] = "idle"
    BY DEF Init
  <2> QED
    BY <2>1 DEF UsersAreWaitedFor
<1>4. FifoComesWithTheHook
  BY DEF FifoComesWithTheHook, Installed, Init, NamesOf
<1> QED
  BY <1>1, <1>2, <1>3, <1>4 DEF LifeInv, StageRegisters, RemovalOrder,
     RegisteredIsInstalled, NotYetUsed, InitPC, FailedInitIsUndone

----------------------------------------------------------------------------
(***************************************************************************)
(* Whatever is written to the pid file, whichever init_ function fails and *)
(* whenever the module is removed: who is in a handler or in a read is     *)
(* waited for by a remove_ function that has yet to return.                *)
(***************************************************************************)
THEOREM LifeInvAlways == LifeSpec => []LifeInv
<1>1. LifeInit => LifeInv
  BY InitLifeInv
<1>2. LifeInv /\ [LifeNext]_<<vars, lifeVars>> => LifeInv'
  BY LifeInvStep
<1> QED
  BY <1>1, <1>2, PTL DEF LifeSpec

(* Every variable of the life cycle has its type. *)
THEOREM LifeTypeOKAlways == LifeSpec => []LifeTypeOK
<1>1. LifeInv => LifeTypeOK
  BY DEF LifeInv
<1> QED
  BY <1>1, LifeInvAlways, PTL

(* So no post_syscall and no read_proc finds the fifo's buffer freed. *)
THEOREM UsersFindTheFifoAlways == LifeSpec => []UsersFindTheFifo
<1>1. ASSUME LifeInv
      PROVE  UsersFindTheFifo
  <2> USE <1>1 DEF LifeInv
  <2>1. Installed("syscall_hook") => kfifo /\ mpc # "unloaded"
    BY NamesOfCalls DEF FifoComesWithTheHook, Installed, StageRegisters
  <2>2. ASSUME Installed("syscall_dumper")
        PROVE  Installed("syscall_hook")
    <3>1. CASE mpc = "removing"
      <4>1. PICK i \in DOMAIN removals : removals[i] = "syscall_dumper"
        BY <2>2, <3>1 DEF Installed
      <4>2. /\ DOMAIN removals = 1..Len(removals) /\ Len(removals) \in Nat
            /\ Len(removals) \in DOMAIN removals
        BY <4>1, LenProperties DEF LifeTypeOK
      <4> QED
        BY <3>1, <4>2 DEF RemovalOrder, Installed
    <3>2. CASE mpc # "removing"
      BY <2>2, <3>2, NamesOfCalls DEF Installed, StageRegisters, LifeTypeOK,
         Names
    <3> QED
      BY <3>1, <3>2
  <2> QED
    BY <2>1, <2>2 DEF UsersFindTheFifo, UsersAreWaitedFor
<1> QED
  BY <1>1, LifeInvAlways, PTL

(* And what a failed insmod leaves registered is the copy probes at most. *)
THEOREM FailedInitIsUndoneAlways == LifeSpec => []FailedInitIsUndone
<1>1. LifeInv => FailedInitIsUndone
  BY DEF LifeInv
<1> QED
  BY <1>1, LifeInvAlways, PTL

----------------------------------------------------------------------------
(***************************************************************************)
(* The rest is under Exclusive.  What a step must keep of OwnInv when it   *)
(* lets the dump file be: no record that was delivered is added to.        *)
(***************************************************************************)
LEMMA DeliveredStays ==
  ASSUME OwnInv, FinishedStays, published \subseteq published',
         UNCHANGED <<written, stream>>
  PROVE  DeliveredIsTrue'
<1>1. Delivered' = Delivered
  BY DEF Delivered
<1>2. NULL \notin Delivered
  BY ConstantsAssumption
     DEF OwnInv, DeliveredIsTrue, SafeInv, FifoIsOwned
<1> QED
  BY <1>1, <1>2 DEF OwnInv, DeliveredIsTrue, FinishedStays

(* A step of the module that none of the processes can see. *)
LEMMA UnseenKeepsOwnInv ==
  ASSUME OwnInv, UNCHANGED vars, stale \subseteq stale', DumpableIsTrue'
  PROVE  OwnInv'
<1>1. UNCHANGED <<hookVars, otherVars>>
  BY DEF vars
<1> USE <1>1 DEF hookVars, recordVars, otherVars, fifoVars, dumpVars
<1>2. SafeInv'
  <2> USE DEF OwnInv, SafeInv
  <2>1. DumpInv'
    BY VarsKeepDumpInv
  <2>2. ControlInv' /\ CurrentIsOwned'
    BY DEF ControlInv, OneTaskAtWork, ProbesMatchControl, CopyIsOwned, Busy,
       CurrentIsOwned, Recording, Live
  <2>3. FifoIsOwned' /\ BufferNeverOverrun'
    BY DEF FifoIsOwned, InFifo, Live, BufferNeverOverrun, RecordLen
  <2> QED
    BY <2>1, <2>2, <2>3
<1>3. DeliveredIsTrue'
  BY DeliveredStays DEF FinishedStays
<1> QED
  BY <1>2, <1>3 DEF OwnInv, MineIsRecorded, OopsOnlyByStaleHook, Recording

(* Without a reader the mutex is free, and nothing is in hand. *)
LEMMA NothingIsHeld ==
  ASSUME LifeInv, ~Installed("syscall_dumper")
  PROVE  held = NULL
<1>1. \A d \in Reader : rpc[d] = "idle"
  BY DEF LifeInv, UsersAreWaitedFor
<1>2. recorded_syscalls_mutex = NULL
  BY <1>1 DEF LifeInv, DumpInv, DumpState, TypeOK
<1> QED
  BY <1>2 DEF LifeInv, DumpInv, DumpState

(* The dump file comes after the copy hooks, and to an empty fifo. *)
LEMMA InitKeepsDumpable ==
  ASSUME LifeInv, OwnInv, mpc \in InitPC, UNCHANGED vars,
         registered \subseteq registered',
         Installed("syscall_dumper")'
            => Installed("syscall_dumper") \/ mpc = "init_syscall_dumper"
  PROVE  DumpableIsTrue'
<1> SUFFICES ASSUME Installed("syscall_dumper")'
             PROVE  /\ "copy" \in registered'
                    /\ CallIsTrue'
                    /\ \A r \in (InFifo \cup ({held} \ {NULL}))' :
                         copies_to_user'[r] = truth'[r]
  BY DEF DumpableIsTrue
<1>1. UNCHANGED <<hookVars, otherVars>>
  BY DEF vars
<1>2. /\ CallIsTrue' <=> CallIsTrue
      /\ UNCHANGED <<InFifo, held, copies_to_user, truth>>
  BY <1>1 DEF CallIsTrue, CopyIsFree, RecordingIsTrue, Recording, InFifo,
     hookVars, recordVars, otherVars, fifoVars, dumpVars
<1>3. CASE Installed("syscall_dumper")
  BY <1>2, <1>3 DEF OwnInv, DumpableIsTrue
<1>4. CASE ~Installed("syscall_dumper")
  <2>1. "copy" \in registered
    BY <1>4 DEF LifeInv, StageRegisters
  <2>2. NothingRecorded /\ held = NULL
    BY <1>4, NothingIsHeld DEF LifeInv, NotYetUsed
  <2>3. CallIsTrue /\ InFifo = {}
    BY <2>2 DEF NothingRecorded, CallIsTrue, CopyIsFree, RecordingIsTrue,
       Recording, Busy, InFifo
  <2> QED
    BY <1>2, <2>1, <2>2, <2>3
<1> QED
  BY <1>3, <1>4

LEMMA SuccessKeepsOwnInv ==
  ASSUME LifeInv, OwnInv,
         \/ InitSyscallHook \/ InitCopyHook \/ InitSyscallWrappers
         \/ InitSyscallDumper \/ InitRecordedProcessesLoader
  PROVE  OwnInv'
<1>1. \E call \in InitPC, next \in InitPC \cup {"loaded"},
         names \in SUBSET Names :
        /\ Succeeds(call, next, names)
        /\ "syscall_dumper" \in names => call = "init_syscall_dumper"
  BY DEF InitSyscallHook, InitCopyHook, InitSyscallWrappers,
     InitSyscallDumper, InitRecordedProcessesLoader, InitPC, Names
<1>2. /\ UNCHANGED <<vars, stale>>
      /\ mpc \in InitPC /\ mpc' \in InitPC \cup {"loaded"}
      /\ registered \subseteq registered'
      /\ "syscall_dumper" \in registered'
           => "syscall_dumper" \in registered \/ mpc = "init_syscall_dumper"
  BY <1>1 DEF Succeeds
<1>3. Installed("syscall_dumper")'
        => Installed("syscall_dumper") \/ mpc = "init_syscall_dumper"
  BY <1>2, NamesOfCalls DEF Installed, InitPC
<1> QED
  BY <1>2, <1>3, InitKeepsDumpable, UnseenKeepsOwnInv

LEMMA FailureKeepsOwnInv ==
  ASSUME LifeInv, OwnInv,
         \/ InitSyscallHookFails \/ InitCopyHookFails
         \/ InitSyscallWrappersFails \/ InitSyscallDumperFails
         \/ InitRecordedProcessesLoaderFails
  PROVE  OwnInv'
<1>1. \E call \in InitPC, names \in SUBSET Names, label \in 1..5 :
        /\ Fails(call, names, label)
        /\ label = 1 => call = "init_recorded_processes_loader"
  BY DEF InitSyscallHookFails, InitCopyHookFails, InitSyscallWrappersFails,
     InitSyscallDumperFails, InitRecordedProcessesLoaderFails, InitPC, Names
<1>2. PICK label \in 1..5 :
        /\ UNCHANGED <<vars, stale>>
        /\ mpc \in InitPC /\ mpc' = "removing"
        /\ registered \subseteq registered'
        /\ removals' = SubSeq(Cleanup, label, 4)
        /\ label = 1 => mpc = "init_recorded_processes_loader"
  BY <1>1 DEF Fails
<1>3. Installed("syscall_dumper")' => Installed("syscall_dumper")
  <2>1. SUFFICES ASSUME Installed("syscall_dumper")'
                 PROVE  Installed("syscall_dumper")
    OBVIOUS
  <2>2. PICK i \in 1..5 - label : Cleanup[label + i - 1] = "syscall_dumper"
    BY <1>2, <2>1, CleanupFrom DEF Installed
  <2>3. label + i - 1 \in 1..4
    BY <2>2
  <2>4. \A j \in 1..4 : Cleanup[j] = "syscall_dumper" => j = 1
    BY DEF Cleanup
  <2>5. label = 1
    BY <2>2, <2>3, <2>4
  <2> QED
    BY <1>2, <2>5, NamesOfCalls DEF LifeInv, StageRegisters, Installed, Names
<1> QED
  BY <1>2, <1>3, InitKeepsDumpable, UnseenKeepsOwnInv

LEMMA RemovesKeepsOwnInv ==
  ASSUME LifeInv, OwnInv, Rmmod \/ Unregister \/ Unload
  PROVE  OwnInv'
<1>1. UNCHANGED vars /\ stale \subseteq stale'
  BY DEF Rmmod, Unregister, Unload
<1>2. /\ CallIsTrue' <=> CallIsTrue
      /\ UNCHANGED <<InFifo, held, copies_to_user, truth>>
  BY <1>1 DEF CallIsTrue, CopyIsFree, RecordingIsTrue, Recording, InFifo,
     vars, hookVars, recordVars, otherVars, fifoVars, dumpVars
<1>3. Installed("syscall_dumper")'
        => /\ Installed("syscall_dumper")
           /\ "copy" \in registered => "copy" \in registered'
  <2>1. CASE Rmmod
    BY <2>1, NamesOfCalls DEF Rmmod, Installed, LifeInv, LifeTypeOK, Names
  <2>2. CASE Unregister
    <3>1. PICK call \in Removal :
            /\ removals # <<>> /\ Head(removals) = call
            /\ registered' = registered \ NamesOf(call)
      BY <2>2 DEF Unregister, Removing
    <3>2. /\ UNCHANGED <<mpc, removals>>
          /\ mpc = "removing" /\ removals[1] = call
      BY <2>2, <3>1, TailElements DEF Unregister, LifeInv, LifeTypeOK
    <3>3. Installed("syscall_dumper") => call = "syscall_dumper"
      BY <3>2 DEF Installed, LifeInv, RemovalOrder
    <3> QED
      BY <3>1, <3>2, <3>3, NamesOfCalls DEF Installed
  <2>3. CASE Unload
    BY <2>3, NamesOfCalls DEF Unload, Installed
  <2> QED
    BY <2>1, <2>2, <2>3
<1>4. DumpableIsTrue'
  BY <1>2, <1>3 DEF OwnInv, DumpableIsTrue
<1> QED
  BY <1>1, <1>4, UnseenKeepsOwnInv

LEMMA InsmodKeepsOwnInv ==
  ASSUME LifeInv, OwnInv, Insmod
  PROVE  OwnInv'
<1>1. LifeInv' /\ NothingRecorded'
  BY InsmodKeepsLifeInv
<1>2. /\ UNCHANGED <<copies_to_user, tpc, probes, mine, truth, dumpVars,
                     published, heap, rpc, oops, stale>>
      /\ current_syscall_record' = NULL /\ recorded_syscalls' = <<>>
  BY DEF Insmod
<1>3. UNCHANGED <<size, written, held, len, stream>>
  BY <1>2 DEF dumpVars
<1>4. ~Installed("syscall_dumper") /\ ~Installed("syscall_dumper")'
  BY <1>1, NamesOfCalls DEF Insmod, Installed, LifeInv, StageRegisters
<1>5. /\ held' = NULL
      /\ \A t \in Task : /\ ~Busy(t)' /\ probes'[t] = {}
                         /\ tpc'[t] \notin {"pre", "copying", "unlocked"}
      /\ \A d \in Reader : rpc'[d] = "idle"
  <2>1. held' = NULL
    BY <1>3, <1>4, NothingIsHeld
  <2>2. \A t \in Task : ~Busy(t)' /\ tpc'[t] \notin {"post", "unlocked"}
    BY <1>1 DEF NothingRecorded
  <2>3. \A d \in Reader : rpc'[d] = "idle"
    BY <1>2, <1>4 DEF LifeInv, UsersAreWaitedFor
  <2> QED
    BY <2>1, <2>2, <2>3 DEF Busy
<1>6. SafeInv'
  <2>1. ControlInv'
    BY <1>2, <1>5 DEF OwnInv, SafeInv, ControlInv, OneTaskAtWork,
       ProbesMatchControl, CopyIsOwned
  <2>2. CurrentIsOwned'
    BY <1>2, <1>5 DEF CurrentIsOwned, Recording, Busy
  <2>3. FifoIsOwned' /\ BufferNeverOverrun'
    BY <1>2, <1>5 DEF OwnInv, SafeInv, FifoIsOwned, BufferNeverOverrun
  <2> QED
    BY <1>1, <2>1, <2>2, <2>3 DEF SafeInv, LifeInv
<1>7. DeliveredIsTrue'
  BY <1>2, <1>3, DeliveredStays DEF FinishedStays
<1> QED
  BY <1>2, <1>4, <1>6, <1>7 DEF OwnInv, DumpableIsTrue, MineIsRecorded,
     OopsOnlyByStaleHook, Recording

(***************************************************************************)
(* A remove_ function that returns: the dump file is no more.  Who copies  *)
(* when the copy hooks go has a record nobody was given.                   *)
(***************************************************************************)
LEMMA RemovalKeepsOwnInv ==
  ASSUME LifeInv, OwnInv, RemovalReturns
  PROVE  OwnInv'
<1>1. PICK call \in Removal : Ends(call)
  BY DEF RemovalReturns, RemoveSyscallDumper, RemoveSyscallWrappers,
     RemoveRecordedProcessesLoader, RemoveCopyHook, RemoveSyscallHook,
     Removal
<1>2. DumpInv'
  BY RemovalKeepsLifeInv DEF LifeInv
<1>3. DumpableIsTrue'
  <2>1. ~Installed("syscall_dumper")'
    BY <1>1, EndKeepsOrder DEF Removal
  <2> QED
    BY <2>1 DEF DumpableIsTrue
<1>4. UNCHANGED stale
  BY <1>1 DEF Ends
<1>5. CASE RemoveSyscallDumper \/ RemoveRecordedProcessesLoader
  BY <1>3, <1>4, <1>5, UnseenKeepsOwnInv
     DEF RemoveSyscallDumper, RemoveRecordedProcessesLoader
<1>6. CASE RemoveSyscallWrappers
  <2>1. /\ probes' = [t \in Task |-> probes[t] \ {"wrap"}]
        /\ UNCHANGED <<recordVars, tpc, mine, truth, otherVars>>
    BY <1>6 DEF RemoveSyscallWrappers
  <2>2. /\ UNCHANGED <<recorded_process_pid, current_syscall_record,
                       current_copy, copies_to_user>>
        /\ UNCHANGED <<recorded_syscalls, published, heap, rpc, held, len>>
        /\ UNCHANGED <<size, written, stream, oops>>
    BY <2>1 DEF recordVars, otherVars, fifoVars, dumpVars
  <2>3. ASSUME NEW t \in Task
        PROVE  /\ probes'[t] = probes[t] \ {"wrap"}
               /\ Recording(t)' <=> Recording(t)
               /\ Busy(t)' => Busy(t)
    <3>1. probes'[t] = probes[t] \ {"wrap"}
      BY <2>1
    <3> QED
      BY <2>1, <3>1 DEF Recording, Busy
  <2>4. ControlInv'
    BY <2>1, <2>2, <2>3 DEF OwnInv, SafeInv, ControlInv, OneTaskAtWork,
       ProbesMatchControl, CopyIsOwned
  <2>5. CurrentIsOwned'
    BY <2>1, <2>2, <2>3 DEF OwnInv, SafeInv, CurrentIsOwned, Live
  <2>6. FifoIsOwned' /\ BufferNeverOverrun'
    BY <2>2 DEF OwnInv, SafeInv, FifoIsOwned, InFifo, Live,
       BufferNeverOverrun, RecordLen
  <2>7. DeliveredIsTrue'
    BY <2>1, <2>2, DeliveredStays DEF FinishedStays
  <2>8. MineIsRecorded'
    BY <2>1, <2>3 DEF OwnInv, MineIsRecorded
  <2> QED
    BY <1>2, <1>3, <1>4, <2>2, <2>4, <2>5, <2>6, <2>7, <2>8
       DEF OwnInv, SafeInv, OopsOnlyByStaleHook
<1>7. CASE RemoveCopyHook
  <2>1. /\ tpc' = [t \in Task |-> IF tpc[t] = "copying" THEN "body"
                                 ELSE tpc[t]]
        /\ UNCHANGED <<recordVars, probes, mine, otherVars>>
    BY <1>7 DEF RemoveCopyHook
  <2>2. /\ UNCHANGED <<recorded_process_pid, current_syscall_record,
                       current_copy, copies_to_user>>
        /\ UNCHANGED <<recorded_syscalls, published, heap, rpc, held, len>>
        /\ UNCHANGED <<size, written, stream, oops>>
    BY <2>1 DEF recordVars, otherVars, fifoVars, dumpVars
  <2>3. ASSUME NEW t \in Task
        PROVE  /\ \/ tpc'[t] = tpc[t]
                  \/ tpc[t] = "copying" /\ tpc'[t] = "body"
               /\ tpc'[t] # "copying"
               /\ Recording(t)' <=> Recording(t)
               /\ Busy(t)' => Busy(t)
    <3>1. tpc'[t] = IF tpc[t] = "copying" THEN "body" ELSE tpc[t]
      BY <2>1
    <3>2. probes' = probes
      BY <2>1
    <3>3. CASE tpc[t] = "copying"
      BY <3>1, <3>2, <3>3 DEF Recording, Busy
    <3>4. CASE tpc[t] # "copying"
      BY <3>1, <3>2, <3>4 DEF Recording, Busy
    <3> QED
      BY <3>3, <3>4
  <2>4. ControlInv'
    <3>1. OneTaskAtWork /\ ProbesMatchControl /\ CopyIsOwned
      BY DEF OwnInv, SafeInv, ControlInv
    <3>2. \A t, u \in Task : Busy(t)' /\ Busy(u)' => t = u
      BY <2>3, <3>1 DEF OneTaskAtWork
    <3>3. ASSUME NEW t \in Task, Busy(t)'
          PROVE  \/ recorded_process_pid' = t
                 \/ /\ recorded_process_pid' = NoPid
                    /\ tpc'[t] \in {"ret", "post", "unlocked"}
      BY <2>2, <2>3, <3>1, <3>3 DEF OneTaskAtWork
    <3>4. OneTaskAtWork'
      BY <3>2, <3>3 DEF OneTaskAtWork
    <3>5. ProbesMatchControl' /\ CopyIsOwned'
      BY <2>1, <2>3, <3>1 DEF ProbesMatchControl, CopyIsOwned
    <3> QED
      BY <3>4, <3>5 DEF ControlInv
  <2>5. CurrentIsOwned'
    BY <2>1, <2>2, <2>3 DEF OwnInv, SafeInv, CurrentIsOwned, Live
  <2>6. FifoIsOwned' /\ BufferNeverOverrun'
    BY <2>2 DEF OwnInv, SafeInv, FifoIsOwned, InFifo, Live,
       BufferNeverOverrun, RecordLen
  <2>7. DeliveredIsTrue'
    <3>1. ASSUME NEW t \in Task, tpc[t] = "copying", mine[t] # NULL
          PROVE  mine[t] \notin published
      BY <3>1, CurrentIsFresh
         DEF OwnInv, MineIsRecorded, SafeInv, CurrentIsOwned, Busy
    <3>2. published \subseteq Record /\ NULL \notin Record
      BY ConstantsAssumption DEF OwnInv, SafeInv, FifoIsOwned
    <3>3. \A r \in published : truth'[r] = truth[r]
      BY <1>7, <3>1, <3>2 DEF RemoveCopyHook
    <3>4. FinishedStays
      BY <2>2, <3>3 DEF FinishedStays
    <3> QED
      BY <2>2, <3>4, DeliveredStays
  <2>8. MineIsRecorded'
    BY <2>1, <2>3 DEF OwnInv, MineIsRecorded
  <2> QED
    BY <1>2, <1>3, <1>4, <2>2, <2>4, <2>5, <2>6, <2>7, <2>8
       DEF OwnInv, SafeInv, OopsOnlyByStaleHook
<1>8. CASE RemoveSyscallHook
  <2>1. /\ probes' = [t \in Task |-> probes[t] \ {"syscall"}]
        /\ mine' = [t \in Task |-> NULL]
        /\ recorded_syscalls' = <<>>
        /\ \A t \in Task : tpc[t] \notin {"pre", "post", "unlocked"}
        /\ UNCHANGED <<recordVars, tpc, truth, dumpVars, published, heap>>
        /\ UNCHANGED <<rpc, oops>>
    BY <1>8 DEF RemoveSyscallHook
  <2>2. /\ \A t \in Task : ~Recording(t)' /\ (Busy(t)' => Busy(t))
        /\ UNCHANGED <<recorded_process_pid, current_syscall_record,
                       current_copy, copies_to_user>>
        /\ UNCHANGED <<size, written, stream, held, len>>
    BY <2>1 DEF Recording, Busy, recordVars, dumpVars
  <2>3. ControlInv' /\ CurrentIsOwned'
    BY <2>1, <2>2 DEF OwnInv, SafeInv, ControlInv, OneTaskAtWork,
       ProbesMatchControl, CopyIsOwned, CurrentIsOwned, Live
  <2>4. FifoIsOwned' /\ BufferNeverOverrun'
    BY <2>1, <2>2 DEF OwnInv, SafeInv, FifoIsOwned, InFifo, Live,
       BufferNeverOverrun, RecordLen
  <2>5. DeliveredIsTrue'
    BY <2>1, <2>2, DeliveredStays DEF FinishedStays
  <2> QED
    BY <1>2, <1>3, <1>4, <2>1, <2>2, <2>3, <2>4, <2>5
       DEF OwnInv, SafeInv, MineIsRecorded, OopsOnlyByStaleHook
<1> QED
  BY <1>5, <1>6, <1>7, <1>8 DEF RemovalReturns

LEMMA ModuleKeepsOwnInv ==
  ASSUME LifeInv, OwnInv, ModuleStep
  PROVE  OwnInv'
<1>1. CASE InitSyscallHookFails \/ InitCopyHookFails
           \/ InitSyscallWrappersFails \/ InitSyscallDumperFails
           \/ InitRecordedProcessesLoaderFails
  BY <1>1, FailureKeepsOwnInv
<1> QED
  BY <1>1, InsmodKeepsOwnInv, SuccessKeepsOwnInv, RemovesKeepsOwnInv,
     RemovalKeepsOwnInv DEF ModuleStep

----------------------------------------------------------------------------
(* A task that has a record of its own is being recorded, or dead. *)
LEMMA TaskKeepsMine ==
  ASSUME NEW t \in Task, TaskStep(t),
         TypeOK, MineIsRecorded
  PROVE  MineIsRecorded'
<1> USE DEF TypeOK, MineIsRecorded, Recording, Goto, hookVars, Oops
<1>1. ASSUME NEW r \in Record, NewRecord(t, r)
      PROVE  MineIsRecorded'
  BY <1>1 DEF NewRecord
<1>2. CASE PostSyscallUndefined(t) \/ EndRecord(t) \/ Killed(t)
  BY <1>2 DEF PostSyscallUndefined, EndRecord, Killed
<1>3. CASE PreWrap(t)
  BY <1>3 DEF PreWrap
<1>4. ASSUME NEW cs \in {<<>>, <<t>>}, PostWrap(t, cs)
      PROVE  MineIsRecorded'
  BY <1>4 DEF PostWrap
<1>5. ASSUME NEW nr \in {"execve", "exit", "other"}, PreSyscallSkips(t, nr)
      PROVE  MineIsRecorded'
  BY <1>5 DEF PreSyscallSkips
<1>6. CASE \/ PreSyscallAllocates(t) \/ NoRecord(t) \/ PreCopyAllocates(t)
           \/ PreCopySkips(t) \/ NewCopy(t) \/ NoCopy(t) \/ PostCopy(t)
  BY <1>6 DEF PreSyscallAllocates, NoRecord, PreCopyAllocates, PreCopySkips,
     NewCopy, NoCopy, PostCopy
<1>7. CASE \/ PostCopyOops(t) \/ PostCopyFailed(t) \/ PostWrapOops(t)
           \/ ReturnUnrecorded(t) \/ PostSyscall(t) \/ PostSyscallOops(t)
           \/ PushRecord(t) \/ DropRecord(t) \/ DropRecordOops(t)
  BY <1>7 DEF PostCopyOops, PostCopyFailed, PostWrapOops, ReturnUnrecorded,
     PostSyscall, PostSyscallOops, PushRecord, DropRecord, DropRecordOops
<1>8. ASSUME NEW pid \in Task \cup {NoPid}, WriteProc(t, pid)
      PROVE  MineIsRecorded'
  BY <1>8 DEF WriteProc
<1> QED
  BY <1>1, <1>2, <1>3, <1>4, <1>5, <1>6, <1>7, <1>8 DEF TaskStep

(* A hook does not touch what a reader has in hand or has given. *)
LEMMA TaskLeavesReads ==
  ASSUME NEW t \in Task, TaskStep(t)
  PROVE  UNCHANGED <<held, written, stream>>
  BY TaskFrame DEF NewRecord, PushRecord, DropRecord, dumpVars

LEMMA TaskRunsKeepsOwnInv ==
  ASSUME Exclusive, LifeInv, OwnInv, NEW t \in Task, TaskRuns(t)
  PROVE  OwnInv'
<1>1. TaskStep(t) /\ UNCHANGED lifeVars
  BY DEF TaskRuns
<1>2. SafeInv /\ SafeInv' /\ UNCHANGED oops /\ CallStaysTrue
  BY <1>1, TaskKeepsSafeInv, TaskIsDefined, TaskKeepsCopies
     DEF OwnInv, PidIsSafe
<1>3. UNCHANGED <<held, written, stream>>
  BY <1>1, TaskLeavesReads
<1>4. \/ UNCHANGED <<recorded_syscalls, published>>
      \/ /\ Recording(t) /\ mine[t] \in Record
         /\ published' = published \cup {mine[t]}
         /\ InFifo' = InFifo \cup {mine[t]}
         /\ UNCHANGED <<copies_to_user, truth>>
  BY <1>1, <1>2, TaskPublishes
<1>5. DeliveredIsTrue'
  BY <1>2, <1>3, <1>4, DeliveredStays DEF CallStaysTrue
<1>6. DumpableIsTrue'
  <2>1. SUFFICES ASSUME Installed("syscall_dumper")'
                 PROVE  /\ "copy" \in registered'
                        /\ CallIsTrue'
                        /\ \A r \in InFifo' \cup ({held'} \ {NULL}) :
                             copies_to_user'[r] = truth'[r]
    BY DEF DumpableIsTrue
  <2>2. Installed("syscall_dumper") /\ UNCHANGED registered
    BY <1>1, <2>1 DEF Installed, lifeVars
  <2>3. /\ "copy" \in registered /\ CallIsTrue
        /\ \A r \in InFifo \cup ({held} \ {NULL}) :
             copies_to_user[r] = truth[r]
    BY <2>2 DEF OwnInv, DumpableIsTrue
  <2>4. \A r \in InFifo \cup ({held} \ {NULL}) : r \in published \ {NULL}
    BY <1>2, ConstantsAssumption DEF SafeInv, FifoIsOwned, InFifo
  <2>5. CASE UNCHANGED <<recorded_syscalls, published>>
    <3>1. InFifo' = InFifo
      BY <2>5 DEF InFifo
    <3> QED
      BY <1>2, <1>3, <2>2, <2>3, <2>4, <3>1 DEF CallStaysTrue, FinishedStays
  <2>6. CASE /\ Recording(t) /\ InFifo' = InFifo \cup {mine[t]}
             /\ UNCHANGED <<copies_to_user, truth>>
    BY <1>2, <1>3, <2>2, <2>3, <2>6
       DEF CallStaysTrue, CallIsTrue, RecordingIsTrue
  <2> QED
    BY <1>4, <2>5, <2>6
<1>7. MineIsRecorded'
  BY <1>1, <1>2, TaskKeepsMine DEF OwnInv, SafeInv, DumpInv
<1>8. OopsOnlyByStaleHook'
  BY <1>1, <1>2 DEF OwnInv, OopsOnlyByStaleHook, lifeVars
<1> QED
  BY <1>2, <1>5, <1>6, <1>7, <1>8 DEF OwnInv

LEMMA PidWrittenKeepsOwnInv ==
  ASSUME Exclusive, OwnInv, NEW pid \in Task \cup {NoPid}, PidWritten(pid)
  PROVE  OwnInv'
<1>1. StartRecording(pid) /\ UNCHANGED lifeVars
  BY DEF PidWritten
<1>2. SafeInv' /\ UNCHANGED oops /\ CallStaysTrue
  BY <1>1, WriteKeepsSafeInv DEF OwnInv
<1>3. /\ UNCHANGED <<recorded_syscalls, published, held, written, stream>>
      /\ UNCHANGED <<copies_to_user, truth, mine, probes, tpc>>
  BY <1>1 DEF StartRecording, otherVars, dumpVars, fifoVars
<1>4. DeliveredIsTrue'
  BY <1>2, <1>3, DeliveredStays DEF CallStaysTrue
<1>5. DumpableIsTrue'
  BY <1>1, <1>2, <1>3 DEF OwnInv, DumpableIsTrue, Installed, InFifo,
     CallStaysTrue, lifeVars
<1> QED
  BY <1>1, <1>2, <1>3, <1>4, <1>5 DEF OwnInv, MineIsRecorded,
     OopsOnlyByStaleHook, Recording, lifeVars

LEMMA ConcatIsOf ==
  ASSUME NEW S, NEW s \in Seq(S), NEW u \in Seq(S)
  PROVE  \A i \in DOMAIN (s \o u) :
           (s \o u)[i] \in {s[j] : j \in DOMAIN s} \cup {u[j] : j \in DOMAIN u}
<1>1. /\ DOMAIN (s \o u) = 1..Len(s) + Len(u)
      /\ DOMAIN s = 1..Len(s) /\ DOMAIN u = 1..Len(u)
      /\ Len(s) \in Nat /\ Len(u) \in Nat
      /\ \A i \in 1..Len(s) + Len(u) :
           (s \o u)[i] = IF i <= Len(s) THEN s[i] ELSE u[i - Len(s)]
  BY ConcatProperties, LenProperties
<1>2. ASSUME NEW i \in 1..Len(s) + Len(u)
      PROVE  (s \o u)[i]
               \in {s[j] : j \in DOMAIN s} \cup {u[j] : j \in DOMAIN u}
  <2>1. CASE i <= Len(s)
    <3>1. i \in DOMAIN s /\ (s \o u)[i] = s[i]
      BY <1>1, <2>1
    <3> QED
      BY <3>1
  <2>2. CASE ~(i <= Len(s))
    <3>1. i - Len(s) \in DOMAIN u /\ (s \o u)[i] = u[i - Len(s)]
      BY <1>1, <2>2
    <3> QED
      BY <3>1
  <2> QED
    BY <2>1, <2>2
<1> QED
  BY <1>1, <1>2

(***************************************************************************)
(* A reader takes a record from the fifo into its hand, and delivers it    *)
(* from there.                                                             *)
(***************************************************************************)
LEMMA ReaderDelivers ==
  ASSUME NEW d \in Reader, ReaderStep(d),
         DumpInv
  PROVE  /\ InFifo' \cup ({held'} \ {NULL})
              \subseteq InFifo \cup ({held} \ {NULL})
         /\ Delivered' \subseteq Delivered \cup ({held} \ {NULL})
<1> DEFINE Dumpable == InFifo \cup ({held} \ {NULL})
<1>0. /\ recorded_syscalls \in Seq(Record \cup {NULL})
      /\ written \in Seq(Record) /\ stream \in [Reader -> Seq(Record)]
      /\ held \in Record \cup {NULL}
      /\ rpc[d] = "write" => held # NULL
  BY DEF DumpInv, TypeOK, DumpState
<1>1. ASSUME recorded_syscalls # <<>>,
             recorded_syscalls' = Tail(recorded_syscalls)
      PROVE  InFifo' \subseteq InFifo /\ Head(recorded_syscalls) \in InFifo
  BY <1>0, <1>1, TailElements DEF InFifo
<1>2. ASSUME UNCHANGED <<recorded_syscalls, held, written, stream>>
      PROVE  InFifo' = InFifo /\ Delivered' = Delivered
  BY <1>2 DEF InFifo, Delivered
<1>3. CASE \/ ReadProc(d) \/ ReadReturnsEmpty(d) \/ ReadMustWait(d)
           \/ PrepareToWait(d) \/ Interrupted(d) \/ TakeOops(d)
           \/ \E n \in BufferSizes : ReadFindsRecords(d, n)
  BY <1>2, <1>3 DEF ReadProc, ReadReturnsEmpty, ReadMustWait, PrepareToWait,
     Interrupted, TakeOops, Oops, ReadFindsRecords, dumpVars, fifoVars
<1>4. CASE TakeRecord(d)
  BY <1>1, <1>4 DEF TakeRecord, TakesRecord, Delivered
<1>5. CASE ShortFirstRecord(d)
  BY <1>1, <1>5 DEF ShortFirstRecord, TakesRecord, EndRead, Delivered
<1>6. CASE ShortLaterRecord(d)
  <2>1. InFifo' \subseteq InFifo /\ held' = NULL
    BY <1>1, <1>6 DEF ShortLaterRecord, TakesRecord, EndRead
  <2>2. /\ stream' = [stream EXCEPT ![d] = stream[d] \o written]
        /\ written' = <<>>
    BY <1>6 DEF ShortLaterRecord, EndRead
  <2>3. \A i \in DOMAIN (stream[d] \o written) :
          (stream[d] \o written)[i] \in Delivered
    BY <1>0, ConcatIsOf DEF Delivered
  <2>4. Delivered' \subseteq Delivered
    BY <1>0, <2>2, <2>3 DEF Delivered
  <2> QED
    BY <2>1, <2>4
<1>7. CASE WriteRecord(d)
  <2>1. InFifo' = InFifo /\ held' = NULL
    BY <1>7 DEF WriteRecord, fifoVars, InFifo
  <2>2. written' = Append(written, held) /\ UNCHANGED stream
    BY <1>7 DEF WriteRecord, Dumped
  <2>3. held \in Record \ {NULL}
    BY <1>0, <1>7 DEF WriteRecord
  <2>4. \A i \in DOMAIN Append(written, held) :
          Append(written, held)[i]
            \in {written[j] : j \in DOMAIN written} \cup {held}
    BY <1>0, <2>3, AppendElements
  <2> QED
    BY <2>1, <2>2, <2>3, <2>4 DEF Delivered
<1>8. CASE WriteLastRecord(d)
  <2>1. InFifo' = InFifo /\ held' = NULL
    BY <1>8 DEF WriteLastRecord, EndRead, InFifo
  <2>2. /\ stream' = [stream EXCEPT ![d] = stream[d] \o Append(written, held)]
        /\ written' = <<>>
    BY <1>8 DEF WriteLastRecord, EndRead, Dumped
  <2>3. held \in Record \ {NULL}
    BY <1>0, <1>8 DEF WriteLastRecord
  <2>4. /\ Append(written, held) \in Seq(Record)
        /\ \A i \in DOMAIN Append(written, held) :
             Append(written, held)[i]
               \in {written[j] : j \in DOMAIN written} \cup {held}
    BY <1>0, <2>3, AppendElements, AppendProperties
  <2>5. \A i \in DOMAIN (stream[d] \o Append(written, held)) :
          (stream[d] \o Append(written, held))[i] \in Delivered \cup {held}
    BY <1>0, <2>4, ConcatIsOf DEF Delivered
  <2>6. Delivered' \subseteq Delivered \cup {held}
    BY <1>0, <2>2, <2>5 DEF Delivered
  <2> QED
    BY <2>1, <2>3, <2>6
<1>9. CASE WriteFails(d)
  BY <1>9 DEF WriteFails, EndRead, InFifo, Delivered
<1> QED
  BY <1>3, <1>4, <1>5, <1>6, <1>7, <1>8, <1>9 DEF ReaderStep

LEMMA ReaderRunsKeepsOwnInv ==
  ASSUME LifeInv, OwnInv, NEW d \in Reader, ReaderRuns(d)
  PROVE  OwnInv'
<1>1. ReaderStep(d) /\ UNCHANGED lifeVars
  BY DEF ReaderRuns
<1>2. SafeInv /\ SafeInv' /\ UNCHANGED oops
  BY <1>1, ReaderKeepsSafeInv, ReaderIsDefined DEF OwnInv
<1>3. UNCHANGED <<hookVars, published>>
  BY <1>1, ReaderFrame
<1>4. /\ InFifo' \cup ({held'} \ {NULL})
           \subseteq InFifo \cup ({held} \ {NULL})
      /\ Delivered' \subseteq Delivered \cup ({held} \ {NULL})
  BY <1>1, <1>2, ReaderDelivers DEF SafeInv
<1>5. Installed("syscall_dumper")
  BY RegisteredWorks DEF ReaderRuns, LifeInv, UsersAreWaitedFor
<1>6. /\ "copy" \in registered /\ CallIsTrue
      /\ \A r \in InFifo \cup ({held} \ {NULL}) : copies_to_user[r] = truth[r]
  BY <1>5 DEF OwnInv, DumpableIsTrue
<1>7. DumpableIsTrue'
  <2>1. UNCHANGED <<registered, copies_to_user, truth>>
    BY <1>1, <1>3 DEF lifeVars, hookVars, recordVars
  <2>2. CallIsTrue'
    BY <1>3, <1>6 DEF hookVars, recordVars, CallIsTrue, CopyIsFree,
       RecordingIsTrue, Recording
  <2> QED
    BY <1>4, <1>6, <2>1, <2>2 DEF DumpableIsTrue
<1>8. DeliveredIsTrue'
  <2>1. held \in {NULL} \cup published
    BY <1>2 DEF SafeInv, FifoIsOwned
  <2>2. UNCHANGED <<published, copies_to_user, truth>>
    BY <1>3 DEF hookVars, recordVars
  <2> QED
    BY <1>4, <1>6, <2>1, <2>2 DEF OwnInv, DeliveredIsTrue
<1> QED
  BY <1>1, <1>2, <1>3, <1>7, <1>8 DEF OwnInv, MineIsRecorded,
     OopsOnlyByStaleHook, Recording, lifeVars, hookVars

(* Without the hooks' work nothing is recorded. *)
LEMMA UnhookedKeepsOwnInv ==
  ASSUME LifeInv, OwnInv, NEW t \in Task, UnhookedSyscall(t) \/ UnhookedCopy(t)
  PROVE  OwnInv'
<1>1. /\ UNCHANGED <<recordVars, probes, mine, otherVars, lifeVars>>
      /\ \/ /\ tpc[t] = "user" /\ tpc' = [tpc EXCEPT ![t] = "body"]
            /\ UNCHANGED truth
         \/ /\ "copy" \notin registered /\ tpc[t] = "body"
            /\ UNCHANGED tpc /\ Copied(t, <<t>>)
  BY DEF UnhookedSyscall, UnhookedCopy, Goto
<1>2. /\ UNCHANGED <<recorded_process_pid, current_syscall_record,
                     current_copy, copies_to_user>>
      /\ UNCHANGED <<recorded_syscalls, published, heap, rpc, held, len>>
      /\ UNCHANGED <<size, written, stream, oops>>
  BY <1>1 DEF recordVars, otherVars, fifoVars, dumpVars
<1>3. ASSUME NEW u \in Task
      PROVE  tpc'[u] = tpc[u] \/ (tpc[u] = "user" /\ tpc'[u] = "body")
  BY <1>1 DEF LifeInv, DumpInv, TypeOK
<1>4. ASSUME NEW u \in Task
      PROVE  /\ Recording(u)' <=> Recording(u)
             /\ Busy(u)' <=> Busy(u)
  BY <1>1, <1>3 DEF Recording, Busy
<1>5. DumpInv'
  BY UnhookedKeepsLifeInv DEF LifeInv
<1>6. ControlInv'
  <2>1. OneTaskAtWork /\ ProbesMatchControl /\ CopyIsOwned
    BY DEF OwnInv, SafeInv, ControlInv
  <2>2. OneTaskAtWork'
    <3>1. \A v, u \in Task : Busy(v)' /\ Busy(u)' => v = u
      BY <1>4, <2>1 DEF OneTaskAtWork
    <3>2. ASSUME NEW u \in Task, Busy(u)'
          PROVE  \/ recorded_process_pid' = u
                 \/ /\ recorded_process_pid' = NoPid
                    /\ tpc'[u] \in {"ret", "post", "unlocked"}
      BY <1>2, <1>3, <1>4, <2>1, <3>2 DEF OneTaskAtWork
    <3> QED
      BY <3>1, <3>2 DEF OneTaskAtWork
  <2>3. ProbesMatchControl' /\ CopyIsOwned'
    BY <1>1, <1>2, <1>3, <2>1 DEF ProbesMatchControl, CopyIsOwned
  <2> QED
    BY <2>2, <2>3 DEF ControlInv
<1>7. CurrentIsOwned'
  BY <1>1, <1>2, <1>3, <1>4 DEF OwnInv, SafeInv, CurrentIsOwned, Live
<1>8. FifoIsOwned' /\ BufferNeverOverrun'
  BY <1>2 DEF OwnInv, SafeInv, FifoIsOwned, InFifo, Live, BufferNeverOverrun,
     RecordLen
<1>9. published \subseteq Record /\ NULL \notin Record
  BY ConstantsAssumption DEF OwnInv, SafeInv, FifoIsOwned
<1>10. DeliveredIsTrue'
  <2>1. ASSUME tpc[t] = "body", Recording(t)
        PROVE  mine[t] \notin published
    BY <2>1, CurrentIsFresh
       DEF OwnInv, SafeInv, CurrentIsOwned, Busy, Recording
  <2>2. \A r \in published : truth'[r] = truth[r]
    <3>1. CASE UNCHANGED truth
      BY <3>1
    <3>2. CASE tpc[t] = "body" /\ Copied(t, <<t>>)
      BY <1>9, <2>1, <3>2 DEF Copied, Recording
    <3> QED
      BY <1>1, <3>1, <3>2
  <2>3. FinishedStays
    BY <1>2, <2>2 DEF FinishedStays
  <2> QED
    BY <1>2, <2>3, DeliveredStays
<1>11. DumpableIsTrue'
  <2>1. Installed("syscall_dumper")' <=> Installed("syscall_dumper")
    BY <1>1, ProcessFrame DEF Removal
  <2>2. CASE UNCHANGED truth
    <3>1. /\ CallIsTrue => CallIsTrue'
          /\ UNCHANGED <<InFifo, held, copies_to_user, registered>>
      <4>1. \A u \in Task : tpc'[u] = "copying" <=> tpc[u] = "copying"
        BY <1>3
      <4> QED
        BY <1>1, <1>2, <1>4, <2>2, <4>1 DEF CallIsTrue, CopyIsFree,
           RecordingIsTrue, InFifo, lifeVars
    <3> QED
      BY <2>1, <2>2, <3>1 DEF OwnInv, DumpableIsTrue
  <2>3. CASE "copy" \notin registered
    BY <2>1, <2>3 DEF OwnInv, DumpableIsTrue
  <2> QED
    BY <1>1, <2>2, <2>3
<1>12. MineIsRecorded'
  BY <1>1, <1>3, <1>4 DEF OwnInv, MineIsRecorded
<1> QED
  BY <1>1, <1>2, <1>5, <1>6, <1>7, <1>8, <1>10, <1>11, <1>12
     DEF OwnInv, SafeInv, OopsOnlyByStaleHook, lifeVars

LEMMA OwnInvStep ==
  ASSUME Exclusive, LifeInv, OwnInv, [LifeNext]_<<vars, lifeVars>>
  PROVE  OwnInv'
<1>1. CASE ModuleStep
  BY <1>1, ModuleKeepsOwnInv
<1>2. ASSUME NEW t \in Task,
             TaskRuns(t) \/ UnhookedSyscall(t) \/ UnhookedCopy(t)
             \/ StaleCopyHook(t)
      PROVE  OwnInv'
  <2>1. CASE TaskRuns(t)
    BY <2>1, TaskRunsKeepsOwnInv
  <2>2. CASE UnhookedSyscall(t) \/ UnhookedCopy(t)
    BY <2>2, UnhookedKeepsOwnInv
  <2>3. CASE StaleCopyHook(t)
    <3>1. /\ stale # {} /\ UNCHANGED lifeVars
          /\ UNCHANGED <<hookVars, dumpVars, fifoVars, heap, rpc>>
      BY <2>3 DEF StaleCopyHook, Oops
    <3> USE DEF hookVars, recordVars, dumpVars, fifoVars
    <3>2. DumpInv'
      BY <2>3, OopsKeepsLifeInv DEF StaleCopyHook, LifeInv
    <3>3. ControlInv' /\ CurrentIsOwned'
      BY <3>1 DEF OwnInv, SafeInv, ControlInv, OneTaskAtWork,
         ProbesMatchControl, CopyIsOwned, Busy, CurrentIsOwned, Recording,
         Live
    <3>4. FifoIsOwned' /\ BufferNeverOverrun'
      BY <3>1 DEF OwnInv, SafeInv, FifoIsOwned, InFifo, Live,
         BufferNeverOverrun, RecordLen
    <3>5. DeliveredIsTrue'
      BY <3>1, DeliveredStays DEF FinishedStays
    <3>6. DumpableIsTrue'
      BY <3>1 DEF OwnInv, DumpableIsTrue, Installed, CallIsTrue, CopyIsFree,
         RecordingIsTrue, Recording, InFifo, lifeVars
    <3> QED
      BY <3>1, <3>2, <3>3, <3>4, <3>5, <3>6
         DEF OwnInv, SafeInv, MineIsRecorded, OopsOnlyByStaleHook, Recording,
             lifeVars
  <2> QED
    BY <1>2, <2>1, <2>2, <2>3
<1>3. CASE \E pid \in Task \cup {NoPid} : PidWritten(pid)
  BY <1>3, PidWrittenKeepsOwnInv
<1>4. CASE \E d \in Reader : ReaderRuns(d)
  BY <1>4, ReaderRunsKeepsOwnInv
<1>5. CASE UNCHANGED <<vars, lifeVars>>
  <2>1. DumpableIsTrue'
    BY <1>5 DEF OwnInv, DumpableIsTrue, Installed, CallIsTrue, CopyIsFree,
       RecordingIsTrue, Recording, InFifo, lifeVars, vars, hookVars,
       recordVars, otherVars, fifoVars, dumpVars
  <2> QED
    BY <1>5, <2>1, UnseenKeepsOwnInv DEF lifeVars
<1> QED
  BY <1>1, <1>2, <1>3, <1>4, <1>5 DEF LifeNext, ProcessStep

LEMMA InitOwnInv == LifeInit => OwnInv
<1> SUFFICES ASSUME LifeInit PROVE OwnInv
  OBVIOUS
<1>1. SafeInv /\ NoUndefinedUse
  BY InitIInv DEF LifeInit, IInv
<1>2. ~Installed("syscall_dumper")
  BY NamesOfCalls DEF LifeInit, Installed
<1>3. Delivered = {} /\ \A t \in Task : mine[t] = NULL
  BY DEF LifeInit, Init, Delivered
<1> QED
  BY <1>1, <1>2, <1>3 DEF OwnInv, DumpableIsTrue, DeliveredIsTrue,
     MineIsRecorded, OopsOnlyByStaleHook, NoUndefinedUse

(* The strengthening, for a pid file written as ExclusiveWrite says. *)
THEOREM OwnInvAlways ==
  ASSUME Exclusive
  PROVE  LifeSpec => []OwnInv
<1>1. LifeInit => OwnInv
  BY InitOwnInv
<1>2. LifeInv /\ OwnInv /\ [LifeNext]_<<vars, lifeVars>> => OwnInv'
  BY OwnInvStep
<1> QED
  BY <1>1, <1>2, LifeInvAlways, PTL DEF LifeSpec

(***************************************************************************)
(* Then, while the recorder is loaded, fails half way and is removed under *)
(* calls in progress, a null or dangling pointer is used by nobody but the *)
(* copy probes that a failed init_copy_hook left.                          *)
(***************************************************************************)
THEOREM OopsOnlyByStaleHookAlways ==
  ASSUME Exclusive
  PROVE  LifeSpec => []OopsOnlyByStaleHook
<1>1. OwnInv => OopsOnlyByStaleHook
  BY DEF OwnInv
<1> QED
  BY <1>1, OwnInvAlways, PTL

(***************************************************************************)
(* And a reader is given no record that misses a copy of its call, though  *)
(* the copy hooks are removed under calls in progress: by then the dump    *)
(* file is gone.                                                           *)
(***************************************************************************)
THEOREM ReadsAreFaithfulAlways ==
  ASSUME Exclusive
  PROVE  LifeSpec => []ReadsAreFaithful
<1>1. OwnInv => ReadsAreFaithful
  BY DEF OwnInv, DeliveredIsTrue, Delivered, ReadsAreFaithful
<1> QED
  BY <1>1, OwnInvAlways, PTL
=============================================================================
