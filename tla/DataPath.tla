------------------------------ MODULE DataPath ------------------------------
(***************************************************************************)
(* The way of the data: from the memory of the recorded process through    *)
(* the hooks, the dump file and the loader to the memory of the tracee.    *)
(* Which calls are simulated, and in which order things happen, is the     *)
(* matter of Recorder and Replayer; here every call is simulated.          *)
(***************************************************************************)
EXTENDS RecordedMemory, Loader, TraceeMemory

CONSTANT CutWrites  \* bound: dd is killed while it writes the file only
                    \* where the process made so few writes to memory

(* The registers are those of RecordedMemory, bytes are bytes, and what is *)
(* dumped as a long, with its sign or without one, fits into a long.       *)
ASSUME PathAssumption ==
  /\ NumRegisters = 4
  /\ Source \in Seq(0..(ByteValues - 1)) /\ NewSource \in Seq(0..(ByteValues - 1))
  /\ Foreign \in 0..(ByteValues - 1)
  /\ \A a \in Mapped : a < Power[LongSize]
  /\ \A a \in CopyArgs : a[1] < Power[LongSize]
  /\ 2 * Len(Source) < Power[LongSize]
  /\ MaxWrites + WrapSize < Power[LongSize]
  /\ \A ret \in Returns \cup {w[4] : w \in WriteCalls} :
       0 - Power[LongSize] <= 2 * ret /\ 2 * ret < Power[LongSize]
  /\ \A w \in WriteCalls, i \in 1..3 : w[i] < Power[LongSize]

VARIABLES
  cut,       \* the bytes dd has written
  replayer,  \* where the replayer is: "waiting", "running", "simulating",
             \* "done" or "raised"
  replayed,  \* calls replayed so far
  rax,       \* the tracee's rax, after the last of them
  stdout     \* what stdout_callback was called with

pathVars == <<cut, replayer, replayed, rax, stdout>>
vars == <<memoryVars, loaderVars, traceeVars, pathVars>>

PathInit ==
  /\ cut = 0
  /\ replayer = "waiting"
  /\ replayed = 0
  /\ rax = 0
  /\ stdout = <<>>

Init == MemoryInit /\ LoaderInit /\ TraceeInit(user) /\ PathInit

Record ==
  /\ loader = "waiting"
  /\ MemoryNext
  /\ UNCHANGED <<loaderVars, traceeVars, pathVars>>

(* The dump is over, and the file goes to the loader. *)
Load ==
  /\ current = NewRecord /\ copying = None /\ wrapped = None
  /\ LET file == DumpRecords(recorded)
     IN  \E n \in IF writes <= CutWrites THEN 0..Len(file) ELSE {Len(file)} :
           /\ FromPath(SubSeq(file, 1, n))
           /\ cut' = n
  /\ UNCHANGED <<memoryVars, traceeVars, replayer, replayed, rax, stdout>>

LoaderStep ==
  /\ LoaderNext
  /\ UNCHANGED <<memoryVars, traceeVars, pathVars>>

(* run_replayer: the tracee is the process as it was when it started. *)
Start ==
  /\ loader = "loaded"
  /\ replayer = "waiting"
  /\ replayer' = "running"
  /\ UNCHANGED <<memoryVars, loaderVars, traceeVars, cut, replayed, rax,
                 stdout>>

Call == system_calls[replayed + 1]
IsWrite == Call.regs[1] = WriteSysCall /\ Call.regs[2] = Stdout

(* call_stdout_callback_if_relevant, and on to the memory copies *)
Enter ==
  /\ replayer = "running"
  /\ replayed < Len(system_calls)
  /\ IsWrite => CanRead(Call.regs[3], Call.regs[4])
  /\ stdout' = IF IsWrite
               THEN Append(stdout, ReadFromTracee(Call.regs[3], Call.regs[4]))
               ELSE stdout
  /\ WriteToTracee(Call.copies)
  /\ replayer' = "simulating"
  /\ UNCHANGED <<memoryVars, loaderVars, memory, cut, replayed, rax>>

ReadRaises ==
  /\ replayer = "running"
  /\ replayed < Len(system_calls)
  /\ IsWrite /\ ~CanRead(Call.regs[3], Call.regs[4])
  /\ replayer' = "raised"
  /\ UNCHANGED <<memoryVars, loaderVars, traceeVars, cut, replayed, rax,
                 stdout>>

(* copy_memory_copies_to_tracee *)
CopyMemory ==
  /\ replayer = "simulating"
  /\ PokeWord \/ BufferWritten
  /\ UNCHANGED <<memoryVars, loaderVars, pathVars>>

CopyRaises ==
  /\ replayer = "simulating"
  /\ PokeRaises
  /\ replayer' = "raised"
  /\ UNCHANGED <<memoryVars, loaderVars, traceeVars, cut, replayed, rax,
                 stdout>>

(* set_registers_in_tracee takes the low bits of the return value. *)
Answer ==
  /\ replayer = "simulating"
  /\ todo = <<>>
  /\ rax' = LowBits(Call.ret)
  /\ replayed' = replayed + 1
  /\ replayer' = "running"
  /\ UNCHANGED <<memoryVars, loaderVars, traceeVars, cut, stdout>>

Finish ==
  /\ replayer = "running"
  /\ replayed = Len(system_calls)
  /\ replayer' = "done"
  /\ UNCHANGED <<memoryVars, loaderVars, traceeVars, cut, replayed, rax,
                 stdout>>

Next ==
  \/ Record \/ Load \/ LoaderStep \/ Start
  \/ Enter \/ ReadRaises \/ CopyMemory \/ CopyRaises \/ Answer \/ Finish

Spec == Init /\ [][Next]_vars

----------------------------------------------------------------------------
(* The values of the variables; bytes of the tracee and rax fit. *)
DataTypeOK ==
  /\ user \in [Mapped -> Nat] /\ effect \in [Mapped -> Nat]
  /\ memory \in [Mapped -> 0..(ByteValues - 1)]
  /\ spoiled \subseteq Mapped
  /\ loading.left \in Nat
  /\ loader \in {"waiting", "loading", "loaded", "raised"}
  /\ replayer \in {"waiting", "running", "simulating", "done", "raised"}
  /\ replayed \in 0..MaxRecords
  /\ rax \in 0..(Power[LongSize] - 1)

(***************************************************************************)
(* get_record_len, which dump_single_record compares with the room in the  *)
(* user's buffer, is the number of bytes it then writes there.             *)
(***************************************************************************)
LengthIsExact ==
  \A i \in 1..Len(recorded) :
    GetRecordLen(recorded[i]) = Len(DumpSingleRecord(recorded[i]))

(* A record as the loader makes it, and one that lost the file's end. *)
Loaded(record) ==
  [regs |-> record.regs, ret |-> record.ret, copies |-> record.copies]

LosesItsEnd(call, record) ==
  LET n == Len(record.copies)
  IN  /\ n > 0
      /\ Len(call.copies) = n
      /\ IsPrefix(call.copies[n].bytes, record.copies[n].bytes)
      /\ call = [Loaded(record) EXCEPT !.copies[n].bytes =
                                          call.copies[n].bytes]

(***************************************************************************)
(* What load_system_calls returns are the first calls of the recording,    *)
(* each as it was recorded.  A file that ends inside a record raises,      *)
(* except where it ends in the bytes of the record's last copy.            *)
(***************************************************************************)
CutIsNoticed ==
  loader = "loaded" =>
    /\ Len(system_calls) <= Len(recorded)
    /\ \A i \in 1..Len(system_calls) :
         \/ system_calls[i] = Loaded(recorded[i])
         \/ i = Len(system_calls) /\ LosesItsEnd(system_calls[i], recorded[i])

(* The first n records are in the file, whole. *)
InFile(n) == Len(DumpRecords(SubSeq(recorded, 1, n))) <= cut

(***************************************************************************)
(* "recreating the exact same execution as in the recording": after each   *)
(* replayed call, the memory and the return value are those the recorded   *)
(* process had then.  That leaves out the addresses where a copy was made  *)
(* in part, its source changed, an allocation failed or another thread     *)
(* wrote; a copy that goes wrong spoils its own bytes and no others.       *)
(***************************************************************************)
RecordReproduces ==
  replayer = "running" /\ replayed > 0 /\ InFile(replayed) =>
    /\ \A a \in Mapped \ spoiled : memory[a] = after[replayed][a]
    /\ rax = LowBits(recorded[replayed].ret)

(***************************************************************************)
(* stdout_callback is called with the buffer of each write to stdout, as   *)
(* long as it was (none of the bytes that share its last word): it starts  *)
(* with the bytes the recorded process wrote, each as it was but for those *)
(* whose recording went wrong.  After a full write that is all; after one  *)
(* that was short or failed come bytes that were never written.            *)
(***************************************************************************)
OutputReproduced ==
  \A i \in 1..Len(stdout) :
    /\ Len(stdout[i]) = printed[i].len
    /\ \A b \in 1..Len(printed[i].bytes) :
         printed[i].at + b - 1 \notin spoiled
           => stdout[i][b] = printed[i].bytes[b]

(***************************************************************************)
(* "Copy all the memory copies of a given system call to the tracee": what *)
(* the kernel could write there, the replayer can write too.               *)
(***************************************************************************)
EveryCopyIsWritten == replayer = "raised" => todo = <<>>
=============================================================================
