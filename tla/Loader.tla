------------------------------- MODULE Loader -------------------------------
(***************************************************************************)
(* loader/system_call_loader.py on a BinaryUnpacker: the buffer is used up *)
(* from its front, one system call after the other.  struct.unpack raises  *)
(* when the buffer is too short for a long; unpack_str does not.           *)
(***************************************************************************)
EXTENDS DumpFormat

VARIABLES
  buffer,        \* what is left of the file
  loading,       \* the system call whose copies are being loaded
  system_calls,  \* those that are loaded
  loader         \* "waiting", "loading", "loaded" or "raised"

loaderVars == <<buffer, loading, system_calls, loader>>

Nothing == [left |-> 0, copies |-> <<>>]

LoaderInit ==
  /\ buffer = <<>>
  /\ loading = Nothing
  /\ system_calls = <<>>
  /\ loader = "waiting"

(* Loader.from_path *)
FromPath(file) ==
  /\ loader = "waiting"
  /\ loader' = "loading"
  /\ buffer' = file
  /\ UNCHANGED <<loading, system_calls>>

(* The i-th long of the buffer, and the buffer after n bytes. *)
LongAt(i) == SubSeq(buffer, (i - 1) * LongSize + 1, i * LongSize)
Rest(n) == SubSeq(buffer, n + 1, Len(buffer))

Loading == loader = "loading"

(* A system call is loaded once it has all its copies. *)
Loads(call) ==
  IF call.left = 0
  THEN /\ system_calls' = Append(system_calls, [regs |-> call.regs,
                                                ret |-> call.ret,
                                                copies |-> call.copies])
       /\ loading' = Nothing
  ELSE loading' = call /\ UNCHANGED system_calls

(* load_system_call, up to the number of copies *)
LoadRegisters ==
  /\ Loading
  /\ loading.left = 0
  /\ Len(buffer) >= SizeOfSyscallDump
  /\ buffer' = Rest(SizeOfSyscallDump)
  /\ Loads([regs |-> [i \in 1..NumRegisters |-> Unsigned(LongAt(i))],
            ret |-> Signed(LongAt(NumRegisters + 1)),
            left |-> Unsigned(LongAt(NumRegisters + 2)),
            copies |-> <<>>])
  /\ UNCHANGED loader

(* unpack_str: what there is, when there are fewer bytes. *)
UnpackStr(n) ==
  SubSeq(buffer, SizeOfCopyRecord + 1,
         IF SizeOfCopyRecord + n <= Len(buffer) THEN SizeOfCopyRecord + n
                                                ELSE Len(buffer))

LoadMemoryCopy ==
  /\ Loading
  /\ loading.left > 0
  /\ Len(buffer) >= SizeOfCopyRecord
  /\ LET bytes == UnpackStr(Unsigned(LongAt(3)))
     IN  /\ buffer' = Rest(SizeOfCopyRecord + Len(bytes))
         /\ Loads([loading EXCEPT
                     !.left = @ - 1,
                     !.copies = Append(@, [from |-> Unsigned(LongAt(1)),
                                           to |-> Unsigned(LongAt(2)),
                                           bytes |-> bytes])])
  /\ UNCHANGED loader

(* struct.error: "unpack requires a buffer of 8 bytes" *)
UnpackRaises ==
  /\ Loading
  /\ IF loading.left > 0 THEN Len(buffer) < SizeOfCopyRecord
                         ELSE Len(buffer) \in 1..(SizeOfSyscallDump - 1)
  /\ loader' = "raised"
  /\ UNCHANGED <<buffer, loading, system_calls>>

(* has_more_bytes is False. *)
LoadingEnds ==
  /\ Loading
  /\ loading.left = 0
  /\ buffer = <<>>
  /\ loader' = "loaded"
  /\ UNCHANGED <<buffer, loading, system_calls>>

LoaderNext ==
  LoadRegisters \/ LoadMemoryCopy \/ UnpackRaises \/ LoadingEnds
=============================================================================
