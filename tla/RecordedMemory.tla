--------------------------- MODULE RecordedMemory ---------------------------
(***************************************************************************)
(* What is in the copies of a record.  SyscallHooks knows a copy to user   *)
(* memory by the task that made it; here is one recorded process, the      *)
(* bytes its system calls write to its memory, and the bytes the hooks     *)
(* record: of the source of a copy, read again when the copy is done; of   *)
(* the value of a put_user; and of whatever changed during a wrapped call. *)
(***************************************************************************)
EXTENDS Integers, Sequences, SequencesExt

CONSTANTS
  Mapped,      \* the addresses of the recorded process that are mapped
  Source,      \* the bytes the kernel copies out, and puts
  NewSource,   \* what the source of a copy may hold an instant later
  Foreign,     \* the byte another thread of the process writes
  CopyArgs,    \* where a copy_to_user copies to, and how many bytes
  WrapSize,    \* bytes a wrapped call may write to
  PutSizes,    \* bytes a put_user stores: 1, 2, 4 or 8 in the code
  Returns,     \* what a system call may return
  WriteCalls,  \* of a write: its descriptor, where its bytes are, how many,
               \* and what it returns
  MaxWrites,   \* bound: writes to memory in all
  MaxRecords   \* bound: system calls

ASSUME MemoryAssumption ==
  /\ Mapped \subseteq Nat
  /\ Source \in Seq(Nat) /\ NewSource \in Seq(Nat) /\ Foreign \in Nat
  /\ Len(Source) = Len(NewSource)
  /\ CopyArgs \subseteq Nat \X (0..Len(Source))
  /\ PutSizes \subseteq 1..Len(Source)
  /\ WrapSize \in Nat \ {0}
  /\ Returns \subseteq Int
  /\ WriteCalls \subseteq Nat \X Nat \X Nat \X Int
  /\ MaxWrites \in Nat /\ MaxRecords \in Nat

VARIABLES
  user,      \* the memory of the recorded process
  copying,   \* the copy between its pre_copy and its post_copy
  source,    \* what the memory it copies from holds now
  wrapped,   \* the memory pre_wrap_syscall saved
  current,   \* current_syscall_record: amount_of_copies, copies_to_user
  recorded,  \* the records that are finished
  \* history, which the recorder does not see
  effect,    \* the memory, as the system calls alone would have made it
  after,     \* effect at the end of each recorded call
  printed,   \* its writes to stdout: the buffer of each, and the bytes that
             \* were written
  spoiled,   \* addresses whose recording is known to be wrong
  writes     \* writes so far

memoryVars == <<user, copying, source, wrapped, current, recorded, effect,
                after, printed, spoiled, writes>>

None == [kind |-> "none"]
Span(at, n) == at..(at + n - 1)
BytesAt(memory, at, n) == [i \in 1..n |-> memory[at + i - 1]]
Overwrite(memory, at, bytes) ==
  [a \in DOMAIN memory |->
     IF a \in Span(at, Len(bytes)) THEN bytes[a - at + 1] ELSE memory[a]]

(* struct copy_record; len is that of bytes. *)
CopyRecord(from, to, bytes) == [from |-> from, to |-> to, bytes |-> bytes]
NoAddress == 0
KernelAddress == 1  \* where a copy is from: nobody reads it

NewRecord == [amount |-> 0, copies |-> <<>>]

(* Mutant: amount_of_copies++ only once. *)
AddCopiesCountsOnce(cs) ==
  current' = [amount |-> current.amount + 1,
              copies |-> current.copies \o cs]

(* list_add_tail and amount_of_copies++, for each of cs. *)
AddCopies(cs) ==
  current' = [amount |-> current.amount + Len(cs),
              copies |-> current.copies \o cs]

MemoryInit ==
  /\ user = [a \in Mapped |-> 0]
  /\ copying = None
  /\ source = <<>>
  /\ wrapped = None
  /\ current = NewRecord
  /\ recorded = <<>>
  /\ effect = user
  /\ after = <<>>
  /\ printed = <<>>
  /\ spoiled = {}
  /\ writes = 0

(* The system call writes bytes at an address. *)
Writes(at, bytes) ==
  /\ writes < MaxWrites
  /\ writes' = writes + 1
  /\ user' = Overwrite(user, at, bytes)
  /\ effect' = Overwrite(effect, at, bytes)
  /\ UNCHANGED <<recorded, after, printed>>

(* The record will not tell what is at these addresses. *)
Spoils(as) == spoiled' = spoiled \cup (as \cap Mapped)

(* Of n bytes, those before the first address that is not mapped. *)
Reachable(at, n) ==
  CHOOSE k \in 0..n : /\ Span(at, k) \subseteq Mapped
                      /\ k < n => at + k \notin Mapped

----------------------------------------------------------------------------
(***************************************************************************)
(* pre_copy notes to and len, and _copy_to_user copies what it can.        *)
(***************************************************************************)
PreCopy(to, n) ==
  /\ copying = None
  /\ Writes(to, SubSeq(Source, 1, Reachable(to, n)))
  /\ copying' = [kind |-> "copy", to |-> to, len |-> n,
                 left |-> n - Reachable(to, n)]
  /\ source' = SubSeq(Source, 1, n)
  /\ UNCHANGED <<wrapped, current, spoiled>>

(* kmalloc fails in pre_copy, or in pre_put: the copy is not recorded. *)
PreCopyFails(to, n) ==
  /\ copying = None
  /\ Writes(to, SubSeq(Source, 1, Reachable(to, n)))
  /\ Spoils(Span(to, n))
  /\ UNCHANGED <<copying, source, wrapped, current>>

(* Another process writes to the page, or the pipe, that was copied. *)
SourceChanges ==
  /\ copying # None
  /\ source' = SubSeq(NewSource, 1, copying.len)
  /\ source' # source
  /\ Spoils(Span(copying.to, copying.len))
  /\ UNCHANGED <<user, copying, wrapped, current, recorded, effect, after,
                 printed, writes>>

(* The bytes post_copy records: it reads record.from now. *)
CopiedBytes == source

PostCopy ==
  /\ copying # None
  /\ copying.left = 0
  /\ AddCopies(<<CopyRecord(KernelAddress, copying.to, CopiedBytes)>>)
  /\ copying' = None
  /\ source' = <<>>
  /\ UNCHANGED <<user, wrapped, recorded, effect, after, printed, spoiled,
                 writes>>

(* Not all of it could be copied: post_copy records nothing. *)
PostCopyFailed ==
  /\ copying # None
  /\ copying.left # 0
  /\ Spoils(Span(copying.to, copying.len - copying.left))
  /\ copying' = None
  /\ source' = <<>>
  /\ UNCHANGED <<user, wrapped, current, recorded, effect, after, printed,
                 writes>>

(***************************************************************************)
(* __put_user_N stores its value, or faults and stores nothing; pre_put    *)
(* saved the value, and post_put records it unless the store failed.       *)
(***************************************************************************)
PutUser(to, n) ==
  /\ copying = None
  /\ LET value == SubSeq(Source, 1, n)
         stored == Span(to, n) \subseteq Mapped
     IN  /\ Writes(to, IF stored THEN value ELSE <<>>)
         /\ IF stored THEN AddCopies(<<CopyRecord(NoAddress, to, value)>>)
                      ELSE UNCHANGED current
  /\ UNCHANGED <<copying, source, wrapped, spoiled>>

----------------------------------------------------------------------------
(***************************************************************************)
(* A wrapped call (poll, getdents, getdents64) may write to the WrapSize   *)
(* bytes at ptr without a hook.  pre_wrap_syscall saves them; when it      *)
(* cannot read them all, post_wrap_syscall is not called.  A kmalloc that  *)
(* fails is PostWrap(0).                                                   *)
(***************************************************************************)
PreWrap(ptr) ==
  /\ copying = None /\ wrapped = None /\ current = NewRecord
  /\ wrapped' = IF Span(ptr, WrapSize) \subseteq Mapped
                THEN [kind |-> "saved", ptr |-> ptr,
                      mem |-> BytesAt(user, ptr, WrapSize)]
                ELSE [kind |-> "failed", ptr |-> ptr]
  /\ UNCHANGED <<user, copying, source, current, recorded, effect, after,
                 printed, spoiled, writes>>

(* A byte that a copy of this call has written, and that becomes what it   *)
(* was before the call: the copy is in the record, and this is not.        *)
Undoes(a, byte) ==
  /\ byte = wrapped.mem[a - wrapped.ptr + 1]
  /\ \E i \in DOMAIN current.copies :
       a \in Span(current.copies[i].to, Len(current.copies[i].bytes))

KernelWrites(a, byte) ==
  /\ wrapped # None /\ copying = None
  /\ a \in Span(wrapped.ptr, WrapSize) \cap Mapped
  /\ Writes(a, <<byte>>)
  /\ Spoils(IF wrapped.kind = "saved" /\ ~Undoes(a, byte) THEN {} ELSE {a})
  /\ UNCHANGED <<copying, source, wrapped, current>>

(* Another thread of the process does, and is no part of the recording. *)
OtherThreadWrites(a) ==
  /\ wrapped.kind = "saved" /\ copying = None
  /\ a \in Span(wrapped.ptr, WrapSize)
  /\ writes < MaxWrites
  /\ writes' = writes + 1
  /\ user' = [user EXCEPT ![a] = Foreign]
  /\ Spoils({a})
  /\ UNCHANGED <<copying, source, wrapped, current, recorded, effect, after,
                 printed>>

(* The addresses where the memory is no longer the one that was saved. *)
Changed ==
  LET among[n \in 0..WrapSize] ==  \* among the first n
        IF n = 0 THEN <<>>
        ELSE LET a == wrapped.ptr + n - 1
             IN  IF wrapped.mem[n] # user[a] THEN Append(among[n - 1], a)
                                             ELSE among[n - 1]
  IN  among[WrapSize]

(* post_wrap_syscall records k of them: fewer when an allocation fails. *)
PostWrap(k) ==
  /\ wrapped.kind = "saved" /\ copying = None
  /\ k <= Len(Changed)
  /\ AddCopies([i \in 1..k |->
                  CopyRecord(NoAddress, Changed[i], <<user[Changed[i]]>>)])
  /\ Spoils({Changed[i] : i \in (k + 1)..Len(Changed)})
  /\ wrapped' = None
  /\ UNCHANGED <<user, copying, source, recorded, effect, after, printed,
                 writes>>

----------------------------------------------------------------------------
(* The registers of a call that are of use here: orig_rax, rdi, rsi, rdx. *)
WriteSysCall == 1
OtherSysCall == 0
Stdout == 1
Registers(num, rdi, rsi, rdx) == <<num, rdi, rsi, rdx>>

(* A struct syscall_record. *)
SyscallRecord(regs, ret, rec) ==
  [regs |-> regs, ret |-> ret, amount |-> rec.amount, copies |-> rec.copies]

Finishes(regs, ret) ==
  /\ copying = None
  /\ wrapped.kind # "saved"
  /\ Len(recorded) < MaxRecords
  /\ recorded' = Append(recorded, SyscallRecord(regs, ret, current))
  /\ current' = NewRecord
  /\ wrapped' = None
  /\ after' = Append(after, effect)
  /\ UNCHANGED <<user, copying, source, effect, spoiled, writes>>

PostSyscall(ret) ==
  /\ Finishes(Registers(OtherSysCall, 0, 0, 0), ret)
  /\ UNCHANGED printed

(* The bytes of a write that returned ret: those up to ret, none if failed. *)
Written(buf, ret) == IF ret < 0 THEN <<>> ELSE BytesAt(user, buf, ret)

(***************************************************************************)
(* write(2) of n bytes, which stores nothing in memory: it fails, or puts  *)
(* out ret of them, all or fewer, and none from where nothing is mapped.   *)
(***************************************************************************)
PostWrite(fd, buf, n, ret) ==
  /\ current = NewRecord /\ wrapped = None
  /\ ret <= Reachable(buf, n)
  /\ Finishes(Registers(WriteSysCall, fd, buf, n), ret)
  /\ printed' = IF fd = Stdout
                THEN Append(printed, [at |-> buf, len |-> n,
                                      bytes |-> Written(buf, ret)])
                ELSE printed

MemoryNext ==
  \/ \E a \in CopyArgs : PreCopy(a[1], a[2]) \/ PreCopyFails(a[1], a[2])
  \/ SourceChanges
  \/ PostCopy
  \/ PostCopyFailed
  \/ \E a \in CopyArgs, n \in PutSizes : PutUser(a[1], n)
  \/ \E ptr \in Mapped : PreWrap(ptr)
  \/ \E a \in Mapped, i \in DOMAIN Source : KernelWrites(a, Source[i])
  \/ \E a \in Mapped : OtherThreadWrites(a)
  \/ \E k \in 0..WrapSize : PostWrap(k)
  \/ \E ret \in Returns : PostSyscall(ret)
  \/ \E w \in WriteCalls : PostWrite(w[1], w[2], w[3], w[4])
=============================================================================
