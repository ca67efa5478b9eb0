--------------------------- MODULE RecorderState ---------------------------
(***************************************************************************)
(* The state the parts of the kernel recorder (record.ko) share: the       *)
(* globals of syscall_recorder.c, copy_to_user_wrapper.c and               *)
(* recorded_processes_loader.c, the heap objects they point to, the kernel *)
(* stacks of the processes whose system calls are hooked, and the          *)
(* processes that read /proc/syscall_dumper.                               *)
(*                                                                         *)
(* A struct syscall_record is a member of Record.  Record is finite, as    *)
(* memory is: an allocation takes an unused member and fails when there is *)
(* none.  A member is never reused, so that a stale pointer shows.         *)
(***************************************************************************)
EXTENDS Naturals, Sequences

CONSTANTS
  Task,         \* processes whose system calls are hooked
  Reader,       \* processes that read /proc/syscall_dumper; never recorded
  NonBlocking,  \* the readers that opened it with O_NONBLOCK
  Record,       \* the syscall records there is memory for
  NoPid,        \* the 0 of recorded_process_pid: nobody is recorded
  NULL,         \* the null pointer, and the owner of a free mutex
  FifoSlots,    \* pointers recorded_syscalls holds (1 << 15 bytes in the code)
  BufferSizes,  \* sizes of the buffers the readers pass to read(2)
  MaxCopies,    \* bound: copies to user memory of one system call
  Exclusive     \* TRUE: the recorded pid only changes as ExclusiveWrite says

ASSUME ConstantsAssumption ==
  /\ NonBlocking \subseteq Reader
  /\ NoPid \notin Task
  /\ NULL \notin Task \cup Reader \cup Record
  /\ FifoSlots \in Nat \ {0}
  /\ BufferSizes \subseteq Nat
  /\ MaxCopies \in Nat
  /\ Exclusive \in BOOLEAN

VARIABLES
  recorded_process_pid,    \* the task being recorded, or NoPid
  current_syscall_record,  \* the record of the system call in progress
  current_copy,            \* the copy in progress: the task that allocated it
  heap,                    \* heap[r]: is r unused, live or freed
  copies_to_user,          \* copies_to_user[r]: the task of each copy of r
  recorded_syscalls,       \* the kfifo of records to be dumped
  recorded_syscalls_mutex, \* the reader that holds the mutex across steps
  recorded_syscalls_wait,  \* the readers on the wait queue
  tpc,                     \* where each task is in the kernel
  probes,                  \* the return probes armed on each task's stack
  rpc,                     \* where each reader is in read_proc
  size,                    \* room left in the buffer of the mutex's holder
  written,                 \* records dumped so far by the mutex's holder
  held,                    \* the record the mutex's holder took from the fifo
  len,                     \* and the length it computed for it
  oops                     \* a null or dangling pointer was used: no
                           \* behaviour is defined from there on

(***************************************************************************)
(* History variables, which no guard of the program's own steps reads.     *)
(***************************************************************************)
VARIABLES
  mine,       \* mine[t]: the record allocated for the system call t is in,
              \* or was killed in
  truth,      \* truth[r]: the copies r's own system call really made
  published,  \* records post_syscall has put in the fifo
  stream,     \* stream[d]: what successful reads have given to reader d
  swallowed,  \* records a read that succeeded removed and did not return
  rejected    \* records a read that failed with -EINVAL removed

recordVars == <<recorded_process_pid, current_syscall_record, current_copy,
                copies_to_user>>
hookVars == <<recordVars, tpc, probes, mine, truth>>
dumpVars == <<size, written, held, len, stream, swallowed, rejected>>
fifoVars == <<recorded_syscalls, recorded_syscalls_mutex,
              recorded_syscalls_wait, published>>
otherVars == <<dumpVars, fifoVars, heap, rpc, oops>>
vars == <<hookVars, otherVars>>

TaskPC == {"user", "pre", "body", "precopy", "copying", "ret", "post",
           "unlocked", "dead"}
ReaderPC == {"idle", "lock", "unlocked", "asleep", "woken", "dump", "write"}
Probe == {"syscall", "wrap"}

TypeOK ==
  /\ recorded_process_pid \in Task \cup {NoPid}
  /\ current_syscall_record \in Record \cup {NULL}
  /\ current_copy \in Task \cup {NULL}
  /\ heap \in [Record -> {"unused", "live", "freed"}]
  /\ copies_to_user \in [Record -> Seq(Task)]
  /\ recorded_syscalls \in Seq(Record \cup {NULL})
  /\ recorded_syscalls_mutex \in Reader \cup {NULL}
  /\ recorded_syscalls_wait \in SUBSET Reader
  /\ tpc \in [Task -> TaskPC]
  /\ probes \in [Task -> SUBSET Probe]
  /\ rpc \in [Reader -> ReaderPC]
  /\ size \in Nat
  /\ written \in Seq(Record)
  /\ held \in Record \cup {NULL}
  /\ len \in Nat
  /\ oops \in BOOLEAN
  /\ mine \in [Task -> Record \cup {NULL}]
  /\ truth \in [Record -> Seq(Task)]
  /\ published \in SUBSET (Record \cup {NULL})
  /\ stream \in [Reader -> Seq(Record)]
  /\ swallowed \in SUBSET Record
  /\ rejected \in SUBSET Record

Init ==
  /\ recorded_process_pid = NoPid
  /\ current_syscall_record = NULL
  /\ current_copy = NULL
  /\ heap = [r \in Record |-> "unused"]
  /\ copies_to_user = [r \in Record |-> <<>>]
  /\ recorded_syscalls = <<>>
  /\ recorded_syscalls_mutex = NULL
  /\ recorded_syscalls_wait = {}
  /\ tpc = [t \in Task |-> "user"]
  /\ probes = [t \in Task |-> {}]
  /\ rpc = [d \in Reader |-> "idle"]
  /\ size = 0
  /\ written = <<>>
  /\ held = NULL
  /\ len = 0
  /\ oops = FALSE
  /\ mine = [t \in Task |-> NULL]
  /\ truth = [r \in Record |-> <<>>]
  /\ published = {}
  /\ stream = [d \in Reader |-> <<>>]
  /\ swallowed = {}
  /\ rejected = {}

----------------------------------------------------------------------------
(* r can be dereferenced. *)
Live(r) == r \in Record /\ heap[r] = "live"

(* A step that uses a null or dangling pointer. *)
Oops == oops' = TRUE /\ UNCHANGED <<hookVars, dumpVars, fifoVars, heap, rpc>>

(***************************************************************************)
(* The bytes a record takes in a dump, in units of a header: one header,   *)
(* and one for each copy, whatever the length of the copied data.          *)
(***************************************************************************)
RecordLen(r) == 1 + Len(copies_to_user[r])

(* Mutant: nothing is freed. *)
ForgetRecord(r) == UNCHANGED heap

(***************************************************************************)
(* free_syscall_record(): the record and its copies, which no one else     *)
(* points to.                                                              *)
(***************************************************************************)
FreeRecord(r) == heap' = [heap EXCEPT ![r] = "freed"]

Goto(t, pc) == tpc' = [tpc EXCEPT ![t] = pc]
=============================================================================
