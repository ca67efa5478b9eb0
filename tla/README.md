# A verification project for rr_python

rr_python records the system calls of a process and replays them. A kernel
module (`recorder/`, `record.ko`) hooks `do_syscall_64` and the functions that
copy to user memory, and hands the records to whoever reads
`/proc/syscall_dumper`. A listener (`pager/`) takes a criu snapshot of a process
that asks for it and has the module record it from there on. The replayer
(`replayer/`) restores the snapshot, traces it with ptrace and answers each
system call from the recording.

This directory holds TLA+ models of the code, TLC configurations that check
them on small instances, and TLAPS proofs about the models for every value of
their constants.

## Inventory

| Part | Source | State | Operations |
|---|---|---|---|
| system call hook | `recorder/src/syscall_recorder.c` | `current_syscall_record`, the kfifo `recorded_syscalls`, its mutex and wait queue | `pre_syscall`, `post_syscall`, `free_syscall_record`, `init_syscall_hook`, `remove_syscall_hook` |
| copy hooks | `recorder/src/copy_to_user_wrapper.c` | `current_copy`; the copies of the current record | `pre_copy`, `post_copy`, `pre_put`, `post_put`, init, remove |
| wrapped calls (poll, getdents) | `recorder/src/syscall_wrapper.c` | the user memory saved by each call, in its kretprobe instance | `pre_wrap_syscall`, `post_wrap_syscall`, init, remove |
| dump file | `recorder/src/syscall_dumper.c` | none of its own; local variables of each read | `read_proc`, `dump_records`, `dump_single_record` |
| pid file | `recorder/src/recorded_processes_loader.c` | `recorded_process_pid` | `write_proc` |
| module life cycle | `recorder/src/main.c` | what is registered | `recorder_init`, `recorder_exit` |
| listener and client | `pager/src/pager/*.py`, `pager/src/cpager/cpager.c` | the connection, the client's run state, snapshot directories | `Listener.run`, `send_request_to_take_snapshot`, `start_recording`, `take_snapshot` |
| client library | `pyrecorder/` | none | `record` |
| stepping | `pyrecorder/src/cpyrecorder/cpyrecorder.c` | `stop_type`, `stop_frame` | `record_or_replay`, the trace function (unfinished: nothing sets `stop_type`) |
| loader | `replayer/src/replayer/loader/` | the rest of the buffer | `load_system_calls` |
| replay decisions | `replayer/src/replayer/should_simulate/` | none | `should_simulate_system_call` |
| replayer | `replayer/src/replayer/replayer.py` | the list of system calls, the index reached | `start_replaying`, `simulate_...`, `wrap_and_run_...`, `get_exit_status` |
| tracer extension | `replayer/src/creplayer/creplayer.c` | the tracee, in the kernel | attach, run to the next system call stop, registers, memory |

How they interact. Hooks and readers share the fifo, its mutex and its wait
queue; they also share the records, which a hook allocates and a reader frees.
All hooks of all processes share the two globals `current_syscall_record` and
`current_copy`, which no lock protects. The pid file decides which process's
hooks do anything, and each hook reads it again. The listener writes the pid file
while its client is stopped; the client then runs on and is recorded. A reader
(`dd`, or a test's read loop) drains the dump file to a file the loader parses.

What is hard about it. Hooks run on the stacks of many processes and sleep (in
`kmalloc`, in `mutex_lock`, in a copy to user memory). A reader sleeps in the
wait loop and, with the mutex held, in each copy to its buffer. The record in
progress is reachable from a global after its ownership has passed to the
readers. A process can be killed inside a system call, and its return handlers
then never run. Reads are short, fail half way, are interrupted by signals and
compete. The wait loop is hand-written. `PROJECT.json` lists these as hazards,
each at its line.

What makes each part correct.

- Hooks: a record has exactly the copies its own system call made, in order; a
  pointer is used only while what it points to is live; the recorder does not
  stay busy for ever.
- Memory: every live record is one that a hook or a reader will still free, or was
  lost in one of two known ways.
- Dump: finished records are read once, in the order in which the calls ended; a
  read returns whole records; a dump fits the buffer; a reader is woken when
  there is something to read; nobody keeps the mutex.
- Life cycle: a failed init leaves nothing registered; exit leaves nothing behind.
- Session: a client that asked is snapshot while it is stopped, is recorded from
  when it runs on, and does run on.
- Replayer: each recorded call answers the tracee's call of the same position;
  what the tracee sees is what the recorded process saw; a file that is mapped
  is really open and no other file is touched.
- Data: what a record holds is what its call wrote to the process, and what the
  tracee's memory and `rax` become; a copy that goes wrong harms no other; what the
  process wrote to stdout is printed again, in order.
- Loader: it is the inverse of the dump format, also of a file that was cut short.

## Modules

| Module | Models |
|---|---|
| `RecorderState` | constants and their assumptions, the shared state, `TypeOK`, `Init`, helpers |
| `SyscallHooks` | the hooks (`syscall_recorder.c`, `copy_to_user_wrapper.c`, `syscall_wrapper.c`) and `write_proc` |
| `SyscallDumper` | `read_proc` and what it calls (`syscall_dumper.c`) |
| `RecordStream` | the abstract specification: one queue, reads that are atomic |
| `Recorder` | the composition: `Next`, fairness, the properties, the inductive invariants, the refinement mapping |
| `MCRecorder` | small instances for TLC, symmetry sets |
| `RecorderProofs` | the inductive invariants, the safety properties, and that `Recorder` implements `RecordStream`, proved |
| `LifeCycle` | `Recorder` composed with `main.c` and the `init_` and `remove_` functions: loading with failures, use, removal, loading again |
| `RecordingSession` | `Recorder` composed with the listener and its clients (`pager/`, `pyrecorder/`) |
| `ShouldSimulate` | the decisions of `should_simulate.py`, as operators on a recording |
| `Replayer` | a program that is recorded, and its replay by `replayer.py` and `creplayer.c` |
| `RecordedMemory` | the bytes the hooks record (`copy_to_user_wrapper.c`, `syscall_wrapper.c`), of one process |
| `DumpFormat` | the bytes of a dump and their number (`syscall_dumper.c`, `loader/unpacker.py`) |
| `Loader` | `system_call_loader.py`, on any file |
| `TraceeMemory` | the tracee's memory, by words of ptrace (`creplayer.c`) |
| `DataPath` | the composition of these four: from the recorded process to the tracee |
| `LifeCycleProofs` | nobody is left behind by loading and removing the module, proved |
| `SessionProofs` | a client is recorded from its snapshot on, and one client keeps to `ExclusiveWrite`, proved |
| `ReplayerProofs` | open and close agree; a replay that ends missed no record; a complete recording is reproduced, whatever its length, proved |
| `Recursion` | facts about recursive functions, folds and flattened sequences, and induction over the numbers, proved |
| `LoaderProofs` | the bytes of a dump, their number, and what the loader takes from the front of a file, proved |
| `TraceeProofs` | reading and writing by words reads and writes the bytes of the buffer, proved |
| `DataPathProofs` | what is recorded is what the calls wrote, and is what the tracee gets, proved |
| `MCLifeCycle`, `MCRecordingSession`, `MCReplayer`, `MCDataPath` | small instances for TLC |

`LifeCycle` and `RecordingSession` extend `Recorder` and let its steps run under a
condition of their own: they do not restate what a hook or a read does.

### State of the recorder

`tpc[t]` is where the task `t` is in the kernel: `user`; `pre` (in
`pre_syscall`, at its kmalloc); `body` (the system call itself); `precopy` (in
`pre_copy` or `pre_put`, at the kmalloc); `copying` (between the copy's entry
and return handlers); `ret` (back from a write to the pid file, before
`post_syscall`); `post` (in `post_syscall`, at `mutex_lock`); `unlocked` (after
its `mutex_unlock`, before line 116 clears the current record); `dead`.
`probes[t]` is the set of kretprobe instances on its stack. The entry handlers
return 0 to arm a return handler and 1 not to, which is what the kernel wants and
the opposite of what the comments above them say (`syscall_recorder.c:25`,
`copy_to_user_wrapper.c:18`).

`rpc[d]` is where the reader `d` is in `read_proc`: `idle`; `lock` (on the wait
queue, at the first `mutex_lock`); `unlocked` (after the unlock of the wait loop,
before `prepare_to_wait`); `asleep`; `woken` (back from `schedule`); `dump`
(before a `dump_single_record`); `write` (at its copies to user memory).
`recorded_syscalls_mutex` is held by a reader across steps; a hook takes and
releases it in one step (`PushRecord`, `DropRecord`), as it does not sleep
between. `size`, `written`, `held` and `len` are the locals of the read that holds
the mutex.

`heap[r]` is `unused`, `live` or `freed`. An allocation takes an unused record
and none is used twice, so a dangling pointer is seen. `oops` is set by a use of
a null or dangling pointer.

Handlers are cut into steps where they may sleep, or where another process may
run between two accesses to a shared variable and see the difference. Where the
model does not cut, no other step changes or reads what the handler uses.

### History variables

`mine[t]` is the record allocated for the call `t` is in, or was killed in, and
`truth[r]` the copies that call made; `published` the records pushed; `stream[d]` what reads returned;
`swallowed` and `rejected` the records that short reads took off the fifo and lost, in
a read that succeeded and in one that failed. No guard of the program's steps
depends on them: `MayCopy`, a bound, and the condition in `WriteProc` do, the
latter because a `write(2)` makes no copies to user memory.

### Exclusive

`recorder` is meant to record one process at a time, and it is up to its users to
use it so: `write_proc` takes any pid at any time. `ExclusiveWrite` is the rule:
the pid changes while no hook is at work for another task, and a task in a
recorded call only stops its own recording (as `recorder/tests/conftest.py`
does). `Exclusive = TRUE` makes every write obey it. The listener does for its
first client, which is stopped when it writes. `Exclusive = FALSE` lifts it, and
the recorder then misbehaves: every `Oops` action fires, and a pid written during a
recorded call leaves the call's later copies out of its record, since `pre_copy`
compares the pid at each copy.

### Abstractions

- A copy is the name of the task that made it; addresses, lengths and bytes are
  left out. A record's length is one unit and one more for each copy, in place of
  bytes, and so are the readers' buffers. `get_record_len` sums a header and one
  item for each copy in the same way, so what is kept is that a record with more
  copies is longer, and that the sum is taken before the copies are written. The
  bytes are the matter of `DataPath`.
- Registers, return values and the log are left out.
- `PreCopySkips` covers copies of a task nobody records as well.
- A copy whose kmalloc fails (`NoCopy`), a wrapped call whose memory cannot be
  copied (`PostWrap(t, <<>>)`), and a record that cannot be allocated
  (`NoRecord`) are lost by design and with a message; `truth` does not count such
  copies. `RecordFaithful` is about all others.
- The memory `pre_wrap_syscall` saves is not modelled as an object: a task killed in
  a wrapped call leaks it.
- Readers are not recorded, and are never at the same time a `Task`. One that is
  would call `post_syscall`'s `mutex_lock` after its own read has returned.
- A mutex in a kretprobe handler may not sleep in all kernels. The model lets it.
- A task is a process with one thread. `recorded_process_pid` is compared with
  `current->pid`, so a second thread is another task.
- A signal interrupts a read at `schedule`; the kernel's restart of it is a new read.

### Life cycle

`mpc` is the `init_` function `recorder_init` is at, `loaded`, `removing` or
`unloaded`. An `init_` function is a step that succeeds or fails; its failure puts
the `remove_` functions behind the label it jumps to into `removals`, as
`recorder_exit` puts its own. A `remove_` function is two steps, because the kernel
makes it two: `Unregister`, after which no handler and no read starts, and
`Remove...`, when those that had started are over. `registered` holds the probes and
proc files. With a probe gone, calls and copies go on unhooked
(`UnhookedSyscall`, `UnhookedCopy`), and return probes still on a stack do nothing
(`RemoveCopyHook`, `RemoveSyscallHook`). The kernel is external code, modelled
from its use here: that unregistering waits for handlers that run, that
`remove_proc_entry` waits for reads, and that unregistering a probe that is not
registered does nothing (`init_syscall_hook` relies on it when `kfifo_alloc` fails).

`stale` is what a module leaves registered when its memory is freed. There is one
way: `init_copy_hook` returns an error without unregistering the copy probes when
the put_user probes fail, and `recorder_init` then skips `remove_copy_hook`. The
next copy to any process calls code that is gone (`StaleCopyHook`).
`FailedInitIsUndone` says that it is the only way.

### Session

`phase[t]` is where a client is in `send_request_to_take_snapshot`: `running`,
`connected`, `sent`, `stopped`, `resumed`. `listener` is the call `Listener.run` is
at, `backlog` the connections it has not accepted. A task that is not stopped runs
as in `Recorder`, client or not, and makes system calls between the steps of its
request, so that hooks and the listener interleave freely. SIGCONT does nothing to
a client that has not stopped yet. A client may ask again, as the decorator asks at
each call of the function. An exception ends the listener (`raised`).

The listener waits for the pid of its client and for nothing else: it may take the
snapshot of a client that has not stopped yet, and continue one that has not. Two
history variables keep these apart: `live` are the clients whose snapshot was taken
while they ran, `early` those that were continued before they stopped. `awaiting`
are the clients between their snapshot and the start of their recording.

### Replayer

A process is a program: which call it makes next depends only on what its calls
returned. `executed` is what it did while recorded: an `openat`, an `mmap` and a
`munmap` may fail, a `write` may fail or be short, a `read` returns any of `Data`; a
`close` is of a descriptor that is open. `system_calls` is the recording, with up to
`MaxLost` records missing. The tracee then makes the same calls for as long as it sees
the same results (`~Diverged`), and any call after that. It names a descriptor by the
call that returned it (`opener`), so that it uses the tracee's descriptor where that
differs from the recorded one. `files` and `real` map the descriptors of the recorded
process and of the tracee to the call that opened them. `Inherited` is the descriptor
that is open when the snapshot is taken, if one is: one at most, as openers tell
descriptors apart and what was inherited has no call for an opener. Descriptors are
given out lowest first. `maps` is what is mapped at each address; `munmap` takes the
address of an earlier `mmap`.

The process's memory is one `buffer` of `WriteSize` bytes. A `read` fills it. A `write`
is given all of it, to any open descriptor, and returns an error or how many of its
bytes it put out. `call_stdout_callback_if_relevant` looks at the descriptor (`rdi`,
which is to be 1, whatever that is open on), the address and the number of bytes (`rdx`),
and not at the return value: `StdoutCallback` prints `WriteSize` bytes for each write
to `Stdout`. `OutputReplayed` says what that comes to: as many chunks are printed as
there were writes, in order, and each starts with what its write put out; it is
exactly that if, and only if, the write was full.

`pc` is where `start_replaying` is: between two calls of the tracee (`run`), stopped
at the entry of one (`entered`), about to run it as an invalid one (`simulating`)
or for real (`wrapping`); or ended, normally or with one of three exceptions. Each
of the two branches is two steps, one for each stop. `ShouldSimulate` gives the
searches of `should_simulate.py` as quantifiers. `InRegister` is the unsigned value a
return value has in the tracee's registers, which `raise_on_unexpected_return_value`
compares with the signed one of the loader.

Two recorded calls cannot be reproduced (`Irreproducible`), and the properties of a
replay leave them out. An `mmap` that failed is told to map at its error, and fails
with another one. A descriptor that was mapped, closed and then returned by
`accept`, which `should_simulate.py` does not count among the opens, is closed for
real: the tracee never had it, and gets an error where the recorded process got 0.

Left out: a file that is mapped is there and the same at replay; `brk` and
`mprotect` (made for real, and expected to return the recorded value); what is in
mapped memory; failing ptrace calls; a process that exits by other means than
`exit_group`; threads.

### Data path

`DataPath` follows the bytes. `user` is the memory of the recorded process. A system
call writes to it by `copy_to_user` (`PreCopy`, which stops at the first address that
is not mapped, and `PostCopy` or `PostCopyFailed`), by `put_user`, or without a hook in
a wrapped call (`KernelWrites`), whose changes `PostWrap` finds. `current` is the record
in progress, with `amount_of_copies` apart from the list, as the dump needs both.
`DumpFormat` turns records into bytes and back: longs of `LongSize` bytes, low byte
first, signed or not. The loader uses up the file from its front; `Load` gives it any
prefix of the dump. The replayer then answers every call: at a `write` to stdout it
reads the buffer, writes the copies word by word (`PokeWord`), and sets `rax`.

`WriteCalls` are the writes a process may make: descriptor, address, length and what is
returned, which may be an error or any number of bytes up to where memory ends
(`PostWrite`). `printed` holds what was put out to stdout. The replayer reads as many
bytes as the call was given. Where they are not all mapped, which the recorded
process got a short write or an error for, `PTRACE_PEEKTEXT` fails and the replay
raises (`ReadRaises`). `OutputReproduced` says that otherwise the buffer is read to
its length, and starts with the bytes that were put out.

`effect` is the memory as the system calls alone would have made it, `after` what it
was at the end of each call. `spoiled` are the addresses whose recording is known to be
wrong: `post_copy` reads the source again after the copy was made (`SourceChanges`);
it records nothing of a copy that failed half way; an allocation fails; and
`post_wrap_syscall` takes a byte another thread wrote for one of the call's, and takes no
byte that is again what it was before the call, though a copy of the same call, which
is in the record, changed it in between (`Undoes`).
`RecordReproduces` says that all others are right.

Interleavings of tasks are left out here (they are `Recorder`'s), and so is which
calls are simulated (`Replayer`'s). The registers are the four of use: `orig_rax`,
`rdi`, `rsi` and `rdx`.

## Runs

| Run | Instance | Shows |
|---|---|---|
| `recorder_exclusive` | 2 tasks, 1 reader, 3 records, 2 slots, 1 copy per call, buffers of 1 and 2, Exclusive | `TypeOK`, `NoUndefinedUse`, `RecordFaithful`, `MemoryAccounted`, `BufferNeverOverrun`, `IInv` |
| `recorder_readers` | 1 task, a blocking and a non-blocking reader, 2 records, 2 slots, Exclusive, fair | `DumpFindsRecord`, `ImplementsStream`, `PostSyscallEnds`, `NonBlockingReadEnds`, `WokenReaderReads` |
| `recorder_shared` | 2 tasks, 1 reader, 2 records, 1 slot, any write to the pid file | `DumpInv`, even then |
| `lost_wakeup` | 1 task, 1 blocking reader, fair | violates `PendingRecordIsRead` |
| `short_read` | the same, not fair | violates `ReadKeepsTheRest` |
| `killed_in_syscall` | the same | violates `RecorderIsFree` |
| `life_cycle` | 1 task, 1 reader, 2 records, 1 slot, loaded twice, Exclusive, fair | `LifeTypeOK`, `UsersFindTheFifo`, `ReadsAreFaithful`, `FailedInitIsUndone`, `OopsOnlyByStaleHook`, `LifeInv`, `RemovalEnds` |
| `session` | 1 client and 1 other task, 1 reader, 2 records, 1 slot; only the listener writes the pid file; fair | `SessionTypeOK`, `NoUndefinedUse`, `RecordFaithful`, `SnapshotIsFirst`, `FirstCallIsRecorded`, `StoppedClientResumes`, without `Exclusive` |
| `replay` | 4 calls of 9 kinds, some of which fail, writes of 2 bytes, a record missing or not, signals | `TypeOK`, `SeesRecording`, `MapsSameFiles`, `ClosesSameFiles`, `OutputReplayed`, `CallsAreExpected`, `OnlyOpenAndErrorsRaise`, `LossIsNoticed` |
| `open_descriptor` | 4 calls of open, close, mmap | violates `ReturnsAreExpected` |
| `data_path` | 4 mapped addresses, 2 calls, 2 stores to memory, 6 kinds of `write`, words and longs of 2 bytes of 4 values, files cut anywhere | `DataTypeOK`, `LengthIsExact`, `CutIsNoticed`, `RecordReproduces`, `OutputReproduced` |
| `unwritten_copy` | the same, files not cut | violates `EveryCopyIsWritten` |

The bounds. Two tasks are what it takes for one to be recorded after, or during,
the other. Three records let one be in progress, one in the fifo and one in a
reader's hand; two slots are filled by two records while the third is in
progress, so that `DropRecord` happens. A record with one copy is as long as two
without, so with buffers of 1 and 2 a read returns two records, or one and loses
the next, or loses the first. Two readers are what it takes for one to be woken
in vain. When the records run out the hooks go on without recording (`NoRecord`),
so no run deadlocks, except in `recorder_shared`: there, nothing is explored once
a dangling pointer was used (`StillDefined`), and deadlock is not checked.
`SYMMETRY` is used in runs that have only invariants.

`life_cycle` loads twice, so that what one load leaves behind (a process still in
a call, a stale probe) meets the next one. It may end for good, and so may a client
whose listener raised and a replay, so these runs do not check deadlock. In `session` a
second task makes unrecorded calls of its own. In `replay`, four calls are enough
for a descriptor to be mapped, closed, given to another file and closed again,
since the snapshot has descriptor 0 open; for a mapped file to get another
descriptor than recorded, after a simulated open took none; and for an open of
descriptor 1 and a read between two writes to it, which tells whether output is taken
before or after the memory copies. With buffers of two bytes a write can be full, short
or failed. The
missing record may be any of them; that more are missing is left to
`LossIsNoticedAlways`.

In `data_path`, copies are three bytes long: one and a half words, so that the last
word is filled in part. One starts where that word is mapped, one where it ends
outside the mapping, and one at the last byte that is mapped, so that it fails half way;
one is empty. There is a write of each kind: full, of no bytes, to another descriptor,
failed, short in the middle of memory, and short because memory ends. A byte has four
values and a long two bytes, so that every length and address fits and -1 does not,
unsigned. Two stores let a copy follow a failing one, or overwrite it. The file is cut
anywhere where the process made at most one store (`CutWrites`): that already has
a record with copies after, and before, one without. The theorems lift these bounds.

Fairness (`FairSpec`). The kernel runs a handler that has started to its end:
weak fairness of each step of a hook or a read that does not sleep. Who waits for
the mutex gets it in the end, as kernel mutexes are handed over in order: strong
fairness of the steps that take it, which others may disable again and again.
Nothing is assumed of the processes (a system call may never return), of what is
written to the pid file, of kills, signals, or of reads being started.

`FairLife` adds that `recorder_init` and `recorder_exit` run on once what they wait
for is over. `RemovalEnds` excepts a reader asleep: `remove_proc_entry` waits for
its read, and nothing wakes it when the recorded process makes no calls.
`FairSession` has the listener run: it accepts who has connected, and goes on from
`recv` to its SIGCONT. That it succeeds, that clients come, and all that hooks and
readers do is not assumed.

## Proofs

All proofs are for every value of the constants, under the assumptions their
modules name: for the recorder any number of tasks, readers, records and slots, any
buffer sizes and any `MaxCopies` (`ConstantsAssumption`: the pids and pointers that
stand for "none" are none, a slot at least, natural numbers); any number of loads
(`LoadsAssumption`); recordings of any length and any losses (`ConstantsAssumption` of
`Replayer`).
For the replay also writes of any size, and any one descriptor inherited, or none.
For the data path: any mapped memory, any number of calls and copies, writes to any
descriptor with any outcome, bytes of any number of values, longs and words of any size
(`MemoryAssumption`, `FormatAssumption`, `WordAssumption`), as long as what is dumped as a long fits into one
(`PathAssumption`: addresses, lengths and numbers of copies without a sign, return
values with one).

Each inductive invariant was checked by TLC before it was proved: `IInv`, `DumpInv`,
`LifeInv` and `LossInv` in the runs or beside them, `SessionInv` and `OwnInv` on the
instances of `session` and `life_cycle`, `ReplayInv` on all recordings of three calls
and on those of four, `PathInv` on the instance of `data_path`.

### Recorder

`DumpCorrect`, `DumpInvAlways` and `TypeOKAlways` need nothing more. `DumpInv` says
that a reader is in a dump exactly when it holds the mutex, and then has a record to
take: only the holder takes records off the fifo, and it looks at the fifo with the
mutex held before each. It is inductive with `TypeOK`, whatever the hooks do.

The others are under `Exclusive`. Their invariant is `IInv`. `NoUndefinedUse`
is not inductive: that `current_syscall_record` is live when a return handler uses
it depends on who may free it. `IInv` has three parts, apart because other modules
use them apart:

- `SafeInv`, the ownership argument: `DumpInv`; `ControlInv` (hooks are at work for
  one task, the recorded one, unless it just stopped its own recording, and
  the kretprobe instances match where a task is); `CurrentIsOwned` (the record in
  progress is live and no reader has seen it, until a task is past
  `mutex_unlock`); `FifoIsOwned` (the records in the fifo and in a reader's hand are
  live, distinct and published); `BufferNeverOverrun`.
- `MemoryInv`: `PushedIsLetGo` (past `mutex_unlock`, the record is the readers')
    and `MemoryAccounted`: of each live record, a task in its call or a reader will free it
  (`WillBeFreed`), or a short read lost it (`LeakedByShortRead`), or it is the current
  record and its task was killed (`LeakedByKill`). The last can be one record only, and
  then nothing is recorded any more (`killed_in_syscall`).
- `CopiesInv`: `CopyIsFree` (`current_copy` is null while nobody copies),
  `RecordingIsTrue` (the record that is being filled has the copies of its call so
  far) and `RecordFaithful`.

`TaskKeepsIInv`, `ReaderKeepsIInv` and `PidKeepsIInv` say that each group of actions
preserves it. The last needs `Exclusive`, or that the pid does not change: that is all
the proofs ask of the pid file, and it is why they can be used again below.
`NoUndefinedUseAlways`, `RecordFaithfulAlways`, `BufferNeverOverrunAlways` and
`MemoryAccountedAlways` follow.

`ImplementsStreamAlways`: `Recorder` implements `RecordStream`. The abstract queue
is what a read has written so far, the record in its hand and the fifo, in this
order, so that taking a record is a stutter and the read happens when it returns.

### Life cycle

`LifeInv` needs no `Exclusive`. It relates where the module is to what is
registered (`StageRegisters`, `RemovalOrder`, `RegisteredIsInstalled`) and to who may
be in its code (`UsersAreWaitedFor`: a task in a handler, or with a return probe on
its stack, and a reader in a read, has the `remove_` function that waits for it
still to come). The fifo is freed by the last of them (`FifoComesWithTheHook`), so
`UsersFindTheFifoAlways` follows. When `init_copy_hook` fails half way the copy probes
stay registered while the rest is removed; `NotYetUsed` says that nothing was
recorded by then, so nobody is in a copy handler that no call waits for.
`FailedInitIsUndoneAlways` follows too: the copy probes are all that can be left.

Under `Exclusive`, `OwnInv` carries `SafeInv` through loading and removing. `IInv`
as a whole is not kept: `RemoveCopyHook` disarms return probes in the middle of a
copy, so a record in progress can lose a copy, and the memory of a call cut short is
leaked. In its place `MineIsRecorded` says that who has a record of its own is in a
recorded call, or was killed in one. A record cut short is never read: the dump file is removed first
(`DumpableIsTrue`), and what was returned before stays as it was
(`DeliveredIsTrue`). Hence `ReadsAreFaithfulAlways`, and `OopsOnlyByStaleHookAlways`.

### Session

`SessionInv` holds for any number of clients: the recorded pid, and everyone who has a
record in progress, was snapshot before (`SnapshotsLead`), and from its snapshot to
its recording a client is stopped, unless the snapshot was taken while it
still ran (`StoppedWaits`). `SnapshotIsFirstAlways` and the action property
`FirstCallIsRecordedAlways` follow.

With one client (`ASSUME NEW c, Client = {c}`), `OneClientIInvAlways` proves `IInv`
with no `Exclusive`: the listener writes one pid only, so that after the first write,
which finds nobody recorded, the pid does not change. `NoUndefinedUse` and
`RecordFaithful` follow. With two clients they are false: the second is served while
the first is in a recorded call.

### Replay

`OpenAndCloseAgree` is about recordings of any length: between an open and the close
of what it returned, the search forward from the one and the search backward from
the other find an `mmap` of it, or neither does. So a file that is opened in the tracee
is closed there when the recorded process closed it, and what was not opened is not
closed. The premise leaves out descriptors of `accept`, which is no open to the code.

`LossIsNoticedAlways` is for programs, recordings and losses of any length. Its
invariant is `LossInv`: the recording is no longer than what was executed, and equal to
it if it is as long; the replayer uses up one record for each call of the tracee
(`index = Len(seen) + 1`), up to an exception; the call the tracee is in is one its
program makes. A program that saw what it saw when it was recorded exits after as many
calls as it made then, so the recording has as many records, and is all of it.

The six other properties of a replay that `replay` checks follow from
one invariant, `ReplayInv`. Its parts, beside `LossInv`:

- `ProgramInv`, of the recorded process alone. Its descriptors and their
  openers: a descriptor is that of the last call which returned it
  and was not closed since; a call names an opener whose descriptor is still open.
- `StartInv` and `ValuesInv`: the state before the tracee runs, and types.
- `Tracked`, when the recording is `Reproducible`: a simulation between the
  recorded process and the tracee. `FilesTracked` is its core: after `n` calls the
  tracee has open exactly the files whose open the code decided to make
  (`Opened`) and whose close has not come. Their descriptors are the tracee's own, the
  least that is free; that one exists is `FreeIsFree`. The other parts are the
  mappings, the call the tracee is stopped in (the recorded one, with the
  tracee's descriptor for the recorded one), and the memory and output.

The step that matters is the close. The code decides it by a search backward from the
close, and decided the open by a search forward from the open: `OpenAndCloseAgree`
says that the two agree, so that the tracee closes what it has and nothing else, and
`DescriptorHasOneOpener` that between the two the descriptor was not given to
another call. `MappedIsOpened`, `FileStaysOpen` and `OpenedIsClosed` put this
into terms of `real`. `AnswerIsTracked` and `EntryIsTracked` are then the two halves of a
call, by its kind.

`Reproducible` leaves out recordings with records missing and the two calls that
cannot be reproduced; for those `LossIsNoticedAlways` and `ReplayTypeOKAlways` still hold.

### Data path

`PathInvariant` proves `PathInv`, and the five properties that `data_path` checks follow
from it. It has three parts, one for each stage.

- `RecordingInv`. `Told` is its core: of every address that is not spoiled, the record in
  progress tells what the call has done to it so far, or will: the last copy that covers
  it has its byte (`Results`), or the copy that is under way has (`Pending`), or the
  byte differs from the one `pre_wrap_syscall` saved and `post_wrap_syscall` will find
  it. A later copy hides an earlier one; a byte that is written back in a wrapped call
  is neither found nor told, which is why it is spoiled. `AllRecorded` says the
  same of the finished records, `AllPrinted` that what was
  printed starts where the registers of its call say, is no longer than they say, and
  has the bytes that were there. The number of copies is that of the list, and
  fits into a long.
- `LoaderInv`. What the loader has not taken yet, with what `dd` did not write, is the
  dump of what is not loaded yet: `buffer \o Missing = Left(n)` between two calls
  (`Between`), and the same with the rest of a call's copies between two copies
  (`Within`). If the file ends inside a number, `UnpackRaises` is all that can
  happen; if it ends in the bytes of a copy, these are cut short with no exception, and either
  something is still to be unpacked (`LostWithin`, which raises at the next step)
  or it was the last copy of the last call (`LostAtEnd`).
- `ReplayInv`. What is left of a call's copies makes the memory of the tracee the one the
  recorded process had after the call (`Reproduces`, with `Results` again), and between
  two calls it is that memory (`Reproduced`).

The lemmas are those of the operators. `LongFact`, `UnsignedOfLong` and `SignedOfLong`: a
number that fits survives being written as a long and read back, with or without a
sign. `RecordLength` is `get_record_len` against the bytes written. `Unpacked`,
`UnpackedCall`, `UnpackedCopy`: what a step of the loader takes from the front.
`WordsWriteTheBuffer`: with `Target` the memory as it is when the rest of the buffer is
in it, a step that writes a word keeps `Target`; the bytes of the last word that follow
the buffer are those that were there. `WordsReadTheBuffer`: of the words that
are read, the bytes asked for are kept and the others dropped.

These are inductions over data: over the digits of a number, the copies of a record, the
records of a dump, the bytes of a buffer. The library's induction theorems take an
operator, which the installed provers do not instantiate, so `Recursion` does without:
induction is about a set of numbers (`Induction`, from `LeastNumber`: a set of numbers
that is not empty has a least one), and recursion is about a function that is applied
again and again (`IterationExists`). From these come the facts about `FlattenSeq`
and the sums of the library's folds.

### Only checked

Liveness is only checked: `PostSyscallEnds`, `NonBlockingReadEnds`,
`WokenReaderReads`, `RemovalEnds` and `StoppedClientResumes` (TLAPS does not treat
fairness, nor `ENABLED`). Every other property of a passing run is a theorem.
The properties that are violated have their counterexamples.

## Findings

- `lost_wakeup`: `read_proc` unlocks, and only then calls `prepare_to_wait` and
  `schedule`. A record pushed in between wakes nobody who sleeps: the reader was on
  the queue, but running. It sleeps beside a fifo that is not empty until the next
  record.
- `short_read`: a record is off the fifo before its length is compared with the
  room left. If it is not the first of the read, the read succeeds and the record is
  gone (and never freed).
- `killed_in_syscall`: a task killed in a recorded call leaves
  `current_syscall_record` set, and every later `pre_syscall` refuses.
- `open_descriptor`: `open` is made for real for a file that is mapped, and the
  tracee, in which simulated opens took no descriptor, gets a lower one than was
  recorded. `raise_on_unexpected_return_value` ignores that for `openat` and not for
  `open`.
- `unwritten_copy`: `write_buffer_to_tracee` reads the word that its last bytes are in
  before it writes it. Where the mapping ends inside that word, `PTRACE_PEEKTEXT` fails
  and the replay raises, though the kernel could write the bytes when it recorded.

What the models show besides. The output of a write that was short or failed is replayed
in full, since `replayer.py:69-75` does not read the return value, and the replay raises
where the rest of its buffer is not mapped. That is against `replayer.py:150`,
"recreating the exact same execution as in the recording", and `conftest.py:157`
of the replayer's integration tests, which asserts that both outputs are equal.
`OutputReplayed` and `OutputReproduced` say exactly how far the output agrees. Then,
where no line of the repository claims otherwise:
the stale copy probes of a failed `init_copy_hook`; a client whose SIGCONT comes
before its SIGSTOP stays stopped; the snapshot may be taken of a client that has not
stopped yet; an exception ends the listener with its client stopped; the two calls
that are `Irreproducible`; an error that is recorded and returned again raises, where
the call is made for real and validated (`munmap`); a dump that ends in the bytes of
its last copy is loaded as if it were whole; a wrapped call that copies a byte through
a hook and then stored the old byte back without one would be recorded as if it had not
stored it. The last came out of the proof: `Told` does not hold of such a byte.

## Not modelled

- `cpyrecorder`: unfinished. `get_and_set_stop_type` returns -1 and has no caller,
  `stop_type` stays -1 and the trace function never stops; there is no behaviour to
  state a property of. How it finds out that it is replayed is listed as a hazard.
- `cli.py`: argument parsing and one call each. `restore_from_snapshot` and what
  `take_snapshot` has criu do: I/O in another program. The models take the restored
  process to be the one that was snapshot.
- `stop_recording` and the tests' use of the pid file are `WriteProc`.
- A write to the pid file that does not parse, and messages to the log, change nothing.
- A process that disappears while it is traced: every ptrace call but the
  reads and writes of words succeeds.

## Plan

Done: the recorder, its abstract specification, life cycle, session, replayer and
data path, checked; every safety property that a passing run checks, proved. What is
left:

1. A refinement of the replay: the recorded process as the abstract specification of
   the tracee, from `Tracked`.
2. The interleavings of `Recorder` with the bytes of `DataPath` in one specification:
   now a copy is a name in the one and bytes of one process in the other.
3. `cpyrecorder`, once it can stop.
