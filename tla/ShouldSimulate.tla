--------------------------- MODULE ShouldSimulate ---------------------------
(***************************************************************************)
(* should_simulate.py: whether the replayer answers a system call from the *)
(* recording, or lets the tracee make it.  Only a file that is mapped has  *)
(* to be opened, and then closed, in the tracee too.                       *)
(*                                                                         *)
(* A recorded system call is a record: num, its number; fd, the descriptor *)
(* in the register where num has one (rdi of close, r8 of mmap); ret, its  *)
(* return value.                                                           *)
(***************************************************************************)
EXTENDS Integers, Sequences

(* FS_OPEN_SYSTEM_CALL_NUMBERS *)
OpenCalls == {"open", "openat", "socket"}

(* SYS_CALLS_NOT_TO_SIMULATE *)
NotToSimulate == {"mmap", "mprotect", "brk", "munmap"}

IsOpen(s, fd) == s.num \in OpenCalls /\ s.ret = fd
IsClose(s, fd) == s.num = "close" /\ s.fd = fd
IsMmap(s, fd) == s.num = "mmap" /\ s.fd = fd

(* Mutant: the search starts after the next call. *)
FdAppearsInMmapLate(fd, calls, at) ==
  \E i \in (at + 2)..Len(calls) :
    /\ IsMmap(calls[i], fd)
    /\ \A j \in at..(i - 1) : ~IsClose(calls[j], fd)

(* Of the calls from at on that close or map fd, the first one maps it. *)
FdAppearsInMmapBeforeClose(fd, calls, at) ==
  \E i \in at..Len(calls) :
    /\ IsMmap(calls[i], fd)
    /\ \A j \in at..(i - 1) : ~IsClose(calls[j], fd)

(* Mutant: the call just before is not looked at. *)
MmapAppearsEarlier(fd, calls, at) ==
  \E i \in 1..(at - 2) :
    /\ IsMmap(calls[i], fd)
    /\ \A j \in (i + 1)..(at - 2) : ~IsOpen(calls[j], fd)

(* Of the calls before at that open or map fd, the last one maps it. *)
MmapAppearsAfterOpen(fd, calls, at) ==
  \E i \in 1..(at - 1) :
    /\ IsMmap(calls[i], fd)
    /\ \A j \in (i + 1)..(at - 1) : ~IsOpen(calls[j], fd)

(* HANDLERS: socket has none, and is simulated. *)
ShouldSimulate(calls, at) ==
  LET call == calls[at]
  IN  CASE call.num \in {"open", "openat"} ->
             ~FdAppearsInMmapBeforeClose(call.ret, calls, at)
        [] call.num = "close" -> ~MmapAppearsAfterOpen(call.fd, calls, at)
        [] OTHER -> call.num \notin NotToSimulate
=============================================================================
