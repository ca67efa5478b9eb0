---------------------------- MODULE RecordStream ----------------------------
(***************************************************************************)
(* What the recorder promises the readers of /proc/syscall_dumper: the     *)
(* finished records form one queue, and a read that succeeds takes some    *)
(* records off its head, all at once, and returns them in order.  It may   *)
(* lose the record that follows them.  A read that fails loses at least    *)
(* one record and returns none.                                            *)
(***************************************************************************)
EXTENDS Naturals, Sequences

CONSTANTS Record, Reader

VARIABLES
  queue,   \* the finished records that no read has removed
  stream,  \* stream[d]: what reads have returned to reader d
  used     \* the records finished so far

streamVars == <<queue, stream, used>>

Init ==
  /\ queue = <<>>
  /\ stream = [d \in Reader |-> <<>>]
  /\ used = {}

(* A record is finished, once. *)
Finish(r) ==
  /\ r \in Record \ used
  /\ queue' = Append(queue, r)
  /\ used' = used \cup {r}
  /\ UNCHANGED stream

From(n) == SubSeq(queue, n + 1, Len(queue))

(* A read returns the first n records, and loses the next lost ones. *)
Return(d, n, lost) ==
  /\ n + lost <= Len(queue)
  /\ stream' = [stream EXCEPT ![d] = @ \o SubSeq(queue, 1, n)]
  /\ queue' = From(n + lost)
  /\ UNCHANGED used

(* A read fails, and loses the first n records. *)
Fail(n) ==
  /\ n <= Len(queue)
  /\ queue' = From(n)
  /\ UNCHANGED <<stream, used>>

Next ==
  \/ \E r \in Record : Finish(r)
  \/ \E d \in Reader, n \in 1..Len(queue), lost \in 0..1 : Return(d, n, lost)
  \/ \E n \in 1..Len(queue) : Fail(n)

Spec == Init /\ [][Next]_streamVars
=============================================================================
