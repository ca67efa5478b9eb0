--------------------------- MODULE SessionProofs ---------------------------
(***************************************************************************)
(* Proofs about RecordingSession.  SessionInv is proved for any number of  *)
(* clients; for one client the session never breaks what Exclusive asks of *)
(* whoever writes the pid file, and IInv holds.                            *)
(***************************************************************************)
EXTENDS RecordingSession, RecorderProofs

(* What the session sees of a hook that runs. *)
LEMMA TaskIsSeen ==
  ASSUME NEW t \in Task, TaskStep(t),
         TypeOK
  PROVE  /\ \A u \in Task \ {t} : tpc'[u] = tpc[u] /\ probes'[u] = probes[u]
         /\ tpc'[t] = "pre" \/ "syscall" \in probes'[t]
              => \/ tpc[t] = "pre" \/ "syscall" \in probes[t]
                 \/ tpc[t] = "user" /\ recorded_process_pid = t
<1> DEFINE Seen ==
      /\ \A u \in Task \ {t} : tpc'[u] = tpc[u] /\ probes'[u] = probes[u]
      /\ tpc'[t] = "pre" \/ "syscall" \in probes'[t]
           => \/ tpc[t] = "pre" \/ "syscall" \in probes[t]
              \/ tpc[t] = "user" /\ recorded_process_pid = t
<1> USE DEF TypeOK, Goto, Oops, TaskPC, Probe, hookVars
<1>1. ASSUME NEW nr \in {"execve", "exit", "other"}, PreSyscallSkips(t, nr)
      PROVE  Seen
  BY <1>1 DEF PreSyscallSkips
<1>2. CASE PreSyscallAllocates(t)
  BY <1>2 DEF PreSyscallAllocates
<1>3. ASSUME NEW r \in Record, NewRecord(t, r)
      PROVE  Seen
  BY <1>3 DEF NewRecord
<1>4. CASE NoRecord(t) \/ PreCopyAllocates(t) \/ PreCopySkips(t)
  BY <1>4 DEF NoRecord, PreCopyAllocates, PreCopySkips
<1>5. CASE NewCopy(t) \/ NoCopy(t) \/ PostCopy(t) \/ PostCopyFailed(t)
  BY <1>5 DEF NewCopy, NoCopy, PostCopy, PostCopyFailed
<1>6. CASE \/ PostCopyOops(t) \/ PostWrapOops(t) \/ PostSyscallOops(t)
           \/ DropRecordOops(t)
  BY <1>6 DEF PostCopyOops, PostWrapOops, PostSyscallOops, DropRecordOops
<1>7. CASE PreWrap(t)
  BY <1>7 DEF PreWrap
<1>8. ASSUME NEW cs \in {<<>>, <<t>>}, PostWrap(t, cs)
      PROVE  Seen
  BY <1>8 DEF PostWrap
<1>9. CASE ReturnUnrecorded(t) \/ PostSyscall(t)
  BY <1>9 DEF ReturnUnrecorded, PostSyscall
<1>10. CASE PostSyscallUndefined(t) \/ EndRecord(t) \/ Killed(t)
  BY <1>10 DEF PostSyscallUndefined, EndRecord, Killed
<1>11. CASE PushRecord(t) \/ DropRecord(t)
  BY <1>11 DEF PushRecord, DropRecord
<1>12. ASSUME NEW pid \in Task \cup {NoPid}, WriteProc(t, pid)
      PROVE  Seen
  BY <1>12 DEF WriteProc
<1> HIDE DEF TypeOK
<1> QED
  BY <1>1, <1>2, <1>3, <1>4, <1>5, <1>6, <1>7, <1>8, <1>9, <1>10, <1>11,
     <1>12
  DEF TaskStep

(* A task that does not run is where it was; one that is killed is dead. *)
LEMMA KilledIsDead ==
  ASSUME NEW t \in Task, Killed(t),
         TypeOK
  PROVE  /\ TaskStep(t)
         /\ UNCHANGED recorded_process_pid
         /\ tpc'[t] = "dead"
  BY DEF Killed, TaskStep, Goto, TypeOK, recordVars

----------------------------------------------------------------------------
(* The client's own steps, which leave the recorder alone. *)
LEMMA ClientKeepsSessionInv ==
  ASSUME SessionInv, NEW t \in Client,
         Connect(t) \/ SendRequest(t) \/ StopsItself(t)
  PROVE  SessionInv'
<1> USE ClientsAreTasks DEF SessionInv
<1>1. UNCHANGED <<vars, listener, serving, imageVars>>
  BY DEF Connect, SendRequest, StopsItself
<1>2. UNCHANGED <<recorded_process_pid, tpc, probes, snapshots, awaiting,
                  live>>
  BY <1>1 DEF vars, hookVars, recordVars, imageVars
<1>3. /\ phase[t] # "stopped"
      /\ tpc[t] = "body"
      /\ \E p \in Phase : phase' = [phase EXCEPT ![t] = p]
  BY DEF Connect, SendRequest, StopsItself, Enters, Calls, Phase
<1>4. SessionTypeOK'
  <2>1. backlog' \in Seq(Client) /\ early' \subseteq Client
    BY AppendProperties
       DEF Connect, SendRequest, StopsItself, SessionTypeOK
  <2> QED
    BY <1>1, <1>2, <1>3, <2>1 DEF SessionTypeOK
<1>5. DumpInv' /\ SnapshotsLead'
  BY <1>1, <1>2, DumpInvStep DEF SnapshotsLead, Recording
<1>6. StoppedWaits'
  BY <1>1, <1>2, <1>3 DEF StoppedWaits, SessionTypeOK
<1> QED
  BY <1>4, <1>5, <1>6

(* The listener: serving is a client until it is continued. *)
LEMMA ListenerKeepsSessionInv ==
  ASSUME SessionInv, ListenerStep
  PROVE  SessionInv'
<1> USE ClientsAreTasks DEF SessionInv
<1>0. listener # "accept" => serving \in Client
  BY DEF SessionTypeOK
<1>1. ASSUME UNCHANGED <<vars, imageVars, phase>>,
             listener \notin {"start"}, listener' \notin {"start", "continue"},
             SessionTypeOK'
      PROVE  SessionInv'
  <2>1. UNCHANGED <<recorded_process_pid, tpc, probes, snapshots, awaiting,
                    live>>
    BY <1>1 DEF vars, hookVars, recordVars, imageVars
  <2>2. DumpInv' /\ SnapshotsLead'
    BY <1>1, <2>1, DumpInvStep DEF SnapshotsLead, Recording
  <2>3. StoppedWaits'
    BY <1>1, <2>1 DEF StoppedWaits
  <2> QED
    BY <1>1, <2>2, <2>3
<1>2. CASE Accept
  <2>1. /\ serving' \in Client /\ backlog' \in Seq(Client)
        /\ listener' = "recv" /\ UNCHANGED <<vars, phase, imageVars, early>>
        /\ listener = "accept"
    BY <1>2, HeadTailProperties DEF Accept, SessionTypeOK
  <2>2. SessionTypeOK'
    BY <2>1 DEF SessionTypeOK, imageVars
  <2> QED
    BY <1>1, <2>1, <2>2
<1>3. CASE Recv \/ RecvRaises \/ SnapshotRaises \/ ContinueRaises
  <2>1. /\ listener' \in {"snapshot", "raised"}
        /\ listener \notin {"accept", "start"}
        /\ UNCHANGED <<vars, phase, backlog, serving, imageVars, early>>
    BY <1>3 DEF Recv, RecvRaises, SnapshotRaises, ContinueRaises, AfterRecv
  <2>2. SessionTypeOK'
    BY <2>1 DEF SessionTypeOK, imageVars
  <2> QED
    BY <1>1, <2>1, <2>2
<1>4. CASE TakeSnapshot
  <2>1. /\ serving \in Client /\ listener = "snapshot" /\ listener' = "start"
        /\ snapshots' = snapshots \cup {serving}
        /\ awaiting' = awaiting \cup {serving}
        /\ live' = IF phase[serving] = "stopped" THEN live \ {serving}
                                                ELSE live \cup {serving}
        /\ UNCHANGED <<vars, phase, backlog, serving, early>>
    BY <1>0, <1>4 DEF TakeSnapshot, AfterSnapshot
  <2>2. UNCHANGED <<recorded_process_pid, tpc, probes>>
    BY <2>1 DEF vars, hookVars, recordVars
  <2>3. SessionTypeOK'
    BY <2>1 DEF SessionTypeOK
  <2>4. DumpInv' /\ SnapshotsLead'
    BY <2>1, <2>2, DumpInvStep DEF SnapshotsLead, Recording
  <2>5. StoppedWaits'
    BY <2>1, <2>2 DEF StoppedWaits
  <2> QED
    BY <2>3, <2>4, <2>5
<1>5. CASE ListenerStartsRecording
  <2>1. /\ serving \in Client /\ listener = "start" /\ listener' = "continue"
        /\ StartRecording(serving)
        /\ awaiting' = awaiting \ {serving}
        /\ UNCHANGED <<phase, backlog, serving, snapshots, live, early>>
    BY <1>0, <1>5 DEF ListenerStartsRecording
  <2>2. recorded_process_pid' = serving /\ UNCHANGED <<tpc, probes>>
    BY <2>1 DEF StartRecording
  <2>3. SessionTypeOK'
    BY <2>1 DEF SessionTypeOK
  <2>4. DumpInv'
    BY <2>1, DumpInvStep DEF Next
  <2>5. SnapshotsLead'
    BY <2>1, <2>2 DEF SnapshotsLead, Recording
  <2>6. StoppedWaits'
    BY <2>1, <2>2 DEF StoppedWaits
  <2> QED
    BY <2>3, <2>4, <2>5, <2>6
<1>6. CASE Continue
  <2>1. /\ serving \in Client /\ listener = "continue"
        /\ listener' = "accept" /\ serving' = Nobody
        /\ \/ phase' = [phase EXCEPT ![serving] = "resumed"]
              /\ UNCHANGED early
           \/ early' = early \cup {serving} /\ UNCHANGED phase
        /\ UNCHANGED <<vars, backlog, imageVars>>
    BY <1>0, <1>6 DEF Continue, Signal, LoopsOn, Enters
  <2>2. UNCHANGED <<recorded_process_pid, tpc, probes, snapshots, awaiting,
                    live>>
    BY <2>1 DEF vars, hookVars, recordVars, imageVars
  <2>3. SessionTypeOK'
    BY <2>1, <2>2 DEF SessionTypeOK, Phase
  <2>4. DumpInv' /\ SnapshotsLead'
    BY <2>1, <2>2, DumpInvStep DEF SnapshotsLead, Recording
  <2>5. StoppedWaits'
    BY <2>1, <2>2 DEF StoppedWaits, SessionTypeOK
  <2> QED
    BY <2>3, <2>4, <2>5
<1> QED
  BY <1>2, <1>3, <1>4, <1>5, <1>6 DEF ListenerStep

(* The tasks and the readers, while a stopped client can only be killed. *)
LEMMA TaskKeepsSessionInv ==
  ASSUME SessionInv, NEW t \in Task, TaskRuns(t) \/ KilledStopped(t)
  PROVE  SessionInv'
<1> USE ClientsAreTasks DEF SessionInv
<1>1. /\ TaskStep(t) /\ UNCHANGED recorded_process_pid
      /\ UNCHANGED sessionVars
      /\ Stopped(t) => tpc'[t] = "dead"
  BY KilledIsDead DEF TaskRuns, KilledStopped, DumpInv
<1>2. /\ \A u \in Task \ {t} : tpc'[u] = tpc[u] /\ probes'[u] = probes[u]
      /\ tpc'[t] = "pre" \/ "syscall" \in probes'[t]
           => \/ tpc[t] = "pre" \/ "syscall" \in probes[t]
              \/ tpc[t] = "user" /\ recorded_process_pid = t
  BY <1>1, TaskIsSeen DEF DumpInv
<1>3. SessionTypeOK'
  BY <1>1 DEF SessionTypeOK, sessionVars, imageVars
<1>4. DumpInv'
  BY <1>1, TaskKeepsDumpInv
<1>5. SnapshotsLead'
  BY <1>1, <1>2, ConstantsAssumption
     DEF SnapshotsLead, Recording, sessionVars, imageVars
<1>6. StoppedWaits'
  BY <1>1, <1>2 DEF StoppedWaits, Stopped, sessionVars, imageVars
<1> QED
  BY <1>3, <1>4, <1>5, <1>6

LEMMA ReaderKeepsSessionInv ==
  ASSUME SessionInv, NEW d \in Reader, ReaderRuns(d)
  PROVE  SessionInv'
<1>1. /\ ReaderStep(d) /\ UNCHANGED sessionVars
      /\ UNCHANGED <<recorded_process_pid, tpc, probes>>
  BY ReaderFrame DEF ReaderRuns, hookVars, recordVars
<1>2. DumpInv'
  BY <1>1, ReaderKeepsDumpInv DEF SessionInv
<1> QED
  BY <1>1, <1>2 DEF SessionInv, SessionTypeOK, SnapshotsLead, StoppedWaits,
     Recording, sessionVars, imageVars

LEMMA SessionInvStep ==
  ASSUME SessionInv, [SessionNext]_<<vars, sessionVars>>
  PROVE  SessionInv'
<1>1. CASE UNCHANGED <<vars, sessionVars>>
  <2>1. UNCHANGED <<recorded_process_pid, tpc, probes>>
    BY <1>1 DEF vars, hookVars, recordVars
  <2>2. DumpInv'
    BY <1>1, DumpInvStep DEF SessionInv
  <2> QED
    BY <1>1, <2>1, <2>2 DEF SessionInv, SessionTypeOK, SnapshotsLead,
       StoppedWaits, Recording, sessionVars, imageVars
<1> QED
  BY <1>1, ClientKeepsSessionInv, ListenerKeepsSessionInv,
     TaskKeepsSessionInv, ReaderKeepsSessionInv DEF SessionNext

LEMMA InitSessionInv == SessionInit => SessionInv
<1> SUFFICES ASSUME SessionInit PROVE SessionInv
  OBVIOUS
<1>1. DumpInv
  BY InitIInv DEF SessionInit, IInv, SafeInv
<1>2. SessionTypeOK
  <2>1. backlog \in Seq(Client)
    BY EmptySeq DEF SessionInit
  <2> QED
    BY <2>1, ClientsAreTasks DEF SessionInit, SessionTypeOK, Phase
<1>3. SnapshotsLead /\ StoppedWaits
  BY DEF SessionInit, Init, SnapshotsLead, StoppedWaits, Recording
<1> QED
  BY <1>1, <1>2, <1>3 DEF SessionInv

----------------------------------------------------------------------------
(***************************************************************************)
(* Whatever the scheduling of clients, listener and recorder: who is, or   *)
(* is about to be, recorded has a snapshot, and a client whose snapshot    *)
(* was taken while it was stopped waits for its recording to start.        *)
(***************************************************************************)
THEOREM SessionInvAlways == SessionSpec => []SessionInv
<1>1. SessionInit => SessionInv
  BY InitSessionInv
<1>2. SessionInv /\ [SessionNext]_<<vars, sessionVars>> => SessionInv'
  BY SessionInvStep
<1> QED
  BY <1>1, <1>2, PTL DEF SessionSpec

(* Every variable of the session has its type. *)
THEOREM SessionTypeOKAlways == SessionSpec => []SessionTypeOK
<1>1. SessionInv => SessionTypeOK
  BY DEF SessionInv
<1> QED
  BY <1>1, SessionInvAlways, PTL

(* So no call of a client is recorded before its snapshot was taken. *)
THEOREM SnapshotIsFirstAlways == SessionSpec => []SnapshotIsFirst
<1>1. SessionInv => SnapshotIsFirst
  BY ClientsAreTasks DEF SessionInv, SnapshotsLead, SnapshotIsFirst
<1> QED
  BY <1>1, SessionInvAlways, PTL

(***************************************************************************)
(* And a client that was stopped for its snapshot starts no call that its  *)
(* recording would miss.                                                   *)
(***************************************************************************)
THEOREM FirstCallIsRecordedAlways == SessionSpec => FirstCallIsRecorded
<1>1. ASSUME SessionInv, NEW t \in Client, tpc[t] = "user"
      PROVE  t \in live \/ t \notin awaiting
  BY <1>1 DEF SessionInv, StoppedWaits
<1>2. SessionInv
        => [\A t \in Client :
              tpc[t] = "user" /\ tpc'[t] \notin {"user", "dead"}
                => t \in live \/ t \notin awaiting]_<<vars, sessionVars>>
  BY <1>1
<1> QED
  BY <1>2, SessionInvAlways, PTL DEF FirstCallIsRecorded

----------------------------------------------------------------------------
(***************************************************************************)
(* With one client the pid is written once, or again with the same value,  *)
(* and no other task ever has hooks at work.                               *)
(***************************************************************************)
LEMMA OneClientKeepsIInv ==
  ASSUME NEW c, Client = {c},
         SessionInv, IInv, [SessionNext]_<<vars, sessionVars>>
  PROVE  IInv'
<1> USE ClientsAreTasks, ConstantsAssumption
<1>1. CASE ListenerStartsRecording
  <2>1. /\ serving = c /\ StartRecording(c)
        /\ snapshots \subseteq {c} /\ c \in Task
    BY <1>1 DEF ListenerStartsRecording, SessionInv, SessionTypeOK
  <2>2. /\ OneTaskAtWork /\ ProbesMatchControl
        /\ \A t \in Task : probes[t] \subseteq {"syscall", "wrap"}
        /\ recorded_process_pid \in {c, NoPid}
    BY <2>1 DEF IInv, SafeInv, ControlInv, DumpInv, TypeOK, Probe,
       SessionInv, SnapshotsLead
  <2>3. ASSUME NEW t \in Task, Busy(t)
        PROVE  t = c
    <3>1. CASE recorded_process_pid = t
      BY <2>2, <3>1
    <3>2. CASE tpc[t] \in {"ret", "post", "unlocked"}
      <4>1. probes[t] # {} /\ "wrap" \notin probes[t]
        BY <2>2, <2>3, <3>2 DEF ProbesMatchControl, Busy
      <4>2. "syscall" \in probes[t]
        BY <2>2, <4>1
      <4> QED
        BY <2>1, <4>2 DEF SessionInv, SnapshotsLead, Recording
    <3> QED
      BY <2>2, <2>3, <3>1, <3>2 DEF OneTaskAtWork
  <2>4. OneTaskAtWork'
    BY <2>1, <2>3 DEF StartRecording, OneTaskAtWork, Busy
  <2> QED
    BY <2>1, <2>4, PidKeepsIInv DEF StartRecording
<1>2. ASSUME NEW t \in Task, TaskRuns(t) \/ KilledStopped(t)
      PROVE  IInv'
  BY <1>2, KilledIsDead, TaskKeepsIInv
     DEF TaskRuns, KilledStopped, PidIsSafe, SessionInv, DumpInv
<1>3. CASE UNCHANGED vars
  BY <1>3, VarsKeepIInv
<1> QED
  BY <1>1, <1>2, <1>3, ReaderKeepsIInv DEF SessionNext, ListenerStep, Connect,
     SendRequest, StopsItself, Accept, Recv, RecvRaises, TakeSnapshot,
     SnapshotRaises, Continue, ContinueRaises, ReaderRuns

THEOREM OneClientIInvAlways ==
  ASSUME NEW c, Client = {c}
  PROVE  SessionSpec => []IInv
<1>1. SessionInit => IInv
  BY InitIInv DEF SessionInit
<1>2. SessionInv /\ IInv /\ [SessionNext]_<<vars, sessionVars>> => IInv'
  BY OneClientKeepsIInv
<1> QED
  BY <1>1, <1>2, SessionInvAlways, PTL DEF SessionSpec

(***************************************************************************)
(* So the pager's own use of the pid file, for one client, is one under    *)
(* which no hook uses a null or dangling pointer, without Exclusive.       *)
(***************************************************************************)
THEOREM SessionNoUndefinedUseAlways ==
  ASSUME NEW c, Client = {c}
  PROVE  SessionSpec => []NoUndefinedUse
<1>1. IInv => NoUndefinedUse
  BY DEF IInv
<1> QED
  BY <1>1, OneClientIInvAlways, PTL

(* And every record has the copies of its own call, and no others. *)
THEOREM SessionRecordFaithfulAlways ==
  ASSUME NEW c, Client = {c}
  PROVE  SessionSpec => []RecordFaithful
<1>1. IInv => RecordFaithful
  BY DEF IInv, CopiesInv
<1> QED
  BY <1>1, OneClientIInvAlways, PTL
=============================================================================
