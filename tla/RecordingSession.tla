-------------------------- MODULE RecordingSession --------------------------
(***************************************************************************)
(* Who writes the pid file when processes are recorded through the pager:  *)
(* a client (client.py, called by pyrecorder's record) asks the listener   *)
(* (listener.py) for a snapshot and stops itself; the listener takes the   *)
(* snapshot, has the recorder record the client and continues it.          *)
(***************************************************************************)
EXTENDS Recorder

CONSTANTS
  Client,      \* the tasks whose decorated function is called
  Nobody       \* the listener serves nobody

ASSUME ClientsAreTasks == Client \subseteq Task /\ Nobody \notin Client

VARIABLES
  phase,       \* where each client is in send_request_to_take_snapshot
  backlog,     \* the clients that connected, in order, and were not accepted
  listener,    \* where Listener.run is
  serving,     \* the client it serves
  snapshots,   \* the clients it has taken snapshots of
  awaiting,    \* those that it has not had recorded since
  \* history, for the properties: two steps in an order nobody meant
  live,        \* the clients whose snapshot was taken while they ran
  early        \* the clients continued before they stopped

imageVars == <<snapshots, awaiting, live>>
sessionVars == <<phase, backlog, listener, serving, imageVars, early>>

Phase == {"running", "connected", "sent", "stopped", "resumed"}

SessionTypeOK ==
  /\ phase \in [Client -> Phase]
  /\ backlog \in Seq(Client)
  /\ listener \in {"accept", "recv", "snapshot", "start", "continue", "raised"}
  /\ serving \in Client \cup {Nobody}
  /\ listener = "accept" <=> serving = Nobody
  /\ awaiting \subseteq snapshots /\ live \subseteq snapshots
  /\ snapshots \subseteq Client /\ early \subseteq Client

SessionInit ==
  /\ Init
  /\ phase = [t \in Client |-> "running"]
  /\ backlog = <<>>
  /\ listener = "accept"
  /\ serving = Nobody
  /\ snapshots = {} /\ awaiting = {} /\ live = {}
  /\ early = {}

Enters(t, p) == phase' = [phase EXCEPT ![t] = p]

(* A client makes the calls of the request, which the wrappers leave alone. *)
Calls(t) == tpc[t] = "body" /\ "wrap" \notin probes[t]

----------------------------------------------------------------------------
(* Client.create connects, at each call of the decorated function. *)
Connect(t) ==
  /\ phase[t] \in {"running", "resumed"}
  /\ Calls(t)
  /\ Enters(t, "connected")
  /\ backlog' = Append(backlog, t)
  /\ early' = early \ {t}
  /\ UNCHANGED <<vars, listener, serving, imageVars>>

(* connection.send *)
SendRequest(t) ==
  /\ phase[t] = "connected"
  /\ Calls(t)
  /\ Enters(t, "sent")
  /\ UNCHANGED <<vars, backlog, listener, serving, imageVars, early>>

(* os.kill(self.pid, SIGSTOP): a SIGCONT that came earlier does not count. *)
StopsItself(t) ==
  /\ phase[t] = "sent"
  /\ Calls(t)
  /\ Enters(t, "stopped")
  /\ UNCHANGED <<vars, backlog, listener, serving, imageVars, early>>

----------------------------------------------------------------------------
Accept ==
  /\ listener = "accept"
  /\ backlog # <<>>
  /\ serving' = Head(backlog)
  /\ backlog' = Tail(backlog)
  /\ listener' = "recv"
  /\ UNCHANGED <<vars, phase, imageVars, early>>

(* Mutant: the recording starts and no snapshot is taken. *)
AfterRecvStarts == listener' = "start"

AfterRecv == listener' = "snapshot"

Recv ==
  /\ listener = "recv"
  /\ phase[serving] # "connected"
  /\ AfterRecv
  /\ UNCHANGED <<vars, phase, backlog, serving, imageVars, early>>

(* The client died before it sent: recv raises EOFError. *)
RecvRaises ==
  /\ listener = "recv"
  /\ phase[serving] = "connected"
  /\ tpc[serving] = "dead"
  /\ listener' = "raised"
  /\ UNCHANGED <<vars, phase, backlog, serving, imageVars, early>>

(* Mutant: the client is continued and not recorded. *)
AfterSnapshotContinues == listener' = "continue"

AfterSnapshot == listener' = "start"

(* mkdir, cpager.take_snapshot: whether the client is stopped or runs. *)
TakeSnapshot ==
  /\ listener = "snapshot"
  /\ tpc[serving] # "dead"
  /\ snapshots' = snapshots \cup {serving}
  /\ awaiting' = awaiting \cup {serving}
  /\ live' = IF phase[serving] = "stopped" THEN live \ {serving}
                                          ELSE live \cup {serving}
  /\ AfterSnapshot
  /\ UNCHANGED <<vars, phase, backlog, serving, early>>

SnapshotRaises ==
  /\ listener = "snapshot"
  /\ listener' = "raised"
  /\ UNCHANGED <<vars, phase, backlog, serving, imageVars, early>>

(* km_communicator.start_recording *)
ListenerStartsRecording ==
  /\ listener = "start"
  /\ StartRecording(serving)
  /\ awaiting' = awaiting \ {serving}
  /\ listener' = "continue"
  /\ UNCHANGED <<phase, backlog, serving, snapshots, live, early>>

(* Mutant: the client is not continued. *)
SignalLost == UNCHANGED <<phase, early>>

(* os.kill(pid, SIGCONT): nothing happens to a client that runs. *)
Signal ==
  IF phase[serving] = "stopped"
  THEN Enters(serving, "resumed") /\ UNCHANGED early
  ELSE early' = early \cup {serving} /\ UNCHANGED phase

(* Mutant: the client just served is still being served. *)
LoopsOnServing == listener' = "accept" /\ UNCHANGED serving

LoopsOn == listener' = "accept" /\ serving' = Nobody

Continue ==
  /\ listener = "continue"
  /\ tpc[serving] # "dead"
  /\ Signal
  /\ LoopsOn
  /\ UNCHANGED <<vars, backlog, imageVars>>

(* The client is gone: os.kill raises ProcessLookupError. *)
ContinueRaises ==
  /\ listener = "continue"
  /\ tpc[serving] = "dead"
  /\ listener' = "raised"
  /\ UNCHANGED <<vars, phase, backlog, serving, imageVars, early>>

ListenerStep ==
  \/ Accept
  \/ Recv
  \/ RecvRaises
  \/ TakeSnapshot
  \/ SnapshotRaises
  \/ ListenerStartsRecording
  \/ Continue
  \/ ContinueRaises

----------------------------------------------------------------------------
Stopped(t) == t \in Client /\ phase[t] = "stopped"

(* A task that is not stopped runs, or is killed; nobody writes the pid. *)
TaskRuns(t) ==
  /\ ~Stopped(t)
  /\ TaskStep(t)
  /\ UNCHANGED <<recorded_process_pid, sessionVars>>

KilledStopped(t) ==
  /\ Stopped(t)
  /\ Killed(t)
  /\ UNCHANGED sessionVars

ReaderRuns(d) == ReaderStep(d) /\ UNCHANGED sessionVars

SessionNext ==
  \/ \E t \in Client : Connect(t) \/ SendRequest(t) \/ StopsItself(t)
  \/ ListenerStep
  \/ \E t \in Task : TaskRuns(t) \/ KilledStopped(t)
  \/ \E d \in Reader : ReaderRuns(d)

SessionSpec == SessionInit /\ [][SessionNext]_<<vars, sessionVars>>

(* The listener runs; what it waits for and what it raises is not assumed. *)
FairSession ==
  /\ SessionSpec
  /\ WF_<<vars, sessionVars>>(Accept)
  /\ WF_<<vars, sessionVars>>(Recv \/ TakeSnapshot \/ SnapshotRaises)
  /\ WF_<<vars, sessionVars>>(ListenerStartsRecording)
  /\ WF_<<vars, sessionVars>>(Continue \/ ContinueRaises)

----------------------------------------------------------------------------
(***************************************************************************)
(* The recording starts where the snapshot does: a client starts no call   *)
(* between its snapshot and the start of its recording, which would be in  *)
(* neither.  The exception is a client that the listener was so quick to   *)
(* take the snapshot of that it had not stopped.                           *)
(***************************************************************************)
FirstCallIsRecorded ==
  [][\A t \in Client :
       tpc[t] = "user" /\ tpc'[t] \notin {"user", "dead"}
         => t \in live \/ t \notin awaiting]_<<vars, sessionVars>>

(***************************************************************************)
(* No call of a client is in a record before its snapshot: the snapshot    *)
(* replays the recording from the start.                                   *)
(***************************************************************************)
SnapshotIsFirst ==
  \A t \in Client : t \notin snapshots => ~Recording(t)

(***************************************************************************)
(* A client that stopped itself runs on, unless the listener raised, or    *)
(* waits for another client to send.  The exception is a client that the   *)
(* listener was so quick to continue that it had not stopped.              *)
(***************************************************************************)
StoppedClientResumes ==
  \A t \in Client :
    phase[t] = "stopped" /\ t \notin early
      ~> \/ phase[t] = "resumed"
         \/ tpc[t] = "dead"
         \/ listener = "raised"
         \/ listener = "recv" /\ phase[serving] = "connected"

----------------------------------------------------------------------------
(* The inductive invariant, in named parts, for any number of clients. *)
(* Who is recorded, or will be, has a snapshot. *)
SnapshotsLead ==
  /\ recorded_process_pid \in snapshots \cup {NoPid}
  /\ listener \in {"start", "continue"} => serving \in snapshots
  /\ \A t \in Task : tpc[t] = "pre" \/ Recording(t) => t \in snapshots

(* From the snapshot to the start of its recording a client is stopped. *)
StoppedWaits ==
  /\ \A t \in Client : phase[t] = "stopped" => tpc[t] \in {"body", "dead"}
  /\ awaiting = IF listener = "start" THEN {serving} ELSE {}
  /\ \A t \in awaiting \ live : phase[t] = "stopped"

SessionInv ==
  /\ SessionTypeOK
  /\ DumpInv
  /\ SnapshotsLead
  /\ StoppedWaits
=============================================================================
