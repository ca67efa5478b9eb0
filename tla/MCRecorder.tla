----------------------------- MODULE MCRecorder -----------------------------
(* Small instances of Recorder. *)
EXTENDS Recorder, TLC

CONSTANTS t1, t2, d1, d2, r1, r2, r3

Records == Permutations({r1, r2, r3})
TasksAndRecords == Permutations({t1, t2}) \cup Permutations({r1, r2})
=============================================================================
