------------------------- MODULE MCRecordingSession -------------------------
(* Small instances of RecordingSession. *)
EXTENDS RecordingSession

CONSTANTS t1, t2, d1, r1, r2
=============================================================================
