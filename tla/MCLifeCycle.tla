----------------------------- MODULE MCLifeCycle -----------------------------
(* Small instances of LifeCycle. *)
EXTENDS LifeCycle

CONSTANTS t1, d1, r1, r2
=============================================================================
