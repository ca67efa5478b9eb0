----------------------------- MODULE MCReplayer -----------------------------
(* Small instances of Replayer. *)
EXTENDS Replayer
=============================================================================
