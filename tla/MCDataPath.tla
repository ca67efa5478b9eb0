----------------------------- MODULE MCDataPath -----------------------------
(* Small instances of DataPath. *)
EXTENDS DataPath

MCSource == <<1, 0, 2>>
MCNewSource == <<0, 1, 2>>
MCCopyArgs == ({2, 3, 5} \X {3}) \cup {<<2, 0>>}
MCReturns == {-1}

(* Full writes, one of no bytes and one to another descriptor; short ones, *)
(* where memory ends and before; and one that fails.                       *)
MCWriteCalls ==
  {<<1, 2, 3, 3>>, <<1, 2, 0, 0>>, <<2, 2, 3, 3>>, <<1, 4, 3, 2>>,
   <<1, 2, 3, 1>>, <<1, 2, 3, -1>>}
=============================================================================
