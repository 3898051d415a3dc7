---------------------------- MODULE MCRetention ----------------------------
(* Small instances of the retention sweep.                                 *)
EXTENDS Retention, TLC

CONSTANTS d1, d2, d3

ThreeDirs == {d1, d2, d3}
MixedSizes == (d1 :> 1) @@ (d2 :> 2) @@ (d3 :> 2)
=============================================================================
