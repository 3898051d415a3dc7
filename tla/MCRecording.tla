---------------------------- MODULE MCRecording ----------------------------
(* Bounds for model checking Recording: two events, of which the markers   *)
(* of the second may fail to be written.                                   *)
EXTENDS Recording

CONSTANTS e1, e2

TwoEvents == {e1, e2}
TheSecond == {e2}
=============================================================================
