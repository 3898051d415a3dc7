---------------------------- MODULE MCLifecycle ----------------------------
(* Small instances of the status channel.                                  *)
EXTENDS EventLifecycle, TLC

CONSTANTS c1, c2

OneCapture == {c1}
TwoCaptures == {c1, c2}
OneKeyed == {c1}
NoneKeyed == {}
GiveUpOnce == [c \in Capture |-> 1]
GiveUpFirst == [c \in Capture |-> IF c = c1 THEN 1 ELSE 0]
=============================================================================
