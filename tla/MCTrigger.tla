----------------------------- MODULE MCTrigger -----------------------------
(* Small instances of the trigger path.                                    *)
EXTENDS TriggerPath, TLC

CONSTANTS t1, t2, t3, collision

ThreeIds == {t1, t2, t3}
TwoIds == {t1, t2}
OneEvent == [i \in ThreeIds |-> collision]
Symmetry == Permutations(TwoIds)
=============================================================================
