-------------------------- MODULE EventTransaction --------------------------
(***************************************************************************)
(* What the recording path promises about one event directory, whatever    *)
(* the queue, the worker and crashes do: it is opened once, data may be    *)
(* promised to it only while it is open, and it is closed once.  Closing   *)
(* it as complete means that everything promised is stored, and that this  *)
(* is something.  Only a closed directory is ever deleted.                 *)
(***************************************************************************)
EXTENDS Naturals

CONSTANTS Event, MaxBatch

VARIABLES status,    \* state of each event directory
          promised,  \* records handed over for it
          stored     \* records a complete directory is known to hold

vars == <<status, promised, stored>>

Init == /\ status = [e \in Event |-> "none"]
        /\ promised = [e \in Event |-> 0]
        /\ stored = [e \in Event |-> 0]

Open(e) == /\ status[e] = "none"
           /\ status' = [status EXCEPT ![e] = "open"]
           /\ UNCHANGED <<promised, stored>>

Promise(e, n) == /\ status[e] = "open"
                 /\ promised' = [promised EXCEPT ![e] = @ + n]
                 /\ UNCHANGED <<status, stored>>

Complete(e) == /\ status[e] = "open" /\ promised[e] > 0
               /\ status' = [status EXCEPT ![e] = "complete"]
               /\ stored' = [stored EXCEPT ![e] = promised[e]]
               /\ UNCHANGED promised

Fail(e) == /\ status[e] = "open"
           /\ status' = [status EXCEPT ![e] = "failed"]
           /\ UNCHANGED <<promised, stored>>

Delete(S) == /\ \A e \in S : status[e] \in {"complete", "failed"}
             /\ status' = [e \in Event |-> IF e \in S THEN "deleted" ELSE status[e]]
             /\ stored' = [e \in Event |-> IF e \in S THEN 0 ELSE stored[e]]
             /\ UNCHANGED promised

Next == \/ \E e \in Event : Open(e) \/ Complete(e) \/ Fail(e)
        \/ \E e \in Event, n \in 1 .. MaxBatch : Promise(e, n)
        \/ \E S \in (SUBSET Event) \ {{}} : Delete(S)

Spec == Init /\ [][Next]_vars
=============================================================================
