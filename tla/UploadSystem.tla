---------------------------- MODULE UploadSystem ----------------------------
(***************************************************************************)
(* The upload path end to end: the upload worker, the UploadStore service  *)
(* between them, and the receiver.                                         *)
(***************************************************************************)
EXTENDS UploadWorker, Receiver

vars == <<workerVars, recvVars, rpcVars>>

Init == RpcInit /\ WorkerInit /\ ReceiverInit

(* A transfer nobody works on becomes idle; the one being sent only when   *)
(* a request of it is ten minutes late, which counts as a fault.           *)
GrowIdle ==
    /\ \E d \in Dir :
           /\ TransferIdle(d)
           /\ IF d = snd.dir THEN Fault ELSE UNCHANGED faults
    /\ UNCHANGED <<workerVars, net, held, reply, serving>>

Receive == ServeRequest /\ UNCHANGED workerVars

Next == \/ WorkerNext /\ UNCHANGED recvVars
        \/ Receive
        \/ GrowIdle
        \/ (ReceiverCrash \/ ReceiverStart) /\ UNCHANGED workerVars
        \/ (LoseRequest \/ LoseAnswer) /\ UNCHANGED <<workerVars, recvVars>>

Spec == Init /\ [][Next]_vars

(* Both threads are scheduled, time passes, and whoever went down is       *)
(* started again by its supervisor (nothing in the repository does it).    *)
Fairness ==
    /\ WF_vars(Upload /\ UNCHANGED recvVars)
    /\ WF_vars(Receive)
    /\ WF_vars(StartWorker /\ UNCHANGED recvVars)
    /\ WF_vars(ReceiverStart /\ UNCHANGED workerVars)
    /\ \A x \in Dir \X Timers : WF_vars(Elapse(x) /\ UNCHANGED recvVars)
    /\ \A d \in Dir : WF_vars(/\ TransferIdle(d) /\ d # snd.dir
                              /\ UNCHANGED <<workerVars, rpcVars>>)

FairSpec == Spec /\ Fairness

(***************************************************************************)
(* Properties                                                              *)
(***************************************************************************)

(* One type invariant for the composition.                                 *)
TypeOK ==
    /\ \A i \in DOMAIN net : net[i].op \in {"BEGIN", "FILE_CHUNK", "END"} /\ net[i].dir \in Dir
    /\ reply.bytes \in Nat /\ faults \in 0 .. MaxFaults
    /\ snd.pc \in Stages \cup {"rest", "pick", "mark", "release", "down"}
    /\ snd.waiting => snd.pc \in Stages
    /\ todo \subseteq recorded
    /\ attempts \in [Dir -> 0 .. MaxRetries]
    /\ fresh \subseteq Dir \X Timers
    /\ marks \in [Dir -> SUBSET MarkKinds]
    /\ src \in [Dir -> SUBSET File] /\ spotted \subseteq Dir /\ deleting \subseteq recorded
    /\ final \in [Dir -> SUBSET File] /\ backup \in [Dir -> SUBSET File]
    /\ \A d \in Dir : DOMAIN transfers[d].got \subseteq File
    /\ idle \subseteq Open(transfers)

(* A whole copy of the event somewhere in the receiver's inbox.            *)
Kept(d) == File \in {final[d], backup[d]}

(* End to end no recording is lost: from the moment it is complete there   *)
(* is a whole copy at the sender or in the inbox, whatever is lost, late,  *)
(* repeated or half deleted, and whoever crashes.                          *)
DataNeverLost == \A d \in recorded : src[d] = File \/ Kept(d)

(* What retention takes for permission to delete: .uploaded is only there  *)
(* when the receiver holds the whole event.                                *)
UploadedIsKept == \A d \in Dir : "uploaded" \in marks[d] => Kept(d)

(* inbox/<event> is never a part of an event, though a directory that      *)
(* retention half deleted is uploaded again when only .uploaded is gone.   *)
PublishedIsWhole == \A d \in Dir : final[d] \in {{}, File}

(* Retention reads markers one by one while the upload worker changes      *)
(* them.  It never turns to a directory that is being sent; a directory it *)
(* is already deleting may be picked up and sent again, and loses files    *)
(* under the upload, but only when the receiver has the whole of it.       *)
FirstUploadUndisturbed ==
    [][snd.pc \in Stages \cup {"mark"} =>
          \/ src'[snd.dir] = src[snd.dir] /\ (snd.dir \in deleting' => snd.dir \in deleting)
          \/ snd.dir \in deleting /\ Kept(snd.dir)]_vars

(* Publishing a repeated upload in four steps, with a failure or a crash   *)
(* after any of them, the receiver never gives up the copy it has before   *)
(* the new one is in its place.                                            *)
LastCopySurvives == [][\A d \in Dir : Kept(d) => Kept(d)']_vars

(* What the receiver's docstring promises, also when the old copy could    *)
(* not be put back: no failed retry destroys the last complete copy.       *)
RetryKeepsCopy ==
    \A d \in Dir : [](Kept(d) => [](publish.dir # d => Kept(d)))

(* Every completed event is uploaded, or its retries are exhausted and     *)
(* nothing rescans it, once the faults cease.                              *)
Delivered ==
    \A d \in Dir :
        "complete" \in marks[d] /\ src[d] = File
            ~> "uploaded" \in marks[d] \/ (~Rescan /\ "upload_failed" \in marks[d])
=============================================================================
