----------------------------- MODULE UploadRpc -----------------------------
(***************************************************************************)
(* The UploadStore service between the upload worker and the receiver:     *)
(* requests travel in order, the worker has one call under way at a time,  *)
(* and a call that timed out leaves its request in flight without anybody  *)
(* waiting for the answer.                                                 *)
(*                                                                         *)
(* A directory's content is a set of whole files.  A file is Size[f]       *)
(* chunks long; manifest.sha256 is the file Manifest and lists the others. *)
(***************************************************************************)
EXTENDS Naturals, Sequences, FiniteSets

CONSTANTS
    Dir,       \* event directories
    File,      \* files of a complete directory
    Manifest,  \* manifest.sha256
    Size,      \* chunks of each file, 0 for an empty one
    MaxFaults  \* bound: lost or late messages, failed writes and renames

ASSUME FilesAssumption == /\ IsFiniteSet(File) /\ Manifest \in File
                          /\ File # {Manifest}
                          /\ Size \in [File -> Nat]
ASSUME FaultsAssumption == MaxFaults \in Nat

VARIABLES
    net,      \* requests in flight; live marks the one being waited for
    held,     \* the END being carried out is the one being waited for
    reply,    \* the answer to the live request, once there is one
    serving,  \* the receiver's service is up and discovered
    faults    \* faults so far

rpcVars == <<net, held, reply, serving, faults>>

(* The chunks of files of these sizes, and their number.                   *)
Chunks(size) == UNION {{f} \X (1 .. size[f]) : f \in DOMAIN size}
Amount(size) == Cardinality(Chunks(size))

(* The answer that has not arrived, and the two that can.                  *)
NoReply == [ok |-> FALSE, bytes |-> 0, there |-> FALSE]
Answer(ok, bytes) == [ok |-> ok, bytes |-> bytes, there |-> TRUE]

Begin(d, files, bytes) == [op |-> "BEGIN", dir |-> d, file |-> Manifest, off |-> 0,
                           files |-> files, bytes |-> bytes, live |-> TRUE]
Chunk(d, f, off) == [op |-> "FILE_CHUNK", dir |-> d, file |-> f, off |-> off,
                     files |-> 0, bytes |-> Size[f], live |-> TRUE]
End(d) == [op |-> "END", dir |-> d, file |-> Manifest, off |-> 0,
           files |-> 0, bytes |-> 0, live |-> TRUE]

(* Chunks of one file request: an empty file has one of length zero.       *)
Length(r) == IF r.bytes = 0 THEN 0 ELSE 1

RpcInit == net = <<>> /\ held = FALSE /\ reply = NoReply /\ serving = TRUE /\ faults = 0

(* async_send_request                                                      *)
Send(r) == /\ net' = Append(net, r) /\ reply' = NoReply
           /\ UNCHANGED <<held, serving, faults>>

(* remove_pending_request: whatever is still in flight is answered to      *)
(* nobody.                                                                 *)
Forsake == /\ net' = [i \in DOMAIN net |-> [net[i] EXCEPT !.live = FALSE]]
           /\ held' = FALSE /\ reply' = NoReply
           /\ UNCHANGED serving

(* One more fault, while the bound allows it.                              *)
Fault == faults < MaxFaults /\ faults' = faults + 1

(* Will the live request still be answered?                                *)
AnswerDue == reply.there \/ held \/ \E i \in DOMAIN net : net[i].live

(* A request or an answer is lost on the way.                              *)
LoseRequest ==
    /\ Fault /\ net # <<>>
    /\ net' = Tail(net)
    /\ UNCHANGED <<held, reply, serving>>

LoseAnswer ==
    /\ Fault /\ reply.there
    /\ reply' = NoReply
    /\ UNCHANGED <<net, held, serving>>
=============================================================================
