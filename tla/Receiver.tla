------------------------------ MODULE Receiver ------------------------------
(***************************************************************************)
(* tools/receiver_node.py: stores one directory per transfer in a staging  *)
(* directory and publishes it in the inbox when END validates.  The node   *)
(* is single threaded: a request is served from beginning to end, but the  *)
(* process can die between two steps of publishing.                        *)
(***************************************************************************)
EXTENDS UploadRpc

CONSTANTS MaxActiveTransfers,  \* MAX_ACTIVE_TRANSFERS
          MaxReceiverCrashes,  \* bound: crashes of the receiver
          RestoreMayFail       \* putting the old copy back can raise as well

ASSUME ReceiverAssumption == /\ MaxActiveTransfers \in Nat \ {0}
                             /\ MaxReceiverCrashes \in Nat
                             /\ RestoreMayFail \in BOOLEAN

VARIABLES
    transfers,  \* transfers with a BEGIN and no END yet: [got, files, bytes]
    idle,       \* transfers without activity for TRANSFER_IDLE_SECONDS
    publish,    \* [step, dir] of the END being carried out
    final,      \* content of inbox/<event>, {} if absent (or empty)
    backup,     \* content of inbox/.<event>.backup, {} if absent (or empty)
    deaths      \* crashes of the receiver so far

recvVars == <<transfers, idle, publish, final, backup, deaths>>

(* A transfer keeps the chunks received of each file, as a function from   *)
(* the files seen so far.                                                  *)
NoTransfer == [open |-> FALSE, got |-> <<>>, files |-> 0, bytes |-> 0]
Resting == [step |-> "none", dir |-> "none"]

ReceiverInit ==
    /\ transfers = [d \in Dir |-> NoTransfer]
    /\ idle = {} /\ publish = Resting
    /\ final = [d \in Dir |-> {}] /\ backup = [d \in Dir |-> {}]
    /\ deaths = 0

Open(tr) == {d \in Dir : tr[d].open}

(* prune_idle_transfers.                                                   *)
Pruned == [d \in Dir |-> IF d \in idle THEN NoTransfer ELSE transfers[d]]

Received(got) == Amount(got)

(* The answer goes to the caller if somebody still waits for it.           *)
Respond(live, a) == /\ reply' = IF live THEN a ELSE reply
                    /\ UNCHANGED <<serving, faults>>

(* begin: a new transfer, or the same one from the start.                  *)
BeginAccepts(tr, r) ==
    /\ r.files > 0
    /\ tr[r.dir].open \/ Cardinality(Open(tr)) < MaxActiveTransfers

DoBegin(tr, r) ==
    /\ transfers' = IF BeginAccepts(tr, r)
                    THEN [tr EXCEPT ![r.dir] = [open |-> TRUE, got |-> <<>>,
                                                files |-> r.files, bytes |-> r.bytes]]
                    ELSE tr
    /\ Respond(r.live, Answer(BeginAccepts(tr, r), 0))
    /\ UNCHANGED <<publish, held>>

(* store_chunk: the next chunk of the file is stored, one that is already  *)
(* there is confirmed, anything else is refused.                           *)
DoChunk(tr, r) ==
    LET got == tr[r.dir].got
        have == IF r.file \in DOMAIN got THEN got[r.file] ELSE 0
        end == r.off + Length(r)
        next == r.off = have /\ end <= r.bytes
        ok == next \/ (r.off < have /\ end <= have)
    IN /\ transfers' = [tr EXCEPT ![r.dir].got =
                           [f \in DOMAIN got \cup {r.file} |->
                               IF f # r.file THEN got[f] ELSE IF next THEN end ELSE have]]
       /\ Respond(r.live, Answer(ok, IF next THEN end ELSE have))
       /\ UNCHANGED <<publish, held>>

(* As below, without verify_checksums.                                     *)
ValidatesCounts(t) ==
    /\ Cardinality(DOMAIN t.got) = t.files
    /\ Received(t.got) = t.bytes
    /\ \A f \in DOMAIN t.got : t.got[f] = Size[f]

(* finish validates the declared counts, every file's size and, with       *)
(* verify_checksums, that exactly the files of manifest.sha256 are there.  *)
Validates(t) ==
    /\ Cardinality(DOMAIN t.got) = t.files
    /\ Received(t.got) = t.bytes
    /\ \A f \in DOMAIN t.got : t.got[f] = Size[f]
    /\ Manifest \in DOMAIN t.got
    /\ DOMAIN t.got \ {Manifest} = File \ {Manifest}

(* As DoEnd below, answering before the event is published.                *)
DoEndEarly(tr, r) ==
    /\ transfers' = tr
    /\ Respond(r.live, Answer(Validates(tr[r.dir]), Received(tr[r.dir].got)))
    /\ held' = FALSE
    /\ publish' = IF Validates(tr[r.dir]) THEN [step |-> "clean", dir |-> r.dir] ELSE publish

(* END: a valid transfer is published step by step, any other is refused.  *)
DoEnd(tr, r) ==
    /\ transfers' = tr
    /\ IF Validates(tr[r.dir])
       THEN /\ publish' = [step |-> "clean", dir |-> r.dir]
            /\ held' = r.live
            /\ UNCHANGED <<reply, serving, faults>>
       ELSE /\ Respond(r.live, Answer(FALSE, Received(tr[r.dir].got)))
            /\ UNCHANGED <<publish, held>>

(* dispatch of the next request, after dropping the idle transfers.        *)
Dispatch ==
    LET r == Head(net)
        tr == Pruned
    IN /\ serving /\ publish.step = "none" /\ net # <<>>
       /\ net' = Tail(net)
       /\ \/ r.op = "BEGIN" /\ DoBegin(tr, r)
          \/ r.op = "FILE_CHUNK" /\ tr[r.dir].open /\ DoChunk(tr, r)
          \/ r.op = "END" /\ tr[r.dir].open /\ DoEnd(tr, r)
          \/ /\ r.op # "BEGIN" /\ ~tr[r.dir].open
             /\ transfers' = tr
             /\ Respond(r.live, Answer(FALSE, 0))
             /\ UNCHANGED <<publish, held>>
       /\ idle' = {}
       /\ UNCHANGED <<final, backup, deaths>>

(* Ten minutes pass without a request for a transfer.                      *)
TransferIdle(d) ==
    /\ d \in Open(transfers) \ idle
    /\ idle' = idle \cup {d}
    /\ UNCHANGED <<transfers, publish, final, backup, deaths>>

(***************************************************************************)
(* finish, after validation: four steps on the inbox.  The two that remove *)
(* the backup do it entry by entry, in any order, and ignore what cannot   *)
(* be removed.                                                             *)
(***************************************************************************)

At(step) == serving /\ publish.step = step
GoTo(step) == publish' = [publish EXCEPT !.step = step]

RemoveBackupEntry(f) ==
    /\ At("clean") \/ At("tidy")
    /\ f \in backup[publish.dir]
    /\ backup' = [backup EXCEPT ![publish.dir] = @ \ {f}]
    /\ UNCHANGED <<transfers, idle, publish, final, deaths, rpcVars>>

BackupRemoved == IF backup[publish.dir] = {} THEN UNCHANGED faults ELSE Fault

DropOldBackup ==
    /\ At("clean") /\ BackupRemoved
    /\ GoTo("aside")
    /\ UNCHANGED <<transfers, idle, final, backup, deaths, net, held, reply, serving>>

(* As below, deleting the old copy.                                        *)
DropOldCopy ==
    /\ At("aside")
    /\ final' = [final EXCEPT ![publish.dir] = {}]
    /\ GoTo("place")
    /\ UNCHANGED <<transfers, idle, backup, deaths, rpcVars>>

(* The old copy, if there is one, is renamed to the backup, which must not *)
(* be there.                                                               *)
MoveAside ==
    /\ At("aside") /\ (final[publish.dir] = {} \/ backup[publish.dir] = {})
    /\ backup' = [backup EXCEPT ![publish.dir] =
                      IF final[publish.dir] # {} THEN final[publish.dir] ELSE @]
    /\ final' = [final EXCEPT ![publish.dir] = {}]
    /\ GoTo("place")
    /\ UNCHANGED <<transfers, idle, deaths, rpcVars>>

(* The request that is carried out ends with an exception.                 *)
RequestFails ==
    /\ publish' = Resting
    /\ reply' = IF held THEN Answer(FALSE, 0) ELSE reply
    /\ held' = FALSE
    /\ UNCHANGED <<transfers, idle, deaths, net, serving>>

(* The rename raises, as it does onto a backup that could not be removed.  *)
AsideFails ==
    /\ At("aside")
    /\ IF final[publish.dir] = {} \/ backup[publish.dir] = {} THEN Fault ELSE UNCHANGED faults
    /\ RequestFails
    /\ UNCHANGED <<final, backup>>

PlaceStaging ==
    /\ At("place")
    /\ final' = [final EXCEPT ![publish.dir] = DOMAIN transfers[publish.dir].got]
    /\ GoTo("tidy")
    /\ UNCHANGED <<transfers, idle, backup, deaths, rpcVars>>

(* os.replace raised: the old copy is put back and the request fails.      *)
(* Putting it back can raise too.                                          *)
PlaceFails ==
    /\ At("place") /\ Fault
    /\ \/ /\ final' = [final EXCEPT ![publish.dir] = backup[publish.dir]]
          /\ backup' = [backup EXCEPT ![publish.dir] = {}]
       \/ RestoreMayFail /\ UNCHANGED <<final, backup>>
    /\ RequestFails

Conclude ==
    /\ At("tidy") /\ BackupRemoved
    /\ transfers' = [transfers EXCEPT ![publish.dir] = NoTransfer]
    /\ publish' = Resting
    /\ held' = FALSE
    /\ reply' = IF held THEN Answer(TRUE, Received(transfers[publish.dir].got)) ELSE reply
    /\ idle' = idle \ {publish.dir}
    /\ UNCHANGED <<final, backup, deaths, net, serving>>

(***************************************************************************)
(* Life of the receiver                                                    *)
(***************************************************************************)

(* The process dies; what was sent to it is lost with it.                  *)
ReceiverCrash ==
    /\ serving /\ deaths < MaxReceiverCrashes
    /\ serving' = FALSE /\ deaths' = deaths + 1
    /\ net' = <<>> /\ held' = FALSE
    /\ transfers' = [d \in Dir |-> NoTransfer]
    /\ idle' = {} /\ publish' = Resting
    /\ UNCHANGED <<final, backup, reply, faults>>

(* __init__ with recover_backups, then the service is offered again.  Each *)
(* backup is put back if the event is absent, and removed otherwise, as    *)
(* far as it can be.                                                       *)
ReceiverStart ==
    /\ ~serving
    /\ serving' = TRUE
    /\ final' = [d \in Dir |-> IF final[d] = {} THEN backup[d] ELSE final[d]]
    /\ \/ backup' = [d \in Dir |-> {}] /\ UNCHANGED faults
       \/ /\ Fault
          /\ backup' \in [Dir -> SUBSET File]
          /\ \A d \in Dir : backup'[d] \subseteq IF final[d] = {} THEN {} ELSE backup[d]
    /\ UNCHANGED <<transfers, idle, publish, deaths, net, held, reply>>

ServeRequest == \/ Dispatch \/ (\E f \in File : RemoveBackupEntry(f)) \/ DropOldBackup
                \/ MoveAside \/ AsideFails \/ PlaceStaging \/ PlaceFails \/ Conclude
=============================================================================
