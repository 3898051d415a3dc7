----------------------------- MODULE Recording -----------------------------
(***************************************************************************)
(* The recording path of datacache_node: EventMonitor admits a capture,    *)
(* hands its pre batch and later its post batch to RawStorageWorker, whose *)
(* thread writes the event directory and closes it with one marker file    *)
(* (event_state: .pending, then .complete or .failed).                     *)
(*                                                                         *)
(* Actors: the node's single-threaded executor (trigger service and        *)
(* scheduler timer), the storage worker's thread, a crash of the process,  *)
(* and the next start, which reconciles the markers it finds on disk.      *)
(*                                                                         *)
(* An event is an event directory: every trigger names a fresh one, so an  *)
(* event is triggered at most once.  A batch is the number of enabled      *)
(* records in it.  Time is abstracted: a capture may expire at any moment. *)
(***************************************************************************)
EXTENDS Naturals, Sequences, FiniteSets

CONSTANTS
    Event,               \* event directories that triggers may create
    MaxPendingJobs,      \* max_pending_storage_jobs
    MaxActiveCaptures,   \* max_active_event_captures
    MaxBatch,            \* bound: enabled records in one batch
    MaxRecords,          \* bound: enabled records in both batches of an event
    MaxCrashes,          \* bound: process crashes
    SyncRequired,        \* sync_required_for_recording
    Faults,              \* kinds of I/O failure that may happen
    Unmarkable           \* events whose markers may fail to be written

(* What can fail below the code: free space or the directory or manifest   *)
(* cannot be had ("prepare"), a record or a list cannot be written         *)
(* ("write"), hashing ("checksum"), a directory cannot be deleted to the   *)
(* last file ("delete").  A marker that cannot be written is a fault of    *)
(* its event (Unmarkable), so that what the other events are promised can  *)
(* be stated beside it.                                                    *)
FaultKinds == {"prepare", "write", "checksum", "delete"}

ASSUME EventAssumption == IsFiniteSet(Event)
ASSUME LimitsAssumption == /\ MaxPendingJobs \in Nat \ {0}
                           /\ MaxActiveCaptures \in Nat \ {0}
                           /\ MaxBatch \in Nat
                           /\ MaxRecords \in Nat /\ MaxRecords >= MaxBatch
                           /\ MaxCrashes \in Nat
ASSUME ConfigAssumption == /\ SyncRequired \in BOOLEAN
                           /\ Faults \subseteq FaultKinds
                           /\ Unmarkable \subseteq Event

VARIABLES
    node,            \* life of the process
    crashes,         \* crashes so far
    unreconciled,    \* directories the starting node has not looked at yet
    ex,              \* executor: [pc, dir, post] of the callback it is in
    activeCaptures,  \* EventMonitor::activeCaptures_
    expired,         \* captures processExpiredCaptures has taken out
    outcome,         \* answer of the trigger service
    jobs,            \* RawStorageWorker::jobs_
    reservedJobs,    \* RawStorageWorker::reservedJobs_
    wk,              \* worker thread: [pc, job, left, ok, kept]
    progress,        \* RawStorageWorker::eventProgress_
    marker,          \* marker files of each directory
    removed,         \* directories retention has started to delete
    rows,            \* manifest rows written, each with its record file
    durable,         \* manifest rows known to survive a power loss
    captured         \* records the buffer handed over for the event

execVars == <<ex, activeCaptures, expired, outcome, captured>>
queueVars == <<jobs, reservedJobs>>
workVars == <<wk, progress>>
diskVars == <<marker, removed, rows, durable>>
lifeVars == <<node, crashes, unreconciled>>
vars == <<lifeVars, execVars, queueVars, workVars, diskVars>>

Batch == 0 .. MaxBatch
MarkerKinds == {"pending", "complete", "failed"}
Terminal == {"complete", "failed"}

Job == [dir : Event, size : Batch, final : BOOLEAN]
NoProgress == [failed |-> FALSE, persisted |-> 0]

(* The executor outside any callback, and the worker waiting for a job.    *)
None == "none"
ASSUME NoneAssumption == None \notin Event

ExIdle == [pc |-> "idle", dir |-> None, post |-> FALSE]
WkIdle == [pc |-> "idle", job |-> [dir |-> None, size |-> 0, final |-> FALSE],
           left |-> 0, ok |-> TRUE, kept |-> 0]

ExBusy == {"reserved", "begun", "failing", "clearing"}
WkBusy == {"prepare", "write", "seal", "mark", "clear", "retain"}

ExType == /\ ex \in [pc : ExBusy \cup {"idle"}, dir : Event \cup {None}, post : BOOLEAN]
          /\ ex.pc \in ExBusy => ex.dir \in Event
          /\ ex.pc = "idle" => ex = ExIdle

WkType == /\ wk \in [pc : WkBusy \cup {"idle"},
                     job : [dir : Event \cup {None}, size : Batch, final : BOOLEAN],
                     left : Batch, ok : BOOLEAN, kept : Batch]
          /\ wk.pc \in WkBusy => wk.job.dir \in Event
          /\ wk.left + wk.kept <= wk.job.size
          /\ wk.pc = "idle" => wk = WkIdle

(* One type invariant for the module.                                      *)
TypeOK ==
    /\ node \in {"down", "starting", "running", "stopping"}
    /\ crashes \in 0 .. MaxCrashes
    /\ unreconciled \subseteq Event
    /\ ExType
    /\ activeCaptures \subseteq Event
    /\ expired \subseteq Event
    /\ outcome \in [Event -> {"new", "accepted", "rejected", "lost"}]
    /\ jobs \in Seq(Job)
    /\ reservedJobs \in Nat
    /\ WkType
    /\ progress \in [Event -> [failed : BOOLEAN, persisted : Nat]]
    /\ marker \in [Event -> SUBSET MarkerKinds]
    /\ removed \subseteq Event
    /\ rows \in [Event -> Nat]
    /\ durable \in [Event -> Nat]
    /\ captured \in [Event -> Nat]

Init ==
    /\ node = "running" /\ crashes = 0 /\ unreconciled = {}
    /\ ex = ExIdle /\ activeCaptures = {} /\ expired = {}
    /\ outcome = [e \in Event |-> "new"]
    /\ jobs = <<>> /\ reservedJobs = 0
    /\ wk = WkIdle /\ progress = [e \in Event |-> NoProgress]
    /\ marker = [e \in Event |-> {}] /\ removed = {}
    /\ rows = [e \in Event |-> 0] /\ durable = [e \in Event |-> 0]
    /\ captured = [e \in Event |-> 0]

(***************************************************************************)
(* RawStorageWorker's interface, each call under its mutex.                *)
(***************************************************************************)

(* As below, counting only the jobs in the queue.                          *)
QueueFullOfJobs == Len(jobs) >= MaxPendingJobs

(* Queued jobs and reserved slots together count against the limit.        *)
QueueFull == Len(jobs) + reservedJobs >= MaxPendingJobs

(* As below, with the capacity check for reserved jobs too.                *)
EnqueueAcceptsIfFree(reserved) == node # "stopping" /\ ~QueueFull

(* Does enqueue() take the job?  A reserved job only fails while stopping. *)
EnqueueAccepts(reserved) == node # "stopping" /\ (reserved \/ ~QueueFull)

ReserveAccepts == node # "stopping" /\ ~QueueFull

(* reservedJobs_ after giving one reservation back, never below zero.      *)
Released == IF reservedJobs > 0 THEN reservedJobs - 1 ELSE reservedJobs

(* enqueue(): a reserved caller gives its reservation back either way.     *)
Enqueue(e, n, reserved, final) ==
    /\ jobs' = IF EnqueueAccepts(reserved)
               THEN Append(jobs, [dir |-> e, size |-> n, final |-> final])
               ELSE jobs
    /\ reservedJobs' = IF reserved THEN Released ELSE reservedJobs

(***************************************************************************)
(* Executor: EventMonitor::recordDataAroundEventDetailed                   *)
(***************************************************************************)

(* Strict mode finds no matched pair in the pre window.                    *)
RejectUnsynced(e) ==
    /\ SyncRequired
    /\ node = "running" /\ ex.pc = "idle" /\ expired = {} /\ outcome[e] = "new"
    /\ outcome' = [outcome EXCEPT ![e] = "rejected"]
    /\ UNCHANGED <<ex, activeCaptures, expired, captured>>
    /\ UNCHANGED <<lifeVars, queueVars, workVars, diskVars>>

(* The trigger reserves a slot for the batch that will close the event.    *)
ReserveSlot(e, post) ==
    /\ node = "running" /\ ex.pc = "idle" /\ expired = {} /\ outcome[e] = "new"
    /\ IF ReserveAccepts
       THEN /\ reservedJobs' = reservedJobs + 1
            /\ ex' = [pc |-> "reserved", dir |-> e, post |-> post]
            /\ UNCHANGED outcome
       ELSE /\ outcome' = [outcome EXCEPT ![e] = "rejected"]
            /\ UNCHANGED <<reservedJobs, ex>>
    /\ UNCHANGED <<activeCaptures, expired, captured, jobs>>
    /\ UNCHANGED <<lifeVars, workVars, diskVars>>

CaptureLimitReached == Cardinality(activeCaptures) >= MaxActiveCaptures

(* As below, keeping the reservation.                                      *)
RefuseKeepingSlot ==
    /\ ex.pc = "reserved"
    /\ (ex.post /\ CaptureLimitReached) \/ ex.dir \in Unmarkable
    /\ outcome' = [outcome EXCEPT ![ex.dir] = "rejected"]
    /\ ex' = ExIdle
    /\ UNCHANGED <<activeCaptures, expired, captured, jobs, reservedJobs>>
    /\ UNCHANGED <<lifeVars, workVars, diskVars>>

(* Too many captures with a post window, or .pending cannot be written:    *)
(* the slot goes back and the trigger is answered with a rejection.        *)
RefuseCapture ==
    /\ ex.pc = "reserved"
    /\ (ex.post /\ CaptureLimitReached) \/ ex.dir \in Unmarkable
    /\ reservedJobs' = Released
    /\ outcome' = [outcome EXCEPT ![ex.dir] = "rejected"]
    /\ ex' = ExIdle
    /\ UNCHANGED <<activeCaptures, expired, captured, jobs>>
    /\ UNCHANGED <<lifeVars, workVars, diskVars>>

(* event_state::begin; a capture with a post window becomes active.        *)
BeginCapture ==
    /\ ex.pc = "reserved"
    /\ ~(ex.post /\ CaptureLimitReached)
    /\ marker' = [marker EXCEPT ![ex.dir] = @ \cup {"pending"}]
    /\ activeCaptures' = IF ex.post THEN activeCaptures \cup {ex.dir}
                                    ELSE activeCaptures
    /\ ex' = [ex EXCEPT !.pc = "begun"]
    /\ UNCHANGED <<expired, outcome, captured, removed, rows, durable>>
    /\ UNCHANGED <<lifeVars, queueVars, workVars>>

(* The only batch of an event without a post window uses the reservation   *)
(* and is final; a pre batch competes for an ordinary slot.                *)
EnqueueFirst(n) ==
    /\ ex.pc = "begun"
    /\ EnqueueAccepts(~ex.post)
    /\ Enqueue(ex.dir, n, ~ex.post, ~ex.post)
    /\ captured' = [captured EXCEPT ![ex.dir] = @ + n]
    /\ outcome' = [outcome EXCEPT ![ex.dir] = "accepted"]
    /\ ex' = ExIdle
    /\ UNCHANGED <<activeCaptures, expired>>
    /\ UNCHANGED <<lifeVars, workVars, diskVars>>

(* As below, leaving the capture in the table ...                          *)
RefuseKeepingCapture ==
    /\ ex.pc = "begun"
    /\ ~EnqueueAccepts(~ex.post)
    /\ reservedJobs' = Released
    /\ outcome' = [outcome EXCEPT ![ex.dir] = "rejected"]
    /\ ex' = [ex EXCEPT !.pc = "failing"]
    /\ UNCHANGED <<activeCaptures, expired, captured, jobs>>
    /\ UNCHANGED <<lifeVars, workVars, diskVars>>

(* ... and not failing the event.                                          *)
RefuseSilently ==
    /\ ex.pc = "begun"
    /\ ~EnqueueAccepts(~ex.post)
    /\ activeCaptures' = activeCaptures \ {ex.dir}
    /\ reservedJobs' = Released
    /\ outcome' = [outcome EXCEPT ![ex.dir] = "rejected"]
    /\ ex' = ExIdle
    /\ UNCHANGED <<expired, captured, jobs>>
    /\ UNCHANGED <<lifeVars, workVars, diskVars>>

(* A refused first batch gives up the capture and its reservation.         *)
RefuseFirst ==
    /\ ex.pc = "begun"
    /\ ~EnqueueAccepts(~ex.post)
    /\ activeCaptures' = activeCaptures \ {ex.dir}
    /\ reservedJobs' = Released
    /\ outcome' = [outcome EXCEPT ![ex.dir] = "rejected"]
    /\ ex' = [ex EXCEPT !.pc = "failing"]
    /\ UNCHANGED <<expired, captured, jobs>>
    /\ UNCHANGED <<lifeVars, workVars, diskVars>>

(* event_state::fail for the refused event: .failed is written, or not.    *)
MarkRefused ==
    /\ ex.pc = "failing"
    /\ \/ /\ marker' = [marker EXCEPT ![ex.dir] = @ \cup {"failed"}]
          /\ ex' = [ex EXCEPT !.pc = "clearing"]
       \/ /\ ex.dir \in Unmarkable
          /\ ex' = ExIdle
          /\ UNCHANGED marker
    /\ UNCHANGED <<activeCaptures, expired, outcome, captured>>
    /\ UNCHANGED <<removed, rows, durable>>
    /\ UNCHANGED <<lifeVars, queueVars, workVars>>

(* The rest of event_state::fail: .pending and .complete are removed.      *)
ClearRefused ==
    /\ ex.pc = "clearing"
    /\ marker' = [marker EXCEPT ![ex.dir] = @ \ {"pending", "complete"}]
    /\ ex' = ExIdle
    /\ UNCHANGED <<activeCaptures, expired, outcome, captured>>
    /\ UNCHANGED <<removed, rows, durable>>
    /\ UNCHANGED <<lifeVars, queueVars, workVars>>

(***************************************************************************)
(* Executor: EventMonitor::processExpiredCaptures                          *)
(***************************************************************************)

(* The timer takes every capture that has expired by now, either in sensor *)
(* time or by the wall deadline, out of the table.                         *)
ExpireCaptures(S) ==
    /\ node = "running" /\ ex.pc = "idle" /\ expired = {}
    /\ S # {} /\ S \subseteq activeCaptures
    /\ activeCaptures' = activeCaptures \ S
    /\ expired' = S
    /\ UNCHANGED <<ex, outcome, captured>>
    /\ UNCHANGED <<lifeVars, queueVars, workVars, diskVars>>

(* One round of the loop that follows: the post batch takes the slot that  *)
(* was reserved at the trigger and closes the event.                       *)
EnqueuePost(e, n) ==
    /\ e \in expired
    /\ Enqueue(e, n, TRUE, TRUE)
    /\ expired' = expired \ {e}
    /\ IF EnqueueAccepts(TRUE)
       THEN /\ captured' = [captured EXCEPT ![e] = @ + n]
            /\ UNCHANGED marker
       ELSE /\ marker' = [marker EXCEPT ![e] = {"failed"}]
            /\ UNCHANGED captured
    /\ UNCHANGED <<ex, activeCaptures, outcome, removed, rows, durable>>
    /\ UNCHANGED <<lifeVars, workVars>>

(***************************************************************************)
(* Storage worker: RawStorageWorker::run and writeJob                      *)
(***************************************************************************)

PopJob ==
    /\ wk.pc = "idle" /\ jobs # <<>>
    /\ wk' = [pc |-> "prepare", job |-> Head(jobs), left |-> Head(jobs).size,
              ok |-> TRUE, kept |-> 0]
    /\ jobs' = Tail(jobs)
    /\ UNCHANGED <<reservedJobs, progress>>
    /\ UNCHANGED <<lifeVars, execVars, diskVars>>

(* As below, whether the event is closed or not.                           *)
DeletableOpen == {e \in Event : marker[e] # {}}

(* Directories DiskSpaceManager may delete: closed and no longer written.  *)
Deletable == {e \in Event : /\ "pending" \notin marker[e]
                            /\ marker[e] \cap Terminal # {}}

(* remove_all on the directories in S, of which only the markers in left   *)
(* survive.                                                                *)
Delete(S, left) ==
    /\ removed' = removed \cup S
    /\ marker' = [e \in Event |-> IF e \in S THEN marker[e] \cap left ELSE marker[e]]
    /\ rows' = [e \in Event |-> IF e \in S THEN 0 ELSE rows[e]]
    /\ durable' = [e \in Event |-> IF e \in S THEN 0 ELSE durable[e]]

(* A sweep deletes the directories in S.  Which closed directories are old *)
(* or large enough to go is left open here.                                *)
Sweep(S) ==
    /\ S \subseteq Deletable
    /\ \E left \in IF "delete" \in Faults THEN SUBSET Terminal ELSE {{}} :
           Delete(S, left)

(* prepareForWrite (low space forces a sweep), the directory, manifest.csv *)
(* and pairs.csv.  The first three end the job, a pairs.csv that cannot be *)
(* written spoils it but the records are still written.                    *)
PrepareJob(S) ==
    /\ wk.pc = "prepare"
    /\ Sweep(S)
    /\ \/ wk' = [wk EXCEPT !.pc = "write"]
       \/ /\ "prepare" \in Faults
          /\ wk' = [wk EXCEPT !.pc = "write", !.ok = FALSE, !.left = 0]
       \/ /\ "write" \in Faults
          /\ wk' = [wk EXCEPT !.pc = "write", !.ok = FALSE]
    /\ UNCHANGED progress
    /\ UNCHANGED <<lifeVars, execVars, queueVars>>

(* As below, past the end of the batch.                                    *)
WriteRecordBeyond ==
    /\ wk.pc = "write" /\ wk.kept <= MaxBatch
    /\ rows' = [rows EXCEPT ![wk.job.dir] = @ + 1]
    /\ wk' = [wk EXCEPT !.left = IF @ > 0 THEN @ - 1 ELSE 0, !.kept = @ + 1]
    /\ UNCHANGED <<progress, marker, removed, durable>>
    /\ UNCHANGED <<lifeVars, execVars, queueVars>>

(* One record file and its manifest row.                                   *)
WriteRecord ==
    /\ wk.pc = "write" /\ wk.left > 0
    /\ rows' = [rows EXCEPT ![wk.job.dir] = @ + 1]
    /\ wk' = [wk EXCEPT !.left = @ - 1, !.kept = @ + 1]
    /\ UNCHANGED <<progress, marker, removed, durable>>
    /\ UNCHANGED <<lifeVars, execVars, queueVars>>

(* A record that cannot be written is skipped; a manifest row that cannot  *)
(* be written ends the loop; an exception also forgets what was counted.   *)
LoseRecord ==
    /\ "write" \in Faults
    /\ wk.pc = "write" /\ wk.left > 0
    /\ \/ wk' = [wk EXCEPT !.left = @ - 1, !.ok = FALSE]
       \/ wk' = [wk EXCEPT !.left = 0, !.ok = FALSE]
       \/ wk' = [wk EXCEPT !.left = 0, !.ok = FALSE, !.kept = 0]
    /\ UNCHANGED progress
    /\ UNCHANGED <<lifeVars, execVars, queueVars, diskVars>>

(* As below, with the last job's outcome in place of the event's.          *)
FinishJobForgetfully ==
    LET e == wk.job.dir
        Merge(ok) ==
            /\ progress' = [progress EXCEPT ![e] =
                   [failed |-> ~ok, persisted |-> @.persisted + wk.kept]]
            /\ durable' = IF wk.job.final /\ ok
                          THEN [durable EXCEPT ![e] = rows[e]] ELSE durable
            /\ wk' = IF wk.job.final THEN [wk EXCEPT !.pc = "seal", !.ok = ok]
                                     ELSE WkIdle
    IN /\ wk.pc = "write" /\ wk.left = 0
       /\ Merge(wk.ok) \/ ("write" \in Faults /\ Merge(FALSE))
       /\ UNCHANGED <<marker, removed, rows>>
       /\ UNCHANGED <<lifeVars, execVars, queueVars>>

(* manifest.csv is flushed and, in a final job that went well, synced; the *)
(* job's outcome is merged into the progress of its event.                 *)
FinishJob ==
    LET e == wk.job.dir
        Merge(ok) ==
            /\ progress' = [progress EXCEPT ![e] =
                   [failed |-> @.failed \/ ~ok, persisted |-> @.persisted + wk.kept]]
            /\ durable' = IF wk.job.final /\ ok
                          THEN [durable EXCEPT ![e] = rows[e]] ELSE durable
            /\ wk' = IF wk.job.final THEN [wk EXCEPT !.pc = "seal", !.ok = ok]
                                     ELSE WkIdle
    IN /\ wk.pc = "write" /\ wk.left = 0
       /\ Merge(wk.ok) \/ ("write" \in Faults /\ Merge(FALSE))
       /\ UNCHANGED <<marker, removed, rows>>
       /\ UNCHANGED <<lifeVars, execVars, queueVars>>

(* As below, also for an event without a single record.                    *)
SealEmptyEvent ==
    /\ wk.pc = "seal"
    /\ wk' = [wk EXCEPT !.pc = "mark", !.ok = ~progress[wk.job.dir].failed]
    /\ UNCHANGED progress
    /\ UNCHANGED <<lifeVars, execVars, queueVars, diskVars>>

(* The verdict on the event: no failed job, at least one record, and every *)
(* file hashed into manifest.sha256.  It is kept in wk.ok.                 *)
SealEvent ==
    LET good == ~progress[wk.job.dir].failed /\ progress[wk.job.dir].persisted > 0
    IN /\ wk.pc = "seal"
       /\ \/ wk' = [wk EXCEPT !.pc = "mark", !.ok = good]
          \/ /\ "checksum" \in Faults
             /\ wk' = [wk EXCEPT !.pc = "mark", !.ok = FALSE]
       /\ UNCHANGED progress
       /\ UNCHANGED <<lifeVars, execVars, queueVars, diskVars>>

(* The terminal marker.  If .complete cannot be written the event is       *)
(* failed instead; if .failed cannot be written it stays pending.          *)
MarkEvent ==
    /\ wk.pc = "mark"
    /\ \/ /\ marker' = [marker EXCEPT ![wk.job.dir] =
                            @ \cup {IF wk.ok THEN "complete" ELSE "failed"}]
          /\ wk' = [wk EXCEPT !.pc = "clear"]
       \/ /\ wk.job.dir \in Unmarkable
          /\ wk' = IF wk.ok THEN [wk EXCEPT !.ok = FALSE]
                            ELSE [wk EXCEPT !.pc = "retain"]
          /\ UNCHANGED marker
    /\ UNCHANGED <<progress, removed, rows, durable>>
    /\ UNCHANGED <<lifeVars, execVars, queueVars>>

(* complete() and fail() remove .pending and the opposite marker.          *)
ClearPending ==
    /\ wk.pc = "clear"
    /\ marker' = [marker EXCEPT ![wk.job.dir] =
                      @ \ {"pending", IF wk.ok THEN "failed" ELSE "complete"}]
    /\ wk' = [wk EXCEPT !.pc = "retain"]
    /\ UNCHANGED <<progress, removed, rows, durable>>
    /\ UNCHANGED <<lifeVars, execVars, queueVars>>

(* The event's progress is forgotten and the retention sweep runs.         *)
RetireEvent(S) ==
    /\ wk.pc = "retain"
    /\ Sweep(S)
    /\ progress' = [progress EXCEPT ![wk.job.dir] = NoProgress]
    /\ wk' = WkIdle
    /\ UNCHANGED <<lifeVars, execVars, queueVars>>

(***************************************************************************)
(* Life of the process                                                     *)
(***************************************************************************)

(* Memory of the process that ends.                                        *)
ForgetMemory ==
    /\ ex' = ExIdle /\ activeCaptures' = {} /\ expired' = {}
    /\ jobs' = <<>> /\ reservedJobs' = 0
    /\ wk' = WkIdle /\ progress' = [e \in Event |-> NoProgress]

(* spin() returned: no callback runs any more, the captures are destroyed  *)
(* with the EventMonitor, and the worker's destructor asks it to drain.    *)
Shutdown ==
    /\ node = "running" /\ ex.pc = "idle" /\ expired = {}
    /\ node' = "stopping"
    /\ activeCaptures' = {}
    /\ UNCHANGED <<crashes, unreconciled, ex, expired, outcome, captured>>
    /\ UNCHANGED <<queueVars, workVars, diskVars>>

(* The worker thread returns once the queue is empty; it is joined.        *)
Exit ==
    /\ node = "stopping" /\ jobs = <<>> /\ wk.pc = "idle"
    /\ node' = "down"
    /\ ForgetMemory
    /\ UNCHANGED <<crashes, unreconciled, outcome, captured, diskVars>>

(* A crash of the process, or a power loss: what was not synced may go.    *)
(* A trigger that was being served never gets an answer.                   *)
Die ==
    /\ node # "down" /\ crashes < MaxCrashes
    /\ node' = "down" /\ crashes' = crashes + 1
    /\ unreconciled' = {}
    /\ ForgetMemory
    /\ outcome' = IF ex.pc \in {"reserved", "begun"}
                  THEN [outcome EXCEPT ![ex.dir] = "lost"] ELSE outcome
    /\ UNCHANGED captured

Crash ==
    /\ Die
    /\ rows' \in {rows, durable}
    /\ UNCHANGED <<marker, removed, durable>>

(* A crash in the middle of a sweep also leaves a directory half deleted.  *)
CrashInSweep(e, left) ==
    /\ wk.pc \in {"prepare", "retain"}
    /\ e \in Deletable
    /\ Die
    /\ Delete({e}, left)

(* The next start runs event_state::reconcile before the first callback.   *)
Restart ==
    /\ node = "down"
    /\ node' = "starting"
    /\ unreconciled' = {e \in Event : "pending" \in marker[e]}
    /\ UNCHANGED <<crashes, execVars, queueVars, workVars, diskVars>>

(* As below, leaving alone what was not closed.                            *)
ReconcileClosed(e) ==
    /\ node = "starting" /\ e \in unreconciled
    /\ unreconciled' = unreconciled \ {e}
    /\ marker' = [marker EXCEPT ![e] =
                      IF @ \cap Terminal # {} THEN @ \ {"pending"} ELSE @]
    /\ UNCHANGED <<node, crashes, removed, rows, durable>>
    /\ UNCHANGED <<execVars, queueVars, workVars>>

(* A directory with .pending: clear it if the event was closed, else fail. *)
ReconcileDir(e) ==
    /\ node = "starting" /\ e \in unreconciled
    /\ unreconciled' = unreconciled \ {e}
    /\ \/ marker' = [marker EXCEPT ![e] =
             IF @ \cap Terminal # {} THEN @ \ {"pending"} ELSE {"failed"}]
       \/ /\ e \in Unmarkable /\ marker[e] \cap Terminal = {}
          /\ UNCHANGED marker
    /\ UNCHANGED <<node, crashes, removed, rows, durable>>
    /\ UNCHANGED <<execVars, queueVars, workVars>>

StartSpinning ==
    /\ node = "starting" /\ unreconciled = {}
    /\ node' = "running"
    /\ UNCHANGED <<crashes, unreconciled, execVars, queueVars, workVars, diskVars>>

(***************************************************************************)
(* The specification                                                       *)
(***************************************************************************)

Trigger == \E e \in Event : \/ RejectUnsynced(e)
                            \/ \E post \in BOOLEAN : ReserveSlot(e, post)

Admit == \/ RefuseCapture
         \/ BeginCapture
         \/ \E n \in Batch : EnqueueFirst(n)
         \/ RefuseFirst
         \/ MarkRefused
         \/ ClearRefused

Harvest == \E e \in Event, n \in Batch :
               captured[e] + n <= MaxRecords /\ EnqueuePost(e, n)

Worker == \/ PopJob
          \/ \E S \in SUBSET Event : PrepareJob(S)
          \/ WriteRecord
          \/ LoseRecord
          \/ FinishJob
          \/ SealEvent
          \/ MarkEvent
          \/ ClearPending
          \/ \E S \in SUBSET Event : RetireEvent(S)

Start == (\E e \in Event : ReconcileDir(e)) \/ StartSpinning

Next == \/ Trigger
        \/ Admit
        \/ \E S \in SUBSET Event : ExpireCaptures(S)
        \/ Harvest
        \/ Worker
        \/ Shutdown
        \/ Exit
        \/ Crash
        \/ \E e \in Event, left \in SUBSET Terminal : CrashInSweep(e, left)
        \/ Restart
        \/ Start

Spec == Init /\ [][Next]_vars

(* The executor and the worker thread are scheduled; every capture expires *)
(* because wallDeadline bounds it.  Nothing restarts the process.          *)
Expire(e) == \E S \in SUBSET Event : e \in S /\ ExpireCaptures(S)

Fairness == /\ WF_vars(Admit) /\ WF_vars(Harvest)
            /\ WF_vars(Worker) /\ WF_vars(Exit) /\ WF_vars(Start)
            /\ \A e \in Event : WF_vars(Expire(e))

FairSpec == Spec /\ Fairness

(***************************************************************************)
(* Properties                                                              *)
(***************************************************************************)

(* Work that still has to be done for an event: its capture is active or   *)
(* being harvested, or a job of it is queued or being carried out.         *)
Outstanding(e) ==
    \/ e \in activeCaptures \cup expired
    \/ \E i \in DOMAIN jobs : jobs[i].dir = e
    \/ wk.pc # "retain" /\ wk.job.dir = e
    \/ ex.dir = e

Closed(e) == marker[e] \cap Terminal # {}

(* enqueue() of a reserved job skips the capacity check, yet queued jobs   *)
(* and reserved slots together never exceed max_pending_storage_jobs.      *)
QueueWithinLimit == Len(jobs) + reservedJobs <= MaxPendingJobs

(* reservedJobs_ is a bare counter: every early return of the trigger has  *)
(* given its slot back, so each slot belongs to one capture that will use  *)
(* it, or to the trigger being served.                                     *)
HeldByTrigger == IF ex.pc = "reserved" \/ (ex.pc = "begun" /\ ~ex.post)
                 THEN 1 ELSE 0

ReservationsMatch ==
    node = "running" =>
        reservedJobs = Cardinality(activeCaptures) + Cardinality(expired)
                         + HeldByTrigger

(* A capture taken out of the table has its post batch queued: the slot    *)
(* reserved at the trigger is still there however busy the queue is.       *)
PostBatchHasSlot ==
    [][\A e \in expired \ expired' :
           node' # "down" =>
               \E i \in DOMAIN jobs' : jobs'[i].dir = e /\ jobs'[i].final]_vars

(* .complete on disk means what upload and readers take it for: the        *)
(* trigger was accepted, every record captured in both batches has its     *)
(* manifest row, that survives a power loss, and there is at least one.    *)
(* Only a deletion that did not finish leaves .complete on less.           *)
CompleteIsWhole ==
    \A e \in Event \ removed : "complete" \in marker[e] =>
        /\ outcome[e] = "accepted"
        /\ captured[e] > 0
        /\ rows[e] = captured[e] /\ durable[e] = captured[e]

(* Retention runs on the worker thread between jobs and looks at markers   *)
(* only, yet it never deletes a directory a queued job or an active        *)
(* capture will still write to ...                                         *)
SweepSparesLive ==
    [][\A e \in removed' \ removed : ~Outstanding(e)]_vars

(* ... and no late job or marker brings a deleted directory back: nothing  *)
(* is written to it again, and a half-deleted one is never taken for an    *)
(* event in progress.                                                      *)
RemovedStaysGone ==
    \A e \in removed :
        rows[e] = 0 /\ "pending" \notin marker[e] /\ ~Outstanding(e)

(* For an event whose markers can be written, .pending in a running node   *)
(* means that somebody will close it, whatever happens to the others:      *)
(* crashes and shutdowns leave no orphan behind, because the next start    *)
(* fails what it finds pending.                                            *)
PendingHasOwner ==
    \A e \in Event \ Unmarkable :
        node = "running" /\ "pending" \in marker[e] => Outstanding(e)

(* Such an event, left pending, is closed, unless the process goes down    *)
(* first.                                                                  *)
PendingSettles ==
    \A e \in Event \ Unmarkable :
        "pending" \in marker[e] /\ node # "down"
            ~> "pending" \notin marker[e] \/ node = "down"

(* The recording path implements the transaction on the event directory.   *)
Status(e) == IF e \in removed THEN "deleted"
             ELSE IF "complete" \in marker[e] THEN "complete"
             ELSE IF "failed" \in marker[e] THEN "failed"
             ELSE IF marker[e] = {"pending"} THEN "open"
             ELSE "none"

Transaction ==
    INSTANCE EventTransaction WITH
        status <- [e \in Event |-> Status(e)],
        promised <- captured,
        stored <- [e \in Event |-> IF Status(e) = "complete" THEN durable[e] ELSE 0]

ImplementsTransaction == Transaction!Spec
=============================================================================
