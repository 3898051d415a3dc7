# DataCache: TLA+ specifications

DataCache is a ROS 2 recorder for a vehicle: it keeps recent camera and lidar
messages in memory, and when an event is triggered it writes the messages around
the event to a directory, uploads the directory to a receiver and deletes it when
the disk fills up. This directory holds TLA+ models of its state-changing parts,
the TLC configurations that check them, and TLAPS proofs about recording, upload,
triggers, the status channel and retention.

## 1. Inventory

| Component | State | Operations | Interacts with |
|---|---|---|---|
| `EventMonitor` (`event_monitor.hpp`) | `activeCaptures_` | trigger a capture, harvest expired captures (timer) | reserves slots and queues jobs in `RawStorageWorker`; writes `.pending`/`.failed` |
| `RawStorageWorker` (`raw_storage_worker.hpp`) | `jobs_`, `reservedJobs_`, `eventProgress_` | `reserve`, `enqueue`, `releaseReservation`; own thread: `run`, `writeJob` | event directories, `DiskSpaceManager`, `event_state` |
| `event_state` (`event_state.hpp`) | marker files `.pending`, `.complete`, `.failed` | `begin`, `complete`, `fail`, `reconcile` at start | read by retention, upload, status poll |
| `DiskSpaceManager` (`disk_space_manager.hpp`) | `lastSweep_`, the record root | `prepareForWrite`, `enforceRetention` | runs on the storage thread; reads markers, deletes directories |
| `UploadWorker` (`upload_worker.hpp`) | `pending_` (retries), markers `.uploading`, `.uploaded`, `.upload_failed`, `.upload_id` | own thread: scan, lease, transfer, retry | `UploadStore` service; retention reads its markers |
| `receiver_node.py` | `transfers`, staging directories, inbox, backups | BEGIN, FILE_CHUNK, END; recovery at start | answers `UploadWorker` |
| `EventRouterPolicy`, `event_router_node` | `seenTriggers_`, `lastAccepted_`, `acceptedByTrigger_` | evaluate a signal, call the node, release on refusal | trigger service of `datacache_node` |
| `DataCacheNode` (`datacache_node.cpp`) | `triggerResponses_`, `eventLifecycles_` | `handleTrigger`, `pollEventLifecycles` (200 ms timer) | all of the above; `/event_status` |
| `event_trigger_node`, `keyboard_trigger_node` | pending triggers, debouncer | forward triggers, follow `/event_status` | router, trigger service |
| `DataBuffer` (`databuffer.hpp`) | a stamp-ordered queue per sensor, the newest stamp | `addData`, `getDataWithinTimeRange` | fed by subscriptions, read by `EventMonitor` |
| `ApproximateSynchronizer`, `PairIndex` | a waiting queue per sensor; pair records | `addImage`, `addPointCloud`, `flushUnmatched`; look up a window | fed by subscriptions, flushed and read by `EventMonitor` |
| `record_reader` (`record_io.hpp`, `record_reader.cpp`) | none of its own; reads event directories | export, verify | another process, reads what `RawStorageWorker` writes |
| `SensorWatchdog` | last receive time, stale flag per sensor | `noteData`, `poll` | reports only |
| `ConfigManager`, sensor nodes | - | start-up parsing, publishing | - |

The node's callbacks (trigger service, timers, subscriptions) run on one
single-threaded executor. The storage worker and the upload worker each have a
thread, and the receiver is another process. What they share is mostly the file
system: the marker files are the protocol. The hard behaviours are the
interleavings of these threads over markers that are read one at a time, crashes
between two file operations, frames that arrive out of stamp order between a
trigger and the end of its window, calls that time out but still arrive, reservations
that have to be given back on every early return, and tables that must not keep
entries for ever. `PROJECT.json` lists them as hazards, each with the line where
it bites and the properties that would catch it.

What makes each component correct:

* recording: `.complete` is only on events that are whole and durable; a slot
  reserved at the trigger is there when the post window ends; no event stays
  `.pending` without somebody who will close it; retention never touches an
  event that is still being written;
* sensor path: a frame leaves the buffer only when a limit puts it out; every
  frame given to the synchronizer ends in one pair record; a window's frames are
  in the event's batches once, and their pair rows with them;
* reading back: what was recorded without a failure is accepted if the reader
  can accept its frames at all, and what is accepted is whole;
* upload: a completed event is whole on at least one side at every moment;
  `.uploaded` means the receiver has it; the inbox never shows part of an event;
  every event is eventually delivered;
* triggers: one id starts one capture per window; captures of one event are a
  cooldown apart;
* status: the statuses of a capture form a lifecycle, tell the truth and end;
* retention: after a sweep the policy holds for what it collected, and only
  finished directories are deleted, oldest first.

## 2. Modules

| Module | Models | Checked by |
|---|---|---|
| `EventTransaction` | what an event directory promises: opened once, closed once, complete only with everything promised stored, deleted only when closed | refined by `Recording` |
| `Recording` | `EventMonitor`, `RawStorageWorker`, `event_state`, process life | `Recording` |
| `RecordingProofs` | types, the storage queue and its reservations in `Recording` | TLAPS |
| `TransactionProofs` | the event transaction in `Recording`, and that it implements `EventTransaction` | TLAPS |
| `UploadRpc` | the `UploadStore` service: requests in flight, answers, faults | through `UploadSystem` |
| `UploadWorker` | the upload thread, and retention as far as it touches uploads | through `UploadSystem` |
| `Receiver` | `receiver_node.py` | through `UploadSystem` |
| `UploadSystem` | their composition | `UploadSafety`, `UploadLiveness`, `UploadRestore` |
| `UploadProofs` | theorems about `UploadSystem` | TLAPS |
| `TriggerPath` | router, its policy, `handleTrigger` with its response cache | `TriggerPath`, `TriggerRetry` |
| `TriggerProofs` | theorems about `TriggerPath` | TLAPS |
| `EventLifecycle` | `eventLifecycles_` and `pollEventLifecycles`; `pending_` of `keyboard_trigger_node` | `LifecycleStatus`, `LifecycleRetention` |
| `LifecycleProofs` | theorems about `EventLifecycle` | TLAPS |
| `Retention` | `DiskSpaceManager` | `RetentionSweep` |
| `RetentionProofs` | theorems about `Retention` | TLAPS |
| `SensorBuffer` | `DataBuffer` | through `SensorPath` |
| `Synchronizer` | `ApproximateSynchronizer` and `PairIndex` | through `SensorPath` |
| `SensorPath` | their composition with the sensor callbacks, the trigger and the harvest of `EventMonitor` | `SensorPath` |
| `SensorProofs` | theorems about `SensorPath` | TLAPS |
| `RecordFiles` | the files a job of `RawStorageWorker` writes | through `RecordReader` |
| `RecordReader` | `record_io` and `record_reader` over those files | `Readback`, `ReadbackPromise` |
| `ReaderProofs` | theorems about `RecordReader` | TLAPS |

The `MC*` modules only name the model values and small functions the
configurations use. An operator that nothing uses, placed before a definition of
nearly the same name, is a deliberately wrong variant of that definition; the
`mutants` of `PROJECT.json` say which property detects it.

### Recording

`ex` is the callback the executor is in: a trigger goes through `ReserveSlot`,
`RefuseCapture` or `BeginCapture`, `EnqueueFirst` or `RefuseFirst`, and, if it is
refused late, `MarkRefused` and `ClearRefused`. Steps are split where the worker
thread can see the difference (each lock of its mutex, each marker written or
removed). `wk` is the worker thread inside a job: `PopJob`, `PrepareJob`,
`WriteRecord` or `LoseRecord` for each record, `FinishJob`, and for a final job
`SealEvent` (verdict and checksum manifest), `MarkEvent`, `ClearPending`,
`RetireEvent`. Marker files are sets in `marker`; `rows` and `durable` count
manifest rows that were written and that would survive a power loss, `captured`
the records handed over by the buffer.

The content of a record is abstracted away: a batch is the number of its enabled
records, so serialization, compression and conversion are a record that is
written or lost. Whether a capture expires by sensor time or by its wall deadline
is left open: it may expire at any moment. Which closed directories a sweep
deletes is left open as well (`Retention` models the choice). A fault is
possible whenever its kind is in `Faults`.

At a shutdown `spin` has returned, the captures are destroyed with the
`EventMonitor`, and the worker drains its queue. `.pending` of destroyed captures
stays on disk until the next start reconciles it. Events left pending because
`.failed` itself could not be written stay so until the next start as well, which
is why `PendingHasOwner` and `PendingSettles` are about the events whose markers can
be written: `Unmarkable` is the set of the others, whose marker writes may fail.

### Upload

A directory is a set of files, `Manifest` being `manifest.sha256`; each file has
a size in chunks, zero included, and byte counts are numbers of chunks. `net` is the queue of requests; the one the
worker waits for is `live`, a request whose call timed out stays in flight and
its answer goes to nobody. The receiver serves one request at a time, and
publishing is four steps (`DropOldBackup`, `MoveAside` or `AsideFails`,
`PlaceStaging` or `PlaceFails`, `Conclude`), between which it can die. The two
`rmtree(backup, ignore_errors=True)` go entry by entry (`RemoveBackupEntry`); a
crash in between, or an entry that cannot be removed, leaves part of a backup, and
so may `recover_backups`. An absent directory and an empty one are both `{}`. The
raising `sync_directory` at `receiver_node.py:233` is `AsideFails`; the one at line
243, which would turn a published transfer into a failed request that the worker
repeats, is not modelled. Time appears as timers that
are still running (`fresh`) and transfers that have become idle (`idle`).

Retention is in this model by what it does beside the upload thread, because the
worker can act between any two of its steps: `Spot` (it saw no `.uploading`),
`StartDelete` (it saw `.complete` and `.uploaded` later), `DeleteMark` and
`DeleteFile` for each entry `remove_all` unlinks, in any order, and `EndDelete`,
which an error may bring at any point. While a deletion goes on, the upload worker
may find a directory that has lost `.uploaded` and kept `.complete`, lease it and
send it, with files disappearing under the transfer (`Vanished`). A lease or
`.uploaded` may even be written behind the iteration; the model allows it in a
directory that is all but gone, where the code may also fail.

Every fault (a lost message, a late answer, a failed write) counts against
`MaxFaults`, so a run in which faults go on for ever is not considered: delivery
can only be promised once they cease.

Transfers are keyed by directory. The code keys them by directory and
`.upload_id`, which is written once and kept; a directory that lost its
`.upload_id` in a deletion would get a new one and be refused until the older
transfer is pruned, where the model begins that transfer again.

### TriggerPath

Time is a counter, and the tables keep the times the code keeps. Messages are
delivered in order and at most `MaxDelay` late. The properties need that a call and
its answer together take less than the router's window (`2 * MaxDelay <
DedupeTtl`; `dedupe_ttl_ms` is a minute by default), which the run's bounds satisfy
and the proofs assume by name. A refusal may be caused by anything in
`recordDataAroundEventDetailed` (`busy` changes freely). A signal that arrives
while the service is not discovered changes nothing and is left out.
A restart of the node forgets its response cache; the router's window still
protects signals that come through the router, but direct clients have no
protection across a restart. `IdempotentWindow` says exactly that.

### EventLifecycle

`poll` is the timer callback in the middle of reading markers: `Look` is one
`exists()`. The recorder, the upload worker and retention appear by what they do
to markers. While the receiver is down entries of complete, unuploaded captures
stay in the table by design; the liveness property therefore assumes that uploads
come to an end.

`Accept` may find the id of an earlier capture still in the table and takes its
entry, as `eventLifecycles_[triggerId] = ...` does once the response cache has
forgotten the id. The first capture then gets no further status (`replaced`); it
is the one exception in `EveryTriggerConcluded`.

`key` follows `keyboard_trigger_node` from `sendTrigger` (entry, then signal, on
the input thread) to `handleStatus` or `prunePending`. The topic is reliable and
only the timeout competes with the statuses for `pending_`, so publishing a
status and handling it are one step. `PrunePending` is never obliged: the
liveness property says that a status ends the entry. The exception it names is
`wait_for_upload` on a node that does not upload, where only the timeout does.

### SensorPath

`SensorBuffer` and `Synchronizer` are operators that return the state a call
leaves behind, so that each callback is one step: the executor is
single-threaded, and the locks of these classes are never contended. A frame has
a sensor, a stamp and a size; frames arrive in any order, stamps of one sensor
included. The loops of the code (`tryMatchLocked`, popping the front of a queue,
picking the frames of a window) are recursive functions of the number of rounds or
a least number of pops, which TLC evaluates and the proofs can reason about; the
bytes of a queue are counted as a set. `Trigger` and `Harvest` are the parts of `EventMonitor` that choose
what is recorded: whether the storage worker accepts the batch is left open here
and is decided in `Recording`. The wall deadline may end a window at any time.

Three behaviours that the properties spell out: a frame dropped by the
synchronizer "can never match" only while each sensor's frames arrive in stamp
order (`DropsAreHopeless` assumes it; the pre-condition is the history variable
`late`); a frame stamped up to the event that arrives after the trigger is in
neither batch (`BatchesExact`); a lidar frame whose pair has its camera stamp
outside the window is stored without its row (`PairsCoverBatch`). A post window
ends with the newest stamp of any sensor, so frames of the slower sensor that
arrive later are not recorded; nothing promises otherwise.

### RecordFiles and RecordReader

A file is named by sensor, stamp, suffix and kind (`.bin`, `.bin.zst`, converted
copy) and holds a frame, whole or damaged; `rows` is `manifest.csv`, `sums` what
`manifest.sha256` lists, `pairs` whether `pairs.csv` is sound. Checksums are
modelled by comparing contents, and a damaged zstd file is always noticed, a
damaged raw file only with luck. `StartJob`, `WriteRecord` and `FinishJob` are
the three parts of `writeJob`, with every write that can fail; `FinishJob` of the
last job also writes the checksum list, and `MarkEvent` is the marker, so an event
may be sealed and still end `.failed`. The reader looks at no marker and accepts
such an event. It is a
process of its own: it may start at any moment of the recording, and reading the
checksum list and comparing the files are separate steps. `ExportRow` is a round
of the export loop, and `ExportRows` the loop; any of its files may fail to be
written (`NotWritten`).

The recorder writes and seals what the sensors send. `--verify` refuses a message
whose fields contradict each other and a record above `kMaxRecordBytes` (1 GiB):
"写得出就读得回" (`USER_GUIDE.md:237`, `record_io.hpp:5`) does not hold for these,
which the run `readback_promise` shows, and `WrittenReadsBack` is about the others.
`--verify --sensor X` on an event
without frames of X ends with 2 and prints no problem. What verification cannot
see is a `manifest.sha256` cut between two lines together with the loss of just
the files whose lines are gone; the rows of `manifest.csv` limit that to files no
row needs (converted copies, raw files kept beside compressed ones, `pairs.csv`).

### Retention

A sweep looks at one directory after the other: `Examine` is its look for
`.pending` and `.uploading`, `Collect` the later one for `.complete`, `.failed` and
`.uploaded`; then it sorts what it found and deletes by age and by capacity. Each
deletion may fail. Directories are created, closed, leased and uploaded at any
moment of it, and writing `.uploaded` and dropping the lease are two steps, as in
the code. `DeleteDir` is the moment at which a deletion begins; what happens during
it is in `UploadWorker`.
Directories of one time may come in any order, as `std::sort` does not say; a
size is the number of a directory's bytes, and its content does not change after
it is closed.
`prepareForWrite` forces a sweep, which may free nothing when everything is
protected; the write is then refused.

## 3. Runs

| Run | Instance | Shows |
|---|---|---|
| `recording` | 2 events, queue of 3, 2 active captures, 2 records in one or both batches, all faults, markers of one event unwritable, 1 crash, fair | `CompleteIsWhole`, `RemovedStaysGone`, `ReservationsMatch`, `QueueWithinLimit`, `PendingHasOwner`, `SweepSparesLive`, `PostBatchHasSlot`, `PendingSettles`, refinement of `EventTransaction` |
| `upload_safety` | 1 directory of 2 files (sizes 1 and 2), 2 faults, both sides may crash, deletion entry by entry | `DataNeverLost`, `UploadedIsKept`, `PublishedIsWhole`, `FirstUploadUndisturbed`, `LastCopySurvives` |
| `upload_liveness` | 2 directories of 2 files (one empty), one transfer slot, 1 fault, both sides may crash, no retention, fair | `Delivered` |
| `trigger_path` | 2 ids of one event, windows 4 and 3, cooldown 2, time up to 6, 1 restart | `IdempotentWindow`, `CooldownKept`, `TablesAgree` |
| `lifecycle_status` | 2 captures, one from a key and with 1 give-up, every configuration of uploads, retries and `wait_for_upload`, ids used again, fair | `LifecycleShape`, `GoodNewsIsTrue`, `RetryAnnouncedOnce`, `EveryTriggerConcluded` |
| `retention_sweep` | 3 directories, age and capacity policies, markers read one by one, deletions may fail | `SweepMeetsPolicy`, `DeletesOldestFirst`, `DeletesOnlyFinished` |
| `sensor_path` | any 5 of 7 frames in any order, buffer of 3 frames, 4 bytes and age 4, tolerance 1, queues of 2, index of 4 rows, captures with post windows of 3 and 0, sync off, on and required | `FrameAccounted`, `DropsAreHopeless`, `BufferKeepsNewest`, `BatchesExact`, `PairsCoverBatch` |
| `readback` | 5 events of up to 3 frames, 3 sets of options, 4 command lines, 1 failing write while recording, any while exporting, 2 accidents | `WrittenReadsBack`, `ExitZeroMeansWhole`, `ExportCoversStamps` |

The bounds are chosen so that the interesting cases occur: in `recording` two
captures hold a slot each and leave the queue one place, so a trigger's own batch
is refused, and a batch of two can lose its second record. The capture table is
never full there, with two events and two places; the step of refusing a capture
happens for the event whose `.pending` cannot be written, and the theorems cover
every limit. In `upload_safety` two faults are enough for a lost END answer and a
failing rename, or a failing removal of the backup, in one behaviour, and one file
of one chunk and one of two are enough for a deletion to fall between any two
requests of an upload; in
`upload_liveness` two directories contend for one slot that a crash leaves
occupied; in `trigger_path` an id can be refused, retried and its window run out. In
`sensor_path` one camera frame is within the tolerance of three lidar frames, two
of which share a stamp, one frame leaves no bytes for another of its queue, one
stamp is late enough to expire the early frames, and five arrivals overflow every
limit. In `readback` two frames share a stamp, one cannot be converted, one has
contradictory fields, one is too large, and one event is empty; two accidents are enough to damage
a file and the list that would show it.

Four more runs are expected to fail; they show where the code does not do what a
doc, a docstring or a test says:

* `upload_restore`: after a failed rename whose restore failed as well, the only
  complete copy is in `.<event>.backup`, and the next END deletes it before its
  own rename (`receiver_node.py:232`), against the docstring's promise that a
  failed retry does not destroy the last complete copy. A crash in that deletion
  leaves part of the copy, which `recover_backups` then publishes. Elsewhere the
  restore is assumed to succeed (`RestoreMayFail = FALSE`).
* `trigger_retry`: the router releases a refused id so that it can be retried,
  but the node replays its cached refusal (`datacache_node.cpp:247`).
* `lifecycle_retention`: if retention deletes a finished directory between two
  polls, a capture accepted more than five minutes ago and already reported
  `STORED` is reported `RECORD_FAILED` (`datacache_node.cpp:377`).
* `readback_promise`: an event with a frame whose fields contradict each other, or
  that is too large, is recorded and sealed without a failure and is then refused by
  `--verify` (`record_io.hpp:472`, `212`), against "写得出就读得回".

More behaviours were met on the way and are not runs. The comment at
`disk_space_manager.hpp:134` says that retention never races against an event that
is being uploaded. It does in two ways: a directory whose `.uploaded` is written
may be found and deleted before the lease on it is dropped, as `.uploading` was
looked for before it was there (`DeletesOnlyFinished` says that the upload is
confirmed then); and a directory in the middle of its deletion may be picked up by
the upload worker once `.uploaded` is gone (`FirstUploadUndisturbed` says that the
receiver has it then). Neither loses data (`DataNeverLost`). The capacity pass of
retention adds up only what it may delete (`disk_space_manager.hpp:100`), so with
leased or unuploaded directories the records root is not kept under
`retention_max_capacity_mb` as `config.txt:42-43` has it; `SweepMeetsPolicy` says
what the sweep does achieve. And a half-deleted directory that kept `.complete` and lost `.uploaded` is
uploaded and refused at every rescan, each time renewing its transfer slot, and
as many of them as `MAX_ACTIVE_TRANSFERS` keep every other event from being
delivered. `upload_liveness` therefore runs without retention.

`CHECK_DEADLOCK FALSE` is set where time is bounded or every capture has come to
its end: the models of `TriggerPath`, `EventLifecycle`, `Retention`, `SensorPath` and
`RecordReader` stop there. The recording and upload models never stop.

## 4. Fairness

* `Recording`: weak fairness of the executor's and the worker's steps (threads
  are scheduled), of the steps of starting and stopping, and of the expiry of
  each capture (`wallDeadline` bounds it and the timer is periodic). Nothing
  obliges a trigger, a crash or a restart.
* `UploadSystem`: weak fairness of both threads, of every timer and of idle
  transfers (time passes), and of starting a process that is down. The last one
  is an assumption on the installation: the repository contains no supervisor.
* `EventLifecycle`: the timer is periodic and visits every entry in turn; strong
  fairness of `StartPoll` for each capture says that no entry is passed over for
  ever, which the loop over the table guarantees. Uploads come to an end.

## 5. Proofs

Everything below is proved for every value of the constants that satisfies the
named assumptions: any finite set of events, directories or files, all limits,
windows and sizes, any number of faults and crashes. Where an invariant is not
inductive, the module defines the strengthening in layers, each proved from the
ones before it; TLC checked each layer on the bounds of the component's run
before it was proved.

### Recording

`RecordingProofs!TypeCorrect` proves `TypeOK`, which is inductive: besides types
it says that an idle thread holds no job and that a job's records left and kept
never exceed its size, which is what `WriteRecord` needs to stay within a batch.
The proof is split by actor (executor, worker, life of the process) and, under
each, by action.

`RecordingProofs` also proves that the storage queue is never overfull
(`QueueNeverOverfull`), that reservations are exact (`ReservationsExact`) and that
a post batch is never refused (`PostBatchNeverRefused`). None of the three is
inductive alone. A reserved job skips the capacity check, so the queue stays within
its limit only because the job's slot is counted in `reservedJobs`; that needs
`ReservationsMatch`, and `ReservationsMatch` needs that a callback runs only in a
running node (a destroyed capture must not be harvested) and that the capture of
the trigger being served is in the table exactly from `BeginCapture` on. The
inductive invariant is

    SlotInv == QueueWithinLimit /\ ReservationsMatch
               /\ CallbacksOnlyWhenRunning /\ CapturesAnswered

and `SlotsSafe` proves it invariant. Counting arguments (taking a set of expired
captures out of the table moves its cardinality) rest on the library's theorems
about finite sets.

`TransactionProofs` proves the event transaction: `.complete` means whole
(`CompleteMeansWhole`), a pending event has an owner (`PendingIsOwned`), a deleted
directory stays gone (`DeletedStaysGone`), and a sweep deletes nothing that is
still being recorded (`SweepSparesTheLive`). The invariant has three layers.
`ShapeInv` says which jobs and captures of an event can exist together: the worker
may merge two batches into one verdict only because the pre batch is always in
front of the closing one and a capture has not handed over its closing batch yet.
`MarkerInv` says which markers an event has while somebody will still close it,
while the worker is between the two steps of closing it, and while a start
reconciles. `RecordInv` is a ledger: what the buffer handed over is a pre and a
post batch, and as long as no job of the event failed the rows written are the
finished jobs and the part of the current one. Only with all three does the
worker's check at `SealEvent` imply that everything captured is durable.

`TransactionProofs!RecordingImplementsTransaction` proves `Spec =>
ImplementsTransaction`. Under the mapping of `Recording` each step is shown to be
one step of `EventTransaction` or to leave it alone, a crash and a restart with
several pending events included. The theorem needs `RemovedStaysGone`,
`CompleteIsWhole` and the marker layer: without them a second close or a deletion
of an open event would not be excluded.

### Upload

`UploadProofs` goes through four layers: types (with `KnownDirs`, who may be sent),
`InboxInv` (final copies are whole or absent at each step of publishing, and a
backup is whole when there is no final copy), `CallInv` (an answer belongs to the
call being waited for; a forsaken call's answer reaches nobody) and `CopyInv` (a
success of END, `.uploaded`, and being deleted mean that the receiver has the
event). `UploadTypeOK` and `CallsPaired` hold without further hypotheses. The
others assume that an old copy can always be put back (`RestoreMayFail = FALSE`):
`PublishedWhole`, `RetentionSparesUpload`, `LastCopyKept`, `NoRecordingLost` and
`UploadedMeansKept`. That hypothesis cannot be dropped: with it part of a backup,
left by a crash or an ignored error inside `rmtree`, always stands beside a whole
final copy and is never published; without it the run `upload_restore` is the
counterexample.

### Triggers

`TriggerProofs` proves without further assumptions that the tables agree
(`TablesStayEqual`), that entries end with their window (`EntriesExpire`) and that
the node's cache keeps its own window (`NodeWindowKept`). The router's half of
`IdempotentWindow` (`TriggersAreIdempotent`) and `CooldownKept`
(`EventsCoolDown`) are proved under

    Prompt == 2 * MaxDelay < DedupeTtl

because an answer that comes after its entry has expired releases somebody else's
entry. The hypothesis is tight: with `2 * MaxDelay = DedupeTtl` TLC finds both
properties violated (windows 2 and 1, delay 1, cooldown 2). The invariant says
which entry each call in flight belongs to (`FlightInv`), that a capture is
remembered as long as its window is open and that no unanswered call of its id
falls into it (`CaptureInv`), and that entries and captures of one event are apart
while `lastAccepted` covers the cooldown (`CooldownInv`).

### Status channel

`LifecycleProofs` first describes what `pollEventLifecycles` decides by a lemma
about the decision alone (`Decides`), then shows that the markers, the ones a poll
has already looked at, the entry and the statuses published so far agree
(`ShapeInv`), which gives `StatusesFormALifecycle` and `GoodNewsStaysTrue`. For
`RetriesAnnouncedOnce` the failures that are not announced yet have to be counted
in three places: in the marker with the entry's flag unset, in the half-finished
poll, and in a marker the poll has just passed.

### Retention

`RetentionProofs!SweepSafe` says that a directory that passed both looks of a sweep
may be deleted from then on (`MayBeDeleted`: it is closed, delivered or failed when
uploads are on, and leased only if `.uploaded` is there; the recorder has finished
with it and the uploader removes none of these markers), that the list is what was
found and is left, oldest first, and
that its running total is the size of what is left. Hence the
`std::min` in the subtraction never takes effect, a sweep that ends meets the
policy (`PolicyIsMet`), deletes oldest first (`OldestGoFirst`) and only what is
finished (`OnlyFinishedAreDeleted`).

### The sensor path

`SensorProofs` is about what the loops compute, for every set of frames, every
order of arrival and every limit. The prover cannot instantiate the library's
induction theorems, whose parameter is an operator, but it can use the least number
principle, which is a statement about sets (`LeastNumber`, from the
well-foundedness of the naturals): the first round for which a claim fails is the
first one or comes after one for which it holds. The same principle shows that a
recursive function has the values its definition says (`KeptLoop`,
`TryMatchLoop`).

The buffer: `InsertFacts` says that the insertion keeps a queue in stamp order,
`RestFacts` and `PopOverLimit` what popping the front leaves. The invariant
`BufferInv` says that a queue is in stamp order, has each frame once, is within its
limits, and that every received frame that is not in it lies beyond them. It is
inductive because being beyond a limit is monotone in the frames received
(`BeyondMonotone`): a frame at the front of an overfull queue is beyond the limit
(`OverIsBeyond`), and later frames cannot change that. `BufferNeverForgets` and
`BufferBounded` are its two halves.

The synchronizer: `SyncInv` counts, for each sensor and stamp, the frames waiting,
in the index and expelled from it, and says that the counts add up to the frames
given (`Accounted`). Its second part is about frames dropped as outside the
tolerance: each is apart from every frame of the other sensor that waits, and
every frame that could still come is newer than what proved it hopeless
(`Settled`). `DroppedIsHopeless` is the heart of it: the trailing front of two
sorted queues is too old for the other front, hence for all behind it.
`MatchOneKeeps` carries this through a round and `TryMatchKeeps` through the loop,
which also ends with a queue empty: as many rounds as frames are enough. Hence
`FramesAccountedFor`, `OutsideMeansHopeless` and `SynchronizerBounded`.

The captures: `BatchesAreExact` and `RowsCoverBatches` are action properties proved
from both invariants and from what a capture knows of its window while it is open
(`CaptureInv`).

### Reading back

`ReaderProofs` has two layers. `FilesInv` is about the recorder: while an event is
pending and has not failed, every frame handed over is still to come or has a row
whose file holds it (`Writing`); when it is sealed, the list
holds them all, and the directory is as sealed until an accident (`Sealed`). It
needs that a new row names a file no row names: the search for a free suffix finds
one among the numbers up to the number of files (`FreshNameFree`, the pigeonhole
principle), and a converted copy never replaces a record file (`RoundFiles`).
`ReaderInv` is about the reader: what it has found out by each step is true of the
directory as long as no accident has happened since it started (`Quiet`), and
whatever accidents there were, it cannot have accepted a directory that is not
sealed, because `manifest.sha256` appears last. `ExitZeroIsWhole` follows because
a list that agrees with the files is the sealed one exactly when the files are.
`ExportFacts` is the export loop, by induction on its rounds, with any set of files
that cannot be written. The theorems hold for
all events and command lines, any number of failed writes and of accidents.

### Assumptions

The assumptions are the named ones of the modules, and TLC evaluates them in every
run: `EventAssumption` (finitely many events), `NoneAssumption` (`None` is no
event), `LimitsAssumption` (the limits are positive, as the code's `max(1, ...)`
makes them) and `ConfigAssumption` of `Recording`; `FilesAssumption`,
`FaultsAssumption`, `UploaderAssumption` and `ReceiverAssumption` of the upload
modules; `TriggerAssumption`, `LifecycleAssumption` and `RetentionAssumption`;
`BufferAssumption`, `SynchronizerAssumption` (the queues hold at least one, by
`max(1, queueSize)`, and the index a fixed number) and
`SensorPathAssumption`; `FilesAssumption` of `RecordFiles` (what a job and its
options are) and `ReaderAssumption` (what a command line is; one that asks for
nothing only prints).
Some theorems have a hypothesis of their own, named above: `RestoreMayFail = FALSE`
or `Prompt`.

### Only model-checked

* Liveness (`PendingSettles`, `Delivered`, `EveryTriggerConcluded`): fairness is
  outside the prover's reach.
* The runs that are expected to fail show what the theorems' hypotheses exclude;
  nothing is proved about them.

Every safety property of every passing run is a theorem.

## 6. Plan

Done: recording, upload end to end, triggers, the status channel with the keyboard,
retention, the sensor path and reading back, each checked and proved.

What would come next:

1. `SensorWatchdog`, if its report gets a reader: a small module of its own.
2. Reading file by file in `RecordReader`, so that an accident may fall between two
   files; `Quiet` already names the behaviours for which nothing would change.
3. A fair specification of uploads with half-deleted directories, once the receiver
   tells them from whole ones (`receiver_node.py:140`); today `Delivered` would not
   hold there.

## 7. Not modelled

* Configuration parsing: read once at start; its values are the constants.
* `SensorWatchdog`: a receive time and a flag per sensor, changed by callbacks of
  one executor; it ends in log lines and in text nobody parses.
* Key bindings, the debouncer and the terminal handling of
  `keyboard_trigger_node`: they decide which key presses become triggers, and the
  models allow any trigger at any time.
* `event_trigger_node`'s own waiting loop: in `TriggerPath` it is a client that
  calls the service directly.
* The simulated sensors, the printed summary of `record_reader`, the bytes of
  images, point clouds and zstd frames, name and path validation in the receiver
  (strings) and `parseEventTimestamp`.
