----------------------------- MODULE SensorPath -----------------------------
(***************************************************************************)
(* From a sensor message to the two batches of an event: handleImage and   *)
(* handlePointCloud of datacache_node feed the buffer and the synchronizer,*)
(* a trigger takes the batch before the event, and the scheduler timer the *)
(* batch after it.  All of them are callbacks of one single-threaded       *)
(* executor, so each is one step; what is left to chance is the order of   *)
(* the callbacks and of the stamps.  What happens to a batch once it is    *)
(* queued is Recording's subject; here a trigger may be refused by it.     *)
(***************************************************************************)
EXTENDS Synchronizer

CONSTANTS Capture,      \* triggers, accepted or not
          Pre,          \* pre_time
          PostOf,       \* post_time of each capture's event
          WallNow,      \* the node's clock, used while there is no sensor data
          MaxArrivals   \* bound: frames that arrive

ASSUME SensorPathAssumption ==
    /\ Pre \in Nat /\ PostOf \in [Capture -> Nat]
    /\ WallNow \in Nat /\ MaxArrivals \in Nat

VARIABLES
    mode,      \* sync_enabled and sync_required_for_recording
    buffer,    \* DataBuffer
    waiting,   \* the queues of ApproximateSynchronizer
    index,     \* PairIndex
    capture,   \* the windows of each capture and its batches
    arrived,   \* history: frames received
    late       \* history: frames received behind a newer one of their sensor

vars == <<mode, buffer, waiting, index, capture, arrived, late>>

NoCapture == [at |-> "none", time |-> None, pre |-> <<>>, post |-> <<>>,
              preRows |-> <<>>, postRows |-> <<>>, seen |-> {}]

Init ==
    /\ mode \in {"off", "on", "strict"}
    /\ buffer = EmptyBuffer /\ waiting = NoneWaiting /\ index = EmptyIndex
    /\ capture = [c \in Capture |-> NoCapture]
    /\ arrived = {} /\ late = {}

(* handleImage, handlePointCloud.                                          *)
HandleFrame(f) ==
    /\ f \notin arrived /\ Cardinality(arrived) < MaxArrivals
    /\ buffer' = AddData(buffer, f)
    /\ LET w == AddFrame(waiting, f) IN
       IF mode = "off" THEN UNCHANGED <<waiting, index>>
       ELSE waiting' = w.waiting /\ index' = Dispatch(index, w)
    /\ arrived' = arrived \union {f}
    /\ late' = IF \E g \in arrived : g.sensor = f.sensor /\ g.stamp > f.stamp
               THEN late \union {f} ELSE late
    /\ UNCHANGED <<mode, capture>>

(* Nothing is flushed.                                                     *)
KeepWaiting == index' = index /\ waiting' = waiting

(* flushPendingPairs_.                                                     *)
FlushPendingPairs ==
    /\ index' = Dispatch(index, FlushUnmatched(waiting))
    /\ waiting' = NoneWaiting

StartTime(time) == time - Pre
EndTime(c) == capture[c].time + PostOf[c]

(* recordDataAroundEventDetailed.  The flush comes first, whether or not   *)
(* the trigger is accepted; queued is the answer of the storage worker.    *)
Trigger(c) ==
    /\ capture[c].at = "none"
    /\ FlushPendingPairs
    /\ \E queued \in BOOLEAN :
       LET time == IF buffer.latest = None THEN WallNow ELSE buffer.latest
           rows == PairsWithin(index', StartTime(time), time)
           ok   == /\ mode = "strict" => \E r \in ToSet(rows) : r.reason = "matched"
                   /\ queued
       IN  capture' = [capture EXCEPT ![c] =
               IF ~ok THEN [NoCapture EXCEPT !.at = "refused"]
               ELSE [at   |-> IF PostOf[c] = 0 THEN "done" ELSE "open",
                     time |-> time, seen |-> arrived,
                     pre  |-> DataWithin(buffer, StartTime(time), time),
                     preRows |-> rows, post |-> <<>>, postRows |-> <<>>]]
    /\ UNCHANGED <<mode, buffer, arrived, late>>

WindowComplete(c) == buffer.latest # None /\ buffer.latest >= EndTime(c)

(* The instant of the event kept in the second batch.                      *)
AfterEventLoose(stamp, time) == stamp >= time

(* remove_if: the first batch has the instant of the event already.        *)
AfterEvent(stamp, time) == stamp # time

(* One batch after the event.                                              *)
PostBatch(c) ==
    LET time == capture[c].time
        rows == PairsWithin(index', time, EndTime(c))
    IN  [capture[c] EXCEPT
            !.at = "done",
            !.post = Kept(DataWithin(buffer, time, EndTime(c)),
                          {f \in Frame : AfterEvent(f.stamp, time)}),
            !.postRows = Kept(rows, {r \in ToSet(rows) : AfterEvent(PairTime(r), time)})]

(* processExpiredCaptures.  The wall deadline may pass at any time, so any *)
(* open capture may be due besides those whose window is complete.         *)
Harvest ==
    /\ \E due \in SUBSET {c \in Capture : capture[c].at = "open"} :
       /\ due # {}
       /\ \A c \in Capture : capture[c].at = "open" /\ WindowComplete(c) => c \in due
       /\ FlushPendingPairs
       /\ capture' = [c \in Capture |-> IF c \in due THEN PostBatch(c) ELSE capture[c]]
    /\ UNCHANGED <<mode, buffer, arrived, late>>

Next == (\E f \in Frame : HandleFrame(f)) \/ (\E c \in Capture : Trigger(c)) \/ Harvest

Spec == Init /\ [][Next]_vars

-----------------------------------------------------------------------------
(***************************************************************************)
(* Properties                                                              *)
(***************************************************************************)

PairRecords == [camera : Nat \union {None}, lidar : Nat \union {None},
                reason : {"matched", "outside", "full", "flush"}]

(* The type invariant: queues hold received frames in stamp order.         *)
TypeOK ==
    /\ mode \in {"off", "on", "strict"}
    /\ arrived \subseteq Frame /\ late \subseteq arrived
    /\ \A s \in Sensor : \A q \in {buffer.queue[s], waiting[s]} :
           /\ ToSet(q) \subseteq {f \in arrived : f.sensor = s}
           /\ \A i, j \in DOMAIN q : i < j => q[i].stamp <= q[j].stamp
    /\ buffer.latest \in Nat \union {None}
    /\ index.nextId \in Nat /\ ToSet(index.records) \subseteq PairRecords
    /\ \A c \in Capture : capture[c].at \in {"none", "refused", "open", "done"}

Expelled == index.nextId - 1 - Len(index.records)
StampOf(r, s) == IF s = "camera" THEN r.camera ELSE r.lidar
RowsOf(rows, f) == {i \in DOMAIN rows : StampOf(rows[i], f.sensor) = f.stamp}

(* Every frame handed to the synchronizer is accounted for once: it waits  *)
(* in its queue, or exactly one record of the pair index names it (frames  *)
(* of one stamp are counted together), unless the index has forgotten its  *)
(* oldest records.                                                         *)
FrameAccounted ==
    mode # "off" =>
    \A f \in arrived :
        LET same == {g \in arrived : g.sensor = f.sensor /\ g.stamp = f.stamp}
            held == Cardinality({i \in DOMAIN waiting[f.sensor] :
                                     waiting[f.sensor][i].stamp = f.stamp})
                    + Cardinality(RowsOf(index.records, f))
        IN  /\ held <= Cardinality(same)
            /\ Expelled = 0 => held = Cardinality(same)

(* While each sensor's frames arrive in stamp order, a frame dropped as    *)
(* outside the tolerance was hopeless: every frame of the other sensor     *)
(* within its tolerance, early or late, was paired with a third one or had *)
(* left the queues for another reason ("can never match").                 *)
DropsAreHopeless ==
    late = {} =>
    \A r \in ToSet(index.records) : r.reason = "outside" =>
        \A g \in arrived :
            /\ StampOf(r, g.sensor) = None
            /\ g.stamp - PairTime(r) \in (-Tolerance)..Tolerance
            => \/ Expelled > 0
               \/ \E i \in RowsOf(index.records, g) : index.records[i].reason # "outside"

(* The limits of the buffer put a frame out: it is too old for the newest  *)
(* stamp of any sensor, or its sensor's frames from its stamp on are more  *)
(* than the count or the bytes allow.                                      *)
BeyondLimits(f) ==
    LET from == {g \in arrived : g.sensor = f.sensor /\ g.stamp >= f.stamp}
    IN  \/ MaxAge > 0 /\ \E g \in arrived : g.stamp - f.stamp > MaxAge
        \/ Cardinality(from) > MaxSize
        \/ MaxBytes > 0 /\ Bytes([g \in from |-> g]) > MaxBytes

(* The buffer forgets nothing early, whatever the order of arrival: a      *)
(* received frame is in its queue unless the limits put it out.            *)
BufferKeepsNewest ==
    \A f \in arrived : f \in ToSet(buffer.queue[f.sensor]) \/ BeyondLimits(f)

(* The batch of each capture that a step takes.                            *)
TakesPre(c) == capture[c].at = "none" /\ capture'[c].at \in {"open", "done"}
TakesPost(c) == capture[c].at = "open" /\ capture'[c].at = "done"
InWindow(stamp, from, to) == from <= stamp /\ stamp <= to

(* When a capture ends, no frame is in its batches twice, and the frames   *)
(* received with a stamp in its window are there, except those the limits  *)
(* put out and those stamped up to the event that came after the trigger.  *)
BatchesExact ==
    [][\A c \in Capture : TakesPost(c) =>
          LET time == capture[c].time
              all  == capture'[c].pre \o capture'[c].post
          IN  /\ IsInjective(all)
              /\ \A f \in arrived :
                     InWindow(f.stamp, time - Pre, time + PostOf[c]) =>
                        \/ f \in ToSet(all)
                        \/ BeyondLimits(f)
                        \/ f.stamp <= time /\ f \notin capture[c].seen]_vars

(* A frame of a batch has its row in the pair rows stored with the batch,  *)
(* unless its partner's camera stamp lies outside the window (rows are     *)
(* looked up by the camera's stamp) or the index has forgotten records.    *)
RowFor(f, rows, from, to) ==
    \/ RowsOf(rows, f) # {}
    \/ Expelled' > 0
    \/ /\ f.sensor = "lidar"
       /\ \E r \in ToSet(index'.records) :
              /\ r.lidar = f.stamp /\ r.camera # None /\ ~InWindow(r.camera, from, to)

PairsCoverBatch ==
    [][mode # "off" => \A c \in Capture :
          LET after == capture'[c] IN
          /\ TakesPre(c) => \A f \in ToSet(after.pre) :
                 RowFor(f, after.preRows, after.time - Pre, after.time)
          /\ TakesPost(c) => \A f \in ToSet(after.post) :
                 RowFor(f, after.postRows, after.time + 1, after.time + PostOf[c])]_vars
=============================================================================
