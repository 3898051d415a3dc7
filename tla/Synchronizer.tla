---------------------------- MODULE Synchronizer ----------------------------
(***************************************************************************)
(* ApproximateSynchronizer pairs camera and lidar frames whose stamps are  *)
(* within the tolerance; PairIndex keeps a record of every pair and of     *)
(* every frame that stayed alone.  The synchronizer is two stamp-ordered   *)
(* queues (waiting); a call works on a record [waiting, matches, drops],   *)
(* and its results go to the index once the lock is released.              *)
(***************************************************************************)
EXTENDS SensorBuffer

CONSTANTS QueueSize,   \* sync_queue_size: frames waiting per sensor
          Tolerance,   \* sync_tolerance_ms
          MaxPairs     \* PairIndex::maxRecords

ASSUME SynchronizerAssumption ==
    QueueSize \in Nat \ {0} /\ Tolerance \in Nat /\ MaxPairs \in Nat \ {0}

NoneWaiting == [s \in Sensor |-> <<>>]
Working(waiting) == [waiting |-> waiting, matches |-> <<>>, drops |-> <<>>]

(* recordDrop and pop_front.                                               *)
Drop(w, s, reason) ==
    [w EXCEPT !.waiting[s] = Tail(@),
              !.drops = Append(@, [frame |-> Head(w.waiting[s]), reason |-> reason])]

(* The later of the two fronts.                                            *)
LaterFront(image, cloud) == IF image.stamp < cloud.stamp THEN "lidar" ELSE "camera"

(* The front that trails, once the fronts are too far apart.               *)
TrailingFront(image, cloud) == IF image.stamp < cloud.stamp THEN "camera" ELSE "lidar"

(* One round of the loop of tryMatchLocked.                                *)
MatchOne(w) ==
    LET image == Head(w.waiting["camera"])   cloud == Head(w.waiting["lidar"])
    IN  IF \E s \in Sensor : w.waiting[s] = <<>> THEN w
        ELSE IF image.stamp - cloud.stamp \in (-Tolerance)..Tolerance
             THEN [waiting |-> [s \in Sensor |-> Tail(w.waiting[s])], drops |-> w.drops,
                   matches |-> Append(w.matches, [camera |-> image, lidar |-> cloud])]
        ELSE Drop(w, TrailingFront(image, cloud), "outside")

(* Each round removes a frame, so as many rounds as frames are enough.     *)
TryMatch(w) ==
    LET frames == Len(w.waiting["camera"]) + Len(w.waiting["lidar"])
        after[n \in 0..frames] == IF n = 0 THEN w ELSE MatchOne(after[n - 1])
    IN  after[frames]

(* addImage and addPointCloud: one frame comes in, so one at most is over. *)
AddFrame(waiting, f) ==
    LET w == Working([waiting EXCEPT ![f.sensor] = InsertOrdered(@, f)])
    IN  TryMatch(IF Len(w.waiting[f.sensor]) > QueueSize
                 THEN Drop(w, f.sensor, "full") ELSE w)

(* The clouds go without a record.                                         *)
FlushImagesOnly(waiting) ==
    LET all == waiting["camera"]
    IN  [Working(NoneWaiting) EXCEPT
            !.drops = [i \in DOMAIN all |-> [frame |-> all[i], reason |-> "flush"]]]

FlushUnmatched(waiting) ==
    LET all == waiting["camera"] \o waiting["lidar"]
    IN  [Working(NoneWaiting) EXCEPT
            !.drops = [i \in DOMAIN all |-> [frame |-> all[i], reason |-> "flush"]]]

(***************************************************************************)
(* PairIndex: [records, nextId].                                           *)
(***************************************************************************)

EmptyIndex == [records |-> <<>>, nextId |-> 1]

Matched(m) == [camera |-> m.camera.stamp, lidar |-> m.lidar.stamp, reason |-> "matched"]
Single(d) == [camera |-> IF d.frame.sensor = "camera" THEN d.frame.stamp ELSE None,
              lidar  |-> IF d.frame.sensor = "lidar" THEN d.frame.stamp ELSE None,
              reason |-> d.reason]

Trim(records) ==
    SubSeq(records, IF Len(records) > MaxPairs THEN Len(records) - MaxPairs + 1 ELSE 1,
           Len(records))

(* dispatch: the matches first, then the drops.                            *)
Dispatch(index, w) ==
    LET new == [i \in DOMAIN w.matches |-> Matched(w.matches[i])] \o
               [i \in DOMAIN w.drops |-> Single(w.drops[i])]
    IN  [records |-> Trim(index.records \o new), nextId |-> index.nextId + Len(new)]

(* The stamp a record is looked up by.                                     *)
PairTime(r) == IF r.camera # None THEN r.camera ELSE r.lidar

(* getDataWithinTimeRange, both ends included.                             *)
PairsWithin(index, start, end) ==
    Kept(index.records,
         {r \in ToSet(index.records) : start <= PairTime(r) /\ PairTime(r) <= end})
=============================================================================
