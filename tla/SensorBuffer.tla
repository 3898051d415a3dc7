---------------------------- MODULE SensorBuffer ----------------------------
(***************************************************************************)
(* DataBuffer: the recent frames of each sensor, in stamp order, bounded   *)
(* by count, by bytes and by age.  A buffer is a record [queue, latest];   *)
(* the operators give the buffer that a call leaves behind.  A frame is a  *)
(* record [sensor, stamp, bytes].  queueBytes_ is the sum that Bytes       *)
(* computes: 64 bits hold the sum of the frames of one queue.              *)
(***************************************************************************)
EXTENDS Integers, Sequences, SequencesExt, FiniteSets

CONSTANTS Frame,     \* the frames the sensors may publish
          MaxSize,   \* buffer_size: frames kept per sensor
          MaxBytes,  \* buffer_max_mb: bytes kept per sensor, 0 for no limit
          MaxAge     \* buffer_duration_seconds: 0 for no limit

Sensor == {"camera", "lidar"}
None == -1           \* no stamp

ASSUME BufferAssumption ==
    /\ \A f \in Frame : f.sensor \in Sensor /\ f.stamp \in Nat /\ f.bytes \in Nat
    /\ MaxSize \in Nat /\ MaxBytes \in Nat /\ MaxAge \in Nat

EmptyBuffer == [queue |-> [s \in Sensor |-> <<>>], latest |-> None]

(* At the back, whatever the stamp.                                        *)
InsertAtBack(q, f) == Append(q, f)

(* Behind the frames of the same stamp, before the first later one.        *)
InsertOrdered(q, f) ==
    LET later == SelectInSeq(q, LAMBDA g : g.stamp > f.stamp)
    IN  IF later = 0 THEN Append(q, f) ELSE InsertAt(q, later, f)

(* What is left of q once its front has been popped while Over holds.      *)
PopWhile(q, Over(_)) ==
    LET rest(n) == SubSeq(q, n + 1, Len(q))
        popped  == CHOOSE n \in 0..Len(q) :
                       /\ n = Len(q) \/ ~Over(rest(n))
                       /\ \A m \in 0..(n - 1) : Over(rest(m))
    IN  rest(popped)

(* The sum of the sizes of the frames of q, counted byte by byte.          *)
Bytes(q) == Cardinality(UNION {{i} \X (1 .. q[i].bytes) : i \in DOMAIN q})

OverLimit(q) == Len(q) > MaxSize \/ (MaxBytes > 0 /\ Bytes(q) > MaxBytes)

(* The age limit with its end included.                                    *)
ExpiredAtLimit(f, latest) == MaxAge > 0 /\ f.stamp <= latest - MaxAge

Expired(f, latest) == MaxAge > 0 /\ f.stamp < latest - MaxAge

EvictExpired(queue, latest) ==
    [s \in Sensor |->
        PopWhile(queue[s], LAMBDA q : q # <<>> /\ Expired(Head(q), latest))]

(* The newest stamp moves before the age of the frame itself is looked at. *)
AddData(b, f) ==
    LET latest == IF b.latest = None \/ f.stamp > b.latest THEN f.stamp ELSE b.latest
        added  == [b.queue EXCEPT ![f.sensor] = PopWhile(InsertOrdered(@, f), OverLimit)]
    IN  IF MaxSize = 0 THEN b
        ELSE IF Expired(f, latest) THEN [b EXCEPT !.latest = latest]
        ELSE [queue |-> EvictExpired(added, latest), latest |-> latest]

(* The elements of q that are in S, in their order (SelectSeq, spelled as  *)
(* the loop it stands for).                                                *)
Kept(q, S) ==
    LET kept[n \in 0..Len(q)] ==
            IF n = 0 THEN <<>>
            ELSE IF q[n] \in S THEN Append(kept[n - 1], q[n]) ELSE kept[n - 1]
    IN  kept[Len(q)]

(* getDataWithinTimeRange, both ends included.                             *)
DataWithin(b, start, end) ==
    LET window == {f \in Frame : start <= f.stamp /\ f.stamp <= end}
    IN  Kept(b.queue["camera"], window) \o Kept(b.queue["lidar"], window)
=============================================================================
