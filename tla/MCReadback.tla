----------------------------- MODULE MCReadback -----------------------------
(* Small instances of an event directory and its reader.                   *)
EXTENDS RecordReader

F(s, t, form) == [sensor |-> s, stamp |-> t, form |-> form]

(* Two frames of one stamp, told apart by their form; an event without     *)
(* lidar frames whose first job is empty; events without a second job, of  *)
(* a frame with contradictory fields and one above the size limit; an      *)
(* event without frames.                                                   *)
EventBatches ==
    {<<<<F("camera", 1, "good"), F("camera", 1, "odd")>>, <<F("lidar", 2, "good")>>>>,
     <<<<>>, <<F("camera", 1, "good")>>>>,
     <<<<F("lidar", 1, "bad"), F("lidar", 2, "good")>>>>,
     <<<<F("camera", 1, "huge")>>>>,
     <<<<>>, <<>>>>}

(* An image whose fields contradict each other, after a good cloud.        *)
ContradictoryImage == {<<<<F("lidar", 1, "good")>>, <<F("camera", 2, "bad")>>>>}

JobOptions ==
    {[compress |-> TRUE, keepRaw |-> FALSE, convert |-> TRUE, sensors |-> {"camera", "lidar"}],
     [compress |-> TRUE, keepRaw |-> TRUE, convert |-> FALSE, sensors |-> {"camera"}],
     [compress |-> FALSE, keepRaw |-> FALSE, convert |-> FALSE, sensors |-> {"camera", "lidar"}]}

Command(v, e, s, n) == [verify |-> v, export |-> e, sensor |-> s, limit |-> n]
ReaderCommands ==
    {Command(TRUE, FALSE, "both", 0), Command(TRUE, FALSE, "lidar", 0),
     Command(FALSE, TRUE, "both", 0), Command(TRUE, TRUE, "camera", 1)}
=============================================================================
