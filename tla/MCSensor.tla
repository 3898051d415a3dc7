------------------------------ MODULE MCSensor ------------------------------
(* A small instance of the sensor path.  The camera frame stamped 3 is     *)
(* within tolerance of three lidar frames, of which two share a stamp, one *)
(* frame leaves no bytes for a second one of two, and one is stamped so    *)
(* late that the age limit puts out the early ones.                        *)
EXTENDS SensorPath

F(s, t, b) == [sensor |-> s, stamp |-> t, bytes |-> b]
Frames == {F("camera", 1, 1), F("camera", 3, 1), F("camera", 7, 2),
           F("lidar", 2, 1), F("lidar", 4, 1), F("lidar", 4, 2), F("lidar", 5, 3)}

Captures == {"drive", "stop"}
Posts == [c \in Captures |-> IF c = "drive" THEN 3 ELSE 0]
=============================================================================
