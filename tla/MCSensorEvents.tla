--------------------------- MODULE MCSensorEvents ---------------------------
(* Instances of SensorEvents for TLC: sensor 0 may be moved between pins 4  *)
(* and 12, sensor 1 stays on 5.                                             *)
EXTENDS SensorEvents

MCSensorPins == [s \in 0 .. N - 1 |-> IF s = 0 THEN {4, 12} ELSE {5}]
MCPins == UNION {MCSensorPins[s] : s \in 0 .. N - 1}
==============================================================================
