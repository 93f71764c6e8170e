--------------------------- MODULE MCRelayActuator ---------------------------
(* Instances of RelayActuator for TLC.  Pins 4, 5 and 12 can be outputs,    *)
(* 34 cannot (as on an ESP32).                                              *)
EXTENDS RelayActuator

MCPins == {4, 5, 12, 34}
MCOutputPins == {4, 5, 12}

\* unit 0 may be moved between pins 4, 12 and 34, unit 1 stays on 5
MCTwoUnits == [u \in {0, 1} |-> IF u = 0 THEN {4, 12, 34} ELSE {5}]

\* a single unit
MCOneUnit == [u \in {0} |-> {4, 12, 34}]
==============================================================================
