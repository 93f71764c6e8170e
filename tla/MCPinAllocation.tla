--------------------------- MODULE MCPinAllocation ---------------------------
(* Constants for TLC: three actuators and two sensors have keys, there are  *)
(* three safe pins; the API takes up to 2 + 1 units, the form up to 4 + 4.  *)
EXTENDS PinAllocation

MCKeyMax == [ch |-> 2, sn |-> 1]
MCDefault == [ch |-> 2, sn |-> 0]
==============================================================================
