---------------------------- MODULE MCMqttClients ----------------------------
(* Instances of MqttClients for TLC: all constants are given in the .cfg.   *)
EXTENDS MqttClients
==============================================================================
