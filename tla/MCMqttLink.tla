----------------------------- MODULE MCMqttLink -----------------------------
(* Instances of MqttLink for TLC: all constants are given in the .cfg.      *)
EXTENDS MqttLink
==============================================================================
