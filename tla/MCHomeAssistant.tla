---------------------------- MODULE MCHomeAssistant ----------------------------
(* Constants for TLC: two units, and for the four settings the values that  *)
(* make a difference; one request has a value that no handler lets pass,    *)
(* one a key that is protected and a host that overruns its field.          *)
EXTENDS HomeAssistant

MCUnits == <<"relay_ch_0", "relay_sn_0">>
Board == [levels |-> <<"relay_board">>, size |-> 11]
Loopback == [levels |-> <<"127.0.0.1">>, size |-> 9]
MCDefaults == [mqtt_connect |-> 0, mqtt_prefix |-> Board, net_log_type |-> 0,
               net_log_host |-> Loopback]

Set(key, json) == [key |-> key, json |-> json]
MCRequests ==
  {[action |-> 0, data |-> <<Set("mqtt_connect", Number(2))>>],
   [action |-> 0, data |-> <<Set("mqtt_connect", Number(0))>>],
   [action |-> 0, data |-> <<Set("mqtt_prefix", String(<<"home">>, 4))>>],
   [action |-> 2, data |-> <<Set("mqtt_prefix", String(<<"home", "">>, 5)),
                             Set("net_log_type", Number(4))>>],
   [action |-> 1, data |-> <<Set("device_id", String(<<"x">>, 1)),
                             Set("net_log_host", String(<<"log">>, 255)),
                             Set("net_log_type", Number(2))>>],
   [action |-> 1, data |-> <<Set("mqtt_connect", Number(1)),
                             Set("mqtt_prefix", String(<<"home", "board">>, 10))>>],
   [action |-> 1, data |-> <<Set("mqtt_prefix",
                                 String(<<"home", "board", "relay_ch_0">>, 21))>>]}

MCForms ==
  {[mqtt_connect |-> 1, mqtt_prefix |-> Board, net_log_type |-> 65537,
    net_log_host |-> Loopback],
   [mqtt_connect |-> 2, mqtt_prefix |-> [levels |-> <<"home">>, size |-> 4],
    net_log_type |-> 65540, net_log_host |-> Loopback]}
==============================================================================
