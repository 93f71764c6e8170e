------------------------------ MODULE TopicPaths ------------------------------
(***************************************************************************)
(* The MQTT topics of the board and how a command is matched to a unit     *)
(* (src/main/mqtt.c).  A topic is the sequence of its levels, the texts    *)
(* between the slashes: "a/b" is <<"a", "b">>, "/a" is <<"", "a">>.  Some  *)
(* level of every topic of the board is not empty.                         *)
(***************************************************************************)
EXTENDS SequenceFilter

Null == "NULL"

(* The topic that the board subscribes to for the commands of a unit, when   *)
(* the setting mqtt_prefix has these levels: HA_DEVICE_FAMILY for all units. *)
CommandTopic(prefix, key) == prefix \o <<"device_id", key, "switch", "set">>

(* The topic of commands in the discovery message of a unit: "/set" behind   *)
(* its topic of states, HA_DEVICE_STATE_PATH_RELAY or _SENSOR.               *)
DiscoveryTopic(prefix, key, path) == prefix \o <<"device_id", key, path, "set">>

(* What is between two slashes that follow each other, and what a level of  *)
(* a topic can be.                                                          *)
Empty == ""
Level == STRING \cup {Empty}

(* strtok: empty levels are skipped. *)
Tokens(topic) == Without(topic, {Empty})

(* The room str_split counts: a place per slash, one for what follows the   *)
(* last slash unless that is nothing, and one for the terminating NULL.     *)
ElementCount(topic) ==
  (Len(topic) - 1) + (IF Len(topic) = 1 \/ topic[Len(topic)] # Empty THEN 1 ELSE 0) + 1

(* The two assertions of str_split. *)
Splits(topic) == Len(Tokens(topic)) = ElementCount(topic) - 1

(* get_element_from_path, of a topic that str_split can split. *)
Element(topic, index) ==
  IF index >= ElementCount(topic) - 1 THEN Null ELSE Tokens(topic)[index + 1]

(* Mutated: the index counts from one. *)
ResolveKeyFromOne(topic) == Element(topic, 1)

ResolveKey(topic) == Element(topic, 2)
==============================================================================
