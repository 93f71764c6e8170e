----------------------------- MODULE HomeAssistant -----------------------------
(***************************************************************************)
(* What a change of the settings does to the MQTT session, from one boot   *)
(* to the next (src/main/main.c, mqtt.c, hass.c, status.c): the topics the *)
(* client subscribes to when it connects, the topics that the discovery    *)
(* messages tell Home Assistant to use, and the commands in between.       *)
(*                                                                         *)
(* Abstracted: publishing of states and commands to units (module          *)
(* MqttLink); all messages of Home Assistant's discovery except the topic  *)
(* of commands; and what becomes of the session once a second client is    *)
(* made (module MqttClients): from then on until the restart only settings, *)
(* discovery and restarts are followed.                                    *)
(***************************************************************************)
EXTENDS Settings

CONSTANTS
  Units,   \* the keys of the units, in the order of s_units
  Sensors  \* those of contact sensors

(* Keys are relay_ch_<n> and relay_sn_<n>. *)
ASSUME UnitsAssumption ==
  /\ Units \in Seq(Level \ {Empty, "device_id"})
  /\ \A u, v \in DOMAIN Units : Units[u] = Units[v] => u = v
ASSUME UsedAssumption ==
  {"mqtt_connect", "mqtt_prefix", "net_log_type", "net_log_host"} \subseteq Keys

VARIABLES
  queues,    \* mqtt_event_queue and mqtt_command_queue exist
  tasks,     \* the tasks "status" and "ha" that run
  client,    \* mqtt_client: "none", "started", or "up" in a session; or
             \* "several", of which mqtt_client is the last
  ready,     \* BIT_MQTT_CONNECTED and BIT_MQTT_READY
  handler,   \* MQTT_EVENT_CONNECTED: the unit to subscribe next, 0 when done
  subs,      \* subs[u]: the prefix under which u is subscribed in the session
  announced, \* announced[u]: the prefix of the topic of commands in the
             \* discovery message of u that the broker retains
  ha,        \* mqtt_device_config_task: the unit, 0 between updates, and the
             \* prefix that it has read for it
  changed,   \* mqtt_prefix or mqtt_connect was changed in this session (history)
  missed     \* the units whose own subscription failed in it (history)

mqttVars == <<queues, tasks, client, ready, handler, subs, announced, ha, changed,
              missed>>
session == <<client, ready, handler, subs, changed, missed>>
vars == <<settingsVars, mqttVars>>

U == DOMAIN Units
Mode == nvs["mqtt_connect"]
Prefix == nvs["mqtt_prefix"]
Asleep == [unit |-> 0, prefix |-> Unset]
NoTopics == [u \in U |-> Unset]

(* Mutated: the last unit is left out. *)
NextUnitShort(u) == IF u < Len(Units) - 1 THEN u + 1 ELSE 0

(* The loops over all units: the one after u, 0 when there is none. *)
NextUnit(u) == IF u < Len(Units) THEN u + 1 ELSE 0

MqttInit ==
  /\ queues = FALSE /\ tasks = {}
  /\ client = "none" /\ ready = FALSE /\ handler = 0
  /\ subs = NoTopics /\ announced = NoTopics
  /\ ha = Asleep
  /\ changed = FALSE /\ missed = {}

Init == SettingsInit /\ MqttInit

(* A restart ends all tasks and the session; what is retained stays. *)
MqttReset ==
  /\ queues' = FALSE /\ tasks' = {}
  /\ client' = "none" /\ ready' = FALSE /\ handler' = 0
  /\ subs' = NoTopics
  /\ ha' = Asleep
  /\ changed' = FALSE /\ missed' = {}
  /\ UNCHANGED announced

Abort == Restart /\ MqttReset

SettingsStep ==
  /\ SettingsNext
  /\ \/ phase' = "settings" /\ phase # "settings" /\ MqttReset
     \/ /\ ~(phase' = "settings" /\ phase # "settings")
        /\ changed' = (\/ changed
                       \/ nvs'["mqtt_prefix"] # Prefix
                       \/ nvs'["mqtt_connect"] # Mode)
        /\ UNCHANGED <<queues, tasks, client, ready, handler, subs, announced, ha,
                       missed>>

------------------------------------------------------------------------------
(* Boot: the end of app_main, which starts the web server first.            *)

BootMqtt ==
  /\ phase = "mqtt"
  /\ IF Mode = 0
     THEN phase' = "run" /\ tasks' = {"status"} /\ UNCHANGED queues
     ELSE phase' = "init" /\ queues' = TRUE /\ UNCHANGED tasks
  /\ UNCHANGED <<bootKey, nvs, web, rebooting, typed, inputs>>
  /\ UNCHANGED <<session, announced, ha>>

(* mqtt_init makes a client, whether there is one or not.  Nobody follows   *)
(* the session of several.                                                  *)
NewClient ==
  /\ client' = IF client = "none" THEN "started" ELSE "several"
  /\ ready' = FALSE /\ handler' = 0
  /\ subs' = NoTopics /\ changed' = FALSE /\ missed' = {}

(* mqtt_init reads the mode again; without MQTT it makes no client, and does *)
(* not fail.                                                                *)
BootClient ==
  /\ phase = "init"
  /\ IF Mode = 0
     THEN phase' = "run" /\ tasks' = {"status", "ha"} /\ UNCHANGED session
     ELSE phase' = "wait" /\ NewClient /\ UNCHANGED tasks
  /\ UNCHANGED <<bootKey, nvs, web, rebooting, typed, inputs>>
  /\ UNCHANGED <<queues, announced, ha>>

(* mqtt_init has seen the bits that the handler sets first. *)
BootConnected ==
  /\ phase = "wait" /\ (ready \/ client = "several")
  /\ phase' = "run" /\ tasks' = {"status", "ha"}
  /\ UNCHANGED <<bootKey, nvs, web, rebooting, typed, inputs>>
  /\ UNCHANGED <<queues, session, announced, ha>>

(* Ten seconds passed without them: app_main returns.  The client goes on.  *)
BootTimeout ==
  /\ phase = "wait"
  /\ phase' = "run"
  /\ UNCHANGED <<bootKey, nvs, web, rebooting, typed, inputs>>
  /\ UNCHANGED mqttVars

------------------------------------------------------------------------------
(* The client.  A session starts without subscriptions.                     *)

Connect ==
  /\ client = "started"
  /\ client' = "up" /\ ready' = TRUE /\ handler' = NextUnit(0)
  /\ subs' = NoTopics
  /\ changed' = FALSE /\ missed' = {}
  /\ UNCHANGED <<queues, tasks, announced, ha>>
  /\ UNCHANGED settingsVars

Disconnect ==
  /\ client = "up" /\ handler = 0
  /\ Input
  /\ client' = "started" /\ ready' = FALSE
  /\ UNCHANGED <<phase, bootKey, nvs, web, rebooting, typed>>
  /\ UNCHANGED <<queues, tasks, handler, subs, announced, ha, changed, missed>>

(* Wi-Fi breaks down, and clears the bits; the session outlives it. *)
WifiFlap ==
  /\ ready
  /\ Input
  /\ ready' = FALSE
  /\ UNCHANGED <<phase, bootKey, nvs, web, rebooting, typed>>
  /\ UNCHANGED <<queues, tasks, client, handler, subs, announced, ha, changed, missed>>

(* relay_publish_all_to_mqtt: trigger_mqtt_publish, into a queue that may   *)
(* not exist, and mqtt_relay_subscribe.  It does nothing without MQTT, and  *)
(* fails once the bits are cleared - or, in the mode "autoconnect", makes   *)
(* another client then (MakeClient).                                        *)
Subscribe ==
  /\ handler # 0 /\ queues
  /\ ready \/ Mode < 2
  /\ subs' = [subs EXCEPT ![handler] = IF Mode # 0 /\ ready THEN Prefix ELSE @]
  /\ handler' = NextUnit(handler)
  /\ UNCHANGED <<queues, tasks, client, ready, announced, ha, changed, missed>>
  /\ UNCHANGED settingsVars

(* It fails as well when it cannot read the settings, has no memory for the *)
(* topic, or the client refuses; the handler goes on to the next unit.      *)
SubscribeFails ==
  /\ handler # 0 /\ queues
  /\ Input
  /\ missed' = missed \cup {handler}
  /\ handler' = NextUnit(handler)
  /\ UNCHANGED <<phase, bootKey, nvs, web, rebooting, typed>>
  /\ UNCHANGED <<queues, tasks, client, ready, subs, announced, ha, changed>>

NoQueue ==
  /\ handler # 0 \/ client = "several"
  /\ ~queues
  /\ Abort
  /\ UNCHANGED inputs

(* A command on the topic of a unit that str_split cannot split. *)
CommandAborts(u) ==
  /\ client = "up" /\ handler = 0
  /\ subs[u] # Unset
  /\ ~Splits(CommandTopic(subs[u].levels, Units[u]))
  /\ Input
  /\ Abort

(* In the mode "autoconnect" status_task, mqtt_event_task, which is there   *)
(* with the queues, and the handler of the client call mqtt_init when the   *)
(* bits are clear.                                                          *)
MakeClient ==
  /\ "status" \in tasks \/ queues
  /\ Mode > 1 /\ ~ready /\ client # "several"
  /\ NewClient
  /\ UNCHANGED <<queues, tasks, announced, ha>>
  /\ UNCHANGED settingsVars

------------------------------------------------------------------------------
(* mqtt_device_config_task: all units, again and again.                     *)

(* Mutated: discovery goes on with the prefix it has read first. *)
HaReadCached(u) ==
  /\ "ha" \in tasks
  /\ ha.unit = u - 1 /\ ha.prefix = Unset
  /\ u = 1 => (ready \/ client = "several") /\ Mode # 0
  /\ ha' = [unit |-> u, prefix |-> IF announced[u] = Unset THEN Prefix ELSE announced[u]]
  /\ UNCHANGED <<queues, tasks, session, announced>>
  /\ UNCHANGED settingsVars

(* ha_entity_discovery_fullfill reads the prefix for every unit. *)
HaRead(u) ==
  /\ "ha" \in tasks
  /\ ha.unit = u - 1 /\ ha.prefix = Unset
  /\ u = 1 => (ready \/ client = "several") /\ Mode # 0
  /\ ha' = [unit |-> u, prefix |-> Prefix]
  /\ UNCHANGED <<queues, tasks, session, announced>>
  /\ UNCHANGED settingsVars

HaNext == IF NextUnit(ha.unit) = 0 THEN Asleep ELSE [ha EXCEPT !.prefix = Unset]

(* A message that no client in a session takes is lost. *)
HaPublish ==
  /\ ha.prefix # Unset
  /\ \/ client \in {"up", "several"}
        /\ announced' = [announced EXCEPT ![ha.unit] = ha.prefix]
     \/ client # "up" /\ UNCHANGED announced
  /\ ha' = HaNext
  /\ UNCHANGED <<queues, tasks, session>>
  /\ UNCHANGED settingsVars

(* Nor is one published for which there is no memory, or no setting: the    *)
(* task goes on to the next unit, or gives up until the next update.        *)
HaFails ==
  /\ ha.prefix # Unset
  /\ Input
  /\ ha' \in {HaNext, Asleep}
  /\ UNCHANGED <<phase, bootKey, nvs, web, rebooting, typed>>
  /\ UNCHANGED <<queues, tasks, session, announced>>

------------------------------------------------------------------------------
Network ==
  \/ Disconnect \/ WifiFlap \/ SubscribeFails \/ HaFails
  \/ \E u \in U : CommandAborts(u)
Client == Connect \/ Subscribe \/ NoQueue
Ha == HaPublish \/ \E u \in U : HaRead(u)
BootEnd == BootConnected \/ BootTimeout

Next ==
  \/ SettingsStep
  \/ BootMqtt \/ BootClient \/ BootEnd
  \/ Network \/ Client \/ MakeClient \/ Ha

Spec == Init /\ [][Next]_vars

(* Boot goes on; the web server answers what it has begun; the client gets  *)
(* its session when the broker is there; every task is scheduled.           *)
FairSpec ==
  /\ Spec
  /\ WF_vars(SettingsStep /\ (Boot \/ Serve))
  /\ WF_vars(BootMqtt) /\ WF_vars(BootClient) /\ WF_vars(BootEnd)
  /\ WF_vars(Client) /\ WF_vars(Ha)

------------------------------------------------------------------------------
(* Properties.                                                              *)

Subscribed(u) == CommandTopic(subs[u].levels, Units[u])
Announced(u) ==
  DiscoveryTopic(announced[u].levels, Units[u],
                 IF Units[u] \in Sensors THEN "sensor" ELSE "switch")

(* Every variable is in its domain, and every setting in NVS has the type   *)
(* and the width, or the size, of its key.                                  *)
TypeOK ==
  /\ phase \in {"settings", "logging", "mqtt", "init", "wait", "run"}
  /\ bootKey \in 1 .. Len(BootOrder)
  /\ DOMAIN nvs = Keys /\ \A k \in Keys : nvs[k] = Unset \/ nvs[k] \in Values(k)
  /\ web.at \in {"idle", "api", "form"}
  /\ rebooting \in BOOLEAN /\ typed \subseteq Keys
  /\ queues \in BOOLEAN /\ changed \in BOOLEAN /\ missed \subseteq U
  /\ inputs \in 0 .. MaxInputs
  /\ tasks \subseteq {"status", "ha"}
  /\ client \in {"none", "started", "up", "several"}
  /\ ready \in BOOLEAN /\ (ready => client = "up")
  /\ handler \in {0} \cup U /\ (handler # 0 => client = "up")
  /\ {subs, announced} \subseteq [U -> Values("mqtt_prefix") \cup {Unset}]
  /\ ha \in [unit : {0} \cup U, prefix : Values("mqtt_prefix") \cup {Unset}]

(* The accepted API request that nothing of failed has all its settings in  *)
(* NVS, each with the last value the request has for it: the restart that   *)
(* depends on the count of failures never comes after a partial update.     *)
CountedMeansStored ==
  ApiDone /\ web.failed = 0 =>
    \A i \in DOMAIN web.request.data :
      LET item == web.request.data[i]
      IN  \/ \E j \in DOMAIN web.request.data :
               j > i /\ web.request.data[j].key = item.key
          \/ item.key \in Keys /\ nvs[item.key] = item.json.value

(* Whatever requests, failures and restarts come, a setting that its        *)
(* handler would refuse is in NVS only if the form has stored it last: the  *)
(* API and the defaults alone never leave one.                              *)
RefusedOnlyTyped ==
  \A k \in Keys : nvs[k] # Unset /\ ~Handled(k, nvs[k]) => k \in typed

(* str_split and the fixed index of resolve_key_from_topic, against what a  *)
(* topic means: a command on a topic that the board has subscribed to       *)
(* aborts it exactly if the prefix has an empty level.  Otherwise it is for *)
(* its unit if the prefix is a single level; with more levels it is for the *)
(* unit whose key the third one is, whatever unit the topic is of.          *)
CommandsResolve ==
  \A u \in U : subs[u] # Unset =>
    LET levels == subs[u].levels
        topic == CommandTopic(levels, Units[u])
    IN  /\ Splits(topic) <=> \A i \in DOMAIN levels : levels[i] # Empty
        /\ Splits(topic) => \A v \in U :
             ResolveKey(topic) = Units[v] <=>
               \/ Len(levels) = 1 /\ v = u
               \/ Len(levels) > 2 /\ levels[3] = Units[v]

(* A session whose handler is done has queues for the commands; and while   *)
(* the board believes to be ready, which it does not again in a session     *)
(* whose bits were cleared, and neither prefix nor mode was changed since   *)
(* the session began, it is subscribed under the prefix that is set to      *)
(* exactly the units whose own subscription did not fail, or to none with   *)
(* MQTT switched off.                                                       *)
SessionIsComplete ==
  client = "up" /\ handler = 0 =>
    /\ U # {} => queues
    /\ ready /\ ~changed =>
         \A u \in U : subs[u] = IF Mode = 0 \/ u \in missed THEN Unset ELSE Prefix


(* Home Assistant ends up with the topics that the board has subscribed to, *)
(* if boot reached the broker, the bits stay, and in the session neither    *)
(* the prefix nor the mode was changed; earlier changes may come at any     *)
(* time.  Without a subscription are exactly the units whose own one        *)
(* failed.  Only the commands for contact sensors, which the board would    *)
(* ignore, have one topic in the discovery message and another in the       *)
(* subscription.                                                            *)
AnnouncedIsSubscribed ==
  <>[](ready /\ "ha" \in tasks /\ Mode # 0 /\ ~changed)
    => <>[](\A u \in U :
              /\ announced[u] # Unset
              /\ subs[u] = Unset <=> u \in missed
              /\ u \notin missed =>
                   (Announced(u) = Subscribed(u) <=> Units[u] \notin Sensors))
==============================================================================
