------------------------------ MODULE MqttLink ------------------------------
(***************************************************************************)
(* How the states of the units get to the MQTT broker and commands get     *)
(* back (src/main/mqtt.c, relay.c), in the mode "connect once": the task   *)
(* of the esp-mqtt client runs mqtt_event_handler and, while it does,      *)
(* holds the lock that publishing needs; mqtt_event_task publishes what is *)
(* in mqtt_event_queue; mqtt_subscribe_relays_task executes what is in     *)
(* mqtt_command_queue; the web server, the periodic refresh and Wi-Fi do   *)
(* their part from tasks of their own.  Both queues make a sender wait.    *)
(*                                                                         *)
(* Abstracted: topics and payloads (a publication is a unit's state); the  *)
(* pins and NVS (module RelayActuator); BIT_MQTT_CONNECTED and             *)
(* BIT_MQTT_READY, which are always set and cleared together, are "ready". *)
(***************************************************************************)
EXTENDS Integers, Sequences

CONSTANTS
  N,            \* number of units
  QueueLength,  \* MQTT_QUEUE_LENGTH
  MaxInputs     \* bound: sessions that break, Wi-Fi disconnects, subscriptions that
                \* fail, units switched, commands and refresh periods, all together

Units == 0 .. N - 1
States == {0, 1}

ASSUME NAssumption == N \in Nat \ {0}
ASSUME QueueAssumption == QueueLength \in Nat \ {0}
ASSUME BoundAssumption == MaxInputs \in Nat

VARIABLES
  ram,       \* ram[u]: relay->state in s_units
  broker,    \* broker[u]: the retained state of u at the broker
  session,   \* with the broker: "down", "up", or "lost" and not yet noticed
  subs,      \* the units whose command topic is subscribed in this session
  ready,     \* BIT_MQTT_CONNECTED and BIT_MQTT_READY
  client,    \* the client task: its place in mqtt_event_handler, and locals
  events,    \* mqtt_event_queue: the units to publish
  publisher, \* mqtt_event_task
  commands,  \* mqtt_command_queue
  writer,    \* the tasks that switch units
  refresh,   \* refresh_relay_states_2_mqtt_task: the next unit, N between periods
  missed,    \* history: the units whose own subscription failed in this session
  inputs     \* counts towards MaxInputs

vars == <<ram, broker, session, subs, ready, client, events, publisher,
          commands, writer, refresh, missed, inputs>>
brokerVars == <<broker, session, subs, missed>>
tasks == <<client, publisher, writer, refresh>>

Writers == {"httpd", "command"}
Command == [unit : Units, state : States]

Idle == [at |-> "idle"]

(* esp-mqtt holds the lock of the client while it dispatches an event, and  *)
(* esp_mqtt_client_publish takes it.                                        *)
ClientLocked == client.at # "idle"

Room(queue) == Len(queue) < QueueLength

------------------------------------------------------------------------------
Init ==
  /\ ram \in [Units -> States] /\ broker \in [Units -> States]
  /\ session = "down" /\ subs = {} /\ ready = FALSE
  /\ client = Idle /\ publisher = Idle /\ writer = [w \in Writers |-> Idle]
  /\ events = <<>> /\ commands = <<>>
  /\ refresh = N
  /\ missed = {} /\ inputs = 0

Input == inputs < MaxInputs /\ inputs' = inputs + 1

------------------------------------------------------------------------------
(* The client task and its handler. *)

(* The client connects (again): MQTT_EVENT_CONNECTED. *)
Connected ==
  /\ session = "down" /\ client.at = "idle"
  /\ session' = "up" /\ subs' = {} /\ missed' = {}
  /\ ready' = TRUE
  /\ client' = [at |-> "push", unit |-> 0]
  /\ UNCHANGED <<ram, broker, events, publisher, commands, writer, refresh, inputs>>

(* relay_publish_all_to_mqtt(true), for each unit: trigger_mqtt_publish,    *)
(* which waits for room in the queue, ...                                   *)
ConnectedPush ==
  /\ client.at = "push" /\ Room(events)
  /\ events' = Append(events, client.unit)
  /\ client' = [client EXCEPT !.at = "subscribe"]
  /\ UNCHANGED <<ram, brokerVars, ready, publisher, commands, writer, refresh, inputs>>

(* Mutated: the loop runs once too often. *)
NextUnitOneMore(u) == IF u = N THEN Idle ELSE [at |-> "push", unit |-> u + 1]

NextUnit(u) == IF u + 1 = N THEN Idle ELSE [at |-> "push", unit |-> u + 1]

(* ... and mqtt_relay_subscribe, which does nothing if the bits were        *)
(* cleared or the session is lost ...                                       *)
ConnectedSubscribe ==
  /\ client.at = "subscribe"
  /\ subs' = IF ready /\ session = "up" THEN subs \cup {client.unit} ELSE subs
  /\ client' = NextUnit(client.unit)
  /\ UNCHANGED <<ram, broker, session, ready, events, publisher, commands, writer,
                 refresh, missed, inputs>>

(* ... and which fails when it cannot read the settings, has no memory for  *)
(* the topic, or the client refuses.  The loop only logs it and goes on;    *)
(* nothing tries again in this session, and the bits stay.                  *)
SubscribeFails ==
  /\ client.at = "subscribe" /\ Input
  /\ missed' = missed \cup {client.unit}
  /\ client' = NextUnit(client.unit)
  /\ UNCHANGED <<ram, broker, session, subs, ready, events, publisher, commands,
                 writer, refresh>>

(* The session breaks ... *)
Drop ==
  /\ session = "up" /\ Input
  /\ session' = "lost" /\ subs' = {}
  /\ UNCHANGED <<ram, broker, ready, events, commands, missed, tasks>>

(* ... and the client notices: MQTT_EVENT_DISCONNECTED.  cleanup_mqtt does  *)
(* nothing more, since a client cannot be stopped from its own task; it     *)
(* connects again by itself.                                                *)
Disconnected ==
  /\ session = "lost" /\ client.at = "idle"
  /\ session' = "down"
  /\ ready' = FALSE
  /\ UNCHANGED <<ram, broker, subs, events, commands, tasks, missed, inputs>>

(* MQTT_EVENT_DATA: a command arrives, and waits for room in the queue. *)
CommandArrives(c) ==
  /\ session = "up" /\ c.unit \in subs /\ client.at = "idle"
  /\ Input
  /\ client' = [at |-> "data", command |-> c]
  /\ UNCHANGED <<ram, brokerVars, ready, events, publisher, commands, writer,
                 refresh>>

CommandPush ==
  /\ client.at = "data" /\ Room(commands)
  /\ commands' = Append(commands, client.command)
  /\ client' = Idle
  /\ UNCHANGED <<ram, brokerVars, ready, events, publisher, writer, refresh, inputs>>

(* Mutated: the bits of MQTT come back with the network. *)
WifiFlapRestores ==
  /\ Input
  /\ ready' \in BOOLEAN
  /\ UNCHANGED <<ram, brokerVars, events, commands, tasks>>

(* WIFI_EVENT_STA_DISCONNECTED clears the bits of MQTT, whether or not the  *)
(* session survives the outage; so does MQTT_EVENT_ERROR.                   *)
WifiFlap ==
  /\ Input
  /\ ready' = FALSE
  /\ UNCHANGED <<ram, brokerVars, events, commands, tasks>>

------------------------------------------------------------------------------
(* mqtt_event_task and mqtt_publish_relay_data. *)

PublisherReceive ==
  /\ publisher.at = "idle" /\ events # <<>>
  /\ publisher' = [at |-> "check", unit |-> Head(events)]
  /\ events' = Tail(events)
  /\ UNCHANGED <<ram, brokerVars, ready, client, commands, writer, refresh, inputs>>

(* Not connected: the event is dropped, for mode "connect once". *)
PublisherSkip ==
  /\ publisher.at = "check" /\ ~ready
  /\ publisher' = Idle
  /\ UNCHANGED <<ram, brokerVars, ready, client, events, commands, writer, refresh,
                 inputs>>

(* The state is formatted before esp_mqtt_client_publish takes the lock. *)
PublisherRead ==
  /\ publisher.at = "check" /\ ready
  /\ publisher' = [at |-> "publish", unit |-> publisher.unit,
                   state |-> ram[publisher.unit]]
  /\ UNCHANGED <<ram, brokerVars, ready, client, events, commands, writer, refresh,
                 inputs>>

(* The client sends it, or refuses or loses it: quality of service 0. *)
PublisherSend ==
  /\ publisher.at = "publish" /\ ~ClientLocked
  /\ broker' = IF session = "up"
               THEN [broker EXCEPT ![publisher.unit] = publisher.state]
               ELSE broker
  /\ publisher' = Idle
  /\ UNCHANGED <<ram, session, subs, ready, client, events, commands, writer, refresh,
                 missed, inputs>>

------------------------------------------------------------------------------
(* The tasks that switch units: relay_set_state, as far as MQTT sees it. *)

(* A request of the web server; the event task of a contact does the same. *)
Change(u, s) ==
  /\ writer["httpd"].at = "idle" /\ Input
  /\ writer' = [writer EXCEPT !["httpd"] = [at |-> "set", unit |-> u, state |-> s]]
  /\ UNCHANGED <<ram, brokerVars, ready, client, events, publisher, commands, refresh>>

(* mqtt_subscribe_relays_task. *)
CommandReceive ==
  /\ writer["command"].at = "idle" /\ commands # <<>>
  /\ writer' = [writer EXCEPT !["command"] =
                  [at |-> "set", unit |-> Head(commands).unit,
                   state |-> Head(commands).state]]
  /\ commands' = Tail(commands)
  /\ UNCHANGED <<ram, brokerVars, ready, client, events, publisher, refresh, inputs>>

WriterSet(w) ==
  /\ writer[w].at = "set"
  /\ ram' = [ram EXCEPT ![writer[w].unit] = writer[w].state]
  /\ writer' = [writer EXCEPT ![w] = [at |-> "notify", unit |-> writer[w].unit]]
  /\ UNCHANGED <<brokerVars, ready, client, events, publisher, commands, refresh,
                 inputs>>

(* Mutated: nothing is published while the client is in its handler. *)
WriterNotifyUnlessBusy(w) ==
  /\ writer[w].at = "notify"
  /\ writer' = [writer EXCEPT ![w] =
                  IF ready /\ ~ClientLocked
                  THEN [at |-> "push", unit |-> writer[w].unit] ELSE Idle]
  /\ UNCHANGED <<ram, brokerVars, ready, client, events, publisher, commands, refresh,
                 inputs>>

(* IS_MQTT_READY is looked at after the state was changed. *)
WriterNotify(w) ==
  /\ writer[w].at = "notify"
  /\ writer' = [writer EXCEPT ![w] =
                  IF ready THEN [at |-> "push", unit |-> writer[w].unit] ELSE Idle]
  /\ UNCHANGED <<ram, brokerVars, ready, client, events, publisher, commands, refresh,
                 inputs>>

WriterPush(w) ==
  /\ writer[w].at = "push" /\ Room(events)
  /\ events' = Append(events, writer[w].unit)
  /\ writer' = [writer EXCEPT ![w] = Idle]
  /\ UNCHANGED <<ram, brokerVars, ready, client, publisher, commands, refresh, inputs>>

------------------------------------------------------------------------------
(* refresh_relay_states_2_mqtt_task: relay_publish_all_to_mqtt(false). *)

RefreshStart ==
  /\ refresh = N /\ Input
  /\ refresh' = 0
  /\ UNCHANGED <<ram, brokerVars, ready, client, events, publisher, commands, writer>>

RefreshPush ==
  /\ refresh < N /\ Room(events)
  /\ events' = Append(events, refresh)
  /\ refresh' = refresh + 1
  /\ UNCHANGED <<ram, brokerVars, ready, client, publisher, commands, writer, inputs>>

------------------------------------------------------------------------------
HandlerStep == ConnectedPush \/ ConnectedSubscribe \/ CommandPush
PublisherStep ==
  PublisherReceive \/ PublisherSkip \/ PublisherRead \/ PublisherSend
WriterStep(w) == WriterSet(w) \/ WriterNotify(w) \/ WriterPush(w)
Environment ==
  \/ Connected \/ Drop \/ WifiFlap \/ SubscribeFails
  \/ \E c \in Command : CommandArrives(c)
  \/ \E u \in Units, s \in States : Change(u, s)

Next ==
  \/ Environment
  \/ Disconnected
  \/ HandlerStep \/ PublisherStep
  \/ CommandReceive \/ \E w \in Writers : WriterStep(w)
  \/ RefreshStart \/ RefreshPush

Spec == Init /\ [][Next]_vars

(* Every task goes on when it can, and the client notices a lost session.   *)
Fairness ==
  /\ WF_vars(HandlerStep) /\ WF_vars(Disconnected) /\ WF_vars(PublisherStep)
  /\ WF_vars(CommandReceive) /\ \A w \in Writers : WF_vars(WriterStep(w))
  /\ WF_vars(RefreshPush)
FairSpec == Spec /\ Fairness

------------------------------------------------------------------------------
(* Every variable stays in its domain, each queue within its length.        *)
TypeOK ==
  /\ ram \in [Units -> States] /\ broker \in [Units -> States]
  /\ session \in {"down", "up", "lost"} /\ ready \in BOOLEAN
  /\ subs \in SUBSET Units /\ missed \in SUBSET Units
  /\ \/ client = Idle
     \/ client \in [at : {"push", "subscribe"}, unit : Units]
     \/ client \in [at : {"data"}, command : Command]
  /\ events \in Seq(Units) /\ Len(events) <= QueueLength
  /\ commands \in Seq(Command) /\ Len(commands) <= QueueLength
  /\ \/ publisher = Idle
     \/ publisher \in [at : {"check"}, unit : Units]
     \/ publisher \in [at : {"publish"}, unit : Units, state : States]
  /\ DOMAIN writer = Writers
  /\ \A w \in Writers :
        \/ writer[w] = Idle
        \/ writer[w] \in [at : {"set"}, unit : Units, state : States]
        \/ writer[w] \in [at : {"notify", "push"}, unit : Units]
  /\ refresh \in 0 .. N

(* While the board believes to be ready, and is, exactly the units whose own *)
(* subscription failed cannot be commanded: a failure costs no other unit   *)
(* its subscription, and bits that Wi-Fi cleared while the handler was      *)
(* subscribing never come back for the same session.                        *)
SubscribedWhenReady ==
  ready /\ session = "up" /\ client.at \notin {"push", "subscribe"}
    => subs = Units \ missed

(* mqtt_event_handler, "update all relays to MQTT": when the session and    *)
(* the bits stay up, the broker ends up with the state of every unit,       *)
(* whatever was switched, dropped or refreshed before.  Fails when the      *)
(* units outnumber the slots of the queue: the handler waits for room, the  *)
(* publisher for the lock that the handler holds.                           *)
BrokerAgrees ==
  <>[](session = "up" /\ ready) => <>[](broker = ram)
==============================================================================
