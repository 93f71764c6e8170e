------------------------------ MODULE MqttClients ------------------------------
(***************************************************************************)
(* The clients behind mqtt_client in the mode "auto-connect" (mqtt.c,      *)
(* wifi.c).  A task that wants to publish while the bits of MQTT are not   *)
(* set calls mqtt_init, which makes another client and overwrites          *)
(* mqtt_client; so does mqtt_relay_subscribe, in the task of a client.  A  *)
(* client that loses its session calls cleanup_mqtt, which stops and       *)
(* destroys whatever mqtt_client points to, but not the client itself,     *)
(* and connects again by itself.  All clients have the same client id, so  *)
(* that the broker ends the session of one when another one connects.      *)
(*                                                                         *)
(* Abstracted: what is published and subscribed, and the queues (module    *)
(* MqttLink).  The handler subscribes one unit.  The broker is reachable   *)
(* whenever the network is.  esp-mqtt is external.                         *)
(***************************************************************************)
EXTENDS Integers, FiniteSets

CONSTANTS
  Publishers,  \* the tasks that publish: mqtt_event_task, status_task;
               \* no client is one of them
  Clients,     \* bound: the clients that memory has room for at a time
  Null,        \* no client
  MaxOutages   \* bound: sessions that break, losses of the Wi-Fi, and errors

VARIABLES
  handle,  \* mqtt_client
  link,    \* link[c]: "none" (not made, or destroyed), "made", "wait" (to
           \* connect), "up", "lost" (not noticed yet), or "stopped"
  job,     \* the publishing tasks and the handlers of the clients
  wifi,    \* BIT_WIFI_CONNECTED
  ready,   \* BIT_MQTT_CONNECTED and BIT_MQTT_READY
  outages  \* counts towards MaxOutages

vars == <<handle, link, job, wifi, ready, outages>>

Agents == Publishers \cup Clients
Idle == [at |-> "idle", on |-> Null, ok |-> FALSE]
At(a, place) == job[a].at = place
Goes(a, place) == job' = [job EXCEPT ![a].at = place]
Ends(a) == job' = [job EXCEPT ![a] = Idle]

(* A client has its lock while its handler runs; the lock is recursive.     *)
CanLock(a, c) == c = a \/ At(c, "idle")

------------------------------------------------------------------------------
(* app_main has connected the first client. *)
Init ==
  /\ \E c \in Clients :
        /\ handle = c
        /\ link = [d \in Clients |-> IF d = c THEN "up" ELSE "none"]
  /\ job = [a \in Agents |-> Idle]
  /\ wifi = TRUE /\ ready = TRUE
  /\ outages = 0

(* abort, or a crash: the board starts anew. *)
Restart ==
  /\ \E c \in Clients :
        /\ handle' = c
        /\ link' = [d \in Clients |-> IF d = c THEN "up" ELSE "none"]
  /\ job' = [a \in Agents |-> Idle]
  /\ wifi' = TRUE /\ ready' = TRUE
  /\ UNCHANGED outages

------------------------------------------------------------------------------
(* The network. *)

Outage == outages < MaxOutages /\ outages' = outages + 1

LoseSession == [c \in Clients |-> IF link[c] = "up" THEN "lost" ELSE link[c]]

Drop ==
  /\ Outage
  /\ link' = LoseSession
  /\ UNCHANGED <<handle, job, wifi, ready>>

(* WIFI_EVENT_STA_DISCONNECTED; a session may survive. *)
WifiLost ==
  /\ wifi /\ Outage
  /\ wifi' = FALSE /\ ready' = FALSE
  /\ link' \in {link, LoseSession}
  /\ UNCHANGED <<handle, job>>

(* IP_EVENT_STA_GOT_IP *)
WifiBack ==
  /\ ~wifi /\ wifi' = TRUE
  /\ UNCHANGED <<handle, link, job, ready, outages>>

------------------------------------------------------------------------------
(* The task of a client, and mqtt_event_handler. *)

(* MQTT_EVENT_CONNECTED: the handler will publish and subscribe. *)
Connected(c) ==
  /\ link[c] = "wait" /\ At(c, "idle") /\ wifi
  /\ link' = [LoseSession EXCEPT ![c] = "up"]
  /\ ready' = TRUE
  /\ Goes(c, "check")
  /\ UNCHANGED <<handle, wifi, outages>>

(* MQTT_EVENT_DISCONNECTED; esp-mqtt will connect again. *)
Disconnected(c) ==
  /\ link[c] = "lost" /\ At(c, "idle")
  /\ link' = [link EXCEPT ![c] = "wait"]
  /\ ready' = FALSE
  /\ Goes(c, "cleanup")
  /\ UNCHANGED <<handle, wifi, outages>>

(* MQTT_EVENT_ERROR, in a session that goes on: a subscription is refused.  *)
Error(c) ==
  /\ link[c] = "up" /\ At(c, "idle") /\ Outage
  /\ ready' = FALSE
  /\ UNCHANGED <<handle, link, job, wifi>>

(* cleanup_mqtt: nothing to do without a client. *)
Cleanup(c) ==
  /\ At(c, "cleanup")
  /\ IF handle = Null
     THEN Ends(c) /\ UNCHANGED ready
     ELSE job' = [job EXCEPT ![c].at = "stop", ![c].on = handle] /\ ready' = FALSE
  /\ UNCHANGED <<handle, link, wifi, outages>>

(* esp_mqtt_client_stop fails for the client itself, and for one that was   *)
(* not started; of a destroyed one, anything may come.                      *)
Stop(c) ==
  LET d == job[c].on
      stops == d # c /\ link[d] \in {"wait", "up", "lost"}
  IN  /\ At(c, "stop") /\ CanLock(c, d)
      /\ \/ /\ stops
            /\ link' = [link EXCEPT ![d] = "stopped"]
            /\ Goes(c, "destroy")
            /\ UNCHANGED <<handle, wifi, ready, outages>>
         \/ /\ ~stops
            /\ Ends(c)
            /\ UNCHANGED <<handle, link, wifi, ready, outages>>
         \/ link[d] = "none" /\ Restart

(* esp_mqtt_client_destroy takes what mqtt_client is by now. *)
Destroy(c) ==
  /\ At(c, "destroy")
  /\ \/ /\ handle = Null /\ Ends(c)
        /\ UNCHANGED <<handle, link, wifi, ready, outages>>
     \/ /\ handle \notin {Null, c} /\ At(handle, "idle")
        /\ link' = [link EXCEPT ![handle] = "none"]
        /\ Goes(c, "forget")
        /\ UNCHANGED <<handle, wifi, ready, outages>>
     \/ handle \in Clients /\ (handle # c => link[handle] = "none") /\ Restart

Forget(c) ==
  /\ At(c, "forget")
  /\ handle' = Null
  /\ Ends(c)
  /\ UNCHANGED <<link, wifi, ready, outages>>

------------------------------------------------------------------------------
(* Publishing and subscribing. *)

Publish(p) ==
  /\ At(p, "idle") /\ Goes(p, "check")
  /\ UNCHANGED <<handle, link, wifi, ready, outages>>

(* mqtt_publish_relay_data and mqtt_publish_system_info; but in the handler *)
(* mqtt_relay_subscribe, which gives up without a client.                   *)
Check(a) ==
  /\ At(a, "check")
  /\ CASE handle # Null /\ ready -> Goes(a, "use")
       [] handle = Null /\ a \in Clients -> Ends(a)
       [] OTHER -> Goes(a, "network")
  /\ UNCHANGED <<handle, link, wifi, ready, outages>>

(* mqtt_init waits for the network. *)
AwaitNetwork(a) ==
  /\ At(a, "network")
  /\ IF wifi THEN Goes(a, "make") ELSE Ends(a)
  /\ UNCHANGED <<handle, link, wifi, ready, outages>>

(* esp_mqtt_client_init *)
Make(a) ==
  /\ At(a, "make")
  /\ \E c \in Clients :
        /\ link[c] = "none"
        /\ link' = [link EXCEPT ![c] = "made"]
        /\ handle' = c
  /\ Goes(a, "register")
  /\ UNCHANGED <<wifi, ready, outages>>

(* esp_mqtt_client_register_event, in an ESP_ERROR_CHECK *)
Register(a) ==
  /\ At(a, "register")
  /\ \/ /\ handle # Null
        /\ Goes(a, "start")
        /\ UNCHANGED <<handle, link, wifi, ready, outages>>
     \/ (handle \in Clients => link[handle] = "none") /\ Restart

(* esp_mqtt_client_start *)
Start(a) ==
  /\ At(a, "start")
  /\ LET starts == handle # Null /\ link[handle] = "made"
     IN  /\ link' = IF starts THEN [link EXCEPT ![handle] = "wait"] ELSE link
         /\ job' = [job EXCEPT ![a].at = "await", ![a].ok = starts]
  /\ UNCHANGED <<handle, wifi, ready, outages>>

(* mqtt_init waits for the bits, up to 10 seconds. *)
AwaitReady(a) ==
  /\ At(a, "await")
  /\ IF ready /\ job[a].ok THEN Goes(a, "use") ELSE Ends(a)
  /\ UNCHANGED <<handle, link, wifi, ready, outages>>

(* The call gets the client that mqtt_client points to, ... *)
Use(a) ==
  /\ At(a, "use")
  /\ IF handle = Null THEN Ends(a)
                      ELSE job' = [job EXCEPT ![a].at = "call", ![a].on = handle]
  /\ UNCHANGED <<handle, link, wifi, ready, outages>>

(* ... and waits for its lock. *)
Call(a) ==
  /\ At(a, "call") /\ CanLock(a, job[a].on)
  /\ \/ /\ Ends(a)
        /\ UNCHANGED <<handle, link, wifi, ready, outages>>
     \/ link[job[a].on] = "none" /\ Restart

------------------------------------------------------------------------------
Work(a) ==
  \/ Check(a) \/ AwaitNetwork(a) \/ Make(a) \/ Register(a) \/ Start(a)
  \/ AwaitReady(a) \/ Use(a) \/ Call(a)

ClientStep(c) ==
  \/ Connected(c) \/ Disconnected(c)
  \/ Cleanup(c) \/ Stop(c) \/ Destroy(c) \/ Forget(c)
  \/ Work(c)

Next ==
  \/ Drop \/ WifiLost \/ WifiBack
  \/ \E c \in Clients : Error(c) \/ ClientStep(c)
  \/ \E p \in Publishers : Publish(p) \/ Work(p)

(* The Wi-Fi comes back, clients connect, the tasks run and publish again   *)
(* and again.                                                               *)
Fairness ==
  /\ WF_vars(WifiBack)
  /\ \A c \in Clients : WF_vars(ClientStep(c))
  /\ \A p \in Publishers : WF_vars(Publish(p) \/ Work(p))

FairSpec == Init /\ [][Next]_vars /\ Fairness

------------------------------------------------------------------------------
(* README, "Auto-Connect": "Connection will operate in keep-alive mode,     *)
(* reconnecting on failures."  Once outages have ended, the board is        *)
(* connected and stays so.  Fails: a second client, made while the first    *)
(* one still has its session or will have another, takes the session over;  *)
(* the first one destroys it and takes the session back, for ever.          *)
StaysConnected == <>[](ready /\ handle # Null)
==============================================================================
