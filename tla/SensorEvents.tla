---------------------------- MODULE SensorEvents ----------------------------
(***************************************************************************)
(* The contact sensors of the board (src/main/relay.c): an edge on a pin   *)
(* raises an interrupt, the ISR puts the level it reads into a queue, and  *)
(* gpio_event_task debounces the event and updates the sensor in RAM and   *)
(* NVS.  At the same time the web server's task edits sensors and adds the *)
(* ISR to their new pins, and mqtt_event_task clears gpio_initialized of   *)
(* the sensors it publishes.  None of these tasks takes a lock.            *)
(*                                                                         *)
(* Abstracted: JSON, HTTP and keys; the wait for room in mqtt_event_queue  *)
(* after an event; actuators (module RelayActuator).                       *)
(***************************************************************************)
EXTENDS Integers, Sequences, FiniteSetsExt

CONSTANTS
  N,            \* number of sensors, channels 0 .. N-1
  Pins,         \* the safe GPIO pins; all of them can be inputs
  SensorPins,   \* SensorPins[s]: the pins that boot or a user ever gives to s
  QueueLength,  \* length of gpio_evt_queue
  NvsMayFail,   \* whether a write to NVS can fail
  MaxEdges,     \* bound: edges on the pins
  MaxEdits,     \* bound: web updates
  MaxResets     \* bound: power failures

Sensors == 0 .. N - 1
OFF == 0
ON == 1
States == {OFF, ON}

ASSUME NAssumption == N \in Nat \ {0}
ASSUME PinsAssumption ==
  /\ SensorPins \in [Sensors -> SUBSET Pins]
  /\ \A s \in Sensors : SensorPins[s] # {}
ASSUME QueueAssumption == QueueLength \in Nat \ {0}
ASSUME NvsAssumption == NvsMayFail \in BOOLEAN
ASSUME BoundAssumption == MaxEdges \in Nat /\ MaxEdits \in Nat /\ MaxResets \in Nat

VARIABLES
  phase,     \* boot: "load", "register" and "refresh" of bootCh; then "run"
  bootCh,    \* the sensor that relay_all_sensors_register_isr is at
  ram,       \* the sensors in s_units
  nvs,       \* their records in NVS
  level,     \* level[p]: what the contact puts on pin p
  edge,      \* the pins whose interrupt is latched
  isr,       \* the pins that gpio_isr_handler is added to
  queue,     \* gpio_evt_queue
  evt,       \* where gpio_event_task is, its event, sensor and copy
  web,       \* where update_relay_post_handler is, its sensor, locals, copy
  refused,   \* sensors with an update answered with an error since boot
  unsaved,   \* sensors whose last save failed, or overlapped with another
  disturbed, \* sensors edited, or with an edge lost, since boot (history)
  edges, edits, resets  \* counters for the bounds

vars == <<phase, bootCh, ram, nvs, level, edge, isr, queue, evt, web, refused,
          unsaved, disturbed, edges, edits, resets>>
boardVars == <<phase, bootCh>>
lineVars == <<level, edge>>
bounds == <<edges, edits, resets>>

Record == [state : States, inverted : BOOLEAN, pin : Pins]
Sensor == [state : States, inverted : BOOLEAN, pin : Pins, init : BOOLEAN]
Event == [pin : Pins, level : {0, 1}]

Saved(r) == [state |-> r.state, inverted |-> r.inverted, pin |-> r.pin]
(* load_relay_sensor_from_nvs initialises the pin of what it loads. *)
Loaded(r) ==
  [state |-> r.state, inverted |-> r.inverted, pin |-> r.pin, init |-> TRUE]

(* A high level is ON, unless the sensor is inverted. *)
StateOf(lvl, inverted) == IF inverted THEN 1 - lvl ELSE lvl

SensorsAt(p) == {s \in Sensors : ram[s].pin = p}

Waiting == [at |-> "receive"]
NoRequest == [at |-> "idle"]

(* A task has changed s in RAM and is on its way to NVS with it. *)
EventSaves(s) == evt.at \in {"copy", "write"} /\ evt.sensor = s
WebSaves(s) == web.at \in {"copy", "write"} /\ web.sensor = s
WebWorksOn(s) == web.at # "idle" /\ web.sensor = s

(* History only: a task changes s in RAM while another one is saving it. *)
Overlap(s, otherSaves) ==
  unsaved' = IF otherSaves THEN unsaved \cup {s} ELSE unsaved \ {s}

------------------------------------------------------------------------------
Init ==
  /\ phase = "load" /\ bootCh = 0
  /\ \E pin \in [Sensors -> Pins] :
        /\ \A s \in Sensors : pin[s] \in SensorPins[s]
        /\ nvs = [s \in Sensors |->
                    [state |-> OFF, inverted |-> FALSE, pin |-> pin[s]]]
  /\ ram = [s \in Sensors |-> Loaded(nvs[s])]
  /\ level \in [Pins -> {0, 1}] /\ edge = {}
  /\ isr = {} /\ queue = <<>>
  /\ evt = Waiting /\ web = NoRequest
  /\ refused = {} /\ unsaved = {} /\ disturbed = {}
  /\ edges = 0 /\ edits = 0 /\ resets = 0

(* RAM is lost, and with it queue, interrupts and tasks; boot follows. *)
Reset ==
  /\ phase' = "load" /\ bootCh' = 0
  /\ ram' = [s \in Sensors |-> Loaded(nvs[s])]
  /\ edge' = {} /\ isr' = {} /\ queue' = <<>>
  /\ evt' = Waiting /\ web' = NoRequest
  /\ refused' = {} /\ unsaved' = {} /\ disturbed' = {}
  /\ UNCHANGED <<nvs, level, edges, edits>>

PowerLoss == resets < MaxResets /\ resets' = resets + 1 /\ Reset

------------------------------------------------------------------------------
(* Boot: init_relay_units_in_memory, then relay_all_sensors_register_isr.  *)

LoadSensors ==
  /\ phase = "load"
  /\ ram' = [s \in Sensors |-> Loaded(nvs[s])]
  /\ phase' = "register"
  /\ UNCHANGED <<bootCh, nvs, lineVars, isr, queue, evt, web,
                 refused, unsaved, disturbed, bounds>>

BootRegister ==
  /\ phase = "register"
  /\ isr' = isr \cup {ram[bootCh].pin}
  /\ phase' = "refresh"
  /\ UNCHANGED <<bootCh, ram, nvs, lineVars, queue, evt, web,
                 refused, unsaved, disturbed, bounds>>

Refreshed(r) == [r EXCEPT !.state = StateOf(level[r.pin], r.inverted)]

(* Mutated: the refreshed state is not saved. *)
BootRefreshUnsaved ==
  /\ phase = "refresh"
  /\ ram' = [ram EXCEPT ![bootCh] = Refreshed(@)]
  /\ IF bootCh + 1 = N
     THEN phase' = "run" /\ bootCh' = N
     ELSE phase' = "register" /\ bootCh' = bootCh + 1
  /\ UNCHANGED <<nvs, lineVars, isr, queue, evt, web,
                 refused, unsaved, disturbed, bounds>>

(* relay_sensor_gpio_state_refresh; that the save fails is only logged. *)
BootRefresh ==
  /\ phase = "refresh"
  /\ ram' = [ram EXCEPT ![bootCh] = Refreshed(@)]
  /\ \/ /\ nvs' = [nvs EXCEPT ![bootCh] = Saved(Refreshed(ram[bootCh]))]
        /\ UNCHANGED unsaved
     \/ /\ NvsMayFail
        /\ unsaved' = unsaved \cup {bootCh}
        /\ UNCHANGED nvs
  /\ IF bootCh + 1 = N
     THEN phase' = "run" /\ bootCh' = N
     ELSE phase' = "register" /\ bootCh' = bootCh + 1
  /\ UNCHANGED <<lineVars, isr, queue, evt, web, refused, disturbed, bounds>>

------------------------------------------------------------------------------
(* The pins and their interrupt. *)

(* Mutated: the interrupt is on the rising edge only. *)
EdgeRisingOnly(p) ==
  /\ edges < MaxEdges
  /\ level' = [level EXCEPT ![p] = 1 - @]
  /\ edge' = IF p \in isr /\ level[p] = 0 THEN edge \cup {p} ELSE edge
  /\ disturbed' = IF p \in isr \/ phase # "run" THEN disturbed
                  ELSE disturbed \cup SensorsAt(p)
  /\ edges' = edges + 1
  /\ UNCHANGED <<boardVars, ram, nvs, isr, queue, evt, web,
                 refused, unsaved, edits, resets>>

(* A contact opens or closes (or bounces).  GPIO_INTR_ANYEDGE: the edge is  *)
(* latched; on a pin without a handler it is lost (once its state was read).*)
Edge(p) ==
  /\ edges < MaxEdges
  /\ level' = [level EXCEPT ![p] = 1 - @]
  /\ edge' = IF p \in isr THEN edge \cup {p} ELSE edge
  /\ disturbed' = IF p \in isr \/ phase # "run" THEN disturbed
                  ELSE disturbed \cup SensorsAt(p)
  /\ edges' = edges + 1
  /\ UNCHANGED <<boardVars, ram, nvs, isr, queue, evt, web,
                 refused, unsaved, edits, resets>>

(* Mutated: the event is sent whether or not there is room. *)
GpioIsrOverrun(p) ==
  /\ p \in edge
  /\ edge' = edge \ {p}
  /\ queue' = Append(queue, [pin |-> p, level |-> level[p]])
  /\ UNCHANGED <<boardVars, ram, nvs, level, isr, evt, web,
                 refused, unsaved, disturbed, bounds>>

(* gpio_isr_handler: nothing tells anybody that the queue was full. *)
GpioIsr(p) ==
  /\ p \in edge
  /\ edge' = edge \ {p}
  /\ IF Len(queue) < QueueLength
     THEN /\ queue' = Append(queue, [pin |-> p, level |-> level[p]])
          /\ UNCHANGED disturbed
     ELSE /\ disturbed' = disturbed \cup SensorsAt(p)
          /\ UNCHANGED queue
  /\ UNCHANGED <<boardVars, ram, nvs, level, isr, evt, web,
                 refused, unsaved, bounds>>

------------------------------------------------------------------------------
(* gpio_event_task. *)

EventReceive ==
  /\ phase = "run" /\ evt.at = "receive" /\ queue # <<>>
  /\ evt' = [at |-> "debounce", event |-> Head(queue)]
  /\ queue' = Tail(queue)
  /\ UNCHANGED <<boardVars, ram, nvs, lineVars, isr, web,
                 refused, unsaved, disturbed, bounds>>

(* After DEBOUNCE_TIME_MS the pin has another level: the event is ignored. *)
EventBounced ==
  /\ evt.at = "debounce"
  /\ level[evt.event.pin] # evt.event.level
  /\ evt' = Waiting
  /\ UNCHANGED <<boardVars, ram, nvs, lineVars, isr, queue, web,
                 refused, unsaved, disturbed, bounds>>

(* It has the same level, and a sensor is found that has the pin. *)
EventDebounced ==
  /\ evt.at = "debounce"
  /\ level[evt.event.pin] = evt.event.level
  /\ SensorsAt(evt.event.pin) # {}
  /\ evt' = [at |-> "apply", event |-> evt.event,
             sensor |-> Min(SensorsAt(evt.event.pin))]
  /\ UNCHANGED <<boardVars, ram, nvs, lineVars, isr, queue, web,
                 refused, unsaved, disturbed, bounds>>

(* No sensor has the pin: the task goes through a NULL pointer and the      *)
(* chip restarts.                                                           *)
NoSensorAtPin ==
  /\ evt.at = "debounce"
  /\ level[evt.event.pin] = evt.event.level
  /\ SensorsAt(evt.event.pin) = {}
EventPanics == NoSensorAtPin /\ Reset /\ UNCHANGED resets

EventApply ==
  /\ evt.at = "apply"
  /\ ram' = [ram EXCEPT ![evt.sensor].state =
                StateOf(evt.event.level, ram[evt.sensor].inverted)]
  /\ evt' = [evt EXCEPT !.at = "copy"]
  /\ Overlap(evt.sensor, WebSaves(evt.sensor))
  /\ UNCHANGED <<boardVars, nvs, lineVars, isr, queue, web,
                 refused, disturbed, bounds>>

(* save_relay_to_nvs: a copy is taken ... *)
EventCopy ==
  /\ evt.at = "copy"
  /\ evt' = [at |-> "write", sensor |-> evt.sensor,
             copy |-> Saved(ram[evt.sensor])]
  /\ UNCHANGED <<boardVars, ram, nvs, lineVars, isr, queue, web,
                 refused, unsaved, disturbed, bounds>>

(* ... and written.  A failure is logged, and the next event taken. *)
EventWrite ==
  /\ evt.at = "write"
  /\ \/ /\ nvs' = [nvs EXCEPT ![evt.sensor] = evt.copy]
        /\ UNCHANGED unsaved
     \/ /\ NvsMayFail
        /\ unsaved' = unsaved \cup {evt.sensor}
        /\ UNCHANGED nvs
  /\ evt' = Waiting
  /\ UNCHANGED <<boardVars, ram, lineVars, isr, queue, web,
                 refused, disturbed, bounds>>

------------------------------------------------------------------------------
(* update_relay_post_handler, for a sensor. *)

(* The sensor in RAM takes the pin, state and inversion of the request (or  *)
(* keeps its own).                                                          *)
WebEdit(s, p, st, i) ==
  /\ phase = "run" /\ web.at = "idle" /\ edits < MaxEdits
  /\ ram' = [ram EXCEPT ![s].pin = p, ![s].state = st, ![s].inverted = i]
  /\ web' = [at |-> "copy", sensor |-> s, oldPin |-> ram[s].pin]
  /\ Overlap(s, EventSaves(s))
  /\ disturbed' = disturbed \cup {s}
  /\ edits' = edits + 1
  /\ UNCHANGED <<boardVars, nvs, lineVars, isr, queue, evt,
                 refused, edges, resets>>

WebCopy ==
  /\ web.at = "copy"
  /\ web' = [at |-> "write", sensor |-> web.sensor, oldPin |-> web.oldPin,
             copy |-> Saved(ram[web.sensor])]
  /\ UNCHANGED <<boardVars, ram, nvs, lineVars, isr, queue, evt,
                 refused, unsaved, disturbed, bounds>>

(* Mutated: the old pin is read after the new one was assigned. *)
WebWriteKeepsIsr ==
  /\ web.at = "write"
  /\ nvs' = [nvs EXCEPT ![web.sensor] = web.copy]
  /\ web' = NoRequest
  /\ UNCHANGED <<boardVars, ram, lineVars, isr, queue, evt,
                 refused, unsaved, disturbed, bounds>>

WebWrite ==
  /\ web.at = "write"
  /\ nvs' = [nvs EXCEPT ![web.sensor] = web.copy]
  /\ web' = IF web.oldPin # ram[web.sensor].pin
            THEN [at |-> "init", sensor |-> web.sensor]
            ELSE NoRequest
  /\ UNCHANGED <<boardVars, ram, lineVars, isr, queue, evt,
                 refused, unsaved, disturbed, bounds>>

(* The request is answered with an error; the edit stays in RAM. *)
WebWriteFails ==
  /\ web.at = "write" /\ NvsMayFail
  /\ web' = NoRequest
  /\ refused' = refused \cup {web.sensor}
  /\ unsaved' = unsaved \cup {web.sensor}
  /\ UNCHANGED <<boardVars, ram, nvs, lineVars, isr, queue, evt,
                 disturbed, bounds>>

(* relay_gpio_init of the new pin; the old one stays as it is. *)
WebGpioInit ==
  /\ web.at = "init"
  /\ ram' = [ram EXCEPT ![web.sensor].init = TRUE]
  /\ web' = [web EXCEPT !.at = "isr"]
  /\ UNCHANGED <<boardVars, nvs, lineVars, isr, queue, evt,
                 refused, unsaved, disturbed, bounds>>

(* relay_sensor_register_isr: refused if somebody cleared the flag again. *)
WebRegisterIsr ==
  /\ web.at = "isr"
  /\ web' = NoRequest
  /\ \/ /\ ram[web.sensor].init
        /\ isr' = isr \cup {ram[web.sensor].pin}
        /\ UNCHANGED refused
     \/ /\ ~ram[web.sensor].init
        /\ refused' = refused \cup {web.sensor}
        /\ UNCHANGED isr
  /\ UNCHANGED <<boardVars, ram, nvs, lineVars, queue, evt,
                 unsaved, disturbed, bounds>>

------------------------------------------------------------------------------
(* mqtt_event_task, after it has published a sensor: relay_gpio_deinit.     *)
(* Publications are asked for by gpio_event_task and, periodically, by      *)
(* refresh_relay_states_2_mqtt_task, so one may come at any time.           *)
MqttDeinit(s) ==
  /\ phase = "run" /\ ram[s].init
  /\ ram' = [ram EXCEPT ![s].init = FALSE]
  /\ UNCHANGED <<boardVars, nvs, lineVars, isr, queue, evt, web,
                 refused, unsaved, disturbed, bounds>>

BootStep == LoadSensors \/ BootRegister \/ BootRefresh
EventStep ==
  \/ EventReceive \/ EventBounced \/ EventDebounced \/ EventPanics
  \/ EventApply \/ EventCopy \/ EventWrite
WebStep ==
  WebCopy \/ WebWrite \/ WebWriteFails \/ WebGpioInit \/ WebRegisterIsr

Next ==
  \/ PowerLoss
  \/ BootStep
  \/ \E p \in Pins : Edge(p)
  \/ \E p \in Pins : GpioIsr(p)
  \/ EventStep
  \/ \E s \in Sensors, st \in States, i \in BOOLEAN :
        \E p \in SensorPins[s] : WebEdit(s, p, st, i)
  \/ WebStep
  \/ \E s \in Sensors : MqttDeinit(s)

Spec == Init /\ [][Next]_vars

(* Boot goes on, pending interrupts are served, and the two tasks run.      *)
Fairness ==
  /\ WF_vars(BootStep) /\ WF_vars(EventStep) /\ WF_vars(WebStep)
  /\ \A p \in Pins : WF_vars(GpioIsr(p))
FairSpec == Spec /\ Fairness

------------------------------------------------------------------------------
(* Every variable stays in its domain; gpio_evt_queue within its length.    *)
TypeOK ==
  /\ phase \in {"load", "register", "refresh", "run"}
  /\ bootCh \in 0 .. N
  /\ ram \in [Sensors -> Sensor]
  /\ nvs \in [Sensors -> Record]
  /\ level \in [Pins -> {0, 1}]
  /\ edge \in SUBSET isr /\ isr \in SUBSET Pins
  /\ queue \in Seq(Event) /\ Len(queue) <= QueueLength
  /\ \/ evt = Waiting
     \/ evt \in [at : {"debounce"}, event : Event]
     \/ evt \in [at : {"apply", "copy"}, event : Event, sensor : Sensors]
     \/ evt \in [at : {"write"}, sensor : Sensors, copy : Record]
  /\ \/ web = NoRequest
     \/ web \in [at : {"copy"}, sensor : Sensors, oldPin : Pins]
     \/ web \in [at : {"write"}, sensor : Sensors, oldPin : Pins, copy : Record]
     \/ web \in [at : {"init", "isr"}, sensor : Sensors]
  /\ {refused, unsaved, disturbed} \subseteq SUBSET Sensors
  /\ edges \in 0 .. MaxEdges /\ edits \in 0 .. MaxEdits /\ resets \in 0 .. MaxResets

(* web.c, "if pin changed -- re-assign the ISR": however updates, events    *)
(* and publications interleave, the pin of a sensor has its ISR, unless an  *)
(* update of the sensor was answered with an error.                         *)
IsrOnPin ==
  \A s \in Sensors :
     phase = "run" /\ ~WebWorksOn(s) /\ s \notin refused => ram[s].pin \in isr

(* What the event task and the web server write to NVS is what RAM holds    *)
(* when both are done, provided the save succeeded and was alone: a power   *)
(* loss does not bring back an older pin or inversion.                      *)
StoredAtRest ==
  \A s \in Sensors :
     phase = "run" /\ ~EventSaves(s) /\ ~WebSaves(s) /\ s \notin unsaved
       => nvs[s] = Saved(ram[s])

(* The purpose of the debouncing: once the contacts stay as they are, every *)
(* sensor that was not edited and lost no edge shows the state of its       *)
(* contact, whatever bounces, resets and failing saves came before.         *)
Follows(s) ==
  phase = "run" /\ ram[s].state = StateOf(level[ram[s].pin], ram[s].inverted)
FollowsContact ==
  <>[](\A s \in Sensors : s \notin disturbed => Follows(s))

(* gpio_event_task, "Find the sensor associated with the GPIO pin": there   *)
(* is one.  Fails, since an update that moves a sensor never removes the    *)
(* ISR of the old pin.                                                      *)
EventFindsSensor == ~NoSensorAtPin

==============================================================================
