---------------------------- MODULE RelayActuator ----------------------------
(***************************************************************************)
(* The actuators of the board (src/main/relay.c): the copy of each unit in *)
(* RAM (s_units), its record in NVS, and the GPIO pins.  Two tasks switch  *)
(* relays, with no lock between them: the web server's task                *)
(* (update_relay_post_handler) and mqtt_subscribe_relays_task, which takes *)
(* commands from a queue.  Both run relay_set_state, modelled one access   *)
(* to shared state at a time.  Power may fail at any step; the boot drives *)
(* every stored state to its pin before the tasks start.                   *)
(*                                                                         *)
(* Abstracted: JSON, HTTP and keys (a request names its unit); the field   *)
(* "enabled", which no code consults; sensors (module SensorEvents); the   *)
(* content of mqtt_event_queue, of which only the length matters here.     *)
(***************************************************************************)
EXTENDS Integers, FiniteSets

CONSTANTS
  N,            \* number of actuators, channels 0 .. N-1
  Pins,         \* the safe GPIO pins of the board
  OutputPins,   \* those the chip can drive (GPIO 34..39 of an ESP32 cannot)
  UnitPins,     \* UnitPins[u]: the pins that boot or a user ever gives to u
  HttpUnits,    \* the units that web requests address
  CmdUnits,     \* the units that MQTT commands address
  NvsMayFail,   \* whether a write to NVS can fail
  QueueLength   \* MQTT_QUEUE_LENGTH

Units == 0 .. N - 1
Tasks == {"httpd", "mqtt_cmd"}

ASSUME NAssumption == N \in Nat \ {0}
ASSUME PinsAssumption ==
  /\ OutputPins \subseteq Pins
  /\ UnitPins \in [Units -> SUBSET Pins]
  /\ \A u \in Units : UnitPins[u] # {}
ASSUME TargetAssumption == HttpUnits \subseteq Units /\ CmdUnits \subseteq Units
ASSUME NvsAssumption == NvsMayFail \in BOOLEAN
ASSUME QueueAssumption == QueueLength \in Nat \ {0}

VARIABLES
  phase,     \* boot: "init" and "level" of channel bootCh, "load"; then "run"
  bootCh,    \* the channel that device_settings_init is at
  ram,       \* s_units: the units in RAM
  nvs,       \* the units' records in NVS
  mode,      \* mode[p]: how the pin is configured
  out,       \* out[p]: the pin's output register
  pc,        \* where each task is
  job,       \* the locals of each task's call of relay_set_state
  ready,     \* mqtt mode # 0 and BIT_MQTT_READY
  pending,   \* the number of events in mqtt_event_queue
  refused,   \* units whose last web update was answered with an error
  overlapped \* units whose last switching overlapped with another (history)

vars == <<phase, bootCh, ram, nvs, mode, out, pc, job, ready, pending,
          refused, overlapped>>
boardVars == <<phase, bootCh>>
gpioVars == <<mode, out>>
mqttVars == <<ready, pending>>
history == <<refused, overlapped>>

OFF == 0
ON == 1
States == {OFF, ON}

(* What NVS keeps of a unit; relay_unit_t in RAM also has gpio_initialized. *)
Record == [state : States, inverted : BOOLEAN, pin : Pins]
Unit == [state : States, inverted : BOOLEAN, pin : Pins, init : BOOLEAN]

Job == [unit : Units, arg : States, made : BOOLEAN, copy : Record]

(* save_relay_to_nvs clears gpio_initialized in the copy it writes. *)
Saved(r) == [state |-> r.state, inverted |-> r.inverted, pin |-> r.pin]
Loaded(r) ==
  [state |-> r.state, inverted |-> r.inverted, pin |-> r.pin, init |-> FALSE]

(* The level that stands for a state. *)
LevelOf(state, inverted) == IF inverted THEN 1 - state ELSE state

(* get_actuator_relay: a new unit is off and not inverted. *)
NewRecord(p) == [state |-> OFF, inverted |-> FALSE, pin |-> p]
AnyPin == CHOOSE p \in Pins : TRUE
Blank == [u \in Units |-> Loaded(NewRecord(AnyPin))]
NoJob == [unit |-> 0, arg |-> OFF, made |-> FALSE, copy |-> NewRecord(AnyPin)]
Idle == [t \in Tasks |-> "idle"]
NoJobs == [t \in Tasks |-> NoJob]
Floating == [p \in Pins |-> "floating"]
Low == [p \in Pins |-> 0]

PCs == {"idle", "call", "init", "config", "level", "state",
        "deinit", "publish", "copy", "write"}

Busy(u) == \E t \in Tasks : pc[t] # "idle" /\ job[t].unit = u

------------------------------------------------------------------------------
(* Power comes for the first time after the one that created the records.  *)
Init ==
  /\ phase = "init" /\ bootCh = 0
  /\ ram = Blank
  /\ \E pin \in [Units -> Pins] :
        /\ \A u \in Units : pin[u] \in UnitPins[u]
        /\ nvs = [u \in Units |-> NewRecord(pin[u])]
  /\ mode = Floating /\ out = Low
  /\ pc = Idle /\ job = NoJobs
  /\ ready = FALSE /\ pending = 0
  /\ refused = {} /\ overlapped = {}

(* Everything but NVS is lost: a power failure, esp_restart, an abort. *)
Reset ==
  /\ phase' = "init" /\ bootCh' = 0
  /\ ram' = Blank
  /\ mode' = Floating /\ out' = Low
  /\ pc' = Idle /\ job' = NoJobs
  /\ ready' = FALSE /\ pending' = 0
  /\ refused' = {} /\ overlapped' = {}
  /\ UNCHANGED nvs

PowerLoss == Reset

------------------------------------------------------------------------------
(* Boot: device_settings_init calls relay_set_state(relay, relay->state,   *)
(* false) for each record, on a local copy; nobody else runs.              *)

NextChannel ==
  IF bootCh + 1 = N
  THEN phase' = "load" /\ bootCh' = N
  ELSE phase' = "init" /\ bootCh' = bootCh + 1

BootInit ==
  /\ phase = "init"
  /\ \/ /\ nvs[bootCh].pin \in OutputPins
        /\ mode' = [mode EXCEPT ![nvs[bootCh].pin] = "output"]
        /\ phase' = "level"
        /\ UNCHANGED bootCh
     \/ /\ nvs[bootCh].pin \notin OutputPins  \* a warning, and on
        /\ NextChannel
        /\ UNCHANGED mode
  /\ UNCHANGED <<ram, nvs, out, pc, job, mqttVars, history>>

(* Mutated: boot drives the state itself, as if no unit were inverted. *)
BootLevelIgnoresInverted ==
  /\ phase = "level"
  /\ out' = [out EXCEPT ![nvs[bootCh].pin] = nvs[bootCh].state]
  /\ NextChannel
  /\ UNCHANGED <<ram, nvs, mode, pc, job, mqttVars, history>>

BootLevel ==
  /\ phase = "level"
  /\ out' = [out EXCEPT ![nvs[bootCh].pin] =
               LevelOf(nvs[bootCh].state, nvs[bootCh].inverted)]
  /\ NextChannel
  /\ UNCHANGED <<ram, nvs, mode, pc, job, mqttVars, history>>

(* init_relay_units_in_memory; then the tasks start. *)
LoadUnits ==
  /\ phase = "load"
  /\ ram' = [u \in Units |-> Loaded(nvs[u])]
  /\ phase' = "run"
  /\ UNCHANGED <<bootCh, nvs, gpioVars, pc, job, mqttVars, history>>

------------------------------------------------------------------------------
(* A task's program counter and locals. *)
Goto(t, l) == pc' = [pc EXCEPT ![t] = l]
Return(t) == Goto(t, "idle") /\ job' = [job EXCEPT ![t] = NoJob]

(* History only: does this switching of u overlap with another one? *)
Enter(u) ==
  overlapped' = IF Busy(u) THEN overlapped \cup {u} ELSE overlapped \ {u}

(* relay_set_state returned an error: the web server answers 500 and leaves *)
(* everything as it is; the command task is inside ESP_ERROR_CHECK and the  *)
(* chip restarts.  The caller constrains ram' and nvs' itself.              *)
WebError(t) ==
  /\ t = "httpd"
  /\ Return(t)
  /\ refused' = refused \cup {job[t].unit}
  /\ UNCHANGED <<boardVars, gpioVars, mqttVars, overlapped>>

Abort(t) == t = "mqtt_cmd" /\ Reset

(* update_relay_post_handler: the unit in RAM takes the pin, state and      *)
(* inversion of the request (or keeps its own), before anything is driven.  *)
(* The pin must be a safe one; the test whether it is in use compares       *)
(* gpio_pin_old with the pin it was just read from and never refuses.       *)
HttpEdit(u, p, s, i) ==
  /\ phase = "run" /\ pc["httpd"] = "idle"
  /\ ram' = [ram EXCEPT ![u].pin = p, ![u].state = s, ![u].inverted = i]
  /\ Goto("httpd", "call")
  /\ job' = [job EXCEPT !["httpd"] = [NoJob EXCEPT !.unit = u]]
  /\ Enter(u)
  /\ UNCHANGED <<boardVars, nvs, gpioVars, mqttVars, refused>>

(* ... then relay_set_state(relay, relay->state, true). *)
HttpCall ==
  /\ pc["httpd"] = "call"
  /\ job' = [job EXCEPT !["httpd"].arg = ram[job["httpd"].unit].state]
  /\ Goto("httpd", "init")
  /\ UNCHANGED <<boardVars, ram, nvs, gpioVars, mqttVars, history>>

(* mqtt_subscribe_relays_task takes a command from mqtt_command_queue. *)
MqttCommand(u, s) ==
  /\ phase = "run" /\ pc["mqtt_cmd"] = "idle"
  /\ job' = [job EXCEPT !["mqtt_cmd"] = [NoJob EXCEPT !.unit = u, !.arg = s]]
  /\ Goto("mqtt_cmd", "init")
  /\ Enter(u)
  /\ UNCHANGED <<boardVars, ram, nvs, gpioVars, mqttVars, refused>>

------------------------------------------------------------------------------
(* relay_set_state(relay, arg, true), run by task t. *)

CheckInit(t) ==
  /\ pc[t] = "init"
  /\ Goto(t, IF ram[job[t].unit].init THEN "level" ELSE "config")
  /\ UNCHANGED <<boardVars, ram, nvs, gpioVars, job, mqttVars, history>>

GpioInit(t) ==
  /\ pc[t] = "config"
  /\ LET u == job[t].unit IN
     /\ ram[u].pin \in OutputPins
     /\ mode' = [mode EXCEPT ![ram[u].pin] = "output"]
     /\ ram' = [ram EXCEPT ![u].init = TRUE]
  /\ job' = [job EXCEPT ![t].made = TRUE]
  /\ Goto(t, "level")
  /\ UNCHANGED <<boardVars, nvs, out, mqttVars, history>>

(* Mutated: the result of relay_gpio_init is ignored from here on. *)
GpioInitFailureIgnored(t) ==
  /\ pc[t] = "config"
  /\ ram[job[t].unit].pin \notin OutputPins
  /\ Goto(t, "publish")
  /\ UNCHANGED <<boardVars, ram, nvs, gpioVars, job, mqttVars, history>>

(* gpio_config refuses a pin that cannot be an output. *)
GpioInitFails(t) ==
  /\ pc[t] = "config"
  /\ ram[job[t].unit].pin \notin OutputPins
  /\ \/ WebError(t) /\ UNCHANGED <<ram, nvs>>
     \/ Abort(t)

(* Mutated: the level goes to the pin of the next unit of the array. *)
SetLevelOfNeighbour(t) ==
  /\ pc[t] = "level"
  /\ LET u == job[t].unit
         v == (u + 1) % N IN
     /\ ram[u].pin \in OutputPins
     /\ out' = [out EXCEPT ![ram[v].pin] = LevelOf(job[t].arg, ram[u].inverted)]
  /\ Goto(t, "state")
  /\ UNCHANGED <<boardVars, ram, nvs, mode, job, mqttVars, history>>

SetLevel(t) ==
  /\ pc[t] = "level"
  /\ LET u == job[t].unit IN
     /\ ram[u].pin \in OutputPins
     /\ out' = [out EXCEPT ![ram[u].pin] = LevelOf(job[t].arg, ram[u].inverted)]
  /\ Goto(t, "state")
  /\ UNCHANGED <<boardVars, ram, nvs, mode, job, mqttVars, history>>

(* The pin was changed under this task to one gpio_set_level refuses. *)
SetLevelFails(t) ==
  /\ pc[t] = "level"
  /\ ram[job[t].unit].pin \notin OutputPins
  /\ \/ /\ WebError(t)
        /\ ram' = [ram EXCEPT ![job[t].unit].init = FALSE]
        /\ UNCHANGED nvs
     \/ Abort(t)

SetState(t) ==
  /\ pc[t] = "state"
  /\ ram' = [ram EXCEPT ![job[t].unit].state = job[t].arg]
  /\ Goto(t, "deinit")
  /\ UNCHANGED <<boardVars, nvs, gpioVars, job, mqttVars, history>>

(* Mutated: the pin is reset along with the flag. *)
GpioDeinitResetsPin(t) ==
  /\ pc[t] = "deinit"
  /\ LET u == job[t].unit IN
     IF job[t].made
     THEN /\ ram' = [ram EXCEPT ![u].init = FALSE]
          /\ mode' = [mode EXCEPT ![ram[u].pin] = "floating"]
     ELSE UNCHANGED <<ram, mode>>
  /\ Goto(t, "publish")
  /\ UNCHANGED <<boardVars, nvs, out, job, mqttVars, history>>

(* Mutated: the call that did not make the initialisation forgets the flag, *)
(* the one that made it leaves it.                                          *)
GpioDeinitSwapped(t) ==
  /\ pc[t] = "deinit"
  /\ ram' = [ram EXCEPT ![job[t].unit].init = @ /\ job[t].made]
  /\ Goto(t, "publish")
  /\ UNCHANGED <<boardVars, nvs, gpioVars, job, mqttVars, history>>

(* relay_gpio_deinit only clears the flag: the pin stays an output. *)
GpioDeinit(t) ==
  /\ pc[t] = "deinit"
  /\ ram' = [ram EXCEPT ![job[t].unit].init = @ /\ ~job[t].made]
  /\ Goto(t, "publish")
  /\ UNCHANGED <<boardVars, nvs, gpioVars, job, mqttVars, history>>

(* Mutated: the event is sent whether or not there is room. *)
TriggerPublishOverrun(t) ==
  /\ pc[t] = "publish"
  /\ pending' = IF ready THEN pending + 1 ELSE pending
  /\ Goto(t, "copy")
  /\ UNCHANGED <<boardVars, ram, nvs, gpioVars, job, ready, history>>

(* trigger_mqtt_publish waits for room in the queue (portMAX_DELAY). *)
TriggerPublish(t) ==
  /\ pc[t] = "publish"
  /\ \/ ~ready /\ UNCHANGED pending
     \/ ready /\ pending < QueueLength /\ pending' = pending + 1
  /\ Goto(t, "copy")
  /\ UNCHANGED <<boardVars, ram, nvs, gpioVars, job, ready, history>>

(* Mutated: only the web server asks relay_set_state to persist. *)
CopyUnitWebOnly(t) ==
  /\ pc[t] = "copy"
  /\ IF t = "httpd"
     THEN /\ job' = [job EXCEPT ![t].copy = Saved(ram[job[t].unit])]
          /\ Goto(t, "write")
     ELSE Return(t)
  /\ UNCHANGED <<boardVars, ram, nvs, gpioVars, mqttVars, history>>

(* save_relay_to_nvs: a copy of the unit is taken ... *)
CopyUnit(t) ==
  /\ pc[t] = "copy"
  /\ job' = [job EXCEPT ![t].copy = Saved(ram[job[t].unit])]
  /\ Goto(t, "write")
  /\ UNCHANGED <<boardVars, ram, nvs, gpioVars, mqttVars, history>>

(* ... and written.  A web update that gets here is answered with success. *)
WriteNvs(t) ==
  /\ pc[t] = "write"
  /\ nvs' = [nvs EXCEPT ![job[t].unit] = job[t].copy]
  /\ Return(t)
  /\ refused' = IF t = "httpd" THEN refused \ {job[t].unit} ELSE refused
  /\ UNCHANGED <<boardVars, ram, gpioVars, mqttVars, overlapped>>

WriteFails(t) ==
  /\ pc[t] = "write" /\ NvsMayFail
  /\ \/ WebError(t) /\ UNCHANGED <<ram, nvs>>
     \/ Abort(t)

------------------------------------------------------------------------------
(* The MQTT side, as far as it shows here: the connection comes and goes,   *)
(* mqtt_event_task takes events.                                            *)
MqttReady ==
  /\ phase = "run"
  /\ ready' = ~ready
  /\ UNCHANGED <<boardVars, ram, nvs, gpioVars, pc, job, pending, history>>

MqttEventReceive ==
  /\ pending > 0
  /\ pending' = pending - 1
  /\ UNCHANGED <<boardVars, ram, nvs, gpioVars, pc, job, ready, history>>

Requests ==
  \/ \E u \in HttpUnits, s \in States, i \in BOOLEAN :
        \E p \in UnitPins[u] : HttpEdit(u, p, s, i)
  \/ \E u \in CmdUnits, s \in States : MqttCommand(u, s)

SetStateStep(t) ==
  \/ CheckInit(t) \/ GpioInit(t) \/ GpioInitFails(t)
  \/ SetLevel(t) \/ SetLevelFails(t)
  \/ SetState(t) \/ GpioDeinit(t) \/ TriggerPublish(t)
  \/ CopyUnit(t) \/ WriteNvs(t) \/ WriteFails(t)

Next ==
  \/ PowerLoss
  \/ BootInit \/ BootLevel \/ LoadUnits
  \/ Requests \/ HttpCall
  \/ \E t \in Tasks : SetStateStep(t)
  \/ MqttReady \/ MqttEventReceive

Spec == Init /\ [][Next]_vars

------------------------------------------------------------------------------
(* Every variable stays in its domain: in particular the program never      *)
(* books a queue slot that is not there.                                    *)
TypeOK ==
  /\ phase \in {"init", "level", "load", "run"}
  /\ bootCh \in 0 .. N
  /\ ram \in [Units -> Unit]
  /\ nvs \in [Units -> Record]
  /\ mode \in [Pins -> {"floating", "output"}]
  /\ out \in [Pins -> {0, 1}]
  /\ pc \in [Tasks -> PCs]
  /\ job \in [Tasks -> Job]
  /\ ready \in BOOLEAN
  /\ pending \in 0 .. QueueLength
  /\ refused \in SUBSET Units /\ overlapped \in SUBSET Units

(* A record is on the line: its pin is driven with the level of its state. *)
OnLine(r) ==
  /\ mode[r.pin] = "output"
  /\ out[r.pin] = LevelOf(r.state, r.inverted)

(* A unit of a running board is at rest when no task is working on it and   *)
(* its last web update, if any, was not answered with an error.             *)
AtRest(u) == phase = "run" /\ ~Busy(u) /\ u \notin refused

(* The users keep to the wiring: two units are never given the same pin.    *)
SeparatePins ==
  \A u, v \in Units : u # v => UnitPins[u] \cap UnitPins[v] = {}

(* relay_set_state, comment "Update the state in the object once it was     *)
(* successfully set to GPIO": of a unit at rest, the pin shows the state    *)
(* that RAM holds (and that the web page and MQTT report).  Fails when two  *)
(* tasks switch the same unit at the same time.                             *)
PinShowsState ==
  \A u \in Units :
     AtRest(u) /\ ram[u].pin \in OutputPins => OnLine(ram[u])

(* The same for every unit whose last switching was alone, whatever races   *)
(* came before it: one undisturbed update repairs what they left behind.    *)
PinShowsStateUndisturbed ==
  \A u \in Units :
     AtRest(u) /\ u \notin overlapped /\ ram[u].pin \in OutputPins
       => OnLine(ram[u])

(* README, "Relay State Memory": of a unit at rest that was switched        *)
(* undisturbed, NVS holds what RAM holds: a power loss now loses nothing.   *)
StateIsStored ==
  \A u \in Units :
     AtRest(u) /\ u \notin overlapped => nvs[u] = Saved(ram[u])

(* Whoever switches a unit, its gpio_initialized flag is down when nobody   *)
(* does.  Left up, it would make relay_set_state skip gpio_config on the    *)
(* next pin the unit is given, which would then never be driven.            *)
NoInitFlagLeft == \A u \in Units : ~Busy(u) => ~ram[u].init

(* README, "... will be restored after power loss": when the boot has       *)
(* passed a unit, and until the tasks run, its pin shows the stored state.  *)
RestoredAtBoot ==
  phase # "run" =>
    \A u \in Units :
       u < bootCh /\ nvs[u].pin \in OutputPins => OnLine(nvs[u])

(* No task but the one that works on u moves a pin that is u's, while the   *)
(* board runs.                                                              *)
OthersPinsUntouched ==
  [][phase = "run" /\ phase' = "run" =>
       \A u \in Units : \A p \in UnitPins[u] :
          out'[p] # out[p] \/ mode'[p] # mode[p] => Busy(u)]_vars

(* The board implements the abstract relay memory: only a level that a pin  *)
(* is showing is ever stored, and boot puts it back before anybody switches *)
(* again.  The mapping: what a pin shows, what is stored, how far boot is.  *)
Line == [p \in Pins |-> IF mode[p] = "output" THEN out[p] ELSE -1]
Stored ==
  [u \in Units |-> [pin |-> nvs[u].pin,
                    level |-> LevelOf(nvs[u].state, nvs[u].inverted)]]
Restored == {u \in Units : u < bootCh}

Memory == INSTANCE RelayMemory
            WITH line <- Line, stored <- Stored, restored <- Restored,
                 Contested <- HttpUnits \cap CmdUnits
ImplementsMemory == Memory!MemorySpec

==============================================================================
