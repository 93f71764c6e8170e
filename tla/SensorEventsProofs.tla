--------------------------- MODULE SensorEventsProofs ---------------------------
(***************************************************************************)
(* Proofs about SensorEvents for any number of sensors, any pins and any   *)
(* length of the queue: the types, the interrupt of every sensor, and that *)
(* RAM and NVS agree when nobody saves.                                    *)
(***************************************************************************)
EXTENDS SensorEvents, SequenceTheorems, WellFoundedInduction, TLAPS

USE NAssumption, QueueAssumption
USE DEF Sensors, States, vars, boardVars, lineVars, bounds

EvtType(e) ==
  \/ e = Waiting
  \/ e \in [at : {"debounce"}, event : Event]
  \/ e \in [at : {"apply", "copy"}, event : Event, sensor : Sensors]
  \/ e \in [at : {"write"}, sensor : Sensors, copy : Record]
WebType(w) ==
  \/ w = NoRequest
  \/ w \in [at : {"copy"}, sensor : Sensors, oldPin : Pins]
  \/ w \in [at : {"write"}, sensor : Sensors, oldPin : Pins, copy : Record]
  \/ w \in [at : {"init", "isr"}, sensor : Sensors]
QueueType(q) == q \in Seq(Event) /\ Len(q) <= QueueLength

LEMMA TypeParts ==
  TypeOK <=>
    /\ phase \in {"load", "register", "refresh", "run"} /\ bootCh \in 0 .. N
    /\ ram \in [Sensors -> Sensor] /\ nvs \in [Sensors -> Record]
    /\ level \in [Pins -> {0, 1}]
    /\ edge \in SUBSET isr /\ isr \in SUBSET Pins
    /\ QueueType(queue) /\ EvtType(evt) /\ WebType(web)
    /\ {refused, unsaved, disturbed} \subseteq SUBSET Sensors
    /\ edges \in 0 .. MaxEdges /\ edits \in 0 .. MaxEdits /\ resets \in 0 .. MaxResets
BY DEF TypeOK, EvtType, WebType, QueueType

------------------------------------------------------------------------------
(* Sensors, records and places.                                             *)

LEMMA SensorFacts ==
  /\ \A r \in Sensor : Saved(r) \in Record
  /\ \A r \in Record : Loaded(r) \in Sensor /\ Saved(Loaded(r)) = r
  /\ \A l \in {0, 1}, i \in BOOLEAN : StateOf(l, i) \in States
BY DEF Sensor, Record, Saved, Loaded, StateOf, ON, OFF

LEMMA Edited ==
  ASSUME NEW r \in Sensor, NEW p \in Pins, NEW st \in States, NEW i \in BOOLEAN
  PROVE  [r EXCEPT !.pin = p, !.state = st, !.inverted = i] \in Sensor
<1>1. \A x \in Sensor : [x EXCEPT !.pin = p] \in Sensor
  BY DEF Sensor
<1>2. \A x \in Sensor : [x EXCEPT !.state = st] \in Sensor
  BY DEF Sensor
<1>3. \A x \in Sensor : [x EXCEPT !.inverted = i] \in Sensor
  BY DEF Sensor
<1>. QED
  BY <1>1, <1>2, <1>3, Zenon

LEMMA Flagged ==
  ASSUME ram \in [Sensors -> Sensor], NEW s \in Sensors, NEW b \in BOOLEAN
  PROVE  [ram EXCEPT ![s].init = b] \in [Sensors -> Sensor]
<1>1. \A r \in Sensor : [r EXCEPT !.init = b] \in Sensor
  BY DEF Sensor
<1>2. ram[s] \in Sensor
  OBVIOUS
<1>3. [ram[s] EXCEPT !.init = b] \in Sensor
  BY <1>1, <1>2
<1>. QED
  BY <1>3

LEMMA EvtFacts ==
  ASSUME EvtType(evt)
  PROVE  /\ evt.at \in {"receive", "debounce", "apply", "copy", "write"}
         /\ evt.at = "debounce" => evt.event \in Event
         /\ evt.at \in {"apply", "copy"} =>
              evt \in [at : {"apply", "copy"}, event : Event, sensor : Sensors]
         /\ evt.at = "write" => evt.sensor \in Sensors /\ evt.copy \in Record
BY DEF EvtType, Waiting

LEMMA WebFacts ==
  ASSUME WebType(web)
  PROVE  /\ web.at \in {"idle", "copy", "write", "init", "isr"}
         /\ web.at \in {"copy", "write"} => web.oldPin \in Pins
         /\ web.at = "write" => web.copy \in Record
         /\ web.at # "idle" => web.sensor \in Sensors
         /\ web.at \in {"init", "isr"} => web \in [at : {"init", "isr"}, sensor : Sensors]
BY DEF WebType, NoRequest

LEMMA Popped ==
  ASSUME NEW q, QueueType(q), q # <<>>
  PROVE  Head(q) \in Event /\ QueueType(Tail(q))
<1>1. Head(q) \in Event /\ Tail(q) \in Seq(Event) /\ Len(Tail(q)) = Len(q) - 1
  BY HeadTailProperties DEF QueueType
<1>. QED
  BY <1>1 DEF QueueType

LEMMA LeastSensor ==
  ASSUME NEW T \in SUBSET Sensors, T # {}
  PROVE  Min(T) \in Sensors
<1> DEFINE R == OpToRel(<, Nat)
<1>1. T \subseteq Nat
  OBVIOUS
<1>2. PICK m \in T : \A q \in T : ~ (<<q, m>> \in R)
  <2>1. IsWellFoundedOn(R, Nat)
    BY NatLessThanWellFounded
  <2>. HIDE DEF R
  <2>. QED
    BY <1>1, <2>1, WFMin
<1>3. \A q \in T : ~ (q < m)
  BY <1>1, <1>2 DEF OpToRel
<1>4. \A q \in T : m <= q
  BY <1>1, <1>3
<1>. QED
  BY <1>2, <1>4 DEF Min

(* The sensor that gpio_event_task finds at a pin.                          *)
LEMMA FirstSensor ==
  ASSUME NEW p, SensorsAt(p) # {}
  PROVE  Min(SensorsAt(p)) \in Sensors
<1>1. SensorsAt(p) \in SUBSET Sensors
  BY DEF SensorsAt
<1>. QED
  BY <1>1, LeastSensor

------------------------------------------------------------------------------
(* Types.                                                                   *)

LEMMA InitType == Init => TypeOK
<1> SUFFICES ASSUME Init PROVE TypeOK
  OBVIOUS
<1>1. PICK pin \in [Sensors -> Pins] :
         nvs = [s \in Sensors |-> [state |-> OFF, inverted |-> FALSE, pin |-> pin[s]]]
  BY DEF Init
<1>2. nvs \in [Sensors -> Record]
  BY <1>1 DEF Record, OFF
<1>3. ram \in [Sensors -> Sensor]
  BY <1>2, SensorFacts DEF Init
<1>4. QueueType(queue)
  BY DEF Init, QueueType
<1>5. EvtType(evt) /\ WebType(web)
  BY DEF Init, EvtType, WebType
<1>6. /\ phase = "load" /\ bootCh \in 0 .. N
      /\ level \in [Pins -> {0, 1}] /\ edge = {} /\ isr = {}
      /\ refused = {} /\ unsaved = {} /\ disturbed = {}
      /\ edges = 0 /\ edits = 0 /\ resets = 0
  BY DEF Init
<1>. QED
  BY <1>2, <1>3, <1>4, <1>5, <1>6, BoundAssumption, TypeParts

LEMMA RamStep == TypeOK /\ [Next]_vars => ram' \in [Sensors -> Sensor]
<1> SUFFICES ASSUME TypeOK, [Next]_vars PROVE ram' \in [Sensors -> Sensor]
  OBVIOUS
<1>0. /\ ram \in [Sensors -> Sensor] /\ nvs \in [Sensors -> Record]
      /\ level \in [Pins -> {0, 1}] /\ EvtType(evt) /\ WebType(web)
  BY TypeParts
<1>1. CASE Reset \/ LoadSensors
  BY <1>0, <1>1, SensorFacts DEF Reset, LoadSensors
<1>2. CASE BootRefresh
  <2>1. ASSUME NEW s \in Sensors PROVE Refreshed(ram[s]) \in Sensor
    <3>1. ram[s].pin \in Pins /\ ram[s].inverted \in BOOLEAN
      BY <1>0 DEF Sensor
    <3>2. StateOf(level[ram[s].pin], ram[s].inverted) \in States
      BY <1>0, <3>1, SensorFacts
    <3>. QED
      BY <1>0, <3>2 DEF Refreshed, Sensor
  <2>. QED
    BY <1>0, <1>2, <2>1 DEF BootRefresh
<1>3. CASE EventApply
  <2>1. evt.sensor \in Sensors /\ evt.event.level \in {0, 1}
    BY <1>0, <1>3, EvtFacts DEF EventApply, Event
  <2>2. ram[evt.sensor].inverted \in BOOLEAN
    BY <1>0, <2>1 DEF Sensor
  <2>3. StateOf(evt.event.level, ram[evt.sensor].inverted) \in States
    BY <2>1, <2>2, SensorFacts
  <2>. QED
    BY <1>0, <1>3, <2>1, <2>3 DEF EventApply, Sensor
<1>4. ASSUME NEW s \in Sensors, NEW st \in States, NEW i \in BOOLEAN,
             NEW p \in SensorPins[s], WebEdit(s, p, st, i)
      PROVE  ram' \in [Sensors -> Sensor]
  <2>1. p \in Pins
    BY PinsAssumption
  <2> DEFINE r == [ram[s] EXCEPT !.pin = p, !.state = st, !.inverted = i]
  <2>2. r \in Sensor
    BY <1>0, <2>1, Edited
  <2>3. ram' = [ram EXCEPT ![s] = r]
    BY <1>0, <1>4 DEF WebEdit
  <2>. QED
    BY <1>0, <2>2, <2>3
<1>5. CASE WebGpioInit
  BY <1>0, <1>5, WebFacts, Flagged DEF WebGpioInit
<1>6. ASSUME NEW s \in Sensors, MqttDeinit(s)
      PROVE  ram' \in [Sensors -> Sensor]
  BY <1>0, <1>6, Flagged DEF MqttDeinit
<1>7. CASE UNCHANGED ram
  BY <1>0, <1>7
<1>8. \/ Reset \/ LoadSensors \/ BootRefresh \/ EventApply \/ WebGpioInit
      \/ \E s \in Sensors, st \in States, i \in BOOLEAN :
            \E p \in SensorPins[s] : WebEdit(s, p, st, i)
      \/ \E s \in Sensors : MqttDeinit(s)
      \/ UNCHANGED ram
  BY DEF Next, PowerLoss, BootStep, BootRegister, Edge, GpioIsr, EventStep,
      EventReceive, EventBounced, EventDebounced, EventPanics,
      EventCopy, EventWrite, WebStep, WebCopy, WebWrite, WebWriteFails,
      WebRegisterIsr
<1>. QED
  BY <1>1, <1>2, <1>3, <1>4, <1>5, <1>6, <1>7, <1>8

LEMMA NvsStep == TypeOK /\ [Next]_vars => nvs' \in [Sensors -> Record]
<1> SUFFICES ASSUME TypeOK, [Next]_vars PROVE nvs' \in [Sensors -> Record]
  OBVIOUS
<1>0. /\ nvs \in [Sensors -> Record] /\ EvtType(evt) /\ WebType(web)
  BY TypeParts
<1>1. CASE BootRefresh
  <2>1. DOMAIN ram = Sensors /\ ram' \in [Sensors -> Sensor]
    BY TypeParts, RamStep
  <2>2. bootCh \in Sensors => ram'[bootCh] = Refreshed(ram[bootCh])
    BY <1>1, <2>1 DEF BootRefresh
  <2>3. bootCh \in Sensors => Saved(Refreshed(ram[bootCh])) \in Record
    BY <2>1, <2>2, SensorFacts
  <2>. QED
    BY <1>0, <1>1, <2>3 DEF BootRefresh
<1>2. CASE EventWrite
  BY <1>0, <1>2, EvtFacts DEF EventWrite
<1>3. CASE WebWrite
  BY <1>0, <1>3, WebFacts DEF WebWrite
<1>4. CASE UNCHANGED nvs
  BY <1>0, <1>4
<1>5. BootRefresh \/ EventWrite \/ WebWrite \/ UNCHANGED nvs
  BY DEF Next, PowerLoss, Reset, BootStep, LoadSensors, BootRegister, Edge,
      GpioIsr, EventStep, EventReceive, EventBounced, EventDebounced,
      EventPanics, EventApply, EventCopy, WebEdit, WebStep, WebCopy,
      WebWriteFails, WebGpioInit, WebRegisterIsr, MqttDeinit
<1>. QED
  BY <1>1, <1>2, <1>3, <1>4, <1>5

LEMMA QueueStep == TypeOK /\ [Next]_vars => QueueType(queue')
<1> SUFFICES ASSUME TypeOK, [Next]_vars PROVE QueueType(queue')
  OBVIOUS
<1>0. QueueType(queue) /\ edge \subseteq Pins /\ level \in [Pins -> {0, 1}]
  BY TypeParts
<1>1. ASSUME NEW p \in Pins, GpioIsr(p) PROVE QueueType(queue')
  <2>1. [pin |-> p, level |-> level[p]] \in Event
    BY <1>0 DEF Event
  <2>. QED
    BY <1>0, <1>1, <2>1 DEF GpioIsr, QueueType
<1>2. CASE EventReceive
  BY <1>0, <1>2, Popped DEF EventReceive
<1>3. CASE queue' = <<>>
  BY <1>3 DEF QueueType
<1>4. CASE UNCHANGED queue
  BY <1>0, <1>4
<1>5. \/ \E p \in Pins : GpioIsr(p)
      \/ EventReceive \/ queue' = <<>> \/ UNCHANGED queue
  BY DEF Next, PowerLoss, Reset, BootStep, LoadSensors, BootRegister,
      BootRefresh, Edge, EventStep, EventBounced, EventDebounced,
      EventPanics, EventApply, EventCopy, EventWrite, WebEdit, WebStep,
      WebCopy, WebWrite, WebWriteFails, WebGpioInit, WebRegisterIsr,
      MqttDeinit
<1>. QED
  BY <1>1, <1>2, <1>3, <1>4, <1>5

LEMMA EvtStep == TypeOK /\ [Next]_vars => EvtType(evt')
<1> SUFFICES ASSUME TypeOK, [Next]_vars PROVE EvtType(evt')
  OBVIOUS
<1>0. /\ QueueType(queue) /\ EvtType(evt) /\ ram \in [Sensors -> Sensor]
  BY TypeParts
<1>1. CASE EventReceive
  <2>1. Head(queue) \in Event
    BY <1>0, <1>1, Popped DEF EventReceive
  <2>. QED
    BY <1>1, <2>1 DEF EventReceive, EvtType
<1>2. CASE EventDebounced
  <2>1. evt.event \in Event /\ Min(SensorsAt(evt.event.pin)) \in Sensors
    BY <1>0, <1>2, EvtFacts, FirstSensor DEF EventDebounced
  <2>. QED
    BY <1>2, <2>1 DEF EventDebounced, EvtType
<1>3. CASE EventApply
  BY <1>0, <1>3, EvtFacts DEF EventApply, EvtType
<1>4. CASE EventCopy
  <2>1. evt.sensor \in Sensors
    BY <1>0, <1>4, EvtFacts DEF EventCopy
  <2>2. Saved(ram[evt.sensor]) \in Record
    BY <1>0, <2>1, SensorFacts
  <2>. QED
    BY <1>4, <2>1, <2>2 DEF EventCopy, EvtType
<1>5. CASE evt' \in {evt, Waiting}
  BY <1>0, <1>5 DEF EvtType
<1>6. EventReceive \/ EventDebounced \/ EventApply \/ EventCopy \/ evt' \in {evt, Waiting}
  BY DEF Next, PowerLoss, Reset, BootStep, LoadSensors, BootRegister,
      BootRefresh, Edge, GpioIsr, EventStep, EventBounced, EventPanics,
      EventWrite, WebEdit, WebStep, WebCopy, WebWrite, WebWriteFails,
      WebGpioInit, WebRegisterIsr, MqttDeinit
<1>. QED
  BY <1>1, <1>2, <1>3, <1>4, <1>5, <1>6

LEMMA WebStepType == TypeOK /\ [Next]_vars => WebType(web')
<1> SUFFICES ASSUME TypeOK, [Next]_vars PROVE WebType(web')
  OBVIOUS
<1>0. WebType(web) /\ ram \in [Sensors -> Sensor]
  BY TypeParts
<1>1. ASSUME NEW s \in Sensors, NEW st \in States, NEW i \in BOOLEAN,
             NEW p \in SensorPins[s], WebEdit(s, p, st, i)
      PROVE  WebType(web')
  <2>1. ram[s].pin \in Pins
    BY <1>0 DEF Sensor
  <2>. QED
    BY <1>1, <2>1 DEF WebEdit, WebType
<1>2. CASE WebCopy
  <2>1. web.sensor \in Sensors /\ web.oldPin \in Pins
    BY <1>0, <1>2, WebFacts DEF WebCopy
  <2>2. Saved(ram[web.sensor]) \in Record
    BY <1>0, <2>1, SensorFacts
  <2>. QED
    BY <1>2, <2>1, <2>2 DEF WebCopy, WebType
<1>3. CASE WebWrite
  BY <1>0, <1>3, WebFacts DEF WebWrite, WebType
<1>4. CASE WebGpioInit
  BY <1>0, <1>4, WebFacts DEF WebGpioInit, WebType
<1>5. CASE web' \in {web, NoRequest}
  BY <1>0, <1>5 DEF WebType
<1>6. \/ \E s \in Sensors, st \in States, i \in BOOLEAN :
            \E p \in SensorPins[s] : WebEdit(s, p, st, i)
      \/ WebCopy \/ WebWrite \/ WebGpioInit \/ web' \in {web, NoRequest}
  BY DEF Next, PowerLoss, Reset, BootStep, LoadSensors, BootRegister,
      BootRefresh, Edge, GpioIsr, EventStep, EventReceive, EventBounced,
      EventDebounced, EventPanics, EventApply, EventCopy, EventWrite,
      WebStep, WebWriteFails, WebRegisterIsr, MqttDeinit
<1>. QED
  BY <1>1, <1>2, <1>3, <1>4, <1>5, <1>6

(* The variables that hold no task, record or event; boot comes to every     *)
(* sensor, and no task runs before.                                         *)
BootInv == phase # "run" => bootCh < N /\ evt = Waiting /\ web = NoRequest

LEMMA BootStepInv == TypeOK /\ BootInv /\ [Next]_vars =>
  /\ BootInv'
  /\ phase' \in {"load", "register", "refresh", "run"} /\ bootCh' \in 0 .. N
<1> SUFFICES ASSUME TypeOK, BootInv, [Next]_vars
             PROVE  /\ BootInv'
                    /\ phase' \in {"load", "register", "refresh", "run"}
                    /\ bootCh' \in 0 .. N
  OBVIOUS
<1>0. phase \in {"load", "register", "refresh", "run"} /\ bootCh \in 0 .. N
  BY TypeParts
<1>1. CASE Reset
  BY <1>1 DEF Reset, BootInv
<1>2. CASE LoadSensors \/ BootRegister \/ BootRefresh
  <2>1. phase # "run" /\ bootCh < N /\ UNCHANGED <<evt, web>>
    BY <1>2 DEF LoadSensors, BootRegister, BootRefresh, BootInv
  <2>2. \/ phase' \in {"register", "refresh"} /\ bootCh' = bootCh
        \/ phase' = "register" /\ bootCh' = bootCh + 1 /\ bootCh + 1 # N
        \/ phase' = "run" /\ bootCh' = N
    BY <1>2 DEF LoadSensors, BootRegister, BootRefresh
  <2>. QED
    BY <1>0, <2>1, <2>2 DEF BootInv
<1>3. CASE phase = "run" /\ UNCHANGED boardVars
  BY <1>0, <1>3 DEF BootInv
<1>4. CASE UNCHANGED <<boardVars, evt, web>>
  BY <1>0, <1>4 DEF BootInv
<1>5. ASSUME phase # "run", evt' # evt \/ web' # web
      PROVE  Reset
  <2>1. evt.at = "receive" /\ web.at = "idle"
    BY <1>5 DEF BootInv, Waiting, NoRequest
  <2>. QED
    BY <1>5, <2>1 DEF Next, PowerLoss, BootStep, LoadSensors, BootRegister,
       BootRefresh, Edge, GpioIsr, EventStep, EventReceive, EventBounced,
       EventDebounced, EventPanics, EventApply, EventCopy, EventWrite, WebEdit,
       WebStep, WebCopy, WebWrite, WebWriteFails, WebGpioInit, WebRegisterIsr,
       MqttDeinit
<1>6. Reset \/ LoadSensors \/ BootRegister \/ BootRefresh \/ UNCHANGED boardVars
  BY DEF Next, PowerLoss, BootStep, Edge, GpioIsr, EventStep, EventReceive,
      EventBounced, EventDebounced, EventPanics, EventApply, EventCopy,
      EventWrite, WebEdit, WebStep, WebCopy, WebWrite, WebWriteFails,
      WebGpioInit, WebRegisterIsr, MqttDeinit
<1>. QED
  BY <1>1, <1>2, <1>3, <1>4, <1>5, <1>6

LEMMA PinStep == TypeOK /\ BootInv /\ [Next]_vars =>
  /\ level' \in [Pins -> {0, 1}]
  /\ edge' \in SUBSET isr' /\ isr' \in SUBSET Pins
<1> SUFFICES ASSUME TypeOK, BootInv, [Next]_vars
             PROVE  /\ level' \in [Pins -> {0, 1}]
                    /\ edge' \in SUBSET isr' /\ isr' \in SUBSET Pins
  OBVIOUS
<1>0. /\ level \in [Pins -> {0, 1}] /\ edge \in SUBSET isr /\ isr \in SUBSET Pins
      /\ ram \in [Sensors -> Sensor] /\ WebType(web) /\ bootCh \in 0 .. N
  BY TypeParts
<1>1. ASSUME NEW p \in Pins, Edge(p)
      PROVE  level' \in [Pins -> {0, 1}] /\ edge' \in SUBSET isr' /\ isr' = isr
  BY <1>0, <1>1 DEF Edge
<1>2. ASSUME NEW p \in Pins, GpioIsr(p)
      PROVE  level' = level /\ edge' \in SUBSET isr' /\ isr' = isr
  BY <1>0, <1>2 DEF GpioIsr
<1>3. CASE Reset
  BY <1>0, <1>3 DEF Reset
<1>4. CASE WebRegisterIsr
  <2>1. ram[web.sensor].pin \in Pins
    BY <1>0, <1>4, WebFacts DEF WebRegisterIsr, Sensor
  <2>. QED
    BY <1>0, <1>4, <2>1 DEF WebRegisterIsr
<1>5. CASE BootRegister
  <2>1. bootCh \in Sensors
    BY <1>0, <1>5 DEF BootRegister, BootInv
  <2>2. ram[bootCh].pin \in Pins
    BY <1>0, <2>1 DEF Sensor
  <2>. QED
    BY <1>0, <1>5, <2>2 DEF BootRegister
<1>6. CASE UNCHANGED <<lineVars, isr>>
  BY <1>0, <1>6
<1>7. \/ \E p \in Pins : Edge(p) \/ GpioIsr(p)
      \/ Reset \/ WebRegisterIsr \/ BootRegister \/ UNCHANGED <<lineVars, isr>>
  BY DEF Next, PowerLoss, BootStep, LoadSensors, BootRefresh, EventStep,
      EventReceive, EventBounced, EventDebounced, EventPanics,
      EventApply, EventCopy, EventWrite, WebEdit, WebStep, WebCopy,
      WebWrite, WebWriteFails, WebGpioInit, MqttDeinit
<1>. QED
  BY <1>0, <1>1, <1>2, <1>3, <1>4, <1>5, <1>6, <1>7

LEMMA SetsStep == TypeOK /\ BootInv /\ [Next]_vars =>
  /\ {refused', unsaved', disturbed'} \subseteq SUBSET Sensors
  /\ edges' \in 0 .. MaxEdges /\ edits' \in 0 .. MaxEdits /\ resets' \in 0 .. MaxResets
<1> SUFFICES ASSUME TypeOK, BootInv, [Next]_vars
             PROVE  /\ {refused', unsaved', disturbed'} \subseteq SUBSET Sensors
                    /\ edges' \in 0 .. MaxEdges /\ edits' \in 0 .. MaxEdits
                    /\ resets' \in 0 .. MaxResets
  OBVIOUS
<1>0. /\ refused \subseteq Sensors /\ unsaved \subseteq Sensors /\ disturbed \subseteq Sensors
      /\ edges \in 0 .. MaxEdges /\ edits \in 0 .. MaxEdits /\ resets \in 0 .. MaxResets
      /\ bootCh \in 0 .. N /\ EvtType(evt) /\ WebType(web)
  BY TypeParts
<1>1. /\ BootRefresh => bootCh \in Sensors
      /\ EventApply \/ EventWrite => evt.sensor \in Sensors
      /\ WebWriteFails \/ WebRegisterIsr => web.sensor \in Sensors
  BY <1>0, EvtFacts, WebFacts
     DEF BootInv, BootRefresh, EventApply, EventWrite, WebWriteFails, WebRegisterIsr
<1>2. refused' \subseteq Sensors
  <2>1. refused' \in {refused, {}} \/ WebWriteFails \/ WebRegisterIsr
    BY DEF Next, PowerLoss, Reset, BootStep, LoadSensors, BootRegister,
        BootRefresh, Edge, GpioIsr, EventStep, EventReceive, EventBounced,
        EventDebounced, EventPanics, EventApply, EventCopy, EventWrite,
        WebEdit, WebStep, WebCopy, WebWrite, WebGpioInit, MqttDeinit
  <2>. QED
    BY <1>0, <1>1, <2>1 DEF WebWriteFails, WebRegisterIsr
<1>3. unsaved' \subseteq Sensors
  <2>1. \/ unsaved' \in {unsaved, {}} \/ BootRefresh \/ EventApply \/ EventWrite \/ WebWriteFails
        \/ \E s \in Sensors, st \in States, i \in BOOLEAN :
              \E p \in SensorPins[s] : WebEdit(s, p, st, i)
    BY DEF Next, PowerLoss, Reset, BootStep, LoadSensors, BootRegister, Edge,
        GpioIsr, EventStep, EventReceive, EventBounced, EventDebounced,
        EventPanics, EventCopy, WebStep, WebCopy, WebWrite, WebGpioInit,
        WebRegisterIsr, MqttDeinit
  <2>. QED
    BY <1>0, <1>1, <2>1
       DEF BootRefresh, EventApply, EventWrite, WebWriteFails, WebEdit, Overlap
<1>4. disturbed' \subseteq Sensors
  <2>1. \/ disturbed' \in {disturbed, {}}
        \/ \E p \in Pins : Edge(p) \/ GpioIsr(p)
        \/ \E s \in Sensors, st \in States, i \in BOOLEAN :
              \E p \in SensorPins[s] : WebEdit(s, p, st, i)
    BY DEF Next, PowerLoss, Reset, BootStep, LoadSensors, BootRegister,
        BootRefresh, EventStep, EventReceive, EventBounced,
        EventDebounced, EventPanics, EventApply, EventCopy, EventWrite,
        WebStep, WebCopy, WebWrite, WebWriteFails, WebGpioInit,
        WebRegisterIsr, MqttDeinit
  <2>. QED
    BY <1>0, <2>1 DEF Edge, GpioIsr, WebEdit, SensorsAt
<1>5. /\ edges' \in 0 .. MaxEdges /\ edits' \in 0 .. MaxEdits /\ resets' \in 0 .. MaxResets
  <2>1. edges' = edges \/ (edges < MaxEdges /\ edges' = edges + 1)
    <3>1. edges' = edges \/ \E p \in Pins : Edge(p)
      BY DEF Next, PowerLoss, Reset, BootStep, LoadSensors, BootRegister,
          BootRefresh, GpioIsr, EventStep, EventReceive, EventBounced,
          EventDebounced, EventPanics, EventApply, EventCopy, EventWrite,
          WebEdit, WebStep, WebCopy, WebWrite, WebWriteFails, WebGpioInit,
          WebRegisterIsr, MqttDeinit
    <3>. QED
      BY <3>1 DEF Edge
  <2>2. edits' = edits \/ (edits < MaxEdits /\ edits' = edits + 1)
    <3>1. edits' = edits \/ \E s \in Sensors, st \in States, i \in BOOLEAN : \E p \in SensorPins[s] : WebEdit(s, p, st, i)
      BY DEF Next, PowerLoss, Reset, BootStep, LoadSensors, BootRegister,
          BootRefresh, Edge, GpioIsr, EventStep, EventReceive, EventBounced,
          EventDebounced, EventPanics, EventApply, EventCopy, EventWrite,
          WebStep, WebCopy, WebWrite, WebWriteFails, WebGpioInit,
          WebRegisterIsr, MqttDeinit
    <3>. QED
      BY <3>1 DEF WebEdit
  <2>3. resets' = resets \/ (resets < MaxResets /\ resets' = resets + 1)
    <3>1. resets' = resets \/ PowerLoss
      BY DEF Next, Reset, BootStep, LoadSensors, BootRegister, BootRefresh,
          Edge, GpioIsr, EventStep, EventReceive, EventBounced,
          EventDebounced, EventPanics, EventApply, EventCopy, EventWrite,
          WebEdit, WebStep, WebCopy, WebWrite, WebWriteFails, WebGpioInit,
          WebRegisterIsr, MqttDeinit
    <3>. QED
      BY <3>1 DEF PowerLoss
  <2>. QED
    BY <1>0, <2>1, <2>2, <2>3, BoundAssumption
<1>. QED
  BY <1>2, <1>3, <1>4, <1>5

LEMMA TypeStep == TypeOK /\ BootInv /\ [Next]_vars => TypeOK' /\ BootInv'
<1> SUFFICES ASSUME TypeOK, BootInv, [Next]_vars PROVE TypeOK' /\ BootInv'
  OBVIOUS
<1>1. ram' \in [Sensors -> Sensor] /\ nvs' \in [Sensors -> Record]
  BY RamStep, NvsStep
<1>2. QueueType(queue') /\ EvtType(evt') /\ WebType(web')
  BY QueueStep, EvtStep, WebStepType
<1>3. /\ phase' \in {"load", "register", "refresh", "run"} /\ bootCh' \in 0 .. N
      /\ level' \in [Pins -> {0, 1}] /\ edge' \in SUBSET isr' /\ isr' \in SUBSET Pins
      /\ BootInv'
  BY BootStepInv, PinStep
<1>4. /\ {refused', unsaved', disturbed'} \subseteq SUBSET Sensors
      /\ edges' \in 0 .. MaxEdges /\ edits' \in 0 .. MaxEdits /\ resets' \in 0 .. MaxResets
  BY SetsStep
<1>. QED
  BY <1>1, <1>2, <1>3, <1>4 DEF TypeOK, EvtType, WebType, QueueType

LEMMA Typed == Spec => [](TypeOK /\ BootInv)
<1>1. Init => BootInv
  BY DEF Init, BootInv
<1>. QED
  BY <1>1, InitType, TypeStep, PTL DEF Spec

(* Every variable of the contact sensors keeps its type, and the ISR never  *)
(* overruns its queue, for any number of sensors and pins.                  *)
THEOREM TypeCorrect == Spec => []TypeOK
BY Typed, PTL

------------------------------------------------------------------------------
(* The interrupt of every sensor.                                           *)

(* Boot has added the ISR to the pins of the sensors it has come past.  An  *)
(* update that keeps the pin leaves one whose ISR was there before.         *)
IsrInv ==
  /\ phase = "load" => bootCh = 0
  /\ phase # "run" =>
       \A s \in Sensors :
          s < bootCh \/ (s = bootCh /\ phase = "refresh") => ram[s].pin \in isr
  /\ IsrOnPin
  /\ web.at \in {"copy", "write"} /\ web.sensor \notin refused => web.oldPin \in isr

LEMMA IsrStep == TypeOK /\ BootInv /\ IsrInv /\ [Next]_vars => IsrInv'
<1> SUFFICES ASSUME TypeOK, BootInv, IsrInv, [Next]_vars PROVE IsrInv'
  OBVIOUS
<1> USE DEF IsrInv, IsrOnPin, WebWorksOn
<1>0. /\ ram \in [Sensors -> Sensor] /\ bootCh \in 0 .. N
      /\ phase \in {"load", "register", "refresh", "run"}
      /\ WebType(web) /\ EvtType(evt)
  BY TypeParts
<1>1. CASE Reset
  BY <1>1 DEF Reset, NoRequest
<1>2. CASE LoadSensors
  BY <1>0, <1>2 DEF LoadSensors, BootInv, NoRequest
<1>3. CASE BootRegister
  <2>1. \A s \in Sensors : s < bootCh \/ s = bootCh => ram'[s].pin \in isr'
    <3>1. /\ phase = "register" /\ ram' = ram
          /\ isr' = isr \cup {ram[bootCh].pin}
      BY <1>3 DEF BootRegister
    <3>2. \A s \in Sensors : s < bootCh => ram[s].pin \in isr
      BY <3>1
    <3>. QED
      BY <3>1, <3>2
  <2>2. bootCh' = bootCh /\ phase' = "refresh" /\ web'.at = "idle"
    BY <1>3 DEF BootRegister, BootInv, NoRequest
  <2>. QED
    BY <2>1, <2>2
<1>4. CASE BootRefresh
  <2>1. \A s \in Sensors : ram'[s].pin = ram[s].pin
    BY <1>0, <1>4 DEF BootRefresh, Refreshed, Sensor
  <2>. QED
    BY <1>0, <1>4, <2>1 DEF BootRefresh, BootInv, NoRequest
<1>5. ASSUME NEW s \in Sensors, NEW st \in States, NEW i \in BOOLEAN,
             NEW p \in SensorPins[s], WebEdit(s, p, st, i)
      PROVE  IsrInv'
  <2>1. \A t \in Sensors \ {s} : ram'[t] = ram[t]
    BY <1>0, <1>5 DEF WebEdit
  <2>2. s \notin refused => ram[s].pin \in isr
    BY <1>5 DEF WebEdit
  <2>3. /\ phase' = "run" /\ isr' = isr /\ refused' = refused
        /\ web'.at = "copy" /\ web'.sensor = s /\ web'.oldPin = ram[s].pin
    BY <1>5 DEF WebEdit
  <2>4. \A t \in Sensors \ {s} : t \notin refused => ram[t].pin \in isr
    BY <1>5 DEF WebEdit
  <2>. QED
    BY <2>1, <2>2, <2>3, <2>4
<1>6. CASE WebWrite
  BY <1>0, <1>6, WebFacts DEF WebWrite, NoRequest
<1>7. CASE WebRegisterIsr
  BY <1>0, <1>7, WebFacts DEF WebRegisterIsr, NoRequest
<1>8. CASE WebWriteFails
  BY <1>0, <1>8, WebFacts DEF WebWriteFails, NoRequest
<1>9. ASSUME \A s \in Sensors : ram'[s].pin = ram[s].pin,
             UNCHANGED <<boardVars, isr, refused>>,
             \/ UNCHANGED web
             \/ /\ web.at # "idle" /\ web'.at # "idle" /\ web'.sensor = web.sensor
                /\ web'.at \in {"copy", "write"} =>
                     web.at \in {"copy", "write"} /\ web'.oldPin = web.oldPin
      PROVE  IsrInv'
  BY <1>9
<1>10. CASE WebCopy
  BY <1>0, <1>9, <1>10 DEF WebCopy
<1>11. CASE WebGpioInit
  <2>1. \A s \in Sensors : ram'[s].pin = ram[s].pin
    BY <1>0, <1>11 DEF WebGpioInit, Sensor
  <2>2. web' = [web EXCEPT !.at = "isr"] /\ web \in [at : {"init", "isr"}, sensor : Sensors]
        /\ UNCHANGED <<boardVars, isr, refused>>
    BY <1>0, <1>11, WebFacts DEF WebGpioInit
  <2>3. web.at # "idle" /\ web'.at = "isr" /\ web'.sensor = web.sensor
    BY <2>2
  <2>. QED
    BY <1>9, <2>1, <2>2, <2>3
<1>12. CASE EventApply
  <2>1. \A s \in Sensors : ram'[s].pin = ram[s].pin
    BY <1>0, <1>12 DEF EventApply, Sensor
  <2>. QED
    BY <1>9, <1>12, <2>1 DEF EventApply
<1>13. ASSUME NEW s \in Sensors, MqttDeinit(s) PROVE IsrInv'
  <2>1. \A t \in Sensors : ram'[t].pin = ram[t].pin
    BY <1>0, <1>13 DEF MqttDeinit, Sensor
  <2>. QED
    BY <1>9, <1>13, <2>1 DEF MqttDeinit
<1>14. CASE UNCHANGED <<boardVars, ram, isr, refused, web>>
  BY <1>9, <1>14
<1>15. \/ Reset \/ LoadSensors \/ BootRegister \/ BootRefresh
       \/ \E s \in Sensors, st \in States, i \in BOOLEAN :
             \E p \in SensorPins[s] : WebEdit(s, p, st, i)
       \/ WebWrite \/ WebRegisterIsr \/ WebWriteFails \/ WebCopy \/ WebGpioInit
       \/ EventApply \/ \E s \in Sensors : MqttDeinit(s)
       \/ UNCHANGED <<boardVars, ram, isr, refused, web>>
  BY DEF Next, PowerLoss, BootStep, Edge, GpioIsr, EventStep, EventReceive,
      EventBounced, EventDebounced, EventPanics, EventCopy, EventWrite,
      WebStep
<1>. QED
  BY <1>1, <1>2, <1>3, <1>4, <1>5, <1>6, <1>7, <1>8, <1>10, <1>11, <1>12, <1>13,
     <1>14, <1>15

(* However updates, events and publications interleave, the pin of every    *)
(* sensor at rest has its ISR, unless an update of the sensor was answered  *)
(* with an error (update_relay_post_handler, relay_sensor_register_isr).    *)
THEOREM IsrStays == Spec => []IsrOnPin
<1>1. Init => IsrInv
  BY DEF Init, IsrInv, IsrOnPin, NoRequest
<1>2. IsrInv => IsrOnPin
  BY DEF IsrInv
<1>. QED
  BY <1>1, <1>2, Typed, IsrStep, PTL DEF Spec

------------------------------------------------------------------------------
(* RAM and NVS.                                                             *)

(* Of a sensor without a failed or an overlapped save: at most one task is  *)
(* saving it, the copy that it has taken is what RAM holds, and when nobody *)
(* is saving, NVS holds the same.                                           *)
StoreOK(s) ==
  /\ ~(EventSaves(s) /\ WebSaves(s))
  /\ ~EventSaves(s) /\ ~WebSaves(s) => nvs[s] = Saved(ram[s])
  /\ evt.at = "write" /\ evt.sensor = s => evt.copy = Saved(ram[s])
  /\ web.at = "write" /\ web.sensor = s => web.copy = Saved(ram[s])

StoreInv == \A s \in Sensors \ unsaved : StoreOK(s)

LEMMA StoreStep == TypeOK /\ BootInv /\ StoreInv /\ [Next]_vars => StoreInv'
<1> SUFFICES ASSUME TypeOK, BootInv, StoreInv, [Next]_vars,
                    NEW s \in Sensors, s \notin unsaved'
             PROVE  StoreOK(s)'
  BY DEF StoreInv
<1> USE DEF StoreOK, EventSaves, WebSaves
<1>0. /\ ram \in [Sensors -> Sensor] /\ nvs \in [Sensors -> Record]
      /\ EvtType(evt) /\ WebType(web) /\ bootCh \in 0 .. N
  BY TypeParts
<1>s. s \notin unsaved => StoreOK(s)
  BY DEF StoreInv
<1>1. ASSUME ram' = [t \in Sensors |-> Loaded(nvs[t])], nvs' = nvs,
             evt' = Waiting, web' = NoRequest
      PROVE  StoreOK(s)'
  <2>1. Saved(ram'[s]) = nvs[s]
    BY <1>0, <1>1, SensorFacts
  <2>. QED
    BY <1>1, <2>1 DEF Waiting, NoRequest
<1>2. CASE Reset
  BY <1>1, <1>2 DEF Reset
<1>3. CASE LoadSensors
  BY <1>1, <1>3 DEF LoadSensors, BootInv
(* A step that leaves alone what is saved of s, and who saves it.           *)
<1>4. ASSUME Saved(ram'[s]) = Saved(ram[s]), s \notin unsaved,
             UNCHANGED nvs,
             UNCHANGED evt \/ (evt.at \notin {"copy", "write"} /\ evt'.at \notin {"copy", "write"}),
             UNCHANGED web \/ (web.at \notin {"copy", "write"} /\ web'.at \notin {"copy", "write"})
      PROVE  StoreOK(s)'
  BY <1>s, <1>4
<1>5. CASE BootRefresh
  <2>1. /\ evt.at = "receive" /\ web.at = "idle" /\ UNCHANGED <<evt, web>> /\ bootCh \in Sensors
    BY <1>0, <1>5 DEF BootRefresh, BootInv, Waiting, NoRequest
  <2>2. CASE s = bootCh
    <3>1. nvs' = [nvs EXCEPT ![s] = Saved(Refreshed(ram[s]))]
      BY <1>5, <2>2 DEF BootRefresh
    <3>2. ram'[s] = Refreshed(ram[s])
      BY <1>0, <1>5, <2>2 DEF BootRefresh
    <3>. QED
      BY <1>0, <2>1, <3>1, <3>2
  <2>3. CASE s # bootCh
    <3>1. ram'[s] = ram[s] /\ nvs'[s] = nvs[s] /\ s \notin unsaved
      BY <1>0, <1>5, <2>1, <2>3 DEF BootRefresh
    <3>. QED
      BY <1>s, <2>1, <3>1
  <2>. QED
    BY <2>2, <2>3
<1>6. CASE EventApply
  <2>1. /\ evt.sensor \in Sensors /\ evt \in [at : {"apply", "copy"}, event : Event, sensor : Sensors]
        /\ evt.at = "apply" /\ evt' = [evt EXCEPT !.at = "copy"]
        /\ Overlap(evt.sensor, WebSaves(evt.sensor))
        /\ UNCHANGED <<nvs, web>>
    BY <1>0, <1>6, EvtFacts DEF EventApply
  <2>2. evt'.at = "copy" /\ evt'.sensor = evt.sensor
    BY <2>1
  <2>3. CASE s = evt.sensor
    <3>1. ~WebSaves(s)
      BY <2>1, <2>3 DEF Overlap
    <3>. QED
      BY <2>1, <2>2, <2>3, <3>1
  <2>4. CASE s # evt.sensor
    <3>1. s \notin unsaved
      BY <2>1, <2>4 DEF Overlap
    <3>2. ram'[s] = ram[s]
      BY <1>0, <1>6, <2>4 DEF EventApply
    <3>. QED
      BY <1>s, <2>1, <2>2, <2>4, <3>1, <3>2
  <2>. QED
    BY <2>3, <2>4
<1>7. CASE EventCopy
  BY <1>s, <1>7 DEF EventCopy
<1>8. CASE EventWrite
  <2>1. evt.at = "write" /\ evt.sensor \in Sensors /\ UNCHANGED <<ram, web>>
        /\ evt'.at = "receive" /\ s \notin unsaved
    BY <1>0, <1>8, EvtFacts DEF EventWrite, Waiting
  <2>2. CASE s = evt.sensor
    <3>1. nvs'[s] = evt.copy
      BY <1>0, <1>8, <2>1, <2>2 DEF EventWrite
    <3>. QED
      BY <1>s, <2>1, <2>2, <3>1
  <2>3. CASE s # evt.sensor
    <3>1. nvs'[s] = nvs[s]
      BY <1>0, <1>8, <2>1, <2>3 DEF EventWrite
    <3>. QED
      BY <1>s, <2>1, <2>3, <3>1
  <2>. QED
    BY <2>2, <2>3
<1>9. ASSUME NEW t \in Sensors, NEW st \in States, NEW i \in BOOLEAN,
             NEW p \in SensorPins[t], WebEdit(t, p, st, i)
      PROVE  StoreOK(s)'
  <2>1. /\ web.at = "idle" /\ web'.at = "copy" /\ web'.sensor = t
        /\ UNCHANGED <<nvs, evt>> /\ Overlap(t, EventSaves(t))
    BY <1>9 DEF WebEdit
  <2>2. CASE s = t
    <3>1. ~EventSaves(s)
      BY <2>1, <2>2 DEF Overlap
    <3>. QED
      BY <2>1, <2>2, <3>1
  <2>3. CASE s # t
    <3>1. s \notin unsaved
      BY <2>1, <2>3 DEF Overlap
    <3>2. ram'[s] = ram[s]
      BY <1>0, <1>9, <2>3 DEF WebEdit
    <3>. QED
      BY <1>s, <2>1, <2>3, <3>1, <3>2
  <2>. QED
    BY <2>2, <2>3
<1>10. CASE WebCopy
  BY <1>s, <1>10 DEF WebCopy
<1>11. CASE WebWrite
  <2>1. web.at = "write" /\ web.sensor \in Sensors /\ UNCHANGED <<ram, evt>>
        /\ web'.at \notin {"copy", "write"} /\ s \notin unsaved
    BY <1>0, <1>11, WebFacts DEF WebWrite, NoRequest
  <2>2. CASE s = web.sensor
    <3>1. nvs'[s] = web.copy
      BY <1>0, <1>11, <2>1, <2>2 DEF WebWrite
    <3>. QED
      BY <1>s, <2>1, <2>2, <3>1
  <2>3. CASE s # web.sensor
    <3>1. nvs'[s] = nvs[s]
      BY <1>0, <1>11, <2>1, <2>3 DEF WebWrite
    <3>. QED
      BY <1>s, <2>1, <2>3, <3>1
  <2>. QED
    BY <2>2, <2>3
<1>12. CASE WebWriteFails
  <2>1. web.at = "write" /\ s # web.sensor /\ s \notin unsaved /\ UNCHANGED <<ram, nvs, evt>>
        /\ web'.at = "idle"
    BY <1>0, <1>12, WebFacts DEF WebWriteFails, NoRequest
  <2>. QED
    BY <1>s, <2>1
<1>13. ASSUME NEW t \in Sensors, ram' = [ram EXCEPT ![t].init = TRUE]
                               \/ ram' = [ram EXCEPT ![t].init = FALSE]
       PROVE  Saved(ram'[s]) = Saved(ram[s])
  <2>1. \A r \in Sensor, b \in BOOLEAN : Saved([r EXCEPT !.init = b]) = Saved(r)
    BY DEF Saved, Sensor
  <2>2. ram'[s] = ram[s] \/ \E b \in BOOLEAN : ram'[s] = [ram[s] EXCEPT !.init = b]
    BY <1>0, <1>13
  <2>. QED
    BY <1>0, <2>1, <2>2
<1>14. CASE WebGpioInit
  <2>1. web.sensor \in Sensors /\ web'.at = "isr"
    BY <1>0, <1>14, WebFacts DEF WebGpioInit
  <2>2. Saved(ram'[s]) = Saved(ram[s])
    BY <1>13, <1>14, <2>1 DEF WebGpioInit
  <2>. QED
    BY <1>4, <1>14, <2>1, <2>2 DEF WebGpioInit
<1>15. ASSUME NEW t \in Sensors, MqttDeinit(t) PROVE StoreOK(s)'
  <2>1. Saved(ram'[s]) = Saved(ram[s])
    BY <1>13, <1>15 DEF MqttDeinit
  <2>. QED
    BY <1>4, <1>15, <2>1 DEF MqttDeinit
<1>16. CASE WebRegisterIsr
  BY <1>4, <1>16 DEF WebRegisterIsr, NoRequest
<1>17. CASE EventReceive \/ EventBounced \/ EventDebounced
  BY <1>4, <1>17 DEF EventReceive, EventBounced, EventDebounced, Waiting
<1>18. CASE UNCHANGED <<ram, nvs, evt, web, unsaved>>
  BY <1>4, <1>18
<1>19. \/ Reset \/ LoadSensors \/ BootRefresh
       \/ EventApply \/ EventCopy \/ EventWrite
       \/ EventReceive \/ EventBounced \/ EventDebounced
       \/ \E t \in Sensors, st \in States, i \in BOOLEAN :
             \E p \in SensorPins[t] : WebEdit(t, p, st, i)
       \/ WebCopy \/ WebWrite \/ WebWriteFails \/ WebGpioInit \/ WebRegisterIsr
       \/ \E t \in Sensors : MqttDeinit(t)
       \/ UNCHANGED <<ram, nvs, evt, web, unsaved>>
  BY DEF Next, PowerLoss, BootStep, BootRegister, Edge, GpioIsr, EventStep,
      EventPanics, WebStep
<1>. QED
  BY <1>2, <1>3, <1>5, <1>6, <1>7, <1>8, <1>9, <1>10, <1>11, <1>12, <1>14, <1>15,
     <1>16, <1>17, <1>18, <1>19

(* When the event task and the web server are done with a sensor, NVS holds *)
(* what RAM holds, unless a save failed or two of them overlapped           *)
(* (save_relay_to_nvs, called by both without a lock).                      *)
THEOREM StoredWhenDone == Spec => []StoredAtRest
<1>1. Init => StoreInv
  <2> SUFFICES ASSUME Init, NEW s \in Sensors PROVE StoreOK(s)
    BY DEF StoreInv
  <2>1. nvs \in [Sensors -> Record]
    BY InitType, TypeParts
  <2>2. Saved(ram[s]) = nvs[s]
    BY <2>1, SensorFacts DEF Init
  <2>. QED
    BY <2>2 DEF Init, StoreOK, EventSaves, WebSaves, Waiting, NoRequest
<1>2. StoreInv => StoredAtRest
  BY DEF StoreInv, StoreOK, StoredAtRest
<1>. QED
  BY <1>1, <1>2, Typed, StoreStep, PTL DEF Spec

==============================================================================
