------------------------- MODULE RelayActuatorProofs -------------------------
(***************************************************************************)
(* Proofs about RelayActuator, for any number of actuators and pins, any   *)
(* assignment of web requests and MQTT commands to units, and any queue    *)
(* length.                                                                 *)
(***************************************************************************)
EXTENDS RelayActuator, TLAPS

USE NAssumption, PinsAssumption, TargetAssumption, NvsAssumption, QueueAssumption
USE DEF Units, Tasks, States, OFF, ON

(* TypeOK, strengthened to be inductive: bootCh has not passed the last     *)
(* channel while there is one to restore.  "ready" is left out, since the   *)
(* SMT solver does not take Boolean variables; its type is proved apart.    *)
DataTypeOK ==
  /\ phase \in {"init", "level", "load", "run"}
  /\ bootCh \in 0 .. N
  /\ ram \in [Units -> Unit]
  /\ nvs \in [Units -> Record]
  /\ mode \in [Pins -> {"floating", "output"}]
  /\ out \in [Pins -> {0, 1}]
  /\ pc \in [Tasks -> PCs]
  /\ job \in [Tasks -> Job]
  /\ pending \in 0 .. QueueLength
  /\ refused \in SUBSET Units /\ overlapped \in SUBSET Units
  /\ phase \in {"init", "level"} => bootCh < N

ReadyOK == ready \in BOOLEAN

------------------------------------------------------------------------------
(* Facts about the data.                                                   *)

LEMMA AnyPinIsPin == AnyPin \in Pins
<1>1. \E p \in Pins : TRUE
  <2>1. 0 \in Units
    OBVIOUS
  <2>. QED
    BY <2>1
<1>. QED
  BY <1>1 DEF AnyPin

(* What RAM and the tasks hold before boot has loaded anything is of its    *)
(* type.                                                                    *)
LEMMA BlankType ==
  /\ Blank \in [Units -> Unit]
  /\ NoJob \in Job
  /\ NoJobs \in [Tasks -> Job]
  /\ Idle \in [Tasks -> PCs]
  /\ Floating \in [Pins -> {"floating", "output"}]
  /\ Low \in [Pins -> {0, 1}]
  BY AnyPinIsPin
  DEF Blank, NoJob, NoJobs, Idle, Floating, Low, Loaded, NewRecord, Unit, Job,
      Record, PCs

(* What save_relay_to_nvs writes of a unit is a record. *)
LEMMA SavedType == \A r \in Unit : Saved(r) \in Record
  BY DEF Saved, Unit, Record

(* What is loaded of a record is a unit. *)
LEMMA LoadedType == \A r \in Record : Loaded(r) \in Unit
  BY DEF Loaded, Unit, Record

(* The level that stands for a state is one a pin can have. *)
LEMMA LevelType == \A s \in States, i \in BOOLEAN : LevelOf(s, i) \in {0, 1}
  BY DEF LevelOf

(* A restart of the chip leaves every variable in its domain. *)
LEMMA ResetType == DataTypeOK /\ Reset => DataTypeOK'
  BY BlankType DEF DataTypeOK, Reset

(* An update that is answered with an error changes no data but the locals  *)
(* of its task and "refused".                                               *)
LEMMA WebErrorType ==
  ASSUME NEW t \in Tasks, DataTypeOK, WebError(t),
         ram' \in [Units -> Unit], nvs' \in [Units -> Record]
  PROVE  DataTypeOK'
<1>1. job[t].unit \in Units
  BY DEF DataTypeOK, Job
<1>2. refused' \in SUBSET Units
  BY <1>1 DEF WebError, DataTypeOK
<1>3. pc' \in [Tasks -> PCs] /\ job' \in [Tasks -> Job]
  BY BlankType DEF WebError, DataTypeOK, Return, Goto, PCs
<1>. QED
  BY <1>2, <1>3 DEF WebError, DataTypeOK, boardVars, gpioVars, mqttVars

(* The two parts that are proved apart make up the type invariant. *)
LEMMA TypeOKParts == DataTypeOK /\ ReadyOK => TypeOK
  BY Zenon DEF ReadyOK, TypeOK, DataTypeOK

(* "ready" stays Boolean. *)
LEMMA ReadyType == ReadyOK /\ [Next]_vars => ReadyOK'
  BY Zenon
  DEF ReadyOK, Next, vars, PowerLoss, Reset, BootInit, BootLevel, LoadUnits, Requests,
      HttpEdit, MqttCommand, HttpCall, SetStateStep, CheckInit, GpioInit,
      GpioInitFails, SetLevel, SetLevelFails, SetState, GpioDeinit,
      TriggerPublish, CopyUnit, WriteNvs, WriteFails, WebError, Abort,
      MqttReady, MqttEventReceive, mqttVars

------------------------------------------------------------------------------
(* The initial states have the types. *)
LEMMA InitDataType == Init => DataTypeOK
<1> SUFFICES ASSUME Init PROVE DataTypeOK
  OBVIOUS
<1>1. PICK pin \in [Units -> Pins] : nvs = [u \in Units |-> NewRecord(pin[u])]
  BY DEF Init
<1>2. nvs \in [Units -> Record]
  BY <1>1 DEF NewRecord, Record
<1>. QED
  BY <1>2, BlankType DEF Init, DataTypeOK

(* Every step keeps the types: one step of the proof for each action. *)
LEMMA NextDataType == DataTypeOK /\ [Next]_vars => DataTypeOK'
<1> SUFFICES ASSUME DataTypeOK, [Next]_vars PROVE DataTypeOK'
  OBVIOUS
<1> USE DEF boardVars, gpioVars, mqttVars, history
<1>1. CASE PowerLoss
  BY <1>1, ResetType DEF PowerLoss
<1>2. CASE BootInit
  <2>1. bootCh \in 0 .. N - 1 /\ nvs[bootCh] \in Record
    BY <1>2 DEF DataTypeOK, BootInit
  <2>2. CASE /\ mode' = [mode EXCEPT ![nvs[bootCh].pin] = "output"]
             /\ phase' = "level"
             /\ UNCHANGED bootCh
    BY <1>2, <2>1, <2>2 DEF DataTypeOK, BootInit, Record
  <2>3. CASE NextChannel /\ UNCHANGED mode
    BY <1>2, <2>1, <2>3 DEF DataTypeOK, BootInit, NextChannel
  <2>. QED
    BY <1>2, <2>2, <2>3 DEF BootInit
<1>3. CASE BootLevel
  <2>1. bootCh \in 0 .. N - 1 /\ nvs[bootCh] \in Record
    BY <1>3 DEF DataTypeOK, BootLevel
  <2>2. LevelOf(nvs[bootCh].state, nvs[bootCh].inverted) \in {0, 1}
    BY <2>1, LevelType DEF Record
  <2>3. out' \in [Pins -> {0, 1}]
    BY <1>3, <2>1, <2>2 DEF DataTypeOK, BootLevel, Record
  <2>4. /\ phase' \in {"load", "init"} /\ bootCh' \in 0 .. N
        /\ phase' = "init" => bootCh' < N
    BY <1>3, <2>1 DEF BootLevel, NextChannel
  <2>. QED
    BY <1>3, <2>3, <2>4 DEF DataTypeOK, BootLevel
<1>4. CASE LoadUnits
  BY <1>4, LoadedType DEF DataTypeOK, LoadUnits
<1>5. CASE Requests
  <2>1. ASSUME NEW u \in HttpUnits, NEW s \in States, NEW i \in BOOLEAN,
               NEW p \in UnitPins[u], HttpEdit(u, p, s, i)
        PROVE DataTypeOK'
    <3>1. ram' \in [Units -> Unit]
      <4>1. u \in Units /\ p \in Pins /\ ram[u] \in Unit
        BY <2>1 DEF DataTypeOK
      <4>2. [ram[u] EXCEPT !.pin = p, !.state = s, !.inverted = i] \in Unit
        BY <4>1 DEF Unit
      <4>3. ram' = [ram EXCEPT ![u] =
                     [ram[u] EXCEPT !.pin = p, !.state = s, !.inverted = i]]
        BY <2>1, <4>1 DEF DataTypeOK, HttpEdit, Unit
      <4>. QED
        BY <4>1, <4>2, <4>3 DEF DataTypeOK
    <3>2. [NoJob EXCEPT !.unit = u] \in Job
      BY BlankType DEF Job
    <3>3. overlapped' \in SUBSET Units
      BY <2>1 DEF DataTypeOK, HttpEdit, Enter
    <3>4. pc' \in [Tasks -> PCs]
      BY <2>1 DEF DataTypeOK, HttpEdit, Goto, PCs
    <3>5. job' \in [Tasks -> Job]
      BY <2>1, <3>2 DEF DataTypeOK, HttpEdit
    <3>. QED
      BY <2>1, <3>1, <3>3, <3>4, <3>5 DEF DataTypeOK, HttpEdit
  <2>2. ASSUME NEW u \in CmdUnits, NEW s \in States, MqttCommand(u, s)
        PROVE DataTypeOK'
    <3>1. [NoJob EXCEPT !.unit = u, !.arg = s] \in Job
      BY <2>2, BlankType DEF Job
    <3>2. job' \in [Tasks -> Job]
      BY <2>2, <3>1 DEF DataTypeOK, MqttCommand
    <3>3. pc' \in [Tasks -> PCs]
      BY <2>2 DEF DataTypeOK, MqttCommand, Goto, PCs
    <3>4. overlapped' \in SUBSET Units
      BY <2>2 DEF DataTypeOK, MqttCommand, Enter
    <3>. QED
      BY <2>2, <3>2, <3>3, <3>4 DEF DataTypeOK, MqttCommand
  <2>. QED
    BY <1>5, <2>1, <2>2 DEF Requests
<1>6. CASE HttpCall
  <2>1. job["httpd"] \in Job /\ ram[job["httpd"].unit].state \in States
    BY DEF DataTypeOK, Job, Unit
  <2>2. job' \in [Tasks -> Job]
    BY <1>6, <2>1 DEF DataTypeOK, HttpCall, Job
  <2>3. pc' \in [Tasks -> PCs]
    BY <1>6 DEF DataTypeOK, HttpCall, Goto, PCs
  <2>. QED
    BY <1>6, <2>2, <2>3 DEF DataTypeOK, HttpCall
<1>7. ASSUME NEW t \in Tasks, SetStateStep(t)
      PROVE DataTypeOK'
  <2>0. job[t] \in Job /\ job[t].unit \in Units /\ ram[job[t].unit] \in Unit
    BY DEF DataTypeOK, Job
  <2>1. CASE CheckInit(t)
    BY <2>1 DEF DataTypeOK, CheckInit, Goto, PCs
  <2>2. CASE GpioInit(t)
    BY <2>2, <2>0 DEF DataTypeOK, GpioInit, Goto, PCs, Unit, Job
  <2>3. CASE GpioInitFails(t)
    <3>1. CASE WebError(t) /\ UNCHANGED <<ram, nvs>>
      BY <3>1, <2>0, WebErrorType DEF DataTypeOK
    <3>. QED
      BY <2>3, <3>1, ResetType DEF GpioInitFails, Abort
  <2>4. CASE SetLevel(t)
    <3>1. LevelOf(job[t].arg, ram[job[t].unit].inverted) \in {0, 1}
      BY <2>0, LevelType DEF Job, Unit
    <3>. QED
      BY <2>4, <2>0, <3>1 DEF DataTypeOK, SetLevel, Goto, PCs
  <2>5. CASE SetLevelFails(t)
    <3>1. CASE /\ WebError(t)
               /\ ram' = [ram EXCEPT ![job[t].unit].init = FALSE]
               /\ UNCHANGED nvs
      <4>1. ram' \in [Units -> Unit]
        BY <3>1, <2>0 DEF DataTypeOK, Unit
      <4>. QED
        BY <4>1, <3>1, <2>0, WebErrorType DEF DataTypeOK
    <3>. QED
      BY <2>5, <3>1, ResetType DEF SetLevelFails, Abort
  <2>6. CASE SetState(t)
    BY <2>6, <2>0 DEF DataTypeOK, SetState, Goto, PCs, Unit, Job
  <2>7. CASE GpioDeinit(t)
    BY <2>7, <2>0 DEF DataTypeOK, GpioDeinit, Goto, PCs, Unit
  <2>8. CASE TriggerPublish(t)
    BY <2>8 DEF DataTypeOK, TriggerPublish, Goto, PCs
  <2>9. CASE CopyUnit(t)
    BY <2>9, <2>0, SavedType DEF DataTypeOK, CopyUnit, Goto, PCs, Job
  <2>10. CASE WriteNvs(t)
    <3>1. job[t].copy \in Record
      BY <2>0 DEF Job
    <3>. QED
      BY <2>10, <2>0, <3>1, BlankType DEF DataTypeOK, WriteNvs, Return, Goto, PCs
  <2>11. CASE WriteFails(t)
    <3>1. CASE WebError(t) /\ UNCHANGED <<ram, nvs>>
      BY <3>1, <2>0, WebErrorType DEF DataTypeOK
    <3>. QED
      BY <2>11, <3>1, ResetType DEF WriteFails, Abort
  <2>. QED
    BY <1>7, <2>1, <2>2, <2>3, <2>4, <2>5, <2>6, <2>7, <2>8, <2>9, <2>10, <2>11
    DEF SetStateStep
<1>8. CASE MqttReady
  BY <1>8 DEF DataTypeOK, MqttReady
<1>9. CASE MqttEventReceive
  BY <1>9 DEF DataTypeOK, MqttEventReceive
<1>10. CASE UNCHANGED vars
  BY <1>10 DEF DataTypeOK, vars
<1>. QED
  BY <1>1, <1>2, <1>3, <1>4, <1>5, <1>6, <1>7, <1>8, <1>9, <1>10 DEF Next

(* The variables keep their types; in particular the number of events in    *)
(* mqtt_event_queue never exceeds its length.                               *)
THEOREM TypeCorrect == Spec => []TypeOK
<1>1. Init => DataTypeOK /\ ReadyOK
  <2>1. Init => ReadyOK
    BY Zenon DEF Init, ReadyOK
  <2>. QED
    BY <2>1, InitDataType
<1>. QED
  BY <1>1, NextDataType, ReadyType, TypeOKParts, PTL DEF Spec

------------------------------------------------------------------------------
(* The safety properties.  They are not inductive by themselves: what a     *)
(* unit at rest shows depends on how far the task that worked on it had     *)
(* got, and on nobody else having worked on it.  Inv below says that.       *)


(* What the boot has done so far.                                           *)
BootInv ==
  /\ phase # "run" => \A t \in Tasks : pc[t] = "idle"
  /\ phase = "load" => bootCh = N
  /\ phase = "level" => mode[nvs[bootCh].pin] = "output"
  /\ RestoredAtBoot

(* A unit only ever has one of its own pins, wherever its record is kept.   *)
PinInv ==
  \A u \in Units :
     /\ nvs[u].pin \in UnitPins[u]
     /\ phase = "run" => ram[u].pin \in UnitPins[u]
     /\ \A t \in Tasks :
           pc[t] = "write" /\ job[t].unit = u => job[t].copy.pin \in UnitPins[u]

Works(t, u) == pc[t] # "idle" /\ job[t].unit = u

(* A raised gpio_initialized flag belongs to the task that raised it.       *)
Holds(t, u) ==
  Works(t, u) /\ pc[t] \in {"level", "state", "deinit"} /\ job[t].made
FlagInv == \A u \in Units : ram[u].init => \E t \in Tasks : Holds(t, u)

(* A unit that two tasks are switching is recorded as overlapped.           *)
OverlapInv ==
  \A u \in Units : \A t1, t2 \in Tasks :
     Works(t1, u) /\ Works(t2, u) /\ t1 # t2 => u \in overlapped

(* How far a task that is alone on a unit has got with it.                  *)
Progress(t, u) ==
  /\ pc[t] = "level" => mode[ram[u].pin] = "output"
  /\ pc[t] = "state" => /\ mode[ram[u].pin] = "output"
                        /\ out[ram[u].pin] = LevelOf(job[t].arg, ram[u].inverted)
  /\ pc[t] \in {"deinit", "publish", "copy", "write"} => OnLine(ram[u])
  /\ pc[t] = "write" => job[t].copy = Saved(ram[u])
WorkInv ==
  \A u \in Units : \A t \in Tasks :
     Works(t, u) /\ u \notin overlapped => Progress(t, u)

RestInv == PinShowsStateUndisturbed /\ StateIsStored

Inv == BootInv /\ PinInv /\ FlagInv /\ OverlapInv /\ WorkInv /\ RestInv

------------------------------------------------------------------------------
(* gpio_initialized.                                                        *)

LEMMA FlagStep == DataTypeOK /\ FlagInv /\ [Next]_vars => FlagInv'
<1> SUFFICES ASSUME DataTypeOK, FlagInv, [Next]_vars PROVE FlagInv'
  OBVIOUS
<1> USE DEF boardVars, gpioVars, mqttVars, history, FlagInv, Holds, Works
<1>1. ASSUME Reset PROVE FlagInv'
  BY <1>1 DEF Reset, Blank, Loaded
<1>2. CASE BootInit
  BY <1>2 DEF BootInit
<1>3. CASE BootLevel
  BY <1>3 DEF BootLevel
<1>4. CASE LoadUnits
  BY <1>4 DEF LoadUnits, Loaded
<1>5. CASE Requests
  <2>1. ASSUME NEW u \in HttpUnits, NEW s \in States, NEW i \in BOOLEAN,
               NEW p \in UnitPins[u], HttpEdit(u, p, s, i)
        PROVE FlagInv'
    BY <2>1 DEF HttpEdit, Goto, DataTypeOK, Unit
  <2>2. ASSUME NEW u \in CmdUnits, NEW s \in States, MqttCommand(u, s)
        PROVE FlagInv'
    BY <2>2 DEF MqttCommand, Goto, DataTypeOK
  <2>. QED
    BY <1>5, <2>1, <2>2 DEF Requests
<1>6. CASE HttpCall
  <2>1. /\ pc["httpd"] = "call" /\ ram' = ram
        /\ \A t \in Tasks : t # "httpd" => pc'[t] = pc[t] /\ job'[t] = job[t]
    BY <1>6 DEF HttpCall, Goto, DataTypeOK
  <2>. QED
    BY <2>1
<1>7. ASSUME NEW t \in Tasks, SetStateStep(t)
      PROVE FlagInv'
  <2>0. job[t] \in Job /\ job[t].unit \in Units
    BY DEF DataTypeOK, Job
  <2>1. CASE CheckInit(t)
    BY <2>1, <2>0 DEF CheckInit, Goto, DataTypeOK
  <2>2. CASE GpioInit(t)
    BY <2>2, <2>0 DEF GpioInit, Goto, DataTypeOK, Unit, Job
  <2>3. CASE GpioInitFails(t)
    <3>1. CASE Abort(t)
      BY <3>1, <1>1 DEF Abort
    <3>2. CASE WebError(t) /\ ram' = ram
      <4>1. /\ pc[t] = "config"
            /\ \A t1 \in Tasks : t1 # t => pc'[t1] = pc[t1] /\ job'[t1] = job[t1]
        BY <2>3, <3>2 DEF GpioInitFails, WebError, Return, Goto, DataTypeOK
      <4>2. ASSUME NEW u \in Units, ram'[u].init
            PROVE  \E t1 \in Tasks : Holds(t1, u)'
        <5>1. PICK t1 \in Tasks : Holds(t1, u)
          BY <3>2, <4>2
        <5>. QED
          BY <4>1, <5>1
      <4>. QED
        BY <4>2
    <3>. QED
      BY <2>3, <3>1, <3>2 DEF GpioInitFails
  <2>4. CASE SetLevel(t)
    <3>1. /\ ram' = ram /\ job' = job /\ pc[t] = "level" /\ pc'[t] = "state"
          /\ \A t1 \in Tasks : t1 # t => pc'[t1] = pc[t1]
      BY <2>4 DEF SetLevel, Goto, DataTypeOK
    <3>2. ASSUME NEW u \in Units, ram'[u].init
          PROVE  \E t1 \in Tasks : Holds(t1, u)'
      <4>1. PICK t1 \in Tasks : Holds(t1, u)
        BY <3>1, <3>2
      <4>2. CASE t1 = t
        BY <3>1, <4>1, <4>2
      <4>3. CASE t1 # t
        BY <3>1, <4>1, <4>3
      <4>. QED
        BY <4>2, <4>3
    <3>. QED
      BY <3>2
  <2>5. CASE SetLevelFails(t)
    <3>1. CASE Abort(t)
      BY <3>1, <1>1 DEF Abort
    <3>2. CASE /\ WebError(t)
               /\ ram' = [ram EXCEPT ![job[t].unit].init = FALSE]
      <4>1. /\ \A t1 \in Tasks : t1 # t => pc'[t1] = pc[t1] /\ job'[t1] = job[t1]
            /\ \A u \in Units : u # job[t].unit => ram'[u] = ram[u]
            /\ ~ram'[job[t].unit].init
        BY <3>2, <2>0 DEF WebError, Return, Goto, DataTypeOK, Unit
      <4>2. ASSUME NEW u \in Units, ram'[u].init
            PROVE  \E t1 \in Tasks : Holds(t1, u)'
        <5>1. u # job[t].unit /\ ram[u].init
          BY <4>1, <4>2
        <5>2. PICK t1 \in Tasks : Holds(t1, u)
          BY <5>1
        <5>3. t1 # t
          BY <5>1, <5>2
        <5>. QED
          BY <4>1, <5>2, <5>3
      <4>. QED
        BY <4>2
    <3>. QED
      BY <2>5, <3>1, <3>2 DEF SetLevelFails
  <2>6. CASE SetState(t)
    BY <2>6, <2>0 DEF SetState, Goto, DataTypeOK, Unit
  <2>7. CASE GpioDeinit(t)
    <3>1. /\ job' = job
          /\ \A t1 \in Tasks : t1 # t => pc'[t1] = pc[t1]
          /\ \A u \in Units : u # job[t].unit => ram'[u] = ram[u]
      BY <2>7, <2>0 DEF GpioDeinit, Goto, DataTypeOK
    <3>2. ram'[job[t].unit].init => ram[job[t].unit].init /\ ~job[t].made
      <4>1. ram[job[t].unit] \in Unit
        BY <2>0 DEF DataTypeOK
      <4>2. ram'[job[t].unit].init = (ram[job[t].unit].init /\ ~job[t].made)
        BY <2>7, <2>0, <4>1 DEF GpioDeinit, DataTypeOK, Unit
      <4>. QED
        BY <4>2
    <3>3. ASSUME NEW u \in Units, ram'[u].init
          PROVE  \E t1 \in Tasks : Holds(t1, u)'
      <4>1. PICK t1 \in Tasks : Holds(t1, u)
        BY <3>1, <3>2, <3>3
      <4>2. t1 # t
        BY <4>1, <3>2, <3>3
      <4>. QED
        BY <4>1, <4>2, <3>1
    <3>. QED
      BY <3>3
  <2>8. CASE TriggerPublish(t)
    BY <2>8, <2>0 DEF TriggerPublish, Goto, DataTypeOK
  <2>9. CASE CopyUnit(t)
    BY <2>9, <2>0 DEF CopyUnit, Goto, DataTypeOK, Job
  <2>10. CASE WriteNvs(t)
    BY <2>10, <2>0 DEF WriteNvs, Return, Goto, DataTypeOK
  <2>11. CASE WriteFails(t)
    <3>1. CASE Abort(t)
      BY <3>1, <1>1 DEF Abort
    <3>2. CASE WebError(t) /\ UNCHANGED <<ram, nvs>>
      BY <3>2, <2>11, <2>0 DEF WriteFails, WebError, Return, Goto, DataTypeOK
    <3>. QED
      BY <2>11, <3>1, <3>2 DEF WriteFails
  <2>. QED
    BY <1>7, <2>1, <2>2, <2>3, <2>4, <2>5, <2>6, <2>7, <2>8, <2>9, <2>10, <2>11
    DEF SetStateStep
<1>8. CASE MqttReady
  BY <1>8 DEF MqttReady
<1>9. CASE MqttEventReceive
  BY <1>9 DEF MqttEventReceive
<1>10. CASE UNCHANGED vars
  BY <1>10 DEF vars
<1>. QED
  BY <1>1, <1>2, <1>3, <1>4, <1>5, <1>6, <1>7, <1>8, <1>9, <1>10 DEF Next, PowerLoss

------------------------------------------------------------------------------
(* What one step of a task leaves alone.                                    *)

Frame(t) ==
  /\ phase' = phase /\ bootCh' = bootCh /\ overlapped' = overlapped
  /\ \A t1 \in Tasks : t1 # t => pc'[t1] = pc[t1] /\ job'[t1] = job[t1]
  /\ \A u \in Units : u # job[t].unit =>
        /\ ram'[u] = ram[u] /\ nvs'[u] = nvs[u]
        /\ u \in refused' <=> u \in refused
  /\ ram'[job[t].unit].pin = ram[job[t].unit].pin
  /\ \A p \in Pins : p # ram[job[t].unit].pin =>
        mode'[p] = mode[p] /\ out'[p] = out[p]
  /\ pc[t] # "idle"
  /\ pc'[t] # "idle" => job'[t].unit = job[t].unit

(* An update that is answered with an error keeps to its own unit. *)
LEMMA WebErrorFrame ==
  ASSUME NEW t \in Tasks, DataTypeOK, WebError(t), pc[t] # "idle",
         nvs' = nvs,
         \A u \in Units : u # job[t].unit => ram'[u] = ram[u],
         ram'[job[t].unit].pin = ram[job[t].unit].pin
  PROVE  Frame(t)
  BY DEF Frame, WebError, Return, Goto, boardVars, gpioVars, mqttVars, DataTypeOK

(* Every step of relay_set_state is a frame, or restarts the chip. *)
LEMMA StepFrame ==
  ASSUME NEW t \in Tasks, DataTypeOK, SetStateStep(t)
  PROVE  Reset \/ Frame(t)
<1> USE DEF boardVars, gpioVars, mqttVars, history
<1>0. job[t] \in Job /\ job[t].unit \in Units /\ ram[job[t].unit] \in Unit
  BY DEF DataTypeOK, Job
<1>1. CASE CheckInit(t)
  BY <1>1, <1>0 DEF CheckInit, Goto, DataTypeOK, Frame
<1>2. CASE GpioInit(t)
  BY <1>2, <1>0 DEF GpioInit, Goto, DataTypeOK, Unit, Job, Frame
<1>3. CASE GpioInitFails(t)
  BY <1>3, <1>0, WebErrorFrame DEF GpioInitFails, Abort
<1>4. CASE SetLevel(t)
  BY <1>4, <1>0 DEF SetLevel, Goto, DataTypeOK, Frame
<1>5. CASE SetLevelFails(t)
  <2>1. CASE /\ WebError(t)
             /\ ram' = [ram EXCEPT ![job[t].unit].init = FALSE]
             /\ UNCHANGED nvs
    <3>1. pc[t] # "idle"
      BY <1>5 DEF SetLevelFails
    <3>2. /\ \A u \in Units : u # job[t].unit => ram'[u] = ram[u]
          /\ ram'[job[t].unit].pin = ram[job[t].unit].pin
      BY <2>1, <1>0 DEF DataTypeOK, Unit
    <3>. QED
      BY <2>1, <3>1, <3>2, WebErrorFrame
  <2>. QED
    BY <1>5, <2>1 DEF SetLevelFails, Abort
<1>6. CASE SetState(t)
  BY <1>6, <1>0 DEF SetState, Goto, DataTypeOK, Unit, Frame
<1>7. CASE GpioDeinit(t)
  BY <1>7, <1>0 DEF GpioDeinit, Goto, DataTypeOK, Unit, Frame
<1>8. CASE TriggerPublish(t)
  BY <1>8, <1>0 DEF TriggerPublish, Goto, DataTypeOK, Frame
<1>9. CASE CopyUnit(t)
  BY <1>9, <1>0 DEF CopyUnit, Goto, DataTypeOK, Job, Frame
<1>10. CASE WriteNvs(t)
  BY <1>10, <1>0 DEF WriteNvs, Return, Goto, DataTypeOK, Frame
<1>11. CASE WriteFails(t)
  BY <1>11, <1>0, WebErrorFrame DEF WriteFails, Abort
<1>. QED
  BY <1>1, <1>2, <1>3, <1>4, <1>5, <1>6, <1>7, <1>8, <1>9, <1>10, <1>11
  DEF SetStateStep

------------------------------------------------------------------------------
(* overlapped.                                                              *)

LEMMA OverlapStep == DataTypeOK /\ OverlapInv /\ [Next]_vars => OverlapInv'
<1> SUFFICES ASSUME DataTypeOK, OverlapInv, [Next]_vars PROVE OverlapInv'
  OBVIOUS
<1> USE DEF boardVars, gpioVars, mqttVars, history, OverlapInv, Works
<1>1. ASSUME Reset PROVE OverlapInv'
  BY <1>1 DEF Reset, Idle
<1>2. CASE BootInit \/ BootLevel \/ LoadUnits
  BY <1>2 DEF BootInit, BootLevel, LoadUnits
<1>3. CASE Requests
  <2>1. ASSUME NEW u \in HttpUnits, NEW s \in States, NEW i \in BOOLEAN,
               NEW p \in UnitPins[u], HttpEdit(u, p, s, i)
        PROVE OverlapInv'
    BY <2>1, BlankType DEF HttpEdit, Goto, Enter, Busy, DataTypeOK, Job
  <2>2. ASSUME NEW u \in CmdUnits, NEW s \in States, MqttCommand(u, s)
        PROVE OverlapInv'
    BY <2>2, BlankType DEF MqttCommand, Goto, Enter, Busy, DataTypeOK, Job
  <2>. QED
    BY <1>3, <2>1, <2>2 DEF Requests
<1>4. CASE HttpCall
  BY <1>4 DEF HttpCall, Goto, DataTypeOK, Job
<1>5. ASSUME NEW t \in Tasks, SetStateStep(t)
      PROVE OverlapInv'
  <2>1. CASE Frame(t)
    BY <2>1 DEF Frame
  <2>. QED
    BY <1>1, <1>5, <2>1, StepFrame
<1>6. CASE MqttReady \/ MqttEventReceive
  BY <1>6 DEF MqttReady, MqttEventReceive
<1>7. CASE UNCHANGED vars
  BY <1>7 DEF vars
<1>. QED
  BY <1>1, <1>2, <1>3, <1>4, <1>5, <1>6, <1>7 DEF Next, PowerLoss

------------------------------------------------------------------------------
(* Pins and the boot.                                                       *)

USE NAssumption, PinsAssumption, TargetAssumption
USE DEF Units, Tasks

(* No step gives a unit the pin of another. *)
LEMMA PinStep == DataTypeOK /\ BootInv /\ PinInv /\ [Next]_vars => PinInv'
<1> SUFFICES ASSUME DataTypeOK, BootInv, PinInv, [Next]_vars PROVE PinInv'
  OBVIOUS
<1> USE DEF boardVars, gpioVars, mqttVars, history, PinInv
<1>1. ASSUME Reset PROVE PinInv'
  BY <1>1 DEF Reset, Idle
<1>2. CASE BootInit \/ BootLevel
  BY <1>2 DEF BootInit, BootLevel, NextChannel
<1>3. CASE LoadUnits
  BY <1>3 DEF LoadUnits, Loaded
<1>4. CASE Requests
  <2>1. ASSUME NEW u \in HttpUnits, NEW s \in States, NEW i \in BOOLEAN,
               NEW p \in UnitPins[u], HttpEdit(u, p, s, i)
        PROVE PinInv'
    BY <2>1 DEF HttpEdit, Goto, DataTypeOK, Unit
  <2>2. ASSUME NEW u \in CmdUnits, NEW s \in States, MqttCommand(u, s)
        PROVE PinInv'
    BY <2>2 DEF MqttCommand, Goto, DataTypeOK
  <2>. QED
    BY <1>4, <2>1, <2>2 DEF Requests
<1>5. CASE HttpCall
  BY <1>5 DEF HttpCall, Goto, DataTypeOK, Job
<1>6. ASSUME NEW t \in Tasks, SetStateStep(t)
      PROVE PinInv'
  <2>0. job[t] \in Job /\ job[t].unit \in Units
    BY DEF DataTypeOK, Job
  <2>1. CASE Frame(t)
    <3>1. phase = "run"
      BY <2>1 DEF Frame, BootInv
    <3>2. \A u \in Units : ram'[u].pin \in UnitPins[u]
      BY <2>0, <2>1, <3>1 DEF Frame
    <3>3. CASE WriteNvs(t)
      <4>1. nvs'[job[t].unit] = job[t].copy /\ pc[t] = "write" /\ pc'[t] = "idle"
        BY <3>3, <2>0 DEF WriteNvs, Return, Goto, DataTypeOK
      <4>. QED
        BY <2>0, <2>1, <3>2, <4>1 DEF Frame
    <3>4. CASE CopyUnit(t)
      <4>1. /\ nvs' = nvs
            /\ job'[t].copy.pin = ram[job[t].unit].pin
            /\ job'[t].unit = job[t].unit
        BY <3>4, <2>0 DEF CopyUnit, Saved, DataTypeOK, Job
      <4>. QED
        BY <2>0, <2>1, <3>1, <3>2, <4>1 DEF Frame
    <3>5. CASE ~WriteNvs(t) /\ ~CopyUnit(t)
      <4>1. nvs' = nvs \/ Reset
        BY <1>6, <3>5
        DEF SetStateStep, CheckInit, GpioInit, GpioInitFails, SetLevel,
            SetLevelFails, SetState, GpioDeinit, TriggerPublish, WriteFails, Abort
      <4>2. pc'[t] # "write" \/ Reset
        BY <1>6, <3>5
        DEF SetStateStep, CheckInit, GpioInit, GpioInitFails, SetLevel,
            SetLevelFails, SetState, GpioDeinit, TriggerPublish, WriteFails,
            Abort, WebError, Return, Goto, DataTypeOK
      <4>. QED
        BY <1>1, <2>0, <2>1, <3>2, <4>1, <4>2 DEF Frame
    <3>. QED
      BY <3>3, <3>4, <3>5
  <2>. QED
    BY <1>1, <1>6, <2>1, StepFrame
<1>7. CASE MqttReady \/ MqttEventReceive
  BY <1>7 DEF MqttReady, MqttEventReceive
<1>8. CASE UNCHANGED vars
  BY <1>8 DEF vars
<1>. QED
  BY <1>1, <1>2, <1>3, <1>4, <1>5, <1>6, <1>7, <1>8 DEF Next, PowerLoss

(* Boot drives the stored states one channel after the other, and never     *)
(* undoes what it did for an earlier one.                                   *)
LEMMA BootStep ==
  ASSUME SeparatePins
  PROVE  DataTypeOK /\ PinInv /\ BootInv /\ [Next]_vars => BootInv'
<1> SUFFICES ASSUME DataTypeOK, PinInv, BootInv, [Next]_vars PROVE BootInv'
  OBVIOUS
<1> USE DEF boardVars, gpioVars, mqttVars, history, BootInv
<1>1. ASSUME Reset PROVE BootInv'
  <2>1. phase' = "init" /\ bootCh' = 0 /\ \A t \in Tasks : pc'[t] = "idle"
    BY <1>1 DEF Reset, Idle
  <2>2. \A u \in Units : ~(u < bootCh')
    BY <2>1
  <2>. QED
    BY <2>1, <2>2 DEF RestoredAtBoot
<1>2. CASE BootInit
  <2>0. bootCh \in Units /\ nvs[bootCh].pin \in Pins
    <3>1. bootCh \in 0 .. N - 1 /\ nvs[bootCh] \in Record
      BY <1>2 DEF BootInit, DataTypeOK
    <3>. QED
      BY <3>1 DEF Record
  <2>1. CASE /\ mode' = [mode EXCEPT ![nvs[bootCh].pin] = "output"]
             /\ phase' = "level"
             /\ UNCHANGED bootCh
    BY <1>2, <2>0, <2>1 DEF BootInit, RestoredAtBoot, OnLine, DataTypeOK, Record
  <2>2. CASE nvs[bootCh].pin \notin OutputPins /\ NextChannel /\ UNCHANGED mode
    <3>1. /\ bootCh' = bootCh + 1 /\ phase' \in {"init", "load"}
          /\ phase' = "load" => bootCh' = N
      BY <2>2 DEF NextChannel
    <3>2. nvs' = nvs /\ mode' = mode /\ out' = out /\ pc' = pc /\ phase = "init"
      BY <1>2, <2>2 DEF BootInit
    <3>3. \A u \in Units : u < bootCh' => u < bootCh \/ u = bootCh
      BY <2>0, <3>1
    <3>. QED
      BY <2>2, <3>1, <3>2, <3>3 DEF RestoredAtBoot, OnLine
  <2>. QED
    BY <1>2, <2>1, <2>2 DEF BootInit
<1>3. CASE BootLevel
  <2>0. /\ bootCh \in Units /\ nvs[bootCh].pin \in Pins
        /\ mode[nvs[bootCh].pin] = "output"
    <3>1. bootCh \in 0 .. N - 1 /\ nvs[bootCh] \in Record
      BY <1>3 DEF BootLevel, DataTypeOK
    <3>. QED
      BY <1>3, <3>1 DEF BootLevel, Record
  <2>1. /\ nvs' = nvs /\ mode' = mode /\ pc' = pc
        /\ out'[nvs[bootCh].pin] =
              LevelOf(nvs[bootCh].state, nvs[bootCh].inverted)
        /\ \A p \in Pins : p # nvs[bootCh].pin => out'[p] = out[p]
    BY <1>3, <2>0 DEF BootLevel, DataTypeOK
  <2>2. bootCh' = bootCh + 1 /\ phase' \in {"init", "load"}
    BY <1>3, <2>0 DEF BootLevel, NextChannel
  <2>3. phase' = "load" => bootCh' = N
    BY <1>3 DEF BootLevel, NextChannel
  <2>4. \A u \in Units : u # bootCh => nvs[u].pin # nvs[bootCh].pin
    BY <2>0 DEF SeparatePins, PinInv
  <2>5. RestoredAtBoot'
    <3> SUFFICES ASSUME NEW u \in Units, u < bootCh', nvs'[u].pin \in OutputPins
                 PROVE  OnLine(nvs[u])'
      BY DEF RestoredAtBoot
    <3>1. CASE u = bootCh
      BY <2>0, <2>1, <3>1 DEF OnLine
    <3>2. CASE u # bootCh
      <4>1. OnLine(nvs[u])
        <5>1. u < bootCh
          BY <2>0, <2>2, <3>2
        <5>. QED
          BY <1>3, <2>1, <5>1 DEF BootLevel, RestoredAtBoot
      <4>. QED
        BY <2>1, <2>4, <3>2, <4>1 DEF OnLine, DataTypeOK, Record
    <3>. QED
      BY <3>1, <3>2
  <2>. QED
    BY <1>3, <2>1, <2>2, <2>3, <2>5 DEF BootLevel
<1>4. CASE LoadUnits
  BY <1>4 DEF LoadUnits, RestoredAtBoot
<1>5. CASE Requests
  BY <1>5 DEF Requests, HttpEdit, MqttCommand, RestoredAtBoot
<1>6. CASE HttpCall
  BY <1>6 DEF HttpCall, RestoredAtBoot
<1>7. ASSUME NEW t \in Tasks, SetStateStep(t)
      PROVE BootInv'
  <2>1. CASE Frame(t)
    BY <2>1 DEF Frame, RestoredAtBoot
  <2>. QED
    BY <1>1, <1>7, <2>1, StepFrame
<1>8. CASE MqttReady
  BY <1>8 DEF MqttReady, RestoredAtBoot
<1>9. CASE MqttEventReceive
  BY <1>9 DEF MqttEventReceive, RestoredAtBoot, OnLine
<1>10. CASE UNCHANGED vars
  BY <1>10 DEF vars, RestoredAtBoot, OnLine
<1>. QED
  BY <1>1, <1>2, <1>3, <1>4, <1>5, <1>6, <1>7, <1>8, <1>9, <1>10
  DEF Next, PowerLoss

------------------------------------------------------------------------------
(* The work on a unit.                                                      *)

(* While the board runs, two units have two pins.                           *)
LEMMA PinsDiffer ==
  ASSUME SeparatePins, PinInv, phase = "run",
         NEW u \in Units, NEW v \in Units, u # v
  PROVE  ram[u].pin # ram[v].pin
  BY DEF SeparatePins, PinInv

(* A step of a task says nothing about the units it does not work on.       *)
LEMMA OthersFrame ==
  ASSUME SeparatePins, PinInv, BootInv, DataTypeOK, NEW t \in Tasks, Frame(t),
         NEW u \in Units, u # job[t].unit
  PROVE  /\ ram'[u] = ram[u] /\ nvs'[u] = nvs[u]
         /\ u \in refused' <=> u \in refused
         /\ mode'[ram[u].pin] = mode[ram[u].pin]
         /\ out'[ram[u].pin] = out[ram[u].pin]
         /\ \A t1 \in Tasks : Works(t1, u)' <=> Works(t1, u)
         /\ \A t1 \in Tasks :
               Works(t1, u) => pc'[t1] = pc[t1] /\ job'[t1] = job[t1]
<1>1. phase = "run" /\ job[t].unit \in Units
  BY DEF Frame, BootInv, DataTypeOK, Job
<1>2. ram[u].pin # ram[job[t].unit].pin /\ ram[u].pin \in Pins
  <2>1. ram[u] \in Unit
    BY DEF DataTypeOK
  <2>. QED
    BY <1>1, <2>1, PinsDiffer DEF Unit
<1>. QED
  BY <1>1, <1>2 DEF Frame, Works

(* What a task that is alone on a unit has achieved, nobody else undoes. *)
LEMMA WorkStep ==
  ASSUME SeparatePins
  PROVE  /\ DataTypeOK /\ PinInv /\ BootInv /\ FlagInv /\ OverlapInv /\ WorkInv
         /\ [Next]_vars
         => WorkInv'
<1> SUFFICES ASSUME DataTypeOK, PinInv, BootInv, FlagInv, OverlapInv, WorkInv,
                    [Next]_vars
             PROVE  WorkInv'
  OBVIOUS
<1> USE DEF boardVars, gpioVars, mqttVars, history
<1>1. ASSUME Reset PROVE WorkInv'
  BY <1>1 DEF Reset, Idle, WorkInv, Works
<1>2. CASE BootInit \/ BootLevel \/ LoadUnits
  <2>1. \A t \in Tasks : pc'[t] = "idle"
    BY <1>2 DEF BootInit, BootLevel, LoadUnits, BootInv
  <2>. QED
    BY <2>1 DEF WorkInv, Works
<1>3. CASE Requests
  <2>1. ASSUME NEW v \in HttpUnits, NEW s \in States, NEW i \in BOOLEAN,
               NEW p \in UnitPins[v], HttpEdit(v, p, s, i)
        PROVE WorkInv'
    <3> SUFFICES ASSUME NEW u \in Units, NEW t \in Tasks, Works(t, u)',
                        u \notin overlapped'
                 PROVE  Progress(t, u)'
      BY DEF WorkInv
    <3>1. /\ pc'["httpd"] = "call" /\ pc'["mqtt_cmd"] = pc["mqtt_cmd"]
          /\ job'["httpd"].unit = v /\ job'["mqtt_cmd"] = job["mqtt_cmd"]
          /\ mode' = mode /\ out' = out
          /\ \A w \in Units : w # v => ram'[w] = ram[w]
      BY <2>1, BlankType DEF HttpEdit, Goto, DataTypeOK, Job
    <3>2. CASE t = "httpd"
      BY <3>1, <3>2 DEF Progress
    <3>3. CASE t = "mqtt_cmd"
      <4>1. Works(t, u)
        BY <3>1, <3>3 DEF Works
      <4>2. u # v /\ u \notin overlapped
        BY <2>1, <4>1, <3>3 DEF HttpEdit, Enter, Busy, Works
      <4>. QED
        BY <3>1, <3>3, <4>1, <4>2 DEF WorkInv, Progress, OnLine
    <3>. QED
      BY <3>2, <3>3
  <2>2. ASSUME NEW v \in CmdUnits, NEW s \in States, MqttCommand(v, s)
        PROVE WorkInv'
    <3> SUFFICES ASSUME NEW u \in Units, NEW t \in Tasks, Works(t, u)',
                        u \notin overlapped'
                 PROVE  Progress(t, u)'
      BY DEF WorkInv
    <3>1. /\ pc'["mqtt_cmd"] = "init" /\ pc'["httpd"] = pc["httpd"]
          /\ job'["mqtt_cmd"].unit = v /\ job'["httpd"] = job["httpd"]
          /\ mode' = mode /\ out' = out /\ ram' = ram
      BY <2>2, BlankType DEF MqttCommand, Goto, DataTypeOK, Job
    <3>2. CASE t = "mqtt_cmd"
      BY <3>1, <3>2 DEF Progress
    <3>3. CASE t = "httpd"
      <4>1. Works(t, u)
        BY <3>1, <3>3 DEF Works
      <4>2. u # v /\ u \notin overlapped
        BY <2>2, <4>1, <3>3 DEF MqttCommand, Enter, Busy, Works
      <4>. QED
        BY <3>1, <3>3, <4>1, <4>2 DEF WorkInv, Progress, OnLine
    <3>. QED
      BY <3>2, <3>3
  <2>. QED
    BY <1>3, <2>1, <2>2 DEF Requests
<1>4. CASE HttpCall
  <2> SUFFICES ASSUME NEW u \in Units, NEW t \in Tasks, Works(t, u)',
                      u \notin overlapped'
               PROVE  Progress(t, u)'
    BY DEF WorkInv
  <2>1. /\ pc'["httpd"] = "init" /\ pc'["mqtt_cmd"] = pc["mqtt_cmd"]
        /\ job'["mqtt_cmd"] = job["mqtt_cmd"]
        /\ mode' = mode /\ out' = out /\ ram' = ram /\ overlapped' = overlapped
    BY <1>4 DEF HttpCall, Goto, DataTypeOK
  <2>2. CASE t = "httpd"
    BY <2>1, <2>2 DEF Progress
  <2>3. CASE t = "mqtt_cmd"
    BY <2>1, <2>3 DEF WorkInv, Works, Progress, OnLine
  <2>. QED
    BY <2>2, <2>3
<1>5. ASSUME NEW t \in Tasks, SetStateStep(t), Frame(t)
      PROVE WorkInv'
  <2>a. PICK v \in Units : v = job[t].unit
    BY DEF DataTypeOK, Job
  <2>0. /\ v \in Units /\ v = job[t].unit
        /\ job[t] \in Job /\ ram[v] \in Unit /\ ram[v].pin \in Pins
    BY <2>a DEF DataTypeOK, Job, Unit
  <2>1. ASSUME NEW u \in Units, NEW t1 \in Tasks, Works(t1, u)',
               u \notin overlapped', u # v
        PROVE  Progress(t1, u)'
    <3>1. Works(t1, u) /\ u \notin overlapped
      BY <1>5, <2>0, <2>1, OthersFrame DEF Frame
    <3>. QED
      BY <1>5, <2>0, <2>1, <3>1, OthersFrame DEF WorkInv, Progress, OnLine
  <2>2. ASSUME NEW t1 \in Tasks, Works(t1, v)', v \notin overlapped', t1 # t
        PROVE  FALSE
    BY <1>5, <2>0, <2>2 DEF Frame, OverlapInv, Works
  <2>3. ASSUME pc'[t] # "idle", v \notin overlapped
        PROVE  Progress(t, v)'
    <3>0. Works(t, v) /\ Progress(t, v)
      BY <1>5, <2>0, <2>3 DEF Frame, Works, WorkInv
    <3>1. CASE CheckInit(t)
      <4>1. ~ram[v].init
        <5> SUFFICES ASSUME ram[v].init PROVE FALSE
          OBVIOUS
        <5>1. PICK t1 \in Tasks : Holds(t1, v)
          BY <2>0 DEF FlagInv
        <5>2. t1 # t
          BY <3>1, <5>1 DEF CheckInit, Holds
        <5>. QED
          BY <2>0, <2>3, <3>0, <5>1, <5>2 DEF OverlapInv, Holds
      <4>2. pc'[t] = "config"
        BY <2>0, <3>1, <4>1 DEF CheckInit, Goto, DataTypeOK
      <4>. QED
        BY <4>2 DEF Progress
    <3>2. CASE GpioInit(t)
      <4>1. pc'[t] = "level"
        BY <3>2 DEF GpioInit, Goto, DataTypeOK
      <4>2. mode'[ram[v].pin] = "output"
        BY <3>2, <2>0 DEF GpioInit, DataTypeOK
      <4>. QED
        BY <1>5, <2>0, <4>1, <4>2 DEF Progress, Frame
    <3>3. CASE SetLevel(t)
      <4>1. /\ pc[t] = "level" /\ pc'[t] = "state"
            /\ mode' = mode /\ ram' = ram /\ job' = job
            /\ out'[ram[v].pin] = LevelOf(job[t].arg, ram[v].inverted)
        BY <3>3, <2>0 DEF SetLevel, Goto, DataTypeOK
      <4>. QED
        BY <3>0, <4>1 DEF Progress
    <3>4. CASE SetState(t)
      <4>1. /\ pc[t] = "state" /\ pc'[t] = "deinit"
            /\ mode' = mode /\ out' = out
        BY <3>4 DEF SetState, Goto, DataTypeOK
      <4>2. /\ ram'[v].pin = ram[v].pin /\ ram'[v].inverted = ram[v].inverted
            /\ ram'[v].state = job[t].arg
        BY <3>4, <2>0 DEF SetState, DataTypeOK, Unit
      <4>. QED
        BY <3>0, <4>1, <4>2 DEF Progress, OnLine
    <3>5. CASE GpioDeinit(t)
      <4>1. /\ pc[t] = "deinit" /\ pc'[t] = "publish"
            /\ mode' = mode /\ out' = out
        BY <3>5 DEF GpioDeinit, Goto, DataTypeOK
      <4>2. /\ ram'[v].pin = ram[v].pin /\ ram'[v].inverted = ram[v].inverted
            /\ ram'[v].state = ram[v].state
        BY <3>5, <2>0 DEF GpioDeinit, DataTypeOK, Unit
      <4>. QED
        BY <3>0, <4>1, <4>2 DEF Progress, OnLine
    <3>6. CASE TriggerPublish(t)
      <4>1. /\ pc[t] = "publish" /\ pc'[t] = "copy"
            /\ mode' = mode /\ out' = out /\ ram' = ram
        BY <3>6 DEF TriggerPublish, Goto, DataTypeOK
      <4>. QED
        BY <3>0, <4>1 DEF Progress, OnLine
    <3>7. CASE CopyUnit(t)
      <4>1. /\ pc[t] = "copy" /\ pc'[t] = "write"
            /\ mode' = mode /\ out' = out /\ ram' = ram
        BY <3>7 DEF CopyUnit, Goto, DataTypeOK
      <4>2. job'[t].copy = Saved(ram[v])
        BY <3>7, <2>0 DEF CopyUnit, DataTypeOK, Job
      <4>. QED
        BY <3>0, <4>1, <4>2 DEF Progress, OnLine
    <3>8. CASE \/ GpioInitFails(t) \/ SetLevelFails(t)
               \/ WriteNvs(t) \/ WriteFails(t)
      <4>1. pc'[t] = "idle"
        BY <3>8
        DEF GpioInitFails, SetLevelFails, WriteNvs, WriteFails, WebError, Abort,
            Reset, Idle, Return, Goto, DataTypeOK
      <4>. QED
        BY <2>3, <4>1
    <3>. QED
      BY <1>5, <3>1, <3>2, <3>3, <3>4, <3>5, <3>6, <3>7, <3>8 DEF SetStateStep
  <2>. QED
    <3> SUFFICES ASSUME NEW u \in Units, NEW t1 \in Tasks, Works(t1, u)',
                        u \notin overlapped'
                 PROVE  Progress(t1, u)'
      BY DEF WorkInv
    <3>1. CASE u # v
      BY <2>1, <3>1
    <3>2. CASE u = v
      <4>1. t1 = t
        BY <2>2, <3>2
      <4>2. pc'[t] # "idle" /\ v \notin overlapped
        BY <1>5, <3>2, <4>1 DEF Works, Frame
      <4>. QED
        BY <2>3, <3>2, <4>1, <4>2
    <3>. QED
      BY <3>1, <3>2
<1>6. CASE MqttReady \/ MqttEventReceive
  BY <1>6 DEF MqttReady, MqttEventReceive, WorkInv, Works, Progress, OnLine
<1>7. CASE UNCHANGED vars
  BY <1>7 DEF vars, WorkInv, Works, Progress, OnLine
<1>8. ASSUME NEW t \in Tasks, SetStateStep(t)
      PROVE WorkInv'
  BY <1>1, <1>5, <1>8, StepFrame
<1>. QED
  BY <1>1, <1>2, <1>3, <1>4, <1>6, <1>7, <1>8 DEF Next, PowerLoss

------------------------------------------------------------------------------
(* A unit at rest.                                                          *)

AtPeace(u) == AtRest(u) /\ u \notin overlapped

Settled(u) ==
  /\ ram[u].pin \in OutputPins => OnLine(ram[u])
  /\ nvs[u] = Saved(ram[u])

(* RestInv, one unit at a time. *)
LEMMA RestIsSettled == RestInv <=> \A u \in Units : AtPeace(u) => Settled(u)
  BY DEF RestInv, PinShowsStateUndisturbed, StateIsStored, AtPeace, Settled

(* Saving what was just loaded gives the same record. *)
LEMMA SavedLoaded ==
  ASSUME NEW r \in Record
  PROVE  /\ Saved(Loaded(r)) = r
         /\ Loaded(r).pin = r.pin
         /\ Loaded(r).state = r.state
         /\ Loaded(r).inverted = r.inverted
  BY DEF Saved, Loaded, Record

(* A unit comes to rest settled, and stays so until it is switched again. *)
LEMMA RestStep ==
  ASSUME SeparatePins
  PROVE  /\ DataTypeOK /\ PinInv /\ BootInv /\ WorkInv /\ RestInv /\ [Next]_vars
         => RestInv'
<1> SUFFICES ASSUME DataTypeOK, PinInv, BootInv, WorkInv, RestInv, [Next]_vars,
                    NEW u \in Units, AtPeace(u)'
             PROVE  Settled(u)'
  BY DEF RestInv, PinShowsStateUndisturbed, StateIsStored, AtPeace, Settled
<1>0. AtPeace(u) => Settled(u)
  BY RestIsSettled
<1> USE DEF boardVars, gpioVars, mqttVars, history
<1>1. ASSUME Reset PROVE FALSE
  BY <1>1 DEF Reset, AtPeace, AtRest
<1>2. CASE BootInit \/ BootLevel
  BY <1>2 DEF BootInit, BootLevel, NextChannel, AtPeace, AtRest
<1>3. CASE LoadUnits
  <2>1. /\ phase = "load" /\ nvs' = nvs /\ mode' = mode /\ out' = out
        /\ ram'[u] = Loaded(nvs[u])
    BY <1>3 DEF LoadUnits
  <2>2. nvs[u] \in Record /\ u < bootCh
    BY <2>1 DEF DataTypeOK, BootInv
  <2>3. nvs[u].pin \in OutputPins => OnLine(nvs[u])
    BY <2>1, <2>2 DEF BootInv, RestoredAtBoot
  <2>. QED
    BY <2>1, <2>2, <2>3, SavedLoaded DEF Settled, OnLine
<1>4. CASE Requests
  <2>1. ASSUME NEW v \in HttpUnits, NEW s \in States, NEW i \in BOOLEAN,
               NEW p \in UnitPins[v], HttpEdit(v, p, s, i)
        PROVE Settled(u)'
    <3>1. /\ pc'["httpd"] = "call" /\ pc["httpd"] = "idle"
          /\ pc'["mqtt_cmd"] = pc["mqtt_cmd"]
          /\ job'["httpd"].unit = v /\ job'["mqtt_cmd"] = job["mqtt_cmd"]
      BY <2>1, BlankType DEF HttpEdit, Goto, DataTypeOK, Job
    <3>2. u # v
      BY <3>1 DEF AtPeace, AtRest, Busy
    <3>3. ram'[u] = ram[u] /\ nvs' = nvs /\ mode' = mode /\ out' = out
      BY <2>1, <3>2 DEF HttpEdit, DataTypeOK
    <3>4. AtPeace(u)
      BY <2>1, <3>1, <3>2 DEF HttpEdit, Enter, AtPeace, AtRest, Busy
    <3>. QED
      BY <1>0, <3>3, <3>4 DEF Settled, OnLine
  <2>2. ASSUME NEW v \in CmdUnits, NEW s \in States, MqttCommand(v, s)
        PROVE Settled(u)'
    <3>1. /\ pc'["mqtt_cmd"] = "init" /\ pc["mqtt_cmd"] = "idle"
          /\ pc'["httpd"] = pc["httpd"]
          /\ job'["mqtt_cmd"].unit = v /\ job'["httpd"] = job["httpd"]
      BY <2>2, BlankType DEF MqttCommand, Goto, DataTypeOK, Job
    <3>2. u # v
      BY <3>1 DEF AtPeace, AtRest, Busy
    <3>3. ram' = ram /\ nvs' = nvs /\ mode' = mode /\ out' = out
      BY <2>2 DEF MqttCommand
    <3>4. AtPeace(u)
      BY <2>2, <3>1, <3>2 DEF MqttCommand, Enter, AtPeace, AtRest, Busy
    <3>. QED
      BY <1>0, <3>3, <3>4 DEF Settled, OnLine
  <2>. QED
    BY <1>4, <2>1, <2>2 DEF Requests
<1>5. CASE HttpCall
  <2>1. /\ pc["httpd"] = "call" /\ pc'["httpd"] = "init"
        /\ pc'["mqtt_cmd"] = pc["mqtt_cmd"]
        /\ job'["mqtt_cmd"] = job["mqtt_cmd"]
        /\ job'["httpd"].unit = job["httpd"].unit
    BY <1>5 DEF HttpCall, Goto, DataTypeOK, Job
  <2>2. AtPeace(u)
    BY <1>5, <2>1 DEF HttpCall, AtPeace, AtRest, Busy
  <2>. QED
    BY <1>0, <1>5, <2>2 DEF HttpCall, Settled, OnLine
<1>6. ASSUME NEW t \in Tasks, SetStateStep(t), Frame(t)
      PROVE Settled(u)'
  <2>1. CASE u # job[t].unit
    <3>1. AtPeace(u)
      BY <1>6, <2>1, OthersFrame DEF AtPeace, AtRest, Busy, Works, Frame
    <3>. QED
      BY <1>0, <1>6, <2>1, <3>1, OthersFrame DEF Settled, OnLine
  <2>2. CASE u = job[t].unit
    <3>1. pc'[t] = "idle"
      BY <1>6, <2>2 DEF AtPeace, AtRest, Busy, Frame
    <3>2. ~WebError(t)
      BY <2>2 DEF WebError, AtPeace, AtRest
    <3>3. WriteNvs(t)
      BY <1>1, <1>6, <3>1, <3>2
      DEF SetStateStep, CheckInit, GpioInit, GpioInitFails, SetLevel,
          SetLevelFails, SetState, GpioDeinit, TriggerPublish, CopyUnit,
          WriteFails, Abort, Goto, DataTypeOK
    <3>4. /\ nvs'[u] = job[t].copy
          /\ ram' = ram /\ mode' = mode /\ out' = out /\ overlapped' = overlapped
      BY <2>2, <3>3 DEF WriteNvs, DataTypeOK
    <3>5. Progress(t, u) /\ pc[t] = "write"
      BY <2>2, <3>3, <3>4 DEF WorkInv, Works, WriteNvs, AtPeace
    <3>. QED
      BY <3>4, <3>5 DEF Progress, Settled, OnLine
  <2>. QED
    BY <2>1, <2>2
<1>7. CASE MqttReady \/ MqttEventReceive
  BY <1>0, <1>7 DEF MqttReady, MqttEventReceive, AtPeace, AtRest, Busy, Settled, OnLine
<1>8. CASE UNCHANGED vars
  BY <1>0, <1>8 DEF vars, AtPeace, AtRest, Busy, Settled, OnLine
<1>9. ASSUME NEW t \in Tasks, SetStateStep(t)
      PROVE Settled(u)'
  BY <1>1, <1>6, <1>9, StepFrame
<1>. QED
  BY <1>1, <1>2, <1>3, <1>4, <1>5, <1>7, <1>8, <1>9 DEF Next, PowerLoss

------------------------------------------------------------------------------
(* The initial states, and the theorems.                                    *)

LEMMA InitInv == Init => Inv
<1> SUFFICES ASSUME Init PROVE Inv
  OBVIOUS
<1>1. PICK pin \in [Units -> Pins] : /\ \A u \in Units : pin[u] \in UnitPins[u]
                                    /\ nvs = [u \in Units |-> NewRecord(pin[u])]
  BY DEF Init
<1>2. phase = "init" /\ bootCh = 0 /\ \A t \in Tasks : pc[t] = "idle"
  BY DEF Init, Idle
<1>3. \A u \in Units : ~(u < bootCh)
  BY <1>2
<1>4. BootInv
  BY <1>2, <1>3 DEF BootInv, RestoredAtBoot
<1>5. PinInv
  BY <1>1, <1>2 DEF PinInv, NewRecord
<1>6. \A u \in Units : ~ram[u].init
  BY DEF Init, Blank, Loaded
<1>. QED
  BY <1>2, <1>4, <1>5, <1>6
  DEF Inv, FlagInv, OverlapInv, WorkInv, Works, RestInv, AtRest,
      PinShowsStateUndisturbed, StateIsStored

(* The flag needs no assumption on the pins: left by nobody, whoever        *)
(* switches a unit and however many at once.                                *)
THEOREM NoFlagLeft == Spec => []NoInitFlagLeft
<1>1. Init => DataTypeOK /\ FlagInv
  BY InitDataType, InitInv DEF Inv
<1>2. DataTypeOK /\ FlagInv => NoInitFlagLeft
  BY DEF FlagInv, Holds, Works, NoInitFlagLeft, Busy
<1>. QED
  BY <1>1, <1>2, NextDataType, FlagStep, PTL DEF Spec

(* The invariant is inductive. *)
LEMMA InvStep ==
  ASSUME SeparatePins
  PROVE  DataTypeOK /\ Inv /\ [Next]_vars => DataTypeOK' /\ Inv'
<1> SUFFICES ASSUME DataTypeOK, Inv, [Next]_vars PROVE DataTypeOK' /\ Inv'
  OBVIOUS
<1>1. DataTypeOK'
  BY NextDataType
<1>2. BootInv' /\ PinInv' /\ FlagInv' /\ OverlapInv' /\ WorkInv' /\ RestInv'
  BY BootStep, PinStep, FlagStep, OverlapStep, WorkStep, RestStep DEF Inv
<1>. QED
  BY <1>1, <1>2 DEF Inv

(* If the users keep to the wiring, then of every unit that was last        *)
(* switched undisturbed the pin shows what RAM holds, NVS holds it too, and *)
(* a boot puts it back on the pin.                                          *)
THEOREM Safety ==
  ASSUME SeparatePins
  PROVE  Spec => [](PinShowsStateUndisturbed /\ StateIsStored /\ RestoredAtBoot)
<1>1. Init => DataTypeOK /\ Inv
  BY InitDataType, InitInv
<1>2. Inv => PinShowsStateUndisturbed /\ StateIsStored /\ RestoredAtBoot
  BY DEF Inv, RestInv, BootInv
<1>. QED
  BY <1>1, <1>2, InvStep, PTL DEF Spec

Untouched ==
  phase = "run" /\ phase' = "run" =>
    \A u \in Units : \A p \in UnitPins[u] :
       out'[p] # out[p] \/ mode'[p] # mode[p] => Busy(u)

(* Every step, from a state of the invariant, leaves the pins of the units  *)
(* alone that no task works on.                                             *)
LEMMA UntouchedStep ==
  ASSUME SeparatePins
  PROVE  DataTypeOK /\ PinInv /\ [Next]_vars => Untouched
<1> SUFFICES ASSUME DataTypeOK, PinInv, [Next]_vars,
                    phase = "run", phase' = "run",
                    NEW u \in Units, NEW p \in UnitPins[u],
                    out'[p] # out[p] \/ mode'[p] # mode[p]
             PROVE  Busy(u)
  BY DEF Untouched
<1> USE DEF boardVars, gpioVars, mqttVars, history
<1>1. ~(out' = out /\ mode' = mode)
  OBVIOUS
<1>2. ~Reset
  BY DEF Reset
<1>3. PICK t \in Tasks : SetStateStep(t)
  BY <1>1, <1>2
  DEF Next, vars, PowerLoss, BootInit, BootLevel, LoadUnits, Requests, HttpEdit,
      MqttCommand, HttpCall, MqttReady, MqttEventReceive
<1>4. Frame(t) /\ job[t].unit \in Units
  BY <1>2, <1>3, StepFrame DEF DataTypeOK, Job
<1>5. p = ram[job[t].unit].pin /\ p \in UnitPins[job[t].unit]
  BY <1>4 DEF Frame, PinInv
<1>6. u = job[t].unit
  BY <1>4, <1>5 DEF SeparatePins
<1>. QED
  BY <1>4, <1>6 DEF Busy, Frame

(* While the board runs, the pins of a unit only move when a task works on  *)
(* that unit: no two units that users wired apart ever get mixed up.        *)
THEOREM PinsUntouched ==
  ASSUME SeparatePins
  PROVE  Spec => OthersPinsUntouched
<1>1. Spec => [](DataTypeOK /\ Inv)
  BY InitDataType, InitInv, InvStep, PTL DEF Spec
<1>2. DataTypeOK /\ Inv /\ [Next]_vars => [Untouched]_vars
  BY UntouchedStep DEF Inv
<1>. QED
  BY <1>1, <1>2, PTL DEF Spec, OthersPinsUntouched, Untouched

==============================================================================
