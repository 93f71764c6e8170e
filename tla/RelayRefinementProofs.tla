------------------------ MODULE RelayRefinementProofs ------------------------
(***************************************************************************)
(* RelayActuator implements RelayMemory, for any number of actuators and   *)
(* pins: every step of the board is a step of the abstract memory, or does *)
(* not show there.  The step that matters is WriteNvs: the task writes a   *)
(* copy taken earlier, and the memory only promises to store what the pin  *)
(* is showing now.  WorkInv of RelayActuatorProofs says why the two  *)
(* agree when the task was alone on the unit; ContestInv below says that   *)
(* it was, unless both web requests and commands address the unit.         *)
(***************************************************************************)
EXTENDS RelayActuatorProofs

(* How far the boot is, and what it found: a pin that was not yet           *)
(* configured is low, so it is armed low.                                   *)
ArmInv ==
  /\ phase = "level" => nvs[bootCh].pin \in OutputPins
  /\ phase \in {"load", "run"} => bootCh = N
  /\ phase # "run" => \A p \in Pins : mode[p] = "floating" => out[p] = 0

(* Each task keeps to the units addressed to it, so that only a unit        *)
(* addressed both ways is ever switched by two tasks at once.               *)
ContestInv ==
  /\ pc["httpd"] # "idle" => job["httpd"].unit \in HttpUnits
  /\ pc["mqtt_cmd"] # "idle" => job["mqtt_cmd"].unit \in CmdUnits
  /\ overlapped \subseteq HttpUnits \cap CmdUnits

MapInv == ArmInv /\ ContestInv

USE NAssumption, PinsAssumption, TargetAssumption
USE DEF Units, Tasks

------------------------------------------------------------------------------
(* The invariant of the mapping.                                            *)

(* It holds at first. *)
LEMMA InitMap == Init => MapInv
  BY DEF Init, Idle, Low, MapInv, ArmInv, ContestInv

(* Nor does a restart break it. *)
LEMMA ResetMap == Reset => MapInv'
  BY DEF Reset, Idle, Low, MapInv, ArmInv, ContestInv

(* The boot goes through the channels one after the other. *)
LEMMA NextChannelStep ==
  ASSUME bootCh \in 0 .. N - 1, NextChannel
  PROVE  /\ bootCh' = bootCh + 1
         /\ phase' \in {"init", "load"}
         /\ phase' = "load" => bootCh' = N
  BY DEF NextChannel

(* The boot keeps its part, and nobody else touches it before it is done. *)
LEMMA ArmStep == DataTypeOK /\ BootInv /\ ArmInv /\ [Next]_vars => ArmInv'
<1> SUFFICES ASSUME DataTypeOK, BootInv, ArmInv, [Next]_vars PROVE ArmInv'
  OBVIOUS
<1> USE DEF boardVars, gpioVars, mqttVars, history, ArmInv
<1>1. ASSUME Reset PROVE ArmInv'
  BY <1>1, ResetMap DEF MapInv
<1>2. CASE BootInit
  <2>0. /\ bootCh \in 0 .. N - 1 /\ phase = "init" /\ out' = out /\ nvs' = nvs
        /\ nvs[bootCh] \in Record
    BY <1>2 DEF BootInit, DataTypeOK
  <2>1. CASE /\ nvs[bootCh].pin \in OutputPins
             /\ mode' = [mode EXCEPT ![nvs[bootCh].pin] = "output"]
             /\ phase' = "level"
             /\ UNCHANGED bootCh
    BY <2>0, <2>1 DEF DataTypeOK, Record
  <2>2. CASE NextChannel /\ UNCHANGED mode
    BY <2>0, <2>2, NextChannelStep
  <2>. QED
    BY <1>2, <2>1, <2>2 DEF BootInit
<1>3. CASE BootLevel
  <2>0. /\ bootCh \in 0 .. N - 1 /\ phase = "level" /\ mode' = mode
        /\ nvs[bootCh] \in Record /\ NextChannel
    BY <1>3 DEF BootLevel, DataTypeOK
  <2>1. mode[nvs[bootCh].pin] = "output"
    BY <2>0 DEF BootInv
  <2>2. \A p \in Pins : p # nvs[bootCh].pin => out'[p] = out[p]
    BY <1>3 DEF BootLevel, DataTypeOK
  <2>. QED
    BY <2>0, <2>1, <2>2, NextChannelStep
<1>4. CASE LoadUnits
  BY <1>4 DEF LoadUnits
<1>5. CASE Requests \/ HttpCall \/ MqttReady \/ MqttEventReceive
  BY <1>5 DEF Requests, HttpEdit, MqttCommand, HttpCall, MqttReady, MqttEventReceive
<1>6. ASSUME NEW t \in Tasks, SetStateStep(t)
      PROVE ArmInv'
  <2>1. CASE Frame(t)
    <3>1. phase = "run" /\ phase' = "run" /\ bootCh' = bootCh
      BY <2>1 DEF Frame, BootInv
    <3>. QED
      BY <3>1
  <2>. QED
    BY <1>1, <1>6, <2>1, StepFrame
<1>7. CASE UNCHANGED vars
  BY <1>7 DEF vars
<1>. QED
  BY <1>1, <1>2, <1>3, <1>4, <1>5, <1>6, <1>7 DEF Next, PowerLoss

(* A task only ever takes up a unit addressed to it. *)
LEMMA ContestStep == DataTypeOK /\ ContestInv /\ [Next]_vars => ContestInv'
<1> SUFFICES ASSUME DataTypeOK, ContestInv, [Next]_vars PROVE ContestInv'
  OBVIOUS
<1> USE DEF boardVars, gpioVars, mqttVars, history, ContestInv
<1>1. ASSUME Reset PROVE ContestInv'
  BY <1>1, ResetMap DEF MapInv
<1>2. CASE BootInit \/ BootLevel \/ LoadUnits
  BY <1>2 DEF BootInit, BootLevel, LoadUnits
<1>3. CASE Requests
  <2>1. ASSUME NEW u \in HttpUnits, NEW s \in States, NEW i \in BOOLEAN,
               NEW p \in UnitPins[u], HttpEdit(u, p, s, i)
        PROVE ContestInv'
    <3>1. /\ job'["httpd"].unit = u /\ pc["httpd"] = "idle"
          /\ pc'["mqtt_cmd"] = pc["mqtt_cmd"]
          /\ job'["mqtt_cmd"] = job["mqtt_cmd"]
      BY <2>1, BlankType DEF HttpEdit, Goto, DataTypeOK, Job
    <3>2. overlapped' \subseteq HttpUnits \cap CmdUnits
      BY <2>1, <3>1 DEF HttpEdit, Enter, Busy
    <3>. QED
      BY <2>1, <3>1, <3>2
  <2>2. ASSUME NEW u \in CmdUnits, NEW s \in States, MqttCommand(u, s)
        PROVE ContestInv'
    <3>1. /\ job'["mqtt_cmd"].unit = u /\ pc["mqtt_cmd"] = "idle"
          /\ pc'["httpd"] = pc["httpd"]
          /\ job'["httpd"] = job["httpd"]
      BY <2>2, BlankType DEF MqttCommand, Goto, DataTypeOK, Job
    <3>2. overlapped' \subseteq HttpUnits \cap CmdUnits
      BY <2>2, <3>1 DEF MqttCommand, Enter, Busy
    <3>. QED
      BY <2>2, <3>1, <3>2
  <2>. QED
    BY <1>3, <2>1, <2>2 DEF Requests
<1>4. CASE HttpCall
  BY <1>4 DEF HttpCall, Goto, DataTypeOK, Job
<1>5. ASSUME NEW t \in Tasks, SetStateStep(t)
      PROVE ContestInv'
  <2>1. CASE Frame(t)
    BY <2>1 DEF Frame
  <2>. QED
    BY <1>1, <1>5, <2>1, StepFrame
<1>6. CASE MqttReady \/ MqttEventReceive
  BY <1>6 DEF MqttReady, MqttEventReceive
<1>7. CASE UNCHANGED vars
  BY <1>7 DEF vars
<1>. QED
  BY <1>1, <1>2, <1>3, <1>4, <1>5, <1>6, <1>7 DEF Next, PowerLoss

------------------------------------------------------------------------------
(* The state of the memory.                                                 *)

(* Initial states map to initial states. *)
LEMMA InitRefines == Init => Memory!MemoryInit
<1> SUFFICES ASSUME Init PROVE Memory!MemoryInit
  OBVIOUS
<1>1. nvs \in [Units -> Record]
  BY InitDataType DEF DataTypeOK
<1>2. \A u \in Units :
        nvs[u].pin \in Pins /\ LevelOf(nvs[u].state, nvs[u].inverted) \in {0, 1}
  BY <1>1, LevelType DEF Record
<1>3. Stored \in [Units -> Memory!Place]
  BY <1>2 DEF Stored, Memory!Place, Memory!Levels
<1>4. Line = [p \in Pins |-> -1]
  BY DEF Init, Line, Floating
<1>5. Restored = {}
  BY DEF Init, Restored
<1>. QED
  BY <1>3, <1>4, <1>5 DEF Memory!MemoryInit, Memory!Dark

(* Nothing of the memory moves. *)
LEMMA SameMemory ==
  ASSUME mode' = mode, out' = out, nvs' = nvs, bootCh' = bootCh
  PROVE  UNCHANGED Memory!memoryVars
  BY DEF Memory!memoryVars, Line, Stored, Restored

(* The chip restarts. *)
LEMMA ResetRefines == Reset => Memory!PowerOff
<1> SUFFICES ASSUME Reset PROVE Memory!PowerOff
  OBVIOUS
<1>1. Line' = [p \in Pins |-> -1]
  BY DEF Reset, Line, Floating
<1>2. Restored' = {}
  BY DEF Reset, Restored
<1>3. Stored' = Stored
  BY DEF Reset, Stored
<1>. QED
  BY <1>1, <1>2, <1>3 DEF Memory!PowerOff, Memory!Dark

(* Boot is done with one more channel. *)
LEMMA RestoredGrows ==
  ASSUME bootCh \in Units, bootCh' = bootCh + 1
  PROVE  bootCh \notin Restored /\ Restored' = Restored \cup {bootCh}
  BY DEF Restored

(* The boot arms the pin of a channel, or passes over one it cannot drive. *)
LEMMA BootInitRefines ==
  DataTypeOK /\ ArmInv /\ BootInit => [Memory!MemoryNext]_Memory!memoryVars
<1> SUFFICES ASSUME DataTypeOK, ArmInv, BootInit
             PROVE  [Memory!MemoryNext]_Memory!memoryVars
  OBVIOUS
<1>0. /\ bootCh \in Units /\ phase = "init" /\ out' = out /\ nvs' = nvs
      /\ nvs[bootCh] \in Record /\ nvs[bootCh].pin \in Pins
  BY DEF BootInit, DataTypeOK, Record
<1>1. Stored' = Stored
  BY <1>0 DEF Stored
<1>2. CASE /\ mode' = [mode EXCEPT ![nvs[bootCh].pin] = "output"]
           /\ UNCHANGED bootCh
  <2>1. Restored' = Restored
    BY <1>2 DEF Restored
  <2>2. CASE mode[nvs[bootCh].pin] = "floating"
    <3>1. /\ Line[nvs[bootCh].pin] = -1
          /\ Line' = [Line EXCEPT ![nvs[bootCh].pin] = 0]
      BY <1>0, <1>2, <2>2 DEF Line, ArmInv, DataTypeOK
    <3>2. Memory!Arm(nvs[bootCh].pin)
      BY <1>1, <2>1, <3>1 DEF Memory!Arm, Memory!Dark
    <3>. QED
      BY <1>0, <3>2 DEF Memory!MemoryNext
  <2>3. CASE mode[nvs[bootCh].pin] = "output"
    <3>1. mode' = mode
      BY <1>2, <2>3 DEF DataTypeOK
    <3>. QED
      BY <1>0, <1>2, <3>1, SameMemory
  <2>. QED
    BY <1>0, <2>2, <2>3 DEF DataTypeOK
<1>3. CASE nvs[bootCh].pin \notin OutputPins /\ NextChannel /\ UNCHANGED mode
  <2>1. bootCh \notin Restored /\ Restored' = Restored \cup {bootCh}
    BY <1>0, <1>3, NextChannelStep, RestoredGrows
  <2>2. Line' = Line /\ Stored[bootCh].pin = nvs[bootCh].pin
    BY <1>0, <1>3 DEF Line, Stored
  <2>3. Line' = [Line EXCEPT ![Stored[bootCh].pin] =
                   IF Stored[bootCh].pin \in OutputPins
                   THEN Stored[bootCh].level ELSE @]
    BY <1>3, <2>2 DEF Line
  <2>4. Memory!Restore(bootCh)
    BY <1>1, <2>1, <2>3 DEF Memory!Restore
  <2>. QED
    BY <1>0, <2>4 DEF Memory!MemoryNext
<1>. QED
  BY <1>2, <1>3 DEF BootInit

(* The boot drives the stored level of a channel. *)
LEMMA BootLevelRefines ==
  DataTypeOK /\ BootInv /\ ArmInv /\ BootLevel => Memory!MemoryNext
<1> SUFFICES ASSUME DataTypeOK, BootInv, ArmInv, BootLevel
             PROVE  Memory!MemoryNext
  OBVIOUS
<1>0. /\ bootCh \in Units /\ phase = "level" /\ mode' = mode /\ nvs' = nvs
      /\ nvs[bootCh] \in Record /\ nvs[bootCh].pin \in Pins
  BY DEF BootLevel, DataTypeOK, Record
<1>1. nvs[bootCh].pin \in OutputPins /\ mode[nvs[bootCh].pin] = "output"
  BY <1>0 DEF BootInv, ArmInv
<1>2. Stored' = Stored
  BY <1>0 DEF Stored
<1>3. bootCh \notin Restored /\ Restored' = Restored \cup {bootCh}
  BY <1>0, NextChannelStep, RestoredGrows DEF BootLevel
<1>4. /\ Stored[bootCh].pin = nvs[bootCh].pin
      /\ Stored[bootCh].level = LevelOf(nvs[bootCh].state, nvs[bootCh].inverted)
  BY <1>0 DEF Stored
<1>5. Line' = [Line EXCEPT ![nvs[bootCh].pin] =
                 LevelOf(nvs[bootCh].state, nvs[bootCh].inverted)]
  BY <1>0, <1>1 DEF BootLevel, Line, DataTypeOK
<1>6. Memory!Restore(bootCh)
  BY <1>1, <1>2, <1>3, <1>4, <1>5 DEF Memory!Restore
<1>. QED
  BY <1>0, <1>6 DEF Memory!MemoryNext

------------------------------------------------------------------------------
(* The steps of relay_set_state.                                            *)

(* While the board runs, everything has been restored. *)
LEMMA AllRestored ==
  ASSUME ArmInv, phase = "run"
  PROVE  Restored = Units
  BY DEF ArmInv, Restored

(* A pin that becomes an output, or gets a level, is a switch. *)
LEMMA PinRefines ==
  ASSUME DataTypeOK, DataTypeOK', ArmInv, phase = "run", NEW p \in Pins,
         \A q \in Pins : q # p => mode'[q] = mode[q] /\ out'[q] = out[q],
         mode[p] = "output" => mode'[p] = "output",
         nvs' = nvs, bootCh' = bootCh
  PROVE  [Memory!MemoryNext]_Memory!memoryVars
<1>1. Stored' = Stored /\ Restored' = Restored /\ Restored = Units
  BY AllRestored DEF Stored, Restored
<1>2. \A q \in Pins : q # p => Line'[q] = Line[q]
  BY DEF Line
<1>3. CASE mode'[p] = "output"
  <2>1. Line'[p] = out'[p] /\ out'[p] \in {0, 1}
    BY <1>3 DEF Line, DataTypeOK
  <2>2. Line' = [Line EXCEPT ![p] = out'[p]]
    BY <1>2, <2>1 DEF Line
  <2>3. Memory!Switch(p, out'[p])
    BY <1>1, <2>2 DEF Memory!Switch
  <2>. QED
    BY <2>1, <2>3 DEF Memory!MemoryNext, Memory!Levels
<1>4. CASE mode'[p] # "output"
  <2>1. Line'[p] = -1 /\ Line[p] = -1
    BY <1>4 DEF Line
  <2>2. Line' = Line
    BY <1>2, <2>1 DEF Line
  <2>. QED
    BY <1>1, <2>2 DEF Memory!memoryVars
<1>. QED
  BY <1>3, <1>4

(* What a task stores is what the pin shows, if no other task ever switches *)
(* the unit.                                                                *)
LEMMA WriteRefines ==
  ASSUME DataTypeOK, ArmInv, ContestInv, WorkInv, phase = "run",
         NEW t \in Tasks, WriteNvs(t)
  PROVE  Memory!MemoryNext
<1> DEFINE u == job[t].unit
           c == job[t].copy
<1>0. /\ u \in Units /\ c \in Record /\ c.pin \in Pins
      /\ LevelOf(c.state, c.inverted) \in {0, 1}
  <2>1. job[t] \in Job
    BY DEF DataTypeOK
  <2>2. u \in Units /\ c \in Record
    BY <2>1 DEF Job
  <2>. QED
    BY <2>2, LevelType DEF Record
<1>1. /\ mode' = mode /\ out' = out /\ bootCh' = bootCh
      /\ nvs' = [nvs EXCEPT ![u] = c] /\ pc[t] = "write"
  BY DEF WriteNvs, boardVars, gpioVars
<1>2. Line' = Line /\ Restored' = Restored /\ Restored = Units
  BY <1>1, AllRestored DEF Line, Restored
<1>3. Stored' = [Stored EXCEPT ![u] = [pin |-> c.pin,
                                       level |-> LevelOf(c.state, c.inverted)]]
  BY <1>0, <1>1 DEF Stored, DataTypeOK
<1>4. CASE u \in overlapped
  <2>1. u \in HttpUnits \cap CmdUnits
    BY <1>4 DEF ContestInv
  <2>2. Memory!CommitContested(u)
    BY <1>0, <1>2, <1>3, <2>1
    DEF Memory!CommitContested, Memory!Place, Memory!Levels
  <2>. QED
    BY <1>0, <2>2 DEF Memory!MemoryNext
<1>5. CASE u \notin overlapped
  <2>1. Progress(t, u)
    BY <1>0, <1>1, <1>5 DEF WorkInv, Works
  <2>2. c = Saved(ram[u]) /\ OnLine(ram[u])
    BY <1>1, <2>1 DEF Progress
  <2>3. c.pin = ram[u].pin /\ c.state = ram[u].state /\ c.inverted = ram[u].inverted
    BY <2>2 DEF Saved
  <2>4. mode[c.pin] = "output" /\ out[c.pin] = LevelOf(c.state, c.inverted)
    BY <2>2, <2>3 DEF OnLine
  <2>5. Line[c.pin] = LevelOf(c.state, c.inverted)
    BY <1>0, <2>4 DEF Line
  <2>6. Memory!Commit(u, c.pin)
    BY <1>0, <1>2, <1>3, <2>5 DEF Memory!Commit, Memory!Dark
  <2>. QED
    BY <1>0, <2>6 DEF Memory!MemoryNext
<1>. QED
  BY <1>4, <1>5

(* Every step of a task shows as a switch, a commit or nothing, or it       *)
(* restarts the chip.                                                       *)
LEMMA SetStateRefines ==
  ASSUME DataTypeOK, DataTypeOK', BootInv, ArmInv, ContestInv, WorkInv,
         NEW t \in Tasks, SetStateStep(t)
  PROVE  [Memory!MemoryNext]_Memory!memoryVars
<1> USE DEF boardVars, gpioVars, mqttVars, history
<1>1. CASE Reset
  BY <1>1, ResetRefines DEF Memory!MemoryNext
<1>2. CASE Frame(t)
  <2>0. /\ phase = "run" /\ bootCh' = bootCh
        /\ job[t].unit \in Units /\ ram[job[t].unit].pin \in Pins
    <3>1. phase = "run" /\ bootCh' = bootCh /\ job[t] \in Job
      BY <1>2 DEF Frame, BootInv, DataTypeOK
    <3>2. job[t].unit \in Units
      BY <3>1 DEF Job
    <3>. QED
      BY <3>1, <3>2 DEF DataTypeOK, Unit
  <2>1. CASE GpioInit(t) \/ SetLevel(t)
    <3>1. nvs' = nvs
      BY <2>1 DEF GpioInit, SetLevel
    <3>2. mode[ram[job[t].unit].pin] = "output"
            => mode'[ram[job[t].unit].pin] = "output"
      BY <2>0, <2>1 DEF GpioInit, SetLevel, DataTypeOK
    <3>3. \A q \in Pins : q # ram[job[t].unit].pin =>
            mode'[q] = mode[q] /\ out'[q] = out[q]
      BY <1>2 DEF Frame
    <3>. QED
      BY <2>0, <3>1, <3>2, <3>3, PinRefines
  <2>2. CASE WriteNvs(t)
    BY <2>0, <2>2, WriteRefines
  <2>3. CASE \/ CheckInit(t) \/ SetState(t) \/ GpioDeinit(t)
             \/ TriggerPublish(t) \/ CopyUnit(t)
    BY <2>0, <2>3, SameMemory
    DEF CheckInit, SetState, GpioDeinit, TriggerPublish, CopyUnit
  <2>4. CASE GpioInitFails(t) \/ SetLevelFails(t) \/ WriteFails(t)
    <3>1. Reset \/ (mode' = mode /\ out' = out /\ nvs' = nvs)
      BY <2>4 DEF GpioInitFails, SetLevelFails, WriteFails, WebError, Abort
    <3>. QED
      BY <1>1, <2>0, <3>1, SameMemory
  <2>. QED
    BY <2>1, <2>2, <2>3, <2>4 DEF SetStateStep
<1>. QED
  BY <1>1, <1>2, StepFrame

------------------------------------------------------------------------------
(* Every step of the board maps to a step of the memory, or shows nothing.  *)
LEMMA StepRefines ==
  DataTypeOK /\ DataTypeOK' /\ Inv /\ MapInv /\ [Next]_vars
    => [Memory!MemoryNext]_Memory!memoryVars
<1> SUFFICES ASSUME DataTypeOK, DataTypeOK', Inv, MapInv, [Next]_vars
             PROVE  [Memory!MemoryNext]_Memory!memoryVars
  OBVIOUS
<1>0. BootInv /\ WorkInv /\ ArmInv /\ ContestInv
  BY DEF Inv, MapInv
<1>1. CASE PowerLoss
  BY <1>1, ResetRefines DEF PowerLoss, Memory!MemoryNext
<1>2. CASE BootInit
  BY <1>0, <1>2, BootInitRefines
<1>3. CASE BootLevel
  BY <1>0, <1>3, BootLevelRefines
<1>4. CASE LoadUnits \/ Requests \/ HttpCall \/ MqttReady \/ MqttEventReceive
  BY <1>4, SameMemory
  DEF LoadUnits, Requests, HttpEdit, MqttCommand, HttpCall, MqttReady,
      MqttEventReceive, boardVars, gpioVars
<1>5. ASSUME NEW t \in Tasks, SetStateStep(t)
      PROVE  [Memory!MemoryNext]_Memory!memoryVars
  BY <1>0, <1>5, SetStateRefines
<1>6. CASE UNCHANGED vars
  BY <1>6, SameMemory DEF vars
<1>. QED
  BY <1>1, <1>2, <1>3, <1>4, <1>5, <1>6 DEF Next

(* The board implements the abstract relay memory: if the users keep to the *)
(* wiring, then only a level that a pin is showing is ever stored of a unit *)
(* that not both web requests and commands address, and after a restart     *)
(* nothing is switched before every stored level is back on its pin.        *)
THEOREM Refinement ==
  ASSUME SeparatePins
  PROVE  Spec => ImplementsMemory
<1>1. Init => DataTypeOK /\ Inv /\ MapInv
  BY InitDataType, InitInv, InitMap
<1>2. DataTypeOK /\ Inv /\ MapInv /\ [Next]_vars
        => (DataTypeOK /\ Inv /\ MapInv)'
  BY InvStep, ArmStep, ContestStep DEF Inv, MapInv
<1>3. DataTypeOK /\ DataTypeOK' /\ Inv /\ MapInv /\ [Next]_vars
        => [Memory!MemoryNext]_Memory!memoryVars
  BY StepRefines
<1>. QED
  BY <1>1, <1>2, <1>3, InitRefines, PTL
  DEF Spec, ImplementsMemory, Memory!MemorySpec

==============================================================================
