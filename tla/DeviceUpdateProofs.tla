--------------------------- MODULE DeviceUpdateProofs ---------------------------
(***************************************************************************)
(* Proofs about DeviceUpdate for any number of update tasks, blocks and    *)
(* checks: the types, what an update does to the pages and to the mode of  *)
(* the memory guard, and when the guard restarts the device.               *)
(***************************************************************************)
EXTENDS DeviceUpdate, TLAPS

USE BlocksAssumption, LimitAssumption, BoundAssumption
USE DEF vars, image, Modes, DISABLED, WARN, RESTART, Missing, Block

Places == {"idle", "read", "disable", "firmware", "flash", "storage", "write", "restore", "finish"}
Task == [at : Places, kept : Modes, ok : BOOLEAN, next : 1 .. Blocks + 1]
Guard == [at : {"off", "check", "judge"}, mode : Modes, lows : 0 .. Limit - 1,
          before : BOOLEAN, denied : BOOLEAN]

------------------------------------------------------------------------------
(* Where the tasks are.                                                     *)

(* What a step of task t leaves to the other tasks, and to its own locals.  *)
Steps(t, from, to) ==
  /\ task[t].at = from /\ task'[t].at \in to
  /\ task' \in [Tasks -> Task]
  /\ \A u \in Tasks \ {t} : task'[u] = task[u]

LEMMA Assigned ==
  ASSUME task \in [Tasks -> Task], NEW t \in Tasks, NEW r \in Task,
         task' = [task EXCEPT ![t] = r]
  PROVE  /\ task' \in [Tasks -> Task] /\ task'[t] = r
         /\ \A u \in Tasks \ {t} : task'[u] = task[u]
OBVIOUS

LEMMA AtSet ==
  ASSUME NEW r \in Task, NEW a \in Places
  PROVE  /\ [r EXCEPT !.at = a] \in Task
         /\ [r EXCEPT !.at = a].at = a /\ [r EXCEPT !.at = a].kept = r.kept
BY DEF Task

LEMMA KeptSet ==
  ASSUME NEW r \in Task, NEW k \in Modes
  PROVE  /\ [r EXCEPT !.kept = k] \in Task
         /\ [r EXCEPT !.kept = k].at = r.at /\ [r EXCEPT !.kept = k].kept = k
BY DEF Task

LEMMA OkSet ==
  ASSUME NEW r \in Task, NEW b \in BOOLEAN
  PROVE  /\ [r EXCEPT !.ok = b] \in Task
         /\ [r EXCEPT !.ok = b].at = r.at /\ [r EXCEPT !.ok = b].kept = r.kept
BY DEF Task

LEMMA NextSet ==
  ASSUME NEW r \in Task, NEW n \in 1 .. Blocks + 1
  PROVE  /\ [r EXCEPT !.next = n] \in Task
         /\ [r EXCEPT !.next = n].at = r.at /\ [r EXCEPT !.next = n].kept = r.kept
BY DEF Task

LEMMA IdleTask ==
  /\ Idle \in Task /\ Idle.at = "idle"
  /\ [Idle EXCEPT !.at = "finish"] \in Task /\ [Idle EXCEPT !.at = "finish"].at = "finish"
  /\ [Idle EXCEPT !.at = "read"] \in Task /\ [Idle EXCEPT !.at = "read"].at = "read"
<1>1. Idle \in Task /\ Idle.at = "idle"
  BY DEF Idle, Task, Places
<1>2. "finish" \in Places /\ "read" \in Places
  BY DEF Places
<1>. QED
  BY <1>1, <1>2, AtSet, Zenon

LEMMA ReadView ==
  ASSUME task \in [Tasks -> Task], NEW t \in Tasks, NEW k \in Modes, OtaKeeps(t, k)
  PROVE  Steps(t, "read", {"disable"}) /\ task'[t].kept = k
<1> DEFINE f == [task[t] EXCEPT !.at = "disable"]
           g == [f EXCEPT !.kept = k]
<1>1. task' = [task EXCEPT ![t] = g] /\ task[t].at = "read"
  BY DEF OtaKeeps
<1>2. task[t] \in Task /\ "disable" \in Places
  BY DEF Places
<1>3. f \in Task /\ f.at = "disable"
  BY <1>2, AtSet, Zenon
<1>4. g \in Task /\ g.at = "disable" /\ g.kept = k
  <2>. HIDE DEF f
  <2>. QED
    BY <1>3, KeptSet, Zenon
<1>. HIDE DEF g
<1>. QED
  BY <1>1, <1>4, Assigned DEF Steps

(* What is kept is the mode of NVS, or the default, without the history     *)
(* telling only when that is the same.                                      *)
LEMMA ReadCases ==
  ASSUME mode \in Modes \cup {Missing}, NEW t \in Tasks, OtaRead(t) \/ OtaMisreads(t)
  PROVE  \E k \in Modes :
           /\ OtaKeeps(t, k)
           /\ "misread" \notin upset' => k = IF mode = Missing THEN DISABLED ELSE mode
<1> DEFINE m == IF mode = Missing THEN DISABLED ELSE mode
<1>1. m \in Modes /\ DISABLED \in Modes
  OBVIOUS
<1>2. CASE OtaRead(t)
  BY <1>1, <1>2 DEF OtaRead
<1>3. CASE OtaMisreads(t)
  <2>1. OtaKeeps(t, DISABLED)
    BY <1>3 DEF OtaMisreads
  <2>2. "misread" \notin upset' => mode \notin {WARN, RESTART}
    BY <2>1 DEF OtaKeeps
  <2>. QED
    BY <1>1, <2>1, <2>2
<1>. QED
  BY <1>2, <1>3

LEMMA GoesView ==
  ASSUME task \in [Tasks -> Task], NEW t \in Tasks, NEW from, NEW to \in Places,
         Goes(t, from, to)
  PROVE  Steps(t, from, {to}) /\ task'[t].kept = task[t].kept
<1> DEFINE f == [task[t] EXCEPT !.at = to]
<1>1. task' = [task EXCEPT ![t] = f] /\ task[t].at = from /\ task[t] \in Task
  BY DEF Goes
<1>2. f \in Task /\ f.at = to /\ f.kept = task[t].kept
  BY <1>1, AtSet, Zenon
<1>. HIDE DEF f
<1>. QED
  BY <1>1, <1>2, Assigned DEF Steps

LEMMA DoneView ==
  ASSUME task \in [Tasks -> Task], NEW t \in Tasks, FirmwareDone(t)
  PROVE  Steps(t, "flash", {"storage"}) /\ task'[t].kept = task[t].kept
<1>0. task[t] \in Task /\ task[t].at = "flash" /\ "storage" \in Places /\ TRUE \in BOOLEAN
  BY DEF FirmwareDone, Places
<1> DEFINE f == [task[t] EXCEPT !.at = "storage"]
           g == [f EXCEPT !.ok = TRUE]
<1>1. f \in Task /\ f.at = "storage" /\ f.kept = task[t].kept
  BY <1>0, AtSet, Zenon
<1>2. g \in Task /\ g.at = "storage" /\ g.kept = task[t].kept
  <2>. HIDE DEF f
  <2>. QED
    BY <1>0, <1>1, OkSet, Zenon
<1>3. task' = [task EXCEPT ![t] = g]
  BY DEF FirmwareDone
<1>. HIDE DEF g
<1>. QED
  BY <1>0, <1>2, <1>3, Assigned DEF Steps

LEMMA ReturnsView ==
  ASSUME task \in [Tasks -> Task], NEW t \in Tasks, NEW from, StorageReturns(t, from)
  PROVE  Steps(t, from, {"restore"}) /\ task'[t].kept = task[t].kept
<1>0. task[t] \in Task /\ task[t].at = from /\ "restore" \in Places /\ 1 \in 1 .. Blocks + 1
  BY DEF StorageReturns, Places
<1> DEFINE f == [task[t] EXCEPT !.at = "restore"]
           g == [f EXCEPT !.next = 1]
<1>1. f \in Task /\ f.at = "restore" /\ f.kept = task[t].kept
  BY <1>0, AtSet, Zenon
<1>2. g \in Task /\ g.at = "restore" /\ g.kept = task[t].kept
  <2>. HIDE DEF f
  <2>. QED
    BY <1>0, <1>1, NextSet, Zenon
<1>3. task' = [task EXCEPT ![t] = g]
  BY DEF StorageReturns
<1>. HIDE DEF g
<1>. QED
  BY <1>0, <1>2, <1>3, Assigned DEF Steps

LEMMA WriteView ==
  ASSUME task \in [Tasks -> Task], NEW t \in Tasks, StorageWrite(t)
  PROVE  Steps(t, "write", {"write"}) /\ task'[t].kept = task[t].kept
<1> DEFINE f == [task[t] EXCEPT !.next = task[t].next + 1]
<1>1. task[t] \in Task /\ task[t].next + 1 \in 1 .. Blocks + 1 /\ task[t].at = "write"
  BY DEF StorageWrite, Task
<1>2. f \in Task /\ f.at = "write" /\ f.kept = task[t].kept
  BY <1>1, NextSet, Zenon
<1>3. task' = [task EXCEPT ![t] = f]
  BY DEF StorageWrite
<1>. HIDE DEF f
<1>. QED
  BY <1>1, <1>2, <1>3, Assigned DEF Steps

LEMMA RestoreView ==
  ASSUME task \in [Tasks -> Task], NEW t \in Tasks, OtaRestore(t)
  PROVE  Steps(t, "restore", {"idle", "finish"})
<1> DEFINE r == IF task[t].ok THEN [Idle EXCEPT !.at = "finish"] ELSE Idle
<1>1. task' = [task EXCEPT ![t] = r] /\ task[t].at = "restore"
  BY DEF OtaRestore
<1>2. r \in Task /\ r.at \in {"idle", "finish"}
  BY IdleTask, Zenon
<1>. HIDE DEF r
<1>. QED
  BY <1>1, <1>2, Assigned DEF Steps

LEMMA FinishView ==
  ASSUME task \in [Tasks -> Task], NEW t \in Tasks, NEW b, OtaFinish(t, b)
  PROVE  Steps(t, "finish", {"idle"})
BY IdleTask, Assigned DEF OtaFinish, Steps

LEMMA StartView ==
  ASSUME task \in [Tasks -> Task], NEW t \in Tasks, StartUpdate(t)
  PROVE  Steps(t, "idle", {"read"})
<1> DEFINE r == [Idle EXCEPT !.at = "read"]
<1>1. task' = [task EXCEPT ![t] = r] /\ task[t].at = "idle"
  BY DEF StartUpdate
<1>2. r \in Task /\ r.at = "read"
  BY IdleTask, Zenon
<1>. HIDE DEF r
<1>. QED
  BY <1>1, <1>2, Assigned DEF Steps

(* The locals of status_task.                                               *)
LEMMA GuardAtSet ==
  ASSUME NEW r \in Guard, NEW a \in {"off", "check", "judge"}
  PROVE  /\ [r EXCEPT !.at = a] \in Guard
         /\ [r EXCEPT !.at = a].at = a /\ [r EXCEPT !.at = a].lows = r.lows
         /\ [r EXCEPT !.at = a].before = r.before
BY DEF Guard

LEMMA GuardModeSet ==
  ASSUME NEW r \in Guard, NEW m \in Modes
  PROVE  /\ [r EXCEPT !.mode = m] \in Guard
         /\ [r EXCEPT !.mode = m].at = r.at /\ [r EXCEPT !.mode = m].lows = r.lows
BY DEF Guard

LEMMA GuardLowsSet ==
  ASSUME NEW r \in Guard, NEW n \in 0 .. Limit - 1
  PROVE  /\ [r EXCEPT !.lows = n] \in Guard
         /\ [r EXCEPT !.lows = n].at = r.at /\ [r EXCEPT !.lows = n].lows = n
         /\ [r EXCEPT !.lows = n].before = r.before
BY DEF Guard

LEMMA GuardBeforeSet ==
  ASSUME NEW r \in Guard, NEW b \in BOOLEAN
  PROVE  /\ [r EXCEPT !.before = b] \in Guard
         /\ [r EXCEPT !.before = b].at = r.at /\ [r EXCEPT !.before = b].lows = r.lows
         /\ [r EXCEPT !.before = b].before = b
BY DEF Guard

LEMMA GuardDeniedSet ==
  ASSUME NEW r \in Guard, NEW b \in BOOLEAN
  PROVE  /\ [r EXCEPT !.denied = b] \in Guard
         /\ [r EXCEPT !.denied = b].at = r.at /\ [r EXCEPT !.denied = b].lows = r.lows
         /\ [r EXCEPT !.denied = b].before = r.before
BY DEF Guard

LEMMA OffGuard ==
  /\ GuardOff \in Guard /\ GuardOff.at = "off" /\ GuardOff.lows = 0
  /\ [GuardOff EXCEPT !.at = "check"] \in Guard
  /\ [GuardOff EXCEPT !.at = "check"].at = "check"
  /\ [GuardOff EXCEPT !.at = "check"].lows = 0
<1>1. GuardOff \in Guard /\ GuardOff.at = "off" /\ GuardOff.lows = 0
  BY DEF GuardOff, Guard
<1>2. "check" \in {"off", "check", "judge"}
  OBVIOUS
<1>. QED
  BY <1>1, <1>2, GuardAtSet, Zenon

LEMMA CheckView ==
  ASSUME guard \in Guard, mode \in Modes \cup {Missing}, GuardCheck
  PROVE  /\ guard.at = "check" /\ guard' \in Guard
         /\ \/ guard'.at = "check" /\ guard'.lows = 0 /\ streak' = 0
            \/ /\ mode # DISABLED
               /\ guard'.at = "judge" /\ guard'.lows = guard.lows /\ streak' = streak
               /\ guard'.before = (~Updating \/ upset # {})
<1> DEFINE b == ~Updating \/ upset # {}
           f == [guard EXCEPT !.at = "judge"]
           g == [f EXCEPT !.mode = mode]
           d == [g EXCEPT !.denied = FALSE]
           h == [d EXCEPT !.before = b]
           y == [guard EXCEPT !.lows = 0]
           z == [y EXCEPT !.denied = FALSE]
<1>0. FALSE \in BOOLEAN /\ b \in BOOLEAN
  OBVIOUS
<1>1. guard.at = "check" /\ mode \in Modes
  BY DEF GuardCheck
<1>2. CASE mode = DISABLED
  <2>1. guard' = z /\ streak' = 0
    BY <1>2 DEF GuardCheck
  <2>2. y \in Guard /\ y.at = guard.at /\ y.lows = 0
    <3>1. 0 \in 0 .. Limit - 1
      OBVIOUS
    <3>. QED
      BY <3>1, GuardLowsSet, Zenon
  <2>3. z \in Guard /\ z.at = guard.at /\ z.lows = 0
    <3>. HIDE DEF y
    <3>. QED
      BY <1>0, <2>2, GuardDeniedSet, Zenon
  <2>. HIDE DEF z
  <2>. QED
    BY <1>1, <2>1, <2>3
<1>3. CASE mode # DISABLED
  <2>1. guard' = h /\ streak' = streak
    BY <1>3 DEF GuardCheck
  <2>2. f \in Guard /\ f.at = "judge" /\ f.lows = guard.lows
    <3>1. "judge" \in {"off", "check", "judge"}
      OBVIOUS
    <3>. QED
      BY <3>1, GuardAtSet, Zenon
  <2>3. g \in Guard /\ g.at = "judge" /\ g.lows = guard.lows
    <3>. HIDE DEF f
    <3>. QED
      BY <1>1, <2>2, GuardModeSet, Zenon
  <2>4. d \in Guard /\ d.at = "judge" /\ d.lows = guard.lows
    <3>. HIDE DEF g
    <3>. QED
      BY <1>0, <2>3, GuardDeniedSet, Zenon
  <2>5. h \in Guard /\ h.at = "judge" /\ h.lows = guard.lows /\ h.before = b
    <3>. HIDE DEF d, b
    <3>. QED
      BY <1>0, <2>4, GuardBeforeSet, Zenon
  <2>. HIDE DEF h
  <2>. QED
    BY <1>1, <1>3, <2>1, <2>5
<1>. QED
  BY <1>2, <1>3

LEMMA JudgeView ==
  ASSUME guard \in Guard, NEW low \in BOOLEAN, GuardJudge(low)
  PROVE  /\ guard.at = "judge" /\ guard' \in Guard /\ guard'.at = "check"
         /\ guard'.lows = IF low THEN Counted(guard.lows) ELSE 0
<1>1. PICK created \in BOOLEAN :
        guard' = [guard EXCEPT !.at = "check",
                               !.lows = IF low THEN Counted(@) ELSE 0,
                               !.denied = AsksRestart(low) /\ ~created]
  BY DEF GuardJudge
<1> DEFINE n == IF low THEN Counted(guard.lows) ELSE 0
           b == AsksRestart(low) /\ ~created
           f == [guard EXCEPT !.at = "check"]
           g == [f EXCEPT !.lows = n]
           h == [g EXCEPT !.denied = b]
<1>2. guard' = h /\ guard.at = "judge"
  BY <1>1 DEF GuardJudge
<1>3. n \in 0 .. Limit - 1
  BY DEF Guard, Counted
<1>4. f \in Guard /\ f.at = "check"
  <2>1. "check" \in {"off", "check", "judge"}
    OBVIOUS
  <2>. QED
    BY <2>1, GuardAtSet, Zenon
<1>5. g \in Guard /\ g.at = "check" /\ g.lows = n
  <2>. HIDE DEF f, n
  <2>. QED
    BY <1>3, <1>4, GuardLowsSet, Zenon
<1>6. h \in Guard /\ h.at = "check" /\ h.lows = n
  <2>. HIDE DEF g, n
  <2>1. b \in BOOLEAN
    OBVIOUS
  <2>. HIDE DEF b
  <2>. QED
    BY <1>5, <2>1, GuardDeniedSet, Zenon
<1>. HIDE DEF h
<1>. QED
  BY <1>2, <1>6

------------------------------------------------------------------------------
(* Types.                                                                   *)

LEMMA TypeParts ==
  TypeOK <=>
    /\ phase \in {"init", "mqtt", "run", "halted"}
    /\ mode \in Modes \cup {Missing} /\ wanted \in Modes
    /\ firmware \in {"old", "new"} /\ running \in {"old", "new"} /\ spoiled \in BOOLEAN
    /\ pages \in [Block -> {"old", "new", "bad", "erased"}]
    /\ task \in [Tasks -> Task] /\ guard \in Guard
    /\ aged \in BOOLEAN /\ reboot \in BOOLEAN
    /\ upset \subseteq {"interrupted", "overlap", "crossed", "crowded", "misread"}
    /\ streak \in 0 .. Limit /\ events \in 0 .. MaxEvents
BY DEF TypeOK, Task, Places, Guard

LEMMA InitType == Init => TypeOK
<1> SUFFICES ASSUME Init PROVE TypeOK
  OBVIOUS
<1>1. task \in [Tasks -> Task] /\ guard \in Guard
  BY IdleTask, OffGuard DEF Init
<1>2. /\ pages \in [Block -> {"old", "new", "bad", "erased"}]
      /\ firmware = "old" /\ running = "old" /\ spoiled = FALSE /\ phase = "init"
  BY DEF Init, Whole
<1>3. /\ mode \in Modes \cup {Missing} /\ wanted \in Modes /\ upset = {}
      /\ aged = FALSE /\ reboot = FALSE /\ streak \in 0 .. Limit /\ events \in 0 .. MaxEvents
  BY DEF Init
<1>. QED
  BY <1>1, <1>2, <1>3, TypeParts

TaskActs(t) == StartUpdate(t) \/ OtaMisreads(t) \/ ServerStep(t) \/ OtaStep(t)

LEMMA TaskStep == TypeOK /\ [Next]_vars => task' \in [Tasks -> Task]
<1> SUFFICES ASSUME TypeOK, [Next]_vars PROVE task' \in [Tasks -> Task]
  OBVIOUS
<1>0. task \in [Tasks -> Task] /\ mode \in Modes \cup {Missing}
  BY TypeParts
<1>1. CASE Restart
  BY <1>1, IdleTask DEF Restart
<1>2. ASSUME NEW t \in Tasks, TaskActs(t)
      PROVE  task' \in [Tasks -> Task]
  <2>1. \A a \in {"firmware", "flash", "write", "restore"} : a \in Places
    BY DEF Places
  <2>2. CASE OtaRead(t) \/ OtaMisreads(t)
    <3>1. PICK k \in Modes : OtaKeeps(t, k)
      BY <1>0, <2>2, ReadCases
    <3>. QED
      BY <1>0, <3>1, ReadView DEF Steps
  <2>3. CASE FirmwareWrite(t)
    BY <1>0, <2>3 DEF FirmwareWrite
  <2>. QED
    BY <1>0, <1>2, <2>1, <2>2, <2>3, StartView, GoesView, DoneView, ReturnsView, WriteView,
       RestoreView, FinishView
       DEF TaskActs, ServerStep, OtaStep, OtaDisable, FirmwareRefused, FirmwareErase,
           FirmwareFails, StorageRefused, StorageErase, StorageDone, Steps
<1>3. CASE UNCHANGED task
  BY <1>0, <1>3
<1>4. Restart \/ (\E t \in Tasks : TaskActs(t)) \/ UNCHANGED task
  BY DEF TaskActs, Next, PowerLoss, Reboot, BootInit, BootMqtt, Ages, GuardStep,
     GuardCheck, GuardAborts, GuardJudge, Request, SetMode, RequestReboot
<1>. QED
  BY <1>1, <1>2, <1>3, <1>4

LEMMA GuardStepType == TypeOK /\ [Next]_vars => guard' \in Guard
<1> SUFFICES ASSUME TypeOK, [Next]_vars PROVE guard' \in Guard
  OBVIOUS
<1>0. guard \in Guard /\ mode \in Modes \cup {Missing}
  BY TypeParts
<1>1. CASE guard' \in {guard, GuardOff, [GuardOff EXCEPT !.at = "check"]}
  BY <1>0, <1>1, OffGuard
<1>2. CASE GuardCheck
  BY <1>0, <1>2, CheckView
<1>3. ASSUME NEW low \in BOOLEAN, GuardJudge(low) PROVE guard' \in Guard
  BY <1>0, <1>3, JudgeView
<1>4. \/ guard' \in {guard, GuardOff, [GuardOff EXCEPT !.at = "check"]}
      \/ GuardCheck \/ \E low \in BOOLEAN : GuardJudge(low)
  BY DEF Next, PowerLoss, Reboot, Restart, BootInit, BootMqtt, Ages,
     GuardStep, GuardAborts, Request, SetMode, RequestReboot,
     StartUpdate, OtaStep, OtaRead, OtaMisreads,
     OtaKeeps, OtaDisable, Goes, ServerStep, FirmwareRefused, FirmwareErase,
     FirmwareWrite, FirmwareFails, FirmwareDone,
     StorageReturns, StorageRefused, StorageErase, StorageWrite,
     StorageDone, OtaRestore, OtaFinish
<1>. QED
  BY <1>1, <1>2, <1>3, <1>4

LEMMA ModeStep == TypeOK /\ [Next]_vars => mode' \in Modes \cup {Missing} /\ wanted' \in Modes
<1> SUFFICES ASSUME TypeOK, [Next]_vars
             PROVE  mode' \in Modes \cup {Missing} /\ wanted' \in Modes
  OBVIOUS
<1>0. mode \in Modes \cup {Missing} /\ wanted \in Modes /\ task \in [Tasks -> Task]
  BY TypeParts
<1>1. ASSUME NEW t \in Tasks, OtaRestore(t)
      PROVE  mode' \in Modes \cup {Missing} /\ wanted' \in Modes
  <2>1. task[t] \in Task /\ mode' = task[t].kept /\ wanted' = wanted
    BY <1>0, <1>1 DEF OtaRestore
  <2>. QED
    BY <1>0, <2>1 DEF Task
<1>2. ASSUME NEW m \in Modes, SetMode(m)
      PROVE  mode' \in Modes \cup {Missing} /\ wanted' \in Modes
  BY <1>2 DEF SetMode, Upset
<1>3. CASE mode' \in {mode, Missing, DISABLED} /\ wanted' \in {wanted, DISABLED}
  BY <1>0, <1>3
<1>4. \/ \E t \in Tasks : OtaRestore(t)
      \/ \E m \in Modes : SetMode(m)
      \/ mode' \in {mode, Missing, DISABLED} /\ wanted' \in {wanted, DISABLED}
  BY DEF Next, PowerLoss, Reboot, Restart, BootInit, BootMqtt, Ages,
     GuardStep, GuardCheck, GuardAborts, GuardJudge, Request,
     RequestReboot, StartUpdate, OtaStep, OtaRead, OtaMisreads,
     OtaKeeps, OtaDisable, Goes, ServerStep, FirmwareRefused, FirmwareErase,
     FirmwareWrite, FirmwareFails, FirmwareDone, StorageReturns, StorageRefused, StorageErase,
     StorageWrite, StorageDone, OtaFinish, Upset
<1>. HIDE DEF Modes, Missing
<1>. QED
  BY <1>1, <1>2, <1>3, <1>4, Zenon

LEMMA PagesStep == TypeOK /\ [Next]_vars =>
  /\ pages' \in [Block -> {"old", "new", "bad", "erased"}]
  /\ firmware' \in {"old", "new"} /\ running' \in {"old", "new"} /\ spoiled' \in BOOLEAN
<1> SUFFICES ASSUME TypeOK, [Next]_vars
             PROVE  /\ pages' \in [Block -> {"old", "new", "bad", "erased"}]
                    /\ firmware' \in {"old", "new"} /\ running' \in {"old", "new"}
                    /\ spoiled' \in BOOLEAN
  OBVIOUS
<1>0. /\ pages \in [Block -> {"old", "new", "bad", "erased"}]
      /\ firmware \in {"old", "new"} /\ running \in {"old", "new"} /\ spoiled \in BOOLEAN
  BY TypeParts
<1>a. ASSUME NEW t \in Tasks, FirmwareErase(t) \/ FirmwareWrite(t) \/ FirmwareDone(t)
      PROVE  firmware' \in {running, "new"} /\ running' = running /\ spoiled' \in BOOLEAN
  BY <1>0, <1>a DEF FirmwareErase, FirmwareWrite, FirmwareDone
<1>b. \/ \E t \in Tasks : FirmwareErase(t) \/ FirmwareWrite(t) \/ FirmwareDone(t)
      \/ firmware' = firmware /\ running' \in {running, firmware} /\ spoiled' = spoiled
  BY DEF Next, PowerLoss, Reboot, Restart, BootInit, BootMqtt, Ages,
     GuardStep, GuardCheck, GuardAborts, GuardJudge, Request, SetMode,
     RequestReboot, StartUpdate, OtaStep, OtaRead, OtaMisreads, OtaKeeps, OtaDisable,
     Goes, ServerStep, FirmwareRefused, FirmwareFails, StorageReturns,
     StorageRefused, StorageErase, StorageWrite, StorageDone, OtaRestore, OtaFinish
<1>1. firmware' \in {"old", "new"} /\ running' \in {"old", "new"} /\ spoiled' \in BOOLEAN
  BY <1>0, <1>a, <1>b
<1>2. ASSUME NEW t \in Tasks, StorageWrite(t)
      PROVE  pages' \in [Block -> {"old", "new", "bad", "erased"}]
  BY <1>0, <1>2 DEF StorageWrite
<1>3. CASE pages' \in {pages, Erased}
  <2>1. Erased \in [Block -> {"old", "new", "bad", "erased"}]
    BY DEF Erased, Whole
  <2>. HIDE DEF Block
  <2>. QED
    BY <1>0, <1>1, <1>3, <2>1, Zenon
<1>4. (\E t \in Tasks : StorageWrite(t)) \/ pages' \in {pages, Erased}
  BY DEF Next, PowerLoss, Reboot, Restart, BootInit, BootMqtt, Ages,
     GuardStep, GuardCheck, GuardAborts, GuardJudge, Request, SetMode,
     RequestReboot, StartUpdate, OtaStep, OtaRead, OtaMisreads,
     OtaKeeps, OtaDisable, Goes, ServerStep, FirmwareRefused, FirmwareErase,
     FirmwareWrite, FirmwareFails, FirmwareDone, StorageReturns, StorageRefused, StorageErase,
     StorageDone, OtaRestore, OtaFinish, Upset
<1>. QED
  BY <1>0, <1>1, <1>2, <1>3, <1>4

LEMMA RestStep == TypeOK /\ [Next]_vars =>
  /\ phase' \in {"init", "mqtt", "run", "halted"}
  /\ aged' \in BOOLEAN /\ reboot' \in BOOLEAN
  /\ upset' \subseteq {"interrupted", "overlap", "crossed", "crowded", "misread"}
  /\ streak' \in 0 .. Limit /\ events' \in 0 .. MaxEvents
<1> SUFFICES ASSUME TypeOK, [Next]_vars
             PROVE  /\ phase' \in {"init", "mqtt", "run", "halted"}
                    /\ aged' \in BOOLEAN /\ reboot' \in BOOLEAN
                    /\ upset' \subseteq {"interrupted", "overlap", "crossed", "crowded", "misread"}
                    /\ streak' \in 0 .. Limit /\ events' \in 0 .. MaxEvents
  OBVIOUS
<1>0. /\ phase \in {"init", "mqtt", "run", "halted"}
      /\ aged \in BOOLEAN /\ reboot \in BOOLEAN
      /\ upset \subseteq {"interrupted", "overlap", "crossed", "crowded", "misread"}
      /\ streak \in 0 .. Limit /\ events \in 0 .. MaxEvents
  BY TypeParts
<1>1. phase' \in {phase, "init", "mqtt", "run", "halted"} /\ aged' \in {aged, TRUE, FALSE}
  BY DEF Next, PowerLoss, Reboot, Restart, BootInit, BootMqtt, Ages,
     GuardStep, GuardCheck, GuardAborts, GuardJudge, Request, SetMode,
     RequestReboot, StartUpdate, OtaStep, OtaRead, OtaMisreads,
     OtaKeeps, OtaDisable, Goes, ServerStep, FirmwareRefused, FirmwareErase,
     FirmwareWrite, FirmwareFails, FirmwareDone, StorageReturns, StorageRefused, StorageErase,
     StorageWrite, StorageDone, OtaRestore, OtaFinish, Upset
<1>2. upset' \subseteq upset \cup {"interrupted", "overlap", "crossed", "crowded", "misread"}
  BY DEF Next, PowerLoss, Reboot, Restart, BootInit, BootMqtt, Ages,
     GuardStep, GuardCheck, GuardAborts, GuardJudge, Request, SetMode,
     RequestReboot, StartUpdate, OtaStep, OtaRead, OtaMisreads,
     OtaKeeps, OtaDisable, Goes, ServerStep, FirmwareRefused, FirmwareErase,
     FirmwareWrite, FirmwareFails, FirmwareDone, StorageReturns, StorageRefused, StorageErase,
     StorageWrite, StorageDone, OtaRestore, OtaFinish, Upset
<1>3. events' = events \/ (events < MaxEvents /\ events' = events + 1)
  BY DEF Next, PowerLoss, Reboot, Restart, BootInit, BootMqtt, Ages,
     GuardStep, GuardCheck, GuardAborts, GuardJudge, Request, SetMode,
     RequestReboot, StartUpdate, OtaStep, OtaRead, OtaMisreads,
     OtaKeeps, OtaDisable, Goes, ServerStep, FirmwareRefused, FirmwareErase,
     FirmwareWrite, FirmwareFails, FirmwareDone, StorageReturns, StorageRefused, StorageErase,
     StorageWrite, StorageDone, OtaRestore, OtaFinish, Upset, Happens
<1>4. ASSUME NEW low \in BOOLEAN, GuardJudge(low)
      PROVE  reboot' \in BOOLEAN /\ streak' \in 0 .. Limit
  <2>1. reboot' \in BOOLEAN
    <3>1. PICK created \in BOOLEAN : reboot' = (reboot \/ (AsksRestart(low) /\ created))
      BY <1>4 DEF GuardJudge
    <3>. QED
      BY <3>1
  <2>2. streak' \in 0 .. Limit
    BY <1>0, <1>4 DEF GuardJudge
  <2>. QED
    BY <2>1, <2>2
<1>5. (\E low \in BOOLEAN : GuardJudge(low)) \/ (reboot' \in {reboot, TRUE, FALSE} /\ streak' \in {streak, 0})
  BY DEF Next, PowerLoss, Reboot, Restart, BootInit, BootMqtt, Ages,
     GuardStep, GuardCheck, GuardAborts, Request, SetMode, RequestReboot,
     StartUpdate, OtaStep, OtaRead, OtaMisreads,
     OtaKeeps, OtaDisable, Goes, ServerStep, FirmwareRefused, FirmwareErase,
     FirmwareWrite, FirmwareFails, FirmwareDone,
     StorageReturns, StorageRefused, StorageErase, StorageWrite,
     StorageDone, OtaRestore, OtaFinish, Upset
<1>6. reboot' \in BOOLEAN /\ streak' \in 0 .. Limit
  <2>1. CASE reboot' \in {reboot, TRUE, FALSE} /\ streak' \in {streak, 0}
    <3>1. reboot' \in BOOLEAN
      BY <1>0, <2>1, Zenon
    <3>2. streak' \in 0 .. Limit
      BY <1>0, <2>1
    <3>. QED
      BY <3>1, <3>2
  <2>. QED
    BY <1>4, <1>5, <2>1
<1>7. events' \in 0 .. MaxEvents
  BY <1>0, <1>3
<1>8. /\ phase' \in {"init", "mqtt", "run", "halted"} /\ aged' \in BOOLEAN
      /\ upset' \subseteq {"interrupted", "overlap", "crossed", "crowded", "misread"}
  BY <1>0, <1>1, <1>2
<1>. QED
  BY <1>6, <1>7, <1>8

LEMMA TypeStep == TypeOK /\ [Next]_vars => TypeOK'
<1> SUFFICES ASSUME TypeOK, [Next]_vars PROVE TypeOK'
  OBVIOUS
<1>1. task' \in [Tasks -> Task] /\ guard' \in Guard
  BY TaskStep, GuardStepType
<1>2. mode' \in Modes \cup {Missing} /\ wanted' \in Modes
  BY ModeStep
<1>3. /\ pages' \in [Block -> {"old", "new", "bad", "erased"}] /\ firmware' \in {"old", "new"}
      /\ running' \in {"old", "new"} /\ spoiled' \in BOOLEAN
  BY PagesStep
<1>4. /\ phase' \in {"init", "mqtt", "run", "halted"}
      /\ aged' \in BOOLEAN /\ reboot' \in BOOLEAN
      /\ upset' \subseteq {"interrupted", "overlap", "crossed", "crowded", "misread"}
      /\ streak' \in 0 .. Limit /\ events' \in 0 .. MaxEvents
  BY RestStep
<1>. QED
  BY <1>1, <1>2, <1>3, <1>4 DEF TypeOK, Task, Places, Guard

(* Every variable of updates and memory guard keeps its type; the count of  *)
(* low checks starts anew before it reaches the limit, whatever the limit.  *)
THEOREM TypeCorrect == Spec => []TypeOK
BY InitType, TypeStep, PTL DEF Spec

------------------------------------------------------------------------------
(* The pages.                                                               *)

(* Firmware that is in place was spoiled, if another download may break it. *)
FlashInv ==
  /\ \A t \in Tasks : task[t].at = "flash" /\ firmware # running => spoiled
  /\ \A t, u \in Tasks : task[t].at = "flash" /\ task[u].at = "flash" /\ t # u => spoiled
PagesInv ==
  /\ PagesFollowFirmware
  /\ \A t \in Tasks : task[t].at \in {"storage", "write"} => firmware = "new" \/ spoiled
  /\ FlashInv

LEMMA PagesInvStep == TypeOK /\ PagesInv /\ [Next]_vars => PagesInv'
<1> SUFFICES ASSUME TypeOK, PagesInv, [Next]_vars PROVE PagesInv'
  OBVIOUS
<1> USE DEF PagesInv, PagesFollowFirmware, FlashInv
<1>0. task \in [Tasks -> Task] /\ mode \in Modes \cup {Missing} /\ spoiled \in BOOLEAN
  BY TypeParts
<1>a. \A a \in {"firmware", "flash", "write", "restore"} : a \in Places
  BY DEF Places
<1>1. CASE Restart
  BY <1>1, IdleTask DEF Restart, Whole
<1>2. CASE BootInit
  <2>1. pages' # Whole("old") => firmware = "new" \/ spoiled
    BY <1>2 DEF BootInit, PagesWhole
  <2>2. UNCHANGED <<task, image>>
    BY <1>2 DEF BootInit
  <2>. QED
    BY <2>1, <2>2 DEF Whole
<1>3. ASSUME NEW t \in Tasks, FirmwareErase(t) PROVE PagesInv'
  <2>1. Steps(t, "firmware", {"flash"})
    BY <1>0, <1>3, <1>a, GoesView DEF FirmwareErase
  <2>2. /\ UNCHANGED <<pages, running>> /\ firmware' = running
        /\ spoiled' = (spoiled \/ firmware # running \/ Shares(t))
    BY <1>3 DEF FirmwareErase
  <2>3. firmware' = firmware \/ spoiled'
    BY <2>2
  <2>4. spoiled => spoiled'
    BY <2>2
  <2>5. \A u \in Tasks \ {t} : task'[u].at = "flash" => spoiled'
    BY <2>1, <2>2 DEF Steps, Shares
  <2>6. PagesFollowFirmware'
    BY <2>2, <2>3, <2>4 DEF Whole
  <2>7. \A u \in Tasks : task'[u].at \in {"storage", "write"} => firmware' = "new" \/ spoiled'
    BY <2>1, <2>3, <2>4 DEF Steps
  <2>. QED
    BY <2>2, <2>5, <2>6, <2>7
<1>4. ASSUME NEW t \in Tasks, FirmwareDone(t) PROVE PagesInv'
  <2>1. Steps(t, "flash", {"storage"})
    BY <1>0, <1>4, DoneView
  <2>2. /\ UNCHANGED <<pages, running>> /\ firmware' = "new"
        /\ spoiled' = (spoiled /\ Shares(t))
    BY <1>4 DEF FirmwareDone
  <2>3. \A u \in Tasks : task'[u].at = "flash" => u # t /\ task[u].at = "flash"
    BY <2>1 DEF Steps
  <2>4. \A u \in Tasks : task'[u].at = "flash" => spoiled /\ Shares(t)
    BY <2>1, <2>3 DEF Steps, Shares
  <2>. QED
    BY <2>2, <2>4
<1>5. ASSUME NEW t \in Tasks, FirmwareWrite(t) PROVE PagesInv'
  <2>1. spoiled /\ UNCHANGED <<task, pages, spoiled>>
    BY <1>5 DEF FirmwareWrite
  <2>. QED
    BY <2>1
<1>6. ASSUME NEW t \in Tasks, StorageErase(t) \/ StorageWrite(t) PROVE PagesInv'
  <2>1. UNCHANGED image /\ (firmware = "new" \/ spoiled)
    BY <1>6 DEF StorageErase, StorageWrite, Goes
  <2>2. Steps(t, "storage", {"write"}) \/ Steps(t, "write", {"write"})
    BY <1>0, <1>6, <1>a, GoesView, WriteView DEF StorageErase
  <2>3. \A u \in Tasks : task'[u].at = "flash" => task[u].at = "flash"
    BY <2>2 DEF Steps
  <2>. QED
    BY <2>1, <2>3
<1>7. ASSUME NEW t \in Tasks, NEW from, NEW to,
             Steps(t, from, to), to \cap {"storage", "write", "flash"} = {},
             UNCHANGED <<pages, image>>
      PROVE  PagesInv'
  <2>1. \A u \in Tasks : /\ task'[u].at = "flash" => task[u].at = "flash"
                         /\ task'[u].at \in {"storage", "write"} => task'[u].at = task[u].at
    BY <1>7 DEF Steps
  <2>. QED
    BY <1>7, <2>1 DEF Whole
<1>8. ASSUME NEW t \in Tasks, OtaRead(t) \/ OtaMisreads(t) PROVE PagesInv'
  <2>1. PICK k \in Modes : OtaKeeps(t, k)
    BY <1>0, <1>8, ReadCases
  <2>2. Steps(t, "read", {"disable"}) /\ UNCHANGED <<pages, image>>
    BY <1>0, <2>1, ReadView DEF OtaKeeps
  <2>. QED
    BY <1>7, <2>2
<1>9. ASSUME NEW t \in Tasks, OtaDisable(t) \/ FirmwareRefused(t) \/ FirmwareFails(t)
      PROVE  PagesInv'
  <2>1. \/ Steps(t, "disable", {"firmware"}) \/ Steps(t, "firmware", {"restore"})
        \/ Steps(t, "flash", {"restore"})
    BY <1>0, <1>9, <1>a, GoesView DEF OtaDisable, FirmwareRefused, FirmwareFails
  <2>2. UNCHANGED <<pages, image>>
    BY <1>9 DEF OtaDisable, FirmwareRefused, FirmwareFails
  <2>. QED
    BY <1>7, <2>1, <2>2
<1>10. ASSUME NEW t \in Tasks, StorageRefused(t) \/ StorageDone(t) PROVE PagesInv'
  <2>1. Steps(t, "storage", {"restore"}) \/ Steps(t, "write", {"restore"})
    BY <1>0, <1>10, ReturnsView DEF StorageRefused, StorageDone
  <2>2. UNCHANGED <<pages, image>>
    BY <1>10 DEF StorageRefused, StorageDone, StorageReturns
  <2>. QED
    BY <1>7, <2>1, <2>2
<1>11. ASSUME NEW t \in Tasks, OtaRestore(t) PROVE PagesInv'
  BY <1>0, <1>7, <1>11, RestoreView DEF OtaRestore
<1>12. ASSUME NEW t \in Tasks, NEW b \in BOOLEAN, OtaFinish(t, b) PROVE PagesInv'
  BY <1>0, <1>7, <1>12, FinishView DEF OtaFinish
<1>13. ASSUME NEW t \in Tasks, StartUpdate(t) PROVE PagesInv'
  BY <1>0, <1>7, <1>13, StartView DEF StartUpdate
<1>14. CASE UNCHANGED <<task, pages, image>>
  BY <1>14 DEF Whole
<1>15. \/ Restart \/ BootInit
       \/ \E t \in Tasks : TaskActs(t)
       \/ UNCHANGED <<task, pages, image>>
  BY DEF TaskActs, Next, PowerLoss, Reboot, BootMqtt, Ages, GuardStep, GuardCheck,
     GuardAborts, GuardJudge, Request, SetMode, RequestReboot
<1>. QED
  BY <1>1, <1>2, <1>3, <1>4, <1>5, <1>6, <1>8, <1>9, <1>10, <1>11, <1>12, <1>13, <1>14, <1>15
     DEF TaskActs, ServerStep, OtaStep

(* The pages are touched only once the new firmware is in place, however    *)
(* many updates run and wherever power fails, and it stays in place unless  *)
(* a later update erases it and fails (ota_update_task, esp_https_ota,      *)
(* download_and_update_spiffs_partition).                                   *)
THEOREM PagesFollow == Spec => []PagesFollowFirmware
<1>1. Init => PagesInv
  BY IdleTask DEF Init, PagesInv, PagesFollowFirmware, FlashInv
<1>2. PagesInv => PagesFollowFirmware
  BY DEF PagesInv
<1>. QED
  BY <1>1, <1>2, TypeCorrect, PagesInvStep, PTL DEF Spec

------------------------------------------------------------------------------
(* The mode of the guard.                                                   *)

Clean == upset \cap {"interrupted", "overlap", "crossed", "misread"} = {}

(* Every update that has read the mode has read the one that the user       *)
(* chose, and NVS has it while none has switched the guard off.             *)
KeptInv ==
  /\ mode = Missing => wanted = DISABLED
  /\ Clean => \A t \in Tasks : Holds(t) => task[t].kept = wanted
  /\ Clean /\ ~Updating => mode \in {Missing, wanted}

LEMMA KeptStep == TypeOK /\ KeptInv /\ [Next]_vars => KeptInv'
<1> SUFFICES ASSUME TypeOK, KeptInv, [Next]_vars PROVE KeptInv'
  OBVIOUS
<1> USE DEF KeptInv, Holds, Off, Updating, Clean
<1>0. task \in [Tasks -> Task] /\ mode \in Modes \cup {Missing} /\ wanted \in Modes
  BY TypeParts
<1>1. CASE Restart
  BY <1>1, IdleTask DEF Restart
<1>2. CASE BootInit
  <2>1. /\ mode' = IF mode = Missing THEN DISABLED ELSE mode
        /\ UNCHANGED <<task, wanted, upset>>
    BY <1>2 DEF BootInit
  <2>. QED
    BY <1>0, <2>1
(* Somebody other than an update sets the mode.                             *)
<1>3. ASSUME NEW m \in Modes, Upset(m), mode' = m \/ (mode' = Missing /\ m = DISABLED),
             \A t \in Tasks : Holds(t) <=> Holds(t)',
             \A t \in Tasks : Off(t) <=> Off(t)'
      PROVE  KeptInv'
  BY <1>3 DEF Upset
<1>4. ASSUME NEW m \in Modes, SetMode(m) PROVE KeptInv'
  BY <1>3, <1>4 DEF SetMode
<1>5. ASSUME NEW b \in BOOLEAN, RequestReboot(b) PROVE KeptInv'
  <2>1. CASE b
    BY <1>3, <1>5, <2>1 DEF RequestReboot
  <2>2. CASE ~b
    BY <1>5, <2>2 DEF RequestReboot
  <2>. QED
    BY <2>1, <2>2
<1>6. ASSUME NEW t \in Tasks, OtaRead(t) \/ OtaMisreads(t) PROVE KeptInv'
  <2>0. PICK k \in Modes :
          /\ OtaKeeps(t, k)
          /\ "misread" \notin upset' => k = IF mode = Missing THEN DISABLED ELSE mode
    BY <1>0, <1>6, ReadCases
  <2>1. Steps(t, "read", {"disable"}) /\ task'[t].kept = k
    BY <1>0, <2>0, ReadView
  <2>2. UNCHANGED <<mode, wanted>> /\ upset \subseteq upset' /\ (Updating => "overlap" \in upset')
    BY <2>0 DEF OtaKeeps
  <2>3. Updating' <=> Updating
    BY <2>1 DEF Steps
  <2>4. Clean' => Clean /\ ~Updating
    BY <2>2
  <2>5. Clean' => task'[t].kept = wanted
    BY <1>0, <2>0, <2>1, <2>4
  <2>6. Clean' => \A u \in Tasks : Holds(u)' => task'[u].kept = wanted
    BY <2>1, <2>4, <2>5 DEF Steps
  <2>. QED
    BY <2>2, <2>3, <2>4, <2>6
<1>7. ASSUME NEW t \in Tasks, OtaDisable(t) PROVE KeptInv'
  <2>0. "firmware" \in Places
    BY DEF Places
  <2>1. Steps(t, "disable", {"firmware"}) /\ task'[t].kept = task[t].kept
    BY <1>0, <1>7, <2>0, GoesView DEF OtaDisable
  <2>2. UNCHANGED <<wanted, upset>> /\ mode' = DISABLED
    BY <1>7 DEF OtaDisable
  <2>3. Updating'
    BY <2>1 DEF Steps
  <2>4. Clean' => \A u \in Tasks : Holds(u)' => task'[u].kept = wanted
    BY <2>1, <2>2 DEF Steps
  <2>. QED
    BY <2>2, <2>3, <2>4
(* An update goes on, with the guard switched off.                          *)
<1>8. ASSUME NEW t \in Tasks, NEW from \in {"firmware", "flash", "storage", "write"},
             NEW to \in SUBSET {"flash", "storage", "write", "restore"},
             Steps(t, from, to), task'[t].kept = task[t].kept,
             UNCHANGED <<mode, wanted, upset>>
      PROVE  KeptInv'
  <2>1. Updating'
    BY <1>8 DEF Steps
  <2>2. Clean' => \A u \in Tasks : Holds(u)' => task'[u].kept = wanted
    BY <1>8 DEF Steps
  <2>. QED
    BY <1>8, <2>1, <2>2
<1>9. ASSUME NEW t \in Tasks,
             \/ FirmwareRefused(t) \/ FirmwareErase(t) \/ FirmwareFails(t)
             \/ FirmwareDone(t) \/ StorageRefused(t) \/ StorageErase(t)
             \/ StorageWrite(t) \/ StorageDone(t)
      PROVE  KeptInv'
  <2>0. /\ \A a \in {"flash", "write", "restore"} : a \in Places
        /\ UNCHANGED <<mode, wanted, upset>>
    BY <1>9 DEF Places, FirmwareRefused, FirmwareErase, FirmwareFails, FirmwareDone,
       StorageRefused, StorageErase, StorageWrite,
       StorageDone, StorageReturns
  <2>1. CASE FirmwareDone(t)
    BY <1>0, <1>8, <2>0, <2>1, DoneView
  <2>6. CASE FirmwareRefused(t)
    BY <1>0, <1>8, <2>0, <2>6, GoesView DEF FirmwareRefused
  <2>7. CASE FirmwareErase(t)
    BY <1>0, <1>8, <2>0, <2>7, GoesView DEF FirmwareErase
  <2>8. CASE FirmwareFails(t)
    BY <1>0, <1>8, <2>0, <2>8, GoesView DEF FirmwareFails
  <2>2. CASE StorageRefused(t)
    BY <1>0, <1>8, <2>0, <2>2, ReturnsView DEF StorageRefused
  <2>3. CASE StorageErase(t)
    BY <1>0, <1>8, <2>0, <2>3, GoesView DEF StorageErase
  <2>4. CASE StorageWrite(t)
    BY <1>0, <1>8, <2>0, <2>4, WriteView
  <2>5. CASE StorageDone(t)
    BY <1>0, <1>8, <2>0, <2>5, ReturnsView DEF StorageDone
  <2>. QED
    BY <1>9, <2>1, <2>2, <2>3, <2>4, <2>5, <2>6, <2>7, <2>8
<1>10. ASSUME NEW t \in Tasks, OtaRestore(t) PROVE KeptInv'
  <2>1. Steps(t, "restore", {"idle", "finish"})
    BY <1>0, <1>10, RestoreView
  <2>2. UNCHANGED <<wanted, upset>> /\ mode' = task[t].kept
    BY <1>10 DEF OtaRestore
  <2>3. Clean => task[t].kept = wanted
    BY <2>1 DEF Steps
  <2>4. Clean' => \A u \in Tasks : Holds(u)' => task'[u].kept = wanted
    BY <2>1, <2>2 DEF Steps
  <2>5. mode' \in Modes
    BY <1>0, <2>2 DEF Task
  <2>. QED
    BY <2>2, <2>3, <2>4, <2>5
<1>11. ASSUME NEW t \in Tasks, NEW b \in BOOLEAN, OtaFinish(t, b) PROVE KeptInv'
  <2>1. Steps(t, "finish", {"idle"})
    BY <1>0, <1>11, FinishView
  <2>2. /\ \A u \in Tasks : Holds(u) <=> Holds(u)'
        /\ \A u \in Tasks : Off(u) <=> Off(u)'
        /\ \A u \in Tasks : Holds(u) => task'[u] = task[u]
    BY <2>1 DEF Steps
  <2>3. CASE b
    BY <1>3, <1>11, <2>2, <2>3 DEF OtaFinish
  <2>4. CASE ~b
    <3>1. UNCHANGED <<mode, wanted, upset>>
      BY <1>11, <2>4 DEF OtaFinish
    <3>. QED
      BY <2>2, <3>1
  <2>. QED
    BY <2>3, <2>4
<1>12. ASSUME NEW t \in Tasks, StartUpdate(t) PROVE KeptInv'
  <2>1. Steps(t, "idle", {"read"}) /\ UNCHANGED <<mode, wanted, upset>>
    BY <1>0, <1>12, StartView DEF StartUpdate
  <2>2. /\ \A u \in Tasks : Holds(u) <=> Holds(u)'
        /\ \A u \in Tasks : Off(u) <=> Off(u)'
        /\ \A u \in Tasks : Holds(u) => task'[u] = task[u]
    BY <2>1 DEF Steps
  <2>. QED
    BY <2>1, <2>2
<1>13. CASE UNCHANGED <<mode, task, wanted, upset>>
  BY <1>13
<1>14. \/ Restart \/ BootInit
       \/ \E m \in Modes : SetMode(m)
       \/ \E b \in BOOLEAN : RequestReboot(b)
       \/ \E t \in Tasks : TaskActs(t)
       \/ UNCHANGED <<mode, task, wanted, upset>>
  BY DEF TaskActs, Next, PowerLoss, Reboot, BootMqtt, Ages, GuardStep, GuardCheck,
     GuardAborts, GuardJudge, Request
<1>. QED
  BY <1>1, <1>2, <1>4, <1>5, <1>6, <1>7, <1>9, <1>10, <1>11, <1>12, <1>13, <1>14
     DEF TaskActs, ServerStep, OtaStep, FirmwareWrite

(* When no update is under way the guard has the mode that the user chose,  *)
(* however many updates ran and failed - unless one was interrupted, read   *)
(* the mode while another had switched the guard off, or held an older mode *)
(* while a user chose (ota_update_task).                                    *)
THEOREM ModeKept == Spec => []GuardModeKept
<1>1. Init => KeptInv
  BY IdleTask DEF Init, KeptInv, Holds, Clean
<1>2. KeptInv => GuardModeKept
  BY DEF KeptInv, GuardModeKept, Clean, Updating, Off, Holds
<1>. QED
  BY <1>1, <1>2, TypeCorrect, KeptStep, PTL DEF Spec

------------------------------------------------------------------------------
(* The count of the guard.                                                  *)

(* The count never runs ahead of the low checks that came in a row.         *)
CountInv == guard.lows <= streak

LEMMA CountStep == TypeOK /\ CountInv /\ [Next]_vars => CountInv'
<1> SUFFICES ASSUME TypeOK, CountInv, [Next]_vars PROVE CountInv'
  OBVIOUS
<1> USE DEF CountInv
<1>0. /\ guard \in Guard /\ mode \in Modes \cup {Missing}
      /\ streak \in 0 .. Limit /\ guard.lows \in 0 .. Limit - 1
  BY TypeParts DEF Guard
<1>1. CASE guard' = GuardOff /\ streak' = 0
  BY <1>1, OffGuard
<1>2. CASE guard' = [GuardOff EXCEPT !.at = "check"] /\ streak' = streak
  BY <1>0, <1>2, OffGuard
<1>3. CASE GuardCheck
  BY <1>0, <1>3, CheckView
<1>4. ASSUME NEW low \in BOOLEAN, GuardJudge(low) PROVE CountInv'
  <2>1. guard'.lows = IF low THEN Counted(guard.lows) ELSE 0
    BY <1>0, <1>4, JudgeView
  <2>2. streak' = IF low THEN IF streak < Limit THEN streak + 1 ELSE Limit ELSE 0
    BY <1>4 DEF GuardJudge
  <2>. QED
    BY <1>0, <2>1, <2>2 DEF Counted
<1>5. CASE guard' = guard /\ streak' = streak
  BY <1>5
<1>6. \/ guard' = GuardOff /\ streak' = 0
      \/ guard' = [GuardOff EXCEPT !.at = "check"] /\ streak' = streak
      \/ GuardCheck \/ \E low \in BOOLEAN : GuardJudge(low)
      \/ guard' = guard /\ streak' = streak
  BY DEF Next, PowerLoss, Reboot, Restart, BootInit, BootMqtt, Ages,
     GuardStep, GuardAborts, Request, SetMode, RequestReboot,
     StartUpdate, OtaStep, OtaRead, OtaMisreads,
     OtaKeeps, OtaDisable, Goes, ServerStep, FirmwareRefused, FirmwareErase,
     FirmwareWrite, FirmwareFails, FirmwareDone,
     StorageReturns, StorageRefused, StorageErase, StorageWrite,
     StorageDone, OtaRestore, OtaFinish
<1>. QED
  BY <1>1, <1>2, <1>3, <1>4, <1>5, <1>6

(* Only a judgement of the guard asks for a restart and changes its locals. *)
LEMMA OnlyJudgement ==
  ASSUME [Next]_vars, guard.at = "judge", reboot', ~reboot, guard' # guard
  PROVE  \E low \in BOOLEAN : GuardJudge(low)
BY DEF Next, PowerLoss, Reboot, Restart, BootInit, BootMqtt, Ages,
   GuardStep, GuardCheck, GuardAborts, Request, SetMode, RequestReboot,
   StartUpdate, OtaStep, OtaRead, OtaMisreads,
     OtaKeeps, OtaDisable, Goes, ServerStep, FirmwareRefused, FirmwareErase,
     FirmwareWrite, FirmwareFails, FirmwareDone,
   StorageReturns, StorageRefused, StorageErase, StorageWrite,
   StorageDone, OtaRestore, OtaFinish

LEMMA CauseStep ==
  TypeOK /\ CountInv /\ [Next]_vars
  => [guard.at = "judge" /\ reboot' /\ ~reboot /\ guard' # guard
        => streak' = Limit /\ aged]_vars
<1> SUFFICES ASSUME TypeOK, CountInv, [Next]_vars,
                    guard.at = "judge", reboot', ~reboot, guard' # guard
             PROVE  streak' = Limit /\ aged
  OBVIOUS
<1>0. streak \in 0 .. Limit /\ guard.lows \in 0 .. Limit - 1 /\ guard.lows <= streak
  BY TypeParts DEF Guard, CountInv
<1>1. PICK low \in BOOLEAN : GuardJudge(low)
  BY OnlyJudgement
<1>2. low /\ guard.lows + 1 >= Limit /\ aged
  <2>1. PICK created \in BOOLEAN : reboot' = (reboot \/ (AsksRestart(low) /\ created))
    BY <1>1 DEF GuardJudge
  <2>. QED
    BY <2>1 DEF AsksRestart
<1>3. streak' = IF low THEN IF streak < Limit THEN streak + 1 ELSE Limit ELSE 0
  BY <1>1 DEF GuardJudge
<1>4. streak' = IF streak < Limit THEN streak + 1 ELSE Limit
  BY <1>2, <1>3
<1>5. streak' = Limit
  BY <1>0, <1>2, <1>4
<1>. QED
  BY <1>2, <1>5

(* The guard restarts the device only after Limit low checks in a row, for  *)
(* any limit, and never before the protected time after a start has passed  *)
(* (status_task).                                                           *)
THEOREM RestartsHaveCause == Spec => GuardHasCause
<1>1. Init => CountInv
  BY OffGuard DEF Init, CountInv
<1>. QED
  BY <1>1, TypeCorrect, CountStep, CauseStep, PTL DEF Spec, GuardHasCause

------------------------------------------------------------------------------
(* The guard and the updates.                                               *)

(* While nothing came between, there is one update at most, and the guard   *)
(* is off from the time it is switched off until the mode is restored.      *)
LoneInv ==
  upset = {} =>
    /\ \A t, u \in Tasks : Holds(t) /\ Holds(u) => t = u
    /\ Updating => mode = DISABLED

LEMMA LoneStep == TypeOK /\ LoneInv /\ [Next]_vars => LoneInv'
<1> SUFFICES ASSUME TypeOK, LoneInv, [Next]_vars PROVE LoneInv'
  OBVIOUS
<1> USE DEF LoneInv, Holds, Off, Updating
<1>0. task \in [Tasks -> Task] /\ mode \in Modes \cup {Missing}
  BY TypeParts
<1>1. CASE Restart
  BY <1>1, IdleTask DEF Restart
<1>2. CASE BootInit
  BY <1>0, <1>2 DEF BootInit
(* Somebody other than an update sets the mode.                             *)
<1>3. ASSUME NEW m, Upset(m), \A t \in Tasks : Holds(t)' => Holds(t)
      PROVE  LoneInv'
  BY <1>3 DEF Upset
<1>4. ASSUME NEW m \in Modes, SetMode(m) PROVE LoneInv'
  BY <1>3, <1>4 DEF SetMode
<1>5. ASSUME NEW b \in BOOLEAN, RequestReboot(b) PROVE LoneInv'
  <2>1. CASE b
    BY <1>3, <1>5, <2>1 DEF RequestReboot
  <2>2. CASE ~b
    BY <1>5, <2>2 DEF RequestReboot
  <2>. QED
    BY <2>1, <2>2
<1>6. ASSUME NEW t \in Tasks, OtaRead(t) \/ OtaMisreads(t) PROVE LoneInv'
  <2>0. PICK k \in Modes : OtaKeeps(t, k)
    BY <1>0, <1>6, ReadCases
  <2>1. Steps(t, "read", {"disable"})
    BY <1>0, <2>0, ReadView
  <2>2. upset \subseteq upset' /\ ((\E u \in Tasks : Holds(u)) => "crowded" \in upset')
    BY <2>0 DEF OtaKeeps
  <2>3. upset' = {} => \A u \in Tasks : ~Holds(u)
    BY <2>2
  <2>4. upset' = {} => \A u \in Tasks : (Holds(u)' => u = t) /\ ~Off(u)'
    BY <2>1, <2>3 DEF Steps
  <2>. QED
    BY <2>4
<1>7. ASSUME NEW t \in Tasks, OtaDisable(t) PROVE LoneInv'
  <2>0. "firmware" \in Places
    BY DEF Places
  <2>1. Steps(t, "disable", {"firmware"})
    BY <1>0, <1>7, <2>0, GoesView DEF OtaDisable
  <2>2. upset' = upset /\ mode' = DISABLED
    BY <1>7 DEF OtaDisable
  <2>3. \A u \in Tasks : Holds(u)' => Holds(u)
    BY <2>1 DEF Steps
  <2>. QED
    BY <2>2, <2>3
(* An update goes on, with the guard switched off.                          *)
<1>8. ASSUME NEW t \in Tasks, NEW from \in {"firmware", "flash", "storage", "write"}, NEW to,
             Steps(t, from, to), UNCHANGED <<mode, upset>>
      PROVE  LoneInv'
  <2>1. Updating /\ \A u \in Tasks : Holds(u)' => Holds(u)
    BY <1>8 DEF Steps
  <2>. QED
    BY <1>8, <2>1
<1>9. ASSUME NEW t \in Tasks,
             \/ FirmwareRefused(t) \/ FirmwareErase(t) \/ FirmwareFails(t)
             \/ FirmwareDone(t) \/ StorageRefused(t) \/ StorageErase(t)
             \/ StorageWrite(t) \/ StorageDone(t)
      PROVE  LoneInv'
  <2>0. /\ \A a \in {"flash", "write", "restore"} : a \in Places
        /\ UNCHANGED <<mode, upset>>
    BY <1>9 DEF Places, FirmwareRefused, FirmwareErase, FirmwareFails, FirmwareDone,
       StorageRefused, StorageErase, StorageWrite,
       StorageDone, StorageReturns
  <2>1. CASE FirmwareDone(t)
    BY <1>0, <1>8, <2>0, <2>1, DoneView
  <2>6. CASE FirmwareRefused(t)
    BY <1>0, <1>8, <2>0, <2>6, GoesView DEF FirmwareRefused
  <2>7. CASE FirmwareErase(t)
    BY <1>0, <1>8, <2>0, <2>7, GoesView DEF FirmwareErase
  <2>8. CASE FirmwareFails(t)
    BY <1>0, <1>8, <2>0, <2>8, GoesView DEF FirmwareFails
  <2>2. CASE StorageRefused(t)
    BY <1>0, <1>8, <2>0, <2>2, ReturnsView DEF StorageRefused
  <2>3. CASE StorageErase(t)
    BY <1>0, <1>8, <2>0, <2>3, GoesView DEF StorageErase
  <2>4. CASE StorageWrite(t)
    BY <1>0, <1>8, <2>0, <2>4, WriteView
  <2>5. CASE StorageDone(t)
    BY <1>0, <1>8, <2>0, <2>5, ReturnsView DEF StorageDone
  <2>. QED
    BY <1>9, <2>1, <2>2, <2>3, <2>4, <2>5, <2>6, <2>7, <2>8
<1>10. ASSUME NEW t \in Tasks, OtaRestore(t) PROVE LoneInv'
  <2>1. Steps(t, "restore", {"idle", "finish"}) /\ upset' = upset
    BY <1>0, <1>10, RestoreView DEF OtaRestore
  <2>2. \A u \in Tasks : Holds(u)' => Holds(u) /\ u # t
    BY <2>1 DEF Steps
  <2>3. upset = {} => \A u \in Tasks : ~Holds(u)'
    BY <2>1, <2>2 DEF Steps
  <2>. QED
    BY <2>1, <2>3
<1>11. ASSUME NEW t \in Tasks, NEW b \in BOOLEAN, OtaFinish(t, b) PROVE LoneInv'
  <2>1. Steps(t, "finish", {"idle"})
    BY <1>0, <1>11, FinishView
  <2>2. \A u \in Tasks : (Holds(u)' => Holds(u)) /\ (Off(u)' => Off(u))
    BY <2>1 DEF Steps
  <2>3. CASE b
    BY <1>3, <1>11, <2>2, <2>3 DEF OtaFinish
  <2>4. CASE ~b
    BY <1>11, <2>2, <2>4 DEF OtaFinish
  <2>. QED
    BY <2>3, <2>4
<1>12. ASSUME NEW t \in Tasks, StartUpdate(t) PROVE LoneInv'
  <2>1. Steps(t, "idle", {"read"}) /\ UNCHANGED <<mode, upset>>
    BY <1>0, <1>12, StartView DEF StartUpdate
  <2>2. \A u \in Tasks : (Holds(u)' => Holds(u)) /\ (Off(u)' => Off(u))
    BY <2>1 DEF Steps
  <2>. QED
    BY <2>1, <2>2
<1>13. CASE UNCHANGED <<mode, task, upset>>
  BY <1>13
<1>14. \/ Restart \/ BootInit
       \/ \E m \in Modes : SetMode(m)
       \/ \E b \in BOOLEAN : RequestReboot(b)
       \/ \E t \in Tasks : TaskActs(t)
       \/ UNCHANGED <<mode, task, upset>>
  BY DEF TaskActs, Next, PowerLoss, Reboot, BootMqtt, Ages, GuardStep, GuardCheck,
     GuardAborts, GuardJudge, Request
<1>. QED
  BY <1>1, <1>2, <1>4, <1>5, <1>6, <1>7, <1>9, <1>10, <1>11, <1>12, <1>13, <1>14
     DEF TaskActs, ServerStep, OtaStep, FirmwareWrite

(* The guard has read an enabled mode only while no update had switched it  *)
(* off, or after something came between.                                    *)
BeforeInv == guard.at = "judge" => guard.before

LEMMA BeforeStep == TypeOK /\ LoneInv /\ BeforeInv /\ [Next]_vars => BeforeInv'
<1> SUFFICES ASSUME TypeOK, LoneInv, BeforeInv, [Next]_vars PROVE BeforeInv'
  OBVIOUS
<1> USE DEF BeforeInv
<1>0. guard \in Guard /\ mode \in Modes \cup {Missing}
  BY TypeParts
<1>1. CASE guard' \in {GuardOff, [GuardOff EXCEPT !.at = "check"]}
  BY <1>1, OffGuard
<1>2. CASE GuardCheck
  BY <1>0, <1>2, CheckView DEF LoneInv
<1>3. ASSUME NEW low \in BOOLEAN, GuardJudge(low) PROVE BeforeInv'
  BY <1>0, <1>3, JudgeView
<1>4. CASE guard' = guard
  BY <1>4
<1>5. \/ guard' \in {GuardOff, [GuardOff EXCEPT !.at = "check"]}
      \/ GuardCheck \/ (\E low \in BOOLEAN : GuardJudge(low)) \/ guard' = guard
  BY DEF Next, PowerLoss, Reboot, Restart, BootInit, BootMqtt, Ages,
     GuardStep, GuardAborts, Request, SetMode, RequestReboot,
     StartUpdate, OtaStep, OtaRead, OtaMisreads,
     OtaKeeps, OtaDisable, Goes, ServerStep, FirmwareRefused, FirmwareErase,
     FirmwareWrite, FirmwareFails, FirmwareDone,
     StorageReturns, StorageRefused, StorageErase, StorageWrite,
     StorageDone, OtaRestore, OtaFinish
<1>. QED
  BY <1>1, <1>2, <1>3, <1>4, <1>5

(* The guard does not restart the device under an update, however many      *)
(* checks it makes meanwhile - unless it had read its mode before, or the   *)
(* mode was set behind the update's back (ota_update_task, status_task).    *)
THEOREM UpdatesAreSpared == Spec => GuardSparesUpdates
<1>1. Init => LoneInv /\ BeforeInv
  BY OffGuard DEF Init, LoneInv, BeforeInv, Holds, Off, Updating, Idle
<1>2. BeforeInv => [guard.at = "judge" /\ reboot' /\ ~reboot /\ guard' # guard /\ Updating
                      => guard.before]_vars
  BY DEF BeforeInv
<1>. QED
  BY <1>1, <1>2, TypeCorrect, LoneStep, BeforeStep, PTL DEF Spec, GuardSparesUpdates

==============================================================================
