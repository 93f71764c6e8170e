---------------------------- MODULE DeviceUpdate ----------------------------
(***************************************************************************)
(* Updates over the air, the memory guard and restarts of the device       *)
(* (src/main/settings.c, status.c, main.c).                                *)
(*                                                                         *)
(* ota_update_task switches the memory guard off in NVS, downloads the     *)
(* firmware and then the storage partition with the web pages, switches    *)
(* the guard back to the mode it found, and restarts the device.  Meanwhile*)
(* status_task checks the free memory and may restart the device, users    *)
(* change the guard's mode, start another update, reset the settings or    *)
(* restart the device, and power may fail.                                 *)
(*                                                                         *)
(* Abstracted: HTTP, certificates, the firmware's own partition table, the *)
(* heap (it is low or not), all settings but the two that matter here.     *)
(* Wi-Fi is provisioned and MQTT is on.                                    *)
(***************************************************************************)
EXTENDS Integers, FiniteSets

CONSTANTS
  Tasks,        \* the update tasks that can exist at a time
  Blocks,       \* number of blocks of the storage image
  Limit,        \* MEMGUARD_CONSECUTIVE_THRESHOLD_COUNT
  MaxEvents     \* bound: updates and requests by users, and power failures

ASSUME BlocksAssumption == Blocks \in Nat \ {0}
ASSUME LimitAssumption == Limit \in Nat \ {0}
ASSUME BoundAssumption == MaxEvents \in Nat

VARIABLES
  phase,    \* app_main: "init", "mqtt"; then "run", or "halted"
  mode,     \* the memory guard's mode in NVS, or Missing
  firmware, \* what the chip will start: the old or the new firmware
  running,  \* the firmware that runs; the next one goes to the other partition
  spoiled,  \* a download erased the new firmware before it was started, and none
            \* has put it back (history)
  pages,    \* pages[b]: block b of the storage partition
  task,     \* the update tasks, and their locals
  guard,    \* status_task and its locals
  aged,     \* the device has been up for MEMGUARD_BOOT_PROTECTION_TIME_MINUTES
  reboot,   \* a reboot task exists
  wanted,   \* the mode that the user chose last (history)
  upset,    \* what came between an update and its restoring (history)
  streak,   \* low checks in a row, up to Limit (history)
  events    \* counter for the bound

image == <<firmware, running, spoiled>>
vars == <<phase, mode, image, pages, task, guard, aged, reboot,
          wanted, upset, streak, events>>

Happens == events < MaxEvents /\ events' = events + 1

DISABLED == 0
WARN == 1
RESTART == 2
Modes == {DISABLED, WARN, RESTART}
Missing == -1

Block == 1 .. Blocks
Whole(version) == [b \in Block |-> version]
Erased == Whole("erased")
PagesWhole == pages \in {Whole("old"), Whole("new")}

Idle == [at |-> "idle", kept |-> DISABLED, ok |-> FALSE, next |-> 1]
GuardOff == [at |-> "off", mode |-> DISABLED, lows |-> 0, before |-> TRUE,
             denied |-> FALSE]

(* The update has read the mode, and will write it back. *)
Holds(t) ==
  task[t].at \in {"disable", "firmware", "flash", "storage", "write", "restore"}
(* It has switched the guard off. *)
Off(t) == task[t].at \in {"firmware", "flash", "storage", "write", "restore"}
Updating == \E t \in Tasks : Off(t)
(* Another update is writing the partition of the next firmware. *)
Shares(t) == \E u \in Tasks \ {t} : task[u].at = "flash"

(* History only: the mode is set by somebody other than an update. *)
Upset(newMode) ==
  /\ wanted' = newMode
  /\ upset' = IF \E t \in Tasks : Holds(t) THEN upset \cup {"crossed"} ELSE {}

------------------------------------------------------------------------------
Init ==
  /\ phase = "init"
  /\ mode = Missing
  /\ firmware = "old" /\ running = "old" /\ spoiled = FALSE
  /\ pages = Whole("old")
  /\ task = [t \in Tasks |-> Idle]
  /\ guard = GuardOff
  /\ aged = FALSE /\ reboot = FALSE
  /\ wanted = DISABLED /\ upset = {} /\ streak = 0
  /\ events = 0

(* Everything but NVS and flash is lost. *)
Restart ==
  /\ phase' = "init"
  /\ task' = [t \in Tasks |-> Idle]
  /\ guard' = GuardOff
  /\ aged' = FALSE /\ reboot' = FALSE /\ streak' = 0
  /\ upset' = IF Updating THEN upset \cup {"interrupted"} ELSE upset \ {"crowded"}
  /\ running' = firmware
  /\ UNCHANGED <<mode, firmware, spoiled, pages, wanted>>

(* Power fails, or an ESP_ERROR_CHECK on an access to NVS: each is inside   *)
(* one of the steps below.                                                  *)
PowerLoss == Happens /\ Restart

(* system_reboot_task: it does not look for an update. *)
Reboot == reboot /\ Restart /\ UNCHANGED events

------------------------------------------------------------------------------
(* app_main                                                                *)

(* base_settings_init fills in what is missing; init_filesystem formats    *)
(* the storage partition if it cannot mount it.  Then the web server       *)
(* starts, and mqtt_init waits for the broker.                             *)
BootInit ==
  /\ phase = "init"
  /\ phase' = "mqtt"
  /\ mode' = IF mode = Missing THEN DISABLED ELSE mode
  /\ \/ UNCHANGED pages
     \/ ~PagesWhole /\ pages' = Erased
  /\ UNCHANGED <<image, task, guard, aged, reboot, wanted, upset, streak,
                 events>>

(* status_init; without a broker app_main returns before it. *)
BootMqtt ==
  /\ phase = "mqtt"
  /\ \/ phase' = "run" /\ guard' = [GuardOff EXCEPT !.at = "check"]
     \/ phase' = "halted" /\ UNCHANGED guard
  /\ UNCHANGED <<mode, image, pages, task, aged, reboot,
                 wanted, upset, streak, events>>

Ages ==
  /\ ~aged /\ aged' = TRUE
  /\ UNCHANGED <<phase, mode, image, pages, task, guard, reboot,
                 wanted, upset, streak, events>>

------------------------------------------------------------------------------
(* status_task                                                             *)

(* It reads the mode; disabled, it starts counting anew. *)
GuardCheck ==
  /\ guard.at = "check" /\ mode # Missing
  /\ IF mode = DISABLED
     THEN guard' = [guard EXCEPT !.lows = 0, !.denied = FALSE] /\ streak' = 0
     ELSE /\ guard' = [guard EXCEPT !.at = "judge", !.mode = mode, !.denied = FALSE,
                                    !.before = ~Updating \/ upset # {}]
          /\ UNCHANGED streak
  /\ UNCHANGED <<phase, mode, image, pages, task, aged, reboot,
                 wanted, upset, events>>

(* Without the key, ESP_ERROR_CHECK aborts. *)
GuardAborts ==
  /\ guard.at = "check" /\ mode = Missing
  /\ Restart /\ UNCHANGED events

(* Mutated: only a restart starts the count anew. *)
CountedOn(lows) == lows + 1

(* This check is one for which system_reboot is called. *)
AsksRestart(low) ==
  low /\ guard.mode = RESTART /\ guard.lows + 1 >= Limit /\ aged

(* The count after a check that found the memory low. *)
Counted(lows) == IF lows + 1 >= Limit THEN 0 ELSE lows + 1

(* Mutated: memory that recovers does not reset the count. *)
GuardJudgeKeepsCount(low) ==
  /\ guard.at = "judge"
  /\ streak' = IF low THEN IF streak < Limit THEN streak + 1 ELSE Limit ELSE 0
  /\ \E created \in BOOLEAN :
        /\ reboot' = (reboot \/ (AsksRestart(low) /\ created))
        /\ guard' = [guard EXCEPT !.at = "check",
                                  !.lows = IF low THEN Counted(@) ELSE @,
                                  !.denied = AsksRestart(low) /\ ~created]
  /\ UNCHANGED <<phase, mode, image, pages, task, aged, wanted, upset, events>>

(* Mutated: a restart that was asked for is not asked for again. *)
GuardJudgeOnce(low) ==
  /\ guard.at = "judge"
  /\ streak' = IF low THEN IF streak < Limit THEN streak + 1 ELSE Limit ELSE 0
  /\ \E created \in BOOLEAN :
        /\ reboot' = (reboot \/ (AsksRestart(low) /\ created))
        /\ guard' = IF AsksRestart(low)
                    THEN [guard EXCEPT !.at = "off", !.denied = ~created]
                    ELSE [guard EXCEPT !.at = "check", !.denied = FALSE,
                                       !.lows = IF low THEN Counted(@) ELSE 0]
  /\ UNCHANGED <<phase, mode, image, pages, task, aged, wanted, upset, events>>

(* The free memory is low or not.  Limit low checks in a row restart the   *)
(* device, unless it is only warned, or has been up for a short time;      *)
(* either way the count starts anew.  system_reboot does not look whether  *)
(* the task of the restart could be created: memory is what is short.      *)
GuardJudge(low) ==
  /\ guard.at = "judge"
  /\ streak' = IF low THEN IF streak < Limit THEN streak + 1 ELSE Limit ELSE 0
  /\ \E created \in BOOLEAN :
        /\ reboot' = (reboot \/ (AsksRestart(low) /\ created))
        /\ guard' = [guard EXCEPT !.at = "check",
                                  !.lows = IF low THEN Counted(@) ELSE 0,
                                  !.denied = AsksRestart(low) /\ ~created]
  /\ UNCHANGED <<phase, mode, image, pages, task, aged, wanted, upset, events>>

GuardStep == GuardCheck \/ GuardAborts \/ \E low \in BOOLEAN : GuardJudge(low)

------------------------------------------------------------------------------
(* Users, through the web server, which is up from phase "mqtt" on.        *)

ServerUp == phase \in {"mqtt", "run", "halted"}
Request == ServerUp /\ Happens

(* The settings API stores the mode. *)
SetMode(m) ==
  /\ Request
  /\ mode' = m /\ Upset(m)
  /\ UNCHANGED <<phase, image, pages, task, guard, aged, reboot, streak>>

(* reset_post_handler: a restart (action 9), after a reset (1) or not, if   *)
(* there is memory for its task.                                            *)
RequestReboot(reset) ==
  /\ Request
  /\ reboot' \in {reboot, TRUE}
  /\ IF reset THEN mode' = Missing /\ Upset(DISABLED)
              ELSE UNCHANGED <<mode, wanted, upset>>
  /\ UNCHANGED <<phase, image, pages, task, guard, aged, streak>>

(* ota_post_handler reads its page from the storage partition, and answers *)
(* 404 without starting anything when that is gone.  Nothing keeps it from *)
(* starting a second update.                                               *)
StartUpdate(t) ==
  /\ Request
  /\ pages # Erased
  /\ task[t].at = "idle"
  /\ task' = [task EXCEPT ![t] = [Idle EXCEPT !.at = "read"]]
  /\ UNCHANGED <<phase, mode, image, pages, guard, aged, reboot,
                 wanted, upset, streak>>

------------------------------------------------------------------------------
(* ota_update_task                                                         *)

Goes(t, from, to) ==
  /\ task[t].at = from
  /\ task' = [task EXCEPT ![t].at = to]

(* The update goes on with the mode that it keeps. *)
OtaKeeps(t, kept) ==
  /\ task[t].at = "read"
  /\ task' = [task EXCEPT ![t] = [@ EXCEPT !.at = "disable", !.kept = kept]]
  /\ upset' = upset
       \cup (IF Updating THEN {"overlap"} ELSE {})
       \cup (IF \E u \in Tasks : Holds(u) THEN {"crowded"} ELSE {})
       \cup (IF kept = DISABLED /\ mode \in {WARN, RESTART} THEN {"misread"} ELSE {})
  /\ UNCHANGED <<phase, mode, image, pages, guard, aged, reboot, wanted, streak>>

OtaRead(t) ==
  OtaKeeps(t, IF mode = Missing THEN DISABLED ELSE mode) /\ UNCHANGED events

(* The mode cannot be read: the default is kept, and written back later. *)
OtaMisreads(t) == OtaKeeps(t, DISABLED) /\ Happens

(* Mutated: the guard is not switched off. *)
OtaDisableNothing(t) ==
  /\ Goes(t, "disable", "firmware")
  /\ UNCHANGED <<phase, mode, image, pages, guard, aged, reboot,
                 wanted, upset, streak, events>>

OtaDisable(t) ==
  /\ Goes(t, "disable", "firmware")
  /\ mode' = DISABLED
  /\ UNCHANGED <<phase, image, pages, guard, aged, reboot,
                 wanted, upset, streak, events>>

(* perform_ota_update.  No connection, or no image: the update fails.      *)
FirmwareRefused(t) ==
  /\ Goes(t, "firmware", "restore")
  /\ UNCHANGED <<phase, mode, image, pages, guard, aged, reboot,
                 wanted, upset, streak, events>>

(* esp_https_ota erases the partition that does not run, whatever it holds; *)
(* if that was to start next, the chip falls back to the one that runs.     *)
FirmwareErase(t) ==
  /\ Goes(t, "firmware", "flash")
  /\ firmware' = running
  /\ spoiled' = (spoiled \/ firmware # running \/ Shares(t))
  /\ UNCHANGED <<phase, mode, running, pages, guard, aged, reboot,
                 wanted, upset, streak, events>>

(* What it writes may break the image that another update has completed     *)
(* meanwhile.                                                               *)
FirmwareWrite(t) ==
  /\ task[t].at = "flash" /\ firmware # running
  /\ firmware' = running
  /\ UNCHANGED <<phase, mode, running, spoiled, pages, task, guard, aged, reboot,
                 wanted, upset, streak, events>>

(* Mutated: the result of the download is not looked at. *)
FirmwareFailsUnnoticed(t) ==
  /\ task[t].at = "flash"
  /\ task' = [task EXCEPT ![t] = [@ EXCEPT !.at = "storage", !.ok = TRUE]]
  /\ UNCHANGED <<phase, mode, image, pages, guard, aged, reboot,
                 wanted, upset, streak, events>>

(* The server closes the connection, or the image is not valid. *)
FirmwareFails(t) ==
  /\ Goes(t, "flash", "restore")
  /\ UNCHANGED <<phase, mode, image, pages, guard, aged, reboot,
                 wanted, upset, streak, events>>

(* The image is complete and valid, and set to start. *)
FirmwareDone(t) ==
  /\ task[t].at = "flash"
  /\ task' = [task EXCEPT ![t] = [@ EXCEPT !.at = "storage", !.ok = TRUE]]
  /\ firmware' = "new"
  /\ spoiled' = (spoiled /\ Shares(t))
  /\ UNCHANGED <<phase, mode, running, pages, guard, aged, reboot,
                 wanted, upset, streak, events>>

(* download_and_update_spiffs_partition returns; the result is only logged.*)
StorageReturns(t, from) ==
  /\ task[t].at = from
  /\ task' = [task EXCEPT ![t] = [@ EXCEPT !.at = "restore", !.next = 1]]
  /\ UNCHANGED <<phase, mode, image, pages, guard, aged, reboot,
                 wanted, upset, streak, events>>

(* Before the partition is erased: no connection, no such file. *)
StorageRefused(t) == StorageReturns(t, "storage")

StorageErase(t) ==
  /\ Goes(t, "storage", "write")
  /\ pages' = Erased
  /\ UNCHANGED <<phase, mode, image, guard, aged, reboot,
                 wanted, upset, streak, events>>

(* Mutated: the offset does not advance. *)
StorageWriteInPlace(t) ==
  /\ task[t].at = "write" /\ task[t].next <= Blocks
  /\ \E data \in {"new", "bad"} : pages' = [pages EXCEPT ![task[t].next] = data]
  /\ task' = [task EXCEPT ![t].next = @]
  /\ UNCHANGED <<phase, mode, image, guard, aged, reboot,
                 wanted, upset, streak, events>>

(* A full or a short read is written, and the offset advances by a whole   *)
(* block: after a short one nothing is in its place.  And two tasks share  *)
(* ota_write_data.  A block that is not what it should be is "bad".        *)
StorageWrite(t) ==
  /\ task[t].at = "write" /\ task[t].next <= Blocks
  /\ \E data \in {"new", "bad"} : pages' = [pages EXCEPT ![task[t].next] = data]
  /\ task' = [task EXCEPT ![t].next = @ + 1]
  /\ UNCHANGED <<phase, mode, image, guard, aged, reboot,
                 wanted, upset, streak, events>>

(* esp_http_client_read returned 0: everything was received, or the server *)
(* closed the connection before; or there was an error of the connection   *)
(* or of the flash, an image too long for the partition included.          *)
StorageDone(t) == StorageReturns(t, "write")

(* Mutated: a failed update does not restore the mode. *)
OtaRestoreOnSuccess(t) ==
  /\ task[t].at = "restore"
  /\ mode' = IF task[t].ok THEN task[t].kept ELSE mode
  /\ task' = [task EXCEPT ![t] = IF @.ok THEN [Idle EXCEPT !.at = "finish"] ELSE Idle]
  /\ UNCHANGED <<phase, image, pages, guard, aged, reboot,
                 wanted, upset, streak, events>>

(* The mode is written back; a failed update ends here. *)
OtaRestore(t) ==
  /\ task[t].at = "restore"
  /\ mode' = task[t].kept
  /\ task' = [task EXCEPT ![t] = IF @.ok THEN [Idle EXCEPT !.at = "finish"] ELSE Idle]
  /\ UNCHANGED <<phase, image, pages, guard, aged, reboot,
                 wanted, upset, streak, events>>

(* The settings are reset if that is configured, and the device restarts,   *)
(* if there is memory for the task of the restart.                          *)
OtaFinish(t, reset) ==
  /\ task[t].at = "finish"
  /\ task' = [task EXCEPT ![t] = Idle]
  /\ reboot' \in {reboot, TRUE}
  /\ IF reset THEN mode' = Missing /\ Upset(DISABLED)
              ELSE UNCHANGED <<mode, wanted, upset>>
  /\ UNCHANGED <<phase, image, pages, guard, aged, streak, events>>

(* What the server decides: esp_https_ota asks again when a read times out, *)
(* so a server that falls silent keeps it waiting.                          *)
ServerStep(t) == FirmwareWrite(t) \/ FirmwareFails(t) \/ FirmwareDone(t)

OtaStep(t) ==
  \/ OtaRead(t) \/ OtaDisable(t) \/ FirmwareRefused(t) \/ FirmwareErase(t)
  \/ StorageRefused(t) \/ StorageErase(t)
  \/ StorageWrite(t) \/ StorageDone(t)
  \/ OtaRestore(t)
  \/ \E reset \in BOOLEAN : OtaFinish(t, reset)

------------------------------------------------------------------------------
Next ==
  \/ PowerLoss \/ Reboot
  \/ BootInit \/ BootMqtt \/ Ages
  \/ GuardStep
  \/ \E m \in Modes : SetMode(m)
  \/ \E reset \in BOOLEAN : RequestReboot(reset)
  \/ \E t \in Tasks : StartUpdate(t) \/ OtaMisreads(t) \/ ServerStep(t) \/ OtaStep(t)

Spec == Init /\ [][Next]_vars

(* Tasks run, requests for the storage image time out, time passes.        *)
(* Nothing is assumed of Wi-Fi, the broker, the memory, users, or the       *)
(* server in the middle of a firmware.                                      *)
FairSpec ==
  /\ Spec
  /\ WF_vars(GuardStep) /\ WF_vars(Reboot) /\ WF_vars(Ages) /\ WF_vars(BootInit)
  /\ \A t \in Tasks : WF_vars(OtaStep(t))

------------------------------------------------------------------------------
(* Every variable has its type; the count of low checks starts anew before *)
(* it reaches the limit.                                                   *)
TypeOK ==
  /\ phase \in {"init", "mqtt", "run", "halted"}
  /\ mode \in Modes \cup {Missing}
  /\ firmware \in {"old", "new"} /\ running \in {"old", "new"} /\ spoiled \in BOOLEAN
  /\ pages \in [Block -> {"old", "new", "bad", "erased"}]
  /\ task \in [Tasks -> [at : {"idle", "read", "disable", "firmware", "flash",
                               "storage", "write", "restore", "finish"},
                         kept : Modes, ok : BOOLEAN, next : 1 .. Blocks + 1]]
  /\ guard \in [at : {"off", "check", "judge"}, mode : Modes,
                lows : 0 .. Limit - 1, before : BOOLEAN, denied : BOOLEAN]
  /\ aged \in BOOLEAN /\ reboot \in BOOLEAN
  /\ wanted \in Modes
  /\ upset \subseteq {"interrupted", "overlap", "crossed", "crowded", "misread"}
  /\ streak \in 0 .. Limit
  /\ events \in 0 .. MaxEvents

(* When no update is under way the guard has the mode that the user chose, *)
(* whether updates succeeded or failed, reset the settings or did not -    *)
(* unless one was interrupted, could not read the mode, read it while      *)
(* another one had switched the guard off, or held an older mode while a   *)
(* user chose.                                                             *)
GuardModeKept ==
  \/ mode = Missing \/ mode = wanted
  \/ \E t \in Tasks : Holds(t)
  \/ upset \cap {"interrupted", "overlap", "crossed", "misread"} # {}

(* The web pages are touched only after the new firmware is in place, and   *)
(* a failed download leaves the old firmware with its own pages - unless a  *)
(* later update erased the new firmware before it was started, and did not  *)
(* put it back: one that succeeds does, however the two crossed.            *)
PagesFollowFirmware == pages # Whole("old") => firmware = "new" \/ spoiled

(* The guard asks for a restart only after Limit low checks in a row, and  *)
(* gives a user time to change the mode after every start.                 *)
GuardHasCause ==
  [][guard.at = "judge" /\ reboot' /\ ~reboot /\ guard' # guard
       => streak' = Limit /\ aged]_vars

(* The comment in ota_update_task: "Disable memory guard for OTA update    *)
(* task": no restart by the guard while an update runs - unless the guard  *)
(* had read its mode before, another update has switched it on again, or a *)
(* user has.                                                               *)
GuardSparesUpdates ==
  [][guard.at = "judge" /\ reboot' /\ ~reboot /\ guard' # guard /\ Updating
       => guard.before]_vars

(* Memory that is low at every check does not stay so in restart mode: the *)
(* device restarts, once it has been up for long enough - or each time     *)
(* there is no memory for the task of the restart, and the guard goes on   *)
(* asking for one.                                                         *)
GuardRescues == <>[](streak > 0 /\ mode = RESTART) => []<><<guard'.denied>>_guard

(* Every update comes to an end, unless the server falls silent for good in *)
(* the middle of the firmware.                                              *)
UpdatesEnd ==
  \A t \in Tasks : []<>(task[t].at = "idle") \/ <>[](task[t].at = "flash")
==============================================================================
