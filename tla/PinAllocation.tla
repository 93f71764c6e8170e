---------------------------- MODULE PinAllocation ----------------------------
(***************************************************************************)
(* How many units the board has and which GPIO pin each of them gets       *)
(* (src/main/settings.c, device_settings_init; src/main/relay.c).          *)
(*                                                                         *)
(* NVS holds a count of actuators and one of sensors, and a record for     *)
(* every unit that ever was within its count.  Boot goes through the units *)
(* of both counts, gives each one without a record the first safe pin that *)
(* no listed unit has, and then keeps the units in RAM.  While the device  *)
(* runs, users change counts and pins, tasks store units again, and resets *)
(* erase the namespace; only the next boot looks at counts and records.    *)
(*                                                                         *)
(* Abstracted: the rest of a record, the levels that boot puts on the pins *)
(* (module RelayActuator), and the interrupts (module SensorEvents).       *)
(***************************************************************************)
EXTENDS Integers, FiniteSets

CONSTANTS
  NumPins,      \* SAFE_GPIO_COUNT: pin p is the p-th of SAFE_GPIO_PINS
  KeyMax,       \* KeyMax[k]: the last channel of kind k that has an NVS key,
                \* and the largest count that the API takes
  Default,      \* Default[k]: the count when NVS has none
  FormCounts,   \* the counts that the configuration form may send
  MaxChanges,   \* bound: changes of counts and pins
  MaxRestarts   \* bound: restarts, other than those of a boot that aborts, and
                \* accesses to NVS or memory that fail during boot

Kinds == {"ch", "sn"}
Pins == 1 .. NumPins
Units == UNION {{k} \X (0 .. KeyMax[k]) : k \in Kinds}
None == 0        \* no record, or a zeroed place of a list: no safe pin
Missing == -1    \* no count in NVS

ASSUME PinsAssumption ==
  /\ NumPins \in Nat
  /\ KeyMax \in [Kinds -> Nat]
  /\ KeyMax["ch"] + KeyMax["sn"] <= NumPins
ASSUME DefaultAssumption ==
  Default \in [Kinds -> Nat] /\ \A k \in Kinds : Default[k] <= KeyMax[k]
ASSUME FormAssumption == FormCounts \subseteq Nat
ASSUME BoundAssumption == MaxChanges \in Nat /\ MaxRestarts \in Nat

VARIABLES
  phase,     \* boot: "counts", "units" and "load"; then "run", or "abort"
  at,        \* the unit that boot has come to; its kind in phase "counts"
  limit,     \* limit[k]: channel_count and relay_sn_count of the last boot
  count,     \* count[k]: the count in NVS, or Missing
  rec,       \* rec[u]: the pin in the record of u, or None
  ram,       \* ram[u]: the pin of u in s_units, or None
  wiped,     \* the settings were reset and not filled in again since
  form,      \* the sensor count that submit_config_handler has yet to store
  moved,     \* units that a user gave another pin (history)
  leftOut,   \* units whose record a boot did not list (history)
  stale,     \* units stored again after their record was erased (history)
  fault,     \* what failed by itself in this boot: nothing, an access without which
             \* boot ends, or one while the units are loaded (history)
  changes, restarts  \* counters for the bounds

vars == <<phase, at, limit, count, rec, ram, wiped, form, moved, leftOut,
          stale, fault, changes, restarts>>
nvsVars == <<count, rec, wiped>>
history == <<moved, leftOut, stale, fault>>
bounds == <<changes, restarts>>

NoForm == -1

------------------------------------------------------------------------------
(* The lists of units, before they are in RAM.                             *)

Stored(k) == {i \in 0 .. KeyMax[k] : i < count[k] /\ rec[<<k, i>>] # None}

(* The array of a list is indexed by channel, but its length is the number *)
(* of records found: one that follows a gap may be cut off.                *)
Listed(k) == {<<k, i>> : i \in {j \in Stored(k) : j < Cardinality(Stored(k))}}

AllListed == Listed("ch") \cup Listed("sn")

(* Mutated: the sensors are not considered. *)
InUseActuators == {rec[u] : u \in Listed("ch")}

(* Mutated: every record in NVS counts, also one beyond its count. *)
InUseEver == {rec[u] : u \in Units}

InUse == {rec[u] : u \in AllListed}
FreePins == Pins \ InUse

(* Mutated: the pin after the free one. *)
NextAvailableSkips == 1 + CHOOSE p \in FreePins : \A q \in FreePins : p <= q

NextAvailablePin == CHOOSE p \in FreePins : \A q \in FreePins : p <= q

(* A unit beyond the last key: get_relay_nvs_key returns NULL. *)
HasKey(u) == u[2] <= KeyMax[u[1]]
TooMany == \E k \in Kinds : count[k] > KeyMax[k] + 1

------------------------------------------------------------------------------
Init ==
  /\ phase = "counts" /\ at = <<"ch", 0>>
  /\ limit = [k \in Kinds |-> 0]
  /\ count = [k \in Kinds |-> Missing]
  /\ rec = [u \in Units |-> None] /\ ram = [u \in Units |-> None]
  /\ wiped = TRUE /\ form = NoForm
  /\ moved = {} /\ leftOut = {} /\ stale = {} /\ fault = "none"
  /\ changes = 0 /\ restarts = 0

(* What is left when the device starts again: NVS. *)
Restarts(stored) ==
  /\ phase' = "counts" /\ at' = <<"ch", 0>>
  /\ limit' = [k \in Kinds |-> 0]
  /\ ram' = [u \in Units |-> None]
  /\ form' = NoForm
  /\ moved' = {u \in moved : rec'[u] # None}
  /\ leftOut' = {u \in leftOut : rec'[u] # None}
  /\ stale' = {u \in stale \cup stored : rec'[u] # None}
  /\ fault' = "none"

Accident == restarts < MaxRestarts /\ restarts' = restarts + 1

(* A reboot that somebody asked for, or power that fails at any time. *)
Restart ==
  /\ Accident
  /\ UNCHANGED <<nvsVars, changes>>
  /\ Restarts({})

------------------------------------------------------------------------------
(* Boot: device_settings_init.                                             *)

(* The count of a kind, and the default if it is missing.                  *)
(* (base_settings_init has filled in the other settings before.)           *)
CountOf(k) == IF count[k] = Missing THEN Default[k] ELSE count[k]

(* Boot goes on with n units of the kind, and with n in NVS. *)
TakesCount(n) ==
  /\ phase = "counts"
  /\ UNCHANGED <<rec, ram, form, moved, stale, fault, changes>>
  /\ LET k == at[1]
     IN /\ count' = [count EXCEPT ![k] = n]
        /\ limit' = [limit EXCEPT ![k] = n]
        /\ \/ /\ k = "ch"
              /\ at' = <<"sn", 0>>
              /\ UNCHANGED <<phase, leftOut>>
           \/ /\ k = "sn"
              /\ phase' = "units" /\ at' = <<"ch", 0>>
              /\ leftOut' = leftOut \cup
                   {u \in Units : rec[u] # None /\ u \notin AllListed'}
  /\ wiped' = FALSE

BootCount == TakesCount(CountOf(at[1])) /\ UNCHANGED restarts

(* A count that cannot be read is taken for missing, and overwritten. *)
BootCountUnread == TakesCount(Default[at[1]]) /\ Accident

Following(u) == <<u[1], u[2] + 1>>

(* The unit has a record. *)
BootFound ==
  /\ phase = "units"
  /\ at[2] < limit[at[1]] /\ HasKey(at)
  /\ rec[at] # None
  /\ at' = Following(at)
  /\ UNCHANGED <<phase, limit, nvsVars, ram, form, history, bounds>>

(* The unit gets pin p, and a record. *)
Gives(p) ==
  /\ phase = "units"
  /\ at[2] < limit[at[1]] /\ HasKey(at)
  /\ rec' = [rec EXCEPT ![at] = p]
  /\ at' = Following(at)
  /\ UNCHANGED <<phase, limit, count, wiped, ram, form, moved, stale, fault, changes>>

(* Mutated: the record is made, but not stored. *)
BootCreateUnsaved ==
  /\ phase = "units"
  /\ at[2] < limit[at[1]] /\ HasKey(at)
  /\ rec[at] = None
  /\ FreePins # {}
  /\ at' = Following(at)
  /\ UNCHANGED <<phase, limit, nvsVars, ram, form, history, bounds>>

(* The unit has no record: it gets one, with the next available pin. *)
BootCreate ==
  /\ HasKey(at) /\ rec[at] = None /\ FreePins # {}
  /\ Gives(NextAvailablePin)
  /\ UNCHANGED <<leftOut, restarts>>

(* The record of the unit cannot be read, and is taken for missing; or that *)
(* of others cannot, when the pins in use are listed, and what they have    *)
(* passes for free.  The unit gets the first pin that passes.               *)
BootMisreads(p) ==
  /\ Accident
  /\ \A q \in FreePins : p <= q
  /\ Gives(p)
  /\ leftOut' = leftOut \cup {v \in Units \ {at} : rec[v] = p}

BootNextKind ==
  /\ phase = "units"
  /\ at[2] >= limit[at[1]]
  /\ IF at[1] = "ch"
     THEN at' = <<"sn", 0>> /\ UNCHANGED phase
     ELSE phase' = "load" /\ UNCHANGED at
  /\ UNCHANGED <<limit, nvsVars, ram, form, history, bounds>>

(* No key, or no pin: settings_init fails, and ESP_ERROR_CHECK in app_main *)
(* aborts.  Listing the units of a count beyond the last key reads NVS     *)
(* with a NULL key, which may abort as well.                               *)
BootAbort ==
  /\ phase = "units"
  /\ at[2] < limit[at[1]]
  /\ \/ ~HasKey(at)
     \/ HasKey(at) /\ rec[at] = None /\ (FreePins = {} \/ TooMany)
  /\ phase' = "abort"
  /\ UNCHANGED <<at, limit, nvsVars, ram, form, history, bounds>>

(* A count or a record that cannot be stored, or a count that cannot be     *)
(* read while units are listed, ends boot likewise, with any counts.       *)
BootFails ==
  /\ phase \in {"counts", "units", "load"} /\ Accident
  /\ phase' = "abort" /\ fault' = "abort"
  /\ UNCHANGED <<at, limit, nvsVars, ram, form, moved, leftOut, stale, changes>>

(* The panic handler restarts the chip: boot begins again. *)
AbortRestarts ==
  /\ phase = "abort"
  /\ UNCHANGED <<nvsVars, bounds>>
  /\ Restarts({})

(* init_relay_units_in_memory; everything else of app_main follows. *)
Loads(units) ==
  /\ phase = "load"
  /\ ram' = [u \in Units |-> IF u \in units THEN rec[u] ELSE None]
  /\ phase' = "run"
  /\ UNCHANGED <<at, limit, nvsVars, form, moved, leftOut, stale, changes>>

LoadUnits == Loads(AllListed) /\ UNCHANGED <<fault, restarts>>

(* What is left of a list with unreadable records: they are missing, and as *)
(* many units at its end.                                                   *)
ListedBut(unread) ==
  {u \in AllListed \ unread :
     u[2] < Cardinality({v \in AllListed \ unread : v[1] = u[1]})}

(* Records that cannot be read are skipped, and the board runs without. *)
LoadUnitsPartly(unread) ==
  /\ Loads(ListedBut(unread))
  /\ fault' = "load" /\ Accident

------------------------------------------------------------------------------
(* While the device runs.                                                  *)

Change == phase = "run" /\ changes < MaxChanges /\ changes' = changes + 1

(* The settings API takes a count up to KeyMax[k], and stores it.          *)
SetCount(k, n) ==
  /\ Change
  /\ count' = [count EXCEPT ![k] = n]
  /\ UNCHANGED <<phase, at, limit, rec, ram, wiped, form, history, restarts>>

(* The configuration form stores every setting, and does not validate.     *)
FormFirst(n, m) ==
  /\ Change
  /\ form = NoForm
  /\ count' = [count EXCEPT !["ch"] = n]
  /\ wiped' = FALSE
  /\ form' = m
  /\ UNCHANGED <<phase, at, limit, rec, ram, history, restarts>>

FormSecond ==
  /\ phase = "run"
  /\ form # NoForm
  /\ count' = [count EXCEPT !["sn"] = form]
  /\ form' = NoForm
  /\ UNCHANGED <<phase, at, limit, rec, wiped, ram, history, bounds>>

(* update_relay_post_handler gives u a safe pin.  The test whether it is   *)
(* in use compares the old pin with itself, and never refuses.             *)
Move(u, p) ==
  /\ Change
  /\ ram[u] # None
  /\ ram' = [ram EXCEPT ![u] = p]
  /\ moved' = IF p = ram[u] THEN moved ELSE moved \cup {u}
  /\ UNCHANGED <<phase, at, limit, nvsVars, form, leftOut, stale, fault, restarts>>

(* A task stores u: relay_set_state an actuator, gpio_event_task and       *)
(* update_relay_post_handler a sensor.  After a reset of the settings the  *)
(* read of the MQTT mode aborts the first before it stores, and the second *)
(* after it.                                                               *)
Save(u) ==
  /\ phase = "run"
  /\ ram[u] # None
  /\ u[1] = "ch" => ~wiped
  /\ rec' = [rec EXCEPT ![u] = ram[u]]
  /\ LET again == IF rec[u] = None THEN {u} ELSE {}
     IN \/ /\ stale' = stale \cup again
           /\ UNCHANGED <<phase, at, limit, ram, form, moved, leftOut, fault>>
        \/ wiped /\ Restarts(again)
  /\ UNCHANGED <<count, wiped, bounds>>

(* Mutated: only the first record of each kind is erased. *)
ResetPartly ==
  /\ Change
  /\ count' = [k \in Kinds |-> Missing]
  /\ rec' = [u \in Units |-> IF u[2] = 0 THEN None ELSE rec[u]]
  /\ wiped' = TRUE
  /\ UNCHANGED <<phase, at, limit, ram, form, history, restarts>>

(* reset_device_settings, by a user or after an update; the device runs on *)
(* until its reboot task restarts it.                                      *)
ResetSettings ==
  /\ Change
  /\ count' = [k \in Kinds |-> Missing]
  /\ rec' = [u \in Units |-> None]
  /\ wiped' = TRUE
  /\ UNCHANGED <<phase, at, limit, ram, form, history, restarts>>

BootStep ==
  \/ BootCount \/ BootFound \/ BootCreate \/ BootNextKind \/ BootAbort
  \/ AbortRestarts \/ LoadUnits

BootAccident ==
  \/ BootCountUnread \/ BootFails
  \/ \E p \in Pins : BootMisreads(p)
  \/ \E unread \in SUBSET AllListed \ {{}} : LoadUnitsPartly(unread)

Next ==
  \/ Restart \/ BootAccident
  \/ BootStep
  \/ \E k \in Kinds : \E n \in 0 .. KeyMax[k] : SetCount(k, n)
  \/ \E n, m \in FormCounts : FormFirst(n, m)
  \/ FormSecond
  \/ \E u \in Units : Save(u) \/ (\E p \in Pins : Move(u, p))
  \/ ResetSettings

Spec == Init /\ [][Next]_vars

Excused == moved \cup leftOut

------------------------------------------------------------------------------
(* Every variable has its type.                                            *)
TypeOK ==
  /\ phase \in {"counts", "units", "load", "run", "abort"}
  /\ at \in Kinds \X Nat
  /\ limit \in [Kinds -> Nat]
  /\ count \in [Kinds -> Nat \cup {Missing}]
  /\ rec \in [Units -> Pins \cup {None}]
  /\ ram \in [Units -> Pins \cup {None}]
  /\ wiped \in BOOLEAN
  /\ form \in FormCounts \cup {NoForm}
  /\ moved \subseteq Units /\ leftOut \subseteq Units /\ stale \subseteq Units
  /\ fault \in {"none", "abort", "load"}
  /\ changes \in Nat /\ restarts \in Nat

(* Two units have one pin, in RAM or in NVS, only after a user has moved   *)
(* one of them, or after a boot has left out the record of one of them     *)
(* while pins were given away: its count had been lowered, it was stored   *)
(* again between a reset and the restart, or it could not be read.  About  *)
(* get_next_available_safe_gpio_pin (relay.c) and the lists it looks at.   *)
PinsApart ==
  \A u, v \in Units \ Excused :
     u # v => {rec[u], ram[u]} \cap {rec[v], ram[v]} \subseteq {None}

(* Records of a kind have no gap: the lists rest on it, because they index *)
(* by channel what they count by record.  Only a unit that is stored again *)
(* between a reset and the restart leaves a gap below it, until a boot     *)
(* fills it.                                                               *)
NoGaps ==
  \A u \in Units \ stale : \A i \in 0 .. u[2] :
     rec[u] # None => rec[<<u[1], i>>] # None

(* A boot that gets through has every unit of both counts in RAM, and no   *)
(* other one, whatever was left in NVS and whatever could not be read      *)
(* before - unless that happened while it loaded them: no list is cut off  *)
(* by a gap.                                                               *)
AllUnitsLoaded ==
  phase = "run" /\ fault # "load"
    => \A u \in Units : ram[u] # None <=> u[2] < limit[u[1]]

(* If every access that boot cannot do without succeeds, it aborts only    *)
(* with a count that the API would have refused: valid counts never run    *)
(* out of pins or of keys, whatever records other counts left behind, and  *)
(* whichever records were taken for missing.                               *)
AbortsOvercommittedOnly ==
  phase = "abort" /\ fault # "abort" => \E k \in Kinds : count[k] > KeyMax[k]

(* With counts that the API accepts the device gets to run again, after    *)
(* power failures, resets and aborts.                                      *)
WithinLimits == \A k \in Kinds : count[k] <= KeyMax[k]
Boots == WithinLimits ~> phase = "run"

(* Boot goes on by itself, and so does the panic handler. *)
FairSpec == Spec /\ WF_vars(BootStep)

==============================================================================
