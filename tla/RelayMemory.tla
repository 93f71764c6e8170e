----------------------------- MODULE RelayMemory -----------------------------
(***************************************************************************)
(* What the board promises about its actuators, as the README puts it      *)
(* (feature "Relay State Memory"): the state of a relay is written to      *)
(* non-volatile memory and restored after power loss.                      *)
(*                                                                         *)
(* A pin shows a level or is dark (not driven).  A unit has a stored place *)
(* and level.  Only a level that a pin is showing is ever stored (unless   *)
(* several tasks switch the unit, see CommitContested), and after          *)
(* a power loss nothing is switched before every unit's stored level is    *)
(* back on its pin; until then a pin is dark, or freshly armed and low.    *)
(***************************************************************************)
EXTENDS Integers

CONSTANTS Units,       \* the actuators
          Pins,        \* the GPIO pins
          OutputPins,  \* those the chip can drive
          Contested    \* actuators that more than one task switches

VARIABLES line,     \* line[p]: what pin p shows, 0, 1 or Dark
          stored,   \* stored[u]: the pin and level kept for unit u
          restored  \* the units whose stored level is back since power came

memoryVars == <<line, stored, restored>>

Dark == -1
Levels == {0, 1}
Place == [pin : Pins, level : Levels]

MemoryInit ==
  /\ line = [p \in Pins |-> Dark]
  /\ stored \in [Units -> Place]
  /\ restored = {}

(* A dark pin becomes an output: it shows 0 until somebody sets its level. *)
Arm(p) ==
  /\ line[p] = Dark
  /\ line' = [line EXCEPT ![p] = 0]
  /\ UNCHANGED <<stored, restored>>

(* Power returned: one unit after the other gets its stored level back, if *)
(* its pin can be driven at all.                                           *)
Restore(u) ==
  /\ u \notin restored
  /\ line' = [line EXCEPT ![stored[u].pin] =
                 IF stored[u].pin \in OutputPins THEN stored[u].level ELSE @]
  /\ restored' = restored \cup {u}
  /\ UNCHANGED stored

(* A relay is switched: some pin shows another level. *)
Switch(p, l) ==
  /\ restored = Units
  /\ line' = [line EXCEPT ![p] = l]
  /\ UNCHANGED <<stored, restored>>

(* The level a pin is showing becomes the stored one of a unit. *)
Commit(u, p) ==
  /\ restored = Units
  /\ line[p] # Dark
  /\ stored' = [stored EXCEPT ![u] = [pin |-> p, level |-> line[p]]]
  /\ UNCHANGED <<line, restored>>

(* Nothing is promised about what is stored of a contested unit.            *)
CommitContested(u) ==
  /\ restored = Units
  /\ u \in Contested
  /\ \E place \in Place : stored' = [stored EXCEPT ![u] = place]
  /\ UNCHANGED <<line, restored>>

PowerOff ==
  /\ line' = [p \in Pins |-> Dark]
  /\ restored' = {}
  /\ UNCHANGED stored

MemoryNext ==
  \/ \E p \in Pins : Arm(p)
  \/ \E u \in Units : Restore(u)
  \/ \E p \in Pins, l \in Levels : Switch(p, l)
  \/ \E u \in Units, p \in Pins : Commit(u, p)
  \/ \E u \in Units : CommitContested(u)
  \/ PowerOff

MemorySpec == MemoryInit /\ [][MemoryNext]_memoryVars

==============================================================================
