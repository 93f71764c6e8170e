-------------------------- MODULE PinAllocationProofs --------------------------
(***************************************************************************)
(* Proofs of the safety properties of PinAllocation, for any number of     *)
(* pins, keys and counts.  By themselves they are not inductive: what a    *)
(* boot does depends on what it has come past, and what it lists on the    *)
(* records having no gap.  Inv below says that.                            *)
(***************************************************************************)
EXTENDS PinAllocation, FiniteSetTheorems, WellFoundedInduction, TLAPS

Booting == phase \in {"units", "load"}

(* The units that boot has come past.                                       *)
Passed(u) ==
  /\ u[2] < limit[u[1]]
  /\ \/ phase = "load"
     \/ phase = "units" /\ at[1] = u[1] /\ u[2] < at[2]
     \/ phase = "units" /\ at[1] = "sn" /\ u[1] = "ch"

(* Boot works with the counts of NVS, gives every unit it comes past a      *)
(* record, and comes past no unit that has no key; RAM is empty before.     *)
BootInv ==
  /\ Booting => limit = count
  /\ phase = "counts" /\ at[1] = "sn" => limit["ch"] = count["ch"]
  /\ phase = "units" => at[2] \in 0 .. limit[at[1]] /\ at[2] <= KeyMax[at[1]] + 1
  /\ phase = "units" /\ at[1] = "sn" => limit["ch"] <= KeyMax["ch"] + 1
  /\ phase = "load" => \A k \in Kinds : limit[k] <= KeyMax[k] + 1
  /\ Booting => \A u \in Units : Passed(u) => rec[u] # None
  /\ phase # "run" => ram = [u \in Units |-> None]

(* While pins are given away, only units left out have a record that no     *)
(* list has.                                                                *)
ListInv ==
  phase = "units" =>
    \A u \in Units \ leftOut : rec[u] # None => u \in AllListed

Inv ==
  /\ BootInv /\ ListInv
  /\ NoGaps /\ AllUnitsLoaded /\ AbortsOvercommittedOnly /\ PinsApart

USE PinsAssumption DEF Kinds

------------------------------------------------------------------------------
(* Units, lists and free pins.                                              *)

LEMMA UnitFacts ==
  /\ \A k \in Kinds : \A i \in 0 .. KeyMax[k] : <<k, i>> \in Units
  /\ \A u \in Units : u[1] \in Kinds /\ u[2] \in 0 .. KeyMax[u[1]] /\ u = <<u[1], u[2]>>
BY DEF Units

LEMMA AtUnit ==
  ASSUME at \in Kinds \X Nat, HasKey(at)
  PROVE  at \in Units /\ at = <<at[1], at[2]>>
BY UnitFacts DEF HasKey

(* next_available_safe_gpio_pin, by the order of the natural numbers.       *)
LEMMA LeastPin ==
  ASSUME NEW T \in SUBSET Pins, T # {}
  PROVE  \E p \in T : \A q \in T : p <= q
<1> DEFINE R == OpToRel(<, Nat)
<1>1. T \subseteq Nat
  BY DEF Pins
<1>2. PICK p \in T : \A q \in T : ~ (<<q, p>> \in R)
  <2>1. IsWellFoundedOn(R, Nat)
    BY NatLessThanWellFounded
  <2>. HIDE DEF R
  <2>. QED
    BY <1>1, <2>1, WFMin
<1>3. \A q \in T : ~ (q < p)
  BY <1>1, <1>2 DEF OpToRel
<1>. QED
  BY <1>1, <1>3

LEMMA FreePinChosen ==
  ASSUME FreePins # {}
  PROVE  NextAvailablePin \in Pins /\ NextAvailablePin \notin InUse
<1>1. \E p \in FreePins : \A q \in FreePins : p <= q
  BY LeastPin DEF FreePins
<1>. QED
  BY <1>1 DEF NextAvailablePin, FreePins

(* The channels below a count.                                              *)
LEMMA Below ==
  ASSUME NEW n \in Nat
  PROVE  /\ IsFiniteSet(0 .. n - 1) /\ Cardinality(0 .. n - 1) = n
         /\ IsFiniteSet(0 .. n)
<1>1. n - 1 \in Int /\ n \in Int /\ 0 \in Int
  OBVIOUS
<1>2. /\ IsFiniteSet(0 .. n - 1)
      /\ Cardinality(0 .. n - 1) = IF 0 > n - 1 THEN 0 ELSE (n - 1) - 0 + 1
      /\ IsFiniteSet(0 .. n)
  BY <1>1, FS_Interval, Zenon
<1>3. (IF 0 > n - 1 THEN 0 ELSE (n - 1) - 0 + 1) = n
  OBVIOUS
<1>. QED
  BY <1>2, <1>3

(* The records of a kind: finitely many, and no more than the count.        *)
LEMMA StoredFinite ==
  ASSUME NEW k \in Kinds
  PROVE  /\ Stored(k) \subseteq 0 .. KeyMax[k]
         /\ IsFiniteSet(Stored(k)) /\ Cardinality(Stored(k)) \in Nat
<1>1. Stored(k) \subseteq 0 .. KeyMax[k]
  BY DEF Stored
<1>2. IsFiniteSet(0 .. KeyMax[k])
  BY Below
<1>3. IsFiniteSet(Stored(k))
  BY <1>1, <1>2, FS_Subset
<1>. QED
  BY <1>1, <1>3, FS_CardinalityType

(* A record below a limit n that has no gap is within the length of the     *)
(* list.                                                                    *)
LEMMA NoGapCounted ==
  ASSUME NEW k \in Kinds, NEW n \in Nat, 0 .. n - 1 \subseteq Stored(k)
  PROVE  n <= Cardinality(Stored(k))
<1>1. /\ IsFiniteSet(0 .. n - 1)
      /\ Cardinality(0 .. n - 1) = n
  BY Below
<1>2. Cardinality(0 .. n - 1) <= Cardinality(Stored(k))
  BY StoredFinite, FS_Subset
<1>. QED
  BY <1>1, <1>2, StoredFinite

LEMMA ListedUnits ==
  ASSUME NEW u \in Units
  PROVE  u \in AllListed <=> /\ u[2] \in Stored(u[1])
                            /\ u[2] < Cardinality(Stored(u[1]))
<1>1. u[1] \in {"ch", "sn"} /\ u = <<u[1], u[2]>>
  BY UnitFacts
<1>2. \A k \in Kinds : u \in Listed(k) <=>
         /\ u[1] = k
         /\ u[2] \in Stored(k) /\ u[2] < Cardinality(Stored(k))
  BY <1>1 DEF Listed
<1>. QED
  BY <1>1, <1>2 DEF AllListed

LEMMA ListedFinite ==
  ASSUME NEW k \in Kinds
  PROVE  /\ IsFiniteSet(Listed(k))
         /\ Cardinality(Listed(k)) \in Nat
         /\ Cardinality(Listed(k)) <= Cardinality(Stored(k))
<1> DEFINE f == [u \in Listed(k) |-> u[2]]
<1>1. f \in Injection(Listed(k), Stored(k))
  BY DEF Listed, Injection, IsInjective
<1>2. /\ IsFiniteSet(Listed(k))
      /\ Cardinality(Listed(k)) <= Cardinality(Stored(k))
  <2>. HIDE DEF f
  <2>. QED
    BY <1>1, StoredFinite, FS_Injection
<1>. QED
  BY <1>2, FS_CardinalityType

(* The pigeonhole argument about get_next_available_safe_gpio_pin: with     *)
(* counts that the API takes, a unit that has no record leaves a pin free.  *)
LEMMA FreePinLeft ==
  ASSUME count \in [Kinds -> Nat], \A k \in Kinds : count[k] <= KeyMax[k],
         NEW u \in Units, u[2] < count[u[1]], rec[u] = None
  PROVE  FreePins # {}
<1>1. ASSUME NEW k \in Kinds
      PROVE  /\ Cardinality(Stored(k)) <= count[k]
             /\ u[1] = k => Cardinality(Stored(k)) <= count[k] - 1
  <2> DEFINE I == 0 .. count[k] - 1
  <2>1. IsFiniteSet(I) /\ Cardinality(I) = count[k]
    BY Below
  <2>2. Stored(k) \subseteq I
    BY DEF Stored
  <2>3. Cardinality(Stored(k)) <= count[k]
    BY <2>1, <2>2, FS_Subset
  <2>4. CASE u[1] = k
    <3>1. u[2] \in I /\ u = <<k, u[2]>>
      BY <2>4, UnitFacts
    <3>2. IsFiniteSet(I \ {u[2]}) /\ Cardinality(I \ {u[2]}) = count[k] - 1
      <4>. HIDE DEF I
      <4>1. /\ IsFiniteSet(I \ {u[2]})
            /\ Cardinality(I \ {u[2]}) =
                 IF u[2] \in I THEN Cardinality(I) - 1 ELSE Cardinality(I)
        BY <2>1, FS_RemoveElement, Zenon
      <4>. QED
        BY <2>1, <3>1, <4>1
    <3>3. Stored(k) \subseteq I \ {u[2]}
      BY <2>2, <3>1 DEF Stored
    <3>4. Cardinality(Stored(k)) <= count[k] - 1
      BY <3>2, <3>3, FS_Subset
    <3>. QED
      BY <2>3, <3>4
  <2>. QED
    BY <2>3, <2>4
<1>2. Cardinality(Stored("ch")) + Cardinality(Stored("sn")) < NumPins
  <2>1. /\ Cardinality(Stored("ch")) \in Nat /\ Cardinality(Stored("sn")) \in Nat
        /\ Cardinality(Stored("ch")) <= count["ch"]
        /\ Cardinality(Stored("sn")) <= count["sn"]
    BY <1>1, StoredFinite
  <2>2. \/ Cardinality(Stored("ch")) <= count["ch"] - 1
        \/ Cardinality(Stored("sn")) <= count["sn"] - 1
    BY <1>1, UnitFacts
  <2>. QED
    BY <2>1, <2>2
<1>3. /\ IsFiniteSet(AllListed)
      /\ Cardinality(AllListed) < NumPins
  <2>1. /\ IsFiniteSet(AllListed)
        /\ Cardinality(AllListed) =
             Cardinality(Listed("ch")) + Cardinality(Listed("sn"))
               - Cardinality(Listed("ch") \cap Listed("sn"))
    BY ListedFinite, FS_Union DEF AllListed
  <2>2. Cardinality(Listed("ch") \cap Listed("sn")) \in Nat
    BY ListedFinite, FS_Intersection, FS_CardinalityType
  <2>. QED
    BY <1>2, <2>1, <2>2, ListedFinite, StoredFinite
<1>4. /\ IsFiniteSet(InUse)
      /\ Cardinality(InUse) <= Cardinality(AllListed)
  <2> DEFINE g == [v \in AllListed |-> rec[v]]
  <2>1. g \in Surjection(AllListed, InUse)
    BY DEF InUse, Surjection
  <2>. HIDE DEF g
  <2>. QED
    BY <1>3, <2>1, FS_Surjection
<1>5. Cardinality(InUse) < NumPins
  BY <1>3, <1>4, FS_CardinalityType
<1>6. Cardinality(Pins) = NumPins
  BY FS_Interval DEF Pins
<1>7. SUFFICES ASSUME Pins \subseteq InUse PROVE FALSE
  BY DEF FreePins
<1>8. Cardinality(Pins) <= Cardinality(InUse)
  BY <1>4, <1>7, FS_Subset
<1>. QED
  BY <1>4, <1>5, <1>6, <1>8, FS_CardinalityType

------------------------------------------------------------------------------
(* Types.                                                                   *)

USE DEF vars, nvsVars, history, bounds

(* Boot goes on with some count, ...                                        *)
LEMMA Takes ==
  ASSUME TypeOK, BootCount \/ BootCountUnread
  PROVE  /\ \E n \in Nat : TakesCount(n)
         /\ restarts' \in Nat
<1>1. at[1] \in Kinds /\ restarts \in Nat
  BY DEF TypeOK
<1>2. Default[at[1]] \in Nat
  BY <1>1, DefaultAssumption
<1>3. CountOf(at[1]) \in Nat
  BY <1>1, <1>2 DEF CountOf, TypeOK
<1>4. CASE BootCount
  BY <1>1, <1>3, <1>4 DEF BootCount
<1>5. CASE BootCountUnread
  BY <1>1, <1>2, <1>5 DEF BootCountUnread, Accident
<1>. QED
  BY <1>4, <1>5

(* ... gives a unit some pin, ...                                           *)
BootGives == BootCreate \/ \E p \in Pins : BootMisreads(p)

LEMMA GivesPin ==
  ASSUME TypeOK, BootGives
  PROVE  /\ \E p \in Pins : Gives(p)
         /\ leftOut \subseteq leftOut' /\ leftOut' \subseteq Units
         /\ restarts' \in Nat
<1>1. restarts \in Nat /\ leftOut \subseteq Units
  BY DEF TypeOK
<1>2. CASE BootCreate
  BY <1>1, <1>2, FreePinChosen DEF BootCreate
<1>3. CASE \E p \in Pins : BootMisreads(p)
  BY <1>1, <1>3 DEF BootMisreads, Accident
<1>. QED
  BY <1>2, <1>3 DEF BootGives

(* ... and loads listed units.                                              *)
BootLoads == LoadUnits \/ \E unread \in SUBSET AllListed \ {{}} : LoadUnitsPartly(unread)

LEMMA LoadsListed ==
  ASSUME BootLoads
  PROVE  \E S \in SUBSET AllListed : Loads(S)
<1>1. \A unread : ListedBut(unread) \in SUBSET AllListed
  BY DEF ListedBut
<1>. QED
  BY <1>1 DEF BootLoads, LoadUnits, LoadUnitsPartly

(* The steps of boot, and those of the board that runs.                     *)
LEMMA Steps ==
  ASSUME [Next]_vars
  PROVE  \/ Restart \/ AbortRestarts
         \/ BootCount \/ BootCountUnread
         \/ BootFound \/ BootGives \/ BootNextKind
         \/ BootAbort \/ BootFails \/ BootLoads
         \/ \E k \in Kinds : \E n \in 0 .. KeyMax[k] : SetCount(k, n)
         \/ \E n, m \in FormCounts : FormFirst(n, m)
         \/ FormSecond
         \/ \E u \in Units : Save(u) \/ \E p \in Pins : Move(u, p)
         \/ ResetSettings
         \/ UNCHANGED vars
BY DEF Next, BootStep, BootAccident, BootGives, BootLoads

LEMMA InitType == Init => TypeOK
BY DEF Init, TypeOK, Units, NoForm

LEMMA TypeStep == TypeOK /\ [Next]_vars => TypeOK'
<1> SUFFICES ASSUME TypeOK, [Next]_vars PROVE TypeOK'
  OBVIOUS
<1> USE DEF TypeOK
<1>1. ASSUME NEW S \in SUBSET Units, Restarts(S),
             rec' \in [Units -> Pins \cup {None}],
             count' \in [Kinds -> Nat \cup {Missing}], wiped' \in BOOLEAN,
             changes' \in Nat, restarts' \in Nat
      PROVE  TypeOK'
  BY <1>1 DEF Restarts
<1>2. CASE Restart
  BY <1>2, <1>1 DEF Restart, Accident
<1>3. CASE BootCount \/ BootCountUnread
  <2>0. PICK n \in Nat : TakesCount(n)
    BY <1>3, Takes
  <2>1. at[1] \in Kinds
    OBVIOUS
  <2>2. /\ count' = [count EXCEPT ![at[1]] = n]
        /\ limit' = [limit EXCEPT ![at[1]] = n]
        /\ UNCHANGED <<rec, ram, form, moved, stale, fault, changes>> /\ wiped' = FALSE
        /\ restarts' \in Nat
    BY <1>3, <2>0, Takes DEF TakesCount
  <2>3. count' \in [Kinds -> Nat \cup {Missing}] /\ limit' \in [Kinds -> Nat]
    BY <2>1, <2>2
  <2>4. /\ phase' \in {"counts", "units", "load", "run", "abort"}
        /\ at' \in Kinds \X Nat /\ leftOut' \subseteq Units
    BY <2>0, <2>1 DEF TakesCount
  <2>. QED
    BY <2>2, <2>3, <2>4
<1>4. CASE BootFound
  BY <1>4 DEF BootFound, Following
<1>5. CASE BootGives
  <2>1. PICK p \in Pins : Gives(p)
    BY <1>5, GivesPin
  <2>2. at \in Units
    BY <2>1, AtUnit DEF Gives
  <2>. QED
    BY <1>5, <2>1, <2>2, GivesPin DEF Gives, Following
<1>6. CASE BootNextKind
  BY <1>6 DEF BootNextKind
<1>7. CASE BootAbort \/ BootFails
  BY <1>7 DEF BootAbort, BootFails, Accident
<1>8. CASE AbortRestarts
  BY <1>8, <1>1 DEF AbortRestarts
<1>9. CASE BootLoads
  <2>1. PICK S \in SUBSET AllListed : Loads(S)
    BY <1>9, LoadsListed
  <2>2. fault' \in {"none", "abort", "load"} /\ restarts' \in Nat
    BY <1>9 DEF BootLoads, LoadUnits, LoadUnitsPartly, Accident
  <2>. QED
    BY <2>1, <2>2 DEF Loads
<1>10. ASSUME NEW k \in Kinds, NEW n \in 0 .. KeyMax[k], SetCount(k, n)
       PROVE  TypeOK'
  <2>1. n \in Nat
    OBVIOUS
  <2>2. count' \in [Kinds -> Nat \cup {Missing}]
    BY <1>10, <2>1 DEF SetCount
  <2>. QED
    BY <1>10, <2>2 DEF SetCount, Change
<1>11. ASSUME NEW n \in FormCounts, NEW m \in FormCounts, FormFirst(n, m)
       PROVE  TypeOK'
  <2>1. count' \in [Kinds -> Nat \cup {Missing}]
    BY <1>11, FormAssumption DEF FormFirst
  <2>2. form' \in FormCounts \cup {NoForm}
    BY <1>11 DEF FormFirst
  <2>3. wiped' \in BOOLEAN
    BY <1>11 DEF FormFirst
  <2>4. changes' \in Nat /\ UNCHANGED <<phase, at, limit, rec, ram, history, restarts>>
    BY <1>11 DEF FormFirst, Change
  <2>. QED
    BY <2>1, <2>2, <2>3, <2>4
<1>12. CASE FormSecond
  BY <1>12, FormAssumption DEF FormSecond
<1>13. ASSUME NEW u \in Units, Save(u)
       PROVE  TypeOK'
  <2>1. rec' \in [Units -> Pins \cup {None}] /\ UNCHANGED <<count, wiped, bounds>>
    BY <1>13 DEF Save
  <2>2. CASE /\ stale' = stale \cup (IF rec[u] = None THEN {u} ELSE {})
             /\ UNCHANGED <<phase, at, limit, ram, form, moved, leftOut, fault>>
    BY <2>1, <2>2
  <2>3. CASE Restarts(IF rec[u] = None THEN {u} ELSE {})
    BY <2>1, <2>3, <1>1
  <2>. QED
    BY <1>13, <2>2, <2>3 DEF Save
<1>14. ASSUME NEW u \in Units, NEW p \in Pins, Move(u, p)
       PROVE  TypeOK'
  <2>1. ram' \in [Units -> Pins \cup {None}] /\ moved' \subseteq Units
    BY <1>14 DEF Move
  <2>. QED
    BY <1>14, <2>1 DEF Move, Change
<1>15. CASE ResetSettings
  BY <1>15 DEF ResetSettings, Change
<1>16. CASE UNCHANGED vars
  BY <1>16
<1>. QED
  BY <1>2, <1>3, <1>4, <1>5, <1>6, <1>7, <1>8, <1>9, <1>10, <1>11, <1>12,
     <1>13, <1>14, <1>15, <1>16, Steps

(* Every variable of the allocation of pins keeps its type, whatever counts *)
(* users store and whenever power fails.                                    *)
THEOREM TypeCorrect == Spec => []TypeOK
BY InitType, TypeStep, PTL DEF Spec

------------------------------------------------------------------------------
(* How far boot has come.                                                   *)

LEMMA PastUnit ==
  ASSUME TypeOK, phase = "units", at' = Following(at),
         at[2] < limit[at[1]], at[2] <= KeyMax[at[1]], UNCHANGED limit
  PROVE  /\ at'[1] = at[1]
         /\ at'[2] \in 0 .. limit'[at'[1]] /\ at'[2] <= KeyMax[at'[1]] + 1
<1>1. /\ at[1] \in Kinds /\ at[2] \in Nat
      /\ at'[1] = at[1] /\ at'[2] = at[2] + 1
  BY DEF TypeOK, Following
<1>2. limit[at[1]] \in Nat /\ KeyMax[at[1]] \in Nat
  BY <1>1 DEF TypeOK
<1>. QED
  BY <1>1, <1>2

LEMMA PassedNext ==
  ASSUME TypeOK, phase = "units", at' = Following(at), UNCHANGED <<phase, limit>>,
         NEW u \in Units, Passed(u)'
  PROVE  Passed(u) \/ u = at
<1>1. /\ at[1] \in Kinds /\ at[2] \in Nat /\ at = <<at[1], at[2]>>
      /\ at'[1] = at[1] /\ at'[2] = at[2] + 1
  BY DEF TypeOK, Following
<1>2. u[2] \in Nat /\ u = <<u[1], u[2]>>
  BY UnitFacts
<1>3. CASE u[1] = at[1]
  <2>1. u[2] < at[2] + 1 \/ (at[1] = "sn" /\ u[1] = "ch")
    BY <1>1 DEF Passed
  <2>2. u[2] < at[2] \/ u[2] = at[2]
    BY <1>1, <1>2, <1>3, <2>1
  <2>. QED
    BY <1>1, <1>2, <1>3, <2>2 DEF Passed
<1>4. CASE u[1] # at[1]
  BY <1>1, <1>4 DEF Passed
<1>. QED
  BY <1>3, <1>4

LEMMA BootStepInv == TypeOK /\ BootInv /\ [Next]_vars => BootInv'
<1> SUFFICES ASSUME TypeOK, BootInv, [Next]_vars PROVE BootInv'
  OBVIOUS
<1> USE DEF BootInv, Booting, Passed
<1>1. ASSUME NEW S, Restarts(S) PROVE BootInv'
  BY <1>1 DEF Restarts
<1>2. CASE Restart
  BY <1>2, <1>1 DEF Restart
<1>3. CASE BootCount \/ BootCountUnread
  <2>0. PICK n \in Nat : TakesCount(n)
    BY <1>3, Takes
  <2>1. at[1] \in Kinds
    BY DEF TypeOK
  <2>2. /\ count' = [count EXCEPT ![at[1]] = n]
        /\ limit' = [limit EXCEPT ![at[1]] = n]
        /\ phase = "counts" /\ ram' = ram
        /\ \/ at[1] = "ch" /\ at' = <<"sn", 0>> /\ phase' = phase
           \/ at[1] = "sn" /\ at' = <<"ch", 0>> /\ phase' = "units"
    BY <2>0 DEF TakesCount
  <2>3. limit'[at[1]] = count'[at[1]] /\ \A k \in Kinds : k # at[1] =>
                    limit'[k] = limit[k] /\ count'[k] = count[k]
    BY <2>1, <2>2 DEF TypeOK
  <2>4. limit' \in [Kinds -> Nat] /\ DOMAIN count' = Kinds
    BY <2>1, <2>2 DEF TypeOK
  <2>5. CASE at[1] = "ch"
    BY <2>2, <2>3, <2>5
  <2>6. CASE at[1] = "sn"
    <3>1. limit' = count'
      <4>1. \A k \in Kinds : limit'[k] = count'[k]
        BY <2>2, <2>3, <2>6
      <4>2. count' = [k \in Kinds |-> count'[k]] /\ limit' = [k \in Kinds |-> limit'[k]]
        BY <2>2 DEF TypeOK
      <4>3. [k \in Kinds |-> limit'[k]] = [k \in Kinds |-> count'[k]]
        BY <4>1
      <4>. QED
        BY <4>2, <4>3, Zenon
    <3>2. \A u \in Units : ~ Passed(u)'
      BY <2>2, <2>6, UnitFacts
    <3>3. /\ at'[1] = "ch" /\ at'[2] = 0 /\ phase' = "units"
          /\ at'[2] \in 0 .. limit'[at'[1]] /\ at'[2] <= KeyMax[at'[1]] + 1
      BY <2>2, <2>4, <2>6
    <3>. QED
      BY <2>2, <3>1, <3>2, <3>3
  <2>. QED
    BY <2>1, <2>5, <2>6
<1>4. CASE BootFound
  <2>1. /\ phase = "units" /\ at' = Following(at)
        /\ at[2] < limit[at[1]] /\ at[2] <= KeyMax[at[1]] /\ rec[at] # None
        /\ UNCHANGED <<phase, limit, count, rec, ram>>
    BY <1>4 DEF BootFound, HasKey
  <2>2. \A u \in Units : Passed(u)' => rec'[u] # None
    BY <2>1, PassedNext
  <2>. QED
    BY <2>1, <2>2, PastUnit
<1>5. CASE BootGives
  <2>0. PICK p \in Pins : Gives(p)
    BY <1>5, GivesPin
  <2>1. at \in Units /\ p # None
    BY <2>0, AtUnit DEF Gives, TypeOK, Pins, None
  <2>. QED
    <3>1. /\ phase = "units" /\ at' = Following(at)
          /\ at[2] < limit[at[1]] /\ at[2] <= KeyMax[at[1]]
          /\ rec' = [rec EXCEPT ![at] = p]
          /\ UNCHANGED <<phase, limit, count, ram>>
      BY <2>0 DEF Gives, HasKey
    <3>2. \A u \in Units : Passed(u)' => rec'[u] # None
      BY <2>1, <3>1, PassedNext DEF TypeOK
    <3>. QED
      BY <3>1, <3>2, PastUnit
<1>6. CASE BootNextKind
  BY <1>6, UnitFacts DEF BootNextKind, TypeOK
<1>7. CASE BootAbort \/ BootFails
  BY <1>7 DEF BootAbort, BootFails
<1>8. CASE AbortRestarts
  BY <1>8, <1>1 DEF AbortRestarts
<1>9. CASE BootLoads
  BY <1>9, LoadsListed DEF Loads
<1>10. ASSUME NEW k \in Kinds, NEW n \in 0 .. KeyMax[k], SetCount(k, n)
       PROVE  BootInv'
  BY <1>10 DEF SetCount, Change
<1>11. ASSUME NEW n \in FormCounts, NEW m \in FormCounts, FormFirst(n, m)
       PROVE  BootInv'
  BY <1>11 DEF FormFirst, Change
<1>12. CASE FormSecond
  BY <1>12 DEF FormSecond
<1>13. ASSUME NEW u \in Units, Save(u)
       PROVE  BootInv'
  BY <1>13, <1>1 DEF Save
<1>14. ASSUME NEW u \in Units, NEW p \in Pins, Move(u, p)
       PROVE  BootInv'
  BY <1>14 DEF Move, Change
<1>15. CASE ResetSettings
  BY <1>15 DEF ResetSettings, Change
<1>16. CASE UNCHANGED vars
  BY <1>16
<1>. QED
  BY <1>2, <1>3, <1>4, <1>5, <1>6, <1>7, <1>8, <1>9, <1>10, <1>11, <1>12,
     <1>13, <1>14, <1>15, <1>16, Steps

------------------------------------------------------------------------------
(* Records have no gap.                                                     *)

LEMMA SaveEffect ==
  ASSUME TypeOK, NEW u \in Units, Save(u)
  PROVE  /\ rec' = [rec EXCEPT ![u] = ram[u]] /\ ram[u] # None
         /\ UNCHANGED <<count, wiped, bounds>> /\ phase = "run"
         /\ \/ /\ stale' = stale \cup (IF rec[u] = None THEN {u} ELSE {})
               /\ UNCHANGED <<phase, at, limit, ram, form, moved, leftOut, fault>>
            \/ Restarts(IF rec[u] = None THEN {u} ELSE {})
BY DEF Save, TypeOK

LEMMA NoGapsStep == TypeOK /\ BootInv /\ NoGaps /\ [Next]_vars => NoGaps'
<1> SUFFICES ASSUME TypeOK, BootInv, NoGaps, [Next]_vars PROVE NoGaps'
  OBVIOUS
<1>1. CASE BootGives
  <2>0. PICK p \in Pins : Gives(p)
    BY <1>1, GivesPin
  <2>1. /\ at \in Units /\ at = <<at[1], at[2]>> /\ p # None
    BY <2>0, AtUnit DEF Gives, TypeOK, Pins, None
  <2>2. /\ rec' = [rec EXCEPT ![at] = p]
        /\ phase = "units" /\ stale' = stale /\ at[2] < limit[at[1]]
    BY <2>0 DEF Gives
  <2>3. \A v \in Units : rec[v] # None => rec'[v] # None
    BY <2>1, <2>2 DEF TypeOK
  <2>4. ASSUME NEW i \in 0 .. at[2]
        PROVE  rec'[<<at[1], i>>] # None
    <3>1. <<at[1], i>> \in Units
      BY <2>1, UnitFacts
    <3>2. CASE i = at[2]
      BY <2>1, <2>2, <3>2 DEF TypeOK
    <3>3. CASE i # at[2]
      <4>0. at[2] \in Int /\ limit[at[1]] \in Int
        BY <2>1, UnitFacts DEF TypeOK
      <4>1. at[2] < limit[at[1]]
        BY <2>2
      <4>2. i < at[2] /\ i < limit[at[1]]
        BY <3>3, <4>0, <4>1
      <4>3. Passed(<<at[1], i>>)
        BY <2>2, <4>2 DEF Passed
      <4>. QED
        BY <2>2, <2>3, <3>1, <4>3 DEF BootInv, Booting
    <3>. QED
      BY <3>2, <3>3
  <2>5. ASSUME NEW v \in Units \ stale', NEW i \in 0 .. v[2], rec'[v] # None
        PROVE  rec'[<<v[1], i>>] # None
    <3>1. <<v[1], i>> \in Units
      BY UnitFacts
    <3>2. CASE v = at
      BY <2>4, <2>5, <3>2
    <3>3. CASE v # at
      <4>1. rec[v] # None /\ v \notin stale
        BY <2>1, <2>2, <2>5, <3>3 DEF TypeOK
      <4>. QED
        BY <2>3, <2>5, <3>1, <4>1 DEF NoGaps
    <3>. QED
      BY <3>2, <3>3
  <2>. QED
    BY <2>5 DEF NoGaps
<1>2. ASSUME NEW u \in Units, Save(u)
      PROVE  NoGaps'
  <2>1. \A v \in Units : rec[v] # None => rec'[v] # None
    BY <1>2, SaveEffect DEF TypeOK
  <2>2. \A v \in Units \ stale' : rec'[v] # None => rec[v] # None /\ v \notin stale
    BY <1>2, SaveEffect DEF TypeOK, Restarts
  <2>3. \A v \in Units : \A i \in 0 .. v[2] : <<v[1], i>> \in Units
    BY UnitFacts
  <2>. QED
    BY <2>1, <2>2, <2>3 DEF NoGaps
<1>3. ASSUME NEW S, Restarts(S), UNCHANGED rec
      PROVE  NoGaps'
  BY <1>3 DEF Restarts, NoGaps
<1>4. CASE Restart
  BY <1>4, <1>3 DEF Restart
<1>5. CASE AbortRestarts
  BY <1>5, <1>3 DEF AbortRestarts
<1>6. CASE ResetSettings
  <2>1. \A v \in Units : rec'[v] = None
    BY <1>6 DEF ResetSettings
  <2>. QED
    BY <2>1 DEF NoGaps
<1>7. CASE UNCHANGED <<rec, stale>>
  BY <1>7 DEF NoGaps
<1>8. \/ BootGives \/ \E u \in Units : Save(u)
      \/ Restart \/ AbortRestarts \/ ResetSettings
      \/ UNCHANGED <<rec, stale>>
  BY Steps, LoadsListed DEF BootCount, BootCountUnread, TakesCount, BootFound,
     BootNextKind, BootAbort, BootFails, Loads, SetCount, FormFirst, FormSecond, Move
<1>. QED
  BY <1>1, <1>2, <1>4, <1>5, <1>6, <1>7, <1>8

------------------------------------------------------------------------------
(* The units that boot loads, and where it aborts.                          *)

(* The lists are complete when boot has come past all units.                *)
LEMMA LoadedLists ==
  ASSUME TypeOK, BootInv, phase = "load", NEW u \in Units
  PROVE  u \in AllListed <=> u[2] < limit[u[1]]
<1> DEFINE k == u[1]
<1>1. k \in Kinds /\ u[2] \in 0 .. KeyMax[k] /\ u = <<k, u[2]>>
  BY UnitFacts
<1>2. limit = count /\ limit[k] \in Nat /\ limit[k] <= KeyMax[k] + 1
  BY <1>1 DEF BootInv, Booting, TypeOK
<1>3. 0 .. limit[k] - 1 \subseteq Stored(k)
  <2> SUFFICES ASSUME NEW i \in 0 .. limit[k] - 1 PROVE i \in Stored(k)
    OBVIOUS
  <2>1. i \in 0 .. KeyMax[k] /\ i < limit[k]
    BY <1>1, <1>2
  <2>2. <<k, i>> \in Units
    BY <1>1, <2>1, UnitFacts
  <2>3. Passed(<<k, i>>)
    BY <2>1 DEF Passed
  <2>4. rec[<<k, i>>] # None
    BY <2>2, <2>3 DEF BootInv, Booting
  <2>. QED
    BY <1>2, <2>1, <2>4 DEF Stored
<1>4. ASSUME u[2] < limit[k] PROVE u \in AllListed
  <2>1. u[2] \in Stored(k)
    BY <1>1, <1>2, <1>3, <1>4
  <2>2. limit[k] <= Cardinality(Stored(k)) /\ Cardinality(Stored(k)) \in Nat
    BY <1>1, <1>2, <1>3, NoGapCounted, StoredFinite
  <2>. QED
    BY <1>1, <1>2, <1>4, <2>1, <2>2, ListedUnits
<1>5. ASSUME u \in AllListed PROVE u[2] < limit[k]
  BY <1>2, <1>5, ListedUnits DEF Stored
<1>. QED
  BY <1>4, <1>5

LEMMA LoadedStep == TypeOK /\ BootInv /\ AllUnitsLoaded /\ [Next]_vars => AllUnitsLoaded'
<1> SUFFICES ASSUME TypeOK, BootInv, AllUnitsLoaded, [Next]_vars PROVE AllUnitsLoaded'
  OBVIOUS
<1>1. CASE LoadUnits
  <2>1. ASSUME NEW u \in Units
        PROVE  ram'[u] # None <=> u[2] < limit'[u[1]]
    <3>1. /\ ram'[u] = IF u \in AllListed THEN rec[u] ELSE None
          /\ limit' = limit /\ phase = "load"
      BY <1>1 DEF LoadUnits, Loads
    <3>2. u \in AllListed <=> u[2] < limit[u[1]]
      BY <3>1, LoadedLists
    <3>3. u \in AllListed => rec[u] # None
      BY ListedUnits, UnitFacts DEF Stored
    <3>. QED
      BY <3>1, <3>2, <3>3
  <2>. QED
    BY <2>1 DEF AllUnitsLoaded
<1>2. ASSUME NEW u \in Units, NEW p \in Pins, Move(u, p)
      PROVE  AllUnitsLoaded'
  <2>1. p # None
    BY DEF Pins, None
  <2>2. /\ ram' = [ram EXCEPT ![u] = p] /\ ram[u] # None
        /\ limit' = limit /\ phase = "run" /\ fault' = fault
    BY <1>2 DEF Move, Change
  <2>3. \A v \in Units : ram'[v] # None <=> ram[v] # None
    BY <2>1, <2>2 DEF TypeOK
  <2>. QED
    BY <2>2, <2>3 DEF AllUnitsLoaded
<1>3. CASE phase' # "run" \/ fault' = "load"
  BY <1>3 DEF AllUnitsLoaded
<1>4. CASE UNCHANGED <<phase, ram, limit, fault>>
  BY <1>4 DEF AllUnitsLoaded
<1>5. \/ LoadUnits
      \/ \E u \in Units : \E p \in Pins : Move(u, p)
      \/ phase' # "run" \/ fault' = "load"
      \/ UNCHANGED <<phase, ram, limit, fault>>
  BY Steps, Takes, GivesPin DEF Restart, AbortRestarts, Restarts, TakesCount, BootFound,
     Gives, BootNextKind, BootAbort, BootFails, BootLoads, LoadUnitsPartly,
     SetCount, FormFirst, FormSecond, Save, ResetSettings
<1>. QED
  BY <1>1, <1>2, <1>3, <1>4, <1>5

LEMMA AbortStep ==
  TypeOK /\ BootInv /\ AbortsOvercommittedOnly /\ [Next]_vars => AbortsOvercommittedOnly'
<1> SUFFICES ASSUME TypeOK, BootInv, AbortsOvercommittedOnly, [Next]_vars
             PROVE  AbortsOvercommittedOnly'
  OBVIOUS
<1>1. CASE BootAbort
  <2>1. /\ phase = "units" /\ at[2] < limit[at[1]] /\ count' = count
        /\ \/ ~HasKey(at)
           \/ HasKey(at) /\ rec[at] = None /\ (FreePins = {} \/ TooMany)
    BY <1>1 DEF BootAbort
  <2>2. at[1] \in Kinds /\ at[2] \in Nat /\ limit = count /\ count \in [Kinds -> Nat]
    BY <2>1 DEF TypeOK, BootInv, Booting
  <2>3. CASE ~HasKey(at)
    BY <2>1, <2>2, <2>3 DEF HasKey, AbortsOvercommittedOnly
  <2>4. CASE HasKey(at) /\ rec[at] = None /\ FreePins = {}
    <3>1. at \in Units
      BY <2>4, AtUnit DEF TypeOK
    <3>2. ~ \A k \in Kinds : count[k] <= KeyMax[k]
      BY <2>1, <2>2, <2>4, <3>1, FreePinLeft
    <3>. QED
      BY <2>1, <2>2, <3>2 DEF AbortsOvercommittedOnly
  <2>5. CASE TooMany
    BY <2>1, <2>2, <2>5 DEF TooMany, AbortsOvercommittedOnly
  <2>. QED
    BY <2>1, <2>3, <2>4, <2>5
<1>2. CASE phase' # "abort" \/ fault' = "abort"
  BY <1>2 DEF AbortsOvercommittedOnly
<1>3. CASE UNCHANGED <<phase, count, fault>>
  BY <1>3 DEF AbortsOvercommittedOnly
<1>4. \/ BootAbort \/ phase' # "abort" \/ fault' = "abort"
      \/ UNCHANGED <<phase, count, fault>>
  BY Steps, Takes, GivesPin, LoadsListed DEF Restart, AbortRestarts, Restarts, TakesCount,
     BootFound, Gives, BootNextKind, BootFails, Loads, SetCount, FormFirst, FormSecond,
     Move, Save, ResetSettings, Change
<1>. QED
  BY <1>1, <1>2, <1>3, <1>4

------------------------------------------------------------------------------
(* While pins are given away, the lists have every record that counts.      *)

(* The record that boot makes is listed, and no other one leaves the lists. *)
LEMMA CreateListed ==
  ASSUME TypeOK, BootInv, NEW p \in Pins, Gives(p), NEW u \in Units,
         u = at \/ u \in AllListed
  PROVE  u \in AllListed'
<1> DEFINE k == u[1]
           Next_k == Stored(k)'
<1>1. k \in Kinds /\ u[2] \in 0 .. KeyMax[k] /\ u = <<k, u[2]>>
  BY UnitFacts
<1>2. /\ at \in Units /\ at = <<at[1], at[2]>> /\ p # None
  BY AtUnit DEF Gives, TypeOK, Pins, None
<1>3. /\ rec' = [rec EXCEPT ![at] = p] /\ count' = count
      /\ phase = "units" /\ at[2] < limit[at[1]] /\ limit = count
  BY DEF Gives, BootInv, Booting
<1>4. \A v \in Units : rec[v] # None => rec'[v] # None
  BY <1>2, <1>3 DEF TypeOK
<1>5. /\ Stored(k) \subseteq Next_k /\ Next_k \subseteq 0 .. KeyMax[k]
      /\ IsFiniteSet(Next_k) /\ Cardinality(Next_k) \in Nat
  <2>1. \A i \in 0 .. KeyMax[k] : <<k, i>> \in Units
    BY <1>1, UnitFacts
  <2>2. Stored(k) \subseteq Next_k /\ Next_k \subseteq 0 .. KeyMax[k]
    BY <1>3, <1>4, <2>1 DEF Stored
  <2>3. IsFiniteSet(0 .. KeyMax[k])
    BY <1>1, Below
  <2>4. IsFiniteSet(Next_k)
    BY <2>2, <2>3, FS_Subset
  <2>. QED
    BY <2>2, <2>4, FS_CardinalityType
<1>6. u[2] \in Next_k /\ u[2] < Cardinality(Next_k)
  <2>1. CASE u = at
    <3>1. 0 .. u[2] \subseteq Next_k
      <4> SUFFICES ASSUME NEW i \in 0 .. u[2] PROVE i \in Next_k
        OBVIOUS
      <4>1. i \in 0 .. KeyMax[k] /\ <<k, i>> \in Units
        BY <1>1, UnitFacts
      <4>2. i < count[k]
        BY <1>1, <1>3, <2>1 DEF TypeOK
      <4>3. rec'[<<k, i>>] # None
        <5>1. CASE i = u[2]
          BY <1>1, <1>2, <1>3, <2>1, <5>1 DEF TypeOK
        <5>2. CASE i # u[2]
          <6>1. Passed(<<k, i>>)
            BY <1>1, <1>3, <2>1, <4>2, <5>2 DEF Passed
          <6>. QED
            BY <1>3, <1>4, <4>1, <6>1 DEF BootInv, Booting
        <5>. QED
          BY <5>1, <5>2
      <4>. QED
        BY <1>3, <4>1, <4>2, <4>3 DEF Stored
    <3>2. IsFiniteSet(0 .. (u[2] + 1) - 1) /\ Cardinality(0 .. (u[2] + 1) - 1) = u[2] + 1
      BY <1>1, Below
    <3>3. 0 .. (u[2] + 1) - 1 = 0 .. u[2]
      BY <1>1
    <3>4. u[2] + 1 <= Cardinality(Next_k)
      <4>1. 0 .. (u[2] + 1) - 1 \subseteq Next_k
        BY <3>1, <3>3
      <4>. HIDE DEF Next_k
      <4>2. Cardinality(0 .. (u[2] + 1) - 1) <= Cardinality(Next_k)
        BY <1>5, <4>1, FS_Subset
      <4>. QED
        BY <3>2, <4>2
    <3>. QED
      BY <1>1, <1>5, <3>1, <3>4
  <2>2. CASE u \in AllListed
    <3>1. u[2] \in Stored(k) /\ u[2] < Cardinality(Stored(k))
      BY <2>2, ListedUnits
    <3>2. Cardinality(Stored(k)) <= Cardinality(Next_k)
      BY <1>5, FS_Subset
    <3>. QED
      BY <1>1, <1>5, <3>1, <3>2, StoredFinite
  <2>. QED
    BY <2>1, <2>2
<1>7. u \in Listed(k)'
  BY <1>1, <1>6 DEF Listed
<1>. QED
  BY <1>1, <1>7 DEF AllListed

LEMMA ListStep == TypeOK /\ BootInv /\ ListInv /\ [Next]_vars => ListInv'
<1> SUFFICES ASSUME TypeOK, BootInv, ListInv, [Next]_vars PROVE ListInv'
  OBVIOUS
<1>1. CASE BootGives
  <2>0. PICK p \in Pins : Gives(p)
    BY <1>1, GivesPin
  <2>1. /\ phase = "units" /\ leftOut \subseteq leftOut'
        /\ rec' = [rec EXCEPT ![at] = p]
    BY <1>1, <2>0, GivesPin DEF Gives
  <2>2. ASSUME NEW u \in Units \ leftOut', rec'[u] # None
        PROVE  u \in AllListed'
    <3>1. u = at \/ rec[u] # None
      BY <2>1, <2>2 DEF TypeOK
    <3>. QED
      BY <2>0, <2>1, <2>2, <3>1, CreateListed DEF ListInv
  <2>. QED
    BY <2>2 DEF ListInv
<1>2. CASE BootCount \/ BootCountUnread
  <2>0. PICK n \in Nat : TakesCount(n)
    BY <1>2, Takes
  <2>1. phase' = "units" =>
          leftOut' = leftOut \cup {u \in Units : rec[u] # None /\ u \notin AllListed'}
    BY <2>0 DEF TakesCount
  <2>2. rec' = rec
    BY <2>0 DEF TakesCount
  <2>. QED
    BY <2>1, <2>2 DEF ListInv
<1>3. CASE phase' # "units"
  BY <1>3 DEF ListInv
<1>4. CASE UNCHANGED <<phase, rec, count, leftOut>>
  <2>1. AllListed' = AllListed
    BY <1>4 DEF AllListed, Listed, Stored
  <2>. QED
    BY <1>4, <2>1 DEF ListInv
<1>5. \/ BootGives \/ BootCount \/ BootCountUnread
      \/ phase' # "units" \/ UNCHANGED <<phase, rec, count, leftOut>>
  BY Steps, LoadsListed DEF Restart, AbortRestarts, Restarts, BootFound,
     BootNextKind, BootAbort, BootFails, Loads, SetCount, FormFirst, FormSecond,
     Move, Save, ResetSettings, Change
<1>. QED
  BY <1>1, <1>2, <1>3, <1>4, <1>5

------------------------------------------------------------------------------
(* No two units have one pin.                                               *)

Pair(u) == {rec[u], ram[u]}

(* A step that gives pins to no unit keeps them apart.                      *)
LEMMA PinsKept ==
  ASSUME PinsApart,
         \A u \in Units \ Excused' :
            /\ rec'[u] \in Pair(u) \cup {None} /\ ram'[u] \in Pair(u) \cup {None}
            /\ u \in Excused => rec'[u] = None /\ ram'[u] = None
  PROVE  PinsApart'
<1> SUFFICES ASSUME NEW u \in Units \ Excused', NEW v \in Units \ Excused', u # v
             PROVE  {rec'[u], ram'[u]} \cap {rec'[v], ram'[v]} \subseteq {None}
  BY DEF PinsApart
<1>1. CASE u \in Excused \/ v \in Excused
  BY <1>1
<1>2. CASE u \notin Excused /\ v \notin Excused
  <2>1. Pair(u) \cap Pair(v) \subseteq {None}
    BY <1>2 DEF PinsApart, Pair
  <2>. QED
    BY <2>1
<1>. QED
  BY <1>1, <1>2

(* The pin that a unit gets is not that of another one, unless the record   *)
(* of that one was not listed.                                              *)
LEMMA GivenApart ==
  ASSUME TypeOK, ListInv, BootGives
  PROVE  \E p \in Pins : Gives(p) /\ \A u \in Units \ {at} : rec[u] = p => u \in leftOut'
<1>1. CASE BootCreate
  <2>1. /\ NextAvailablePin \in Pins /\ NextAvailablePin \notin InUse
        /\ Gives(NextAvailablePin) /\ leftOut' = leftOut
    BY <1>1, FreePinChosen DEF BootCreate
  <2>2. \A u \in Units : rec[u] = NextAvailablePin => u \in leftOut
    BY <2>1 DEF ListInv, InUse, Gives, Pins, None
  <2>. QED
    BY <2>1, <2>2
<1>2. CASE \E p \in Pins : BootMisreads(p)
  BY <1>2 DEF BootMisreads
<1>. QED
  BY <1>1, <1>2 DEF BootGives

LEMMA ApartStep == TypeOK /\ BootInv /\ ListInv /\ PinsApart /\ [Next]_vars => PinsApart'
<1> SUFFICES ASSUME TypeOK, BootInv, ListInv, PinsApart, [Next]_vars PROVE PinsApart'
  OBVIOUS
<1> USE DEF Excused, Pair
<1>1. CASE BootGives
  <2>1. PICK p \in Pins :
          Gives(p) /\ \A u \in Units \ {at} : rec[u] = p => u \in leftOut'
    BY <1>1, GivenApart
  <2>2. /\ phase = "units" /\ rec' = [rec EXCEPT ![at] = p]
        /\ UNCHANGED <<ram, moved>> /\ ram = [u \in Units |-> None]
        /\ leftOut \subseteq leftOut'
    BY <1>1, <2>1, GivesPin DEF Gives, BootInv
  <2>3. \A u \in Units \ leftOut' : u # at => rec[u] # p
    BY <2>1
  <2>4. ASSUME NEW u \in Units \ Excused', NEW v \in Units \ Excused', u # v,
               rec'[u] = rec'[v]
        PROVE  rec'[u] = None
    <3>1. CASE u # at /\ v # at
      <4>1. rec'[u] = rec[u] /\ rec'[v] = rec[v]
        BY <2>2, <2>4, <3>1 DEF TypeOK
      <4>2. u \notin moved \cup leftOut /\ v \notin moved \cup leftOut
        BY <2>2, <2>4
      <4>3. {rec[u], ram[u]} \cap {rec[v], ram[v]} \subseteq {None}
        BY <2>4, <4>2 DEF PinsApart
      <4>. QED
        BY <2>4, <4>1, <4>3
    <3>2. CASE u = at
      BY <2>2, <2>3, <2>4, <3>2 DEF TypeOK
    <3>3. CASE v = at
      BY <2>2, <2>3, <2>4, <3>3 DEF TypeOK
    <3>. QED
      BY <3>1, <3>2, <3>3
  <2>. QED
    BY <2>2, <2>4 DEF PinsApart
<1>2. ASSUME NEW u \in Units, Save(u) PROVE PinsApart'
  BY <1>2, SaveEffect, PinsKept DEF TypeOK, Restarts
<1>3. ASSUME NEW u \in Units, NEW p \in Pins, Move(u, p) PROVE PinsApart'
  BY <1>3, PinsKept DEF Move, TypeOK
<1>4. CASE BootLoads
  BY <1>4, LoadsListed, PinsKept DEF Loads
<1>5. CASE ResetSettings
  BY <1>5, PinsKept DEF ResetSettings
<1>6. ASSUME NEW S, Restarts(S), UNCHANGED rec PROVE PinsApart'
  BY <1>6, PinsKept DEF Restarts
<1>7. CASE Restart
  BY <1>7, <1>6 DEF Restart
<1>8. CASE AbortRestarts
  BY <1>8, <1>6 DEF AbortRestarts
<1>9. CASE UNCHANGED <<rec, ram, moved>> /\ leftOut \subseteq leftOut'
  BY <1>9, PinsKept
<1>10. \/ BootGives \/ \E u \in Units : Save(u) \/ \E p \in Pins : Move(u, p)
       \/ BootLoads \/ ResetSettings \/ Restart \/ AbortRestarts
       \/ UNCHANGED <<rec, ram, moved>> /\ leftOut \subseteq leftOut'
  BY Steps, Takes DEF TakesCount, BootFound, BootNextKind, BootAbort, BootFails,
     SetCount, FormFirst, FormSecond
<1>. QED
  BY <1>1, <1>2, <1>3, <1>4, <1>5, <1>7, <1>8, <1>9, <1>10

------------------------------------------------------------------------------
(* The results.                                                             *)

LEMMA InvInit == Init => Inv
BY DefaultAssumption DEF Init, Inv, BootInv, ListInv, NoGaps, AllUnitsLoaded,
   AbortsOvercommittedOnly, PinsApart, Booting, Units

LEMMA InvStep == TypeOK /\ Inv /\ [Next]_vars => Inv'
BY BootStepInv, ListStep, NoGapsStep, LoadedStep, AbortStep, ApartStep DEF Inv

LEMMA InvHolds == Spec => []Inv
BY InitType, TypeStep, InvInit, InvStep, PTL DEF Spec

(* A boot that gets through loads every unit of both counts and no other    *)
(* one, for any counts, and whatever records resets and power failures left *)
(* behind (device_settings_init and init_relay_units_in_memory).            *)
THEOREM LoadsAllUnits == Spec => []AllUnitsLoaded
<1>1. Inv => AllUnitsLoaded
  BY DEF Inv
<1>. QED
  BY <1>1, InvHolds, PTL

(* Boot never aborts with counts that the settings API takes: there is a    *)
(* key and a safe pin for every unit (get_next_available_safe_gpio_pin and  *)
(* get_relay_nvs_key).  This rests on the assumption that the largest       *)
(* counts together are at most SAFE_GPIO_COUNT.                             *)
THEOREM AbortsOvercommitted == Spec => []AbortsOvercommittedOnly
<1>1. Inv => AbortsOvercommittedOnly
  BY DEF Inv
<1>. QED
  BY <1>1, InvHolds, PTL

(* Two units have the same pin only when a user moved one of them or a boot *)
(* left one of them out of its lists (get_next_available_safe_gpio_pin).    *)
THEOREM GivesPinsApart == Spec => []PinsApart
<1>1. Inv => PinsApart
  BY DEF Inv
<1>. QED
  BY <1>1, InvHolds, PTL

(* The records of a kind have no gap but below a unit that was stored again *)
(* after a reset, so the lists that index by channel what they count by     *)
(* record are complete (get_relay_list, get_contact_sensor_list).      *)
THEOREM RecordsWithoutGap == Spec => []NoGaps
<1>1. Inv => NoGaps
  BY DEF Inv
<1>. QED
  BY <1>1, InvHolds, PTL

==============================================================================
