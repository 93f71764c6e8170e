---------------------------- MODULE MqttLinkProofs ----------------------------
(***************************************************************************)
(* Proofs about MqttLink for any number of units and any length of the     *)
(* queues: the types, and that a board that believes to be ready can be    *)
(* commanded.                                                              *)
(***************************************************************************)
EXTENDS MqttLink, SequenceTheorems, TLAPS

USE NAssumption, QueueAssumption
USE DEF Units, States, Writers, vars, brokerVars, tasks

ClientType(c) ==
  \/ c = Idle
  \/ c \in [at : {"push", "subscribe"}, unit : Units]
  \/ c \in [at : {"data"}, command : Command]
PublisherType(p) ==
  \/ p = Idle
  \/ p \in [at : {"check"}, unit : Units]
  \/ p \in [at : {"publish"}, unit : Units, state : States]
WriterType(w) ==
  \/ w = Idle
  \/ w \in [at : {"set"}, unit : Units, state : States]
  \/ w \in [at : {"notify", "push"}, unit : Units]
WritersTyped == DOMAIN writer = Writers /\ \A w \in Writers : WriterType(writer[w])
Queue(q, T) == q \in Seq(T) /\ Len(q) <= QueueLength

LEMMA TypeParts ==
  TypeOK <=>
    /\ ram \in [Units -> States] /\ broker \in [Units -> States]
    /\ session \in {"down", "up", "lost"} /\ ready \in BOOLEAN
    /\ subs \in SUBSET Units /\ missed \in SUBSET Units
    /\ ClientType(client)
    /\ Queue(events, Units) /\ Queue(commands, Command)
    /\ PublisherType(publisher)
    /\ DOMAIN writer = Writers /\ \A w \in Writers : WriterType(writer[w])
    /\ refresh \in 0 .. N
BY DEF TypeOK, ClientType, PublisherType, WritersTyped, WriterType, Queue

------------------------------------------------------------------------------
(* The queues.                                                              *)

LEMMA Pushed ==
  ASSUME NEW T, NEW q, NEW e \in T, Queue(q, T), Room(q)
  PROVE  Queue(Append(q, e), T)
BY DEF Queue, Room

LEMMA Popped ==
  ASSUME NEW T, NEW q, Queue(q, T), q # <<>>
  PROVE  Head(q) \in T /\ Queue(Tail(q), T)
<1>1. Head(q) \in T /\ Tail(q) \in Seq(T) /\ Len(Tail(q)) = Len(q) - 1
  BY HeadTailProperties DEF Queue
<1>. QED
  BY <1>1 DEF Queue

(* The places of the tasks.                                                 *)
LEMMA ClientFacts ==
  ASSUME ClientType(client)
  PROVE  /\ client.at \in {"idle", "push", "subscribe", "data"}
         /\ client.at \in {"push", "subscribe"} => client \in [at : {"push", "subscribe"}, unit : Units]
         /\ client.at = "data" => client \in [at : {"data"}, command : Command]
         /\ ClientType(Idle) /\ Idle.at = "idle"
         /\ \A u \in Units : ClientType([at |-> "push", unit |-> u])
         /\ \A c \in Command : ClientType([at |-> "data", command |-> c])
BY DEF ClientType, Idle

LEMMA NextUnitFacts ==
  ASSUME NEW u \in Units
  PROVE  /\ ClientType(NextUnit(u))
         /\ \/ u + 1 = N /\ NextUnit(u).at = "idle"
            \/ u + 1 < N /\ NextUnit(u).at = "push" /\ NextUnit(u).unit = u + 1
BY DEF NextUnit, ClientType, Idle

------------------------------------------------------------------------------
(* Types.                                                                   *)

LEMMA InitType == Init => TypeOK
<1> SUFFICES ASSUME Init PROVE TypeOK
  OBVIOUS
<1>1. Queue(<<>>, Units) /\ Queue(<<>>, Command)
  BY DEF Queue
<1>2. /\ ram \in [Units -> States] /\ broker \in [Units -> States]
      /\ session = "down" /\ ready = FALSE /\ subs = {} /\ missed = {} /\ refresh \in 0 .. N
      /\ events = <<>> /\ commands = <<>>
      /\ client = Idle /\ publisher = Idle
  BY DEF Init
<1>3. DOMAIN writer = Writers /\ \A w \in Writers : WriterType(writer[w])
  BY DEF Init, WriterType
<1>. QED
  BY <1>1, <1>2, <1>3, TypeParts DEF ClientType, PublisherType

LEMMA TypeStep == TypeOK /\ [Next]_vars => TypeOK'
<1> SUFFICES ASSUME TypeOK, [Next]_vars PROVE TypeOK'
  OBVIOUS
<1>0. /\ ram \in [Units -> States] /\ broker \in [Units -> States]
      /\ session \in {"down", "up", "lost"} /\ ready \in BOOLEAN
      /\ subs \in SUBSET Units /\ missed \in SUBSET Units
      /\ ClientType(client)
      /\ Queue(events, Units) /\ Queue(commands, Command)
      /\ PublisherType(publisher)
      /\ DOMAIN writer = Writers /\ \A w \in Writers : WriterType(writer[w])
      /\ refresh \in 0 .. N
  BY TypeParts
(* The variables that hold no task: units, broker and bits.                 *)
<1>1. /\ ram' \in [Units -> States] /\ broker' \in [Units -> States]
      /\ session' \in {"down", "up", "lost"} /\ ready' \in BOOLEAN
      /\ subs' \in SUBSET Units /\ missed' \in SUBSET Units /\ refresh' \in 0 .. N
  <2>1. ASSUME NEW w \in Writers, WriterSet(w)
        PROVE  ram' \in [Units -> States]
    <3>1. writer[w].state \in States
      BY <1>0, <2>1 DEF WriterSet, WriterType, Idle
    <3>. QED
      BY <1>0, <2>1, <3>1 DEF WriterSet
  <2>2. CASE PublisherSend
    <3>1. publisher.state \in States
      BY <1>0, <2>2 DEF PublisherSend, PublisherType, Idle
    <3>. QED
      BY <1>0, <2>2, <3>1 DEF PublisherSend
  <2>3. CASE ConnectedSubscribe
    <3>1. client.unit \in Units
      BY <1>0, <2>3, ClientFacts DEF ConnectedSubscribe
    <3>. QED
      BY <1>0, <2>3, <3>1 DEF ConnectedSubscribe
  <2>7. CASE SubscribeFails
    <3>1. client.unit \in Units
      BY <1>0, <2>7, ClientFacts DEF SubscribeFails
    <3>. QED
      BY <1>0, <2>7, <3>1 DEF SubscribeFails
  <2>4. CASE RefreshStart \/ RefreshPush
    <3>1. UNCHANGED <<ram, brokerVars, ready>> /\ refresh' \in {0, refresh + 1}
      BY <2>4 DEF RefreshStart, RefreshPush
    <3>2. refresh' \in 0 .. N
      BY <1>0, <2>4 DEF RefreshStart, RefreshPush
    <3>. QED
      BY <1>0, <3>1, <3>2
  <2>5. ASSUME NEW w \in Writers, WriterStep(w)
        PROVE  ram' \in [Units -> States] /\ UNCHANGED <<brokerVars, ready, refresh>>
    BY <1>0, <2>1, <2>5 DEF WriterStep, WriterSet, WriterNotify, WriterPush
  <2>6. CASE \/ Environment /\ ~SubscribeFails
             \/ Disconnected \/ ConnectedPush \/ CommandPush
             \/ PublisherReceive \/ PublisherSkip \/ PublisherRead
             \/ CommandReceive \/ UNCHANGED vars
    <3>1. UNCHANGED <<ram, broker, refresh>>
      BY <2>6 DEF Environment, Connected, Drop, WifiFlap, CommandArrives, Change,
         Disconnected, ConnectedPush, CommandPush, PublisherReceive,
         PublisherSkip, PublisherRead, CommandReceive
    <3>2. session' \in {session, "down", "up", "lost"} /\ ready' \in {ready, TRUE, FALSE}
          /\ subs' \in {subs, {}} /\ missed' \in {missed, {}}
      BY <2>6 DEF Environment, Connected, Drop, WifiFlap, CommandArrives, Change,
         Disconnected, ConnectedPush, CommandPush, PublisherReceive,
         PublisherSkip, PublisherRead, CommandReceive
    <3>. QED
      BY <1>0, <3>1, <3>2
  <2>. QED
    BY <1>0, <2>2, <2>3, <2>4, <2>5, <2>6, <2>7
       DEF Next, HandlerStep, PublisherStep
<1>2. ClientType(client')
  <2>1. CASE Connected
    BY <2>1, ClientFacts, <1>0 DEF Connected
  <2>2. CASE ConnectedPush
    BY <1>0, <2>2, ClientFacts DEF ConnectedPush, ClientType
  <2>3. CASE ConnectedSubscribe
    BY <1>0, <2>3, ClientFacts, NextUnitFacts DEF ConnectedSubscribe
  <2>8. CASE SubscribeFails
    BY <1>0, <2>8, ClientFacts, NextUnitFacts DEF SubscribeFails
  <2>4. ASSUME NEW c \in Command, CommandArrives(c) PROVE ClientType(client')
    BY <1>0, <2>4, ClientFacts DEF CommandArrives
  <2>5. CASE CommandPush
    BY <1>0, <2>5, ClientFacts DEF CommandPush
  <2>6. CASE UNCHANGED client
    BY <1>0, <2>6
  <2>7. \/ Connected \/ ConnectedPush \/ ConnectedSubscribe \/ CommandPush
        \/ SubscribeFails
        \/ \E c \in Command : CommandArrives(c)
        \/ UNCHANGED client
    BY DEF Next, Environment, Drop, WifiFlap, Change, Disconnected, HandlerStep,
       PublisherStep, PublisherReceive, PublisherSkip, PublisherRead, PublisherSend,
       CommandReceive, WriterStep, WriterSet, WriterNotify, WriterPush,
       RefreshStart, RefreshPush
  <2>. QED
    BY <2>1, <2>2, <2>3, <2>4, <2>5, <2>6, <2>7, <2>8
<1>3. Queue(events', Units)
  <2>1. CASE ConnectedPush
    BY <1>0, <2>1, ClientFacts, Pushed DEF ConnectedPush
  <2>2. CASE PublisherReceive
    BY <1>0, <2>2, Popped DEF PublisherReceive
  <2>3. ASSUME NEW w \in Writers, WriterPush(w) PROVE Queue(events', Units)
    <3>1. writer[w].unit \in Units
      BY <1>0, <2>3 DEF WriterPush, WriterType, Idle
    <3>. QED
      BY <1>0, <2>3, <3>1, Pushed DEF WriterPush
  <2>4. CASE RefreshPush
    <3>1. refresh \in Units
      BY <1>0, <2>4 DEF RefreshPush
    <3>. QED
      BY <1>0, <2>4, <3>1, Pushed DEF RefreshPush
  <2>5. CASE UNCHANGED events
    BY <1>0, <2>5
  <2>6. \/ ConnectedPush \/ PublisherReceive \/ RefreshPush \/ UNCHANGED events
        \/ \E w \in Writers : WriterPush(w)
    BY DEF Next, Environment, Connected, Drop, WifiFlap, SubscribeFails, CommandArrives, Change,
       Disconnected, HandlerStep, ConnectedSubscribe, CommandPush,
       PublisherStep, PublisherSkip, PublisherRead, PublisherSend,
       CommandReceive, WriterStep, WriterSet, WriterNotify, RefreshStart
  <2>. QED
    BY <2>1, <2>2, <2>3, <2>4, <2>5, <2>6
<1>4. Queue(commands', Command)
  <2>1. CASE CommandPush
    BY <1>0, <2>1, ClientFacts, Pushed DEF CommandPush
  <2>2. CASE CommandReceive
    BY <1>0, <2>2, Popped DEF CommandReceive
  <2>3. CASE UNCHANGED commands
    BY <1>0, <2>3
  <2>4. CommandPush \/ CommandReceive \/ UNCHANGED commands
    BY DEF Next, Environment, Connected, Drop, WifiFlap, SubscribeFails, CommandArrives, Change,
       Disconnected, HandlerStep, ConnectedPush, ConnectedSubscribe,
       PublisherStep, PublisherReceive, PublisherSkip, PublisherRead, PublisherSend,
       WriterStep, WriterSet, WriterNotify, WriterPush, RefreshStart, RefreshPush
  <2>. QED
    BY <2>1, <2>2, <2>3, <2>4
<1>5. PublisherType(publisher')
  <2>1. CASE PublisherReceive
    BY <1>0, <2>1, Popped DEF PublisherReceive, PublisherType
  <2>2. CASE PublisherRead
    <3>1. publisher.unit \in Units
      BY <1>0, <2>2 DEF PublisherRead, PublisherType, Idle
    <3>. QED
      BY <1>0, <2>2, <3>1 DEF PublisherRead, PublisherType
  <2>3. CASE publisher' \in {publisher, Idle}
    BY <1>0, <2>3 DEF PublisherType
  <2>4. PublisherReceive \/ PublisherRead \/ publisher' \in {publisher, Idle}
    BY DEF Next, Environment, Connected, Drop, WifiFlap, SubscribeFails, CommandArrives, Change,
       Disconnected, HandlerStep, ConnectedPush, ConnectedSubscribe, CommandPush,
       PublisherStep, PublisherSkip, PublisherSend, CommandReceive,
       WriterStep, WriterSet, WriterNotify, WriterPush, RefreshStart, RefreshPush
  <2>. QED
    BY <2>1, <2>2, <2>3, <2>4
<1>6. WritersTyped'
  <2>1. ASSUME NEW v \in Writers, NEW x, WriterType(x), writer' = [writer EXCEPT ![v] = x]
        PROVE  WritersTyped'
    BY <1>0, <2>1 DEF WritersTyped
  <2>2. WriterType(Idle)
    BY DEF WriterType
  <2>3. ASSUME NEW u \in Units, NEW s \in States, Change(u, s) PROVE WritersTyped'
    <3>1. WriterType([at |-> "set", unit |-> u, state |-> s])
      BY DEF WriterType
    <3>. QED
      BY <2>1, <2>3, <3>1 DEF Change
  <2>4. CASE CommandReceive
    <3>1. Head(commands) \in Command
      BY <1>0, <2>4, Popped DEF CommandReceive
    <3>2. WriterType([at |-> "set", unit |-> Head(commands).unit, state |-> Head(commands).state])
      BY <3>1 DEF WriterType, Command
    <3>. QED
      BY <2>1, <2>4, <3>2 DEF CommandReceive
  <2>5. ASSUME NEW w \in Writers, WriterSet(w) PROVE WritersTyped'
    <3>1. writer[w].unit \in Units
      BY <1>0, <2>5 DEF WriterSet, WriterType, Idle
    <3>2. WriterType([at |-> "notify", unit |-> writer[w].unit])
      BY <3>1 DEF WriterType
    <3>. QED
      BY <2>1, <2>5, <3>2 DEF WriterSet
  <2>6. ASSUME NEW w \in Writers, WriterNotify(w) PROVE WritersTyped'
    <3>1. writer[w].unit \in Units
      BY <1>0, <2>6 DEF WriterNotify, WriterType, Idle
    <3>2. WriterType([at |-> "push", unit |-> writer[w].unit])
      BY <3>1 DEF WriterType
    <3>. QED
      BY <2>1, <2>2, <2>6, <3>2 DEF WriterNotify
  <2>7. ASSUME NEW w \in Writers, WriterPush(w) PROVE WritersTyped'
    BY <2>1, <2>2, <2>7 DEF WriterPush
  <2>8. CASE UNCHANGED writer
    BY <1>0, <2>8 DEF WritersTyped
  <2>9. \/ \E u \in Units, s \in States : Change(u, s)
        \/ CommandReceive
        \/ \E w \in Writers : WriterSet(w) \/ WriterNotify(w) \/ WriterPush(w)
        \/ UNCHANGED writer
    BY DEF Next, Environment, Connected, Drop, WifiFlap, SubscribeFails, CommandArrives,
       Disconnected, HandlerStep, ConnectedPush, ConnectedSubscribe, CommandPush,
       PublisherStep, PublisherReceive, PublisherSkip, PublisherRead, PublisherSend,
       WriterStep, RefreshStart, RefreshPush
  <2>. QED
    BY <2>3, <2>4, <2>5, <2>6, <2>7, <2>8, <2>9
<1>. QED
  BY <1>1, <1>2, <1>3, <1>4, <1>5, <1>6 DEF TypeOK, ClientType, PublisherType, WritersTyped, WriterType, Queue

(* Every variable of the MQTT link keeps its type, and neither queue ever   *)
(* holds more than its length, for any number of units.                     *)
THEOREM TypeCorrect == Spec => []TypeOK
BY InitType, TypeStep, PTL DEF Spec

------------------------------------------------------------------------------
(* Subscriptions.                                                           *)

(* The handler works through the units in order, so each has its one chance *)
(* of a subscription, and nothing but a new session brings the bits back.   *)
Passed == IF client.at \in {"push", "subscribe"} THEN {u \in Units : u < client.unit} ELSE Units
SubsInv ==
  /\ missed \subseteq Passed
  /\ ready /\ session = "up" => subs = Passed \ missed

LEMMA PassedNext ==
  ASSUME client.at = "subscribe", client.unit \in Units, client' = NextUnit(client.unit)
  PROVE  client.unit \notin Passed /\ Passed' = Passed \cup {client.unit}
BY NextUnitFacts DEF Passed

LEMMA SubsStep == TypeOK /\ SubsInv /\ [Next]_vars => SubsInv'
<1> SUFFICES ASSUME TypeOK, SubsInv, [Next]_vars PROVE SubsInv'
  OBVIOUS
<1>0. ClientType(client) /\ subs \in SUBSET Units
  BY TypeParts
<1>1. CASE Connected
  BY <1>1 DEF Connected, SubsInv, Passed
<1>2. CASE ConnectedPush
  <2>1. Passed' = Passed
    BY <1>0, <1>2, ClientFacts DEF ConnectedPush, Passed
  <2>. QED
    BY <1>2, <2>1 DEF ConnectedPush, SubsInv
<1>3. CASE ConnectedSubscribe
  <2>1. client.unit \notin Passed /\ Passed' = Passed \cup {client.unit}
    BY <1>0, <1>3, ClientFacts, PassedNext DEF ConnectedSubscribe
  <2>. QED
    BY <1>3, <2>1 DEF ConnectedSubscribe, SubsInv
<1>4. CASE SubscribeFails
  <2>1. client.unit \notin Passed /\ Passed' = Passed \cup {client.unit}
    BY <1>0, <1>4, ClientFacts, PassedNext DEF SubscribeFails
  <2>. QED
    BY <1>4, <2>1 DEF SubscribeFails, SubsInv
<1>5. ASSUME NEW c \in Command, CommandArrives(c) PROVE SubsInv'
  BY <1>5 DEF CommandArrives, SubsInv, Passed
<1>6. CASE CommandPush
  BY <1>0, <1>6, ClientFacts DEF CommandPush, SubsInv, Passed
<1>7. CASE /\ UNCHANGED <<client, missed>>
           /\ ready' /\ session' = "up" => ready /\ session = "up" /\ subs' = subs
  BY <1>7 DEF SubsInv, Passed
<1>8. \/ Connected \/ ConnectedPush \/ ConnectedSubscribe \/ SubscribeFails \/ CommandPush
      \/ \E c \in Command : CommandArrives(c)
      \/ /\ UNCHANGED <<client, missed>>
         /\ ready' /\ session' = "up" => ready /\ session = "up" /\ subs' = subs
  BY DEF Next, Environment, Drop, WifiFlap, Change, Disconnected, HandlerStep,
     PublisherStep, PublisherReceive, PublisherSkip, PublisherRead, PublisherSend,
     CommandReceive, WriterStep, WriterSet, WriterNotify, WriterPush,
     RefreshStart, RefreshPush
<1>. QED
  BY <1>1, <1>2, <1>3, <1>4, <1>5, <1>6, <1>7, <1>8

(* Whenever the board believes to be ready in a session that is up, the     *)
(* units that cannot be commanded are those whose own subscription failed   *)
(* in this session (mqtt_event_handler, mqtt_relay_subscribe), however      *)
(* Wi-Fi comes and goes, for any number of units.                           *)
THEOREM Commandable == Spec => []SubscribedWhenReady
<1>1. Init => SubsInv
  BY DEF Init, SubsInv, Passed
<1>2. SubsInv /\ TypeOK => SubscribedWhenReady
  BY DEF SubsInv, SubscribedWhenReady, Passed
<1>. QED
  BY <1>1, <1>2, SubsStep, TypeCorrect, PTL DEF Spec

==============================================================================
