-------------------------- MODULE CertificatesProofs --------------------------
(***************************************************************************)
(* Proofs about Certificates for any number of tasks and any certificates: *)
(* the types, that what is stored is whole, and that a load returns the    *)
(* certificate that was saved last.                                        *)
(***************************************************************************)
EXTENDS Certificates, SequenceTheorems, TLAPS

USE WebAssumption, ChunksAssumption, FileAssumption, NoneAssumption
USE DEF store

------------------------------------------------------------------------------
(* What the steps do to the locals of a task.                               *)

(* What the place of a task says of its other locals.                       *)
PlaceOK(r) ==
  /\ r.at = "chunk" => r.ver \in Versions /\ r.next < Chunks[r.ver]
  /\ r.at \in {"count", "list"} => r.ver \in Versions
  /\ r.at \in {"count?", "list?"} => r.next = 0 /\ r.got = <<>>
  /\ r.at = "list?" => r.size > 0
  /\ r.at = "chunk?" => r.next < r.size /\ Len(r.got) = r.next
  /\ Len(r.got) <= MaxChunks

Typed ==
  /\ chunk \in [Index -> Versions \cup {None}]
  /\ count \in (1 .. MaxChunks) \cup {None}
  /\ list \in (1 .. MaxChunks) \cup {None}
  /\ task \in [Tasks -> Locals]
  /\ \A t \in Tasks : PlaceOK(task[t])
  /\ last \in Versions \cup {None}

(* task t goes on with the locals r, in the same call *)
Becomes(t, r) ==
  /\ r \in Locals
  /\ r.op = task[t].op /\ r.alone = task[t].alone /\ r.whole = task[t].whole
  /\ task' = [task EXCEPT ![t] = r]

(* A chunk is written: the next one is due, or the count. *)
LEMMA ChunkedFacts ==
  ASSUME Typed, NEW t \in Tasks, WriteChunk(t)
  PROVE  \E r \in Locals :
           /\ Becomes(t, r) /\ r.ver = task[t].ver /\ r.next = task[t].next + 1
           /\ r.at = IF r.next < Chunks[r.ver] THEN "chunk" ELSE "count"
           /\ r.got = task[t].got
<1> DEFINE n == task[t].next + 1
           a == IF n < Chunks[task[t].ver] THEN "chunk" ELSE "count"
           q == [task[t] EXCEPT !.next = n]
           r == [q EXCEPT !.at = a]
<1>1. task[t] \in Locals /\ PlaceOK(task[t]) /\ task[t].at = "chunk"
  BY DEF Typed, WriteChunk
<1>2. n \in 0 .. MaxChunks /\ task[t].ver \in Versions
  BY <1>1 DEF PlaceOK, Locals
<1>3. a \in Places
  BY DEF Places
<1>4. /\ q \in Locals /\ q.next = n /\ q.ver = task[t].ver /\ q.got = task[t].got
      /\ q.op = task[t].op /\ q.alone = task[t].alone /\ q.whole = task[t].whole
  BY <1>1, <1>2 DEF Locals
<1>5. /\ r \in Locals /\ r.at = a /\ r.next = q.next /\ r.ver = q.ver
      /\ r.got = q.got /\ r.op = q.op /\ r.alone = q.alone /\ r.whole = q.whole
  <2>. HIDE DEF q, a
  <2>. QED
    BY <1>3, <1>4 DEF Locals
<1>6. task' = [task EXCEPT ![t] = r]
  BY Zenon DEF WriteChunk
<1>7. r.ver = task[t].ver /\ r.next = n /\ r.got = task[t].got
  BY <1>4, <1>5
<1>8. r.at = IF r.next < Chunks[r.ver] THEN "chunk" ELSE "count"
  BY <1>5, <1>7
<1>. HIDE DEF r, a, q
<1>. QED
  BY <1>4, <1>5, <1>6, <1>7, <1>8 DEF Becomes

(* The count is written: the list of the chunks is due. *)
LEMMA CountedFacts ==
  ASSUME Typed, NEW t \in Tasks, WriteCount(t)
  PROVE  \E r \in Locals :
           /\ Becomes(t, r) /\ r.at = "list" /\ r.ver = task[t].ver
           /\ r.got = task[t].got
<1> DEFINE r == [task[t] EXCEPT !.at = "list"]
<1>1. task[t] \in Locals
  BY DEF Typed
<1>2. /\ r \in Locals /\ r.at = "list" /\ r.ver = task[t].ver /\ r.got = task[t].got
      /\ r.op = task[t].op /\ r.alone = task[t].alone /\ r.whole = task[t].whole
  BY <1>1 DEF Locals, Places
<1>3. task' = [task EXCEPT ![t] = r]
  BY Zenon DEF WriteCount
<1>. QED
  BY <1>2, <1>3 DEF Becomes

(* The call has ended. *)
LEMMA ReturnedFacts ==
  ASSUME Typed, NEW t \in Tasks, NEW a \in Places, NEW g \in Seq(Versions)
  PROVE  /\ Returned(t, a, g) \in Locals
         /\ Returned(t, a, g).at = a /\ Returned(t, a, g).got = g
         /\ Returned(t, a, g).next = 0 /\ Returned(t, a, g).ver = None
         /\ Returned(t, a, g).op = task[t].op
         /\ Returned(t, a, g).alone = task[t].alone
         /\ Returned(t, a, g).whole = task[t].whole
<1>1. task[t] \in Locals
  BY DEF Typed
<1>. QED
  BY <1>1 DEF Returned, Locals

(* A load that cannot read what is stored writes the file, or fails. *)
LEMMA FallBackFacts ==
  ASSUME Typed, NEW t \in Tasks, FallBack(t)
  PROVE  \E r \in Locals :
           /\ Becomes(t, r) /\ r.next = 0 /\ r.got = <<>>
           /\ \/ r.at = "failed"
              \/ r.at = "chunk" /\ File \in Versions /\ r.ver = File
<1>1. task[t] \in Locals /\ <<>> \in Seq(Versions) /\ "failed" \in Places
  BY DEF Typed, Places
<1>2. CASE File = None
  <2>1. task' = [task EXCEPT ![t] = Returned(t, "failed", <<>>)]
    BY <1>2, Zenon DEF FallBack
  <2> DEFINE e == <<>>
             r == Returned(t, "failed", e)
  <2>2. /\ Becomes(t, r) /\ r \in Locals /\ r.at = "failed"
        /\ r.next = 0 /\ r.got = e
    <3>1. e \in Seq(Versions) /\ task' = [task EXCEPT ![t] = r]
      BY <1>1, <2>1
    <3>. HIDE DEF e
    <3>. QED
      BY <1>1, <3>1, ReturnedFacts DEF Becomes
  <2>. QED
    BY <2>2
<1>3. CASE File # None
  <2> DEFINE q == Returned(t, "chunk", <<>>)
             r == [q EXCEPT !.ver = File]
  <2>1. task' = [task EXCEPT ![t] = r]
    BY <1>3, Zenon DEF FallBack
  <2>2. /\ q \in Locals /\ q.at = "chunk" /\ q.next = 0 /\ q.got = <<>>
        /\ q.op = task[t].op /\ q.alone = task[t].alone /\ q.whole = task[t].whole
    BY <1>1 DEF Returned, Locals, Places
  <2>3. /\ r \in Locals /\ r.at = q.at /\ r.ver = File /\ r.next = q.next
        /\ r.got = q.got /\ r.op = q.op /\ r.alone = q.alone /\ r.whole = q.whole
    <3>. HIDE DEF q
    <3>. QED
      BY <2>2 DEF Locals
  <2>. QED
    BY <1>3, <2>1, <2>2, <2>3 DEF Becomes
<1>. QED
  BY <1>2, <1>3

(* The count is read. *)
LEMMA ReadCountFacts ==
  ASSUME Typed, NEW t \in Tasks, ReadCount(t), count # None
  PROVE  \E r \in Locals :
           /\ Becomes(t, r) /\ r.at = "list?" /\ r.size = count
           /\ r.next = task[t].next /\ r.got = task[t].got
<1> DEFINE q == [task[t] EXCEPT !.at = "list?"]
           r == [q EXCEPT !.size = count]
<1>1. task[t] \in Locals /\ count \in 0 .. MaxChunks
  BY DEF Typed
<1>2. /\ q \in Locals /\ q.at = "list?" /\ q.next = task[t].next /\ q.got = task[t].got
      /\ q.op = task[t].op /\ q.alone = task[t].alone /\ q.whole = task[t].whole
  BY <1>1 DEF Locals, Places
<1>3. /\ r \in Locals /\ r.at = q.at /\ r.size = count /\ r.next = q.next
      /\ r.got = q.got /\ r.op = q.op /\ r.alone = q.alone /\ r.whole = q.whole
  <2>. HIDE DEF q
  <2>. QED
    BY <1>1, <1>2 DEF Locals
<1>4. task' = [task EXCEPT ![t] = r]
  BY Zenon DEF ReadCount
<1>. QED
  BY <1>2, <1>3, <1>4 DEF Becomes

(* The list of the chunks is read. *)
LEMMA ReadListFacts ==
  ASSUME Typed, NEW t \in Tasks, ReadList(t), list # None, ~(list > task[t].size)
  PROVE  \E r \in Locals :
           /\ Becomes(t, r) /\ r.at = "chunk?" /\ r.known = list
           /\ r.size = task[t].size /\ r.next = task[t].next /\ r.got = task[t].got
<1> DEFINE q == [task[t] EXCEPT !.at = "chunk?"]
           r == [q EXCEPT !.known = list]
<1>1. task[t] \in Locals /\ list \in 0 .. MaxChunks
  BY DEF Typed
<1>2. /\ q \in Locals /\ q.at = "chunk?" /\ q.next = task[t].next
      /\ q.size = task[t].size /\ q.got = task[t].got
      /\ q.op = task[t].op /\ q.alone = task[t].alone /\ q.whole = task[t].whole
  BY <1>1 DEF Locals, Places
<1>3. /\ r \in Locals /\ r.at = q.at /\ r.known = list /\ r.next = q.next
      /\ r.size = q.size
      /\ r.got = q.got /\ r.op = q.op /\ r.alone = q.alone /\ r.whole = q.whole
  <2>. HIDE DEF q
  <2>. QED
    BY <1>1, <1>2 DEF Locals
<1>4. task' = [task EXCEPT ![t] = r]
  BY Zenon DEF ReadList
<1>. QED
  BY <1>2, <1>3, <1>4 DEF Becomes

(* A chunk was read: another one is to be read, or the load returns. *)
LEMMA AppendedFacts ==
  ASSUME Typed, NEW t \in Tasks, task[t].at = "chunk?", NEW v \in Versions,
         Append1(t, v)
  PROVE  \E r \in Locals :
           /\ Becomes(t, r) /\ r.got = Append(task[t].got, v)
           /\ \/ /\ r.at = "chunk?" /\ r.next = task[t].next + 1
                 /\ r.next < task[t].size
                 /\ r.size = task[t].size /\ r.known = task[t].known
              \/ /\ r.at = "loaded" /\ r.next = 0
                 /\ task[t].next + 1 = task[t].size
<1> DEFINE n == task[t].next + 1
           g == Append(task[t].got, v)
<1>1. /\ task[t] \in Locals /\ PlaceOK(task[t])
      /\ task[t].next \in Nat /\ task[t].size \in 0 .. MaxChunks
      /\ task[t].next < task[t].size /\ task[t].got \in Seq(Versions)
  BY DEF Typed, PlaceOK, Locals
<1>2. g \in Seq(Versions) /\ n \in 0 .. MaxChunks /\ n <= task[t].size
  BY <1>1
<1>3. CASE n < task[t].size
  <2> DEFINE q == [task[t] EXCEPT !.next = n]
             r == [q EXCEPT !.got = g]
  <2>1. /\ q \in Locals /\ q.at = "chunk?" /\ q.next = n /\ q.got = task[t].got
        /\ q.size = task[t].size /\ q.known = task[t].known
        /\ q.op = task[t].op /\ q.alone = task[t].alone /\ q.whole = task[t].whole
    BY <1>1, <1>2 DEF Locals
  <2>2. /\ r \in Locals /\ r.at = q.at /\ r.next = q.next /\ r.got = g
        /\ r.size = q.size /\ r.known = q.known
        /\ r.op = q.op /\ r.alone = q.alone /\ r.whole = q.whole
    <3>. HIDE DEF q, g
    <3>. QED
      BY <1>2, <2>1 DEF Locals
  <2>3. task' = [task EXCEPT ![t] = r]
    BY <1>3, Zenon DEF Append1
  <2>. QED
    BY <1>2, <1>3, <2>1, <2>2, <2>3 DEF Becomes
<1>4. CASE ~(n < task[t].size)
  <2>1. task' = [task EXCEPT ![t] = Returned(t, "loaded", g)]
    BY <1>4, Zenon DEF Append1
  <2>2. "loaded" \in Places
    BY DEF Places
  <2>3. /\ Becomes(t, Returned(t, "loaded", g))
        /\ Returned(t, "loaded", g) \in Locals
        /\ Returned(t, "loaded", g).at = "loaded"
        /\ Returned(t, "loaded", g).next = 0
        /\ Returned(t, "loaded", g).got = g
    <3>. HIDE DEF g
    <3>. QED
      BY <1>2, <2>1, <2>2, ReturnedFacts DEF Becomes
  <2>4. n = task[t].size
    BY <1>1, <1>2, <1>4
  <2>. QED
    BY <2>3, <2>4
<1>. QED
  BY <1>3, <1>4

(* All locals but alone are as before. *)
Same(u) ==
  /\ task'[u].at = task[u].at /\ task'[u].op = task[u].op
  /\ task'[u].ver = task[u].ver /\ task'[u].next = task[u].next
  /\ task'[u].size = task[u].size /\ task'[u].known = task[u].known
  /\ task'[u].got = task[u].got /\ task'[u].whole = task[u].whole

(* What a change of alone does to the locals of a task. *)
LEMMA NoLongerAlone ==
  ASSUME NEW r \in Locals, NEW b \in BOOLEAN
  PROVE  /\ [r EXCEPT !.alone = b] \in Locals
         /\ [r EXCEPT !.alone = b].alone = b
         /\ [r EXCEPT !.alone = b].at = r.at
         /\ [r EXCEPT !.alone = b].op = r.op
         /\ [r EXCEPT !.alone = b].ver = r.ver
         /\ [r EXCEPT !.alone = b].next = r.next
         /\ [r EXCEPT !.alone = b].size = r.size
         /\ [r EXCEPT !.alone = b].known = r.known
         /\ [r EXCEPT !.alone = b].got = r.got
         /\ [r EXCEPT !.alone = b].whole = r.whole
BY DEF Locals

(* What a change of whole does to them. *)
LEMMA MadeWhole ==
  ASSUME NEW r \in Locals, NEW b \in BOOLEAN
  PROVE  /\ [r EXCEPT !.whole = b] \in Locals
         /\ [r EXCEPT !.whole = b].whole = b
         /\ [r EXCEPT !.whole = b].at = r.at
         /\ [r EXCEPT !.whole = b].op = r.op
         /\ [r EXCEPT !.whole = b].ver = r.ver
         /\ [r EXCEPT !.whole = b].next = r.next
         /\ [r EXCEPT !.whole = b].got = r.got
         /\ [r EXCEPT !.whole = b].alone = r.alone
BY DEF Locals

(* What a task does to the others when it begins. *)
LEMMA BeginFacts ==
  ASSUME Typed, NEW t \in Tasks, NEW new \in Locals, Begin(t, new)
  PROVE  /\ task' \in [Tasks -> Locals]
         /\ task'[t].at = new.at /\ task'[t].op = new.op /\ task'[t].ver = new.ver
         /\ task'[t].next = new.next /\ task'[t].got = new.got
         /\ task'[t].whole = ~torn
         /\ \A u \in Tasks \ {t} : Same(u)
         /\ \A u \in Tasks \ {t} :
              Busy(u) /\ Clash(new, task[u]) => ~task'[t].alone /\ ~task'[u].alone
         /\ \A u \in Tasks \ {t} : task'[u].alone => task[u].alone
         /\ ~task'[t].alone =>
              \E u \in Tasks \ {t} : Busy(u) /\ Clash(new, task[u])
         /\ \A u \in Tasks \ {t} :
              ~(Busy(u) /\ Clash(new, task[u])) => task'[u] = task[u]
<1> DEFINE clashing == {u \in OthersOf(t) : Busy(u) /\ Clash(new, task[u])}
           b == clashing = {}
           c == ~torn
           q == [new EXCEPT !.alone = b]
           r == [q EXCEPT !.whole = c]
<1>1. task' = [u \in Tasks |->
        IF u = t THEN r
        ELSE IF u \in clashing THEN [task[u] EXCEPT !.alone = FALSE]
        ELSE task[u]]
  BY Zenon DEF Begin
<1>2. /\ q \in Locals /\ q.alone = b /\ q.at = new.at /\ q.op = new.op
      /\ q.ver = new.ver /\ q.next = new.next /\ q.got = new.got
  <2>1. b \in BOOLEAN
    BY Zenon
  <2>. HIDE DEF b
  <2>. QED
    BY <2>1, NoLongerAlone
<1>3. /\ r \in Locals /\ r.alone = q.alone /\ r.at = q.at /\ r.op = q.op
      /\ r.ver = q.ver /\ r.next = q.next /\ r.got = q.got /\ r.whole = c
  <2>1. c \in BOOLEAN
    BY Zenon
  <2>. HIDE DEF q, c
  <2>. QED
    BY <1>2, <2>1, MadeWhole
<1>. HIDE DEF r, q, b, clashing
<1>4. \A u \in Tasks : task[u] \in Locals
  BY DEF Typed
<1>5. task'[t] = r
  BY <1>1
<1>6. \A u \in Tasks \ {t} : u \in clashing => task'[u] = [task[u] EXCEPT !.alone = FALSE]
  BY <1>1
<1>7. \A u \in Tasks \ {t} : u \notin clashing => task'[u] = task[u]
  BY <1>1
<1>8. ASSUME NEW u \in Tasks \ {t}
      PROVE  /\ task'[u] \in Locals /\ Same(u)
             /\ u \in clashing => ~task'[u].alone
             /\ task'[u].alone => task[u].alone
  <2>1. CASE u \notin clashing
    BY <1>4, <1>7, <2>1 DEF Same
  <2>2. CASE u \in clashing
    <3> DEFINE x == [task[u] EXCEPT !.alone = FALSE]
    <3>1. /\ x \in Locals /\ x.alone = FALSE /\ x.at = task[u].at
          /\ x.op = task[u].op /\ x.ver = task[u].ver /\ x.next = task[u].next
          /\ x.size = task[u].size /\ x.known = task[u].known
          /\ x.got = task[u].got /\ x.whole = task[u].whole
      BY <1>4, NoLongerAlone
    <3>2. task'[u] = x
      BY <1>6, <2>2
    <3>. HIDE DEF x
    <3>. QED
      BY <3>1, <3>2 DEF Same
  <2>. QED
    BY <2>1, <2>2
<1>9. task' \in [Tasks -> Locals]
  BY <1>1, <1>3, <1>5, <1>8
<1>10. \A u \in Tasks \ {t} : u \in clashing <=> Busy(u) /\ Clash(new, task[u])
  BY DEF clashing, OthersOf
<1>11. task'[t].alone <=> clashing = {}
  BY <1>2, <1>3, <1>5 DEF b
<1>12. task'[t].whole = ~torn
  BY <1>3, <1>5
<1>13. clashing # {} => \E u \in Tasks \ {t} : u \in clashing
  BY DEF clashing, OthersOf
<1>. QED
  BY <1>2, <1>3, <1>5, <1>7, <1>8, <1>9, <1>10, <1>11, <1>12, <1>13

(* A task that has not called anything yet. *)
LEMMA IdleFacts ==
  /\ Idle \in Locals /\ Idle.at = "idle" /\ PlaceOK(Idle)
  /\ Idle.next = 0 /\ Idle.got = <<>> /\ Idle.op = "load"
BY DEF Idle, Locals, Places, PlaceOK

(* A save begins with its first chunk. *)
LEMMA SaveFacts ==
  ASSUME Typed, NEW v \in Versions, Save(v)
  PROVE  \E new \in Locals :
           /\ Begin(Web, new) /\ PlaceOK(new) /\ ~Busy(Web)
           /\ new.at = "chunk" /\ new.op = "save" /\ new.ver = v
           /\ new.next = 0 /\ new.got = <<>>
<1> DEFINE p == [Idle EXCEPT !.at = "chunk"]
           q == [p EXCEPT !.op = "save"]
           r == [q EXCEPT !.ver = v]
<1>1. p \in Locals /\ p.at = "chunk" /\ p.next = 0 /\ p.got = <<>>
  BY IdleFacts DEF Locals, Places
<1>2. q \in Locals /\ q.at = "chunk" /\ q.next = 0 /\ q.got = <<>> /\ q.op = "save"
  <2>. HIDE DEF p
  <2>. QED
    BY <1>1 DEF Locals
<1>3. /\ r \in Locals /\ r.at = "chunk" /\ r.next = 0 /\ r.got = <<>>
      /\ r.op = "save" /\ r.ver = v
  <2>. HIDE DEF q
  <2>. QED
    BY <1>2 DEF Locals
<1>4. Begin(Web, r) /\ ~Busy(Web)
  BY Zenon DEF Save
<1>. HIDE DEF r
<1>5. PlaceOK(r)
  BY <1>3 DEF PlaceOK
<1>. QED
  BY <1>3, <1>4, <1>5

(* A load one of whose reads fails goes on like a save. *)
LEMMA ReadFailsFacts ==
  ASSUME Typed, NEW t \in Tasks, ReadFails(t)
  PROVE  \E new \in Locals :
           /\ Begin(t, new) /\ PlaceOK(new)
           /\ new.at = "chunk" /\ new.op = "save" /\ new.ver = File
           /\ new.next = 0 /\ new.got = <<>>
<1> DEFINE p == [Idle EXCEPT !.at = "chunk"]
           q == [p EXCEPT !.op = "save"]
           r == [q EXCEPT !.ver = File]
<1>0. File \in Versions
  BY DEF ReadFails
<1>1. p \in Locals /\ p.at = "chunk" /\ p.next = 0 /\ p.got = <<>>
  BY IdleFacts DEF Locals, Places
<1>2. q \in Locals /\ q.at = "chunk" /\ q.next = 0 /\ q.got = <<>> /\ q.op = "save"
  <2>. HIDE DEF p
  <2>. QED
    BY <1>1 DEF Locals
<1>3. /\ r \in Locals /\ r.at = "chunk" /\ r.next = 0 /\ r.got = <<>>
      /\ r.op = "save" /\ r.ver = File
  <2>. HIDE DEF q
  <2>. QED
    BY <1>0, <1>2 DEF Locals
<1>4. Begin(t, r)
  BY Zenon DEF ReadFails
<1>. HIDE DEF r
<1>5. PlaceOK(r)
  BY <1>0, <1>3 DEF PlaceOK
<1>. QED
  BY <1>3, <1>4, <1>5

(* A load that could not read anything has ended. *)
LEMMA LoadFailsFacts ==
  ASSUME Typed, NEW t \in Tasks, LoadFails(t)
  PROVE  \E r \in Locals : Becomes(t, r) /\ r.at = "failed" /\ PlaceOK(r)
<1> DEFINE e == <<>>
           r == Returned(t, "failed", e)
<1>1. task' = [task EXCEPT ![t] = r]
  BY Zenon DEF LoadFails
<1>2. "failed" \in Places /\ e \in Seq(Versions)
  BY DEF Places
<1>3. Len(e) = 0
  OBVIOUS
<1>4. Becomes(t, r) /\ PlaceOK(r) /\ r \in Locals /\ r.at = "failed"
  <2>. HIDE DEF e
  <2>1. /\ r \in Locals /\ r.at = "failed" /\ r.got = e /\ r.op = task[t].op
        /\ r.alone = task[t].alone /\ r.whole = task[t].whole
    BY <1>2, ReturnedFacts
  <2>. HIDE DEF r
  <2>. QED
    BY <1>1, <1>3, <2>1 DEF Becomes, PlaceOK
<1>. HIDE DEF r
<1>. QED
  BY <1>4

(* A load begins with the count. *)
LEMMA LoadFacts ==
  ASSUME Typed, NEW t \in Tasks, Load(t)
  PROVE  \E new \in Locals :
           /\ Begin(t, new) /\ PlaceOK(new) /\ ~Busy(t)
           /\ new.at = "count?" /\ new.op = "load"
           /\ new.next = 0 /\ new.got = <<>>
<1> DEFINE r == [Idle EXCEPT !.at = "count?"]
<1>1. /\ r \in Locals /\ r.at = "count?" /\ r.next = 0 /\ r.got = <<>>
      /\ r.op = "load"
  BY IdleFacts DEF Locals, Places
<1>2. Begin(t, r) /\ ~Busy(t)
  BY Zenon DEF Load
<1>. HIDE DEF r
<1>3. PlaceOK(r)
  BY <1>1 DEF PlaceOK
<1>. QED
  BY <1>1, <1>2, <1>3

(* A reset changes nothing of a task but alone. *)
LEMMA ResetFacts ==
  ASSUME Typed, Reset
  PROVE  /\ task' \in [Tasks -> Locals]
         /\ \A t \in Tasks : Same(t) /\ (Busy(t) => ~task'[t].alone)
         /\ \A t \in Tasks : ~Busy(t) => task'[t] = task[t]
<1>1. ASSUME NEW t \in Tasks
      PROVE  /\ task'[t] \in Locals /\ Same(t)
             /\ Busy(t) => ~task'[t].alone
             /\ ~Busy(t) => task'[t] = task[t]
  <2>0. task[t] \in Locals
    BY DEF Typed
  <2>1. CASE ~Busy(t)
    <3>1. task'[t] = task[t]
      BY <2>1, Zenon DEF Reset
    <3>. QED
      BY <2>0, <2>1, <3>1 DEF Same
  <2>2. CASE Busy(t)
    <3> DEFINE x == [task[t] EXCEPT !.alone = FALSE]
    <3>1. /\ x \in Locals /\ x.alone = FALSE /\ x.at = task[t].at
          /\ x.op = task[t].op /\ x.ver = task[t].ver /\ x.next = task[t].next
          /\ x.size = task[t].size /\ x.known = task[t].known
          /\ x.got = task[t].got /\ x.whole = task[t].whole
      BY <2>0, NoLongerAlone
    <3>2. task'[t] = x
      BY <2>2, Zenon DEF Reset
    <3>. HIDE DEF x
    <3>. QED
      BY <2>2, <3>1, <3>2 DEF Same
  <2>. QED
    BY <2>1, <2>2
<1>2. task' = [t \in Tasks |-> task'[t]]
  BY Zenon DEF Reset
<1>. QED
  BY <1>1, <1>2

(* A chunk was read, or the load falls back. *)
LEMMA ReadChunkFacts ==
  ASSUME Typed, NEW t \in Tasks, ReadChunk(t)
  PROVE  /\ task[t].at = "chunk?" /\ task[t].next \in Nat
         /\ \/ \E v \in Versions :
                 /\ Append1(t, v)
                 /\ task[t].next < task[t].known => v = chunk[task[t].next]
            \/ /\ FallBack(t)
               /\ task[t].next < task[t].known =>
                    chunk[task[t].next] = None \/ MayGrow(t)
<1>1. task[t] \in Locals /\ PlaceOK(task[t]) /\ task[t].at = "chunk?"
  BY DEF Typed, ReadChunk
<1>2. /\ task[t].next \in Nat /\ task[t].known \in 0 .. MaxChunks
      /\ task[t].size \in 0 .. MaxChunks /\ task[t].next < task[t].size
  BY <1>1 DEF Locals, PlaceOK
<1>3. task[t].next \in Index
  BY <1>2 DEF Index
<1>4. \A j \in Index : chunk[j] # None => chunk[j] \in Versions
  BY DEF Typed
<1>. QED
  BY <1>1, <1>2, <1>3, <1>4 DEF ReadChunk

------------------------------------------------------------------------------
(* Types.                                                                   *)

(* A task that goes on keeps the others as they are. *)
LEMMA BecomesTyped ==
  ASSUME Typed, NEW t \in Tasks, NEW r \in Locals, Becomes(t, r)
  PROVE  /\ task' \in [Tasks -> Locals] /\ task'[t] = r
         /\ \A u \in Tasks \ {t} : task'[u] = task[u]
         /\ PlaceOK(r) => \A u \in Tasks : PlaceOK(task'[u])
BY DEF Becomes, Typed

(* alone has no part in PlaceOK. *)
LEMMA SamePlaceOK ==
  ASSUME NEW u \in Tasks, Same(u), PlaceOK(task[u])
  PROVE  PlaceOK(task'[u])
BY DEF Same, PlaceOK

(* A task begins: it is at its first step, the others are where they were. *)
LEMMA BeginTyped ==
  ASSUME Typed, NEW t \in Tasks, NEW new \in Locals, Begin(t, new), PlaceOK(new),
         new.at \in {"chunk", "count?"}, UNCHANGED <<store, torn, last>>
  PROVE  Typed'
<1>1. /\ task' \in [Tasks -> Locals] /\ \A u \in Tasks \ {t} : Same(u)
      /\ task'[t].at = new.at /\ task'[t].ver = new.ver
      /\ task'[t].next = new.next /\ task'[t].got = new.got
  BY BeginFacts
<1>2. PlaceOK(task'[t])
  BY <1>1 DEF PlaceOK
<1>3. \A u \in Tasks : PlaceOK(task'[u])
  BY <1>1, <1>2, SamePlaceOK DEF Typed
<1>. QED
  BY <1>1, <1>3 DEF Typed

(* Every step of a task but those that begin something. *)
Goes(t) ==
  \/ WriteChunk(t) \/ WriteCount(t) \/ WriteList(t) \/ WriteFails(t)
  \/ ReadCount(t) \/ ReadList(t) \/ ReadChunk(t) \/ LoadFails(t)

(* ... leads to a place that is in order. *)
LEMMA GoesTyped ==
  ASSUME Typed, NEW t \in Tasks, Goes(t)
  PROVE  /\ \E r \in Locals : Becomes(t, r) /\ PlaceOK(r)
         /\ chunk' \in [Index -> Versions \cup {None}]
         /\ count' \in (1 .. MaxChunks) \cup {None}
         /\ list' \in (1 .. MaxChunks) \cup {None}
         /\ last' \in Versions \cup {None}
<1>0. task[t] \in Locals /\ PlaceOK(task[t]) /\ Len(<<>>) = 0 /\ <<>> \in Seq(Versions)
  BY DEF Typed
<1>a. /\ chunk \in [Index -> Versions \cup {None}]
      /\ count \in (1 .. MaxChunks) \cup {None}
      /\ list \in (1 .. MaxChunks) \cup {None}
      /\ last \in Versions \cup {None}
  BY DEF Typed
<1>b. ASSUME FallBack(t)
      PROVE  \E r \in Locals : Becomes(t, r) /\ PlaceOK(r)
  <2>1. PICK r \in Locals : /\ Becomes(t, r) /\ r.next = 0 /\ r.got = <<>>
                            /\ \/ r.at = "failed"
                               \/ r.at = "chunk" /\ File \in Versions /\ r.ver = File
    BY <1>b, FallBackFacts
  <2>2. PlaceOK(r)
    BY <2>1 DEF PlaceOK
  <2>. QED
    BY <2>1, <2>2
<1>1. CASE WriteChunk(t)
  <2>1. PICK r \in Locals :
           /\ Becomes(t, r) /\ r.ver = task[t].ver /\ r.next = task[t].next + 1
           /\ r.at = IF r.next < Chunks[r.ver] THEN "chunk" ELSE "count"
           /\ r.got = task[t].got
    BY <1>1, ChunkedFacts
  <2>2. task[t].at = "chunk" /\ task[t].ver \in Versions
    BY <1>0, <1>1 DEF WriteChunk, PlaceOK
  <2>3. PlaceOK(r)
    BY <1>0, <2>1, <2>2 DEF PlaceOK
  <2>4. /\ chunk' \in [Index -> Versions \cup {None}]
        /\ count' = count /\ list' = list /\ last' = last
    BY <1>1, <1>a, <2>2 DEF WriteChunk
  <2>. QED
    BY <1>a, <2>1, <2>3, <2>4
<1>2. CASE WriteCount(t)
  <2>1. PICK r \in Locals : /\ Becomes(t, r) /\ r.at = "list"
                            /\ r.ver = task[t].ver /\ r.got = task[t].got
    BY <1>2, CountedFacts
  <2>2. task[t].ver \in Versions
    BY <1>0, <1>2 DEF WriteCount, PlaceOK
  <2>3. PlaceOK(r)
    BY <1>0, <2>1, <2>2 DEF PlaceOK
  <2>4. /\ count' = Chunks[task[t].ver]
        /\ chunk' = chunk /\ list' = list /\ last' = last
    BY <1>2 DEF WriteCount
  <2>. QED
    BY <1>a, <2>1, <2>2, <2>3, <2>4
<1>3. CASE WriteList(t)
  <2> DEFINE g == Whole(task[t].ver)
             r == Returned(t, "loaded", g)
  <2>1. task[t].ver \in Versions
    BY <1>0, <1>3 DEF WriteList, PlaceOK
  <2>2. g \in Seq(Versions) /\ Len(g) = Chunks[task[t].ver]
    BY <2>1 DEF Whole
  <2>3. task' = [task EXCEPT ![t] = r]
    BY <1>3, Zenon DEF WriteList
  <2>4. "loaded" \in Places
    BY DEF Places
  <2>5. Becomes(t, r) /\ PlaceOK(r) /\ r \in Locals
    <3>. HIDE DEF g
    <3>1. /\ r \in Locals /\ r.at = "loaded" /\ r.got = g /\ r.op = task[t].op
          /\ r.alone = task[t].alone /\ r.whole = task[t].whole
      BY <2>2, <2>4, ReturnedFacts
    <3>. HIDE DEF r
    <3>. QED
      BY <2>1, <2>2, <2>3, <3>1 DEF Becomes, PlaceOK
  <2>6. /\ list' = Chunks[task[t].ver] /\ last' = task[t].ver
        /\ chunk' = chunk /\ count' = count
    BY <1>3 DEF WriteList
  <2>. QED
    BY <1>a, <2>1, <2>5, <2>6
<1>4. CASE WriteFails(t)
  <2> DEFINE e == <<>>
             r == Returned(t, "failed", e)
  <2>1. task' = [task EXCEPT ![t] = r]
    BY <1>4, Zenon DEF WriteFails
  <2>2. "failed" \in Places /\ e \in Seq(Versions)
    BY <1>0 DEF Places
  <2>a. Len(e) = 0
    BY <1>0
  <2>3. Becomes(t, r) /\ PlaceOK(r) /\ r \in Locals
    <3>. HIDE DEF e
    <3>1. /\ r \in Locals /\ r.at = "failed" /\ r.got = e /\ r.op = task[t].op
          /\ r.alone = task[t].alone /\ r.whole = task[t].whole
      BY <2>2, ReturnedFacts
    <3>. HIDE DEF r
    <3>. QED
      BY <2>1, <2>a, <3>1 DEF Becomes, PlaceOK
  <2>. QED
    BY <1>4, <1>a, <2>3 DEF WriteFails
<1>5. CASE ReadCount(t)
  <2>1. CASE count = None
    BY <1>5, <1>a, <1>b, <2>1 DEF ReadCount
  <2>2. CASE count # None
    <3>1. PICK r \in Locals : /\ Becomes(t, r) /\ r.at = "list?" /\ r.size = count
                              /\ r.next = task[t].next /\ r.got = task[t].got
      BY <1>5, <2>2, ReadCountFacts
    <3>2. PlaceOK(r)
      BY <1>0, <1>5, <1>a, <2>2, <3>1 DEF ReadCount, PlaceOK
    <3>. QED
      BY <1>5, <1>a, <3>1, <3>2 DEF ReadCount
  <2>. QED
    BY <2>1, <2>2
<1>6. CASE ReadList(t)
  <2>1. CASE list = None \/ list > task[t].size
    BY <1>6, <1>a, <1>b, <2>1 DEF ReadList
  <2>2. CASE list # None /\ ~(list > task[t].size)
    <3>1. PICK r \in Locals :
             /\ Becomes(t, r) /\ r.at = "chunk?" /\ r.known = list
             /\ r.size = task[t].size /\ r.next = task[t].next /\ r.got = task[t].got
      BY <1>6, <2>2, ReadListFacts
    <3>2. PlaceOK(r)
      BY <1>0, <1>6, <3>1 DEF ReadList, PlaceOK
    <3>. QED
      BY <1>6, <1>a, <3>1, <3>2 DEF ReadList
  <2>. QED
    BY <2>1, <2>2
<1>7. CASE ReadChunk(t)
  <2>0. chunk' = chunk /\ count' = count /\ list' = list /\ last' = last
    BY <1>7 DEF ReadChunk
  <2>1. CASE FallBack(t)
    BY <1>a, <1>b, <2>0, <2>1
  <2>2. ASSUME NEW v \in Versions, Append1(t, v)
        PROVE  \E r \in Locals : Becomes(t, r) /\ PlaceOK(r)
    <3>1. task[t].at = "chunk?"
      BY <1>7, ReadChunkFacts
    <3>2. PICK r \in Locals :
           /\ Becomes(t, r) /\ r.got = Append(task[t].got, v)
           /\ \/ /\ r.at = "chunk?" /\ r.next = task[t].next + 1
                 /\ r.next < task[t].size
                 /\ r.size = task[t].size /\ r.known = task[t].known
              \/ /\ r.at = "loaded" /\ r.next = 0
                 /\ task[t].next + 1 = task[t].size
      BY <2>2, <3>1, AppendedFacts
    <3>3. /\ task[t].got \in Seq(Versions) /\ Len(task[t].got) = task[t].next
          /\ task[t].next \in Nat /\ task[t].size \in 0 .. MaxChunks
      BY <1>0, <3>1 DEF PlaceOK, Locals
    <3>4. Len(r.got) = task[t].next + 1
      BY <3>2, <3>3
    <3>5. PlaceOK(r)
      BY <3>2, <3>3, <3>4 DEF PlaceOK
    <3>. QED
      BY <3>2, <3>5
  <2>. QED
    BY <1>7, <1>a, <2>0, <2>1, <2>2, ReadChunkFacts
<1>8. CASE LoadFails(t)
  BY <1>8, <1>a, LoadFailsFacts DEF LoadFails
<1>. QED
  BY <1>1, <1>2, <1>3, <1>4, <1>5, <1>6, <1>7, <1>8 DEF Goes

(* Every step keeps the types. *)
LEMMA TypeStep == Typed /\ [Next]_vars => Typed'
<1> SUFFICES ASSUME Typed, [Next]_vars PROVE Typed'
  OBVIOUS
<1>1. ASSUME NEW t \in Tasks, Load(t)
      PROVE  Typed'
  <2>1. UNCHANGED <<store, torn, last>>
    BY <1>1 DEF Load
  <2>. QED
    BY <1>1, <2>1, LoadFacts, BeginTyped
<1>2. ASSUME NEW v \in Versions, Save(v)
      PROVE  Typed'
  <2>1. UNCHANGED <<store, torn, last>>
    BY <1>2 DEF Save
  <2>. QED
    BY <1>2, <2>1, SaveFacts, BeginTyped
<1>7. ASSUME NEW t \in Tasks, ReadFails(t)
      PROVE  Typed'
  <2>1. UNCHANGED <<store, torn, last>>
    BY <1>7 DEF ReadFails
  <2>. QED
    BY <1>7, <2>1, ReadFailsFacts, BeginTyped
<1>3. ASSUME NEW t \in Tasks, Goes(t)
      PROVE  Typed'
  BY <1>3, GoesTyped, BecomesTyped DEF Typed
<1>4. CASE Reset
  <2>1. /\ task' \in [Tasks -> Locals] /\ \A t \in Tasks : PlaceOK(task'[t])
    BY <1>4, ResetFacts, SamePlaceOK DEF Typed
  <2>2. /\ chunk' \in [Index -> Versions \cup {None}]
        /\ count' = None /\ list' = None /\ last' = None
    BY <1>4 DEF Reset
  <2>. QED
    BY <2>1, <2>2 DEF Typed
<1>5. CASE Crash
  BY <1>5, IdleFacts DEF Crash, Typed
<1>6. CASE UNCHANGED vars
  BY <1>6 DEF vars, Typed
<1>. QED
  BY <1>1, <1>2, <1>3, <1>4, <1>5, <1>6, <1>7 DEF Next, Step, Goes

------------------------------------------------------------------------------
(* The invariant.                                                           *)

(* Tasks that share the store and know it: a task that is alone shares it   *)
(* with nobody, or it is a load and so are all the others.                  *)
AloneInv ==
  \A t, u \in Tasks :
     t # u /\ Busy(t) /\ Busy(u) /\ task[t].alone
       => task[t].op = "load" /\ task[u].op = "load" /\ task[u].alone

(* What a task that is alone has written is there; a load writes the file.  *)
OwnInv ==
  \A t \in Tasks : Writing(t) =>
     /\ task[t].op = "load" => task[t].ver = File
     /\ task[t].alone =>
          \A i \in 0 .. Chunks[task[t].ver] - 1 :
             (task[t].at = "chunk" => i < task[t].next) => chunk[i] = task[t].ver
     /\ task[t].alone /\ task[t].at = "list" => count = Chunks[task[t].ver]

Good(v) ==
  /\ list = Chunks[v] /\ count = Chunks[v]
  /\ \A i \in 0 .. Chunks[v] - 1 : chunk[i] = v

(* A task has changed something and not come to its end.                    *)
Dirty(t) ==
  \/ task[t].at = "chunk" /\ task[t].next > 0
  \/ task[t].at \in {"count", "list"}

(* What is stored when nobody writes.                                       *)
StoreInv ==
  /\ list = None <=> last = None
  /\ ~torn /\ list # None /\ (\A t \in Tasks : ~Dirty(t)) => Good(last)
  /\ ~torn /\ list = None /\ (\A t \in Tasks : task[t].at # "list")
       => count = None

(* The certificate that a load is to return, and the times when it must:    *)
(* only loads are under way, and none of them shares the store with a save. *)
Current == IF last = None THEN File ELSE last
Calm == \A t \in Tasks : Busy(t) => task[t].alone /\ task[t].op = "load"
Trusted == ~torn \/ \E t \in Tasks : Busy(t) /\ task[t].whole

(* At such times the store is as the last version left it, and whoever      *)
(* writes, or has not seen it whole, can only make it the file.             *)
Settled ==
  /\ last # None => Good(last)
  /\ last = None /\ count # None => File # None /\ count = Chunks[File]
  /\ torn => Current = File
  /\ \A t \in Tasks : (Busy(t) /\ ~task[t].whole) \/ Writing(t) => Current = File

(* How far a load has got.                                                  *)
Progress(t) ==
  /\ task[t].at = "list?" =>
       Current # None /\ task[t].size = Chunks[Current]
  /\ task[t].at = "chunk?" =>
       /\ last # None
       /\ task[t].size = Chunks[last] /\ task[t].known = Chunks[last]
       /\ \A j \in 1 .. task[t].next : task[t].got[j] = last

CalmInv ==
  Calm /\ Trusted =>
    Settled /\ \A t \in Tasks : Busy(t) /\ task[t].whole => Progress(t)

Inv == AloneInv /\ OwnInv /\ StoreInv /\ CalmInv

------------------------------------------------------------------------------
(* Steps seen from the invariant.                                           *)

(* Where a task is says what it does. *)
LEMMA PlaceFacts ==
  ASSUME NEW t \in Tasks, Typed
  PROVE  /\ task[t].at \in Places /\ task[t].op \in {"save", "load"}
         /\ Writing(t) => Busy(t)
         /\ Dirty(t) => Writing(t)
         /\ task[t].at \in {"count?", "list?", "chunk?"} =>
              Busy(t) /\ ~Writing(t) /\ ~Dirty(t)
         /\ task[t].at \in {"idle", "loaded", "failed"} =>
              ~Busy(t) /\ ~Writing(t) /\ ~Dirty(t)
<1>1. task[t] \in Locals
  BY DEF Typed
<1>. QED
  BY <1>1 DEF Locals, Places, Writing, Busy, Dirty

(* A step of task t, in terms of what it leaves alone. *)
OthersSame(t) == \A u \in Tasks \ {t} : task'[u] = task[u]
SameCall(t) ==
  /\ task'[t].op = task[t].op
  /\ task'[t].alone = task[t].alone /\ task'[t].whole = task[t].whole

(* WriteChunk, variable by variable. *)
LEMMA ChunkedView ==
  ASSUME Typed, NEW t \in Tasks, WriteChunk(t)
  PROVE  /\ OthersSame(t) /\ SameCall(t)
         /\ task[t].at = "chunk" /\ task[t].ver \in Versions
         /\ task[t].next \in Nat /\ task[t].next < Chunks[task[t].ver]
         /\ task'[t].ver = task[t].ver /\ task'[t].next = task[t].next + 1
         /\ task'[t].at = "chunk" => task'[t].next < Chunks[task[t].ver]
         /\ task'[t].at = "count" => task'[t].next = Chunks[task[t].ver]
         /\ task'[t].at \in {"chunk", "count"}
         /\ chunk'[task[t].next] = task[t].ver
         /\ \A i \in Index : i # task[t].next => chunk'[i] = chunk[i]
         /\ count' = count /\ list' = list /\ torn' = torn /\ last' = last
<1>1. PICK r \in Locals :
         /\ Becomes(t, r) /\ r.ver = task[t].ver /\ r.next = task[t].next + 1
         /\ r.at = IF r.next < Chunks[r.ver] THEN "chunk" ELSE "count"
         /\ r.got = task[t].got
  BY ChunkedFacts
<1>2. task'[t] = r /\ OthersSame(t) /\ SameCall(t)
  BY <1>1, BecomesTyped DEF OthersSame, SameCall, Becomes
<1>3. /\ task[t].at = "chunk" /\ task[t].ver \in Versions
      /\ task[t].next \in 0 .. MaxChunks /\ task[t].next < Chunks[task[t].ver]
  BY DEF Typed, WriteChunk, PlaceOK, Locals
<1>4. task[t].next \in Index
  BY <1>3 DEF Index
<1>5. /\ chunk'[task[t].next] = task[t].ver
      /\ \A i \in Index : i # task[t].next => chunk'[i] = chunk[i]
      /\ count' = count /\ list' = list /\ torn' = torn /\ last' = last
  BY <1>4 DEF WriteChunk, Typed
<1>. QED
  BY <1>1, <1>2, <1>3, <1>5

(* WriteCount, variable by variable. *)
LEMMA CountedView ==
  ASSUME Typed, NEW t \in Tasks, WriteCount(t)
  PROVE  /\ OthersSame(t) /\ SameCall(t)
         /\ task[t].at = "count" /\ task[t].ver \in Versions
         /\ task'[t].at = "list" /\ task'[t].ver = task[t].ver
         /\ count' = Chunks[task[t].ver]
         /\ chunk' = chunk /\ list' = list /\ torn' = torn /\ last' = last
<1>1. PICK r \in Locals : /\ Becomes(t, r) /\ r.at = "list"
                          /\ r.ver = task[t].ver /\ r.got = task[t].got
  BY CountedFacts
<1>2. task'[t] = r /\ OthersSame(t) /\ SameCall(t)
  BY <1>1, BecomesTyped DEF OthersSame, SameCall, Becomes
<1>3. task[t].at = "count" /\ task[t].ver \in Versions
  BY DEF Typed, WriteCount, PlaceOK
<1>. QED
  BY <1>1, <1>2, <1>3 DEF WriteCount

(* WriteList, variable by variable. *)
LEMMA ListedView ==
  ASSUME Typed, NEW t \in Tasks, WriteList(t)
  PROVE  /\ OthersSame(t) /\ SameCall(t)
         /\ task[t].at = "list" /\ task[t].ver \in Versions
         /\ task'[t].at = "loaded" /\ task'[t].got = Whole(task[t].ver)
         /\ list' = Chunks[task[t].ver] /\ last' = task[t].ver
         /\ torn' = ~task[t].alone
         /\ chunk' = chunk /\ count' = count
<1> DEFINE g == Whole(task[t].ver)
           r == Returned(t, "loaded", g)
<1>1. task[t].at = "list" /\ task[t].ver \in Versions
  BY DEF Typed, WriteList, PlaceOK
<1>2. g \in Seq(Versions)
  BY <1>1 DEF Whole
<1>3. task' = [task EXCEPT ![t] = r]
  BY Zenon DEF WriteList
<1>4. "loaded" \in Places
  BY DEF Places
<1>5. Becomes(t, r) /\ r \in Locals /\ r.at = "loaded" /\ r.got = g
  <2>. HIDE DEF g
  <2>. QED
    BY <1>2, <1>3, <1>4, ReturnedFacts DEF Becomes
<1>6. task'[t] = r /\ OthersSame(t) /\ SameCall(t)
  <2>. HIDE DEF r
  <2>. QED
    BY <1>5, BecomesTyped DEF OthersSame, SameCall, Becomes
<1>. QED
  BY <1>1, <1>5, <1>6 DEF WriteList

(* WriteFails, variable by variable. *)
LEMMA FailedView ==
  ASSUME Typed, NEW t \in Tasks, WriteFails(t)
  PROVE  /\ OthersSame(t) /\ SameCall(t)
         /\ Writing(t) /\ task'[t].at = "failed"
         /\ torn' = (torn \/ Interrupted(t))
         /\ chunk' = chunk /\ count' = count /\ list' = list /\ last' = last
<1> DEFINE e == <<>>
           r == Returned(t, "failed", e)
<1>1. task' = [task EXCEPT ![t] = r]
  BY Zenon DEF WriteFails
<1>2. "failed" \in Places /\ e \in Seq(Versions)
  BY DEF Places
<1>3. Becomes(t, r) /\ r \in Locals /\ r.at = "failed"
  <2>. HIDE DEF e
  <2>. QED
    BY <1>1, <1>2, ReturnedFacts DEF Becomes
<1>4. task'[t] = r /\ OthersSame(t) /\ SameCall(t)
  <2>. HIDE DEF r
  <2>. QED
    BY <1>3, BecomesTyped DEF OthersSame, SameCall, Becomes
<1>. QED
  BY <1>3, <1>4 DEF WriteFails

(* A load that cannot read what is stored. *)
FellBack(t) ==
  /\ OthersSame(t) /\ SameCall(t)
  /\ \/ task'[t].at = "failed"
     \/ /\ task'[t].at = "chunk" /\ task'[t].next = 0
        /\ File \in Versions /\ task'[t].ver = File

(* FallBack, in these terms. *)
LEMMA FellBackView ==
  ASSUME Typed, NEW t \in Tasks, FallBack(t)
  PROVE  FellBack(t)
<1>1. PICK r \in Locals : /\ Becomes(t, r) /\ r.next = 0 /\ r.got = <<>>
                          /\ \/ r.at = "failed"
                             \/ r.at = "chunk" /\ File \in Versions /\ r.ver = File
  BY FallBackFacts
<1>2. task'[t] = r /\ OthersSame(t) /\ SameCall(t)
  BY <1>1, BecomesTyped DEF OthersSame, SameCall, Becomes
<1>. QED
  BY <1>1, <1>2 DEF FellBack

(* A load that goes on, returns, or falls back. *)
Reading(t) ==
  /\ UNCHANGED <<store, torn, last>>
  /\ OthersSame(t) /\ SameCall(t)
  /\ task[t].at \in {"count?", "list?", "chunk?"}
  /\ \/ task'[t].at \in {"list?", "chunk?", "loaded", "failed"}
     \/ /\ task'[t].at = "chunk" /\ task'[t].next = 0
        /\ File \in Versions /\ task'[t].ver = File

(* ReadCount, in these terms. *)
LEMMA ReadCountView ==
  ASSUME Typed, NEW t \in Tasks, ReadCount(t)
  PROVE  /\ Reading(t) /\ task[t].at = "count?"
         /\ task[t].next = 0
         /\ \/ count = None /\ FellBack(t)
            \/ /\ count # None
               /\ task'[t].at = "list?" /\ task'[t].size = count
               /\ task'[t].next = 0
<1>0. task[t].at = "count?" /\ task[t].next = 0 /\ UNCHANGED <<store, torn, last>>
  BY DEF ReadCount, Typed, PlaceOK
<1>1. CASE count = None
  <2>1. FellBack(t)
    BY <1>1, FellBackView DEF ReadCount
  <2>. QED
    BY <1>0, <1>1, <2>1 DEF Reading, FellBack
<1>2. CASE count # None
  <2>1. PICK r \in Locals : /\ Becomes(t, r) /\ r.at = "list?" /\ r.size = count
                            /\ r.next = task[t].next /\ r.got = task[t].got
    BY <1>2, ReadCountFacts
  <2>2. task'[t] = r /\ OthersSame(t) /\ SameCall(t)
    BY <2>1, BecomesTyped DEF OthersSame, SameCall, Becomes
  <2>. QED
    BY <1>0, <1>2, <2>1, <2>2 DEF Reading
<1>. QED
  BY <1>1, <1>2

(* ReadList, in these terms. *)
LEMMA ReadListView ==
  ASSUME Typed, NEW t \in Tasks, ReadList(t)
  PROVE  /\ Reading(t) /\ task[t].at = "list?"
         /\ \/ (list = None \/ list > task[t].size) /\ FellBack(t)
            \/ /\ list # None
               /\ task'[t].at = "chunk?" /\ task'[t].known = list
               /\ task'[t].size = task[t].size /\ task'[t].next = 0
<1>0. task[t].at = "list?" /\ task[t].next = 0 /\ UNCHANGED <<store, torn, last>>
  BY DEF ReadList, Typed, PlaceOK
<1>1. CASE list = None \/ list > task[t].size
  <2>1. FellBack(t)
    BY <1>1, FellBackView DEF ReadList
  <2>. QED
    BY <1>0, <1>1, <2>1 DEF Reading, FellBack
<1>2. CASE list # None /\ ~(list > task[t].size)
  <2>1. PICK r \in Locals :
           /\ Becomes(t, r) /\ r.at = "chunk?" /\ r.known = list
           /\ r.size = task[t].size /\ r.next = task[t].next /\ r.got = task[t].got
    BY <1>2, ReadListFacts
  <2>2. task'[t] = r /\ OthersSame(t) /\ SameCall(t)
    BY <2>1, BecomesTyped DEF OthersSame, SameCall, Becomes
  <2>. QED
    BY <1>0, <1>2, <2>1, <2>2 DEF Reading
<1>. QED
  BY <1>1, <1>2

(* ReadChunk, in these terms. *)
LEMMA ReadChunkView ==
  ASSUME Typed, NEW t \in Tasks, ReadChunk(t)
  PROVE  /\ Reading(t) /\ task[t].at = "chunk?"
         /\ task[t].next \in Nat /\ task[t].next < task[t].size
         /\ task[t].got \in Seq(Versions) /\ Len(task[t].got) = task[t].next
         /\ \/ /\ FellBack(t)
               /\ task[t].next < task[t].known =>
                    chunk[task[t].next] = None \/ MayGrow(t)
            \/ \E v \in Versions :
                 /\ task[t].next < task[t].known => v = chunk[task[t].next]
                 /\ task'[t].got = Append(task[t].got, v)
                 /\ \/ /\ task'[t].at = "chunk?"
                       /\ task'[t].next = task[t].next + 1
                       /\ task'[t].size = task[t].size
                       /\ task'[t].known = task[t].known
                    \/ /\ task'[t].at = "loaded"
                       /\ task[t].next + 1 = task[t].size
<1>0. /\ task[t].at = "chunk?" /\ UNCHANGED <<store, torn, last>>
      /\ task[t].next \in Nat /\ task[t].next < task[t].size
      /\ task[t].got \in Seq(Versions) /\ Len(task[t].got) = task[t].next
  BY DEF ReadChunk, Typed, PlaceOK, Locals
<1>1. CASE /\ FallBack(t)
           /\ task[t].next < task[t].known =>
                chunk[task[t].next] = None \/ MayGrow(t)
  BY <1>0, <1>1, FellBackView DEF Reading, FellBack
<1>2. ASSUME NEW v \in Versions, Append1(t, v),
             task[t].next < task[t].known => v = chunk[task[t].next]
      PROVE  /\ Reading(t)
             /\ task'[t].got = Append(task[t].got, v)
             /\ \/ /\ task'[t].at = "chunk?"
                   /\ task'[t].next = task[t].next + 1
                   /\ task'[t].size = task[t].size
                   /\ task'[t].known = task[t].known
                \/ /\ task'[t].at = "loaded"
                   /\ task[t].next + 1 = task[t].size
  <2>1. PICK r \in Locals :
           /\ Becomes(t, r) /\ r.got = Append(task[t].got, v)
           /\ \/ /\ r.at = "chunk?" /\ r.next = task[t].next + 1
                 /\ r.next < task[t].size
                 /\ r.size = task[t].size /\ r.known = task[t].known
              \/ /\ r.at = "loaded" /\ r.next = 0
                 /\ task[t].next + 1 = task[t].size
    BY <1>0, <1>2, AppendedFacts
  <2>2. task'[t] = r /\ OthersSame(t) /\ SameCall(t)
    BY <2>1, BecomesTyped DEF OthersSame, SameCall, Becomes
  <2>. QED
    BY <1>0, <2>1, <2>2 DEF Reading
<1>. QED
  BY <1>0, <1>1, <1>2, ReadChunkFacts

(* LoadFails, in these terms. *)
LEMMA LoadFailsView ==
  ASSUME Typed, NEW t \in Tasks, LoadFails(t)
  PROVE  Reading(t) /\ task'[t].at = "failed"
<1>1. PICK r \in Locals : Becomes(t, r) /\ r.at = "failed"
  BY LoadFailsFacts
<1>2. task'[t] = r /\ OthersSame(t) /\ SameCall(t)
  BY <1>1, BecomesTyped DEF OthersSame, SameCall, Becomes
<1>. QED
  BY <1>1, <1>2 DEF Reading, LoadFails

(* A call that begins, or goes on as a save: the task has written nothing.  *)
Begun(t) ==
  /\ UNCHANGED <<store, torn, last>>
  /\ ~Writing(t)
  /\ \/ task'[t].at = "chunk" /\ task'[t].op = "save"
     \/ task'[t].at = "count?" /\ task'[t].op = "load" /\ ~Busy(t)
  /\ task'[t].next = 0 /\ task'[t].got = <<>> /\ task'[t].whole = ~torn
  /\ \A u \in Tasks \ {t} : Same(u) /\ (task'[u].alone => task[u].alone)
  /\ \A u \in Tasks \ {t} :
       Busy(u) /\ (task'[t].op = "save" \/ task[u].op = "save" \/ ~task[u].alone)
         => ~task'[t].alone /\ ~task'[u].alone
  /\ \A u \in Tasks \ {t} :
       task'[t].op = "load" /\ task[u].op = "load" /\ task[u].alone
         => task'[u].alone
  /\ ~task'[t].alone => \E u \in Tasks \ {t} :
       /\ Busy(u)
       /\ task'[t].op = "save" \/ task[u].op = "save" \/ ~task[u].alone

(* Load, Save and ReadFails, in these terms. *)
LEMMA BegunView ==
  ASSUME Typed, NEW t \in Tasks,
         \/ Load(t) \/ ReadFails(t)
         \/ \E v \in Versions : Save(v) /\ t = Web
  PROVE  Begun(t)
<1>1. UNCHANGED <<store, torn, last>>
  BY DEF Load, Save, ReadFails
<1>2. PICK new \in Locals :
        /\ Begin(t, new) /\ new.next = 0 /\ new.got = <<>>
        /\ \/ new.at = "chunk" /\ new.op = "save"
           \/ new.at = "count?" /\ new.op = "load" /\ ~Busy(t)
  BY LoadFacts, SaveFacts, ReadFailsFacts
<1>5. ~Writing(t)
  <2>1. ReadFails(t) => ~Writing(t)
    BY DEF ReadFails, Writing
  <2>. QED
    BY <2>1, LoadFacts, SaveFacts, PlaceFacts
<1>3. /\ task'[t].at = new.at /\ task'[t].op = new.op /\ task'[t].next = 0
      /\ task'[t].got = <<>> /\ task'[t].whole = ~torn
      /\ \A u \in Tasks \ {t} : Same(u)
      /\ \A u \in Tasks \ {t} :
           Busy(u) /\ Clash(new, task[u]) => ~task'[t].alone /\ ~task'[u].alone
      /\ \A u \in Tasks \ {t} : task'[u].alone => task[u].alone
      /\ \A u \in Tasks \ {t} :
           ~(Busy(u) /\ Clash(new, task[u])) => task'[u] = task[u]
      /\ ~task'[t].alone =>
           \E u \in Tasks \ {t} : Busy(u) /\ Clash(new, task[u])
  BY <1>2, BeginFacts
<1>4. \A u \in Tasks \ {t} :
        task'[t].op = "save" \/ task[u].op = "save" \/ ~task[u].alone
          <=> Clash(new, task[u])
  BY <1>3 DEF Clash
<1>. QED
  BY <1>1, <1>2, <1>3, <1>4, <1>5 DEF Begun

(* Only busy tasks go on, and no call becomes another one by it. *)
LEMMA GoesView ==
  ASSUME Typed, NEW t \in Tasks, Goes(t)
  PROVE  OthersSame(t) /\ SameCall(t) /\ Busy(t)
<1>1. CASE WriteChunk(t) \/ WriteCount(t) \/ WriteList(t) \/ WriteFails(t)
  BY <1>1, ChunkedView, CountedView, ListedView, FailedView DEF Busy, Writing
<1>2. CASE ReadCount(t) \/ ReadList(t) \/ ReadChunk(t) \/ LoadFails(t)
  BY <1>2, ReadCountView, ReadListView, ReadChunkView, LoadFailsView DEF Busy, Reading
<1>. QED
  BY <1>1, <1>2 DEF Goes

(* Every step is one of these. *)
LEMMA Steps ==
  ASSUME Typed, [Next]_vars
  PROVE  \/ \E t \in Tasks : Begun(t)
         \/ \E t \in Tasks : Goes(t)
         \/ Reset \/ Crash \/ UNCHANGED vars
BY BegunView, WebAssumption DEF Next, Step, Goes

(* Every step keeps AloneInv. *)
LEMMA AloneStep ==
  ASSUME Typed, Inv, [Next]_vars
  PROVE  AloneInv'
<1>0. AloneInv /\ \A t \in Tasks : task[t] \in Locals
  BY DEF Inv, Typed
<1>1. ASSUME NEW t \in Tasks, Begun(t)
      PROVE  AloneInv'
  <2> SUFFICES ASSUME NEW a \in Tasks, NEW b \in Tasks, a # b,
                      Busy(a)', Busy(b)', task'[a].alone
               PROVE  task'[a].op = "load" /\ task'[b].op = "load" /\ task'[b].alone
    BY DEF AloneInv
  <2>1. \A u \in Tasks \ {t} : Busy(u)' => Busy(u)
    BY <1>1 DEF Begun, Same, Busy
  <2>a. \A u \in Tasks : task[u].op \in {"save", "load"}
    BY <1>0 DEF Locals
  <2>b. task'[t].op \in {"save", "load"}
    BY <1>1 DEF Begun
  <2>c. \A u \in Tasks \ {t} : task'[u].op = task[u].op
    BY <1>1 DEF Begun, Same
  <2>d. \A u \in Tasks \ {t} : task'[u].alone => task[u].alone
    BY <1>1 DEF Begun
  <2>e. \A u \in Tasks \ {t} :
          Busy(u) /\ (task'[t].op = "save" \/ task[u].op = "save" \/ ~task[u].alone)
            => ~task'[t].alone /\ ~task'[u].alone
    BY <1>1 DEF Begun
  <2>f. \A u \in Tasks \ {t} :
          task'[t].op = "load" /\ task[u].op = "load" /\ task[u].alone
            => task'[u].alone
    BY <1>1 DEF Begun
  <2>2. CASE a # t /\ b # t
    <3>1. /\ Busy(a) /\ Busy(b) /\ task[a].alone
          /\ task[a].op = "load" /\ task[b].op = "load" /\ task[b].alone
      BY <1>0, <2>1, <2>2, <2>d DEF AloneInv
    <3>2. task'[t].op = "load"
      BY <2>2, <2>b, <2>e, <3>1
    <3>. QED
      BY <2>2, <2>c, <2>f, <3>1, <3>2
  <2>3. CASE a = t
    <3>1. Busy(b) /\ b # t
      BY <2>1, <2>3
    <3>2. task'[t].op = "load" /\ task[b].op = "load" /\ task[b].alone
      BY <2>3, <2>a, <2>b, <2>e, <3>1
    <3>. QED
      BY <2>3, <2>c, <2>f, <3>1, <3>2
  <2>4. CASE b = t
    <3>1. Busy(a) /\ a # t
      BY <2>1, <2>4
    <3>2. task'[t].op = "load" /\ task[a].op = "load" /\ task[a].alone
      BY <2>4, <2>a, <2>b, <2>e, <3>1
    <3>3. task[a].alone
      BY <2>d, <3>1
    <3>4. \A u \in Tasks \ {t} : Busy(u) => task[u].op = "load" /\ task[u].alone
      BY <1>0, <3>1, <3>2, <3>3 DEF AloneInv
    <3>5. task'[t].alone
      BY <1>1, <3>2, <3>4 DEF Begun
    <3>. QED
      BY <2>4, <2>c, <3>1, <3>2, <3>5
  <2>. QED
    BY <2>2, <2>3, <2>4
<1>2. ASSUME NEW t \in Tasks, Goes(t)
      PROVE  AloneInv'
  <2>1. OthersSame(t) /\ SameCall(t) /\ Busy(t)
    BY <1>2, GoesView
  <2>2. \A u \in Tasks : /\ Busy(u)' => Busy(u)
                         /\ task'[u].op = task[u].op /\ task'[u].alone = task[u].alone
    BY <2>1 DEF OthersSame, SameCall, Busy
  <2>. QED
    BY <1>0, <2>2 DEF AloneInv
<1>3. CASE Reset
  BY <1>3, ResetFacts DEF AloneInv, Same, Busy
<1>4. CASE Crash
  BY <1>4, IdleFacts DEF Crash, AloneInv, Busy
<1>5. CASE UNCHANGED vars
  BY <1>0, <1>5 DEF vars, AloneInv, Busy
<1>. QED
  BY <1>1, <1>2, <1>3, <1>4, <1>5, Steps

(* OwnInv of one task. *)
Own(t) ==
  Writing(t) =>
     /\ task[t].op = "load" => task[t].ver = File
     /\ task[t].alone =>
          \A i \in 0 .. Chunks[task[t].ver] - 1 :
             (task[t].at = "chunk" => i < task[t].next) => chunk[i] = task[t].ver
     /\ task[t].alone /\ task[t].at = "list" => count = Chunks[task[t].ver]

(* The chunks of a version have keys. *)
LEMMA Ranges ==
  ASSUME NEW v \in Versions
  PROVE  /\ Chunks[v] \in 1 .. MaxChunks
         /\ 0 .. Chunks[v] - 1 \subseteq Index
         /\ 0 \in 0 .. Chunks[v] - 1
BY DEF Index

(* A write by one task does not disturb what another one has written alone: *)
(* they are loads, and write the same file.                                 *)
LEMMA SameFile ==
  ASSUME Typed, AloneInv, OwnInv, NEW t \in Tasks, NEW u \in Tasks, t # u,
         Writing(t), Writing(u), task[u].alone
  PROVE  task[t].ver = File /\ task[u].ver = File
<1>1. Busy(t) /\ Busy(u)
  BY PlaceFacts
<1>. QED
  BY <1>1 DEF AloneInv, OwnInv

(* Every step keeps OwnInv. *)
LEMMA OwnStep ==
  ASSUME Typed, Inv, [Next]_vars
  PROVE  OwnInv'
<1>0. AloneInv /\ OwnInv /\ \A t \in Tasks : Own(t)
  BY DEF Inv, OwnInv, Own
<1>a. ASSUME NEW u \in Tasks, Same(u), task'[u].alone => task[u].alone,
             chunk' = chunk, count' = count
      PROVE  Own(u)'
  BY <1>0, <1>a DEF Own, Same, Writing
<1>b. ASSUME NEW u \in Tasks, task'[u] = task[u], chunk' = chunk, count' = count
      PROVE  Own(u)'
  BY <1>0, <1>b DEF Own, Writing
<1>1. ASSUME NEW t \in Tasks, Begun(t), NEW u \in Tasks
      PROVE  Own(u)'
  <2>1. chunk' = chunk /\ count' = count
    BY <1>1 DEF Begun
  <2>2. CASE u # t
    BY <1>1, <1>a, <2>1, <2>2 DEF Begun
  <2>3. CASE u = t
    BY <1>1, <2>3 DEF Begun, Own, Writing
  <2>. QED
    BY <2>2, <2>3
<1>2. ASSUME NEW t \in Tasks, WriteChunk(t), NEW u \in Tasks
      PROVE  Own(u)'
  <2>1. /\ OthersSame(t) /\ SameCall(t)
        /\ task[t].at = "chunk" /\ task[t].ver \in Versions
        /\ task[t].next \in Nat /\ task[t].next < Chunks[task[t].ver]
        /\ task'[t].ver = task[t].ver /\ task'[t].next = task[t].next + 1
        /\ task'[t].at = "chunk" => task'[t].next < Chunks[task[t].ver]
        /\ task'[t].at = "count" => task'[t].next = Chunks[task[t].ver]
        /\ task'[t].at \in {"chunk", "count"}
        /\ chunk'[task[t].next] = task[t].ver
        /\ \A i \in Index : i # task[t].next => chunk'[i] = chunk[i]
        /\ count' = count
    BY <1>2, ChunkedView
  <2>2. CASE u = t
    <3>1. /\ task[t].op = "load" => task[t].ver = File
          /\ task[t].alone =>
               \A i \in 0 .. Chunks[task[t].ver] - 1 :
                  i < task[t].next => chunk[i] = task[t].ver
      BY <1>0, <2>1 DEF Own, Writing
    <3>2. ASSUME task[t].alone, NEW i \in 0 .. Chunks[task[t].ver] - 1,
                 task'[t].at = "chunk" => i < task'[t].next
          PROVE  chunk'[i] = task[t].ver
      <4>1. i \in Index /\ i <= task[t].next
        BY <2>1, <3>2, Ranges
      <4>. QED
        BY <2>1, <3>1, <3>2, <4>1
    <3>. QED
      BY <2>1, <2>2, <3>1, <3>2 DEF Own, SameCall
  <2>3. CASE u # t
    <3>1. task'[u] = task[u]
      BY <2>1, <2>3 DEF OthersSame
    <3>2. CASE ~(Writing(u) /\ task[u].alone)
      BY <1>0, <3>1, <3>2 DEF Own, Writing
    <3>3. CASE Writing(u) /\ task[u].alone
      <4>1. task[t].ver = File /\ task[u].ver = File
        BY <1>0, <2>1, <2>3, <3>3, SameFile DEF Writing
      <4>2. \A i \in 0 .. Chunks[task[u].ver] - 1 :
              chunk[i] = task[u].ver => chunk'[i] = task[u].ver
        BY <2>1, <4>1, Ranges
      <4>. QED
        BY <1>0, <2>1, <3>1, <3>3, <4>2 DEF Own, Writing
    <3>. QED
      BY <3>2, <3>3
  <2>. QED
    BY <2>2, <2>3
<1>3. ASSUME NEW t \in Tasks, WriteCount(t), NEW u \in Tasks
      PROVE  Own(u)'
  <2>1. /\ OthersSame(t) /\ SameCall(t)
        /\ task[t].at = "count" /\ task[t].ver \in Versions
        /\ task'[t].at = "list" /\ task'[t].ver = task[t].ver
        /\ count' = Chunks[task[t].ver] /\ chunk' = chunk
    BY <1>3, CountedView
  <2>2. CASE u = t
    BY <1>0, <2>1, <2>2 DEF Own, Writing, SameCall
  <2>3. CASE u # t
    <3>1. task'[u] = task[u]
      BY <2>1, <2>3 DEF OthersSame
    <3>2. CASE ~(Writing(u) /\ task[u].alone)
      BY <1>0, <2>1, <3>1, <3>2 DEF Own, Writing
    <3>3. CASE Writing(u) /\ task[u].alone
      <4>1. task[t].ver = File /\ task[u].ver = File
        BY <1>0, <2>1, <2>3, <3>3, SameFile DEF Writing
      <4>. QED
        BY <1>0, <2>1, <3>1, <3>3, <4>1 DEF Own, Writing
    <3>. QED
      BY <3>2, <3>3
  <2>. QED
    BY <2>2, <2>3
<1>4. ASSUME NEW t \in Tasks, WriteList(t) \/ WriteFails(t), NEW u \in Tasks
      PROVE  Own(u)'
  <2>1. /\ OthersSame(t) /\ task'[t].at \in {"loaded", "failed"}
        /\ chunk' = chunk /\ count' = count
    BY <1>4, ListedView, FailedView
  <2>2. CASE u = t
    BY <2>1, <2>2 DEF Own, Writing
  <2>3. CASE u # t
    BY <1>b, <2>1, <2>3 DEF OthersSame
  <2>. QED
    BY <2>2, <2>3
<1>5. ASSUME NEW t \in Tasks, Reading(t), NEW u \in Tasks
      PROVE  Own(u)'
  <2>1. chunk' = chunk /\ count' = count
    BY <1>5 DEF Reading
  <2>2. CASE u = t
    BY <1>5, <2>2, Ranges DEF Own, Writing, Reading
  <2>3. CASE u # t
    BY <1>5, <1>b, <2>1, <2>3 DEF Reading, OthersSame
  <2>. QED
    BY <2>2, <2>3
<1>6. ASSUME Reset, NEW u \in Tasks
      PROVE  Own(u)'
  <2>1. Same(u) /\ (Busy(u) => ~task'[u].alone)
    BY <1>6, ResetFacts
  <2>2. Writing(u)' => Writing(u) /\ ~task'[u].alone
    BY <2>1, PlaceFacts DEF Same, Writing
  <2>. QED
    BY <1>0, <2>1, <2>2 DEF Own, Same
<1>7. ASSUME Crash, NEW u \in Tasks
      PROVE  Own(u)'
  BY <1>7, IdleFacts DEF Crash, Own, Writing
<1>8. ASSUME UNCHANGED vars, NEW u \in Tasks
      PROVE  Own(u)'
  BY <1>8, <1>b DEF vars
<1>9. \A t \in Tasks :
        ReadCount(t) \/ ReadList(t) \/ ReadChunk(t) \/ LoadFails(t) => Reading(t)
  BY ReadCountView, ReadListView, ReadChunkView, LoadFailsView
<1>10. ASSUME NEW u \in Tasks
       PROVE  Own(u)'
  BY <1>1, <1>2, <1>3, <1>4, <1>5, <1>6, <1>7, <1>8, <1>9, Steps DEF Goes
<1>. QED
  BY <1>10 DEF Own, OwnInv

(* What StoreInv speaks of stays as it is. *)
Undisturbed ==
  /\ UNCHANGED <<store, torn, last>>
  /\ \A t \in Tasks : (Dirty(t) => Dirty(t)') /\ (task[t].at = "list" => task'[t].at = "list")

(* Every step keeps StoreInv. *)
LEMMA StoreStep ==
  ASSUME Typed, Inv, [Next]_vars
  PROVE  StoreInv'
<1>0. OwnInv /\ StoreInv
  BY DEF Inv
<1>a. ASSUME Undisturbed
      PROVE  StoreInv'
  <2>1. ASSUME \A t \in Tasks : ~Dirty(t)', NEW t \in Tasks
        PROVE  ~Dirty(t)
    BY <1>a, <2>1 DEF Undisturbed
  <2>2. ASSUME \A t \in Tasks : task'[t].at # "list", NEW t \in Tasks
        PROVE  task[t].at # "list"
    BY <1>a, <2>2 DEF Undisturbed
  <2>. QED
    BY <1>0, <1>a, <2>1, <2>2 DEF Undisturbed, StoreInv, Good
<1>1. ASSUME NEW t \in Tasks, Begun(t)
      PROVE  StoreInv'
  <2>1. ~Dirty(t) /\ task[t].at # "list"
    BY <1>1, PlaceFacts DEF Begun, Writing
  <2>. QED
    BY <1>1, <1>a, <2>1 DEF Begun, Same, Dirty, Undisturbed
<1>2. ASSUME NEW t \in Tasks, WriteChunk(t)
      PROVE  StoreInv'
  <2>1. /\ OthersSame(t) /\ task[t].at = "chunk" /\ task[t].next \in Nat
        /\ task'[t].next = task[t].next + 1 /\ task'[t].at \in {"chunk", "count"}
        /\ count' = count /\ list' = list /\ torn' = torn /\ last' = last
    BY <1>2, ChunkedView
  <2>2. Dirty(t)'
    BY <2>1 DEF Dirty
  <2>3. \A u \in Tasks : task'[u].at # "list" => task[u].at # "list"
    BY <2>1 DEF OthersSame
  <2>. QED
    BY <1>0, <2>1, <2>2, <2>3 DEF StoreInv
<1>3. ASSUME NEW t \in Tasks, WriteCount(t)
      PROVE  StoreInv'
  <2>1. /\ task'[t].at = "list"
        /\ list' = list /\ torn' = torn /\ last' = last
    BY <1>3, CountedView
  <2>2. Dirty(t)'
    BY <2>1 DEF Dirty
  <2>. QED
    BY <1>0, <2>1, <2>2 DEF StoreInv
<1>4. ASSUME NEW t \in Tasks, WriteList(t)
      PROVE  StoreInv'
  <2>1. /\ task[t].at = "list" /\ task[t].ver \in Versions
        /\ list' = Chunks[task[t].ver] /\ last' = task[t].ver
        /\ torn' = ~task[t].alone
        /\ chunk' = chunk /\ count' = count
    BY <1>4, ListedView
  <2>2. list' # None /\ last' # None
    BY <2>1, Ranges
  <2>3. ASSUME ~torn'
        PROVE  Good(last)'
    BY <1>0, <2>1, <2>3 DEF OwnInv, Writing, Good
  <2>. QED
    BY <2>2, <2>3 DEF StoreInv
<1>5. ASSUME NEW t \in Tasks, WriteFails(t)
      PROVE  StoreInv'
  <2>1. /\ OthersSame(t) /\ task'[t].at = "failed"
        /\ torn' = (torn \/ Interrupted(t))
        /\ chunk' = chunk /\ count' = count /\ list' = list /\ last' = last
    BY <1>5, FailedView
  <2>2. ASSUME ~torn', list # None, \A u \in Tasks : ~Dirty(u)'
        PROVE  \A u \in Tasks : ~Dirty(u)
    BY <2>1, <2>2 DEF Dirty, OthersSame, Interrupted
  <2>3. ASSUME ~torn', list = None, \A u \in Tasks : task'[u].at # "list"
        PROVE  (\A u \in Tasks : task[u].at # "list") \/ count = None
    BY <2>1, <2>3 DEF OthersSame, Interrupted
  <2>. QED
    BY <1>0, <2>1, <2>2, <2>3 DEF StoreInv, Good
<1>6. ASSUME NEW t \in Tasks, Reading(t)
      PROVE  StoreInv'
  <2>1. ~Dirty(t) /\ task[t].at # "list"
    BY <1>6 DEF Reading, Dirty
  <2>. QED
    BY <1>6, <1>a, <2>1 DEF Reading, OthersSame, Dirty, Undisturbed
<1>7. CASE Reset
  BY <1>7 DEF Reset, StoreInv
<1>8. CASE Crash
  <2>1. /\ torn' = (torn \/ \E t \in Tasks : Interrupted(t))
        /\ chunk' = chunk /\ count' = count /\ list' = list /\ last' = last
    BY <1>8 DEF Crash
  <2>2. ASSUME ~torn', list # None
        PROVE  \A u \in Tasks : ~Dirty(u)
    BY <2>1, <2>2 DEF Dirty, Interrupted
  <2>3. ASSUME ~torn', list = None
        PROVE  (\A u \in Tasks : task[u].at # "list") \/ count = None
    BY <2>1, <2>3 DEF Interrupted
  <2>. QED
    BY <1>0, <2>1, <2>2, <2>3 DEF StoreInv, Good
<1>9. CASE UNCHANGED vars
  BY <1>9, <1>a DEF vars, Undisturbed, Dirty
<1>10. \A t \in Tasks :
         ReadCount(t) \/ ReadList(t) \/ ReadChunk(t) \/ LoadFails(t) => Reading(t)
  BY ReadCountView, ReadListView, ReadChunkView, LoadFailsView
<1>. QED
  BY <1>1, <1>2, <1>3, <1>4, <1>5, <1>6, <1>7, <1>8, <1>9, <1>10, Steps DEF Goes

(* CalmInv, of what it says when it says something. *)
Known == Settled /\ \A t \in Tasks : Busy(t) /\ task[t].whole => Progress(t)

(* When nobody is busy, StoreInv says it all. *)
LEMMA Quiet ==
  ASSUME Typed', StoreInv', Trusted', \A t \in Tasks : ~Busy(t)'
  PROVE  Known'
<1>1. \A t \in Tasks : ~Writing(t)' /\ ~Dirty(t)' /\ task'[t].at # "list"
  BY DEF Busy, Writing, Dirty
<1>2. ~torn'
  BY DEF Trusted
<1>. QED
  BY <1>1, <1>2 DEF Known, Settled, StoreInv

(* A task that ends its call, or goes on with it, disturbs nobody that was  *)
(* not calm already - unless it was the only one.                           *)
LEMMA GoesCalm ==
  ASSUME Typed, Typed', Inv, StoreInv', NEW t \in Tasks,
         OthersSame(t), SameCall(t), Busy(t), Calm', Trusted', ~Known'
  PROVE  Calm /\ ((torn => torn') => Trusted)
<1>0. AloneInv
  BY DEF Inv
<1>1. \A u \in Tasks : Busy(u)' => Busy(u)
  BY DEF OthersSame, Busy
<1>2. PICK w \in Tasks : Busy(w)'
  BY Quiet
<1>3. task[w].alone /\ task[w].op = "load" /\ Busy(w)
  BY <1>1, <1>2 DEF Calm, OthersSame, SameCall
<1>4. \A u \in Tasks : Busy(u) => task[u].alone /\ task[u].op = "load"
  BY <1>0, <1>3 DEF AloneInv
<1>5. \A u \in Tasks : task'[u].whole = task[u].whole
  BY DEF OthersSame, SameCall
<1>. QED
  BY <1>1, <1>4, <1>5 DEF Calm, Trusted

(* What a load of the file finds in Settled. *)
LEMMA WritesFile ==
  ASSUME Typed, Inv, Calm, Trusted, NEW t \in Tasks, Writing(t)
  PROVE  /\ Known /\ Current = File /\ task[t].ver = File
         /\ task[t].alone /\ task[t].op = "load"
<1>1. Known /\ OwnInv
  BY DEF Inv, CalmInv, Known
<1>2. task[t].alone /\ task[t].op = "load"
  BY PlaceFacts DEF Calm
<1>. QED
  BY <1>1, <1>2 DEF Known, Settled, OwnInv

(* Another task keeps what it knows while the certificate stays the same.   *)
LEMMA KeepsProgress ==
  ASSUME NEW u \in Tasks, Same(u), last' = last, Progress(u)
  PROVE  Progress(u)'
BY DEF Same, Progress, Current

(* A task that does not change is the same. *)
LEMMA SameItself ==
  ASSUME NEW u \in Tasks, task'[u] = task[u]
  PROVE  Same(u)
BY DEF Same

(* A load that begins changes nothing of what is stored. *)
LEMMA BegunCalm ==
  ASSUME Typed, Inv, NEW t \in Tasks, Begun(t), Calm', Trusted'
  PROVE  Known'
<1>1. /\ UNCHANGED <<store, torn, last>>
      /\ \/ task'[t].at = "chunk" /\ task'[t].op = "save"
         \/ task'[t].at = "count?" /\ task'[t].op = "load" /\ ~Busy(t)
      /\ task'[t].whole = ~torn
      /\ \A u \in Tasks \ {t} : Same(u) /\ (task'[u].alone => task[u].alone)
  BY DEF Begun
<1>2. task'[t].at = "count?" /\ ~Busy(t)
  BY <1>1 DEF Calm, Busy
<1>3. \A u \in Tasks \ {t} : (Busy(u)' <=> Busy(u)) /\ (Writing(u)' <=> Writing(u))
  BY <1>1 DEF Same, Busy, Writing
<1>4. Calm
  BY <1>1, <1>2, <1>3 DEF Calm, Same
<1>5. Trusted
  <2>1. SUFFICES ASSUME torn
                 PROVE  \E u \in Tasks : Busy(u) /\ task[u].whole
    BY DEF Trusted
  <2>2. PICK u \in Tasks : Busy(u)' /\ task'[u].whole
    BY <1>1, <2>1 DEF Trusted
  <2>3. u # t
    BY <1>1, <2>1, <2>2
  <2>. QED
    BY <1>1, <1>3, <2>2, <2>3 DEF Same
<1>6. Known
  BY <1>4, <1>5 DEF Inv, CalmInv, Known
<1>7. Settled'
  <2>1. Current' = Current /\ (Good(last)' <=> Good(last))
    BY <1>1 DEF Current, Good
  <2>2. ASSUME NEW u \in Tasks, (Busy(u)' /\ ~task'[u].whole) \/ Writing(u)'
        PROVE  Current' = File
    <3>1. CASE u = t
      <4>1. ~Writing(u)'
        BY <1>2, <3>1 DEF Writing
      <4>. QED
        BY <1>1, <1>6, <2>1, <2>2, <3>1, <4>1 DEF Known, Settled
    <3>2. CASE u # t
      BY <1>1, <1>3, <1>6, <2>1, <2>2, <3>2 DEF Known, Settled, Same
    <3>. QED
      BY <3>1, <3>2
  <2>. QED
    BY <1>1, <1>6, <2>1, <2>2 DEF Known, Settled
<1>8. ASSUME NEW u \in Tasks, Busy(u)', task'[u].whole
      PROVE  Progress(u)'
  <2>1. CASE u = t
    BY <1>2, <2>1 DEF Progress
  <2>2. CASE u # t
    BY <1>1, <1>3, <1>6, <1>8, <2>2, KeepsProgress DEF Known, Same
  <2>. QED
    BY <2>1, <2>2
<1>. QED
  BY <1>7, <1>8 DEF Known

(* Writes: of the file, and the file is what is stored, or nothing is.      *)
LEMMA WriteChunkCalm ==
  ASSUME Typed, Inv, NEW t \in Tasks, WriteChunk(t), Calm, Trusted
  PROVE  Known'
<1>1. /\ OthersSame(t) /\ SameCall(t)
      /\ task[t].at = "chunk" /\ task[t].ver \in Versions
      /\ task[t].next \in Nat
      /\ task'[t].at \in {"chunk", "count"}
      /\ chunk'[task[t].next] = task[t].ver
      /\ \A i \in Index : i # task[t].next => chunk'[i] = chunk[i]
      /\ count' = count /\ list' = list /\ torn' = torn /\ last' = last
  BY ChunkedView
<1>2. Writing(t)
  BY <1>1 DEF Writing
<1>3. Known /\ Current = File /\ task[t].ver = File
  BY <1>2, WritesFile
<1>4. Current' = File
  BY <1>1, <1>3 DEF Current
<1>5. ASSUME last # None
      PROVE  Good(last)'
  <2>1. last = File /\ Good(last) /\ last \in Versions
    BY <1>1, <1>3, <1>5 DEF Known, Settled, Current
  <2>. QED
    BY <1>1, <1>3, <2>1, Ranges DEF Good
<1>6. Settled'
  BY <1>1, <1>3, <1>4, <1>5 DEF Known, Settled
<1>7. ASSUME NEW u \in Tasks, Busy(u)', task'[u].whole
      PROVE  Progress(u)'
  <2>1. CASE u = t
    BY <1>1, <2>1 DEF Progress
  <2>2. CASE u # t
    BY <1>1, <1>3, <1>7, <2>2, KeepsProgress, SameItself DEF Known, OthersSame, Busy
  <2>. QED
    BY <2>1, <2>2
<1>. QED
  BY <1>6, <1>7 DEF Known

(* ... the count of the file, *)
LEMMA WriteCountCalm ==
  ASSUME Typed, Inv, NEW t \in Tasks, WriteCount(t), Calm, Trusted
  PROVE  Known'
<1>1. /\ OthersSame(t) /\ SameCall(t)
      /\ task[t].at = "count" /\ task[t].ver \in Versions
      /\ task'[t].at = "list"
      /\ count' = Chunks[task[t].ver]
      /\ chunk' = chunk /\ list' = list /\ torn' = torn /\ last' = last
  BY CountedView
<1>2. Writing(t)
  BY <1>1 DEF Writing
<1>3. Known /\ Current = File /\ task[t].ver = File
  BY <1>2, WritesFile
<1>4. Current' = File /\ File # None
  BY <1>1, <1>3 DEF Current
<1>5. ASSUME last # None
      PROVE  Good(last)'
  BY <1>1, <1>3, <1>5 DEF Known, Settled, Current, Good
<1>6. Settled'
  BY <1>1, <1>3, <1>4, <1>5 DEF Known, Settled
<1>7. ASSUME NEW u \in Tasks, Busy(u)', task'[u].whole
      PROVE  Progress(u)'
  <2>1. CASE u = t
    BY <1>1, <2>1 DEF Progress
  <2>2. CASE u # t
    BY <1>1, <1>3, <1>7, <2>2, KeepsProgress, SameItself DEF Known, OthersSame, Busy
  <2>. QED
    BY <2>1, <2>2
<1>. QED
  BY <1>6, <1>7 DEF Known

(* The last write leaves the store whole, whatever it was before; a task    *)
(* that is in the middle of reading it knew that it was to become the file. *)
LEMMA WriteListCalm ==
  ASSUME Typed, Typed', Inv, StoreInv', NEW t \in Tasks, WriteList(t),
         Calm', Trusted'
  PROVE  Known'
<1>0. SUFFICES ASSUME ~Known' PROVE FALSE
  OBVIOUS
<1>1. /\ OthersSame(t) /\ SameCall(t)
      /\ task[t].at = "list" /\ task[t].ver \in Versions
      /\ task'[t].at = "loaded"
      /\ list' = Chunks[task[t].ver] /\ last' = task[t].ver
      /\ torn' = ~task[t].alone
      /\ chunk' = chunk /\ count' = count
  BY ListedView
<1>2. Writing(t) /\ Busy(t)
  BY <1>1 DEF Writing, Busy
<1>3. Calm
  BY <1>0, <1>1, <1>2, GoesCalm
<1>4. task[t].alone /\ task[t].op = "load"
  BY <1>2, <1>3 DEF Calm
<1>5. task[t].ver = File /\ File # None
  BY <1>1, <1>2, <1>4 DEF Inv, OwnInv
<1>6. Good(File)' /\ last' = File
  BY <1>1, <1>2, <1>4, <1>5 DEF Inv, OwnInv, Good
<1>7. Current' = File /\ ~torn'
  BY <1>1, <1>4, <1>5, <1>6 DEF Current
<1>8. Settled'
  BY <1>5, <1>6, <1>7 DEF Settled
<1>9. ASSUME NEW u \in Tasks, Busy(u)', task'[u].whole
      PROVE  Progress(u)'
  <2>1. u # t /\ task'[u] = task[u] /\ Busy(u) /\ task[u].whole
    BY <1>1, <1>9 DEF OthersSame, Busy
  <2>2. Trusted
    BY <2>1 DEF Trusted
  <2>3. Progress(u) /\ Current = File
    BY <1>2, <1>3, <2>1, <2>2, WritesFile DEF Known
  <2>. QED
    BY <1>5, <1>6, <1>7, <2>1, <2>3 DEF Progress, Current
<1>. QED
  BY <1>0, <1>8, <1>9 DEF Known

(* ... or nothing more: what is stored is the file, or not readable. *)
LEMMA WriteFailsCalm ==
  ASSUME Typed, Inv, NEW t \in Tasks, WriteFails(t), Calm, Trusted
  PROVE  Known'
<1>1. /\ OthersSame(t) /\ SameCall(t)
      /\ Writing(t) /\ task'[t].at = "failed"
      /\ chunk' = chunk /\ count' = count /\ list' = list /\ last' = last
  BY FailedView
<1>3. Known /\ Current = File
  BY <1>1, WritesFile
<1>4. Current' = File
  BY <1>1, <1>3 DEF Current
<1>6. Settled'
  BY <1>1, <1>3, <1>4 DEF Known, Settled, Good
<1>7. ASSUME NEW u \in Tasks, Busy(u)', task'[u].whole
      PROVE  Progress(u)'
  <2>1. CASE u = t
    BY <1>1, <2>1 DEF Progress
  <2>2. CASE u # t
    BY <1>1, <1>3, <1>7, <2>2, KeepsProgress, SameItself DEF Known, OthersSame, Busy
  <2>. QED
    BY <2>1, <2>2
<1>. QED
  BY <1>6, <1>7 DEF Known

(* Reads: the store stays; whoever falls back may write the file, and knows *)
(* what it has read.                                                        *)
LEMMA ReadingCalm ==
  ASSUME Typed, NEW t \in Tasks, Reading(t), Known,
         task'[t].at = "chunk" => Current = File,
         task[t].whole => Progress(t)'
  PROVE  Known'
<1>1. /\ chunk' = chunk /\ count' = count /\ list' = list
      /\ torn' = torn /\ last' = last
      /\ OthersSame(t) /\ SameCall(t)
      /\ task[t].at \in {"count?", "list?", "chunk?"}
      /\ task'[t].at \in {"list?", "chunk?", "loaded", "failed", "chunk"}
  BY DEF Reading
<1>2. Current' = Current /\ (Good(last)' <=> Good(last))
  BY <1>1 DEF Current, Good
<1>3. ASSUME NEW u \in Tasks, (Busy(u)' /\ ~task'[u].whole) \/ Writing(u)'
      PROVE  Current' = File
  <2>1. CASE u = t
    <3>1. Busy(t)
      BY <1>1 DEF Busy
    <3>2. ~task[t].whole \/ task'[t].at = "chunk"
      BY <1>1, <1>3, <2>1 DEF Writing, SameCall
    <3>. QED
      BY <1>2, <3>1, <3>2 DEF Known, Settled
  <2>2. CASE u # t
    BY <1>1, <1>2, <1>3, <2>2 DEF Known, Settled, OthersSame, Busy, Writing
  <2>. QED
    BY <2>1, <2>2
<1>4. Settled'
  BY <1>1, <1>2, <1>3 DEF Known, Settled
<1>5. ASSUME NEW u \in Tasks, Busy(u)', task'[u].whole
      PROVE  Progress(u)'
  <2>1. CASE u = t
    BY <1>1, <1>5, <2>1 DEF SameCall
  <2>2. CASE u # t
    BY <1>1, <1>5, <2>2, KeepsProgress, SameItself DEF Known, OthersSame, Busy
  <2>. QED
    BY <2>1, <2>2
<1>. QED
  BY <1>4, <1>5 DEF Known

(* A load that gives up. *)
LEMMA LoadFailsCalm ==
  ASSUME Typed, NEW t \in Tasks, LoadFails(t), Known
  PROVE  Known'
<1>1. Reading(t) /\ task'[t].at = "failed"
  BY LoadFailsView
<1>2. Progress(t)'
  BY <1>1 DEF Progress
<1>. QED
  BY <1>1, <1>2, ReadingCalm

(* Whoever is not sure to have seen the store whole can only write the file. *)
LEMMA NotWhole ==
  ASSUME NEW t \in Tasks, Known, Busy(t), ~task[t].whole
  PROVE  Current = File
BY DEF Known, Settled

(* The count that a load finds is that of the current certificate. *)
LEMMA ReadCountCalm ==
  ASSUME Typed, Inv, NEW t \in Tasks, ReadCount(t), Known
  PROVE  Known'
<1>1. /\ Reading(t) /\ task[t].at = "count?"
      /\ \/ count = None /\ FellBack(t)
         \/ count # None /\ task'[t].at = "list?" /\ task'[t].size = count
  BY ReadCountView
<1>2. Busy(t) /\ last' = last
  BY <1>1 DEF Busy, Reading
<1>3. last # None => last \in Versions /\ Good(last)
  BY DEF Known, Settled, Typed
<1>4. CASE count = None /\ FellBack(t)
  <2>1. last = None
    BY <1>3, <1>4, Ranges DEF Good
  <2>2. Current = File
    BY <2>1 DEF Current
  <2>3. Progress(t)'
    BY <1>4 DEF FellBack, Progress
  <2>. QED
    BY <1>1, <2>2, <2>3, ReadingCalm
<1>5. CASE count # None /\ task'[t].at = "list?" /\ task'[t].size = count
  <2>1. Current # None /\ count = Chunks[Current]
    BY <1>3, <1>5 DEF Known, Settled, Current, Good
  <2>2. Progress(t)'
    BY <1>2, <1>5, <2>1 DEF Progress, Current
  <2>. QED
    BY <1>1, <1>5, <2>2, ReadingCalm
<1>. QED
  BY <1>1, <1>4, <1>5

(* So is the list. *)
LEMMA ReadListCalm ==
  ASSUME Typed, Inv, NEW t \in Tasks, ReadList(t), Known
  PROVE  Known'
<1>1. /\ Reading(t) /\ task[t].at = "list?"
      /\ \/ (list = None \/ list > task[t].size) /\ FellBack(t)
         \/ /\ list # None
            /\ task'[t].at = "chunk?" /\ task'[t].known = list
            /\ task'[t].size = task[t].size /\ task'[t].next = 0
  BY ReadListView
<1>2. Busy(t) /\ last' = last
  BY <1>1 DEF Busy, Reading
<1>3. /\ last # None => last \in Versions /\ Good(last)
      /\ list = None <=> last = None
  BY DEF Known, Settled, Typed, Inv, StoreInv
<1>a. task[t].whole =>
        Current # None /\ task[t].size = Chunks[Current]
  BY <1>1, <1>2 DEF Known, Progress
<1>4. CASE (list = None \/ list > task[t].size) /\ FellBack(t)
  <2>1. ASSUME list = None
        PROVE  Current = File
    BY <1>3, <2>1 DEF Current
  <2>2. ASSUME list # None
        PROVE  Current = File
    <3>1. last # None /\ list = Chunks[last] /\ Chunks[last] \in Nat
      BY <1>3, <2>2, Ranges DEF Good
    <3>2. ~task[t].whole
      BY <1>4, <1>a, <2>2, <3>1 DEF Current
    <3>. QED
      BY <1>2, <3>2, NotWhole
  <2>3. Current = File
    BY <2>1, <2>2
  <2>4. Progress(t)'
    BY <1>4 DEF FellBack, Progress
  <2>. QED
    BY <1>1, <2>3, <2>4, ReadingCalm
<1>5. CASE /\ list # None
           /\ task'[t].at = "chunk?" /\ task'[t].known = list
           /\ task'[t].size = task[t].size /\ task'[t].next = 0
  <2>1. last # None /\ list = Chunks[last]
    BY <1>3, <1>5 DEF Good
  <2>2. task[t].whole => Progress(t)'
    BY <1>2, <1>5, <1>a, <2>1 DEF Progress, Current
  <2>. QED
    BY <1>1, <1>5, <2>2, ReadingCalm
<1>. QED
  BY <1>1, <1>4, <1>5

(* A load that has seen the store whole reads the next chunk of the last    *)
(* version, or another task is writing the file over itself.                *)
LEMMA NextChunk ==
  ASSUME Typed, Inv, NEW t \in Tasks, Known, task[t].whole, task[t].at = "chunk?"
  PROVE  /\ last \in Versions
         /\ task[t].size = Chunks[last] /\ task[t].next < task[t].known
         /\ chunk[task[t].next] = last
         /\ \A j \in 1 .. task[t].next : task[t].got[j] = last
<1>1. Busy(t)
  BY DEF Busy
<1>2. /\ last # None /\ task[t].size = Chunks[last] /\ task[t].known = Chunks[last]
      /\ \A j \in 1 .. task[t].next : task[t].got[j] = last
  BY <1>1 DEF Known, Progress
<1>3. last \in Versions /\ Good(last)
  BY <1>2 DEF Typed, Known, Settled
<1>4. task[t].next \in Nat /\ task[t].next < task[t].size
  BY DEF Typed, PlaceOK, Locals
<1>5. task[t].next \in 0 .. Chunks[last] - 1
  BY <1>2, <1>3, <1>4, Ranges
<1>. QED
  BY <1>2, <1>3, <1>4, <1>5 DEF Good

(* So is the next chunk. *)
LEMMA ReadChunkCalm ==
  ASSUME Typed, Inv, NEW t \in Tasks, ReadChunk(t), Known
  PROVE  Known'
<1>1. /\ Reading(t) /\ task[t].at = "chunk?" /\ task[t].next \in Nat
      /\ task[t].got \in Seq(Versions) /\ Len(task[t].got) = task[t].next
      /\ \/ /\ FellBack(t)
            /\ task[t].next < task[t].known =>
                 chunk[task[t].next] = None \/ MayGrow(t)
         \/ \E v \in Versions :
              /\ task[t].next < task[t].known => v = chunk[task[t].next]
              /\ task'[t].got = Append(task[t].got, v)
              /\ \/ /\ task'[t].at = "chunk?"
                    /\ task'[t].next = task[t].next + 1
                    /\ task'[t].size = task[t].size
                    /\ task'[t].known = task[t].known
                 \/ task'[t].at = "loaded"
  BY ReadChunkView
<1>2. Busy(t) /\ last' = last
  BY <1>1 DEF Busy, Reading
<1>3. CASE /\ FellBack(t)
           /\ task[t].next < task[t].known =>
                chunk[task[t].next] = None \/ MayGrow(t)
  <2>1. ASSUME task[t].whole
        PROVE  Current = File
    <3>1. MayGrow(t)
      BY <1>1, <1>3, <2>1, NextChunk
    <3>. QED
      BY <3>1 DEF MayGrow, OthersOf, Known, Settled
  <2>2. ASSUME ~task[t].whole
        PROVE  Current = File
    BY <1>2, <2>2, NotWhole
  <2>3. Progress(t)'
    BY <1>3 DEF FellBack, Progress
  <2>. QED
    BY <1>1, <2>1, <2>2, <2>3, ReadingCalm
<1>4. ASSUME NEW v \in Versions,
             task[t].next < task[t].known => v = chunk[task[t].next],
             task'[t].got = Append(task[t].got, v),
             \/ /\ task'[t].at = "chunk?"
                /\ task'[t].next = task[t].next + 1
                /\ task'[t].size = task[t].size
                /\ task'[t].known = task[t].known
             \/ task'[t].at = "loaded"
      PROVE  Known'
  <2>1. task'[t].at # "chunk"
    BY <1>4
  <2>2. ASSUME task[t].whole
        PROVE  Progress(t)'
    <3>1. CASE task'[t].at = "loaded"
      BY <3>1 DEF Progress
    <3>2. CASE task'[t].at = "chunk?"
      <4>1. /\ last # None /\ v = last
            /\ task[t].size = Chunks[last] /\ task[t].known = Chunks[last]
            /\ \A j \in 1 .. task[t].next : task[t].got[j] = last
        BY <1>1, <1>2, <1>4, <2>2, NextChunk DEF Known, Progress
      <4>2. \A j \in 1 .. task[t].next + 1 : task'[t].got[j] = last
        <5> DEFINE s == task[t].got
                   n == task[t].next
        <5>1. s \in Seq(Versions) /\ Len(s) = n /\ last \in Versions
          BY <1>1, <1>4, <4>1
        <5>2. task'[t].got = Append(s, last) /\ \A j \in 1 .. n : s[j] = last
          BY <1>4, <4>1
        <5>. HIDE DEF s, n
        <5>3. \A j \in 1 .. n + 1 : Append(s, last)[j] = last
          BY <5>1, <5>2
        <5>. QED
          BY <5>2, <5>3 DEF n
      <4>3. /\ task'[t].next = task[t].next + 1
            /\ task'[t].size = task[t].size /\ task'[t].known = task[t].known
        BY <1>4, <3>2
      <4>. QED
        BY <1>2, <3>2, <4>1, <4>2, <4>3 DEF Progress
    <3>. QED
      BY <1>4, <3>1, <3>2
  <2>. QED
    BY <1>1, <2>1, <2>2, ReadingCalm
<1>. QED
  BY <1>1, <1>3, <1>4

(* Every step keeps CalmInv. *)
LEMMA CalmStep ==
  ASSUME Typed, Typed', Inv, StoreInv', [Next]_vars
  PROVE  CalmInv'
<1> SUFFICES ASSUME Calm', Trusted', ~Known'
             PROVE  FALSE
  BY DEF CalmInv, Known
<1>1. ASSUME NEW t \in Tasks, Begun(t)
      PROVE  FALSE
  BY <1>1, BegunCalm
<1>2. ASSUME NEW t \in Tasks, Goes(t)
      PROVE  FALSE
  <2>1. OthersSame(t) /\ SameCall(t) /\ Busy(t)
    BY <1>2, GoesView
  <2>2. ~WriteList(t)
    BY WriteListCalm
  <2>3. torn => torn'
    BY <1>2, <2>2, ChunkedView, CountedView, FailedView, ReadCountView,
       ReadListView, ReadChunkView, LoadFailsView DEF Goes, Reading
  <2>4. Calm /\ Trusted
    BY <2>1, <2>3, GoesCalm
  <2>5. Known
    BY <2>4 DEF Inv, CalmInv, Known
  <2>. QED
    BY <1>2, <2>2, <2>4, <2>5, WriteChunkCalm, WriteCountCalm, WriteFailsCalm,
       ReadCountCalm, ReadListCalm, ReadChunkCalm, LoadFailsCalm DEF Goes
<1>3. CASE Reset
  <2>1. \A t \in Tasks : ~Busy(t)'
    BY <1>3, ResetFacts DEF Calm, Same, Busy
  <2>. QED
    BY <2>1, Quiet
<1>4. CASE Crash
  <2>1. \A t \in Tasks : ~Busy(t)'
    BY <1>4, IdleFacts DEF Crash, Busy
  <2>. QED
    BY <2>1, Quiet
<1>5. CASE UNCHANGED vars
  <2>1. /\ chunk' = chunk /\ count' = count /\ list' = list
        /\ task' = task /\ torn' = torn /\ last' = last
    BY <1>5 DEF vars
  <2>2. Calm /\ Trusted
    BY <2>1 DEF Calm, Trusted, Busy
  <2>3. Known
    BY <2>2 DEF Inv, CalmInv, Known
  <2>4. Settled'
    BY <2>1, <2>3 DEF Known, Settled, Good, Current, Busy, Writing
  <2>5. \A t \in Tasks : Busy(t)' /\ task'[t].whole => Progress(t)'
    BY <2>1, <2>3, KeepsProgress, SameItself DEF Known, Busy
  <2>. QED
    BY <2>4, <2>5 DEF Known
<1>. QED
  BY <1>1, <1>2, <1>3, <1>4, <1>5, Steps

------------------------------------------------------------------------------
(* The theorems.                                                            *)

(* torn is a Boolean. *)
LEMMA TornStep ==
  ASSUME torn \in BOOLEAN, [Next]_vars
  PROVE  torn' \in BOOLEAN
<1>1. \A p : (torn' = ~p) => torn' \in BOOLEAN
  BY Zenon
<1>2. \A p : (torn' = (torn \/ p)) => torn' \in BOOLEAN
  BY Zenon
<1>3. CASE \E t \in Tasks : WriteList(t)
  BY <1>1, <1>3, Zenon DEF WriteList
<1>4. CASE \E t \in Tasks : WriteFails(t)
  BY <1>2, <1>4, Zenon DEF WriteFails
<1>5. CASE Crash
  BY <1>2, <1>5, Zenon DEF Crash
<1>6. CASE Reset
  BY <1>6 DEF Reset
<1>7. CASE \E t \in Tasks : Load(t) \/ WriteChunk(t) \/ WriteCount(t)
                            \/ ReadCount(t) \/ ReadList(t) \/ ReadChunk(t)
                            \/ ReadFails(t) \/ LoadFails(t)
  BY <1>7 DEF Load, WriteChunk, WriteCount, ReadCount, ReadList, ReadChunk,
              ReadFails, LoadFails
<1>8. CASE \E v \in Versions : Save(v)
  BY <1>8 DEF Save
<1>9. CASE UNCHANGED vars
  BY <1>9 DEF vars
<1>. QED
  BY <1>3, <1>4, <1>5, <1>6, <1>7, <1>8, <1>9 DEF Next, Step

(* The invariant holds at the start. *)
LEMMA InitFacts == Init => Typed /\ Inv /\ torn \in BOOLEAN
<1> SUFFICES ASSUME Init PROVE Typed /\ Inv /\ torn \in BOOLEAN
  OBVIOUS
<1>1. /\ \A i \in Index : chunk[i] = None
      /\ chunk \in [Index -> Versions \cup {None}]
      /\ count = None /\ list = None /\ torn = FALSE /\ last = None
      /\ task \in [Tasks -> Locals] /\ \A t \in Tasks : task[t] = Idle
  BY IdleFacts DEF Init
<1>2. Typed
  BY <1>1, IdleFacts DEF Typed
<1>3. \A t \in Tasks : ~Busy(t) /\ ~Writing(t) /\ task[t].at = "idle"
  BY <1>1, IdleFacts DEF Busy, Writing
<1>4. AloneInv /\ OwnInv /\ StoreInv
  BY <1>1, <1>3 DEF AloneInv, OwnInv, StoreInv
<1>5. CalmInv
  BY <1>1, <1>3 DEF CalmInv, Settled
<1>. QED
  BY <1>1, <1>2, <1>4, <1>5 DEF Inv

(* Every variable has its type, in every state. *)
THEOREM TypeCorrect == Spec => []TypeOK
<1> DEFINE T == Typed /\ torn \in BOOLEAN
<1>1. Init => T
  BY InitFacts
<1>2. T /\ [Next]_vars => T'
  BY TypeStep, TornStep
<1>3. T => TypeOK
  BY DEF Typed, PlaceOK, TypeOK
<1>. QED
  BY <1>1, <1>2, <1>3, PTL DEF Spec

(* It is inductive. *)
LEMMA InvStep == Typed /\ Inv /\ [Next]_vars => Typed' /\ Inv'
<1> SUFFICES ASSUME Typed, Inv, [Next]_vars PROVE Typed' /\ Inv'
  OBVIOUS
<1>1. Typed'
  BY TypeStep
<1>2. AloneInv' /\ OwnInv' /\ StoreInv'
  BY AloneStep, OwnStep, StoreStep
<1>3. CalmInv'
  BY <1>1, <1>2, CalmStep
<1>. QED
  BY <1>1, <1>2, <1>3 DEF Inv

(* It holds in every state. *)
LEMMA Invariant == Spec => [](Typed /\ Inv)
<1>1. Init => Typed /\ Inv
  BY InitFacts
<1>. QED
  BY <1>1, InvStep, PTL DEF Spec

(* Whenever nobody writes the certificate, what is stored of it is the      *)
(* version that was written last and nothing of another one, or nothing is  *)
(* readable - nvs_write_string_large writes key by key.                     *)
THEOREM StoreWhole == Spec => []StoreIsWhole
<1>1. Typed /\ Inv => StoreIsWhole
  <2> SUFFICES ASSUME Typed, Inv, ~torn, list # None, \A t \in Tasks : ~Writing(t)
               PROVE  /\ last # None
                      /\ list = Chunks[last] /\ count = Chunks[last]
                      /\ \A i \in 0 .. Chunks[last] - 1 : chunk[i] = last
    BY DEF StoreIsWhole
  <2>1. \A t \in Tasks : ~Dirty(t)
    BY PlaceFacts
  <2>. QED
    BY <2>1 DEF Inv, StoreInv, Good
<1>. QED
  BY <1>1, Invariant, PTL

(* What a load returns. *)
LEMMA Returns ==
  ASSUME Typed, Inv, NEW t \in Tasks, WriteList(t) \/ ReadChunk(t),
         task'[t].at = "loaded", task[t].whole, Calm
  PROVE  task'[t].got = Whole(Current)
<1>1. Busy(t)
  BY GoesView DEF Goes
<1>2. Trusted /\ Known
  BY <1>1 DEF Trusted, Inv, CalmInv, Known
<1>3. CASE WriteList(t)
  <2>1. /\ task[t].at = "list" /\ task'[t].got = Whole(task[t].ver)
    BY <1>3, ListedView
  <2>2. Current = File /\ task[t].ver = File
    BY <1>2, <2>1, WritesFile DEF Writing
  <2>. QED
    BY <2>1, <2>2
<1>4. CASE ReadChunk(t)
  <2>1. /\ task[t].at = "chunk?"
        /\ task[t].next \in Nat /\ task[t].next < task[t].size
        /\ task[t].got \in Seq(Versions) /\ Len(task[t].got) = task[t].next
    BY <1>4, ReadChunkView
  <2>2. PICK v \in Versions :
          /\ task[t].next < task[t].known => v = chunk[task[t].next]
          /\ task'[t].got = Append(task[t].got, v)
          /\ task[t].next + 1 = task[t].size
    BY <1>4, ReadChunkView DEF FellBack
  <2>3. /\ last \in Versions /\ v = last /\ task[t].size = Chunks[last]
        /\ \A j \in 1 .. task[t].next : task[t].got[j] = last
    BY <1>2, <2>1, <2>2, NextChunk
  <2> DEFINE g == Append(task[t].got, last)
             w == Whole(last)
  <2>4. g \in Seq(Versions) /\ Len(g) = Chunks[last]
    BY <2>1, <2>2, <2>3
  <2>5. \A j \in 1 .. Chunks[last] : g[j] = last
    BY <2>1, <2>2, <2>3
  <2>6. w \in Seq(Versions) /\ Len(w) = Chunks[last]
        /\ \A j \in 1 .. Chunks[last] : w[j] = last
    BY <2>3 DEF Whole
  <2>7. g = w
    <3>. HIDE DEF g, w
    <3>1. Len(g) = Len(w) /\ \A j \in 1 .. Len(g) : g[j] = w[j]
      BY <2>4, <2>5, <2>6
    <3>. QED
      BY <2>4, <2>6, <3>1, SeqEqual
  <2>8. Current = last
    BY <2>3 DEF Current
  <2>. QED
    BY <2>2, <2>3, <2>7, <2>8
<1>. QED
  BY <1>3, <1>4

(* What load_ca_certificate returns is the certificate that was written     *)
(* last, as a whole, or the file when nothing was - for a load none of      *)
(* whose reads fails by itself, that overlaps no save and no load that      *)
(* writes because one of its reads has failed, and that begins on a store   *)
(* that none has torn.                                                      *)
THEOREM LoadsLast == Spec => LoadedIsLast
<1> DEFINE Right ==
      \A t \in Tasks :
        LET me == task'[t]
        IN  me.at = "loaded" /\ Busy(t) /\ me.op = "load" /\ me.alone /\ me.whole
              => me.got = Whole(IF last = None THEN File ELSE last)
<1>1. Typed /\ Inv /\ [Next]_vars => [Right]_vars
  <2> SUFFICES ASSUME Typed, Inv, Next,
                      NEW t \in Tasks, task'[t].at = "loaded", Busy(t),
                      task'[t].op = "load", task'[t].alone, task'[t].whole
               PROVE  task'[t].got = Whole(Current)
    BY Zenon DEF Current
  <2>1. task'[t].at # task[t].at
    BY DEF Busy
  <2>2. Goes(t)
    <3>1. ~Crash /\ ~Reset
      BY <2>1, IdleFacts, ResetFacts DEF Crash, Same
    <3>2. \A u \in Tasks : ~Begun(u)
      BY <2>1 DEF Begun, Same
    <3>3. \A u \in Tasks : Goes(u) => u = t
      BY <2>1, GoesView DEF OthersSame
    <3>4. ~UNCHANGED vars
      BY <2>1 DEF vars
    <3>. QED
      BY <3>1, <3>2, <3>3, <3>4, Steps
  <2>3. SameCall(t)
    BY <2>2, GoesView
  <2>4. WriteList(t) \/ ReadChunk(t)
    BY <2>2, ChunkedView, CountedView, FailedView, ReadCountView, ReadListView,
       LoadFailsView DEF Goes, FellBack
  <2>5. Calm
    BY <2>3 DEF SameCall, Calm, Inv, AloneInv
  <2>. QED
    BY <2>3, <2>4, <2>5, Returns DEF SameCall
<1>. QED
  BY <1>1, Invariant, PTL DEF Spec, LoadedIsLast

==============================================================================
