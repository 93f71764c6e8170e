----------------------------- MODULE Certificates -----------------------------
(***************************************************************************)
(* A CA certificate, kept in NVS as a large string                         *)
(* (src/components/ESP32_NVS_LARGE, ca_cert_manager, ESP32_NVS, and the    *)
(* handlers of src/main/web.c that save and show it).                      *)
(*                                                                         *)
(* nvs_write_string_large cuts the string into chunks, each under a key of *)
(* its own, and writes under two more keys how many there are and which:   *)
(* str_meta and chunk_meta.  Each key is written atomically, the string is *)
(* not.  load_ca_certificate falls back to the file in the storage         *)
(* partition when the string cannot be read, and writes it to NVS: whoever *)
(* loads may write.  The web server saves and loads; an update loads, and  *)
(* so do the tasks that connect to the broker.                             *)
(*                                                                         *)
(* Abstracted: a certificate is a version with a number of chunks, a chunk *)
(* is the version it belongs to.  The file does not change.  How the       *)
(* certificate is cut out of the form is left out.                         *)
(***************************************************************************)
EXTENDS Integers, Sequences

CONSTANTS
  Tasks,     \* tasks that load certificates
  Web,       \* the one of the web server
  Versions,  \* certificates
  MaxChunks, \* CA_CERT_LENGTH in chunks: the form takes no longer certificate
  Chunks,    \* Chunks[v]: how many chunks version v has
  File,      \* the version in the storage partition, or None
  None       \* no such key, no such file

ASSUME WebAssumption == Web \in Tasks
ASSUME ChunksAssumption ==
  MaxChunks \in Nat /\ Chunks \in [Versions -> 1 .. MaxChunks]
ASSUME FileAssumption == File \in Versions \cup {None}
ASSUME NoneAssumption == None \notin Versions /\ None \notin Nat

VARIABLES
  chunk,  \* chunk[i]: the version of which the chunk under key i is, or None
  count,  \* chunk_count in str_meta, or None
  list,   \* the number of entries in chunk_meta, or None
  task,   \* the tasks and their locals
  torn,   \* what may have mixed versions since the last sound write (history)
  last    \* the version that was written last as a whole (history)

store == <<chunk, count, list>>
vars == <<chunk, count, list, task, torn, last>>

Index == 0 .. MaxChunks - 1

Whole(v) == [i \in 1 .. Chunks[v] |-> v]

(* op: "save" or "load"; ver: the version being written; next: the next    *)
(* chunk; size: chunk_count as it was read; known: the entries of          *)
(* chunk_meta that were read; got: the chunks that were read.  A load one  *)
(* of whose reads has failed is a save of the file from then on.           *)
(* History only: alone, it overlapped no save; whole, it started on a      *)
(* store that was not torn.                                                *)
Idle == [at |-> "idle", op |-> "load", ver |-> None, next |-> 0, size |-> 0,
         known |-> 0, got |-> <<>>, alone |-> TRUE, whole |-> TRUE]

Writing(t) == task[t].at \in {"chunk", "count", "list"}
Busy(t) == task[t].at \notin {"idle", "loaded", "failed"}
OthersOf(t) == Tasks \ {t}

------------------------------------------------------------------------------
Init ==
  /\ chunk = [i \in Index |-> None] /\ count = None /\ list = None
  /\ task = [t \in Tasks |-> Idle]
  /\ torn = FALSE /\ last = None

(* History only: saves, and loads that overlapped one, share the store     *)
(* with nobody, or nothing is said of what the others read and leave.      *)
Clash(a, b) == "save" \in {a.op, b.op} \/ ~b.alone

Begin(t, new) ==
  LET clashing == {u \in OthersOf(t) : Busy(u) /\ Clash(new, task[u])}
  IN  task' = [u \in Tasks |->
        IF u = t THEN [new EXCEPT !.alone = clashing = {}, !.whole = ~torn]
        ELSE IF u \in clashing THEN [task[u] EXCEPT !.alone = FALSE]
        ELSE task[u]]

(* ca_cert_post_handler calls save_ca_certificate. *)
Save(v) ==
  /\ ~Busy(Web)
  /\ Begin(Web, [Idle EXCEPT !.at = "chunk", !.op = "save", !.ver = v])
  /\ UNCHANGED <<store, torn, last>>

Load(t) ==
  /\ ~Busy(t)
  /\ Begin(t, [Idle EXCEPT !.at = "count?"])
  /\ UNCHANGED <<store, torn, last>>

------------------------------------------------------------------------------
(* nvs_write_string_large                                                  *)

(* History only: a write that ends early leaves a mixture if it began over *)
(* another version, or has written the count.                              *)
Interrupted(t) ==
  \/ task[t].at = "chunk" /\ task[t].next > 0 /\ list # None
  \/ task[t].at \in {"count", "list"} /\ (list # None \/ count # None)

(* Mutated: one chunk too many. *)
WriteChunkMore(t) ==
  /\ task[t].at = "chunk"
  /\ chunk' = [chunk EXCEPT ![task[t].next] = task[t].ver]
  /\ LET n == task[t].next + 1
     IN  task' = [task EXCEPT ![t] =
                    [@ EXCEPT !.next = n,
                       !.at = IF n <= Chunks[task[t].ver] THEN "chunk" ELSE "count"]]
  /\ UNCHANGED <<count, list, torn, last>>

(* Mutated: a key that exists is left alone. *)
WriteChunkOnce(t) ==
  /\ task[t].at = "chunk"
  /\ chunk' = [chunk EXCEPT ![task[t].next] = IF @ = None THEN task[t].ver ELSE @]
  /\ LET n == task[t].next + 1
     IN  task' = [task EXCEPT ![t] =
                    [@ EXCEPT !.next = n,
                       !.at = IF n < Chunks[task[t].ver] THEN "chunk" ELSE "count"]]
  /\ UNCHANGED <<count, list, torn, last>>

WriteChunk(t) ==
  /\ task[t].at = "chunk"
  /\ chunk' = [chunk EXCEPT ![task[t].next] = task[t].ver]
  /\ LET n == task[t].next + 1
     IN  task' = [task EXCEPT ![t] =
                    [@ EXCEPT !.next = n,
                       !.at = IF n < Chunks[task[t].ver] THEN "chunk" ELSE "count"]]
  /\ UNCHANGED <<count, list, torn, last>>

(* Mutated: str_meta counts whole chunks only. *)
WriteCountFloor(t) ==
  /\ task[t].at = "count"
  /\ count' = IF Chunks[task[t].ver] > 1 THEN Chunks[task[t].ver] - 1 ELSE 1
  /\ task' = [task EXCEPT ![t] = [@ EXCEPT !.at = "list"]]
  /\ UNCHANGED <<chunk, list, torn, last>>

WriteCount(t) ==
  /\ task[t].at = "count"
  /\ count' = Chunks[task[t].ver]
  /\ task' = [task EXCEPT ![t] = [@ EXCEPT !.at = "list"]]
  /\ UNCHANGED <<chunk, list, torn, last>>

Returned(t, at, got) ==
  [at |-> at, op |-> task[t].op, ver |-> None, next |-> 0, size |-> 0, known |-> 0,
   got |-> got, alone |-> task[t].alone, whole |-> task[t].whole]

(* A load that fell back returns what it wrote. *)
WriteList(t) ==
  /\ task[t].at = "list"
  /\ list' = Chunks[task[t].ver]
  /\ task' = [task EXCEPT ![t] = Returned(t, "loaded", Whole(task[t].ver))]
  /\ last' = task[t].ver
  /\ torn' = ~task[t].alone
  /\ UNCHANGED <<chunk, count>>

(* NVS is full, or the flash fails. *)
WriteFails(t) ==
  /\ Writing(t)
  /\ task' = [task EXCEPT ![t] = Returned(t, "failed", <<>>)]
  /\ torn' = (torn \/ Interrupted(t))
  /\ UNCHANGED <<store, last>>

------------------------------------------------------------------------------
(* nvs_read_string_large, and load_ca_certificate around it                *)

(* Of the file, load_ca_certificate makes a large string. *)
FallBack(t) ==
  task' = [task EXCEPT ![t] =
             IF File = None
             THEN Returned(t, "failed", <<>>)
             ELSE [Returned(t, "chunk", <<>>) EXCEPT !.ver = File]]

ReadCount(t) ==
  /\ task[t].at = "count?"
  /\ IF count = None
     THEN FallBack(t)
     ELSE task' = [task EXCEPT ![t] = [@ EXCEPT !.at = "list?", !.size = count]]
  /\ UNCHANGED <<store, torn, last>>

(* nvs_get_blob fails when the buffer, made for size entries, is too short.*)
ReadList(t) ==
  /\ task[t].at = "list?"
  /\ IF list = None \/ list > task[t].size
     THEN FallBack(t)
     ELSE task' =
            [task EXCEPT ![t] = [@ EXCEPT !.at = "chunk?", !.known = list]]
  /\ UNCHANGED <<store, torn, last>>

Append1(t, v) ==
  LET n == task[t].next + 1
      got == Append(task[t].got, v)
  IN  task' = [task EXCEPT ![t] =
        IF n < task[t].size
        THEN [@ EXCEPT !.next = n, !.got = got]
        ELSE Returned(t, "loaded", got)]

(* nvs_get_str asks for the size first: with a longer chunk in between, it *)
(* fails.                                                                  *)
MayGrow(t) == \E u \in OthersOf(t) : Writing(u)

ReadChunk(t) ==
  /\ task[t].at = "chunk?"
  /\ LET i == task[t].next
     IN  \/ /\ i < task[t].known
            /\ chunk[i] # None
            /\ Append1(t, chunk[i])
         \/ /\ \/ i < task[t].known /\ chunk[i] = None
               \/ i < task[t].known /\ MayGrow(t)
               \/ i >= task[t].known
            /\ FallBack(t)
         \* An entry that chunk_meta did not have is whatever was on the stack.
         \/ /\ i >= task[t].known
            /\ \E j \in Index : chunk[j] # None /\ Append1(t, chunk[j])
  /\ UNCHANGED <<store, torn, last>>

(* A read fails by itself - NVS, or no memory for a chunk - and the load    *)
(* writes the file over whatever is stored.                                 *)
ReadFails(t) ==
  /\ task[t].at \in {"count?", "list?", "chunk?"}
  /\ File # None
  /\ Begin(t, [Idle EXCEPT !.at = "chunk", !.op = "save", !.ver = File])
  /\ UNCHANGED <<store, torn, last>>

(* Nor can the file be read. *)
LoadFails(t) ==
  /\ task[t].at \in {"count?", "list?", "chunk?"}
  /\ task' = [task EXCEPT ![t] = Returned(t, "failed", <<>>)]
  /\ UNCHANGED <<store, torn, last>>

------------------------------------------------------------------------------
(* reset_device_settings erases the namespace of the certificates, too, in *)
(* the web server's task; another one may be loading.                      *)
Reset ==
  /\ ~Busy(Web)
  /\ chunk' = [i \in Index |-> None] /\ count' = None /\ list' = None
  /\ task' = [t \in Tasks |-> IF Busy(t) THEN [task[t] EXCEPT !.alone = FALSE]
                                        ELSE task[t]]
  /\ torn' = FALSE /\ last' = None

(* Power fails, or the device restarts. *)
Crash ==
  /\ task' = [t \in Tasks |-> Idle]
  /\ torn' = (torn \/ \E t \in Tasks : Interrupted(t))
  /\ UNCHANGED <<store, last>>

Step(t) ==
  \/ Load(t)
  \/ WriteChunk(t) \/ WriteCount(t) \/ WriteList(t) \/ WriteFails(t)
  \/ ReadCount(t) \/ ReadList(t) \/ ReadChunk(t) \/ ReadFails(t) \/ LoadFails(t)

Next ==
  \/ \E t \in Tasks : Step(t)
  \/ \E v \in Versions : Save(v)
  \/ Reset \/ Crash

Spec == Init /\ [][Next]_vars

------------------------------------------------------------------------------
Places == {"idle", "chunk", "count", "list", "count?", "list?", "chunk?",
           "loaded", "failed"}
Locals == [at : Places, op : {"save", "load"}, ver : Versions \cup {None},
           next : 0 .. MaxChunks, size : 0 .. MaxChunks, known : 0 .. MaxChunks,
           got : Seq(Versions), alone : BOOLEAN, whole : BOOLEAN]

(* Every variable has its type; a load appends no more than the largest    *)
(* certificate has.                                                        *)
TypeOK ==
  /\ chunk \in [Index -> Versions \cup {None}]
  /\ count \in (1 .. MaxChunks) \cup {None}
  /\ list \in (1 .. MaxChunks) \cup {None}
  /\ task \in [Tasks -> Locals]
  /\ \A t \in Tasks : Len(task[t].got) <= MaxChunks
  /\ torn \in BOOLEAN /\ last \in Versions \cup {None}

(* What a load returns is the certificate that was written last, as a      *)
(* whole, however long it and those before it were; nothing was written:   *)
(* the file.  Not so for a load that overlaps a save, or after a save that *)
(* overlapped or did not come to its end, until the next one that does.    *)
(* Loads that overlap each other do no harm, although each may write, and  *)
(* a first save that is interrupted does none.  A load one of whose reads  *)
(* fails by itself counts as a save: it may replace what was saved by the  *)
(* file, wherever in its reads it fails, and that is what the next load    *)
(* returns.                                                                *)
LoadedIsLast ==
  [][\A t \in Tasks :
       LET me == task'[t]
       IN  me.at = "loaded" /\ Busy(t) /\ me.op = "load" /\ me.alone /\ me.whole
             => me.got = Whole(IF last = None THEN File ELSE last)]_vars

(* Whenever nobody writes, what is stored is the last version and nothing  *)
(* else, or nothing is readable - after a save that was interrupted or     *)
(* overlapped, only once another one has come to its end.                  *)
StoreIsWhole ==
  torn \/ list = None \/ (\E t \in Tasks : Writing(t))
    \/ /\ last # None
       /\ list = Chunks[last] /\ count = Chunks[last]
       /\ \A i \in 0 .. Chunks[last] - 1 : chunk[i] = last
==============================================================================
