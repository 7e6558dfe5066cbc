------------------------------ MODULE VLogFile -------------------------------
(***************************************************************************)
(* The value log of the store in bytes and pages (vlog.cc, and             *)
(* de_alloc_file, seek_data_block of utils.h): KVStore takes an entry for  *)
(* an offset, here are the holes, the zeros written when a collection goes *)
(* beyond the end, the mappings that are scanned, and the tail that a      *)
(* restart recovers from all that.  The rest of the store is what it calls *)
(* for: values put, flushed and read, and which of them are current.       *)
(***************************************************************************)
EXTENDS Integers, FiniteSets, FiniteSetsExt, TLC

CONSTANTS Key, Lens,            \* keys, lengths of values
          PAGE_SIZE, HEAD_LEN,  \* 4096 and 15 in the code
          Chunks,               \* what gc is called with
          MAX_NUM,              \* keys that fill the memory table
          MaxHead, MaxKills     \* bounds: length of the log, kills

VARIABLES log,          \* the bytes: "zero", "magic" or "byte"
          data,         \* the pages that are not holes
          entry,        \* [offset |-> the entry written there]
          current,      \* [key |-> the offset that checkOffset knows]
          mem,          \* the memory table: [key |-> length]
          tail, head,
          pc, last, tailIn,     \* of garbageCollect
          map,          \* its mapping: [stOff, curSize]
          kills

vars == <<log, data, entry, current, mem, tail, head, pc, last, tailIn, map, kills>>
gc_vars == <<last, tailIn, map>>

Empty == [x \in {} |-> x]
Page(o) == o \div PAGE_SIZE
Floor(o) == PAGE_SIZE * Page(o)
IsEntry(o) == o \in DOMAIN entry /\ log[o] = "magic"
SizeOf(o) == HEAD_LEN + entry[o].len

Init ==
    /\ log = Empty /\ data = {} /\ entry = Empty /\ current = Empty /\ mem = Empty
    /\ tail = 0 /\ head = 0 /\ kills = 0
    /\ pc = "idle" /\ last = 0 /\ tailIn = 0 /\ map = [stOff |-> 0, curSize |-> 0]

-----------------------------------------------------------------------------
(* write at the end of the file: n bytes, byte(i) the i-th. *)
Written(l, from, bytes) ==
    [o \in DOMAIN l \cup {from + i : i \in DOMAIN bytes} |->
        IF o \in DOMAIN l THEN l[o] ELSE bytes[o - from]]

(* The head of an entry is a magic byte and others; a value of 255s.       *)
EntryBytes(len) ==
    [i \in 0 .. HEAD_LEN + len - 1 |-> IF i \in 1 .. HEAD_LEN - 1 THEN "byte" ELSE "magic"]

(* SSTable_type::save: the memory table's entries are added in the order of*)
(* their keys, and the table is named by the index.                        *)
Flushed(m, l, es, d, h, cur) ==
    LET add[S \in SUBSET DOMAIN m] ==
            IF S = {} THEN [log |-> l, entry |-> es, data |-> d, head |-> h, current |-> cur]
            ELSE LET k == Max(S)
                     r == add[S \ {k}]
                     bytes == EntryBytes(m[k])
                     end == r.head + Cardinality(DOMAIN bytes)
                 IN  [log |-> Written(r.log, r.head, bytes),
                      entry |-> (r.head :> [key |-> k, len |-> m[k]]) @@ r.entry,
                      data |-> r.data \cup {Page(o) : o \in r.head .. end - 1},
                      head |-> end,
                      current |-> (k :> r.head) @@ r.current]
    IN  add[DOMAIN m]

Save(m) == LET r == Flushed(m, log, entry, data, head, current)
           IN  /\ log' = r.log /\ entry' = r.entry /\ data' = r.data
               /\ head' = r.head /\ current' = r.current /\ mem' = Empty

(* KVStore::put, which flushes the table when it is full. *)
Store(k, len) ==
    LET m == (k :> len) @@ mem
    IN  IF Cardinality(DOMAIN m) >= MAX_NUM THEN Save(m)
        ELSE mem' = m /\ UNCHANGED <<log, entry, data, head, current>>

Put(k, len) == /\ pc = "idle" /\ head + HEAD_LEN + len <= MaxHead
               /\ Store(k, len)
               /\ UNCHANGED <<tail, pc, gc_vars, kills>>

-----------------------------------------------------------------------------
(* checkOffset: the memory table's version, if it has one, is newer; the   *)
(* empty string counts as none.                                            *)
checkOffset(k, o) == (k \in DOMAIN mem => mem[k] = 0) /\ k \in DOMAIN current /\ current[k] = o

(* The mapping grown by pages until the offset is inside. *)
Grown(from, size, o) ==
    size + PAGE_SIZE * ((Max({0, o - from - size + 1}) + PAGE_SIZE - 1) \div PAGE_SIZE)

Gc(chunk) ==
    /\ pc = "idle" /\ tail + chunk <= MaxHead
    /\ pc' = "collect"
    /\ last' = tail + chunk /\ tailIn' = tail
    /\ map' = [stOff |-> Floor((tail \div chunk) * chunk), curSize |-> chunk]
    /\ UNCHANGED <<log, data, entry, current, mem, tail, head, kills>>

Collecting == pc = "collect" /\ tail < last /\ tail < head
Inside(m, o) == o < m.stOff + m.curSize

(* A magic byte that starts no entry is taken for one: the bytes behind it *)
(* are the length of what is read next, and anything may happen.           *)
Readable == Inside(map, tail) /\ (log[tail] = "magic" => IsEntry(tail))

SkipByte == /\ Collecting /\ Readable /\ ~IsEntry(tail)
            /\ tail' = tail + 1
            /\ UNCHANGED <<log, data, entry, current, mem, head, pc, gc_vars, kills>>

(* An entry is put again if it is the current one. The mapping then reaches*)
(* behind it, so the loop that maps the page behind a mapping never runs.  *)
Reach == [map EXCEPT !.curSize = Grown(map.stOff, map.curSize, tail + SizeOf(tail) + 1)]
CollectEntry ==
    /\ Collecting /\ Inside(map, tail) /\ IsEntry(tail)
    /\ map' = Reach
    /\ IF ~Inside(map', tail + SizeOf(tail) - 1)
       THEN pc' = "fault" /\ UNCHANGED <<log, data, entry, current, mem, head, tail>>
       ELSE /\ IF checkOffset(entry[tail].key, tail) THEN Store(entry[tail].key, entry[tail].len)
               ELSE UNCHANGED <<log, data, entry, current, mem, head>>
            /\ tail' = tail + SizeOf(tail)
            /\ UNCHANGED pc
    /\ UNCHANGED <<last, tailIn, kills>>

(* The byte read lies outside the mapping, or leads outside.               *)
ReadsOutside == /\ Collecting /\ ~Readable
                /\ pc' = "fault"
                /\ UNCHANGED <<log, data, entry, current, mem, tail, head, gc_vars, kills>>

(* The log is shorter than the chunk: zeros up to where it would end. *)
Pad == /\ pc = "collect" /\ ~Collecting
       /\ pc' = "punch"
       /\ IF tail < last
          THEN /\ log' = Written(log, head, [i \in 0 .. last - tail - 1 |-> "zero"])
               /\ data' = data \cup {Page(head + i) : i \in 0 .. last - tail - 1}
               /\ head' = last /\ tail' = last
          ELSE UNCHANGED <<log, data, head, tail>>
       /\ UNCHANGED <<entry, current, mem, gc_vars, kills>>

(* de_alloc_file(tailIn, tail - tailIn), from the start of a page on: whole*)
(* pages become holes, the rest zeros.                                     *)
PunchedWhole == IF Floor(tail) > tailIn THEN tailIn .. Floor(tail) - 1 ELSE {}
Punched == Floor(tailIn) .. tail - 1
Punch == /\ pc = "punch"
         /\ log' = [o \in DOMAIN log |-> IF o \in Punched THEN "zero" ELSE log[o]]
         /\ data' = {p \in data : \E i \in 0 .. PAGE_SIZE - 1 : p * PAGE_SIZE + i \notin Punched}
         /\ pc' = "save"
         /\ UNCHANGED <<entry, current, mem, tail, head, gc_vars, kills>>

(* save() at the end: nothing is flushed if the memory table is empty.     *)
SaveAfter == /\ pc = "save"
             /\ Save(mem)
             /\ pc' = "idle"
             /\ UNCHANGED <<tail, gc_vars, kills>>

-----------------------------------------------------------------------------
(* The process is killed; the files stay. *)
Kill == /\ pc \notin {"down", "fault"} /\ kills < MaxKills
        /\ pc' = "down" /\ mem' = Empty /\ kills' = kills + 1
        /\ UNCHANGED <<log, data, entry, current, tail, head, gc_vars>>

(* The destructors of the store and of the log.                            *)
Close == /\ pc = "idle"
         /\ Save(mem)
         /\ pc' = "down"
         /\ UNCHANGED <<tail, gc_vars, kills>>

(* The constructor's scan from the first page with data, or from 0 when    *)
(* there is none: where it ends, -1 if it leaves the mapping.  Only the    *)
(* step behind a bad checksum maps the next page.                          *)
FirstData == IF data = {} THEN 0 ELSE PAGE_SIZE * Min(data)
Recovered(size) ==
    LET from == FirstData
        scan[o \in Nat, lim \in Nat] ==
            IF o >= size THEN o
            ELSE IF o >= lim THEN -1
            ELSE IF IsEntry(o) THEN o
            ELSE IF log[o] = "magic" THEN
                     LET grown == lim + Grown(from, lim - from, o + HEAD_LEN + 1) - (lim - from)
                     IN  scan[o + 1, IF o + 1 >= grown THEN grown + PAGE_SIZE ELSE grown]
            ELSE scan[o + 1, lim]
    IN  scan[from, from + PAGE_SIZE]

Reopen == /\ pc = "down"
          /\ head' = Cardinality(DOMAIN log)
          /\ LET t == Recovered(head') IN
                IF t = -1 THEN pc' = "fault" /\ UNCHANGED tail
                ELSE pc' = "idle" /\ tail' = t
          /\ UNCHANGED <<log, data, entry, current, mem, gc_vars, kills>>

Next == \/ \E k \in Key, len \in Lens : Put(k, len)
        \/ \E chunk \in Chunks : Gc(chunk)
        \/ SkipByte \/ CollectEntry \/ ReadsOutside \/ Pad \/ Punch \/ SaveAfter
        \/ Kill \/ Close \/ Reopen
Spec == Init /\ [][Next]_vars

-----------------------------------------------------------------------------
NonZero == {o \in DOMAIN log : log[o] # "zero"}

(* Between calls, and after any kill and restart, tail is where the log    *)
(* begins: nothing is left before it, nor a page on the disk if no kill    *)
(* came in between, and what comes next is the start of an entry, so the next collection    *)
(* reads entries and not the middle of a value.                            *)
TailIsFirst ==
    pc = "idle" =>
        /\ \A o \in NonZero : o >= tail
        /\ kills = 0 => \A p \in data : (p + 1) * PAGE_SIZE > tail
        /\ NonZero # {} => IsEntry(Min(NonZero))

(* However entries, chunks and pages lie, scans stay in their mapping, but *)
(* for a restart of a log without a value, and after a kill that left the  *)
(* zeros of a collection on the disk.                                      *)
ScansStayMapped == pc = "fault" => NonZero = {} \/ kills > 0

(* No scan leaves its mapping. *)
NeverFaults == pc # "fault"
=============================================================================
