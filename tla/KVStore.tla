------------------------------- MODULE KVStore -------------------------------
(***************************************************************************)
(* The key-value store of Advanced-Data-Structure/LSM-KV: a memory table,  *)
(* sorted tables (SSTables) in levels on disk, and a log (vLog) that holds *)
(* the values the tables point to.                                         *)
(*                                                                         *)
(* The program is sequential, but it can be killed at any moment and       *)
(* started again (persistence.cc does so), so an operation is cut into     *)
(* steps wherever it has just changed a file.  `ctl' says where the        *)
(* program is inside an operation.                                         *)
(*                                                                         *)
(* Abstractions: an offset is the position of an entry in the log and not  *)
(* its byte; a length is 0 or 1, since only "empty or not" is ever tested; *)
(* the skip list is a finite function; a bloom filter never refuses a key  *)
(* of its table.  A table is written in one step (a half-written table is  *)
(* out of the model).  ssTimeStamp is never read and is left out.          *)
(***************************************************************************)
EXTENDS Integers, FiniteSets, Sequences, SequencesExt

CONSTANTS Key,          \* uint64_t keys
          Value,        \* the non-empty strings
          PutValue,     \* what a client may put: Value, perhaps with Empty
          MAX_NUM,      \* entries of a full table (skiplist.h: 408)
          LevelBase,    \* level i may hold LevelBase << i tables (code: 2)
          NLevels,      \* length of levelCnt (code: 30)
          Garbage,      \* what the uninitialised totLevel may hold
          MaxSS,        \* bound: no new client operation above this SScnt
          MaxLog,       \* bound: nor above this length of the log
          MaxTail,      \* bound: no garbage collection beyond this offset
          MaxCrash      \* bound: number of times the program is killed

CONSTANTS Empty, Deleted    \* "" and "~DELETED~"

ASSUME StoreAssumption ==
    /\ Key \subseteq Nat
    /\ Empty \notin Value /\ Deleted \notin Value /\ Empty # Deleted
    /\ PutValue \subseteq Value \cup {Empty}
    /\ MAX_NUM \in Nat \ {0} /\ LevelBase \in Nat \ {0}
    /\ NLevels \in Nat \ {0} /\ Garbage \subseteq Int
    /\ MaxSS \in Nat /\ MaxLog \in Nat /\ MaxTail \in Nat /\ MaxCrash \in Nat

VARIABLES
    \* on disk
    files,      \* the tables: [name -> [level, time, ent]]
    maxDir,     \* highest level directory, -1 if there is none
    vlog,       \* the log: sequence of [key, val]
    hole,       \* entries 1..hole of the log have been punched out
    \* in memory
    memTable,   \* the skip list: a function on the keys it holds
    sstFiles,   \* names of the tables, in the order of the list
    sstCache,   \* names of the tables whose object is cached
    levelCnt, totLevel, SScnt,
    tail,       \* vLog->tail
    ctl,        \* [pc, ret, lev, doomed, last, freed]: the place in the operation
    crashes     \* times killed so far

disk == <<files, maxDir, vlog, hole>>
memory == <<memTable, sstFiles, sstCache, levelCnt, totLevel, SScnt, tail>>
vars == <<disk, memory, ctl, crashes>>

NoTable == [k \in {} |-> Empty]
Idle == [pc |-> "idle", ret |-> "put", lev |-> 0,
         doomed |-> {},     \* tables a compaction has still to remove
         last |-> 0,        \* where a garbage collection stops
         freed |-> {}]      \* cached objects the destructor has deleted

MaxOf(T) == CHOOSE t \in T : \A u \in T : u <= t
MinOf(T) == CHOOSE t \in T : \A u \in T : t <= u

(* levelCnt[i] > (2 << i) *)
Pow2[n \in Nat] == IF n = 0 THEN 1 ELSE 2 * Pow2[n - 1]
Capacity(i) == LevelBase * Pow2[i]

-----------------------------------------------------------------------------
(* The memory table (skiplist.cc). *)

memPut(m, k, v) == [x \in DOMAIN m \cup {k} |-> IF x = k THEN v ELSE m[x]]
memGet(k) == IF k \in DOMAIN memTable THEN memTable[k] ELSE Empty
isFull(m) == Cardinality(DOMAIN m) >= MAX_NUM

(* The log (vlog.cc).  A punched entry no longer starts with the magic     *)
(* byte, so it reads as the empty string.                                  *)

getByOffset(off) == IF off <= hole THEN Empty ELSE vlog[off].val

-----------------------------------------------------------------------------
(* Looking a key up in the tables. *)

Names == DOMAIN files
AtLevel(i) == {f \in Names : files[f].level = i}
Holds(f, k) == k \in DOMAIN files[f].ent
minKey(f) == MinOf(DOMAIN files[f].ent)
maxKey(f) == MaxOf(DOMAIN files[f].ent)

NoOffset == 0
Listed(k) == {p \in 1 .. Len(sstFiles) : Holds(sstFiles[p], k)}

(* Mutant: the time of a table is not compared. *)
FirstListedOffset(k) ==
    IF Listed(k) = {} THEN NoOffset
    ELSE files[sstFiles[MinOf(Listed(k))]].ent[k].off

(* The loop keeps a table only when its time is strictly greater: of       *)
(* several with the greatest time, the first in the list.                  *)
getOffsetFromSSTable(k) ==
    IF Listed(k) = {} THEN NoOffset
    ELSE LET Time(p) == files[sstFiles[p]].time
             best == CHOOSE p \in Listed(k) : \A q \in Listed(k) :
                        Time(p) > Time(q) \/ (Time(p) = Time(q) /\ p <= q)
         IN  files[sstFiles[best]].ent[k].off

get(k) ==
    LET s == memGet(k)
        off == getOffsetFromSSTable(k)
    IN  CASE s = Deleted -> Empty
          [] s = Empty   -> IF off = NoOffset THEN Empty ELSE getByOffset(off)
          [] OTHER       -> s

(* Mutant: the memory table is not consulted. *)
checkOffsetInTables(k, off) == getOffsetFromSSTable(k) = off

checkOffset(k, off) == memGet(k) = Empty /\ getOffsetFromSSTable(k) = off

(* Mutant: the last key of the range is left out. *)
InHalfOpen(k, key1, key2) == key1 <= k /\ k < key2
InRange(k, key1, key2) == key1 <= k /\ k <= key2

(* What scan(key1, key2) lists: the memory table as it is, and the newest  *)
(* entry of every other key unless its length is 0.  The merge of the      *)
(* tables resolves ties as getOffsetFromSSTable does.                      *)
scan(key1, key2) ==
    LET inMem == {k \in DOMAIN memTable : InRange(k, key1, key2)}
        inSST == {k \in Key : /\ InRange(k, key1, key2)
                              /\ k \notin DOMAIN memTable
                              /\ Listed(k) # {}
                              /\ \E f \in Names : /\ Holds(f, k)
                                                  /\ files[f].ent[k].off = getOffsetFromSSTable(k)
                                                  /\ files[f].ent[k].len > 0}
    IN  [k \in inMem \cup inSST |->
            IF k \in inMem THEN memTable[k]
                           ELSE getByOffset(getOffsetFromSSTable(k))]

-----------------------------------------------------------------------------
Fresh ==            \* an empty directory and no log
    /\ files = [f \in {} |-> Empty]
    /\ maxDir = -1
    /\ vlog = <<>>
    /\ hole = 0

Init ==
    /\ Fresh
    /\ memTable = NoTable
    /\ sstFiles = <<>>
    /\ sstCache = {}
    /\ levelCnt = [i \in 0 .. NLevels - 1 |-> 0]
    /\ totLevel \in Garbage
    /\ SScnt = 0
    /\ tail = 0
    /\ ctl = Idle
    /\ crashes = 0

At(pc) == ctl.pc = pc
Ready == At("idle") /\ SScnt < MaxSS /\ Len(vlog) < MaxLog

(* put: into the memory table; a full one is saved next. *)
PutInto(k, v, ret) ==
    /\ memTable' = memPut(memTable, k, v)
    /\ ctl' = IF isFull(memTable') THEN [ctl EXCEPT !.pc = "flush", !.ret = ret]
                                   ELSE ctl

put(k, v) ==
    /\ Ready
    /\ PutInto(k, v, "put")
    /\ UNCHANGED <<disk, sstFiles, sstCache, levelCnt, totLevel, SScnt, tail, crashes>>

(* get and scan change nothing but the cache: every table gets cached. *)
Read(k) ==
    /\ Ready
    /\ memGet(k) = Empty
    /\ sstCache' = ToSet(sstFiles)
    /\ UNCHANGED <<disk, memTable, sstFiles, levelCnt, totLevel, SScnt, tail, ctl, crashes>>

(* The answer of del(k). *)
delReturns(k) ==
    IF k \in DOMAIN memTable THEN memTable[k] # Deleted
    ELSE LET off == getOffsetFromSSTable(k)
         IN  off # NoOffset /\ getByOffset(off) # Empty

del(k) ==
    /\ Ready
    /\ IF k \in DOMAIN memTable
       THEN /\ memTable' = memPut(memTable, k, Deleted)
            /\ UNCHANGED <<sstCache, ctl>>
       ELSE /\ sstCache' = ToSet(sstFiles)
            /\ IF delReturns(k) THEN PutInto(k, Deleted, "put")
                                ELSE UNCHANGED <<memTable, ctl>>
    /\ UNCHANGED <<disk, sstFiles, levelCnt, totLevel, SScnt, tail, crashes>>

ClearCache == sstCache' = {}

(* totLevel survives a reset. *)
reset ==
    /\ Ready
    /\ files' = [f \in {} |-> Empty]
    /\ maxDir' = -1
    /\ vlog' = <<>>
    /\ hole' = 0
    /\ memTable' = NoTable
    /\ sstFiles' = <<>>
    /\ ClearCache
    /\ levelCnt' = [i \in 0 .. NLevels - 1 |-> 0]
    /\ SScnt' = 0
    /\ tail' = 0
    /\ UNCHANGED <<totLevel, ctl, crashes>>

-----------------------------------------------------------------------------
(* save: SSTableGenerator, checkLevel, and a new memory table. *)

Stored(v) == IF v = Deleted THEN Empty ELSE v
Rank(K, k) == Cardinality({j \in K : j < k})

(* The entries SSTable_type::save appends to the log, in key order. *)
FlushedLog ==
    LET K == DOMAIN memTable
        Nth(n) == CHOOSE k \in K : Rank(K, k) = n - 1
    IN  [n \in 1 .. Cardinality(K) |->
            [key |-> Nth(n), val |-> Stored(memTable[Nth(n)])]]

FlushedTable ==
    LET K == DOMAIN memTable
    IN  [level |-> 0, time |-> SScnt + 1,
         ent |-> [k \in K |-> [off |-> Len(vlog) + Rank(K, k) + 1,
                               len |-> IF Stored(memTable[k]) = Empty THEN 0 ELSE 1]]]

SSTableGenerator ==
    /\ At("flush")
    /\ ctl' = [ctl EXCEPT !.pc = "check", !.lev = 0]
    /\ IF DOMAIN memTable = {}
       THEN UNCHANGED <<disk, sstFiles, levelCnt, SScnt>>
       ELSE /\ SScnt' = SScnt + 1
            /\ files' = [f \in Names \cup {SScnt + 1} |->
                            IF f = SScnt + 1 THEN FlushedTable ELSE files[f]]
            /\ maxDir' = IF maxDir < 0 THEN 0 ELSE maxDir
            /\ vlog' = vlog \o FlushedLog
            /\ sstFiles' = Append(sstFiles, SScnt + 1)
            /\ levelCnt' = [levelCnt EXCEPT ![0] = @ + 1]
            /\ UNCHANGED hole
    /\ UNCHANGED <<memTable, sstCache, totLevel, tail, crashes>>

(* checkLevel: the loop over the levels, whose bound moves with totLevel.  *)
LastLevel == totLevel + 1

(* Mutant: the loop does not advance past a level that is not too full. *)
NextLevelStuck ==
    /\ At("check")
    /\ ctl.lev <= LastLevel
    /\ levelCnt[ctl.lev] <= Capacity(ctl.lev)
    /\ UNCHANGED vars

NextLevel ==
    /\ At("check")
    /\ ctl.lev <= LastLevel
    /\ levelCnt[ctl.lev] <= Capacity(ctl.lev)
    /\ ctl' = [ctl EXCEPT !.lev = @ + 1]
    /\ UNCHANGED <<disk, memory, crashes>>

(* The loop is over: save() drops the memory table; the destructor ends    *)
(* the program.                                                            *)
SaveReturns ==
    /\ At("check")
    /\ ctl.lev > LastLevel
    /\ memTable' = NoTable
    /\ ctl' = CASE ctl.ret = "put"   -> Idle
                [] ctl.ret = "gcput" -> [ctl EXCEPT !.pc = "gc"]
                [] ctl.ret = "close" -> [Idle EXCEPT !.pc = "down"]
    /\ UNCHANGED <<disk, sstFiles, sstCache, levelCnt, totLevel, SScnt, tail, crashes>>

-----------------------------------------------------------------------------
(* compaction(level). *)

Before(f, g) ==     \* the order in which getCandidates prefers tables
    \/ files[f].time < files[g].time
    \/ files[f].time = files[g].time /\ minKey(f) <= minKey(g)

(* The tables taken from the level itself: all of level 0, elsewhere the   *)
(* excess over the capacity, oldest first.                                 *)
Upper(i) ==
    IF i = 0 THEN {AtLevel(0)}
    ELSE {U \in SUBSET AtLevel(i) :
            /\ Cardinality(U) = levelCnt[i] - Capacity(i)
            /\ \A f \in U, g \in AtLevel(i) \ U : Before(f, g)}

(* Mutant: a table that only touches the range is left out. *)
OverlapsStrictly(g, keyMin, keyMax) == ~(maxKey(g) <= keyMin \/ minKey(g) >= keyMax)
Overlaps(g, keyMin, keyMax) == ~(maxKey(g) < keyMin \/ minKey(g) > keyMax)

(* ... and those of the next level that overlap their key range. *)
Lower(i, U) ==
    LET keyMin == MinOf({minKey(f) : f \in U})
        keyMax == MaxOf({maxKey(f) : f \in U})
    IN  {g \in AtLevel(i + 1) : Overlaps(g, keyMin, keyMax)}

Position(f) == CHOOSE p \in 1 .. Len(sstFiles) : sstFiles[p] = f

(* Mutant: any entry survives. *)
WinnerAny(U, L, k) == CHOOSE f \in U \cup L : Holds(f, k)

(* The candidate whose entry for k survives: greatest time, and of several *)
(* the first candidate, the level's own tables coming before the others.   *)
Winner(U, L, k) ==
    LET C == {f \in U \cup L : Holds(f, k)}
        Earlier(f, g) == \/ f \in U /\ g \notin U
                         \/ (f \in U <=> g \in U) /\ Position(f) <= Position(g)
    IN  CHOOSE f \in C : \A g \in C :
            \/ files[f].time > files[g].time
            \/ files[f].time = files[g].time /\ Earlier(f, g)

Kept(i, U, L, top) ==
    {k \in UNION {DOMAIN files[f].ent : f \in U \cup L} :
        ~(i + 1 = top /\ files[Winner(U, L, k)].ent[k].len = 0)}

(* The tables the merge writes: MAX_NUM entries each, the last one fewer. *)
Outputs(i, U, L, top) ==
    LET K == Kept(i, U, L, top)
        Chunk(c) == {k \in K : Rank(K, k) \div MAX_NUM = c - 1}
        n == (Cardinality(K) + MAX_NUM - 1) \div MAX_NUM
    IN  [c \in 1 .. n |->
            [level |-> i + 1,
             time |-> MaxOf({files[Winner(U, L, k)].time : k \in Chunk(c)}),
             ent |-> [k \in Chunk(c) |-> files[Winner(U, L, k)].ent[k]]]]

(* files with the first n outputs written, named SScnt + 1, SScnt + 2, ... *)
Written(out, n) ==
    [f \in Names \cup (SScnt + 1 .. SScnt + n) |->
        IF f > SScnt THEN out[f - SScnt] ELSE files[f]]

Overflowing == /\ At("check")
               /\ ctl.lev <= LastLevel
               /\ levelCnt[ctl.lev] > Capacity(ctl.lev)
NewTop == IF ctl.lev + 1 > totLevel THEN ctl.lev + 1 ELSE totLevel

(* getCandidates caches every table of the two levels; if the destructor   *)
(* has deleted one of those objects, it reads freed memory.                *)
Examined(i) == AtLevel(i) \cup AtLevel(i + 1)
Dangling(i) == Examined(i) \cap ctl.freed # {}

(* Merge and write; the candidates leave the cache before their files go.  *)
Compact(U) ==
    LET i == ctl.lev
        L == Lower(i, U)
        out == Outputs(i, U, L, NewTop)
    IN  /\ files' = Written(out, Len(out))
        /\ SScnt' = SScnt + Len(out)
        /\ sstFiles' = sstFiles \o [c \in 1 .. Len(out) |-> SScnt + c]
        /\ levelCnt' = [levelCnt EXCEPT ![i + 1] = @ + Len(out)]
        /\ totLevel' = NewTop
        /\ maxDir' = IF i + 1 > maxDir THEN i + 1 ELSE maxDir
        /\ sstCache' = (sstCache \cup Examined(i)) \ (U \cup L)
        /\ ctl' = [ctl EXCEPT !.pc = "remove", !.doomed = U \cup L]
        /\ UNCHANGED <<vlog, hole, memTable, tail, crashes>>

compaction ==
    /\ Overflowing
    /\ ~Dangling(ctl.lev)
    /\ \E U \in Upper(ctl.lev) : Compact(U)

(* Undefined behaviour: what the merge then writes is anything (tables of  *)
(* arbitrary times and entries have been seen), so the model stops here.   *)
CompactFreed ==
    /\ Overflowing
    /\ Dangling(ctl.lev)
    /\ ctl' = [ctl EXCEPT !.pc = "undefined"]
    /\ UNCHANGED <<disk, memory, crashes>>

(* Mutant: the counter of the level is not decremented. *)
NotUncounted(f) == UNCHANGED levelCnt
Uncounted(f) == levelCnt' = [levelCnt EXCEPT ![files[f].level] = @ - 1]

(* filesToRemove is an unordered set: the candidates go one by one, in any *)
(* order.                                                                  *)
RemoveFile(f) ==
    /\ At("remove")
    /\ f \in ctl.doomed
    /\ files' = [g \in Names \ {f} |-> files[g]]
    /\ sstFiles' = RemoveAt(sstFiles, Position(f))
    /\ Uncounted(f)
    /\ ctl' = IF ctl.doomed = {f}
              THEN [ctl EXCEPT !.pc = "check", !.doomed = {}, !.lev = @ + 1]
              ELSE [ctl EXCEPT !.doomed = @ \ {f}]
    /\ UNCHANGED <<maxDir, vlog, hole, memTable, sstCache, totLevel, SScnt, tail, crashes>>

-----------------------------------------------------------------------------
(* gc: move what is still valid among the first entries, punch, save. *)

gc(chunk) ==
    /\ Ready
    /\ tail + chunk <= MaxTail
    /\ ctl' = [ctl EXCEPT !.pc = "gc", !.last = tail + chunk]
    /\ UNCHANGED <<disk, memory, crashes>>

GcMore == At("gc") /\ tail < ctl.last /\ tail < Len(vlog)

(* Mutant: the offset compared is that of the entry before. *)
GcEntryOffByOne ==
    /\ GcMore
    /\ tail' = tail + 1
    /\ LET e == vlog[tail + 1] IN
         /\ sstCache' = IF memGet(e.key) = Empty THEN ToSet(sstFiles) ELSE sstCache
         /\ IF checkOffset(e.key, tail)
            THEN PutInto(e.key, e.val, "gcput")
            ELSE UNCHANGED <<memTable, ctl>>
    /\ UNCHANGED <<disk, sstFiles, levelCnt, totLevel, SScnt, crashes>>

GcEntry ==
    /\ GcMore
    /\ tail' = tail + 1
    /\ LET e == vlog[tail + 1] IN
         /\ sstCache' = IF memGet(e.key) = Empty THEN ToSet(sstFiles) ELSE sstCache
         /\ IF checkOffset(e.key, tail + 1)
            THEN PutInto(e.key, e.val, "gcput")
            ELSE UNCHANGED <<memTable, ctl>>
    /\ UNCHANGED <<disk, sstFiles, levelCnt, totLevel, SScnt, crashes>>

(* Past the end of the log it is padded with zeros up to `last'; then the  *)
(* hole is punched, and only then save() is called.                        *)
GcPunch ==
    /\ At("gc")
    /\ ~GcMore
    /\ LET pad == IF tail < ctl.last THEN ctl.last - tail ELSE 0 IN
         /\ vlog' = vlog \o [n \in 1 .. pad |-> [key |-> 0, val |-> Empty]]
         /\ tail' = tail + pad
         /\ hole' = tail + pad
    /\ ctl' = [ctl EXCEPT !.pc = "flush", !.ret = "put"]
    /\ UNCHANGED <<files, maxDir, memTable, sstFiles, sstCache, levelCnt, totLevel, SScnt, crashes>>

-----------------------------------------------------------------------------
(* The destructor, a kill, and the constructor. *)

close ==            \* the cached objects are deleted, the map keeps them
    /\ Ready
    /\ ctl' = [ctl EXCEPT !.pc = "flush", !.ret = "close", !.freed = sstCache]
    /\ UNCHANGED <<disk, memory, crashes>>

Down == ctl' = [Idle EXCEPT !.pc = "down"]

(* Killed between two file operations ... *)
Crash ==
    /\ ctl.pc \notin {"down", "undefined"}
    /\ crashes < MaxCrash
    /\ crashes' = crashes + 1
    /\ Down
    /\ \/ UNCHANGED disk
       \/ /\ At("flush") /\ DOMAIN memTable # {}
          /\ maxDir' = IF maxDir < 0 THEN 0 ELSE maxDir
          /\ \E n \in 0 .. Len(FlushedLog) :   \* ... some values appended, no table yet
               vlog' = vlog \o SubSeq(FlushedLog, 1, n)
          /\ UNCHANGED <<files, hole>>
       \/ /\ Overflowing /\ ~Dangling(ctl.lev)      \* ... some of the outputs written
          /\ \E U \in Upper(ctl.lev) :
               LET out == Outputs(ctl.lev, U, Lower(ctl.lev, U), NewTop) IN
               \E n \in 0 .. Len(out) : files' = Written(out, n)
          /\ maxDir' = IF ctl.lev + 1 > maxDir THEN ctl.lev + 1 ELSE maxDir
          /\ UNCHANGED <<vlog, hole>>
    /\ UNCHANGED memory             \* overwritten by Reopen

(* The counter continues after the greatest name found.                    *)
(* Mutant: it counts the tables.                                           *)
CountTables == Cardinality(Names)
LastName == MaxOf({0} \cup Names)

(* The list is built in the order of the directory: the levels in any      *)
(* order, given by their places.  (Inside a level the order is by name.)   *)
Precedes(place, f, g) ==
    \/ place[files[f].level] < place[files[g].level]
    \/ files[f].level = files[g].level /\ f < g

Directory(place) ==
    LET Earlier(f) == Cardinality({g \in Names : Precedes(place, g, f)})
    IN  [n \in 1 .. Cardinality(Names) |-> CHOOSE f \in Names : Earlier(f) = n - 1]

Levels == {files[f].level : f \in Names}

Reopen ==
    /\ At("down")
    /\ ctl' = Idle
    /\ \E place \in Injection(Levels, 1 .. Cardinality(Levels)) : sstFiles' = Directory(place)
    /\ levelCnt' = [i \in 0 .. NLevels - 1 |-> Cardinality(AtLevel(i))]
    /\ \E g \in Garbage :
          totLevel' = IF maxDir < 0 THEN g ELSE MaxOf({g, maxDir})
    /\ SScnt' = LastName
    /\ memTable' = NoTable
    /\ sstCache' = {}
    /\ tail' = hole
    /\ UNCHANGED <<disk, crashes>>

-----------------------------------------------------------------------------
Internal ==
    \/ SSTableGenerator \/ NextLevel \/ SaveReturns \/ compaction \/ CompactFreed
    \/ (\E f \in ctl.doomed : RemoveFile(f))
    \/ GcEntry \/ GcPunch

Client ==
    \/ \E k \in Key : Read(k) \/ del(k) \/ \E v \in PutValue : put(k, v)
    \/ \E chunk \in 1 .. MaxTail : gc(chunk)
    \/ reset \/ close

Next == Internal \/ Client \/ Crash \/ Reopen

Spec == Init /\ [][Next]_vars
=============================================================================
