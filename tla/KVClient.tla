------------------------------- MODULE KVClient -------------------------------
(***************************************************************************)
(* The store together with its client: `dict' is what the client has been  *)
(* promised, and every property relates it to what the store's tables,     *)
(* memory table and log really hold.                                       *)
(***************************************************************************)
EXTENDS KVStore

VARIABLE dict       \* [Key -> Value or Empty]: the client's map

cvars == <<vars, dict>>

-----------------------------------------------------------------------------
(* The newest table that holds k: greatest time, and of several the one in *)
(* the upper level (two levels may share a time: the time of a table is    *)
(* the greatest of its entries' times).                                    *)
Shadows(f, g) ==
    \/ files[f].time > files[g].time
    \/ /\ files[f].time = files[g].time
       /\ \/ files[f].level < files[g].level
          \/ files[f].level = files[g].level /\ f >= g

Having(k) == {f \in Names : Holds(f, k)}
Newest(k) == CHOOSE f \in Having(k) : \A g \in Having(k) : Shadows(f, g)
NewestEntry(k) == files[Newest(k)].ent[k]

(* What the files alone give for k. *)
DiskView(k) == IF Having(k) = {} THEN Empty ELSE getByOffset(NewestEntry(k).off)
OnDisk == [k \in Key |-> DiskView(k)]

-----------------------------------------------------------------------------
CInit == Init /\ dict = [k \in Key |-> Empty]

CPut(k, v) == put(k, v) /\ dict' = [dict EXCEPT ![k] = v]
CDel(k) == del(k) /\ dict' = [dict EXCEPT ![k] = Empty]
CReset == reset /\ dict' = [k \in Key |-> Empty]
CRead(k) == Read(k) /\ UNCHANGED dict
CGc(chunk) == gc(chunk) /\ UNCHANGED dict
CClose == close /\ UNCHANGED dict
CInternal == Internal /\ UNCHANGED dict
CReopen == Reopen /\ UNCHANGED dict
(* After a kill the client can only hope for what is on disk. *)
CCrash == Crash /\ dict' = OnDisk'

(* The operations a run lets the client call. *)
Puts == \E k \in Key, v \in PutValue : CPut(k, v)
Dels == \E k \in Key : CDel(k)
Reads == \E k \in Key : CRead(k)
Gcs == \E chunk \in 1 .. MaxTail : CGc(chunk)

(* Every operation of the interface, and the destructor and constructor:   *)
(* a program that is never killed.                                         *)
CNext == CInternal \/ Puts \/ Dels \/ Gcs \/ Reads \/ CReset \/ CClose \/ CReopen
CSpec == CInit /\ [][CNext]_cvars

-----------------------------------------------------------------------------
(* Correctness. *)

Up == ctl.pc \notin {"down", "undefined"}

(* Between two operations get returns what the client last put, Empty for  *)
(* a key never put or deleted since (kvstore.cc get), whatever flushes,    *)
(* compactions and garbage collections have moved in the meantime.         *)
GetReturnsLastPut == At("idle") => \A k \in Key : get(k) = dict[k]

(* ... and del, which asks the tables on its own, answers whether the key  *)
(* is there: "Returns false iff the key is not found" (kvstore_api.h).     *)
ClientSees ==
    /\ GetReturnsLastPut
    /\ At("idle") => \A k \in Key : delReturns(k) = (dict[k] # Empty)

(* scan lists every key of its range that has a value, with that value     *)
(* (kvstore.cc scan): the merge of the tables misses none.                 *)
ScanComplete ==
    At("idle") => \A k1, k2 \in Key :
        LET list == scan(k1, k2) IN
        \A k \in Key : k1 <= k /\ k <= k2 /\ dict[k] # Empty =>
            k \in DOMAIN list /\ list[k] = dict[k]

(* scan lists nothing else: "Return a list including all the key-value     *)
(* pair between key1 and key2", a deleted pair being none (kvstore_api.h). *)
ScanListsOnlyPresent ==
    At("idle") => \A k1, k2 \in Key :
        \A k \in DOMAIN scan(k1, k2) : dict[k] # Empty

(* Garbage collection never punches what a lookup still needs: between two *)
(* operations the newest entry of a key that is not in the memory table    *)
(* points above the hole (vlog.cc garbageCollect, kvstore.cc checkOffset). *)
CurrentAboveHole ==
    At("idle") => \A k \in Key \ DOMAIN memTable :
        Having(k) # {} => NewestEntry(k).off > hole

(* The memory index is the directory: the list names exactly the tables on *)
(* disk, each once, and levelCnt counts them, at every step of a flush, a  *)
(* compaction and a removal and after a restart.                           *)
IndexMatchesDisk ==
    Up => /\ ToSet(sstFiles) = Names
          /\ Len(sstFiles) = Cardinality(Names)
          /\ \A i \in DOMAIN levelCnt : levelCnt[i] = Cardinality(AtLevel(i))

(* A cached object belongs to a table that exists: a name is reused after  *)
(* reset (SScnt starts again at 0), and an object left in sstCache would   *)
(* then answer for another table.                                          *)
CacheIsLive == Up => sstCache \subseteq Names

(* What the store keeps in memory of the directory is the directory.       *)
MemoryMatchesDisk == IndexMatchesDisk /\ CacheIsLive

(* Between two operations no level holds more than LevelBase << i tables,  *)
(* so checkLevel's one pass over the levels is enough.                     *)
LevelBound ==
    At("idle") => \A i \in DOMAIN levelCnt : levelCnt[i] <= Capacity(i)

(* Below level 0 the key ranges of the tables of a level are disjoint when *)
(* no compaction is under way: compaction relies on it when it merges one  *)
(* table of a level without looking at its neighbours.                     *)
RangesDisjoint ==
    At("idle") => \A f, g \in Names :
        f # g /\ files[f].level = files[g].level /\ files[f].level > 0
            => maxKey(f) < minKey(g) \/ maxKey(g) < minKey(f)

(* An upper level never holds an older version of a key than a lower one.  *)
UpperIsNewer ==
    At("idle") => \A f, g \in Names :
        files[f].level < files[g].level => files[f].time >= files[g].time

(* What lookups and compactions rely on when they leave tables aside.      *)
LevelsSearchable == RangesDisjoint /\ UpperIsNewer

(* The levels between two operations: within bounds, disjoint, in order.   *)
LevelsSound == LevelBound /\ LevelsSearchable

(* The first lookup that finds a table with the greatest time wins, so a   *)
(* new table of level 0 must be newer than every table there is, after a   *)
(* compaction has invented names and after a restart has counted them.     *)
FlushIsNewest ==
    [][\A f \in Names' \ Names : files'[f].level = 0 =>
           \A g \in Names : files[g].time < files'[f].time]_vars

(* A closed store does not depend on objects its destructor has deleted.   *)
NoFreedObjectRead == ~At("undefined")

(* What is on disk follows the client's map: at every step, a kill in the  *)
(* middle of a flush or a compaction included, the files hold either the   *)
(* map they held before or the client's whole current map.                 *)
Durable == INSTANCE KVMap WITH stable <- OnDisk
DiskIsPrefix == Durable!MapSpec

(* Every operation ends: checkLevel's moving bound and the compactions it  *)
(* starts, and the loop of a garbage collection that itself appends to the *)
(* log it reads, come to an end.                                           *)
OperationsReturn == (~At("idle")) ~> (At("idle") \/ At("down") \/ At("undefined"))
=============================================================================
