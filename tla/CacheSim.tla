------------------------------ MODULE CacheSim ------------------------------
(***************************************************************************)
(* The cache simulator of icslabs/lab8/csim.c.  A trace line is an access  *)
(* of an address (L, S) or a load followed by a store of it (M); the       *)
(* simulator keeps, for every set, E lines and the time each was last      *)
(* used, and counts hits, misses and evictions.                            *)
(*                                                                         *)
(* A line in the code is `(tag << 1) | 1', or 0 when it is empty; here it  *)
(* is the tag itself or Invalid.  Since s + b >= 2 (main refuses zero      *)
(* options) the shift loses no bit of a tag.  The options -s, -E, -b only  *)
(* ever appear as 1 << s, E and 1 << b: these are the parameters.          *)
(***************************************************************************)
EXTENDS Integers

CONSTANTS maxSetNum,    \* number of sets, 1 << s
          maxLine,      \* lines of a set, E
          maxBlock,     \* bytes of a line, 1 << b
          Addr,         \* the addresses a trace may contain
          MaxTime       \* bound: accesses simulated

ASSUME OptionsAssumption ==     \* main prints the usage and stops otherwise
    /\ maxSetNum \in Nat \ {0}
    /\ maxLine \in Nat \ {0}
    /\ maxBlock \in Nat \ {0}

ASSUME InputAssumption == Addr \subseteq Nat /\ MaxTime \in Nat

SetIds == 0 .. maxSetNum - 1
LineIds == 1 .. maxLine
Invalid == -1

(* tag = addr >> (sNum + bNum);  set = (addr & mask) >> bNum *)
TagOf(addr) == addr \div (maxSetNum * maxBlock)
SetOf(addr) == (addr % (maxSetNum * maxBlock)) \div maxBlock

VARIABLE mem        \* the type_mem of the simulator

memInit ==
    [lines |-> [s \in SetIds |-> [i \in LineIds |-> Invalid]],
     recentUse |-> [s \in SetIds |-> [i \in LineIds |-> 0]],
     currentTime |-> 0, hit_times |-> 0, miss_times |-> 0, evic_times |-> 0]

-----------------------------------------------------------------------------
Holding(m, s, tag) == {i \in LineIds : m.lines[s][i] = tag}
Empty(m, s) == Holding(m, s, Invalid)

(* The first line of a non-empty set of lines: the loops scan upwards. *)
First(I) == CHOOSE i \in I : \A j \in I : i <= j

(* The line the second loop leaves in lineID when no line is empty. *)
Victim(m, s) ==
    CHOOSE i \in LineIds : \A j \in LineIds :
        \/ m.recentUse[s][i] < m.recentUse[s][j]
        \/ m.recentUse[s][i] = m.recentUse[s][j] /\ i <= j

(* Mutant: the stamp is the time of the access before. *)
PlaceLate(m, s, i, tag) ==
    [m EXCEPT !.lines = [m.lines EXCEPT ![s][i] = tag],
              !.recentUse = [m.recentUse EXCEPT ![s][i] = m.currentTime],
              !.currentTime = m.currentTime + 1]

(* Use line i of set s for tag at the (already incremented) time. *)
Place(m, s, i, tag) ==
    [m EXCEPT !.lines = [m.lines EXCEPT ![s][i] = tag],
              !.recentUse = [m.recentUse EXCEPT ![s][i] = m.currentTime + 1],
              !.currentTime = m.currentTime + 1]

(* The three situations the code's comment names: a line has the tag, ...  *)
(* Mutant: a hit does not refresh the line.                                *)
HitUnrefreshed(m, s, tag) ==
    [m EXCEPT !.currentTime = m.currentTime + 1, !.hit_times = m.hit_times + 1]
Hit(m, s, tag) ==
    [Place(m, s, First(Holding(m, s, tag)), tag)
        EXCEPT !.hit_times = m.hit_times + 1]

(* ... a line has not been used, ...                                       *)
Fill(m, s, tag) ==
    [Place(m, s, First(Empty(m, s)), tag)
        EXCEPT !.miss_times = m.miss_times + 1]

(* ... or the least recently used one is evicted.                          *)
Evict(m, s, tag) ==
    [Place(m, s, Victim(m, s), tag)
        EXCEPT !.miss_times = m.miss_times + 1,
               !.evic_times = m.evic_times + 1]

loadOrStore(m, s, tag) ==
    IF Holding(m, s, tag) # {} THEN Hit(m, s, tag)
    ELSE IF Empty(m, s) # {} THEN Fill(m, s, tag)
    ELSE Evict(m, s, tag)

modify(m, s, tag) == loadOrStore(loadOrStore(m, s, tag), s, tag)

-----------------------------------------------------------------------------
Init == mem = memInit

(* A trace line `L addr' or `S addr'. *)
LoadStoreLine(addr) ==
    /\ mem.currentTime + 1 <= MaxTime
    /\ mem' = loadOrStore(mem, SetOf(addr), TagOf(addr))

(* A trace line `M addr'. *)
ModifyLine(addr) ==
    /\ mem.currentTime + 2 <= MaxTime
    /\ mem' = modify(mem, SetOf(addr), TagOf(addr))

Next == \E addr \in Addr : LoadStoreLine(addr) \/ ModifyLine(addr)

Spec == Init /\ [][Next]_mem

-----------------------------------------------------------------------------
(* Types, and the shape of the two arrays of a set. *)

Tags == {TagOf(a) : a \in Addr}

Mem ==
    [lines : [SetIds -> [LineIds -> Tags \cup {Invalid}]],
     recentUse : [SetIds -> [LineIds -> Nat]],
     currentTime : Nat, hit_times : Nat, miss_times : Nat, evic_times : Nat]

TypeInv(m) == m \in Mem

Used(m, s, i) == m.lines[s][i] # Invalid

TagsDistinct(m) ==
    \A s \in SetIds : \A i, j \in LineIds :
        i # j /\ Used(m, s, i) => m.lines[s][i] # m.lines[s][j]

StampsDistinct(m) ==
    \A s \in SetIds : \A i, j \in LineIds :
        i # j /\ Used(m, s, i) => m.recentUse[s][i] # m.recentUse[s][j]

StampsPast(m) ==
    \A s \in SetIds : \A i \in LineIds :
        /\ m.recentUse[s][i] <= m.currentTime
        /\ Used(m, s, i) <=> m.recentUse[s][i] > 0

Tally(m) ==
    /\ m.hit_times + m.miss_times = m.currentTime
    /\ m.evic_times <= m.miss_times

LineInv(m) == TagsDistinct(m) /\ StampsDistinct(m) /\ StampsPast(m)

TypeOK == TypeInv(mem)

(* No set ever holds a tag twice, no two lines of a set were last used at  *)
(* the same time (so the line to evict is never a matter of scan order),   *)
(* and every access is counted exactly once (csim.c loadOrStore).          *)
SetsWellFormed == LineInv(mem) /\ Tally(mem)

-----------------------------------------------------------------------------
(* Block number n is the memory from n * maxBlock on; its set and its tag. *)
BlockOf(s, tag) == tag * maxSetNum + s
Blocks == {BlockOf(s, tag) : s \in SetIds, tag \in Tags}

(* Line i holds block b. *)
Holds(m, b, i) == m.lines[b % maxSetNum][i] = b \div maxSetNum

(* The blocks the lines hold, and for each those its set used before it.   *)
Cached(m) == {b \in Blocks : \E i \in LineIds : Holds(m, b, i)}
Older(m) ==
    [b \in Blocks |->
        {c \in Blocks :
            /\ c % maxSetNum = b % maxSetNum
            /\ \E i, j \in LineIds :
                 /\ Holds(m, b, i) /\ Holds(m, c, j)
                 /\ m.recentUse[b % maxSetNum][j] < m.recentUse[b % maxSetNum][i]}]

(* The simulator is a least-recently-used cache: lines, tags, stamps and   *)
(* the two scans of loadOrStore implement sets of blocks in the order of   *)
(* their last use, and the three counters are those of the abstract cache  *)
(* (csim.c, loadOrStore, modify).                                          *)
LRU == INSTANCE LRUCache WITH
            S <- maxSetNum, E <- maxLine, Block <- Blocks,
            cached <- Cached(mem), older <- Older(mem),
            hits <- mem.hit_times, misses <- mem.miss_times,
            evictions <- mem.evic_times
IsLRU ==
    /\ LRU!LRUSpec
    (* ... each trace line as a reference to its own block: LRUSpec alone  *)
    (* would take a hit that forgets its block for a hit of another block. *)
    /\ [][\A addr \in Addr :
            /\ LoadStoreLine(addr) => LRU!Reference(addr \div maxBlock, 0)
            /\ ModifyLine(addr) => LRU!Reference(addr \div maxBlock, 1)]_mem
=============================================================================
