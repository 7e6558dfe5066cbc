------------------------------ MODULE LRUCache ------------------------------
(***************************************************************************)
(* What a set-associative cache with least-recently-used replacement       *)
(* promises, said without lines, tags or time stamps: which memory blocks  *)
(* are cached, and for each of them which blocks of its set were last used *)
(* before it.  A block belongs to the set its number selects, and no set   *)
(* has more than E of them.                                                *)
(***************************************************************************)
EXTENDS Integers, FiniteSets

CONSTANTS S,        \* number of sets
          E,        \* blocks a set has room for
          Block     \* the block numbers a trace may touch

VARIABLES cached,   \* the blocks in the cache
          older,    \* [block -> the cached ones of its set used before it]
          hits, misses, evictions

lruVars == <<cached, older, hits, misses, evictions>>

LRUInit ==
    /\ cached = {}
    /\ older = [b \in Block |-> {}]
    /\ hits = 0
    /\ misses = 0
    /\ evictions = 0

Mates(b) == {c \in cached : c % S = b % S}
(* One access, followed by `again` further accesses of the same block,     *)
(* which can only hit.                                                     *)
Reference(b, again) ==
    LET mates == Mates(b)
        full == b \notin cached /\ Cardinality(mates) = E
        gone == (IF full THEN {c \in mates : older[c] = {}} ELSE {}) \cup {b}
    IN  /\ hits' = hits + again + (IF b \in cached THEN 1 ELSE 0)
        /\ misses' = misses + (IF b \in cached THEN 0 ELSE 1)
        /\ evictions' = evictions + (IF full THEN 1 ELSE 0)
        /\ cached' = (cached \ gone) \cup {b}
        /\ older' = [c \in Block |-> (IF c = b THEN mates ELSE older[c]) \ gone]

LRUNext == \E b \in Block, again \in {0, 1} : Reference(b, again)

LRUSpec == LRUInit /\ [][LRUNext]_lruVars
=============================================================================
