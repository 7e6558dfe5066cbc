-------------------------------- MODULE Heap --------------------------------
(***************************************************************************)
(* The dynamic allocator (lab9/mm.c over memlib.c) under the driver that   *)
(* tests it (lab9/mdriver.c, eval_mm_valid).  The heap is an array of      *)
(* 4-byte words at byte addresses from 0: LISTNUM heads of free lists,     *)
(* then blocks of a header, a payload and a footer.  Header and footer     *)
(* hold the size of the payload, with bit 0 set while the block is in use; *)
(* a free block keeps the offsets of its neighbours in the list in the     *)
(* first two words of its payload.  Pointers are to payloads.              *)
(***************************************************************************)
EXTENDS Integers, FiniteSets, FiniteSetsExt

CONSTANTS LISTNUM,      \* number of free lists
          MAX_HEAP,     \* bytes that mem_sbrk can hand out
          PreAlloc,     \* [some sizes -> what preAlloc adds to them]
          Trigger,      \* the size that sets useflag (4092)
          Id,           \* blocks of a trace
          Sizes,        \* sizes that a trace asks for
          MaxTraces,    \* number of traces
          MaxOps        \* number of operations in all of them

(* Headers stand at odd multiples of 4, so payloads are aligned to 8; the  *)
(* heads of the lists fit into the heap (mm_init succeeds).                *)
ASSUME HeapAssumption ==
    /\ LISTNUM \in Nat /\ LISTNUM % 2 = 1
    /\ MAX_HEAP \in Nat /\ MAX_HEAP % 4 = 0 /\ 4 * LISTNUM <= MAX_HEAP
    /\ \A n \in DOMAIN PreAlloc : PreAlloc[n] \in Nat
    /\ Id \subseteq Nat /\ \A n \in Sizes : n \in Nat \ {0} /\ n % 4 = 0
    /\ MaxTraces \in Nat /\ MaxOps \in Nat

VARIABLES mem,              \* word number -> value
          mem_brk,          \* bytes handed out by mem_sbrk
          flag, useflag,    \* mm.c's static variables
          coalesceFlag,     \* ... and the one in mm_realloc
          blocks,           \* the driver's blocks: id -> pointer and size
          verdict,          \* what the driver says of the trace
          traces, ops       \* traces begun, operations done

vars == <<mem, mem_brk, flag, useflag, coalesceFlag, blocks, verdict, traces, ops>>

WORDSIZE == 4
DOUBLESIZE == 8
ALIGN(size) == 8 * ((size + 7) \div 8)

-----------------------------------------------------------------------------
(* Words, headers and footers; m is a memory. *)

GET(m, p) == m[p \div WORDSIZE]
PUT(m, p, val) == [m EXCEPT ![p \div WORDSIZE] = val]
ListHead(i) == i * WORDSIZE
ListEnd == LISTNUM * WORDSIZE

GETSIZE(m, p) == 8 * (GET(m, p - WORDSIZE) \div 8)
Using(m, p) == GET(m, p - WORDSIZE) % 2 = 1

(* SETHEAD, SETUSING or SETFREE, and SETFOOT. *)
SetBlock(m, p, size, bit) == PUT(PUT(m, p - WORDSIZE, size + bit), p + size, size + bit)

-----------------------------------------------------------------------------
(* The free lists: list i has the sizes up to 8 * 2^i, the last one all    *)
(* that are larger than its predecessors'.                                 *)
minLen(size) == Min({i \in 0 .. LISTNUM - 1 : size <= 8 * 2 ^ i} \cup {LISTNUM - 1})

(* The predecessor of the first block is the head of the list. *)
deleteBlock(m, p) ==
    LET next == GET(m, p)
        prev == GET(m, p + WORDSIZE)
        skipped == PUT(m, prev, next)
        linked == IF next # 0 THEN PUT(skipped, next + WORDSIZE, prev) ELSE skipped
    IN  PUT(PUT(linked, p, 0), p + WORDSIZE, 0)

(* Mutant: the block that was first does not learn of its predecessor. *)
insertUnlinked(m, p, size) ==
    LET head == ListHead(minLen(size))
    IN  PUT(PUT(PUT(m, p, GET(m, head)), p + WORDSIZE, head), head, p)

insertBlock(m, p, size) ==
    LET head == ListHead(minLen(size))
        next == GET(m, head)
        own == PUT(PUT(m, p, next), p + WORDSIZE, head)
        linked == IF next # 0 THEN PUT(own, next + WORDSIZE, p) ELSE own
    IN  PUT(linked, head, p)

(* The heap has room for so many blocks, and no list is longer. *)
MaxBlocks == MAX_HEAP \div (2 * DOUBLESIZE)

(* The first block of a list that is large enough, 0 if there is none;     *)
(* after the last block the walk along the list stays at 0.                *)
FirstFit(m, i, size) ==
    LET nth[n \in Nat] ==
            IF n = 0 THEN GET(m, ListHead(i))
            ELSE LET p == nth[n - 1] IN IF p = 0 THEN 0 ELSE GET(m, p)
        fits == {n \in 0 .. MaxBlocks : nth[n] # 0 /\ GETSIZE(m, nth[n]) >= size}
    IN  IF fits = {} THEN 0 ELSE nth[Min(fits)]

findAvailableBlock(m, size) ==
    LET hits == {i \in minLen(size) .. LISTNUM - 1 : FirstFit(m, i, size) # 0}
    IN  IF hits = {} THEN 0 ELSE FirstFit(m, Min(hits), size)

preAlloc(size) == IF size \in DOMAIN PreAlloc THEN PreAlloc[size] ELSE 0

(* Mutant: the rest of a split does not pay for its header and footer. *)
placeOver(m, size, p) ==
    LET tot == GETSIZE(m, p)
    IN  IF tot - size < DOUBLESIZE THEN SetBlock(m, p, tot, 1)
        ELSE LET rest == p + size + DOUBLESIZE
                 m2 == SetBlock(SetBlock(m, p, size, 1), rest, tot - size, 0)
             IN  insertBlock(m2, rest, tot - size)

(* A rest too small for a block of its own stays with the block. *)
placeBlock(m, size, p) ==
    LET tot == GETSIZE(m, p)
        remain == tot - size - DOUBLESIZE
        rest == p + size + DOUBLESIZE
    IN  IF remain < DOUBLESIZE THEN SetBlock(m, p, tot, 1)
        ELSE insertBlock(SetBlock(SetBlock(m, p, size, 1), rest, remain, 0), rest, remain)

-----------------------------------------------------------------------------
NoRoom(brk, incr) == brk + incr > MAX_HEAP

(* mm_malloc, with the values it finds in flag and useflag; p = 0 is NULL. *)
mm_malloc(m, brk, fl, use, size) ==
    LET use2 == use \/ size = Trigger
        adjusted == ALIGN(size)
        found == IF use2 /\ ~fl THEN 0 ELSE findAvailableBlock(m, adjusted)
        newsize == ALIGN(adjusted + preAlloc(adjusted)) + DOUBLESIZE
    IN  IF found # 0
        THEN [p |-> found, m |-> placeBlock(deleteBlock(m, found), adjusted, found),
              brk |-> brk, flag |-> fl, use |-> use2]
        ELSE IF NoRoom(brk, newsize)
        THEN [p |-> 0, m |-> m, brk |-> brk, flag |-> TRUE, use |-> use2]
        ELSE [p |-> brk + WORDSIZE,
              m |-> SetBlock(m, brk + WORDSIZE, newsize - DOUBLESIZE, 1),
              brk |-> brk + newsize, flag |-> TRUE, use |-> use2]

FollowedByFree(m, brk, p) ==
    LET next == p + GETSIZE(m, p) + DOUBLESIZE
    IN  next < brk - 1 /\ ~Using(m, next)

(* The block takes over the free one behind it. *)
Absorb(m, p, bit) ==
    LET next == p + GETSIZE(m, p) + DOUBLESIZE
    IN  SetBlock(deleteBlock(m, next), p, GETSIZE(m, p) + DOUBLESIZE + GETSIZE(m, next), bit)

(* The footer of the block before, unless p is the first. *)
PrecededByFree(m, p) == p - DOUBLESIZE > ListEnd /\ GET(m, p - DOUBLESIZE) % 2 = 0

coalesce(m, brk, p) ==
    LET prev == p - DOUBLESIZE - GETSIZE(m, p - WORDSIZE)
        first == IF PrecededByFree(m, p) THEN prev ELSE p
        m1 == IF first = p THEN m
              ELSE SetBlock(deleteBlock(m, prev), prev,
                            GETSIZE(m, prev) + GETSIZE(m, p) + DOUBLESIZE, 0)
        m2 == IF FollowedByFree(m1, brk, first) THEN Absorb(m1, first, 0) ELSE m1
    IN  insertBlock(m2, first, GETSIZE(m2, first))

mm_free(m, brk, p) ==
    IF ~Using(m, p) THEN m ELSE coalesce(SetBlock(m, p, GETSIZE(m, p), 0), brk, p)

coalesceBack(m, brk, p) == IF FollowedByFree(m, brk, p) THEN Absorb(m, p, 1) ELSE m

(* Mutant: the size to copy is read as four bytes. *)
copySizeLow(m, p, size) == Min({size, GET(m, p - DOUBLESIZE)})

(* The size to copy is read as eight bytes: the footer of the block before *)
(* and, above it, the header of this one, which makes it larger than any   *)
(* size, so the new size is taken.                                         *)
copySize(m, p, size) ==
    IF GET(m, p - WORDSIZE) > 0 THEN size ELSE Min({size, GET(m, p - DOUBLESIZE)})

(* memcpy; beyond the end of the heap stands anything, here 0. *)
memcpy(m, to, from, size) ==
    [w \in DOMAIN m |->
        LET k == w - to \div WORDSIZE
        IN  IF k \notin 0 .. size \div WORDSIZE - 1 THEN m[w]
            ELSE IF from \div WORDSIZE + k \in DOMAIN m THEN m[from \div WORDSIZE + k]
            ELSE 0]

(* mm_realloc: r as of mm_malloc. *)
mm_realloc(p, size) ==
    LET back == ~useflag \/ coalesceFlag
        m1 == IF back THEN coalesceBack(mem, mem_brk, p) ELSE mem
        spare == GETSIZE(m1, p) - size
        tight == useflag /\ spare \in 0 .. 12
        co == tight \/ (coalesceFlag /\ ~useflag)
        r == mm_malloc(m1, mem_brk, flag /\ ~tight, useflag, size)
    IN  IF spare >= 0
        THEN [p |-> p, m |-> m1, brk |-> mem_brk, flag |-> flag /\ ~tight, use |-> useflag,
              co |-> co]
        ELSE [p |-> r.p, brk |-> r.brk, flag |-> r.flag, use |-> r.use, co |-> co,
              m |-> IF r.p = 0 THEN r.m
                    ELSE mm_free(memcpy(r.m, r.p, p, copySize(r.m, p, size)), r.brk, p)]

-----------------------------------------------------------------------------
(* The driver. *)

Init ==
    /\ mem = [w \in 0 .. MAX_HEAP \div WORDSIZE - 1 |-> 0]
    /\ mem_brk = 0
    /\ flag = FALSE /\ useflag = FALSE /\ coalesceFlag = FALSE
    /\ blocks = [i \in {} |-> {}]
    /\ verdict = "valid" /\ traces = 0 /\ ops = 0

(* The heads of the lists are emptied; the rest of the heap is as it was.  *)
mm_init(m) == [w \in DOMAIN m |-> IF w < LISTNUM THEN 0 ELSE m[w]]

(* A trace begins: mem_reset_brk, clear_ranges, mm_init.  useflag and      *)
(* coalesceFlag stay as they are.                                          *)
Begin ==
    /\ traces < MaxTraces
    /\ traces' = traces + 1
    /\ mem' = mm_init(mem) /\ mem_brk' = ListEnd /\ flag' = TRUE
    /\ blocks' = [i \in {} |-> {}]
    /\ verdict' = "valid"
    /\ UNCHANGED <<useflag, coalesceFlag, ops>>

(* A trace goes on until the driver finds a fault.                         *)
Operation == /\ traces > 0 /\ verdict = "valid"
             /\ ops < MaxOps /\ ops' = ops + 1

(* add_range: the tests it makes before it accepts a payload. *)
Hi(b) == b.ptr + b.size - 1
add_range(ranges, brk, b) ==
    /\ b.ptr % 8 = 0
    /\ b.ptr \in 0 .. brk - 1 /\ Hi(b) \in 0 .. brk - 1
    /\ \A i \in DOMAIN ranges :
            LET r == ranges[i]
            IN  ~(b.ptr \in r.ptr .. Hi(r) \/ Hi(b) \in r.ptr .. Hi(r))

(* A trace numbers its blocks in the order in which it allocates them.     *)
NextId == IF Id \subseteq DOMAIN blocks THEN -1 ELSE Min(Id \ DOMAIN blocks)
Without(id) == [i \in DOMAIN blocks \ {id} |-> blocks[i]]

WordsOf(b) == b.ptr \div WORDSIZE .. Hi(b) \div WORDSIZE

memset(m, b, id) == [w \in DOMAIN m |-> IF w \in WordsOf(b) THEN id ELSE m[w]]

(* What malloc or realloc has done to the allocator. *)
Returns(r) == /\ mem_brk' = r.brk /\ flag' = r.flag /\ useflag' = r.use
              /\ UNCHANGED traces

Fails(r, message) == mem' = r.m /\ verdict' = message /\ UNCHANGED blocks

Takes(id, r, b) ==
    /\ mem' = memset(r.m, b, id)
    /\ blocks' = [i \in DOMAIN blocks \cup {id} |-> IF i = id THEN b ELSE blocks[i]]
    /\ UNCHANGED verdict

Alloc(id, size) ==
    LET r == mm_malloc(mem, mem_brk, flag, useflag, size)
        b == [ptr |-> r.p, size |-> size]
    IN  /\ Operation /\ id = NextId
        /\ Returns(r)
        /\ UNCHANGED coalesceFlag
        /\ IF r.p = 0 THEN Fails(r, "mm_malloc failed")
           ELSE IF ~add_range(blocks, r.brk, b) THEN Fails(r, "bad payload")
           ELSE Takes(id, r, b)

Realloc(id, size) ==
    LET old == blocks[id]
        r == mm_realloc(old.ptr, size)
        b == [ptr |-> r.p, size |-> size]
        kept == [ptr |-> r.p, size |-> Min({size, old.size})]
    IN  /\ Operation /\ id \in DOMAIN blocks
        /\ Returns(r)
        /\ coalesceFlag' = r.co
        /\ IF r.p = 0 THEN Fails(r, "mm_realloc failed")
           ELSE IF ~add_range(Without(id), r.brk, b) THEN Fails(r, "bad payload")
           ELSE IF \E w \in WordsOf(kept) : r.m[w] # id THEN Fails(r, "data not preserved")
           ELSE Takes(id, r, b)

Free(id) ==
    /\ Operation /\ id \in DOMAIN blocks
    /\ mem' = mm_free(mem, mem_brk, blocks[id].ptr)
    /\ blocks' = Without(id)
    /\ UNCHANGED <<mem_brk, flag, useflag, coalesceFlag, verdict, traces>>

Next ==
    \/ Begin
    \/ \E id \in Id : \/ \E size \in Sizes : Alloc(id, size) \/ Realloc(id, size)
                       \/ Free(id)

Spec == Init /\ [][Next]_vars

-----------------------------------------------------------------------------
(* Types; in particular no size has been taken below 0.                    *)
TypeOK ==
    /\ mem \in [0 .. MAX_HEAP \div WORDSIZE - 1 -> Nat]
    /\ mem_brk \in 0 .. MAX_HEAP
    /\ {flag, useflag, coalesceFlag} \subseteq BOOLEAN
    /\ DOMAIN blocks \subseteq Id
    /\ \A i \in DOMAIN blocks : blocks[i].ptr \in 1 .. mem_brk - 1 /\ blocks[i].size \in Sizes
    /\ traces \in 0 .. MaxTraces /\ ops \in 0 .. MaxOps

Behind(p) == p + GETSIZE(mem, p) + DOUBLESIZE

(* Every block of the heap, from header to header; the walk stays behind   *)
(* the last one.                                                           *)
HeapBlocks ==
    LET nth[n \in Nat] ==
            IF n = 0 THEN ListEnd + WORDSIZE
            ELSE LET p == nth[n - 1] IN IF p > mem_brk THEN p ELSE Behind(p)
    IN  {nth[n] : n \in 0 .. MaxBlocks} \cap 0 .. mem_brk

FreeBlocks == {p \in HeapBlocks : ~Using(mem, p)}

(* The blocks tile the heap, and each header is repeated in the footer     *)
(* (what mm_check asserts), for coalescing reads the footers.              *)
Tiled == \A p \in HeapBlocks :
    /\ GETSIZE(mem, p) >= DOUBLESIZE
    /\ Behind(p) - WORDSIZE <= mem_brk
    /\ GET(mem, p - WORDSIZE) = GET(mem, p + GETSIZE(mem, p))

(* The free lists hold the free blocks, each in the list of its size and   *)
(* reachable from its head, and every link back is the inverse of one      *)
(* forward: deleteBlock trusts both.                                       *)
ListsAreFreeBlocks ==
    traces > 0 => \A i \in 0 .. LISTNUM - 1 :
        LET next(p) == GET(mem, p)
            step(S) == (S \cup {next(p) : p \in S}) \ {0}
            reached[n \in Nat] ==
                IF n = 0 THEN {next(ListHead(i))} \ {0} ELSE step(reached[n - 1])
            listed == reached[Cardinality(FreeBlocks)]
        IN  /\ listed = {p \in FreeBlocks : minLen(GETSIZE(mem, p)) = i}
            /\ \A p \in listed \cup {ListHead(i)} :
                   next(p) # 0 => GET(mem, next(p) + WORDSIZE) = p

(* Coalescing is complete: however frees, splits and reallocations are     *)
(* ordered, no two free blocks are neighbours.                             *)
NoFreeNeighbours == \A p \in FreeBlocks : Behind(p) \notin FreeBlocks

(* The blocks in use are the driver's, each large enough: none leaks when  *)
(* realloc moves it, none is lost to a neighbour.                          *)
UsedAreLive ==
    verdict = "valid" =>
        /\ HeapBlocks \ FreeBlocks = {blocks[i].ptr : i \in DOMAIN blocks}
        /\ \A i \in DOMAIN blocks : GETSIZE(mem, blocks[i].ptr) >= blocks[i].size

(* After every call headers, footers, lists and the driver's blocks say    *)
(* the same about every byte of the heap.                                  *)
HeapConsistent == Tiled /\ ListsAreFreeBlocks /\ NoFreeNeighbours /\ UsedAreLive

(* The driver finds no fault with a trace but a heap that is full.         *)
DriverAccepts == verdict \in {"valid", "mm_malloc failed", "mm_realloc failed"}

(* mm_init starts a trace from the same state of the allocator whatever    *)
(* came before.                                                            *)
StartsAfresh == [][traces' # traces => ~useflag' /\ ~coalesceFlag']_vars

(* The allocator keeps what HeapAPI promises: metadata is never written    *)
(* into a live block, nor two live blocks over each other.                 *)
API == INSTANCE HeapAPI WITH ALIGNMENT <- 8,
    live <- [i \in DOMAIN blocks |-> [ptr |-> blocks[i].ptr, size |-> blocks[i].size,
                                      words |-> {mem[w] : w \in WordsOf(blocks[i])}]]
ImplementsAPI == API!Spec
=============================================================================
