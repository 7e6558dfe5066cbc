----------------------------- MODULE HeapProofs -----------------------------
(***************************************************************************)
(* Whatever a trace asks for, in any order, and however many lists, sizes  *)
(* and bytes there are: the allocator's headers, footers and lists say the *)
(* same of every block, the driver finds no fault with it, and it keeps    *)
(* the promises of HeapAPI.                                                *)
(*                                                                         *)
(* The proof is about a set B of blocks, of which the program knows only   *)
(* what it reads from the words of the heap: B tiles the heap (Tiles), and *)
(* a part of it is in the lists (Lists).  Each of the program's steps is   *)
(* shown to lead from one such set to another; between two of them a free  *)
(* block is in no list.  That no list is a ring is said of its blocks at   *)
(* once: among any of them there is one whose predecessor is not.          *)
(***************************************************************************)
EXTENDS Heap, TLAPS, FiniteSetTheorems, WellFoundedInduction

Addr == {a \in 0 .. MAX_HEAP - 1 : a % 4 = 0}
Mem == [0 .. MAX_HEAP \div WORDSIZE - 1 -> Nat]
Index == 0 .. LISTNUM - 1
FirstBlock == ListEnd + WORDSIZE
Payloads == {p \in Addr : p % 8 = 0 /\ p >= FirstBlock}

After(m, p) == p + GETSIZE(m, p) + DOUBLESIZE

(* B is the blocks of the heap, from the first to the break. *)
Tiles(m, brk, B) ==
    /\ m \in Mem
    /\ brk \in Nat /\ brk <= MAX_HEAP
    /\ B \subseteq Payloads
    /\ \A p \in B : /\ GETSIZE(m, p) >= DOUBLESIZE
                    /\ GET(m, p - WORDSIZE) = GET(m, p + GETSIZE(m, p))
                    /\ p < brk
                    /\ After(m, p) \in B \cup {brk + WORDSIZE}
    /\ \A p, q \in B : p < q => After(m, p) <= q
    /\ FirstBlock \in B \cup {brk + WORDSIZE}
    /\ \A q \in B \cup {brk + WORDSIZE} : q = FirstBlock \/ \E p \in B : After(m, p) = q

Heads == {ListHead(i) : i \in Index}
(* The list of a head or of a block. *)
ListOf(m, x) == IF x < ListEnd THEN x \div WORDSIZE ELSE minLen(GETSIZE(m, x))

(* N is the blocks in the lists. *)
Lists(m, N) ==
    /\ \A x \in N \cup Heads : GET(m, x) # 0 =>
            /\ GET(m, x) \in N
            /\ ListOf(m, GET(m, x)) = ListOf(m, x)
            /\ GET(m, GET(m, x) + WORDSIZE) = x
    /\ \A p \in N :
            /\ GET(m, p + WORDSIZE) \in N \cup Heads
            /\ ListOf(m, GET(m, p + WORDSIZE)) = ListOf(m, p)
            /\ GET(m, GET(m, p + WORDSIZE)) = p
    /\ \A S \in SUBSET N : S # {} => \E p \in S : GET(m, p + WORDSIZE) \notin S

FreeOf(m, B) == {p \in B : ~Using(m, p)}
UsedOf(m, B) == {p \in B : Using(m, p)}
Apart(m, S) == \A p \in S : After(m, p) \notin S

(* The heap between two calls. *)
Heap(m, brk, B) == Tiles(m, brk, B) /\ Lists(m, FreeOf(m, B)) /\ Apart(m, FreeOf(m, B))

(* The driver's blocks. *)
Owns(m, B, b, id) ==
    /\ b.ptr \in UsedOf(m, B)
    /\ b.size \in Sizes
    /\ b.size <= GETSIZE(m, b.ptr)
    /\ \A w \in WordsOf(b) : m[w] = id
Owners(m, B, own) ==
    /\ \A i \in DOMAIN own : Owns(m, B, own[i], i)
    /\ \A i, j \in DOMAIN own : own[i].ptr = own[j].ptr => i = j
    /\ \A p \in UsedOf(m, B) : \E i \in DOMAIN own : own[i].ptr = p

InvFor(B) ==
    /\ DOMAIN blocks \in SUBSET Id
    /\ {flag, useflag, coalesceFlag} \subseteq BOOLEAN
    /\ traces \in Nat
    /\ verdict \in {"valid", "mm_malloc failed", "mm_realloc failed"}
    /\ IF traces = 0 THEN mem \in Mem /\ mem_brk = 0 /\ blocks = [i \in {} |-> {}]
       ELSE Heap(mem, mem_brk, B) /\ Owners(mem, B, blocks)
IInv == \E B \in SUBSET Payloads : InvFor(B)

-----------------------------------------------------------------------------
(* Words. *)

LEMMA LeastNat ==
    ASSUME NEW T \in SUBSET Nat, T # {}
    PROVE  \E x \in T : \A y \in T : x <= y
<1>1. PICK x \in T : \A y \in T : <<y, x>> \notin OpToRel(<, Nat)
  BY NatLessThanWellFounded, WFMin
<1>2. \A y \in T : ~(y < x)
  BY <1>1 DEF OpToRel
<1> QED BY <1>2

LEMMA MinIsMember ==
    ASSUME NEW T \in SUBSET Nat, T # {}
    PROVE  Min(T) \in T
<1>1. \E x \in T : \A y \in T : x <= y
  BY LeastNat
<1> QED BY <1>1 DEF Min

LEMMA Constants ==
    /\ LISTNUM \in Nat /\ LISTNUM >= 1 /\ MAX_HEAP \in Nat /\ MAX_HEAP % 4 = 0
    /\ ListEnd = 4 * LISTNUM /\ ListEnd <= MAX_HEAP /\ FirstBlock = ListEnd + 4
    /\ FirstBlock % 8 = 0
  BY HeapAssumption DEF ListEnd, WORDSIZE, FirstBlock

(* A word is its address, and only what has been put there changes it.     *)
LEMMA WordOfAddr ==
    ASSUME NEW a \in Addr
    PROVE  /\ a \in Nat /\ a \div 4 \in 0 .. MAX_HEAP \div 4 - 1
           /\ \A b \in Addr : a \div 4 = b \div 4 => a = b
<1>1. a \in Nat /\ a < MAX_HEAP /\ a % 4 = 0 /\ MAX_HEAP \in Nat /\ MAX_HEAP % 4 = 0
  BY Constants DEF Addr
<1>2. a \div 4 \in 0 .. MAX_HEAP \div 4 - 1
  BY <1>1
<1>3. ASSUME NEW b \in Addr, a \div 4 = b \div 4 PROVE a = b
  <2>1. b \in Nat /\ b % 4 = 0
    BY Constants DEF Addr
  <2> QED BY <1>1, <1>3, <2>1
<1> QED BY <1>1, <1>2, <1>3

LEMMA GetNat ==
    ASSUME NEW m \in Mem, NEW a \in Addr
    PROVE  GET(m, a) \in Nat
  BY WordOfAddr DEF GET, Mem, WORDSIZE

LEMMA PutGet ==
    ASSUME NEW m \in Mem, NEW a \in Addr, NEW v \in Nat
    PROVE  /\ PUT(m, a, v) \in Mem
           /\ GET(PUT(m, a, v), a) = v
           /\ \A b \in Addr : b # a => GET(PUT(m, a, v), b) = GET(m, b)
<1>1. a \div 4 \in 0 .. MAX_HEAP \div 4 - 1
  BY WordOfAddr
<1>2. PUT(m, a, v) = [m EXCEPT ![a \div 4] = v]
  BY DEF PUT, WORDSIZE
<1> DEFINE k == a \div 4
<1>3. PUT(m, a, v) \in Mem /\ GET(PUT(m, a, v), a) = v
  <2> HIDE DEF k
  <2>1. [m EXCEPT ![k] = v] \in Mem /\ [m EXCEPT ![k] = v][k] = v
    BY <1>1 DEF Mem, WORDSIZE, k
  <2> QED BY <2>1, <1>2 DEF k, GET, WORDSIZE
<1>4. ASSUME NEW b \in Addr, b # a PROVE GET(PUT(m, a, v), b) = GET(m, b)
  <2> DEFINE j == b \div 4
  <2>1. j # k /\ j \in 0 .. MAX_HEAP \div 4 - 1
    BY <1>4, WordOfAddr
  <2> HIDE DEF j, k
  <2>2. [m EXCEPT ![k] = v][j] = m[j]
    BY <2>1 DEF Mem, WORDSIZE
  <2> QED BY <2>2, <1>2 DEF j, k, GET, WORDSIZE
<1> QED BY <1>3, <1>4

(* A header is a size and a bit. *)
LEMMA HeaderParts ==
    ASSUME NEW s \in Nat, s % 8 = 0, NEW bit \in 0 .. 1
    PROVE  8 * ((s + bit) \div 8) = s /\ (s + bit) % 2 = bit
  OBVIOUS

LEMMA SizeOfWord ==
    ASSUME NEW h \in Nat
    PROVE  8 * (h \div 8) \in Nat /\ (8 * (h \div 8)) % 8 = 0
  OBVIOUS

LEMMA Aligned ==
    ASSUME NEW s \in Nat
    PROVE  ALIGN(s) \in Nat /\ ALIGN(s) % 8 = 0 /\ s <= ALIGN(s) /\ ALIGN(s) < s + 8
  BY DEF ALIGN

LEMMA minLenIndex ==
    ASSUME NEW size
    PROVE  minLen(size) \in Index
<1> DEFINE T == {i \in 0 .. LISTNUM - 1 : size <= 8 * 2 ^ i} \cup {LISTNUM - 1}
<1>1. T \subseteq Index /\ T # {} /\ T \subseteq Nat
  BY Constants DEF Index
<1>2. Min(T) \in T
  <2> HIDE DEF T
  <2> QED BY <1>1, MinIsMember
<1> HIDE DEF T
<1>3. Min(T) \in Index
  BY <1>1, <1>2
<1> QED BY <1>3 DEF minLen, T

-----------------------------------------------------------------------------
(* Blocks. *)

LEMMA SizeNat ==
    ASSUME NEW m \in Mem, NEW p \in Payloads
    PROVE  /\ p \in Nat /\ p % 8 = 0 /\ p \in Addr /\ p - 4 \in Addr /\ p >= FirstBlock
           /\ GETSIZE(m, p) \in Nat /\ GETSIZE(m, p) % 8 = 0
<1>1. p \in Nat /\ p % 8 = 0 /\ p \in Addr /\ p >= FirstBlock
  BY Constants DEF Payloads, Addr
<1>2. p - 4 \in Addr
  <2>1. p \in Nat /\ p < MAX_HEAP /\ p % 4 = 0 /\ p >= 4 /\ MAX_HEAP \in Nat
    BY <1>1, Constants DEF Addr
  <2>2. (p - 4) % 4 = 0 /\ p - 4 \in 0 .. MAX_HEAP - 1
    BY <2>1
  <2> QED BY <2>2 DEF Addr
<1>3. GET(m, p - 4) \in Nat
  BY <1>2, GetNat
<1> QED BY <1>1, <1>2, <1>3, SizeOfWord DEF GETSIZE, WORDSIZE

LEMMA BlockFacts ==
    ASSUME NEW m, NEW brk, NEW B, Tiles(m, brk, B), NEW p \in B
    PROVE  /\ m \in Mem /\ brk \in Nat /\ brk <= MAX_HEAP /\ MAX_HEAP \in Nat
           /\ p \in Nat /\ p % 8 = 0 /\ p >= FirstBlock /\ p >= 8
           /\ p \in Addr /\ p - 4 \in Addr /\ p + 4 \in Addr
           /\ GETSIZE(m, p) \in Nat /\ GETSIZE(m, p) % 8 = 0 /\ GETSIZE(m, p) >= 8
           /\ p + GETSIZE(m, p) \in Addr
           /\ After(m, p) = p + GETSIZE(m, p) + 8 /\ After(m, p) <= brk + 4
           /\ After(m, p) \in Nat /\ After(m, p) % 8 = 0
<1>1. m \in Mem /\ brk \in Nat /\ brk <= MAX_HEAP /\ p \in Payloads /\ GETSIZE(m, p) >= 8
  BY DEF Tiles, DOUBLESIZE
<1>2. p \in Nat /\ p % 8 = 0 /\ p \in Addr /\ p - 4 \in Addr /\ p >= FirstBlock
      /\ GETSIZE(m, p) \in Nat /\ GETSIZE(m, p) % 8 = 0
  BY <1>1, SizeNat
<1>3. MAX_HEAP \in Nat /\ p >= 8
  BY <1>2, Constants
<1>4. After(m, p) = p + GETSIZE(m, p) + 8
  BY DEF After, DOUBLESIZE
<1>5. After(m, p) <= brk + 4
  <2>1. After(m, p) \in B \cup {brk + 4} /\ \A q \in B : q < brk
    BY DEF Tiles, WORDSIZE
  <2>2. CASE After(m, p) \in B
    <3>1. After(m, p) < brk
      BY <2>1, <2>2
    <3> QED BY <3>1, <1>1, <1>2, <1>4
  <2> QED BY <2>1, <2>2, <1>1
<1> DEFINE s == GETSIZE(m, p)
<1>6. After(m, p) \in Nat /\ After(m, p) % 8 = 0 /\ p + 4 \in Addr /\ p + s \in Addr
  <2> HIDE DEF s
  <2>1. s \in Nat /\ s % 8 = 0 /\ s >= 8 /\ p + s + 8 <= brk + 4
    BY <1>1, <1>2, <1>4, <1>5 DEF s
  <2>2. (p + s + 8) % 8 = 0 /\ (p + s) % 4 = 0 /\ (p + 4) % 4 = 0
    BY <1>2, <2>1
  <2>3. p + s \in 0 .. MAX_HEAP - 1 /\ p + 4 \in 0 .. MAX_HEAP - 1 /\ p + s + 8 \in Nat
    BY <1>1, <1>2, <1>3, <2>1
  <2> QED BY <2>2, <2>3, <1>4 DEF Addr, s
<1> QED BY <1>1, <1>2, <1>3, <1>4, <1>5, <1>6

LEMMA Separate ==
    ASSUME NEW m, NEW brk, NEW B, Tiles(m, brk, B), NEW p \in B, NEW q \in B, p # q
    PROVE  After(m, p) <= q \/ After(m, q) <= p
<1>1. p \in Nat /\ q \in Nat
  BY BlockFacts
<1>2. p < q => After(m, p) <= q
  BY DEF Tiles
<1>3. q < p => After(m, q) <= p
  BY DEF Tiles
<1> QED BY <1>1, <1>2, <1>3

LEMMA HeadFacts ==
    ASSUME NEW i \in Index
    PROVE  /\ ListHead(i) \in Heads /\ ListHead(i) \in Addr /\ ListHead(i) \in Nat
           /\ ListHead(i) < ListEnd /\ \A m : ListOf(m, ListHead(i)) = i
<1>1. i \in Nat /\ i < LISTNUM /\ ListHead(i) = 4 * i
  BY Constants DEF Index, ListHead, WORDSIZE
<1>2. 4 * i \in Nat /\ 4 * i < ListEnd /\ (4 * i) % 4 = 0 /\ (4 * i) \div 4 = i
  BY <1>1, Constants
<1>3. 4 * i \in Addr
  BY <1>1, <1>2, Constants DEF Addr
<1> QED BY <1>1, <1>2, <1>3 DEF Heads, ListOf, WORDSIZE

LEMMA HeadIs ==
    ASSUME NEW x \in Heads
    PROVE  x \in Addr /\ x \in Nat /\ x < ListEnd /\ \E i \in Index : x = ListHead(i)
  BY HeadFacts DEF Heads

(* Where the lists keep their links. *)
LinkAddrs(N) == Heads \cup N \cup {p + 4 : p \in N}

LEMMA BlocksAreNoHeads ==
    ASSUME NEW m, NEW brk, NEW B, Tiles(m, brk, B), NEW p \in B
    PROVE  /\ p \notin Heads /\ ~(p < ListEnd) /\ p # 0 /\ ListOf(m, p) = minLen(GETSIZE(m, p))
           /\ ListOf(m, p) \in Index
<1>1. p \in Nat /\ p >= FirstBlock
  BY BlockFacts
<1>2. ~(p < ListEnd) /\ p # 0
  BY <1>1, Constants
<1> QED BY <1>2, HeadIs, minLenIndex DEF ListOf

(* Links are not tags, and tell apart whose they are. *)
LEMMA LinkIsNoTag ==
    ASSUME NEW m, NEW brk, NEW B, Tiles(m, brk, B), NEW N \in SUBSET B, NEW q \in B
    PROVE  q - 4 \notin LinkAddrs(N) /\ q + GETSIZE(m, q) \notin LinkAddrs(N)
<1>1. q \in Nat /\ GETSIZE(m, q) \in Nat /\ GETSIZE(m, q) >= 8 /\ q >= FirstBlock
      /\ After(m, q) = q + GETSIZE(m, q) + 8 /\ q % 8 = 0 /\ GETSIZE(m, q) % 8 = 0
  BY BlockFacts
<1>2. q - 4 \notin Heads /\ q + GETSIZE(m, q) \notin Heads
  <2>1. ListEnd <= q - 4 /\ ListEnd <= q + GETSIZE(m, q) /\ ListEnd \in Nat
    BY <1>1, Constants
  <2>2. \A x \in Heads : x \in Nat /\ x < ListEnd
    BY HeadIs
  <2> QED BY <2>1, <2>2, <1>1
<1>3. ASSUME NEW p \in N
      PROVE  p # q - 4 /\ p # q + GETSIZE(m, q) /\ p + 4 # q - 4 /\ p + 4 # q + GETSIZE(m, q)
  <2>1. p \in B /\ p \in Nat /\ GETSIZE(m, p) \in Nat /\ GETSIZE(m, p) >= 8
        /\ After(m, p) = p + GETSIZE(m, p) + 8 /\ p % 8 = 0
    BY BlockFacts
  <2>2. CASE p = q
    BY <1>1, <2>2
  <2>3. CASE p # q
    <3>1. After(m, p) <= q \/ After(m, q) <= p
      BY <2>1, <2>3, Separate
    <3> QED BY <1>1, <2>1, <3>1
  <2> QED BY <2>2, <2>3
<1> QED BY <1>2, <1>3 DEF LinkAddrs

LEMMA LinksDistinct ==
    ASSUME NEW m, NEW brk, NEW B, Tiles(m, brk, B), NEW N \in SUBSET B,
           NEW x \in N \cup Heads, NEW q \in N
    PROVE  x # q + 4 /\ \A y \in N : y + 4 = q + 4 => y = q
<1>1. q \in Nat /\ q % 8 = 0 /\ q >= FirstBlock
  BY BlockFacts
<1>2. CASE x \in N
  <2>1. x \in Nat /\ x % 8 = 0
    BY <1>2, BlockFacts
  <2>2. x # q + 4
    BY <1>1, <2>1
  <2> QED BY <2>2, <1>1, BlockFacts
<1>3. CASE x \in Heads
  <2>1. x \in Nat /\ x < ListEnd
    BY <1>3, HeadIs
  <2>2. x # q + 4
    BY <1>1, <2>1, Constants
  <2> QED BY <2>2, <1>1, BlockFacts
<1> QED BY <1>2, <1>3

LEMMA LinksAreAddrs ==
    ASSUME NEW m, NEW brk, NEW B, Tiles(m, brk, B), NEW N \in SUBSET B
    PROVE  LinkAddrs(N) \subseteq Addr
  BY BlockFacts, HeadIs DEF LinkAddrs

-----------------------------------------------------------------------------
(* What a step leaves alone. *)

SameAt(m, m2, A) == \A a \in A : GET(m2, a) = GET(m, a)
SameBlock(m, m2, p) == /\ GETSIZE(m2, p) = GETSIZE(m, p)
                       /\ After(m2, p) = After(m, p)
                       /\ Using(m2, p) <=> Using(m, p)

LEMMA TilesTags ==
    ASSUME NEW m, NEW brk, NEW B, Tiles(m, brk, B), NEW m2 \in Mem,
           \A p \in B : /\ GET(m2, p - 4) = GET(m, p - 4)
                        /\ GET(m2, p + GETSIZE(m, p)) = GET(m, p + GETSIZE(m, p))
    PROVE  /\ Tiles(m2, brk, B)
           /\ \A p \in B : SameBlock(m, m2, p)
<1>1. \A p \in B : /\ GETSIZE(m2, p) = GETSIZE(m, p)
                   /\ Using(m2, p) <=> Using(m, p)
  BY DEF GETSIZE, Using, WORDSIZE
<1>2. \A p \in B : After(m2, p) = After(m, p)
  BY <1>1 DEF After
<1>3. \A p \in B : /\ GETSIZE(m2, p) >= DOUBLESIZE
                   /\ GET(m2, p - WORDSIZE) = GET(m2, p + GETSIZE(m2, p))
                   /\ p < brk
                   /\ After(m2, p) \in B \cup {brk + WORDSIZE}
  BY <1>1, <1>2 DEF Tiles, WORDSIZE
<1>4. \A p, q \in B : p < q => After(m2, p) <= q
  BY <1>2 DEF Tiles
<1>5. \A q \in B \cup {brk + WORDSIZE} : q = FirstBlock \/ \E p \in B : After(m2, p) = q
  BY <1>2 DEF Tiles
<1>6. Tiles(m2, brk, B)
  BY <1>3, <1>4, <1>5 DEF Tiles
<1> QED BY <1>1, <1>2, <1>6 DEF SameBlock

LEMMA ListsFrame ==
    ASSUME NEW m, NEW m2, NEW N, N \subseteq Payloads, Lists(m, N), SameAt(m, m2, LinkAddrs(N)),
           \A p \in N : GETSIZE(m2, p) = GETSIZE(m, p)
    PROVE  Lists(m2, N)
<1>1. \A x \in N \cup Heads : GET(m2, x) = GET(m, x)
  BY DEF SameAt, LinkAddrs
<1>2. \A p \in N : GET(m2, p + WORDSIZE) = GET(m, p + WORDSIZE)
  BY DEF SameAt, LinkAddrs, WORDSIZE
<1>3. \A x \in N \cup Heads : ListOf(m2, x) = ListOf(m, x)
  <2>1. ASSUME NEW x \in N PROVE ListOf(m2, x) = ListOf(m, x)
    BY DEF ListOf
  <2>2. ASSUME NEW x \in Heads PROVE ListOf(m2, x) = ListOf(m, x)
    BY HeadIs DEF ListOf
  <2> QED BY <2>1, <2>2
<1>4. ASSUME NEW x \in N \cup Heads, GET(m2, x) # 0
      PROVE  /\ GET(m2, x) \in N
             /\ ListOf(m2, GET(m2, x)) = ListOf(m2, x)
             /\ GET(m2, GET(m2, x) + WORDSIZE) = x
  <2>1. /\ GET(m, x) \in N
        /\ ListOf(m, GET(m, x)) = ListOf(m, x)
        /\ GET(m, GET(m, x) + WORDSIZE) = x
    BY <1>1, <1>4 DEF Lists
  <2> QED BY <1>1, <1>2, <1>3, <2>1
<1>5. ASSUME NEW p \in N
      PROVE  /\ GET(m2, p + WORDSIZE) \in N \cup Heads
             /\ ListOf(m2, GET(m2, p + WORDSIZE)) = ListOf(m2, p)
             /\ GET(m2, GET(m2, p + WORDSIZE)) = p
  <2>1. /\ GET(m, p + WORDSIZE) \in N \cup Heads
        /\ ListOf(m, GET(m, p + WORDSIZE)) = ListOf(m, p)
        /\ GET(m, GET(m, p + WORDSIZE)) = p
    BY DEF Lists
  <2> QED BY <1>1, <1>2, <1>3, <2>1
<1>6. ASSUME NEW S \in SUBSET N, S # {} PROVE \E p \in S : GET(m2, p + WORDSIZE) \notin S
  <2>1. \E p \in S : GET(m, p + WORDSIZE) \notin S
    BY <1>6 DEF Lists
  <2> QED BY <1>2, <2>1
<1> QED BY <1>4, <1>5, <1>6 DEF Lists

(* Only links have been written. *)
LEMMA TilesLinks ==
    ASSUME NEW m, NEW brk, NEW B, Tiles(m, brk, B), NEW N \in SUBSET B, NEW m2 \in Mem,
           SameAt(m, m2, Addr \ LinkAddrs(N))
    PROVE  /\ Tiles(m2, brk, B)
           /\ \A p \in B : SameBlock(m, m2, p)
<1>1. ASSUME NEW p \in B
      PROVE  /\ GET(m2, p - 4) = GET(m, p - 4)
             /\ GET(m2, p + GETSIZE(m, p)) = GET(m, p + GETSIZE(m, p))
  <2>1. p - 4 \in Addr /\ p + GETSIZE(m, p) \in Addr
    BY BlockFacts
  <2>2. p - 4 \notin LinkAddrs(N) /\ p + GETSIZE(m, p) \notin LinkAddrs(N)
    BY LinkIsNoTag
  <2> QED BY <2>1, <2>2 DEF SameAt
<1> QED BY <1>1, TilesTags

(* The payload of a block that is in no list is free of links. *)
PayloadOf(m, p) == {a \in Addr : p <= a /\ a < p + GETSIZE(m, p)}

LEMMA PayloadIsNoLink ==
    ASSUME NEW m, NEW brk, NEW B, Tiles(m, brk, B), NEW N \in SUBSET B, NEW q \in B \ N
    PROVE  PayloadOf(m, q) \cap LinkAddrs(N) = {}
<1>1. q \in Nat /\ GETSIZE(m, q) \in Nat /\ q >= FirstBlock
      /\ After(m, q) = q + GETSIZE(m, q) + 8
  BY BlockFacts
<1>2. ASSUME NEW a \in PayloadOf(m, q), a \in LinkAddrs(N) PROVE FALSE
  <2>1. a \in Nat /\ q <= a /\ a < q + GETSIZE(m, q)
    BY Constants DEF PayloadOf, Addr
  <2>2. CASE a \in Heads
    BY <1>1, <2>1, <2>2, HeadIs, Constants
  <2>3. ASSUME NEW p \in N, a = p \/ a = p + 4 PROVE FALSE
    <3>1. p \in B /\ p # q /\ p \in Nat /\ GETSIZE(m, p) \in Nat /\ GETSIZE(m, p) >= 8
          /\ After(m, p) = p + GETSIZE(m, p) + 8
      BY BlockFacts
    <3>2. After(m, p) <= q \/ After(m, q) <= p
      BY <3>1, Separate
    <3> QED BY <1>1, <2>1, <2>3, <3>1, <3>2
  <2> QED BY <1>2, <2>2, <2>3 DEF LinkAddrs
<1> QED BY <1>2

LEMMA PayloadsApart ==
    ASSUME NEW m, NEW brk, NEW B, Tiles(m, brk, B), NEW p \in B, NEW q \in B, p # q
    PROVE  PayloadOf(m, p) \cap PayloadOf(m, q) = {}
<1>1. p \in Nat /\ GETSIZE(m, p) \in Nat /\ After(m, p) = p + GETSIZE(m, p) + 8
      /\ q \in Nat /\ GETSIZE(m, q) \in Nat /\ After(m, q) = q + GETSIZE(m, q) + 8
  BY BlockFacts
<1>2. After(m, p) <= q \/ After(m, q) <= p
  BY Separate
<1>3. ASSUME NEW a \in Addr, p <= a, a < p + GETSIZE(m, p), q <= a, a < q + GETSIZE(m, q)
      PROVE  FALSE
  <2>1. a \in Nat
    BY Constants DEF Addr
  <2> QED BY <1>1, <1>2, <1>3, <2>1
<1> QED BY <1>3 DEF PayloadOf

LEMMA TagsAreNoPayload ==
    ASSUME NEW m, NEW brk, NEW B, Tiles(m, brk, B), NEW p \in B, NEW q \in B
    PROVE  p - 4 \notin PayloadOf(m, q) /\ p + GETSIZE(m, p) \notin PayloadOf(m, q)
<1>1. p \in Nat /\ GETSIZE(m, p) \in Nat /\ After(m, p) = p + GETSIZE(m, p) + 8
      /\ q \in Nat /\ GETSIZE(m, q) \in Nat /\ After(m, q) = q + GETSIZE(m, q) + 8
  BY BlockFacts
<1>2. CASE p = q
  BY <1>1, <1>2 DEF PayloadOf
<1>3. CASE p # q
  <2>1. After(m, p) <= q \/ After(m, q) <= p
    BY <1>3, Separate
  <2> QED BY <1>1, <2>1 DEF PayloadOf
<1> QED BY <1>2, <1>3

-----------------------------------------------------------------------------
(* The lists. *)

LEMMA ListLinks ==
    ASSUME NEW m, NEW brk, NEW B, Tiles(m, brk, B), NEW N \in SUBSET B, Lists(m, N), NEW p \in N
    PROVE  /\ GET(m, p + 4) \in (N \cup Heads) \ {p} /\ ListOf(m, GET(m, p + 4)) = ListOf(m, p)
           /\ GET(m, GET(m, p + 4)) = p
           /\ GET(m, p) # 0 => /\ GET(m, p) \in N \ {p} /\ ListOf(m, GET(m, p)) = ListOf(m, p)
                               /\ GET(m, GET(m, p) + 4) = p
<1>1. /\ GET(m, p + 4) \in N \cup Heads /\ ListOf(m, GET(m, p + 4)) = ListOf(m, p)
      /\ GET(m, GET(m, p + 4)) = p
  BY DEF Lists, WORDSIZE
<1>2. GET(m, p) # 0 => /\ GET(m, p) \in N /\ ListOf(m, GET(m, p)) = ListOf(m, p)
                       /\ GET(m, GET(m, p) + 4) = p
  BY DEF Lists, WORDSIZE
<1>3. \E q \in {p} : GET(m, q + 4) \notin {p}
  <2>1. {p} \in SUBSET N /\ {p} # {}
    OBVIOUS
  <2> QED BY <2>1 DEF Lists, WORDSIZE
<1>4. GET(m, p + 4) # p
  BY <1>3
<1>5. GET(m, p) # 0 => GET(m, p) # p
  BY <1>2, <1>4
<1> QED BY <1>1, <1>2, <1>4, <1>5

(* The words that deleteBlock writes. *)
LEMMA deleteBlockWords ==
    ASSUME NEW m, NEW brk, NEW B, Tiles(m, brk, B), NEW N \in SUBSET B, Lists(m, N), NEW p \in N
    PROVE  /\ deleteBlock(m, p) \in Mem
           /\ \A a \in Addr : a # p /\ a # p + 4 =>
                GET(deleteBlock(m, p), a) =
                    IF GET(m, p) # 0 /\ a = GET(m, p) + 4 THEN GET(m, p + 4)
                    ELSE IF a = GET(m, p + 4) THEN GET(m, p) ELSE GET(m, a)
<1> DEFINE n == GET(m, p)
           v == GET(m, p + 4)
           m1 == PUT(m, v, n)
           m2 == IF n # 0 THEN PUT(m1, n + 4, v) ELSE m1
           m3 == PUT(m2, p, 0)
<1>1. m \in Mem /\ p \in Addr /\ p + 4 \in Addr /\ n \in Nat /\ v \in Nat
  BY BlockFacts, GetNat
<1>2. v \in Addr
  BY ListLinks, BlockFacts, HeadIs
<1>3. n # 0 => n + 4 \in Addr
  BY ListLinks, BlockFacts
<1>4. deleteBlock(m, p) = PUT(m3, p + 4, 0)
  BY DEF deleteBlock, WORDSIZE
<1> HIDE DEF n, v
<1>5. m1 \in Mem /\ \A a \in Addr : GET(m1, a) = IF a = v THEN n ELSE GET(m, a)
  BY <1>1, <1>2, PutGet
<1> HIDE DEF m1
<1>6. m2 \in Mem /\ \A a \in Addr : GET(m2, a) = IF n # 0 /\ a = n + 4 THEN v ELSE GET(m1, a)
  BY <1>1, <1>3, <1>5, PutGet
<1> HIDE DEF m2
<1>7. m3 \in Mem /\ \A a \in Addr : a # p => GET(m3, a) = GET(m2, a)
  BY <1>1, <1>6, PutGet
<1> HIDE DEF m3
<1>8. deleteBlock(m, p) \in Mem
      /\ \A a \in Addr : a # p + 4 => GET(deleteBlock(m, p), a) = GET(m3, a)
  BY <1>1, <1>4, <1>7, PutGet
<1>9. \A a \in Addr : a # p /\ a # p + 4 =>
            GET(deleteBlock(m, p), a) =
                IF n # 0 /\ a = n + 4 THEN v ELSE IF a = v THEN n ELSE GET(m, a)
  BY <1>5, <1>6, <1>7, <1>8
<1> QED BY <1>8, <1>9 DEF n, v

(* deleteBlock takes a block out of its list, and writes nothing but links. *)
LEMMA deleteBlockRight ==
    ASSUME NEW m, NEW brk, NEW B, Tiles(m, brk, B), NEW N \in SUBSET B, Lists(m, N), NEW p \in N
    PROVE  /\ deleteBlock(m, p) \in Mem
           /\ SameAt(m, deleteBlock(m, p), Addr \ LinkAddrs(N))
           /\ Lists(deleteBlock(m, p), N \ {p})
<1> DEFINE n == GET(m, p)
           v == GET(m, p + 4)
           d == deleteBlock(m, p)
           M == N \ {p}
<1>1. d \in Mem
  BY deleteBlockWords
<1>2. \A a \in Addr : a # p /\ a # p + 4 =>
            GET(d, a) = IF n # 0 /\ a = n + 4 THEN v ELSE IF a = v THEN n ELSE GET(m, a)
  BY deleteBlockWords
<1>3. v \in (N \cup Heads) \ {p} /\ ListOf(m, v) = ListOf(m, p) /\ GET(m, v) = p
  BY ListLinks
<1>4. n # 0 => n \in N \ {p} /\ ListOf(m, n) = ListOf(m, p) /\ GET(m, n + 4) = p
  BY ListLinks
<1>5. p \in LinkAddrs(N) /\ p + 4 \in LinkAddrs(N) /\ v \in LinkAddrs(N)
      /\ (n # 0 => n + 4 \in LinkAddrs(N))
  BY <1>3, <1>4 DEF LinkAddrs
<1> HIDE DEF n, v, d
<1>6. SameAt(m, d, Addr \ LinkAddrs(N))
  BY <1>2, <1>5 DEF SameAt
<1>7. \A q \in B : GETSIZE(d, q) = GETSIZE(m, q)
  BY <1>1, <1>6, TilesLinks DEF SameBlock
<1>8. \A x \in N \cup Heads : ListOf(d, x) = ListOf(m, x)
  <2>1. ASSUME NEW x \in N PROVE ListOf(d, x) = ListOf(m, x)
    BY <1>7 DEF ListOf
  <2>2. ASSUME NEW x \in Heads PROVE ListOf(d, x) = ListOf(m, x)
    BY HeadIs DEF ListOf
  <2> QED BY <2>1, <2>2
<1>9. \A x \in M \cup Heads : GET(d, x) = IF x = v THEN n ELSE GET(m, x)
  <2> TAKE x \in M \cup Heads
  <2>1. x \in Addr
    BY BlockFacts, HeadIs
  <2>2. x # p
    BY BlocksAreNoHeads
  <2>3. x # p + 4 /\ (n # 0 => x # n + 4)
    BY <1>4, LinksDistinct
  <2> QED BY <1>2, <2>1, <2>2, <2>3
<1>10. \A q \in M : GET(d, q + 4) = IF n # 0 /\ q = n THEN v ELSE GET(m, q + 4)
  <2> TAKE q \in M
  <2>1. q + 4 \in Addr
    BY BlockFacts
  <2>2. q + 4 # p /\ q + 4 # v
    BY <1>3, LinksDistinct
  <2>3. q + 4 # p + 4
    BY LinksDistinct
  <2>4. n # 0 => (q + 4 = n + 4 <=> q = n)
    BY <1>4, LinksDistinct
  <2> QED BY <1>2, <2>1, <2>2, <2>3, <2>4
<1>11. \A x \in N \cup Heads : GET(m, x) # 0 =>
            GET(m, x) \in N /\ ListOf(m, GET(m, x)) = ListOf(m, x) /\ GET(m, GET(m, x) + 4) = x
  BY DEF Lists, WORDSIZE
<1>12. \A q \in N : /\ GET(m, q + 4) \in N \cup Heads
                    /\ ListOf(m, GET(m, q + 4)) = ListOf(m, q)
                    /\ GET(m, GET(m, q + 4)) = q
  BY DEF Lists, WORDSIZE
<1>13. \A S \in SUBSET N : S # {} => \E q \in S : GET(m, q + 4) \notin S
  BY DEF Lists, WORDSIZE
<1>14. ASSUME NEW x \in M \cup Heads, GET(d, x) # 0
       PROVE  GET(d, x) \in M /\ ListOf(d, GET(d, x)) = ListOf(d, x) /\ GET(d, GET(d, x) + 4) = x
  <2>1. CASE x = v
    <3>1. GET(d, x) = n /\ n # 0 /\ n \in M
      BY <1>4, <1>9, <1>14, <2>1
    <3>2. GET(d, n + 4) = v
      BY <1>10, <3>1
    <3> QED BY <1>3, <1>4, <1>8, <2>1, <3>1, <3>2
  <2>2. CASE x # v
    <3>1. GET(d, x) = GET(m, x)
      BY <1>9, <2>2
    <3>2. x \in N \cup Heads
      OBVIOUS
    <3> DEFINE y == GET(m, x)
    <3>3. y \in N /\ ListOf(m, y) = ListOf(m, x) /\ GET(m, y + 4) = x
      BY <1>11, <1>14, <3>1, <3>2
    <3>4. y # p
      BY <2>2, <3>3 DEF v
    <3>5. ~(n # 0 /\ y = n)
      BY <1>4, <3>3, BlocksAreNoHeads
    <3>6. GET(d, y + 4) = x
      BY <1>10, <3>3, <3>4, <3>5
    <3> QED BY <1>8, <3>1, <3>2, <3>3, <3>4, <3>6
  <2> QED BY <2>1, <2>2
<1>15. ASSUME NEW q \in M
       PROVE  /\ GET(d, q + 4) \in M \cup Heads
              /\ ListOf(d, GET(d, q + 4)) = ListOf(d, q)
              /\ GET(d, GET(d, q + 4)) = q
  <2>1. CASE n # 0 /\ q = n
    <3>1. GET(d, q + 4) = v /\ v \in M \cup Heads
      BY <1>3, <1>10, <2>1
    <3>2. GET(d, v) = n
      BY <1>9, <3>1
    <3> QED BY <1>3, <1>4, <1>8, <2>1, <3>1, <3>2
  <2>2. CASE ~(n # 0 /\ q = n)
    <3> DEFINE u == GET(m, q + 4)
    <3>1. GET(d, q + 4) = u
      BY <1>10, <2>2
    <3>2. u \in N \cup Heads /\ ListOf(m, u) = ListOf(m, q) /\ GET(m, u) = q
      BY <1>12
    <3>3. q # 0
      BY BlocksAreNoHeads
    <3>4. u # p
      BY <2>2, <3>2, <3>3 DEF n
    <3>5. u # v
      BY <1>3, <3>2
    <3>6. GET(d, u) = q
      BY <1>9, <3>2, <3>4, <3>5
    <3> QED BY <1>8, <3>1, <3>2, <3>4, <3>6
  <2> QED BY <2>1, <2>2
<1>16. ASSUME NEW S \in SUBSET M, S # {} PROVE \E q \in S : GET(d, q + 4) \notin S
  <2>1. PICK q \in S : GET(m, q + 4) \notin S
    BY <1>13, <1>16
  <2>2. CASE ~(n # 0 /\ q = n) \/ v \notin S
    BY <1>10, <2>1, <2>2
  <2>3. CASE n # 0 /\ q = n /\ v \in S
    <3>1. S \cup {p} \in SUBSET N /\ S \cup {p} # {}
      OBVIOUS
    <3>2. PICK r \in S \cup {p} : GET(m, r + 4) \notin S \cup {p}
      BY <1>13, <3>1
    <3>3. r # p
      BY <2>3, <3>2 DEF v
    <3>4. r # n
      BY <1>4, <2>3, <3>2
    <3>5. GET(d, r + 4) = GET(m, r + 4)
      BY <1>10, <3>3, <3>4
    <3> QED BY <3>2, <3>3, <3>5
  <2> QED BY <2>2, <2>3
<1>17. Lists(d, M)
  BY <1>14, <1>15, <1>16 DEF Lists, WORDSIZE
<1> QED BY <1>1, <1>6, <1>17 DEF d

(* The words that insertBlock writes. *)
LEMMA insertBlockWords ==
    ASSUME NEW m, NEW brk, NEW B, Tiles(m, brk, B), NEW N \in SUBSET B, Lists(m, N),
           NEW p \in B \ N, NEW h, h = ListHead(minLen(GETSIZE(m, p)))
    PROVE  /\ insertBlock(m, p, GETSIZE(m, p)) \in Mem
           /\ \A a \in Addr :
                GET(insertBlock(m, p, GETSIZE(m, p)), a) =
                    IF a = h THEN p
                    ELSE IF GET(m, h) # 0 /\ a = GET(m, h) + 4 THEN p
                    ELSE IF a = p + 4 THEN h
                    ELSE IF a = p THEN GET(m, h) ELSE GET(m, a)
<1> DEFINE n == GET(m, h)
           m1 == PUT(m, p, n)
           m2 == PUT(m1, p + 4, h)
           m3 == IF n # 0 THEN PUT(m2, n + 4, p) ELSE m2
           d == insertBlock(m, p, GETSIZE(m, p))
<1>1. m \in Mem /\ p \in Addr /\ p + 4 \in Addr /\ p \in Nat
  BY BlockFacts
<1>2. h \in Heads /\ h \in Addr /\ h \in Nat
  BY minLenIndex, HeadFacts
<1>3. n \in Nat /\ (n # 0 => n \in N)
  BY <1>1, <1>2, GetNat DEF Lists
<1>4. n # 0 => n + 4 \in Addr
  BY <1>3, BlockFacts
<1>5. d = PUT(m3, h, p)
  BY DEF insertBlock, WORDSIZE
<1> HIDE DEF n, d
<1>6. m1 \in Mem /\ \A a \in Addr : GET(m1, a) = IF a = p THEN n ELSE GET(m, a)
  BY <1>1, <1>3, PutGet
<1> HIDE DEF m1
<1>7. m2 \in Mem /\ \A a \in Addr : GET(m2, a) = IF a = p + 4 THEN h ELSE GET(m1, a)
  BY <1>1, <1>2, <1>6, PutGet
<1> HIDE DEF m2
<1>8. m3 \in Mem /\ \A a \in Addr : GET(m3, a) = IF n # 0 /\ a = n + 4 THEN p ELSE GET(m2, a)
  <2>1. CASE n = 0
    BY <1>7, <2>1
  <2>2. CASE n # 0
    <3>1. n + 4 \in Addr /\ m3 = PUT(m2, n + 4, p)
      BY <1>4, <2>2
    <3> DEFINE c == n + 4
    <3> HIDE DEF c, m3
    <3>0. c \in Addr /\ m3 = PUT(m2, c, p)
      BY <3>1 DEF c
    <3>2. m3 \in Mem /\ \A a \in Addr : GET(m3, a) = IF a = c THEN p ELSE GET(m2, a)
      BY <1>1, <1>7, <3>0, PutGet
    <3> QED BY <2>2, <3>2 DEF c
  <2> QED BY <2>1, <2>2
<1> HIDE DEF m3
<1>9. d \in Mem /\ \A a \in Addr : GET(d, a) = IF a = h THEN p ELSE GET(m3, a)
  BY <1>1, <1>2, <1>5, <1>8, PutGet
<1>10. \A a \in Addr :
                GET(d, a) = IF a = h THEN p ELSE IF n # 0 /\ a = n + 4 THEN p
                            ELSE IF a = p + 4 THEN h ELSE IF a = p THEN n ELSE GET(m, a)
  BY <1>6, <1>7, <1>8, <1>9
<1> QED BY <1>9, <1>10 DEF n, d

(* insertBlock puts a block at the head of the list of its size, and       *)
(* writes nothing but links.                                               *)
LEMMA insertBlockRight ==
    ASSUME NEW m, NEW brk, NEW B, Tiles(m, brk, B), NEW N \in SUBSET B, Lists(m, N),
           NEW p \in B \ N
    PROVE  /\ insertBlock(m, p, GETSIZE(m, p)) \in Mem
           /\ SameAt(m, insertBlock(m, p, GETSIZE(m, p)), Addr \ LinkAddrs(N \cup {p}))
           /\ Lists(insertBlock(m, p, GETSIZE(m, p)), N \cup {p})
<1> DEFINE h == ListHead(minLen(GETSIZE(m, p)))
           n == GET(m, h)
           d == insertBlock(m, p, GETSIZE(m, p))
           M == N \cup {p}
<1>1. d \in Mem
  BY insertBlockWords
<1>2. \A a \in Addr :
                GET(d, a) = IF a = h THEN p ELSE IF n # 0 /\ a = n + 4 THEN p
                            ELSE IF a = p + 4 THEN h ELSE IF a = p THEN n ELSE GET(m, a)
  BY insertBlockWords
<1>3. h \in Heads /\ \A f : ListOf(f, h) = minLen(GETSIZE(m, p))
  BY minLenIndex, HeadFacts
<1>4. ListOf(m, p) = minLen(GETSIZE(m, p)) /\ p # 0 /\ p \notin Heads
  BY BlocksAreNoHeads
<1>5. n # 0 => n \in N /\ ListOf(m, n) = ListOf(m, h) /\ GET(m, n + 4) = h
  BY <1>3 DEF Lists, WORDSIZE
<1>6. M \in SUBSET B
  OBVIOUS
<1> HIDE DEF h, n, d
<1>7. p \in LinkAddrs(M) /\ p + 4 \in LinkAddrs(M) /\ h \in LinkAddrs(M)
      /\ (n # 0 => n + 4 \in LinkAddrs(M))
  BY <1>3, <1>5 DEF LinkAddrs
<1>8. SameAt(m, d, Addr \ LinkAddrs(M))
  BY <1>2, <1>7 DEF SameAt
<1>9. \A q \in B : GETSIZE(d, q) = GETSIZE(m, q)
  BY <1>1, <1>6, <1>8, TilesLinks DEF SameBlock
<1>10. \A x \in M \cup Heads : ListOf(d, x) = ListOf(m, x)
  <2>1. ASSUME NEW x \in M PROVE ListOf(d, x) = ListOf(m, x)
    BY <1>9 DEF ListOf
  <2>2. ASSUME NEW x \in Heads PROVE ListOf(d, x) = ListOf(m, x)
    BY HeadIs DEF ListOf
  <2> QED BY <2>1, <2>2
<1>11. \A x \in M \cup Heads : GET(d, x) = IF x = h THEN p ELSE IF x = p THEN n ELSE GET(m, x)
  <2> TAKE x \in M \cup Heads
  <2>1. x \in Addr
    BY BlockFacts, HeadIs
  <2>2. x # p + 4 /\ (n # 0 => x # n + 4)
    BY <1>5, <1>6, LinksDistinct
  <2> QED BY <1>2, <2>1, <2>2
<1>12. \A q \in M : GET(d, q + 4) = IF q = p THEN h ELSE IF n # 0 /\ q = n THEN p
                                    ELSE GET(m, q + 4)
  <2> TAKE q \in M
  <2>1. q + 4 \in Addr
    BY BlockFacts
  <2>2. q + 4 # p /\ q + 4 # h
    BY <1>3, <1>6, LinksDistinct
  <2>3. q + 4 = p + 4 <=> q = p
    BY <1>6, LinksDistinct
  <2>4. n # 0 => (q + 4 = n + 4 <=> q = n)
    BY <1>5, <1>6, LinksDistinct
  <2>5. n # 0 => n # p
    BY <1>5
  <2> QED BY <1>2, <2>1, <2>2, <2>3, <2>4, <2>5
<1>13. \A x \in N \cup Heads : GET(m, x) # 0 =>
            GET(m, x) \in N /\ ListOf(m, GET(m, x)) = ListOf(m, x) /\ GET(m, GET(m, x) + 4) = x
  BY DEF Lists, WORDSIZE
<1>14. \A q \in N : /\ GET(m, q + 4) \in N \cup Heads
                    /\ ListOf(m, GET(m, q + 4)) = ListOf(m, q)
                    /\ GET(m, GET(m, q + 4)) = q
  BY DEF Lists, WORDSIZE
<1>15. \A S \in SUBSET N : S # {} => \E q \in S : GET(m, q + 4) \notin S
  BY DEF Lists, WORDSIZE
<1>16. GET(d, h) = p /\ GET(d, p) = n /\ GET(d, p + 4) = h
  BY <1>3, <1>4, <1>11, <1>12
<1>17. ASSUME NEW x \in M \cup Heads, GET(d, x) # 0
       PROVE  GET(d, x) \in M /\ ListOf(d, GET(d, x)) = ListOf(d, x) /\ GET(d, GET(d, x) + 4) = x
  <2>1. CASE x = h
    BY <1>3, <1>4, <1>10, <1>16, <2>1
  <2>2. CASE x = p
    <3>1. n # 0 /\ n \in N /\ n # p
      BY <1>5, <1>16, <1>17, <2>2
    <3>2. GET(d, n + 4) = p
      BY <1>12, <3>1
    <3> QED BY <1>3, <1>4, <1>5, <1>10, <1>16, <2>2, <3>1, <3>2
  <2>3. CASE x # h /\ x # p
    <3> DEFINE y == GET(m, x)
    <3>1. GET(d, x) = y /\ x \in N \cup Heads
      BY <1>11, <2>3
    <3>2. y \in N /\ ListOf(m, y) = ListOf(m, x) /\ GET(m, y + 4) = x
      BY <1>13, <1>17, <3>1
    <3>3. y # p /\ ~(n # 0 /\ y = n)
      BY <1>5, <2>3, <3>2
    <3>4. GET(d, y + 4) = x
      BY <1>12, <3>2, <3>3
    <3> QED BY <1>10, <3>1, <3>2, <3>4
  <2> QED BY <2>1, <2>2, <2>3
<1>18. ASSUME NEW q \in M
       PROVE  /\ GET(d, q + 4) \in M \cup Heads
              /\ ListOf(d, GET(d, q + 4)) = ListOf(d, q)
              /\ GET(d, GET(d, q + 4)) = q
  <2>1. CASE q = p
    BY <1>3, <1>4, <1>10, <1>16, <2>1
  <2>2. CASE q # p /\ n # 0 /\ q = n
    <3>1. GET(d, q + 4) = p
      BY <1>12, <2>2
    <3> QED BY <1>3, <1>4, <1>5, <1>10, <1>16, <2>2, <3>1
  <2>3. CASE q # p /\ ~(n # 0 /\ q = n)
    <3> DEFINE u == GET(m, q + 4)
    <3>1. GET(d, q + 4) = u /\ q \in N
      BY <1>12, <2>3
    <3>2. u \in N \cup Heads /\ ListOf(m, u) = ListOf(m, q) /\ GET(m, u) = q
      BY <1>14, <3>1
    <3>3. u # p
      BY <1>4, <3>2
    <3>4. q # 0
      BY BlocksAreNoHeads
    <3>5. u # h
      BY <2>3, <3>2, <3>4 DEF n
    <3>6. GET(d, u) = q
      BY <1>11, <3>2, <3>3, <3>5
    <3> QED BY <1>10, <3>1, <3>2, <3>6
  <2> QED BY <2>1, <2>2, <2>3
<1>19. ASSUME NEW S \in SUBSET M, S # {} PROVE \E q \in S : GET(d, q + 4) \notin S
  <2>1. CASE p \in S
    <3>1. h \notin S
      BY <1>3, BlocksAreNoHeads
    <3> QED BY <1>16, <2>1, <3>1
  <2>2. CASE p \notin S
    <3>1. S \in SUBSET N
      BY <2>2
    <3>2. PICK q \in S : GET(m, q + 4) \notin S
      BY <1>15, <1>19, <3>1
    <3>3. q \in M /\ q # p
      BY <2>2
    <3> QED BY <1>12, <2>2, <3>2, <3>3
  <2> QED BY <2>1, <2>2
<1>20. Lists(d, M)
  BY <1>17, <1>18, <1>19 DEF Lists, WORDSIZE
<1> QED BY <1>1, <1>8, <1>20 DEF d

-----------------------------------------------------------------------------
(* Headers and footers. *)

LEMMA SetBlockWords ==
    ASSUME NEW m \in Mem, NEW p \in Payloads, NEW size \in Nat, size % 8 = 0, p + size \in Addr,
           NEW bit \in 0 .. 1
    PROVE  /\ SetBlock(m, p, size, bit) \in Mem
           /\ GETSIZE(SetBlock(m, p, size, bit), p) = size
           /\ Using(SetBlock(m, p, size, bit), p) <=> bit = 1
           /\ GET(SetBlock(m, p, size, bit), p - 4) = GET(SetBlock(m, p, size, bit), p + size)
           /\ SameAt(m, SetBlock(m, p, size, bit), Addr \ {p - 4, p + size})
<1> DEFINE h == p - 4
           f == p + size
           w == size + bit
           m1 == PUT(m, h, w)
           m2 == PUT(m1, f, w)
<1>1. h \in Addr /\ f \in Addr /\ w \in Nat
  BY SizeNat
<1>2. SetBlock(m, p, size, bit) = m2
  BY DEF SetBlock, WORDSIZE
<1>3. h # f
  BY SizeNat
<1>4. 8 * (w \div 8) = size /\ w % 2 = bit
  BY HeaderParts
<1> HIDE DEF h, f, w
<1>5. m1 \in Mem /\ GET(m1, h) = w /\ \A a \in Addr : a # h => GET(m1, a) = GET(m, a)
  BY <1>1, PutGet
<1> HIDE DEF m1
<1>6. m2 \in Mem /\ GET(m2, f) = w /\ \A a \in Addr : a # f => GET(m2, a) = GET(m1, a)
  BY <1>1, <1>5, PutGet
<1> HIDE DEF m2
<1>7. GET(m2, h) = w
  BY <1>1, <1>3, <1>5, <1>6
<1>8. GETSIZE(m2, p) = 8 * (GET(m2, h) \div 8) /\ (Using(m2, p) <=> GET(m2, h) % 2 = 1)
  BY DEF GETSIZE, Using, WORDSIZE, h
<1>9. SameAt(m, m2, Addr \ {h, f})
  BY <1>5, <1>6 DEF SameAt
<1> QED BY <1>2, <1>4, <1>6, <1>7, <1>8, <1>9 DEF h, f

LEMMA TagsDistinct ==
    ASSUME NEW m, NEW brk, NEW B, Tiles(m, brk, B), NEW p \in B, NEW q \in B, p # q
    PROVE  /\ q - 4 # p - 4 /\ q - 4 # p + GETSIZE(m, p)
           /\ q + GETSIZE(m, q) # p - 4 /\ q + GETSIZE(m, q) # p + GETSIZE(m, p)
<1>1. p \in Nat /\ GETSIZE(m, p) \in Nat /\ After(m, p) = p + GETSIZE(m, p) + 8
      /\ q \in Nat /\ GETSIZE(m, q) \in Nat /\ After(m, q) = q + GETSIZE(m, q) + 8
      /\ GETSIZE(m, p) % 8 = 0 /\ p % 8 = 0 /\ GETSIZE(m, q) % 8 = 0 /\ q % 8 = 0
  BY BlockFacts
<1>2. After(m, p) <= q \/ After(m, q) <= p
  BY Separate
<1> QED BY <1>1, <1>2

(* What placeBlock, coalesce and mm_malloc do to headers and footers.      *)
Marked(m, p, bit) == SetBlock(m, p, GETSIZE(m, p), bit)
Joint(m, p, q) == GETSIZE(m, p) + 8 + GETSIZE(m, q)
Merged(m, p, q, bit) == SetBlock(m, p, Joint(m, p, q), bit)
Rest(p, size) == p + size + 8
Halves(m, p, size, remain) == SetBlock(SetBlock(m, p, size, 1), Rest(p, size), remain, 0)
Top(brk) == brk + 4
BreakAfter(brk, s) == brk + s + 8
Grown(m, brk, s) == SetBlock(m, Top(brk), s, 1)

(* A block is marked as used or free. *)
LEMMA Mark ==
    ASSUME NEW m, NEW brk, NEW B, Tiles(m, brk, B), NEW N \in SUBSET B, Lists(m, N),
           NEW p \in B, NEW bit \in 0 .. 1
    PROVE  /\ Tiles(Marked(m, p, bit), brk, B)
           /\ Lists(Marked(m, p, bit), N)
           /\ \A q \in B \ {p} : SameBlock(m, Marked(m, p, bit), q)
           /\ GETSIZE(Marked(m, p, bit), p) = GETSIZE(m, p)
           /\ After(Marked(m, p, bit), p) = After(m, p)
           /\ Using(Marked(m, p, bit), p) <=> bit = 1
           /\ \A q \in B : SameAt(m, Marked(m, p, bit), PayloadOf(m, q))
<1> DEFINE size == GETSIZE(m, p)
<1> DEFINE d == Marked(m, p, bit)
<1>1. d = SetBlock(m, p, size, bit)
  BY DEF Marked
<1> HIDE DEF d, size
<1>2. p \in Payloads
  BY DEF Tiles
<1>3. m \in Mem /\ size \in Nat /\ size % 8 = 0 /\ p + size \in Addr /\ p \in Nat
  BY BlockFacts DEF size
<1>4. /\ d \in Mem /\ GETSIZE(d, p) = size /\ (Using(d, p) <=> bit = 1)
       /\ GET(d, p - 4) = GET(d, p + size)
       /\ SameAt(m, d, Addr \ {p - 4, p + size})
  BY ONLY <1>1, <1>2, <1>3, SetBlockWords, bit \in 0 .. 1
<1>5. /\ d \in Mem /\ GETSIZE(d, p) = GETSIZE(m, p) /\ (Using(d, p) <=> bit = 1)
      /\ GET(d, p - 4) = GET(d, p + GETSIZE(m, p))
      /\ SameAt(m, d, Addr \ {p - 4, p + GETSIZE(m, p)})
  BY <1>4 DEF size
<1>6. ASSUME NEW q \in B, q # p
      PROVE  /\ GET(d, q - 4) = GET(m, q - 4)
             /\ GET(d, q + GETSIZE(m, q)) = GET(m, q + GETSIZE(m, q))
  <2>1. q - 4 \in Addr /\ q + GETSIZE(m, q) \in Addr
    BY BlockFacts
  <2> QED BY <1>5, <1>6, <2>1, TagsDistinct DEF SameAt
<1>7. \A q \in B : q # p => GETSIZE(d, q) = GETSIZE(m, q) /\ (Using(d, q) <=> Using(m, q))
  BY <1>6 DEF GETSIZE, Using, WORDSIZE
<1>8. \A q \in B : GETSIZE(d, q) = GETSIZE(m, q)
  BY <1>5, <1>7
<1>9. \A q \in B : After(d, q) = After(m, q)
  BY <1>8 DEF After
<1>10. \A q \in B : GET(d, q - 4) = GET(d, q + GETSIZE(d, q))
  <2>1. \A q \in B : GET(m, q - 4) = GET(m, q + GETSIZE(m, q))
    BY DEF Tiles, WORDSIZE
  <2> QED BY <1>5, <1>6, <1>8, <2>1
<1>11. Tiles(d, brk, B)
  BY <1>5, <1>8, <1>9, <1>10 DEF Tiles, WORDSIZE
<1>12. /\ Tiles(d, brk, B)
       /\ \A q \in B \ {p} : SameBlock(m, d, q)
       /\ GETSIZE(d, p) = GETSIZE(m, p) /\ After(d, p) = After(m, p)
       /\ Using(d, p) <=> bit = 1
       /\ SameAt(m, d, Addr \ {p - 4, p + GETSIZE(m, p)})
  BY <1>5, <1>7, <1>8, <1>9, <1>11 DEF SameBlock
<1>13. SameAt(m, d, LinkAddrs(N))
  <2>1. LinkAddrs(N) \subseteq Addr
    BY LinksAreAddrs
  <2>2. p - 4 \notin LinkAddrs(N) /\ p + GETSIZE(m, p) \notin LinkAddrs(N)
    BY LinkIsNoTag
  <2> QED BY <1>12, <2>1, <2>2 DEF SameAt
<1>14. Lists(d, N)
  <2>1. N \subseteq Payloads
    BY DEF Tiles
  <2>2. \A q \in N : GETSIZE(d, q) = GETSIZE(m, q)
    BY <1>12 DEF SameBlock
  <2> QED BY <1>13, <2>1, <2>2, ListsFrame
<1>15. ASSUME NEW q \in B PROVE SameAt(m, d, PayloadOf(m, q))
  <2>1. p - 4 \notin PayloadOf(m, q) /\ p + GETSIZE(m, p) \notin PayloadOf(m, q)
    BY TagsAreNoPayload
  <2>2. PayloadOf(m, q) \subseteq Addr
    BY DEF PayloadOf
  <2> QED BY <1>12, <2>1, <2>2 DEF SameAt
<1> QED BY <1>12, <1>14, <1>15 DEF d

(* A block takes over the one behind it. *)
LEMMA Merge ==
    ASSUME NEW m, NEW brk, NEW B, Tiles(m, brk, B), NEW N \in SUBSET B, Lists(m, N),
           NEW p \in B \ N, NEW q \in B \ N, After(m, p) = q, NEW bit \in 0 .. 1
    PROVE  /\ Tiles(Merged(m, p, q, bit), brk, B \ {q})
           /\ Lists(Merged(m, p, q, bit), N)
           /\ \A r \in B \ {p, q} : SameBlock(m, Merged(m, p, q, bit), r)
           /\ GETSIZE(Merged(m, p, q, bit), p) = Joint(m, p, q)
           /\ After(Merged(m, p, q, bit), p) = After(m, q)
           /\ Using(Merged(m, p, q, bit), p) <=> bit = 1
           /\ \A r \in B : SameAt(m, Merged(m, p, q, bit), PayloadOf(m, r))
           /\ p # q
<1> DEFINE size == Joint(m, p, q)
<1> DEFINE d == Merged(m, p, q, bit)
<1>1. d = SetBlock(m, p, size, bit)
  BY DEF Merged
<1>2. size = GETSIZE(m, p) + 8 + GETSIZE(m, q)
  BY DEF Joint
<1> HIDE DEF d, size
<1> DEFINE B2 == B \ {q}
<1>3. p \in Payloads
  BY DEF Tiles
<1>4. /\ m \in Mem /\ p \in Nat /\ q \in Nat
      /\ GETSIZE(m, p) \in Nat /\ GETSIZE(m, p) % 8 = 0 /\ GETSIZE(m, p) >= 8
      /\ GETSIZE(m, q) \in Nat /\ GETSIZE(m, q) % 8 = 0 /\ GETSIZE(m, q) >= 8
      /\ q + GETSIZE(m, q) \in Addr
      /\ After(m, p) = p + GETSIZE(m, p) + 8 /\ After(m, q) = q + GETSIZE(m, q) + 8
      /\ p - 4 \in Addr /\ brk \in Nat
  BY BlockFacts
<1>5. p # q /\ p + size = q + GETSIZE(m, q) /\ size \in Nat /\ size % 8 = 0 /\ size >= 8
  BY <1>2, <1>4
<1>6. /\ d \in Mem /\ GETSIZE(d, p) = size /\ (Using(d, p) <=> bit = 1)
      /\ GET(d, p - 4) = GET(d, p + size)
      /\ SameAt(m, d, Addr \ {p - 4, q + GETSIZE(m, q)})
  BY <1>1, <1>3, <1>4, <1>5, SetBlockWords
<1>7. After(d, p) = After(m, q)
  BY <1>4, <1>5, <1>6 DEF After, DOUBLESIZE
<1>8. ASSUME NEW r \in B \ {p, q}
      PROVE  /\ GET(d, r - 4) = GET(m, r - 4)
             /\ GET(d, r + GETSIZE(m, r)) = GET(m, r + GETSIZE(m, r))
  <2>1. r - 4 \in Addr /\ r + GETSIZE(m, r) \in Addr
    BY BlockFacts
  <2>2. r - 4 # p - 4 /\ r + GETSIZE(m, r) # p - 4
    BY TagsDistinct
  <2>3. r - 4 # q + GETSIZE(m, q) /\ r + GETSIZE(m, r) # q + GETSIZE(m, q)
    BY TagsDistinct
  <2> QED BY <1>6, <2>1, <2>2, <2>3 DEF SameAt
<1>9. \A r \in B \ {p, q} : GETSIZE(d, r) = GETSIZE(m, r) /\ (Using(d, r) <=> Using(m, r))
  BY <1>8 DEF GETSIZE, Using, WORDSIZE
<1>10. \A r \in B \ {p, q} : After(d, r) = After(m, r)
  BY <1>9 DEF After
<1>11. ASSUME NEW r \in B2
      PROVE  /\ GETSIZE(d, r) >= 8 /\ GET(d, r - 4) = GET(d, r + GETSIZE(d, r)) /\ r < brk
             /\ After(d, r) \in B2 \cup {brk + 4}
  <2>1. GETSIZE(m, r) >= 8 /\ GET(m, r - 4) = GET(m, r + GETSIZE(m, r)) /\ r < brk
        /\ After(m, r) \in B \cup {brk + 4} /\ After(m, q) \in B \cup {brk + 4}
    BY DEF Tiles, WORDSIZE, DOUBLESIZE
  <2>2. CASE r = p
    <3>1. After(m, q) # q
      BY <1>4
    <3> QED BY <1>5, <1>6, <1>7, <2>1, <2>2, <3>1
  <2>3. CASE r # p
    <3>1. r \in Nat /\ GETSIZE(m, r) \in Nat /\ After(m, r) = r + GETSIZE(m, r) + 8
      BY BlockFacts
    <3>2. After(m, r) <= p \/ After(m, p) <= r
      BY <2>3, Separate
    <3>3. After(m, r) # q
      BY <1>4, <3>1, <3>2
    <3>4. GET(d, r - 4) = GET(d, r + GETSIZE(d, r))
      BY <1>8, <1>9, <2>1, <2>3
    <3> QED BY <1>9, <1>10, <2>1, <2>3, <3>3, <3>4
  <2> QED BY <2>2, <2>3
<1>12. ASSUME NEW r \in B2, NEW s \in B2, r < s PROVE After(d, r) <= s
  <2>1. After(m, r) <= s
    BY <1>12 DEF Tiles
  <2>2. CASE r # p
    BY <1>10, <2>1, <2>2
  <2>3. CASE r = p
    <3>1. s # q /\ s \in Nat /\ GETSIZE(m, s) \in Nat /\ After(m, s) = s + GETSIZE(m, s) + 8
      BY BlockFacts
    <3>2. After(m, q) <= s \/ After(m, s) <= q
      BY <3>1, Separate
    <3>3. After(m, q) <= s
      BY <1>4, <2>1, <2>3, <3>1, <3>2
    <3> QED BY <1>7, <2>3, <3>3
  <2> QED BY <2>2, <2>3
<1>13. FirstBlock \in B2 \cup {brk + 4}
  <2>1. FirstBlock \in B \cup {brk + 4}
    BY DEF Tiles, WORDSIZE
  <2>2. FirstBlock # q
    <3>1. p >= FirstBlock /\ FirstBlock \in Nat
      BY BlockFacts, Constants
    <3> QED BY <1>4, <3>1
  <2> QED BY <2>1, <2>2
<1>14. ASSUME NEW s \in B2 \cup {brk + 4}
       PROVE  s = FirstBlock \/ \E r \in B2 : After(d, r) = s
  <2>1. s = FirstBlock \/ \E r \in B : After(m, r) = s
    BY DEF Tiles, WORDSIZE
  <2>2. ASSUME NEW r \in B, After(m, r) = s PROVE \E t \in B2 : After(d, t) = s
    <3>1. CASE r = q
      BY <1>5, <1>7, <2>2, <3>1
    <3>2. CASE r = p
      <4>1. s = q
        BY <2>2, <3>2
      <4>2. s = brk + 4 /\ q < brk
        BY <4>1 DEF Tiles
      <4> QED BY <1>4, <4>1, <4>2
    <3>3. CASE r # p /\ r # q
      BY <1>10, <2>2, <3>3
    <3> QED BY <3>1, <3>2, <3>3
  <2> QED BY <2>1, <2>2
<1>15. Tiles(d, brk, B2)
  <2>1. B2 \subseteq Payloads /\ brk \in Nat /\ brk <= MAX_HEAP
    BY DEF Tiles
  <2> QED BY <1>6, <1>11, <1>12, <1>13, <1>14, <2>1 DEF Tiles, WORDSIZE, DOUBLESIZE
<1>16. /\ Tiles(d, brk, B \ {q})
       /\ \A r \in B \ {p, q} : SameBlock(m, d, r)
       /\ GETSIZE(d, p) = size /\ After(d, p) = After(m, q)
       /\ Using(d, p) <=> bit = 1
       /\ SameAt(m, d, Addr \ {p - 4, q + GETSIZE(m, q)})
       /\ p # q
  BY <1>5, <1>6, <1>7, <1>9, <1>10, <1>15 DEF SameBlock
<1>17. SameAt(m, d, LinkAddrs(N))
  <2>1. LinkAddrs(N) \subseteq Addr
    BY LinksAreAddrs
  <2>2. p - 4 \notin LinkAddrs(N) /\ q + GETSIZE(m, q) \notin LinkAddrs(N)
    BY LinkIsNoTag
  <2> QED BY <1>16, <2>1, <2>2 DEF SameAt
<1>18. Lists(d, N)
  <2>1. N \subseteq Payloads
    BY DEF Tiles
  <2>2. \A r \in N : GETSIZE(d, r) = GETSIZE(m, r)
    BY <1>16 DEF SameBlock
  <2> QED BY <1>17, <2>1, <2>2, ListsFrame
<1>19. ASSUME NEW r \in B PROVE SameAt(m, d, PayloadOf(m, r))
  <2>1. p - 4 \notin PayloadOf(m, r) /\ q + GETSIZE(m, q) \notin PayloadOf(m, r)
    BY TagsAreNoPayload
  <2>2. PayloadOf(m, r) \subseteq Addr
    BY DEF PayloadOf
  <2> QED BY <1>16, <2>1, <2>2 DEF SameAt
<1> QED BY <1>16, <1>18, <1>19 DEF d, size


-----------------------------------------------------------------------------
(* The steps of the allocator on blocks, of which N are in the lists.      *)

LEMMA Unlink ==
    ASSUME NEW m, NEW brk, NEW B, Tiles(m, brk, B), NEW N \in SUBSET B, Lists(m, N), NEW p \in N
    PROVE  /\ Tiles(deleteBlock(m, p), brk, B)
           /\ Lists(deleteBlock(m, p), N \ {p})
           /\ \A q \in B : SameBlock(m, deleteBlock(m, p), q)
           /\ \A q \in B \ N : SameAt(m, deleteBlock(m, p), PayloadOf(m, q))
<1> DEFINE d == deleteBlock(m, p)
<1>1. d \in Mem /\ SameAt(m, d, Addr \ LinkAddrs(N)) /\ Lists(d, N \ {p})
  BY deleteBlockRight
<1>2. /\ Tiles(d, brk, B)
      /\ \A q \in B : SameBlock(m, d, q)
  BY <1>1, TilesLinks
<1>3. ASSUME NEW q \in B \ N PROVE SameAt(m, d, PayloadOf(m, q))
  <2>1. PayloadOf(m, q) \cap LinkAddrs(N) = {} /\ PayloadOf(m, q) \subseteq Addr
    BY PayloadIsNoLink DEF PayloadOf
  <2> QED BY <1>1, <2>1 DEF SameAt
<1> QED BY <1>1, <1>2, <1>3

LEMMA Link ==
    ASSUME NEW m, NEW brk, NEW B, Tiles(m, brk, B), NEW N \in SUBSET B, Lists(m, N),
           NEW p \in B \ N
    PROVE  /\ Tiles(insertBlock(m, p, GETSIZE(m, p)), brk, B)
           /\ Lists(insertBlock(m, p, GETSIZE(m, p)), N \cup {p})
           /\ \A q \in B : SameBlock(m, insertBlock(m, p, GETSIZE(m, p)), q)
           /\ \A q \in B \ (N \cup {p}) : SameAt(m, insertBlock(m, p, GETSIZE(m, p)), PayloadOf(m, q))
<1> DEFINE d == insertBlock(m, p, GETSIZE(m, p))
<1> DEFINE M == N \cup {p}
<1>1. d \in Mem /\ SameAt(m, d, Addr \ LinkAddrs(M)) /\ Lists(d, M)
  BY insertBlockRight
<1>2. M \in SUBSET B
  OBVIOUS
<1> HIDE DEF M
<1>3. /\ Tiles(d, brk, B)
      /\ \A q \in B : SameBlock(m, d, q)
  BY <1>1, <1>2, TilesLinks
<1>4. ASSUME NEW q \in B \ M PROVE SameAt(m, d, PayloadOf(m, q))
  <2>1. PayloadOf(m, q) \cap LinkAddrs(M) = {} /\ PayloadOf(m, q) \subseteq Addr
    BY <1>2, PayloadIsNoLink DEF PayloadOf
  <2> QED BY <1>1, <2>1 DEF SameAt
<1> QED BY <1>1, <1>3, <1>4 DEF M


(* A block is split into a used one and a free one. *)
LEMMA Split ==
    ASSUME NEW m, NEW brk, NEW B, Tiles(m, brk, B), NEW N \in SUBSET B, Lists(m, N),
           NEW p \in B \ N, NEW size \in Nat, size % 8 = 0, size >= 8,
           NEW remain \in Nat, remain % 8 = 0, remain >= 8, GETSIZE(m, p) = size + remain + 8
    PROVE  /\ Tiles(Halves(m, p, size, remain), brk, B \cup {Rest(p, size)})
           /\ Lists(Halves(m, p, size, remain), N)
           /\ \A r \in B \ {p} : /\ SameBlock(m, Halves(m, p, size, remain), r)
                                /\ SameAt(m, Halves(m, p, size, remain), PayloadOf(m, r))
           /\ GETSIZE(Halves(m, p, size, remain), p) = size
           /\ After(Halves(m, p, size, remain), p) = Rest(p, size)
           /\ Using(Halves(m, p, size, remain), p)
           /\ GETSIZE(Halves(m, p, size, remain), Rest(p, size)) = remain
           /\ After(Halves(m, p, size, remain), Rest(p, size)) = After(m, p)
           /\ ~Using(Halves(m, p, size, remain), Rest(p, size))
           /\ Rest(p, size) \notin B
<1> DEFINE rest == Rest(p, size)
<1> DEFINE d == Halves(m, p, size, remain)
<1>1. d = SetBlock(SetBlock(m, p, size, 1), rest, remain, 0)
  BY DEF Halves
<1>2. rest = p + size + 8
  BY DEF Rest
<1> HIDE DEF d, rest
<1> DEFINE B2 == B \cup {rest}
           m1 == SetBlock(m, p, size, 1)
<1>3. p \in Payloads
  BY DEF Tiles
<1>4. /\ m \in Mem /\ p \in Nat /\ p % 8 = 0 /\ p >= FirstBlock /\ p \in Addr
      /\ p + size + remain + 8 \in Addr /\ After(m, p) = p + size + remain + 16
      /\ p - 4 \in Addr /\ brk \in Nat /\ After(m, p) <= brk + 4 /\ brk <= MAX_HEAP
      /\ MAX_HEAP \in Nat /\ FirstBlock \in Nat /\ p >= 8
  BY BlockFacts, Constants
<1>5. /\ rest \in Nat /\ rest % 8 = 0 /\ rest >= FirstBlock /\ rest < brk
      /\ rest + remain = p + size + remain + 8 /\ (p + size) % 4 = 0 /\ rest % 4 = 0
      /\ p + size \in 0 .. MAX_HEAP - 1 /\ rest \in 0 .. MAX_HEAP - 1
  BY <1>2, <1>4
<1>6. rest \in Payloads /\ p + size \in Addr /\ rest + remain \in Addr
  BY <1>4, <1>5 DEF Payloads, Addr
<1>7. /\ m1 \in Mem /\ GETSIZE(m1, p) = size /\ Using(m1, p)
      /\ GET(m1, p - 4) = GET(m1, p + size)
      /\ SameAt(m, m1, Addr \ {p - 4, p + size})
  BY <1>3, <1>4, <1>6, SetBlockWords
<1> HIDE DEF m1
<1>8. d = SetBlock(m1, rest, remain, 0)
  BY <1>1 DEF m1
<1>9. /\ d \in Mem /\ GETSIZE(d, rest) = remain /\ ~Using(d, rest)
      /\ GET(d, rest - 4) = GET(d, rest + remain)
      /\ SameAt(m1, d, Addr \ {rest - 4, rest + remain})
  <2>1. 0 \in 0 .. 1 /\ 0 # 1
    OBVIOUS
  <2> QED BY ONLY <1>6, <1>7, <1>8, <2>1, SetBlockWords, remain \in Nat, remain % 8 = 0
<1>10. SameAt(m, d, Addr \ {p - 4, p + size, rest - 4, rest + remain})
  BY <1>7, <1>9 DEF SameAt
<1>11. GET(d, p - 4) = GET(m1, p - 4) /\ GET(d, p + size) = GET(m1, p + size)
  <2>1. p - 4 # rest - 4 /\ p - 4 # rest + remain /\ p + size # rest - 4 /\ p + size # rest + remain
    BY <1>2, <1>4
  <2> QED BY <1>4, <1>6, <1>9, <2>1 DEF SameAt
<1>12. GETSIZE(d, p) = size /\ Using(d, p) /\ GET(d, p - 4) = GET(d, p + size)
  BY <1>7, <1>11 DEF GETSIZE, Using, WORDSIZE
<1>13. After(d, p) = rest /\ After(d, rest) = After(m, p)
  BY <1>4, <1>5, <1>9, <1>12 DEF After, DOUBLESIZE
<1>14. ASSUME NEW r \in B, r # p
       PROVE  /\ GET(d, r - 4) = GET(m, r - 4)
              /\ GET(d, r + GETSIZE(m, r)) = GET(m, r + GETSIZE(m, r))
              /\ After(m, r) <= p \/ After(m, p) <= r
              /\ r # rest /\ r \in Nat /\ After(m, r) \in Nat /\ r < After(m, r)
  <2>1. /\ r - 4 \in Addr /\ r + GETSIZE(m, r) \in Addr /\ r \in Nat /\ GETSIZE(m, r) \in Nat
        /\ After(m, r) = r + GETSIZE(m, r) + 8
    BY BlockFacts
  <2>2. After(m, r) <= p \/ After(m, p) <= r
    BY <1>14, Separate
  <2>3. r - 4 \notin {p - 4, p + size, rest - 4, rest + remain}
    BY <1>4, <1>5, <2>1, <2>2
  <2>4. r + GETSIZE(m, r) \notin {p - 4, p + size, rest - 4, rest + remain}
    BY <1>4, <1>5, <2>1, <2>2
  <2>5. r # rest
    BY <1>4, <1>5, <2>1, <2>2
  <2> QED BY <1>10, <2>1, <2>2, <2>3, <2>4, <2>5 DEF SameAt
<1>15. \A r \in B \ {p} : GETSIZE(d, r) = GETSIZE(m, r) /\ (Using(d, r) <=> Using(m, r))
  BY <1>14 DEF GETSIZE, Using, WORDSIZE
<1>16. \A r \in B \ {p} : After(d, r) = After(m, r)
  BY <1>15 DEF After
<1>17. rest \notin B
  BY <1>4, <1>2, <1>14
<1>18. ASSUME NEW r \in B2
       PROVE  /\ GETSIZE(d, r) >= 8 /\ GET(d, r - 4) = GET(d, r + GETSIZE(d, r)) /\ r < brk
              /\ After(d, r) \in B2 \cup {brk + 4}
  <2>1. CASE r = rest
    <3>1. After(m, p) \in B \cup {brk + 4}
      BY DEF Tiles, WORDSIZE
    <3> QED BY <1>5, <1>9, <1>13, <2>1, <3>1
  <2>2. CASE r # rest
    <3>1. r \in B
      BY <2>2
    <3>2. GETSIZE(m, r) >= 8 /\ GET(m, r - 4) = GET(m, r + GETSIZE(m, r)) /\ r < brk
          /\ After(m, r) \in B \cup {brk + 4}
      BY <3>1 DEF Tiles, WORDSIZE, DOUBLESIZE
    <3>3. CASE r = p
      BY <1>12, <1>13, <3>2, <3>3
    <3>4. CASE r # p
      <4>1. GET(d, r - 4) = GET(d, r + GETSIZE(d, r))
        BY <1>14, <1>15, <3>1, <3>2, <3>4
      <4> QED BY <1>15, <1>16, <3>1, <3>2, <3>4, <4>1
    <3> QED BY <3>3, <3>4
  <2> QED BY <2>1, <2>2
<1>19. ASSUME NEW r \in B2, NEW s \in B2, r < s PROVE After(d, r) <= s
  <2>1. CASE r = rest
    <3>1. s \in B /\ s # p
      BY <1>4, <1>5, <1>2, <1>19, <2>1
    <3>2. After(m, p) <= s
      BY <1>4, <1>5, <1>14, <1>19, <2>1, <3>1
    <3> QED BY <1>13, <2>1, <3>2
  <2>2. CASE r = p /\ s = rest
    BY <1>5, <1>13, <2>2
  <2>3. CASE r = p /\ s # rest
    <3>1. s \in B /\ s # p
      BY <1>4, <1>19, <2>3
    <3>2. After(m, p) <= s
      BY <1>4, <1>14, <1>19, <2>3, <3>1
    <3> QED BY <1>4, <1>5, <1>13, <1>14, <2>3, <3>1, <3>2
  <2>4. CASE r # rest /\ r # p
    <3>1. r \in B /\ After(d, r) = After(m, r)
      BY <1>16, <2>4
    <3>2. CASE s = rest
      <4>1. After(m, r) <= p
        BY <1>4, <1>5, <1>14, <1>19, <2>4, <3>1, <3>2
      <4> QED BY <1>4, <1>5, <1>14, <2>4, <3>1, <3>2, <4>1
    <3>3. CASE s # rest
      <4>1. s \in B
        BY <3>3
      <4> QED BY <1>19, <3>1, <4>1 DEF Tiles
    <3> QED BY <3>2, <3>3
  <2> QED BY <2>1, <2>2, <2>3, <2>4
<1>20. FirstBlock \in B2 \cup {brk + 4}
  BY DEF Tiles, WORDSIZE
<1>21. ASSUME NEW s \in B2 \cup {brk + 4}
       PROVE  s = FirstBlock \/ \E r \in B2 : After(d, r) = s
  <2>1. CASE s = rest
    BY <1>13, <2>1
  <2>2. CASE s # rest
    <3>1. s = FirstBlock \/ \E r \in B : After(m, r) = s
      BY <2>2 DEF Tiles, WORDSIZE
    <3>2. ASSUME NEW r \in B, After(m, r) = s PROVE \E t \in B2 : After(d, t) = s
      <4>1. CASE r = p
        BY <1>13, <3>2, <4>1
      <4>2. CASE r # p
        BY <1>16, <3>2, <4>2
      <4> QED BY <4>1, <4>2
    <3> QED BY <3>1, <3>2
  <2> QED BY <2>1, <2>2
<1>22. Tiles(d, brk, B2)
  <2>1. B2 \subseteq Payloads
    BY <1>6 DEF Tiles
  <2> QED BY <1>4, <1>9, <1>18, <1>19, <1>20, <1>21, <2>1 DEF Tiles, WORDSIZE, DOUBLESIZE
<1>23. /\ Tiles(d, brk, B \cup {rest})
       /\ \A r \in B \ {p} : SameBlock(m, d, r)
       /\ GETSIZE(d, p) = size /\ After(d, p) = rest /\ Using(d, p)
       /\ GETSIZE(d, rest) = remain /\ After(d, rest) = After(m, p) /\ ~Using(d, rest)
       /\ SameAt(m, d, Addr \ {p - 4, p + size, rest - 4, rest + remain})
       /\ rest \notin B
  BY <1>9, <1>10, <1>12, <1>13, <1>15, <1>16, <1>17, <1>22 DEF SameBlock
<1>24. p + size \in PayloadOf(m, p) \/ p + size \notin Addr
  <2>1. p \in Nat /\ p + size >= p /\ p + size < p + GETSIZE(m, p)
    BY BlockFacts
  <2> QED BY <2>1 DEF PayloadOf
<1>25. rest - 4 \in PayloadOf(m, p) \/ rest - 4 \notin Addr
  <2>1. p \in Nat /\ rest - 4 >= p /\ rest - 4 < p + GETSIZE(m, p)
    BY <1>2, BlockFacts
  <2> QED BY <2>1 DEF PayloadOf
<1>26. rest + remain = p + GETSIZE(m, p)
  BY <1>2, BlockFacts
<1>27. SameAt(m, d, LinkAddrs(N))
  <2>1. LinkAddrs(N) \subseteq Addr
    BY LinksAreAddrs
  <2>2. p - 4 \notin LinkAddrs(N) /\ rest + remain \notin LinkAddrs(N)
    BY <1>26, LinkIsNoTag
  <2>3. PayloadOf(m, p) \cap LinkAddrs(N) = {}
    BY PayloadIsNoLink
  <2> QED BY <1>23, <1>24, <1>25, <2>1, <2>2, <2>3 DEF SameAt
<1>28. Lists(d, N)
  <2>1. N \subseteq Payloads
    BY DEF Tiles
  <2>2. \A r \in N : GETSIZE(d, r) = GETSIZE(m, r)
    BY <1>23 DEF SameBlock
  <2> QED BY <1>27, <2>1, <2>2, ListsFrame
<1>29. ASSUME NEW r \in B \ {p} PROVE SameAt(m, d, PayloadOf(m, r))
  <2>1. p - 4 \notin PayloadOf(m, r) /\ rest + remain \notin PayloadOf(m, r)
    BY <1>26, TagsAreNoPayload
  <2>2. PayloadOf(m, r) \cap PayloadOf(m, p) = {}
    BY PayloadsApart
  <2>3. PayloadOf(m, r) \subseteq Addr
    BY DEF PayloadOf
  <2> QED BY <1>23, <1>24, <1>25, <2>1, <2>2, <2>3 DEF SameAt
<1> QED BY <1>23, <1>28, <1>29 DEF d, rest

(* A block is added at the break. *)
LEMMA Extend ==
    ASSUME NEW m, NEW brk, NEW B, Tiles(m, brk, B), NEW N \in SUBSET B, Lists(m, N),
           NEW s \in Nat, s % 8 = 0, s >= 8, brk + s + 8 <= MAX_HEAP
    PROVE  /\ Tiles(Grown(m, brk, s), BreakAfter(brk, s), B \cup {Top(brk)})
           /\ Lists(Grown(m, brk, s), N)
           /\ \A r \in B : /\ SameBlock(m, Grown(m, brk, s), r)
                          /\ SameAt(m, Grown(m, brk, s), PayloadOf(m, r))
           /\ GETSIZE(Grown(m, brk, s), Top(brk)) = s
           /\ Using(Grown(m, brk, s), Top(brk))
           /\ Top(brk) \notin B
<1> DEFINE p == Top(brk)
<1> DEFINE d == Grown(m, brk, s)
<1>1. d = SetBlock(m, p, s, 1)
  BY DEF Grown
<1>2. p = brk + 4
  BY DEF Top
<1> HIDE DEF d, p
<1> DEFINE B2 == B \cup {p}
           brk2 == brk + s + 8
<1>3. m \in Mem /\ brk \in Nat /\ MAX_HEAP \in Nat /\ p \in Nat /\ p = brk + 4
  BY <1>2, Constants DEF Tiles
<1>4. p % 8 = 0 /\ p >= FirstBlock
  <2>1. p = FirstBlock \/ \E r \in B : After(m, r) = p
    BY <1>2 DEF Tiles, WORDSIZE
  <2>2. ASSUME NEW r \in B, After(m, r) = p PROVE p % 8 = 0 /\ p >= FirstBlock
    <3>1. r \in Nat /\ r >= FirstBlock /\ GETSIZE(m, r) \in Nat /\ After(m, r) % 8 = 0
          /\ After(m, r) = r + GETSIZE(m, r) + 8 /\ FirstBlock \in Nat
      BY BlockFacts, Constants
    <3> QED BY <2>2, <3>1
  <2> QED BY <2>1, <2>2, Constants
<1>5. p \in Payloads /\ p + s \in Addr /\ p - 4 \in Addr
  <2>1. p \in 0 .. MAX_HEAP - 1 /\ p + s \in 0 .. MAX_HEAP - 1 /\ p % 4 = 0 /\ (p + s) % 4 = 0
    BY <1>3, <1>4
  <2>2. p \in Payloads /\ p + s \in Addr
    BY <1>4, <2>1 DEF Payloads, Addr
  <2> QED BY <1>3, <2>2, SizeNat
<1>6. /\ d \in Mem /\ GETSIZE(d, p) = s /\ Using(d, p) /\ GET(d, p - 4) = GET(d, p + s)
      /\ SameAt(m, d, Addr \ {p - 4, p + s})
  <2>1. 1 \in 0 .. 1
    OBVIOUS
  <2> QED BY <1>1, <1>3, <1>5, <2>1, SetBlockWords
<1>7. After(d, p) = brk2 + 4
  BY <1>3, <1>6 DEF After, DOUBLESIZE
<1>8. ASSUME NEW r \in B
      PROVE  /\ GET(d, r - 4) = GET(m, r - 4)
             /\ GET(d, r + GETSIZE(m, r)) = GET(m, r + GETSIZE(m, r))
             /\ r \in Nat /\ r < p /\ After(m, r) <= p
  <2>1. /\ r - 4 \in Addr /\ r + GETSIZE(m, r) \in Addr /\ r \in Nat /\ GETSIZE(m, r) \in Nat
        /\ After(m, r) = r + GETSIZE(m, r) + 8 /\ After(m, r) <= brk + 4
    BY BlockFacts
  <2>2. r - 4 \notin {p - 4, p + s} /\ r + GETSIZE(m, r) \notin {p - 4, p + s} /\ r < p
    BY <1>3, <2>1
  <2>3. After(m, r) <= p
    BY <1>3, <2>1
  <2> QED BY <1>6, <2>1, <2>2, <2>3 DEF SameAt
<1>9. \A r \in B : GETSIZE(d, r) = GETSIZE(m, r) /\ (Using(d, r) <=> Using(m, r))
  BY <1>8 DEF GETSIZE, Using, WORDSIZE
<1>10. \A r \in B : After(d, r) = After(m, r)
  BY <1>9 DEF After
<1>11. p \notin B
  BY <1>3, <1>8
<1>12. ASSUME NEW r \in B2
       PROVE  /\ GETSIZE(d, r) >= 8 /\ GET(d, r - 4) = GET(d, r + GETSIZE(d, r)) /\ r < brk2
              /\ After(d, r) \in B2 \cup {brk2 + 4}
  <2>1. CASE r = p
    BY <1>3, <1>6, <1>7, <2>1
  <2>2. CASE r \in B
    <3>1. GETSIZE(m, r) >= 8 /\ GET(m, r - 4) = GET(m, r + GETSIZE(m, r)) /\ r < brk
          /\ After(m, r) \in B \cup {p}
      BY <1>2, <2>2 DEF Tiles, WORDSIZE, DOUBLESIZE
    <3>2. GET(d, r - 4) = GET(d, r + GETSIZE(d, r))
      BY <1>8, <1>9, <2>2, <3>1
    <3>3. r < brk2
      BY <1>3, <1>8, <2>2, <3>1
    <3> QED BY <1>9, <1>10, <2>2, <3>1, <3>2, <3>3
  <2> QED BY <2>1, <2>2
<1>13. ASSUME NEW r \in B2, NEW q \in B2, r < q PROVE After(d, r) <= q
  <2>1. CASE r = p
    BY <1>3, <1>8, <1>13, <2>1
  <2>2. CASE r \in B /\ q = p
    BY <1>8, <1>10, <2>2
  <2>3. CASE r \in B /\ q \in B
    <3>1. After(m, r) <= q
      BY <1>13, <2>3 DEF Tiles
    <3> QED BY <1>10, <2>3, <3>1
  <2> QED BY <2>1, <2>2, <2>3
<1>14. FirstBlock \in B2 \cup {brk2 + 4}
  BY <1>2 DEF Tiles, WORDSIZE
<1>15. ASSUME NEW q \in B2 \cup {brk2 + 4}
       PROVE  q = FirstBlock \/ \E r \in B2 : After(d, r) = q
  <2>1. CASE q = brk2 + 4
    BY <1>7, <2>1
  <2>2. CASE q \in B2
    <3>1. q = FirstBlock \/ \E r \in B : After(m, r) = q
      BY <1>2, <2>2 DEF Tiles, WORDSIZE
    <3> QED BY <1>10, <3>1
  <2> QED BY <2>1, <2>2
<1>16. Tiles(d, brk2, B2)
  <2>1. B2 \subseteq Payloads
    BY <1>5 DEF Tiles
  <2>2. brk2 \in Nat /\ brk2 <= MAX_HEAP
    BY <1>3
  <2> HIDE DEF B2, brk2
  <2> QED BY <1>6, <1>12, <1>13, <1>14, <1>15, <2>1, <2>2 DEF Tiles, WORDSIZE, DOUBLESIZE
<1>17. /\ Tiles(d, BreakAfter(brk, s), B \cup {p})
       /\ \A r \in B : SameBlock(m, d, r)
       /\ GETSIZE(d, p) = s /\ Using(d, p)
       /\ SameAt(m, d, Addr \ {p - 4, p + s})
       /\ p \notin B
  BY <1>6, <1>9, <1>10, <1>11, <1>16 DEF SameBlock, BreakAfter
<1>18. \A a \in LinkAddrs(N) : a \in Addr /\ a < brk
  <2>1. LinkAddrs(N) \subseteq Addr
    BY LinksAreAddrs
  <2>2. ASSUME NEW a \in Heads PROVE a < brk
    <3>1. a \in Nat /\ a < ListEnd /\ ListEnd \in Nat /\ brk \in Nat
      BY HeadIs, Constants DEF Tiles
    <3>2. FirstBlock \in B \cup {brk + 4}
      BY DEF Tiles, WORDSIZE
    <3>3. FirstBlock \in B => FirstBlock < brk
      BY DEF Tiles
    <3>4. ListEnd <= brk
      BY <3>1, <3>2, <3>3, Constants
    <3> QED BY <3>1, <3>4
  <2>3. ASSUME NEW r \in N PROVE r < brk /\ r + 4 < brk
    <3>1. r \in Nat /\ GETSIZE(m, r) \in Nat /\ GETSIZE(m, r) >= 8 /\ brk \in Nat
          /\ After(m, r) = r + GETSIZE(m, r) + 8 /\ After(m, r) <= brk + 4
      BY BlockFacts
    <3> QED BY <3>1
  <2> QED BY <2>1, <2>2, <2>3 DEF LinkAddrs
<1>19. brk \in Nat /\ p - 4 = brk /\ p + s > brk
  BY <1>2 DEF Tiles
<1>20. SameAt(m, d, LinkAddrs(N))
  <2>1. \A a \in LinkAddrs(N) : a \in Nat /\ a # p - 4 /\ a # p + s
    BY <1>18, <1>19, Constants DEF Addr
  <2> QED BY <1>17, <1>18, <2>1 DEF SameAt
<1>21. Lists(d, N)
  <2>1. N \subseteq Payloads
    BY DEF Tiles
  <2>2. \A r \in N : GETSIZE(d, r) = GETSIZE(m, r)
    BY <1>17 DEF SameBlock
  <2> QED BY <1>20, <2>1, <2>2, ListsFrame
<1>22. ASSUME NEW r \in B PROVE SameAt(m, d, PayloadOf(m, r))
  <2>1. r \in Nat /\ GETSIZE(m, r) \in Nat
        /\ After(m, r) = r + GETSIZE(m, r) + 8 /\ After(m, r) <= brk + 4
    BY BlockFacts
  <2>2. \A a \in PayloadOf(m, r) : a \in Addr /\ a \in Nat /\ a # p - 4 /\ a # p + s
    BY <1>19, <2>1, Constants DEF PayloadOf, Addr
  <2> QED BY <1>17, <2>2 DEF SameAt
<1> QED BY <1>17, <1>21, <1>22 DEF d, p


-----------------------------------------------------------------------------
(* Walks.  A walk along a list or the heap is a sequence of the results of *)
(* one step after another, and there is one.                               *)

LEMMA NatInd ==
    ASSUME NEW T \in SUBSET Nat, 0 \in T, \A n \in T : n + 1 \in T
    PROVE  T = Nat
<1> SUFFICES ASSUME Nat \ T # {} PROVE FALSE
  OBVIOUS
<1> DEFINE D == Nat \ T
<1>1. PICK n \in D : \A k \in D : n <= k
  <2>1. D \in SUBSET Nat /\ D # {}
    OBVIOUS
  <2> HIDE DEF D
  <2> QED BY <2>1, LeastNat
<1>2. n # 0 /\ n \in Nat
  BY <1>1
<1>3. n - 1 \in Nat /\ ~(n <= n - 1) /\ (n - 1) + 1 = n
  BY <1>2
<1>4. n - 1 \in T
  BY <1>1, <1>3
<1> QED BY <1>1, <1>3, <1>4

LEMMA WalkExists ==
    ASSUME NEW S, NEW a \in S, NEW step \in [S -> S]
    PROVE  \E f : f = [n \in Nat |-> IF n = 0 THEN a ELSE step[f[n - 1]]]
<1> DEFINE Upto(g, n) == g \in [0 .. n -> S] /\ g[0] = a
                         /\ \A j \in 1 .. n : g[j] = step[g[j - 1]]
           T == {n \in Nat : \E g : Upto(g, n)}
<1>1. T = Nat
  <2>1. 0 \in T
    <3>1. Upto([j \in 0 .. 0 |-> a], 0)
      OBVIOUS
    <3> QED BY <3>1
  <2>2. ASSUME NEW n \in T PROVE n + 1 \in T
    <3>1. n \in Nat /\ n + 1 \in Nat
      OBVIOUS
    <3>2. PICK g : Upto(g, n)
      OBVIOUS
    <3> DEFINE h == [j \in 0 .. n + 1 |-> IF j = n + 1 THEN step[g[n]] ELSE g[j]]
    <3>3. \A j \in 0 .. n + 1 : h[j] \in S
      BY <3>1, <3>2
    <3>4. \A j \in 1 .. n + 1 : h[j] = step[h[j - 1]]
      <4> TAKE j \in 1 .. n + 1
      <4>1. CASE j = n + 1
        <5>1. j - 1 = n /\ n \in 0 .. n + 1 /\ j \in 0 .. n + 1 /\ n # n + 1
          BY <3>1, <4>1
        <5> QED BY <4>1, <5>1
      <4>2. CASE j # n + 1
        <5>1. j \in 1 .. n /\ j - 1 \in 0 .. n /\ j \in 0 .. n + 1 /\ j - 1 \in 0 .. n + 1
              /\ j - 1 # n + 1
          BY <3>1, <4>2
        <5> QED BY <3>2, <4>2, <5>1
      <4> QED BY <4>1, <4>2
    <3>5. h[0] = a
      <4>1. 0 \in 0 .. n + 1 /\ 0 # n + 1
        BY <3>1
      <4> QED BY <3>2, <4>1
    <3>6. h \in [0 .. n + 1 -> S]
      BY <3>3
    <3>7. Upto(h, n + 1)
      BY <3>4, <3>5, <3>6
    <3> HIDE DEF h, Upto
    <3> QED BY <3>1, <3>7
  <2>3. T \in SUBSET Nat
    OBVIOUS
  <2> HIDE DEF T
  <2> QED BY <2>1, <2>2, <2>3, NatInd
<1>2. ASSUME NEW n \in Nat, NEW g, NEW h, Upto(g, n), Upto(h, n + 1)
      PROVE  \A j \in Nat : j <= n => g[j] = h[j]
  <2> DEFINE E == {j \in Nat : j <= n => g[j] = h[j]}
  <2>1. 0 \in E
    BY <1>2
  <2>2. ASSUME NEW j \in E PROVE j + 1 \in E
    <3>1. j \in Nat /\ j + 1 \in Nat
      OBVIOUS
    <3>2. CASE j + 1 <= n
      <4>1. j <= n /\ j + 1 \in 1 .. n /\ j + 1 \in 1 .. n + 1 /\ (j + 1) - 1 = j
        BY <3>1, <3>2
      <4>2. g[j] = h[j] /\ g[j + 1] = step[g[j]] /\ h[j + 1] = step[h[j]]
        BY <1>2, <4>1
      <4> QED BY <3>1, <4>2
    <3> QED BY <3>1, <3>2
  <2>3. E \in SUBSET Nat
    OBVIOUS
  <2>4. E = Nat
    <3> HIDE DEF E
    <3> QED BY <2>1, <2>2, <2>3, NatInd
  <2> QED BY <2>4
<1> DEFINE F(n) == CHOOSE g : Upto(g, n)
           f == [n \in Nat |-> F(n)[n]]
<1>3. \A n \in Nat : Upto(F(n), n)
  <2> HIDE DEF Upto
  <2> QED BY <1>1
<1> HIDE DEF F
<1>4. F(0)[0] = a
  BY <1>3
<1>5. ASSUME NEW n \in Nat, n # 0 PROVE F(n)[n] = step[F(n - 1)[n - 1]]
  <2>1. n - 1 \in Nat /\ n - 1 <= n - 1 /\ n \in 1 .. n /\ (n - 1) + 1 = n
    BY <1>5
  <2>2. F(n)[n] = step[F(n)[n - 1]]
    BY <1>3, <2>1
  <2>3. Upto(F(n - 1), n - 1) /\ Upto(F(n), (n - 1) + 1)
    BY <1>3, <2>1
  <2>4. F(n)[n - 1] = F(n - 1)[n - 1]
    <3> HIDE DEF Upto
    <3> QED BY <1>2, <2>1, <2>3
  <2> QED BY <2>2, <2>4
<1>6. f = [n \in Nat |-> IF n = 0 THEN a ELSE step[f[n - 1]]]
  <2>1. \A n \in Nat : n # 0 => n - 1 \in Nat
    OBVIOUS
  <2>2. \A n \in Nat : f[n] = IF n = 0 THEN a ELSE step[f[n - 1]]
    BY <1>4, <1>5, <2>1
  <2> HIDE DEF F
  <2> QED BY <2>2
<1> QED BY <1>6

(* The walk along list i ends at 0, and meets only blocks in the lists.    *)
LEMMA FirstFitRight ==
    ASSUME NEW m, NEW N, Lists(m, N), NEW i \in Index, NEW size, FirstFit(m, i, size) # 0
    PROVE  FirstFit(m, i, size) \in N /\ GETSIZE(m, FirstFit(m, i, size)) >= size
<1> DEFINE nth[n \in Nat] ==
               IF n = 0 THEN GET(m, ListHead(i))
               ELSE LET p == nth[n - 1] IN IF p = 0 THEN 0 ELSE GET(m, p)
           fits == {n \in 0 .. MaxBlocks : nth[n] # 0 /\ GETSIZE(m, nth[n]) >= size}
<1>1. FirstFit(m, i, size) = IF fits = {} THEN 0 ELSE nth[Min(fits)]
  BY DEF FirstFit
<1> DEFINE S == N \cup {0}
           step == [p \in S |-> IF p = 0 THEN 0 ELSE GET(m, p)]
<1>2. GET(m, ListHead(i)) \in S /\ \A p \in N : GET(m, p) \in S
  BY HeadFacts DEF Lists
<1>3. step \in [S -> S] /\ GET(m, ListHead(i)) \in S
  BY <1>2
<1>4. \E f : f = [n \in Nat |-> IF n = 0 THEN GET(m, ListHead(i)) ELSE step[f[n - 1]]]
  <2> HIDE DEF S, step
  <2> QED BY <1>3, WalkExists
<1>5. \E f : f = [n \in Nat |-> IF n = 0 THEN GET(m, ListHead(i))
                                ELSE LET p == f[n - 1] IN IF p = 0 THEN 0 ELSE GET(m, p)]
  <2>1. PICK f : f = [n \in Nat |-> IF n = 0 THEN GET(m, ListHead(i)) ELSE step[f[n - 1]]]
    BY <1>4
  <2> DEFINE T == {n \in Nat : f[n] \in S}
  <2>2. 0 \in T
    BY <1>3, <2>1
  <2>3. ASSUME NEW n \in T PROVE n + 1 \in T
    <3>1. n + 1 \in Nat /\ n + 1 # 0 /\ (n + 1) - 1 = n /\ f[n] \in S
      OBVIOUS
    <3>2. f[n + 1] = step[f[n]]
      BY <2>1, <3>1
    <3> HIDE DEF S, step
    <3> QED BY <1>3, <3>1, <3>2
  <2>4. T = Nat
    <3>1. T \in SUBSET Nat
      OBVIOUS
    <3> HIDE DEF T
    <3> QED BY <2>2, <2>3, <3>1, NatInd
  <2>5. \A n \in Nat : n # 0 => n - 1 \in Nat /\ f[n - 1] \in S
    BY <2>4
  <2>6. \A n \in Nat : n # 0 =>
            step[f[n - 1]] = LET p == f[n - 1] IN IF p = 0 THEN 0 ELSE GET(m, p)
    BY <2>5
  <2> HIDE DEF S, step
  <2>7. f = [n \in Nat |-> IF n = 0 THEN GET(m, ListHead(i))
                           ELSE LET p == f[n - 1] IN IF p = 0 THEN 0 ELSE GET(m, p)]
    BY <2>1, <2>6
  <2> QED BY <2>7
<1>6. nth = [n \in Nat |-> IF n = 0 THEN GET(m, ListHead(i))
                           ELSE LET p == nth[n - 1] IN IF p = 0 THEN 0 ELSE GET(m, p)]
  BY <1>5
<1> HIDE DEF nth
<1> DEFINE T == {n \in Nat : nth[n] \in S}
<1>7. T = Nat
  <2>1. 0 \in T
    BY <1>2, <1>6
  <2>2. ASSUME NEW n \in T PROVE n + 1 \in T
    <3>1. n + 1 \in Nat /\ n + 1 # 0 /\ (n + 1) - 1 = n /\ nth[n] \in S
      OBVIOUS
    <3>2. nth[n + 1] = IF nth[n] = 0 THEN 0 ELSE GET(m, nth[n])
      BY <1>6, <3>1
    <3> QED BY <1>2, <3>1, <3>2
  <2>3. T \in SUBSET Nat
    OBVIOUS
  <2> HIDE DEF T
  <2> QED BY <2>1, <2>2, <2>3, NatInd
<1>8. fits # {} /\ FirstFit(m, i, size) = nth[Min(fits)]
  BY <1>1
<1>9. Min(fits) \in fits
  <2>1. fits \in SUBSET Nat
    OBVIOUS
  <2> HIDE DEF fits
  <2> QED BY <1>8, <2>1, MinIsMember
<1>10. Min(fits) \in Nat /\ nth[Min(fits)] # 0 /\ GETSIZE(m, nth[Min(fits)]) >= size
  BY <1>9
<1> HIDE DEF fits
<1> QED BY <1>7, <1>8, <1>10

LEMMA findAvailableBlockRight ==
    ASSUME NEW m, NEW N, Lists(m, N), NEW size, findAvailableBlock(m, size) # 0
    PROVE  /\ findAvailableBlock(m, size) \in N
           /\ GETSIZE(m, findAvailableBlock(m, size)) >= size
<1> DEFINE hits == {i \in minLen(size) .. LISTNUM - 1 : FirstFit(m, i, size) # 0}
<1>1. hits # {} /\ findAvailableBlock(m, size) = FirstFit(m, Min(hits), size)
  BY DEF findAvailableBlock
<1>2. hits \in SUBSET Index /\ hits \in SUBSET Nat
  BY minLenIndex, Constants DEF Index
<1>3. Min(hits) \in hits
  <2> HIDE DEF hits
  <2> QED BY <1>1, <1>2, MinIsMember
<1>4. Min(hits) \in Index /\ FirstFit(m, Min(hits), size) # 0
  BY <1>2, <1>3
<1> HIDE DEF hits
<1> QED BY <1>1, <1>4, FirstFitRight

-----------------------------------------------------------------------------
(* What a call does to the heap.                                           *)

(* The blocks of U are as they were, or larger. *)
Kept(m, m2, B2, U) ==
    \A q \in U : /\ q \in B2 /\ Using(m2, q)
                 /\ GETSIZE(m, q) <= GETSIZE(m2, q)
                 /\ SameAt(m, m2, PayloadOf(m, q))

(* The block p is handed out. *)
Gives(m, B, m2, brk2, B2, p, size) ==
    /\ Heap(m2, brk2, B2)
    /\ p \notin UsedOf(m, B)
    /\ UsedOf(m2, B2) = UsedOf(m, B) \cup {p}
    /\ GETSIZE(m2, p) >= size
    /\ Kept(m, m2, B2, UsedOf(m, B))

LEMMA KeptTwice ==
    ASSUME NEW m \in Mem, NEW m2 \in Mem, NEW m3 \in Mem, NEW B2, NEW B3, NEW U, NEW V,
           U \subseteq V, B2 \subseteq Payloads, U \subseteq Payloads,
           Kept(m, m2, B2, U), Kept(m2, m3, B3, V)
    PROVE  Kept(m, m3, B3, U)
<1> SUFFICES ASSUME NEW q \in U
             PROVE  /\ q \in B3 /\ Using(m3, q)
                    /\ GETSIZE(m, q) <= GETSIZE(m3, q)
                    /\ SameAt(m, m3, PayloadOf(m, q))
  BY DEF Kept
<1>1. GETSIZE(m, q) <= GETSIZE(m2, q) /\ SameAt(m, m2, PayloadOf(m, q))
  BY DEF Kept
<1>2. /\ q \in B3 /\ Using(m3, q) /\ GETSIZE(m2, q) <= GETSIZE(m3, q)
      /\ SameAt(m2, m3, PayloadOf(m2, q))
  BY DEF Kept
<1>3. GETSIZE(m, q) \in Nat /\ GETSIZE(m2, q) \in Nat /\ GETSIZE(m3, q) \in Nat /\ q \in Nat
  BY SizeNat
<1>4. PayloadOf(m, q) \subseteq PayloadOf(m2, q)
  <2>1. ASSUME NEW a \in PayloadOf(m, q) PROVE a \in PayloadOf(m2, q)
    <3>1. a \in Nat
      BY Constants DEF PayloadOf, Addr
    <3> QED BY <1>1, <1>3, <3>1 DEF PayloadOf
  <2> QED BY <2>1
<1>5. SameAt(m, m3, PayloadOf(m, q))
  BY <1>1, <1>2, <1>4 DEF SameAt
<1>6. GETSIZE(m, q) <= GETSIZE(m3, q)
  BY <1>1, <1>2, <1>3
<1> QED BY <1>2, <1>5, <1>6

LEMMA SameSize ==
    ASSUME NEW m, NEW m2, NEW p, SameBlock(m, m2, p)
    PROVE  PayloadOf(m2, p) = PayloadOf(m, p)
  BY DEF SameBlock, PayloadOf

(* A block out of the lists, and those in them, are marked. *)
LEMMA TakenWhole ==
    ASSUME NEW m, NEW brk, NEW B, Heap(m, brk, B), NEW p \in FreeOf(m, B),
           NEW size, GETSIZE(m, p) >= size
    PROVE  Gives(m, B, Marked(deleteBlock(m, p), p, 1), brk, B, p, size)
<1> DEFINE N == FreeOf(m, B)
           d == deleteBlock(m, p)
           d2 == Marked(d, p, 1)
           M == N \ {p}
<1>1. Tiles(m, brk, B) /\ Lists(m, N) /\ Apart(m, N) /\ N \in SUBSET B /\ p \in B
  BY DEF Heap, FreeOf
<1>2. /\ Tiles(d, brk, B) /\ Lists(d, M)
      /\ \A q \in B : SameBlock(m, d, q)
      /\ \A q \in B \ N : SameAt(m, d, PayloadOf(m, q))
  BY <1>1, Unlink
<1> HIDE DEF d
<1>3. M \in SUBSET B /\ 1 \in 0 .. 1
  BY <1>1
<1> HIDE DEF M
<1>4. /\ Tiles(d2, brk, B) /\ Lists(d2, M)
      /\ \A q \in B \ {p} : SameBlock(d, d2, q)
      /\ GETSIZE(d2, p) = GETSIZE(d, p) /\ After(d2, p) = After(d, p)
      /\ Using(d2, p)
      /\ \A q \in B : SameAt(d, d2, PayloadOf(d, q))
  BY <1>1, <1>2, <1>3, Mark
<1> HIDE DEF d2
<1>5. \A q \in B : /\ GETSIZE(d2, q) = GETSIZE(m, q) /\ After(d2, q) = After(m, q)
                   /\ q # p => (Using(d2, q) <=> Using(m, q))
  BY <1>2, <1>4 DEF SameBlock
<1>6. FreeOf(d2, B) = M /\ UsedOf(d2, B) = UsedOf(m, B) \cup {p} /\ p \notin UsedOf(m, B)
  BY <1>1, <1>4, <1>5 DEF FreeOf, UsedOf, M
<1>7. Heap(d2, brk, B)
  <2>1. Apart(d2, M)
    BY <1>1, <1>5 DEF Apart, M
  <2> QED BY <1>4, <1>6, <2>1 DEF Heap
<1>8. Kept(m, d2, B, UsedOf(m, B))
  <2> SUFFICES ASSUME NEW q \in UsedOf(m, B)
               PROVE  /\ q \in B /\ Using(d2, q)
                      /\ GETSIZE(m, q) <= GETSIZE(d2, q)
                      /\ SameAt(m, d2, PayloadOf(m, q))
    BY DEF Kept
  <2>1. q \in B \ N /\ q # p /\ Using(m, q)
    BY <1>6 DEF UsedOf, FreeOf
  <2>2. SameAt(m, d2, PayloadOf(m, q))
    <3>1. PayloadOf(d, q) = PayloadOf(m, q)
      BY <1>2, <2>1, SameSize
    <3> QED BY <1>2, <1>4, <2>1, <3>1 DEF SameAt
  <2>3. GETSIZE(m, q) <= GETSIZE(d2, q)
    <3>1. GETSIZE(m, q) \in Nat
      BY <1>1, <2>1, BlockFacts
    <3> QED BY <1>5, <2>1, <3>1
  <2> QED BY <1>5, <2>1, <2>2, <2>3
<1>9. GETSIZE(d2, p) >= size
  BY <1>1, <1>5
<1> QED BY <1>6, <1>7, <1>8, <1>9 DEF Gives, d2, d

LEMMA TakenPart ==
    ASSUME NEW m, NEW brk, NEW B, Heap(m, brk, B), NEW p \in FreeOf(m, B),
           NEW size \in Nat, size % 8 = 0, size >= 8,
           NEW remain \in Nat, remain % 8 = 0, remain >= 8, GETSIZE(m, p) = size + remain + 8,
           NEW d2, d2 = Halves(deleteBlock(m, p), p, size, remain)
    PROVE  Gives(m, B, insertBlock(d2, Rest(p, size), remain), brk, B \cup {Rest(p, size)},
                 p, size)
<1> DEFINE N == FreeOf(m, B)
           d == deleteBlock(m, p)
           rest == Rest(p, size)
           d3 == insertBlock(d2, rest, remain)
           M == N \ {p}
           B2 == B \cup {rest}
<1>1. Tiles(m, brk, B) /\ Lists(m, N) /\ Apart(m, N) /\ N \in SUBSET B /\ p \in B
  BY DEF Heap, FreeOf
<1>2. /\ Tiles(d, brk, B) /\ Lists(d, M)
      /\ \A q \in B : SameBlock(m, d, q)
      /\ \A q \in B \ N : SameAt(m, d, PayloadOf(m, q))
  BY <1>1, Unlink
<1>3. M \in SUBSET B /\ p \in B \ M
  BY <1>1
<1>4. GETSIZE(d, p) = size + remain + 8
  BY <1>1, <1>2 DEF SameBlock
<1>5. d2 = Halves(d, p, size, remain)
  OBVIOUS
<1> HIDE DEF d, M
<1>6. /\ Tiles(d2, brk, B \cup {Rest(p, size)}) /\ Lists(d2, M)
      /\ \A r \in B \ {p} : SameBlock(d, d2, r) /\ SameAt(d, d2, PayloadOf(d, r))
      /\ GETSIZE(d2, p) = size /\ After(d2, p) = Rest(p, size) /\ Using(d2, p)
      /\ GETSIZE(d2, Rest(p, size)) = remain
      /\ After(d2, Rest(p, size)) = After(d, p)
      /\ ~Using(d2, Rest(p, size)) /\ Rest(p, size) \notin B
  BY <1>2, <1>3, <1>4, <1>5, Split
<1> HIDE DEF rest
<1>7. M \in SUBSET B2 /\ rest \in B2 \ M /\ GETSIZE(d2, rest) = remain
  BY <1>3, <1>6 DEF rest
<1>8. /\ Tiles(d3, brk, B2) /\ Lists(d3, M \cup {rest})
      /\ \A q \in B2 : SameBlock(d2, d3, q)
      /\ \A q \in B2 \ (M \cup {rest}) : SameAt(d2, d3, PayloadOf(d2, q))
  <2>1. d3 = insertBlock(d2, rest, GETSIZE(d2, rest))
    BY <1>7
  <2>2. Tiles(d2, brk, B2)
    BY <1>6 DEF rest
  <2> HIDE DEF B2, d3
  <2> QED BY <1>6, <1>7, <2>1, <2>2, Link
<1> HIDE DEF d3
<1>9. \A q \in B \ {p} : /\ GETSIZE(d3, q) = GETSIZE(m, q) /\ After(d3, q) = After(m, q)
                         /\ Using(d3, q) <=> Using(m, q)
  BY <1>2, <1>6, <1>8 DEF SameBlock
<1>10. /\ GETSIZE(d3, p) = size /\ Using(d3, p) /\ ~Using(d3, rest) /\ After(d3, rest) = After(m, p)
       /\ rest \notin B
  BY <1>1, <1>2, <1>6, <1>8 DEF SameBlock, rest
<1>11. /\ FreeOf(d3, B2) = M \cup {rest}
       /\ UsedOf(d3, B2) = UsedOf(m, B) \cup {p} /\ p \notin UsedOf(m, B)
  BY <1>1, <1>9, <1>10 DEF FreeOf, UsedOf, M
<1>12. Apart(d3, M \cup {rest})
  <2>1. \A q \in B : After(m, q) # rest
    <3>1. \A q \in B : After(m, q) \in B \cup {brk + 4}
      BY <1>1 DEF Tiles, WORDSIZE
    <3>2. rest < brk /\ brk \in Nat
      BY <1>8 DEF Tiles
    <3> QED BY <1>10, <3>1, <3>2
  <2>2. ASSUME NEW q \in M PROVE After(d3, q) \notin M \cup {rest}
    <3>1. q \in B \ {p} /\ q \in N /\ After(d3, q) = After(m, q)
      BY <1>1, <1>9 DEF M
    <3> QED BY <1>1, <2>1, <3>1 DEF Apart, M
  <2>3. After(d3, rest) \notin M \cup {rest}
    BY <1>1, <1>10, <2>1 DEF Apart, M
  <2> QED BY <2>2, <2>3 DEF Apart
<1>13. Heap(d3, brk, B2)
  BY <1>8, <1>11, <1>12 DEF Heap
<1>14. Kept(m, d3, B2, UsedOf(m, B))
  <2> SUFFICES ASSUME NEW q \in UsedOf(m, B)
               PROVE  /\ q \in B2 /\ Using(d3, q)
                      /\ GETSIZE(m, q) <= GETSIZE(d3, q)
                      /\ SameAt(m, d3, PayloadOf(m, q))
    BY DEF Kept
  <2>1. q \in B \ N /\ q # p /\ Using(m, q) /\ q # rest /\ q \in B2 \ (M \cup {rest})
    BY <1>10, <1>11 DEF UsedOf, FreeOf, M
  <2>2. SameAt(m, d3, PayloadOf(m, q))
    <3>1. PayloadOf(d, q) = PayloadOf(m, q) /\ PayloadOf(d2, q) = PayloadOf(d, q)
      BY <1>2, <1>6, <2>1, SameSize
    <3>2. SameAt(m, d, PayloadOf(m, q)) /\ SameAt(d, d2, PayloadOf(m, q))
          /\ SameAt(d2, d3, PayloadOf(m, q))
      BY <1>2, <1>6, <1>8, <2>1, <3>1
    <3> QED BY <3>2 DEF SameAt
  <2>3. GETSIZE(m, q) <= GETSIZE(d3, q)
    <3>1. GETSIZE(m, q) \in Nat
      BY <1>1, <2>1, BlockFacts
    <3> QED BY <1>9, <2>1, <3>1
  <2> QED BY <1>9, <2>1, <2>2, <2>3
<1> HIDE DEF B2
<1>15. Gives(m, B, d3, brk, B2, p, size)
  BY <1>10, <1>11, <1>13, <1>14 DEF Gives
<1> QED BY <1>15 DEF d3, B2, rest

(* A free block that is large enough is handed out, and split if the rest  *)
(* is worth it.                                                            *)
LEMMA placeBlockRight ==
    ASSUME NEW m, NEW brk, NEW B, Heap(m, brk, B), NEW p \in FreeOf(m, B),
           NEW size \in Nat, size % 8 = 0, size >= 8, GETSIZE(m, p) >= size
    PROVE  \E B2 : Gives(m, B, placeBlock(deleteBlock(m, p), size, p), brk, B2, p, size)
<1> DEFINE N == FreeOf(m, B)
           d == deleteBlock(m, p)
           tot == GETSIZE(m, p)
           remain == tot - size - 8
           r == placeBlock(d, size, p)
<1>1. Tiles(m, brk, B) /\ Lists(m, N) /\ N \in SUBSET B /\ p \in B
  BY DEF Heap, FreeOf
<1>2. GETSIZE(d, p) = tot
  <2>1. SameBlock(m, d, p)
    BY <1>1, Unlink
  <2> QED BY <2>1 DEF SameBlock
<1>3. tot \in Nat /\ tot % 8 = 0 /\ tot >= size
  BY <1>1, BlockFacts
<1>4. CASE remain < 8
  <2>1. r = Marked(d, p, 1)
    BY <1>2, <1>4 DEF placeBlock, Marked, DOUBLESIZE
  <2> QED BY <2>1, TakenWhole
<1>5. CASE ~(remain < 8)
  <2>1. remain \in Nat /\ remain % 8 = 0 /\ remain >= 8 /\ tot = size + remain + 8
    BY <1>3, <1>5
  <2>2. r = insertBlock(Halves(d, p, size, remain), Rest(p, size), remain)
    BY <1>2, <1>5 DEF placeBlock, Halves, Rest, DOUBLESIZE
  <2> HIDE DEF remain, r
  <2>3. Gives(m, B, r, brk, B \cup {Rest(p, size)}, p, size)
    BY <2>1, <2>2, TakenPart
  <2> QED BY <2>3 DEF r
<1> QED BY <1>4, <1>5

LEMMA Extended ==
    ASSUME NEW m, NEW brk, NEW B, Heap(m, brk, B),
           NEW s \in Nat, s % 8 = 0, s >= 8, brk + s + 8 <= MAX_HEAP, NEW size, s >= size
    PROVE  Gives(m, B, Grown(m, brk, s), BreakAfter(brk, s), B \cup {Top(brk)}, Top(brk), size)
<1> DEFINE N == FreeOf(m, B)
           d == Grown(m, brk, s)
           p == Top(brk)
           brk2 == BreakAfter(brk, s)
           B2 == B \cup {p}
<1>1. Tiles(m, brk, B) /\ Lists(m, N) /\ Apart(m, N) /\ N \in SUBSET B
  BY DEF Heap, FreeOf
<1>2. /\ Tiles(d, brk2, B2) /\ Lists(d, N)
      /\ \A r \in B : SameBlock(m, d, r) /\ SameAt(m, d, PayloadOf(m, r))
      /\ GETSIZE(d, p) = s /\ Using(d, p) /\ p \notin B
  <2> HIDE DEF N
  <2>1. /\ Tiles(Grown(m, brk, s), BreakAfter(brk, s), B \cup {Top(brk)})
        /\ Lists(Grown(m, brk, s), N)
        /\ \A r \in B : /\ SameBlock(m, Grown(m, brk, s), r)
                        /\ SameAt(m, Grown(m, brk, s), PayloadOf(m, r))
        /\ GETSIZE(Grown(m, brk, s), Top(brk)) = s
        /\ Using(Grown(m, brk, s), Top(brk))
        /\ Top(brk) \notin B
    BY <1>1, Extend
  <2> QED BY <2>1
<1> HIDE DEF d, p, brk2
<1>3. \A q \in B : /\ GETSIZE(d, q) = GETSIZE(m, q) /\ After(d, q) = After(m, q)
                   /\ Using(d, q) <=> Using(m, q)
  BY <1>2 DEF SameBlock
<1>4. FreeOf(d, B2) = N /\ UsedOf(d, B2) = UsedOf(m, B) \cup {p} /\ p \notin UsedOf(m, B)
  BY <1>2, <1>3 DEF FreeOf, UsedOf
<1>5. Apart(d, N)
  BY <1>1, <1>3 DEF Apart
<1>6. Heap(d, brk2, B2)
  BY <1>2, <1>4, <1>5 DEF Heap
<1>7. Kept(m, d, B2, UsedOf(m, B))
  <2> SUFFICES ASSUME NEW q \in UsedOf(m, B)
               PROVE  /\ q \in B2 /\ Using(d, q)
                      /\ GETSIZE(m, q) <= GETSIZE(d, q)
                      /\ SameAt(m, d, PayloadOf(m, q))
    BY DEF Kept
  <2>1. q \in B /\ Using(m, q)
    BY DEF UsedOf
  <2>2. GETSIZE(m, q) \in Nat
    BY <1>1, <2>1, BlockFacts
  <2>3. GETSIZE(m, q) <= GETSIZE(d, q)
    BY <1>3, <2>1, <2>2
  <2> QED BY <1>2, <1>3, <2>1, <2>3
<1> HIDE DEF B2
<1>8. Gives(m, B, d, brk2, B2, p, size)
  BY <1>2, <1>4, <1>6, <1>7 DEF Gives
<1> QED BY <1>8 DEF d, brk2, B2, p

(* mm_malloc hands out a block, or leaves everything as it is. *)
LEMMA mm_mallocRight ==
    ASSUME NEW m, NEW brk, NEW B, Heap(m, brk, B), NEW fl \in BOOLEAN, NEW use \in BOOLEAN,
           NEW size \in Sizes, NEW r, r = mm_malloc(m, brk, fl, use, size)
    PROVE  /\ r.flag \in BOOLEAN /\ r.use \in BOOLEAN
           /\ r.p = 0 => r.m = m /\ r.brk = brk
           /\ r.p # 0 => \E B2 : Gives(m, B, r.m, r.brk, B2, r.p, size)
<1> DEFINE use2 == use \/ size = Trigger
           adjusted == ALIGN(size)
           found == IF use2 /\ ~fl THEN 0 ELSE findAvailableBlock(m, adjusted)
           s == ALIGN(adjusted + preAlloc(adjusted))
           newsize == s + 8
<1>1. r = IF found # 0
          THEN [p |-> found, m |-> placeBlock(deleteBlock(m, found), adjusted, found),
                brk |-> brk, flag |-> fl, use |-> use2]
          ELSE IF NoRoom(brk, newsize)
          THEN [p |-> 0, m |-> m, brk |-> brk, flag |-> TRUE, use |-> use2]
          ELSE [p |-> brk + 4, m |-> SetBlock(m, brk + 4, newsize - 8, 1),
                brk |-> brk + newsize, flag |-> TRUE, use |-> use2]
  BY DEF mm_malloc, WORDSIZE, DOUBLESIZE
<1>2. size \in Nat /\ size >= 1
  BY HeapAssumption
<1>3. adjusted \in Nat /\ adjusted % 8 = 0 /\ adjusted >= 8 /\ adjusted >= size
  BY <1>2 DEF ALIGN
<1>4. preAlloc(adjusted) \in Nat
  BY HeapAssumption DEF preAlloc
<1> HIDE DEF adjusted
<1>5. s \in Nat /\ s % 8 = 0 /\ s >= adjusted
  BY <1>3, <1>4 DEF ALIGN
<1>6. brk \in Nat /\ MAX_HEAP \in Nat
  BY Constants DEF Heap, Tiles
<1> HIDE DEF s, use2, found
<1>7. use2 \in BOOLEAN
  BY DEF use2
<1>8. CASE found # 0
  <2>1. r.p = found /\ r.m = placeBlock(deleteBlock(m, found), adjusted, found) /\ r.brk = brk
        /\ r.flag = fl /\ r.use = use2
    BY <1>1, <1>8
  <2>2. found = findAvailableBlock(m, adjusted)
    BY <1>8 DEF found
  <2>3. found \in FreeOf(m, B) /\ GETSIZE(m, found) >= adjusted
    BY <1>8, <2>2, findAvailableBlockRight DEF Heap
  <2>4. PICK B2 : Gives(m, B, placeBlock(deleteBlock(m, found), adjusted, found), brk,
                        B2, found, adjusted)
    BY <1>3, <2>3, placeBlockRight
  <2>5. Gives(m, B, r.m, r.brk, B2, found, adjusted)
    BY <2>1, <2>4
  <2>6. GETSIZE(r.m, found) >= size
    <3>1. GETSIZE(r.m, found) >= adjusted /\ found \in B2 /\ Tiles(r.m, r.brk, B2)
      BY <2>5 DEF Gives, UsedOf, Heap
    <3>2. GETSIZE(r.m, found) \in Nat
      BY <3>1, BlockFacts
    <3> QED BY <1>2, <1>3, <3>1, <3>2
  <2>7. Gives(m, B, r.m, r.brk, B2, found, size)
    BY <2>5, <2>6 DEF Gives
  <2> QED BY <1>7, <1>8, <2>1, <2>7
<1>9. CASE found = 0 /\ NoRoom(brk, newsize)
  BY <1>1, <1>7, <1>9
<1>10. CASE found = 0 /\ ~NoRoom(brk, newsize)
  <2>1. r.p = brk + 4 /\ r.m = SetBlock(m, brk + 4, newsize - 8, 1) /\ r.brk = brk + newsize
        /\ r.flag = TRUE /\ r.use = use2
    BY <1>1, <1>10
  <2>2. brk + s + 8 <= MAX_HEAP
    BY <1>5, <1>6, <1>10 DEF NoRoom
  <2>3. s >= 8 /\ s >= size
    BY <1>2, <1>3, <1>5
  <2>4. Gives(m, B, Grown(m, brk, s), BreakAfter(brk, s), B \cup {Top(brk)}, Top(brk), size)
    BY <1>5, <2>2, <2>3, Extended
  <2>5. newsize - 8 = s /\ brk + newsize = brk + s + 8
    BY <1>5, <1>6
  <2>6. r.p = Top(brk) /\ r.m = Grown(m, brk, s) /\ r.brk = BreakAfter(brk, s)
    BY <2>1, <2>5 DEF Top, Grown, BreakAfter
  <2>7. Gives(m, B, r.m, r.brk, B \cup {Top(brk)}, r.p, size)
    BY <2>4, <2>6
  <2>8. r.p # 0
    BY <1>6, <2>1
  <2> QED BY <1>7, <2>1, <2>7, <2>8
<1> QED BY <1>8, <1>9, <1>10

-----------------------------------------------------------------------------
(* Coalescing. *)

Joined(m, x, p, q, bit) == Merged(deleteBlock(m, x), p, q, bit)

JoinsInto(m, d, brk, B, N, x, p, q, bit) ==
    /\ Tiles(d, brk, B \ {q})
    /\ Lists(d, N \ {x})
    /\ \A r \in B \ {p, q} : SameBlock(m, d, r)
    /\ GETSIZE(d, p) = Joint(m, p, q)
    /\ After(d, p) = After(m, q)
    /\ Using(d, p) <=> bit = 1
    /\ \A r \in B \ N : SameAt(m, d, PayloadOf(m, r))
    /\ p # q

(* Of two neighbours the one in a list leaves it, and they become one. *)
LEMMA Join ==
    ASSUME NEW m, NEW brk, NEW B, Tiles(m, brk, B), NEW N \in SUBSET B, Lists(m, N),
           NEW p \in B, NEW q \in B, After(m, p) = q,
           NEW x \in N, x \in {p, q}, NEW bit \in 0 .. 1, \A y \in {p, q} : y # x => y \notin N
    PROVE  JoinsInto(m, Joined(m, x, p, q, bit), brk, B, N, x, p, q, bit)
<1> DEFINE d == deleteBlock(m, x)
           d2 == Merged(d, p, q, bit)
           M == N \ {x}
<1>1. /\ Tiles(d, brk, B) /\ Lists(d, M)
      /\ \A r \in B : SameBlock(m, d, r)
      /\ \A r \in B \ N : SameAt(m, d, PayloadOf(m, r))
  BY Unlink
<1>2. M \in SUBSET B /\ p \in B \ M /\ q \in B \ M
  OBVIOUS
<1>3. d2 = Joined(m, x, p, q, bit)
  BY DEF Joined
<1> HIDE DEF d, M
<1>4. After(d, p) = q
  BY <1>1 DEF SameBlock
<1> HIDE DEF d2
<1>5. d2 = Merged(d, p, q, bit)
  BY DEF d2
<1>6. /\ Tiles(d2, brk, B \ {q}) /\ Lists(d2, M)
      /\ \A r \in B \ {p, q} : SameBlock(d, d2, r)
      /\ GETSIZE(d2, p) = Joint(d, p, q)
      /\ After(d2, p) = After(d, q)
      /\ Using(d2, p) <=> bit = 1
      /\ \A r \in B : SameAt(d, d2, PayloadOf(d, r))
      /\ p # q
  BY <1>1, <1>2, <1>4, <1>5, Merge
<1>7. \A r \in B \ {p, q} : SameBlock(m, d2, r)
  BY <1>1, <1>6 DEF SameBlock
<1>8. Joint(d, p, q) = Joint(m, p, q) /\ After(d, q) = After(m, q)
  BY <1>1 DEF SameBlock, Joint
<1>9. ASSUME NEW r \in B \ N PROVE SameAt(m, d2, PayloadOf(m, r))
  <2>1. PayloadOf(d, r) = PayloadOf(m, r)
    BY <1>1, SameSize
  <2>2. SameAt(m, d, PayloadOf(m, r)) /\ SameAt(d, d2, PayloadOf(m, r))
    BY <1>1, <1>6, <2>1
  <2> QED BY <2>2 DEF SameAt
<1> QED BY <1>3, <1>6, <1>7, <1>8, <1>9 DEF M, JoinsInto

LEMMA Larger ==
    ASSUME NEW m, NEW brk, NEW B, Tiles(m, brk, B), NEW p \in B, NEW q \in B, After(m, p) = q
    PROVE  GETSIZE(m, p) <= Joint(m, p, q) /\ p < q /\ q < After(m, q)
<1>1. p \in Nat /\ GETSIZE(m, p) \in Nat /\ GETSIZE(m, q) \in Nat
      /\ After(m, p) = p + GETSIZE(m, p) + 8 /\ After(m, q) = q + GETSIZE(m, q) + 8 /\ q \in Nat
  BY BlockFacts
<1> QED BY <1>1 DEF Joint

(* FollowedByFree and PrecededByFree find the neighbours that are free.    *)
LEMMA Following ==
    ASSUME NEW m, NEW brk, NEW B, Tiles(m, brk, B), NEW p \in B
    PROVE  FollowedByFree(m, brk, p) <=> After(m, p) \in FreeOf(m, B)
<1> DEFINE next == After(m, p)
<1>1. FollowedByFree(m, brk, p) <=> next < brk - 1 /\ ~Using(m, next)
  BY DEF FollowedByFree, After
<1>2. next \in B \cup {brk + 4} /\ brk \in Nat
  BY DEF Tiles, WORDSIZE
<1> HIDE DEF next
<1>3. next \in B => next < brk - 1
  <2> SUFFICES ASSUME next \in B PROVE next < brk - 1
    OBVIOUS
  <2>1. /\ next \in Nat /\ GETSIZE(m, next) \in Nat /\ GETSIZE(m, next) >= 8
        /\ After(m, next) = next + GETSIZE(m, next) + 8 /\ After(m, next) <= brk + 4
    BY BlockFacts
  <2> QED BY <1>2, <2>1
<1>4. next < brk - 1 => next \in B
  BY <1>2
<1> QED BY <1>1, <1>3, <1>4 DEF FreeOf, next

Before(m, p) == p - DOUBLESIZE - GETSIZE(m, p - WORDSIZE)

LEMMA Preceding ==
    ASSUME NEW m, NEW brk, NEW B, Tiles(m, brk, B), NEW p \in B
    PROVE  /\ PrecededByFree(m, p) => Before(m, p) \in FreeOf(m, B) /\ After(m, Before(m, p)) = p
           /\ ~PrecededByFree(m, p) => \A q \in FreeOf(m, B) : After(m, q) # p
<1>1. /\ p \in Nat /\ p % 8 = 0 /\ p >= FirstBlock /\ FirstBlock = ListEnd + 4 /\ ListEnd \in Nat
      /\ FirstBlock % 8 = 0
  BY BlockFacts, Constants
<1>2. p - 8 > ListEnd <=> p # FirstBlock
  BY <1>1
<1>3. ASSUME NEW q \in B, After(m, q) = p
      PROVE  /\ GET(m, p - 8) = GET(m, q - 4) /\ Before(m, p) = q /\ p # FirstBlock
  <2>1. /\ q \in Nat /\ GETSIZE(m, q) \in Nat /\ p = q + GETSIZE(m, q) + 8 /\ q >= FirstBlock
    BY <1>3, BlockFacts
  <2>2. GET(m, q - 4) = GET(m, q + GETSIZE(m, q))
    BY DEF Tiles, WORDSIZE
  <2>3. q + GETSIZE(m, q) = p - 8 /\ (p - 4) - 4 = p - 8 /\ p # FirstBlock
    BY <1>1, <2>1
  <2>4. GET(m, p - 8) = GET(m, q - 4)
    BY <2>2, <2>3
  <2>5. GETSIZE(m, p - 4) = GETSIZE(m, q)
    BY <2>3, <2>4 DEF GETSIZE, WORDSIZE
  <2>6. Before(m, p) = q
    BY <1>1, <2>1, <2>5 DEF Before, DOUBLESIZE, WORDSIZE
  <2> QED BY <2>3, <2>4, <2>6
<1>4. ASSUME PrecededByFree(m, p)
      PROVE  Before(m, p) \in FreeOf(m, B) /\ After(m, Before(m, p)) = p
  <2>1. p # FirstBlock /\ GET(m, p - 8) % 2 = 0
    BY <1>2, <1>4 DEF PrecededByFree, DOUBLESIZE
  <2>2. PICK q \in B : After(m, q) = p
    BY <2>1 DEF Tiles
  <2>3. Before(m, p) = q /\ GET(m, q - 4) % 2 = 0
    BY <1>3, <2>1, <2>2
  <2>4. ~Using(m, q)
    BY <2>3 DEF Using, WORDSIZE
  <2> QED BY <2>2, <2>3, <2>4 DEF FreeOf
<1>5. ASSUME ~PrecededByFree(m, p), NEW q \in FreeOf(m, B), After(m, q) = p PROVE FALSE
  <2>1. q \in B /\ ~Using(m, q)
    BY DEF FreeOf
  <2>2. GET(m, p - 8) = GET(m, q - 4) /\ p # FirstBlock
    BY <1>3, <1>5, <2>1
  <2>3. GET(m, p - 8) \in Nat
    <3>1. m \in Mem /\ q - 4 \in Addr
      BY <2>1, BlockFacts
    <3> QED BY <2>2, <3>1, GetNat
  <2>4. GET(m, p - 8) % 2 # 1
    BY <2>1, <2>2 DEF Using, WORDSIZE
  <2>5. GET(m, p - 8) % 2 = 0
    BY <2>3, <2>4
  <2> QED BY <1>2, <1>5, <2>2, <2>5 DEF PrecededByFree, DOUBLESIZE
<1> QED BY <1>4, <1>5

(* The free block f is in no list, and may have free neighbours. *)
Loose(m, brk, B, f) ==
    /\ Tiles(m, brk, B)
    /\ f \in FreeOf(m, B)
    /\ Lists(m, FreeOf(m, B) \ {f})
    /\ Apart(m, FreeOf(m, B) \ {f})

LEMMA Kin ==
    ASSUME NEW m, NEW m2, NEW B2, NEW U, U \subseteq B2,
           \A q \in U : /\ Using(m2, q) /\ SameAt(m, m2, PayloadOf(m, q))
                        /\ GETSIZE(m2, q) = GETSIZE(m, q) /\ GETSIZE(m, q) \in Nat
    PROVE  Kept(m, m2, B2, U)
  BY DEF Kept

LEMMA JoinFree ==
    ASSUME NEW m, NEW brk, NEW B, NEW f, Loose(m, brk, B, f),
           NEW p \in FreeOf(m, B), NEW q \in FreeOf(m, B), After(m, p) = q, f \in {p, q},
           NEW x \in {p, q}, x # f
    PROVE  /\ Loose(Joined(m, x, p, q, 0), brk, B \ {q}, p)
           /\ FreeOf(Joined(m, x, p, q, 0), B \ {q}) = FreeOf(m, B) \ {q}
           /\ UsedOf(Joined(m, x, p, q, 0), B \ {q}) = UsedOf(m, B)
           /\ Kept(m, Joined(m, x, p, q, 0), B \ {q}, UsedOf(m, B))
           /\ \A r \in B \ {p, q} : After(Joined(m, x, p, q, 0), r) = After(m, r)
           /\ After(Joined(m, x, p, q, 0), p) = After(m, q)
<1> DEFINE d == Joined(m, x, p, q, 0)
           F == FreeOf(m, B)
           N == F \ {f}
           B2 == B \ {q}
<1>1. Tiles(m, brk, B) /\ Lists(m, N) /\ Apart(m, N) /\ f \in F
  BY DEF Loose
<1>2. N \in SUBSET B /\ p \in B /\ q \in B /\ x \in N /\ (\A y \in {p, q} : y # x => y \notin N)
      /\ 0 \in 0 .. 1 /\ N \ {x} = F \ {p, q} /\ F \in SUBSET B /\ x \in {p, q}
  BY DEF FreeOf
<1> HIDE DEF N
<1>3. /\ Tiles(d, brk, B2) /\ Lists(d, N \ {x})
      /\ \A r \in B \ {p, q} : SameBlock(m, d, r)
      /\ After(d, p) = After(m, q)
      /\ ~Using(d, p)
      /\ \A r \in B \ N : SameAt(m, d, PayloadOf(m, r))
      /\ p # q
  <2>1. JoinsInto(m, d, brk, B, N, x, p, q, 0)
    BY <1>1, <1>2, Join
  <2> QED BY <2>1 DEF JoinsInto
<1> HIDE DEF d
<1>4. \A r \in B \ {p, q} : /\ After(d, r) = After(m, r) /\ GETSIZE(d, r) = GETSIZE(m, r)
                            /\ Using(d, r) <=> Using(m, r)
  BY <1>3 DEF SameBlock
<1>5. FreeOf(d, B2) = F \ {q} /\ UsedOf(d, B2) = UsedOf(m, B)
  BY <1>2, <1>3, <1>4 DEF FreeOf, UsedOf
<1>6. FreeOf(d, B2) \ {p} = N \ {x} /\ p \in FreeOf(d, B2)
  BY <1>2, <1>3, <1>5
<1>7. Apart(d, N \ {x})
  <2>1. ASSUME NEW r \in N \ {x} PROVE After(d, r) \notin N \ {x}
    <3>1. After(d, r) = After(m, r) /\ r \in N
      BY <1>2, <1>4
    <3> QED BY <1>1, <3>1 DEF Apart
  <2> QED BY <2>1 DEF Apart
<1>8. Loose(d, brk, B2, p)
  BY <1>3, <1>6, <1>7 DEF Loose
<1>9. Kept(m, d, B2, UsedOf(m, B))
  <2>1. ASSUME NEW r \in UsedOf(m, B)
        PROVE  /\ r \in B2 /\ Using(d, r) /\ SameAt(m, d, PayloadOf(m, r))
               /\ GETSIZE(d, r) = GETSIZE(m, r) /\ GETSIZE(m, r) \in Nat
    <3>1. r \in B \ {p, q} /\ Using(m, r) /\ r \in B \ N
      BY DEF UsedOf, FreeOf, N
    <3>2. GETSIZE(m, r) \in Nat
      BY <1>1, <3>1, BlockFacts
    <3> QED BY <1>3, <1>4, <3>1, <3>2
  <2>2. UsedOf(m, B) \subseteq B2
    BY <2>1
  <2> QED BY <2>1, <2>2, Kin
<1> QED BY <1>3, <1>4, <1>5, <1>8, <1>9 DEF d

LEMMA KeptSame ==
    ASSUME NEW m, NEW brk, NEW B, Tiles(m, brk, B)
    PROVE  Kept(m, m, B, UsedOf(m, B))
<1> SUFFICES ASSUME NEW q \in UsedOf(m, B)
             PROVE  /\ q \in B /\ Using(m, q)
                    /\ GETSIZE(m, q) <= GETSIZE(m, q)
                    /\ SameAt(m, m, PayloadOf(m, q))
  BY DEF Kept
<1>1. q \in B /\ Using(m, q)
  BY DEF UsedOf
<1>2. GETSIZE(m, q) \in Nat
  BY <1>1, BlockFacts
<1> QED BY <1>1, <1>2 DEF SameAt

LEMMA KeptOn ==
    ASSUME NEW m, NEW brk, NEW B, Tiles(m, brk, B), NEW m2, NEW brk2, NEW B2, Tiles(m2, brk2, B2),
           NEW m3, NEW brk3, NEW B3, Tiles(m3, brk3, B3),
           NEW U, NEW V, U \subseteq V, U \subseteq B, Kept(m, m2, B2, U), Kept(m2, m3, B3, V)
    PROVE  Kept(m, m3, B3, U)
<1>1. m \in Mem /\ m2 \in Mem /\ m3 \in Mem /\ B2 \subseteq Payloads /\ B \subseteq Payloads
  BY DEF Tiles
<1>2. U \subseteq Payloads
  BY <1>1
<1> QED BY <1>1, <1>2, KeptTwice

(* No free neighbour is left: the block goes into its list. *)
LEMMA Attach ==
    ASSUME NEW m, NEW brk, NEW B, NEW f, Loose(m, brk, B, f),
           \A q \in FreeOf(m, B) : After(m, q) # f, After(m, f) \notin FreeOf(m, B),
           NEW d, d = insertBlock(m, f, GETSIZE(m, f))
    PROVE  /\ Heap(d, brk, B)
           /\ UsedOf(d, B) = UsedOf(m, B)
           /\ Kept(m, d, B, UsedOf(m, B))
<1> DEFINE F == FreeOf(m, B)
           N == F \ {f}
<1>1. Tiles(m, brk, B) /\ Lists(m, N) /\ Apart(m, N) /\ f \in F
  BY DEF Loose
<1>2. N \in SUBSET B /\ f \in B \ N /\ N \cup {f} = F /\ F \in SUBSET B
  BY <1>1 DEF FreeOf
<1> HIDE DEF N
<1>3. /\ Tiles(d, brk, B) /\ Lists(d, F)
      /\ \A q \in B : SameBlock(m, d, q)
      /\ \A q \in B \ F : SameAt(m, d, PayloadOf(m, q))
  BY <1>1, <1>2, Link
<1>4. \A q \in B : /\ After(d, q) = After(m, q) /\ GETSIZE(d, q) = GETSIZE(m, q)
                   /\ Using(d, q) <=> Using(m, q)
  BY <1>3 DEF SameBlock
<1>5. FreeOf(d, B) = F /\ UsedOf(d, B) = UsedOf(m, B)
  BY <1>4 DEF FreeOf, UsedOf
<1>6. Apart(d, F)
  <2>1. ASSUME NEW r \in F PROVE After(d, r) \notin F
    <3>1. After(d, r) = After(m, r) /\ After(m, r) # f
      BY <1>2, <1>4
    <3>2. CASE r = f
      BY <3>1, <3>2
    <3>3. CASE r # f
      BY <1>1, <3>1, <3>3 DEF Apart, N
    <3> QED BY <3>2, <3>3
  <2> QED BY <2>1 DEF Apart
<1>7. Heap(d, brk, B)
  BY <1>3, <1>5, <1>6 DEF Heap
<1>8. Kept(m, d, B, UsedOf(m, B))
  <2>1. ASSUME NEW r \in UsedOf(m, B)
        PROVE  /\ r \in B /\ Using(d, r) /\ SameAt(m, d, PayloadOf(m, r))
               /\ GETSIZE(d, r) = GETSIZE(m, r) /\ GETSIZE(m, r) \in Nat
    <3>1. r \in B \ F /\ Using(m, r)
      BY DEF UsedOf, FreeOf
    <3>2. GETSIZE(m, r) \in Nat
      BY <1>1, <3>1, BlockFacts
    <3> QED BY <1>3, <1>4, <3>1, <3>2
  <2>2. UsedOf(m, B) \subseteq B
    BY <2>1
  <2> QED BY <2>1, <2>2, Kin
<1> QED BY <1>5, <1>7, <1>8

(* The block before, if it is free, takes it over. *)
LEMMA JoinBack ==
    ASSUME NEW m, NEW brk, NEW B, NEW f, Loose(m, brk, B, f),
           NEW p \in FreeOf(m, B), After(m, p) = f
    PROVE  /\ Loose(Joined(m, p, p, f, 0), brk, B \ {f}, p)
           /\ UsedOf(Joined(m, p, p, f, 0), B \ {f}) = UsedOf(m, B)
           /\ Kept(m, Joined(m, p, p, f, 0), B \ {f}, UsedOf(m, B))
           /\ \A q \in FreeOf(Joined(m, p, p, f, 0), B \ {f}) : After(Joined(m, p, p, f, 0), q) # p
<1> DEFINE F == FreeOf(m, B)
           d == Joined(m, p, p, f, 0)
<1>1. Tiles(m, brk, B) /\ Apart(m, F \ {f}) /\ f \in F /\ F \subseteq B
  BY DEF Loose, FreeOf
<1>2. p \in F /\ After(m, p) = f
  OBVIOUS
<1>3. p \in Nat /\ f \in Nat /\ p < f /\ f < After(m, f)
  <2>1. p < f /\ f < After(m, f)
    BY <1>1, <1>2, Larger
  <2> QED BY <1>1, <1>2, <2>1, BlockFacts
<1>4. p # f
  BY <1>3
<1>5. /\ Loose(d, brk, B \ {f}, p)
      /\ FreeOf(d, B \ {f}) = F \ {f}
      /\ UsedOf(d, B \ {f}) = UsedOf(m, B)
      /\ Kept(m, d, B \ {f}, UsedOf(m, B))
      /\ \A r \in B \ {p, f} : After(d, r) = After(m, r)
      /\ After(d, p) = After(m, f)
  <2>1. f \in {p, f} /\ p \in {p, f} /\ f \in FreeOf(m, B)
    BY <1>1
  <2> QED BY <1>4, <2>1, JoinFree
<1> HIDE DEF d
<1>6. ASSUME NEW q \in F \ {f} PROVE After(d, q) # p
  <2>1. CASE q = p
    <3>1. After(m, f) \in Nat
      BY <1>1, BlockFacts
    <3> QED BY <1>3, <1>5, <2>1, <3>1
  <2>2. CASE q # p
    <3>1. After(d, q) = After(m, q)
      BY <1>1, <1>5, <2>2
    <3> QED BY <1>1, <1>2, <1>4, <3>1 DEF Apart
  <2> QED BY <2>1, <2>2
<1> QED BY <1>5, <1>6 DEF d

(* It takes over the block behind, if that is free. *)
LEMMA JoinOn ==
    ASSUME NEW m, NEW brk, NEW B, NEW f, Loose(m, brk, B, f),
           NEW n \in FreeOf(m, B), After(m, f) = n, \A q \in FreeOf(m, B) : After(m, q) # f
    PROVE  /\ Loose(Joined(m, n, f, n, 0), brk, B \ {n}, f)
           /\ UsedOf(Joined(m, n, f, n, 0), B \ {n}) = UsedOf(m, B)
           /\ Kept(m, Joined(m, n, f, n, 0), B \ {n}, UsedOf(m, B))
           /\ \A q \in FreeOf(Joined(m, n, f, n, 0), B \ {n}) : After(Joined(m, n, f, n, 0), q) # f
           /\ After(Joined(m, n, f, n, 0), f) \notin FreeOf(Joined(m, n, f, n, 0), B \ {n})
<1> DEFINE F == FreeOf(m, B)
           d == Joined(m, n, f, n, 0)
<1>1. Tiles(m, brk, B) /\ Apart(m, F \ {f}) /\ f \in F /\ n \in F /\ F \subseteq B
  BY DEF Loose, FreeOf
<1>2. n \in Nat /\ f \in Nat /\ After(m, n) \in Nat /\ f < n /\ n < After(m, n)
  <2>1. f < n /\ n < After(m, n)
    BY <1>1, Larger
  <2> QED BY <1>1, <2>1, BlockFacts
<1>3. n # f
  BY <1>2
<1>4. /\ Loose(d, brk, B \ {n}, f)
      /\ FreeOf(d, B \ {n}) = F \ {n}
      /\ UsedOf(d, B \ {n}) = UsedOf(m, B)
      /\ Kept(m, d, B \ {n}, UsedOf(m, B))
      /\ \A r \in B \ {f, n} : After(d, r) = After(m, r)
      /\ After(d, f) = After(m, n)
  <2>1. f \in {f, n} /\ n \in {f, n} /\ f \in FreeOf(m, B) /\ n \in FreeOf(m, B)
    BY <1>1
  <2>2. Loose(m, brk, B, f) /\ After(m, f) = n
    OBVIOUS
  <2> HIDE DEF F
  <2>3. /\ Loose(Joined(m, n, f, n, 0), brk, B \ {n}, f)
        /\ FreeOf(Joined(m, n, f, n, 0), B \ {n}) = FreeOf(m, B) \ {n}
        /\ UsedOf(Joined(m, n, f, n, 0), B \ {n}) = UsedOf(m, B)
        /\ Kept(m, Joined(m, n, f, n, 0), B \ {n}, UsedOf(m, B))
        /\ \A r \in B \ {f, n} : After(Joined(m, n, f, n, 0), r) = After(m, r)
        /\ After(Joined(m, n, f, n, 0), f) = After(m, n)
    BY ONLY <1>3, <2>1, <2>2, JoinFree
  <2> QED BY <2>3 DEF F
<1> HIDE DEF d
<1>5. ASSUME NEW q \in F \ {n} PROVE After(d, q) # f
  <2>1. CASE q = f
    BY <1>2, <1>4, <2>1
  <2>2. CASE q # f
    BY <1>1, <1>4, <2>2
  <2> QED BY <2>1, <2>2
<1>6. After(d, f) \notin F
  <2>1. After(m, n) \notin F \ {f}
    BY <1>1, <1>3 DEF Apart
  <2> QED BY <1>2, <1>4, <2>1
<1> QED BY <1>4, <1>5, <1>6 DEF d

LEMMA AbsorbIsJoin ==
    ASSUME NEW m, NEW brk, NEW B, Tiles(m, brk, B), NEW p \in B, NEW bit,
           NEW N \in SUBSET B, Lists(m, N), After(m, p) \in N
    PROVE  Absorb(m, p, bit) = Joined(m, After(m, p), p, After(m, p), bit)
<1> DEFINE n == After(m, p)
           d == deleteBlock(m, n)
<1>1. Absorb(m, p, bit) = SetBlock(d, p, GETSIZE(m, p) + 8 + GETSIZE(m, n), bit)
  BY DEF Absorb, After, DOUBLESIZE
<1>2. SameBlock(m, d, p) /\ SameBlock(m, d, n)
  BY Unlink
<1>3. Joint(d, p, n) = GETSIZE(m, p) + 8 + GETSIZE(m, n)
  BY <1>2 DEF Joint, SameBlock
<1> QED BY <1>1, <1>3 DEF Joined, Merged

LEMMA coalesceRight ==
    ASSUME NEW m, NEW brk, NEW B, NEW p, Loose(m, brk, B, p), NEW d, d = coalesce(m, brk, p)
    PROVE  \E B2 : /\ Heap(d, brk, B2)
                   /\ UsedOf(d, B2) = UsedOf(m, B)
                   /\ Kept(m, d, B2, UsedOf(m, B))
<1> DEFINE prev == Before(m, p)
           first == IF PrecededByFree(m, p) THEN prev ELSE p
           m1 == IF PrecededByFree(m, p) THEN Joined(m, prev, prev, p, 0) ELSE m
           m2 == IF FollowedByFree(m1, brk, first) THEN Absorb(m1, first, 0) ELSE m1
           d0 == insertBlock(m2, first, GETSIZE(m2, first))
           U == UsedOf(m, B)
<1>1. /\ Tiles(m, brk, B) /\ p \in FreeOf(m, B) /\ Lists(m, FreeOf(m, B) \ {p})
      /\ FreeOf(m, B) \subseteq B /\ U \subseteq B
  BY DEF Loose, FreeOf, UsedOf
<1>2. \E B1 : /\ Loose(m1, brk, B1, first) /\ UsedOf(m1, B1) = U /\ Kept(m, m1, B1, U)
              /\ \A q \in FreeOf(m1, B1) : After(m1, q) # first
  <2>1. CASE PrecededByFree(m, p)
    <3> DEFINE j == Joined(m, prev, prev, p, 0)
    <3>0. prev \in FreeOf(m, B) /\ After(m, prev) = p
      BY <1>1, <2>1, Preceding
    <3> HIDE DEF prev
    <3>1. /\ Loose(j, brk, B \ {p}, prev)
          /\ UsedOf(j, B \ {p}) = UsedOf(m, B)
          /\ Kept(m, j, B \ {p}, UsedOf(m, B))
          /\ \A q \in FreeOf(j, B \ {p}) : After(j, q) # prev
      BY <3>0, JoinBack
    <3>2. m1 = j /\ first = prev
      BY <2>1
    <3> HIDE DEF j, m1, first
    <3> QED BY <3>1, <3>2
  <2>2. CASE ~PrecededByFree(m, p)
    <3>1. m1 = m /\ first = p
      BY <2>2
    <3>2. \A q \in FreeOf(m, B) : After(m, q) # p
      BY <1>1, <2>2, Preceding
    <3>3. Kept(m, m, B, U)
      BY <1>1, KeptSame
    <3> HIDE DEF m1, first
    <3> QED BY <3>1, <3>2, <3>3
  <2> QED BY <2>1, <2>2
<1>3. m1 = IF first = p THEN m
           ELSE SetBlock(deleteBlock(m, prev), prev, GETSIZE(m, prev) + GETSIZE(m, p) + 8, 0)
  <2>1. CASE ~PrecededByFree(m, p)
    BY <2>1
  <2>2. CASE PrecededByFree(m, p)
    <3> DEFINE dd == deleteBlock(m, prev)
    <3>1. prev \in FreeOf(m, B) /\ prev # p
      <4>1. prev \in FreeOf(m, B) /\ After(m, prev) = p
        BY <1>1, <2>2, Preceding
      <4>2. prev < p /\ prev \in Nat /\ p \in Nat
        BY <1>1, <4>1, Larger, BlockFacts
      <4> QED BY <4>1, <4>2
    <3>2. SameBlock(m, dd, prev) /\ SameBlock(m, dd, p)
      <4>1. FreeOf(m, B) \ {p} \in SUBSET B /\ prev \in FreeOf(m, B) \ {p} /\ p \in B /\ prev \in B
        BY <1>1, <3>1
      <4> QED BY <1>1, <4>1, Unlink
    <3>3. GETSIZE(m, prev) \in Nat /\ GETSIZE(m, p) \in Nat
      BY <1>1, <3>1, BlockFacts
    <3>4. Joint(dd, prev, p) = GETSIZE(m, prev) + GETSIZE(m, p) + 8
      BY <3>2, <3>3 DEF Joint, SameBlock
    <3> QED BY <2>2, <3>1, <3>4 DEF Joined, Merged
  <2> QED BY <2>1, <2>2
<1>4. d = d0
  BY <1>3 DEF coalesce, Before, DOUBLESIZE
<1>5. PICK B1 : /\ Loose(m1, brk, B1, first) /\ UsedOf(m1, B1) = U /\ Kept(m, m1, B1, U)
                /\ \A q \in FreeOf(m1, B1) : After(m1, q) # first
  BY <1>2
<1> HIDE DEF first, m1
<1>6. /\ Tiles(m1, brk, B1) /\ first \in B1 /\ FreeOf(m1, B1) \ {first} \in SUBSET B1
      /\ Lists(m1, FreeOf(m1, B1) \ {first}) /\ UsedOf(m1, B1) \subseteq B1
  BY <1>5 DEF Loose, FreeOf, UsedOf
<1>7. \E B2 : /\ Loose(m2, brk, B2, first) /\ UsedOf(m2, B2) = U /\ Kept(m1, m2, B2, U)
              /\ \A q \in FreeOf(m2, B2) : After(m2, q) # first
              /\ After(m2, first) \notin FreeOf(m2, B2)
  <2> DEFINE n == After(m1, first)
  <2>1. CASE FollowedByFree(m1, brk, first)
    <3>1. n \in FreeOf(m1, B1) /\ After(m1, first) = n
      BY <1>6, <2>1, Following
    <3>2. n \in FreeOf(m1, B1) \ {first}
      <4>1. first < n
        BY <1>6, <3>1, Larger DEF FreeOf
      <4>2. first \in Nat /\ n \in Nat
        BY <1>6, BlockFacts
      <4> QED BY <3>1, <4>1, <4>2
    <3>3. m2 = Joined(m1, n, first, n, 0)
      BY <1>6, <2>1, <3>2, AbsorbIsJoin
    <3> HIDE DEF n, m2
    <3>4. /\ Loose(Joined(m1, n, first, n, 0), brk, B1 \ {n}, first)
          /\ UsedOf(Joined(m1, n, first, n, 0), B1 \ {n}) = UsedOf(m1, B1)
          /\ Kept(m1, Joined(m1, n, first, n, 0), B1 \ {n}, UsedOf(m1, B1))
          /\ \A q \in FreeOf(Joined(m1, n, first, n, 0), B1 \ {n}) :
                 After(Joined(m1, n, first, n, 0), q) # first
          /\ After(Joined(m1, n, first, n, 0), first)
                 \notin FreeOf(Joined(m1, n, first, n, 0), B1 \ {n})
      BY <1>5, <3>1, JoinOn
    <3> QED BY <1>5, <3>3, <3>4
  <2>2. CASE ~FollowedByFree(m1, brk, first)
    <3>1. n \notin FreeOf(m1, B1)
      BY <1>6, <2>2, Following
    <3>2. Kept(m1, m1, B1, U)
      BY <1>5, <1>6, KeptSame
    <3>3. m2 = m1
      BY <2>2
    <3> HIDE DEF m2
    <3> QED BY <1>5, <3>1, <3>2, <3>3
  <2> QED BY <2>1, <2>2
<1> HIDE DEF m2, U
<1>8. PICK B2 : /\ Loose(m2, brk, B2, first) /\ UsedOf(m2, B2) = U /\ Kept(m1, m2, B2, U)
                /\ \A q \in FreeOf(m2, B2) : After(m2, q) # first
                /\ After(m2, first) \notin FreeOf(m2, B2)
  BY <1>7
<1>9. Heap(d, brk, B2) /\ UsedOf(d, B2) = U /\ Kept(m2, d, B2, U)
  BY <1>4, <1>8, Attach
<1>10. Tiles(m2, brk, B2) /\ Tiles(d, brk, B2) /\ U \subseteq B1 /\ U \subseteq B
  BY <1>1, <1>5, <1>6, <1>8, <1>9 DEF Loose, Heap
<1>11. Kept(m1, d, B2, U)
  BY <1>6, <1>8, <1>9, <1>10, KeptOn
<1>12. Kept(m, d, B2, U)
  BY <1>1, <1>5, <1>6, <1>10, <1>11, KeptOn
<1> QED BY <1>9, <1>12 DEF U

LEMMA mm_freeRight ==
    ASSUME NEW m, NEW brk, NEW B, Heap(m, brk, B), NEW p \in UsedOf(m, B)
    PROVE  \E B2 : /\ Heap(mm_free(m, brk, p), brk, B2)
                   /\ UsedOf(mm_free(m, brk, p), B2) = UsedOf(m, B) \ {p}
                   /\ Kept(m, mm_free(m, brk, p), B2, UsedOf(m, B) \ {p})
<1> DEFINE m0 == Marked(m, p, 0)
           N == FreeOf(m, B)
           U == UsedOf(m, B) \ {p}
           d == coalesce(m0, brk, p)
<1>1. /\ Tiles(m, brk, B) /\ Lists(m, N) /\ Apart(m, N) /\ p \in B /\ Using(m, p)
      /\ N \in SUBSET B /\ 0 \in 0 .. 1 /\ U \subseteq B
  BY DEF Heap, UsedOf, FreeOf
<1>2. mm_free(m, brk, p) = d
  BY <1>1 DEF mm_free, Marked
<1>3. /\ Tiles(m0, brk, B) /\ Lists(m0, N)
      /\ \A q \in B \ {p} : SameBlock(m, m0, q)
      /\ GETSIZE(m0, p) = GETSIZE(m, p) /\ After(m0, p) = After(m, p)
      /\ ~Using(m0, p)
      /\ \A q \in B : SameAt(m, m0, PayloadOf(m, q))
  BY <1>1, Mark
<1> HIDE DEF m0, d
<1>4. \A q \in B : /\ After(m0, q) = After(m, q) /\ GETSIZE(m0, q) = GETSIZE(m, q)
                   /\ q # p => (Using(m0, q) <=> Using(m, q))
  BY <1>3 DEF SameBlock
<1>5. FreeOf(m0, B) = N \cup {p} /\ UsedOf(m0, B) = U /\ p \notin N
  BY <1>1, <1>3, <1>4 DEF FreeOf, UsedOf
<1>6. Apart(m0, N)
  BY <1>1, <1>4 DEF Apart
<1>7. Loose(m0, brk, B, p)
  <2>1. (N \cup {p}) \ {p} = N
    BY <1>5
  <2> QED BY <1>3, <1>5, <1>6, <2>1 DEF Loose
<1>8. Kept(m, m0, B, U)
  <2>1. ASSUME NEW r \in U
        PROVE  /\ r \in B /\ Using(m0, r) /\ SameAt(m, m0, PayloadOf(m, r))
               /\ GETSIZE(m0, r) = GETSIZE(m, r) /\ GETSIZE(m, r) \in Nat
    <3>1. r \in B /\ Using(m, r) /\ r # p
      BY DEF UsedOf
    <3>2. GETSIZE(m, r) \in Nat
      BY <1>1, <3>1, BlockFacts
    <3> QED BY <1>3, <1>4, <3>1, <3>2
  <2> QED BY <1>1, <2>1, Kin
<1> HIDE DEF U
<1>9. PICK B2 : Heap(d, brk, B2) /\ UsedOf(d, B2) = U /\ Kept(m0, d, B2, U)
  BY <1>5, <1>7, coalesceRight DEF d
<1>10. Kept(m, d, B2, U)
  BY <1>1, <1>3, <1>8, <1>9, KeptOn DEF Heap
<1> QED BY <1>2, <1>9, <1>10 DEF U

(* The block behind, if it is free, is taken over by one in use. *)
LEMMA coalesceBackRight ==
    ASSUME NEW m, NEW brk, NEW B, Heap(m, brk, B), NEW p \in UsedOf(m, B)
    PROVE  \E B2 : /\ Heap(coalesceBack(m, brk, p), brk, B2)
                   /\ UsedOf(coalesceBack(m, brk, p), B2) = UsedOf(m, B)
                   /\ Kept(m, coalesceBack(m, brk, p), B2, UsedOf(m, B))
<1> DEFINE d == coalesceBack(m, brk, p)
           N == FreeOf(m, B)
           U == UsedOf(m, B)
           n == After(m, p)
           B2 == B \ {n}
<1>1. /\ Tiles(m, brk, B) /\ Lists(m, N) /\ Apart(m, N) /\ p \in B /\ Using(m, p)
      /\ N \in SUBSET B /\ 1 \in 0 .. 1 /\ p \notin N
  BY DEF Heap, UsedOf, FreeOf
<1>2. CASE ~FollowedByFree(m, brk, p)
  <2>1. d = m
    BY <1>2 DEF coalesceBack
  <2>2. Kept(m, m, B, U)
    BY <1>1, KeptSame
  <2> HIDE DEF d
  <2> QED BY <2>1, <2>2 DEF d
<1>3. CASE FollowedByFree(m, brk, p)
  <2>1. n \in N /\ n \in B
    BY <1>1, <1>3, Following
  <2>2. d = Joined(m, n, p, n, 1)
    <3>1. d = Absorb(m, p, 1)
      BY <1>3 DEF coalesceBack
    <3> QED BY <1>1, <2>1, <3>1, AbsorbIsJoin
  <2>3. GETSIZE(m, p) <= Joint(m, p, n)
    BY <1>1, <2>1, Larger
  <2> DEFINE j == Joined(m, n, p, n, 1)
  <2>4. After(m, p) = n /\ n \in {p, n} /\ (\A y \in {p, n} : y # n => y \notin N)
    BY <1>1
  <2> HIDE DEF n
  <2>5. /\ Tiles(j, brk, B \ {n}) /\ Lists(j, N \ {n})
        /\ \A r \in B \ {p, n} : SameBlock(m, j, r)
        /\ GETSIZE(j, p) = Joint(m, p, n)
        /\ Using(j, p)
        /\ \A r \in B \ N : SameAt(m, j, PayloadOf(m, r))
        /\ p # n
    <3> HIDE DEF N
    <3>1. JoinsInto(m, Joined(m, n, p, n, 1), brk, B, N, n, p, n, 1)
      BY ONLY <1>1, <2>1, <2>4, Join
    <3> QED BY <3>1 DEF JoinsInto
  <2> HIDE DEF d, j
  <2>6. \A r \in B \ {p, n} : /\ After(j, r) = After(m, r) /\ GETSIZE(j, r) = GETSIZE(m, r)
                              /\ Using(j, r) <=> Using(m, r)
    BY <2>5 DEF SameBlock
  <2>7. ~Using(m, n)
    BY <2>1 DEF FreeOf
  <2>8. FreeOf(j, B2) = N \ {n} /\ UsedOf(j, B2) = U
    BY <1>1, <2>5, <2>6, <2>7 DEF FreeOf, UsedOf
  <2>9. Apart(j, N \ {n})
    <3>1. ASSUME NEW r \in N \ {n} PROVE After(j, r) \notin N \ {n}
      <4>1. After(j, r) = After(m, r)
        BY <1>1, <2>6
      <4> QED BY <1>1, <4>1 DEF Apart
    <3> QED BY <3>1 DEF Apart
  <2>10. Heap(j, brk, B2)
    BY <2>5, <2>8, <2>9 DEF Heap
  <2>11. Kept(m, j, B2, U)
    <3> SUFFICES ASSUME NEW r \in U
                 PROVE  /\ r \in B2 /\ Using(j, r)
                        /\ GETSIZE(m, r) <= GETSIZE(j, r)
                        /\ SameAt(m, j, PayloadOf(m, r))
      BY DEF Kept
    <3>1. r \in B \ N /\ Using(m, r) /\ r # n /\ r \in B2
      BY <2>7 DEF UsedOf, FreeOf
    <3>2. GETSIZE(m, r) \in Nat
      BY <1>1, <3>1, BlockFacts
    <3>3. GETSIZE(m, r) <= GETSIZE(j, r) /\ Using(j, r)
      BY <2>3, <2>5, <2>6, <3>1, <3>2
    <3> QED BY <2>5, <3>1, <3>3
  <2>12. d = j
    BY <2>2 DEF j, d
  <2> HIDE DEF B2, U
  <2> QED BY <2>8, <2>10, <2>11, <2>12 DEF d, U
<1> QED BY <1>2, <1>3

(* Whoever owns a block writes what it likes into it. *)
LEMMA Fill ==
    ASSUME NEW m, NEW brk, NEW B, Heap(m, brk, B), NEW p \in UsedOf(m, B),
           NEW m2 \in Mem, SameAt(m, m2, Addr \ PayloadOf(m, p))
    PROVE  /\ Heap(m2, brk, B)
           /\ UsedOf(m2, B) = UsedOf(m, B)
           /\ \A q \in B : SameBlock(m, m2, q)
           /\ Kept(m, m2, B, UsedOf(m, B) \ {p})
<1> DEFINE N == FreeOf(m, B)
           U == UsedOf(m, B) \ {p}
<1>1. /\ Tiles(m, brk, B) /\ Lists(m, N) /\ Apart(m, N) /\ p \in B /\ Using(m, p)
      /\ N \in SUBSET B /\ p \in B \ N
  BY DEF Heap, UsedOf, FreeOf
<1>2. ASSUME NEW q \in B
      PROVE  /\ GET(m2, q - 4) = GET(m, q - 4)
             /\ GET(m2, q + GETSIZE(m, q)) = GET(m, q + GETSIZE(m, q))
  <2>1. q - 4 \in Addr /\ q + GETSIZE(m, q) \in Addr
    BY <1>1, BlockFacts
  <2>2. q - 4 \notin PayloadOf(m, p) /\ q + GETSIZE(m, q) \notin PayloadOf(m, p)
    BY <1>1, TagsAreNoPayload
  <2> QED BY <2>1, <2>2 DEF SameAt
<1>3. /\ Tiles(m2, brk, B)
      /\ \A q \in B : SameBlock(m, m2, q)
  BY <1>1, <1>2, TilesTags
<1>4. \A q \in B : /\ After(m2, q) = After(m, q) /\ GETSIZE(m2, q) = GETSIZE(m, q)
                   /\ Using(m2, q) <=> Using(m, q)
  BY <1>3 DEF SameBlock
<1>5. FreeOf(m2, B) = N /\ UsedOf(m2, B) = UsedOf(m, B)
  BY <1>4 DEF FreeOf, UsedOf
<1>6. Lists(m2, N)
  <2>1. SameAt(m, m2, LinkAddrs(N))
    <3>1. LinkAddrs(N) \subseteq Addr /\ PayloadOf(m, p) \cap LinkAddrs(N) = {}
      BY <1>1, LinksAreAddrs, PayloadIsNoLink
    <3> QED BY <3>1 DEF SameAt
  <2>2. N \subseteq Payloads /\ \A q \in N : GETSIZE(m2, q) = GETSIZE(m, q)
    BY <1>1, <1>4 DEF Tiles
  <2> QED BY <1>1, <2>1, <2>2, ListsFrame
<1>7. Apart(m2, N)
  BY <1>1, <1>4 DEF Apart
<1>8. Kept(m, m2, B, U)
  <2>1. ASSUME NEW r \in U
        PROVE  /\ r \in B /\ Using(m2, r) /\ SameAt(m, m2, PayloadOf(m, r))
               /\ GETSIZE(m2, r) = GETSIZE(m, r) /\ GETSIZE(m, r) \in Nat
    <3>1. r \in B /\ Using(m, r) /\ r # p
      BY DEF UsedOf
    <3>2. GETSIZE(m, r) \in Nat
      BY <1>1, <3>1, BlockFacts
    <3>3. PayloadOf(m, r) \cap PayloadOf(m, p) = {} /\ PayloadOf(m, r) \subseteq Addr
      BY <1>1, <3>1, PayloadsApart DEF PayloadOf
    <3>4. SameAt(m, m2, PayloadOf(m, r))
      BY <3>3 DEF SameAt
    <3> QED BY <1>4, <3>1, <3>2, <3>4
  <2>2. U \subseteq B
    BY <2>1
  <2> QED BY <2>1, <2>2, Kin
<1> QED BY <1>3, <1>5, <1>6, <1>7, <1>8 DEF Heap

(* The words of a payload, one by one. *)
LEMMA WordAt ==
    ASSUME NEW p \in Nat, p % 4 = 0, NEW k \in Nat, k % 4 = 0
    PROVE  (p + k) \div 4 = p \div 4 + k \div 4 /\ (p + k) % 4 = 0
  OBVIOUS

LEMMA memcpyRight ==
    ASSUME NEW m \in Mem, NEW to \in Payloads, NEW from \in Payloads, NEW size \in Nat,
           size % 4 = 0
    PROVE  /\ memcpy(m, to, from, size) \in Mem
           /\ \A a \in Addr : a < to \/ a >= to + size =>
                 GET(memcpy(m, to, from, size), a) = GET(m, a)
           /\ \A k \in Nat : k % 4 = 0 /\ k < size /\ to + k \in Addr /\ from + k \in Addr =>
                GET(memcpy(m, to, from, size), to + k) = GET(m, from + k)
<1> DEFINE d == memcpy(m, to, from, size)
           W == 0 .. MAX_HEAP \div 4 - 1
           t == to \div 4
           f == from \div 4
           s == size \div 4
<1>1. to \in Nat /\ to % 4 = 0 /\ from \in Nat /\ from % 4 = 0
  BY Constants DEF Payloads, Addr
<1>2. DOMAIN m = W /\ \A w \in W : m[w] \in Nat
  BY DEF Mem, WORDSIZE
<1>3. d = [w \in W |-> IF w - t \notin 0 .. s - 1 THEN m[w]
                       ELSE IF f + (w - t) \in W THEN m[f + (w - t)] ELSE 0]
  BY <1>2 DEF memcpy, WORDSIZE
<1> HIDE DEF d, W
<1>4. d \in Mem
  <2>1. \A w \in W : d[w] \in Nat
    BY <1>2, <1>3
  <2>2. d \in [W -> Nat]
    BY <1>3, <2>1
  <2> QED BY <2>2 DEF Mem, W, WORDSIZE
<1>5. ASSUME NEW a \in Addr, a < to \/ a >= to + size PROVE GET(d, a) = GET(m, a)
  <2>1. a \in Nat /\ a % 4 = 0 /\ a \div 4 \in W
    BY WordOfAddr DEF W, Addr
  <2>2. a \div 4 - t \notin 0 .. s - 1
    BY <1>1, <1>5, <2>1
  <2> HIDE DEF t, s, f
  <2>3. d[a \div 4] = m[a \div 4]
    BY <1>3, <2>1, <2>2
  <2> QED BY <2>3 DEF GET, WORDSIZE
<1>6. ASSUME NEW k \in Nat, k % 4 = 0, k < size, to + k \in Addr, from + k \in Addr
      PROVE  GET(d, to + k) = GET(m, from + k)
  <2> DEFINE c == k \div 4
  <2>1. (to + k) \div 4 = t + c /\ (from + k) \div 4 = f + c
    BY <1>1, <1>6, WordAt
  <2>2. (to + k) \div 4 \in W /\ (from + k) \div 4 \in W
    BY <1>6, WordOfAddr DEF W
  <2>3. c \in 0 .. s - 1 /\ t \in Nat /\ f \in Nat /\ s \in Nat
    BY <1>1, <1>6
  <2> HIDE DEF t, s, f, c
  <2>4. (t + c) - t = c /\ t + c \in W /\ f + c \in W
    BY <2>1, <2>2, <2>3
  <2>5. d[t + c] = m[f + c]
    BY <1>3, <2>3, <2>4
  <2> QED BY <2>1, <2>5 DEF GET, WORDSIZE
<1> QED BY <1>4, <1>5, <1>6 DEF d

LEMMA InPayload ==
    ASSUME NEW m, NEW brk, NEW B, Tiles(m, brk, B), NEW p \in B, NEW k \in Nat, k % 4 = 0,
           k < GETSIZE(m, p)
    PROVE  p + k \in PayloadOf(m, p) /\ p + k \in Addr
<1>1. /\ p \in Nat /\ p % 8 = 0 /\ GETSIZE(m, p) \in Nat /\ p + GETSIZE(m, p) \in Addr
      /\ MAX_HEAP \in Nat
  BY BlockFacts
<1>2. p + k \in Nat /\ p + k < p + GETSIZE(m, p) /\ p <= p + k
  BY <1>1
<1>3. p % 4 = 0
  BY <1>1
<1>4. (p + k) % 4 = 0
  BY <1>1, <1>3, WordAt
<1>5. p + k < MAX_HEAP
  BY <1>1, <1>2 DEF Addr
<1> QED BY <1>1, <1>2, <1>4, <1>5 DEF PayloadOf, Addr

(* Of the payload at p as much as both sizes allow is now at p2.           *)
Copied(m, p, m2, p2, size) ==
    \A k \in Nat : k % 4 = 0 /\ k < size /\ k < GETSIZE(m, p) => GET(m2, p2 + k) = GET(m, p + k)

(* The block p is now p2, and has the size asked for. *)
Moves(m, B, p, m2, brk2, B2, p2, size) ==
    /\ Heap(m2, brk2, B2)
    /\ p2 \notin UsedOf(m, B) \ {p}
    /\ UsedOf(m2, B2) = (UsedOf(m, B) \ {p}) \cup {p2}
    /\ GETSIZE(m2, p2) >= size
    /\ Kept(m, m2, B2, UsedOf(m, B) \ {p})
    /\ Copied(m, p, m2, p2, size)

LEMMA KeptIsCopied ==
    ASSUME NEW m, NEW brk, NEW B, Tiles(m, brk, B), NEW m2, NEW B2, NEW U, U \subseteq B,
           NEW p \in U, Kept(m, m2, B2, U), NEW size
    PROVE  Copied(m, p, m2, p, size)
<1> SUFFICES ASSUME NEW k \in Nat, k % 4 = 0, k < GETSIZE(m, p)
             PROVE  GET(m2, p + k) = GET(m, p + k)
  BY DEF Copied
<1>1. p + k \in PayloadOf(m, p)
  BY InPayload
<1> QED BY <1>1 DEF Kept, SameAt

(* The payload moves into a new block, and the old one is freed. *)
LEMMA Moved ==
    ASSUME NEW m, NEW brk, NEW B, Heap(m, brk, B), NEW p \in UsedOf(m, B),
           NEW m2, NEW brk2, NEW B2, NEW p2, NEW size \in Nat, size % 4 = 0,
           Gives(m, B, m2, brk2, B2, p2, size)
    PROVE  \E B3 : Moves(m, B, p, mm_free(memcpy(m2, p2, p, size), brk2, p), brk2, B3, p2, size)
<1> DEFINE c == memcpy(m2, p2, p, size)
           d == mm_free(c, brk2, p)
           U == UsedOf(m, B)
           V == U \ {p}
<1>1. Tiles(m, brk, B) /\ U \subseteq B /\ p \in B
  BY DEF Heap, UsedOf
<1>2. /\ Heap(m2, brk2, B2) /\ p2 \notin U /\ UsedOf(m2, B2) = U \cup {p2}
      /\ GETSIZE(m2, p2) >= size /\ Kept(m, m2, B2, U)
  BY DEF Gives
<1>3. Tiles(m2, brk2, B2) /\ p \in B2 /\ p2 \in UsedOf(m2, B2) /\ p2 \in B2
  BY <1>2 DEF Heap, UsedOf
<1>4. m2 \in Mem /\ p \in Payloads /\ p2 \in Payloads
  BY <1>3 DEF Tiles
<1>5. /\ p2 \in Nat /\ GETSIZE(m2, p2) \in Nat
  BY <1>3, BlockFacts
<1>6. /\ c \in Mem
      /\ \A a \in Addr : a < p2 \/ a >= p2 + size => GET(c, a) = GET(m2, a)
      /\ \A k \in Nat : k % 4 = 0 /\ k < size /\ p2 + k \in Addr /\ p + k \in Addr =>
            GET(c, p2 + k) = GET(m2, p + k)
  BY <1>4, memcpyRight
<1> HIDE DEF c, U
<1>7. SameAt(m2, c, Addr \ PayloadOf(m2, p2))
  <2>1. ASSUME NEW a \in Addr \ PayloadOf(m2, p2) PROVE a < p2 \/ a >= p2 + size
    <3>1. a \in Nat
      BY Constants DEF Addr
    <3> QED BY <1>2, <1>5, <3>1 DEF PayloadOf
  <2> QED BY <1>6, <2>1 DEF SameAt
<1>8. /\ Heap(c, brk2, B2) /\ UsedOf(c, B2) = U \cup {p2}
      /\ \A q \in B2 : SameBlock(m2, c, q)
      /\ Kept(m2, c, B2, (U \cup {p2}) \ {p2})
  <2>1. /\ Heap(c, brk2, B2) /\ UsedOf(c, B2) = UsedOf(m2, B2)
        /\ \A q \in B2 : SameBlock(m2, c, q)
        /\ Kept(m2, c, B2, UsedOf(m2, B2) \ {p2})
    BY ONLY <1>2, <1>3, <1>6, <1>7, Fill
  <2> QED BY <1>2, <2>1
<1>9. p # p2 /\ (U \cup {p2}) \ {p2} = U /\ (U \cup {p2}) \ {p} = V \cup {p2} /\ p \in UsedOf(c, B2)
  BY <1>2, <1>8 DEF U
<1>10. PICK B3 : /\ Heap(d, brk2, B3) /\ UsedOf(d, B3) = V \cup {p2}
                 /\ Kept(c, d, B3, V \cup {p2})
  BY <1>8, <1>9, mm_freeRight
<1> HIDE DEF d, V
<1>11. Tiles(c, brk2, B2) /\ Tiles(d, brk2, B3) /\ V \subseteq U /\ V \subseteq B
  BY <1>1, <1>8, <1>10 DEF Heap, V
<1>12. Kept(m, c, B2, U)
  BY <1>1, <1>2, <1>3, <1>8, <1>9, <1>11, KeptOn
<1>13. Kept(m, c, B2, V)
  BY <1>11, <1>12 DEF Kept
<1>14. Kept(m, d, B3, V)
  <2>1. V \subseteq V \cup {p2}
    OBVIOUS
  <2> QED BY <1>1, <1>10, <1>11, <1>13, <2>1, KeptOn
<1>15. GETSIZE(d, p2) >= size /\ SameAt(c, d, PayloadOf(c, p2)) /\ GETSIZE(c, p2) = GETSIZE(m2, p2)
  <2>1. GETSIZE(c, p2) = GETSIZE(m2, p2)
    BY <1>3, <1>8 DEF SameBlock
  <2>2. GETSIZE(c, p2) <= GETSIZE(d, p2) /\ SameAt(c, d, PayloadOf(c, p2)) /\ p2 \in B3
    BY <1>10 DEF Kept
  <2>3. GETSIZE(d, p2) \in Nat
    BY <1>11, <2>2, BlockFacts
  <2> QED BY <1>2, <1>5, <2>1, <2>2, <2>3
<1>16. Copied(m, p, d, p2, size)
  <2> SUFFICES ASSUME NEW k \in Nat, k % 4 = 0, k < size, k < GETSIZE(m, p)
               PROVE  GET(d, p2 + k) = GET(m, p + k)
    BY DEF Copied
  <2>1. p + k \in PayloadOf(m, p) /\ p + k \in Addr
    BY <1>1, InPayload
  <2>2. k < GETSIZE(c, p2)
    BY <1>2, <1>5, <1>15
  <2>3. p2 + k \in PayloadOf(c, p2) /\ p2 + k \in Addr
    BY <1>3, <1>11, <2>2, InPayload
  <2>4. GET(d, p2 + k) = GET(c, p2 + k)
    BY <1>15, <2>3 DEF SameAt
  <2>5. GET(c, p2 + k) = GET(m2, p + k)
    BY <1>6, <2>1, <2>3
  <2>6. GET(m2, p + k) = GET(m, p + k)
    <3>1. p \in U
      BY DEF U
    <3> QED BY <1>2, <2>1, <3>1 DEF Kept, SameAt
  <2> QED BY <2>4, <2>5, <2>6
<1>17. p2 \notin V
  BY <1>2 DEF V
<1>18. V = UsedOf(m, B) \ {p}
  BY DEF U, V
<1>19. Moves(m, B, p, d, brk2, B3, p2, size)
  BY <1>10, <1>14, <1>15, <1>16, <1>17, <1>18 DEF Moves
<1> QED BY <1>19 DEF d, c

LEMMA MovesOn ==
    ASSUME NEW m, NEW brk, NEW B, Heap(m, brk, B), NEW p \in UsedOf(m, B),
           NEW m1, NEW B1, Heap(m1, brk, B1), UsedOf(m1, B1) = UsedOf(m, B),
           Kept(m, m1, B1, UsedOf(m, B)),
           NEW m2, NEW brk2, NEW B2, NEW p2, NEW size, Moves(m1, B1, p, m2, brk2, B2, p2, size)
    PROVE  Moves(m, B, p, m2, brk2, B2, p2, size)
<1> DEFINE U == UsedOf(m, B)
           V == U \ {p}
<1>1. /\ Heap(m2, brk2, B2) /\ p2 \notin V
      /\ UsedOf(m2, B2) = V \cup {p2}
      /\ GETSIZE(m2, p2) >= size
      /\ Kept(m1, m2, B2, V)
      /\ Copied(m1, p, m2, p2, size)
  BY DEF Moves
<1>2. Tiles(m, brk, B) /\ Tiles(m1, brk, B1) /\ Tiles(m2, brk2, B2) /\ U \subseteq B /\ V \subseteq U
      /\ U \subseteq B1
  <2>1. UsedOf(m1, B1) \subseteq B1
    BY DEF UsedOf
  <2> QED BY <1>1, <2>1 DEF Heap, UsedOf
<1>3. Kept(m, m1, B1, V)
  BY <1>2 DEF Kept
<1>4. Kept(m, m2, B2, V)
  <2>1. V \subseteq V /\ V \subseteq B
    BY <1>2
  <2> HIDE DEF V
  <2> QED BY <1>1, <1>2, <1>3, <2>1, KeptOn
<1>5. Copied(m, p, m2, p2, size)
  <2> SUFFICES ASSUME NEW k \in Nat, k % 4 = 0, k < size, k < GETSIZE(m, p)
               PROVE  GET(m2, p2 + k) = GET(m, p + k)
    BY DEF Copied
  <2>1. GETSIZE(m, p) \in Nat /\ GETSIZE(m1, p) \in Nat
    BY <1>2, BlockFacts
  <2>2. GETSIZE(m, p) <= GETSIZE(m1, p) /\ SameAt(m, m1, PayloadOf(m, p))
    BY DEF Kept
  <2>3. k < GETSIZE(m1, p)
    BY <2>1, <2>2
  <2>4. GET(m2, p2 + k) = GET(m1, p + k)
    BY <1>1, <2>3 DEF Copied
  <2>5. p + k \in PayloadOf(m, p)
    BY <1>2, InPayload
  <2> QED BY <2>2, <2>4, <2>5 DEF SameAt
<1> QED BY <1>1, <1>4, <1>5 DEF Moves

(* The header of a block is not 0, so the size to copy is all of the new   *)
(* one, and what is beyond the old payload is copied too.                  *)
LEMMA copySizeIsAll ==
    ASSUME NEW m, NEW brk, NEW B, Tiles(m, brk, B), NEW p \in B, NEW size
    PROVE  copySize(m, p, size) = size
<1>1. m \in Mem /\ p - 4 \in Addr /\ GETSIZE(m, p) >= 8
  BY BlockFacts
<1>2. GET(m, p - 4) \in Nat
  BY <1>1, GetNat
<1>3. 8 * (GET(m, p - 4) \div 8) >= 8
  BY <1>1 DEF GETSIZE, WORDSIZE
<1>4. GET(m, p - 4) > 0
  BY <1>2, <1>3
<1> QED BY <1>4 DEF copySize, WORDSIZE

LEMMA mm_reallocRight ==
    ASSUME NEW B, Heap(mem, mem_brk, B), NEW p \in UsedOf(mem, B), NEW size \in Sizes,
           flag \in BOOLEAN, useflag \in BOOLEAN, coalesceFlag \in BOOLEAN,
           NEW r, r = mm_realloc(p, size)
    PROVE  /\ r.flag \in BOOLEAN /\ r.use \in BOOLEAN /\ r.co \in BOOLEAN
           /\ r.p = 0 => /\ r.brk = mem_brk
                         /\ \E B2 : /\ Heap(r.m, mem_brk, B2)
                                    /\ UsedOf(r.m, B2) = UsedOf(mem, B)
                                    /\ Kept(mem, r.m, B2, UsedOf(mem, B))
           /\ r.p # 0 => \E B2 : Moves(mem, B, p, r.m, r.brk, B2, r.p, size)
<1> DEFINE back == ~useflag \/ coalesceFlag
           m1 == IF back THEN coalesceBack(mem, mem_brk, p) ELSE mem
           spare == GETSIZE(m1, p) - size
           tight == useflag /\ spare \in 0 .. 12
           co == tight \/ (coalesceFlag /\ ~useflag)
           fl == flag /\ ~tight
           q == mm_malloc(m1, mem_brk, fl, useflag, size)
           U == UsedOf(mem, B)
<1>1. r = IF spare >= 0
          THEN [p |-> p, m |-> m1, brk |-> mem_brk, flag |-> fl, use |-> useflag, co |-> co]
          ELSE [p |-> q.p, brk |-> q.brk, flag |-> q.flag, use |-> q.use, co |-> co,
                m |-> IF q.p = 0 THEN q.m
                      ELSE mm_free(memcpy(q.m, q.p, p, copySize(q.m, p, size)), q.brk, p)]
  BY DEF mm_realloc
<1>2. \E B1 : Heap(m1, mem_brk, B1) /\ UsedOf(m1, B1) = U /\ Kept(mem, m1, B1, U)
  <2>1. CASE back
    <3>1. m1 = coalesceBack(mem, mem_brk, p)
      BY <2>1
    <3> HIDE DEF m1
    <3> QED BY <3>1, coalesceBackRight
  <2>2. CASE ~back
    <3>1. m1 = mem
      BY <2>2
    <3>2. Kept(mem, mem, B, U)
      BY KeptSame DEF Heap
    <3> HIDE DEF m1
    <3> QED BY <3>1, <3>2
  <2> QED BY <2>1, <2>2
<1>3. co \in BOOLEAN /\ fl \in BOOLEAN
  OBVIOUS
<1>4. size \in Nat /\ size % 4 = 0
  BY HeapAssumption
<1> HIDE DEF m1, tight, co, fl
<1>5. PICK B1 : Heap(m1, mem_brk, B1) /\ UsedOf(m1, B1) = U /\ Kept(mem, m1, B1, U)
  BY <1>2
<1>6. Tiles(mem, mem_brk, B) /\ Tiles(m1, mem_brk, B1) /\ p \in B /\ p \in B1 /\ U \subseteq B
      /\ p \in U /\ p \in UsedOf(m1, B1)
  BY <1>5 DEF Heap, UsedOf
<1>7. p # 0 /\ GETSIZE(m1, p) \in Nat
  BY <1>6, BlocksAreNoHeads, BlockFacts
<1>8. CASE spare >= 0
  <2>1. r.p = p /\ r.m = m1 /\ r.brk = mem_brk /\ r.flag = fl /\ r.use = useflag /\ r.co = co
    BY <1>1, <1>8
  <2>2. GETSIZE(m1, p) >= size
    BY <1>4, <1>7, <1>8
  <2>3. Copied(mem, p, m1, p, size)
    BY <1>5, <1>6, KeptIsCopied
  <2>4. Kept(mem, m1, B1, U \ {p})
    BY <1>5 DEF Kept
  <2>5. (U \ {p}) \cup {p} = U
    BY <1>6
  <2>6. Moves(mem, B, p, m1, mem_brk, B1, p, size)
    BY <1>5, <2>2, <2>3, <2>4, <2>5 DEF Moves
  <2> QED BY <1>3, <1>7, <2>1, <2>6
<1>9. CASE ~(spare >= 0)
  <2> HIDE DEF q, spare
  <2>1. r.p = q.p /\ r.brk = q.brk /\ r.flag = q.flag /\ r.use = q.use /\ r.co = co
        /\ r.m = IF q.p = 0 THEN q.m
                 ELSE mm_free(memcpy(q.m, q.p, p, copySize(q.m, p, size)), q.brk, p)
    BY <1>1, <1>9
  <2>2. /\ q.flag \in BOOLEAN /\ q.use \in BOOLEAN
        /\ q.p = 0 => q.m = m1 /\ q.brk = mem_brk
        /\ q.p # 0 => \E B2 : Gives(m1, B1, q.m, q.brk, B2, q.p, size)
    BY <1>3, <1>5, mm_mallocRight DEF q
  <2>3. CASE q.p = 0
    BY <1>3, <1>5, <2>1, <2>2, <2>3
  <2>4. CASE q.p # 0
    <3>1. PICK B2 : Gives(m1, B1, q.m, q.brk, B2, q.p, size)
      BY <2>2, <2>4
    <3>2. Tiles(q.m, q.brk, B2) /\ p \in B2
      BY <1>6, <3>1 DEF Gives, Heap, UsedOf
    <3>3. copySize(q.m, p, size) = size
      BY <3>2, copySizeIsAll
    <3>4. r.m = mm_free(memcpy(q.m, q.p, p, size), q.brk, p)
      BY <2>1, <2>4, <3>3
    <3>5. PICK B3 : Moves(m1, B1, p, mm_free(memcpy(q.m, q.p, p, size), q.brk, p), q.brk,
                          B3, q.p, size)
      BY <1>4, <1>5, <1>6, <3>1, Moved
    <3>6. Moves(m1, B1, p, r.m, q.brk, B3, q.p, size)
      BY <3>4, <3>5
    <3>7. Moves(mem, B, p, r.m, q.brk, B3, q.p, size)
      BY <1>5, <3>6, MovesOn
    <3> QED BY <1>3, <2>1, <2>2, <2>4, <3>7
  <2> QED BY <2>3, <2>4
<1> QED BY <1>8, <1>9

-----------------------------------------------------------------------------
(* The driver's blocks. *)

LEMMA SizesAre == ASSUME NEW n \in Sizes PROVE n \in Nat /\ n > 0 /\ n % 4 = 0
  BY HeapAssumption

(* The words of a block are filled with id. *)
Filled(m, p, size, id) == \A k \in Nat : k % 4 = 0 /\ k < size => GET(m, p + k) = id

LEMMA FilledWords ==
    ASSUME NEW m, NEW id, NEW b, b.ptr \in Nat, b.ptr % 4 = 0,
           b.size \in Nat, b.size > 0, b.size % 4 = 0
    PROVE  (\A w \in WordsOf(b) : m[w] = id) <=> Filled(m, b.ptr, b.size, id)
<1> DEFINE p == b.ptr
           n == b.size
           t == p \div 4
           s == n \div 4
<1>1. WordsOf(b) = t .. (p + n - 1) \div 4
  BY DEF WordsOf, Hi, WORDSIZE
<1>2. p \in Nat /\ p % 4 = 0 /\ n \in Nat /\ n > 0 /\ n % 4 = 0
  OBVIOUS
<1> HIDE DEF p, n
<1>3. (p + n - 1) \div 4 = t + s - 1 /\ t \in Nat /\ s \in Nat
  BY <1>2
<1>4. ASSUME \A w \in WordsOf(b) : m[w] = id PROVE Filled(m, p, n, id)
  <2> SUFFICES ASSUME NEW k \in Nat, k % 4 = 0, k < n PROVE GET(m, p + k) = id
    BY DEF Filled
  <2>1. (p + k) \div 4 = t + k \div 4
    BY <1>2, WordAt
  <2>2. k \div 4 \in 0 .. s - 1
    BY <1>2
  <2> HIDE DEF t, s
  <2>3. t + k \div 4 \in t .. t + s - 1
    BY <1>3, <2>2
  <2> QED BY <1>1, <1>3, <1>4, <2>1, <2>3 DEF GET, WORDSIZE
<1>5. ASSUME Filled(m, p, n, id), NEW w \in WordsOf(b) PROVE m[w] = id
  <2> DEFINE k == 4 * (w - t)
  <2>1. w \in t .. t + s - 1
    BY <1>1, <1>3
  <2>2. w - t \in Nat /\ w - t < s /\ w \in Nat
    BY <1>3, <2>1
  <2>3. k \in Nat /\ k % 4 = 0 /\ k \div 4 = w - t /\ k < n
    BY <1>2, <2>2
  <2>4. (p + k) \div 4 = t + k \div 4
    BY <1>2, <2>3, WordAt
  <2> HIDE DEF k
  <2>5. GET(m, p + k) = id
    BY <1>5, <2>3 DEF Filled
  <2>6. (p + k) \div 4 = w
    BY <1>3, <2>2, <2>3, <2>4
  <2> QED BY <2>5, <2>6 DEF GET, WORDSIZE
<1> QED BY <1>4, <1>5 DEF p, n

LEMMA OwnsFilled ==
    ASSUME NEW m, NEW brk, NEW B, Tiles(m, brk, B), NEW b, NEW id, b.ptr \in UsedOf(m, B),
           b.size \in Sizes, b.size <= GETSIZE(m, b.ptr)
    PROVE  Owns(m, B, b, id) <=> Filled(m, b.ptr, b.size, id)
<1>1. b.ptr \in B
  BY DEF UsedOf
<1>2. b.ptr \in Nat /\ b.ptr % 8 = 0
  BY <1>1, BlockFacts
<1>3. b.ptr % 4 = 0 /\ b.size \in Nat /\ b.size > 0 /\ b.size % 4 = 0
  BY <1>2, SizesAre
<1> QED BY <1>2, <1>3, FilledWords DEF Owns

LEMMA OwnsKept ==
    ASSUME NEW m, NEW brk, NEW B, Tiles(m, brk, B), NEW m2, NEW brk2, NEW B2, Tiles(m2, brk2, B2),
           NEW U, NEW b, NEW id, Owns(m, B, b, id), b.ptr \in U, Kept(m, m2, B2, U)
    PROVE  Owns(m2, B2, b, id)
<1>1. b.ptr \in UsedOf(m, B) /\ b.ptr \in B /\ b.size \in Sizes /\ b.size <= GETSIZE(m, b.ptr)
  BY DEF Owns, UsedOf
<1>2. /\ b.ptr \in UsedOf(m2, B2) /\ b.ptr \in B2 /\ GETSIZE(m, b.ptr) <= GETSIZE(m2, b.ptr)
      /\ SameAt(m, m2, PayloadOf(m, b.ptr))
  BY DEF Kept, UsedOf
<1>3. GETSIZE(m, b.ptr) \in Nat /\ GETSIZE(m2, b.ptr) \in Nat /\ b.size \in Nat
  BY <1>1, <1>2, BlockFacts, SizesAre
<1>4. b.size <= GETSIZE(m2, b.ptr)
  BY <1>1, <1>2, <1>3
<1>5. Filled(m, b.ptr, b.size, id)
  BY <1>1, OwnsFilled
<1>6. Filled(m2, b.ptr, b.size, id)
  <2> SUFFICES ASSUME NEW k \in Nat, k % 4 = 0, k < b.size PROVE GET(m2, b.ptr + k) = id
    BY DEF Filled
  <2>1. GET(m, b.ptr + k) = id
    BY <1>5 DEF Filled
  <2>2. k < GETSIZE(m, b.ptr)
    BY <1>1, <1>3
  <2>3. b.ptr + k \in PayloadOf(m, b.ptr)
    BY <1>1, <2>2, InPayload
  <2> QED BY <1>2, <2>1, <2>3 DEF SameAt
<1> QED BY <1>1, <1>2, <1>4, <1>6, OwnsFilled

LEMMA MemsetRight ==
    ASSUME NEW m, NEW brk, NEW B, Heap(m, brk, B), NEW b, b.ptr \in UsedOf(m, B),
           b.size \in Sizes, b.size <= GETSIZE(m, b.ptr), NEW id \in Nat
    PROVE  /\ Heap(memset(m, b, id), brk, B)
           /\ UsedOf(memset(m, b, id), B) = UsedOf(m, B)
           /\ Owns(memset(m, b, id), B, b, id)
           /\ Kept(m, memset(m, b, id), B, UsedOf(m, B) \ {b.ptr})
<1> DEFINE d == memset(m, b, id)
           W == 0 .. MAX_HEAP \div 4 - 1
           p == b.ptr
           n == b.size
<1>1. Tiles(m, brk, B) /\ p \in B /\ m \in Mem
  BY DEF Heap, UsedOf, Tiles
<1>2. p \in Nat /\ p % 8 = 0 /\ GETSIZE(m, p) \in Nat /\ n \in Nat /\ n > 0 /\ n % 4 = 0
  BY <1>1, BlockFacts, SizesAre
<1>3. DOMAIN m = W /\ \A w \in W : m[w] \in Nat
  BY <1>1 DEF Mem, WORDSIZE
<1>4. d = [w \in W |-> IF w \in WordsOf(b) THEN id ELSE m[w]]
  BY <1>3 DEF memset
<1> HIDE DEF d, W
<1>5. d \in Mem
  <2>1. \A w \in W : d[w] \in Nat
    BY <1>3, <1>4
  <2>2. d \in [W -> Nat]
    BY <1>4, <2>1
  <2> QED BY <2>2 DEF Mem, W, WORDSIZE
<1>6. WordsOf(b) = p \div 4 .. (p + n - 1) \div 4
  BY DEF WordsOf, Hi, WORDSIZE
<1>7. SameAt(m, d, Addr \ PayloadOf(m, p))
  <2> SUFFICES ASSUME NEW a \in Addr, a \notin PayloadOf(m, p) PROVE GET(d, a) = GET(m, a)
    BY DEF SameAt
  <2>1. a \in Nat /\ a % 4 = 0 /\ a \div 4 \in W
    BY WordOfAddr DEF W, Addr
  <2>2. a < p \/ a >= p + GETSIZE(m, p)
    BY <1>2, <2>1 DEF PayloadOf
  <2>3. a < p \/ a >= p + n
    BY <1>2, <2>1, <2>2
  <2> HIDE DEF p, n
  <2>4. a \div 4 \notin p \div 4 .. (p + n - 1) \div 4
    <3>1. (p + n - 1) \div 4 = (p + n) \div 4 - 1
      BY <1>2
    <3> QED BY <1>2, <2>1, <2>3, <3>1
  <2>5. d[a \div 4] = m[a \div 4]
    BY <1>4, <1>6, <2>1, <2>4
  <2> QED BY <2>5 DEF GET, WORDSIZE
<1>8. /\ Heap(d, brk, B) /\ UsedOf(d, B) = UsedOf(m, B)
      /\ \A q \in B : SameBlock(m, d, q)
      /\ Kept(m, d, B, UsedOf(m, B) \ {p})
  BY <1>5, <1>7, Fill
<1>9. Owns(d, B, b, id)
  <2>1. p \in UsedOf(d, B) /\ n <= GETSIZE(d, p)
    BY <1>1, <1>8 DEF SameBlock
  <2>2. Tiles(d, brk, B)
    BY <1>8 DEF Heap
  <2>3. Filled(d, p, n, id)
    <3> SUFFICES ASSUME NEW k \in Nat, k % 4 = 0, k < n PROVE GET(d, p + k) = id
      BY DEF Filled
    <3>1. k < GETSIZE(m, p)
      BY <1>2
    <3>2. p + k \in Addr
      BY <1>1, <3>1, InPayload
    <3>3. (p + k) \div 4 \in W
      BY <3>2, WordOfAddr DEF W
    <3> HIDE DEF p, n
    <3>4. (p + k) \div 4 \in p \div 4 .. (p + n - 1) \div 4
      <4>1. p + k <= p + n - 1
        BY <1>2
      <4> QED BY <1>2, <4>1
    <3> QED BY <1>4, <1>6, <3>3, <3>4 DEF GET, WORDSIZE
  <2> QED BY <2>1, <2>2, <2>3, OwnsFilled
<1> QED BY <1>8, <1>9 DEF d

(* The driver accepts a block that is none of its others. *)
LEMMA Accepted ==
    ASSUME NEW m, NEW brk, NEW B, Tiles(m, brk, B), NEW b, b.ptr \in B, b.size \in Sizes,
           b.size <= GETSIZE(m, b.ptr), NEW own,
           \A i \in DOMAIN own : /\ own[i].ptr \in B /\ own[i].ptr # b.ptr /\ own[i].size \in Sizes
                                 /\ own[i].size <= GETSIZE(m, own[i].ptr)
    PROVE  add_range(own, brk, b)
<1> DEFINE p == b.ptr
           n == b.size
<1>1. /\ p \in Nat /\ p % 8 = 0 /\ GETSIZE(m, p) \in Nat /\ n \in Nat /\ n > 0 /\ brk \in Nat
      /\ After(m, p) = p + GETSIZE(m, p) + 8 /\ After(m, p) <= brk + 4
  BY BlockFacts, SizesAre
<1>2. p \in 0 .. brk - 1 /\ Hi(b) \in 0 .. brk - 1 /\ Hi(b) = p + n - 1
  BY <1>1 DEF Hi
<1>3. ASSUME NEW i \in DOMAIN own
      PROVE  ~(p \in own[i].ptr .. Hi(own[i]) \/ Hi(b) \in own[i].ptr .. Hi(own[i]))
  <2> DEFINE q == own[i].ptr
             k == own[i].size
  <2>1. /\ q \in Nat /\ GETSIZE(m, q) \in Nat /\ k \in Nat /\ k > 0 /\ k <= GETSIZE(m, q)
        /\ After(m, q) = q + GETSIZE(m, q) + 8 /\ q \in B /\ q # p
    BY BlockFacts, SizesAre
  <2>2. After(m, p) <= q \/ After(m, q) <= p
    BY <2>1, Separate
  <2>3. Hi(own[i]) = q + k - 1
    BY DEF Hi
  <2> HIDE DEF q, k, p, n
  <2>4. n <= GETSIZE(m, p)
    BY DEF n, p
  <2>5. ~(p \in q .. q + k - 1 \/ p + n - 1 \in q .. q + k - 1)
    BY <1>1, <2>1, <2>2, <2>4
  <2> QED BY <1>2, <2>3, <2>5 DEF q
<1> QED BY <1>1, <1>2, <1>3 DEF add_range

Ptrs(own, D) == {own[i].ptr : i \in D}

(* Each driver's block stays, but those that the call has given or taken.  *)
LEMMA OwnersOn ==
    ASSUME NEW m, NEW brk, NEW B, Heap(m, brk, B), NEW own, Owners(m, B, own),
           NEW D \in SUBSET DOMAIN own,
           NEW m2, NEW brk2, NEW B2, Heap(m2, brk2, B2), Kept(m, m2, B2, Ptrs(own, D))
    PROVE  /\ \A i \in D : Owns(m2, B2, own[i], i)
           /\ UsedOf(m2, B2) = Ptrs(own, D) => Owners(m2, B2, [i \in D |-> own[i]])
<1>1. Tiles(m, brk, B) /\ Tiles(m2, brk2, B2)
  BY DEF Heap
<1>2. ASSUME NEW i \in D PROVE Owns(m2, B2, own[i], i)
  <2> DEFINE b == own[i]
  <2>1. Owns(m, B, b, i) /\ b.ptr \in Ptrs(own, D)
    BY DEF Owners, Ptrs
  <2> HIDE DEF b
  <2>2. Owns(m2, B2, b, i)
    BY <1>1, <2>1, OwnsKept
  <2> QED BY <2>2 DEF b
<1>3. ASSUME UsedOf(m2, B2) = Ptrs(own, D) PROVE Owners(m2, B2, [i \in D |-> own[i]])
  <2>1. \A i, j \in D : own[i].ptr = own[j].ptr => i = j
    BY DEF Owners
  <2>2. \A p \in UsedOf(m2, B2) : \E i \in D : own[i].ptr = p
    BY <1>3 DEF Ptrs
  <2> QED BY <1>2, <2>1, <2>2 DEF Owners
<1> QED BY <1>2, <1>3

LEMMA OwnersWith ==
    ASSUME NEW m2, NEW B2, NEW own, NEW D \in SUBSET DOMAIN own,
           \A i, j \in D : own[i].ptr = own[j].ptr => i = j,
           \A i \in D : Owns(m2, B2, own[i], i),
           NEW id, id \notin D, NEW b, Owns(m2, B2, b, id), b.ptr \notin Ptrs(own, D),
           UsedOf(m2, B2) = Ptrs(own, D) \cup {b.ptr}
    PROVE  Owners(m2, B2, [i \in D \cup {id} |-> IF i = id THEN b ELSE own[i]])
<1> DEFINE o == [i \in D \cup {id} |-> IF i = id THEN b ELSE own[i]]
<1>1. DOMAIN o = D \cup {id} /\ o[id] = b /\ \A i \in D : o[i] = own[i]
  OBVIOUS
<1> HIDE DEF o
<1>2. \A i \in DOMAIN o : Owns(m2, B2, o[i], i)
  BY <1>1
<1>3. \A i \in D : o[i].ptr # o[id].ptr
  BY <1>1 DEF Ptrs
<1>4. \A i, j \in DOMAIN o : o[i].ptr = o[j].ptr => i = j
  BY <1>1, <1>3
<1>5. \A p \in UsedOf(m2, B2) : \E i \in DOMAIN o : o[i].ptr = p
  BY <1>1 DEF Ptrs
<1> QED BY <1>2, <1>4, <1>5 DEF Owners, o

LEMMA UsedAreOwned ==
    ASSUME NEW m, NEW B, NEW own, Owners(m, B, own)
    PROVE  /\ UsedOf(m, B) = Ptrs(own, DOMAIN own)
           /\ \A j \in DOMAIN own : UsedOf(m, B) \ {own[j].ptr} = Ptrs(own, DOMAIN own \ {j})
<1>1. \A i \in DOMAIN own : own[i].ptr \in UsedOf(m, B)
  BY DEF Owners, Owns
<1>2. \A i, j \in DOMAIN own : own[i].ptr = own[j].ptr => i = j
  BY DEF Owners
<1>3. \A p \in UsedOf(m, B) : \E i \in DOMAIN own : own[i].ptr = p
  BY DEF Owners
<1> QED BY <1>1, <1>2, <1>3 DEF Ptrs

(* Beside its blocks of D the driver takes b, and fills it. *)
InHand(m2, brk2, B2, own, D, id, b) ==
    /\ add_range([i \in D |-> own[i]], brk2, b)
    /\ Heap(memset(m2, b, id), brk2, B2)
    /\ Owners(memset(m2, b, id), B2, [i \in D \cup {id} |-> IF i = id THEN b ELSE own[i]])

LEMMA Granting ==
    ASSUME NEW m, NEW brk, NEW B, Heap(m, brk, B), NEW own, Owners(m, B, own),
           NEW D \in SUBSET DOMAIN own,
           NEW id \in Nat, id \notin D,
           NEW m2, NEW brk2, NEW B2, Heap(m2, brk2, B2), Kept(m, m2, B2, Ptrs(own, D)),
           NEW b, b.ptr \notin Ptrs(own, D), UsedOf(m2, B2) = Ptrs(own, D) \cup {b.ptr},
           b.size \in Sizes, GETSIZE(m2, b.ptr) >= b.size
    PROVE  InHand(m2, brk2, B2, own, D, id, b)
<1> DEFINE d == memset(m2, b, id)
           U == Ptrs(own, D)
<1>1. b.ptr \in UsedOf(m2, B2) /\ b.ptr \in B2 /\ Tiles(m2, brk2, B2)
  BY DEF UsedOf, Heap
<1>2. b.size \in Nat /\ GETSIZE(m2, b.ptr) \in Nat
  BY <1>1, SizesAre, BlockFacts
<1>3. b.size <= GETSIZE(m2, b.ptr) /\ b.ptr \in UsedOf(m2, B2) /\ b.size \in Sizes
  BY <1>1, <1>2
<1>4. \A i \in D : Owns(m2, B2, own[i], i)
  BY OwnersOn
<1>5. add_range([i \in D |-> own[i]], brk2, b)
  <2> DEFINE o == [i \in D |-> own[i]]
  <2>1. \A i \in DOMAIN o : /\ o[i].ptr \in B2 /\ o[i].ptr # b.ptr /\ o[i].size \in Sizes
                            /\ o[i].size <= GETSIZE(m2, o[i].ptr)
    BY <1>1, <1>4 DEF Owns, UsedOf, Ptrs
  <2> HIDE DEF o
  <2>2. add_range(o, brk2, b)
    BY <1>1, <1>3, <2>1, Accepted
  <2> QED BY <2>2 DEF o
<1>6. /\ Heap(d, brk2, B2)
      /\ UsedOf(d, B2) = UsedOf(m2, B2)
      /\ Owns(d, B2, b, id)
      /\ Kept(m2, d, B2, UsedOf(m2, B2) \ {b.ptr})
  BY <1>3, MemsetRight
<1> HIDE DEF d
<1>7. Tiles(d, brk2, B2) /\ UsedOf(m2, B2) \ {b.ptr} = U
  BY <1>1, <1>6 DEF Heap
<1>8. \A i \in D : Owns(d, B2, own[i], i)
  <2> TAKE i \in D
  <2> DEFINE c == own[i]
  <2>1. Owns(m2, B2, c, i) /\ c.ptr \in U
    BY <1>4 DEF Ptrs
  <2> HIDE DEF c
  <2>2. Owns(d, B2, c, i)
    BY <1>1, <1>6, <1>7, <2>1, OwnsKept
  <2> QED BY <2>2 DEF c
<1>9. \A i, j \in D : own[i].ptr = own[j].ptr => i = j
  BY DEF Owners
<1>10. UsedOf(d, B2) = U \cup {b.ptr} /\ b.ptr \notin U
  BY <1>1, <1>6
<1>11. Owners(d, B2, [i \in D \cup {id} |-> IF i = id THEN b ELSE own[i]])
  BY ONLY <1>6, <1>8, <1>9, <1>10, D \in SUBSET DOMAIN own, id \notin D, OwnersWith
<1> QED BY <1>5, <1>6, <1>11 DEF d, InHand

-----------------------------------------------------------------------------
(* The invariant. *)

LEMMA InitInv == Init => IInv
<1> SUFFICES ASSUME Init PROVE InvFor({})
  BY DEF IInv
<1>1. mem \in Mem
  BY DEF Init, Mem
<1>2. DOMAIN blocks = {}
  BY DEF Init
<1>3. {flag, useflag, coalesceFlag} \subseteq BOOLEAN /\ traces = 0 /\ verdict = "valid"
      /\ mem_brk = 0 /\ blocks = [i \in {} |-> {}]
  BY DEF Init
<1> QED BY <1>1, <1>2, <1>3 DEF InvFor

LEMMA mm_initRight ==
    ASSUME NEW m \in Mem
    PROVE  Heap(mm_init(m), ListEnd, {}) /\ UsedOf(mm_init(m), {}) = {}
<1> DEFINE d == mm_init(m)
           W == 0 .. MAX_HEAP \div 4 - 1
<1>1. d = [w \in W |-> IF w < LISTNUM THEN 0 ELSE m[w]]
  BY DEF mm_init, Mem, WORDSIZE
<1>2. d \in Mem
  <2>1. \A w \in W : d[w] \in Nat
    BY <1>1 DEF Mem, WORDSIZE
  <2> HIDE DEF d
  <2>2. d \in [W -> Nat]
    BY <1>1, <2>1
  <2> QED BY <2>2 DEF Mem, WORDSIZE
<1> HIDE DEF d
<1>3. ListEnd \in Nat /\ ListEnd <= MAX_HEAP /\ FirstBlock = ListEnd + WORDSIZE
  BY Constants DEF FirstBlock
<1>4. Tiles(d, ListEnd, {})
  BY <1>2, <1>3 DEF Tiles
<1>5. \A x \in Heads : GET(d, x) = 0
  <2> TAKE x \in Heads
  <2>1. PICK i \in Index : x = ListHead(i)
    BY HeadIs
  <2>2. x \in Addr
    BY HeadIs
  <2>3. i \in Nat /\ i < LISTNUM /\ x = 4 * i
    BY <2>1, Constants DEF Index, ListHead, WORDSIZE
  <2>4. x \div 4 = i
    BY <2>3
  <2>5. i \in W
    BY <2>2, <2>4, WordOfAddr
  <2> QED BY <1>1, <2>3, <2>4, <2>5 DEF GET, WORDSIZE
<1>6. FreeOf(d, {}) = {} /\ UsedOf(d, {}) = {}
  BY DEF FreeOf, UsedOf
<1>7. Lists(d, {})
  BY <1>5 DEF Lists
<1>8. Apart(d, {})
  BY DEF Apart
<1> QED BY <1>4, <1>6, <1>7, <1>8 DEF Heap, d

LEMMA MemOf == ASSUME NEW B, InvFor(B) PROVE mem \in Mem
  BY DEF InvFor, Heap, Tiles

LEMMA BeginInv ==
    ASSUME NEW B \in SUBSET Payloads, InvFor(B), Begin
    PROVE  IInv'
<1>1. mem \in Mem
  BY MemOf
<1>2. Heap(mem', mem_brk', {}) /\ UsedOf(mem', {}) = {}
  BY <1>1, mm_initRight DEF Begin
<1>3. DOMAIN blocks' = {}
  BY DEF Begin
<1>4. Owners(mem', {}, blocks')
  BY <1>2, <1>3 DEF Owners
<1>5. traces' \in Nat /\ traces' # 0
  <2>1. traces \in Nat
    BY DEF InvFor
  <2> QED BY <2>1 DEF Begin
<1>6. {flag', useflag', coalesceFlag'} \subseteq BOOLEAN /\ verdict' = "valid"
  BY DEF InvFor, Begin
<1>7. InvFor({})'
  BY <1>2, <1>3, <1>4, <1>5, <1>6 DEF InvFor
<1> QED BY <1>7 DEF IInv

LEMMA LiveInv ==
    ASSUME NEW B, InvFor(B), Operation
    PROVE  /\ Heap(mem, mem_brk, B) /\ Owners(mem, B, blocks)
           /\ flag \in BOOLEAN /\ useflag \in BOOLEAN /\ coalesceFlag \in BOOLEAN
           /\ traces \in Nat /\ traces # 0 /\ DOMAIN blocks \subseteq Id
<1>1. traces \in Nat /\ traces # 0
  BY DEF InvFor, Operation
<1> QED BY <1>1 DEF InvFor

LEMMA NextLive ==
    ASSUME NEW B2, B2 \subseteq Payloads, Heap(mem', mem_brk', B2), Owners(mem', B2, blocks'),
           flag' \in BOOLEAN, useflag' \in BOOLEAN, coalesceFlag' \in BOOLEAN,
           traces' \in Nat, traces' # 0, DOMAIN blocks' \subseteq Id,
           verdict' \in {"valid", "mm_malloc failed", "mm_realloc failed"}
    PROVE  IInv'
<1>1. InvFor(B2)'
  BY DEF InvFor
<1> QED BY <1>1 DEF IInv

(* The driver has a block that is new or has changed. *)
Given(id) ==
    blocks' = [i \in DOMAIN blocks \cup {id} |-> IF i = id THEN blocks'[id] ELSE blocks[i]]

LEMMA NewId ==
    ASSUME NEW id \in Id, id = NextId
    PROVE  id \notin DOMAIN blocks /\ id \in Nat
<1>1. Id \subseteq Nat
  BY HeapAssumption
<1> DEFINE T == Id \ DOMAIN blocks
<1>2. CASE Id \subseteq DOMAIN blocks
  BY <1>1, <1>2 DEF NextId
<1>3. CASE ~(Id \subseteq DOMAIN blocks)
  <2>1. T \in SUBSET Nat /\ T # {} /\ id = Min(T)
    BY <1>1, <1>3 DEF NextId
  <2> HIDE DEF T
  <2>2. id \in T
    BY <2>1, MinIsMember
  <2> QED BY <1>1, <2>2 DEF T
<1> QED BY <1>2, <1>3

LEMMA AllocStep ==
    ASSUME NEW B, InvFor(B), NEW id \in Id, NEW size \in Sizes, Alloc(id, size)
    PROVE  IInv' /\ (UNCHANGED blocks \/ (id \notin DOMAIN blocks /\ Given(id)))
<1> DEFINE r == mm_malloc(mem, mem_brk, flag, useflag, size)
           b == [ptr |-> r.p, size |-> size]
           D == DOMAIN blocks
<1>1. /\ Heap(mem, mem_brk, B) /\ Owners(mem, B, blocks)
      /\ flag \in BOOLEAN /\ useflag \in BOOLEAN /\ coalesceFlag \in BOOLEAN
      /\ traces \in Nat /\ traces # 0 /\ D \subseteq Id
  BY LiveInv DEF Alloc
<1>2. id \notin D /\ id \in Nat
  BY NewId DEF Alloc
<1>3. /\ mem_brk' = r.brk /\ flag' = r.flag /\ useflag' = r.use /\ traces' = traces
      /\ coalesceFlag' = coalesceFlag
      /\ IF r.p = 0 THEN Fails(r, "mm_malloc failed")
         ELSE IF ~add_range(blocks, r.brk, b) THEN Fails(r, "bad payload")
         ELSE Takes(id, r, b)
  BY DEF Alloc, Returns
<1>4. verdict = "valid"
  BY DEF Alloc, Operation
<1> HIDE DEF r
<1>5. /\ r.flag \in BOOLEAN /\ r.use \in BOOLEAN
      /\ r.p = 0 => r.m = mem /\ r.brk = mem_brk
      /\ r.p # 0 => \E B2 : Gives(mem, B, r.m, r.brk, B2, r.p, size)
  BY <1>1, mm_mallocRight DEF r
<1>6. B \subseteq Payloads
  BY <1>1 DEF Heap, Tiles
<1>7. CASE r.p = 0
  <2>1. mem' = mem /\ mem_brk' = mem_brk /\ verdict' = "mm_malloc failed" /\ blocks' = blocks
    BY <1>3, <1>5, <1>7 DEF Fails
  <2>2. IInv'
    BY <1>1, <1>3, <1>5, <1>6, <2>1, NextLive
  <2> QED BY <2>1, <2>2
<1>8. CASE r.p # 0
  <2>1. PICK B2 : Gives(mem, B, r.m, r.brk, B2, r.p, size)
    BY <1>5, <1>8
  <2>2. UsedOf(mem, B) = Ptrs(blocks, D)
    BY <1>1, UsedAreOwned
  <2>3. /\ Heap(r.m, r.brk, B2) /\ Kept(mem, r.m, B2, Ptrs(blocks, D)) /\ r.p \notin Ptrs(blocks, D)
        /\ UsedOf(r.m, B2) = Ptrs(blocks, D) \cup {r.p} /\ GETSIZE(r.m, r.p) >= size
    BY <2>1, <2>2 DEF Gives
  <2>4. D \in SUBSET DOMAIN blocks
    OBVIOUS
  <2>5. /\ add_range([i \in D |-> blocks[i]], r.brk, b)
        /\ Heap(memset(r.m, b, id), r.brk, B2)
        /\ Owners(memset(r.m, b, id), B2, [i \in D \cup {id} |-> IF i = id THEN b ELSE blocks[i]])
    <3>1. b.ptr = r.p /\ b.size = size
      OBVIOUS
    <3> HIDE DEF D, b
    <3>2. /\ Kept(mem, r.m, B2, Ptrs(blocks, D)) /\ b.ptr \notin Ptrs(blocks, D)
          /\ UsedOf(r.m, B2) = Ptrs(blocks, D) \cup {b.ptr}
          /\ b.size \in Sizes /\ GETSIZE(r.m, b.ptr) >= b.size
      BY <2>3, <3>1
    <3>3. InHand(r.m, r.brk, B2, blocks, D, id, b)
      BY ONLY <1>1, <1>2, <2>3, <2>4, <3>2, Granting
    <3> QED BY <3>3 DEF InHand
  <2>6. add_range(blocks, r.brk, b)
    BY <2>5 DEF add_range
  <2>7. Takes(id, r, b)
    BY <1>3, <1>8, <2>6
  <2> HIDE DEF b
  <2>8. /\ mem' = memset(r.m, b, id) /\ verdict' = "valid"
        /\ blocks' = [i \in D \cup {id} |-> IF i = id THEN b ELSE blocks[i]]
    BY <1>4, <2>7 DEF Takes
  <2>9. DOMAIN blocks' = D \cup {id} /\ blocks'[id] = b
    BY <2>8
  <2>10. Given(id)
    BY <2>8, <2>9 DEF Given
  <2>11. B2 \subseteq Payloads /\ DOMAIN blocks' \subseteq Id
    BY <1>1, <2>3, <2>9 DEF Heap, Tiles
  <2>12. Heap(mem', mem_brk', B2) /\ Owners(mem', B2, blocks')
    BY <1>3, <2>5, <2>8
  <2>13. IInv'
    BY <1>1, <1>3, <1>5, <2>8, <2>11, <2>12, NextLive
  <2> QED BY <1>2, <2>10, <2>13
<1> QED BY <1>7, <1>8

LEMMA MinOfTwo ==
    ASSUME NEW a \in Nat, NEW c \in Nat
    PROVE  Min({a, c}) \in {a, c} /\ Min({a, c}) <= a /\ Min({a, c}) <= c
<1>1. \E x \in {a, c} : \A y \in {a, c} : x <= y
  OBVIOUS
<1> QED BY <1>1 DEF Min

(* What the driver has written into the block has moved with it.           *)
LEMMA Preserved ==
    ASSUME NEW m, NEW brk, NEW B, Tiles(m, brk, B), NEW old, NEW id, Owns(m, B, old, id),
           NEW m2, NEW brk2, NEW B2, Tiles(m2, brk2, B2), NEW p, p \in B2,
           NEW size \in Sizes, Copied(m, old.ptr, m2, p, size)
    PROVE  \A w \in WordsOf([ptr |-> p, size |-> Min({size, old.size})]) : m2[w] = id
<1> DEFINE n == Min({size, old.size})
           kept == [ptr |-> p, size |-> n]
<1>1. /\ old.ptr \in UsedOf(m, B) /\ old.ptr \in B
      /\ old.size \in Sizes /\ old.size <= GETSIZE(m, old.ptr)
  BY DEF Owns, UsedOf
<1>2. /\ old.size \in Nat /\ old.size > 0 /\ old.size % 4 = 0
      /\ size \in Nat /\ size > 0 /\ size % 4 = 0 /\ GETSIZE(m, old.ptr) \in Nat
  BY <1>1, SizesAre, BlockFacts
<1>3. n \in {size, old.size} /\ n <= size /\ n <= old.size
  BY <1>2, MinOfTwo
<1>4. p \in Nat /\ p % 8 = 0
  BY BlockFacts
<1>5. p % 4 = 0
  BY <1>4
<1> HIDE DEF n
<1>6. n \in Nat /\ n > 0 /\ n % 4 = 0
  BY <1>2, <1>3
<1>7. Filled(m, old.ptr, old.size, id)
  BY <1>1, OwnsFilled
<1>8. Filled(m2, p, n, id)
  <2> SUFFICES ASSUME NEW k \in Nat, k % 4 = 0, k < n PROVE GET(m2, p + k) = id
    BY DEF Filled
  <2>1. k < size /\ k < old.size /\ k < GETSIZE(m, old.ptr)
    BY <1>1, <1>2, <1>3, <1>6
  <2>2. GET(m2, p + k) = GET(m, old.ptr + k)
    BY <2>1 DEF Copied
  <2>3. GET(m, old.ptr + k) = id
    BY <1>7, <2>1 DEF Filled
  <2> QED BY <2>2, <2>3
<1>9. kept.ptr = p /\ kept.size = n
  OBVIOUS
<1> HIDE DEF kept
<1>10. \A w \in WordsOf(kept) : m2[w] = id
  BY <1>4, <1>5, <1>6, <1>8, <1>9, FilledWords
<1> QED BY <1>10 DEF kept, n

LEMMA ReallocStep ==
    ASSUME NEW B, InvFor(B), NEW id \in Id, NEW size \in Sizes, Realloc(id, size)
    PROVE  IInv' /\ (UNCHANGED blocks \/ (id \in DOMAIN blocks /\ Given(id)))
<1> DEFINE old == blocks[id]
           r == mm_realloc(old.ptr, size)
           b == [ptr |-> r.p, size |-> size]
           kept == [ptr |-> r.p, size |-> Min({size, old.size})]
           D == DOMAIN blocks \ {id}
           U == UsedOf(mem, B)
<1>1. /\ Heap(mem, mem_brk, B) /\ Owners(mem, B, blocks)
      /\ flag \in BOOLEAN /\ useflag \in BOOLEAN /\ coalesceFlag \in BOOLEAN
      /\ traces \in Nat /\ traces # 0 /\ DOMAIN blocks \subseteq Id
  BY LiveInv DEF Realloc
<1>2. id \in DOMAIN blocks /\ verdict = "valid"
  BY DEF Realloc, Operation
<1>3. /\ mem_brk' = r.brk /\ flag' = r.flag /\ useflag' = r.use /\ traces' = traces
      /\ coalesceFlag' = r.co
      /\ IF r.p = 0 THEN Fails(r, "mm_realloc failed")
         ELSE IF ~add_range(Without(id), r.brk, b) THEN Fails(r, "bad payload")
         ELSE IF \E w \in WordsOf(kept) : r.m[w] # id THEN Fails(r, "data not preserved")
         ELSE Takes(id, r, b)
  BY DEF Realloc, Returns
<1>4. id \in Nat
  BY HeapAssumption
<1>5. Owns(mem, B, old, id) /\ old.ptr \in U
  BY <1>1, <1>2 DEF Owners, Owns
<1> HIDE DEF r, old
<1>6. /\ r.flag \in BOOLEAN /\ r.use \in BOOLEAN /\ r.co \in BOOLEAN
      /\ r.p = 0 => /\ r.brk = mem_brk
                    /\ \E B2 : Heap(r.m, mem_brk, B2) /\ UsedOf(r.m, B2) = U /\ Kept(mem, r.m, B2, U)
      /\ r.p # 0 => \E B2 : Moves(mem, B, old.ptr, r.m, r.brk, B2, r.p, size)
  BY <1>1, <1>5, mm_reallocRight DEF r
<1>7. CASE r.p = 0
  <2>1. mem' = r.m /\ verdict' = "mm_realloc failed" /\ blocks' = blocks
    BY <1>3, <1>7 DEF Fails
  <2>2. PICK B2 : Heap(r.m, mem_brk, B2) /\ UsedOf(r.m, B2) = U /\ Kept(mem, r.m, B2, U)
    BY <1>6, <1>7
  <2> DEFINE E == DOMAIN blocks
  <2>3. U = Ptrs(blocks, E) /\ E \in SUBSET DOMAIN blocks
    BY <1>1, UsedAreOwned
  <2>4. Owners(r.m, B2, [i \in E |-> blocks[i]])
    <3>1. Kept(mem, r.m, B2, Ptrs(blocks, E)) /\ UsedOf(r.m, B2) = Ptrs(blocks, E)
      BY <2>2, <2>3
    <3> HIDE DEF E
    <3> QED BY <1>1, <2>2, <2>3, <3>1, OwnersOn
  <2>5. Owners(r.m, B2, blocks)
    BY <2>4 DEF Owners
  <2>6. B2 \subseteq Payloads
    BY <2>2 DEF Heap, Tiles
  <2>7. IInv'
    BY <1>1, <1>3, <1>6, <1>7, <2>1, <2>2, <2>5, <2>6, NextLive
  <2> QED BY <2>1, <2>7
<1>8. CASE r.p # 0
  <2>1. PICK B2 : Moves(mem, B, old.ptr, r.m, r.brk, B2, r.p, size)
    BY <1>6, <1>8
  <2>2. U \ {old.ptr} = Ptrs(blocks, D) /\ D \in SUBSET DOMAIN blocks /\ id \notin D
    BY <1>1, <1>2, UsedAreOwned DEF old
  <2>3. /\ Heap(r.m, r.brk, B2) /\ Kept(mem, r.m, B2, Ptrs(blocks, D)) /\ r.p \notin Ptrs(blocks, D)
        /\ UsedOf(r.m, B2) = Ptrs(blocks, D) \cup {r.p} /\ GETSIZE(r.m, r.p) >= size
        /\ Copied(mem, old.ptr, r.m, r.p, size)
    BY <2>1, <2>2 DEF Moves
  <2>4. /\ add_range([i \in D |-> blocks[i]], r.brk, b)
        /\ Heap(memset(r.m, b, id), r.brk, B2)
        /\ Owners(memset(r.m, b, id), B2, [i \in D \cup {id} |-> IF i = id THEN b ELSE blocks[i]])
    <3>1. b.ptr = r.p /\ b.size = size
      OBVIOUS
    <3> HIDE DEF D, b, kept, U
    <3>2. /\ Kept(mem, r.m, B2, Ptrs(blocks, D)) /\ b.ptr \notin Ptrs(blocks, D)
          /\ UsedOf(r.m, B2) = Ptrs(blocks, D) \cup {b.ptr}
          /\ b.size \in Sizes /\ GETSIZE(r.m, b.ptr) >= b.size
      BY <2>3, <3>1
    <3>3. InHand(r.m, r.brk, B2, blocks, D, id, b)
      BY ONLY <1>1, <1>4, <2>2, <2>3, <3>2, Granting
    <3> QED BY <3>3 DEF InHand
  <2>5. add_range(Without(id), r.brk, b)
    BY <2>4 DEF Without
  <2>6. \A w \in WordsOf(kept) : r.m[w] = id
    <3>1. Tiles(mem, mem_brk, B) /\ Tiles(r.m, r.brk, B2) /\ r.p \in B2
      BY <1>1, <2>3 DEF Heap, UsedOf
    <3> QED BY <1>5, <2>3, <3>1, Preserved
  <2>7. Takes(id, r, b)
    BY <1>3, <1>8, <2>5, <2>6
  <2> HIDE DEF b
  <2>8. /\ mem' = memset(r.m, b, id) /\ verdict' = "valid"
        /\ blocks' = [i \in DOMAIN blocks \cup {id} |-> IF i = id THEN b ELSE blocks[i]]
    BY <1>2, <2>7 DEF Takes
  <2>9. DOMAIN blocks' = DOMAIN blocks \cup {id} /\ blocks'[id] = b
    BY <2>8
  <2>10. Given(id)
    BY <2>8, <2>9 DEF Given
  <2>11. B2 \subseteq Payloads /\ DOMAIN blocks' \subseteq Id
    BY <1>1, <2>3, <2>9 DEF Heap, Tiles
  <2>12. D \cup {id} = DOMAIN blocks \cup {id}
    OBVIOUS
  <2>13. Heap(mem', mem_brk', B2) /\ Owners(mem', B2, blocks')
    BY <1>3, <2>4, <2>8, <2>12
  <2>14. IInv'
    BY <1>1, <1>3, <1>6, <2>8, <2>11, <2>13, NextLive
  <2> QED BY <1>2, <2>10, <2>14
<1> QED BY <1>7, <1>8

LEMMA FreeStep ==
    ASSUME NEW B, InvFor(B), NEW id \in Id, Free(id)
    PROVE  IInv' /\ id \in DOMAIN blocks /\ blocks' = Without(id)
<1> DEFINE p == blocks[id].ptr
           D == DOMAIN blocks \ {id}
<1>1. /\ Heap(mem, mem_brk, B) /\ Owners(mem, B, blocks)
      /\ flag \in BOOLEAN /\ useflag \in BOOLEAN /\ coalesceFlag \in BOOLEAN
      /\ traces \in Nat /\ traces # 0 /\ DOMAIN blocks \subseteq Id
  BY LiveInv DEF Free
<1>2. /\ id \in DOMAIN blocks /\ blocks' = Without(id) /\ verdict' = "valid"
      /\ mem' = mm_free(mem, mem_brk, p)
      /\ UNCHANGED <<mem_brk, flag, useflag, coalesceFlag, traces>>
  BY DEF Free, Operation
<1>3. p \in UsedOf(mem, B)
  BY <1>1, <1>2 DEF Owners, Owns
<1>4. UsedOf(mem, B) \ {p} = Ptrs(blocks, D) /\ D \in SUBSET DOMAIN blocks
  BY <1>1, <1>2, UsedAreOwned
<1> HIDE DEF p
<1>5. PICK B2 : /\ Heap(mem', mem_brk, B2)
                /\ UsedOf(mem', B2) = UsedOf(mem, B) \ {p}
                /\ Kept(mem, mem', B2, UsedOf(mem, B) \ {p})
  BY <1>1, <1>2, <1>3, mm_freeRight
<1>6. Owners(mem', B2, [i \in D |-> blocks[i]])
  <2>1. Kept(mem, mem', B2, Ptrs(blocks, D)) /\ UsedOf(mem', B2) = Ptrs(blocks, D)
    BY <1>4, <1>5
  <2> HIDE DEF D
  <2> QED BY <1>1, <1>4, <1>5, <2>1, OwnersOn
<1>7. Owners(mem', B2, blocks') /\ DOMAIN blocks' \subseteq Id
  BY <1>1, <1>2, <1>6 DEF Without
<1>8. B2 \subseteq Payloads
  BY <1>5 DEF Heap, Tiles
<1>9. IInv'
  BY <1>1, <1>2, <1>5, <1>7, <1>8, NextLive
<1> QED BY <1>2, <1>9

LEMMA NextInv == IInv /\ [Next]_vars => IInv'
<1> SUFFICES ASSUME NEW B \in SUBSET Payloads, InvFor(B), [Next]_vars PROVE IInv'
  BY DEF IInv
<1>1. CASE Begin
  BY <1>1, BeginInv
<1>2. ASSUME NEW id \in Id, NEW size \in Sizes, Alloc(id, size) PROVE IInv'
  BY <1>2, AllocStep
<1>3. ASSUME NEW id \in Id, NEW size \in Sizes, Realloc(id, size) PROVE IInv'
  BY <1>3, ReallocStep
<1>4. ASSUME NEW id \in Id, Free(id) PROVE IInv'
  BY <1>4, FreeStep
<1>5. CASE UNCHANGED vars
  <2>1. InvFor(B)'
    BY <1>5 DEF vars, InvFor
  <2> QED BY <2>1 DEF IInv
<1> QED BY <1>1, <1>2, <1>3, <1>4, <1>5 DEF Next

(* Between two calls there is a set of blocks that tiles the heap, of which *)
(* the free ones are in the lists and no two are neighbours, and the others *)
(* are the driver's and hold what it has written (mm_malloc, mm_realloc and *)
(* mm_free, in any order).                                                  *)
THEOREM HeapInvariant == Spec => []IInv
<1> QED BY InitInv, NextInv, PTL DEF Spec

LEMMA Counting ==
    /\ Init => traces \in 0 .. MaxTraces /\ ops \in 0 .. MaxOps
    /\ traces \in 0 .. MaxTraces /\ ops \in 0 .. MaxOps /\ [Next]_vars =>
           (traces \in 0 .. MaxTraces /\ ops \in 0 .. MaxOps)'
<1>1. MaxTraces \in Nat /\ MaxOps \in Nat
  BY HeapAssumption
<1>2. Init => traces \in 0 .. MaxTraces /\ ops \in 0 .. MaxOps
  BY <1>1 DEF Init
<1>3. ASSUME traces \in 0 .. MaxTraces, ops \in 0 .. MaxOps, [Next]_vars
      PROVE  (traces \in 0 .. MaxTraces /\ ops \in 0 .. MaxOps)'
  <2>1. CASE Begin
    BY <1>1, <1>3, <2>1 DEF Begin
  <2>2. CASE Operation /\ UNCHANGED traces
    BY <1>1, <1>3, <2>2 DEF Operation
  <2>3. CASE UNCHANGED vars
    BY <1>3, <2>3 DEF vars
  <2>4. Begin \/ (Operation /\ UNCHANGED traces) \/ UNCHANGED vars
    BY <1>3 DEF Next, Alloc, Realloc, Free, Returns
  <2> QED BY <2>1, <2>2, <2>3, <2>4
<1> QED BY <1>2, <1>3

LEMMA TypesInv == IInv /\ traces \in 0 .. MaxTraces /\ ops \in 0 .. MaxOps => TypeOK
<1> SUFFICES ASSUME NEW B \in SUBSET Payloads, InvFor(B),
                    traces \in 0 .. MaxTraces, ops \in 0 .. MaxOps
             PROVE  TypeOK
  BY DEF IInv
<1>1. DOMAIN blocks \subseteq Id /\ {flag, useflag, coalesceFlag} \subseteq BOOLEAN
  BY DEF InvFor
<1>2. CASE traces = 0
  <2>1. mem \in Mem /\ mem_brk = 0 /\ DOMAIN blocks = {}
    BY <1>2 DEF InvFor
  <2>2. mem_brk \in 0 .. MAX_HEAP
    BY <2>1, Constants
  <2> QED BY <1>1, <2>1, <2>2 DEF TypeOK, Mem
<1>3. CASE traces # 0
  <2>1. Tiles(mem, mem_brk, B) /\ Owners(mem, B, blocks)
    BY <1>3 DEF InvFor, Heap
  <2>2. mem \in Mem /\ mem_brk \in 0 .. MAX_HEAP
    BY <2>1 DEF Tiles
  <2>3. ASSUME NEW i \in DOMAIN blocks
        PROVE  blocks[i].ptr \in 1 .. mem_brk - 1 /\ blocks[i].size \in Sizes
    <3> DEFINE p == blocks[i].ptr
    <3>1. p \in B /\ blocks[i].size \in Sizes
      BY <2>1 DEF Owners, Owns, UsedOf
    <3> HIDE DEF p
    <3>2. p \in Nat /\ p >= 8 /\ p < mem_brk /\ mem_brk \in Nat
      BY <2>1, <3>1, BlockFacts DEF Tiles
    <3>3. p \in 1 .. mem_brk - 1
      BY <3>2
    <3> QED BY <3>1, <3>3 DEF p
  <2> QED BY <1>1, <2>2, <2>3 DEF TypeOK, Mem
<1> QED BY <1>2, <1>3

(* Every word of the heap stays a natural number: no size, and no offset   *)
(* in a list, has been taken below 0 (mm.c computes them as unsigned).     *)
THEOREM TypeCorrect == Spec => []TypeOK
<1> QED BY HeapInvariant, Counting, TypesInv, PTL DEF Spec

(* The driver finds no fault with the allocator in any trace, but that the *)
(* heap is full: no payload is misplaced or shared, and none is lost when  *)
(* mm_realloc moves it (eval_mm_valid).                                    *)
THEOREM DriverAcceptsAll == Spec => []DriverAccepts
<1>1. IInv => DriverAccepts
  BY DEF IInv, InvFor, DriverAccepts
<1> QED BY <1>1, HeapInvariant, PTL

-----------------------------------------------------------------------------
(* What the runs check follows from the invariant. *)

LEMMA WalkStays ==
    ASSUME NEW S, NEW a \in S, NEW step \in [S -> S],
           NEW f, f = [n \in Nat |-> IF n = 0 THEN a ELSE step[f[n - 1]]]
    PROVE  f \in [Nat -> S] /\ f[0] = a /\ \A n \in Nat : f[n + 1] = step[f[n]]
<1>1. f[0] = a
  OBVIOUS
<1>2. \A n \in Nat : f[n + 1] = step[f[n]]
  <2> TAKE n \in Nat
  <2>1. n + 1 \in Nat /\ n + 1 # 0 /\ (n + 1) - 1 = n
    OBVIOUS
  <2> QED BY <2>1
<1> DEFINE T == {n \in Nat : f[n] \in S}
<1>3. T \in SUBSET Nat /\ 0 \in T /\ \A n \in T : n + 1 \in T
  BY <1>1, <1>2
<1>4. T = Nat
  <2> HIDE DEF T
  <2> QED BY <1>3, NatInd
<1>5. \A n \in Nat : f[n] \in S
  BY <1>4
<1>6. f = [n \in Nat |-> f[n]]
  OBVIOUS
<1>7. f \in [Nat -> S]
  BY ONLY <1>5, <1>6
<1> QED BY <1>1, <1>2, <1>7

(* The walk from block to block. *)
LEMMA BlockWalk ==
    ASSUME NEW S, FirstBlock \in S,
           \A p \in S : (IF p > mem_brk THEN p ELSE After(mem, p)) \in S
    PROVE  \E f \in [Nat -> S] :
              /\ f[0] = FirstBlock
              /\ \A n \in Nat : f[n + 1] = IF f[n] > mem_brk THEN f[n] ELSE After(mem, f[n])
              /\ HeapBlocks = {f[n] : n \in 0 .. MaxBlocks} \cap 0 .. mem_brk
<1> DEFINE step == [p \in S |-> IF p > mem_brk THEN p ELSE After(mem, p)]
           nth[n \in Nat] ==
               IF n = 0 THEN ListEnd + WORDSIZE
               ELSE LET p == nth[n - 1] IN IF p > mem_brk THEN p ELSE Behind(p)
<1>1. HeapBlocks = {nth[n] : n \in 0 .. MaxBlocks} \cap 0 .. mem_brk
  BY DEF HeapBlocks
<1>2. step \in [S -> S]
  OBVIOUS
<1>3. PICK f : f = [n \in Nat |-> IF n = 0 THEN FirstBlock ELSE step[f[n - 1]]]
  <2> HIDE DEF step
  <2> QED BY <1>2, WalkExists
<1>4. f \in [Nat -> S] /\ f[0] = FirstBlock /\ \A n \in Nat : f[n + 1] = step[f[n]]
  <2> HIDE DEF step
  <2> QED BY <1>2, <1>3, WalkStays
<1>5. \A n \in Nat : f[n + 1] = IF f[n] > mem_brk THEN f[n] ELSE After(mem, f[n])
  BY <1>4
<1>6. \A n \in Nat : n # 0 => n - 1 \in Nat /\ (n - 1) + 1 = n
  OBVIOUS
<1>7. f = [n \in Nat |-> IF n = 0 THEN ListEnd + WORDSIZE
               ELSE LET p == f[n - 1] IN IF p > mem_brk THEN p ELSE Behind(p)]
  <2> HIDE DEF step
  <2>1. \A n \in Nat : f[n] = IF n = 0 THEN ListEnd + WORDSIZE
               ELSE LET p == f[n - 1] IN IF p > mem_brk THEN p ELSE Behind(p)
    BY <1>4, <1>5, <1>6 DEF FirstBlock, After, Behind
  <2>2. f = [n \in Nat |-> f[n]]
    BY <1>4
  <2> QED BY ONLY <2>1, <2>2
<1>8. nth = [n \in Nat |-> IF n = 0 THEN ListEnd + WORDSIZE
               ELSE LET p == nth[n - 1] IN IF p > mem_brk THEN p ELSE Behind(p)]
  BY <1>7
<1> HIDE DEF nth, step
<1> DEFINE T == {n \in Nat : nth[n] = f[n]}
<1>9. T = Nat
  <2>1. 0 \in T
    BY <1>4, <1>8 DEF FirstBlock
  <2>2. ASSUME NEW n \in T PROVE n + 1 \in T
    <3>1. n + 1 \in Nat /\ n + 1 # 0 /\ (n + 1) - 1 = n /\ n \in Nat
      OBVIOUS
    <3>2. nth[n + 1] = LET p == nth[n] IN IF p > mem_brk THEN p ELSE Behind(p)
      BY <1>8, <3>1
    <3> QED BY <1>5, <3>1, <3>2 DEF Behind, After
  <2>3. T \in SUBSET Nat
    OBVIOUS
  <2> HIDE DEF T
  <2> QED BY <2>1, <2>2, <2>3, NatInd
<1>10. MaxBlocks \in Nat
  BY Constants DEF MaxBlocks, DOUBLESIZE
<1>11. \A n \in 0 .. MaxBlocks : nth[n] = f[n]
  BY <1>9, <1>10
<1>12. HeapBlocks = {f[n] : n \in 0 .. MaxBlocks} \cap 0 .. mem_brk
  BY <1>1, <1>11
<1> QED BY <1>4, <1>5, <1>12

LEMMA NoBlocksYet ==
    ASSUME mem_brk = 0
    PROVE  HeapBlocks = {}
<1> DEFINE S == {FirstBlock}
<1>1. FirstBlock \in Nat /\ FirstBlock > mem_brk
  BY Constants
<1>2. FirstBlock \in S /\ \A p \in S : (IF p > mem_brk THEN p ELSE After(mem, p)) \in S
  BY <1>1
<1>3. PICK f \in [Nat -> S] : HeapBlocks = {f[n] : n \in 0 .. MaxBlocks} \cap 0 .. mem_brk
  <2> HIDE DEF S
  <2> QED BY <1>2, BlockWalk
<1> QED BY <1>1, <1>3

LEMMA HeapBlocksAre ==
    ASSUME NEW B, Tiles(mem, mem_brk, B)
    PROVE  HeapBlocks = B
<1> DEFINE S == B \cup {mem_brk + 4}
<1>1. /\ B \subseteq Payloads /\ mem_brk \in Nat /\ mem_brk <= MAX_HEAP /\ FirstBlock \in S
      /\ \A q \in S : q = FirstBlock \/ \E p \in B : After(mem, p) = q
      /\ \A p \in B : p < mem_brk /\ After(mem, p) \in S
  BY DEF Tiles, WORDSIZE
<1>2. \A p \in B : p \in Nat /\ ~(p > mem_brk)
  BY <1>1, BlockFacts
<1>3. mem_brk + 4 > mem_brk /\ mem_brk + 4 \in Nat
  BY <1>1
<1>4. \A p \in S : (IF p > mem_brk THEN p ELSE After(mem, p)) \in S
  BY <1>1, <1>2, <1>3
<1>5. PICK f \in [Nat -> S] :
          /\ f[0] = FirstBlock
          /\ \A n \in Nat : f[n + 1] = IF f[n] > mem_brk THEN f[n] ELSE After(mem, f[n])
          /\ HeapBlocks = {f[n] : n \in 0 .. MaxBlocks} \cap 0 .. mem_brk
  <2> HIDE DEF S
  <2> QED BY <1>1, <1>4, BlockWalk
<1>6. MaxBlocks = MAX_HEAP \div 16 /\ MAX_HEAP \in Nat /\ FirstBlock \in Nat
  BY Constants DEF MaxBlocks, DOUBLESIZE
<1>7. HeapBlocks \subseteq B
  <2>1. \A n \in 0 .. MaxBlocks : f[n] \in B \/ f[n] = mem_brk + 4
    BY <1>5, <1>6
  <2>2. mem_brk + 4 \notin 0 .. mem_brk
    BY <1>1
  <2> QED BY <1>5, <2>1, <2>2
<1> DEFINE T == {p \in B : ~\E n \in Nat : f[n] = p /\ 16 * n <= p - FirstBlock}
<1>8. T = {}
  <2> SUFFICES ASSUME T # {} PROVE FALSE
    OBVIOUS
  <2>1. PICK p \in T : \A q \in T : p <= q
    <3>1. T \in SUBSET Nat
      BY <1>2
    <3> HIDE DEF T
    <3> QED BY <3>1, LeastNat
  <2>2. p \in B /\ ~\E n \in Nat : f[n] = p /\ 16 * n <= p - FirstBlock
    BY <2>1
  <2>3. CASE p = FirstBlock
    <3>1. f[0] = p /\ 16 * 0 <= p - FirstBlock /\ 0 \in Nat
      BY <1>5, <1>6, <2>3
    <3> QED BY <2>2, <3>1
  <2>4. CASE p # FirstBlock
    <3>1. PICK q \in B : After(mem, q) = p
      BY <1>1, <2>2, <2>4
    <3>2. q \in Nat /\ p \in Nat /\ q + 16 <= p
      BY <2>2, <3>1, BlockFacts
    <3>3. q \notin T
      BY <2>1, <3>2
    <3>4. PICK n \in Nat : f[n] = q /\ 16 * n <= q - FirstBlock
      BY <3>3
    <3>5. f[n + 1] = p
      BY <1>2, <1>5, <3>1, <3>4
    <3>6. n + 1 \in Nat /\ 16 * (n + 1) <= p - FirstBlock
      BY <1>6, <3>2, <3>4
    <3> QED BY <2>2, <3>5, <3>6
  <2> QED BY <2>3, <2>4
<1>9. B \subseteq HeapBlocks
  <2> SUFFICES ASSUME NEW p \in B PROVE p \in HeapBlocks
    OBVIOUS
  <2>1. PICK n \in Nat : f[n] = p /\ 16 * n <= p - FirstBlock
    BY <1>8
  <2>2. p \in Nat /\ p <= mem_brk
    BY <1>1, <1>2
  <2>3. 16 * n <= MAX_HEAP
    BY <1>1, <1>6, <2>1, <2>2
  <2>4. n \in 0 .. MaxBlocks
    BY <1>6, <2>3
  <2>5. p \in 0 .. mem_brk
    BY <1>1, <2>2
  <2> QED BY <1>5, <2>1, <2>4, <2>5
<1> QED BY <1>7, <1>9

LEMMA FiniteBlocks ==
    ASSUME NEW N, N \subseteq Payloads
    PROVE  IsFiniteSet(N)
<1> DEFINE A == 0 .. MAX_HEAP - 1
<1>1. IsFiniteSet(A)
  BY Constants, FS_Interval
<1>2. N \in SUBSET A
  BY DEF Payloads, Addr
<1> HIDE DEF A
<1> QED BY <1>1, <1>2, FS_Subset

(* One step along a list from each of some blocks. *)
StepOn(S) == (S \cup {GET(mem, p) : p \in S}) \ {0}
ListedIn(N, i) == {p \in N : ListOf(mem, p) = i}

LEMMA ListStep ==
    ASSUME NEW N, N \subseteq Payloads, Lists(mem, N), NEW i \in Index
    PROVE  /\ {GET(mem, ListHead(i))} \ {0} \subseteq ListedIn(N, i)
           /\ \A S \in SUBSET ListedIn(N, i) :
                 /\ S \subseteq StepOn(S) /\ StepOn(S) \subseteq ListedIn(N, i)
                 /\ {GET(mem, ListHead(i))} \ {0} \subseteq S /\ S # ListedIn(N, i) =>
                        \E p \in StepOn(S) : p \notin S
           /\ {GET(mem, ListHead(i))} \ {0} = {} => ListedIn(N, i) = {}
<1> DEFINE h == ListHead(i)
           C == ListedIn(N, i)
<1>1. h \in Heads /\ ListOf(mem, h) = i
  BY HeadFacts
<1>2. /\ \A x \in N \cup Heads : GET(mem, x) # 0 =>
              GET(mem, x) \in N /\ ListOf(mem, GET(mem, x)) = ListOf(mem, x)
      /\ \A p \in N : /\ GET(mem, p + WORDSIZE) \in N \cup Heads
                      /\ ListOf(mem, GET(mem, p + WORDSIZE)) = ListOf(mem, p)
                      /\ GET(mem, GET(mem, p + WORDSIZE)) = p
      /\ \A S \in SUBSET N : S # {} => \E p \in S : GET(mem, p + WORDSIZE) \notin S
  BY DEF Lists
<1>3. 0 \notin N
  BY Constants DEF Payloads
<1>4. {GET(mem, h)} \ {0} \subseteq C
  BY <1>1, <1>2 DEF ListedIn
<1>5. \A x \in Heads : ListOf(mem, x) = i => x = h
  <2> SUFFICES ASSUME NEW x \in Heads, ListOf(mem, x) = i PROVE x = h
    OBVIOUS
  <2>1. PICK j \in Index : x = ListHead(j)
    BY HeadIs
  <2> QED BY <2>1, HeadFacts
<1>6. ASSUME NEW S \in SUBSET C, S # C, {GET(mem, h)} \ {0} \subseteq S
      PROVE  \E p \in C \ S : \E q \in S : GET(mem, q) = p
  <2>1. C \ S \in SUBSET N /\ C \ S # {}
    BY <1>6 DEF ListedIn
  <2>2. PICK p \in C \ S : GET(mem, p + WORDSIZE) \notin C \ S
    BY <1>2, <2>1
  <2> DEFINE q == GET(mem, p + WORDSIZE)
  <2>3. p \in N /\ ListOf(mem, p) = i /\ p # 0 /\ p \notin S
    BY <1>3, <2>2 DEF ListedIn
  <2>4. q \in N \cup Heads /\ ListOf(mem, q) = i /\ GET(mem, q) = p
    BY <1>2, <2>3
  <2>5. q \notin Heads
    BY <1>5, <1>6, <2>3, <2>4
  <2>6. q \in S
    BY <2>2, <2>4, <2>5 DEF ListedIn
  <2> QED BY <2>2, <2>4, <2>6
<1>7. ASSUME NEW S \in SUBSET C
      PROVE  S \subseteq StepOn(S) /\ StepOn(S) \subseteq C
  <2>1. S \subseteq N
    BY DEF ListedIn
  <2>2. \A p \in S : GET(mem, p) # 0 => GET(mem, p) \in C
    BY <1>2 DEF ListedIn
  <2> QED BY <1>3, <2>1, <2>2 DEF StepOn
<1>8. ASSUME NEW S \in SUBSET C, {GET(mem, h)} \ {0} \subseteq S, S # C
      PROVE  \E p \in StepOn(S) : p \notin S
  <2>1. PICK p \in C \ S : \E q \in S : GET(mem, q) = p
    BY <1>6, <1>8
  <2>2. p # 0
    BY <1>3 DEF ListedIn
  <2>3. p \in StepOn(S)
    BY <2>1, <2>2 DEF StepOn
  <2> QED BY <2>3
<1>9. ASSUME {GET(mem, h)} \ {0} = {} PROVE C = {}
  <2>1. {} \in SUBSET C /\ ({} # C => \E p \in StepOn({}) : TRUE)
    BY <1>8, <1>9
  <2> QED BY <2>1 DEF StepOn
<1> QED BY <1>4, <1>7, <1>8, <1>9

(* As many steps as there are blocks meet all of a list. *)
LEMMA AllReached ==
    ASSUME NEW N, N \subseteq Payloads, Lists(mem, N), NEW i \in Index,
           NEW f \in [Nat -> SUBSET ListedIn(N, i)],
           f[0] = {GET(mem, ListHead(i))} \ {0}, \A n \in Nat : f[n + 1] = StepOn(f[n])
    PROVE  f[Cardinality(N)] = ListedIn(N, i)
<1> DEFINE C == ListedIn(N, i)
           first == {GET(mem, ListHead(i))} \ {0}
           T == {n \in Nat : first \subseteq f[n] /\ (f[n] = C \/ Cardinality(f[n]) >= n + 1)}
<1>1. C \in SUBSET N /\ IsFiniteSet(N) /\ IsFiniteSet(C)
  <2>1. C \in SUBSET N /\ IsFiniteSet(N)
    BY FiniteBlocks DEF ListedIn
  <2> HIDE DEF C
  <2> QED BY <2>1, FS_Subset
<1>2. \A n \in Nat : f[n] \in SUBSET C /\ IsFiniteSet(f[n]) /\ Cardinality(f[n]) \in Nat
  <2> TAKE n \in Nat
  <2>1. f[n] \in SUBSET C
    OBVIOUS
  <2> HIDE DEF C
  <2>2. IsFiniteSet(f[n])
    BY <1>1, <2>1, FS_Subset
  <2> QED BY <2>1, <2>2, FS_CardinalityType
<1>3. 0 \in T
  <2>1. first \subseteq f[0] /\ f[0] = first
    OBVIOUS
  <2>2. CASE first = {}
    BY <2>1, <2>2, ListStep
  <2>3. CASE first # {}
    <3>1. first = {GET(mem, ListHead(i))}
      BY <2>3
    <3>2. Cardinality(f[0]) = 1
      BY <2>1, <3>1, FS_Singleton
    <3>3. Cardinality(f[0]) >= 0 + 1
      BY <3>2
    <3> HIDE DEF first, C
    <3> QED BY <2>1, <3>3
  <2> QED BY <2>2, <2>3
<1>4. ASSUME NEW n \in T PROVE n + 1 \in T
  <2>1. n \in Nat /\ n + 1 \in Nat /\ f[n + 1] = StepOn(f[n]) /\ first \subseteq f[n]
    OBVIOUS
  <2>2. f[n] \subseteq f[n + 1] /\ f[n + 1] \subseteq C
    BY <1>2, <2>1, ListStep
  <2>3. CASE f[n] = C
    BY <2>1, <2>2, <2>3
  <2>4. CASE f[n] # C
    <3>1. PICK p \in f[n + 1] : p \notin f[n]
      BY <1>2, <2>1, <2>4, ListStep
    <3> DEFINE A == f[n]
               D == f[n + 1]
    <3>2. IsFiniteSet(A) /\ IsFiniteSet(D) /\ Cardinality(A) \in Nat /\ Cardinality(D) \in Nat
      BY <1>2, <2>1
    <3>3. A \cup {p} \in SUBSET D /\ p \notin A
      BY <2>2, <3>1
    <3>4. Cardinality(A) >= n + 1
      BY <2>4
    <3> HIDE DEF A, D
    <3>5. Cardinality(A \cup {p}) = Cardinality(A) + 1
      BY <3>2, <3>3, FS_AddElement
    <3>6. Cardinality(A \cup {p}) <= Cardinality(D)
      BY <3>2, <3>3, FS_Subset
    <3>7. Cardinality(D) >= (n + 1) + 1
      BY <2>1, <3>2, <3>4, <3>5, <3>6
    <3> QED BY <2>1, <2>2, <3>7 DEF D
  <2> QED BY <2>3, <2>4
<1>5. T = Nat
  <2>1. T \in SUBSET Nat
    OBVIOUS
  <2> HIDE DEF T
  <2> QED BY <1>3, <1>4, <2>1, NatInd
<1> DEFINE n == Cardinality(N)
<1>6. n \in Nat
  BY <1>1, FS_CardinalityType
<1> HIDE DEF n
<1>7. f[n] = C \/ Cardinality(f[n]) >= n + 1
  BY <1>5, <1>6
<1>8. Cardinality(f[n]) <= n
  <2>1. f[n] \in SUBSET N
    BY <1>1, <1>2, <1>6
  <2> QED BY <1>1, <2>1, FS_Subset DEF n
<1> QED BY <1>2, <1>6, <1>7, <1>8 DEF n

LEMMA ListIsReached ==
    ASSUME NEW i \in Index, Lists(mem, FreeBlocks), FreeBlocks \subseteq Payloads
    PROVE  LET next(p) == GET(mem, p)
               step(S) == (S \cup {next(p) : p \in S}) \ {0}
               reached[n \in Nat] ==
                   IF n = 0 THEN {next(ListHead(i))} \ {0} ELSE step(reached[n - 1])
           IN  reached[Cardinality(FreeBlocks)] = ListedIn(FreeBlocks, i)
<1> DEFINE first == {GET(mem, ListHead(i))} \ {0}
           C == ListedIn(FreeBlocks, i)
           forward == [S \in SUBSET C |-> StepOn(S)]
           reached[n \in Nat] == IF n = 0 THEN first ELSE StepOn(reached[n - 1])
<1>1. first \in SUBSET C /\ \A S \in SUBSET C : StepOn(S) \in SUBSET C
  BY ListStep
<1>2. forward \in [SUBSET C -> SUBSET C]
  BY <1>1
<1>3. PICK f : f = [n \in Nat |-> IF n = 0 THEN first ELSE forward[f[n - 1]]]
  <2> HIDE DEF first, C, forward
  <2> QED BY <1>1, <1>2, WalkExists
<1>4. f \in [Nat -> SUBSET C] /\ f[0] = first /\ \A n \in Nat : f[n + 1] = forward[f[n]]
  <2> DEFINE S == SUBSET C
  <2>1. first \in S /\ forward \in [S -> S]
    BY <1>1, <1>2
  <2> HIDE DEF first, forward, S
  <2>2. f \in [Nat -> S] /\ f[0] = first /\ \A n \in Nat : f[n + 1] = forward[f[n]]
    BY ONLY <1>3, <2>1, WalkStays
  <2> QED BY <2>2 DEF S
<1>5. \A n \in Nat : f[n + 1] = StepOn(f[n])
  BY <1>4
<1>6. \A n \in Nat : n # 0 => n - 1 \in Nat /\ (n - 1) + 1 = n
  OBVIOUS
<1> HIDE DEF first, forward
<1>7. f = [n \in Nat |-> IF n = 0 THEN first ELSE StepOn(f[n - 1])]
  <2>1. \A n \in Nat : f[n] = IF n = 0 THEN first ELSE StepOn(f[n - 1])
    BY <1>4, <1>5, <1>6
  <2>2. f = [n \in Nat |-> f[n]]
    BY <1>4
  <2> QED BY ONLY <2>1, <2>2
<1>8. reached = [n \in Nat |-> IF n = 0 THEN first ELSE StepOn(reached[n - 1])]
  BY <1>7
<1> HIDE DEF reached
<1> DEFINE T == {n \in Nat : reached[n] = f[n]}
<1>9. T = Nat
  <2>1. 0 \in T
    BY <1>4, <1>8
  <2>2. ASSUME NEW n \in T PROVE n + 1 \in T
    <3>1. n + 1 \in Nat /\ n + 1 # 0 /\ (n + 1) - 1 = n /\ n \in Nat
      OBVIOUS
    <3>2. reached[n + 1] = StepOn(reached[n])
      BY <1>8, <3>1
    <3> QED BY <1>5, <3>1, <3>2
  <2>3. T \in SUBSET Nat
    OBVIOUS
  <2> HIDE DEF T
  <2> QED BY <2>1, <2>2, <2>3, NatInd
<1>10. \A n \in Nat : reached[n + 1] = StepOn(reached[n])
  <2> TAKE n \in Nat
  <2>1. n \in T /\ n + 1 \in T
    BY <1>9
  <2> QED BY <1>5, <2>1
<1>11. reached \in [Nat -> SUBSET C]
  <2>1. \A n \in Nat : reached[n] \in SUBSET C
    BY <1>4, <1>9
  <2>2. reached = [n \in Nat |-> reached[n]]
    BY <1>8
  <2> QED BY ONLY <2>1, <2>2
<1>12. reached[0] = first
  BY <1>8
<1>13. reached[Cardinality(FreeBlocks)] = ListedIn(FreeBlocks, i)
  BY <1>10, <1>11, <1>12, AllReached DEF first
<1> QED BY <1>13 DEF reached, first, StepOn

LEMMA ConsistentLists ==
    ASSUME traces > 0 => Lists(mem, FreeBlocks) /\ FreeBlocks \subseteq Payloads
    PROVE  ListsAreFreeBlocks
<1> SUFFICES ASSUME traces > 0, NEW i \in 0 .. LISTNUM - 1
             PROVE  LET next(p) == GET(mem, p)
                        step(S) == (S \cup {next(p) : p \in S}) \ {0}
                        reached[n \in Nat] ==
                            IF n = 0 THEN {next(ListHead(i))} \ {0} ELSE step(reached[n - 1])
                        listed == reached[Cardinality(FreeBlocks)]
                    IN  /\ listed = {p \in FreeBlocks : minLen(GETSIZE(mem, p)) = i}
                        /\ \A p \in listed \cup {ListHead(i)} :
                               next(p) # 0 => GET(mem, next(p) + WORDSIZE) = p
  BY DEF ListsAreFreeBlocks
<1> DEFINE next(p) == GET(mem, p)
           step(S) == (S \cup {next(p) : p \in S}) \ {0}
           reached[n \in Nat] ==
               IF n = 0 THEN {next(ListHead(i))} \ {0} ELSE step(reached[n - 1])
           listed == reached[Cardinality(FreeBlocks)]
<1>1. i \in Index /\ Lists(mem, FreeBlocks) /\ FreeBlocks \subseteq Payloads
  BY DEF Index
<1>2. listed = ListedIn(FreeBlocks, i)
  BY <1>1, ListIsReached
<1> HIDE DEF listed
<1>3. ListedIn(FreeBlocks, i) = {p \in FreeBlocks : minLen(GETSIZE(mem, p)) = i}
  <2>1. \A p \in Payloads : ~(p < ListEnd)
    BY Constants DEF Payloads, Addr
  <2> QED BY <1>1, <2>1 DEF ListedIn, ListOf
<1>4. ASSUME NEW p \in listed \cup {ListHead(i)}, GET(mem, p) # 0
      PROVE  GET(mem, GET(mem, p) + WORDSIZE) = p
  <2>1. p \in FreeBlocks \cup Heads
    BY <1>1, <1>2, HeadFacts DEF ListedIn
  <2> QED BY <1>1, <1>4, <2>1 DEF Lists
<1> QED BY <1>2, <1>3, <1>4 DEF listed

LEMMA ConsistentInv == IInv => HeapConsistent
<1> SUFFICES ASSUME NEW B \in SUBSET Payloads, InvFor(B) PROVE HeapConsistent
  BY DEF IInv
<1>1. traces \in Nat
  BY DEF InvFor
<1>2. CASE traces = 0
  <2>1. mem_brk = 0 /\ DOMAIN blocks = {}
    BY <1>2 DEF InvFor
  <2>2. HeapBlocks = {} /\ FreeBlocks = {}
    BY <2>1, NoBlocksYet DEF FreeBlocks
  <2>3. ListsAreFreeBlocks
    BY <1>2, ConsistentLists
  <2> QED BY <2>1, <2>2, <2>3 DEF HeapConsistent, Tiled, NoFreeNeighbours, UsedAreLive
<1>3. CASE traces # 0
  <2>1. Heap(mem, mem_brk, B) /\ Owners(mem, B, blocks)
    BY <1>3 DEF InvFor
  <2>2. Tiles(mem, mem_brk, B) /\ Lists(mem, FreeOf(mem, B)) /\ Apart(mem, FreeOf(mem, B))
    BY <2>1 DEF Heap
  <2>3. HeapBlocks = B /\ FreeBlocks = FreeOf(mem, B) /\ HeapBlocks \ FreeBlocks = UsedOf(mem, B)
    BY <2>2, HeapBlocksAre DEF FreeBlocks, FreeOf, UsedOf
  <2>4. Tiled
    <3> SUFFICES ASSUME NEW p \in B
                 PROVE  /\ GETSIZE(mem, p) >= DOUBLESIZE
                        /\ Behind(p) - WORDSIZE <= mem_brk
                        /\ GET(mem, p - WORDSIZE) = GET(mem, p + GETSIZE(mem, p))
      BY <2>3 DEF Tiled
    <3>1. After(mem, p) \in Nat /\ After(mem, p) <= mem_brk + 4 /\ mem_brk \in Nat
      BY <2>2, BlockFacts
    <3>2. After(mem, p) - 4 <= mem_brk
      BY <3>1
    <3> QED BY <2>2, <3>2 DEF Tiles, Behind, After, WORDSIZE
  <2>5. ListsAreFreeBlocks
    <3>1. FreeBlocks \subseteq Payloads
      BY <2>3 DEF FreeOf
    <3> QED BY <2>2, <2>3, <3>1, ConsistentLists
  <2>6. NoFreeNeighbours
    BY <2>2, <2>3 DEF NoFreeNeighbours, Apart, Behind, After
  <2>7. UsedAreLive
    <3>1. UsedOf(mem, B) = {blocks[i].ptr : i \in DOMAIN blocks}
      BY <2>1, UsedAreOwned DEF Ptrs
    <3>2. ASSUME NEW i \in DOMAIN blocks PROVE GETSIZE(mem, blocks[i].ptr) >= blocks[i].size
      <4> DEFINE b == blocks[i]
      <4>1. b.ptr \in B /\ b.size \in Sizes /\ b.size <= GETSIZE(mem, b.ptr)
        BY <2>1 DEF Owners, Owns, UsedOf
      <4> HIDE DEF b
      <4>2. b.size \in Nat /\ GETSIZE(mem, b.ptr) \in Nat
        BY <2>2, <4>1, SizesAre, BlockFacts
      <4>3. GETSIZE(mem, b.ptr) >= b.size
        BY <4>1, <4>2
      <4> QED BY <4>3 DEF b
    <3> QED BY <2>3, <3>1, <3>2 DEF UsedAreLive
  <2> QED BY <2>4, <2>5, <2>6, <2>7 DEF HeapConsistent
<1> QED BY <1>2, <1>3

(* After every call headers, footers and lists say the same of every block *)
(* of the heap, no two free blocks are neighbours, and the blocks in use   *)
(* are the driver's (what mm_check asserts, and more).                     *)
THEOREM HeapIsConsistent == Spec => []HeapConsistent
<1> QED BY ConsistentInv, HeapInvariant, PTL

-----------------------------------------------------------------------------
(* The allocator implements HeapAPI. *)

Live == [i \in DOMAIN blocks |-> [ptr |-> blocks[i].ptr, size |-> blocks[i].size,
                                  words |-> {mem[w] : w \in WordsOf(blocks[i])}]]

(* Every word of a driver's block has the name of the block. *)
Named(own) == [i \in DOMAIN own |-> [ptr |-> own[i].ptr, size |-> own[i].size, words |-> {i}]]

LEMMA WordsAreNames ==
    ASSUME NEW m, NEW brk, NEW B, Tiles(m, brk, B), NEW b, NEW i, Owns(m, B, b, i)
    PROVE  {m[w] : w \in WordsOf(b)} = {i}
<1>1. b.ptr \in B /\ b.size \in Sizes /\ \A w \in WordsOf(b) : m[w] = i
  BY DEF Owns, UsedOf
<1>2. b.ptr \in Nat /\ b.size \in Nat /\ b.size > 0
  BY <1>1, BlockFacts, SizesAre
<1>3. b.ptr \div 4 <= (b.ptr + b.size - 1) \div 4 /\ b.ptr \div 4 \in Nat
      /\ (b.ptr + b.size - 1) \div 4 \in Nat
  BY <1>2
<1>4. b.ptr \div 4 \in WordsOf(b)
  BY <1>3 DEF WordsOf, Hi, WORDSIZE
<1> QED BY <1>1, <1>4

LEMMA RangesApart ==
    ASSUME NEW m, NEW brk, NEW B, Tiles(m, brk, B), NEW b, NEW i, Owns(m, B, b, i)
    PROVE  /\ b.ptr % 8 = 0
           /\ b.ptr .. b.ptr + b.size - 1 \subseteq 0 .. MAX_HEAP - 1
           /\ \A c, j : Owns(m, B, c, j) /\ c.ptr # b.ptr =>
                  (b.ptr .. b.ptr + b.size - 1) \cap (c.ptr .. c.ptr + c.size - 1) = {}
<1>1. \A c, j : Owns(m, B, c, j) =>
          /\ c.ptr \in B /\ c.ptr \in Nat /\ c.ptr % 8 = 0
          /\ c.size \in Nat /\ GETSIZE(m, c.ptr) \in Nat /\ c.size <= GETSIZE(m, c.ptr)
          /\ After(m, c.ptr) = c.ptr + GETSIZE(m, c.ptr) + 8 /\ After(m, c.ptr) <= brk + 4
  <2> SUFFICES ASSUME NEW c, NEW j, Owns(m, B, c, j)
               PROVE  /\ c.ptr \in B /\ c.ptr \in Nat /\ c.ptr % 8 = 0
                      /\ c.size \in Nat /\ GETSIZE(m, c.ptr) \in Nat
                      /\ c.size <= GETSIZE(m, c.ptr)
                      /\ After(m, c.ptr) = c.ptr + GETSIZE(m, c.ptr) + 8
                      /\ After(m, c.ptr) <= brk + 4
    OBVIOUS
  <2>1. c.ptr \in B /\ c.size \in Sizes /\ c.size <= GETSIZE(m, c.ptr)
    BY DEF Owns, UsedOf
  <2> QED BY <2>1, BlockFacts, SizesAre
<1>2. brk \in Nat /\ brk <= MAX_HEAP /\ MAX_HEAP \in Nat
  BY Constants DEF Tiles
<1>3. ASSUME NEW c, NEW j, Owns(m, B, c, j), c.ptr # b.ptr
      PROVE  (b.ptr .. b.ptr + b.size - 1) \cap (c.ptr .. c.ptr + c.size - 1) = {}
  <2>1. After(m, b.ptr) <= c.ptr \/ After(m, c.ptr) <= b.ptr
    BY <1>1, <1>3, Separate
  <2>2. /\ c.ptr \in Nat /\ c.size \in Nat /\ GETSIZE(m, c.ptr) \in Nat
        /\ c.size <= GETSIZE(m, c.ptr) /\ After(m, c.ptr) = c.ptr + GETSIZE(m, c.ptr) + 8
    BY <1>1, <1>3
  <2>3. /\ b.ptr \in Nat /\ b.size \in Nat /\ GETSIZE(m, b.ptr) \in Nat
        /\ b.size <= GETSIZE(m, b.ptr) /\ After(m, b.ptr) = b.ptr + GETSIZE(m, b.ptr) + 8
    BY <1>1
  <2>4. b.ptr + b.size - 1 < c.ptr \/ c.ptr + c.size - 1 < b.ptr
    BY <2>1, <2>2, <2>3
  <2> QED BY ONLY <2>2, <2>3, <2>4
<1>4. /\ b.ptr \in Nat /\ b.ptr % 8 = 0 /\ b.size \in Nat /\ GETSIZE(m, b.ptr) \in Nat
      /\ b.size <= GETSIZE(m, b.ptr) /\ b.ptr + GETSIZE(m, b.ptr) + 8 <= brk + 4
  BY <1>1
<1>5. b.ptr + b.size - 1 < MAX_HEAP
  BY <1>2, <1>4
<1>6. b.ptr .. b.ptr + b.size - 1 \subseteq 0 .. MAX_HEAP - 1
  BY ONLY <1>2, <1>4, <1>5
<1> QED BY <1>3, <1>4, <1>6

LEMMA LiveIs ==
    ASSUME NEW B, InvFor(B)
    PROVE  Live = Named(blocks)
<1>1. \A i \in DOMAIN blocks : {mem[w] : w \in WordsOf(blocks[i])} = {i}
  <2> SUFFICES ASSUME NEW i \in DOMAIN blocks
               PROVE  {mem[w] : w \in WordsOf(blocks[i])} = {i}
    OBVIOUS
  <2>1. Tiles(mem, mem_brk, B) /\ Owns(mem, B, blocks[i], i)
    BY DEF InvFor, Heap, Owners
  <2> QED BY <2>1, WordsAreNames
<1> QED BY <1>1 DEF Live, Named

LEMMA LiveIsNext ==
    ASSUME NEW B, InvFor(B)'
    PROVE  Live' = Named(blocks')
<1>1. \A i \in DOMAIN blocks' : {mem'[w] : w \in WordsOf(blocks'[i])} = {i}
  <2> SUFFICES ASSUME NEW i \in DOMAIN blocks'
               PROVE  {mem'[w] : w \in WordsOf(blocks'[i])} = {i}
    OBVIOUS
  <2> DEFINE b == blocks'[i]
  <2>1. Tiles(mem', mem_brk', B) /\ Owns(mem', B, b, i)
    BY DEF InvFor, Heap, Owners
  <2> HIDE DEF b
  <2>2. {mem'[w] : w \in WordsOf(b)} = {i}
    BY <2>1, WordsAreNames
  <2> QED BY <2>2 DEF b
<1> QED BY <1>1 DEF Live, Named

(* The range of the block that the driver has been given is nobody else's. *)
LEMMA GivenApart ==
    ASSUME NEW B, InvFor(B)', traces' # 0, NEW id, Given(id), NEW b, b = blocks'[id]
    PROVE  /\ b.ptr % 8 = 0
           /\ b.ptr .. b.ptr + b.size - 1 \subseteq 0 .. MAX_HEAP - 1
           /\ \A i \in DOMAIN blocks \ {id} :
                  (b.ptr .. b.ptr + b.size - 1)
                      \cap (blocks[i].ptr .. blocks[i].ptr + blocks[i].size - 1) = {}
<1>1. Tiles(mem', mem_brk', B) /\ Owners(mem', B, blocks')
  BY DEF InvFor, Heap
<1>2. DOMAIN blocks' = DOMAIN blocks \cup {id}
      /\ \A i \in DOMAIN blocks \ {id} : blocks'[i] = blocks[i]
  BY DEF Given
<1>3. Owns(mem', B, b, id)
  BY <1>1, <1>2 DEF Owners
<1>4. \A i \in DOMAIN blocks \ {id} : Owns(mem', B, blocks[i], i) /\ blocks[i].ptr # b.ptr
  <2> TAKE i \in DOMAIN blocks \ {id}
  <2>1. i \in DOMAIN blocks' /\ id \in DOMAIN blocks' /\ i # id /\ blocks'[i] = blocks[i]
    BY <1>2
  <2> QED BY <1>1, <2>1 DEF Owners

<1> QED BY <1>1, <1>3, <1>4, RangesApart

LEMMA APIInit == Init => API!Init
  BY DEF Init, API!Init

LEMMA APIOwned == API!Owned = UNION {API!Range(Live[i].ptr, Live[i].size) : i \in DOMAIN Live}
  BY DEF API!Owned, Live

LEMMA APIAlloc ==
    ASSUME NEW id, id \in DOMAIN Live' \ DOMAIN Live,
           API!Granted(id, Live'[id].ptr, Live'[id].size, API!Owned)
    PROVE  API!Alloc(id)
  BY DEF API!Alloc, API!Block, Live

LEMMA APIRealloc ==
    ASSUME NEW id, id \in DOMAIN Live \cap DOMAIN Live',
           API!Granted(id, Live'[id].ptr, Live'[id].size,
                       API!Owned \ API!Range(Live[id].ptr, Live[id].size))
    PROVE  API!Realloc(id)
  BY DEF API!Realloc, API!Block, Live

(* What Alloc and Realloc do to the blocks HeapAPI lets them do. *)
LEMMA GivenIsGranted ==
    ASSUME NEW id \in Id, Given(id), Live = Named(blocks), Live' = Named(blocks'),
           NEW B, InvFor(B)', traces' # 0
    PROVE  IF id \in DOMAIN blocks THEN API!Realloc(id) ELSE API!Alloc(id)
<1> DEFINE b == blocks'[id]
<1>1. /\ b.ptr % 8 = 0
      /\ b.ptr .. b.ptr + b.size - 1 \subseteq 0 .. MAX_HEAP - 1
      /\ \A i \in DOMAIN blocks \ {id} :
            (b.ptr .. b.ptr + b.size - 1)
                \cap (blocks[i].ptr .. blocks[i].ptr + blocks[i].size - 1) = {}
  BY GivenApart
<1>2. DOMAIN blocks' = DOMAIN blocks \cup {id} /\ DOMAIN Live = DOMAIN blocks
      /\ DOMAIN Live' = DOMAIN blocks'
  BY DEF Given, Named
<1>3. \A i \in DOMAIN blocks : Live[i].ptr = blocks[i].ptr /\ Live[i].size = blocks[i].size
  BY DEF Named
<1>4. Live'[id] = [ptr |-> b.ptr, size |-> b.size, words |-> {id}]
  BY <1>2 DEF Named
<1>5. \A i \in DOMAIN blocks : i # id => Live'[i] = Live[i]
  BY <1>2 DEF Named, Given
<1>6. Live' = [i \in DOMAIN Live \cup {id} |->
                  IF i = id THEN [ptr |-> b.ptr, size |-> b.size, words |-> {id}] ELSE Live[i]]
  <2>1. \A i \in DOMAIN Live \cup {id} :
            Live'[i] = IF i = id THEN [ptr |-> b.ptr, size |-> b.size, words |-> {id}]
                       ELSE Live[i]
    BY <1>2, <1>4, <1>5
  <2>2. Live' = [i \in DOMAIN Live \cup {id} |-> Live'[i]]
    BY <1>2 DEF Named
  <2> HIDE DEF b
  <2> QED BY ONLY <2>1, <2>2
<1>7. Live'[id].ptr = b.ptr /\ Live'[id].size = b.size
  BY <1>4
<1> DEFINE R == API!Range(b.ptr, b.size)
           O == API!Owned
           Of(i) == API!Range(Live[i].ptr, Live[i].size)
<1>8. \A i \in DOMAIN blocks \ {id} : R \cap Of(i) = {}
  BY <1>1, <1>3 DEF API!Range
<1>9. \A x \in O : \E i \in DOMAIN blocks : x \in Of(i)
  BY <1>2, APIOwned
<1>10. R \subseteq 0 .. MAX_HEAP - 1
  BY <1>1 DEF API!Range
<1> HIDE DEF b, R, O, Of
<1>11. CASE id \in DOMAIN blocks
  <2>1. R \cap (O \ Of(id)) = {}
    BY ONLY <1>8, <1>9
  <2>2. API!Granted(id, b.ptr, b.size, O \ Of(id))
    BY ONLY <1>1, <1>6, <1>10, <2>1 DEF API!Granted, Live, R
  <2>3. id \in DOMAIN Live \cap DOMAIN Live'
    BY <1>2, <1>11
  <2>4. API!Realloc(id)
    BY ONLY <1>7, <2>2, <2>3, APIRealloc DEF O, Of
  <2> QED BY <1>11, <2>4
<1>12. CASE id \notin DOMAIN blocks
  <2>1. R \cap O = {}
    BY ONLY <1>8, <1>9, <1>12
  <2>2. API!Granted(id, b.ptr, b.size, O)
    BY ONLY <1>1, <1>6, <1>10, <2>1 DEF API!Granted, Live, R
  <2>3. id \in DOMAIN Live' \ DOMAIN Live
    BY <1>2, <1>12
  <2>4. API!Alloc(id)
    BY ONLY <1>7, <2>2, <2>3, APIAlloc DEF O
  <2> QED BY <1>12, <2>4
<1> QED BY <1>11, <1>12

LEMMA APINext ==
    ASSUME IInv, IInv', [Next]_vars
    PROVE  [API!Next]_Live
<1> PICK B \in SUBSET Payloads : InvFor(B)
  BY DEF IInv
<1> PICK B2 \in SUBSET Payloads : InvFor(B2)'
  BY DEF IInv
<1>1. Live = Named(blocks) /\ Live' = Named(blocks')
  BY LiveIs, LiveIsNext
<1>2. CASE UNCHANGED blocks
  BY <1>1, <1>2
<1>3. CASE Begin
  <2>1. blocks' = [i \in {} |-> {}]
    BY <1>3 DEF Begin
  <2>2. Live' = [i \in {} |-> {}]
    BY <1>1, <2>1 DEF Named
  <2>3. API!Init'
    BY <2>2 DEF API!Init, Live
  <2> QED BY <2>3 DEF API!Next
<1>4. ASSUME NEW id \in Id, Given(id), traces' # 0
      PROVE  API!Next
  <2>1. API!Realloc(id) \/ API!Alloc(id)
    BY <1>1, <1>4, GivenIsGranted
  <2> QED BY <2>1 DEF API!Next
<1>5. ASSUME NEW id \in Id, Free(id)
      PROVE  API!Next
  <2>1. id \in DOMAIN blocks /\ blocks' = Without(id)
    BY <1>5, FreeStep
  <2>2. id \in DOMAIN Live /\ Live' = [i \in DOMAIN Live \ {id} |-> Live[i]]
    BY <1>1, <2>1 DEF Named, Without
  <2>3. API!Free(id)
    BY <2>2 DEF API!Free, Live
  <2> QED BY <2>3 DEF API!Next
<1>6. ASSUME NEW id \in Id, NEW size \in Sizes, Alloc(id, size) \/ Realloc(id, size)
      PROVE  API!Next \/ UNCHANGED blocks
  <2>1. Given(id) \/ UNCHANGED blocks
    BY <1>6, AllocStep, ReallocStep
  <2>2. traces' # 0
    <3>1. traces' = traces /\ traces > 0
      BY <1>6 DEF Alloc, Realloc, Operation, Returns
    <3>2. traces \in Nat
      BY DEF InvFor
    <3> QED BY <3>1, <3>2
  <2> QED BY <1>4, <2>1, <2>2
<1>7. CASE UNCHANGED vars
  BY <1>2, <1>7 DEF vars
<1> QED BY <1>2, <1>3, <1>5, <1>6, <1>7 DEF Next

(* mm_malloc, mm_realloc and mm_free do nothing that HeapAPI does not let  *)
(* them do: no live block shares a byte with another, moves or loses what  *)
(* its owner has written.                                                  *)
THEOREM HeapImplementsAPI == Spec => ImplementsAPI
<1>1. Init => API!Init
  BY APIInit
<1>2. IInv /\ IInv' /\ [Next]_vars => [API!Next]_Live
  BY APINext
<1> QED BY <1>1, <1>2, HeapInvariant, PTL DEF Spec, ImplementsAPI, API!Spec, Live
=============================================================================
