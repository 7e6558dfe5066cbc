---------------------------- MODULE CacheSimProofs ----------------------------
(***************************************************************************)
(* For every -s, -E and -b and every trace: the simulator's sets stay well *)
(* formed.  The argument is about one call of loadOrStore, which modify    *)
(* makes twice.                                                            *)
(***************************************************************************)
EXTENDS CacheSim, TLAPS, FiniteSetTheorems, FunctionTheorems,
        WellFoundedInduction

(* A non-empty set of naturals has a least element. *)
LEMMA LeastNat ==
    ASSUME NEW T \in SUBSET Nat, T # {}
    PROVE  \E x \in T : \A y \in T : x <= y
<1>1. IsWellFoundedOn(OpToRel(<, Nat), Nat)
  BY NatLessThanWellFounded
<1>2. PICK x \in T : \A y \in T : <<y, x>> \notin OpToRel(<, Nat)
  BY <1>1, WFMin
<1>3. \A y \in T : ~(y < x)
  BY <1>2 DEF OpToRel
<1> QED BY <1>3

(* The scans return a line of the set they look for, the second one the    *)
(* line whose stamp is oldest.                                             *)
LEMMA FirstIsMember ==
    ASSUME NEW I \in SUBSET LineIds, I # {}
    PROVE  First(I) \in I
<1>1. I \in SUBSET Nat
  BY OptionsAssumption DEF LineIds
<1>2. \E i \in I : \A j \in I : i <= j
  BY <1>1, LeastNat
<1> QED BY <1>2 DEF First

LEMMA VictimIsLine ==
    ASSUME NEW m, TypeInv(m), NEW s \in SetIds
    PROVE  /\ Victim(m, s) \in LineIds
           /\ \A j \in LineIds : m.recentUse[s][Victim(m, s)] <= m.recentUse[s][j]
<1> DEFINE use(i) == m.recentUse[s][i]
<1>1. \A i \in LineIds : use(i) \in Nat /\ i \in Nat
  BY OptionsAssumption DEF TypeInv, Mem, LineIds
<1> DEFINE T == {use(i) : i \in LineIds}
<1>2. T \in SUBSET Nat /\ T # {}
  <2>1. 1 \in LineIds
    BY OptionsAssumption DEF LineIds
  <2> QED BY <1>1, <2>1
<1>3. PICK t \in T : \A u \in T : t <= u
  <2> HIDE DEF T
  <2> QED BY <1>2, LeastNat
<1> DEFINE I == {i \in LineIds : use(i) = t}
<1>4. I \in SUBSET Nat /\ I # {}
  BY <1>1, <1>3
<1>5. PICK i \in I : \A j \in I : i <= j
  <2> HIDE DEF I
  <2> QED BY <1>4, LeastNat
<1>6. \A j \in LineIds : use(i) < use(j) \/ (use(i) = use(j) /\ i <= j)
  <2> SUFFICES ASSUME NEW j \in LineIds
               PROVE  use(i) < use(j) \/ (use(i) = use(j) /\ i <= j)
    OBVIOUS
  <2>1. use(i) = t /\ t <= use(j)
    BY <1>3, <1>5
  <2>2. use(j) = t => i <= j
    BY <1>5
  <2> QED BY <2>1, <2>2, <1>1, <1>5
<1>7. i \in LineIds
  BY <1>5
<1>8. /\ Victim(m, s) \in LineIds
      /\ \A j \in LineIds : \/ use(Victim(m, s)) < use(j)
                            \/ use(Victim(m, s)) = use(j) /\ Victim(m, s) <= j
  <2> HIDE DEF I
  <2> QED BY <1>6, <1>7 DEF Victim
<1> QED BY <1>1, <1>8

(* Using a line for a tag no other line of the set holds keeps the set     *)
(* well formed.                                                            *)
LEMMA PlaceKeepsLines ==
    ASSUME NEW m, TypeInv(m), LineInv(m),
           NEW s \in SetIds, NEW i \in LineIds, NEW tag \in Tags, tag # Invalid,
           \A j \in LineIds : j # i => m.lines[s][j] # tag
    PROVE  /\ TypeInv(Place(m, s, i, tag))
           /\ LineInv(Place(m, s, i, tag))
<1> DEFINE p == Place(m, s, i, tag)
<1> DEFINE L == [m.lines EXCEPT ![s][i] = tag]
           R == [m.recentUse EXCEPT ![s][i] = m.currentTime + 1]
<1>0. /\ m \in Mem /\ m.currentTime + 1 \in Nat
      /\ L \in [SetIds -> [LineIds -> Tags \cup {Invalid}]]
      /\ R \in [SetIds -> [LineIds -> Nat]]
  BY DEF TypeInv, Mem
<1>1. p = [m EXCEPT !.lines = L, !.recentUse = R, !.currentTime = m.currentTime + 1]
  BY DEF Place
<1>2. /\ p \in Mem /\ p.lines = L /\ p.recentUse = R
      /\ p.currentTime = m.currentTime + 1
  <2> HIDE DEF p, L, R
  <2> QED BY <1>0, <1>1 DEF Mem
<1> HIDE DEF p
<1>3. \A r \in SetIds, j \in LineIds :
        /\ p.lines[r][j] = IF r = s /\ j = i THEN tag ELSE m.lines[r][j]
        /\ p.recentUse[r][j] = IF r = s /\ j = i THEN m.currentTime + 1
                                                 ELSE m.recentUse[r][j]
  BY <1>2 DEF TypeInv, Mem
<1>4. TagsDistinct(p)
  BY <1>3 DEF TagsDistinct, LineInv, Used
<1>5. \A r \in SetIds, j \in LineIds :
        m.recentUse[r][j] \in Nat /\ m.currentTime \in Nat
  BY DEF TypeInv, Mem
<1>6. StampsPast(p)
  BY <1>2, <1>3, <1>5 DEF StampsPast, LineInv, Used
<1>7. StampsDistinct(p)
  BY <1>3, <1>5 DEF StampsDistinct, StampsPast, LineInv, Used
<1> QED BY <1>2, <1>4, <1>6, <1>7 DEF LineInv, TypeInv, p

(* One access. *)
LEMMA AccessKeepsInv ==
    ASSUME NEW m, TypeInv(m), LineInv(m), Tally(m),
           NEW s \in SetIds, NEW tag \in Tags, tag # Invalid,
           NEW n, n = loadOrStore(m, s, tag)
    PROVE  TypeInv(n) /\ LineInv(n) /\ Tally(n)
<1>0. /\ m.hit_times \in Nat /\ m.miss_times \in Nat /\ m.evic_times \in Nat
      /\ m.evic_times <= m.miss_times
  BY DEF TypeInv, Mem, Tally
<1>1. \A j \in LineIds : m.lines[s][j] = tag <=> j \in Holding(m, s, tag)
  BY DEF Holding
<1>2. ASSUME NEW i \in LineIds, NEW p, p = Place(m, s, i, tag),
             \A j \in LineIds : j # i => m.lines[s][j] # tag,
             n \in Mem, n.lines = p.lines, n.recentUse = p.recentUse,
             n.currentTime = p.currentTime,
             n.hit_times + n.miss_times = m.hit_times + m.miss_times + 1,
             n.evic_times <= n.miss_times
      PROVE  TypeInv(n) /\ LineInv(n) /\ Tally(n)
  <2>1. TypeInv(p) /\ LineInv(p)
    BY <1>2, PlaceKeepsLines
  <2>2. p.currentTime = m.currentTime + 1
    BY <1>2 DEF Place, TypeInv, Mem
  <2>3. LineInv(n)
    BY <1>2, <2>1 DEF LineInv, TagsDistinct, StampsDistinct, StampsPast, Used
  <2>4. Tally(n)
    BY <1>2, <2>2 DEF Tally, TypeInv, Mem
  <2> QED BY <1>2, <2>3, <2>4 DEF TypeInv
<1>3. CASE Holding(m, s, tag) # {}
  <2> DEFINE i == First(Holding(m, s, tag))
             p == Place(m, s, i, tag)
  <2>1. i \in Holding(m, s, tag)
    BY <1>3, FirstIsMember DEF Holding
  <2>2. i \in LineIds /\ m.lines[s][i] = tag
    BY <2>1 DEF Holding
  <2>3. \A j \in LineIds : j # i => m.lines[s][j] # tag
    BY <2>2 DEF LineInv, TagsDistinct, Used
  <2>4. p \in Mem
    BY <2>2, <2>3, PlaceKeepsLines DEF TypeInv
  <2>5. n = [p EXCEPT !.hit_times = m.hit_times + 1]
    BY <1>3 DEF loadOrStore, Hit
  <2>6. p.miss_times = m.miss_times /\ p.evic_times = m.evic_times
    BY DEF Place, TypeInv, Mem
  <2> HIDE DEF p
  <2>7. /\ n \in Mem /\ n.lines = p.lines /\ n.recentUse = p.recentUse
        /\ n.currentTime = p.currentTime /\ n.hit_times = m.hit_times + 1
        /\ n.miss_times = m.miss_times /\ n.evic_times = m.evic_times
    BY <1>0, <2>4, <2>5, <2>6 DEF Mem
  <2> HIDE DEF i
  <2> QED BY <1>0, <1>2, <2>2, <2>3, <2>7 DEF p
<1>4. CASE Holding(m, s, tag) = {} /\ Empty(m, s) # {}
  <2> DEFINE i == First(Empty(m, s))
             p == Place(m, s, i, tag)
  <2>1. i \in LineIds
    BY <1>4, FirstIsMember DEF Empty, Holding
  <2>2. \A j \in LineIds : m.lines[s][j] # tag
    BY <1>4, <1>1
  <2>3. p \in Mem
    BY <2>1, <2>2, PlaceKeepsLines DEF TypeInv
  <2>4. n = [p EXCEPT !.miss_times = m.miss_times + 1]
    BY <1>4 DEF loadOrStore, Fill
  <2>5. p.hit_times = m.hit_times /\ p.evic_times = m.evic_times
    BY DEF Place, TypeInv, Mem
  <2> HIDE DEF p
  <2>6. /\ n \in Mem /\ n.lines = p.lines /\ n.recentUse = p.recentUse
        /\ n.currentTime = p.currentTime /\ n.hit_times = m.hit_times
        /\ n.miss_times = m.miss_times + 1 /\ n.evic_times = m.evic_times
    <3>1. n \in Mem
      BY <1>0, <2>3, <2>4 DEF Mem
    <3> QED BY <2>3, <2>4, <2>5, <3>1 DEF Mem
  <2> HIDE DEF i
  <2> QED BY <1>0, <1>2, <2>1, <2>2, <2>6 DEF p
<1>5. CASE Holding(m, s, tag) = {} /\ Empty(m, s) = {}
  <2> DEFINE i == Victim(m, s)
             p == Place(m, s, i, tag)
  <2>1. i \in LineIds
    BY VictimIsLine
  <2>2. \A j \in LineIds : m.lines[s][j] # tag
    BY <1>5, <1>1
  <2>3. p \in Mem
    BY <2>1, <2>2, PlaceKeepsLines DEF TypeInv
  <2> DEFINE q == [p EXCEPT !.miss_times = m.miss_times + 1]
  <2>4. n = [q EXCEPT !.evic_times = m.evic_times + 1]
    BY <1>5 DEF loadOrStore, Evict
  <2>5. p.hit_times = m.hit_times
    BY DEF Place, TypeInv, Mem
  <2> HIDE DEF p
  <2>6. /\ n \in Mem /\ n.lines = p.lines /\ n.recentUse = p.recentUse
        /\ n.currentTime = p.currentTime /\ n.hit_times = m.hit_times
        /\ n.miss_times = m.miss_times + 1 /\ n.evic_times = m.evic_times + 1
    <3>1. /\ q \in Mem /\ q.lines = p.lines /\ q.recentUse = p.recentUse
          /\ q.currentTime = p.currentTime /\ q.hit_times = m.hit_times
          /\ q.miss_times = m.miss_times + 1
      BY <1>0, <2>3, <2>5 DEF Mem
    <3> HIDE DEF q
    <3> QED BY <1>0, <2>4, <3>1 DEF Mem
  <2> HIDE DEF i
  <2> QED BY <1>0, <1>2, <2>1, <2>2, <2>6 DEF p
<1> QED BY <1>3, <1>4, <1>5

-----------------------------------------------------------------------------
(* An address selects a set of the simulator, and no tag is taken for an   *)
(* empty line.                                                             *)

LEMMA DecodeInRange ==
    ASSUME NEW addr \in Addr
    PROVE  SetOf(addr) \in SetIds /\ TagOf(addr) \in Tags /\ TagOf(addr) # Invalid
<1> DEFINE M == maxSetNum * maxBlock
           x == addr % M
<1>1. addr \in Nat /\ maxSetNum \in Nat \ {0} /\ maxBlock \in Nat \ {0}
  BY InputAssumption, OptionsAssumption
<1>2. M \in Nat \ {0}
  BY <1>1
<1>3. x \in Nat /\ x < M
  <2> HIDE DEF M
  <2> QED BY <1>1, <1>2
<1>4. TagOf(addr) \in Nat
  <2>1. addr \div M \in Nat
    <3> HIDE DEF M
    <3> QED BY <1>1, <1>2
  <2> QED BY <2>1 DEF TagOf
<1>5. x \div maxBlock \in Nat /\ maxBlock * (x \div maxBlock) <= x
  <2> HIDE DEF x
  <2> QED BY <1>1, <1>3
<1>6. x \div maxBlock < maxSetNum
  <2> DEFINE q == x \div maxBlock
  <2>1. q \in Nat /\ maxBlock * q < maxBlock * maxSetNum
    <3> HIDE DEF x
    <3> QED BY <1>1, <1>3, <1>5
  <2>2. \A a, b, c \in Nat : a * b < a * c => b < c
    OBVIOUS
  <2> HIDE DEF q
  <2> QED BY <1>1, <2>1, <2>2 DEF q
<1> QED BY <1>1, <1>4, <1>5, <1>6 DEF SetOf, SetIds, Tags, Invalid

-----------------------------------------------------------------------------
(* The simulator's memory always has the right shape, every set it uses is *)
(* well formed and every access is counted once, for every geometry and    *)
(* every trace (memInit, loadOrStore, modify).                             *)

AllInv == TypeOK /\ SetsWellFormed

THEOREM InitInv == Init => AllInv
<1> SUFFICES ASSUME Init PROVE AllInv
  OBVIOUS
<1>1. mem = memInit
  BY DEF Init
<1>2. memInit \in Mem
  BY DEF memInit, Mem
<1>3. LineInv(memInit) /\ Tally(memInit)
  BY DEF memInit, LineInv, TagsDistinct, StampsDistinct, StampsPast, Used, Tally
<1> QED BY <1>1, <1>2, <1>3 DEF AllInv, TypeOK, TypeInv, SetsWellFormed

THEOREM NextInv == AllInv /\ [Next]_mem => AllInv'
<1> SUFFICES ASSUME AllInv, [Next]_mem PROVE AllInv'
  OBVIOUS
<1> USE DEF AllInv, TypeOK, SetsWellFormed
<1>1. CASE UNCHANGED mem
  BY <1>1
<1>2. ASSUME NEW addr \in Addr, LoadStoreLine(addr) PROVE AllInv'
  BY <1>2, DecodeInRange, AccessKeepsInv DEF LoadStoreLine
<1>3. ASSUME NEW addr \in Addr, ModifyLine(addr) PROVE AllInv'
  <2> DEFINE once == loadOrStore(mem, SetOf(addr), TagOf(addr))
  <2>1. TypeInv(once) /\ LineInv(once) /\ Tally(once)
    BY DecodeInRange, AccessKeepsInv
  <2>2. mem' = loadOrStore(once, SetOf(addr), TagOf(addr))
    BY <1>3 DEF ModifyLine, modify
  <2> HIDE DEF once
  <2> QED BY <2>1, <2>2, DecodeInRange, AccessKeepsInv
<1> QED BY <1>1, <1>2, <1>3 DEF Next

THEOREM TypeCorrect == Spec => []TypeOK
<1>1. AllInv => TypeOK
  BY DEF AllInv
<1> QED BY InitInv, NextInv, <1>1, PTL DEF Spec

THEOREM WellFormed == Spec => []SetsWellFormed
<1>1. AllInv => SetsWellFormed
  BY DEF AllInv
<1> QED BY InitInv, NextInv, <1>1, PTL DEF Spec

-----------------------------------------------------------------------------
(* Block numbers: the set and the tag of a block are those it is made of,  *)
(* and an address belongs to the block of its set and tag.                 *)

LEMMA DivMod ==
    ASSUME NEW d \in Nat \ {0}, NEW q \in Nat, NEW r \in Nat, r < d
    PROVE  /\ q * d + r \in Nat
           /\ (q * d + r) \div d = q
           /\ (q * d + r) % d = r
<1> DEFINE a == q * d + r
<1>1. q * d \in Nat
  OBVIOUS
<1>2. a \in Nat
  BY <1>1
<1> DEFINE k == a \div d
           x == a % d
<1>3. k \in Nat /\ x \in Nat /\ x < d /\ a = d * k + x
  <2> HIDE DEF a
  <2> QED BY <1>2
<1>4. \A u, v \in Nat : u < v => d * u + d <= d * v
  <2> SUFFICES ASSUME NEW u \in Nat, NEW v \in Nat, u < v PROVE d * u + d <= d * v
    OBVIOUS
  <2>1. PICK w \in Nat : v = u + 1 + w
    <3> WITNESS v - u - 1 \in Nat
    <3> QED OBVIOUS
  <2>2. d * v = d * u + d + d * w /\ d * w \in Nat /\ d * u \in Nat
    BY <2>1
  <2> QED BY <2>2
<1>5. d * k \in Nat /\ d * q \in Nat /\ a = d * q + r
  BY <1>3
<1> HIDE DEF a, k, x
<1>6. ~(k < q) /\ ~(q < k)
  BY <1>3, <1>4, <1>5
<1>7. k = q /\ x = r
  BY <1>3, <1>5, <1>6
<1> QED BY <1>2, <1>7 DEF a, k, x

LEMMA TagsAreNaturals == Tags \subseteq Nat /\ Invalid \notin Tags
<1>1. ASSUME NEW a \in Addr PROVE TagOf(a) \in Nat
  <2> DEFINE M == maxSetNum * maxBlock
  <2>1. a \in Nat /\ M \in Nat \ {0}
    BY InputAssumption, OptionsAssumption
  <2>2. a \div M \in Nat
    <3> HIDE DEF M
    <3> QED BY <2>1
  <2> QED BY <2>2 DEF TagOf
<1> QED BY <1>1 DEF Tags, Invalid

LEMMA BlockParts ==
    ASSUME NEW s \in SetIds, NEW tag \in Tags
    PROVE  /\ BlockOf(s, tag) \in Blocks
           /\ BlockOf(s, tag) % maxSetNum = s
           /\ BlockOf(s, tag) \div maxSetNum = tag
<1>1. s \in Nat /\ s < maxSetNum /\ tag \in Nat
  BY TagsAreNaturals, OptionsAssumption DEF SetIds
<1>2. maxSetNum \in Nat \ {0}
  BY OptionsAssumption
<1> QED BY <1>1, <1>2, DivMod DEF BlockOf, Blocks

LEMMA PartsOfBlock ==
    ASSUME NEW b \in Blocks
    PROVE  /\ b % maxSetNum \in SetIds
           /\ b \div maxSetNum \in Tags
           /\ b \div maxSetNum # Invalid
           /\ \A c \in Blocks : /\ c % maxSetNum = b % maxSetNum
                                /\ c \div maxSetNum = b \div maxSetNum
                                => c = b
<1>1. \A c \in Blocks :
        /\ c % maxSetNum \in SetIds /\ c \div maxSetNum \in Tags
        /\ c = BlockOf(c % maxSetNum, c \div maxSetNum)
  <2> TAKE c \in Blocks
  <2>1. PICK s \in SetIds, tag \in Tags : c = BlockOf(s, tag)
    BY DEF Blocks
  <2> QED BY <2>1, BlockParts
<1> QED BY <1>1, TagsAreNaturals

LEMMA BlockOfAddress ==
    ASSUME NEW addr \in Addr
    PROVE  /\ addr \div maxBlock \in Blocks
           /\ SetOf(addr) = (addr \div maxBlock) % maxSetNum
           /\ TagOf(addr) = (addr \div maxBlock) \div maxSetNum
<1> DEFINE M == maxSetNum * maxBlock
           x == addr % M
           t == addr \div M
           q == x \div maxBlock
           r == x % maxBlock
<1>1. addr \in Nat /\ maxSetNum \in Nat \ {0} /\ maxBlock \in Nat \ {0} /\ M \in Nat \ {0}
  BY InputAssumption, OptionsAssumption
<1>2. x \in Nat /\ t \in Nat /\ addr = M * t + x
  <2> HIDE DEF M
  <2> QED BY <1>1
<1>3. q \in Nat /\ r \in Nat /\ r < maxBlock /\ x = maxBlock * q + r
  <2>1. x \in Nat /\ maxBlock \in Nat \ {0}
    BY <1>1, <1>2
  <2> HIDE DEF x
  <2> QED BY <2>1
<1>4. SetOf(addr) = q /\ TagOf(addr) = t /\ q \in SetIds /\ t \in Tags
  BY DecodeInRange DEF SetOf, TagOf
<1> DEFINE b == t * maxSetNum + q
<1>5. addr = b * maxBlock + r /\ b \in Nat
  <2>1. M * t = (t * maxSetNum) * maxBlock
    <3> HIDE DEF x, t
    <3> QED BY <1>1, <1>2
  <2>2. (t * maxSetNum) * maxBlock + maxBlock * q = b * maxBlock /\ b \in Nat
    <3> HIDE DEF t, q
    <3> QED BY <1>1, <1>2, <1>3
  <2>3. M * t \in Nat /\ maxBlock * q \in Nat
    <3> HIDE DEF M, t, q
    <3> QED BY <1>1, <1>2, <1>3
  <2> HIDE DEF M, t, x, q, r, b
  <2> QED BY <1>2, <1>3, <2>1, <2>2, <2>3
<1>6. addr \div maxBlock = b
  <2> HIDE DEF b, r
  <2> QED BY <1>1, <1>3, <1>5, DivMod
<1>7. b = BlockOf(q, t)
  BY DEF BlockOf
<1> HIDE DEF M, x, t, q, r, b
<1> QED BY <1>4, <1>6, <1>7, BlockParts

-----------------------------------------------------------------------------
(* What one access does to the lines: it uses one line, and that is the    *)
(* line with the tag, an empty one, or the one with the oldest stamp.      *)

LEMMA PlaceEffect ==
    ASSUME NEW m, TypeInv(m), NEW s \in SetIds, NEW i \in LineIds, NEW tag \in Tags,
           NEW p, p = Place(m, s, i, tag)
    PROVE  /\ p \in Mem
           /\ \A r \in SetIds, j \in LineIds :
                /\ p.lines[r][j] = IF r = s /\ j = i THEN tag ELSE m.lines[r][j]
                /\ p.recentUse[r][j] = IF r = s /\ j = i THEN m.currentTime + 1
                                                         ELSE m.recentUse[r][j]
           /\ p.hit_times = m.hit_times /\ p.miss_times = m.miss_times
           /\ p.evic_times = m.evic_times
<1> DEFINE L == [m.lines EXCEPT ![s][i] = tag]
           R == [m.recentUse EXCEPT ![s][i] = m.currentTime + 1]
<1>1. /\ m \in Mem /\ m.currentTime + 1 \in Nat
      /\ L \in [SetIds -> [LineIds -> Tags \cup {Invalid}]]
      /\ R \in [SetIds -> [LineIds -> Nat]]
  BY DEF TypeInv, Mem
<1>2. p = [m EXCEPT !.lines = L, !.recentUse = R, !.currentTime = m.currentTime + 1]
  BY DEF Place
<1>3. /\ p \in Mem /\ p.lines = L /\ p.recentUse = R
      /\ p.hit_times = m.hit_times /\ p.miss_times = m.miss_times
      /\ p.evic_times = m.evic_times
  <2> HIDE DEF L, R
  <2> QED BY <1>1, <1>2 DEF Mem
<1> QED BY <1>3 DEF TypeInv, Mem

(* In state n, line i of set s is used for tag, and all else is as in m.   *)
Uses(m, n, s, i, tag) ==
    \A r \in SetIds, j \in LineIds :
        /\ n.lines[r][j] = IF r = s /\ j = i THEN tag ELSE m.lines[r][j]
        /\ n.recentUse[r][j] = IF r = s /\ j = i THEN m.currentTime + 1
                                                 ELSE m.recentUse[r][j]

Counted(m, n, h, k, e) ==
    /\ n.hit_times = m.hit_times + h
    /\ n.miss_times = m.miss_times + k
    /\ n.evic_times = m.evic_times + e

LineHit(m, n, s, i, tag) == m.lines[s][i] = tag /\ Counted(m, n, 1, 0, 0)

LineFilled(m, n, s, i, tag) ==
    /\ \A j \in LineIds : m.lines[s][j] # tag
    /\ m.lines[s][i] = Invalid
    /\ Counted(m, n, 0, 1, 0)

LineEvicted(m, n, s, i, tag) ==
    /\ \A j \in LineIds : m.lines[s][j] # tag
    /\ \A j \in LineIds : m.lines[s][j] # Invalid
    /\ \A j \in LineIds : m.recentUse[s][i] <= m.recentUse[s][j]
    /\ Counted(m, n, 0, 1, 1)

LEMMA OneLineUsed ==
    ASSUME NEW m, TypeInv(m), NEW s \in SetIds, NEW tag \in Tags,
           NEW n, n = loadOrStore(m, s, tag)
    PROVE  \E i \in LineIds :
             /\ Uses(m, n, s, i, tag)
             /\ \/ LineHit(m, n, s, i, tag)
                \/ LineFilled(m, n, s, i, tag)
                \/ LineEvicted(m, n, s, i, tag)
<1>1. m.hit_times \in Nat /\ m.miss_times \in Nat /\ m.evic_times \in Nat
  BY DEF TypeInv, Mem
<1>2. CASE Holding(m, s, tag) # {}
  <2> DEFINE i == First(Holding(m, s, tag))
             p == Place(m, s, i, tag)
  <2>1. i \in LineIds /\ m.lines[s][i] = tag
    BY <1>2, FirstIsMember DEF Holding
  <2>2. p \in Mem /\ Uses(m, p, s, i, tag) /\ Counted(m, p, 0, 0, 0)
    <3> HIDE DEF i
    <3> QED BY <1>1, <2>1, PlaceEffect DEF Uses, Counted
  <2>3. n = [p EXCEPT !.hit_times = m.hit_times + 1]
    BY <1>2 DEF loadOrStore, Hit
  <2> HIDE DEF p, i
  <2>4. n.lines = p.lines /\ n.recentUse = p.recentUse /\ Counted(m, n, 1, 0, 0)
    BY <1>1, <2>2, <2>3 DEF Mem, Counted
  <2> QED BY <2>1, <2>2, <2>4 DEF Uses, LineHit
<1>3. CASE Holding(m, s, tag) = {} /\ Empty(m, s) # {}
  <2> DEFINE i == First(Empty(m, s))
             p == Place(m, s, i, tag)
  <2>1. i \in LineIds /\ m.lines[s][i] = Invalid
    BY <1>3, FirstIsMember DEF Empty, Holding
  <2>2. p \in Mem /\ Uses(m, p, s, i, tag) /\ Counted(m, p, 0, 0, 0)
    <3> HIDE DEF i
    <3> QED BY <1>1, <2>1, PlaceEffect DEF Uses, Counted
  <2>3. n = [p EXCEPT !.miss_times = m.miss_times + 1]
    BY <1>3 DEF loadOrStore, Fill
  <2>4. \A j \in LineIds : m.lines[s][j] # tag
    BY <1>3 DEF Holding
  <2> HIDE DEF p, i
  <2>5. n.lines = p.lines /\ n.recentUse = p.recentUse /\ Counted(m, n, 0, 1, 0)
    BY <1>1, <2>2, <2>3 DEF Mem, Counted
  <2> QED BY <2>1, <2>2, <2>4, <2>5 DEF Uses, LineFilled
<1>4. CASE Holding(m, s, tag) = {} /\ Empty(m, s) = {}
  <2> DEFINE i == Victim(m, s)
             p == Place(m, s, i, tag)
             q == [p EXCEPT !.miss_times = m.miss_times + 1]
  <2>1. i \in LineIds /\ \A j \in LineIds : m.recentUse[s][i] <= m.recentUse[s][j]
    BY VictimIsLine
  <2>2. p \in Mem /\ Uses(m, p, s, i, tag) /\ Counted(m, p, 0, 0, 0)
    <3> HIDE DEF i
    <3> QED BY <1>1, <2>1, PlaceEffect DEF Uses, Counted
  <2>3. n = [q EXCEPT !.evic_times = m.evic_times + 1]
    BY <1>4 DEF loadOrStore, Evict
  <2>4. \A j \in LineIds : m.lines[s][j] # tag /\ m.lines[s][j] # Invalid
    BY <1>4 DEF Holding, Empty
  <2> HIDE DEF p, i
  <2>5. q \in Mem /\ q.lines = p.lines /\ q.recentUse = p.recentUse /\ Counted(m, q, 0, 1, 0)
    BY <1>1, <2>2 DEF Mem, Counted
  <2> HIDE DEF q
  <2>6. n.lines = p.lines /\ n.recentUse = p.recentUse /\ Counted(m, n, 0, 1, 1)
    BY <1>1, <2>3, <2>5 DEF Mem, Counted
  <2> QED BY <2>1, <2>2, <2>4, <2>6 DEF Uses, LineEvicted
<1> QED BY <1>2, <1>3, <1>4

-----------------------------------------------------------------------------
(* A set is full, in blocks, exactly when it has no empty line.            *)

MatesOf(m, b) == {c \in Cached(m) : c % maxSetNum = b % maxSetNum}

LEMMA FullSet ==
    ASSUME NEW m, TypeInv(m), LineInv(m), NEW b \in Blocks
    PROVE  /\ IsFiniteSet(MatesOf(m, b))
           /\ Cardinality(MatesOf(m, b)) = maxLine
                <=> \A i \in LineIds : m.lines[b % maxSetNum][i] # Invalid
<1> DEFINE s == b % maxSetNum
           used == {i \in LineIds : m.lines[s][i] # Invalid}
           f == [i \in used |-> BlockOf(s, m.lines[s][i])]
           mates == MatesOf(m, b)
<1>1. s \in SetIds
  BY PartsOfBlock
<1>2. IsFiniteSet(LineIds) /\ Cardinality(LineIds) = maxLine
  <2>1. maxLine \in Nat /\ 1 <= maxLine
    BY OptionsAssumption
  <2> QED BY <2>1, FS_Interval DEF LineIds
<1>3. /\ used \subseteq LineIds
      /\ IsFiniteSet(used)
      /\ used # LineIds => Cardinality(used) < maxLine
      /\ used = LineIds => Cardinality(used) = maxLine
  <2> HIDE DEF used
  <2>1. used \subseteq LineIds
    BY DEF used
  <2>2. /\ IsFiniteSet(used)
        /\ Cardinality(used) <= Cardinality(LineIds)
        /\ Cardinality(used) = Cardinality(LineIds) => used = LineIds
    BY <1>2, <2>1, FS_Subset
  <2>3. Cardinality(used) \in Nat
    BY <2>2, FS_CardinalityType
  <2> QED BY <1>2, <2>1, <2>2, <2>3, OptionsAssumption
<1>4. \A i \in used : /\ m.lines[s][i] \in Tags
                      /\ f[i] \in Blocks /\ f[i] % maxSetNum = s
                      /\ f[i] \div maxSetNum = m.lines[s][i]
  BY <1>1, BlockParts DEF TypeInv, Mem
<1>5. f \in Bijection(used, mates)
  <2> HIDE DEF f
  <2>1. \A i \in used : f[i] \in mates
    BY <1>1, <1>4 DEF MatesOf, Cached, Holds
  <2>2. \A i, j \in used : f[i] = f[j] => i = j
    BY <1>1, <1>4 DEF LineInv, TagsDistinct, Used
  <2>3. \A c \in mates : \E i \in used : f[i] = c
    <3> SUFFICES ASSUME NEW c \in mates PROVE \E i \in used : f[i] = c
      OBVIOUS
    <3>1. c \in Blocks /\ c % maxSetNum = s
      BY DEF MatesOf, Cached
    <3>2. PICK i \in LineIds : m.lines[s][i] = c \div maxSetNum
      BY <3>1 DEF MatesOf, Cached, Holds
    <3>3. i \in used
      BY <3>1, <3>2, PartsOfBlock
    <3>4. f[i] = c
      BY <1>4, <3>1, <3>2, <3>3, PartsOfBlock
    <3> QED BY <3>3, <3>4
  <2>4. f = [i \in used |-> f[i]]
    BY DEF f
  <2> HIDE DEF used, mates
  <2>5. f \in [used -> mates]
    BY <2>1, <2>4
  <2> QED BY <2>2, <2>3, <2>5, Fun_IsBij
<1>6. IsFiniteSet(mates) /\ Cardinality(mates) = Cardinality(used)
  <2> HIDE DEF used, mates, f
  <2>1. ExistsBijection(used, mates)
    BY <1>5 DEF ExistsBijection
  <2> QED BY <1>3, <2>1, FS_Bijection
<1>7. Cardinality(mates) = maxLine <=> used = LineIds
  <2> HIDE DEF used, mates
  <2> QED BY <1>3, <1>6, FS_CardinalityType, OptionsAssumption
<1>8. used = LineIds <=> \A i \in LineIds : m.lines[s][i] # Invalid
  OBVIOUS
<1> HIDE DEF used
<1> QED BY <1>6, <1>7, <1>8

-----------------------------------------------------------------------------
(* One access is one reference to its block, whose line was placed in the  *)
(* set: which block leaves, what is cached, and what is older than what.   *)

(* The block that line i of set s holds, unless it is b, leaves for b.     *)
Replaced(m, b, i) ==
    {c \in Blocks : c # b /\ c % maxSetNum = b % maxSetNum /\ Holds(m, c, i)}

(* What a reference to b makes of the cached blocks when gone leave.       *)
Referenced(m, n, b, gone) ==
    /\ Cached(n) = (Cached(m) \ gone) \cup {b}
    /\ Older(n) = [c \in Blocks |-> (IF c = b THEN MatesOf(m, b) ELSE Older(m)[c]) \ gone]

LEMMA UseIsReference ==
    ASSUME NEW m, TypeInv(m), LineInv(m), NEW n, NEW b \in Blocks, NEW i \in LineIds,
           Uses(m, n, b % maxSetNum, i, b \div maxSetNum),
           \A j \in LineIds : j # i => ~ Holds(m, b, j),
           \A c \in Replaced(m, b, i) : Older(m)[c] = {}
    PROVE  Referenced(m, n, b, Replaced(m, b, i) \cup {b})
<1> DEFINE s == b % maxSetNum
           gone == Replaced(m, b, i) \cup {b}
<1>1. s \in SetIds /\ b \div maxSetNum \in Tags /\ b \div maxSetNum # Invalid
  BY PartsOfBlock
<1>2. \A c \in Blocks : c % maxSetNum \in SetIds /\ c \div maxSetNum # Invalid
  BY PartsOfBlock
<1>3. \A c \in Blocks, j \in LineIds :
        Holds(n, c, j) <=> IF c % maxSetNum = s /\ j = i THEN c = b ELSE Holds(m, c, j)
  BY <1>1, <1>2, PartsOfBlock DEF Uses, Holds
<1>4. \A c \in Blocks, j, k \in LineIds : Holds(m, c, j) /\ Holds(m, c, k) => j = k
  BY <1>2 DEF Holds, LineInv, TagsDistinct, Used
<1>5. \A c \in Blocks : c \in gone <=> c = b \/ (c % maxSetNum = s /\ Holds(m, c, i))
  BY DEF Replaced
<1>6. Cached(n) = (Cached(m) \ gone) \cup {b}
  <2>1. ASSUME NEW c \in Blocks
        PROVE  c \in Cached(n) <=> c \in (Cached(m) \ gone) \cup {b}
    <3>1. CASE c = b
      BY <3>1, <1>3 DEF Cached
    <3>2. CASE c # b /\ c \in gone
      BY <3>2, <1>3, <1>4, <1>5 DEF Cached
    <3>3. CASE c # b /\ c \notin gone
      BY <3>3, <1>3, <1>5 DEF Cached
    <3> QED BY <3>1, <3>2, <3>3
  <2> QED BY <2>1 DEF Cached
<1>7. \A r \in SetIds, j \in LineIds :
        /\ m.recentUse[r][j] \in Nat /\ m.currentTime \in Nat
        /\ m.recentUse[r][j] <= m.currentTime
        /\ n.recentUse[r][j] = IF r = s /\ j = i THEN m.currentTime + 1
                                                 ELSE m.recentUse[r][j]
  BY <1>1 DEF Uses, TypeInv, Mem, LineInv, StampsPast
<1>8. ASSUME NEW c \in Blocks
      PROVE  Older(n)[c] = (IF c = b THEN MatesOf(m, b) ELSE Older(m)[c]) \ gone
  <2> DEFINE before(x, d, j, k) ==
               /\ Holds(x, c, j) /\ Holds(x, d, k)
               /\ x.recentUse[c % maxSetNum][k] < x.recentUse[c % maxSetNum][j]
  <2>1. \A d : d \in Older(n)[c] <=> /\ d \in Blocks /\ d % maxSetNum = c % maxSetNum
                                     /\ \E j, k \in LineIds : before(n, d, j, k)
    BY DEF Older
  <2>2. \A d : d \in Older(m)[c] <=> /\ d \in Blocks /\ d % maxSetNum = c % maxSetNum
                                     /\ \E j, k \in LineIds : before(m, d, j, k)
    BY DEF Older
  <2>3. CASE c = b
    <3>1. ASSUME NEW d \in Blocks, d % maxSetNum = s
          PROVE  d \in Older(n)[c] <=> d \in Cached(m) /\ d \notin gone
      <4>1. \A j \in LineIds : Holds(n, c, j) => j = i
        BY <1>3, <2>3
      <4>2. Holds(n, c, i)
        BY <1>3, <2>3
      <4>3. ASSUME NEW k \in LineIds
            PROVE  before(n, d, i, k) <=> k # i /\ Holds(m, d, k)
        BY <1>1, <1>3, <1>7, <2>3, <3>1, <4>2
      <4>4. (\E k \in LineIds : k # i /\ Holds(m, d, k)) <=> d \in Cached(m) /\ d \notin gone
        BY <1>4, <1>5, <3>1 DEF Cached
      <4> HIDE DEF before, gone
      <4>5. (\E j, k \in LineIds : before(n, d, j, k)) <=> \E k \in LineIds : before(n, d, i, k)
        BY <4>1 DEF before
      <4> QED BY <2>1, <2>3, <3>1, <4>3, <4>4, <4>5
    <3>2. \A d \in Older(n)[c] : d \in Blocks /\ d % maxSetNum = s
      BY <2>1, <2>3
    <3>3. \A d : d \in MatesOf(m, b) <=> d \in Blocks /\ d \in Cached(m) /\ d % maxSetNum = s
      BY DEF MatesOf, Cached
    <3> HIDE DEF gone
    <3> QED BY <2>3, <3>1, <3>2, <3>3
  <2>4. CASE c # b /\ c % maxSetNum = s /\ Holds(m, c, i)
    <3>1. Older(m)[c] = {}
      BY <2>4 DEF Replaced
    <3>2. \A j \in LineIds : ~ Holds(n, c, j)
      BY <1>3, <1>4, <2>4
    <3>3. Older(n)[c] = {}
      BY <2>1, <3>2
    <3> QED BY <2>4, <3>1, <3>3
  <2>5. CASE c # b /\ c % maxSetNum = s /\ ~ Holds(m, c, i)
    <3>1. ASSUME NEW d \in Blocks, d % maxSetNum = s
          PROVE  d \in Older(n)[c] <=> d \in Older(m)[c] /\ d \notin gone
      <4>1. CASE d = b
        <5>1. \A j, k \in LineIds : ~ before(n, d, j, k)
          BY <1>1, <1>3, <1>7, <2>5, <4>1
        <5>2. d \in gone
          BY <4>1
        <5> QED BY <2>1, <5>1, <5>2
      <4>2. CASE d # b /\ Holds(m, d, i)
        <5>1. \A k \in LineIds : ~ Holds(n, d, k)
          BY <1>3, <1>4, <3>1, <4>2
        <5>2. d \in gone
          BY <1>5, <3>1, <4>2
        <5> QED BY <2>1, <5>1, <5>2
      <4>3. CASE d # b /\ ~ Holds(m, d, i)
        <5>1. \A j, k \in LineIds : before(n, d, j, k) <=> before(m, d, j, k)
          BY <1>1, <1>3, <1>7, <2>5, <3>1, <4>3
        <5>2. d \notin gone
          BY <1>5, <4>3
        <5> HIDE DEF before
        <5> QED BY <2>1, <2>2, <5>1, <5>2
      <4> QED BY <4>1, <4>2, <4>3
    <3> QED BY <2>1, <2>2, <2>5, <3>1
  <2>6. CASE c % maxSetNum # s
    <3>1. ASSUME NEW d \in Blocks, d % maxSetNum = c % maxSetNum, NEW j \in LineIds, NEW k \in LineIds
          PROVE  before(n, d, j, k) <=> before(m, d, j, k)
      BY <1>2, <1>3, <1>7, <2>6, <3>1
    <3>2. \A d \in Blocks : d % maxSetNum = c % maxSetNum => d \notin gone
      BY <1>5, <2>6
    <3> HIDE DEF before, gone
    <3> QED BY <2>1, <2>2, <2>6, <3>1, <3>2
  <2> QED BY <2>3, <2>4, <2>5, <2>6
<1>9. Older(n) = [c \in Blocks |-> Older(n)[c]]
  BY DEF Older
<1> HIDE DEF gone
<1>10. Older(n) = [c \in Blocks |-> (IF c = b THEN MatesOf(m, b) ELSE Older(m)[c]) \ gone]
  BY <1>8, <1>9
<1> QED BY <1>6, <1>10 DEF Referenced, gone

(* The block that leaves is the one its set used least recently.           *)
LEMMA OldestHasNoneOlder ==
    ASSUME NEW m, TypeInv(m), LineInv(m), NEW b \in Blocks, NEW i \in LineIds,
           \A j \in LineIds : m.lines[b % maxSetNum][j] # Invalid,
           \A j \in LineIds : m.recentUse[b % maxSetNum][i] <= m.recentUse[b % maxSetNum][j],
           \A j \in LineIds : ~ Holds(m, b, j)
    PROVE  Replaced(m, b, i) = {c \in MatesOf(m, b) : Older(m)[c] = {}}
<1> DEFINE s == b % maxSetNum
           v == BlockOf(s, m.lines[s][i])
<1>1. s \in SetIds /\ m.lines[s][i] \in Tags
  BY PartsOfBlock DEF TypeInv, Mem
<1>2. v \in Blocks /\ v % maxSetNum = s /\ Holds(m, v, i)
  BY <1>1, BlockParts DEF Holds
<1> HIDE DEF v
<1>3. \A j, k \in LineIds :
        /\ m.recentUse[s][j] \in Nat
        /\ j # k => m.recentUse[s][j] # m.recentUse[s][k]
  BY <1>1 DEF TypeInv, Mem, LineInv, StampsDistinct, Used
<1>4. \A c \in Blocks : c % maxSetNum = s =>
        \A d : d \in Older(m)[c] <=>
            /\ d \in Blocks /\ d % maxSetNum = s
            /\ \E j, k \in LineIds : /\ Holds(m, c, j) /\ Holds(m, d, k)
                                     /\ m.recentUse[s][k] < m.recentUse[s][j]
  BY DEF Older
<1>5. ASSUME NEW c \in Blocks, c % maxSetNum = s, NEW j \in LineIds, Holds(m, c, j)
      PROVE  Older(m)[c] = {} <=> Holds(m, c, i)
  <2>1. CASE j = i
    <3>1. \A k, l \in LineIds : Holds(m, c, k) => k = i
      BY <1>1, <1>5, <2>1 DEF LineInv, TagsDistinct, Used, Holds
    <3>2. \A d : d \notin Older(m)[c]
      BY <1>3, <1>4, <1>5, <3>1
    <3> QED BY <1>5, <2>1, <3>2
  <2>2. CASE j # i
    <3>1. m.recentUse[s][i] < m.recentUse[s][j]
      BY <1>3, <2>2
    <3>2. v \in Older(m)[c]
      BY <1>2, <1>4, <1>5, <3>1
    <3>3. ~ Holds(m, c, i)
      BY <1>1, <1>5, <2>2 DEF LineInv, TagsDistinct, Used, Holds
    <3> QED BY <3>2, <3>3
  <2> QED BY <2>1, <2>2
<1>6. \A c : c \in MatesOf(m, b) <=> /\ c \in Blocks /\ c % maxSetNum = s
                                     /\ \E j \in LineIds : Holds(m, c, j)
  BY DEF MatesOf, Cached
<1> QED BY <1>5, <1>6 DEF Replaced

LEMMA AccessIsReference ==
    ASSUME NEW m, TypeInv(m), LineInv(m), NEW b \in Blocks,
           NEW n, n = loadOrStore(m, b % maxSetNum, b \div maxSetNum)
    PROVE  LET full == b \notin Cached(m) /\ Cardinality(MatesOf(m, b)) = maxLine
               gone == (IF full THEN {c \in MatesOf(m, b) : Older(m)[c] = {}} ELSE {}) \cup {b}
           IN  /\ Referenced(m, n, b, gone)
               /\ Counted(m, n, IF b \in Cached(m) THEN 1 ELSE 0,
                                IF b \in Cached(m) THEN 0 ELSE 1,
                                IF full THEN 1 ELSE 0)
<1> DEFINE s == b % maxSetNum
           tag == b \div maxSetNum
           full == b \notin Cached(m) /\ Cardinality(MatesOf(m, b)) = maxLine
           gone == (IF full THEN {c \in MatesOf(m, b) : Older(m)[c] = {}} ELSE {}) \cup {b}
<1>1. s \in SetIds /\ tag \in Tags /\ tag # Invalid
  BY PartsOfBlock
<1>2. PICK i \in LineIds :
        /\ Uses(m, n, s, i, tag)
        /\ \/ LineHit(m, n, s, i, tag)
           \/ LineFilled(m, n, s, i, tag)
           \/ LineEvicted(m, n, s, i, tag)
  BY <1>1, OneLineUsed
<1>3. \A j \in LineIds : Holds(m, b, j) <=> m.lines[s][j] = tag
  BY DEF Holds
<1>4. b \in Cached(m) <=> \E j \in LineIds : m.lines[s][j] = tag
  BY <1>3 DEF Cached
<1>5. Cardinality(MatesOf(m, b)) = maxLine <=> \A j \in LineIds : m.lines[s][j] # Invalid
  BY FullSet
<1>6. ASSUME m.lines[s][i] = tag \/ m.lines[s][i] = Invalid
      PROVE  Replaced(m, b, i) = {}
  BY <1>6, <1>1, PartsOfBlock DEF Replaced, Holds
<1>7. CASE LineHit(m, n, s, i, tag)
  <2>1. b \in Cached(m) /\ m.lines[s][i] = tag /\ Counted(m, n, 1, 0, 0)
    BY <1>4, <1>7 DEF LineHit
  <2>2. \A j \in LineIds : j # i => ~ Holds(m, b, j)
    BY <1>1, <1>3, <2>1 DEF LineInv, TagsDistinct, Used
  <2>3. Replaced(m, b, i) = {}
    BY <1>6, <2>1
  <2>4. Referenced(m, n, b, {b})
    BY <1>2, <2>2, <2>3, UseIsReference, {} \cup {b} = {b}
  <2>5. gone = {b} /\ ~ full
    BY <2>1
  <2> QED BY <2>1, <2>4, <2>5
<1>8. CASE LineFilled(m, n, s, i, tag)
  <2>1. b \notin Cached(m) /\ ~ full /\ m.lines[s][i] = Invalid /\ Counted(m, n, 0, 1, 0)
    BY <1>4, <1>5, <1>8 DEF LineFilled
  <2>2. \A j \in LineIds : ~ Holds(m, b, j)
    BY <1>3, <1>8 DEF LineFilled
  <2>3. Replaced(m, b, i) = {}
    BY <1>6, <2>1
  <2>4. Referenced(m, n, b, {b})
    BY <1>2, <2>2, <2>3, UseIsReference, {} \cup {b} = {b}
  <2>5. gone = {b}
    BY <2>1
  <2> QED BY <2>1, <2>4, <2>5
<1>9. CASE LineEvicted(m, n, s, i, tag)
  <2>1. b \notin Cached(m) /\ full /\ Counted(m, n, 0, 1, 1)
    BY <1>4, <1>5, <1>9 DEF LineEvicted
  <2>2. \A j \in LineIds : ~ Holds(m, b, j)
    BY <1>3, <1>9 DEF LineEvicted
  <2>3. Replaced(m, b, i) = {c \in MatesOf(m, b) : Older(m)[c] = {}}
    BY <1>9, <2>2, OldestHasNoneOlder DEF LineEvicted
  <2>4. gone = Replaced(m, b, i) \cup {b}
    BY <2>1, <2>3
  <2>5. \A c \in Replaced(m, b, i) : Older(m)[c] = {}
    BY <2>3
  <2>6. Referenced(m, n, b, Replaced(m, b, i) \cup {b})
    BY <1>2, <2>2, <2>5, UseIsReference
  <2> QED BY <2>1, <2>4, <2>6
<1> QED BY <1>2, <1>7, <1>8, <1>9

(* A second access of the same block changes nothing but the hits.         *)
LEMMA SecondAccessHits ==
    ASSUME NEW m, NEW o, TypeInv(o), LineInv(o), NEW b \in Blocks, NEW gone, b \in gone,
           Referenced(m, o, b, gone), \A c \in gone : c \in Blocks => c % maxSetNum = b % maxSetNum,
           NEW n, n = loadOrStore(o, b % maxSetNum, b \div maxSetNum)
    PROVE  Referenced(m, n, b, gone) /\ Counted(o, n, 1, 0, 0)
<1>1. b \in Cached(o)
  BY DEF Referenced
<1>2. Referenced(o, n, b, {b}) /\ Counted(o, n, 1, 0, 0)
  BY <1>1, AccessIsReference, {} \cup {b} = {b}
<1>3. Cached(n) = Cached(o)
  BY <1>1, <1>2 DEF Referenced
<1>4. \A c \in Blocks : Older(n)[c] = (IF c = b THEN MatesOf(o, b) ELSE Older(o)[c]) \ {b}
  BY <1>2 DEF Referenced
<1>5. \A c \in Blocks : Older(o)[c] = (IF c = b THEN MatesOf(m, b) ELSE Older(m)[c]) \ gone
  BY DEF Referenced
<1>6. MatesOf(o, b) \ {b} = MatesOf(m, b) \ gone
  BY DEF Referenced, MatesOf
<1>7. ASSUME NEW c \in Blocks PROVE Older(n)[c] = Older(o)[c]
  <2>1. CASE c = b
    BY <1>4, <1>5, <1>6, <2>1
  <2>2. CASE c # b
    <3>1. Older(n)[c] = Older(o)[c] \ {b}
      BY <1>4, <2>2
    <3>2. Older(o)[c] = Older(m)[c] \ gone
      BY <1>5, <2>2
    <3> QED BY <3>1, <3>2
  <2> QED BY <2>1, <2>2
<1>8. Older(n) = Older(o)
  BY <1>7 DEF Older
<1> QED BY <1>2, <1>3, <1>8 DEF Referenced

-----------------------------------------------------------------------------
(* The simulator implements a least-recently-used cache, for every         *)
(* geometry and every trace (csim.c, loadOrStore, modify).                 *)

LEMMA StepIsReference ==
    ASSUME AllInv, NEW addr \in Addr
    PROVE  /\ LoadStoreLine(addr) => LRU!Reference(addr \div maxBlock, 0)
           /\ ModifyLine(addr) => LRU!Reference(addr \div maxBlock, 1)
<1> DEFINE b == addr \div maxBlock
           once == loadOrStore(mem, SetOf(addr), TagOf(addr))
           full == b \notin Cached(mem) /\ Cardinality(MatesOf(mem, b)) = maxLine
           gone == (IF full THEN {c \in MatesOf(mem, b) : Older(mem)[c] = {}} ELSE {}) \cup {b}
<1> USE DEF AllInv, TypeOK, SetsWellFormed
<1>1. b \in Blocks /\ SetOf(addr) = b % maxSetNum /\ TagOf(addr) = b \div maxSetNum
  BY BlockOfAddress
<1>2. /\ Referenced(mem, once, b, gone)
      /\ Counted(mem, once, IF b \in Cached(mem) THEN 1 ELSE 0,
                            IF b \in Cached(mem) THEN 0 ELSE 1,
                            IF full THEN 1 ELSE 0)
  <2> HIDE DEF b
  <2> QED BY <1>1, AccessIsReference
<1>3. LRU!Mates(b) = MatesOf(mem, b)
  BY DEF LRU!Mates, MatesOf
<1>4. ASSUME NEW again \in {0, 1}, Referenced(mem, mem', b, gone),
             Counted(mem, mem', again + (IF b \in Cached(mem) THEN 1 ELSE 0),
                                IF b \in Cached(mem) THEN 0 ELSE 1,
                                IF full THEN 1 ELSE 0)
      PROVE  LRU!Reference(b, again)
  <2>1. mem.hit_times \in Nat
    BY DEF TypeInv, Mem
  <2>2. /\ Cached(mem)' = Cached(mem') /\ Older(mem)' = Older(mem')
        /\ (mem.hit_times)' = (mem').hit_times
    BY DEF Cached, Older, Holds
  <2> HIDE DEF b
  <2>3. mem'.hit_times = mem.hit_times + again + (IF b \in Cached(mem) THEN 1 ELSE 0)
    BY <1>4, <2>1 DEF Counted
  <2>4. LRU!Cardinality(MatesOf(mem, b)) = Cardinality(MatesOf(mem, b))
    BY DEF LRU!Cardinality, Cardinality
  <2> QED BY <1>3, <1>4, <2>2, <2>3, <2>4 DEF LRU!Reference, Referenced, Counted
<1>5. ASSUME LoadStoreLine(addr) PROVE LRU!Reference(b, 0)
  <2>1. mem' = once
    BY <1>5 DEF LoadStoreLine
  <2> HIDE DEF b, once, gone, full
  <2>2. /\ Referenced(mem, mem', b, gone)
        /\ Counted(mem, mem', 0 + (IF b \in Cached(mem) THEN 1 ELSE 0),
                   IF b \in Cached(mem) THEN 0 ELSE 1, IF full THEN 1 ELSE 0)
    BY <1>2, <2>1
  <2> QED BY <1>4, <2>2
<1>6. ASSUME ModifyLine(addr) PROVE LRU!Reference(b, 1)
  <2>1. mem' = loadOrStore(once, SetOf(addr), TagOf(addr))
    BY <1>6 DEF ModifyLine, modify
  <2>2. TypeInv(once) /\ LineInv(once)
    BY DecodeInRange, AccessKeepsInv
  <2>3. \A c \in gone : c \in Blocks => c % maxSetNum = b % maxSetNum
    BY DEF MatesOf
  <2>4. b \in gone
    OBVIOUS
  <2> HIDE DEF b, once, gone, full
  <2>5. mem' = loadOrStore(once, b % maxSetNum, b \div maxSetNum)
    BY <1>1, <2>1
  <2>6. Referenced(mem, mem', b, gone) /\ Counted(once, mem', 1, 0, 0)
    BY <1>1, <1>2, <2>2, <2>3, <2>4, <2>5, SecondAccessHits
  <2>7. mem.hit_times \in Nat /\ mem.miss_times \in Nat /\ mem.evic_times \in Nat
    BY DEF TypeInv, Mem
  <2>8. Counted(mem, mem', 1 + (IF b \in Cached(mem) THEN 1 ELSE 0),
                IF b \in Cached(mem) THEN 0 ELSE 1, IF full THEN 1 ELSE 0)
    BY <1>2, <2>6, <2>7 DEF Counted
  <2> QED BY <1>4, <2>6, <2>8
<1> QED BY <1>5, <1>6

THEOREM Refinement == Spec => IsLRU
<1> USE DEF AllInv, TypeOK
<1>1. Init => LRU!LRUInit
  <2> SUFFICES ASSUME Init PROVE LRU!LRUInit
    OBVIOUS
  <2>1. mem.lines = [s \in SetIds |-> [i \in LineIds |-> Invalid]]
    BY DEF Init, memInit
  <2>2. \A b \in Blocks, i \in LineIds : ~ Holds(mem, b, i)
    BY <2>1, PartsOfBlock DEF Holds
  <2>3. Cached(mem) = {} /\ Older(mem) = [b \in Blocks |-> {}]
    BY <2>2 DEF Cached, Older
  <2>4. mem.hit_times = 0 /\ mem.miss_times = 0 /\ mem.evic_times = 0
    BY DEF Init, memInit
  <2> QED BY <2>3, <2>4 DEF LRU!LRUInit
<1>2. AllInv /\ [Next]_mem => [LRU!LRUNext]_(LRU!lruVars)
  <2> SUFFICES ASSUME AllInv, [Next]_mem PROVE [LRU!LRUNext]_(LRU!lruVars)
    OBVIOUS
  <2>1. CASE UNCHANGED mem
    BY <2>1 DEF LRU!lruVars, Cached, Older, Holds
  <2>2. ASSUME NEW addr \in Addr, LoadStoreLine(addr) \/ ModifyLine(addr)
        PROVE  LRU!LRUNext
    <3>1. LRU!Reference(addr \div maxBlock, 0) \/ LRU!Reference(addr \div maxBlock, 1)
      BY <2>2, StepIsReference
    <3>2. addr \div maxBlock \in Blocks
      BY BlockOfAddress
    <3> QED BY <3>1, <3>2 DEF LRU!LRUNext
  <2> QED BY <2>1, <2>2 DEF Next
<1>3. AllInv /\ [Next]_mem
        => [\A addr \in Addr :
              /\ LoadStoreLine(addr) => LRU!Reference(addr \div maxBlock, 0)
              /\ ModifyLine(addr) => LRU!Reference(addr \div maxBlock, 1)]_mem
  BY StepIsReference
<1> HIDE DEF AllInv
<1> QED BY InitInv, NextInv, <1>1, <1>2, <1>3, PTL DEF Spec, IsLRU, LRU!LRUSpec
=============================================================================
