------------------------------- MODULE KVProofs ------------------------------
(***************************************************************************)
(* Proofs about KVStore and its client, for any keys, any sizes of tables  *)
(* and levels, and any sequence of client operations.                      *)
(*   - with kills and restarts: what the store remembers of the directory  *)
(*     is the directory (IInv), and a flushed table is newer than every    *)
(*     other;                                                              *)
(*   - without kills: the levels stay within bounds, disjoint and in order *)
(*     of age at every step of a compaction (LevelsInv, BoundInv);         *)
(*   - and what the memory table, the newest table of a key and the log    *)
(*     hold together is the client's map (DataInv).                        *)
(***************************************************************************)
EXTENDS KVClient, TLAPS, FiniteSetTheorems, SequenceTheorems

LEMMA LeastNat ==
    ASSUME NEW T \in SUBSET Nat, T # {}
    PROVE  \E x \in T : \A y \in T : x <= y
<1>1. PICK x \in T : \A y \in T : <<y, x>> \notin OpToRel(<, Nat)
  BY NatLessThanWellFounded, WFMin
<1>2. \A y \in T : ~(y < x)
  BY <1>1 DEF OpToRel
<1> QED BY <1>2

(* A bounded set of numbers has a greatest element.                        *)
LEMMA MaxOfBounded ==
    ASSUME NEW T \in SUBSET Nat, T # {}, NEW b \in Nat, \A t \in T : t <= b
    PROVE  MaxOf(T) \in T /\ \A u \in T : u <= MaxOf(T)
<1> DEFINE D == {d \in Nat : b - d \in T}
<1>1. PICK t \in T : TRUE
  OBVIOUS
<1>2. b - t \in D /\ D \in SUBSET Nat
  BY <1>1
<1>3. PICK d \in D : \A e \in D : d <= e
  BY <1>2, LeastNat
<1>4. \A u \in T : b - u \in D
  OBVIOUS
<1>5. b - d \in T /\ \A u \in T : u <= b - d
  BY <1>3, <1>4
<1> QED BY <1>5 DEF MaxOf

-----------------------------------------------------------------------------
(* Ranks in a finite ordered set S; R is the order, as a set of pairs.     *)

Below(S, R, x) == {z \in S : <<z, x>> \in R}

Orders(R, S) ==
    /\ \A x \in S : <<x, x>> \notin R
    /\ \A x, y, z \in S : <<x, y>> \in R /\ <<y, z>> \in R => <<x, z>> \in R
    /\ \A x, y \in S : x # y => <<x, y>> \in R \/ <<y, x>> \in R

LEMMA RankType ==
    ASSUME NEW S, IsFiniteSet(S), NEW R, Orders(R, S), NEW x \in S
    PROVE  Cardinality(Below(S, R, x)) \in 0 .. Cardinality(S) - 1
<1>1. Below(S, R, x) \in SUBSET S /\ Below(S, R, x) # S
  BY DEF Below, Orders
<1>2. /\ Cardinality(S) \in Nat /\ Cardinality(Below(S, R, x)) \in Nat
      /\ Cardinality(Below(S, R, x)) <= Cardinality(S)
      /\ Cardinality(Below(S, R, x)) # Cardinality(S)
  BY <1>1, FS_Subset, FS_CardinalityType
<1> QED BY <1>2

LEMMA RanksDiffer ==
    ASSUME NEW S, IsFiniteSet(S), NEW R, Orders(R, S), NEW x \in S, NEW y \in S,
           Cardinality(Below(S, R, x)) = Cardinality(Below(S, R, y))
    PROVE  x = y
<1>1. ASSUME NEW u \in S, NEW v \in S, <<u, v>> \in R
      PROVE  Cardinality(Below(S, R, u)) # Cardinality(Below(S, R, v))
  <2>1. /\ Below(S, R, u) \in SUBSET Below(S, R, v)
        /\ u \in Below(S, R, v) /\ u \notin Below(S, R, u)
    BY <1>1 DEF Below, Orders
  <2>2. IsFiniteSet(Below(S, R, v))
    BY FS_Subset DEF Below
  <2> QED BY <2>1, <2>2, FS_Subset
<1> QED BY <1>1 DEF Orders

LEMMA RankReached ==
    ASSUME NEW S, IsFiniteSet(S), NEW R, Orders(R, S), NEW r \in 0 .. Cardinality(S) - 1
    PROVE  \E x \in S : Cardinality(Below(S, R, x)) = r
<1> DEFINE rank == [x \in S |-> Cardinality(Below(S, R, x))]
           T == (0 .. Cardinality(S) - 1) \ {r}
<1>1. Cardinality(S) \in Nat
  BY FS_CardinalityType
<1>2. IsFiniteSet(T) /\ Cardinality(T) = Cardinality(S) - 1
  <2>1. /\ IsFiniteSet(0 .. Cardinality(S) - 1)
        /\ Cardinality(0 .. Cardinality(S) - 1) = Cardinality(S)
    BY <1>1, FS_Interval
  <2> QED BY <2>1, FS_RemoveElement
<1>3. SUFFICES ASSUME \A x \in S : Cardinality(Below(S, R, x)) # r PROVE FALSE
  OBVIOUS
<1>4. rank \in [S -> T]
  BY <1>3, RankType
<1>5. PICK x \in S, y \in S : x # y /\ rank[x] = rank[y]
  <2>1. Cardinality(T) < Cardinality(S)
    BY <1>1, <1>2
  <2> HIDE DEF T, rank
  <2> QED BY <1>2, <1>4, <2>1, FS_PigeonHole
<1> QED BY <1>5, RanksDiffer

(* The natural order of a set of numbers, and its extremes. *)
LEMMA NaturalOrder ==
    ASSUME NEW K \in SUBSET Nat, IsFiniteSet(K), NEW R, R = {p \in K \X K : p[1] < p[2]}
    PROVE  /\ Orders(R, K)
           /\ \A k \in K : /\ Rank(K, k) = Cardinality(Below(K, R, k))
                           /\ Rank(K, k) \in 0 .. Cardinality(K) - 1
           /\ \A j, k \in K : Rank(K, j) < Rank(K, k) => j < k
<1>1. \A x, y \in K : <<x, y>> \in R <=> x < y
  OBVIOUS
<1>2. Orders(R, K)
  <2>1. \A x, y, z \in K : ~(x < x) /\ (x < y /\ y < z => x < z) /\ (x # y => x < y \/ y < x)
    OBVIOUS
  <2> QED BY ONLY <1>1, <2>1 DEF Orders
<1>3. \A k \in K : {j \in K : j < k} = Below(K, R, k)
  BY DEF Below
<1>4. \A k \in K : /\ Rank(K, k) = Cardinality(Below(K, R, k))
                   /\ Rank(K, k) \in 0 .. Cardinality(K) - 1
  BY <1>2, <1>3, RankType DEF Rank
<1>5. ASSUME NEW j \in K, NEW k \in K, k <= j PROVE Rank(K, k) <= Rank(K, j)
  <2>1. {x \in K : x < k} \in SUBSET {x \in K : x < j}
    <3>1. \A x \in K : x < k => x < j
      BY <1>5
    <3> QED BY <3>1
  <2>2. {x \in K : x < j} \in SUBSET K
    OBVIOUS
  <2> QED BY <2>1, <2>2, FS_Subset DEF Rank
<1>6. ASSUME NEW j \in K, NEW k \in K, Rank(K, j) < Rank(K, k) PROVE j < k
  <2>1. Rank(K, j) \in Int /\ Rank(K, k) \in Int
    BY <1>4
  <2> QED BY <1>5, <1>6, <2>1
<1> QED BY <1>2, <1>4, <1>6

LEMMA Extremes ==
    ASSUME NEW K \in SUBSET Nat, IsFiniteSet(K), K # {}
    PROVE  /\ MinOf(K) \in K /\ \A k \in K : MinOf(K) <= k
           /\ MaxOf(K) \in K /\ \A k \in K : k <= MaxOf(K)
<1>1. \E x \in K : \A y \in K : x <= y
  BY LeastNat
<1>2. MinOf(K) \in K /\ \A k \in K : MinOf(K) <= k
  BY <1>1 DEF MinOf
<1> DEFINE R == {p \in K \X K : p[1] < p[2]}
           N == Cardinality(K)
<1>3. N \in Nat /\ N - 1 \in 0 .. N - 1
  <2>1. N \in Nat /\ N # 0
    BY FS_CardinalityType, FS_EmptySet
  <2> QED BY <2>1
<1>4. /\ Orders(R, K)
      /\ \A j, k \in K : Rank(K, j) < Rank(K, k) => j < k
      /\ \A k \in K : Rank(K, k) = Cardinality(Below(K, R, k))
      /\ \A k \in K : Rank(K, k) \in 0 .. N - 1
  <2> HIDE DEF N
  <2> QED BY NaturalOrder DEF N
<1>5. PICK x \in K : Rank(K, x) = N - 1
  <2> HIDE DEF R
  <2>1. Orders(R, K) /\ Cardinality(K) - 1 \in 0 .. Cardinality(K) - 1
    BY <1>3, <1>4
  <2>2. \E x \in K : Cardinality(Below(K, R, x)) = Cardinality(K) - 1
    BY <2>1, RankReached
  <2> QED BY <1>4, <2>2
<1>6. ASSUME NEW k \in K PROVE k <= x
  <2>1. CASE Rank(K, k) < N - 1
    BY <1>4, <1>5, <2>1
  <2>2. CASE Rank(K, k) = N - 1
    <3>1. k = x
      <4> HIDE DEF R
      <4> QED BY <1>4, <1>5, <2>2, RanksDiffer
    <3> QED BY <3>1
  <2> QED BY <1>3, <1>4, <2>1, <2>2
<1> QED BY <1>2, <1>6 DEF MaxOf

-----------------------------------------------------------------------------
(* A list names every member of a set once.                                *)

Lists(s, S) ==
    /\ s \in Seq(Nat)
    /\ ToSet(s) = S
    /\ \A p, q \in 1 .. Len(s) : s[p] = s[q] => p = q
    /\ Len(s) = Cardinality(S)

LEMMA EmptyList == Lists(<<>>, {})
  BY EmptySeq, FS_EmptySet DEF Lists, ToSet

LEMMA Listing ==
    ASSUME NEW s, NEW S, Lists(s, S)
    PROVE  /\ s \in Seq(Nat) /\ Len(s) \in Nat /\ DOMAIN s = 1 .. Len(s)
           /\ \A i \in 1 .. Len(s) : s[i] \in S /\ s[i] \in Nat
           /\ \A x \in S : \E i \in 1 .. Len(s) : s[i] = x
<1>1. s \in Seq(Nat) /\ Len(s) \in Nat /\ DOMAIN s = 1 .. Len(s)
  BY LenProperties DEF Lists
<1>2. \A i \in 1 .. Len(s) : s[i] \in Nat
  BY <1>1, ElementOfSeq
<1> QED BY <1>1, <1>2 DEF Lists, ToSet

LEMMA JoinedList ==
    ASSUME NEW s, NEW S, Lists(s, S), NEW t, NEW T, Lists(t, T),
           IsFiniteSet(S), IsFiniteSet(T), S \cap T = {}
    PROVE  Lists(s \o t, S \cup T)
<1> DEFINE u == s \o t
<1>1. /\ s \in Seq(Nat) /\ t \in Seq(Nat)
      /\ Len(s) \in Nat /\ DOMAIN s = 1 .. Len(s)
      /\ Len(t) \in Nat /\ DOMAIN t = 1 .. Len(t)
  BY Listing
<1>2. /\ u \in Seq(Nat) /\ Len(u) = Len(s) + Len(t)
      /\ \A i \in 1 .. Len(s) + Len(t) : u[i] = IF i <= Len(s) THEN s[i] ELSE t[i - Len(s)]
  BY <1>1, ConcatProperties
<1>3. DOMAIN u = 1 .. Len(s) + Len(t)
  BY <1>2, LenProperties
<1> HIDE DEF u
<1>4. \A i \in 1 .. Len(s) : s[i] \in S /\ u[i] = s[i]
  <2>1. \A i \in 1 .. Len(s) : i \in 1 .. Len(s) + Len(t) /\ i <= Len(s)
    BY <1>1
  <2> QED BY <1>2, <2>1, Listing
<1>5. ASSUME NEW i \in 1 .. Len(t) PROVE t[i] \in T /\ u[Len(s) + i] = t[i]
  <2>1. /\ Len(s) + i \in 1 .. Len(s) + Len(t) /\ ~(Len(s) + i <= Len(s))
        /\ (Len(s) + i) - Len(s) = i
    BY <1>1
  <2> QED BY <1>2, <2>1, Listing
<1>6. ToSet(u) = S \cup T
  <2>1. ASSUME NEW x \in S \cup T PROVE x \in ToSet(u)
    <3>1. CASE x \in S
      <4>1. PICK i \in 1 .. Len(s) : s[i] = x
        BY <3>1, Listing
      <4>2. i \in 1 .. Len(s) + Len(t)
        BY ONLY <1>1, <4>1
      <4>3. u[i] = x
        BY <1>4, <4>1
      <4> QED BY ONLY <1>3, <4>2, <4>3 DEF ToSet
    <3>2. CASE x \in T
      <4>1. PICK i \in 1 .. Len(t) : t[i] = x
        BY <3>2, Listing
      <4>2. Len(s) + i \in 1 .. Len(s) + Len(t)
        BY <1>1
      <4> QED BY <1>3, <1>5, <4>1, <4>2 DEF ToSet
    <3> QED BY <3>1, <3>2
  <2>2. ASSUME NEW i \in 1 .. Len(s) + Len(t) PROVE u[i] \in S \cup T
    <3>1. CASE i <= Len(s)
      BY <1>1, <1>4, <3>1
    <3>2. CASE i > Len(s)
      <4>1. i - Len(s) \in 1 .. Len(t) /\ i = Len(s) + (i - Len(s))
        BY <1>1, <3>2
      <4> QED BY <1>5, <4>1
    <3> QED BY <1>1, <3>1, <3>2
  <2> QED BY <1>3, <2>1, <2>2 DEF ToSet
<1>7. ASSUME NEW p \in 1 .. Len(u), NEW q \in 1 .. Len(u), u[p] = u[q]
      PROVE  p = q
  <2>1. CASE p <= Len(s) /\ q <= Len(s)
    BY <1>1, <1>4, <1>7, <2>1 DEF Lists
  <2>2. CASE p > Len(s) /\ q > Len(s)
    <3>1. /\ p - Len(s) \in 1 .. Len(t) /\ p = Len(s) + (p - Len(s))
          /\ q - Len(s) \in 1 .. Len(t) /\ q = Len(s) + (q - Len(s))
      BY <1>1, <1>2, <2>2
    <3>2. t[p - Len(s)] = t[q - Len(s)]
      BY <1>5, <1>7, <3>1
    <3>3. p - Len(s) = q - Len(s)
      BY <3>1, <3>2 DEF Lists
    <3> QED BY <1>1, <3>3
  <2>3. ASSUME NEW i \in 1 .. Len(u), NEW j \in 1 .. Len(u), i <= Len(s), j > Len(s)
        PROVE  u[i] # u[j]
    <3>1. j - Len(s) \in 1 .. Len(t) /\ j = Len(s) + (j - Len(s))
      BY <1>1, <1>2, <2>3
    <3>2. u[j] \in T
      BY <1>5, <3>1
    <3>3. u[i] \in S
      BY <1>1, <1>4, <2>3
    <3> QED BY <3>2, <3>3
  <2> QED BY <1>1, <1>2, <1>7, <2>1, <2>2, <2>3
<1>8. Len(u) = Cardinality(S \cup T)
  <2>1. Cardinality(S \cup T) = Cardinality(S) + Cardinality(T) - Cardinality({})
    BY FS_Union
  <2>2. Cardinality(S) \in Nat /\ Cardinality(T) \in Nat /\ Cardinality({}) = 0
    BY FS_CardinalityType, FS_EmptySet
  <2> QED BY <1>2, <2>1, <2>2 DEF Lists
<1>9. Lists(u, S \cup T)
  BY <1>2, <1>6, <1>7, <1>8 DEF Lists
<1> QED BY <1>9 DEF u

(* The names a compaction invents. *)
LEMMA NewNames ==
    ASSUME NEW a \in Nat, NEW n \in Nat
    PROVE  /\ Lists([c \in 1 .. n |-> a + c], a + 1 .. a + n)
           /\ IsFiniteSet(a + 1 .. a + n) /\ Cardinality(a + 1 .. a + n) = n
<1> DEFINE t == [c \in 1 .. n |-> a + c]
<1>1. t \in Seq(Nat) /\ Len(t) = n /\ DOMAIN t = 1 .. n
  OBVIOUS
<1>2. ASSUME NEW x \in a + 1 .. a + n PROVE x \in ToSet(t)
  <2>1. x - a \in 1 .. n /\ t[x - a] = x
    OBVIOUS
  <2> QED BY <1>1, <2>1 DEF ToSet
<1>3. ToSet(t) = a + 1 .. a + n
  BY <1>1, <1>2 DEF ToSet
<1>4. IsFiniteSet(a + 1 .. a + n) /\ Cardinality(a + 1 .. a + n) = n
  <2>1. a + 1 \in Int /\ a + n \in Int
    OBVIOUS
  <2>2. (IF a + 1 > a + n THEN 0 ELSE (a + n) - (a + 1) + 1) = n
    OBVIOUS
  <2> QED BY <2>1, <2>2, FS_Interval
<1> QED BY <1>1, <1>3, <1>4 DEF Lists

LEMMA RemovedList ==
    ASSUME NEW s, NEW S, Lists(s, S), IsFiniteSet(S), NEW p \in 1 .. Len(s)
    PROVE  Lists(RemoveAt(s, p), S \ {s[p]})
<1> DEFINE u == RemoveAt(s, p)
           front == SubSeq(s, 1, p - 1)
           back == SubSeq(s, p + 1, Len(s))
<1>1. s \in Seq(Nat) /\ Len(s) \in Nat /\ DOMAIN s = 1 .. Len(s) /\ s[p] \in S
  BY Listing
<1>2. \A i \in 1 .. Len(s) : s[i] \in Nat
  BY Listing
<1>3. /\ front \in Seq(Nat) /\ Len(front) = p - 1
      /\ \A i \in 1 .. p - 1 : front[i] = s[i]
  BY <1>1, <1>2, SubSeqProperties
<1>4. /\ back \in Seq(Nat) /\ Len(back) = Len(s) - p
      /\ \A i \in 1 .. Len(s) - p : back[i] = s[p + i]
  <2>1. p \in Int /\ p + 1 \in Int /\ Len(s) \in Int /\ p <= Len(s)
    BY <1>1
  <2>2. \A i \in p + 1 .. Len(s) : s[i] \in Nat
    BY <1>1, <1>2
  <2>3. /\ back \in Seq(Nat)
        /\ Len(back) = IF p + 1 <= Len(s) THEN Len(s) - (p + 1) + 1 ELSE 0
        /\ \A i \in 1 .. Len(s) - (p + 1) + 1 : back[i] = s[(p + 1) + i - 1]
    BY <2>1, <2>2, SubSeqProperties
  <2> HIDE DEF back
  <2>4. Len(back) = Len(s) - p
    BY <2>1, <2>3
  <2>5. ASSUME NEW i \in 1 .. Len(s) - p PROVE back[i] = s[p + i]
    <3>1. i \in 1 .. Len(s) - (p + 1) + 1 /\ (p + 1) + i - 1 = p + i
      BY <2>1
    <3> QED BY <2>3, <3>1
  <2> QED BY <2>3, <2>4, <2>5
<1>5. u \in Seq(Nat) /\ Len(u) = Len(s) - 1 /\ DOMAIN u = 1 .. Len(s) - 1
  <2>1. u \in Seq(Nat) /\ Len(u) = Len(front) + Len(back)
    BY <1>3, <1>4, ConcatProperties DEF RemoveAt
  <2>2. Len(u) = Len(s) - 1
    <3> HIDE DEF u, front, back
    <3> QED BY <1>1, <1>3, <1>4, <2>1
  <2> QED BY <2>1, <2>2, LenProperties
<1>6. \A q \in 1 .. Len(s) - 1 : u[q] = IF q < p THEN s[q] ELSE s[q + 1]
  <2>1. \A i \in 1 .. Len(front) + Len(back) :
            u[i] = IF i <= Len(front) THEN front[i] ELSE back[i - Len(front)]
    BY <1>3, <1>4, ConcatProperties DEF RemoveAt
  <2> HIDE DEF u, front, back
  <2>2. ASSUME NEW q \in 1 .. Len(s) - 1, q >= p PROVE back[q - (p - 1)] = s[q + 1]
    <3>1. q - (p - 1) \in 1 .. Len(s) - p /\ p + (q - (p - 1)) = q + 1
      BY <1>1, <2>2
    <3> QED BY <1>4, <3>1
  <2>3. Len(front) + Len(back) = Len(s) - 1
    BY <1>1, <1>3, <1>4
  <2>4. ASSUME NEW q \in 1 .. Len(s) - 1 PROVE u[q] = IF q < p THEN s[q] ELSE s[q + 1]
    <3>1. u[q] = IF q <= p - 1 THEN front[q] ELSE back[q - (p - 1)]
      BY <1>3, <2>1, <2>3
    <3>2. CASE q < p
      BY <1>1, <1>3, <3>1, <3>2
    <3>3. CASE q >= p
      BY <1>1, <2>2, <3>1, <3>3
    <3> QED BY <1>1, <3>2, <3>3
  <2> QED BY <2>4
<1> HIDE DEF u
<1>7. ToSet(u) = S \ {s[p]}
  <2>1. ASSUME NEW q \in 1 .. Len(s) - 1 PROVE u[q] \in S \ {s[p]}
    <3>1. q \in 1 .. Len(s) /\ q + 1 \in 1 .. Len(s)
      BY <1>1
    <3>2. (u[q] = s[q] /\ q # p) \/ (u[q] = s[q + 1] /\ q + 1 # p)
      BY <1>1, <1>6
    <3> QED BY <3>1, <3>2, Listing DEF Lists
  <2>2. ASSUME NEW x \in S \ {s[p]} PROVE x \in ToSet(u)
    <3>1. PICK i \in 1 .. Len(s) : s[i] = x
      BY Listing
    <3>2. CASE i < p
      <4>1. i \in 1 .. Len(s) - 1
        BY <1>1, <3>2
      <4> QED BY <1>5, <1>6, <3>1, <3>2, <4>1 DEF ToSet
    <3>3. CASE i > p
      <4>1. i - 1 \in 1 .. Len(s) - 1 /\ ~(i - 1 < p) /\ (i - 1) + 1 = i
        BY <1>1, <3>3
      <4>2. u[i - 1] = x
        BY <1>6, <3>1, <4>1
      <4> QED BY <1>5, <4>1, <4>2 DEF ToSet
    <3> QED BY <1>1, <3>1, <3>2, <3>3
  <2> QED BY <1>5, <2>1, <2>2 DEF ToSet
<1>8. ASSUME NEW i \in 1 .. Len(u), NEW j \in 1 .. Len(u), u[i] = u[j] PROVE i = j
  <2>1. /\ i \in 1 .. Len(s) /\ i + 1 \in 1 .. Len(s)
        /\ j \in 1 .. Len(s) /\ j + 1 \in 1 .. Len(s)
    <3>1. ASSUME NEW q \in 1 .. Len(u)
          PROVE  q \in 1 .. Len(s) /\ q + 1 \in 1 .. Len(s)
      <4>1. q \in 1 .. Len(s) - 1 /\ Len(s) \in Nat
        BY <1>1, <1>5
      <4> QED BY ONLY <4>1
    <3> QED BY ONLY <1>8, <3>1
  <2>2. u[i] = IF i < p THEN s[i] ELSE s[i + 1]
    BY <1>5, <1>6
  <2>3. u[j] = IF j < p THEN s[j] ELSE s[j + 1]
    BY <1>5, <1>6
  <2>4. (IF i < p THEN i ELSE i + 1) = (IF j < p THEN j ELSE j + 1)
    BY <1>8, <2>1, <2>2, <2>3 DEF Lists
  <2> QED BY <2>1, <2>4
<1>9. Len(u) = Cardinality(S \ {s[p]})
  BY <1>1, <1>5, FS_RemoveElement DEF Lists
<1>10. Lists(u, S \ {s[p]})
  BY <1>5, <1>7, <1>8, <1>9 DEF Lists
<1> QED BY <1>10 DEF u

-----------------------------------------------------------------------------
(* The inductive invariant. *)

PCs == {"idle", "flush", "check", "remove", "gc", "down", "undefined"}

Control == [pc : PCs, ret : {"put", "gcput", "close"}, lev : Nat, doomed : SUBSET Nat,
            last : Nat, freed : SUBSET Nat]

Types ==
    /\ ctl \in Control
    /\ IsFiniteSet(DOMAIN memTable) /\ DOMAIN memTable \subseteq Key
    /\ SScnt \in Nat /\ tail \in Nat /\ hole \in Nat
    /\ levelCnt \in [0 .. NLevels - 1 -> Int]

Sound(table, name) ==
    /\ table.level \in Nat
    /\ table.time \in Nat /\ table.time <= name
    /\ IsFiniteSet(DOMAIN table.ent) /\ DOMAIN table.ent \subseteq Key

(* No table is newer than its name, whoever was killed while writing it.   *)
Tables ==
    /\ Names \subseteq Nat
    /\ \E b \in Nat : \A f \in Names : f <= b
    /\ \A f \in Names : Sound(files[f], f)

Counted == \A i \in DOMAIN levelCnt : levelCnt[i] = Cardinality(AtLevel(i))

Index ==
    Up => /\ Lists(sstFiles, Names)
          /\ \A f \in Names : f <= SScnt
          /\ Counted
          /\ sstCache \subseteq Names
          /\ At("remove") => ctl.doomed \subseteq Names \ sstCache

IInv == Types /\ Tables /\ Index

USE StoreAssumption

LEMMA FiniteNames == ASSUME Tables PROVE IsFiniteSet(Names)
  BY FS_BoundedSetOfNaturals DEF Tables

LEMMA NoTables == ASSUME files = [f \in {} |-> Empty] PROVE Names = {} /\ Tables
  BY DEF Names, Tables

LEMMA InitInv == Init => IInv
<1> SUFFICES ASSUME Init PROVE IInv
  OBVIOUS
<1>1. Names = {} /\ Tables
  BY NoTables DEF Init, Fresh
<1>2. Types
  BY FS_EmptySet DEF Init, Fresh, Types, Control, Idle, PCs, NoTable
<1>3. Counted
  BY <1>1, FS_EmptySet DEF Init, Counted, AtLevel
<1> QED BY <1>1, <1>2, <1>3, EmptyList DEF IInv, Index, Init, At, Idle

-----------------------------------------------------------------------------
(* Steps that leave the tables, their list and their counts as they are.   *)

LEMMA TablesKept ==
    ASSUME Tables, UNCHANGED files
    PROVE  Tables'
  BY DEF Tables, Names

LEMMA IndexKept ==
    ASSUME Index, Up, UNCHANGED <<files, sstFiles, levelCnt, SScnt>>,
           sstCache' \subseteq Names, ~At("remove")'
    PROVE  Index'
<1>1. Names' = Names /\ Counted' = Counted
  BY DEF Names, Counted, AtLevel
<1> QED BY <1>1 DEF Index, Lists

LEMMA CacheAll == ASSUME Index, Up PROVE ToSet(sstFiles) = Names
  BY DEF Index, Lists

LEMMA PutIntoInv ==
    ASSUME Types, NEW k \in Key, NEW v, NEW ret \in {"put", "gcput"}, PutInto(k, v, ret),
           UNCHANGED <<SScnt, hole, levelCnt>>, tail' \in Nat
    PROVE  Types' /\ ctl'.pc \in {ctl.pc, "flush"}
<1>1. DOMAIN memTable' = DOMAIN memTable \cup {k}
  BY DEF PutInto, memPut
<1>2. IsFiniteSet(DOMAIN memTable') /\ DOMAIN memTable' \subseteq Key
  <2> DEFINE D == DOMAIN memTable
  <2>1. IsFiniteSet(D) /\ D \subseteq Key
    BY DEF Types
  <2>2. IsFiniteSet(D \cup {k}) /\ D \cup {k} \subseteq Key
    <3> HIDE DEF D
    <3> QED BY <2>1, FS_AddElement
  <2> QED BY <1>1, <2>2
<1>3. /\ ctl' \in Control
      /\ ctl'.pc \in {ctl.pc, "flush"}
  BY DEF PutInto, Types, Control, PCs
<1> QED BY <1>2, <1>3 DEF Types

LEMMA PutInv == ASSUME IInv, NEW k \in Key, NEW v \in PutValue, put(k, v) PROVE IInv'
<1>1. Types' /\ ctl'.pc \in {"idle", "flush"}
  BY PutIntoInv DEF put, Ready, At, IInv, Types, disk
<1>2. Up /\ Up' /\ ~At("remove")'
  BY <1>1 DEF put, Ready, At, Up
<1>3. Index'
  BY <1>2, IndexKept DEF put, disk, IInv, Index
<1> QED BY <1>1, <1>3, TablesKept DEF put, disk, IInv

LEMMA ReadInv == ASSUME IInv, NEW k \in Key, Read(k) PROVE IInv'
<1>1. Up /\ ~At("remove")'
  BY DEF Read, Ready, At, Up
<1>2. Types' /\ Tables'
  BY TablesKept DEF Read, disk, IInv, Types
<1>3. Index'
  BY <1>1, CacheAll, IndexKept DEF Read, disk, IInv
<1> QED BY <1>2, <1>3 DEF IInv

LEMMA DelInv == ASSUME IInv, NEW k \in Key, del(k) PROVE IInv'
<1>1. Types' /\ ctl'.pc \in {"idle", "flush"}
  <2>1. CASE k \in DOMAIN memTable
    <3>1. DOMAIN memTable' = DOMAIN memTable
      BY <2>1 DEF del, memPut
    <3> QED BY <2>1, <3>1 DEF del, Ready, At, IInv, Types, disk
  <2>2. CASE k \notin DOMAIN memTable /\ delReturns(k)
    BY <2>2, PutIntoInv DEF del, Ready, At, IInv, Types, disk
  <2>3. CASE k \notin DOMAIN memTable /\ ~delReturns(k)
    BY <2>3 DEF del, Ready, At, IInv, Types, disk
  <2> QED BY <2>1, <2>2, <2>3
<1>2. Up /\ ~At("remove")'
  BY <1>1 DEF del, Ready, At, Up
<1>3. sstCache' \subseteq Names
  BY <1>2, CacheAll DEF del, IInv, Index
<1>4. Index'
  BY <1>2, <1>3, IndexKept DEF del, disk, IInv
<1> QED BY <1>1, <1>4, TablesKept DEF del, disk, IInv

LEMMA NextLevelInv == ASSUME IInv, NextLevel PROVE IInv'
<1>1. ctl' = [ctl EXCEPT !.lev = @ + 1] /\ ctl.pc = "check"
  BY DEF NextLevel, At
<1>2. Types'
  <2>1. ctl.lev + 1 \in Nat /\ ctl \in Control
    BY DEF IInv, Types, Control
  <2>2. ctl' \in Control
    BY <1>1, <2>1, Zenon DEF Control
  <2> QED BY <2>2 DEF NextLevel, IInv, Types, disk, memory
<1>3. Up /\ ~At("remove")'
  BY <1>1 DEF IInv, Types, Control, Up, At
<1>4. Index'
  BY <1>3, IndexKept DEF NextLevel, disk, memory, IInv, Index
<1> QED BY <1>2, <1>4, TablesKept DEF NextLevel, disk, IInv

LEMMA SaveReturnsInv == ASSUME IInv, SaveReturns PROVE IInv'
<1>1. Types' /\ ctl.pc = "check" /\ ctl'.pc \in {"idle", "gc", "down"}
  <2>1. ctl.ret \in {"put", "gcput", "close"} /\ ctl.pc = "check"
    BY DEF SaveReturns, At, IInv, Types, Control
  <2>2. /\ ctl' \in Control
        /\ ctl'.pc \in {"idle", "gc", "down"}
    BY <2>1 DEF SaveReturns, IInv, Types, Control, Idle, PCs
  <2>3. DOMAIN memTable' = {}
    BY DEF SaveReturns, NoTable
  <2> QED BY <2>1, <2>2, <2>3, FS_EmptySet DEF SaveReturns, IInv, Types, disk
<1>2. Up /\ ~At("remove")'
  BY <1>1 DEF Up, At
<1>3. Index'
  BY <1>2, IndexKept DEF SaveReturns, disk, IInv, Index
<1> QED BY <1>1, <1>3, TablesKept DEF SaveReturns, disk, IInv

LEMMA GcInv == ASSUME IInv, NEW chunk \in 1 .. MaxTail, gc(chunk) PROVE IInv'
<1>1. ctl' = [ctl EXCEPT !.pc = "gc", !.last = tail + chunk] /\ ctl.pc = "idle"
  BY DEF gc, Ready, At
<1>2. Types'
  <2>1. tail + chunk \in Nat /\ ctl \in Control /\ "gc" \in PCs
    BY DEF IInv, Types, PCs
  <2>2. ctl' \in Control
    BY <1>1, <2>1, Zenon DEF Control
  <2> QED BY <2>2 DEF gc, IInv, Types, disk, memory
<1>3. Up /\ ~At("remove")'
  BY <1>1 DEF IInv, Types, Control, Up, At
<1>4. Index'
  BY <1>3, IndexKept DEF gc, disk, memory, IInv, Index
<1> QED BY <1>2, <1>4, TablesKept DEF gc, disk, IInv

LEMMA CloseInv == ASSUME IInv, close PROVE IInv'
<1>1. Up /\ ctl.pc = "idle" /\ ctl' = [ctl EXCEPT !.pc = "flush", !.ret = "close", !.freed = sstCache]
  BY DEF close, Ready, At, Up
<1>2. sstCache \subseteq Nat
  BY <1>1 DEF IInv, Index, Tables
<1>3. Types'
  <2>1. ctl' \in Control
    BY <1>1, <1>2 DEF IInv, Types, Control, PCs
  <2> QED BY <2>1 DEF close, IInv, Types, disk, memory
<1>4. ~At("remove")'
  BY <1>1 DEF IInv, Types, Control, At
<1>5. Index'
  BY <1>1, <1>4, IndexKept DEF close, disk, memory, IInv, Index
<1> QED BY <1>3, <1>5, TablesKept DEF close, disk, IInv

(* The key of a collected entry is one that some table lists.              *)
LEMMA CollectedKey ==
    ASSUME Tables, Index, Up, NEW k, NEW off \in Nat \ {0}, getOffsetFromSSTable(k) = off
    PROVE  k \in Key
<1>1. Listed(k) # {}
  BY DEF getOffsetFromSSTable, NoOffset
<1>2. PICK p \in 1 .. Len(sstFiles) : Holds(sstFiles[p], k)
  BY <1>1 DEF Listed
<1>3. sstFiles[p] \in Names
  BY Listing DEF Index
<1> QED BY <1>2, <1>3 DEF Holds, Tables, Sound

LEMMA GcEntryInv == ASSUME IInv, GcEntry PROVE IInv'
<1> DEFINE e == vlog[tail + 1]
<1>1. Up /\ ctl.pc = "gc" /\ tail' = tail + 1 /\ tail + 1 \in Nat \ {0}
  BY DEF GcEntry, GcMore, At, Up, IInv, Types
<1>2. Types' /\ ctl'.pc \in {"gc", "flush"}
  <2>1. CASE checkOffset(e.key, tail + 1)
    <3>1. e.key \in Key
      BY <1>1, <2>1, CollectedKey DEF checkOffset, IInv
    <3> QED BY <1>1, <2>1, <3>1, PutIntoInv DEF GcEntry, IInv, Types, disk
  <2>2. CASE ~checkOffset(e.key, tail + 1)
    BY <1>1, <2>2 DEF GcEntry, IInv, Types, disk
  <2> QED BY <2>1, <2>2
<1>3. ~At("remove")'
  BY <1>2 DEF At
<1>4. sstCache' \subseteq Names
  BY <1>1, CacheAll DEF GcEntry, IInv, Index
<1>5. Index'
  BY <1>1, <1>3, <1>4, IndexKept DEF GcEntry, disk, IInv
<1> QED BY <1>2, <1>5, TablesKept DEF GcEntry, disk, IInv

LEMMA GcPunchInv == ASSUME IInv, GcPunch PROVE IInv'
<1>1. Up /\ ctl.pc = "gc" /\ ctl' = [ctl EXCEPT !.pc = "flush", !.ret = "put"]
  BY DEF GcPunch, At, Up
<1>2. tail' \in Nat /\ hole' \in Nat
  BY DEF GcPunch, IInv, Types, Control
<1>3. Types' /\ ~At("remove")'
  <2>1. ctl' \in Control /\ ctl'.pc = "flush"
    BY <1>1 DEF IInv, Types, Control, PCs
  <2> QED BY <1>2, <2>1 DEF GcPunch, IInv, Types, At
<1>4. Index'
  BY <1>1, <1>3, IndexKept DEF GcPunch, IInv, Index
<1> QED BY <1>3, <1>4, TablesKept DEF GcPunch, IInv

LEMMA ResetInv == ASSUME IInv, reset PROVE IInv'
<1>1. Names' = {} /\ Tables'
  BY DEF reset, Names, Tables
<1>2. DOMAIN memTable' = {}
  BY DEF reset, NoTable
<1>3. Types'
  BY <1>2, FS_EmptySet DEF reset, IInv, Types
<1>4. Counted'
  BY <1>1, FS_EmptySet DEF reset, Counted, AtLevel
<1>5. ~At("remove")' /\ sstFiles' = <<>> /\ sstCache' = {}
  BY DEF reset, Ready, At, ClearCache
<1> QED BY <1>1, <1>3, <1>4, <1>5, EmptyList DEF IInv, Index

-----------------------------------------------------------------------------
(* What a merge makes of its candidates.                                   *)

LEMMA PositionOf ==
    ASSUME NEW S, Lists(sstFiles, S), NEW f \in S
    PROVE  Position(f) \in 1 .. Len(sstFiles) /\ sstFiles[Position(f)] = f
<1>1. \E p \in 1 .. Len(sstFiles) : sstFiles[p] = f
  BY Listing
<1> QED BY <1>1 DEF Position

(* The candidate that is first in the list. *)
LEMMA FirstOf ==
    ASSUME Lists(sstFiles, Names), NEW C \in SUBSET Names, C # {}
    PROVE  \E f \in C : \A g \in C : Position(f) <= Position(g)
<1> DEFINE P == {Position(g) : g \in C}
<1>1. P \in SUBSET Nat /\ P # {}
  BY PositionOf
<1>2. PICK x \in P : \A y \in P : x <= y
  BY <1>1, LeastNat
<1> QED BY <1>2

LEMMA WinnerHolds ==
    ASSUME Tables, Lists(sstFiles, Names),
           NEW U \in SUBSET Names, NEW L \in SUBSET Names, NEW k,
           \E f \in U \cup L : Holds(f, k)
    PROVE  /\ Winner(U, L, k) \in Names /\ Holds(Winner(U, L, k), k)
           /\ Winner(U, L, k) \in U \cup L
           /\ \A f \in U \cup L : Holds(f, k) => files[f].time <= files[Winner(U, L, k)].time
<1> DEFINE C == {f \in U \cup L : Holds(f, k)}
           Earlier(f, g) == \/ f \in U /\ g \notin U
                            \/ (f \in U <=> g \in U) /\ Position(f) <= Position(g)
           Wins(f) == \A g \in C : \/ files[f].time > files[g].time
                                   \/ files[f].time = files[g].time /\ Earlier(f, g)
           T == {files[f].time : f \in C}
<1>1. C # {} /\ C \in SUBSET Names
  OBVIOUS
<1>2. PICK b \in Nat : \A f \in Names : f <= b
  BY DEF Tables
<1>3. ASSUME NEW f \in C PROVE files[f].time \in Nat /\ files[f].time <= b
  <2>1. f \in Names
    BY <1>1
  <2> HIDE DEF C
  <2>2. f \in Nat /\ f <= b /\ Sound(files[f], f)
    BY <1>2, <2>1 DEF Tables
  <2> QED BY <2>2 DEF Sound
<1>4. MaxOf(T) \in T /\ \A t \in T : t <= MaxOf(T)
  <2>1. T \in SUBSET Nat /\ T # {} /\ \A t \in T : t <= b
    BY <1>1, <1>3
  <2> HIDE DEF T
  <2> QED BY <2>1, MaxOfBounded
<1>5. PICK m \in Nat : /\ \E f \in C : files[f].time = m
                      /\ \A g \in C : files[g].time <= m
  BY <1>3, <1>4
<1> DEFINE Latest == {f \in C : files[f].time = m}
           Own == Latest \cap U
<1> HIDE DEF C
<1>6. Latest # {} /\ Latest \in SUBSET Names /\ Own \in SUBSET Names
  BY <1>1, <1>5
<1>7. \E f \in C : Wins(f)
  <2>1. ASSUME NEW f \in Latest, \A g \in Latest : Earlier(f, g)
        PROVE  f \in C /\ Wins(f)
    BY <1>3, <1>5, <2>1
  <2>2. CASE Own # {}
    <3>1. PICK f \in Own : \A g \in Own : Position(f) <= Position(g)
      BY <1>6, <2>2, FirstOf
    <3> QED BY <2>1, <3>1
  <2>3. CASE Own = {}
    <3>1. PICK f \in Latest : \A g \in Latest : Position(f) <= Position(g)
      BY <1>6, FirstOf
    <3> QED BY <2>1, <2>3, <3>1
  <2> QED BY <2>2, <2>3
<1>8. Winner(U, L, k) = CHOOSE f \in C : Wins(f)
  BY DEF Winner, C
<1>9. Winner(U, L, k) \in C /\ Wins(Winner(U, L, k))
  <2> HIDE DEF Wins
  <2> QED BY <1>7, <1>8
<1>10. \A f \in C : files[f].time <= files[Winner(U, L, k)].time
  BY <1>3, <1>9
<1> QED BY <1>1, <1>9, <1>10 DEF C

(* Merged tables: one level down, none newer than the newest candidate.    *)
Merged(table, level, bound) ==
    /\ table.level = level
    /\ table.time \in Nat /\ table.time <= bound
    /\ IsFiniteSet(DOMAIN table.ent) /\ DOMAIN table.ent \subseteq Key

(* ... and holding, in the order of the keys and a full table at a time,   *)
(* the winner's entry of every key that is kept; the time of a table is    *)
(* the greatest of its entries' times.                                     *)
Merges(out, i, U, L, top) ==
    /\ \A c \in 1 .. Len(out) :
         /\ \A k \in DOMAIN out[c].ent :
              /\ k \in Kept(i, U, L, top)
              /\ out[c].ent[k] = files[Winner(U, L, k)].ent[k]
              /\ files[Winner(U, L, k)].time <= out[c].time
         /\ \E k \in DOMAIN out[c].ent : out[c].time = files[Winner(U, L, k)].time
    /\ \A c, d \in 1 .. Len(out) : c < d =>
         \A j \in DOMAIN out[c].ent, k \in DOMAIN out[d].ent : j < k
    /\ \A k \in Kept(i, U, L, top) : \E c \in 1 .. Len(out) : k \in DOMAIN out[c].ent

LEMMA KeptFinite ==
    ASSUME Tables, Lists(sstFiles, Names), NEW i, NEW top,
           NEW U \in SUBSET Names, NEW L \in SUBSET Names
    PROVE  /\ IsFiniteSet(Kept(i, U, L, top)) /\ Kept(i, U, L, top) \subseteq Key
           /\ \A k \in Kept(i, U, L, top) : Winner(U, L, k) \in Names
<1> DEFINE C == U \cup L
           D == {DOMAIN files[f].ent : f \in C}
<1>1. IsFiniteSet(C)
  BY FiniteNames, FS_Subset
<1>2. IsFiniteSet(D)
  <2> DEFINE dom == [f \in C |-> DOMAIN files[f].ent]
  <2>1. dom \in Surjection(C, D)
    BY DEF Surjection
  <2> HIDE DEF D, C, dom
  <2> QED BY <1>1, <2>1, FS_Surjection
<1>3. \A f \in C : IsFiniteSet(DOMAIN files[f].ent) /\ DOMAIN files[f].ent \subseteq Key
  BY DEF Tables, Sound
<1>4. IsFiniteSet(UNION D)
  BY <1>2, <1>3, FS_UNION
<1>5. Kept(i, U, L, top) \in SUBSET UNION D
  BY DEF Kept
<1>6. \A k \in UNION D : \E f \in C : Holds(f, k)
  BY DEF Holds
<1> QED
  <2>1. IsFiniteSet(Kept(i, U, L, top))
    <3> HIDE DEF D
    <3> QED BY <1>4, <1>5, FS_Subset
  <2>2. UNION D \subseteq Key
    BY <1>3
  <2> QED BY <1>5, <1>6, <2>1, <2>2, WinnerHolds

LEMMA OutputsMerged ==
    ASSUME Tables, Lists(sstFiles, Names), NEW i \in Nat, NEW top,
           NEW U \in SUBSET Names, NEW L \in SUBSET Names,
           NEW b \in Nat, \A f \in Names : f <= b,
           NEW out, out = Outputs(i, U, L, top)
    PROVE  /\ Len(out) \in Nat
           /\ \A c \in 1 .. Len(out) : Merged(out[c], i + 1, b)
           /\ Merges(out, i, U, L, top)
<1> DEFINE K == Kept(i, U, L, top)
           N == Cardinality(K)
           n == (N + MAX_NUM - 1) \div MAX_NUM
           R == {p \in K \X K : p[1] < p[2]}
           Chunk(c) == {k \in K : Rank(K, k) \div MAX_NUM = c - 1}
           T(c) == {files[Winner(U, L, k)].time : k \in Chunk(c)}
<1>1. IsFiniteSet(K) /\ K \subseteq Key /\ \A k \in K : Winner(U, L, k) \in Names
  BY KeptFinite
<1>2. N \in Nat /\ n \in Nat
  BY <1>1, FS_CardinalityType
<1>3. out = [c \in 1 .. n |->
                [level |-> i + 1, time |-> MaxOf(T(c)),
                 ent |-> [k \in Chunk(c) |-> files[Winner(U, L, k)].ent[k]]]]
  BY DEF Outputs
<1>4. Len(out) = n
  <2> HIDE DEF n
  <2> QED BY <1>2, <1>3
<1>5. /\ Orders(R, K)
      /\ \A k \in K : Rank(K, k) \in 0 .. N - 1
      /\ \A j, k \in K : Rank(K, j) < Rank(K, k) => j < k
      /\ \A k \in K : Rank(K, k) = Cardinality(Below(K, R, k))
  <2>1. K \in SUBSET Nat
    BY <1>1
  <2> HIDE DEF K
  <2> QED BY <1>1, <2>1, NaturalOrder
<1>6. \A k \in K : Rank(K, k) = Cardinality(Below(K, R, k))
  BY <1>5
<1>7. ASSUME NEW c \in 1 .. n PROVE Chunk(c) # {}
  <2>1. MAX_NUM * (c - 1) \in 0 .. N - 1 /\ (MAX_NUM * (c - 1)) \div MAX_NUM = c - 1
    BY <1>2
  <2>2. PICK k \in K : Cardinality(Below(K, R, k)) = MAX_NUM * (c - 1)
    <3>1. Orders(R, K)
      BY <1>5
    <3> HIDE DEF R, K
    <3> QED BY <1>1, <2>1, <3>1, RankReached
  <2> QED BY <1>6, <2>1, <2>2
<1>8. ASSUME NEW c \in 1 .. n
      PROVE  /\ MaxOf(T(c)) \in Nat /\ MaxOf(T(c)) <= b
             /\ MaxOf(T(c)) \in T(c) /\ \A t \in T(c) : t <= MaxOf(T(c))
  <2> HIDE DEF K, n
  <2>1. \A k \in K : files[Winner(U, L, k)].time \in Nat /\ files[Winner(U, L, k)].time <= b
    <3>1. \A f \in Names : f \in Nat /\ f <= b
      BY DEF Tables
    <3>2. \A f \in Names : files[f].time \in Nat /\ files[f].time <= f
      BY DEF Tables, Sound
    <3>3. \A f \in Names : files[f].time \in Nat /\ files[f].time <= b
      <4> TAKE f \in Names
      <4>1. f \in Nat /\ f <= b /\ files[f].time \in Nat /\ files[f].time <= f /\ b \in Nat
        BY <3>1, <3>2
      <4> QED BY ONLY <4>1
    <3> QED BY ONLY <1>1, <3>3
  <2>2. T(c) \in SUBSET Nat /\ T(c) # {} /\ \A t \in T(c) : t <= b
    BY <1>7, <2>1
  <2> HIDE DEF T
  <2> QED BY <2>2, MaxOfBounded
<1>9. ASSUME NEW c \in 1 .. n PROVE Merged(out[c], i + 1, b)
  <2>1. IsFiniteSet(Chunk(c)) /\ Chunk(c) \subseteq Key
    <3>1. Chunk(c) \in SUBSET K
      OBVIOUS
    <3> HIDE DEF Chunk, K
    <3> QED BY <1>1, <3>1, FS_Subset
  <2> HIDE DEF Chunk, K, n, T
  <2>2. /\ out[c].level = i + 1 /\ out[c].time = MaxOf(T(c))
        /\ DOMAIN out[c].ent = Chunk(c)
    BY <1>3
  <2> QED BY <1>8, <2>1, <2>2 DEF Merged
<1>10. ASSUME NEW c \in 1 .. n
       PROVE  /\ \A k \in DOMAIN out[c].ent :
                   /\ k \in K
                   /\ out[c].ent[k] = files[Winner(U, L, k)].ent[k]
                   /\ files[Winner(U, L, k)].time <= out[c].time
              /\ \E k \in DOMAIN out[c].ent : out[c].time = files[Winner(U, L, k)].time
  <2> HIDE DEF K, n
  <2>1. /\ out[c].time = MaxOf(T(c)) /\ DOMAIN out[c].ent = Chunk(c)
        /\ \A k \in Chunk(c) : out[c].ent[k] = files[Winner(U, L, k)].ent[k]
    <3> HIDE DEF T, Chunk
    <3> QED BY <1>3
  <2>2. Chunk(c) \subseteq K
    OBVIOUS
  <2>3. \A k \in Chunk(c) : files[Winner(U, L, k)].time \in T(c)
    OBVIOUS
  <2>4. \E k \in Chunk(c) : MaxOf(T(c)) = files[Winner(U, L, k)].time
    BY <1>8
  <2> HIDE DEF T, Chunk
  <2> QED BY <1>8, <2>1, <2>2, <2>3, <2>4
<1>11. ASSUME NEW c \in 1 .. n PROVE DOMAIN out[c].ent = Chunk(c)
  <2> HIDE DEF K, n, T, Chunk
  <2> QED BY <1>3
<1>12. ASSUME NEW c \in 1 .. n, NEW d \in 1 .. n, c < d, NEW j \in Chunk(c), NEW k \in Chunk(d)
       PROVE  j < k
  <2> HIDE DEF K, n
  <2>1. j \in K /\ k \in K /\ Rank(K, j) \div MAX_NUM < Rank(K, k) \div MAX_NUM
    BY <1>2, <1>12
  <2>2. \A q, r \in Nat : q \div MAX_NUM < r \div MAX_NUM => q < r
    <3> TAKE q, r \in Nat
    <3>1. q <= q /\ MAX_NUM \in Nat /\ MAX_NUM > 0
      OBVIOUS
    <3> QED BY ONLY <3>1
  <2>3. Rank(K, j) \in Nat /\ Rank(K, k) \in Nat
    BY <1>2, <1>5, <2>1
  <2> QED BY <1>5, <2>1, <2>2, <2>3
<1>13. ASSUME NEW k \in K PROVE \E c \in 1 .. n : k \in Chunk(c)
  <2> DEFINE r == Rank(K, k)
             q == r \div MAX_NUM
  <2>1. r \in 0 .. N - 1
    BY <1>5
  <2> HIDE DEF r, K, N
  <2>2. q \in Nat /\ MAX_NUM * q <= r /\ r < MAX_NUM * q + MAX_NUM
    <3>1. r \in Nat /\ MAX_NUM \in Nat \ {0}
      BY <1>2, <2>1
    <3> QED BY ONLY <3>1
  <2>3. q + 1 \in 1 .. n
    <3>1. MAX_NUM * q <= N - 1
      BY <1>2, <2>1, <2>2
    <3>2. MAX_NUM * (q + 1) <= N + MAX_NUM - 1
      <4>1. MAX_NUM \in Nat /\ q \in Nat /\ N \in Nat
        BY <1>2, <2>2
      <4> HIDE DEF q
      <4> QED BY ONLY <3>1, <4>1
    <3>3. q + 1 <= n
      <4>1. MAX_NUM \in Nat \ {0} /\ q \in Nat /\ N \in Nat
        BY <1>2, <2>2
      <4> HIDE DEF q
      <4> QED BY ONLY <3>2, <4>1
    <3> QED BY <1>2, <2>2, <3>3
  <2>4. k \in Chunk(q + 1)
    <3>1. (q + 1) - 1 = q
      BY <2>2
    <3> QED BY <3>1 DEF r
  <2> HIDE DEF Chunk, q
  <2> QED BY <2>3, <2>4
<1> HIDE DEF K, n, Chunk
<1>14. Merges(out, i, U, L, top)
  BY <1>4, <1>10, <1>11, <1>12, <1>13 DEF Merges, K
<1> QED BY <1>2, <1>4, <1>9, <1>14

-----------------------------------------------------------------------------
(* Tables are added: by a flush, by a compaction, by one that is killed.   *)

LEMMA WrittenSound ==
    ASSUME Types, Tables, \A f \in Names : f <= SScnt,
           NEW n \in Nat, NEW out, NEW level \in Nat,
           \A c \in 1 .. n : Merged(out[c], level, SScnt + c),
           files' = Written(out, n)
    PROVE  /\ Tables'
           /\ Names' = Names \cup (SScnt + 1 .. SScnt + n)
           /\ \A f \in Names : files'[f] = files[f]
           /\ \A f \in Names' \ Names : /\ f \in SScnt + 1 .. SScnt + n
                                       /\ files'[f].level = level
                                       /\ files'[f] = out[f - SScnt]
<1> DEFINE New == SScnt + 1 .. SScnt + n
<1>1. SScnt \in Nat /\ Names \subseteq Nat
  BY DEF Types, Tables
<1>2. Names' = Names \cup New
  BY DEF Written, Names
<1>3. \A f \in Names : f \notin New /\ f \in Nat /\ ~(f > SScnt)
  BY <1>1
<1>4. \A f \in Names : files'[f] = files[f]
  BY <1>3 DEF Written
<1>5. ASSUME NEW f \in New
      PROVE  f \in Nat /\ f - SScnt \in 1 .. n /\ files'[f] = out[f - SScnt]
  <2>1. f \in Nat /\ f > SScnt /\ f - SScnt \in 1 .. n
    BY <1>1
  <2> QED BY <2>1 DEF Written
<1>6. ASSUME NEW f \in New PROVE files'[f].level = level /\ Sound(files'[f], f)
  <2>1. Merged(files'[f], level, SScnt + (f - SScnt)) /\ SScnt + (f - SScnt) = f
    BY <1>1, <1>5
  <2> QED BY <2>1 DEF Merged, Sound
<1>7. \A f \in Names' : f \in Nat /\ f <= SScnt + n
  BY <1>1, <1>2
<1>8. \A f \in Names' : Sound(files'[f], f)
  <2> HIDE DEF New
  <2>1. \A f \in Names : Sound(files[f], f)
    BY DEF Tables
  <2> QED BY <1>2, <1>4, <1>6, <2>1
<1>9. Tables'
  <2>1. SScnt + n \in Nat
    BY <1>1
  <2> QED BY <1>7, <1>8, <2>1 DEF Tables
<1> QED BY <1>2, <1>3, <1>4, <1>5, <1>6, <1>9

(* The index follows: the new names are listed and counted.                *)
LEMMA WrittenIndexed ==
    ASSUME Types, Tables, Index, Up,
           NEW n \in Nat, NEW out, NEW level \in Nat,
           \A c \in 1 .. n : Merged(out[c], level, SScnt + c),
           files' = Written(out, n), SScnt' = SScnt + n,
           sstFiles' = sstFiles \o [c \in 1 .. n |-> SScnt + c],
           levelCnt' = [levelCnt EXCEPT ![level] = @ + n]
    PROVE  /\ Tables'
           /\ Lists(sstFiles', Names')
           /\ \A f \in Names' : f <= SScnt'
           /\ Counted'
           /\ levelCnt' \in [0 .. NLevels - 1 -> Int]
           /\ Names \subseteq Names'
<1> DEFINE New == SScnt + 1 .. SScnt + n
<1>1. SScnt \in Nat /\ Names \subseteq Nat /\ \A f \in Names : f <= SScnt
  BY DEF Types, Tables, Index
<1>2. /\ Tables' /\ Names' = Names \cup New
      /\ \A f \in Names : files'[f] = files[f]
      /\ \A f \in Names' \ Names : files'[f].level = level
  <2>1. /\ Tables' /\ Names' = Names \cup (SScnt + 1 .. SScnt + n)
        /\ \A f \in Names : files'[f] = files[f]
        /\ \A f \in Names' \ Names : /\ f \in SScnt + 1 .. SScnt + n
                                    /\ files'[f].level = level
                                    /\ files'[f] = out[f - SScnt]
    BY <1>1, WrittenSound, Zenon
  <2> QED BY <2>1
<1>3. Names \cap New = {}
  BY <1>1
<1>4. IsFiniteSet(Names) /\ IsFiniteSet(New) /\ Cardinality(New) = n
  BY <1>1, FiniteNames, NewNames
<1>5. Lists(sstFiles', Names')
  <2>1. Lists([c \in 1 .. n |-> SScnt + c], New)
    BY <1>1, NewNames
  <2>2. Lists(sstFiles, Names)
    BY DEF Index
  <2> HIDE DEF New
  <2> QED BY <1>2, <1>3, <1>4, <2>1, <2>2, JoinedList
<1>6. \A f \in Names' : f <= SScnt'
  BY <1>1, <1>2
<1>7. levelCnt' \in [0 .. NLevels - 1 -> Int] /\ DOMAIN levelCnt' = DOMAIN levelCnt
  <2>1. levelCnt \in [0 .. NLevels - 1 -> Int] /\ DOMAIN levelCnt' = DOMAIN levelCnt
    BY DEF Types
  <2>2. levelCnt' = [j \in 0 .. NLevels - 1 |->
                        IF j = level THEN levelCnt[j] + n ELSE levelCnt[j]]
    BY <2>1
  <2>3. \A j \in 0 .. NLevels - 1 : levelCnt[j] \in Int /\ levelCnt[j] + n \in Int
    BY <2>1
  <2> HIDE DEF New
  <2> QED BY <2>1, <2>2, <2>3, Zenon
<1>8. ASSUME NEW j \in DOMAIN levelCnt PROVE levelCnt'[j] = Cardinality(AtLevel(j)')
  <2>1. levelCnt[j] = Cardinality(AtLevel(j)) /\ levelCnt[j] \in Int
    BY DEF Index, Counted, Types
  <2>2. CASE j # level
    <3>1. AtLevel(j)' = AtLevel(j)
      <4> HIDE DEF New
      <4> QED BY <1>2, <2>2 DEF AtLevel
    <3> QED BY <2>1, <2>2, <3>1
  <2>3. CASE j = level
    <3>1. AtLevel(j)' = AtLevel(j) \cup New
      <4> HIDE DEF New
      <4> QED BY <1>2, <1>3, <2>3 DEF AtLevel
    <3>2. IsFiniteSet(AtLevel(j)) /\ AtLevel(j) \cap New = {}
      <4>1. AtLevel(j) \in SUBSET Names
        BY DEF AtLevel
      <4> HIDE DEF New
      <4> QED BY <1>3, <1>4, <4>1, FS_Subset
    <3>3. Cardinality(AtLevel(j)') = Cardinality(AtLevel(j)) + n
      <4>1. Cardinality(AtLevel(j) \cup New)
              = Cardinality(AtLevel(j)) + Cardinality(New) - Cardinality({})
        <5> HIDE DEF New
        <5> QED BY <1>4, <3>2, FS_Union
      <4>2. Cardinality({}) = 0 /\ Cardinality(AtLevel(j)) \in Nat
        BY <3>2, FS_EmptySet, FS_CardinalityType
      <4> HIDE DEF New
      <4> QED BY <1>4, <3>1, <4>1, <4>2
    <3> QED BY <2>1, <2>3, <3>3 DEF Types
  <2> QED BY <2>2, <2>3
<1>9. Counted'
  BY <1>7, <1>8 DEF Counted
<1> QED BY <1>2, <1>5, <1>6, <1>7, <1>9

LEMMA FlushedSound ==
    ASSUME Types
    PROVE  Merged(FlushedTable, 0, SScnt + 1) /\ FlushedTable.time = SScnt + 1
BY DEF FlushedTable, Merged, Types

(* A flush writes one table, named by the next number.                     *)
LEMMA FlushWrites ==
    ASSUME IInv, SSTableGenerator, DOMAIN memTable # {}
    PROVE  /\ files' = Written(<<FlushedTable>>, 1)
           /\ \A c \in 1 .. 1 : Merged(<<FlushedTable>>[c], 0, SScnt + c)
<1>1. SScnt \in Nat /\ Up
  BY DEF IInv, Types, SSTableGenerator, At, Up
<1>2. \A f \in Names : f \in Nat /\ f <= SScnt
  BY <1>1 DEF IInv, Tables, Index
<1>3. Merged(FlushedTable, 0, SScnt + 1)
  BY FlushedSound DEF IInv
<1>4. SScnt + 1 .. SScnt + 1 = {SScnt + 1} /\ (SScnt + 1) - SScnt = 1
  BY <1>1
<1>5. files' = [f \in Names \cup {SScnt + 1} |->
                   IF f = SScnt + 1 THEN FlushedTable ELSE files[f]]
  BY DEF SSTableGenerator
<1>6. \A f \in Names \cup {SScnt + 1} : f > SScnt <=> f = SScnt + 1
  BY <1>1, <1>2
<1>7. Written(<<FlushedTable>>, 1)
        = [f \in Names \cup {SScnt + 1} |->
              IF f = SScnt + 1 THEN <<FlushedTable>>[1] ELSE files[f]]
  BY <1>4, <1>6 DEF Written
<1>8. <<FlushedTable>>[1] = FlushedTable
  OBVIOUS
<1> QED BY <1>3, <1>5, <1>7, <1>8

LEMMA FlushInv == ASSUME IInv, SSTableGenerator PROVE IInv'
<1>1. Up /\ ctl.pc = "flush" /\ ctl' = [ctl EXCEPT !.pc = "check", !.lev = 0]
  BY DEF SSTableGenerator, At, Up
<1>2. ctl' \in Control /\ ctl'.pc = "check" /\ ~At("remove")'
  BY <1>1 DEF IInv, Types, Control, PCs, At
<1>3. CASE DOMAIN memTable = {}
  <2>1. Types'
    BY <1>2, <1>3 DEF SSTableGenerator, IInv, Types, disk
  <2>2. Index'
    BY <1>1, <1>2, <1>3, IndexKept DEF SSTableGenerator, disk, IInv, Index
  <2> QED BY <1>3, <2>1, <2>2, TablesKept DEF SSTableGenerator, disk, IInv
<1>4. CASE DOMAIN memTable # {}
  <2>1. /\ files' = Written(<<FlushedTable>>, 1)
        /\ \A c \in 1 .. 1 : Merged(<<FlushedTable>>[c], 0, SScnt + c)
    BY <1>4, FlushWrites
  <2>2. SScnt \in Nat /\ SScnt' = SScnt + 1
    BY <1>4 DEF SSTableGenerator, IInv, Types
  <2>3. sstFiles' = sstFiles \o [c \in 1 .. 1 |-> SScnt + c]
    <3>1. sstFiles \in Seq(Nat)
      BY <1>1, Listing DEF IInv, Index
    <3>2. sstFiles' = Append(sstFiles, SScnt + 1) /\ SScnt + 1 \in Nat
      BY <1>4, <2>2 DEF SSTableGenerator
    <3>3. sstFiles' = sstFiles \o <<SScnt + 1>>
      BY <3>1, <3>2, AppendIsConcat, Zenon
    <3>4. <<SScnt + 1>> = [c \in 1 .. 1 |-> SScnt + c]
      BY <2>2
    <3> QED BY <3>3, <3>4
  <2>4. levelCnt' = [levelCnt EXCEPT ![0] = @ + 1]
    BY <1>4 DEF SSTableGenerator
  <2>5. /\ Tables' /\ Lists(sstFiles', Names')
        /\ \A f \in Names' : f <= SScnt'
        /\ Counted' /\ levelCnt' \in [0 .. NLevels - 1 -> Int]
        /\ Names \subseteq Names'
    BY <1>1, <2>1, <2>2, <2>3, <2>4, WrittenIndexed DEF IInv
  <2>6. Types'
    <3>1. UNCHANGED <<memTable, tail, hole>> /\ SScnt' \in Nat
      BY <1>4, <2>2 DEF SSTableGenerator
    <3> QED BY <1>2, <2>5, <3>1 DEF IInv, Types
  <2>7. sstCache' \subseteq Names'
    BY <1>1, <2>5 DEF SSTableGenerator, IInv, Index
  <2> QED BY <1>2, <2>5, <2>6, <2>7 DEF IInv, Index
<1> QED BY <1>3, <1>4

(* The candidates are tables there are, and their merge is sound.          *)
LEMMA Candidates ==
    ASSUME IInv, Overflowing, NEW U \in Upper(ctl.lev),
           NEW L, L = Lower(ctl.lev, U),
           NEW out, out = Outputs(ctl.lev, U, L, NewTop)
    PROVE  /\ Up /\ U \subseteq Names /\ L \subseteq Names
           /\ Len(out) \in Nat /\ ctl.lev + 1 \in Nat \ {0}
           /\ \A c \in 1 .. Len(out) : Merged(out[c], ctl.lev + 1, SScnt)
<1>1. Up /\ ctl.lev \in Nat /\ SScnt \in Nat
  BY DEF Overflowing, At, Up, IInv, Types, Control
<1>2. U \in SUBSET Names /\ L \in SUBSET Names
  BY DEF Upper, Lower, AtLevel
<1>3. Lists(sstFiles, Names) /\ \A f \in Names : f <= SScnt
  BY <1>1 DEF IInv, Index
<1>4. /\ Len(out) \in Nat
      /\ \A c \in 1 .. Len(out) : Merged(out[c], ctl.lev + 1, SScnt)
  BY <1>1, <1>2, <1>3, OutputsMerged, Zenon DEF IInv
<1> QED BY <1>1, <1>2, <1>4

LEMMA MergedLater ==
    ASSUME NEW n, NEW out, NEW level, SScnt \in Nat,
           \A c \in 1 .. n : Merged(out[c], level, SScnt)
    PROVE  \A c \in 1 .. n : Merged(out[c], level, SScnt + c)
BY DEF Merged

LEMMA CompactInv ==
    ASSUME IInv, Overflowing, NEW U \in Upper(ctl.lev), Compact(U)
    PROVE  IInv'
<1> DEFINE i == ctl.lev
           L == Lower(i, U)
           out == Outputs(i, U, L, NewTop)
<1>1. /\ Up /\ U \subseteq Names /\ L \subseteq Names
      /\ Len(out) \in Nat /\ i + 1 \in Nat
      /\ \A c \in 1 .. Len(out) : Merged(out[c], i + 1, SScnt)
  BY Candidates
<1>2. SScnt \in Nat /\ ctl \in Control /\ Names \subseteq Nat
  BY DEF IInv, Types, Tables
<1>3. /\ files' = Written(out, Len(out)) /\ SScnt' = SScnt + Len(out)
      /\ sstFiles' = sstFiles \o [c \in 1 .. Len(out) |-> SScnt + c]
      /\ levelCnt' = [levelCnt EXCEPT ![i + 1] = @ + Len(out)]
      /\ sstCache' = (sstCache \cup Examined(i)) \ (U \cup L)
      /\ ctl' = [ctl EXCEPT !.pc = "remove", !.doomed = U \cup L]
      /\ UNCHANGED <<hole, memTable, tail>>
  BY DEF Compact
<1> HIDE DEF out, L, i
<1>4. /\ Tables' /\ Lists(sstFiles', Names')
      /\ \A f \in Names' : f <= SScnt'
      /\ Counted' /\ levelCnt' \in [0 .. NLevels - 1 -> Int]
      /\ Names \subseteq Names'
  <2>1. \A c \in 1 .. Len(out) : Merged(out[c], i + 1, SScnt + c)
    BY <1>1, <1>2, MergedLater
  <2> QED BY <1>1, <1>3, <2>1, WrittenIndexed DEF IInv
<1>5. ctl' \in Control /\ ctl'.doomed = U \cup L
  <2>1. U \cup L \in SUBSET Nat /\ "remove" \in PCs
    BY <1>1, <1>2 DEF PCs
  <2> QED BY <1>2, <1>3, <2>1, Zenon DEF Control
<1>6. sstCache' \subseteq Names' /\ ctl'.doomed \subseteq Names' \ sstCache'
  <2>1. sstCache \subseteq Names /\ Examined(i) \subseteq Names
    BY <1>1 DEF IInv, Index, Examined, AtLevel
  <2> QED BY <1>1, <1>3, <1>4, <1>5, <2>1
<1>7. Types'
  <2>1. SScnt' \in Nat
    BY <1>1, <1>2, <1>3
  <2> QED BY <1>3, <1>4, <1>5, <2>1 DEF IInv, Types
<1> QED BY <1>4, <1>6, <1>7 DEF IInv, Index

LEMMA RemoveFileInv == ASSUME IInv, NEW f \in ctl.doomed, RemoveFile(f) PROVE IInv'
<1>1. Up /\ At("remove")
  BY DEF RemoveFile, At, Up
<1>2. f \in Names /\ ctl.doomed \subseteq Names \ sstCache /\ sstCache \subseteq Names
  BY <1>1 DEF IInv, Index
<1>3. Names' = Names \ {f} /\ \A g \in Names' : files'[g] = files[g]
  BY DEF RemoveFile, Names
<1>4. Lists(sstFiles', Names')
  <2>1. Lists(sstFiles, Names) /\ IsFiniteSet(Names)
    BY <1>1, FiniteNames DEF IInv, Index
  <2>2. Position(f) \in 1 .. Len(sstFiles) /\ sstFiles[Position(f)] = f
    BY <1>2, <2>1, PositionOf
  <2>3. Lists(RemoveAt(sstFiles, Position(f)), Names \ {f})
    BY <2>1, <2>2, RemovedList
  <2> QED BY <1>3, <2>3 DEF RemoveFile
<1>5. Tables'
  BY <1>3 DEF IInv, Tables
<1> DEFINE level == files[f].level
<1>6. levelCnt' = [levelCnt EXCEPT ![level] = @ - 1]
  BY DEF RemoveFile, Uncounted
<1> HIDE DEF level
<1>7. levelCnt' = [j \in 0 .. NLevels - 1 |->
                     IF j = level THEN levelCnt[j] - 1 ELSE levelCnt[j]]
  BY <1>6 DEF IInv, Types
<1>8. \A j \in 0 .. NLevels - 1 : levelCnt[j] \in Int /\ levelCnt[j] - 1 \in Int
  BY DEF IInv, Types
<1>9. levelCnt' \in [0 .. NLevels - 1 -> Int] /\ DOMAIN levelCnt' = 0 .. NLevels - 1
  BY <1>7, <1>8, Zenon
<1>10. ASSUME NEW j \in 0 .. NLevels - 1 PROVE levelCnt'[j] = Cardinality(AtLevel(j)')
  <2>1. levelCnt[j] = Cardinality(AtLevel(j))
    BY <1>1 DEF IInv, Types, Index, Counted
  <2>2. CASE j # level
    <3>1. AtLevel(j)' = AtLevel(j)
      BY <1>2, <1>3, <2>2 DEF AtLevel, level
    <3> QED BY <1>7, <2>1, <2>2, <3>1
  <2>3. CASE j = level
    <3>1. AtLevel(j)' = AtLevel(j) \ {f} /\ f \in AtLevel(j)
      BY <1>2, <1>3, <2>3 DEF AtLevel, level
    <3>2. IsFiniteSet(AtLevel(j))
      BY FiniteNames, FS_Subset DEF AtLevel, IInv
    <3>3. Cardinality(AtLevel(j) \ {f}) = Cardinality(AtLevel(j)) - 1
      BY <3>1, <3>2, FS_RemoveElement
    <3> QED BY <1>7, <2>1, <2>3, <3>1, <3>3
  <2> QED BY <2>2, <2>3
<1>11. Counted'
  BY <1>9, <1>10 DEF Counted
<1>12. ctl' \in Control /\ (At("remove")' => ctl'.doomed \subseteq ctl.doomed \ {f})
  <2>1. ctl \in Control /\ ctl.lev + 1 \in Nat /\ "check" \in PCs
        /\ ctl.doomed \ {f} \in SUBSET Nat
    BY DEF IInv, Types, Control, PCs
  <2>2. CASE ctl.doomed = {f}
    <3>1. ctl' = [ctl EXCEPT !.pc = "check", !.doomed = {}, !.lev = ctl.lev + 1]
      BY <2>2 DEF RemoveFile
    <3>2. ctl' \in Control /\ ctl'.pc = "check"
      BY <2>1, <3>1, Zenon DEF Control
    <3> QED BY <3>2 DEF At
  <2>3. CASE ctl.doomed # {f}
    <3>1. ctl' = [ctl EXCEPT !.doomed = ctl.doomed \ {f}]
      BY <2>3 DEF RemoveFile
    <3>2. ctl' \in Control /\ ctl'.doomed = ctl.doomed \ {f}
      BY <2>1, <3>1, Zenon DEF Control
    <3> QED BY <3>2
  <2> QED BY <2>2, <2>3
<1>13. UNCHANGED <<hole, memTable, sstCache, SScnt, tail>>
  BY DEF RemoveFile
<1>14. Types'
  BY <1>9, <1>12, <1>13 DEF IInv, Types
<1>15. Index'
  <2>1. \A g \in Names' : g <= SScnt'
    BY <1>1, <1>3, <1>13 DEF IInv, Index
  <2>2. sstCache' \subseteq Names' /\ (At("remove")' => ctl'.doomed \subseteq Names' \ sstCache')
    BY <1>2, <1>3, <1>12, <1>13
  <2> QED BY <1>4, <1>11, <2>1, <2>2 DEF Index
<1> QED BY <1>5, <1>14, <1>15 DEF IInv

-----------------------------------------------------------------------------
(* Undefined behaviour, a kill, a restart.                                 *)

LEMMA CompactFreedInv == ASSUME IInv, CompactFreed PROVE IInv'
<1>1. ctl' = [ctl EXCEPT !.pc = "undefined"]
  BY DEF CompactFreed
<1>2. ctl' \in Control /\ ctl'.pc = "undefined"
  BY <1>1 DEF IInv, Types, Control, PCs
<1>3. Types'
  BY <1>2 DEF CompactFreed, IInv, Types, disk, memory
<1> QED BY <1>2, <1>3, TablesKept DEF CompactFreed, disk, IInv, Index, Up

(* A kill writes part of what a compaction would have written.             *)
LEMMA CrashWrites ==
    ASSUME IInv, Crash
    PROVE  \/ UNCHANGED files
           \/ /\ Up
              /\ \E out : \E level \in Nat \ {0}, n \in Nat :
                    /\ files' = Written(out, n)
                    /\ \A c \in 1 .. n : Merged(out[c], level, SScnt + c)
<1>1. CASE ~UNCHANGED files
  <2>1. Overflowing
    BY <1>1 DEF Crash, disk
  <2>2. PICK U \in Upper(ctl.lev) :
            LET out == Outputs(ctl.lev, U, Lower(ctl.lev, U), NewTop) IN
            \E n \in 0 .. Len(out) : files' = Written(out, n)
    BY <1>1 DEF Crash, disk
  <2> DEFINE out == Outputs(ctl.lev, U, Lower(ctl.lev, U), NewTop)
  <2>3. PICK n \in 0 .. Len(out) : files' = Written(out, n)
    BY <2>2
  <2>4. /\ Up /\ Len(out) \in Nat /\ ctl.lev + 1 \in Nat \ {0}
        /\ \A c \in 1 .. Len(out) : Merged(out[c], ctl.lev + 1, SScnt)
    BY <2>1, Candidates
  <2> HIDE DEF out
  <2>5. n \in Nat /\ \A c \in 1 .. n : Merged(out[c], ctl.lev + 1, SScnt)
    BY <2>4
  <2>6. \A c \in 1 .. n : Merged(out[c], ctl.lev + 1, SScnt + c)
    BY <2>5, MergedLater DEF IInv, Types
  <2>7. \E o : \E level \in Nat \ {0}, m \in Nat :
            files' = Written(o, m) /\ \A c \in 1 .. m : Merged(o[c], level, SScnt + c)
    BY <2>3, <2>4, <2>5, <2>6, Zenon
  <2> QED BY <2>4, <2>7
<1> QED BY <1>1

LEMMA CrashInv == ASSUME IInv, Crash PROVE IInv'
<1>1. ctl' \in Control /\ ctl'.pc = "down"
  BY DEF Crash, Down, Idle, Control, PCs
<1>2. Tables'
  <2>1. CASE UNCHANGED files
    BY <2>1, TablesKept DEF IInv
  <2>2. CASE ~UNCHANGED files
    <3>1. PICK out : \E level \in Nat \ {0}, n \in Nat :
              /\ files' = Written(out, n)
              /\ \A c \in 1 .. n : Merged(out[c], level, SScnt + c)
      BY <2>2, CrashWrites
    <3>2. PICK level \in Nat \ {0}, n \in Nat :
              /\ files' = Written(out, n)
              /\ \A c \in 1 .. n : Merged(out[c], level, SScnt + c)
      BY <3>1
    <3>3. \A f \in Names : f <= SScnt
      BY <2>2, CrashWrites DEF IInv, Index
    <3>4. level \in Nat
      OBVIOUS
    <3> QED BY <3>2, <3>3, <3>4, WrittenSound, Zenon DEF IInv
  <2> QED BY <2>1, <2>2
<1>3. UNCHANGED <<hole, memory>>
  BY DEF Crash, disk
<1>4. Types'
  BY <1>1, <1>3 DEF IInv, Types, memory
<1> QED BY <1>1, <1>2, <1>4 DEF IInv, Index, Up

(* The directory lists every table once, whatever the order of levels.     *)
LEMMA ListingDirectory ==
    ASSUME Tables, NEW place \in Injection(Levels, 1 .. Cardinality(Levels))
    PROVE  Lists(Directory(place), Names)
<1> DEFINE R == {p \in Names \X Names : Precedes(place, p[1], p[2])}
           Earlier(f) == Cardinality({g \in Names : Precedes(place, g, f)})
           N == Cardinality(Names)
           d == Directory(place)
<1>1. IsFiniteSet(Names) /\ N \in Nat /\ Names \subseteq Nat
  BY FiniteNames, FS_CardinalityType DEF Tables
<1>2. \A f \in Names : Earlier(f) = Cardinality(Below(Names, R, f))
  <2>1. \A f \in Names : {g \in Names : Precedes(place, g, f)} = Below(Names, R, f)
    BY DEF Below
  <2> QED BY <2>1
<1>3. Orders(R, Names)
  <2>1. \A f \in Names : files[f].level \in Levels
    BY DEF Levels
  <2>2. /\ \A f \in Names : place[files[f].level] \in Nat
        /\ \A f, g \in Names : place[files[f].level] = place[files[g].level]
                                 => files[f].level = files[g].level
    BY <2>1 DEF Injection, IsInjective
  <2>3. \A f, g \in Names : <<f, g>> \in R <=> Precedes(place, f, g)
    OBVIOUS
  <2> HIDE DEF R
  <2>4. \A f \in Names : <<f, f>> \notin R
    BY <1>1, <2>2, <2>3 DEF Precedes
  <2>5. \A f, g, h \in Names : <<f, g>> \in R /\ <<g, h>> \in R => <<f, h>> \in R
    BY <1>1, <2>2, <2>3 DEF Precedes
  <2>6. \A f, g \in Names : f # g => <<f, g>> \in R \/ <<g, f>> \in R
    BY <1>1, <2>2, <2>3 DEF Precedes
  <2> QED BY ONLY <2>4, <2>5, <2>6 DEF Orders
<1>4. \A f \in Names : Earlier(f) \in 0 .. N - 1
  <2> HIDE DEF R
  <2> QED BY <1>1, <1>2, <1>3, RankType
<1>5. \A f, g \in Names : Earlier(f) = Earlier(g) => f = g
  <2> HIDE DEF R
  <2> QED BY <1>1, <1>2, <1>3, RanksDiffer
<1>6. \A r \in 0 .. N - 1 : \E f \in Names : Earlier(f) = r
  <2> HIDE DEF R, Earlier
  <2>1. \A r \in 0 .. N - 1 : \E f \in Names : Cardinality(Below(Names, R, f)) = r
    BY <1>1, <1>3, RankReached
  <2> QED BY <1>2, <2>1
<1>7. d = [n \in 1 .. N |-> CHOOSE f \in Names : Earlier(f) = n - 1]
  BY DEF Directory
<1> HIDE DEF d, Earlier, N
<1>8. ASSUME NEW n \in 1 .. N PROVE d[n] \in Names /\ Earlier(d[n]) = n - 1
  <2>1. n - 1 \in 0 .. N - 1
    BY <1>1
  <2>2. \E f \in Names : Earlier(f) = n - 1
    BY <1>6, <2>1
  <2> QED BY <1>7, <2>2
<1>9. d \in Seq(Nat) /\ Len(d) = N /\ DOMAIN d = 1 .. N
  <2>1. \A n \in 1 .. N : d[n] \in Nat
    BY <1>1, <1>8
  <2> HIDE DEF Earlier
  <2>2. d \in [1 .. N -> Nat]
    BY <1>7, <2>1, Zenon
  <2>3. d \in Seq(Nat)
    BY <1>1, <2>2
  <2> QED BY <1>1, <2>2, <2>3, LenProperties
<1>10. ASSUME NEW f \in Names PROVE f \in ToSet(d)
  <2>1. Earlier(f) + 1 \in 1 .. N /\ (Earlier(f) + 1) - 1 = Earlier(f)
    BY <1>1, <1>4
  <2>2. d[Earlier(f) + 1] = f
    BY <1>5, <1>8, <2>1
  <2> QED BY <1>9, <2>1, <2>2 DEF ToSet
<1>11. ToSet(d) = Names
  BY <1>8, <1>9, <1>10 DEF ToSet
<1>12. ASSUME NEW p \in 1 .. N, NEW q \in 1 .. N, d[p] = d[q] PROVE p = q
  <2>1. p - 1 = q - 1
    BY <1>8, <1>12
  <2> QED BY <1>1, <2>1
<1>13. Lists(d, Names)
  BY <1>9, <1>11, <1>12 DEF Lists, N
<1> QED BY <1>13 DEF d

LEMMA ReopenInv == ASSUME IInv, Reopen PROVE IInv'
<1>1. UNCHANGED files /\ Names' = Names /\ Tables'
  BY TablesKept DEF Reopen, disk, Names, IInv
<1>2. LastName \in Nat /\ \A f \in Names : f <= LastName
  <2> DEFINE T == {0} \cup Names
  <2>1. PICK b \in Nat : \A f \in Names : f <= b
    BY DEF IInv, Tables
  <2>2. T \in SUBSET Nat /\ T # {} /\ \A t \in T : t <= b
    BY <2>1 DEF IInv, Tables
  <2> HIDE DEF T
  <2>3. MaxOf(T) \in T /\ \A u \in T : u <= MaxOf(T)
    BY <2>2, MaxOfBounded
  <2> QED BY <2>2, <2>3 DEF T, LastName
<1>3. Lists(sstFiles', Names)
  BY ListingDirectory DEF Reopen, IInv
<1>4. \A i : AtLevel(i)' = AtLevel(i) /\ Cardinality(AtLevel(i)) \in Int
  <2>1. \A i : IsFiniteSet(AtLevel(i))
    BY FiniteNames, FS_Subset DEF AtLevel, IInv
  <2>2. \A i : Cardinality(AtLevel(i)) \in Nat
    BY <2>1, FS_CardinalityType
  <2>3. \A i : AtLevel(i)' = AtLevel(i)
    BY <1>1 DEF AtLevel
  <2> QED BY <2>2, <2>3
<1>5. levelCnt' = [i \in 0 .. NLevels - 1 |-> Cardinality(AtLevel(i))]
  BY DEF Reopen
<1>6. Counted' /\ levelCnt' \in [0 .. NLevels - 1 -> Int]
  BY <1>4, <1>5, Zenon DEF Counted
<1>7. ctl' = Idle /\ Idle \in Control /\ ~At("remove")'
  BY DEF Reopen, Idle, Control, PCs, At
<1>8. DOMAIN memTable' = {} /\ sstCache' = {}
  BY DEF Reopen, NoTable
<1>9. Types'
  BY <1>2, <1>6, <1>7, <1>8, FS_EmptySet DEF Reopen, disk, IInv, Types
<1>10. SScnt' = LastName
  BY DEF Reopen
<1> QED BY <1>1, <1>2, <1>3, <1>6, <1>7, <1>8, <1>9, <1>10 DEF IInv, Index

-----------------------------------------------------------------------------
LEMMA NextInv == ASSUME IInv, [Next]_vars PROVE IInv'
<1>1. CASE Internal
  <2>1. CASE compaction
    BY <2>1, CompactInv DEF compaction
  <2> QED BY <1>1, <2>1, FlushInv, NextLevelInv, SaveReturnsInv, CompactFreedInv,
             RemoveFileInv, GcEntryInv, GcPunchInv DEF Internal
<1>2. CASE Client
  BY <1>2, ReadInv, DelInv, PutInv, GcInv, ResetInv, CloseInv DEF Client
<1>3. CASE UNCHANGED vars
  <2>1. Types' /\ Tables'
    BY <1>3, TablesKept DEF vars, disk, memory, IInv, Types
  <2>2. Index'
    BY <1>3 DEF vars, disk, memory, IInv, Index, Up, At, Lists, Names, Counted, AtLevel
  <2> QED BY <2>1, <2>2 DEF IInv
<1> QED BY <1>1, <1>2, <1>3, CrashInv, ReopenInv DEF Next

LEMMA StoreInvariant == Spec => []IInv
<1>1. Init => IInv
  BY InitInv
<1>2. IInv /\ [Next]_vars => IInv'
  BY NextInv
<1> QED BY <1>1, <1>2, PTL DEF Spec

(* At every step of every operation, after any kills and restarts, the     *)
(* list names the tables on disk once each, the counters count them, and   *)
(* no cached object belongs to a table that is gone (kvstore.cc).          *)
THEOREM MemoryIsDirectory == Spec => []MemoryMatchesDisk
<1>1. IInv => MemoryMatchesDisk
  BY DEF IInv, Index, Lists, Counted, MemoryMatchesDisk, IndexMatchesDisk, CacheIsLive
<1> QED BY <1>1, StoreInvariant, PTL

(* A table written by a flush is newer than every table there is, also     *)
(* after compactions have taken names and restarts have counted them       *)
(* (SSTableGenerator, compaction, and the constructor of kvstore.cc).      *)
Newer(f) == files'[f].level = 0 => \A g \in Names : files[g].time < files'[f].time

LEMMA FlushNewer == ASSUME IInv, SSTableGenerator PROVE \A f \in Names' \ Names : Newer(f)
<1>1. CASE DOMAIN memTable = {}
  <2>1. Names' = Names
    BY <1>1 DEF SSTableGenerator, disk, Names
  <2> QED BY <2>1
<1>2. CASE DOMAIN memTable # {}
  <2>1. SScnt \in Nat /\ Up
    BY DEF IInv, Types, SSTableGenerator, At, Up
  <2>2. \A g \in Names : g \in Nat /\ g <= SScnt /\ Sound(files[g], g)
    BY <2>1 DEF IInv, Tables, Index
  <2>3. \A g \in Names : files[g].time < SScnt + 1
    BY <2>1, <2>2 DEF Sound
  <2>4. \A f \in Names' \ Names : f = SScnt + 1 /\ files'[f] = FlushedTable
    BY <1>2 DEF SSTableGenerator, Names
  <2>5. FlushedTable.time = SScnt + 1
    BY FlushedSound DEF IInv
  <2> QED BY <2>3, <2>4, <2>5 DEF Newer
<1> QED BY <1>1, <1>2

LEMMA NextNewer == ASSUME IInv, Next PROVE \A f \in Names' \ Names : Newer(f)
<1>1. CASE SSTableGenerator
  BY <1>1, FlushNewer
<1>2. ASSUME NEW out, NEW level \in Nat \ {0}, NEW n \in Nat, Up,
             files' = Written(out, n),
             \A c \in 1 .. n : Merged(out[c], level, SScnt + c)
      PROVE  \A f \in Names' \ Names : Newer(f)
  <2>1. (\A f \in Names : f <= SScnt) /\ level \in Nat
    BY <1>2 DEF IInv, Index
  <2>2. \A f \in Names' \ Names : files'[f].level = level
    <3>1. \A f \in Names' \ Names : /\ f \in SScnt + 1 .. SScnt + n
                                   /\ files'[f].level = level
                                   /\ files'[f] = out[f - SScnt]
      BY <1>2, <2>1, WrittenSound, Zenon DEF IInv
    <3> QED BY <3>1
  <2> QED BY <2>2 DEF Newer
<1>3. CASE compaction
  <2>1. PICK U \in Upper(ctl.lev) : Compact(U)
    BY <1>3 DEF compaction
  <2> DEFINE out == Outputs(ctl.lev, U, Lower(ctl.lev, U), NewTop)
  <2>2. /\ Up /\ Len(out) \in Nat /\ ctl.lev + 1 \in Nat \ {0}
        /\ \A c \in 1 .. Len(out) : Merged(out[c], ctl.lev + 1, SScnt)
    BY <1>3, Candidates DEF compaction
  <2>3. files' = Written(out, Len(out))
    BY <2>1 DEF Compact
  <2> HIDE DEF out
  <2>4. \A c \in 1 .. Len(out) : Merged(out[c], ctl.lev + 1, SScnt + c)
    BY <2>2, MergedLater DEF IInv, Types
  <2> QED BY <1>2, <2>2, <2>3, <2>4
<1>4. CASE Crash
  <2>1. CASE UNCHANGED files
    BY <2>1 DEF Names
  <2>2. CASE ~UNCHANGED files
    BY <1>2, <1>4, <2>2, CrashWrites
  <2> QED BY <2>1, <2>2
<1>5. CASE \E f \in ctl.doomed : RemoveFile(f)
  BY <1>5 DEF RemoveFile, Names
<1>6. CASE reset
  BY <1>6 DEF reset, Names
<1>7. CASE \/ NextLevel \/ SaveReturns \/ CompactFreed \/ GcEntry \/ GcPunch \/ close
           \/ Reopen \/ (\E k \in Key : Read(k) \/ del(k) \/ \E v \in PutValue : put(k, v))
           \/ (\E chunk \in 1 .. MaxTail : gc(chunk))
  <2>1. UNCHANGED files
    BY <1>7 DEF NextLevel, SaveReturns, CompactFreed, GcEntry, GcPunch, close, Reopen,
                Read, del, put, gc, disk
  <2> QED BY <2>1 DEF Names
<1> QED BY <1>1, <1>3, <1>4, <1>5, <1>6, <1>7 DEF Next, Internal, Client

(* So in every behaviour the first table that a lookup finds with the      *)
(* greatest time is the right one of level 0 (getOffsetFromSSTable).       *)
THEOREM FlushesAreNewest == Spec => FlushIsNewest
<1>1. IInv /\ [Next]_vars =>
        [\A f \in Names' \ Names : files'[f].level = 0 =>
            \A g \in Names : files[g].time < files'[f].time]_vars
  BY NextNewer DEF Newer
<1> QED BY <1>1, StoreInvariant, PTL DEF Spec, FlushIsNewest

-----------------------------------------------------------------------------
(* The capacities of the levels: the powers of two are numbers.            *)
LEMMA Pow2Exists ==
    \E f \in [Nat -> Nat] : f = [n \in Nat |-> IF n = 0 THEN 1 ELSE 2 * f[n - 1]]
<1> DEFINE Upto(g, n) == g \in [0 .. n -> Nat] /\ g[0] = 1
                         /\ \A j \in 1 .. n : g[j] = 2 * g[j - 1]
           Missing == {n \in Nat : ~\E g : Upto(g, n)}
<1>1. Missing = {}
  <2> SUFFICES ASSUME Missing # {} PROVE FALSE
    OBVIOUS
  <2>1. PICK n \in Missing : \A m \in Missing : n <= m
    BY LeastNat
  <2>2. CASE n = 0
    <3>1. Upto([j \in 0 .. 0 |-> 1], 0)
      OBVIOUS
    <3> QED BY <2>1, <2>2, <3>1
  <2>3. CASE n # 0
    <3>1. n - 1 \in Nat /\ n \in Nat /\ ~(n <= n - 1)
      BY <2>3
    <3>2. PICK g : Upto(g, n - 1)
      BY <2>1, <3>1
    <3> DEFINE h == [j \in 0 .. n |-> IF j = n THEN 2 * g[n - 1] ELSE g[j]]
    <3>3. \A j \in 0 .. n : h[j] \in Nat
      BY <2>3, <3>1, <3>2
    <3>4. \A j \in 1 .. n : h[j] = 2 * h[j - 1]
      <4> TAKE j \in 1 .. n
      <4>1. CASE j = n
        BY <3>1, <4>1
      <4>2. CASE j # n
        <5>1. j \in 1 .. n - 1 /\ j - 1 \in 0 .. n - 1
          BY <3>1, <4>2
        <5> QED BY <3>1, <3>2, <4>2, <5>1
      <4> QED BY <4>1, <4>2
    <3>5. h[0] = 1
      BY <2>3, <3>1, <3>2
    <3>6. h \in [0 .. n -> Nat]
      BY <3>3
    <3>7. Upto(h, n)
      BY <3>4, <3>5, <3>6
    <3> HIDE DEF h, Upto
    <3> QED BY <2>1, <3>7
  <2> QED BY <2>2, <2>3
<1>2. ASSUME NEW n \in Nat, NEW m \in Nat, NEW g, NEW h, Upto(g, n), Upto(h, m)
      PROVE  \A j \in Nat : j <= n /\ j <= m => g[j] = h[j]
  <2> DEFINE D == {j \in Nat : j <= n /\ j <= m /\ g[j] # h[j]}
  <2> SUFFICES ASSUME D # {} PROVE FALSE
    OBVIOUS
  <2>1. PICK j \in D : \A i \in D : j <= i
    <3> HIDE DEF Upto
    <3>1. D \in SUBSET Nat
      OBVIOUS
    <3> HIDE DEF D
    <3> QED BY <3>1, LeastNat
  <2>2. j # 0
    BY <1>2
  <2>3. j - 1 \in Nat /\ j - 1 <= n /\ j - 1 <= m /\ ~(j <= j - 1) /\ j \in 1 .. n /\ j \in 1 .. m
    BY <2>2
  <2>4. g[j - 1] = h[j - 1]
    BY <2>1, <2>3
  <2>5. g[j] = 2 * g[j - 1] /\ h[j] = 2 * h[j - 1]
    BY <1>2, <2>3
  <2> QED BY <2>4, <2>5
<1> DEFINE F(n) == CHOOSE g : Upto(g, n)
           f == [n \in Nat |-> F(n)[n]]
<1>3. \A n \in Nat : Upto(F(n), n)
  <2> HIDE DEF Upto
  <2> QED BY <1>1
<1> HIDE DEF F
<1>4. \A n \in Nat : F(n)[n] \in Nat
  BY <1>3
<1>5. F(0)[0] = 1
  BY <1>3
<1>6. ASSUME NEW n \in Nat, n # 0 PROVE F(n)[n] = 2 * F(n - 1)[n - 1]
  <2>1. n - 1 \in Nat /\ n - 1 <= n /\ n \in 1 .. n
    BY <1>6
  <2>2. F(n)[n] = 2 * F(n)[n - 1]
    BY <1>3, <2>1
  <2>3. F(n)[n - 1] = F(n - 1)[n - 1]
    <3> HIDE DEF Upto
    <3> QED BY <1>2, <1>3, <2>1
  <2> QED BY <2>2, <2>3
<1>7. f \in [Nat -> Nat]
  BY <1>4
<1>8. \A n \in Nat : f[n] = IF n = 0 THEN 1 ELSE 2 * f[n - 1]
  <2> HIDE DEF Upto
  <2> TAKE n \in Nat
  <2>1. n # 0 => n - 1 \in Nat
    OBVIOUS
  <2> QED BY <1>5, <1>6, <2>1
<1> HIDE DEF f
<1>9. f = [n \in Nat |-> IF n = 0 THEN 1 ELSE 2 * f[n - 1]]
  BY <1>7, <1>8
<1> QED BY <1>7, <1>9

LEMMA CapacityIsNat == ASSUME NEW i \in Nat PROVE Capacity(i) \in Nat
<1>1. Pow2 = [n \in Nat |-> IF n = 0 THEN 1 ELSE 2 * Pow2[n - 1]]
  BY Pow2Exists DEF Pow2
<1> DEFINE D == {n \in Nat : Pow2[n] \notin Nat}
<1>2. D = {}
  <2> SUFFICES ASSUME D # {} PROVE FALSE
    OBVIOUS
  <2>1. PICK n \in D : \A m \in D : n <= m
    BY LeastNat
  <2>2. Pow2[n] = IF n = 0 THEN 1 ELSE 2 * Pow2[n - 1]
    BY <1>1
  <2>3. n # 0 => n - 1 \in Nat /\ ~(n <= n - 1)
    OBVIOUS
  <2>4. n # 0 => Pow2[n - 1] \in Nat
    BY <2>1, <2>3
  <2> QED BY <2>2, <2>4
<1>3. Pow2[i] \in Nat
  BY <1>2
<1> QED BY <1>3 DEF Capacity

-----------------------------------------------------------------------------
(* The levels, as long as the store is not killed.                         *)

(* A table that a compaction has merged and not yet removed counts no      *)
(* longer.                                                                 *)
Live == Names \ ctl.doomed
Keys(f) == DOMAIN files[f].ent
LiveAt(i) == {f \in Live : files[f].level = i}

(* checkLevel stays inside the array of the counters, whose 30 levels no   *)
(* number of tables fills; beyond it the code's behaviour is undefined.    *)
LevelsFit == At("check") /\ ctl.lev <= LastLevel => ctl.lev \in DOMAIN levelCnt

Apart(A, B) == (\A a \in A, b \in B : a < b) \/ (\A a \in A, b \in B : b < a)

Disjoint ==
    \A f, g \in Live : f # g /\ files[f].level = files[g].level /\ files[f].level > 0
        => Apart(Keys(f), Keys(g))
Ordered ==
    \A f, g \in Live : files[f].level < files[g].level => files[f].time >= files[g].time
Topped ==
    /\ totLevel \in Int /\ maxDir \in Int
    /\ \A f \in Live : files[f].level = 0 \/ files[f].level <= totLevel
    /\ \A f \in Names : files[f].level <= maxDir
Filled == \A f \in Names : Keys(f) # {}
NoneDoomed == ctl.pc # "remove" => ctl.doomed = {}
LevelsInv ==
    Up \/ At("down") => Disjoint /\ Ordered /\ Topped /\ Filled /\ NoneDoomed

(* The one level that may hold more than it should: the next to be looked  *)
(* at.                                                                     *)
Within(i) == i \in 0 .. NLevels - 1 => Cardinality(LiveAt(i)) <= Capacity(i)
WithinInv ==
    CASE At("check")  -> \A i \in Nat : i # ctl.lev => Within(i)
      [] At("remove") -> \A i \in Nat : i # ctl.lev + 1 => Within(i)
      [] OTHER        -> At("undefined") \/ \A i \in Nat : Within(i)

(* The tables a compaction takes of its own level: some, the oldest, and   *)
(* enough of them; of the next level every table in the range of those.    *)
LEMMA CompactionTakes ==
    ASSUME IInv, LevelsInv, LevelsFit, Overflowing,
           NEW i, i = ctl.lev, NEW U \in Upper(i), NEW L, L = Lower(i, U)
    PROVE  /\ Up /\ i \in Nat /\ ctl.doomed = {} /\ Live = Names
           /\ U # {} /\ U \subseteq AtLevel(i) /\ L \subseteq AtLevel(i + 1)
           /\ i \in 0 .. NLevels - 1
           /\ Cardinality(AtLevel(i) \ U) <= Capacity(i)
           /\ \A f \in U, g \in AtLevel(i) \ U : files[f].time <= files[g].time
           /\ i = 0 => U = AtLevel(0)
<1>1. Up /\ i \in Nat /\ ctl.doomed = {} /\ At("check")
  BY DEF Overflowing, At, Up, IInv, Types, Control, LevelsInv, NoneDoomed
<1>2. i \in 0 .. NLevels - 1
  BY DEF LevelsFit, Overflowing, IInv, Types
<1>3. /\ levelCnt[i] = Cardinality(AtLevel(i)) /\ levelCnt[i] > Capacity(i)
      /\ levelCnt[i] \in Int /\ Capacity(i) \in Nat
  BY <1>1, <1>2, CapacityIsNat DEF IInv, Index, Counted, Overflowing, Types
<1>4. IsFiniteSet(AtLevel(i)) /\ AtLevel(i) # {}
  <2>1. IsFiniteSet(AtLevel(i))
    BY FiniteNames, FS_Subset DEF AtLevel, IInv
  <2>2. Cardinality({}) = 0
    BY FS_EmptySet
  <2> QED BY <1>3, <2>1, <2>2
<1>5. L \subseteq AtLevel(i + 1)
  BY DEF Lower
<1>6. Live = Names
  BY <1>1 DEF Live
<1>7. CASE i = 0
  <2>1. U = AtLevel(i) /\ Cardinality({}) = 0
    BY <1>7, FS_EmptySet DEF Upper
  <2>2. AtLevel(i) \ U = {}
    BY <2>1
  <2> QED BY <1>1, <1>2, <1>3, <1>4, <1>5, <1>6, <1>7, <2>1, <2>2
<1>8. CASE i # 0
  <2>1. /\ U \in SUBSET AtLevel(i) /\ Cardinality(U) = levelCnt[i] - Capacity(i)
        /\ \A f \in U, g \in AtLevel(i) \ U : Before(f, g)
    BY <1>8 DEF Upper
  <2>2. U # {}
    <3>1. Cardinality(U) > 0 /\ Cardinality({}) = 0
      BY <1>3, <2>1, FS_EmptySet
    <3> QED BY <3>1
  <2>3. Cardinality(AtLevel(i) \ U) <= Capacity(i)
    <3>1. IsFiniteSet(U) /\ IsFiniteSet(AtLevel(i) \ U) /\ U \cap (AtLevel(i) \ U) = {}
      BY <1>4, <2>1, FS_Subset
    <3>2. U \cup (AtLevel(i) \ U) = AtLevel(i)
      BY <2>1
    <3>3. Cardinality(AtLevel(i)) = Cardinality(U) + Cardinality(AtLevel(i) \ U) - Cardinality({})
      BY <3>1, <3>2, FS_Union
    <3>4. /\ Cardinality({}) = 0 /\ Cardinality(AtLevel(i) \ U) \in Nat
      BY <3>1, FS_EmptySet, FS_CardinalityType
    <3> QED BY <1>3, <2>1, <3>3, <3>4
  <2>4. \A f \in U, g \in AtLevel(i) \ U : files[f].time <= files[g].time
    <3>1. \A f \in AtLevel(i) : files[f].time \in Nat
      BY DEF AtLevel, IInv, Tables, Sound
    <3> QED BY <2>1, <3>1 DEF Before
  <2> QED BY <1>1, <1>2, <1>5, <1>6, <1>8, <2>1, <2>2, <2>3, <2>4
<1> QED BY <1>7, <1>8

LEMMA KeysOf ==
    ASSUME IInv, Filled, NEW f \in Names
    PROVE  /\ Keys(f) \in SUBSET Nat /\ IsFiniteSet(Keys(f)) /\ Keys(f) # {}
           /\ minKey(f) \in Keys(f) /\ maxKey(f) \in Keys(f)
           /\ \A k \in Keys(f) : minKey(f) <= k /\ k <= maxKey(f)
<1>1. Keys(f) \in SUBSET Nat /\ IsFiniteSet(Keys(f)) /\ Keys(f) # {}
  BY DEF IInv, Tables, Sound, Filled, Keys
<1> QED BY <1>1, Extremes DEF minKey, maxKey, Keys

(* The bounds of the range: every key of U lies between them, and a table  *)
(* of the next level that is not taken lies outside.                       *)
LEMMA RangeTaken ==
    ASSUME IInv, Filled, NEW i, NEW U \in SUBSET Names, U # {}, NEW L, L = Lower(i, U)
    PROVE  \E lo, hi \in Nat :
              /\ lo <= hi
              /\ \A f \in U : \A k \in Keys(f) : lo <= k /\ k <= hi
              /\ \A g \in L : /\ \E k \in Keys(g) : lo <= k
                              /\ \E k \in Keys(g) : k <= hi
              /\ \A g \in AtLevel(i + 1) \ L : \/ \A k \in Keys(g) : k < lo
                                               \/ \A k \in Keys(g) : hi < k
<1> DEFINE mins == {minKey(f) : f \in U}
           maxs == {maxKey(f) : f \in U}
           lo == MinOf(mins)
           hi == MaxOf(maxs)
<1>1. \A f \in Names : minKey(f) \in Nat /\ maxKey(f) \in Nat /\ minKey(f) <= maxKey(f)
  BY KeysOf
<1>2. IsFiniteSet(U)
  BY FiniteNames, FS_Subset DEF IInv
<1>3. mins \in SUBSET Nat /\ mins # {} /\ IsFiniteSet(mins)
  <2> DEFINE m == [f \in U |-> minKey(f)]
  <2>1. m \in Surjection(U, mins)
    BY DEF Surjection
  <2>2. IsFiniteSet(mins)
    <3> HIDE DEF m, mins
    <3> QED BY <1>2, <2>1, FS_Surjection
  <2> QED BY <1>1, <2>2
<1>4. maxs \in SUBSET Nat /\ maxs # {} /\ IsFiniteSet(maxs)
  <2> DEFINE m == [f \in U |-> maxKey(f)]
  <2>1. m \in Surjection(U, maxs)
    BY DEF Surjection
  <2>2. IsFiniteSet(maxs)
    <3> HIDE DEF m, maxs
    <3> QED BY <1>2, <2>1, FS_Surjection
  <2> QED BY <1>1, <2>2
<1>5. /\ lo \in mins /\ \A x \in mins : lo <= x
      /\ hi \in maxs /\ \A x \in maxs : x <= hi
  <2> HIDE DEF mins, maxs
  <2> QED BY <1>3, <1>4, Extremes
<1>6. \A f \in U : lo <= minKey(f) /\ maxKey(f) <= hi
  BY <1>5
<1>7. lo \in Nat /\ hi \in Nat
  BY <1>3, <1>4, <1>5
<1>8. L = {g \in AtLevel(i + 1) : Overlaps(g, lo, hi)}
  BY DEF Lower
<1> HIDE DEF lo, hi, mins, maxs
<1>9. lo <= hi
  <2>1. PICK f \in U : TRUE
    OBVIOUS
  <2> QED BY <1>1, <1>6, <1>7, <2>1
<1>10. \A f \in U : \A k \in Keys(f) : lo <= k /\ k <= hi
  <2> TAKE f \in U
  <2> TAKE k \in Keys(f)
  <2>1. k \in Nat /\ minKey(f) \in Nat /\ maxKey(f) \in Nat /\ minKey(f) <= k /\ k <= maxKey(f)
    BY KeysOf
  <2> QED BY <1>6, <1>7, <2>1
<1>11. ASSUME NEW g \in AtLevel(i + 1)
       PROVE  /\ g \in L => (\E k \in Keys(g) : lo <= k) /\ (\E k \in Keys(g) : k <= hi)
              /\ g \notin L => (\A k \in Keys(g) : k < lo) \/ (\A k \in Keys(g) : hi < k)
  <2>1. g \in Names
    BY DEF AtLevel
  <2>2. /\ Keys(g) \in SUBSET Nat
        /\ minKey(g) \in Keys(g) /\ maxKey(g) \in Keys(g)
        /\ \A k \in Keys(g) : minKey(g) <= k /\ k <= maxKey(g)
    BY <2>1, KeysOf
  <2>3. CASE Overlaps(g, lo, hi)
    <3>1. lo <= maxKey(g) /\ minKey(g) <= hi
      BY <1>7, <2>2, <2>3 DEF Overlaps
    <3> QED BY <1>8, <2>2, <2>3, <3>1
  <2>4. CASE ~Overlaps(g, lo, hi)
    <3>1. maxKey(g) < lo \/ minKey(g) > hi
      BY <2>4 DEF Overlaps
    <3>2. (\A k \in Keys(g) : k < lo) \/ (\A k \in Keys(g) : hi < k)
      BY <1>7, <2>2, <3>1
    <3> QED BY <1>8, <2>4, <3>2
  <2> QED BY <2>3, <2>4
<1>12. \A g \in L : g \in AtLevel(i + 1)
  BY <1>8
<1> QED BY <1>7, <1>9, <1>10, <1>11, <1>12

(* So a table of the next level that is not taken is apart from all that   *)
(* are: those of the next level are apart from it, and each reaches the    *)
(* range.                                                                  *)
LEMMA RestApart ==
    ASSUME IInv, Disjoint, Filled, Live = Names, NEW i \in Nat,
           NEW U \in SUBSET Names, U # {}, NEW L, L = Lower(i, U),
           NEW g \in AtLevel(i + 1) \ L
    PROVE  \/ \A f \in U \cup L : \A j \in Keys(f), k \in Keys(g) : j < k
           \/ \A f \in U \cup L : \A j \in Keys(f), k \in Keys(g) : k < j
<1>1. PICK lo \in Nat, hi \in Nat :
              /\ lo <= hi
              /\ \A f \in U : \A k \in Keys(f) : lo <= k /\ k <= hi
              /\ \A f \in L : /\ \E k \in Keys(f) : lo <= k
                              /\ \E k \in Keys(f) : k <= hi
              /\ \A h \in AtLevel(i + 1) \ L : \/ \A k \in Keys(h) : k < lo
                                               \/ \A k \in Keys(h) : hi < k
  BY RangeTaken
<1>2. /\ g \in Names /\ files[g].level = i + 1 /\ i + 1 > 0
      /\ \A f \in L : f \in Names /\ files[f].level = i + 1 /\ f # g
  BY DEF AtLevel, Lower
<1>3. \A f \in Names : Keys(f) \in SUBSET Nat /\ Keys(f) # {}
  BY KeysOf
<1>4. \A f \in L : Apart(Keys(f), Keys(g))
  BY <1>2 DEF Disjoint
<1>5. \A f \in U : f \in Names
  OBVIOUS
<1>6. CASE \A k \in Keys(g) : k < lo
  <2>1. ASSUME NEW f \in U, NEW j \in Keys(f), NEW k \in Keys(g) PROVE k < j
    BY <1>1, <1>2, <1>3, <1>6
  <2>2. ASSUME NEW f \in L PROVE \A j \in Keys(f), k \in Keys(g) : k < j
    <3>1. PICK x \in Keys(f) : lo <= x
      BY <1>1
    <3>2. PICK y \in Keys(g) : TRUE
      BY <1>2, <1>3
    <3>3. y < lo /\ x \in Nat /\ y \in Nat
      BY <1>2, <1>3, <1>6
    <3>4. ~(x < y)
      BY <3>1, <3>3
    <3> QED BY <1>4, <3>4 DEF Apart
  <2> QED BY <2>1, <2>2
<1>7. CASE \A k \in Keys(g) : hi < k
  <2>1. ASSUME NEW f \in U, NEW j \in Keys(f), NEW k \in Keys(g) PROVE j < k
    BY <1>1, <1>2, <1>3, <1>7
  <2>2. ASSUME NEW f \in L PROVE \A j \in Keys(f), k \in Keys(g) : j < k
    <3>1. PICK x \in Keys(f) : x <= hi
      BY <1>1
    <3>2. PICK y \in Keys(g) : TRUE
      BY <1>2, <1>3
    <3>3. hi < y /\ x \in Nat /\ y \in Nat
      BY <1>2, <1>3, <1>7
    <3>4. ~(y < x)
      BY <3>1, <3>3
    <3> QED BY <1>4, <3>4 DEF Apart
  <2> QED BY <2>1, <2>2
<1> QED BY <1>1, <1>6, <1>7

-----------------------------------------------------------------------------
LEMMA LevelsInit == Init => LevelsInv
<1> SUFFICES ASSUME Init PROVE LevelsInv
  OBVIOUS
<1>1. Names = {} /\ totLevel \in Int /\ maxDir \in Int /\ ctl.doomed = {} /\ Live = {}
  BY NoTables DEF Init, Fresh, Idle, Live
<1> QED BY <1>1 DEF LevelsInv, Disjoint, Ordered, Topped, Filled, NoneDoomed

(* A step that leaves the tables and the top level alone.                  *)
LEMMA LevelsKept ==
    ASSUME LevelsInv, Up \/ At("down"), ctl.pc # "remove",
           UNCHANGED <<files, totLevel, maxDir>>, ctl'.doomed \in {ctl.doomed, {}}
    PROVE  LevelsInv' /\ Live' = Live
<1>1. Disjoint /\ Ordered /\ Topped /\ Filled /\ ctl.doomed = {}
  BY DEF LevelsInv, NoneDoomed
<1>2. Names' = Names /\ ctl'.doomed = {} /\ Live' = Live
  BY <1>1 DEF Names, Live
<1>3. \A f : files'[f] = files[f] /\ Keys(f)' = Keys(f)
  BY DEF Keys
<1>4. Disjoint' /\ Ordered' /\ Topped' /\ Filled'
  BY <1>1, <1>2, <1>3 DEF Disjoint, Ordered, Topped, Filled
<1> QED BY <1>2, <1>4 DEF LevelsInv, NoneDoomed

LEMMA FlushedLive ==
    ASSUME IInv, LevelsInv, SSTableGenerator, DOMAIN memTable # {}
    PROVE  /\ SScnt \in Nat /\ SScnt + 1 \notin Names
           /\ Live = Names /\ Names' = Names \cup {SScnt + 1} /\ Live' = Names'
           /\ \A f \in Names : files'[f] = files[f]
           /\ files'[SScnt + 1] = FlushedTable
           /\ \A f \in Names : files[f].level \in Nat /\ files[f].time \in Nat
                               /\ files[f].time <= SScnt
<1>1. SScnt \in Nat /\ Up /\ ctl.pc = "flush" /\ ctl' = [ctl EXCEPT !.pc = "check", !.lev = 0]
  BY DEF IInv, Types, SSTableGenerator, At, Up
<1>2. \A f \in Names : f \in Nat /\ f <= SScnt /\ Sound(files[f], f)
  BY <1>1 DEF IInv, Tables, Index
<1>3. ctl.doomed = {} /\ ctl'.doomed = {}
  <2>1. ctl.doomed = {}
    BY <1>1 DEF LevelsInv, NoneDoomed
  <2> QED BY <1>1, <2>1 DEF IInv, Types, Control
<1>4. files' = [f \in Names \cup {SScnt + 1} |->
                   IF f = SScnt + 1 THEN FlushedTable ELSE files[f]]
  BY DEF SSTableGenerator
<1>5. Names' = Names \cup {SScnt + 1} /\ SScnt + 1 \notin Names
  BY <1>1, <1>2, <1>4 DEF Names
<1>6. Live = Names /\ Live' = Names'
  BY <1>3 DEF Live
<1>7. \A f \in Names : files'[f] = files[f]
  BY <1>4, <1>5
<1>8. \A f \in Names : files[f].level \in Nat /\ files[f].time \in Nat
                       /\ files[f].time <= SScnt
  BY <1>1, <1>2 DEF Sound
<1> QED BY <1>1, <1>4, <1>5, <1>6, <1>7, <1>8

LEMMA FlushKeepsLevels == ASSUME IInv, LevelsInv, SSTableGenerator PROVE LevelsInv'
<1>1. Up /\ ctl.pc = "flush" /\ ctl' = [ctl EXCEPT !.pc = "check", !.lev = 0]
  BY DEF SSTableGenerator, At, Up
<1>2. ctl'.pc = "check" /\ ctl'.doomed = ctl.doomed
  BY <1>1 DEF IInv, Types, Control
<1>3. CASE DOMAIN memTable = {}
  BY <1>1, <1>2, <1>3, LevelsKept DEF SSTableGenerator, disk
<1>4. CASE DOMAIN memTable # {}
  <2>1. PICK n \in Nat : n = SScnt + 1
    BY DEF IInv, Types
  <2>2. /\ n \notin Names
        /\ Live = Names /\ Names' = Names \cup {n} /\ Live' = Names'
        /\ \A f \in Names : files'[f] = files[f]
        /\ files'[n].level = 0 /\ files'[n].time = n
        /\ Keys(n)' = DOMAIN memTable
        /\ \A f \in Names : files[f].level \in Nat /\ files[f].time \in Nat
                            /\ files[f].time < n
    <3>1. FlushedTable.level = 0 /\ FlushedTable.time = SScnt + 1
          /\ DOMAIN FlushedTable.ent = DOMAIN memTable
      BY DEF FlushedTable
    <3>2. /\ SScnt \in Nat /\ SScnt + 1 \notin Names
          /\ Live = Names /\ Names' = Names \cup {SScnt + 1} /\ Live' = Names'
          /\ \A f \in Names : files'[f] = files[f]
          /\ files'[SScnt + 1] = FlushedTable
          /\ \A f \in Names : files[f].level \in Nat /\ files[f].time \in Nat
                              /\ files[f].time <= SScnt
      BY <1>4, FlushedLive
    <3> QED BY ONLY <2>1, <3>1, <3>2 DEF Keys
  <2>3. Disjoint /\ Ordered /\ Topped /\ Filled /\ ctl.doomed = {}
    BY <1>1 DEF LevelsInv, NoneDoomed
  <2>4. \A f \in Names : Keys(f)' = Keys(f)
    BY <2>2 DEF Keys
  <2>5. Disjoint'
    BY <2>2, <2>3, <2>4 DEF Disjoint
  <2>6. Ordered'
    BY <2>2, <2>3 DEF Ordered
  <2>7. Topped'
    <3>1. totLevel' = totLevel /\ maxDir' = IF maxDir < 0 THEN 0 ELSE maxDir
      BY <1>4 DEF SSTableGenerator
    <3>2. maxDir' \in Int /\ maxDir <= maxDir' /\ 0 <= maxDir'
      BY <2>3, <3>1 DEF Topped
    <3>3. \A f \in Live' : files[f]'.level = 0 \/ files[f]'.level <= totLevel'
      BY <2>2, <2>3, <3>1 DEF Topped
    <3>4. \A f \in Names' : files[f]'.level <= maxDir'
      BY <2>2, <2>3, <3>2 DEF Topped
    <3> QED BY <2>3, <3>1, <3>2, <3>3, <3>4 DEF Topped
  <2>8. Filled'
    <3>1. \A f \in Names \cup {n} : Keys(f)' # {}
      BY ONLY <1>4, <2>2, <2>3, <2>4 DEF Filled
    <3> QED BY ONLY <2>2, <3>1 DEF Filled
  <2> QED BY <1>2, <2>3, <2>5, <2>6, <2>7, <2>8 DEF LevelsInv, NoneDoomed
<1> QED BY <1>3, <1>4

-----------------------------------------------------------------------------
(* A compaction: what it writes, and what is then left to look at.         *)
LEMMA CompactedLive ==
    ASSUME IInv, LevelsInv, LevelsFit, Overflowing, NEW i, i = ctl.lev,
           NEW U \in Upper(i), Compact(U), NEW L, L = Lower(i, U),
           NEW out, out = Outputs(i, U, L, NewTop), NEW s, s = SScnt
    PROVE  /\ i \in Nat /\ s \in Nat /\ Len(out) \in Nat
           /\ Live = Names /\ U \subseteq AtLevel(i) /\ L \subseteq AtLevel(i + 1)
           /\ \A f \in Names : f \in Nat /\ f <= s /\ files'[f] = files[f]
                               /\ files[f].level \in Nat /\ files[f].time \in Nat
           /\ Merges(out, i, U, L, NewTop)
           /\ \A c \in 1 .. Len(out) : Merged(out[c], i + 1, s)
           /\ Names' = Names \cup (s + 1 .. s + Len(out))
           /\ \A f \in s + 1 .. s + Len(out) : files'[f] = out[f - s]
           /\ Live' = (Names \ (U \cup L)) \cup (s + 1 .. s + Len(out))
<1>1. /\ Up /\ i \in Nat /\ Live = Names
      /\ U \subseteq AtLevel(i) /\ L \subseteq AtLevel(i + 1)
  BY CompactionTakes, Zenon
<1>2. /\ Len(out) \in Nat /\ \A c \in 1 .. Len(out) : Merged(out[c], i + 1, s)
  BY Candidates
<1>3. Types /\ Tables /\ Lists(sstFiles, Names) /\ s \in Nat
      /\ \A f \in Names : f <= s
  BY <1>1 DEF IInv, Index, Types
<1>4. U \in SUBSET Names /\ L \in SUBSET Names
  BY <1>1 DEF AtLevel
<1>5. Merges(out, i, U, L, NewTop)
  BY <1>1, <1>3, <1>4, OutputsMerged
<1>6. \A c \in 1 .. Len(out) : Merged(out[c], i + 1, s + c)
  BY <1>2, <1>3, MergedLater
<1>7. files' = Written(out, Len(out)) /\ ctl' = [ctl EXCEPT !.pc = "remove", !.doomed = U \cup L]
  BY DEF Compact
<1>8. /\ Names' = Names \cup (s + 1 .. s + Len(out))
      /\ \A f \in Names : files'[f] = files[f]
      /\ \A f \in Names' \ Names : files'[f] = out[f - s]
  <2>1. /\ Types /\ Tables /\ i + 1 \in Nat /\ Len(out) \in Nat
        /\ \A f \in Names : f <= SScnt
        /\ \A c \in 1 .. Len(out) : Merged(out[c], i + 1, SScnt + c)
        /\ files' = Written(out, Len(out))
    BY <1>1, <1>2, <1>3, <1>6, <1>7
  <2>2. /\ Names' = Names \cup (SScnt + 1 .. SScnt + Len(out))
        /\ \A f \in Names : files'[f] = files[f]
        /\ \A f \in Names' \ Names : /\ f \in SScnt + 1 .. SScnt + Len(out)
                                    /\ files'[f].level = i + 1
                                    /\ files'[f] = out[f - SScnt]
    BY ONLY <2>1, WrittenSound, Zenon
  <2> QED BY <2>2, Zenon
<1>9. \A f \in s + 1 .. s + Len(out) : f \notin Names
  BY <1>2, <1>3
<1>10. \A f \in s + 1 .. s + Len(out) : files'[f] = out[f - s]
  BY <1>8, <1>9
<1>11. ctl'.doomed = U \cup L
  BY <1>7 DEF IInv, Types, Control
<1>12. Live' = (Names \ (U \cup L)) \cup (s + 1 .. s + Len(out))
  BY <1>4, <1>8, <1>9, <1>11 DEF Live
<1>13. \A f \in Names : f \in Nat /\ files[f].level \in Nat /\ files[f].time \in Nat
  BY <1>3 DEF Tables, Sound
<1> QED BY <1>1, <1>2, <1>3, <1>5, <1>8, <1>10, <1>12, <1>13

(* Every key of an output is a key of a candidate ...                      *)
LEMMA OutputOf ==
    ASSUME IInv, LevelsInv, LevelsFit, Overflowing, NEW i, i = ctl.lev,
           NEW U \in Upper(i), NEW L, L = Lower(i, U),
           NEW out, out = Outputs(i, U, L, NewTop), NEW c \in 1 .. Len(out)
    PROVE  /\ \A k \in DOMAIN out[c].ent : \E f \in U \cup L : k \in Keys(f)
           /\ \E f \in U \cup L : out[c].time = files[f].time
           /\ DOMAIN out[c].ent # {}
<1>1. /\ Up /\ i \in Nat
      /\ U \subseteq AtLevel(i) /\ L \subseteq AtLevel(i + 1)
  BY CompactionTakes, Zenon
<1>2. Types /\ Tables /\ Lists(sstFiles, Names) /\ SScnt \in Nat
      /\ \A f \in Names : f <= SScnt
  BY <1>1 DEF IInv, Index, Types
<1>3. U \in SUBSET Names /\ L \in SUBSET Names
  BY <1>1 DEF AtLevel
<1>4. Merges(out, i, U, L, NewTop)
  BY <1>1, <1>2, <1>3, OutputsMerged
<1>5. /\ \A k \in DOMAIN out[c].ent : k \in Kept(i, U, L, NewTop)
      /\ \E k \in DOMAIN out[c].ent : out[c].time = files[Winner(U, L, k)].time
  BY <1>4 DEF Merges
<1>6. \A k \in Kept(i, U, L, NewTop) : \E f \in U \cup L : Holds(f, k)
  BY DEF Kept, Holds
<1>7. \A k \in Kept(i, U, L, NewTop) : Winner(U, L, k) \in U \cup L
  BY <1>2, <1>3, <1>6, WinnerHolds
<1> QED BY <1>5, <1>6, <1>7 DEF Holds, Keys

LEMMA CompactKeepsLevels ==
    ASSUME IInv, LevelsInv, LevelsFit, Overflowing, NEW U \in Upper(ctl.lev), Compact(U)
    PROVE  LevelsInv'
<1>1. PICK i : i = ctl.lev
  OBVIOUS
<1>2. PICK L : L = Lower(i, U)
  OBVIOUS
<1>3. PICK out : out = Outputs(i, U, L, NewTop)
  OBVIOUS
<1>4. PICK s : s = SScnt
  OBVIOUS
<1> DEFINE New == s + 1 .. s + Len(out)
<1>5. /\ i \in Nat /\ s \in Nat /\ Len(out) \in Nat
      /\ Live = Names /\ U \subseteq AtLevel(i) /\ L \subseteq AtLevel(i + 1)
      /\ \A f \in Names : f \in Nat /\ f <= s /\ files'[f] = files[f]
                          /\ files[f].level \in Nat /\ files[f].time \in Nat
      /\ Merges(out, i, U, L, NewTop)
      /\ \A c \in 1 .. Len(out) : Merged(out[c], i + 1, s)
      /\ Names' = Names \cup New
      /\ \A f \in New : files'[f] = out[f - s]
      /\ Live' = (Names \ (U \cup L)) \cup New
  BY <1>1, <1>2, <1>3, <1>4, CompactedLive
<1>6. Up /\ Disjoint /\ Ordered /\ Topped /\ Filled
  <2>1. Up
    BY DEF Up, Overflowing, At
  <2> QED BY <2>1 DEF LevelsInv
<1>7. \A f \in New : f - s \in 1 .. Len(out)
  BY <1>5
<1>8. \A f \in New : /\ files'[f].level = i + 1 /\ Keys(f)' # {}
                     /\ files'[f].time \in Nat
                     /\ \E h \in U \cup L : files'[f].time = files[h].time
                     /\ \A k \in Keys(f)' : \E h \in U \cup L : k \in Keys(h)
  <2> TAKE f \in New
  <2>1. files'[f] = out[f - s] /\ f - s \in 1 .. Len(out) /\ Keys(f)' = DOMAIN out[f - s].ent
    BY <1>5, <1>7 DEF Keys
  <2>2. files'[f].level = i + 1 /\ files'[f].time \in Nat
    BY <1>5, <2>1 DEF Merged
  <2>3. /\ \A k \in DOMAIN out[f - s].ent : \E h \in U \cup L : k \in Keys(h)
        /\ \E h \in U \cup L : out[f - s].time = files[h].time
        /\ DOMAIN out[f - s].ent # {}
    BY <1>1, <1>2, <1>3, <2>1, OutputOf
  <2> QED BY <2>1, <2>2, <2>3
<1>9. \A f \in Names : Keys(f)' = Keys(f) /\ files'[f] = files[f]
  BY <1>5 DEF Keys
<1> HIDE DEF New
<1>10. Disjoint'
  <2> SUFFICES ASSUME NEW f \in Live', NEW g \in Live', f # g,
                      files'[f].level = files'[g].level, files'[f].level > 0
               PROVE  Apart(Keys(f)', Keys(g)')
    BY DEF Disjoint, Apart
  <2>1. ASSUME NEW x \in New, NEW y \in Names \ (U \cup L), files'[y].level = i + 1
        PROVE  Apart(Keys(x)', Keys(y)')
    <3>1. y \in AtLevel(i + 1) \ L
      BY <1>9, <2>1 DEF AtLevel
    <3>2. U \in SUBSET Names /\ U # {}
      <4>1. U \subseteq AtLevel(i) /\ U # {}
        BY <1>1, <1>2, CompactionTakes, Zenon
      <4> QED BY <4>1 DEF AtLevel
    <3>3. \/ \A h \in U \cup L : \A j \in Keys(h), k \in Keys(y) : j < k
          \/ \A h \in U \cup L : \A j \in Keys(h), k \in Keys(y) : k < j
      <4>1. /\ IInv /\ Disjoint /\ Filled /\ Live = Names /\ i \in Nat
            /\ L = Lower(i, U)
        BY <1>2, <1>5, <1>6
      <4> QED BY ONLY <3>1, <3>2, <4>1, RestApart
    <3>4. \A k \in Keys(x)' : \E h \in U \cup L : k \in Keys(h)
      BY <1>8
    <3> QED BY <1>9, <3>3, <3>4 DEF Apart
  <2>2. ASSUME NEW x \in New, NEW y \in New, x # y PROVE Apart(Keys(x)', Keys(y)')
    <3>1. \A c, d \in 1 .. Len(out) : c < d =>
             \A j \in DOMAIN out[c].ent, k \in DOMAIN out[d].ent : j < k
      BY <1>5 DEF Merges
    <3>2. /\ x - s \in 1 .. Len(out) /\ y - s \in 1 .. Len(out)
          /\ x - s < y - s \/ y - s < x - s
      BY <1>5, <1>7, <2>2 DEF New
    <3>3. Keys(x)' = DOMAIN out[x - s].ent /\ Keys(y)' = DOMAIN out[y - s].ent
      BY <1>5 DEF Keys
    <3> QED BY <3>1, <3>2, <3>3 DEF Apart
  <2>3. CASE f \in New /\ g \in New
    BY <2>2, <2>3
  <2>4. CASE f \in New /\ g \in Names \ (U \cup L)
    BY <1>8, <2>1, <2>4
  <2>5. CASE g \in New /\ f \in Names \ (U \cup L)
    BY <1>8, <2>1, <2>5 DEF Apart
  <2>6. CASE f \in Names /\ g \in Names
    BY <1>5, <1>6, <1>9, <2>6 DEF Disjoint
  <2> QED BY <1>5, <2>3, <2>4, <2>5, <2>6
<1>11. Ordered'
  <2> SUFFICES ASSUME NEW f \in Live', NEW g \in Live', files'[f].level < files'[g].level
               PROVE  files'[f].time >= files'[g].time
    BY DEF Ordered
  <2>1. \A x, y \in Names : files[x].level < files[y].level => files[x].time >= files[y].time
    BY <1>5, <1>6 DEF Ordered
  <2>2. /\ \A h \in U : h \in Names /\ files[h].level = i
        /\ \A h \in L : h \in Names /\ files[h].level = i + 1
    BY <1>5 DEF AtLevel
  <2>3. CASE f \in New /\ g \in Names
    <3>1. PICK h \in U \cup L : files'[f].time = files[h].time
      BY <1>8, <2>3
    <3>2. files[h].level < files[g].level
      BY <1>5, <1>8, <1>9, <2>2, <2>3
    <3> QED BY <1>9, <2>1, <2>2, <2>3, <3>1, <3>2
  <2>4. CASE g \in New /\ f \in Names \ (U \cup L)
    <3>1. PICK h \in U \cup L : files'[g].time = files[h].time
      BY <1>8, <2>4
    <3>2. files[f].level \in Nat /\ files[f].level < i + 1 /\ h \in Names
      BY <1>5, <1>8, <1>9, <2>2, <2>4
    <3>3. files[f].time >= files[h].time
      <4>1. CASE files[f].level < files[h].level
        BY <2>1, <2>4, <3>2, <4>1
      <4>2. CASE ~(files[f].level < files[h].level)
        <5>1. h \in U /\ f \in AtLevel(i) \ U
          BY <1>5, <2>2, <2>4, <3>2, <4>2 DEF AtLevel
        <5>2. \A x \in U, y \in AtLevel(i) \ U : files[x].time <= files[y].time
          BY <1>1, <1>2, CompactionTakes, Zenon
        <5> QED BY <1>5, <2>4, <3>2, <5>1, <5>2
      <4> QED BY <4>1, <4>2
    <3> QED BY <1>9, <2>4, <3>1, <3>3
  <2>5. CASE f \in Names /\ g \in Names
    BY <1>9, <2>1, <2>5
  <2>6. CASE f \in New /\ g \in New
    BY <1>5, <1>8, <2>6
  <2> QED BY <1>5, <2>3, <2>4, <2>5, <2>6
<1>12. Topped'
  <2>1. totLevel' = NewTop /\ maxDir' = IF i + 1 > maxDir THEN i + 1 ELSE maxDir
    BY <1>1 DEF Compact
  <2>2. totLevel \in Int /\ maxDir \in Int
    BY <1>6 DEF Topped
  <2>3. /\ totLevel' \in Int /\ totLevel <= totLevel' /\ i + 1 <= totLevel'
        /\ maxDir' \in Int /\ maxDir <= maxDir' /\ i + 1 <= maxDir'
    BY <1>1, <1>5, <2>1, <2>2 DEF NewTop
  <2>4. \A f \in Live' : files[f]'.level = 0 \/ files[f]'.level <= totLevel'
    <3>1. \A f \in Names : files'[f].level \in Nat
                           /\ (files'[f].level = 0 \/ files'[f].level <= totLevel)
      BY <1>5, <1>6, <1>9 DEF Topped
    <3>2. \A f \in New : files'[f].level <= totLevel'
      BY <1>8, <2>3
    <3>3. \A f \in Names : files'[f].level = 0 \/ files'[f].level <= totLevel'
      BY <2>2, <2>3, <3>1
    <3> QED BY ONLY <1>5, <3>2, <3>3
  <2>5. \A f \in Names' : files[f]'.level <= maxDir'
    <3>1. \A f \in Names : files'[f].level \in Nat /\ files'[f].level <= maxDir
      BY <1>5, <1>6, <1>9 DEF Topped
    <3>2. \A f \in New : files'[f].level <= maxDir'
      BY <1>8, <2>3
    <3>3. \A f \in Names : files'[f].level <= maxDir'
      BY <2>2, <2>3, <3>1
    <3> QED BY ONLY <1>5, <3>2, <3>3
  <2> QED BY <2>3, <2>4, <2>5 DEF Topped
<1>13. Filled'
  BY <1>5, <1>6, <1>8, <1>9 DEF Filled
<1>14. NoneDoomed'
  BY DEF Compact, NoneDoomed, IInv, Types, Control
<1> QED BY <1>10, <1>11, <1>12, <1>13, <1>14 DEF LevelsInv

LEMMA RemoveKeepsLevels ==
    ASSUME IInv, LevelsInv, NEW f \in ctl.doomed, RemoveFile(f)
    PROVE  LevelsInv' /\ Live' = Live /\ \A g \in Names' : files'[g] = files[g]
<1>1. Up /\ ctl \in Control /\ ctl.pc = "remove"
  BY DEF RemoveFile, At, Up, IInv, Types
<1>2. Names' = Names \ {f} /\ \A g \in Names' : files'[g] = files[g]
  BY DEF RemoveFile, Names
<1>3. ctl'.doomed = ctl.doomed \ {f} /\ (ctl'.pc # "remove" => ctl'.doomed = {})
  <2>1. CASE ctl.doomed = {f}
    <3>1. ctl' = [ctl EXCEPT !.pc = "check", !.doomed = {}, !.lev = ctl.lev + 1]
      BY <2>1 DEF RemoveFile
    <3> QED BY <1>1, <2>1, <3>1 DEF Control
  <2>2. CASE ctl.doomed # {f}
    <3>1. ctl' = [ctl EXCEPT !.doomed = ctl.doomed \ {f}]
      BY <2>2 DEF RemoveFile
    <3> QED BY <1>1, <3>1 DEF Control
  <2> QED BY <2>1, <2>2
<1>4. Live' = Live /\ Live \subseteq Names'
  BY <1>2, <1>3 DEF Live
<1>5. \A g \in Names' : g \in Names /\ Keys(g)' = Keys(g)
  BY <1>2 DEF Keys
<1>6. Disjoint /\ Ordered /\ Topped /\ Filled
  BY <1>1 DEF LevelsInv
<1>7. UNCHANGED <<totLevel, maxDir>>
  BY DEF RemoveFile
<1>8. Disjoint' /\ Ordered' /\ Topped' /\ Filled'
  BY <1>2, <1>4, <1>5, <1>6, <1>7 DEF Disjoint, Ordered, Topped, Filled
<1> QED BY <1>2, <1>3, <1>4, <1>8 DEF LevelsInv, NoneDoomed

LEMMA ResetKeepsLevels == ASSUME LevelsInv, reset PROVE LevelsInv'
<1>1. Up /\ ctl.pc = "idle" /\ UNCHANGED ctl
  BY DEF reset, Ready, At, Up
<1>2. totLevel \in Int /\ UNCHANGED totLevel /\ maxDir' = -1 /\ ctl'.doomed = {}
  BY <1>1 DEF LevelsInv, NoneDoomed, Topped, reset
<1>3. Names' = {} /\ Live' = {}
  <2>1. Names' = {}
    BY DEF reset, Names
  <2> QED BY <2>1 DEF Live
<1> QED BY <1>2, <1>3 DEF LevelsInv, Disjoint, Ordered, Topped, Filled, NoneDoomed

LEMMA ReopenKeepsLevels == ASSUME IInv, LevelsInv, Reopen PROVE LevelsInv' /\ Live' = Live
<1>1. ctl.pc = "down" /\ ctl' = Idle /\ UNCHANGED disk
  BY DEF Reopen, At
<1>2. Disjoint /\ Ordered /\ Topped /\ Filled /\ ctl.doomed = {}
  BY <1>1 DEF LevelsInv, NoneDoomed, At
<1>3. ctl'.doomed = {} /\ UNCHANGED <<files, maxDir>>
  BY <1>1 DEF Idle, disk
<1>4. Names' = Names /\ Live = Names /\ Live' = Names
  BY <1>2, <1>3 DEF Live, Names
<1>5. \A f : Keys(f)' = Keys(f)
  BY <1>3 DEF Keys
<1>6. totLevel' \in Int /\ (0 <= maxDir => maxDir <= totLevel')
  <2>1. PICK g \in Garbage : totLevel' = IF maxDir < 0 THEN g ELSE MaxOf({g, maxDir})
    BY DEF Reopen
  <2>2. g \in Int /\ maxDir \in Int
    BY <1>2 DEF Topped
  <2>3. MaxOf({g, maxDir}) \in {g, maxDir} /\ maxDir <= MaxOf({g, maxDir})
    <3>1. \E t \in {g, maxDir} : \A u \in {g, maxDir} : u <= t
      BY <2>2
    <3> QED BY <3>1 DEF MaxOf
  <2> QED BY <2>1, <2>2, <2>3
<1>7. Topped'
  <2>1. \A f \in Names : files[f].level \in Nat /\ files[f].level <= maxDir
    BY <1>2 DEF Topped, IInv, Tables, Sound
  <2>2. \A f \in Names : files[f].level <= totLevel'
    <3>1. maxDir \in Int
      BY <1>2 DEF Topped
    <3> QED BY <1>6, <2>1, <3>1
  <2> QED BY <1>2, <1>3, <1>4, <1>6, <2>2 DEF Topped
<1>8. Disjoint' /\ Ordered' /\ Filled'
  BY <1>2, <1>3, <1>4, <1>5 DEF Disjoint, Ordered, Filled
<1> QED BY <1>1, <1>3, <1>4, <1>7, <1>8 DEF LevelsInv, NoneDoomed

(* The steps that change neither the tables nor the top level.             *)
Quiet ==
    \/ NextLevel \/ SaveReturns \/ CompactFreed \/ GcEntry \/ GcPunch \/ close
    \/ \E k \in Key : Read(k) \/ del(k) \/ \E v \in PutValue : put(k, v)
    \/ \E chunk \in 1 .. MaxTail : gc(chunk)

LEMMA QuietSteps ==
    ASSUME Types, Quiet
    PROVE  /\ Up /\ ctl.pc # "remove" /\ ctl'.pc # "remove"
           /\ UNCHANGED <<files, totLevel, maxDir>>
           /\ ctl'.doomed \in {ctl.doomed, {}}
<1> DEFINE Conc == /\ Up /\ ctl.pc # "remove" /\ ctl'.pc # "remove"
                   /\ UNCHANGED <<files, totLevel, maxDir>>
                   /\ ctl'.doomed \in {ctl.doomed, {}}
<1>0. ctl \in Control
  BY DEF Types
<1>1. CASE NextLevel
  BY <1>0, <1>1 DEF NextLevel, At, Up, Control, disk, memory
<1>2. CASE SaveReturns
  <2>1. ctl.pc = "check" /\ ctl.ret \in {"put", "gcput", "close"}
        /\ ctl' = CASE ctl.ret = "put"   -> Idle
                    [] ctl.ret = "gcput" -> [ctl EXCEPT !.pc = "gc"]
                    [] ctl.ret = "close" -> [Idle EXCEPT !.pc = "down"]
    BY <1>0, <1>2 DEF SaveReturns, At, Control
  <2>2. ctl'.pc # "remove" /\ ctl'.doomed \in {ctl.doomed, {}}
    BY <1>0, <2>1 DEF Control, Idle
  <2> QED BY <1>2, <2>1, <2>2 DEF SaveReturns, disk, Up
<1>3. CASE CompactFreed
  BY <1>0, <1>3 DEF CompactFreed, Overflowing, At, Up, Control, disk, memory
<1>4. CASE close
  BY <1>0, <1>4 DEF close, Ready, At, Up, Control, disk, memory
<1>5. CASE GcPunch
  BY <1>0, <1>5 DEF GcPunch, At, Up, Control
<1>6. ASSUME NEW k, NEW v, NEW ret, PutInto(k, v, ret)
      PROVE  ctl'.pc \in {ctl.pc, "flush"} /\ ctl'.doomed = ctl.doomed
  BY <1>0, <1>6 DEF PutInto, Control
<1>7. CASE GcEntry
  <2>1. ctl'.pc \in {ctl.pc, "flush"} /\ ctl'.doomed = ctl.doomed
    <3>1. \/ PutInto(vlog[tail + 1].key, vlog[tail + 1].val, "gcput")
          \/ UNCHANGED ctl
      BY <1>7 DEF GcEntry
    <3> QED BY <1>6, <3>1
  <2>2. ctl.pc = "gc" /\ UNCHANGED <<files, maxDir, totLevel>>
    BY <1>7 DEF GcEntry, GcMore, At, disk
  <2> QED BY <2>1, <2>2 DEF Up
<1>8. ASSUME NEW k \in Key, Read(k) \/ del(k) \/ \E v \in PutValue : put(k, v) PROVE Conc
  <2>1. ctl'.pc \in {ctl.pc, "flush"} /\ ctl'.doomed = ctl.doomed
    <3>1. \/ \E v : PutInto(k, v, "put")
          \/ UNCHANGED ctl
      BY <1>8 DEF Read, del, put
    <3> QED BY <1>6, <3>1
  <2>2. ctl.pc = "idle" /\ UNCHANGED <<files, maxDir, totLevel>>
    BY <1>8 DEF Read, del, put, Ready, At, disk
  <2> QED BY <2>1, <2>2 DEF Up
<1>9. CASE \E chunk \in 1 .. MaxTail : gc(chunk)
  BY <1>0, <1>9 DEF gc, Ready, At, Up, Control, disk, memory
<1> QED BY <1>1, <1>2, <1>3, <1>4, <1>5, <1>7, <1>8, <1>9 DEF Quiet

(* The step of a store that is never killed, one kind at a time.           *)
LEMMA StepKinds ==
    ASSUME [CNext]_cvars
    PROVE  \/ SSTableGenerator \/ compaction \/ (\E f \in ctl.doomed : RemoveFile(f))
           \/ reset \/ Reopen \/ Quiet \/ UNCHANGED vars
BY DEF CNext, CInternal, Internal, Puts, Dels, Gcs, Reads, CReset, CClose, CReopen,
       CPut, CDel, CGc, CRead, cvars, Quiet

LEMMA StepsAreStoreSteps == ASSUME [CNext]_cvars PROVE [Next]_vars
BY DEF CNext, CInternal, Internal, Puts, Dels, Gcs, Reads, CReset, CClose, CReopen,
       CPut, CDel, CGc, CRead, cvars, Next, Client

LEMMA StepKeepsLevels ==
    ASSUME IInv, LevelsInv, LevelsFit, [CNext]_cvars
    PROVE  LevelsInv'
<1>1. CASE compaction
  BY <1>1, CompactKeepsLevels DEF compaction
<1>2. CASE Quiet
  <2>1. Types
    BY DEF IInv
  <2>2. /\ Up /\ ctl.pc # "remove"
        /\ UNCHANGED <<files, totLevel, maxDir>>
        /\ ctl'.doomed \in {ctl.doomed, {}}
    BY <1>2, <2>1, QuietSteps
  <2> QED BY <2>2, LevelsKept
<1>3. CASE UNCHANGED vars
  <2>1. UNCHANGED <<files, totLevel, maxDir, ctl>>
    BY <1>3 DEF vars, disk, memory
  <2> QED BY <2>1 DEF LevelsInv, Disjoint, Ordered, Topped, Filled, NoneDoomed,
                      Live, Names, Keys, Apart, Up, At
<1> QED BY <1>1, <1>2, <1>3, StepKinds, FlushKeepsLevels, RemoveKeepsLevels,
           ResetKeepsLevels, ReopenKeepsLevels

LEMMA LevelsInvSearchable ==
    ASSUME IInv, LevelsInv
    PROVE  LevelsSearchable
<1> SUFFICES ASSUME At("idle")
             PROVE  LevelsSearchable
  BY DEF LevelsSearchable, RangesDisjoint, UpperIsNewer
<1>1. Disjoint /\ Ordered /\ Filled /\ Live = Names
  BY DEF LevelsInv, NoneDoomed, At, Up, Live
<1>2. RangesDisjoint
  <2> SUFFICES ASSUME NEW f \in Names, NEW g \in Names, f # g,
                      files[f].level = files[g].level, files[f].level > 0
               PROVE  maxKey(f) < minKey(g) \/ maxKey(g) < minKey(f)
    BY DEF RangesDisjoint
  <2>1. Apart(Keys(f), Keys(g))
    BY <1>1 DEF Disjoint
  <2>2. /\ minKey(f) \in Keys(f) /\ maxKey(f) \in Keys(f)
        /\ minKey(g) \in Keys(g) /\ maxKey(g) \in Keys(g)
    BY <1>1, KeysOf
  <2> QED BY <2>1, <2>2 DEF Apart
<1>3. UpperIsNewer
  BY <1>1 DEF UpperIsNewer, Ordered
<1> QED BY <1>2, <1>3 DEF LevelsSearchable

(* As long as the counters' array is long enough, a store that is never    *)
(* killed keeps the tables of a level below level 0 apart and no version   *)
(* of a key above an older one (kvstore.cc compaction, getCandidates).     *)
THEOREM LevelsStaySearchable == CSpec /\ []LevelsFit => []LevelsSearchable
<1>1. CInit => IInv /\ LevelsInv
  BY InitInv, LevelsInit DEF CInit
<1>2. IInv /\ LevelsInv /\ LevelsFit /\ [CNext]_cvars => (IInv /\ LevelsInv)'
  BY StepsAreStoreSteps, NextInv, StepKeepsLevels
<1>3. IInv /\ LevelsInv => LevelsSearchable
  BY LevelsInvSearchable
<1> QED BY <1>1, <1>2, <1>3, PTL DEF CSpec

-----------------------------------------------------------------------------
(* How many tables a level holds.                                          *)

BoundInv == totLevel \in Int /\ totLevel >= -1 /\ WithinInv

(* A level that keeps its tables stays within its bound. *)
LEMMA WithinKept ==
    ASSUME NEW i, LiveAt(i)' = LiveAt(i), Within(i)
    PROVE  Within(i)'
BY DEF Within

LEMMA SameLevels ==
    ASSUME Live' = Live, \A f \in Live : files'[f] = files[f]
    PROVE  \A i : LiveAt(i)' = LiveAt(i)
BY DEF LiveAt

(* A level is as full as its counter says, when nothing is doomed.         *)
LEMMA CountedLive ==
    ASSUME IInv, LevelsInv, Up, ctl.pc # "remove", NEW i \in 0 .. NLevels - 1
    PROVE  levelCnt[i] = Cardinality(LiveAt(i)) /\ LiveAt(i) = AtLevel(i)
<1>1. Live = Names
  BY DEF LevelsInv, NoneDoomed, Live
<1>2. LiveAt(i) = AtLevel(i)
  BY <1>1 DEF LiveAt, AtLevel
<1> QED BY <1>2 DEF IInv, Types, Index, Counted

LEMMA EmptyWithin == ASSUME NEW i \in Nat, LiveAt(i) = {} PROVE Within(i)
<1>1. Cardinality({}) = 0 /\ Capacity(i) \in Nat
  BY FS_EmptySet, CapacityIsNat
<1> QED BY <1>1 DEF Within

LEMMA BoundInit ==
    ASSUME Init, \A g \in Garbage : g >= -1
    PROVE  BoundInv
<1>1. Names = {} /\ ctl.pc = "idle" /\ totLevel \in Garbage
  BY NoTables DEF Init, Fresh, Idle
<1>2. \A i \in Nat : LiveAt(i) = {}
  BY <1>1 DEF LiveAt, Live
<1>3. \A i \in Nat : Within(i)
  BY <1>2, EmptyWithin
<1> QED BY <1>1, <1>3 DEF BoundInv, WithinInv, At

LEMMA FlushKeepsBound == ASSUME IInv, LevelsInv, BoundInv, SSTableGenerator PROVE BoundInv'
<1>1. ctl \in Control /\ ctl.pc = "flush" /\ ctl' = [ctl EXCEPT !.pc = "check", !.lev = 0]
      /\ UNCHANGED totLevel
  BY DEF SSTableGenerator, At, IInv, Types
<1>2. ctl'.pc = "check" /\ ctl'.lev = 0 /\ ctl'.doomed = ctl.doomed
  BY <1>1 DEF Control
<1>3. \A i \in Nat : Within(i)
  BY <1>1 DEF BoundInv, WithinInv, At
<1>4. ASSUME NEW i \in Nat, i # 0 PROVE LiveAt(i)' = LiveAt(i)
  <2>1. CASE DOMAIN memTable = {}
    <3>1. UNCHANGED files
      BY <2>1 DEF SSTableGenerator, disk
    <3>2. Live' = Live
      BY <1>2, <3>1 DEF Live, Names
    <3> QED BY <3>1, <3>2 DEF LiveAt
  <2>2. CASE DOMAIN memTable # {}
    <3>1. PICK n : n = SScnt + 1
      OBVIOUS
    <3>2. /\ Live = Names /\ Names' = Names \cup {n} /\ Live' = Names'
          /\ \A f \in Names : files'[f] = files[f]
          /\ files'[n].level = 0
      <4>1. FlushedTable.level = 0
        BY DEF FlushedTable
      <4>2. /\ Live = Names /\ Names' = Names \cup {SScnt + 1} /\ Live' = Names'
            /\ \A f \in Names : files'[f] = files[f]
            /\ files'[SScnt + 1] = FlushedTable
        BY <2>2, FlushedLive
      <4> QED BY ONLY <3>1, <4>1, <4>2
    <3> QED BY <1>4, <3>2 DEF LiveAt
  <2> QED BY <2>1, <2>2
<1>5. \A i \in Nat : i # ctl'.lev => Within(i)'
  BY <1>2, <1>3, <1>4, WithinKept
<1> QED BY <1>1, <1>2, <1>5 DEF BoundInv, WithinInv, At

LEMMA CompactKeepsBound ==
    ASSUME IInv, LevelsInv, LevelsFit, BoundInv, Overflowing,
           NEW U \in Upper(ctl.lev), Compact(U)
    PROVE  BoundInv'
<1>1. PICK i : i = ctl.lev
  OBVIOUS
<1>2. PICK L : L = Lower(i, U)
  OBVIOUS
<1>3. PICK out : out = Outputs(i, U, L, NewTop)
  OBVIOUS
<1>4. PICK s : s = SScnt
  OBVIOUS
<1> DEFINE New == s + 1 .. s + Len(out)
<1>5. /\ i \in Nat /\ s \in Nat /\ Len(out) \in Nat
      /\ Live = Names /\ U \subseteq AtLevel(i) /\ L \subseteq AtLevel(i + 1)
      /\ \A f \in Names : f \in Nat /\ f <= s /\ files'[f] = files[f]
                          /\ files[f].level \in Nat /\ files[f].time \in Nat
      /\ Merges(out, i, U, L, NewTop)
      /\ \A c \in 1 .. Len(out) : Merged(out[c], i + 1, s)
      /\ Names' = Names \cup New
      /\ \A f \in New : files'[f] = out[f - s]
      /\ Live' = (Names \ (U \cup L)) \cup New
  BY <1>1, <1>2, <1>3, <1>4, CompactedLive
<1>6. \A f \in New : files'[f].level = i + 1
  <2> TAKE f \in New
  <2>1. f - s \in 1 .. Len(out)
    BY <1>5
  <2>2. files'[f] = out[f - s] /\ Merged(out[f - s], i + 1, s)
    BY <1>5, <2>1
  <2> QED BY ONLY <2>2 DEF Merged
<1> HIDE DEF New
<1>7. /\ \A f \in U : files[f].level = i
      /\ \A f \in L : files[f].level = i + 1
      /\ i + 1 # i
  BY <1>5 DEF AtLevel
<1>8. ctl'.pc = "remove" /\ ctl'.lev = i
  BY <1>1 DEF Compact, IInv, Types, Control
<1>9. \A j \in Nat : j # i => Within(j)
  BY <1>1 DEF BoundInv, WithinInv, Overflowing, At
<1>10. ASSUME NEW j \in Nat, j # i, j # i + 1 PROVE Within(j)'
  <2>1. LiveAt(j)' = LiveAt(j)
    BY <1>5, <1>6, <1>7, <1>10 DEF LiveAt
  <2> QED BY <1>9, <1>10, <2>1, WithinKept
<1>11. Within(i)'
  <2>1. LiveAt(i)' = AtLevel(i) \ U
    BY <1>5, <1>6, <1>7 DEF LiveAt, AtLevel
  <2>2. Cardinality(AtLevel(i) \ U) <= Capacity(i)
    BY <1>1, <1>2, CompactionTakes, Zenon
  <2> QED BY <2>1, <2>2 DEF Within
<1>12. totLevel' \in Int /\ totLevel' >= -1
  <2>1. totLevel' = NewTop /\ totLevel \in Int /\ totLevel >= -1
    BY DEF Compact, BoundInv
  <2> QED BY <1>1, <1>5, <2>1 DEF NewTop
<1>13. \A j \in Nat : j # i + 1 => Within(j)'
  BY <1>10, <1>11
<1> QED BY <1>8, <1>12, <1>13 DEF BoundInv, WithinInv, At

LEMMA RemoveKeepsBound ==
    ASSUME IInv, LevelsInv, BoundInv, NEW f \in ctl.doomed, RemoveFile(f)
    PROVE  BoundInv'
<1>1. ctl \in Control /\ ctl.pc = "remove" /\ UNCHANGED totLevel
  BY DEF RemoveFile, At, IInv, Types
<1>2. Live' = Live /\ \A g \in Names' : files'[g] = files[g]
  BY RemoveKeepsLevels
<1>3. \A i : LiveAt(i)' = LiveAt(i)
  <2>1. Live \subseteq Names'
    BY <1>2 DEF Live
  <2> QED BY <1>2, <2>1, SameLevels
<1>4. \A i \in Nat : i # ctl.lev + 1 => Within(i)'
  <2>1. \A i \in Nat : i # ctl.lev + 1 => Within(i)
    BY <1>1 DEF BoundInv, WithinInv, At
  <2> QED BY <1>3, <2>1, WithinKept
<1>5. \/ ctl'.pc = "remove" /\ ctl'.lev = ctl.lev
      \/ ctl'.pc = "check" /\ ctl'.lev = ctl.lev + 1
  <2>1. ctl' = IF ctl.doomed = {f}
               THEN [ctl EXCEPT !.pc = "check", !.doomed = {}, !.lev = ctl.lev + 1]
               ELSE [ctl EXCEPT !.doomed = ctl.doomed \ {f}]
    BY DEF RemoveFile
  <2> QED BY <1>1, <2>1 DEF Control
<1> QED BY <1>1, <1>4, <1>5 DEF BoundInv, WithinInv, At

LEMMA ResetKeepsBound == ASSUME IInv, BoundInv, reset PROVE BoundInv'
<1>1. ctl.pc = "idle" /\ UNCHANGED <<ctl, totLevel>>
  BY DEF reset, Ready, At
<1>2. \A i \in Nat : LiveAt(i)' = {}
  <2>1. Names' = {}
    BY DEF reset, Names
  <2> QED BY <2>1 DEF LiveAt, Live
<1>3. \A i \in Nat : Within(i)'
  <2>1. \A i \in Nat : Capacity(i) \in Nat /\ Cardinality({}) = 0
    BY CapacityIsNat, FS_EmptySet
  <2> QED BY <1>2, <2>1 DEF Within
<1> QED BY <1>1, <1>3 DEF BoundInv, WithinInv, At

LEMMA ReopenKeepsBound ==
    ASSUME IInv, LevelsInv, BoundInv, Reopen, \A g \in Garbage : g >= -1
    PROVE  BoundInv'
<1>1. ctl.pc = "down" /\ ctl'.pc = "idle" /\ UNCHANGED <<files, maxDir>>
  BY DEF Reopen, Idle, disk, At
<1>2. \A i : LiveAt(i)' = LiveAt(i)
  <2>1. Live' = Live
    BY ReopenKeepsLevels
  <2> QED BY <1>1, <2>1 DEF LiveAt
<1>3. \A i \in Nat : Within(i)
  BY <1>1 DEF BoundInv, WithinInv, At
<1>4. totLevel' \in Int /\ totLevel' >= -1
  <2>1. PICK g \in Garbage : totLevel' = IF maxDir < 0 THEN g ELSE MaxOf({g, maxDir})
    BY DEF Reopen
  <2>2. g \in Int /\ g >= -1 /\ maxDir \in Int
    BY <1>1 DEF LevelsInv, Topped, At
  <2>3. MaxOf({g, maxDir}) \in {g, maxDir}
    <3>1. \E t \in {g, maxDir} : \A u \in {g, maxDir} : u <= t
      BY <2>2
    <3> QED BY <3>1 DEF MaxOf
  <2> QED BY <2>1, <2>2, <2>3
<1> QED BY <1>1, <1>2, <1>3, <1>4, WithinKept DEF BoundInv, WithinInv, At

(* Past the last level there is nothing to count. *)
LEMMA LoopEnds ==
    ASSUME IInv, LevelsInv, BoundInv, SaveReturns
    PROVE  \A i \in Nat : Within(i)
<1>1. ctl.pc = "check" /\ ctl.lev \in Nat /\ ctl.lev > LastLevel
  BY DEF SaveReturns, At, IInv, Types, Control
<1>2. totLevel \in Int /\ totLevel >= -1
  BY DEF BoundInv
<1>3. ctl.lev > 0 /\ ctl.lev > totLevel
  BY <1>1, <1>2 DEF LastLevel
<1>4. LiveAt(ctl.lev) = {}
  <2>1. \A f \in Live : files[f].level = 0 \/ files[f].level <= totLevel
    BY <1>1 DEF LevelsInv, Up, At, Topped
  <2> QED BY <1>1, <1>2, <1>3, <2>1 DEF LiveAt
<1>5. \A i \in Nat : i # ctl.lev => Within(i)
  BY <1>1 DEF BoundInv, WithinInv, At
<1> QED BY <1>1, <1>4, <1>5, EmptyWithin

LEMMA QuietKeepsBound == ASSUME IInv, LevelsInv, LevelsFit, BoundInv, Quiet PROVE BoundInv'
<1>1. /\ Up /\ ctl.pc # "remove" /\ ctl'.pc # "remove"
      /\ UNCHANGED <<files, totLevel, maxDir>>
      /\ ctl'.doomed \in {ctl.doomed, {}}
  BY QuietSteps DEF IInv
<1>2. \A i : LiveAt(i)' = LiveAt(i)
  <2>1. Live' = Live
    BY <1>1, LevelsKept
  <2> QED BY <1>1, <2>1 DEF LiveAt
<1>3. ctl \in Control
  BY DEF IInv, Types
<1>4. CASE NextLevel
  <2>1. ctl' = [ctl EXCEPT !.lev = ctl.lev + 1] /\ ctl.pc = "check" /\ ctl.lev \in Nat
        /\ ctl.lev <= LastLevel /\ levelCnt[ctl.lev] <= Capacity(ctl.lev)
    BY <1>3, <1>4 DEF NextLevel, At, Control
  <2>2. ctl.lev \in 0 .. NLevels - 1
    BY <2>1 DEF LevelsFit, At, IInv, Types
  <2>3. Within(ctl.lev)
    BY <1>1, <2>1, <2>2, CountedLive DEF Within
  <2>4. \A i \in Nat : i # ctl.lev => Within(i)
    BY <2>1 DEF BoundInv, WithinInv, At
  <2>5. \A i \in Nat : Within(i)'
    BY <1>2, <2>3, <2>4, WithinKept
  <2>6. ctl'.pc = "check"
    BY <1>3, <2>1 DEF Control
  <2> QED BY <1>1, <2>5, <2>6 DEF BoundInv, WithinInv, At
<1>5. CASE CompactFreed
  <2>1. ctl'.pc = "undefined"
    BY <1>3, <1>5 DEF CompactFreed, Control
  <2> QED BY <1>1, <2>1 DEF BoundInv, WithinInv, At
<1>6. CASE ~NextLevel /\ ~CompactFreed
  <2>1. \A i \in Nat : Within(i)
    <3>1. CASE SaveReturns
      BY <3>1, LoopEnds
    <3>2. CASE ~SaveReturns
      <4>1. ctl.pc \in {"idle", "gc"}
        BY <1>6, <3>2 DEF Quiet, GcEntry, GcMore, GcPunch, close, Read, del, put, gc, Ready, At
      <4> QED BY <4>1 DEF BoundInv, WithinInv, At
    <3> QED BY <3>1, <3>2
  <2>2. \A i \in Nat : Within(i)'
    BY <1>2, <2>1, WithinKept
  <2> QED BY <1>1, <2>2 DEF BoundInv, WithinInv, At
<1> QED BY <1>4, <1>5, <1>6

LEMMA StepKeepsBound ==
    ASSUME IInv, LevelsInv, LevelsFit, BoundInv, [CNext]_cvars, \A g \in Garbage : g >= -1
    PROVE  BoundInv'
<1>1. CASE compaction
  BY <1>1, CompactKeepsBound DEF compaction
<1>2. CASE UNCHANGED vars
  <2>1. UNCHANGED <<files, totLevel, ctl>>
    BY <1>2 DEF vars, disk, memory
  <2> QED BY <2>1 DEF BoundInv, WithinInv, Within, LiveAt, Live, Names, At
<1> QED BY <1>1, <1>2, StepKinds, FlushKeepsBound, RemoveKeepsBound,
           ResetKeepsBound, ReopenKeepsBound, QuietKeepsBound

(* ... and if the constructor leaves a top level of at least -1, so that   *)
(* checkLevel looks at level 0, no level holds more than LevelBase << i    *)
(* tables between two operations.                                          *)
THEOREM LevelsStaySound ==
    ASSUME \A g \in Garbage : g >= -1
    PROVE  CSpec /\ []LevelsFit => []LevelsSound
<1>1. CInit => IInv /\ LevelsInv /\ BoundInv
  BY InitInv, LevelsInit, BoundInit DEF CInit
<1>2. IInv /\ LevelsInv /\ BoundInv /\ LevelsFit /\ [CNext]_cvars
        => (IInv /\ LevelsInv /\ BoundInv)'
  BY StepsAreStoreSteps, NextInv, StepKeepsLevels, StepKeepsBound
<1>3. IInv /\ LevelsInv /\ BoundInv => LevelsSound
  <2> SUFFICES ASSUME IInv, LevelsInv, BoundInv PROVE LevelsSound
    OBVIOUS
  <2>1. ASSUME At("idle"), NEW i \in DOMAIN levelCnt PROVE levelCnt[i] <= Capacity(i)
    <3>1. Up /\ ctl.pc # "remove" /\ i \in 0 .. NLevels - 1 /\ i \in Nat
      BY <2>1 DEF At, Up, IInv, Types
    <3>2. levelCnt[i] = Cardinality(LiveAt(i))
      BY <3>1, CountedLive
    <3>3. Within(i)
      BY <2>1, <3>1 DEF BoundInv, WithinInv, At
    <3> QED BY <3>1, <3>2, <3>3 DEF Within
  <2> QED BY <2>1, LevelsInvSearchable DEF LevelsSound, LevelBound
<1> QED BY <1>1, <1>2, <1>3, PTL DEF CSpec

-----------------------------------------------------------------------------
(* No two tables with a key in common have the same time. *)
NoTies ==
    \A f, g \in Live : f # g /\ files[f].time = files[g].time => Keys(f) \cap Keys(g) = {}

Best(f, k) ==
    /\ f \in Live /\ k \in Keys(f)
    /\ \A g \in Live : g # f /\ k \in Keys(g) => files[g].time < files[f].time
Has(k) == \E f \in Live : k \in Keys(f)
Entry(f, k) == files[f].ent[k]

Text == Value \cup {Empty}

LogInv ==
    /\ vlog \in Seq([key : Nat, val : Text])
    /\ hole <= tail /\ tail <= Len(vlog)
    /\ \A f \in Names : \A k \in Keys(f) :
          /\ Entry(f, k) \in [off : 1 .. Len(vlog), len : {0, 1}]
          /\ vlog[Entry(f, k).off].key = k
          /\ Entry(f, k).len = 0 <=> vlog[Entry(f, k).off].val = Empty

DiskShows(k) ==
    /\ \A f : Best(f, k) => getByOffset(Entry(f, k).off) = dict[k]
    /\ ~Has(k) => dict[k] = Empty
AboveTail(k) == \A f : Best(f, k) => Entry(f, k).off > tail

Flushed == ctl.pc \in {"check", "remove"}
MemInv ==
    /\ dict \in [Key -> Text]
    /\ \A k \in DOMAIN memTable : memTable[k] \in Text \cup {Deleted}
    /\ At("idle") => \A k \in DOMAIN memTable : memTable[k] # Empty
    /\ At("down") => DOMAIN memTable = {}
    /\ ~Flushed => \A k \in DOMAIN memTable : dict[k] = Stored(memTable[k])
ViewInv ==
    \A k \in Key :
        /\ Flushed \/ memGet(k) = Empty => DiskShows(k)
        /\ Flushed \/ k \notin DOMAIN memTable => AboveTail(k)
DataInv == ~At("undefined") => LogInv /\ MemInv /\ ViewInv

(* The tables a step adds. *)
Added == Names' \ Names

LEMMA BestExists ==
    ASSUME IInv, Up, Live = Names, NoTies, NEW k, Has(k)
    PROVE  \E f : Best(f, k)
<1>1. Tables /\ Lists(sstFiles, Names)
  BY DEF IInv, Index
<1>2. \E f \in Names \cup {} : Holds(f, k)
  BY DEF Has, Holds, Keys
<1>3. PICK w \in Names : /\ Holds(w, k)
                         /\ \A f \in Names : Holds(f, k) => files[f].time <= files[w].time
  <2>1. /\ Winner(Names, {}, k) \in Names /\ Holds(Winner(Names, {}, k), k)
        /\ \A f \in Names \cup {} : Holds(f, k)
              => files[f].time <= files[Winner(Names, {}, k)].time
    BY <1>1, <1>2, WinnerHolds
  <2> QED BY <2>1
<1>4. ASSUME NEW g \in Names, g # w, Holds(g, k) PROVE files[g].time < files[w].time
  <2>1. files[g].time <= files[w].time /\ files[g].time # files[w].time
    BY <1>3, <1>4 DEF NoTies, Holds, Keys
  <2>2. files[g].time \in Nat /\ files[w].time \in Nat
    BY <1>1 DEF Tables, Sound
  <2> QED BY <2>1, <2>2
<1> QED BY <1>3, <1>4 DEF Best, Holds, Keys

LEMMA BestIsUnique ==
    ASSUME Tables, Live = Names, NEW k, NEW f, Best(f, k),
           NEW g \in Names, Holds(g, k), files[g].time >= files[f].time
    PROVE  g = f
<1>1. f \in Names /\ files[g].time \in Nat /\ files[f].time \in Nat
  BY DEF Best, Tables, Sound
<1> QED BY <1>1 DEF Best, Holds, Keys

(* Without ties a lookup finds the newest table that holds the key.        *)
LEMMA Lookup ==
    ASSUME IInv, Up, Live = Names, NoTies, NEW k
    PROVE  /\ ~Has(k) => Listed(k) = {} /\ getOffsetFromSSTable(k) = NoOffset
           /\ Has(k) => /\ Listed(k) # {}
                        /\ \E f : Best(f, k) /\ getOffsetFromSSTable(k) = Entry(f, k).off
<1>1. Tables /\ Lists(sstFiles, Names)
  BY DEF IInv, Index
<1>2. /\ \A p \in 1 .. Len(sstFiles) : sstFiles[p] \in Names
      /\ \A f \in Names : \E p \in 1 .. Len(sstFiles) : sstFiles[p] = f
      /\ \A p, q \in 1 .. Len(sstFiles) : sstFiles[p] = sstFiles[q] => p = q
      /\ Len(sstFiles) \in Nat
  <2>1. \A p, q \in 1 .. Len(sstFiles) : sstFiles[p] = sstFiles[q] => p = q
    BY <1>1 DEF Lists
  <2> QED BY <1>1, <2>1, Listing
<1>3. Listed(k) = {} <=> ~Has(k)
  BY <1>2 DEF Listed, Has, Holds, Keys
<1>4. Listed(k) = {} => getOffsetFromSSTable(k) = NoOffset
  BY DEF getOffsetFromSSTable
<1>5. ASSUME Has(k)
      PROVE  \E f : Best(f, k) /\ getOffsetFromSSTable(k) = Entry(f, k).off
  <2>1. PICK f : Best(f, k)
    BY <1>5, BestExists
  <2>2. f \in Names /\ Holds(f, k)
    BY <2>1 DEF Best, Holds, Keys
  <2>3. PICK p \in Listed(k) : sstFiles[p] = f
    BY <1>2, <2>2 DEF Listed
  <2> DEFINE Time(q) == files[sstFiles[q]].time
             First(q) == \A r \in Listed(k) :
                             Time(q) > Time(r) \/ (Time(q) = Time(r) /\ q <= r)
             best == CHOOSE q \in Listed(k) : First(q)
  <2>4. \A q \in Listed(k) : q \in Nat /\ sstFiles[q] \in Names /\ Holds(sstFiles[q], k)
                             /\ Time(q) \in Nat
    <3>1. \A q \in Listed(k) : q \in 1 .. Len(sstFiles) /\ Holds(sstFiles[q], k)
      BY DEF Listed
    <3>2. \A g \in Names : files[g].time \in Nat
      BY <1>1 DEF Tables, Sound
    <3> QED BY <1>2, <3>1, <3>2
  <2>5. First(p)
    <3> SUFFICES ASSUME NEW r \in Listed(k)
                 PROVE  Time(p) > Time(r) \/ (Time(p) = Time(r) /\ p <= r)
      OBVIOUS
    <3>1. CASE sstFiles[r] = f
      <4>1. r = p
        BY <1>2, <2>3, <3>1 DEF Listed
      <4> QED BY <2>4, <4>1
    <3>2. CASE sstFiles[r] # f
      <4>1. files[sstFiles[r]].time < files[f].time
        BY <2>1, <2>4, <3>2 DEF Best, Live, Holds, Keys
      <4> QED BY <2>3, <2>4, <4>1
    <3> QED BY <3>1, <3>2
  <2>6. best \in Listed(k) /\ First(best)
    <3> HIDE DEF First
    <3> QED BY <2>5
  <2>7. sstFiles[best] = f
    <3>1. Time(best) >= Time(p)
      <4> HIDE DEF best, Time
      <4> QED BY <2>3, <2>4, <2>6
    <3> QED BY <1>1, <2>1, <2>3, <2>4, <2>6, <3>1, BestIsUnique
  <2>8. getOffsetFromSSTable(k) = files[sstFiles[best]].ent[k].off
    <3>1. Listed(k) # {}
      BY <2>3
    <3> QED BY <3>1 DEF getOffsetFromSSTable
  <2> QED BY <2>1, <2>7, <2>8 DEF Entry
<1> QED BY <1>3, <1>4, <1>5

(* The entries a flush appends: the key of rank r has the place r + 1.     *)
LEMMA FlushedEntries ==
    ASSUME NEW K, K = DOMAIN memTable, IsFiniteSet(K), K \subseteq Nat
    PROVE  /\ \A k \in K : Rank(K, k) \in 0 .. Cardinality(K) - 1
           /\ \A k \in K : FlushedLog[Rank(K, k) + 1] = [key |-> k, val |-> Stored(memTable[k])]
           /\ Len(FlushedLog) = Cardinality(K) /\ Cardinality(K) \in Nat
           /\ \A n \in 1 .. Cardinality(K) : \E k \in K : n = Rank(K, k) + 1
<1>1. PICK R : R = {p \in K \X K : p[1] < p[2]}
  OBVIOUS
<1>2. /\ Orders(R, K)
      /\ \A k \in K : /\ Rank(K, k) = Cardinality(Below(K, R, k))
                      /\ Rank(K, k) \in 0 .. Cardinality(K) - 1
  <2>1. K \in SUBSET Nat /\ IsFiniteSet(K)
    OBVIOUS
  <2> QED BY ONLY <1>1, <2>1, NaturalOrder
<1>3. Orders(R, K) /\ IsFiniteSet(K)
  BY <1>2
<1>4. Cardinality(K) \in Nat
  BY FS_CardinalityType
<1>5. \A k \in K : Rank(K, k) \in 0 .. Cardinality(K) - 1
  BY <1>2
<1>6. \A j, k \in K : Rank(K, j) = Rank(K, k) => j = k
  <2> TAKE j \in K, k \in K
  <2> HAVE Rank(K, j) = Rank(K, k)
  <2>1. Cardinality(Below(K, R, j)) = Cardinality(Below(K, R, k))
    BY <1>2
  <2> QED BY ONLY <1>3, <2>1, RanksDiffer
<1>7. \A n \in 1 .. Cardinality(K) : \E k \in K : n = Rank(K, k) + 1
  <2> TAKE n \in 1 .. Cardinality(K)
  <2>1. n - 1 \in 0 .. Cardinality(K) - 1
    BY <1>4
  <2>2. \E k \in K : Cardinality(Below(K, R, k)) = n - 1
    BY ONLY <1>3, <2>1, RankReached
  <2>3. PICK k \in K : Rank(K, k) = n - 1
    BY <1>2, <2>2
  <2> QED BY <1>4, <2>3
<1> DEFINE Nth(n) == CHOOSE k \in K : Rank(K, k) = n - 1
<1>8. FlushedLog = [n \in 1 .. Cardinality(K) |->
                       [key |-> Nth(n), val |-> Stored(memTable[Nth(n)])]]
  BY DEF FlushedLog
<1>9. \A k \in K : Nth(Rank(K, k) + 1) = k
  <2> TAKE k \in K
  <2>1. Rank(K, k) \in Nat /\ (Rank(K, k) + 1) - 1 = Rank(K, k)
    BY <1>4, <1>5
  <2>2. \A j \in K : Rank(K, j) = (Rank(K, k) + 1) - 1 <=> j = k
    BY <1>6, <2>1
  <2> QED BY <2>2
<1> HIDE DEF Nth
<1>10. ASSUME NEW k \in K
       PROVE  FlushedLog[Rank(K, k) + 1] = [key |-> k, val |-> Stored(memTable[k])]
  <2>1. Rank(K, k) + 1 \in 1 .. Cardinality(K)
    BY <1>4, <1>5
  <2> QED BY <1>8, <1>9, <2>1
<1>11. Len(FlushedLog) = Cardinality(K)
  BY <1>4, <1>8
<1> QED BY <1>4, <1>5, <1>7, <1>10, <1>11

-----------------------------------------------------------------------------
(* Steps that change no table.                                             *)

LEMMA DataInit == ASSUME CInit PROVE DataInv
<1>1. /\ Names = {} /\ vlog = <<>> /\ hole = 0 /\ tail = 0 /\ memTable = NoTable
      /\ dict = [k \in Key |-> Empty] /\ ctl.pc = "idle"
  BY NoTables DEF CInit, Init, Fresh, Idle
<1>2. DOMAIN memTable = {} /\ \A k : ~Has(k) /\ \A f : ~Best(f, k)
  BY <1>1 DEF NoTable, Has, Best, Live
<1>3. LogInv
  <2>1. vlog \in Seq([key : Nat, val : Text]) /\ Len(vlog) = 0
    BY <1>1, EmptySeq
  <2> QED BY <1>1, <2>1 DEF LogInv
<1>4. MemInv
  BY <1>1, <1>2 DEF MemInv, Text
<1>5. ViewInv
  BY <1>1, <1>2 DEF ViewInv, DiskShows, AboveTail
<1> QED BY <1>3, <1>4, <1>5 DEF DataInv

LEMMA SameTables ==
    ASSUME Live' = Live, \A f \in Live : files'[f] = files[f], NEW k
    PROVE  /\ Has(k)' <=> Has(k)
           /\ \A f : Best(f, k)' <=> Best(f, k)
           /\ \A f : Best(f, k) => Entry(f, k)' = Entry(f, k)
BY DEF Has, Best, Entry, Keys

LEMMA SameView ==
    ASSUME Live' = Live, \A f \in Live : files'[f] = files[f], UNCHANGED <<vlog, hole>>,
           NEW k, dict'[k] = dict[k]
    PROVE  /\ DiskShows(k) => DiskShows(k)'
           /\ UNCHANGED tail /\ AboveTail(k) => AboveTail(k)'
<1>1. /\ Has(k)' <=> Has(k)
      /\ \A f : Best(f, k)' <=> Best(f, k)
      /\ \A f : Best(f, k) => Entry(f, k)' = Entry(f, k)
  BY SameTables
<1>2. DiskShows(k) => DiskShows(k)'
  BY <1>1 DEF DiskShows, getByOffset
<1>3. UNCHANGED tail /\ AboveTail(k) => AboveTail(k)'
  BY <1>1 DEF AboveTail
<1> QED BY <1>2, <1>3

LEMMA SameLog ==
    ASSUME LogInv, Names' \subseteq Names, \A f \in Names' : files'[f] = files[f],
           UNCHANGED <<vlog, hole, tail>>
    PROVE  LogInv'
<1>1. \A f \in Names' : f \in Names /\ Keys(f)' = Keys(f)
  BY DEF Keys
<1>2. \A f \in Names' : \A k \in Keys(f) : Entry(f, k)' = Entry(f, k)
  BY DEF Entry
<1> QED BY <1>1, <1>2 DEF LogInv

LEMMA PutIntoMemory ==
    ASSUME Types, MemInv, ~Flushed, ctl.pc # "down",
           NEW k \in Key, NEW v \in Text \cup {Deleted}, At("idle") => v # Empty,
           NEW ret, PutInto(k, v, ret), dict' \in [Key -> Text], dict'[k] = Stored(v),
           \A j \in Key \ {k} : dict'[j] = dict[j]
    PROVE  /\ MemInv' /\ ~Flushed' /\ ctl'.pc \in {ctl.pc, "flush"}
           /\ DOMAIN memTable' = DOMAIN memTable \cup {k} /\ memGet(k)' = v
           /\ \A j \in Key \ {k} : memGet(j)' = memGet(j)
<1>1. ctl'.pc \in {ctl.pc, "flush"}
  BY DEF PutInto, Types, Control
<1>2. /\ DOMAIN memTable' = DOMAIN memTable \cup {k}
      /\ \A j \in DOMAIN memTable \cup {k} :
            memTable'[j] = IF j = k THEN v ELSE memTable[j]
  BY DEF PutInto, memPut
<1>3. DOMAIN memTable \subseteq Key
  BY DEF Types
<1>4. memGet(k)' = v /\ \A j \in Key \ {k} : memGet(j)' = memGet(j)
  BY <1>2 DEF memGet
<1>5. ~Flushed' /\ ~At("down")' /\ (At("idle")' => At("idle"))
  BY <1>1 DEF Flushed, At
<1>6. ASSUME NEW j \in DOMAIN memTable'
      PROVE  /\ memTable'[j] \in Text \cup {Deleted}
             /\ At("idle")' => memTable'[j] # Empty
             /\ dict'[j] = Stored(memTable'[j])
  <2>1. CASE j = k
    BY <1>2, <1>5, <2>1
  <2>2. CASE j # k
    <3>1. j \in DOMAIN memTable /\ j \in Key /\ memTable'[j] = memTable[j] /\ dict'[j] = dict[j]
      BY <1>2, <1>3, <2>2
    <3> QED BY <1>5, <3>1 DEF MemInv
  <2> QED BY <2>1, <2>2
<1>7. MemInv'
  <2>1. \A j \in DOMAIN memTable' : Stored(memTable[j])' = Stored(memTable'[j])
    BY DEF Stored
  <2> QED BY <1>5, <1>6, <2>1 DEF MemInv, At
<1> QED BY <1>1, <1>2, <1>4, <1>5, <1>7

(* The client's view is kept when one key goes into the memory table.      *)
LEMMA PutIntoView ==
    ASSUME ViewInv, ~Flushed, ~Flushed', UNCHANGED <<files, vlog, hole, tail>>, Live' = Live,
           NEW k \in Key, DOMAIN memTable' = DOMAIN memTable \cup {k},
           memGet(k)' # Empty,
           \A j \in Key \ {k} : memGet(j)' = memGet(j) /\ dict'[j] = dict[j]
    PROVE  ViewInv'
<1> SUFFICES ASSUME NEW j \in Key
             PROVE  /\ memGet(j)' = Empty => DiskShows(j)'
                    /\ j \notin DOMAIN memTable' => AboveTail(j)'
  BY DEF ViewInv
<1>1. CASE j = k
  BY <1>1
<1>2. CASE j # k
  <2>1. dict'[j] = dict[j]
    BY <1>2
  <2>2. /\ DiskShows(j) => DiskShows(j)'
        /\ AboveTail(j) => AboveTail(j)'
    BY <2>1, SameView
  <2>3. /\ memGet(j) = Empty => DiskShows(j)
        /\ j \notin DOMAIN memTable => AboveTail(j)
    BY DEF ViewInv
  <2> QED BY <1>2, <2>2, <2>3
<1> QED BY <1>1, <1>2

LEMMA QuietLive ==
    ASSUME Types, LevelsInv, Quiet
    PROVE  Up /\ UNCHANGED files /\ Live' = Live /\ Live = Names
<1>1. /\ Up /\ ctl.pc # "remove" /\ ctl'.pc # "remove"
      /\ UNCHANGED <<files, totLevel, maxDir>>
      /\ ctl'.doomed \in {ctl.doomed, {}}
  BY QuietSteps
<1>2. Live' = Live
  BY <1>1, LevelsKept
<1>3. Live = Names
  BY <1>1 DEF LevelsInv, NoneDoomed, Live
<1> QED BY <1>1, <1>2, <1>3

LEMMA PutKeepsData ==
    ASSUME IInv, LevelsInv, DataInv, NEW k \in Key, NEW v \in PutValue, v # Empty, CPut(k, v)
    PROVE  DataInv'
<1>1. /\ put(k, v) /\ dict' = [dict EXCEPT ![k] = v]
      /\ PutInto(k, v, "put") /\ ctl.pc = "idle"
      /\ UNCHANGED <<files, vlog, hole, tail>>
  BY DEF CPut, put, Ready, At, disk
<1>2. LogInv /\ MemInv /\ ViewInv /\ Types /\ ~Flushed
  BY <1>1 DEF DataInv, IInv, Flushed, At
<1>3. Live' = Live
  <2>1. Quiet
    BY <1>1 DEF Quiet
  <2> QED BY <1>2, <2>1, QuietLive
<1>4. v \in Text /\ Stored(v) = v
  BY DEF Text, Stored
<1>5. /\ dict' \in [Key -> Text] /\ dict'[k] = Stored(v)
      /\ \A j \in Key \ {k} : dict'[j] = dict[j]
  BY <1>1, <1>2, <1>4 DEF MemInv
<1>6. /\ MemInv' /\ ~Flushed' /\ ctl'.pc \in {ctl.pc, "flush"}
      /\ DOMAIN memTable' = DOMAIN memTable \cup {k} /\ memGet(k)' = v
      /\ \A j \in Key \ {k} : memGet(j)' = memGet(j)
  <2>1. v \in Text \cup {Deleted} /\ ctl.pc # "down"
    BY <1>1, <1>4
  <2> QED BY <1>1, <1>2, <1>5, <2>1, PutIntoMemory
<1>7. ViewInv'
  BY <1>1, <1>2, <1>3, <1>5, <1>6, PutIntoView
<1>8. LogInv'
  BY <1>1, <1>2, SameLog DEF Names
<1> QED BY <1>6, <1>7, <1>8 DEF DataInv

(* The client deletes a key: the memory table gets it, or it was not there *)
(* to begin with.                                                          *)
LEMMA DelKeepsData ==
    ASSUME IInv, LevelsInv, DataInv, NoTies, NEW k \in Key, CDel(k)
    PROVE  DataInv'
<1>1. /\ del(k) /\ dict' = [dict EXCEPT ![k] = Empty] /\ ctl.pc = "idle"
      /\ UNCHANGED <<files, vlog, hole, tail>>
  BY DEF CDel, del, Ready, At, disk
<1>2. LogInv /\ MemInv /\ ViewInv /\ Types /\ ~Flushed
  BY <1>1 DEF DataInv, IInv, Flushed, At
<1>3. Live' = Live /\ Live = Names /\ Up
  <2>1. Quiet
    BY <1>1 DEF Quiet
  <2> QED BY <1>2, <2>1, QuietLive
<1>4. LogInv'
  BY <1>1, <1>2, SameLog DEF Names
<1>5. /\ dict' \in [Key -> Text] /\ dict'[k] = Stored(Deleted) /\ Deleted # Empty
      /\ \A j \in Key \ {k} : dict'[j] = dict[j]
  BY <1>1, <1>2 DEF MemInv, Stored, Text
<1>6. CASE \E ret : PutInto(k, Deleted, ret)
  <2>1. PICK ret : PutInto(k, Deleted, ret)
    BY <1>6
  <2>2. /\ MemInv' /\ ~Flushed' /\ ctl'.pc \in {ctl.pc, "flush"}
        /\ DOMAIN memTable' = DOMAIN memTable \cup {k} /\ memGet(k)' = Deleted
        /\ \A j \in Key \ {k} : memGet(j)' = memGet(j)
    <3>1. Deleted \in Text \cup {Deleted} /\ ctl.pc # "down"
      BY <1>1
    <3> QED BY <1>2, <1>5, <2>1, <3>1, PutIntoMemory
  <2>3. ViewInv'
    BY <1>1, <1>2, <1>3, <1>5, <2>2, PutIntoView
  <2> QED BY <1>4, <2>2, <2>3 DEF DataInv
<1>7. CASE k \in DOMAIN memTable
  <2>1. memTable' = memPut(memTable, k, Deleted) /\ UNCHANGED ctl
    BY <1>1, <1>7 DEF del
  <2>2. /\ DOMAIN memTable' = DOMAIN memTable \cup {k} /\ memGet(k)' = Deleted
        /\ \A j \in Key \ {k} : memGet(j)' = memGet(j)
        /\ \A j \in DOMAIN memTable' : memTable'[j] = IF j = k THEN Deleted ELSE memTable[j]
    BY <1>7, <2>1 DEF memPut, memGet
  <2>3. ~Flushed' /\ ctl'.pc = "idle"
    BY <1>1, <2>1 DEF Flushed, At
  <2>4. \A j \in DOMAIN memTable' : /\ memTable'[j] \in Text \cup {Deleted}
                                   /\ memTable'[j] # Empty
                                   /\ dict'[j] = Stored(memTable'[j])
    <3> TAKE j \in DOMAIN memTable'
    <3>1. CASE j = k
      BY <1>5, <2>2, <3>1
    <3>2. CASE j # k
      <4>1. j \in DOMAIN memTable /\ j \in Key /\ memTable'[j] = memTable[j]
        BY <1>2, <2>2, <3>2 DEF Types
      <4>2. dict'[j] = dict[j]
        BY <1>5, <3>2, <4>1
      <4> QED BY <1>1, <1>2, <4>1, <4>2 DEF MemInv, At
    <3> QED BY <3>1, <3>2
  <2>5. MemInv'
    <3>1. \A j \in DOMAIN memTable' : Stored(memTable[j])' = Stored(memTable'[j])
      BY DEF Stored
    <3> QED BY <1>5, <2>3, <2>4, <3>1 DEF MemInv, At
  <2>6. ViewInv'
    BY <1>1, <1>2, <1>3, <1>5, <2>2, <2>3, PutIntoView
  <2> QED BY <1>4, <2>5, <2>6 DEF DataInv
<1>8. CASE k \notin DOMAIN memTable /\ ~delReturns(k)
  <2>1. UNCHANGED <<memTable, ctl>>
    BY <1>1, <1>8 DEF del
  <2>2. dict[k] = Empty
    <3>1. DiskShows(k)
      BY <1>2, <1>8 DEF ViewInv, memGet
    <3>2. CASE ~Has(k)
      BY <3>1, <3>2 DEF DiskShows
    <3>3. CASE Has(k)
      <4>1. PICK f : Best(f, k) /\ getOffsetFromSSTable(k) = Entry(f, k).off
        BY <1>3, <3>3, Lookup
      <4>2. Entry(f, k).off \in 1 .. Len(vlog)
        BY <1>2, <1>3, <4>1 DEF LogInv, Best
      <4>3. getByOffset(Entry(f, k).off) = Empty
        BY <1>8, <4>1, <4>2 DEF delReturns, NoOffset
      <4> QED BY <3>1, <4>1, <4>3 DEF DiskShows
    <3> QED BY <3>2, <3>3
  <2>3. UNCHANGED dict
    BY <1>1, <1>2, <2>2 DEF MemInv
  <2>4. MemInv' /\ (Flushed' <=> Flushed)
    BY <1>2, <2>1, <2>3 DEF MemInv, Flushed, At, Stored
  <2>5. ViewInv'
    <3>1. \A j : memGet(j)' = memGet(j)
      BY <2>1 DEF memGet
    <3>2. \A j : /\ DiskShows(j) => DiskShows(j)'
                 /\ AboveTail(j) => AboveTail(j)'
      BY <1>1, <1>3, <2>3, SameView
    <3> QED BY <1>2, <2>1, <2>4, <3>1, <3>2 DEF ViewInv
  <2> QED BY <1>4, <2>4, <2>5 DEF DataInv
<1>9. CASE k \notin DOMAIN memTable /\ delReturns(k)
  BY <1>1, <1>6, <1>9 DEF del
<1> QED BY <1>7, <1>8, <1>9

(* Steps that change nothing the client can see. *)
LEMMA IdleKeepsData ==
    ASSUME IInv, LevelsInv, DataInv, UNCHANGED dict,
           \/ NextLevel \/ SaveReturns \/ CompactFreed \/ close
           \/ (\E k \in Key : Read(k)) \/ (\E chunk \in 1 .. MaxTail : gc(chunk))
    PROVE  DataInv'
<1>0. Quiet /\ Types
  BY DEF Quiet, IInv
<1>1. Up /\ Live' = Live /\ Live = Names /\ Names' = Names
      /\ \A f : files'[f] = files[f]
  BY <1>0, QuietLive DEF Names
<1>2. UNCHANGED <<vlog, hole, tail>>
  BY DEF NextLevel, SaveReturns, CompactFreed, close, Read, gc, disk, memory
<1>3. LogInv /\ MemInv /\ ViewInv
  BY <1>1 DEF DataInv, Up, At
<1>4. LogInv'
  BY <1>1, <1>2, <1>3, SameLog
<1>5. \A k : /\ DiskShows(k) => DiskShows(k)'
             /\ AboveTail(k) => AboveTail(k)'
  BY <1>1, <1>2, SameView
<1>6. ctl \in Control
  BY <1>0 DEF Types
<1>7. CASE SaveReturns
  <2>1. Flushed /\ DOMAIN memTable' = {}
    BY <1>7 DEF SaveReturns, Flushed, At, NoTable
  <2>2. MemInv'
    BY <1>3, <2>1 DEF MemInv
  <2>3. ViewInv'
    BY <1>3, <1>5, <2>1 DEF ViewInv
  <2> QED BY <1>4, <2>2, <2>3 DEF DataInv
<1>8. CASE CompactFreed
  BY <1>6, <1>8 DEF DataInv, CompactFreed, Control, At
<1>9. CASE ~SaveReturns /\ ~CompactFreed
  <2>1. UNCHANGED memTable
    BY <1>9 DEF NextLevel, close, Read, gc, memory
  <2>2. (Flushed' <=> Flushed) /\ ~At("down")' /\ (At("idle")' => At("idle"))
    <3>1. \/ ctl.pc = "check" /\ ctl' = [ctl EXCEPT !.lev = ctl.lev + 1]
          \/ ctl.pc = "idle" /\ ctl' = [ctl EXCEPT !.pc = "flush", !.ret = "close", !.freed = sstCache]
          \/ ctl.pc = "idle" /\ UNCHANGED ctl
          \/ ctl.pc = "idle" /\ \E chunk \in 1 .. MaxTail :
                                    ctl' = [ctl EXCEPT !.pc = "gc", !.last = tail + chunk]
      BY <1>9 DEF NextLevel, close, Read, gc, Ready, At
    <3> QED BY <1>6, <3>1 DEF Control, Flushed, At
  <2>3. MemInv'
    BY <1>3, <2>1, <2>2 DEF MemInv, Stored, At
  <2>4. ViewInv'
    BY <1>3, <1>5, <2>1, <2>2 DEF ViewInv, memGet
  <2> QED BY <1>4, <2>3, <2>4 DEF DataInv
<1> QED BY <1>7, <1>8, <1>9

LEMMA RemoveKeepsData ==
    ASSUME IInv, LevelsInv, DataInv, UNCHANGED dict, NEW f \in ctl.doomed, RemoveFile(f)
    PROVE  DataInv'
<1>1. ctl \in Control /\ ctl.pc = "remove" /\ UNCHANGED <<vlog, hole, tail, memTable>>
  BY DEF RemoveFile, At, IInv, Types
<1>2. Live' = Live /\ (\A g \in Names' : files'[g] = files[g]) /\ Names' \subseteq Names
      /\ Live \subseteq Names'
  <2>1. Live' = Live /\ \A g \in Names' : files'[g] = files[g]
    BY RemoveKeepsLevels
  <2>2. Names' \subseteq Names
    BY DEF RemoveFile, Names
  <2> QED BY <2>1, <2>2 DEF Live
<1>3. LogInv /\ MemInv /\ ViewInv /\ Flushed
  BY <1>1 DEF DataInv, At, Flushed
<1>4. LogInv'
  BY <1>1, <1>2, <1>3, SameLog
<1>5. \A k : /\ DiskShows(k) => DiskShows(k)'
             /\ AboveTail(k) => AboveTail(k)'
  BY <1>1, <1>2, SameView
<1>6. Flushed' /\ ~At("idle")' /\ ~At("down")'
  <2>1. ctl' = IF ctl.doomed = {f}
               THEN [ctl EXCEPT !.pc = "check", !.doomed = {}, !.lev = ctl.lev + 1]
               ELSE [ctl EXCEPT !.doomed = ctl.doomed \ {f}]
    BY DEF RemoveFile
  <2> QED BY <1>1, <2>1 DEF Control, Flushed, At
<1>7. MemInv'
  BY <1>1, <1>3, <1>6 DEF MemInv
<1>8. ViewInv'
  BY <1>3, <1>5 DEF ViewInv
<1> QED BY <1>4, <1>7, <1>8 DEF DataInv

LEMMA ResetKeepsData == ASSUME CReset PROVE DataInv'
<1>1. /\ Names' = {} /\ vlog' = <<>> /\ hole' = 0 /\ tail' = 0 /\ DOMAIN memTable' = {}
      /\ dict' = [k \in Key |-> Empty]
  BY DEF CReset, reset, Names, NoTable
<1>2. \A k : ~Has(k)' /\ \A f : ~Best(f, k)'
  BY <1>1 DEF Has, Best, Live
<1>3. LogInv'
  <2>1. vlog' \in Seq([key : Nat, val : Text]) /\ Len(vlog') = 0
    BY <1>1, EmptySeq
  <2> QED BY <1>1, <2>1 DEF LogInv
<1>4. MemInv'
  BY <1>1 DEF MemInv, Text
<1>5. ViewInv'
  BY <1>1, <1>2 DEF ViewInv, DiskShows, AboveTail
<1> QED BY <1>3, <1>4, <1>5 DEF DataInv

LEMMA ReopenKeepsData ==
    ASSUME IInv, LevelsInv, DataInv, CReopen
    PROVE  DataInv'
<1>1. /\ Reopen /\ ctl.pc = "down" /\ UNCHANGED <<files, vlog, hole, dict>>
      /\ DOMAIN memTable' = {} /\ tail' = hole
  BY DEF CReopen, Reopen, At, disk, NoTable
<1>2. Live' = Live /\ Names' = Names
  BY <1>1, ReopenKeepsLevels DEF Names
<1>3. LogInv /\ MemInv /\ ViewInv /\ ~Flushed /\ DOMAIN memTable = {}
  BY <1>1 DEF DataInv, At, Flushed, MemInv
<1>4. tail' <= tail /\ tail \in Nat /\ hole \in Nat /\ hole <= Len(vlog)
  <2>1. tail \in Nat /\ hole \in Nat /\ Len(vlog) \in Nat
    BY <1>3, LenProperties DEF IInv, Types, LogInv
  <2> QED BY <1>1, <1>3, <2>1 DEF LogInv
<1>5. LogInv'
  <2>1. \A f \in Names : Keys(f)' = Keys(f) /\ \A k : Entry(f, k)' = Entry(f, k)
    BY <1>1 DEF Keys, Entry
  <2> QED BY <1>1, <1>2, <1>3, <1>4, <2>1 DEF LogInv
<1>6. \A k \in Key : DiskShows(k) /\ AboveTail(k)
  BY <1>3 DEF ViewInv, memGet
<1>7. ASSUME NEW k \in Key PROVE DiskShows(k)' /\ AboveTail(k)'
  <2>1. DiskShows(k)'
    BY <1>1, <1>2, <1>6, SameView
  <2>2. AboveTail(k)'
    <3> SUFFICES ASSUME NEW f, Best(f, k)' PROVE (Entry(f, k).off > tail)'
      BY DEF AboveTail
    <3>1. Best(f, k) /\ Entry(f, k)' = Entry(f, k)
      BY <1>1, <1>2, SameTables
    <3>2. Entry(f, k).off > tail /\ Entry(f, k).off \in Int
      <4>1. f \in Names /\ k \in Keys(f)
        BY <3>1 DEF Best, Live
      <4> QED BY <1>3, <1>6, <3>1, <4>1 DEF AboveTail, LogInv
    <3>3. Entry(f, k).off > tail'
      BY <1>1, <1>4, <3>2
    <3> QED BY ONLY <3>1, <3>3
  <2> QED BY <2>1, <2>2
<1>8. MemInv'
  BY <1>1, <1>3 DEF MemInv
<1>9. ViewInv'
  BY <1>7 DEF ViewInv
<1> QED BY <1>5, <1>8, <1>9 DEF DataInv

-----------------------------------------------------------------------------
(* A flush.                                                                *)

(* The log grows by the entries of the memory table ...                    *)
LEMMA FlushedText ==
    ASSUME Types, MemInv, vlog \in Seq([key : Nat, val : Text]), vlog' = vlog \o FlushedLog,
           NEW K, K = DOMAIN memTable
    PROVE  /\ vlog' \in Seq([key : Nat, val : Text])
           /\ Len(vlog) \in Nat /\ Len(vlog') = Len(vlog) + Cardinality(K)
           /\ Cardinality(K) \in Nat
           /\ \A n \in 1 .. Len(vlog) : vlog'[n] = vlog[n]
           /\ \A k \in K : /\ Rank(K, k) \in 0 .. Cardinality(K) - 1
                           /\ vlog'[Len(vlog) + Rank(K, k) + 1]
                                 = [key |-> k, val |-> Stored(memTable[k])]
<1>1. IsFiniteSet(K) /\ K \subseteq Nat
  BY DEF Types
<1>2. /\ \A k \in K : Rank(K, k) \in 0 .. Cardinality(K) - 1
      /\ \A k \in K : FlushedLog[Rank(K, k) + 1] = [key |-> k, val |-> Stored(memTable[k])]
      /\ Len(FlushedLog) = Cardinality(K) /\ Cardinality(K) \in Nat
      /\ \A n \in 1 .. Cardinality(K) : \E k \in K : n = Rank(K, k) + 1
  BY <1>1, FlushedEntries
<1>3. \A k \in K : [key |-> k, val |-> Stored(memTable[k])] \in [key : Nat, val : Text]
  <2>1. \A k \in K : k \in Nat /\ memTable[k] \in Text \cup {Deleted}
    BY <1>1 DEF MemInv
  <2> QED BY <2>1 DEF Stored, Text
<1>4. FlushedLog \in Seq([key : Nat, val : Text])
  <2>1. ASSUME NEW n \in 1 .. Cardinality(K) PROVE FlushedLog[n] \in [key : Nat, val : Text]
    <3>1. PICK k \in K : n = Rank(K, k) + 1
      BY <1>2
    <3>2. FlushedLog[n] = [key |-> k, val |-> Stored(memTable[k])]
      BY <1>2, <3>1
    <3> QED BY ONLY <1>3, <3>2
  <2>2. FlushedLog = [n \in 1 .. Cardinality(K) |-> FlushedLog[n]]
    BY DEF FlushedLog
  <2>3. FlushedLog \in [1 .. Cardinality(K) -> [key : Nat, val : Text]]
    BY <2>1, <2>2
  <2> QED
    <3>1. PICK S : S = [key : Nat, val : Text]
      OBVIOUS
    <3>2. FlushedLog \in [1 .. Cardinality(K) -> S] /\ Cardinality(K) \in Nat
      BY ONLY <1>2, <2>3, <3>1
    <3>3. FlushedLog \in Seq(S)
      BY ONLY <3>2, SeqDef, Zenon
    <3> QED BY ONLY <3>1, <3>3
<1>5. /\ vlog' \in Seq([key : Nat, val : Text])
      /\ Len(vlog') = Len(vlog) + Len(FlushedLog)
      /\ \A n \in 1 .. Len(vlog) + Len(FlushedLog) :
            vlog'[n] = IF n <= Len(vlog) THEN vlog[n] ELSE FlushedLog[n - Len(vlog)]
      /\ Len(vlog) \in Nat
  BY <1>4, ConcatProperties, LenProperties
<1>6. ASSUME NEW k \in K
      PROVE  vlog'[Len(vlog) + Rank(K, k) + 1] = FlushedLog[Rank(K, k) + 1]
  <2>1. PICK r \in 0 .. Cardinality(K) - 1 : r = Rank(K, k)
    BY <1>2
  <2>2. /\ Len(vlog) + r + 1 \in 1 .. Len(vlog) + Cardinality(K)
        /\ ~(Len(vlog) + r + 1 <= Len(vlog))
        /\ (Len(vlog) + r + 1) - Len(vlog) = r + 1
    BY <1>2, <1>5
  <2> QED BY <1>2, <1>5, <2>1, <2>2
<1>7. \A n \in 1 .. Len(vlog) : vlog'[n] = vlog[n]
  BY <1>2, <1>5
<1> QED BY <1>2, <1>5, <1>6, <1>7

(* ... and the new table, newer than all others, shows them.               *)
LEMMA FlushKeepsData ==
    ASSUME IInv, LevelsInv, DataInv, UNCHANGED dict, SSTableGenerator
    PROVE  DataInv'
<1>1. /\ ctl \in Control /\ ctl.pc = "flush" /\ ctl' = [ctl EXCEPT !.pc = "check", !.lev = 0]
      /\ UNCHANGED <<memTable, tail, hole>>
  BY DEF SSTableGenerator, At, IInv, Types, disk
<1>2. ctl'.pc = "check" /\ ctl'.doomed = ctl.doomed
  BY <1>1 DEF Control
<1>3. LogInv /\ MemInv /\ ViewInv /\ ~Flushed /\ Types
  BY <1>1 DEF DataInv, At, Flushed, IInv
<1>4. MemInv'
  BY <1>1, <1>2, <1>3 DEF MemInv, At, Flushed
<1>5. CASE DOMAIN memTable = {}
  <2>1. UNCHANGED <<files, vlog>>
    BY <1>5 DEF SSTableGenerator, disk
  <2>2. Live' = Live /\ Names' = Names
    BY <1>2, <2>1 DEF Live, Names
  <2>3. LogInv'
    BY <1>1, <1>3, <2>1, <2>2, SameLog
  <2>4. \A k : /\ DiskShows(k) => DiskShows(k)'
               /\ AboveTail(k) => AboveTail(k)'
    BY <1>1, <2>1, <2>2, SameView
  <2>5. \A k \in Key : DiskShows(k) /\ AboveTail(k)
    BY <1>3, <1>5 DEF ViewInv, memGet
  <2>6. ViewInv'
    BY <2>4, <2>5 DEF ViewInv
  <2> QED BY <1>4, <2>3, <2>6 DEF DataInv
<1>6. CASE DOMAIN memTable # {}
  <2>1. PICK K : K = DOMAIN memTable
    OBVIOUS
  <2>2. PICK n \in Nat : n = SScnt + 1
    BY DEF IInv, Types
  <2>3. PICK len \in Nat : len = Len(vlog)
    BY <1>3, LenProperties DEF LogInv
  <2>4. /\ n \notin Names
        /\ Live = Names /\ Names' = Names \cup {n} /\ Live' = Names'
        /\ \A f \in Names : files'[f] = files[f] /\ Keys(f)' = Keys(f)
        /\ \A f \in Names : \A k \in Keys(f) : Entry(f, k)' = Entry(f, k)
        /\ files'[n] = FlushedTable /\ files'[n].time = n
        /\ \A f \in Names : files[f].time \in Nat /\ files[f].time < n
    <3>1. FlushedTable.time = SScnt + 1
      BY DEF FlushedTable
    <3>2. /\ SScnt \in Nat /\ SScnt + 1 \notin Names
          /\ Live = Names /\ Names' = Names \cup {SScnt + 1} /\ Live' = Names'
          /\ \A f \in Names : files'[f] = files[f]
          /\ files'[SScnt + 1] = FlushedTable
          /\ \A f \in Names : files[f].level \in Nat /\ files[f].time \in Nat
                              /\ files[f].time <= SScnt
      BY <1>6, FlushedLive
    <3> QED BY ONLY <2>2, <3>1, <3>2 DEF Keys, Entry
  <2>5. /\ vlog' \in Seq([key : Nat, val : Text])
        /\ Len(vlog') = len + Cardinality(K) /\ Cardinality(K) \in Nat
        /\ \A m \in 1 .. len : vlog'[m] = vlog[m]
        /\ \A k \in K : /\ Rank(K, k) \in 0 .. Cardinality(K) - 1
                        /\ vlog'[len + Rank(K, k) + 1]
                              = [key |-> k, val |-> Stored(memTable[k])]
    <3>1. vlog' = vlog \o FlushedLog /\ vlog \in Seq([key : Nat, val : Text])
      BY <1>3, <1>6 DEF SSTableGenerator, LogInv
    <3> QED BY <1>3, <2>1, <2>3, <3>1, FlushedText
  <2>6. /\ Keys(n)' = K
        /\ \A k \in K : Entry(n, k)' = [off |-> len + Rank(K, k) + 1,
                                        len |-> IF Stored(memTable[k]) = Empty THEN 0 ELSE 1]
    <3>1. FlushedTable.ent
            = [k \in K |-> [off |-> len + Rank(K, k) + 1,
                            len |-> IF Stored(memTable[k]) = Empty THEN 0 ELSE 1]]
      BY <2>1, <2>3 DEF FlushedTable
    <3>2. Keys(n)' = DOMAIN FlushedTable.ent
          /\ \A k : Entry(n, k)' = FlushedTable.ent[k]
      BY <2>4 DEF Keys, Entry
    <3> QED BY ONLY <3>1, <3>2
  <2>7. tail \in Nat /\ hole \in Nat /\ hole <= tail /\ tail <= len
    BY <1>3, <2>3 DEF LogInv, Types
  <2>8. \A k \in K : /\ k \in Key
                     /\ Entry(n, k)'.off \in 1 .. Len(vlog') /\ Entry(n, k)'.off > tail
                     /\ vlog'[Entry(n, k)'.off].key = k
                     /\ vlog'[Entry(n, k)'.off].val = dict[k]
                     /\ Entry(n, k)' \in [off : 1 .. Len(vlog'), len : {0, 1}]
                     /\ Entry(n, k)'.len = 0 <=> dict[k] = Empty
    <3> TAKE k \in K
    <3>1. PICK r \in 0 .. Cardinality(K) - 1 : r = Rank(K, k)
      BY <2>5
    <3>2. Entry(n, k)' = [off |-> len + r + 1,
                          len |-> IF Stored(memTable[k]) = Empty THEN 0 ELSE 1]
      BY <2>6, <3>1
    <3>3. len + r + 1 \in 1 .. Len(vlog') /\ len + r + 1 > tail
      BY ONLY <2>3, <2>5, <2>7, <3>1
    <3>4. k \in Key /\ dict[k] = Stored(memTable[k])
      BY <1>3, <2>1 DEF MemInv, Types
    <3>5. vlog'[len + r + 1] = [key |-> k, val |-> Stored(memTable[k])]
      BY <2>5, <3>1
    <3> QED BY ONLY <3>2, <3>3, <3>4, <3>5
  <2>9. ASSUME NEW f \in Names, NEW k \in Keys(f)
        PROVE  /\ Entry(f, k) \in [off : 1 .. len, len : {0, 1}]
               /\ Entry(f, k) \in [off : 1 .. Len(vlog'), len : {0, 1}]
               /\ vlog'[Entry(f, k).off] = vlog[Entry(f, k).off]
               /\ vlog[Entry(f, k).off].key = k
               /\ Entry(f, k).len = 0 <=> vlog[Entry(f, k).off].val = Empty
    <3>1. /\ Entry(f, k) \in [off : 1 .. len, len : {0, 1}]
          /\ vlog[Entry(f, k).off].key = k
          /\ Entry(f, k).len = 0 <=> vlog[Entry(f, k).off].val = Empty
      BY <1>3, <2>3 DEF LogInv
    <3>2. 1 .. len \subseteq 1 .. Len(vlog')
      BY <2>3, <2>5
    <3> QED BY <2>5, <3>1, <3>2
  <2>10. LogInv'
    <3>1. hole' <= tail' /\ tail' <= Len(vlog')
      <4>1. hole' = hole /\ tail' = tail /\ Len(vlog') = len + Cardinality(K)
            /\ Cardinality(K) \in Nat /\ len \in Nat
        BY <1>1, <2>3, <2>5
      <4> QED BY ONLY <2>7, <4>1
    <3>2. ASSUME NEW f \in Names', NEW k \in Keys(f)'
          PROVE  /\ Entry(f, k)' \in [off : 1 .. Len(vlog'), len : {0, 1}]
                 /\ vlog'[Entry(f, k)'.off].key = k
                 /\ Entry(f, k)'.len = 0 <=> vlog'[Entry(f, k)'.off].val = Empty
      <4>1. CASE f = n
        BY <2>6, <2>8, <3>2, <4>1
      <4>2. CASE f \in Names
        BY <2>4, <2>9, <3>2, <4>2
      <4> QED BY <2>4, <4>1, <4>2
    <3> QED BY ONLY <2>5, <3>1, <3>2 DEF LogInv
  <2>11. ASSUME NEW k \in K, NEW f, Best(f, k)' PROVE f = n
    <3>1. n \in Live' /\ k \in Keys(n)' /\ f \in Names \cup {n}
      BY <2>4, <2>6, <2>11 DEF Best
    <3>2. f # n => files'[n].time < files'[f].time
      BY <2>11, <3>1 DEF Best
    <3>3. f \in Names => files'[f].time < n /\ files'[f].time \in Nat
      BY <2>4
    <3> QED BY ONLY <2>2, <2>4, <3>1, <3>2, <3>3
  <2>12. ASSUME NEW k \in Key \ K
         PROVE  /\ \A f : Best(f, k)' => Best(f, k)
                /\ Has(k)' <=> Has(k)
    <3>1. \A f \in Live' : k \in Keys(f)' <=> f \in Names /\ k \in Keys(f)
      BY <2>4, <2>6
    <3>2. Has(k)' <=> Has(k)
      BY <2>4, <3>1 DEF Has
    <3>3. \A f : Best(f, k)' => Best(f, k)
      BY <2>4, <3>1 DEF Best
    <3> QED BY <3>2, <3>3
  <2>13. ASSUME NEW k \in Key PROVE DiskShows(k)' /\ AboveTail(k)'
    <3>1. CASE k \in K
      <4>1. Has(k)'
        BY <2>4, <2>6, <3>1 DEF Has
      <4>2. getByOffset(Entry(n, k).off)' = dict'[k]
        <5>1. ~(Entry(n, k)'.off <= hole')
          BY <1>1, <2>7, <2>8, <3>1
        <5> QED BY <2>8, <3>1, <5>1 DEF getByOffset
      <4>3. Entry(n, k)'.off > tail'
        BY <1>1, <2>8, <3>1
      <4> QED BY <2>11, <3>1, <4>1, <4>2, <4>3 DEF DiskShows, AboveTail
    <3>2. CASE k \notin K
      <4>1. DiskShows(k) /\ AboveTail(k)
        BY <1>3, <2>1, <3>2 DEF ViewInv, memGet
      <4>2. \A f : Best(f, k)' => /\ Best(f, k) /\ f \in Names /\ k \in Keys(f)
                                  /\ Entry(f, k)' = Entry(f, k)
                                  /\ vlog'[Entry(f, k).off] = vlog[Entry(f, k).off]
        BY <2>4, <2>9, <2>12, <3>2 DEF Best, Live
      <4>3. DiskShows(k)'
        BY <1>1, <2>12, <3>2, <4>1, <4>2 DEF DiskShows, getByOffset
      <4>4. AboveTail(k)'
        BY <1>1, <4>1, <4>2 DEF AboveTail
      <4> QED BY <4>3, <4>4
    <3> QED BY <3>1, <3>2
  <2>14. ViewInv'
    BY <2>13 DEF ViewInv
  <2> QED BY <1>4, <2>10, <2>14 DEF DataInv
<1> QED BY <1>5, <1>6

-----------------------------------------------------------------------------
(* Garbage collection.                                                     *)

(* The entry that is looked at: if it is the newest of its key it goes     *)
(* into the memory table; if not, no lookup needs it.                      *)
LEMMA GcEntryKeepsData ==
    ASSUME IInv, LevelsInv, DataInv, NoTies, UNCHANGED dict, GcEntry
    PROVE  DataInv'
<1>0. Quiet /\ Types
  BY DEF Quiet, IInv
<1>1. Up /\ Live' = Live /\ Live = Names /\ Names' = Names /\ UNCHANGED <<files, vlog, hole>>
  BY <1>0, QuietLive DEF Names, GcEntry, disk
<1>2. LogInv /\ MemInv /\ ViewInv /\ ctl.pc = "gc" /\ ~Flushed
  BY <1>1 DEF DataInv, At, GcEntry, GcMore, Up, Flushed
<1>3. PICK e : e = vlog[tail + 1]
  OBVIOUS
<1>4. PICK len \in Nat : len = Len(vlog)
  BY <1>2, LenProperties DEF LogInv
<1>5. /\ tail' = tail + 1 /\ tail \in Nat /\ tail < len
      /\ hole <= tail /\ hole \in Nat
  BY <1>0, <1>2, <1>4 DEF GcEntry, GcMore, Types, LogInv
<1>6. tail + 1 \in 1 .. len /\ e \in [key : Nat, val : Text]
  <2>1. tail + 1 \in 1 .. len
    BY <1>5
  <2> QED BY <1>2, <1>3, <1>4, <2>1, ElementOfSeq DEF LogInv
<1>7. LogInv'
  <2>1. \A f \in Names : Keys(f)' = Keys(f) /\ \A k : Entry(f, k)' = Entry(f, k)
    BY <1>1 DEF Keys, Entry
  <2>2. hole' <= tail' /\ tail' <= Len(vlog')
    BY <1>1, <1>4, <1>5
  <2> QED BY <1>1, <1>2, <2>1, <2>2 DEF LogInv
<1>8. \A k : DiskShows(k) => DiskShows(k)'
  BY <1>1, SameView
<1>9. ASSUME NEW k \in Key, AboveTail(k),
             \A f : Best(f, k) => Entry(f, k).off # tail + 1
      PROVE  AboveTail(k)'
  <2> SUFFICES ASSUME NEW f, Best(f, k)' PROVE (Entry(f, k).off > tail)'
    BY DEF AboveTail
  <2>1. Best(f, k) /\ Entry(f, k)' = Entry(f, k)
    BY <1>1, SameTables
  <2>2. Entry(f, k).off \in Nat
    BY <1>1, <1>2, <2>1 DEF LogInv, Best
  <2>3. Entry(f, k).off > tail'
    BY <1>5, <1>9, <2>1, <2>2 DEF AboveTail
  <2> QED BY ONLY <2>1, <2>3
<1>10. ASSUME NEW k \in Key, k # e.key, NEW f, Best(f, k) PROVE Entry(f, k).off # tail + 1
  <2>1. vlog[Entry(f, k).off].key = k
    BY <1>1, <1>2, <1>10 DEF LogInv, Best
  <2> QED BY <1>3, <1>10, <2>1
<1>11. CASE checkOffset(e.key, tail + 1)
  <2>1. memGet(e.key) = Empty /\ getOffsetFromSSTable(e.key) = tail + 1
    BY <1>11 DEF checkOffset
  <2>2. PutInto(e.key, e.val, "gcput")
    BY <1>3, <1>11 DEF GcEntry
  <2>3. Has(e.key)
    <3>1. tail + 1 # NoOffset
      BY <1>5 DEF NoOffset
    <3> QED BY <1>1, <2>1, <3>1, Lookup
  <2>4. PICK f : Best(f, e.key) /\ Entry(f, e.key).off = tail + 1
    BY <1>1, <2>1, <2>3, Lookup
  <2>5. e.key \in Key
    BY <1>1, <2>4 DEF Best, Keys, IInv, Tables, Sound
  <2>6. dict[e.key] = e.val
    <3>1. DiskShows(e.key)
      BY <1>2, <2>1, <2>5 DEF ViewInv
    <3>2. getByOffset(tail + 1) = e.val
      BY <1>3, <1>5 DEF getByOffset
    <3> QED BY <2>4, <3>1, <3>2 DEF DiskShows
  <2>7. e.val \in Text /\ Stored(e.val) = e.val
    BY <1>6 DEF Stored, Text
  <2>8. /\ MemInv' /\ ~Flushed'
        /\ DOMAIN memTable' = DOMAIN memTable \cup {e.key} /\ memGet(e.key)' = e.val
        /\ \A j \in Key \ {e.key} : memGet(j)' = memGet(j)
    <3>1. PICK k \in Key, v \in Text \cup {Deleted} : k = e.key /\ v = e.val
      BY <2>5, <2>7
    <3>2. /\ Types /\ MemInv /\ ~Flushed /\ ctl.pc # "down" /\ ~At("idle")
          /\ PutInto(k, v, "gcput") /\ dict' \in [Key -> Text] /\ dict'[k] = Stored(v)
          /\ \A j \in Key \ {k} : dict'[j] = dict[j]
      BY <1>0, <1>2, <2>2, <2>6, <2>7, <3>1 DEF MemInv, At
    <3>3. /\ MemInv' /\ ~Flushed'
          /\ DOMAIN memTable' = DOMAIN memTable \cup {k} /\ memGet(k)' = v
          /\ \A j \in Key \ {k} : memGet(j)' = memGet(j)
      BY <3>2, PutIntoMemory
    <3> QED BY ONLY <3>1, <3>3
  <2>9. ViewInv'
    <3> SUFFICES ASSUME NEW j \in Key
                 PROVE  /\ memGet(j)' = Empty => DiskShows(j)'
                        /\ j \notin DOMAIN memTable' => AboveTail(j)'
      BY <2>8 DEF ViewInv
    <3>1. CASE j = e.key
      <4>1. DiskShows(j)
        BY <1>2, <2>1, <3>1 DEF ViewInv
      <4> QED BY <1>8, <2>8, <3>1, <4>1
    <3>2. CASE j # e.key
      <4>1. memGet(j) = Empty => DiskShows(j)
        BY <1>2 DEF ViewInv
      <4>2. j \notin DOMAIN memTable => AboveTail(j)
        BY <1>2 DEF ViewInv
      <4> QED BY <1>8, <1>9, <1>10, <2>8, <3>2, <4>1, <4>2
    <3> QED BY <3>1, <3>2
  <2> QED BY <1>7, <2>8, <2>9 DEF DataInv
<1>12. CASE ~checkOffset(e.key, tail + 1)
  <2>1. UNCHANGED <<memTable, ctl>>
    BY <1>3, <1>12 DEF GcEntry
  <2>2. MemInv' /\ (Flushed' <=> Flushed)
    BY <1>2, <2>1 DEF MemInv, Flushed, At, Stored
  <2>3. ASSUME NEW k \in Key, k \notin DOMAIN memTable, NEW f, Best(f, k)
        PROVE  Entry(f, k).off # tail + 1
    <3>1. CASE k # e.key
      BY <1>10, <2>3, <3>1
    <3>2. CASE k = e.key
      <4>1. memGet(k) = Empty
        BY <2>3 DEF memGet
      <4>2. getOffsetFromSSTable(k) # tail + 1
        BY <1>12, <3>2, <4>1 DEF checkOffset
      <4>3. Has(k)
        BY <2>3 DEF Best, Has
      <4>4. PICK g : Best(g, k) /\ getOffsetFromSSTable(k) = Entry(g, k).off
        BY <1>1, <4>3, Lookup
      <4>5. g = f
        <5>1. /\ files[g].time \in Nat /\ files[f].time \in Nat
          BY <1>1, <2>3, <4>4 DEF Best, IInv, Tables, Sound
        <5> QED BY <2>3, <4>4, <5>1 DEF Best
      <4> QED BY <4>2, <4>4, <4>5
    <3> QED BY <3>1, <3>2
  <2>4. ViewInv'
    <3> SUFFICES ASSUME NEW j \in Key
                 PROVE  /\ memGet(j)' = Empty => DiskShows(j)'
                        /\ j \notin DOMAIN memTable' => AboveTail(j)'
      BY <1>2, <2>2 DEF ViewInv
    <3>1. memGet(j)' = memGet(j)
      BY <2>1 DEF memGet
    <3>2. memGet(j) = Empty => DiskShows(j)
      BY <1>2 DEF ViewInv
    <3>3. j \notin DOMAIN memTable => AboveTail(j)
      BY <1>2 DEF ViewInv
    <3> QED BY <1>8, <1>9, <2>1, <2>3, <3>1, <3>2, <3>3
  <2> QED BY <1>7, <2>2, <2>4 DEF DataInv
<1> QED BY <1>11, <1>12

(* The hole: every key whose newest entry is below the tail is in memory.  *)
LEMMA GcPunchKeepsData ==
    ASSUME IInv, LevelsInv, DataInv, UNCHANGED dict, GcPunch
    PROVE  DataInv'
<1>0. Quiet /\ Types
  BY DEF Quiet, IInv
<1>1. /\ Up /\ Live' = Live /\ Live = Names /\ Names' = Names
      /\ UNCHANGED <<files, memTable>>
  BY <1>0, QuietLive DEF Names, GcPunch
<1>2. LogInv /\ MemInv /\ ViewInv /\ ctl.pc = "gc" /\ ~Flushed
  BY <1>1 DEF DataInv, At, GcPunch, Up, Flushed
<1>3. PICK len \in Nat : len = Len(vlog)
  BY <1>2, LenProperties DEF LogInv
<1>4. tail \in Nat /\ hole \in Nat /\ hole <= tail /\ tail <= len /\ ctl.last \in Nat
  BY <1>0, <1>2, <1>3 DEF LogInv, Types, Control
<1>5. PICK pad \in Nat : /\ pad = IF tail < ctl.last THEN ctl.last - tail ELSE 0
                         /\ tail' = tail + pad /\ hole' = tail + pad
                         /\ vlog' = vlog \o [n \in 1 .. pad |-> [key |-> 0, val |-> Empty]]
                         /\ pad > 0 => tail = len
  <2>1. PICK p \in Nat : p = IF tail < ctl.last THEN ctl.last - tail ELSE 0
    BY <1>4
  <2>2. tail < ctl.last => tail = len
    BY <1>3, <1>4 DEF GcPunch, GcMore, At
  <2>3. p > 0 => tail = len
    BY <2>1, <2>2
  <2>4. /\ tail' = tail + p /\ hole' = tail + p
        /\ vlog' = vlog \o [n \in 1 .. p |-> [key |-> 0, val |-> Empty]]
    BY <2>1 DEF GcPunch
  <2> QED BY ONLY <2>1, <2>3, <2>4
<1>6. /\ vlog' \in Seq([key : Nat, val : Text])
      /\ Len(vlog') = len + pad
      /\ \A n \in 1 .. len : vlog'[n] = vlog[n]
  <2> DEFINE zeros == [n \in 1 .. pad |-> [key |-> 0, val |-> Empty]]
  <2>1. zeros \in [1 .. pad -> [key : Nat, val : Text]] /\ Len(zeros) = pad /\ pad \in Nat
    BY DEF Text
  <2> HIDE DEF zeros
  <2>2. zeros \in Seq([key : Nat, val : Text])
    <3>1. PICK S : S = [key : Nat, val : Text]
      OBVIOUS
    <3>2. zeros \in [1 .. pad -> S] /\ pad \in Nat
      BY <2>1, <3>1
    <3>3. zeros \in Seq(S)
      BY ONLY <3>2, SeqDef, Zenon
    <3> QED BY <3>1, <3>3
  <2>3. vlog' = vlog \o zeros /\ vlog \in Seq([key : Nat, val : Text])
    BY <1>2, <1>5 DEF zeros, LogInv
  <2>4. /\ vlog' \in Seq([key : Nat, val : Text])
        /\ Len(vlog') = Len(vlog) + Len(zeros)
        /\ \A n \in 1 .. Len(vlog) + Len(zeros) :
              vlog'[n] = IF n <= Len(vlog) THEN vlog[n] ELSE zeros[n - Len(vlog)]
    BY <2>2, <2>3, ConcatProperties
  <2> QED BY <1>3, <2>1, <2>4
<1>7. \A f \in Names : Keys(f)' = Keys(f) /\ \A k : Entry(f, k)' = Entry(f, k)
  BY <1>1 DEF Keys, Entry
<1>8. ASSUME NEW f \in Names, NEW k \in Keys(f)
      PROVE  /\ Entry(f, k) \in [off : 1 .. len, len : {0, 1}]
             /\ Entry(f, k) \in [off : 1 .. Len(vlog'), len : {0, 1}]
             /\ vlog'[Entry(f, k).off] = vlog[Entry(f, k).off]
             /\ vlog[Entry(f, k).off].key = k
             /\ Entry(f, k).len = 0 <=> vlog[Entry(f, k).off].val = Empty
  <2>1. /\ Entry(f, k) \in [off : 1 .. len, len : {0, 1}]
        /\ vlog[Entry(f, k).off].key = k
        /\ Entry(f, k).len = 0 <=> vlog[Entry(f, k).off].val = Empty
    BY <1>2, <1>3 DEF LogInv
  <2>2. 1 .. len \subseteq 1 .. Len(vlog')
    BY <1>6
  <2> QED BY <1>6, <2>1, <2>2
<1>9. LogInv'
  <2>1. hole' <= tail' /\ tail' <= Len(vlog')
    <3>1. Len(vlog') = len + pad /\ len \in Nat /\ pad \in Nat
      BY <1>6
    <3>2. /\ tail' = tail + pad /\ hole' = tail + pad /\ tail \in Nat /\ tail <= len
          /\ pad > 0 => tail = len
      BY <1>4, <1>5
    <3> QED BY ONLY <3>1, <3>2
  <2>2. ASSUME NEW f \in Names', NEW k \in Keys(f)'
        PROVE  /\ Entry(f, k)' \in [off : 1 .. Len(vlog'), len : {0, 1}]
               /\ vlog'[Entry(f, k)'.off].key = k
               /\ Entry(f, k)'.len = 0 <=> vlog'[Entry(f, k)'.off].val = Empty
    BY <1>1, <1>7, <1>8, <2>2
  <2> QED BY ONLY <1>6, <2>1, <2>2 DEF LogInv
<1>10. ~Flushed' /\ ~At("idle")' /\ ~At("down")' /\ ctl'.pc = "flush"
  <2>1. ctl' = [ctl EXCEPT !.pc = "flush", !.ret = "put"]
    BY DEF GcPunch
  <2>2. ctl'.pc = "flush"
    BY <1>0, <2>1 DEF Types, Control
  <2> QED BY <2>2 DEF Flushed, At
<1>11. MemInv'
  BY <1>1, <1>2, <1>10 DEF MemInv, Stored, At
<1>12. ASSUME NEW k \in Key
       PROVE  /\ Has(k)' <=> Has(k)
              /\ \A f : Best(f, k)' => /\ Best(f, k) /\ f \in Names /\ k \in Keys(f)
                                       /\ Entry(f, k)' = Entry(f, k)
  BY <1>1, SameTables DEF Best
<1>13. ASSUME NEW k \in Key, k \notin DOMAIN memTable PROVE AboveTail(k)' /\ DiskShows(k)'
  <2>1. AboveTail(k) /\ DiskShows(k)
    BY <1>2, <1>13 DEF ViewInv, memGet
  <2>2. ASSUME NEW f, Best(f, k)'
        PROVE  /\ Entry(f, k)'.off > tail'
               /\ getByOffset(Entry(f, k).off)' = dict'[k]
    <3>1. /\ Best(f, k) /\ f \in Names /\ k \in Keys(f) /\ Entry(f, k)' = Entry(f, k)
      BY <1>12, <2>2
    <3>2. /\ Entry(f, k).off \in 1 .. len /\ Entry(f, k).off > tail
          /\ vlog'[Entry(f, k).off] = vlog[Entry(f, k).off]
          /\ getByOffset(Entry(f, k).off) = dict[k]
      BY <1>8, <2>1, <3>1 DEF AboveTail, DiskShows
    <3>3. pad = 0
      BY <1>5, <3>2
    <3>4. Entry(f, k).off > tail' /\ ~(Entry(f, k).off <= hole') /\ ~(Entry(f, k).off <= hole)
      BY <1>4, <1>5, <3>2, <3>3
    <3>5. getByOffset(Entry(f, k).off)' = vlog[Entry(f, k).off].val
      BY <3>1, <3>2, <3>4 DEF getByOffset
    <3>6. dict'[k] = vlog[Entry(f, k).off].val
      BY <3>2, <3>4 DEF getByOffset
    <3> QED BY ONLY <3>1, <3>4, <3>5, <3>6
  <2>3. AboveTail(k)'
    BY <2>2 DEF AboveTail
  <2>4. DiskShows(k)'
    BY <1>12, <2>1, <2>2 DEF DiskShows
  <2> QED BY <2>3, <2>4
<1>14. ASSUME NEW k \in Key, k \in DOMAIN memTable, memGet(k) = Empty PROVE DiskShows(k)'
  <2>1. DiskShows(k) /\ dict[k] = Empty
    <3>1. DiskShows(k)
      BY <1>2, <1>14 DEF ViewInv
    <3>2. dict[k] = Stored(Empty)
      BY <1>2, <1>14 DEF MemInv, memGet
    <3> QED BY <3>1, <3>2 DEF Stored
  <2>2. ASSUME NEW f, Best(f, k)' PROVE getByOffset(Entry(f, k).off)' = dict'[k]
    <3>1. /\ Best(f, k) /\ f \in Names /\ k \in Keys(f) /\ Entry(f, k)' = Entry(f, k)
      BY <1>12, <2>2
    <3>2. /\ Entry(f, k).off \in 1 .. len
          /\ vlog'[Entry(f, k).off] = vlog[Entry(f, k).off]
          /\ getByOffset(Entry(f, k).off) = dict[k]
      BY <1>8, <2>1, <3>1 DEF DiskShows
    <3>3. CASE Entry(f, k).off <= hole'
      BY <2>1, <3>1, <3>3 DEF getByOffset
    <3>4. CASE ~(Entry(f, k).off <= hole')
      <4>1. ~(Entry(f, k).off <= hole)
        BY <1>4, <1>5, <3>2, <3>4
      <4> QED BY <3>1, <3>2, <3>4, <4>1 DEF getByOffset
    <3> QED BY <3>3, <3>4
  <2> QED BY <1>12, <2>1, <2>2 DEF DiskShows
<1>15. ViewInv'
  <2>1. \A k : memGet(k)' = memGet(k)
    BY <1>1 DEF memGet
  <2> QED BY <1>1, <1>10, <1>13, <1>14, <2>1 DEF ViewInv
<1> QED BY <1>9, <1>11, <1>15 DEF DataInv

-----------------------------------------------------------------------------
(* A compaction shows what was shown: the newest entry of a key is the     *)
(* winner's or that of a table left alone, and what is dropped at the top  *)
(* level was the newest, and empty.                                        *)

LEMMA OlderThan ==
    ASSUME Tables, Ordered, NoTies, Live = Names, NEW f \in Names, NEW g \in Names, NEW k,
           k \in Keys(f), k \in Keys(g), files[f].level < files[g].level
    PROVE  files[g].time < files[f].time
<1>1. files[f].time >= files[g].time
  BY DEF Ordered
<1>2. files[f].time \in Nat /\ files[g].time \in Nat /\ files[f].level \in Nat
  BY DEF Tables, Sound
<1>3. f # g
  BY <1>2
<1>4. files[f].time # files[g].time
  BY <1>3 DEF NoTies
<1> QED BY <1>1, <1>2, <1>4

LEMMA SameLevelApart ==
    ASSUME Disjoint, Live = Names, NEW f \in Names, NEW g \in Names, NEW k \in Nat,
           k \in Keys(f), k \in Keys(g), files[f].level = files[g].level, files[f].level > 0
    PROVE  f = g
<1>1. ASSUME f # g PROVE FALSE
  BY <1>1 DEF Disjoint, Apart
<1> QED BY <1>1

(* What the outputs hold. *)
LEMMA CompactedEntries ==
    ASSUME IInv, LevelsInv, LevelsFit, Overflowing, NEW i, i = ctl.lev,
           NEW U \in Upper(i), Compact(U), NEW L, L = Lower(i, U)
    PROVE  /\ \A f \in Added : /\ f \in Live' /\ files'[f].level = i + 1
                             /\ files'[f].time \in Nat
           /\ \A f \in Added : \A k \in DOMAIN files'[f].ent :
                 /\ k \in Kept(i, U, L, NewTop)
                 /\ files'[f].ent[k] = Entry(Winner(U, L, k), k)
                 /\ files[Winner(U, L, k)].time <= files'[f].time
           /\ \A k \in Kept(i, U, L, NewTop) : \E f \in Added : k \in DOMAIN files'[f].ent
           /\ Live = Names /\ Live' = (Names \ (U \cup L)) \cup Added
           /\ \A f \in Names : files'[f] = files[f]
<1>0. PICK s : s = SScnt
  OBVIOUS
<1>1. PICK out : out = Outputs(i, U, L, NewTop)
  OBVIOUS
<1>2. /\ i \in Nat /\ s \in Nat /\ Len(out) \in Nat
      /\ Live = Names /\ U \subseteq AtLevel(i) /\ L \subseteq AtLevel(i + 1)
      /\ \A f \in Names : f \in Nat /\ f <= s /\ files'[f] = files[f]
                          /\ files[f].level \in Nat /\ files[f].time \in Nat
      /\ Merges(out, i, U, L, NewTop)
      /\ \A c \in 1 .. Len(out) : Merged(out[c], i + 1, s)
      /\ Names' = Names \cup (s + 1 .. s + Len(out))
      /\ \A f \in s + 1 .. s + Len(out) : files'[f] = out[f - s]
      /\ Live' = (Names \ (U \cup L)) \cup (s + 1 .. s + Len(out))
  BY <1>0, <1>1, CompactedLive
<1> DEFINE New == Added
<1>3. New = s + 1 .. s + Len(out)
  BY <1>2 DEF Added
<1> HIDE DEF New
<1>4. \A f \in New : f - s \in 1 .. Len(out) /\ files'[f] = out[f - s]
  BY <1>2, <1>3
<1>5. \A f \in New : files'[f].level = i + 1 /\ files'[f].time \in Nat
  BY <1>2, <1>4 DEF Merged
<1>6. \A f \in New : /\ Keys(f)' = DOMAIN out[f - s].ent
                     /\ \A k : Entry(f, k)' = out[f - s].ent[k]
  BY <1>4 DEF Keys, Entry
<1>7. ASSUME NEW f \in New, NEW k \in Keys(f)'
      PROVE  /\ k \in Kept(i, U, L, NewTop)
             /\ Entry(f, k)' = Entry(Winner(U, L, k), k)
             /\ files[Winner(U, L, k)].time <= files'[f].time
  <2>1. PICK c \in 1 .. Len(out) : c = f - s
    BY <1>4
  <2>2. k \in DOMAIN out[c].ent /\ files'[f] = out[c] /\ Entry(f, k)' = out[c].ent[k]
    BY <1>4, <1>6, <1>7, <2>1
  <2> QED BY <1>2, <2>2 DEF Merges, Entry
<1>8. ASSUME NEW k \in Kept(i, U, L, NewTop) PROVE \E f \in New : k \in Keys(f)'
  <2>1. PICK c \in 1 .. Len(out) : k \in DOMAIN out[c].ent
    BY <1>2 DEF Merges
  <2>2. s + c \in New /\ (s + c) - s = c
    BY <1>2, <1>3
  <2>3. PICK f \in New : f - s = c
    BY <2>2
  <2> QED BY <1>6, <2>1, <2>3
<1>9. /\ Live = Names /\ Live' = (Names \ (U \cup L)) \cup New
      /\ \A f \in Names : files'[f] = files[f]
  BY <1>2, <1>3
<1> QED BY <1>5, <1>7, <1>8, <1>9 DEF Keys, Entry, New

LEMMA CompactKeepsData ==
    ASSUME IInv, LevelsInv, LevelsFit, DataInv, NoTies, UNCHANGED dict,
           Overflowing, NEW U \in Upper(ctl.lev), Compact(U)
    PROVE  DataInv'
<1>1. PICK i : i = ctl.lev
  OBVIOUS
<1>2. PICK L : L = Lower(i, U)
  OBVIOUS
<1>3. PICK New : New = Added
  OBVIOUS
<1> DEFINE W(k) == Winner(U, L, k)
           Left == Names \ (U \cup L)
<1>4. /\ \A f \in New : /\ f \in Live' /\ files'[f].level = i + 1
                        /\ files'[f].time \in Nat
      /\ \A f \in New : \A k \in Keys(f)' :
            /\ k \in Kept(i, U, L, NewTop)
            /\ Entry(f, k)' = Entry(W(k), k)
            /\ files[W(k)].time <= files'[f].time
      /\ \A k \in Kept(i, U, L, NewTop) : \E f \in New : k \in Keys(f)'
      /\ Live = Names /\ Live' = Left \cup New
      /\ \A f \in Names : files'[f] = files[f]
  <2>1. U \in Upper(i)
    BY <1>1
  <2>2. IInv /\ LevelsInv /\ LevelsFit /\ Overflowing /\ Compact(U)
    OBVIOUS
  <2>3. /\ \A f \in Added : /\ f \in Live' /\ files'[f].level = i + 1
                            /\ files'[f].time \in Nat
        /\ \A f \in Added : \A k \in DOMAIN files'[f].ent :
              /\ k \in Kept(i, U, L, NewTop)
              /\ files'[f].ent[k] = Entry(Winner(U, L, k), k)
              /\ files[Winner(U, L, k)].time <= files'[f].time
        /\ \A k \in Kept(i, U, L, NewTop) : \E f \in Added : k \in DOMAIN files'[f].ent
        /\ Live = Names /\ Live' = (Names \ (U \cup L)) \cup Added
        /\ \A f \in Names : files'[f] = files[f]
    BY ONLY <1>1, <1>2, <2>1, <2>2, CompactedEntries
  <2> QED BY ONLY <1>3, <2>3 DEF Keys, Entry
<1>5. /\ Up /\ i \in Nat /\ ctl.doomed = {}
      /\ U # {} /\ U \subseteq AtLevel(i) /\ L \subseteq AtLevel(i + 1)
      /\ i = 0 => U = AtLevel(0)
  BY <1>1, <1>2, CompactionTakes, Zenon
<1>6. /\ U \in SUBSET Names /\ \A f \in U : files[f].level = i
      /\ L \in SUBSET Names /\ \A f \in L : files[f].level = i + 1
  BY <1>5 DEF AtLevel
<1>7. /\ Tables /\ Lists(sstFiles, Names) /\ Disjoint /\ Ordered /\ Topped /\ Filled
      /\ Disjoint' /\ Ordered' /\ Topped'
  <2>1. LevelsInv'
    BY CompactKeepsLevels
  <2>2. Up'
    BY DEF Compact, IInv, Types, Control, Up
  <2> QED BY <1>5, <2>1, <2>2 DEF LevelsInv, IInv, Index
<1>8. \A f \in Names : /\ files[f].level \in Nat /\ files[f].time \in Nat
                       /\ Keys(f) \subseteq Key /\ Keys(f) \subseteq Nat
                       /\ Keys(f)' = Keys(f) /\ \A k : Entry(f, k)' = Entry(f, k)
  BY <1>4, <1>7 DEF Tables, Sound, Keys, Entry
<1>9. LogInv /\ MemInv /\ ViewInv /\ Flushed /\ Flushed' /\ ctl'.pc = "remove"
  BY <1>5 DEF DataInv, Up, Overflowing, At, Flushed, Compact, IInv, Types, Control
<1>10. UNCHANGED <<vlog, hole, tail, memTable>>
  BY DEF Compact
<1>11. ASSUME NEW k, NEW h \in U \cup L, k \in Keys(h)
       PROVE  /\ W(k) \in U \cup L /\ W(k) \in Names /\ k \in Keys(W(k))
              /\ \A f \in U \cup L : k \in Keys(f) => files[f].time <= files[W(k)].time
  <2>1. \E f \in U \cup L : Holds(f, k)
    BY <1>11 DEF Holds, Keys
  <2>2. /\ W(k) \in Names /\ Holds(W(k), k) /\ W(k) \in U \cup L
        /\ \A f \in U \cup L : Holds(f, k) => files[f].time <= files[W(k)].time
    BY ONLY <1>6, <1>7, <2>1, WinnerHolds
  <2> QED BY <2>2 DEF Holds, Keys
<1>12. \A k \in Kept(i, U, L, NewTop) : \E h \in U \cup L : k \in Keys(h)
  BY DEF Kept, Keys
<1> HIDE DEF W, Left
<1>13. ASSUME NEW k, NEW h \in U \cup L, k \in Keys(h), NEW g \in U \cup L, k \in Keys(g), g # W(k)
       PROVE  files[g].time < files[W(k)].time
  <2>1. /\ files[g].time <= files[W(k)].time /\ W(k) \in Names /\ k \in Keys(W(k)) /\ g \in Names
    BY <1>6, <1>11, <1>13
  <2>2. files[g].time # files[W(k)].time
    BY <1>4, <1>13, <2>1 DEF NoTies
  <2> QED BY <1>8, <2>1, <2>2
(* The newest of the new state is an output ... *)
<1>14. ASSUME NEW k, NEW f \in New, Best(f, k)'
       PROVE  Best(W(k), k) /\ Entry(f, k)' = Entry(W(k), k)
  <2>1. /\ k \in Keys(f)' /\ f \in Live'
        /\ \A g \in Live' : g # f /\ k \in Keys(g)' => files'[g].time < files'[f].time
    BY <1>14 DEF Best
  <2>2. /\ k \in Kept(i, U, L, NewTop) /\ Entry(f, k)' = Entry(W(k), k)
        /\ files'[f].level = i + 1 /\ files'[f].time \in Nat
    BY <1>4, <2>1 DEF W
  <2>3. PICK h \in U \cup L : k \in Keys(h)
    BY <1>12, <2>2
  <2>4. W(k) \in U \cup L /\ W(k) \in Names /\ k \in Keys(W(k))
    BY <1>11, <2>3
  <2>5. k \in Nat
    BY <1>8, <2>4
  <2>6. ASSUME NEW g \in Names, g # W(k), k \in Keys(g)
        PROVE  files[g].time < files[W(k)].time
    <3>1. CASE g \in U \cup L
      BY <1>13, <2>3, <2>6, <3>1
    <3>2. CASE g \notin U \cup L
      <4>1. g \in Live' /\ g # f /\ k \in Keys(g)' /\ files'[g] = files[g]
        BY <1>3, <1>4, <1>8, <2>6, <3>2 DEF Left, Added
      <4>2. files'[g].time < files'[f].time
        BY <2>1, <4>1
      <4>3. ~(files'[g].level < files'[f].level)
        <5>1. files'[g].time \in Nat
          BY <1>8, <4>1
        <5>2. files'[g].level < files'[f].level => files'[g].time >= files'[f].time
          BY <1>7, <2>1, <4>1 DEF Ordered
        <5> QED BY <2>2, <4>2, <5>1, <5>2
      <4>4. files'[g].level # files'[f].level
        <5>1. Apart(Keys(f), Keys(g))' \/ files'[f].level # files'[g].level
          BY <1>5, <1>7, <2>1, <2>2, <4>1 DEF Disjoint
        <5> QED BY <2>1, <2>5, <4>1, <5>1 DEF Apart
      <4>5. files[W(k)].level < files[g].level
        BY <1>5, <1>6, <1>8, <2>2, <2>4, <4>1, <4>3, <4>4
      <4> QED BY <1>4, <1>7, <2>4, <2>6, <4>5, OlderThan
    <3> QED BY <3>1, <3>2
  <2> QED BY <1>4, <2>2, <2>4, <2>6 DEF Best
(* ... or a table left alone, ...                                          *)
<1>15. ASSUME NEW k, NEW f \in Left, Best(f, k)'
       PROVE  Best(f, k) /\ Entry(f, k)' = Entry(f, k)
  <2>1. /\ f \in Names /\ f \notin U \cup L /\ f \in Live' /\ k \in Keys(f)
        /\ Entry(f, k)' = Entry(f, k) /\ files'[f] = files[f] /\ k \in Nat
        /\ \A g \in Live' : g # f /\ k \in Keys(g)' => files'[g].time < files'[f].time
    BY <1>4, <1>8, <1>15 DEF Best, Left
  <2>2. ASSUME NEW g \in Names, g # f, k \in Keys(g)
        PROVE  files[g].time < files[f].time
    <3>1. CASE g \notin U \cup L
      <4>1. g \in Live' /\ k \in Keys(g)' /\ files'[g] = files[g]
        BY <1>4, <1>8, <2>2, <3>1 DEF Left
      <4> QED BY <2>1, <2>2, <4>1
    <3>2. CASE g \in U \cup L /\ k \in Kept(i, U, L, NewTop)
      <4>1. PICK h \in New : k \in Keys(h)'
        BY <1>4, <3>2
      <4>2. files[g].time <= files[W(k)].time /\ W(k) \in Names
        BY <1>11, <2>2, <3>2
      <4>3. files[W(k)].time <= files'[h].time /\ files'[h].time \in Nat /\ h \in Live' /\ h # f
        BY <1>3, <1>4, <2>1, <4>1 DEF W, Added
      <4>4. files'[h].time < files[f].time
        BY <2>1, <4>1, <4>3
      <4>5. /\ files[g].time \in Nat /\ files[W(k)].time \in Nat /\ files[f].time \in Nat
        BY <1>8, <2>1, <2>2, <4>2
      <4> QED BY <4>2, <4>3, <4>4, <4>5
    <3>3. CASE g \in U \cup L /\ k \notin Kept(i, U, L, NewTop)
      <4>1. i + 1 = NewTop
        <5>1. k \in UNION {DOMAIN files[h].ent : h \in U \cup L}
          BY <2>2, <3>3 DEF Keys
        <5> QED BY <3>3, <5>1 DEF Kept
      <4>2. files[f].level <= i + 1
        <5>1. totLevel' = NewTop /\ (files'[f].level = 0 \/ files'[f].level <= totLevel')
          BY <1>7, <2>1 DEF Compact, Topped
        <5> QED BY <1>5, <2>1, <4>1, <5>1
      <4>3. files[f].level # i + 1
        <5> SUFFICES ASSUME files[f].level = i + 1 PROVE FALSE
          OBVIOUS
        <5>1. f \in AtLevel(i + 1) \ L
          BY <2>1 DEF AtLevel
        <5>2. \/ \A x \in U \cup L : \A j \in Keys(x), m \in Keys(f) : j < m
              \/ \A x \in U \cup L : \A j \in Keys(x), m \in Keys(f) : m < j
          <6>1. /\ IInv /\ Disjoint /\ Filled /\ Live = Names /\ i \in Nat
                /\ U \in SUBSET Names /\ U # {} /\ L = Lower(i, U)
            BY <1>2, <1>4, <1>5, <1>6, <1>7
          <6> QED BY ONLY <5>1, <6>1, RestApart
        <5>3. k < k
          BY <2>1, <2>2, <3>3, <5>2
        <5> QED BY <2>1, <5>3
      <4>4. files[f].level \in Nat /\ files[f].level <= i
        BY <1>5, <1>8, <2>1, <4>2, <4>3
      <4>5. files[f].level < files[g].level
        <5>1. CASE g \in L
          BY <1>5, <1>6, <4>4, <5>1
        <5>2. CASE g \in U /\ files[f].level = i
          <6>1. i # 0
            BY <1>5, <2>1, <5>2 DEF AtLevel
          <6>2. files[f].level = files[g].level /\ files[f].level > 0
            BY <1>5, <1>6, <5>2, <6>1
          <6>3. f = g
            BY <1>4, <1>7, <2>1, <2>2, <6>2, SameLevelApart
          <6> QED BY <2>2, <6>3
        <5>3. CASE g \in U /\ files[f].level # i
          BY <1>5, <1>6, <4>4, <5>3
        <5> QED BY <3>3, <5>1, <5>2, <5>3
      <4> QED BY <1>4, <1>7, <2>1, <2>2, <4>5, OlderThan
    <3> QED BY <3>1, <3>2, <3>3
  <2> QED BY <1>4, <2>1, <2>2 DEF Best
(* ... or there is none, and the newest was empty.                         *)
<1>16. ASSUME NEW k, ~Has(k)', Has(k)
       PROVE  Best(W(k), k) /\ Entry(W(k), k).len = 0
  <2>1. PICK g \in Names : k \in Keys(g)
    BY <1>4, <1>16 DEF Has
  <2>2. \A f \in Names : k \in Keys(f) => f \in U \cup L
    <3>1. \A f \in Left : k \notin Keys(f)'
      BY <1>4, <1>16 DEF Has
    <3> QED BY <1>8, <3>1 DEF Left
  <2>3. g \in U \cup L
    BY <2>1, <2>2
  <2>4. W(k) \in U \cup L /\ W(k) \in Names /\ k \in Keys(W(k))
    BY <1>11, <2>1, <2>3
  <2>5. Best(W(k), k)
    <3>1. \A f \in Names : f # W(k) /\ k \in Keys(f) => files[f].time < files[W(k)].time
      BY <1>13, <2>1, <2>2, <2>3
    <3> QED BY <1>4, <2>4, <3>1 DEF Best
  <2>6. k \notin Kept(i, U, L, NewTop)
    BY <1>4, <1>16 DEF Has
  <2>7. Entry(W(k), k).len = 0
    <3>1. k \in UNION {DOMAIN files[h].ent : h \in U \cup L}
      BY <2>1, <2>3 DEF Keys
    <3> QED BY <2>6, <3>1 DEF Kept, Entry, W
  <2> QED BY <2>5, <2>7
<1>17. LogInv'
  <2>1. ASSUME NEW f \in Names', NEW k \in Keys(f)'
        PROVE  /\ Entry(f, k)' \in [off : 1 .. Len(vlog), len : {0, 1}]
               /\ vlog[Entry(f, k)'.off].key = k
               /\ Entry(f, k)'.len = 0 <=> vlog[Entry(f, k)'.off].val = Empty
    <3>1. CASE f \in Names
      BY <1>8, <1>9, <2>1, <3>1 DEF LogInv
    <3>2. CASE f \in New
      <4>1. k \in Kept(i, U, L, NewTop) /\ Entry(f, k)' = Entry(W(k), k)
        BY <1>4, <2>1, <3>2 DEF W
      <4>2. W(k) \in Names /\ k \in Keys(W(k))
        BY <1>11, <1>12, <4>1
      <4> QED BY <1>9, <4>1, <4>2 DEF LogInv
    <3> QED BY <1>3, <3>1, <3>2 DEF Added
  <2> QED BY <1>9, <1>10, <2>1 DEF LogInv
<1>18. MemInv'
  BY <1>9, <1>10 DEF MemInv, At
<1>19. ASSUME NEW k \in Key PROVE DiskShows(k)' /\ AboveTail(k)'
  <2>1. DiskShows(k) /\ AboveTail(k)
    BY <1>9 DEF ViewInv
  <2>2. \A f : Best(f, k)' => \E g : Best(g, k) /\ Entry(f, k)' = Entry(g, k)
    <3>1. \A f : Best(f, k)' => f \in Left \cup New
      BY <1>4 DEF Best
    <3> QED BY <1>14, <1>15, <3>1
  <2>3. \A f : Best(f, k)' => getByOffset(Entry(f, k).off)' = dict'[k]
    BY <1>10, <2>1, <2>2 DEF DiskShows, getByOffset
  <2>4. AboveTail(k)'
    BY <1>10, <2>1, <2>2 DEF AboveTail
  <2>5. ASSUME ~Has(k)' PROVE dict'[k] = Empty
    <3>1. CASE ~Has(k)
      BY <2>1, <3>1 DEF DiskShows
    <3>2. CASE Has(k)
      <4>1. Best(W(k), k) /\ Entry(W(k), k).len = 0
        BY <1>16, <2>5, <3>2
      <4>2. PICK g : Best(g, k) /\ Entry(g, k).len = 0
        BY <4>1
      <4>3. g \in Names /\ k \in Keys(g)
        BY <1>4, <4>2 DEF Best
      <4>4. /\ vlog[Entry(g, k).off].val = Empty /\ Entry(g, k).off \in Nat
            /\ Entry(g, k).off > tail /\ getByOffset(Entry(g, k).off) = dict[k]
        BY <1>9, <2>1, <4>2, <4>3 DEF LogInv, AboveTail, DiskShows
      <4> QED BY <4>4 DEF getByOffset
    <3> QED BY <3>1, <3>2
  <2> QED BY <2>3, <2>4, <2>5 DEF DiskShows
<1>20. ViewInv'
  BY <1>19 DEF ViewInv
<1> QED BY <1>17, <1>18, <1>20 DEF DataInv

-----------------------------------------------------------------------------
LEMMA StepKeepsData ==
    ASSUME Empty \notin PutValue, IInv, LevelsInv, LevelsFit, NoTies, DataInv, [CNext]_cvars
    PROVE  DataInv'
<1>1. CASE CInternal
  <2>1. Internal /\ UNCHANGED dict
    BY <1>1 DEF CInternal
  <2>2. CASE compaction
    BY <2>1, <2>2, CompactKeepsData DEF compaction
  <2>3. CASE NextLevel \/ SaveReturns \/ CompactFreed
    BY <2>1, <2>3, IdleKeepsData
  <2>4. CASE \E f \in ctl.doomed : RemoveFile(f)
    BY <2>1, <2>4, RemoveKeepsData
  <2> QED BY <2>1, <2>2, <2>3, <2>4, FlushKeepsData, GcEntryKeepsData, GcPunchKeepsData
          DEF Internal
<1>2. CASE Puts
  <2>1. PICK k \in Key, v \in PutValue : CPut(k, v)
    BY <1>2 DEF Puts
  <2> QED BY <2>1, PutKeepsData
<1>3. CASE Dels
  BY <1>3, DelKeepsData DEF Dels
<1>4. CASE Gcs \/ Reads \/ CClose
  BY <1>4, IdleKeepsData DEF Gcs, Reads, CClose, CGc, CRead
<1>5. CASE CReset
  BY <1>5, ResetKeepsData
<1>6. CASE CReopen
  BY <1>6, ReopenKeepsData
<1>7. CASE UNCHANGED cvars
  <2>1. UNCHANGED <<files, vlog, hole, tail, memTable, ctl, dict>>
    BY <1>7 DEF cvars, vars, disk, memory
  <2>2. /\ Names' = Names /\ Live' = Live /\ (Flushed' <=> Flushed)
        /\ \A pc : At(pc)' <=> At(pc)
    BY <2>1 DEF Names, Live, Flushed, At
  <2>3. LogInv => LogInv'
    BY <2>1, <2>2, SameLog
  <2>4. MemInv => MemInv'
    BY <2>1, <2>2 DEF MemInv, Stored, At
  <2>5. \A k : /\ DiskShows(k) => DiskShows(k)'
               /\ AboveTail(k) => AboveTail(k)'
    BY <2>1, <2>2, SameView
  <2>6. ViewInv => ViewInv'
    BY <2>1, <2>2, <2>5 DEF ViewInv, memGet
  <2> QED BY <2>1, <2>3, <2>4, <2>6 DEF DataInv, At
<1> QED BY <1>1, <1>2, <1>3, <1>4, <1>5, <1>6, <1>7 DEF CNext

(* What the client is told between two operations. *)
LEMMA IdleView ==
    ASSUME IInv, LevelsInv, DataInv, NoTies, At("idle"), NEW k \in Key
    PROVE  /\ k \in DOMAIN memTable =>
                 /\ memGet(k) = memTable[k] /\ memTable[k] # Empty
                 /\ dict[k] = Stored(memTable[k])
           /\ k \notin DOMAIN memTable =>
                 /\ memGet(k) = Empty
                 /\ ~Has(k) => /\ dict[k] = Empty /\ Listed(k) = {}
                               /\ getOffsetFromSSTable(k) = NoOffset
                 /\ Has(k) => \E f : /\ Best(f, k) /\ f \in Names /\ Holds(f, k)
                                     /\ Listed(k) # {}
                                     /\ getOffsetFromSSTable(k) = Entry(f, k).off
                                     /\ Entry(f, k).off # NoOffset
                                     /\ Entry(f, k).off > hole
                                     /\ getByOffset(Entry(f, k).off) = dict[k]
                                     /\ dict[k] # Empty => Entry(f, k).len > 0
<1>1. Up /\ ctl.pc = "idle"
  BY DEF At, Up
<1>2. LogInv /\ MemInv /\ ViewInv /\ ~Flushed /\ Live = Names
  BY <1>1 DEF DataInv, At, Flushed, LevelsInv, NoneDoomed, Live
<1>3. CASE k \in DOMAIN memTable
  BY <1>1, <1>2, <1>3 DEF MemInv, At, memGet
<1>4. CASE k \notin DOMAIN memTable
  <2>1. memGet(k) = Empty /\ DiskShows(k) /\ AboveTail(k)
    BY <1>2, <1>4 DEF ViewInv, memGet
  <2>2. CASE ~Has(k)
    BY <1>1, <1>2, <1>4, <2>1, <2>2, Lookup DEF DiskShows
  <2>3. CASE Has(k)
    <3>1. PICK f : Best(f, k) /\ getOffsetFromSSTable(k) = Entry(f, k).off
      BY <1>1, <1>2, <2>3, Lookup
    <3>2. Listed(k) # {}
      BY <1>1, <1>2, <2>3, Lookup
    <3>3. f \in Names /\ k \in Keys(f) /\ Holds(f, k)
      BY <1>2, <3>1 DEF Best, Holds, Keys
    <3>4. /\ Entry(f, k) \in [off : 1 .. Len(vlog), len : {0, 1}]
          /\ Entry(f, k).len = 0 <=> vlog[Entry(f, k).off].val = Empty
      BY <1>2, <3>3 DEF LogInv
    <3>5. Entry(f, k).off > tail /\ getByOffset(Entry(f, k).off) = dict[k]
      BY <2>1, <3>1 DEF AboveTail, DiskShows
    <3>6. tail \in Nat /\ hole \in Nat /\ hole <= tail
      BY <1>2 DEF LogInv, IInv, Types
    <3>7. Entry(f, k).off > hole /\ Entry(f, k).off # NoOffset
      BY <3>4, <3>5, <3>6 DEF NoOffset
    <3>8. dict[k] # Empty => Entry(f, k).len > 0
      <4>1. dict[k] = vlog[Entry(f, k).off].val
        BY <3>4, <3>5, <3>6, <3>7 DEF getByOffset
      <4> QED BY <3>4, <4>1
    <3> QED BY <1>4, <2>1, <2>3, <3>1, <3>2, <3>3, <3>5, <3>7, <3>8
  <2> QED BY <2>2, <2>3
<1> QED BY <1>3, <1>4

LEMMA DataSeen ==
    ASSUME IInv, LevelsInv, DataInv, NoTies
    PROVE  ClientSees
<1> SUFFICES ASSUME At("idle"), NEW k \in Key
             PROVE  get(k) = dict[k] /\ delReturns(k) = (dict[k] # Empty)
  BY DEF ClientSees, GetReturnsLastPut
<1>1. MemInv
  BY DEF DataInv, At
<1>2. CASE k \in DOMAIN memTable
  <2>1. /\ memGet(k) = memTable[k] /\ memTable[k] # Empty
        /\ dict[k] = Stored(memTable[k]) /\ memTable[k] \in Text \cup {Deleted}
    BY <1>1, <1>2, IdleView DEF MemInv
  <2>2. get(k) = dict[k]
    BY <2>1 DEF get, Stored
  <2>3. delReturns(k) = (dict[k] # Empty)
    BY <1>2, <2>1 DEF delReturns, Stored
  <2> QED BY <2>2, <2>3
<1>3. CASE k \notin DOMAIN memTable /\ ~Has(k)
  <2>1. memGet(k) = Empty /\ dict[k] = Empty /\ getOffsetFromSSTable(k) = NoOffset
    BY <1>3, IdleView
  <2> QED BY <1>3, <2>1 DEF get, delReturns
<1>4. CASE k \notin DOMAIN memTable /\ Has(k)
  <2>1. PICK f : /\ getOffsetFromSSTable(k) = Entry(f, k).off
                 /\ Entry(f, k).off # NoOffset
                 /\ getByOffset(Entry(f, k).off) = dict[k]
    BY <1>4, IdleView
  <2>2. memGet(k) = Empty
    BY <1>4, IdleView
  <2> QED BY <1>4, <2>1, <2>2 DEF get, delReturns
<1> QED BY <1>2, <1>3, <1>4

LEMMA DataScanned ==
    ASSUME IInv, LevelsInv, DataInv, NoTies
    PROVE  ScanComplete
<1> SUFFICES ASSUME At("idle"), NEW k1 \in Key, NEW k2 \in Key, NEW k \in Key,
                    k1 <= k, k <= k2, dict[k] # Empty
             PROVE  k \in DOMAIN scan(k1, k2) /\ scan(k1, k2)[k] = dict[k]
  BY DEF ScanComplete
<1> DEFINE inMem == {x \in DOMAIN memTable : InRange(x, k1, k2)}
           inSST == {x \in Key : /\ InRange(x, k1, k2)
                                 /\ x \notin DOMAIN memTable
                                 /\ Listed(x) # {}
                                 /\ \E f \in Names :
                                       /\ Holds(f, x)
                                       /\ files[f].ent[x].off = getOffsetFromSSTable(x)
                                       /\ files[f].ent[x].len > 0}
<1>1. scan(k1, k2) = [x \in inMem \cup inSST |->
                         IF x \in inMem THEN memTable[x]
                                        ELSE getByOffset(getOffsetFromSSTable(x))]
  BY DEF scan
<1>2. InRange(k, k1, k2)
  BY DEF InRange
<1>3. CASE k \in DOMAIN memTable
  <2>1. k \in inMem
    BY <1>2, <1>3
  <2>2. memTable[k] = dict[k]
    <3>1. dict[k] = Stored(memTable[k])
      BY <1>3, IdleView
    <3> QED BY <3>1 DEF Stored
  <2> HIDE DEF inMem, inSST
  <2> QED BY <1>1, <2>1, <2>2
<1>4. CASE k \notin DOMAIN memTable
  <2>1. Has(k)
    BY <1>4, IdleView
  <2>2. PICK f : /\ f \in Names /\ Holds(f, k) /\ Listed(k) # {}
                 /\ getOffsetFromSSTable(k) = Entry(f, k).off
                 /\ getByOffset(Entry(f, k).off) = dict[k]
                 /\ Entry(f, k).len > 0
    BY <1>4, <2>1, IdleView
  <2>3. k \in inSST /\ k \notin inMem
    BY <1>2, <1>4, <2>2 DEF Entry
  <2> HIDE DEF inMem, inSST
  <2> QED BY <1>1, <2>2, <2>3
<1> QED BY <1>3, <1>4

LEMMA DataAbove ==
    ASSUME IInv, LevelsInv, DataInv, NoTies
    PROVE  CurrentAboveHole
<1> SUFFICES ASSUME At("idle"), NEW k \in Key \ DOMAIN memTable, Having(k) # {}
             PROVE  NewestEntry(k).off > hole
  BY DEF CurrentAboveHole
<1>1. Live = Names /\ Tables
  BY DEF LevelsInv, NoneDoomed, Live, Up, At, IInv
<1>2. Has(k)
  BY <1>1 DEF Having, Has, Holds, Keys
<1>3. PICK f : /\ Best(f, k) /\ f \in Names /\ Holds(f, k)
               /\ Entry(f, k).off > hole
  BY <1>2, IdleView
<1>4. \A g \in Having(k) : /\ g \in Names /\ g \in Nat /\ files[g].time \in Nat
                           /\ Holds(g, k) /\ f \in Having(k)
  BY <1>1, <1>3 DEF Having, Tables, Sound
<1>5. \A g \in Having(k) : Shadows(f, g)
  <2> TAKE g \in Having(k)
  <2>1. CASE g = f
    BY <1>3, <1>4, <2>1 DEF Shadows
  <2>2. CASE g # f
    <3>1. files[g].time < files[f].time
      BY <1>1, <1>3, <1>4, <2>2 DEF Best, Holds, Keys
    <3> QED BY <1>4, <3>1 DEF Shadows
  <2> QED BY <2>1, <2>2
<1>6. Newest(k) = f
  <2>1. /\ Newest(k) \in Having(k) /\ \A g \in Having(k) : Shadows(Newest(k), g)
    BY <1>4, <1>5 DEF Newest
  <2>2. files[Newest(k)].time >= files[f].time
    BY <1>4, <2>1 DEF Shadows
  <2> QED BY <1>1, <1>3, <1>4, <2>1, <2>2, BestIsUnique
<1> QED BY <1>3, <1>6 DEF NewestEntry, Entry

(* As long as no two tables that share a key have the same time, the data  *)
(* are right at every step of a store that is never killed.                *)
LEMMA DataStays ==
    ASSUME Empty \notin PutValue
    PROVE  CSpec /\ []LevelsFit /\ []NoTies
              => [](IInv /\ LevelsInv /\ DataInv /\ NoTies)
<1>1. CInit => IInv /\ LevelsInv /\ DataInv
  BY InitInv, LevelsInit, DataInit DEF CInit
<1>2. IInv /\ LevelsInv /\ DataInv /\ LevelsFit /\ NoTies /\ [CNext]_cvars
        => (IInv /\ LevelsInv /\ DataInv)'
  BY StepsAreStoreSteps, NextInv, StepKeepsLevels, StepKeepsData
<1> QED BY <1>1, <1>2, PTL DEF CSpec

(* Such a store answers get and del from the client's own map: whatever    *)
(* flushes, compactions and garbage collections have moved, get returns    *)
(* the last value put and del tells whether there was one (kvstore.cc).    *)
(* A client that puts the empty string is left out: the code takes it for  *)
(* "not found".                                                            *)
THEOREM StoreIsMap ==
    ASSUME Empty \notin PutValue
    PROVE  CSpec /\ []LevelsFit /\ []NoTies => []ClientSees
<1>1. IInv /\ LevelsInv /\ DataInv /\ NoTies => ClientSees
  BY DataSeen
<1> QED BY <1>1, DataStays, PTL

(* ... and scan leaves out no key of its range that has a value (the merge *)
(* of the tables and the memory table in kvstore.cc scan).                 *)
THEOREM ScansFindAll ==
    ASSUME Empty \notin PutValue
    PROVE  CSpec /\ []LevelsFit /\ []NoTies => []ScanComplete
<1>1. IInv /\ LevelsInv /\ DataInv /\ NoTies => ScanComplete
  BY DataScanned
<1> QED BY <1>1, DataStays, PTL

(* ... and no hole that a garbage collection punches in the log reaches a  *)
(* value that is still current (vlog.cc garbageCollect).                   *)
THEOREM CurrentNeverPunched ==
    ASSUME Empty \notin PutValue
    PROVE  CSpec /\ []LevelsFit /\ []NoTies => []CurrentAboveHole
<1>1. IInv /\ LevelsInv /\ DataInv /\ NoTies => CurrentAboveHole
  BY DataAbove
<1> QED BY <1>1, DataStays, PTL
=============================================================================
