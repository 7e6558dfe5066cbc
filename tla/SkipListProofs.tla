---------------------------- MODULE SkipListProofs ---------------------------
(* Proofs about SkipList, for any finite or infinite set of keys, any       *)
(* number of levels and any heights.                                        *)
EXTENDS SkipList, TLAPS

(* A predecessor of the key of the call at level l. *)
IsPred(n, l) == /\ At(n, l) /\ n < key
                /\ forward[n][l] = last \/ forward[n][l] >= key

(* The search stands on a node of its level, before the key; the levels    *)
(* above have their predecessors in update.                                *)
Descent == op # "none" /\ i >= 1 =>
    /\ op # "getAll" /\ i <= max_level
    /\ At(now, i) /\ now < key /\ got = {}

UpdateInv == op = "put" =>
    /\ val \in Value
    /\ \A l \in Level : i < l /\ l <= max_level => IsPred(update[l], l)

Bottom == op \in {"put", "get", "del"} /\ i = 0 => IsPred(now, 1)

(* What a listing has passed is what it has collected. *)
ScanInv == op = "scan" /\ i = 0 =>
    /\ At(now, 1)
    /\ forward[now][1] = last \/ forward[now][1] >= key
    /\ got = {k \in Nodes : key <= k /\ k <= ed /\ k <= now}
GetAllInv == op = "getAll" =>
    /\ i = 0 /\ At(now, 1)
    /\ got = {k \in Nodes : k <= now}

IInv == /\ TypeOK /\ LevelsOrdered /\ TowersWhole
        /\ Descent /\ UpdateInv /\ Bottom /\ ScanInv /\ GetAllInv

USE SkipListAssumption

LEMMA AnyKey == anyKey \in Key
  BY DEF anyKey

LEMMA Levels == 1 \in Level /\ Level \subseteq Nat /\ \A l \in Level : l >= 1 /\ l < MAX_LEVEL
  BY DEF Level

LEMMA InitInv == Init => IInv
<1> SUFFICES ASSUME Init PROVE IInv
    OBVIOUS
<1>1. TypeOK
    BY AnyKey, Levels DEF Init, TypeOK, Empty, Pointer, first, last, uninit
<1>2. LevelsOrdered
    BY Levels DEF Init, LevelsOrdered, Empty, At, first, last, uninit
<1>3. TowersWhole
    BY Levels DEF Init, TowersWhole, Empty, At, first, last, uninit
<1>4. Descent /\ UpdateInv /\ Bottom /\ ScanInv /\ GetAllInv
    BY DEF Init, Descent, UpdateInv, Bottom, ScanInv, GetAllInv
<1> QED BY <1>1, <1>2, <1>3, <1>4 DEF IInv

(* A node is on every level below one it is on, first on all.              *)
LEMMA LowerLevels ==
    ASSUME IInv, NEW n \in Key \cup {first}, NEW l \in Level, At(n, l), NEW j \in 1 .. l
    PROVE  j \in Level /\ At(n, j)
  BY Levels DEF IInv, TowersWhole, Level

(* At the bottom of a search the key is met if it is listed.               *)
LEMMA FoundIffListed ==
    ASSUME IInv, op \in {"put", "get", "del"}, i = 0
    PROVE  Found <=> key \in Nodes
<1> USE Levels DEF IInv
<1>1. IsPred(now, 1) /\ key \in Key /\ now \in Key \cup {first} /\ forward[now][1] \in Pointer \cup {uninit}
    BY DEF Bottom, TypeOK
<1>2. ASSUME Found PROVE key \in Nodes
    <2>1. forward[now][1] = key /\ key # last
        BY <1>2 DEF Found, Hit
    <2>2. At(key, 1)
        BY <1>1, <2>1 DEF LevelsOrdered, IsPred
    <2> QED BY <2>2, <1>1 DEF Nodes, At
<1>3. ASSUME key \in Nodes PROVE Found
    <2>1. At(key, 1)
        BY <1>3 DEF Nodes, At
    <2>2. forward[now][1] # last /\ forward[now][1] <= key
        BY <1>1, <2>1 DEF LevelsOrdered, IsPred
    <2>3. forward[now][1] \in Key
        BY <1>1, <2>2 DEF LevelsOrdered, IsPred
    <2>4. forward[now][1] \in Nat /\ key \in Nat
        BY SkipListAssumption, <1>1, <2>3
    <2> QED BY <1>1, <2>2, <2>4 DEF IsPred, Found, Hit
<1> QED BY <1>2, <1>3

-----------------------------------------------------------------------------
(* The steps that change no node.                                          *)

LEMMA NodesKept ==
    ASSUME IInv, UNCHANGED <<forward, max_level>>
    PROVE  LevelsOrdered' /\ TowersWhole' /\ Nodes' = Nodes
  BY DEF IInv, LevelsOrdered, TowersWhole, At, Nodes

LEMMA CallInv ==
    ASSUME IInv, NEW name \in {"put", "get", "del", "scan"}, NEW k \in Key,
           NEW v \in Value \cup {DELETED}, NEW e \in Key, name = "put" => v \in Value,
           Begin(name, k, v, e, max_level)
    PROVE  IInv'
<1> USE Levels DEF IInv
<1>1. TypeOK'
    BY DEF TypeOK, Begin, nodes, Level, Pointer
<1>2. LevelsOrdered' /\ TowersWhole'
    BY NodesKept DEF Begin, nodes
<1>3. i' = max_level /\ max_level' = max_level /\ max_level \in Level /\ i' >= 1
    BY DEF Begin, nodes, TypeOK
<1>4. Descent'
    <2>1. At(first, max_level)
        BY <1>3 DEF TowersWhole
    <2> QED BY <1>3, <2>1 DEF Descent, Begin, nodes, At, first
<1>5. UpdateInv' /\ Bottom' /\ ScanInv' /\ GetAllInv'
    BY <1>3 DEF UpdateInv, Bottom, ScanInv, GetAllInv, Begin
<1> QED BY <1>1, <1>2, <1>4, <1>5

LEMMA GetAllCall == ASSUME IInv, getAll PROVE IInv'
<1> USE Levels DEF IInv
<1>1. TypeOK'
    BY DEF TypeOK, getAll, Begin, nodes, Level, Pointer
<1>2. LevelsOrdered' /\ TowersWhole' /\ Nodes' = Nodes
    BY NodesKept DEF getAll, Begin, nodes
<1>3. Descent' /\ UpdateInv' /\ Bottom' /\ ScanInv'
    BY DEF Descent, UpdateInv, Bottom, ScanInv, getAll, Begin
<1>4. GetAllInv'
    <2>1. ASSUME NEW k \in Nodes PROVE ~(k <= first)
        <3>1. k \in Nat
            BY SkipListAssumption DEF Nodes
        <3> QED BY <3>1 DEF first
    <2> QED BY <1>2, <2>1 DEF GetAllInv, getAll, Begin, nodes, At, TowersWhole, TypeOK
<1> QED BY <1>1, <1>2, <1>3, <1>4

LEMMA AdvanceInv == ASSUME IInv, Advance PROVE IInv'
<1> USE Levels DEF IInv
<1>1. next \in Key /\ At(next, i) /\ next < key /\ i \in Level
    <2>1. i \in Level /\ At(now, i) /\ now \in Key \cup {first}
        BY DEF Advance, Searching, Descent, TypeOK, Level
    <2> QED BY <2>1 DEF Advance, LevelsOrdered, next
<1>2. TypeOK'
    BY <1>1 DEF TypeOK, Advance, nodes, args
<1>3. LevelsOrdered' /\ TowersWhole'
    BY NodesKept DEF Advance, nodes
<1>4. Descent'
    BY <1>1 DEF Descent, Advance, Searching, nodes, args, At
<1>5. UpdateInv'
    BY DEF UpdateInv, Advance, nodes, args, IsPred, At
<1>6. Bottom' /\ ScanInv' /\ GetAllInv'
    BY DEF Bottom, ScanInv, GetAllInv, Descent, Advance, Searching, nodes, args
<1> QED BY <1>2, <1>3, <1>4, <1>5, <1>6

LEMMA DownInv == ASSUME IInv, Down PROVE IInv'
<1> USE Levels DEF IInv
<1>1. /\ i \in Level /\ At(now, i) /\ now < key /\ now \in Key \cup {first} /\ got = {}
      /\ op # "getAll" /\ i <= max_level
    BY DEF Down, Searching, Descent, TypeOK, Level
<1>2. IsPred(now, i)
    BY <1>1 DEF Down, next, IsPred
<1>3. TypeOK'
    BY <1>1 DEF TypeOK, Down, nodes, args, Level
<1>4. LevelsOrdered' /\ TowersWhole' /\ Nodes' = Nodes
    BY NodesKept DEF Down, nodes
<1>5. \A j \in 1 .. i : At(now, j)
    BY <1>1, LowerLevels
<1>6. Descent'
    <2> SUFFICES ASSUME i' >= 1 PROVE Descent'
        BY DEF Descent
    <2>1. i' = i - 1 /\ now' = now /\ forward' = forward /\ max_level' = max_level
          /\ key' = key /\ op' = op /\ got' = got
        BY DEF Down, nodes, args
    <2>2. i \in Nat /\ max_level \in Nat
        BY <1>1 DEF TypeOK, Level
    <2>3. At(now, i - 1)
        BY <1>5, <2>1, <2>2
    <2> QED BY <1>1, <2>1, <2>2, <2>3 DEF Descent, At
<1>7. UpdateInv'
    BY <1>1, <1>2 DEF UpdateInv, Down, nodes, args, IsPred, At, TypeOK, Level
<1>8. Bottom'
    BY <1>1, <1>2 DEF Bottom, Down, nodes, args, IsPred, At, Level
<1>9. ScanInv'
    <2> SUFFICES ASSUME (op = "scan" /\ i = 0)' PROVE ScanInv'
        BY DEF ScanInv
    <2>1. i = 1
        BY <1>1 DEF Down, Level
    <2>2. ASSUME NEW k \in Nodes PROVE ~(key <= k /\ k <= now)
        <3>1. k \in Int /\ key \in Int /\ now \in Int
            BY SkipListAssumption, <1>1 DEF Nodes, TypeOK, first
        <3> QED BY <3>1, <1>1
    <2> QED BY <1>1, <1>2, <1>4, <2>1, <2>2 DEF ScanInv, Down, nodes, args, IsPred, At
<1>10. GetAllInv'
    BY <1>1 DEF GetAllInv, Down, args
<1> QED BY <1>3, <1>4, <1>6, <1>7, <1>8, <1>9, <1>10

LEMMA CollectInv == ASSUME IInv, Collect PROVE IInv'
<1> USE Levels DEF IInv
<1>1. /\ now \in Key \cup {first} /\ At(now, 1) /\ key \in Key /\ ed \in Key
      /\ i = 0 /\ op \in {"scan", "getAll"} /\ Hit # last
    BY DEF Collect, Listing, InRange, ScanInv, GetAllInv, TypeOK
<1>2. /\ Hit \in Key /\ At(Hit, 1) /\ now < Hit
      /\ \A m \in Key : At(m, 1) /\ now < m => Hit <= m
    BY <1>1 DEF LevelsOrdered, Hit
<1>3. TypeOK'
    BY <1>2 DEF TypeOK, Collect, nodes, args
<1>4. LevelsOrdered' /\ TowersWhole' /\ Nodes' = Nodes
    BY NodesKept DEF Collect, nodes
<1>5. Descent' /\ UpdateInv' /\ Bottom'
    BY <1>1 DEF Descent, UpdateInv, Bottom, Collect, args
<1>6. \A k \in Nodes : k <= Hit <=> k <= now \/ k = Hit
    <2> SUFFICES ASSUME NEW k \in Nodes PROVE k <= Hit <=> k <= now \/ k = Hit
        OBVIOUS
    <2>1. k \in Key /\ At(k, 1)
        BY DEF Nodes, At
    <2>2. k \in Int /\ now \in Int /\ Hit \in Int
        BY SkipListAssumption, <1>1, <1>2, <2>1 DEF first
    <2>3. now < k => Hit <= k
        BY <1>2, <2>1
    <2> QED BY <1>2, <2>2, <2>3
<1>7. Hit \in Nodes
    BY <1>2 DEF Nodes, At
<1>8. ScanInv'
    <2> SUFFICES ASSUME op = "scan" PROVE ScanInv'
        BY DEF ScanInv, Collect, args
    <2>1. key <= Hit /\ Hit <= ed
        BY <1>1, <1>2 DEF ScanInv, Collect, InRange, Hit
    <2>2. got \cup {Hit} = {k \in Nodes : key <= k /\ k <= ed /\ k <= Hit}
        BY <1>1, <1>6, <1>7, <2>1 DEF ScanInv
    <2>3. forward[Hit][1] = last \/ forward[Hit][1] >= key
        <3>1. forward[Hit][1] = last \/ (forward[Hit][1] \in Key /\ Hit < forward[Hit][1])
            BY <1>2 DEF LevelsOrdered
        <3>2. Hit \in Nat /\ key \in Nat /\ (forward[Hit][1] \in Key => forward[Hit][1] \in Nat)
            BY SkipListAssumption, <1>1, <1>2
        <3> QED BY <2>1, <3>1, <3>2
    <2> QED BY <1>1, <1>2, <1>4, <2>2, <2>3 DEF ScanInv, Collect, nodes, args, At
<1>9. GetAllInv'
    <2> SUFFICES ASSUME op = "getAll" PROVE GetAllInv'
        BY DEF GetAllInv, Collect, args
    <2>1. got \cup {Hit} = {k \in Nodes : k <= Hit}
        BY <1>6, <1>7 DEF GetAllInv
    <2> QED BY <1>1, <1>2, <1>4, <2>1 DEF GetAllInv, Collect, nodes, args, At
<1> QED BY <1>3, <1>4, <1>5, <1>8, <1>9

(* Between two calls nothing is left to say about locals.                  *)
LEMMA ReturnInv ==
    ASSUME IInv, Returns, UNCHANGED <<forward, max_level, total>>,
           value' \in [Key -> Value \cup {DELETED}]
    PROVE  IInv'
<1> USE Levels DEF IInv
<1>1. TypeOK'
    BY AnyKey DEF TypeOK, Returns, Idle, first
<1>2. LevelsOrdered' /\ TowersWhole'
    BY NodesKept
<1>3. Descent' /\ UpdateInv' /\ Bottom' /\ ScanInv' /\ GetAllInv'
    BY DEF Descent, UpdateInv, Bottom, ScanInv, GetAllInv, Returns, Idle
<1> QED BY <1>1, <1>2, <1>3

-----------------------------------------------------------------------------
(* A new node.                                                             *)

(* The nodes of level l once the key stands on the levels up to v. *)
AtNew(n, l, v) == At(n, l) \/ (n = key /\ l <= v)

LEMMA InsertInv == ASSUME IInv, NEW v \in Level, Insert(v) PROVE IInv'
<1> USE Levels DEF IInv
<1> DEFINE P == Predecessors(v)
<1>1. op = "put" /\ i = 0 /\ ~Found /\ key \in Key /\ ~At(key, 1)
    BY FoundIffListed DEF Insert, Arrived, TypeOK, Nodes, At
<1>2. \A l \in Level : ~At(key, l)
    BY <1>1 DEF TowersWhole, Level
<1>3. ASSUME NEW l \in Level, l <= v
      PROVE  P[l] \in Key \cup {first} /\ IsPred(P[l], l)
    <2>1. CASE l <= max_level
        <3>1. P[l] = update[l]
            BY <2>1 DEF Predecessors, TypeOK, Level
        <3> QED BY <1>1, <2>1, <3>1 DEF UpdateInv, TypeOK, Level
    <2>2. CASE l > max_level
        <3>1. P[l] = first /\ At(first, l)
            BY <1>3, <2>2 DEF Predecessors, TypeOK, Level, TowersWhole
        <3>2. forward[first][l] = last
            <4>1. ASSUME NEW f \in Key, At(f, l) PROVE FALSE
                <5>1. l <= max_level
                    BY <4>1 DEF TowersWhole
                <5> QED BY <2>2, <5>1 DEF TypeOK, Level
            <4> QED BY <3>1, <4>1 DEF LevelsOrdered
        <3>3. first < key
            BY SkipListAssumption, <1>1 DEF first
        <3> QED BY <3>1, <3>2, <3>3 DEF IsPred
    <2>3. l \in Int /\ max_level \in Int
        BY DEF TypeOK, Level
    <2> QED BY <2>1, <2>2, <2>3
<1>4. /\ forward' \in [Key \cup {first} -> [Level -> Pointer \cup {uninit}]]
      /\ \A n \in Key \cup {first} : \A l \in Level :
            forward'[n][l] = IF n = key /\ l <= v THEN forward[P[l]][l]
                             ELSE IF l <= v /\ n = P[l] THEN key
                             ELSE forward[n][l]
    <2>1. \A l \in Level : l <= v => forward[P[l]][l] \in Pointer \cup {uninit}
        BY <1>3 DEF TypeOK
    <2>2. DOMAIN forward = Key \cup {first} /\ forward' = Linked(v, P)
        BY DEF TypeOK, Insert
    <2> QED BY <1>1, <2>1, <2>2 DEF Linked, TypeOK, Pointer
<1>5. \A n \in Key \cup {first} : \A l \in Level :
          At(n, l)' <=> At(n, l) \/ (n = key /\ l <= v)
    <2>1. key # uninit /\ last # uninit
        BY SkipListAssumption, <1>1 DEF uninit, last
    <2>2. ASSUME NEW l \in Level, l <= v PROVE forward[P[l]][l] # uninit
        BY <1>3, <2>2 DEF IsPred, At
    <2> QED BY <1>3, <1>4, <2>1, <2>2 DEF At, IsPred
<1>6. TypeOK'
    <2>1. max_level' \in Level /\ total' \in Nat
        BY DEF Insert, Raised, TypeOK
    <2>2. value' \in [Key -> Value \cup {DELETED}]
        BY DEF Insert, TypeOK
    <2> QED BY <1>4, <2>1, <2>2, AnyKey DEF TypeOK, Insert, Returns, Idle, first
<1>7. LevelsOrdered'
    <2> SUFFICES ASSUME NEW l \in Level, NEW n \in Key \cup {first}, AtNew(n, l, v)
                 PROVE  /\ forward'[n][l] = last
                           \/ (forward'[n][l] \in Key /\ AtNew(forward'[n][l], l, v) /\ n < forward'[n][l])
                        /\ \A m \in Key : AtNew(m, l, v) /\ n < m =>
                               forward'[n][l] # last /\ forward'[n][l] <= m
        BY <1>5 DEF LevelsOrdered, At, AtNew
    <2> DEFINE f == forward[n][l]
    <2>0. Key \subseteq Int /\ first \in Int /\ last \notin Key /\ key \in Int /\ n \in Int
        BY SkipListAssumption, <1>1 DEF first, last
    <2>1. CASE l > v
        <3>1. forward'[n][l] = f /\ At(n, l) /\ \A m \in Key : AtNew(m, l, v) <=> At(m, l)
            BY <1>4, <2>1 DEF Level, AtNew
        <3> QED BY <3>1 DEF LevelsOrdered
    <2>2. CASE l <= v
        <3> DEFINE p == P[l]  q == forward[P[l]][l]
        <3>1. /\ p \in Key \cup {first} /\ At(p, l) /\ p < key /\ p # key /\ p \in Int
              /\ q = last \/ (q \in Key /\ At(q, l) /\ key < q)
              /\ \A m \in Key : At(m, l) /\ p < m => q # last /\ q <= m
            <4>1. /\ p \in Key \cup {first} /\ At(p, l) /\ p < key /\ p \in Int
                  /\ q = last \/ q >= key
                BY <1>3, <2>2, <2>0 DEF IsPred
            <4>2. /\ q = last \/ (q \in Key /\ At(q, l))
                  /\ \A m \in Key : At(m, l) /\ p < m => q # last /\ q <= m
                BY <4>1 DEF LevelsOrdered
            <4>3. q # key
                BY <1>1, <1>2, <4>2, <2>0
            <4>4. q \in Key => key < q
                <5>1. q \in Key => q \in Int /\ q # last
                    BY <2>0
                <5> QED BY <4>1, <4>3, <5>1, <2>0
            <4>5. p # key
                BY <4>1, <2>0
            <4> QED BY <4>1, <4>2, <4>4, <4>5
        <3>2. CASE n = key
            <4>1. forward'[n][l] = q
                BY <1>4, <2>2, <3>2
            <4>2. ASSUME NEW m \in Key, AtNew(m, l, v), n < m PROVE q # last /\ q <= m
                <5>1. At(m, l) /\ p < m
                    BY <3>1, <3>2, <4>2, <2>0 DEF AtNew
                <5> QED BY <3>1, <5>1
            <4> QED BY <3>1, <3>2, <4>1, <4>2 DEF AtNew
        <3>3. CASE n = p /\ n # key
            <4>1. forward'[n][l] = key /\ AtNew(key, l, v)
                BY <1>1, <1>4, <2>2, <3>3 DEF AtNew
            <4>2. ASSUME NEW m \in Key, AtNew(m, l, v), n < m PROVE key <= m
                <5>1. CASE m = key
                    BY <5>1, <2>0
                <5>2. CASE At(m, l)
                    <6>1. q # last /\ q <= m
                        BY <3>1, <3>3, <4>2, <5>2
                    <6>2. q \in Int /\ key < q /\ m \in Int
                        BY <3>1, <6>1, <2>0
                    <6> QED BY <6>1, <6>2, <2>0
                <5> QED BY <4>2, <5>1, <5>2 DEF AtNew
            <4> QED BY <1>1, <3>1, <3>3, <4>1, <4>2, <2>0
        <3>4. CASE n # p /\ n # key
            <4>1. forward'[n][l] = f /\ At(n, l)
                BY <1>4, <3>4 DEF AtNew
            <4>2. /\ f = last \/ (f \in Key /\ At(f, l) /\ n < f)
                  /\ \A m \in Key : At(m, l) /\ n < m => f # last /\ f <= m
                BY <4>1 DEF LevelsOrdered
            <4>3. ASSUME NEW m \in Key, AtNew(m, l, v), n < m PROVE f # last /\ f <= m
                <5>1. CASE At(m, l)
                    BY <4>2, <4>3, <5>1
                <5>2. CASE m = key
                    <6>1. CASE n < p
                        <7>1. p \in Key
                            <8>1. first <= n
                                BY SkipListAssumption DEF first
                            <8> QED BY <3>1, <6>1, <8>1, <2>0
                        <7>2. f # last /\ f <= p
                            BY <3>1, <4>2, <6>1, <7>1
                        <7>3. f \in Int
                            BY <4>2, <7>2, <2>0
                        <7> QED BY <3>1, <5>2, <7>2, <7>3, <2>0
                    <6>2. CASE p < n
                        <7>1. n \in Key
                            BY <6>2, <3>1, SkipListAssumption DEF first
                        <7>2. q # last /\ q <= n
                            BY <3>1, <4>1, <6>2, <7>1
                        <7>3. q \in Int /\ key < q
                            BY <3>1, <7>2, <2>0
                        <7> QED BY <4>3, <5>2, <7>2, <7>3, <2>0
                    <6> QED BY <3>1, <3>4, <6>1, <6>2, <2>0
                <5> QED BY <4>3, <5>1, <5>2 DEF AtNew
            <4>4. f \in Key => AtNew(f, l, v)
                BY <4>2, <2>0 DEF AtNew
            <4> QED BY <4>1, <4>2, <4>3, <4>4
        <3> QED BY <3>2, <3>3, <3>4
    <2> QED BY <2>1, <2>2 DEF Level
<1>8. TowersWhole'
    <2>1. max_level' \in Nat /\ v <= max_level' /\ max_level <= max_level'
        BY DEF Insert, Raised, TypeOK, Level
    <2>2. ASSUME NEW k \in Key, NEW l \in Level, At(k, l)'
          PROVE  l <= max_level' /\ \A j \in 1 .. l : At(k, j)'
        <3>1. \A j \in 1 .. l : j \in Level /\ j <= l
            BY DEF Level
        <3>2. CASE At(k, l)
            BY <1>5, <2>1, <3>1, <3>2 DEF TowersWhole, TypeOK, Level
        <3>3. CASE k = key /\ l <= v
            BY <1>5, <2>1, <3>1, <3>3 DEF Level
        <3> QED BY <1>5, <2>2, <3>2, <3>3
    <2>3. \A l \in Level : At(first, l)'
        BY <1>5 DEF TowersWhole
    <2> QED BY <2>2, <2>3 DEF TowersWhole
<1>9. Descent' /\ UpdateInv' /\ Bottom' /\ ScanInv' /\ GetAllInv'
    BY DEF Insert, Descent, UpdateInv, Bottom, ScanInv, GetAllInv, Returns, Idle
<1> QED BY <1>6, <1>7, <1>8, <1>9

LEMMA RenewInv == ASSUME IInv, Renew PROVE IInv'
<1> USE Levels DEF IInv
<1>1. TypeOK'
    BY DEF TypeOK, Renew, Empty, Pointer, Level, first, last
<1>2. LevelsOrdered' /\ TowersWhole'
    BY DEF LevelsOrdered, TowersWhole, Renew, Empty, At, first, last, uninit
<1>3. Descent' /\ UpdateInv' /\ Bottom' /\ ScanInv' /\ GetAllInv'
    BY DEF Renew, Descent, UpdateInv, Bottom, ScanInv, GetAllInv
<1> QED BY <1>1, <1>2, <1>3

-----------------------------------------------------------------------------

LEMMA ReplaceInv == ASSUME IInv, Replace PROVE IInv'
<1>1. value' \in [Key -> Value \cup {DELETED}]
    BY DEF IInv, TypeOK, Replace
<1> QED BY <1>1, ReturnInv DEF Replace

LEMMA GetInv == ASSUME IInv, Get PROVE IInv'
<1>1. value' \in [Key -> Value \cup {DELETED}]
    BY DEF IInv, TypeOK, Get, nodes
<1> QED BY <1>1, ReturnInv DEF Get, nodes

LEMMA DelInv == ASSUME IInv, Del PROVE IInv'
<1>1. value' \in [Key -> Value \cup {DELETED}]
    BY DEF IInv, TypeOK, Del
<1> QED BY <1>1, ReturnInv DEF Del

LEMMA ListedInv == ASSUME IInv, Listed PROVE IInv'
<1>1. value' \in [Key -> Value \cup {DELETED}]
    BY DEF IInv, TypeOK, Listed, nodes
<1> QED BY <1>1, ReturnInv DEF Listed, nodes

LEMMA StutterInv == ASSUME IInv, UNCHANGED vars PROVE IInv'
  BY DEF IInv, vars, TypeOK, LevelsOrdered, TowersWhole, At, Descent, UpdateInv, IsPred,
         Bottom, ScanInv, GetAllInv, Nodes

(* Every call of the interface starts a search or a listing.               *)
LEMMA NextInv == ASSUME IInv, [Next]_vars PROVE IInv'
<1>1. ASSUME NEW k \in Key, NEW v \in Value, put(k, v) PROVE IInv'
    BY <1>1, CallInv DEF put
<1>2. ASSUME NEW k \in Key, get(k) PROVE IInv'
    BY <1>2, CallInv DEF get, IInv, TypeOK
<1>3. ASSUME NEW k \in Key, del(k) PROVE IInv'
    BY <1>3, CallInv DEF del, IInv, TypeOK
<1>4. ASSUME NEW a \in Key, NEW b \in Key, scan(a, b) PROVE IInv'
    BY <1>4, CallInv DEF scan, IInv, TypeOK
<1>5. CASE getAll
    BY <1>5, GetAllCall
<1>6. CASE Renew
    BY <1>6, RenewInv
<1>7. CASE Step
    BY <1>7, AdvanceInv, DownInv, ReplaceInv, InsertInv, GetInv, DelInv, CollectInv, ListedInv
       DEF Step, randomLevel
<1>8. CASE UNCHANGED vars
    BY <1>8, StutterInv
<1> QED BY <1>1, <1>2, <1>3, <1>4, <1>5, <1>6, <1>7, <1>8 DEF Next

LEMMA Invariance == Spec => []IInv
<1>1. IInv /\ [Next]_vars => IInv'
    BY NextInv
<1> QED BY InitInv, <1>1, PTL DEF Spec

(* Pointers, levels and locals keep their types: no search follows a        *)
(* pointer the constructor left unset (skiplist.h's node).                  *)
THEOREM TypeCorrect == Spec => []TypeOK
<1>1. IInv => TypeOK
    BY DEF IInv
<1> QED BY Invariance, <1>1, PTL

(* Every level is the ordered list of the nodes high enough, and every node *)
(* stands on all levels below its highest (put's linking loop).             *)
THEOREM WellLinked == Spec => []LinksSound
<1>1. IInv => LinksSound
    BY DEF IInv, LinksSound
<1> QED BY Invariance, <1>1, PTL
-----------------------------------------------------------------------------
(* The list against the map.                                               *)

table == [k \in Nodes |-> value[k]]

LEMMA InsertNodes ==
    ASSUME IInv, NEW v \in Level, Insert(v)
    PROVE  Nodes' = Nodes \cup {key} /\ key \in Key
<1> USE Levels DEF IInv
<1>1. op = "put" /\ i = 0 /\ key \in Key
    BY DEF Insert, Arrived, TypeOK
<1>2. \A l \in Level : l > i /\ l <= max_level => update[l] \in Key \cup {first} /\ At(update[l], l)
    BY <1>1 DEF UpdateInv, IsPred, TypeOK
<1>3. max_level \in Level /\ 1 <= v /\ 1 <= max_level
    BY DEF TypeOK
<1>4. Predecessors(v)[1] = update[1] /\ At(update[1], 1)
    BY <1>1, <1>2, <1>3 DEF Predecessors, Level
<1>5. \A n \in Key \cup {first} :
          forward'[n][1] = IF n = key THEN forward[update[1]][1]
                           ELSE IF n = update[1] THEN key ELSE forward[n][1]
    BY <1>3, <1>4 DEF Insert, Linked, TypeOK
<1>6. key # uninit
    BY SkipListAssumption, <1>1 DEF uninit
<1> QED BY <1>1, <1>4, <1>5, <1>6 DEF Nodes, At

LEMMA Unreported == ASSUME IInv, UNCHANGED <<forward, value, seen>>
                    PROVE  UNCHANGED <<table, seen>>
  BY DEF table, Nodes

(* At the end of a listing it holds every node of the range. *)
LEMMA ListingComplete ==
    ASSUME IInv, Listed
    PROVE  /\ op = "scan" => got = (key .. ed) \cap Nodes
           /\ op = "getAll" => got = Key \cap Nodes
<1> USE Levels DEF IInv
<1>1. /\ now \in Key \cup {first} /\ At(now, 1) /\ i = 0 /\ op \in {"scan", "getAll"}
      /\ key \in Int /\ ed \in Int
    BY SkipListAssumption DEF Listed, Listing, ScanInv, GetAllInv, TypeOK
<1>2. ASSUME NEW k \in Nodes PROVE k \in Key /\ k \in Int /\ now \in Int /\ (now < k => Hit # last /\ Hit <= k)
  <2>1. k \in Key /\ At(k, 1)
    BY <1>2 DEF Nodes, At
  <2>2. k \in Int /\ now \in Int
    BY SkipListAssumption, <1>1, <2>1 DEF first
  <2>3. ASSUME now < k PROVE Hit # last /\ Hit <= k
    BY <1>1, <2>1, <2>3 DEF LevelsOrdered, Hit
  <2> QED BY <2>1, <2>2, <2>3
<1>3. ASSUME op = "scan" PROVE got = (key .. ed) \cap Nodes
    <2>1. got = {k \in Nodes : key <= k /\ k <= ed /\ k <= now}
        BY <1>1, <1>3 DEF ScanInv
    <2>2. ASSUME NEW k \in Nodes, key <= k, k <= ed PROVE k <= now
        <3>1. SUFFICES ASSUME now < k PROVE FALSE
            BY <1>2
        <3>2. Hit # last /\ Hit <= k /\ ~(Hit <= ed)
            BY <1>2, <1>3, <3>1 DEF Listed, InRange
        <3>3. Hit \in Key
            BY <1>1, <3>2 DEF LevelsOrdered, Hit
        <3>4. Hit \in Int
            BY SkipListAssumption, <3>3
        <3> QED BY <1>1, <1>2, <2>2, <3>2, <3>4
    <2> QED BY <1>1, <1>2, <2>1, <2>2
<1>4. ASSUME op = "getAll" PROVE got = Key \cap Nodes
    <2>1. got = {k \in Nodes : k <= now} /\ Hit = last
        BY <1>4 DEF GetAllInv, Listed, InRange
    <2>2. \A k \in Nodes : k <= now /\ k \in Key
        BY <1>2, <2>1
    <2> QED BY <2>1, <2>2
<1> QED BY <1>3, <1>4

LEMMA PutNext == ASSUME key \in Key, val \in Value, Table!Put(key, val) PROVE Table!Next
<1>1. PICK k \in Key : k = key
    OBVIOUS
<1>2. PICK v \in Value : v = val
    OBVIOUS
<1>3. Table!Put(k, v)
    BY <1>1, <1>2 DEF Table!Put, Table!Assigned, Table!Reported
<1> QED BY <1>3 DEF Table!Next
LEMMA GetNext == ASSUME NEW k \in Key, Table!Get(k) PROVE Table!Next
  BY DEF Table!Next
LEMMA DelNext == ASSUME NEW k \in Key, Table!Del(k) PROVE Table!Next
  BY DEF Table!Next
LEMMA ScanNext == ASSUME NEW a \in Key, NEW b \in Key, Table!Scan(a, b) PROVE Table!Next
  BY DEF Table!Next

LEMMA ReplaceRefines == ASSUME IInv, Replace PROVE Table!Next
<1>1. key \in Nodes /\ Hit = key /\ key \in Key
    BY FoundIffListed DEF Replace, Arrived, IInv, TypeOK, Found
<1>2. Nodes' = Nodes /\ value' = [value EXCEPT ![key] = val]
    BY <1>1 DEF Replace, Nodes
<1>3. table' = [j \in Nodes \cup {key} |-> IF j = key THEN val ELSE table[j]]
    BY <1>1, <1>2 DEF table, Nodes, IInv, TypeOK
<1>4. val \in Value
    BY DEF Replace, Arrived, IInv, UpdateInv
<1>5. seen' = Table!Reported(<<"put", key, val>>, {})
    BY DEF Replace, Report, Table!Reported
<1>6. Table!Put(key, val)
    BY <1>2, <1>3, <1>5 DEF Table!Put, Table!Assigned, table
<1> QED BY <1>1, <1>4, <1>6, PutNext

LEMMA InsertRefines == ASSUME IInv, NEW v \in Level, Insert(v) PROVE Table!Next
<1>1. Nodes' = Nodes \cup {key} /\ key \in Key
    BY InsertNodes
<1>2. value' = [value EXCEPT ![key] = val] /\ value \in [Key -> Value \cup {DELETED}]
    BY DEF Insert, IInv, TypeOK
<1>3. table' = [j \in Nodes \cup {key} |-> IF j = key THEN val ELSE table[j]]
    <2>1. Nodes \subseteq Key
        BY DEF Nodes
    <2>2. table' = [j \in Nodes' |-> value'[j]]
        BY DEF table
    <2>3. \A j \in Nodes \cup {key} : value'[j] = IF j = key THEN val ELSE table[j]
        BY <1>1, <1>2, <2>1 DEF table
    <2> QED BY <1>1, <2>2, <2>3
<1>4. val \in Value
    BY DEF Insert, Arrived, IInv, UpdateInv
<1>5. seen' = Table!Reported(<<"put", key, val>>, {})
    BY DEF Insert, Report, Table!Reported
<1>6. Table!Put(key, val)
    BY <1>2, <1>3, <1>5 DEF Table!Put, Table!Assigned, table
<1> QED BY <1>1, <1>4, <1>6, PutNext

LEMMA GetRefines == ASSUME IInv, Get PROVE Table!Next
<1>1. key \in Key /\ (Found <=> key \in Nodes) /\ (Found => Hit = key)
    BY FoundIffListed DEF Get, Arrived, IInv, TypeOK, Found
<1>2. Nodes' = Nodes /\ value' = value
    BY DEF Get, nodes, Nodes
<1>3. seen' = [asked |-> <<"get", key>>, got |-> [k \in {key} \cap Nodes |-> table[k]]]
    <2>1. (IF Found THEN {Hit} ELSE {}) = {key} \cap Nodes
        BY <1>1
    <2>2. \A k \in {key} \cap Nodes : value[k] = table[k]
        BY DEF table
    <2>3. seen' = [asked |-> <<"get", key>>, got |-> [k \in {key} \cap Nodes |-> value[k]]]
        BY <2>1 DEF Get, Report
    <2> QED BY <2>2, <2>3
<1>4. Table!Get(key)
    BY <1>2, <1>3 DEF Table!Get, Table!Reported, table
<1> QED BY <1>1, <1>4, GetNext

LEMMA DelRefines == ASSUME IInv, Del PROVE Table!Next
<1>1. key \in Key /\ (Found <=> key \in Nodes) /\ (Found => Hit = key)
    BY FoundIffListed DEF Del, Arrived, IInv, TypeOK, Found
<1>2. Nodes' = Nodes /\ Nodes \subseteq Key /\ value \in [Key -> Value \cup {DELETED}]
    BY DEF Del, Nodes, IInv, TypeOK
<1>3. seen' = [asked |-> <<"del", key>>, got |-> [k \in {key} \cap Nodes |-> table[k]]]
    <2>1. (IF Found THEN {Hit} ELSE {}) = {key} \cap Nodes
        BY <1>1
    <2>2. \A k \in {key} \cap Nodes : value[k] = table[k]
        BY DEF table
    <2>3. seen' = [asked |-> <<"del", key>>, got |-> [k \in {key} \cap Nodes |-> value[k]]]
        BY <2>1 DEF Del, Report
    <2> QED BY <2>2, <2>3
<1>4. table' = IF key \in Nodes
               THEN [j \in Nodes \cup {key} |-> IF j = key THEN DELETED ELSE table[j]]
               ELSE table
    <2>1. table' = [j \in Nodes |-> value'[j]]
        BY <1>2 DEF table
    <2>2. CASE key \in Nodes
        <3>1. \A j \in Nodes : value'[j] = IF j = key THEN DELETED ELSE table[j]
            BY <1>1, <1>2, <2>2 DEF Del, table
        <3> QED BY <2>1, <2>2, <3>1
    <2>3. CASE key \notin Nodes
        BY <1>1, <2>1, <2>3 DEF Del, table
    <2> QED BY <2>2, <2>3
<1>5. Table!Del(key)
    BY <1>3, <1>4 DEF Table!Del, Table!Reported, Table!Assigned, table
<1> QED BY <1>1, <1>5, DelNext

LEMMA ListedRefines == ASSUME IInv, Listed PROVE Table!Next
<1>1. key \in Key /\ ed \in Key /\ op \in {"scan", "getAll"}
    BY DEF Listed, Listing, IInv, TypeOK
<1>2. /\ Nodes' = Nodes /\ value' = value
      /\ seen' = [asked |-> IF op = "scan" THEN <<"scan", key, ed>> ELSE <<"getAll">>,
                  got |-> [k \in got |-> value[k]]]
    BY DEF Listed, nodes, Nodes, Report
<1>3. ASSUME op = "scan" PROVE Table!Scan(key, ed)
    <2>1. got = (key .. ed) \cap Nodes
        BY <1>3, ListingComplete
    <2>2. seen' = [asked |-> <<"scan", key, ed>>, got |-> [k \in (key .. ed) \cap Nodes |-> table[k]]]
        BY <1>2, <1>3, <2>1 DEF table
    <2> QED BY <1>2, <2>2 DEF Table!Scan, Table!Reported, table
<1>4. ASSUME op = "getAll" PROVE Table!GetAll
    <2>1. got = Key \cap Nodes
        BY <1>4, ListingComplete
    <2>2. seen' = [asked |-> <<"getAll">>, got |-> [k \in Key \cap Nodes |-> table[k]]]
        BY <1>2, <1>4, <2>1 DEF table
    <2> QED BY <1>2, <2>2 DEF Table!GetAll, Table!Reported, table
<1>5. CASE op = "scan"
    BY <1>1, <1>3, <1>5, ScanNext
<1>6. CASE op = "getAll"
    BY <1>4, <1>6 DEF Table!Next
<1> QED BY <1>1, <1>5, <1>6

LEMMA RenewRefines == ASSUME IInv, Renew PROVE Table!Next
<1>1. Nodes' = {} /\ seen' = seen
    BY Levels DEF Renew, Nodes, Empty, first, uninit
<1>2. table' = [k \in {} |-> DELETED]
    BY <1>1 DEF table
<1> QED BY <1>1, <1>2 DEF Table!Next, Table!Renew, table

LEMMA NextRefines == ASSUME IInv, [Next]_vars PROVE [Table!Next]_<<table, seen>>
<1>1. CASE UNCHANGED vars
    BY <1>1, Unreported DEF vars
<1>2. CASE Advance \/ Down \/ Collect
    BY <1>2, Unreported DEF Advance, Down, Collect, nodes
<1>3. ASSUME NEW name, NEW k, NEW v, NEW e, NEW l, Begin(name, k, v, e, l)
      PROVE  UNCHANGED <<table, seen>>
    BY <1>3, Unreported DEF Begin, nodes
<1>4. CASE (\E k \in Key : (\E v \in Value : put(k, v)) \/ get(k) \/ del(k))
           \/ (\E a, b \in Key : scan(a, b)) \/ getAll
    BY <1>3, <1>4 DEF put, get, del, scan, getAll
<1>5. CASE Renew \/ Replace \/ Get \/ Del \/ Listed
    BY <1>5, RenewRefines, ReplaceRefines, GetRefines, DelRefines, ListedRefines
<1>6. CASE \E v \in randomLevel : Insert(v)
    BY <1>6, InsertRefines DEF randomLevel
<1> QED BY <1>1, <1>2, <1>4, <1>5, <1>6 DEF Next, Step

(* Whatever the heights, the list answers and changes as the finite map     *)
(* does, for every call of skiplist.cc's interface.                         *)
THEOREM ListIsMap == Spec => ImplementsTable
<1>1. Init => Table!Init
    <2>1. ASSUME Init PROVE Nodes = {}
        BY <2>1, Levels DEF Init, Nodes, Empty, first, uninit
    <2> QED BY <2>1 DEF Init, Table!Init
<1>2. IInv /\ [Next]_vars => [Table!Next]_<<table, seen>>
    BY NextRefines
<1> QED BY Invariance, <1>1, <1>2, PTL DEF Spec, ImplementsTable, Table!Spec, table
=============================================================================
