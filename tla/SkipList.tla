------------------------------- MODULE SkipList ------------------------------
(***************************************************************************)
(* The skip list that is the store's memory table (LSM-KV/skiplist.cc; the *)
(* list of hw1-handout is the same without del and scan).  A node is its   *)
(* key; first and last are the sentinels.  forward[n][i] is the pointer of *)
(* node n at level i, which the constructor of a node leaves uninitialised. *)
(* Every operation begins with the same search: from first and max_level,  *)
(* advance while the next key is smaller, then go down a level.  A search  *)
(* is cut into those steps; what it does at its end is one step more.      *)
(***************************************************************************)
EXTENDS Integers, FiniteSets

CONSTANTS Key, Value,
          DELETED,          \* the value "~DELETED~"
          MAX_LEVEL, MAX_NUM

ASSUME SkipListAssumption ==
    /\ Key \subseteq Nat /\ Key # {}
    /\ MAX_LEVEL \in Nat /\ MAX_LEVEL >= 2

VARIABLES forward, value,   \* the nodes
          max_level, total, update,
          op,               \* the operation in progress, "none" between two
          key, val, ed,     \* its arguments
          now, i,           \* its local variables
          got,              \* keys that scan or getAll has listed so far
          seen              \* the last call that returned, and what it reported

nodes == <<forward, value, max_level, total>>
args == <<op, key, val, ed>>
vars == <<forward, value, max_level, total, update, op, key, val, ed, now, i, got, seen>>

first == -1
last == -2
uninit == -3

Level == 1 .. MAX_LEVEL - 1
Nodes == {k \in Key : forward[k][1] # uninit}

(* rand() decides how high a new node is. *)
randomLevel == Level

anyKey == CHOOSE k \in Key : TRUE

Empty == [n \in Key \cup {first} |-> [l \in Level |-> IF n = first THEN last ELSE uninit]]

Init ==
    /\ forward = Empty
    /\ value = [k \in Key |-> DELETED]
    /\ max_level = 1 /\ total = 0
    /\ update = [l \in Level |-> first]
    /\ op = "none" /\ key = anyKey /\ val = DELETED /\ ed = anyKey
    /\ now = first /\ i = 0 /\ got = {}
    /\ seen = [asked |-> <<"none">>, got |-> [k \in {} |-> DELETED]]

isFull == total >= MAX_NUM

(* The destructor and a new list: the store flushes a full one, and reset  *)
(* drops any.                                                              *)
Renew ==
    /\ op = "none"
    /\ forward' = Empty /\ max_level' = 1 /\ total' = 0
    /\ value' = [k \in Key |-> DELETED]
    /\ UNCHANGED <<update, op, key, val, ed, now, i, got, seen>>

-----------------------------------------------------------------------------
(* Calls *)

Begin(name, k, v, e, level) ==
    /\ op = "none" /\ op' = name
    /\ key' = k /\ val' = v /\ ed' = e
    /\ now' = first /\ i' = level /\ got' = {}
    /\ UNCHANGED <<nodes, update, seen>>

put(k, v) == ~isFull /\ Begin("put", k, v, k, max_level)
get(k) == Begin("get", k, val, k, max_level)
del(k) == Begin("del", k, val, k, max_level)
scan(a, b) == Begin("scan", a, val, b, max_level)
getAll == Begin("getAll", key, val, ed, 0)

-----------------------------------------------------------------------------
(* The search *)

next == forward[now][i]
Searching == op # "none" /\ i >= 1

Advance ==
    /\ Searching
    /\ next # last /\ next < key
    /\ now' = next
    /\ UNCHANGED <<nodes, update, args, i, got, seen>>

Down ==
    /\ Searching
    /\ next = last \/ next >= key
    /\ update' = IF op = "put" THEN [update EXCEPT ![i] = now] ELSE update
    /\ i' = i - 1
    /\ UNCHANGED <<nodes, args, now, got, seen>>

-----------------------------------------------------------------------------
(* What follows it *)

Hit == forward[now][1]
Found == Hit # last /\ Hit = key
Arrived(name) == op = name /\ i = 0

(* What a call leaves in its local variables and in update is never read   *)
(* again, so it is forgotten.                                              *)
Idle == /\ op' = "none" /\ key' = anyKey /\ ed' = anyKey /\ val' = DELETED
        /\ now' = first /\ i' = 0 /\ got' = {}
Returns == Idle /\ update' = [l \in Level |-> first]

Report(call, S) == seen' = [asked |-> call, got |-> [k \in S |-> value[k]]]

(* A key that is there only gets another value. *)
Replace ==
    /\ Arrived("put") /\ Found
    /\ value' = [value EXCEPT ![Hit] = val]
    /\ Report(<<"put", key, val>>, {})
    /\ Returns
    /\ UNCHANGED <<forward, max_level, total>>

(* At the levels that are new to the list the predecessor is first. *)
Predecessors(v) == [l \in Level |-> IF l \in max_level + 1 .. v THEN first ELSE update[l]]

(* Mutant: the node before does not point to it on its highest level. *)
LinkedLow(v, pred) ==
    [n \in DOMAIN forward |-> [l \in Level |->
        IF n = key /\ l <= v THEN forward[pred[l]][l]
        ELSE IF l < v /\ n = pred[l] THEN key
        ELSE forward[n][l]]]

(* Mutant: the node before is told first, so the new one copies itself.    *)
LinkedSwapped(v, pred) ==
    [n \in DOMAIN forward |-> [l \in Level |->
        IF l <= v /\ n \in {key, pred[l]} THEN key ELSE forward[n][l]]]

Linked(v, pred) ==
    [n \in DOMAIN forward |-> [l \in Level |->
        IF n = key /\ l <= v THEN forward[pred[l]][l]
        ELSE IF l <= v /\ n = pred[l] THEN key
        ELSE forward[n][l]]]

Raised(v) == IF v > max_level THEN v ELSE max_level

Insert(v) ==
    /\ Arrived("put") /\ ~Found
    /\ forward' = Linked(v, Predecessors(v))
    /\ max_level' = Raised(v)
    /\ value' = [value EXCEPT ![key] = val]
    /\ total' = total + 1
    /\ Report(<<"put", key, val>>, {})
    /\ Returns

(* "" when it is not found. *)
Get ==
    /\ Arrived("get")
    /\ Report(<<"get", key>>, IF Found THEN {Hit} ELSE {})
    /\ Returns
    /\ UNCHANGED nodes

(* 0 when it is not found, -1 when it is deleted already, else 1. *)
Del ==
    /\ Arrived("del")
    /\ Report(<<"del", key>>, IF Found THEN {Hit} ELSE {})
    /\ value' = IF Found THEN [value EXCEPT ![Hit] = DELETED] ELSE value
    /\ Returns
    /\ UNCHANGED <<forward, max_level, total>>

(* Mutant: the end of the range is left out. *)
InRangeOpen == Hit # last /\ (op = "scan" => Hit < ed)
InRange == Hit # last /\ (op = "scan" => Hit <= ed)
Listing == op \in {"scan", "getAll"} /\ i = 0

Collect ==
    /\ Listing /\ InRange
    /\ now' = Hit /\ got' = got \cup {Hit}
    /\ UNCHANGED <<nodes, update, args, i, seen>>

Listed ==
    /\ Listing /\ ~InRange
    /\ Report(IF op = "scan" THEN <<"scan", key, ed>> ELSE <<"getAll">>, got)
    /\ Returns
    /\ UNCHANGED nodes

-----------------------------------------------------------------------------
Step ==
    \/ Advance \/ Down
    \/ Replace \/ (\E v \in randomLevel : Insert(v))
    \/ Get \/ Del
    \/ Collect \/ Listed

Next ==
    \/ \E k \in Key : (\E v \in Value : put(k, v)) \/ get(k) \/ del(k)
    \/ \E a, b \in Key : scan(a, b)
    \/ getAll \/ Renew
    \/ Step

Spec == Init /\ [][Next]_vars

(* A call runs on until it returns. *)
FairSpec == Spec /\ WF_vars(Step)

-----------------------------------------------------------------------------
Pointer == Key \cup {last}

(* Types; in particular no search follows a pointer that was never set.    *)
TypeOK ==
    /\ forward \in [Key \cup {first} -> [Level -> Pointer \cup {uninit}]]
    /\ value \in [Key -> Value \cup {DELETED}]
    /\ max_level \in Level /\ total \in Nat
    /\ update \in [Level -> Key \cup {first}]
    /\ op \in {"none", "put", "get", "del", "scan", "getAll"}
    /\ key \in Key /\ val \in Value \cup {DELETED} /\ ed \in Key
    /\ now \in Key \cup {first} /\ i \in 0 .. MAX_LEVEL - 1
    /\ got \subseteq Key

At(n, l) == forward[n][l] # uninit

(* Every level is the list, in order, of the nodes that are high enough:   *)
(* a pointer leads to the next one of its level, whatever heights were     *)
(* drawn and in whatever order keys came.                                  *)
LevelsOrdered ==
    \A l \in Level : \A n \in Key \cup {first} :
        At(n, l) =>
            LET f == forward[n][l]
            IN  /\ f = last \/ (f \in Key /\ At(f, l) /\ n < f)
                /\ \A m \in Key : At(m, l) /\ n < m => f # last /\ f <= m

(* A node stands on every level below its own, so going down never leaves  *)
(* the list.                                                               *)
TowersWhole ==
    /\ \A k \in Key : \A l \in Level :
            At(k, l) => l <= max_level /\ \A j \in 1 .. l : At(k, j)
    /\ \A l \in Level : At(first, l)

(* Every node is found from every level it is on, whatever heights were    *)
(* drawn and in whatever order keys came (put's update of forward).        *)
LinksSound == LevelsOrdered /\ TowersWhole

(* The list is a map: put, get, del and scan do to the nodes what they     *)
(* would do to the finite map from the listed keys to their values, which  *)
(* is how the model of the store takes them.                               *)
Table == INSTANCE MemTable WITH table <- [k \in Nodes |-> value[k]]
ImplementsTable == Table!Spec

(* A call comes back.                                                      *)
CallsReturn == (op # "none") ~> (op = "none")
=============================================================================
