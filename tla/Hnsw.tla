-------------------------------- MODULE Hnsw ---------------------------------
(***************************************************************************)
(* lab2: the index of nearest neighbours (hnsw.hpp) and the program that   *)
(* queries it, first one query after the other, then by threads (test.cpp).*)
(* An item is a point on a line: what the code sees of it is distances.    *)
(* The points of a run have no two equal distances from one of them, where *)
(* the order would be that of addresses.                                   *)
(***************************************************************************)
EXTENDS Integers, Sequences, FiniteSets, TLC, SequencesExt

CONSTANTS Base, Query,      \* sequences of points: what is inserted and asked for
          m_L,              \* number of levels
          M, M_max,         \* edges of a new node, edges of a node at most
          ef_construction, ef_search,
          K,                \* answers wanted: gnd_vec_dim
          threadNum

VARIABLES level, edges,     \* of the nodes, named by their labels 1 .. : edges[n] is
                            \* a map that gets a level when it is first asked for it
          entrance,         \* 0: none
          seq, par,         \* the answers of the two passes
          pc, next,         \* of main (0) and the threads: place and query
          found, added,     \* a thread's answer; whether a query changed the graph
    raced             \* whether two threads have been in the shared map at one time

vars == <<level, edges, entrance, seq, par, pc, next, found, added, raced>>

NULL == 0
Nodes == 1 .. Len(level)
Threads == 1 .. threadNum
Dist(x, n) == (x - Base[n]) * (x - Base[n])

Nearest(x, S) == CHOOSE n \in S : \A m \in S : Dist(x, n) <= Dist(x, m)
Farthest(x, S) == CHOOSE n \in S : \A m \in S : Dist(x, n) >= Dist(x, m)
EdgesAt(e, n, lc) == IF lc \in DOMAIN e[n] THEN e[n][lc] ELSE <<>>

-----------------------------------------------------------------------------
(* search_layer: C are the nodes to go on from, W the best ef_search found *)
(* (the argument ef is not used).                                          *)
Visit(x, s, n) ==
    IF n \in s.visited THEN s
    ELSE IF Dist(x, n) < Dist(x, Farthest(x, s.W)) \/ Cardinality(s.W) < ef_search
         THEN LET W == s.W \cup {n}
              IN  [C |-> s.C \cup {n}, visited |-> s.visited \cup {n}, asked |-> s.asked,
                   W |-> IF Cardinality(W) > ef_search THEN W \ {Farthest(x, W)} ELSE W]
         ELSE [s EXCEPT !.visited = @ \cup {n}]

RECURSIVE Explore(_, _, _, _)
Explore(e, x, lc, s) ==
    IF s.C = {} THEN s
    ELSE LET n == Nearest(x, s.C)
             t == [s EXCEPT !.C = @ \ {n}]
         IN  IF Dist(x, Farthest(x, s.W)) < Dist(x, n) THEN t
             ELSE Explore(e, x, lc,
                      FoldLeft(LAMBDA a, m : Visit(x, a, m),
                               [t EXCEPT !.asked = @ \cup {n}], EdgesAt(e, n, lc)))

(* What it returns, and the nodes it asked for their edges at lc.          *)
search_layer(e, x, ep, lc) ==
    Explore(e, x, lc, [C |-> {ep}, W |-> {ep}, visited |-> {ep}, asked |-> {}])

(* edges[lc] makes an empty list where there is none.                      *)
Asked(e, S, lc) ==
    [n \in DOMAIN e |-> IF n \in S /\ lc \notin DOMAIN e[n] THEN (lc :> <<>>) @@ e[n] ELSE e[n]]

(* Down from level hi to level lo, each time to the nearest node found.    *)
RECURSIVE Descend(_, _, _, _, _)
Descend(e, x, ep, hi, lo) ==
    IF hi < lo THEN [e |-> e, ep |-> ep]
    ELSE LET r == search_layer(e, x, ep, hi)
         IN  Descend(Asked(e, r.asked, hi), x, Nearest(x, r.W), hi - 1, lo)

-----------------------------------------------------------------------------
(* The edge between the new node and w: w with M_max edges gives up its    *)
(* longest one for it, if that is longer.                                  *)
Connect(e, new, w, lc) ==
    LET own == EdgesAt(e, w, lc)
        far == CHOOSE i \in DOMAIN own :
                  \A j \in DOMAIN own : Dist(Base[w], own[i]) >= Dist(Base[w], own[j])
        back == IF Len(own) # M_max THEN Append(own, new)
                ELSE IF Dist(Base[w], own[far]) > Dist(Base[w], new)
                THEN [own EXCEPT ![far] = new]
                ELSE own
    IN  [e EXCEPT ![new] = (lc :> Append(EdgesAt(e, new, lc), w)) @@ @,
                  ![w] = (lc :> back) @@ @]

(* W in the order of distance. *)
ByDistance(x, W) == SetToSortSeq(W, LAMBDA n, m : Dist(x, n) < Dist(x, m))
First(s, n) == SubSeq(s, 1, IF Len(s) < n THEN Len(s) ELSE n)

RECURSIVE Link(_, _, _, _)
Link(e, new, ep, lc) ==
    IF lc < 0 THEN e
    ELSE LET r == search_layer(e, Base[new], ep, lc)
             near == First(ByDistance(Base[new], r.W), M)
         IN  Link(FoldLeft(LAMBDA f, w : Connect(f, new, w, lc), Asked(e, r.asked, lc), near),
                  new, Nearest(Base[new], r.W), lc - 1)

(* The levels a new node is linked at.  Mutant: all of its own.            *)
AllItsLevels(top, l) == l
SharedLevels(top, l) == IF top < l THEN top ELSE l

insert(l) ==
    LET new == Len(level) + 1
        e == Append(edges, <<>>)
        top == level[entrance]
        d == Descend(e, Base[new], entrance, top, l + 1)
    IN  /\ level' = Append(level, l)
        /\ IF entrance = NULL THEN edges' = e /\ entrance' = new
           ELSE /\ edges' = Link(d.e, new, d.ep, SharedLevels(top, l))
                /\ entrance' = IF l > top THEN new ELSE entrance

(* query: the K nearest of what the lowest level gives, with the list made *)
(* of it read from its end without asking whether it is that long.         *)
query(x) ==
    LET d == Descend(edges, x, entrance, level[entrance], 1)
        r == search_layer(d.e, x, d.ep, 0)
    IN  [edges |-> Asked(d.e, r.asked, 0),
         labels |-> First(ByDistance(x, r.W), K)]

-----------------------------------------------------------------------------
Init ==
    /\ level = <<>> /\ edges = <<>> /\ entrance = NULL
    /\ seq = <<>> /\ par = <<>>
    /\ pc = [t \in {0} \cup Threads |-> IF t = 0 THEN "insert" ELSE "none"]
    /\ next = [t \in Threads |-> 0]
    /\ found = [t \in Threads |-> <<>>] /\ added = FALSE /\ raced = FALSE

Goes(t, place) == pc' = [pc EXCEPT ![t] = place]

Insert ==
    /\ pc[0] = "insert"
    /\ \E l \in 0 .. m_L - 1 : insert(l)
    /\ Goes(0, IF Len(level) + 1 = Len(Base) THEN "query" ELSE "insert")
    /\ UNCHANGED <<seq, par, next, found, added, raced>>

(* The share of a thread: the last one takes what is left.                 *)
Share(t) == LET n == Len(Query) \div threadNum
            IN  n * (t - 1) + 1 .. IF t # threadNum THEN n * t ELSE Len(Query)

QueryNext ==
    /\ pc[0] = "query"
    /\ IF Len(seq) < Len(Query)
       THEN LET q == query(Query[Len(seq) + 1])
            IN  /\ seq' = Append(seq, q.labels) /\ edges' = q.edges
                /\ UNCHANGED <<pc, next>>
       ELSE /\ pc' = [t \in DOMAIN pc |-> IF t = 0 THEN "join" ELSE "ask"]
            /\ next' = [t \in Threads |-> (Len(Query) \div threadNum) * (t - 1) + 1]
            /\ UNCHANGED <<seq, edges>>
    /\ UNCHANGED <<level, entrance, par, found, added, raced>>

(* A thread's query; the graph is shared, and no lock guards it.           *)
Ask(t) ==
    /\ pc[t] = "ask"
    /\ IF next[t] \in Share(t)
       THEN LET q == query(Query[next[t]])
            IN  /\ found' = [found EXCEPT ![t] = q.labels]
                /\ edges' = q.edges
                /\ added' = (added \/ q.edges # edges)
                /\ Goes(t, "store")
       ELSE Goes(t, "done") /\ UNCHANGED <<found, edges, added>>
    /\ UNCHANGED <<level, entrance, seq, par, next, raced>>

(* results[i] = ...: the map shared by the threads, whose lock is commented*)
(* out, is entered here and left by the next step.                         *)
StoreBegins(t) ==
    /\ pc[t] = "store"
    /\ Goes(t, "storing")
    /\ raced' = (raced \/ \E u \in Threads : pc[u] = "storing")
    /\ UNCHANGED <<level, edges, entrance, seq, par, next, found, added>>

(* Once two threads have changed the buckets at one time, any entries may  *)
(* be gone from them, ...                                                  *)
Damaged(map) == {[i \in kept |-> map[i]] : kept \in SUBSET DOMAIN map}

Store(t) ==
    /\ pc[t] = "storing"
    /\ LET map == (next[t] :> found[t]) @@ par
       IN  par' \in IF raced THEN Damaged(map) ELSE {map}
    /\ next' = [next EXCEPT ![t] = @ + 1]
    /\ Goes(t, "ask")
    /\ UNCHANGED <<level, edges, entrance, seq, found, added, raced>>

(* ... or the program crashes in them, or never leaves them.               *)
Crash ==
    /\ raced /\ \E t \in Threads : pc[t] = "storing"
    /\ pc' = [t \in DOMAIN pc |-> "dead"]
    /\ UNCHANGED <<level, edges, entrance, seq, par, next, found, added, raced>>

Join ==
    /\ pc[0] = "join" /\ \A t \in Threads : pc[t] = "done"
    /\ Goes(0, "compared")
    /\ UNCHANGED <<level, edges, entrance, seq, par, next, found, added, raced>>

Next == Insert \/ QueryNext \/ Join \/ Crash
        \/ \E t \in Threads : Ask(t) \/ StoreBegins(t) \/ Store(t)

-----------------------------------------------------------------------------
(* On every level a node has edges to at most M_max others, each of them   *)
(* once and each on that level too, and the entrance is a highest node.    *)
GraphSound ==
    /\ \A n \in Nodes : \A lc \in DOMAIN edges[n] :
          /\ Len(edges[n][lc]) <= M_max
          /\ IsInjective(edges[n][lc])
          /\ \A m \in ToSet(edges[n][lc]) : m # n /\ level[m] >= lc
          /\ edges[n][lc] # <<>> => level[n] >= lc
    /\ entrance # NULL => \A n \in Nodes : level[n] <= level[entrance]

(* An answer has K labels, different ones, if there are as many items: the *)
(* loop of query never reads before its list (K <= M + 1).                 *)
Full(labels) == Len(labels) = K /\ IsInjective(labels)
AnswersFull == Len(Base) >= K /\ K <= M + 1 => \A i \in DOMAIN seq : Full(seq[i])

(* The threads' queries leave the graph as it is, although edges[lc] adds  *)
(* lists: the queries before them were the same.                           *)
GraphLeftAlone == ~added

(* A thread's query has the answer it had in the first pass, whatever the  *)
(* others do; and all of the answers are in the map at the end, unless two *)
(* threads have stored at one time.                                        *)
SameAnswers ==
    /\ \A t \in Threads : pc[t] \in {"store", "storing"} => found[t] = seq[next[t]]
    /\ pc[0] = "compared" /\ ~raced => par = seq

(* The parallel pass gives each query the answer of the first pass         *)
(* (test.cpp:16: "a lock is needed when shared data is operated on").      *)
AllStored == pc[0] = "compared" => par = seq

(* No two threads are in the shared map at one time.                       *)
StoresAlone == \A t, u \in Threads : pc[t] = "storing" /\ pc[u] = "storing" => t = u
=============================================================================
