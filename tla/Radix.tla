-------------------------------- MODULE Radix --------------------------------
(***************************************************************************)
(* The radix tree of lab1 (radix_tree.cpp): two bits a level, so that all  *)
(* leaves are MaxLen / 2 below the root.  A node is its path, the sequence *)
(* of the children taken from the root; chdNum counts its children.        *)
(***************************************************************************)
EXTENDS Integers, Sequences, SequencesExt, FiniteSets

CONSTANT MaxLen      \* bits of a value

Steps == MaxLen \div 2

(* (value >> mov) & mask at every level *)
Path(value) == [h \in 1 .. Steps |-> (value \div 4 ^ (Steps - h)) % 4]
PathNodes(value) == {SubSeq(Path(value), 1, h) : h \in 0 .. Steps}

Empty == [chdNum |-> [p \in {<<>>} |-> 0], sizeNum |-> 1, heightNum |-> 1]

NodesOf(t) == DOMAIN t.chdNum
ChildrenIn(S, p) == {q \in S : q # <<>> /\ Front(q) = p}

(* The nodes of the path that are missing. *)
insert(t, value) ==
    LET new == PathNodes(value) \ NodesOf(t)
        old(p) == IF p \in NodesOf(t) THEN t.chdNum[p] ELSE 0
    IN  [chdNum |-> [p \in NodesOf(t) \cup new |-> old(p) + Cardinality(ChildrenIn(new, p))],
         sizeNum |-> t.sizeNum + Cardinality(new),
         heightNum |-> Steps + 1]

find(t, value) == PathNodes(value) \subseteq NodesOf(t)

(* From the leaf up, nodes that have no child. *)
RECURSIVE Prune(_, _)
Prune(t, p) ==
    IF p = <<>> \/ t.chdNum[p] # 0 THEN t
    ELSE Prune([t EXCEPT !.chdNum = [q \in NodesOf(t) \ {p} |->
                                        IF q = Front(p) THEN @[q] - 1 ELSE @[q]],
                         !.sizeNum = @ - 1], Front(p))

remove(t, value) ==
    LET rest == Prune(t, Path(value))
    IN  IF ~find(t, value) THEN t
        ELSE IF rest.chdNum[<<>>] = 0 THEN [rest EXCEPT !.heightNum = 1]
        ELSE rest

(* No node without a leaf below it; the counters count. *)
WellFormed(t) ==
    /\ \A p \in NodesOf(t) :
         /\ p # <<>> => Front(p) \in NodesOf(t)
         /\ t.chdNum[p] = Cardinality(ChildrenIn(NodesOf(t), p))
         /\ Len(p) < Steps /\ p # <<>> => t.chdNum[p] > 0
    /\ t.sizeNum = Cardinality(NodesOf(t))
    /\ \A p \in NodesOf(t) : Len(p) < t.heightNum
    /\ \E p \in NodesOf(t) : Len(p) + 1 = t.heightNum
=============================================================================
