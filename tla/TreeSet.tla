------------------------------- MODULE TreeSet -------------------------------
(***************************************************************************)
(* The interface the three trees of lab1 share (tree.hpp, and what         *)
(* ycsb.cpp and main.cpp call): insert, remove and find.  kind is the      *)
(* class a test has chosen, members the set it has built.                  *)
(***************************************************************************)
EXTENDS Integers, FiniteSets

CONSTANTS Value,         \* the values a test uses
          MaxLen, Uninit

VARIABLES kind, tree, members

vars == <<kind, tree, members>>

S == INSTANCE LLRB
R == INSTANCE Radix
C == INSTANCE CompressedRadix

Init ==
    /\ members = {}
    /\ \/ kind = "Set" /\ tree = S!null
       \/ kind = "RadixTree" /\ tree = R!Empty
       \/ kind = "CompressedRadixTree" /\ tree = C!Empty

insert(v) ==
    /\ members' = members \cup {v}
    /\ UNCHANGED kind
    /\ \/ kind = "Set" /\ tree' = S!insert(tree, v)
       \/ kind = "RadixTree" /\ tree' = R!insert(tree, v)
       \/ /\ kind = "CompressedRadixTree" /\ ~C!OutOfBounds(tree, v)
          /\ \E garbage \in Uninit : tree' = C!insert(tree, v, garbage)

remove(v) ==
    /\ members' = members \ {v}
    /\ UNCHANGED kind
    /\ \/ kind = "Set" /\ tree' = S!erase(tree, v)
       \/ kind = "RadixTree" /\ tree' = R!remove(tree, v)
       \/ kind = "CompressedRadixTree" /\ tree' = C!remove(tree, v)

find(v) == CASE kind = "Set" -> S!find(tree, v)
             [] kind = "RadixTree" -> R!find(tree, v)
             [] kind = "CompressedRadixTree" -> C!find(tree, v)

Next == \E v \in Value : insert(v) \/ remove(v)
Spec == Init /\ [][Next]_vars

-----------------------------------------------------------------------------
(* All three are the same set: find is true of what has been inserted and  *)
(* not removed since, whatever else has been split, merged or rotated.  Of *)
(* the negative values the compressed tree finds none: their labels have a *)
(* sign that the bits they are compared with have not                      *)
(* (compressed_radix_tree.cpp:42, 56 and 161).                             *)
Holds(v) == kind = "CompressedRadixTree" => v >= 0
FindsMembers == \A v \in Value : find(v) <=> v \in members /\ Holds(v)

(* "store int32_t values" (compressed_radix_tree.hpp:1).                   *)
FindsAll == \A v \in Value : find(v) <=> v \in members

(* The balance, the compression and the counters of each are right after   *)
(* every call.                                                             *)
ShapeKept == CASE kind = "Set" -> S!WellFormed(tree) /\ tree.size = Cardinality(members)
               [] kind = "RadixTree" -> R!WellFormed(tree)
               [] kind = "CompressedRadixTree" -> C!WellFormed(tree)

(* height() is the height of the tree (tree.hpp).                          *)
HeightTold == kind = "CompressedRadixTree" => C!HeightTold(tree)

(* No write goes outside the children of a node, whatever int32_t is       *)
(* inserted.                                                               *)
InBounds == kind = "CompressedRadixTree" => \A v \in Value : ~C!OutOfBounds(tree, v)
=============================================================================
