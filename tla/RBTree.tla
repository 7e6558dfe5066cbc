------------------------------- MODULE RBTree --------------------------------
(***************************************************************************)
(* The red-black tree of hw5-rbtree (rbtree.cpp), filled by its main.cpp.  *)
(* A node is its data; links are functions on nodes, and null is 0.  The   *)
(* two mirrored halves of the code are one definition with a side.  An     *)
(* insertion is BSTInsert and then fixViolation, whose loop is cut at      *)
(* every turn.                                                             *)
(***************************************************************************)
EXTENDS Integers, Sequences, SequencesExt

CONSTANTS Data,         \* positive integers
          Guarded       \* main.cpp asks f whether a number is new

VARIABLES root, color, parent,
          child,        \* side -> node -> node
          f,            \* main's array: numbers inserted so far
          pc,           \* "main", "fix" or "crashed"
          pt,           \* the local variable of fixViolation
          turns         \* rotations of this insertion

vars == <<root, color, parent, child, f, pc, pt, turns>>

null == 0
Side == {"left", "right"}
Other(s) == IF s = "left" THEN "right" ELSE "left"

Init ==
    /\ root = null
    /\ color = [n \in Data |-> "none"]
    /\ parent = [n \in Data |-> null]
    /\ child = [s \in Side |-> [n \in Data |-> null]]
    /\ f = {} /\ pc = "main" /\ pt = null /\ turns = 0

Nodes == {n \in Data : color[n] # "none"}
IsRed(n) == n # null /\ color[n] = "RED"

-----------------------------------------------------------------------------
(* rotateLeft and rotateRight: the child of x on the other side comes up.  *)
Links == [root |-> root, parent |-> parent, child |-> child]

Rotate(T, x, s) ==
    LET o == Other(s)
        y == T.child[o][x]
        inner == T.child[s][y]
        up == T.parent[x]
        under(t) == IF up # null /\ T.child[t][up] = x
                    THEN [T.child[t] EXCEPT ![up] = y] ELSE T.child[t]
    IN  [root |-> IF up = null THEN y ELSE T.root,
         parent |-> [n \in Data |-> IF n = inner THEN x ELSE IF n = y THEN up
                                    ELSE IF n = x THEN y ELSE T.parent[n]],
         child |-> [t \in Side |->
                       IF t = s THEN [under(t) EXCEPT ![y] = x]
                       ELSE [under(t) EXCEPT ![x] = inner]]]

Relink(T) == root' = T.root /\ parent' = T.parent /\ child' = T.child

-----------------------------------------------------------------------------
(* Where the search for x ends: a node without a child on x's side, or x   *)
(* itself.                                                                 *)
SideOf(x, n) == IF x < n THEN "left" ELSE "right"
Place(x) ==
    LET down[n \in Data] ==
            LET c == child[SideOf(x, n)][n]
            IN  IF n = x \/ c = null THEN n ELSE down[c]
    IN  down[root]

(* insert: BSTInsert links a red node; a number that is there already has  *)
(* another node, which nothing links, so that fixViolation reads the       *)
(* colour of a parent it does not have.                                    *)
insert(x) ==
    /\ pc = "main"
    /\ Guarded => x \notin f
    /\ f' = f \cup {x}
    /\ pt' = x /\ turns' = 0
    /\ IF x \in Nodes
       THEN /\ pc' = "crashed"
            /\ UNCHANGED <<root, color, parent, child>>
       ELSE /\ pc' = "fix"
            /\ color' = [color EXCEPT ![x] = "RED"]
            /\ IF root = null
               THEN root' = x /\ UNCHANGED <<parent, child>>
               ELSE /\ parent' = [parent EXCEPT ![x] = Place(x)]
                    /\ child' = [child EXCEPT ![SideOf(x, Place(x))][Place(x)] = x]
                    /\ UNCHANGED root

-----------------------------------------------------------------------------
(* fixViolation *)

Turn == pc = "fix" /\ pt # root /\ IsRed(pt) /\ IsRed(parent[pt])
Parent == parent[pt]
Grand == parent[Parent]
ParentSide == CHOOSE s \in Side : child[s][Grand] = Parent
Uncle == child[Other(ParentSide)][Grand]
IsOuter == child[ParentSide][Parent] = pt

(* Mutant: the uncle keeps its colour. *)
RecolouredTwo == [color EXCEPT ![Grand] = "RED", ![Parent] = "BLACK"]
Recoloured == [color EXCEPT ![Grand] = "RED", ![Parent] = "BLACK", ![Uncle] = "BLACK"]

UncleRed ==
    /\ Turn /\ Grand # null /\ IsRed(Uncle)
    /\ color' = Recoloured
    /\ pt' = Grand
    /\ UNCHANGED <<root, parent, child, f, pc, turns>>

Raised(n) == [color EXCEPT ![Grand] = "RED", ![n] = "BLACK"]

(* LL and RR: the parent comes up. *)
Outer ==
    /\ Turn /\ Grand # null /\ ~IsRed(Uncle) /\ IsOuter
    /\ Relink(Rotate(Links, Grand, Other(ParentSide)))
    /\ color' = Raised(Parent)
    /\ pt' = Parent
    /\ turns' = turns + 1
    /\ UNCHANGED <<f, pc>>

(* LR and RL: the node itself comes up, in two rotations. *)
Inner ==
    /\ Turn /\ Grand # null /\ ~IsRed(Uncle) /\ ~IsOuter
    /\ Relink(Rotate(Rotate(Links, Parent, ParentSide), Grand, Other(ParentSide)))
    /\ color' = Raised(pt)
    /\ turns' = turns + 2
    /\ UNCHANGED <<f, pc, pt>>

Blackened == [color EXCEPT ![root] = "BLACK"]

Blacken ==
    /\ pc = "fix" /\ ~Turn
    /\ color' = Blackened
    /\ pc' = "main" /\ pt' = null /\ turns' = 0
    /\ UNCHANGED <<root, parent, child, f>>

Fix == UncleRed \/ Outer \/ Inner \/ Blacken
Next == (\E x \in Data : insert(x)) \/ Fix
Spec == Init /\ [][Next]_vars

-----------------------------------------------------------------------------
(* What inorder prints. *)
Inorder ==
    LET under[n \in Data \cup {null}] ==
            IF n = null THEN <<>>
            ELSE under[child["left"][n]] \o <<n>> \o under[child["right"][n]]
    IN  under[root]

(* Black nodes on the way down from n, on either way; -1 where the two     *)
(* sides differ.                                                           *)
BlackHeight ==
    LET at[n \in Data \cup {null}] ==
            IF n = null THEN 0
            ELSE LET l == at[child["left"][n]]
                     r == at[child["right"][n]]
                 IN  IF l # r \/ l = -1 THEN -1
                     ELSE IF color[n] = "BLACK" THEN l + 1 ELSE l
    IN  at[root]

(* In every state of an insertion the tree holds what main has put in, in  *)
(* order, and a child's parent is its parent.                              *)
Ordered ==
    /\ pc # "crashed" => ToSet(Inorder) = f
    /\ \A i \in 2 .. Len(Inorder) : Inorder[i - 1] < Inorder[i]
    /\ \A n \in Nodes : IF n = root THEN parent[n] = null
                        ELSE parent[n] # null /\ \E s \in Side : child[s][parent[n]] = n

(* The red-black conditions: the same number of black nodes on all ways    *)
(* down, at every turn of the loop; and two reds in a row, or a red root,  *)
(* only where the loop stands.                                             *)
Balanced ==
    /\ BlackHeight # -1
    /\ \A n \in Nodes : IsRed(n) /\ (n = root \/ IsRed(parent[n])) => pc = "fix" /\ n = pt

(* A rotation ends the loop, so that an insertion rotates at most twice.   *)
FewRotations == turns > 0 => turns <= 2 /\ ~Turn

(* No turn reads a grandparent that is not there, and no insertion the     *)
(* colour of one.                                                          *)
NoNullFollowed == pc # "crashed" /\ (Turn => Grand # null)
=============================================================================
