-------------------------------- MODULE LLRB ---------------------------------
(***************************************************************************)
(* The left-leaning red-black tree of lab1 (red_black_tree.hpp): a tree is *)
(* a record with its subtrees, or null; the colour is that of the link     *)
(* from the parent.  Every operation returns the new subtree, as in the    *)
(* code.                                                                   *)
(***************************************************************************)
EXTENDS Integers

null == [size |-> 0]
Leaf(key) == [key |-> key, lc |-> null, rc |-> null, size |-> 1, color |-> "red"]

is_red(nd) == nd # null /\ nd.color = "red"

rotate_left(node) ==
    LET res == node.rc
        down == [node EXCEPT !.rc = res.lc, !.color = "red",
                             !.size = node.lc.size + res.lc.size + 1]
    IN  [res EXCEPT !.lc = down, !.color = node.color, !.size = node.size]

rotate_right(node) ==
    LET res == node.lc
        down == [node EXCEPT !.lc = res.rc, !.color = "red",
                             !.size = res.rc.size + node.rc.size + 1]
    IN  [res EXCEPT !.rc = down, !.color = node.color, !.size = node.size]

neg_color(c) == IF c = "black" THEN "red" ELSE "black"
color_flip(node) ==
    [node EXCEPT !.color = neg_color(@), !.lc.color = neg_color(@), !.rc.color = neg_color(@)]

move_red_right(root) ==
    LET flipped == color_flip(root)
    IN  IF is_red(flipped.lc.lc) THEN color_flip(rotate_right(flipped)) ELSE flipped

move_red_left(root) ==
    LET flipped == color_flip(root)
    IN  IF is_red(flipped.rc.lc)
        THEN color_flip(rotate_left([flipped EXCEPT !.rc = rotate_right(@)]))
        ELSE flipped

fix_up(root) ==
    LET one == IF is_red(root.rc) /\ ~is_red(root.lc) THEN rotate_left(root) ELSE root
        two == IF is_red(one.lc) /\ is_red(one.lc.lc) THEN rotate_right(one) ELSE one
        three == IF is_red(two.lc) /\ is_red(two.rc) THEN color_flip(two) ELSE two
    IN  [three EXCEPT !.size = three.lc.size + three.rc.size + 1]

RECURSIVE Inserted(_, _), delete_min(_), delete_arbitrary(_, _), Meets(_, _), get_min(_)

Inserted(root, key) ==
    IF root = null THEN Leaf(key)
    ELSE fix_up(IF root.key = key THEN root
                ELSE IF key < root.key THEN [root EXCEPT !.lc = Inserted(@, key)]
                ELSE [root EXCEPT !.rc = Inserted(@, key)])

insert(root, key) == [Inserted(root, key) EXCEPT !.color = "black"]

get_min(root) == IF root.lc = null THEN root.key ELSE get_min(root.lc)

delete_min(root) ==
    LET ready == IF ~is_red(root.lc) /\ ~is_red(root.lc.lc) THEN move_red_left(root) ELSE root
    IN  IF root.lc = null THEN null
        ELSE fix_up([ready EXCEPT !.lc = delete_min(@)])

delete_arbitrary(root, key) ==
    IF key < root.key
    THEN LET ready == IF ~is_red(root.lc) /\ ~is_red(root.lc.lc) THEN move_red_left(root)
                      ELSE root
         IN  fix_up([ready EXCEPT !.lc = delete_arbitrary(@, key)])
    ELSE LET leant == IF is_red(root.lc) THEN rotate_right(root) ELSE root
             ready == IF ~is_red(leant.rc) /\ ~is_red(leant.rc.lc) THEN move_red_right(leant)
                      ELSE leant
         IN  IF key = leant.key /\ leant.rc = null THEN null
             ELSE IF key = ready.key
             THEN fix_up([ready EXCEPT !.key = get_min(ready.rc), !.rc = delete_min(@)])
             ELSE fix_up([ready EXCEPT !.rc = delete_arbitrary(@, key)])

(* count and find go down the same way. *)
Meets(root, key) ==
    /\ root # null
    /\ \/ root.key = key
       \/ Meets(IF key < root.key THEN root.lc ELSE root.rc, key)
find(root, key) == Meets(root, key)

(* A root with two black links starts out red, as one half of a 3-node. *)
erase(root, key) ==
    LET ready == IF ~is_red(root.lc) /\ ~is_red(root.rc) THEN [root EXCEPT !.color = "red"]
                 ELSE root
        rest == delete_arbitrary(ready, key)
    IN  IF ~find(root, key) THEN root
        ELSE IF rest = null THEN null
        ELSE [rest EXCEPT !.color = "black"]

-----------------------------------------------------------------------------
(* What is expected of a tree: keys in order, no red link to the right and *)
(* no two in a row, as many black links on every way down, sizes that      *)
(* count; -1 where one of these fails, else the number of black links.     *)
RECURSIVE Keys(_), BlackLinks(_)
Keys(root) == IF root = null THEN {} ELSE Keys(root.lc) \cup {root.key} \cup Keys(root.rc)
BlackLinks(root) ==
    IF root = null THEN 0
    ELSE LET l == BlackLinks(root.lc)
             r == BlackLinks(root.rc)
         IN  IF \/ l = -1 \/ l # r
                \/ is_red(root.rc)
                \/ is_red(root) /\ is_red(root.lc)
                \/ root.size # root.lc.size + root.rc.size + 1
                \/ \E k \in Keys(root.lc) : k >= root.key
                \/ \E k \in Keys(root.rc) : k <= root.key
             THEN -1
             ELSE IF is_red(root) THEN l ELSE l + 1
WellFormed(root) == BlackLinks(root) # -1 /\ ~is_red(root)
=============================================================================
