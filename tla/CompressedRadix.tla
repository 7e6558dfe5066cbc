--------------------------- MODULE CompressedRadix ---------------------------
(***************************************************************************)
(* The radix tree with compressed paths of lab1                            *)
(* (compressed_radix_tree.cpp): the link to a node is labelled with len    *)
(* bits, whose value the node keeps.  A node is a record with its          *)
(* children; the loops that climb by fa are the way back of a recursion.   *)
(***************************************************************************)
EXTENDS Integers, Sequences, SequencesExt, FiniteSets, FiniteSetsExt

CONSTANTS MaxLen,        \* bits of a value
          Uninit         \* what the height of a new node may be before it is set

null == [nil |-> TRUE]
Digits == 0 .. 3
NoChildren == [d \in Digits |-> null]

RootNode == [value |-> 0, len |-> 0, height |-> 1, chdNum |-> 0, chd |-> NoChildren]
Empty == [root |-> RootNode, sizeNum |-> 1]

(* As int32_t: the top bit of a value of full length is its sign. *)
Stored(value, len) ==
    LET low == value % 2 ^ len
    IN  IF len = MaxLen /\ low >= 2 ^ (MaxLen - 1) THEN low - 2 ^ MaxLen ELSE low

(* The len bits of value below bit mov, and the two at its top. *)
Bits(value, mov, len) == (value \div 2 ^ (mov - len)) % 2 ^ len
Digit(value, mov) == Bits(value, mov, 2)

(* The comparison is of unsigned numbers of 64 bits, so that a negative    *)
(* label matches nothing.                                                  *)
Matches(c, value, mov) == c.value = Bits(value, mov, c.len)

NewLeaf(value, mov) ==
    [value |-> Stored(value, mov), len |-> mov, height |-> 1, chdNum |-> 0,
     chd |-> NoChildren]

(* How many leading bits the two labels share, at least two. *)
sameLen(va1, len1, va2, len2) ==
    LET equal(s) == va1 \div 2 ^ (len1 - s) = va2 \div 2 ^ (len2 - s)
        differs == {s \in 4 .. len1 : s % 2 = 0 /\ ~equal(s)}
    IN  IF differs = {} THEN len1 ELSE Min(differs) - 2

(* A node between c and its parent, for the bits that are shared. *)
Split(c, value, mov, garbage) ==
    LET va2 == Stored(value, mov)
        same == sameLen(c.value, c.len, va2, mov)
        len1 == c.len - same
        len2 == mov - same
        va1 == Stored(c.value, len1)
        new == NewLeaf(va2, len2)
        low == [c EXCEPT !.value = va1, !.len = len1]
    IN  [value |-> c.value \div 2 ^ len1, len |-> same,
         height |-> Max({garbage, c.height + 1}), chdNum |-> 2,
         chd |-> [NoChildren EXCEPT ![Digit(va2, len2)] = new, ![Digit(va1, len1)] = low]]

(* What insert does below a node: the node and the number of new ones.     *)
RECURSIVE InsertIn(_, _, _, _)
InsertIn(now, value, mov, garbage) ==
    LET id == Digit(value, mov)
        c == now.chd[id]
        below == InsertIn(c, value, mov - c.len, garbage)
        with(node, count) ==
            [node |-> [now EXCEPT !.chd[id] = node,
                                  !.height = Max({@, node.height + 1})],
             added |-> count]
    IN  IF mov = 0 THEN [node |-> now, added |-> 0]
        ELSE IF c = null
        THEN LET r == with(NewLeaf(value, mov), 1)
             IN  [r EXCEPT !.node.chdNum = @ + 1]
        ELSE IF ~Matches(c, value, mov) THEN with(Split(c, value, mov, garbage), 2)
        ELSE IF below.added = 0 THEN [node |-> now, added |-> 0]
        ELSE with(below.node, below.added)

insert(t, value, garbage) ==
    LET r == InsertIn(t.root, value, MaxLen, garbage)
    IN  [root |-> r.node, sizeNum |-> t.sizeNum + r.added]

(* A split writes to chd[va1 >> (len - 2)], which a negative label makes   *)
(* an index of -1 or -2.                                                   *)
OutOfBounds(t, value) ==
    LET c == t.root.chd[Digit(value, MaxLen)]
    IN  c # null /\ ~Matches(c, value, MaxLen) /\ c.value < 0

RECURSIVE Meets(_, _, _)
Meets(now, value, mov) ==
    LET c == now.chd[Digit(value, mov)]
    IN  mov = 0 \/ (c # null /\ Matches(c, value, mov) /\ Meets(c, value, mov - c.len))
find(t, value) == Meets(t.root, value, MaxLen)

(* height > h ?: h is 1 where height is larger: the value of the           *)
(* comparison.                                                             *)
Updated(now) ==
    LET higher(h, d) == IF now.chd[d] = null THEN h
                        ELSE IF h > now.chd[d].height + 1 THEN 1
                        ELSE now.chd[d].height + 1
    IN  [now EXCEPT !.height = FoldLeft(higher, 1, <<0, 1, 2, 3>>)]

(* Mutant: the label of a node that goes is not put before its child's. *)
MergedShort(c) ==
    LET only == CHOOSE d \in Digits : c.chd[d] # null
    IN  [c.chd[only] EXCEPT !.len = @ + c.len]

(* The only child takes over the place of c. *)
Merged(c) ==
    LET only == CHOOSE d \in Digits : c.chd[d] # null
        cd == c.chd[only]
    IN  [cd EXCEPT !.value = Stored(@ + c.value * 2 ^ cd.len, cd.len + c.len),
                   !.len = @ + c.len]

(* What remove does below a node, for a value that is found.               *)
RECURSIVE RemoveIn(_, _, _)
RemoveIn(now, value, mov) ==
    LET id == Digit(value, mov)
        left == IF now.chd[id].len = mov THEN [node |-> now.chd[id], gone |-> 0]
                ELSE RemoveIn(now.chd[id], value, mov - now.chd[id].len)
        c == left.node
    IN  IF c.chdNum = 0
        THEN [node |-> Updated([now EXCEPT !.chd[id] = null, !.chdNum = @ - 1]),
              gone |-> left.gone + 1]
        ELSE IF c.chdNum = 1
        THEN [node |-> Updated([now EXCEPT !.chd[id] = Merged(c)]), gone |-> left.gone + 1]
        ELSE [node |-> Updated([now EXCEPT !.chd[id] = c]), gone |-> left.gone]

remove(t, value) ==
    LET r == RemoveIn(t.root, value, MaxLen)
    IN  IF ~find(t, value) THEN t
        ELSE [root |-> r.node, sizeNum |-> t.sizeNum - r.gone]

-----------------------------------------------------------------------------
RECURSIVE NodesBelow(_), Height(_), Sound(_, _)
Present(now) == {d \in Digits : now.chd[d] # null}
NodesBelow(now) ==
    LET in(d) == IF now.chd[d] = null THEN 0 ELSE NodesBelow(now.chd[d])
    IN  1 + in(0) + in(1) + in(2) + in(3)
Height(now) == Max({1} \cup {Height(now.chd[d]) + 1 : d \in Present(now)})

(* Labels start with the digit of their link, lengths add up to MaxLen at  *)
(* the leaves, and a node that is not the root branches.                   *)
Sound(now, mov) ==
    /\ now.chdNum = Cardinality(Present(now))
    /\ mov = 0 => now.chdNum = 0
    /\ \A d \in Present(now) :
         LET c == now.chd[d]
         IN  /\ c.len \in 2 .. mov /\ Digit(c.value, c.len) = d
             /\ c.len < mov => Cardinality(Present(c)) >= 2
             /\ Sound(c, mov - c.len)

WellFormed(t) == Sound(t.root, MaxLen) /\ t.sizeNum = NodesBelow(t.root)
HeightTold(t) == t.root.height = Height(t.root)
=============================================================================
