------------------------------- MODULE Select --------------------------------
(***************************************************************************)
(* hw7/select.cpp: the k-th smallest of an array, by quickSelect and by    *)
(* medians of medians, both of which move the elements of the array that   *)
(* the next call gets (correctness.cpp).  Positions are counted from 0.    *)
(***************************************************************************)
EXTENDS Integers, Sequences, FiniteSets, TLC, SequencesExt

CONSTANTS Item, Size,       \* of the arrays
          Q                 \* elements of a group: 5

VARIABLES A, before,        \* the array after the call and before it
          last, k, result   \* that call, what it was asked for, its answer

vars == <<A, before, last, k, result>>

Ascending(s) == SortSeq(s, <)
Part(s, left, right) == SubSeq(s, left + 1, right + 1)
Swap(s, i, j) == [s EXCEPT ![i + 1] = s[j + 1], ![j + 1] = s[i + 1]]

-----------------------------------------------------------------------------
(* partition: the elements below the pivot to the front, then the pivot;   *)
(* how many are below, and how many equal ones follow at once.  The last   *)
(* position is not counted.                                                *)
partition(s, left, right, pivot) ==
    LET value == s[pivot + 1]
        s0 == Swap(s, pivot, right)
        move[i \in left .. right] ==        \* the array and storeIndex before i
            IF i = left THEN [s |-> s0, store |-> left]
            ELSE LET b == move[i - 1]
                 IN  IF b.s[i] < value
                     THEN [s |-> Swap(b.s, b.store, i - 1), store |-> b.store + 1] ELSE b
        out == Swap(move[right].s, move[right].store, right)
        counted == {i \in left .. right - 1 : \A j \in left .. i : out[j + 1] <= value}
        L == Cardinality({i \in counted : out[i + 1] < value})
    IN  [s |-> out, L |-> L, E |-> Cardinality(counted) - L]

RECURSIVE linearSelect(_, _)

(* The groups of q from left on, the last one of what is left. *)
medianOfMedians(s, left, right, q) ==
    LET n == right - left + 1
        Group(i) == Ascending(Part(s, left + i * q, IF (i + 1) * q > n THEN right
                                                    ELSE left + (i + 1) * q - 1))
        medians == [i \in 1 .. (n + q - 1) \div q |->
                        Group(i - 1)[Len(Group(i - 1)) \div 2 + 1]]
    IN  IF Len(medians) = 1 THEN medians[1]
        ELSE linearSelect(medians, Len(medians) \div 2).result

(* The loop of linearSelect, and quickSelect's below, turn by turn.        *)
RECURSIVE Turn(_, _, _, _)
Turn(s, left, right, n) ==
    IF right - left + 1 <= Q
    THEN LET t == SubSeq(s, 1, left) \o Ascending(Part(s, left, right))
                      \o SubSeq(s, right + 2, Len(s))
         IN  [s |-> t, result |-> t[left + n + 1]]
    ELSE LET pivot == medianOfMedians(s, left, right, Q)
             at == CHOOSE i \in left .. right :
                      s[i + 1] = pivot /\ \A j \in left .. i - 1 : s[j + 1] # pivot
             p == partition(s, left, right, at)
         IN  IF n < p.L THEN Turn(p.s, left, left + p.L - 1, n)
             ELSE IF n < p.L + p.E THEN [s |-> p.s, result |-> p.s[left + n + 1]]
             ELSE Turn(p.s, left + p.L + p.E, right, n - (p.L + p.E))

linearSelect(s, n) == Turn(s, 0, Len(s) - 1, n)

-----------------------------------------------------------------------------
(* quickSelect, one round between low and high: the hole starts at low,    *)
(* though the pivot may have been anywhere.                                *)
DownTo(s, i, j, pivot) ==       \* --j while i < j and pivot <= A[j]
    CHOOSE x \in i .. j : /\ x = i \/ pivot > s[x + 1]
                          /\ \A y \in x + 1 .. j : pivot <= s[y + 1]
UpTo(s, i, j, pivot) ==         \* ++i while i < j and pivot >= A[i]
    CHOOSE x \in i .. j : /\ x = j \/ pivot < s[x + 1]
                          /\ \A y \in i .. x - 1 : pivot >= s[y + 1]

RECURSIVE Round(_, _, _, _)
Round(s, i, j, pivot) ==
    IF i >= j THEN [s |-> [s EXCEPT ![i + 1] = pivot], i |-> i]
    ELSE LET j2 == DownTo(s, i, j, pivot)
             s2 == [s EXCEPT ![i + 1] = s[j2 + 1]]
             i2 == UpTo(s2, i, j2, pivot)
         IN  Round([s2 EXCEPT ![j2 + 1] = s2[i2 + 1]], i2, j2, pivot)

(* What quickSelect can end with: rand() takes any place for the pivot.    *)
RECURSIVE Rounds(_, _, _, _)
Rounds(s, low, high, n) ==
    IF low >= high THEN {s}
    ELSE UNION {LET r == Round(s, low, high, s[p + 1])
                IN  Rounds(r.s, IF n >= r.i THEN r.i + 1 ELSE low,
                                IF n <= r.i THEN r.i - 1 ELSE high, n) : p \in low .. high}

-----------------------------------------------------------------------------
(* No array yet. *)
Blank == A = <<>> /\ before = <<>> /\ last = "none" /\ k = 0 /\ result = 0

Init ==
    /\ A \in [1 .. Size -> Item] /\ before = A
    /\ last = "none" /\ k = 0 /\ result = 0

(* One call: the array the next one gets is among the first ones.          *)
Call(name, n) ==
    /\ last = "none"
    /\ before' = A /\ last' = name /\ k' = n

(* check: linearSelect counts k from 0, quickSelect from 1.                *)
Linear(n) ==
    /\ Call("linearSelect", n)
    /\ LET r == linearSelect(A, n) IN A' = r.s /\ result' = r.result

Quick(n) ==
    /\ Call("quickSelect", n)
    /\ \E s \in Rounds(A, 0, Size - 1, n) : A' = s /\ result' = s[n + 1]

Next == \E n \in 0 .. Size - 1 : Linear(n) \/ Quick(n)

-----------------------------------------------------------------------------
(* linearSelect answers with the k-th of the array it was given and loses  *)
(* none of its elements (correctness.cpp:35).  quickSelect does so where   *)
(* none of its rounds has lost an element.                                 *)
KeepsElements == Ascending(A) = Ascending(before)
SelectsRight ==
    /\ last = "linearSelect" => KeepsElements
    /\ last # "none" /\ KeepsElements => result = Ascending(before)[k + 1]

(* The answer of quickSelect is the k-th of the array it was given         *)
(* (correctness.cpp:36); ...                                               *)
QuickSelectsRight == last = "quickSelect" => result = Ascending(before)[k + 1]

(* ... and it loses no element.                                            *)
QuickKeepsElements == last = "quickSelect" => KeepsElements
=============================================================================
