------------------------------ MODULE Huffman --------------------------------
(***************************************************************************)
(* Lab0.handout: a text is coded with a Huffman code of its characters, or *)
(* of its characters and its most frequent pairs (hftree.cpp); the table   *)
(* of codes goes through a file and codes the text (utils.h, main.cpp).    *)
(* Characters are numbers, in the order of their codes; a text, a symbol   *)
(* (one or two characters) and a code are sequences.                       *)
(***************************************************************************)
EXTENDS Integers, Sequences, FiniteSets, SequencesExt, FiniteSetsExt, Functions

CONSTANTS Char, MaxText, ByteBits       \* 8 in the code

VARIABLES text, option, codingTable, loaded, file

vars == <<text, option, codingTable, loaded, file>>

(* As ASCII has them. *)
NewLine == 10
Space == 32
Digit == <<48, 49>>
Bit(c) == c - 48

-----------------------------------------------------------------------------
(* std::map and the comparison of strings. *)
Before(s, t) ==
    \/ IsStrictPrefix(s, t)
    \/ \E i \in DOMAIN s \cap DOMAIN t : s[i] < t[i] /\ \A j \in 1 .. i - 1 : s[j] = t[j]
Ascending(S) == [i \in 1 .. Cardinality(S) |->
                    CHOOSE s \in S : Cardinality({t \in S : Before(t, s)}) = i - 1]

Pair(t, i) == SubSeq(t, i, i + 1)
Pairs(t) == {Pair(t, i) : i \in 1 .. Len(t) - 1}
Times(t, p) == Cardinality({i \in 1 .. Len(t) - 1 : Pair(t, i) = p})

(* log(length) / log(2) * 2, cut to an int. *)
MULTI_CHAR_NUMBER(t) == Max({n \in 0 .. 2 * Len(t) : 2 ^ n <= Len(t) * Len(t)})

(* The pairs that become symbols: the queue lets go of the rarest, and of  *)
(* those the last in the order of strings.                                 *)
Rarer(t, p, q) ==
    Times(t, p) < Times(t, q) \/ (Times(t, p) = Times(t, q) /\ Before(q, p))
Chosen(t) == {p \in Pairs(t) : Cardinality({q \in Pairs(t) : Rarer(t, p, q)}) < MULTI_CHAR_NUMBER(t)}

(* The text cut into symbols from the left, a pair in P before a character.*)
Cut(t, P) ==
    LET cut[i \in 1 .. Len(t) + 1] ==
            IF i > Len(t) THEN <<>>
            ELSE IF i < Len(t) /\ Pair(t, i) \in P
            THEN <<Pair(t, i)>> \o cut[i + 2]
            ELSE <<SubSeq(t, i, i)>> \o cut[i + 1]
    IN  cut[1]

(* mapBuilding: every symbol with its count.  A pair keeps its leaf when   *)
(* the cut never meets it.                                                 *)
Counts(t, op) ==
    LET P == IF op = "MultiChar" THEN Chosen(t) ELSE {}
        symbols == Cut(t, P)
    IN  [s \in P \cup ToSet(symbols) |-> Cardinality({i \in DOMAIN symbols : symbols[i] = s})]

-----------------------------------------------------------------------------
(* A tree is known by its weight, its smallest text (smallNode) and the    *)
(* codes of its leaves.                                                    *)
Leaf(s, n) == [cnt |-> n, small |-> s, codes |-> [x \in {s} |-> <<>>]]
Less(a, b) == a.cnt < b.cnt \/ (a.cnt = b.cnt /\ Before(a.small, b.small))
Least(Q) == CHOOSE a \in Q : \A b \in Q \ {a} : Less(a, b)

Joined(a, b) ==
    LET l == IF Less(a, b) THEN a ELSE b
        r == IF Less(a, b) THEN b ELSE a
    IN  [cnt |-> a.cnt + b.cnt,
         small |-> IF Before(a.small, b.small) THEN a.small ELSE b.small,
         codes |-> [s \in DOMAIN l.codes \cup DOMAIN r.codes |->
                       IF s \in DOMAIN l.codes THEN <<0>> \o l.codes[s] ELSE <<1>> \o r.codes[s]]]

RECURSIVE Tree(_)
Tree(Q) == IF Cardinality(Q) = 1 THEN Least(Q)
           ELSE LET a == Least(Q)
                    b == Least(Q \ {a})
                IN  Tree((Q \ {a, b}) \cup {Joined(a, b)})

hfTree(t, op) == LET counts == Counts(t, op)
                 IN  Tree({Leaf(s, counts[s]) : s \in DOMAIN counts}).codes

-----------------------------------------------------------------------------
(* codingTable2String: symbol, space, code, newline.                       *)
codingTable2String(table) ==
    FlattenSeq([i \in DOMAIN Ascending(DOMAIN table) |->
        LET s == Ascending(DOMAIN table)[i]
        IN  s \o <<Space>> \o [b \in DOMAIN table[s] |-> Digit[table[s][b] + 1]] \o <<NewLine>>])

(* loadCodingTable: one character is the symbol if a space and a digit     *)
(* follow, else two; then the digits up to another character.              *)
CodeFrom(f, i) ==
    LET code[j \in Nat] == IF j \in DOMAIN f /\ f[j] \in ToSet(Digit)
                           THEN <<Bit(f[j])>> \o code[j + 1] ELSE <<>>
    IN  code[i]

loadCodingTable(f) ==
    LET load[i \in Nat] ==
            IF i > Len(f) THEN <<>>
            ELSE LET size == IF i + 2 \in DOMAIN f /\ f[i + 1] = Space /\ f[i + 2] \in ToSet(Digit)
                             THEN 1 ELSE 2
                     code == CodeFrom(f, i + size + 1)
                 IN  <<[symbol |-> SubSeq(f, i, i + size - 1), code |-> code]>>
                         \o load[i + size + 1 + Len(code) + 1]
        lines == load[1]
    IN  [s \in {lines[n].symbol : n \in DOMAIN lines} |->
            lines[Max({n \in DOMAIN lines : lines[n].symbol = s})].code]

(* compress: the bits of the symbols, cut from the text with the table's   *)
(* pairs, their number, and the last byte filled up with zeros.            *)
Bits(table, t) ==
    LET symbols == Cut(t, {s \in DOMAIN table : Len(s) = 2})
    IN  FlattenSeq([i \in DOMAIN symbols |-> table[symbols[i]]])

Byte(bits, n) ==
    LET byte[j \in 0 .. ByteBits] ==
            IF j = 0 THEN 0
            ELSE 2 * byte[j - 1] + LET i == ByteBits * (n - 1) + j
                                   IN  IF i \in DOMAIN bits THEN bits[i] ELSE 0
    IN  byte[ByteBits]

compress(table, t) ==
    LET bits == Bits(table, t)
    IN  [len |-> Len(bits),
         bytes |-> [n \in 1 .. (Len(bits) + ByteBits - 1) \div ByteBits |-> Byte(bits, n)]]

(* The assertion of compress: what the text is cut into is in the table.   *)
Known(table, t) ==
    ToSet(Cut(t, {s \in DOMAIN table : Len(s) = 2})) \subseteq DOMAIN table

-----------------------------------------------------------------------------
None == <<>>

Init == text = <<>> /\ option = "SingleChar" /\ codingTable = None /\ loaded = None /\ file = None

(* parseText, a character at a time. *)
Read(c) == /\ codingTable = None /\ Len(text) < MaxText
           /\ text' = Append(text, c)
           /\ UNCHANGED <<option, codingTable, loaded, file>>

(* main, for one option: the table, its file read back, the coded text.    *)
(* The file is empty where the assertion ends the program.                 *)
Encode(op) ==
    /\ codingTable = None /\ text # <<>>
    /\ option' = op
    /\ codingTable' = hfTree(text, op)
    /\ loaded' = loadCodingTable(codingTable2String(codingTable'))
    /\ file' = IF Known(loaded', text) THEN <<compress(loaded', text)>> ELSE None
    /\ UNCHANGED text

Next == (\E c \in Char : Read(c)) \/ \E op \in {"SingleChar", "MultiChar"} : Encode(op)

-----------------------------------------------------------------------------
(* Decoding: the bits of the file, read with the table that was saved.     *)
BitOf(z, i) ==
    LET place == (i - 1) % ByteBits
    IN  (z.bytes[(i - 1) \div ByteBits + 1] \div 2 ^ (ByteBits - 1 - place)) % 2

Decoded(table, z) ==
    LET bits == [i \in 1 .. z.len |-> BitOf(z, i)]
        read[i \in 1 .. z.len + 1] ==
            IF i > z.len THEN <<>>
            ELSE LET s == CHOOSE s \in DOMAIN table : IsPrefix(table[s], SubSeq(bits, i, z.len))
                 IN  s \o read[i + Len(table[s])]
    IN  read[1]

Cost(codes, counts) == FoldFunction(+, 0, [s \in DOMAIN codes |-> Len(codes[s]) * counts[s]])

(* The least cost of any code for symbols of these weights: some two of    *)
(* them are joined first.  Equal weights are tried once.                   *)
FirstOf(w, i, but) == \A j \in 1 .. i - 1 : j # but => w[j] # w[i]

RECURSIVE LeastCost(_)
LeastCost(w) ==
    IF Len(w) <= 1 THEN 0
    ELSE Min({LET s == w[p[1]] + w[p[2]]
              IN  s + LeastCost(Append(RemoveAt(RemoveAt(w, p[2]), p[1]), s)) :
                 p \in {q \in (DOMAIN w) \X (DOMAIN w) :
                           q[1] < q[2] /\ FirstOf(w, q[1], 0) /\ FirstOf(w, q[2], q[1])}})

Encoded == codingTable # None
Symbols == DOMAIN codingTable

(* A text of two symbols or more comes back from the file with the table   *)
(* that was saved, whatever its characters: a space, a digit, a newline.   *)
RoundTrip ==
    Encoded /\ Cardinality(Symbols) > 1 =>
        file # None /\ Decoded(loaded, file[1]) = text

(* The codes are no prefixes of each other, and no code of the symbols     *)
(* needs fewer bits for the text.                                          *)
CodeOptimal ==
    Encoded =>
        /\ \A s, t \in Symbols : s # t => ~IsPrefix(codingTable[s], codingTable[t])
        /\ LET counts == Counts(text, option) IN
           Cost(codingTable, counts) = LeastCost([i \in DOMAIN Ascending(Symbols) |-> counts[Ascending(Symbols)[i]]])

(* "As the table was made for this text, this should not happen": compress *)
(* finds every symbol (utils.h:113).                                       *)
EveryTextEncodes == Encoded => file # None
=============================================================================
