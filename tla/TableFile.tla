----------------------------- MODULE TableFile -------------------------------
(***************************************************************************)
(* A table of the store as a file (sstable.cc, bloomfilter.cc, formSST of  *)
(* kvstore.cc): the header, the filter packed eight flags to a byte, the   *)
(* entries in the order of their keys.  stdio hands the file to the kernel *)
(* one full buffer at a time, the rest at fclose, so a kill leaves whole   *)
(* pages of it. A table is read through a mapping as long as the file; what*)
(* a read behind it finds is whatever the process has mapped there.        *)
(***************************************************************************)
EXTENDS Integers, Sequences, FiniteSets, TLC, SequencesExt

CONSTANTS TableKey,     \* keys, integers
          Hash,         \* [key -> the flags MurmurHash3 chooses for it]
          Mod,          \* number of flags of a filter, a multiple of 8
          HeadSize, EntrySize,  \* sizes in the file: 32 and 20 in the code
          FilterByte,           \* what a byte of the filter takes: 1 in the code
          PageSize              \* of the stdio buffer and of a mapping

VARIABLES list,         \* the entries of the table, ascending keys
          bits,         \* the bytes of the filter in the file
          written,      \* how much of the file the kernel has
          file,         \* "none", "open" (being written) or "closed"
          opened,       \* how the constructor came out of it
          behind        \* what lies behind the mapping: "nothing" or bytes

vars == <<list, bits, written, file, opened, behind>>

Offset(key) == 10 + key             \* any offset in the log, one per entry
FAULT == -2                         \* no answer: the process has ended
Entry(key) == [key |-> key, offset |-> Offset(key)]
Keys == {list[i].key : i \in DOMAIN list}

-----------------------------------------------------------------------------
(* bloomfilter.cc: add and find on flags, and their form in the file. *)
Flags(keys) == [i \in 0 .. Mod - 1 |-> \E k \in keys : i \in Hash[k]]
find(flag, key) == \A i \in Hash[key] : flag[i]

Bit(flag, i) == IF flag[i] THEN 1 ELSE 0
Packed(flag) ==
    [b \in 0 .. Mod \div 8 - 1 |->
        LET byte[j \in 0 .. 8] ==
                IF j = 8 THEN 0 ELSE Bit(flag, 8 * b + j) * 2 ^ (7 - j) + byte[j + 1]
        IN  byte[0]]
UnpackedLow(input) ==
    [i \in 0 .. Mod - 1 |-> (input[i \div 8] \div 2 ^ (i % 8)) % 2 = 1]

Unpacked(input) ==
    [i \in 0 .. Mod - 1 |-> (input[i \div 8] \div 2 ^ (7 - (i % 8))) % 2 = 1]

EntriesAt == HeadSize + FilterByte * (Mod \div 8)
FileSize == EntriesAt + EntrySize * Len(list)

(* The file up to there is mapped, by whole pages. *)
Mapped(to) == to <= PageSize * ((written + PageSize - 1) \div PageSize)

-----------------------------------------------------------------------------
Init == list = <<>> /\ bits = Packed(Flags({})) /\ written = 0 /\ file = "none" /\ opened = "no" /\ behind = "nothing"

(* save, formSST: fopen, and the entries of the table in order. *)
Create == /\ file = "none"
          /\ \E keys \in SUBSET TableKey \ {{}} :
                /\ list' = [i \in 1 .. Cardinality(keys) |->
                               Entry(SetToSortSeq(keys, <)[i])]
                /\ bits' = Packed(Flags(keys))
          /\ written' = 0 /\ file' = "open"
          /\ UNCHANGED <<opened, behind>>

(* The buffer of the stream is full and more comes. *)
Overflow == /\ file = "open" /\ written + PageSize < FileSize
            /\ written' = written + PageSize
            /\ UNCHANGED <<list, bits, file, opened, behind>>

Close == /\ file = "open" /\ written + PageSize >= FileSize
         /\ written' = FileSize /\ file' = "closed"
         /\ UNCHANGED <<list, bits, opened, behind>>

Kill == /\ file = "open"
        /\ file' = "closed"
        /\ UNCHANGED <<list, bits, written, opened, behind>>

(* The constructor: an empty file cannot be mapped and leaves the object   *)
(* as it was allocated; otherwise the header and the filter are read.      *)
Open == /\ file = "closed" /\ opened = "no"
        /\ behind' \in {"nothing", "zeros", "ones"}
        /\ opened' = IF written = 0 THEN "unset"
                     ELSE IF Mapped(EntriesAt) \/ behind' # "nothing" THEN "read"
                     ELSE "fault"
        /\ UNCHANGED <<list, bits, written, file>>

Unlink == /\ opened # "no"
          /\ list' = <<>> /\ bits' = Packed(Flags({})) /\ written' = 0
          /\ file' = "none" /\ opened' = "no" /\ behind' = "nothing"

Next == Create \/ Overflow \/ Close \/ Kill \/ Open \/ Unlink
Spec == Init /\ [][Next]_vars

-----------------------------------------------------------------------------
(* A field of an entry, n fields behind its key, as the mapping shows it;  *)
(* num comes from the header.                                              *)
Field(i, n, value) ==
    IF Mapped(EntriesAt + EntrySize * i + n + 1) THEN value
    ELSE IF behind = "zeros" THEN 0 ELSE 1000

EntryMapped(i) == behind # "nothing" \/ Mapped(EntriesAt + EntrySize * (i + 1))
KeyAt(i) == Field(i, 0, list[i + 1].key)
OffsetAt(i) == Field(i, 1, list[i + 1].offset)
Middle(l, r) == l + (r - l) \div 2

(* getOffset: bisection over the entries in the mapping. *)
Narrowed(key, l, r) ==
    LET mid == Middle(l, r)
    IN  IF KeyAt(mid) > key THEN <<l, mid - 1>> ELSE <<mid + 1, r>>

getOffset(key) ==
    LET search[l \in Nat, r \in Int] ==
            IF l > r THEN -1
            ELSE IF ~EntryMapped(Middle(l, r)) THEN FAULT
            ELSE IF KeyAt(Middle(l, r)) = key THEN OffsetAt(Middle(l, r))
            ELSE LET n == Narrowed(key, l, r) IN search[n[1], n[2]]
    IN  search[0, Len(list) - 1]

(* The filter the constructor has read. *)
Loaded == [b \in DOMAIN bits |->
              IF Mapped(HeadSize + FilterByte * (b + 1)) THEN bits[b]
              ELSE IF behind = "zeros" THEN 0 ELSE 255]
filterCheck(key) == find(Unpacked(Loaded), key)

(* What KVStore::get makes of the table: -1 sends it to the next one. *)
Looked(key) == IF filterCheck(key) THEN getOffset(key) ELSE -1

(* A table finds its keys, each at its offset, and no others: the filter   *)
(* that was packed, unpacked and shared by many keys denies none, and the  *)
(* bisection misses none. Otherwise an older version would answer.         *)
Right == \A key \in TableKey : Looked(key) = IF key \in Keys THEN Offset(key) ELSE -1

AnswersRight == opened = "read" /\ written = FileSize => Right

(* So it does wherever the writer was killed.                              *)
SurvivesKill == opened # "no" => opened = "read" /\ Right
=============================================================================
