------------------------------ MODULE MemTable -------------------------------
(***************************************************************************)
(* What the store expects of its memory table (skiplist.h): a finite map   *)
(* from keys to values.  seen is the last call that returned and the part  *)
(* of the map it reported: what get returns, what del has replaced, what   *)
(* scan lists.                                                             *)
(***************************************************************************)
EXTENDS Integers

CONSTANTS Key, Value, DELETED

VARIABLES table, seen

Init == /\ table = [k \in {} |-> DELETED]
        /\ seen = [asked |-> <<"none">>, got |-> [k \in {} |-> DELETED]]

Reported(call, S) == [asked |-> call, got |-> [k \in S \cap DOMAIN table |-> table[k]]]
Assigned(k, v) == [j \in DOMAIN table \cup {k} |-> IF j = k THEN v ELSE table[j]]

Put(k, v) == seen' = Reported(<<"put", k, v>>, {}) /\ table' = Assigned(k, v)
Get(k) == seen' = Reported(<<"get", k>>, {k}) /\ UNCHANGED table

(* A key that is not in the table is left to the tables on disk. *)
Del(k) == /\ seen' = Reported(<<"del", k>>, {k})
          /\ table' = IF k \in DOMAIN table THEN Assigned(k, DELETED) ELSE table

Scan(a, b) == seen' = Reported(<<"scan", a, b>>, a .. b) /\ UNCHANGED table
GetAll == seen' = Reported(<<"getAll">>, Key) /\ UNCHANGED table
Renew == table' = [k \in {} |-> DELETED] /\ UNCHANGED seen

Next ==
    \/ \E k \in Key : (\E v \in Value : Put(k, v)) \/ Get(k) \/ Del(k)
    \/ \E a, b \in Key : Scan(a, b)
    \/ GetAll \/ Renew

Spec == Init /\ [][Next]_<<table, seen>>
=============================================================================
