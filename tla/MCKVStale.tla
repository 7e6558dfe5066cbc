------------------------------ MODULE MCKVStale ------------------------------
(***************************************************************************)
(* The store under one client that puts the keys of Script in that order:  *)
(* fifteen flushes of two keys.  LevelBase is the code's own 2; a table    *)
(* holds two entries where the code's holds 408, so a key stands for a     *)
(* block of 204 keys put one after the other.                              *)
(***************************************************************************)
EXTENDS KVClient

VARIABLE n          \* puts made so far

Script == <<10,11, 6,8, 2,4, 1,12, 4,5, 9,11, 5,7, 10,11, 10,12, 7,8,
            1,12, 11,12, 11,12, 10,12, 1,12>>

CONSTANTS old, new

(* The last put of a key in the script writes new, those before it old. *)
Text(i) == IF \E j \in i + 1 .. Len(Script) : Script[j] = Script[i] THEN old ELSE new

SInit == CInit /\ n = 0
SNext == \/ CInternal /\ UNCHANGED n
         \/ n < Len(Script) /\ n' = n + 1 /\ CPut(Script[n + 1], Text(n + 1))
SSpec == SInit /\ [][SNext]_<<cvars, n>>
=============================================================================
