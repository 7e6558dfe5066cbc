------------------------------ MODULE MCKVStore ------------------------------
(* The runs of the store: which operations the client may call in each. *)
EXTENDS KVClient

Values == Permutations(Value)

(* The uninitialised int totLevel: a negative value, zero, a positive one. *)
UninitInt == {-3, 0, 2}

(* No kill, no restart: put and del, with or without garbage collection.   *)
NextMap == CInternal \/ Puts \/ Dels
SpecMap == CInit /\ [][NextMap]_cvars

NextGc == NextMap \/ Gcs
SpecGc == CInit /\ [][NextGc]_cvars

(* ... and with everything else. *)
SpecAll == CSpec /\ WF_cvars(CInternal)

(* Kills and restarts under a client that only puts.                       *)
NextKill == CInternal \/ Puts \/ CCrash \/ CReopen
SpecKill == CInit /\ [][NextKill]_cvars

(* ... that also deletes; ... that also collects garbage. *)
SpecKillDel == CInit /\ [][NextKill \/ Dels]_cvars
SpecKillGc == CInit /\ [][NextKill \/ Gcs]_cvars
=============================================================================
