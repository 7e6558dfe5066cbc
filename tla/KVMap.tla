-------------------------------- MODULE KVMap --------------------------------
(***************************************************************************)
(* What the interface of kvstore_api.h promises a client whose store may   *)
(* be killed: `dict' is the map the client sees (Empty means "not found"), *)
(* `stable' the map it would find if the store were killed now.  From time *)
(* to time the whole map becomes stable; it is never stable in parts.      *)
(***************************************************************************)
CONSTANTS Key, PutValue, Empty

VARIABLES dict, stable

NothingStored == [k \in Key |-> Empty]

Put(k, v) == dict' = [dict EXCEPT ![k] = v] /\ UNCHANGED stable
Del(k) == dict' = [dict EXCEPT ![k] = Empty] /\ UNCHANGED stable
Reset == dict' = NothingStored /\ stable' = NothingStored
Persist == stable' = dict /\ UNCHANGED dict
Kill == dict' = stable /\ UNCHANGED stable

MapInit == dict = NothingStored /\ stable = NothingStored
MapNext ==
    \/ \E k \in Key : Del(k) \/ \E v \in PutValue : Put(k, v)
    \/ Reset \/ Persist \/ Kill
MapSpec == MapInit /\ [][MapNext]_<<dict, stable>>
=============================================================================
