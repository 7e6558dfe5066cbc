------------------------------- MODULE HeapAPI -------------------------------
(***************************************************************************)
(* What an allocator promises its client (the checks of lab9/mdriver.c's   *)
(* eval_mm_valid, stated without their implementation): a live block is an *)
(* aligned range of the heap that no other live block shares, it stays     *)
(* where it is, and its bytes are its owner's until it is freed.           *)
(***************************************************************************)
EXTENDS Integers

CONSTANTS ALIGNMENT, MAX_HEAP, Id

VARIABLE live       \* [some of Id -> the address, the size and the contents]

Init == live = [i \in {} |-> {}]

Range(lo, size) == lo .. lo + size - 1
Owned == UNION {Range(live[i].ptr, live[i].size) : i \in DOMAIN live}

(* Whoever gets a block writes its own name all over it. *)
Granted(id, lo, size, others) ==
    /\ lo % ALIGNMENT = 0
    /\ Range(lo, size) \subseteq 0 .. MAX_HEAP - 1
    /\ Range(lo, size) \cap others = {}
    /\ live' = [i \in DOMAIN live \cup {id} |->
                 IF i = id THEN [ptr |-> lo, size |-> size, words |-> {id}] ELSE live[i]]

Block(b) == live'[b]
Alloc(id) == /\ id \in DOMAIN live' \ DOMAIN live
             /\ Granted(id, Block(id).ptr, Block(id).size, Owned)

(* Moved or not, larger or smaller. *)
Realloc(id) ==
    /\ id \in DOMAIN live \cap DOMAIN live'
    /\ Granted(id, Block(id).ptr, Block(id).size,
               Owned \ Range(live[id].ptr, live[id].size))

Free(id) == /\ id \in DOMAIN live
            /\ live' = [i \in DOMAIN live \ {id} |-> live[i]]

Next == (\E id \in Id : Alloc(id) \/ Realloc(id) \/ Free(id)) \/ Init'
Spec == Init /\ [][Next]_live
=============================================================================
