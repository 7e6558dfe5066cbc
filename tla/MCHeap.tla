------------------------------- MODULE MCHeap --------------------------------
(* A heap of 35 words with three free lists; 24 is the size that preAlloc   *)
(* rounds up, 28 the one that stands for 4092.                             *)
EXTENDS Heap, TLC

MCPreAlloc == (24 :> 8)
=============================================================================
