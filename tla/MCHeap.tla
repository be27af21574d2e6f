------------------------------- MODULE MCHeap -------------------------------
(***************************************************************************)
(* Instances of Heap: kernel threads that allocate small and large blocks  *)
(* and a user program that moves the break.                                *)
(***************************************************************************)
EXTENDS Heap

CONSTANTS k1, k2, u1
Moves == {-2, 3}
=============================================================================
