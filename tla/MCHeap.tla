------------------------------- MODULE MCHeap -------------------------------
(* Requests for Heap: two sizes for the kernel's heap, which ignores the    *)
(* alignment, and an aligned and an unaligned one for the DMA heap.         *)
EXTENDS Heap

MCRequests == {[size |-> 1, align |-> 1], [size |-> 2, align |-> 1], [size |-> 2, align |-> 2]}
=============================================================================
