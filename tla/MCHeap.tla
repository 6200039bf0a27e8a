------------------------------- MODULE MCHeap -------------------------------
(* A heap of a few 16-byte units, requests around the rounding, splitting   *)
(* and size limits.                                                         *)
EXTENDS Heap

MCSizes == {0, 1, 17, 48, VM_HEAP_SIZE - 16, VM_HEAP_SIZE, VM_HEAP_SIZE + 1}
=============================================================================
