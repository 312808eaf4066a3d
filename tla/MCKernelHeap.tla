---------------------------- MODULE MCKernelHeap ----------------------------
(* A small heap: class 1 has the size that is the number of class 2.       *)
EXTENDS KernelHeap

Counts == <<3, 2, 2, 2>>
=============================================================================
