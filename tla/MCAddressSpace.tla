--------------------------- MODULE MCAddressSpace ---------------------------
(* Small instances of AddressSpace: processes are interchangeable.         *)
EXTENDS AddressSpace, TLC

ProcSymmetry == Permutations(Procs)
=============================================================================
