-------------------------- MODULE MCPhysicalMemory --------------------------
(* Small machines: the memory map has reserved areas between and after the *)
(* available ones, holes, and bounds inside of pages, or memory is soon at *)
(* its end; one map is out of order, with areas that overlap and an empty  *)
(* one; the ram disk lies right behind the kernel or further up.           *)
EXTENDS PhysicalMemory

Area(b, l, a) == [base |-> b, limit |-> l, available |-> a]

SmallMaps == {
  <<Area(0, 3, TRUE), Area(3, 4, FALSE), Area(6, 8, FALSE), Area(8, 24, TRUE),
    Area(24, 27, FALSE)>>,
  <<Area(8, 27, TRUE), Area(21, 25, FALSE), Area(0, 3, TRUE), Area(2, 9, FALSE),
    Area(22, 22, FALSE)>>,
  <<Area(0, 14, TRUE), Area(14, 17, FALSE), Area(17, 26, TRUE)>>,
  <<Area(0, 12, TRUE), Area(20, 28, FALSE)>> }

AboveKernel == [base |-> 6, limit |-> 7]
Disks == {[base |-> 5, limit |-> 6], [base |-> 8, limit |-> 10]}
=============================================================================
