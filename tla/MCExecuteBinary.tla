--------------------------- MODULE MCExecuteBinary ---------------------------
(* Pages of 32 bytes, twelve of them in memory, and twice as many          *)
(* addresses.  Programs of a segment or of two side by side, and with a    *)
(* header of type "null", which reserves nothing it can reserve, a page,   *)
(* part of a page, or a range that wraps around; programs with a header    *)
(* whose end wraps around, below its start and behind it; and files no     *)
(* program starts from: segments that share a page, lie in page 0 or reach *)
(* the end of memory, a file with more bytes than memory, and headers of   *)
(* another type.                                                           *)
EXTENDS ExecuteBinary

Header(t, v, m, b) == [type |-> t, vaddr |-> v, memory |-> m, bytes |-> b]
Load(v, m, b) == Header("load", v, m, b)
Null == Header("null", 0, 0, 0)

SomeFiles == {
  <<Load(70, 20, 20)>>,
  <<Load(70, 20, 20), Load(96, 32, 0)>>,
  <<Null, Load(64, 40, 10)>>,
  <<Load(96, Space - 60, 0), Load(64, 8, 8)>>,
  <<Load(100, Space - 1, 4)>>,
  <<Load(64, 40, 40), Load(100, 10, 10)>>,
  <<Load(0, 40, 40)>>,
  <<Load(Top - 32, 8, 8)>>,
  <<Load(64, 10, 60)>>,
  <<Header("other", 64, 8, 8)>>}

SomeLeftover == {Area(0, 0), Area(160, 32), Area(134, 20), Area(150, Space - 40)}

(* One or two pages; a range that starts below its own size, one that does *)
(* not start where a page does, the kernel's page by its other address,    *)
(* and a range whose end wraps around.                                     *)
SomeFrees ==
  {Area(32 * p, 32 * n) : p \in 1 .. 10, n \in 1 .. 2}
  \cup {Area(64, 96), Area(104, 32), Area(Top + 320, 32), Area(Space - 32, 64)}
=============================================================================
