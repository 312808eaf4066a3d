------------------------------- MODULE Areas --------------------------------
(***************************************************************************)
(* Ranges of addresses and the lists of them that the user and the kernel  *)
(* virtual allocator keep (UserVirtualMemoryArea of usrvmmngr.hpp and      *)
(* MemoryArea of kvmmngr.hpp).  A linked list is a sequence.               *)
(***************************************************************************)
LOCAL INSTANCE Integers
LOCAL INSTANCE Sequences

Area(s, n) == [start |-> s, size |-> n]
Span(s, n) == s .. s + n - 1
End(a) == a.start + a.size

(* The list l with the areas "from" to "to" replaced by the sequence s.    *)
Splice(l, from, to, s) == SubSeq(l, 1, from - 1) \o s \o SubSeq(l, to + 1, Len(l))

(* The addresses of the areas of a list.                                   *)
Covered(l) == UNION {Span(l[i].start, l[i].size) : i \in DOMAIN l}
=============================================================================
