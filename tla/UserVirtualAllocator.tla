------------------------ MODULE UserVirtualAllocator ------------------------
(***************************************************************************)
(* The virtual memory of one process of the YYSloth kernel as its          *)
(* UserVirtualAllocator sees it (src/YYSloth/src/memory/usrvmmngr.cpp): a  *)
(* sorted list of free areas, used by the loader (elf.cpp), by             *)
(* YY_ExecuteBinary for the arguments, and by YY_VirtualAlloc and          *)
(* YY_VirtualFree (userapi.cpp).  Addresses count bytes, and their sums    *)
(* wrap around; the page tables look at the lower part of an address only. *)
(* A process is given memory from the second page on.                      *)
(*                                                                         *)
(* A linked list of areas is a sequence.  The back links are left out:     *)
(* only "cut" reads them, for an area without a byte, and there is none.   *)
(***************************************************************************)
EXTENDS Integers, Sequences, FiniteSetsExt, Areas

CONSTANTS
  PageBytes,  (* bytes of a page, 4096                                     *)
  Top,        (* addresses the page tables tell apart, 2^48                *)
  Space,      (* addresses there are, 2^64                                 *)
  Unit,       (* YY_VirtualAlloc asks for size * 0x1000 bytes of addresses *)
              (* to map size bytes: Unit is 4096 in the code               *)
  Kernel,     (* pages the kernel has mapped in every process              *)
  Sizes,      (* sizes programs ask for                                    *)
  Frees,      (* ranges programs free                                      *)
  MaxForeign  (* bound: how many of those a program frees that are not     *)
              (* blocks YY_VirtualAlloc has given out                      *)

Ranges64 == [start : 0 .. Space - 1, size : 0 .. Space - 1]

ASSUME AllocatorAssumption ==
  /\ PageBytes \in Nat \ {0} /\ Unit \in Nat \ {0, 1}
  /\ Top \in Nat /\ Top > PageBytes /\ Top % PageBytes = 0
  /\ Space \in Nat /\ Space > Top /\ Space % Top = 0
  /\ Kernel \subseteq 1 .. (Top \div PageBytes) - 1
  /\ Sizes \subseteq 1 .. Space - 1 /\ \A n \in Sizes : n % PageBytes = 0
  /\ MaxForeign \in Nat /\ Frees \subseteq Ranges64
  /\ \A a \in Frees : a.size > 0 /\ a.size % PageBytes = 0

VARIABLES
  areas,   \* the list from m_head
  mapped,  \* pages the page tables map for the process
  \* history:
  wrapped, \* the end or the size of a range has wrapped around
  foreign, \* ranges the program has freed that were none of its blocks
           \* as long as there are none:
  program, \* ranges of the segments and of the arguments
  blocks   \* what YY_VirtualAlloc has given out, not freed

memoryVars == <<areas, mapped, wrapped, foreign, program, blocks>>

whole == foreign = 0

-----------------------------------------------------------------------------
(***************************************************************************)
(* Addresses and pages.                                                    *)
(***************************************************************************)
Plus(a, b) == (a + b) % Space
Minus(a, b) == (a - b) % Space
Stop(a) == Plus(a.start, a.size)
Wraps(s, n) == s + n >= Space

AlignDown(a) == PageBytes * (a \div PageBytes)
AlignUp(a) == AlignDown(a + PageBytes - 1)

PageOf(a) == (a % Top) \div PageBytes

(* The pages of s, s + PageBytes, ... as long as these are less than e.    *)
PagesIn(s, e) == {PageOf(s + PageBytes * k) : k \in 0 .. (e - s - 1) \div PageBytes}

-----------------------------------------------------------------------------
(***************************************************************************)
(* Lists of free areas.                                                    *)
(***************************************************************************)
Holds(a, n) == a.start <= n /\ n < Stop(a)

(* Mutant: an area of exactly the requested size will do.                  *)
FittingExactly(l, n) == {i \in DOMAIN l : l[i].size >= n}

Fitting(l, n) == {i \in DOMAIN l : l[i].size > n}

(* The first of the smallest areas that are larger than the request.       *)
BestFit(l, n) ==
  Min({i \in Fitting(l, n) : \A j \in Fitting(l, n) : l[i].size <= l[j].size})

(* What is left of an area of which the first n bytes are given out.       *)
Rest(a, n) == Area(Plus(a.start, n), Minus(a.size, n))

(* alloc: where the range starts and the list without it.                  *)
Given(l, n) == l[BestFit(l, n)].start
AllocFrom(l, n) == LET i == BestFit(l, n) IN Splice(l, i, i, <<Rest(l[i], n)>>)

(* cutFrom, where the byte after the range belongs to area i too.          *)
CutFrom(l, i, s, n) ==
  Splice(l, i, i, IF s = l[i].start THEN <<Rest(l[i], n)>>
                  ELSE <<Area(l[i].start, s - l[i].start),
                         Area(Plus(s, n), Minus(Stop(l[i]), Plus(s, n)))>>)

(* How many areas end at or before an address: the place of the last.      *)
LastBefore(l, s) == Cardinality({i \in DOMAIN l : \A j \in 1 .. i : Stop(l[j]) <= s})

(* The area that replaces those from left to right.                        *)
Merged(l, s, n, left, right) ==
  LET first == Min({s, l[left].start})
  IN  Area(first, Minus(Max({Stop(l[right]), Plus(s, n)}), first))

(* free needs a list node of its own for the range: there is no next area  *)
(* or the range ends before it starts.                                     *)
StandsAlone(l, s, n) ==
  LET last == LastBefore(l, s)
  IN  last = Len(l) \/ Plus(s, n) < l[last + 1].start

(* free: a new area, or else one area for the range and those from the     *)
(* next to the first that starts after the range, or to the last.          *)
FreedIn(l, s, n) ==
  LET last == LastBefore(l, s)
      left == last + 1
      right == Min({i \in left .. Len(l) : i = Len(l) \/ l[i].start > Plus(s, n)})
  IN  IF StandsAlone(l, s, n)
      THEN Splice(l, left, last, <<Area(s, n)>>)
      ELSE Splice(l, left, right, <<Merged(l, s, n, left, right)>>)

(* Mutant: all the addresses that were taken go back.                      *)
GivenBackAll(n) == n * Unit

(* The addresses that go back for n bytes.                                 *)
GivenBack(n) == n

-----------------------------------------------------------------------------
(***************************************************************************)
(* What the process does with its memory.  The module that composes them   *)
(* says when: ExecuteBinary.                                               *)
(***************************************************************************)
Empty == <<Area(PageBytes, Top - PageBytes)>>   \* newUserVirtualAllocator

NothingMapped ==
  /\ mapped = {} /\ program = {} /\ blocks = {} /\ foreign = 0 /\ wrapped = FALSE

(* Process::cleanup, which deletes the list: what comes after is l.        *)
Cleanup(l) ==
  /\ areas' = l /\ mapped' = {}
  /\ program' = {} /\ blocks' = {} /\ foreign' = 0 /\ wrapped' = FALSE

(* reserve: it refuses a range that is not inside the first area with its  *)
(* start or that ends where the area does.                                 *)
Reserve(s, n) ==
  \E i \in DOMAIN areas :
    /\ Holds(areas[i], s) /\ \A j \in 1 .. i - 1 : ~Holds(areas[j], s)
    /\ Holds(areas[i], Plus(s, n))
    /\ areas' = CutFrom(areas, i, s, n)

(* mapPages from s to e.  What follows when the kernel's own mappings are  *)
(* changed or a process writes to them is not modelled.                    *)
Map(s, e) ==
  /\ PagesIn(s, e) \cap Kernel = {}
  /\ mapped' = mapped \cup PagesIn(s, e)

MapProgram(s, e) ==
  /\ Map(s, e) /\ program' = program \cup {Area(s, Minus(e, s))}
  /\ UNCHANGED <<blocks, foreign>>

(* Memory for the arguments, given and mapped in full.                     *)
AllocProgram(n) ==
  /\ Fitting(areas, n) # {} /\ Given(areas, n) # 0
  /\ areas' = AllocFrom(areas, n)
  /\ MapProgram(Given(areas, n), Plus(Given(areas, n), n))
  /\ wrapped' = (wrapped \/ Wraps(Given(areas, n), n))

(* The size that alloc is asked for, whose product may wrap around.        *)
Asked(n) == (n * Unit) % Space

(* A range from 0 on is how alloc says that it has failed.                 *)
VirtualAlloc(n) ==
  /\ Fitting(areas, Asked(n)) # {}
  /\ areas' = AllocFrom(areas, Asked(n))
  /\ LET s == Given(areas, Asked(n))
     IN  IF s = 0 THEN UNCHANGED <<mapped, blocks>>
         ELSE /\ Map(s, Plus(s, n))
              /\ blocks' = IF whole THEN blocks \cup {Area(s, n)} ELSE blocks
  /\ wrapped' = (wrapped \/ n * Unit >= Space \/ Wraps(Given(areas, Asked(n)), n))
  /\ UNCHANGED <<program, foreign>>

(* mapPages finds no frame for a page of the range and unmaps those before *)
(* it.  The addresses go back, but only n of them, or none when there is   *)
(* no list node for them: what free returns is not looked at.              *)
VirtualAllocUnmapped(n) ==
  /\ Fitting(areas, Asked(n)) # {}
  /\ LET s == Given(areas, Asked(n))
         left == AllocFrom(areas, Asked(n))
     IN  /\ s # 0 /\ ~Wraps(s, n)
         /\ \E k \in 0 .. (n \div PageBytes) - 1 :
              LET before == PagesIn(s, s + PageBytes * k)
              IN  /\ PageOf(s + PageBytes * k) \notin mapped \cup Kernel
                  /\ before \cap Kernel = {}
                  /\ mapped' = mapped \ before
         /\ \/ areas' = FreedIn(left, s, GivenBack(n))
            \/ StandsAlone(left, s, n) /\ areas' = left
  /\ wrapped' = (wrapped \/ n * Unit >= Space)
  /\ UNCHANGED <<foreign, program, blocks>>

(* virtualRangeConditionCheck, as YY_VirtualFree calls it: pages of the    *)
(* kernel will do too, and a range whose end wraps around has no pages.    *)
Accepted(s, n) ==
  PagesIn(AlignDown(s), AlignUp(Plus(s, n)) % Space) \subseteq mapped \cup Kernel

(* freePages(start, size) takes the end of the range and is given its      *)
(* size: it unmaps nothing unless the range starts below its own size.     *)
(* What follows when it unmaps a page of the kernel, or one that nobody    *)
(* has mapped, is not modelled.                                            *)
VirtualFree(s, n) ==
  /\ Accepted(s, n) /\ PagesIn(s, n) \subseteq mapped
  /\ areas' = FreedIn(areas, s, GivenBack(n))
  /\ mapped' = mapped \ PagesIn(s, n)
  /\ wrapped' = (wrapped \/ Wraps(s, n))
  /\ IF Area(s, n) \in blocks
     THEN blocks' = blocks \ {Area(s, n)} /\ UNCHANGED <<program, foreign>>
     ELSE /\ foreign < MaxForeign /\ foreign' = foreign + 1
          /\ blocks' = {} /\ program' = {}

-----------------------------------------------------------------------------
(* The list is sorted, no two areas overlap, none is empty, and the last   *)
(* one reaches the end of memory as long as the program has freed whole    *)
(* blocks.  Otherwise it may end anywhere: the kernel's pages lie behind   *)
(* it and YY_VirtualFree accepts them.                                     *)
ListShape ==
  /\ areas # <<>> /\ (whole => Stop(areas[Len(areas)]) = Top)
  /\ \A i \in DOMAIN areas : areas[i].size > 0
  /\ \A i \in 1 .. Len(areas) - 1 : Stop(areas[i]) <= areas[i + 1].start

Overlap(a, b) == Max({a.start, b.start}) < Min({Stop(a), Stop(b)})

(* Memory in use is not in the list, so no call is given it: the program,  *)
(* its arguments and what YY_VirtualAlloc gave out and nobody freed; as    *)
(* long as the program frees what it was given, each block as a whole, and *)
(* no end or size of a range has wrapped around.                           *)
FreeIsUnused ==
  whole /\ ~wrapped =>
    \A i \in DOMAIN areas : \A a \in program \cup blocks : ~Overlap(areas[i], a)
=============================================================================
