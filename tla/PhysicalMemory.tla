--------------------------- MODULE PhysicalMemory ---------------------------
(***************************************************************************)
(* Physical memory of the YYSloth kernel from the boot loader's memory map *)
(* on (src/YYSloth/src/memory/memoryinfo.cpp, tmpphysalloc.cpp,            *)
(* tmpvalloc.cpp, physalloc.cpp).  TempPhysAllocator gives frames for the  *)
(* bitmap and the page infos of PhysAllocator, from the end of the kernel  *)
(* upwards and for ever; PhysAllocator then takes over all memory.         *)
(*                                                                         *)
(* Frames are numbered; the bounds of memory areas, which need not be at   *)
(* page boundaries, count parts of a page.  The areas are in the order in  *)
(* which the map lists them, which may be any, and may overlap.  How many  *)
(* frames the page infos take is left open.  A page here has one           *)
(* reference: reference counts are in AddressSpace.                        *)
(***************************************************************************)
EXTENDS Integers, Sequences, FiniteSetsExt

CONSTANTS
  Parts,        (* parts of a page                                         *)
  Maps,         (* memory maps: sequences of [base, limit, available]      *)
  KernelLimit,  (* the first frame behind the kernel                       *)
  Multiboot,    (* [base, limit] of the boot loader's data, in frames      *)
  Initrds,      (* [base, limit] of the ram disk, in frames                *)
  Word,         (* bits of a word of the bitmap, 64                        *)
  MaxEarly      (* bound: frames for the page infos and their mapping,     *)
                (* about one in 200 of the memory's                        *)

ASSUME MemoryAssumption ==
  /\ Parts \in Nat \ {0} /\ Word \in Nat \ {0} /\ KernelLimit \in Nat /\ MaxEarly \in Nat
  /\ Multiboot \in [base : Nat, limit : Nat] /\ Initrds \subseteq [base : Nat, limit : Nat]
  /\ Maps \subseteq Seq([base : Nat, limit : Nat, available : BOOLEAN]) \ {<<>>}
  /\ \A m \in Maps : /\ \A i \in DOMAIN m : m[i].base <= m[i].limit
                      /\ \E j \in DOMAIN m : m[j].limit > 0

VARIABLES
  map, initrd,  \* what the boot loader has passed
  place,        \* m_currentEntry (0 after a panic) and m_currentPhysAddr
  early,        \* frames TempPhysAllocator has given out
  running,      \* PhysAllocator is initialised
  bitmap,       \* the set bits of m_bitmap
  unchecked,    \* m_leastUncheckedIndex
  pages         \* frames PhysAllocator has given out, not freed

bootVars == <<map, initrd>>
vars == <<bootVars, place, early, running, bitmap, unchecked, pages>>

Up(n) == (n + Parts - 1) \div Parts

-----------------------------------------------------------------------------
(* BootMemoryInfo: upperLimit / 4096, where the last page does not count,  *)
(* and the words of the bitmap.                                            *)
PagesCount == (Max({map[i].limit : i \in DOMAIN map}) - 1) \div Parts
Words == (PagesCount + Word - 1) \div Word

Frames(b, l) == (b .. l - 1) \cap (0 .. PagesCount - 1)

-----------------------------------------------------------------------------
Places == [entry : 0 .. Len(map), frame : Nat]

(* The address when AdjustMemoryArea has gone from the entry of p to j.    *)
AddressAt(p, j) == Max({p.frame} \cup {Up(map[i].base) : i \in p.entry .. j})

(* Available entries that do not lie before the address.  The comparison   *)
(* is with a page beyond the entry's limit.                                *)
Within(p) ==
  {j \in p.entry .. Len(map) :
     map[j].available /\ Parts * AddressAt(p, j) <= map[j].limit + Parts}

(* Entry 0: "Can't find any available memory area".                        *)
AdjustMemoryArea[p \in Places] ==
  IF p.entry = 0 \/ Within(p) = {} THEN [p EXCEPT !.entry = 0]
  ELSE [entry |-> Min(Within(p)), frame |-> AddressAt(p, Min(Within(p)))]

Behind(n, a) == IF a.base <= n /\ n < a.limit THEN a.limit ELSE n

(* CheckMultibootOverlap, then CheckInitrdOverlap.                         *)
CheckOverlaps ==
  [p \in Places |-> [p EXCEPT !.frame = Behind(Behind(@, Multiboot), initrd)]]

Settled(p) ==
  CheckOverlaps[AdjustMemoryArea[CheckOverlaps[AdjustMemoryArea[
    CheckOverlaps[AdjustMemoryArea[p]]]]]]

-----------------------------------------------------------------------------
(* BootMemoryInfo::init and TempPhysAllocator::init.                       *)
Init ==
  /\ map \in Maps /\ initrd \in Initrds
  /\ place = Settled([entry |-> 1, frame |-> KernelLimit])
  /\ early = {} /\ running = FALSE
  /\ bitmap = {} /\ unchecked = 0 /\ pages = {}

(* TempPhysAllocator::newFrame, for TempVirtualAllocator::valloc.          *)
NewFrame ==
  /\ ~running /\ place.entry # 0 /\ Cardinality(early) < MaxEarly
  /\ LET p == Settled(place)
     IN  IF p.entry = 0 THEN place' = p /\ early' = early
         ELSE /\ place' = [p EXCEPT !.frame = @ + 1]
              /\ early' = early \cup {p.frame}
  /\ UNCHANGED <<bootVars, running, bitmap, unchecked, pages>>

(* Mutant: the frames that are in use already are not reserved.            *)
FirstUnusedIsKernelLimit == KernelLimit

FirstUnused == place.frame

(* Mutant: the last page of a range stays free.                            *)
ReservedButLast(e) == Frames(e.base \div Parts, e.limit \div Parts - 1)

(* The pages of an area that is not available: a part of one at the end of *)
(* the area does not count.                                                *)
Reserved(e) == Frames(e.base \div Parts, e.limit \div Parts)

(* PhysAllocator::init: the pages below the first unused frame, the boot   *)
(* data and the ram disk are set, those from that frame on are cleared,    *)
(* and those of areas that are not available set.  The bits behind the     *)
(* last page keep what the memory held.                                    *)
InitBitmap ==
  /\ ~running /\ place.entry # 0 /\ early # {}
  /\ running' = TRUE
  /\ \E tail \in SUBSET (PagesCount .. Words * Word - 1) :
       LET set == Frames(0, FirstUnused) \cup Frames(Multiboot.base, Multiboot.limit)
                    \cup Frames(initrd.base, initrd.limit)
           reserved == UNION {Reserved(map[i]) : i \in {j \in DOMAIN map : ~map[j].available}}
       IN  bitmap' = tail \cup (set \ Frames(FirstUnused, PagesCount)) \cup reserved
  /\ unchecked' = 0
  /\ UNCHANGED <<bootVars, place, early, pages>>

(* Mutant: the scan reads one word too many.                               *)
ClearBitsOneMore == (unchecked * Word .. (Words + 1) * Word - 1) \ bitmap

(* The clear bits from m_leastUncheckedIndex on.                           *)
ClearBits == (unchecked * Word .. Words * Word - 1) \ bitmap

NewPage ==
  /\ running /\ ClearBits # {}
  /\ bitmap' = bitmap \cup {Min(ClearBits)}
  /\ pages' = pages \cup {Min(ClearBits)}
  /\ unchecked' = Min(ClearBits) \div Word
  /\ UNCHANGED <<bootVars, place, early, running>>

(* Mutant: the scan does not go back.                                      *)
FreePageNoRescan(p) ==
  /\ bitmap' = bitmap \ {p} /\ pages' = pages \ {p}
  /\ UNCHANGED <<bootVars, place, early, running, unchecked>>

(* freePage of the last reference.                                         *)
FreePage(p) ==
  /\ bitmap' = bitmap \ {p} /\ pages' = pages \ {p}
  /\ unchecked' = 0
  /\ UNCHANGED <<bootVars, place, early, running>>

Next == NewFrame \/ InitBitmap \/ NewPage \/ \E p \in pages : FreePage(p)

Spec == Init /\ [][Next]_vars

-----------------------------------------------------------------------------
(* No index is outside the map or the bitmap.                              *)
TypeOK ==
  /\ map \in Maps /\ initrd \in Initrds
  /\ place.entry \in 0 .. Len(map) /\ place.frame \in Nat
  /\ early \subseteq Nat /\ running \in BOOLEAN
  /\ bitmap \subseteq 0 .. Words * Word - 1 /\ pages \subseteq bitmap
  /\ unchecked \in 0 .. Words

(* Frames that were in use before PhysAllocator started are never given    *)
(* out by it: the kernel, the frames of TempPhysAllocator, and the boot    *)
(* data and the ram disk where they are below the first unused frame.      *)
(* TempPhysAllocator itself keeps clear of all of them.                    *)
UsedFramesKept ==
  LET boot == Multiboot.base .. Multiboot.limit - 1
      disk == initrd.base .. initrd.limit - 1
  IN  /\ early \cap (0 .. KernelLimit - 1 \cup boot \cup disk) = {}
      /\ pages \cap (0 .. KernelLimit - 1 \cup early) = {}
      /\ pages \cap (boot \cup disk) \cap (0 .. place.frame - 1) = {}

(* A frame that is wholly in an area that is not available is not given    *)
(* out by PhysAllocator, whatever lies around the area.  The last frame of *)
(* memory and those behind it have no bit of their own: left out.          *)
ReservedKept ==
  \A p \in pages \cap (0 .. PagesCount - 1), i \in DOMAIN map :
    ~(~map[i].available /\ map[i].base <= Parts * p /\ Parts * (p + 1) <= map[i].limit)

(* Below m_leastUncheckedIndex no bit is clear, so newPage says that there *)
(* is no memory only when there is none.                                   *)
ScanMissesNothing == running => 0 .. unchecked * Word - 1 \subseteq bitmap
=============================================================================
