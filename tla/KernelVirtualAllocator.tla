----------------------- MODULE KernelVirtualAllocator -----------------------
(***************************************************************************)
(* The kernel's virtual memory (src/YYSloth/src/memory/kvmmngr.cpp): a     *)
(* list of free areas from which the kernel heap, the stack pool, the page *)
(* fault handler and the ram disk take mappings, and to which they return  *)
(* them.  Addresses count pages.  KernelHeap composes it with its callers. *)
(*                                                                         *)
(* The nodes of the list come from pools of PoolAreas nodes; "nodes"       *)
(* counts what is left of the first pool, which init puts at the start of  *)
(* the memory.  Further pools, which the code makes when PoolAreas areas   *)
(* are free at once, are not modelled.                                     *)
(***************************************************************************)
EXTENDS Integers, Sequences, FiniteSetsExt, Areas

CONSTANTS
  Top,        (* pages 0 .. Top - 1 between the brk and the page tables    *)
  PoolAreas,  (* nodes of a pool, 127                                      *)
  Sizes       (* pages asked for                                           *)

Pages == 0 .. Top - 1

(* With Top pages no more than Top \div 2 areas are free, plus the one     *)
(* unmapAt takes before it merges.                                         *)
ASSUME KernelAreasAssumption ==
  /\ Top \in Nat \ {0, 1} /\ PoolAreas \in Nat /\ PoolAreas > Top \div 2
  /\ Sizes \subseteq Nat \ {0}

VARIABLES
  areas,     \* the list from m_kernelAreas
  nodes,     \* free nodes in the pool
  mappings   \* what getMapping has given out

areaVars == <<areas, nodes, mappings>>

-----------------------------------------------------------------------------
Fitting(n) == {i \in DOMAIN areas : areas[i].size >= n}
BestFit(n) ==
  Min({i \in Fitting(n) : \A j \in Fitting(n) : areas[i].size <= areas[j].size})

(* What getMapping returns, if it succeeds.                                *)
Offset(n) == areas[BestFit(n)].start

(* freeMapping: the place before the first area that starts later.         *)
Place(s) == 1 + Cardinality({i \in DOMAIN areas : \A j \in 1 .. i : areas[j].start <= s})

(* Mutant: the area after the new one is not looked at.                    *)
NeighboursOnLeft(l, k) == {i \in {k - 1} \cap DOMAIN l : End(l[i]) = l[k].start}

(* mergeAdjacent: the neighbours of area k that touch it.                  *)
Neighbours(l, k) ==
  {i \in {k - 1} \cap DOMAIN l : End(l[i]) = l[k].start}
    \cup {i \in {k + 1} \cap DOMAIN l : End(l[k]) = l[i].start}

(* Mutant: the size of the area on the right is not added.                 *)
MergeLosesRight(l, k) ==
  LET joined == Neighbours(l, k) \cup {k}
      first == l[Min(joined)].start
  IN  Splice(l, Min(joined), Max(joined), <<Area(first, End(l[k]) - first)>>)

Merge(l, k) ==
  LET joined == Neighbours(l, k) \cup {k}
      first == l[Min(joined)].start
  IN  Splice(l, Min(joined), Max(joined),
             <<Area(first, End(l[Max(joined)]) - first)>>)

-----------------------------------------------------------------------------
(* freeRange of all the memory: the first page becomes the pool and one of *)
(* its nodes the list.                                                     *)
KernelAreasInit ==
  /\ areas = <<Area(1, Top - 1)>>
  /\ nodes = PoolAreas - 1
  /\ mappings = {}

(* getMapping, where there is an area and there are frames for it; if not, *)
(* nothing changes.  The last free area is never used up: its node would   *)
(* be the last of the pool, which freePools would try to give back to the  *)
(* list of areas and fail on a null pointer.                               *)
GetMapping(n) ==
  /\ Fitting(n) # {} /\ areas # <<Area(areas[1].start, n)>>
  /\ LET i == BestFit(n)
         a == areas[i]
         rest == IF a.size = n THEN <<>> ELSE <<Area(a.start + n, a.size - n)>>
     IN  /\ mappings' = mappings \cup {Area(a.start, n)}
         /\ areas' = Splice(areas, i, i, rest)
         /\ nodes' = IF rest = <<>> THEN nodes + 1 ELSE nodes

(* unmapAt of a mapping: freeRange takes a node and freeMapping inserts    *)
(* and merges it; the nodes of the neighbours go back.                     *)
UnmapAt(m) ==
  /\ nodes > 0
  /\ mappings' = mappings \ {m}
  /\ LET k == Place(m.start)
         inserted == Splice(areas, k, k - 1, <<m>>)
     IN  /\ areas' = Merge(inserted, k)
         /\ nodes' = nodes - 1 + Cardinality(Neighbours(inserted, k))

-----------------------------------------------------------------------------
(* Areas and mappings are not empty and lie in the memory there is.        *)
AreasTypeOK ==
  /\ areas \in Seq([start : Pages, size : Nat \ {0}])
  /\ nodes \in 0 .. PoolAreas
  /\ mappings \subseteq [start : Pages, size : Sizes]

(* The list and the mappings share out the memory: no page is given out    *)
(* twice and none is lost, in whatever order mappings come and go.         *)
MemoryIsShared ==
  /\ \A m, k \in mappings : m # k => Span(m.start, m.size) \cap Span(k.start, k.size) = {}
  /\ LET used == UNION {Span(m.start, m.size) : m \in mappings}
     IN  Covered(areas) \cap used = {} /\ Covered(areas) \cup used = Pages \ {0}

(* The list is sorted and has no two areas side by side, so memory that is *)
(* all returned is one area again, and a node is free or in the list.      *)
Coalesced ==
  /\ \A i \in 1 .. Len(areas) - 1 : End(areas[i]) < areas[i + 1].start
  /\ nodes + Len(areas) = PoolAreas
=============================================================================
