----------------------------- MODULE KernelHeap -----------------------------
(***************************************************************************)
(* The kernel heap (src/YYSloth/src/memory/kheap.cpp) on top of the kernel *)
(* virtual allocator, which other parts of the kernel call as well.  A     *)
(* size class has pools of one page each, kept in lists by the number of   *)
(* their free objects; poolsLastCheckedIndices tells where the search for  *)
(* a pool starts.  Objects of maxSizeForSlubs bytes and more are mappings  *)
(* of their own.                                                           *)
(*                                                                         *)
(* Two reads and writes outside the data structure are left out: free      *)
(* reads realSize, which alloc never sets for a small object (it is taken  *)
(* to be small, as on a page that held zeros), and for classes whose size  *)
(* in bytes is not the index of a class it writes past the array.          *)
(***************************************************************************)
EXTENDS Functions, KernelVirtualAllocator

CONSTANTS
  Classes,  (* 1 .. n: class c is for objects of Granule * c bytes         *)
  Granule,  (* 16 in the code                                              *)
  Used,     (* classes the kernel asks for, Granule * c being a class too  *)
  MaxCount  (* poolsMaxCount of each class                                 *)

ASSUME HeapAssumption ==
  /\ IsFiniteSet(Classes) /\ Classes = 1 .. Cardinality(Classes) /\ Granule \in Nat \ {0}
  /\ Used \subseteq Classes /\ \A c \in Used : Granule * c \in Classes
  /\ MaxCount \in [Classes -> Nat \ {0}] /\ 1 \in Sizes

VARIABLES
  class,    \* the class of the pool in a page, 0 if there is none
  free,     \* its free objects, from meta.first
  heads,    \* poolHeadsArray: the pools of a class with k free objects
  last,     \* poolsLastCheckedIndices
  objects   \* what alloc has given out

heapVars == <<class, free, heads, last, objects>>
vars == <<areaVars, heapVars>>

Pools(c) == {p \in Pages : class[p] = c}
Objects == 1 .. Max({MaxCount[c] : c \in Classes})
Count(p) == Len(free[p])   \* meta.objectsCount

-----------------------------------------------------------------------------
(* What allocFromSlubs finds: the lists it goes through that have a pool.  *)
Filled(c) == {k \in last[c] .. MaxCount[c] : heads[c][k] # <<>>}

(* Mutant: the index may reach zero, the list of the pools without objects.*)
NextIndexFromZero(k) == k - 1

(* The search goes on one list below, but never in that of full pools.     *)
NextIndex(k) == Max({k - 1, 1})

(* A free object of the first pool of the first list with one.             *)
Alloc(c) ==
  /\ Filled(c) # {}
  /\ LET k == Min(Filled(c))
         p == Head(heads[c][k])
     IN  /\ heads' = [heads EXCEPT ![c][k] = Tail(@), ![c][k - 1] = <<p>> \o @]
         /\ objects' = objects \cup {[page |-> p, object |-> Head(free[p])]}
         /\ free' = [free EXCEPT ![p] = Tail(@)]
         /\ last' = [last EXCEPT ![c] = NextIndex(k)]
  /\ UNCHANGED <<areaVars, class>>

(* Mutant: the object that is given out stays on the free list.            *)
FreshListWithFirst(c) == [i \in 1 .. MaxCount[c] |-> i]

(* init of a pool, whose first object goes to the caller at once.          *)
FreshList(c) == [i \in 1 .. MaxCount[c] - 1 |-> i + 1]

(* getNewPool, and the allocation from it.                                 *)
AllocFromNewPool(c) ==
  /\ Filled(c) = {}
  /\ GetMapping(1)
  /\ LET p == Offset(1)
         n == MaxCount[c]
     IN  /\ class' = [class EXCEPT ![p] = c]
         /\ free' = [free EXCEPT ![p] = FreshList(c)]
         /\ heads' = [heads EXCEPT ![c][n - 1] = <<p>> \o @]
         /\ objects' = objects \cup {[page |-> p, object |-> 1]}
         /\ last' = [last EXCEPT ![c] = NextIndex(n)]

(* There is no area or no frame for a pool: alloc returns nullptr, with    *)
(* the index past the end.                                                 *)
AllocFails(c) ==
  /\ Filled(c) = {}
  /\ last' = [last EXCEPT ![c] = Max({@, MaxCount[c] + 1})]
  /\ UNCHANGED <<areaVars, class, free, heads, objects>>

(* Mutant: the pool goes back to the list it was in.                       *)
ListAfterFreeStale(p) == Count(p)

(* The list of a pool that has gained an object.                           *)
ListAfterFree(p) == Count(p) + 1

(* Mutant: a pool without objects is kept.                                 *)
UnmappedAt(c, n) == n = MaxCount[c] + 1

(* The pools that are given back to KernelVirtualAllocator.                *)
Unmapped(c, n) == n = MaxCount[c]

(* cutPoolFrom: the list l without pool p.                                 *)
CutPool(l, p) ==
  LET i == CHOOSE j \in DOMAIN l : l[j] = p
  IN  Splice(l, i, i, <<>>)

(* free: the index is compared with that of the class, but what is set is  *)
(* that of the class whose number is the object's size.                    *)
Free(o) ==
  LET p == o.page
      c == class[p]
      k == Count(p)
      n == ListAfterFree(p)
      cut == [heads EXCEPT ![c][k] = CutPool(@, p)]
  IN  /\ objects' = objects \ {o}
      /\ last' = IF last[c] < k THEN [last EXCEPT ![Granule * c] = k] ELSE last
      /\ IF Unmapped(c, k + 1)
         THEN /\ UnmapAt(Area(p, 1))
              /\ heads' = cut
              /\ class' = [class EXCEPT ![p] = 0]
              /\ free' = [free EXCEPT ![p] = <<>>]
         ELSE /\ heads' = [cut EXCEPT ![c][n] = <<p>> \o @]
              /\ free' = [free EXCEPT ![p] = <<o.object>> \o @]
              /\ UNCHANGED <<areaVars, class>>

(* The other callers: objects of maxSizeForSlubs bytes and more, kernel    *)
(* stacks, the fault handler's windows, the ram disk.                      *)
Map(n) == GetMapping(n) /\ UNCHANGED heapVars
Unmap(m) == class[m.start] = 0 /\ UnmapAt(m) /\ UNCHANGED heapVars

Init ==
  /\ KernelAreasInit
  /\ class = [p \in Pages |-> 0] /\ free = [p \in Pages |-> <<>>]
  /\ heads = [c \in Classes |-> [k \in 0 .. MaxCount[c] |-> <<>>]]
  /\ last = MaxCount /\ objects = {}

Next ==
  \/ \E c \in Used : Alloc(c) \/ AllocFromNewPool(c) \/ AllocFails(c)
  \/ \E o \in objects : Free(o)
  \/ \E n \in Sizes : Map(n)
  \/ \E m \in mappings : Unmap(m)

Spec == Init /\ [][Next]_vars

-----------------------------------------------------------------------------
(* No area, list or object lies outside what there is, and the assertion   *)
(* of allocFromSlubs holds: the last checked index is never zero, although *)
(* free sets that of another class.                                        *)
TypeOK ==
  /\ AreasTypeOK
  /\ class \in [Pages -> Classes \cup {0}] /\ free \in [Pages -> Seq(Objects)]
  /\ \A c \in Classes : heads[c] \in [0 .. MaxCount[c] -> Seq(Pages)]
  /\ last \in [Classes -> Nat \ {0}] /\ objects \subseteq [page : Pages, object : Objects]

(* A pool is in one list, the one for the number of its free objects, and  *)
(* in it once; so the head of a list searched has an object to give.       *)
ListsAreCounts ==
  \A c \in Classes : \A k \in 0 .. MaxCount[c] :
    /\ Range(heads[c][k]) = {p \in Pools(c) : Count(p) = k}
    /\ IsInjective(heads[c][k])

(* Every object of a pool is free or given out, never both, never twice.   *)
ObjectsAreDistinct ==
  \A p \in Pages \ Pools(0) :
    LET given == {o.object : o \in {x \in objects : x.page = p}}
    IN  /\ IsInjective(free[p]) /\ Range(free[p]) \cap given = {}
        /\ Range(free[p]) \cup given = 1 .. MaxCount[class[p]]

(* The heap holds exactly the pages its objects are in: none of them has   *)
(* gone back to the list of areas, and none is kept without an object.     *)
HeapHoldsItsPages ==
  /\ {p \in Pages : class[p] # 0} = {o.page : o \in objects}
  /\ \A o \in objects : Area(o.page, 1) \in mappings
=============================================================================
