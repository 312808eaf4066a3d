-------------------------- MODULE KernelHeapProofs --------------------------
(***************************************************************************)
(* Theorems about KernelHeap and the KernelVirtualAllocator under it, for  *)
(* every size of the memory, of the node pool and of the size classes.     *)
(***************************************************************************)
EXTENDS KernelHeap, CommonLemmas

-----------------------------------------------------------------------------
(* freeMapping walks past the areas that do not start after s.             *)
LEMMA PlaceFacts ==
  ASSUME areas \in Seq(Ranges), Apart(areas), NEW s \in Nat
  PROVE  /\ Place(s) \in 1 .. Len(areas) + 1
         /\ \A i \in 1 .. Len(areas) : areas[i].start <= s <=> i < Place(s)
<1>1. PICK len \in Nat : /\ len = Len(areas) /\ DOMAIN areas = 1 .. len
                         /\ \A j \in 1 .. len : areas[j] \in Ranges
  BY LenProperties
<1>2. \A j \in 1 .. len : /\ areas[j].start \in Nat /\ End(areas[j]) \in Nat
                          /\ areas[j].start < End(areas[j])
  BY <1>1, SpanFacts
<1>3. \A i, j \in 1 .. len : i < j => areas[i].start < areas[j].start
  BY <1>1, <1>2 DEF Apart
<1> DEFINE P == {i \in DOMAIN areas : \A j \in 1 .. i : areas[j].start <= s}
<1>4. \A i \in 1 .. len : areas[i].start <= s <=> i \in P
  <2> SUFFICES ASSUME NEW i \in 1 .. len, areas[i].start <= s, NEW j \in 1 .. i
               PROVE  areas[j].start <= s
    BY <1>1
  <2>1. j \in 1 .. len /\ (j < i \/ j = i)
    BY <1>1
  <2> QED BY <1>2, <1>3, <2>1
<1>5. P \subseteq 1 .. len /\ \A i \in P : \A j \in 1 .. i : j \in P
  BY <1>1
<1>6. Place(s) = 1 + Cardinality(P)
  BY DEF Place
<1> HIDE DEF P
<1>7. Cardinality(P) \in 0 .. len /\ P = 1 .. Cardinality(P)
  BY <1>5, PrefixFacts
<1> QED BY <1>1, <1>4, <1>6, <1>7

(* mergeAdjacent replaces the areas from a to b, which are area k and those*)
(* of its neighbours that touch it, by one.                                *)
LEMMA MergeIsJoin ==
  ASSUME NEW l \in Seq(Ranges), NEW k \in 1 .. Len(l), ApartBut(l, k)
  PROVE  \E a \in 1 .. Len(l), b \in 1 .. Len(l), c \in Ranges :
            /\ Joins(l, k, a, b, c)
            /\ Cardinality(Neighbours(l, k)) = b - a
            /\ Merge(l, k) = Splice(l, a, b, <<c>>)
<1> DEFINE N == Neighbours(l, k)
           Left == k - 1 \in DOMAIN l /\ End(l[k - 1]) = l[k].start
           Right == k + 1 \in DOMAIN l /\ End(l[k]) = l[k + 1].start
<1>1. PICK len \in Nat : /\ len = Len(l) /\ DOMAIN l = 1 .. len /\ k \in 1 .. len
                         /\ \A j \in 1 .. len : l[j] \in Ranges
  BY LenProperties
<1>2. \A j \in 1 .. len : /\ l[j].start \in Nat /\ End(l[j]) \in Nat
                          /\ l[j].start < End(l[j])
  BY <1>1, SpanFacts
<1>3. \A i, j \in 1 .. len : i < j => /\ End(l[i]) <= l[j].start
                                      /\ i # k /\ j # k => End(l[i]) < l[j].start
  BY <1>1 DEF ApartBut
<1>4. PICK a \in 1 .. len, b \in 1 .. len :
        /\ \/ a = k /\ (k > 1 => End(l[k - 1]) # l[k].start)
           \/ a = k - 1 /\ End(l[a]) = l[k].start
        /\ \/ b = k /\ (k < len => End(l[k]) # l[k + 1].start)
           \/ b = k + 1 /\ End(l[k]) = l[b].start
        /\ N \cup {k} = a .. b /\ N = (a .. b) \ {k}
  <2>1. /\ k - 1 \in DOMAIN l <=> k > 1
        /\ k + 1 \in DOMAIN l <=> k < len
    BY <1>1
  <2>2. N = {i \in {k - 1} : Left} \cup {i \in {k + 1} : Right}
    BY DEF Neighbours
  <2>3. PICK a \in 1 .. len : a = IF Left THEN k - 1 ELSE k
    BY <1>1
  <2>4. PICK b \in 1 .. len : b = IF Right THEN k + 1 ELSE k
    BY <1>1
  <2>5. N \cup {k} = a .. b /\ N = (a .. b) \ {k}
    <3> HIDE DEF Left, Right, N
    <3>1. CASE Left /\ Right
      BY <1>1, <2>2, <2>3, <2>4, <3>1
    <3>2. CASE Left /\ ~Right
      BY <1>1, <2>2, <2>3, <2>4, <3>2
    <3>3. CASE ~Left /\ Right
      BY <1>1, <2>2, <2>3, <2>4, <3>3
    <3>4. CASE ~Left /\ ~Right
      BY <1>1, <2>2, <2>3, <2>4, <3>4
    <3> QED BY <3>1, <3>2, <3>3, <3>4
  <2>6. \/ a = k /\ (k > 1 => End(l[k - 1]) # l[k].start)
        \/ a = k - 1 /\ End(l[a]) = l[k].start
    BY <2>1, <2>3
  <2>7. \/ b = k /\ (k < len => End(l[k]) # l[k + 1].start)
        \/ b = k + 1 /\ End(l[k]) = l[b].start
    BY <2>1, <2>4
  <2> HIDE DEF N
  <2> QED BY <2>5, <2>6, <2>7
<1>5. a <= k /\ k <= b /\ a \in Int /\ b \in Int /\ a <= b /\ k \in a .. b
  BY <1>1, <1>4
<1>6. Cardinality(N) = b - a
  <2>1. IsFiniteSet(a .. b) /\ Cardinality(a .. b) = b - a + 1
    BY <1>5, FS_Interval
  <2>2. PICK J : J = a .. b
    OBVIOUS
  <2>3. IsFiniteSet(J) /\ Cardinality(J) = b - a + 1 /\ k \in J
    BY <1>5, <2>1, <2>2
  <2>4. Cardinality(J \ {k}) = Cardinality(J) - 1
    BY <2>3, FS_RemoveElement
  <2>5. N = J \ {k}
    BY <1>4, <2>2
  <2> HIDE DEF N
  <2> QED BY <1>5, <2>3, <2>4, <2>5
<1>7. Min(a .. b) = a /\ Max(a .. b) = b
  <2>1. a .. b \subseteq Nat /\ a .. b # {} /\ IsFiniteSet(a .. b) /\ a \in a .. b /\ b \in a .. b
    <3>1. IsFiniteSet(a .. b)
      BY <1>5, FS_Interval
    <3> QED BY <1>5, <3>1
  <2>2. Min(a .. b) \in a .. b /\ Min(a .. b) <= a
    BY <2>1, MinIsLeast
  <2>3. Max(a .. b) \in a .. b /\ b <= Max(a .. b)
    BY <2>1, MaxIsGreatest
  <2> QED BY <1>5, <2>2, <2>3
<1>8. l[a].start < End(l[b])
  <2>1. l[a].start <= l[k].start /\ End(l[k]) <= End(l[b])
    BY <1>1, <1>2, <1>4
  <2> QED BY <1>1, <1>2, <2>1
<1>9. PICK c \in Ranges : c = Area(l[a].start, End(l[b]) - l[a].start)
  <2>1. l[a].start \in Nat /\ End(l[b]) - l[a].start \in Nat \ {0}
    BY <1>2, <1>8
  <2>2. \A n, d : n \in Nat /\ d \in Nat \ {0} => Area(n, d) \in Ranges
    BY DEF Ranges, Area
  <2> QED BY <2>1, <2>2
<1>10. c.start = l[a].start /\ End(c) = End(l[b])
  BY <1>2, <1>8, <1>9 DEF Area, End
<1>11. Merge(l, k) = Splice(l, a, b, <<c>>)
  BY <1>4, <1>7, <1>9 DEF Merge
<1>12. Joins(l, k, a, b, c)
  BY <1>1, <1>4, <1>5, <1>10 DEF Joins
<1> QED BY <1>1, <1>6, <1>11, <1>12

(* It makes one area of the same pages, with a page between it and its new *)
(* neighbours.                                                             *)
LEMMA MergeFacts ==
  ASSUME NEW l \in Seq(Ranges), NEW k \in 1 .. Len(l), ApartBut(l, k)
  PROVE  /\ Merge(l, k) \in Seq(Ranges) /\ Apart(Merge(l, k)) /\ Covered(Merge(l, k)) = Covered(l)
         /\ Cardinality(Neighbours(l, k)) \in Nat
         /\ Len(Merge(l, k)) + Cardinality(Neighbours(l, k)) = Len(l)
<1>1. PICK a \in 1 .. Len(l), b \in 1 .. Len(l), c \in Ranges :
            /\ Joins(l, k, a, b, c)
            /\ Cardinality(Neighbours(l, k)) = b - a
            /\ Merge(l, k) = Splice(l, a, b, <<c>>)
  BY MergeIsJoin
<1>2. LET r == Splice(l, a, b, <<c>>)
      IN  /\ r \in Seq(Ranges) /\ Len(r) = Len(l) - (b - a)
          /\ Apart(r) /\ Covered(r) = Covered(l)
  BY <1>1, JoinedFacts
<1>3. Merge(l, k) \in Seq(Ranges) /\ Apart(Merge(l, k)) /\ Covered(Merge(l, k)) = Covered(l)
  BY <1>1, <1>2
<1>4. Cardinality(Neighbours(l, k)) \in Nat /\ Len(Merge(l, k)) + Cardinality(Neighbours(l, k)) = Len(l)
  <2>1. Len(Merge(l, k)) = Len(l) - (b - a)
    BY <1>1, <1>2
  <2>2. Len(l) \in Nat /\ a \in Int /\ b \in Int /\ a <= b /\ Cardinality(Neighbours(l, k)) = b - a
    BY <1>1, LenProperties DEF Joins
  <2> QED BY <2>1, <2>2
<1> QED BY <1>3, <1>4

-----------------------------------------------------------------------------
(* What MemoryIsShared says of the free pages C and of the mappings ms,    *)
(* page by page.                                                           *)
Shared(C, ms) ==
  /\ \A m, k \in ms : m # k => \A x : ~(x \in Span(m.start, m.size) /\ x \in Span(k.start, k.size))
  /\ \A m \in ms : \A x : ~(x \in C /\ x \in Span(m.start, m.size))
  /\ \A x : x \in Pages \ {0} <=> x \in C \/ \E m \in ms : x \in Span(m.start, m.size)

(* MemoryIsShared says the same of the sets.                               *)
LEMMA SharedFacts == Shared(Covered(areas), mappings) <=> MemoryIsShared
<1> DEFINE used == UNION {Span(m.start, m.size) : m \in mappings}
<1>1. \A x : x \in used <=> \E m \in mappings : x \in Span(m.start, m.size)
  OBVIOUS
<1>2. MemoryIsShared <=>
        /\ \A m, k \in mappings : m # k => Span(m.start, m.size) \cap Span(k.start, k.size) = {}
        /\ Covered(areas) \cap used = {} /\ Covered(areas) \cup used = Pages \ {0}
  BY DEF MemoryIsShared
<1> HIDE DEF used
<1>3. Covered(areas) \cap used = {} <=>
        \A m \in mappings : \A x : ~(x \in Covered(areas) /\ x \in Span(m.start, m.size))
  BY <1>1
<1>4. Covered(areas) \cup used = Pages \ {0} <=>
        \A x : x \in Pages \ {0} <=>
                 x \in Covered(areas) \/ \E m \in mappings : x \in Span(m.start, m.size)
  BY <1>1
<1> QED BY <1>2, <1>3, <1>4 DEF Shared

(* Free pages become a mapping.                                            *)
LEMMA SharedTake ==
  ASSUME NEW C, NEW ms, Shared(C, ms), NEW a \in Ranges, Span(a.start, a.size) \subseteq C
  PROVE  Shared(C \ Span(a.start, a.size), ms \cup {a})
BY DEF Shared

(* A mapping becomes free pages.                                           *)
LEMMA SharedReturn ==
  ASSUME NEW C, NEW ms, Shared(C, ms), NEW m \in ms
  PROVE  /\ C \cap Span(m.start, m.size) = {}
         /\ Shared(C \cup Span(m.start, m.size), ms \ {m})
<1>1. C \cap Span(m.start, m.size) = {}
  BY DEF Shared
<1>2. ASSUME NEW k \in ms \ {m}
      PROVE  \A x : ~(x \in C \cup Span(m.start, m.size) /\ x \in Span(k.start, k.size))
  BY <1>2 DEF Shared
<1>3. \A x : x \in Pages \ {0} <=>
               \/ x \in C \cup Span(m.start, m.size)
               \/ \E k \in ms \ {m} : x \in Span(k.start, k.size)
  <2>1. \A x : (\E k \in ms : x \in Span(k.start, k.size)) <=>
                 \/ x \in Span(m.start, m.size)
                 \/ \E k \in ms \ {m} : x \in Span(k.start, k.size)
    OBVIOUS
  <2> QED BY <2>1 DEF Shared
<1>4. \A i, k \in ms \ {m} : i # k =>
        \A x : ~(x \in Span(i.start, i.size) /\ x \in Span(k.start, k.size))
  BY DEF Shared
<1> QED BY <1>1, <1>2, <1>3, <1>4 DEF Shared

-----------------------------------------------------------------------------
(* What getMapping and unmapAt keep: between two free areas there is a     *)
(* page, a node of the pool is free or holds an area, and free areas and   *)
(* mappings share out the memory.                                          *)
KInv ==
  /\ areas \in Seq(Ranges) /\ Apart(areas)
  /\ nodes \in Nat /\ nodes + Len(areas) = PoolAreas
  /\ mappings \subseteq [start : Nat, size : Sizes]
  /\ Shared(Covered(areas), mappings)

(* It implies the invariants of the allocator.                             *)
LEMMA KInvImplies == KInv => AreasTypeOK /\ MemoryIsShared /\ Coalesced
<1> SUFFICES ASSUME KInv PROVE AreasTypeOK /\ MemoryIsShared /\ Coalesced
  OBVIOUS
<1>1. PICK len \in Nat : /\ len = Len(areas) /\ DOMAIN areas = 1 .. len
                         /\ \A j \in 1 .. len : areas[j] \in Ranges
                         /\ nodes \in Nat /\ nodes + len = PoolAreas /\ PoolAreas \in Nat
  BY LenProperties, KernelAreasAssumption DEF KInv
<1>2. MemoryIsShared
  BY SharedFacts DEF KInv
<1>3. \A i \in 1 .. len : areas[i] \in [start : Pages, size : Nat \ {0}]
  <2> SUFFICES ASSUME NEW i \in 1 .. len PROVE areas[i].start \in Pages
    BY <1>1 DEF Ranges
  <2>1. areas[i].start \in Span(areas[i].start, areas[i].size)
    BY <1>1, SpanFacts
  <2>2. areas[i].start \in Covered(areas)
    BY <1>1, <2>1, CoveredFacts
  <2> QED BY <2>2 DEF KInv, Shared
<1>4. areas \in Seq([start : Pages, size : Nat \ {0}])
  <2>1. areas \in Seq(Ranges)
    BY DEF KInv
  <2>2. \A i \in 1 .. Len(areas) : areas[i] \in [start : Pages, size : Nat \ {0}]
    BY <1>1, <1>3
  <2> QED BY <2>1, <2>2, SequenceOver
<1>5. mappings \subseteq [start : Pages, size : Sizes]
  <2> SUFFICES ASSUME NEW m \in mappings PROVE m \in [start : Nat, size : Sizes] /\ m.start \in Pages
    OBVIOUS
  <2>1. m \in [start : Nat, size : Sizes] /\ m.size \in Nat \ {0}
    BY KernelAreasAssumption DEF KInv
  <2>2. m.start \in Span(m.start, m.size)
    BY <2>1 DEF Span
  <2>3. m.start \in Pages
    BY <2>2 DEF KInv, Shared
  <2> QED BY <2>1, <2>3
<1>6. AreasTypeOK
  BY <1>1, <1>4, <1>5 DEF AreasTypeOK
<1>7. Coalesced
  BY <1>1 DEF Coalesced, Apart, KInv
<1> QED BY <1>2, <1>6, <1>7

(* getMapping finds an area with room for n pages.                         *)
LEMMA BestFitFacts ==
  ASSUME areas \in Seq(Ranges), NEW n \in Nat, Fitting(n) # {}
  PROVE  BestFit(n) \in 1 .. Len(areas) /\ areas[BestFit(n)].size >= n
<1>1. PICK len \in Nat : /\ len = Len(areas) /\ DOMAIN areas = 1 .. len
                         /\ \A j \in 1 .. len : areas[j] \in Ranges /\ areas[j].size \in Nat
  BY LenProperties, SpanFacts
<1>2. PICK F : F = Fitting(n)
  OBVIOUS
<1>3. F \subseteq 1 .. len /\ F # {} /\ \A i \in F : areas[i].size >= n
  BY <1>1, <1>2 DEF Fitting
<1> DEFINE sizes == {areas[i].size : i \in F}
           best == {i \in F : \A j \in F : areas[i].size <= areas[j].size}
<1>4. best # {}
  <2>1. sizes \subseteq Nat /\ sizes # {}
    BY <1>1, <1>3
  <2>2. Min(sizes) \in sizes /\ \A y \in sizes : Min(sizes) <= y
    <3> HIDE DEF sizes
    <3> QED BY <2>1, MinIsLeast
  <2>3. PICK i \in F : areas[i].size = Min(sizes)
    BY <2>2
  <2>4. \A j \in F : areas[i].size <= areas[j].size
    BY <2>2, <2>3
  <2> QED BY <2>4
<1>5. best \subseteq Nat /\ best \subseteq F
  BY <1>3
<1>6. Min(best) \in best
  <2> HIDE DEF best
  <2> QED BY <1>4, <1>5, MinIsLeast
<1>7. BestFit(n) = Min(best)
  BY <1>2 DEF BestFit
<1> HIDE DEF best
<1> QED BY <1>1, <1>3, <1>5, <1>6, <1>7

(* getMapping keeps the invariant, and what it gives was free.             *)
LEMMA GetMappingFacts ==
  ASSUME KInv, NEW n \in Sizes, GetMapping(n)
  PROVE  /\ KInv'
         /\ mappings' = mappings \cup {Area(Offset(n), n)}
         /\ Offset(n) \in Covered(areas)
<1>1. n \in Nat \ {0} /\ Fitting(n) # {} /\ areas \in Seq(Ranges)
  BY KernelAreasAssumption DEF KInv, GetMapping
<1>2. PICK len \in Nat : /\ len = Len(areas) /\ DOMAIN areas = 1 .. len
                         /\ \A j \in 1 .. len : areas[j] \in Ranges
  BY <1>1, LenProperties
<1>3. PICK i \in 1 .. len : i = BestFit(n) /\ areas[i].size >= n
  BY <1>1, <1>2, BestFitFacts
<1>4. PICK a \in Ranges : a = areas[i]
  BY <1>2
<1>5. /\ a.start \in Nat /\ a.size \in Nat /\ a.size > 0 /\ a.size >= n
      /\ End(a) = a.start + a.size /\ Offset(n) = a.start
  BY <1>3, <1>4, SpanFacts DEF Offset, End
<1>6. PICK m \in Ranges : m = Area(a.start, n)
  BY <1>1, <1>5 DEF Ranges, Area
<1>7. m.start = a.start /\ m.size = n
  BY <1>6 DEF Area
<1>8. Span(m.start, m.size) \subseteq Covered(areas) /\ Offset(n) \in Span(m.start, m.size)
  <2>1. \A x : x \in Span(m.start, m.size) => x \in Span(a.start, a.size)
    BY <1>1, <1>5, <1>7 DEF Span
  <2>2. a.start \in Span(m.start, m.size)
    BY <1>1, <1>5, <1>7 DEF Span
  <2> QED BY <1>2, <1>4, <1>5, <2>1, <2>2, CoveredFacts
<1>9. mappings' = mappings \cup {m}
  BY <1>3, <1>4, <1>6 DEF GetMapping
<1>10. /\ areas' \in Seq(Ranges) /\ Apart(areas')
       /\ Covered(areas') = Covered(areas) \ Span(m.start, m.size)
       /\ nodes' \in Nat /\ nodes' + Len(areas') = PoolAreas
  <2>1. CASE a.size = n
    <3>1. areas' = Splice(areas, i, i, <<>>) /\ nodes' = nodes + 1
      BY <1>3, <1>4, <2>1 DEF GetMapping
    <3>2. areas' \in Seq(Ranges) /\ IsCut(areas', areas, i)
      BY <1>1, <1>2, <3>1, CutFacts
    <3>3. /\ Apart(areas')
          /\ Covered(areas') = Covered(areas) \ Span(areas[i].start, areas[i].size)
      BY <1>2, <3>2, LessFacts DEF KInv
    <3>4. Len(areas') = len - 1
      BY <1>2, <3>2 DEF IsCut
    <3> QED BY <1>2, <1>4, <1>7, <2>1, <3>1, <3>2, <3>3, <3>4 DEF KInv
  <2>2. CASE a.size # n
    <3>1. PICK b \in Ranges : b = Area(a.start + n, a.size - n)
      <4>1. a.start + n \in Nat /\ a.size - n \in Nat \ {0}
        BY <1>1, <1>5, <2>2
      <4> QED BY <4>1 DEF Ranges, Area
    <3>2. areas' = Splice(areas, i, i, <<b>>) /\ nodes' = nodes
      BY <1>3, <1>4, <2>2, <3>1 DEF GetMapping
    <3>3. areas' \in Seq(Ranges) /\ IsJoin(areas', areas, i, i, b)
      BY <1>1, <1>2, <3>2, JoinFacts
    <3>4. b.start = a.start + n /\ End(b) = End(a)
      BY <1>1, <1>5, <3>1 DEF Area, End
    <3>5. /\ Apart(areas')
          /\ Covered(areas') = Covered(areas) \ Span(areas[i].start, b.start - areas[i].start)
      <4>1. areas[i].start <= b.start /\ End(b) = End(areas[i])
        BY <1>1, <1>4, <1>5, <3>4
      <4> QED BY <1>2, <3>3, <4>1, ShorterFacts DEF KInv
    <3>6. b.start - areas[i].start = m.size /\ areas[i].start = m.start
      BY <1>1, <1>4, <1>5, <1>7, <3>4
    <3>7. Len(areas') = len
      BY <1>2, <3>3 DEF IsJoin
    <3> QED BY <1>2, <3>2, <3>3, <3>5, <3>6, <3>7 DEF KInv
  <2> QED BY <2>1, <2>2
<1>11. Shared(Covered(areas'), mappings')
  BY <1>8, <1>9, <1>10, SharedTake DEF KInv
<1>12. mappings' \subseteq [start : Nat, size : Sizes]
  <2>1. m \in [start : Nat, size : Sizes]
    BY <1>5, <1>6 DEF Area
  <2> QED BY <1>9, <2>1 DEF KInv
<1>13. KInv'
  BY <1>10, <1>11, <1>12 DEF KInv
<1> QED BY <1>5, <1>6, <1>8, <1>9, <1>13

(* So does unmapAt of a mapping.                                           *)
LEMMA UnmapAtFacts ==
  ASSUME KInv, NEW m \in mappings, UnmapAt(m)
  PROVE  KInv'
<1>1. /\ areas \in Seq(Ranges) /\ Apart(areas) /\ m \in Ranges
      /\ m.start \in Nat /\ nodes \in Nat /\ nodes > 0 /\ nodes + Len(areas) = PoolAreas
  BY KernelAreasAssumption DEF KInv, Ranges, UnmapAt
<1>2. PICK k \in 1 .. Len(areas) + 1 : k = Place(m.start)
  BY <1>1, PlaceFacts
<1>3. \A i \in 1 .. Len(areas) : areas[i].start <= m.start <=> i < k
  BY <1>1, <1>2, PlaceFacts
<1>4. PICK r : r = Splice(areas, k, k - 1, <<m>>)
  OBVIOUS
<1>5. r \in Seq(Ranges) /\ IsInsert(r, areas, k, m)
  BY <1>1, <1>4, InsertFacts
<1>6. /\ Covered(areas) \cap Span(m.start, m.size) = {}
      /\ Shared(Covered(areas) \cup Span(m.start, m.size), mappings \ {m})
  BY SharedReturn DEF KInv
<1>7. ApartBut(r, k) /\ Covered(r) = Covered(areas) \cup Span(m.start, m.size)
  BY <1>1, <1>3, <1>5, <1>6, MoreFacts
<1>8. Len(r) = Len(areas) + 1 /\ k \in 1 .. Len(r)
  BY <1>1, <1>5, LenProperties DEF IsInsert
<1>9. /\ Merge(r, k) \in Seq(Ranges) /\ Apart(Merge(r, k)) /\ Covered(Merge(r, k)) = Covered(r)
      /\ Cardinality(Neighbours(r, k)) \in Nat
      /\ Len(Merge(r, k)) + Cardinality(Neighbours(r, k)) = Len(r)
  BY <1>5, <1>7, <1>8, MergeFacts
<1>10. /\ areas' = Merge(r, k) /\ nodes' = nodes - 1 + Cardinality(Neighbours(r, k))
       /\ mappings' = mappings \ {m}
  BY <1>2, <1>4 DEF UnmapAt
<1>11. nodes' \in Nat /\ nodes' + Len(areas') = PoolAreas
  <2>1. Len(areas') + Cardinality(Neighbours(r, k)) = Len(areas) + 1
    BY <1>8, <1>9, <1>10
  <2>2. /\ Len(areas) \in Nat /\ Len(areas') \in Nat /\ Cardinality(Neighbours(r, k)) \in Nat
        /\ nodes \in Nat /\ nodes > 0 /\ nodes + Len(areas) = PoolAreas
    BY <1>1, <1>9, <1>10, LenProperties
  <2>3. PICK c \in Nat : c = Cardinality(Neighbours(r, k))
    BY <2>2
  <2>4. PICK before \in Nat, after \in Nat : before = Len(areas) /\ after = Len(areas')
    BY <2>2
  <2>5. nodes' = nodes - 1 + c
    BY <1>10, <2>3
  <2>6. after + c = before + 1
    BY <2>1, <2>3, <2>4
  <2>7. nodes \in Nat /\ nodes > 0 /\ nodes + before = PoolAreas
    BY <2>2, <2>4
  <2>8. nodes' \in Nat /\ nodes' + after = PoolAreas
    BY <2>5, <2>6, <2>7
  <2> QED BY <2>4, <2>8
<1> QED BY <1>6, <1>7, <1>9, <1>10, <1>11 DEF KInv

-----------------------------------------------------------------------------
(* cutPoolFrom takes one pool out of a list.                               *)
LEMMA CutPoolFacts ==
  ASSUME NEW S, NEW l \in Seq(S), IsInjective(l), NEW p \in Range(l)
  PROVE  /\ CutPool(l, p) \in Seq(S) /\ IsInjective(CutPool(l, p))
         /\ Range(CutPool(l, p)) = Range(l) \ {p}
<1>1. PICK len \in Nat : len = Len(l) /\ DOMAIN l = 1 .. len
  BY LenProperties
<1>2. PICK i \in 1 .. len : i = CHOOSE j \in DOMAIN l : l[j] = p
  BY <1>1 DEF Range
<1>3. l[i] = p
  BY <1>1, <1>2 DEF Range
<1>4. PICK r : r = CutPool(l, p)
  OBVIOUS
<1>5. r = Splice(l, i, i, <<>>)
  BY <1>2, <1>4 DEF CutPool
<1>6. r \in Seq(S) /\ IsCut(r, l, i)
  BY <1>1, <1>5, CutFacts
<1>7. DOMAIN r = 1 .. len - 1 /\ \A j \in 1 .. len - 1 : r[j] = IF j < i THEN l[j] ELSE l[j + 1]
  BY <1>1, <1>6, LenProperties DEF IsCut
<1>8. \A j \in 1 .. len - 1 : \/ j < i /\ j \in 1 .. len /\ r[j] = l[j]
                              \/ j >= i /\ j + 1 \in 1 .. len /\ r[j] = l[j + 1]
  BY <1>1, <1>7
<1>9. \A j, k \in 1 .. len : l[j] = l[k] => j = k
  BY <1>1 DEF IsInjective
<1>10. IsInjective(r)
  <2> SUFFICES ASSUME NEW j \in 1 .. len - 1, NEW k \in 1 .. len - 1, r[j] = r[k] PROVE j = k
    BY <1>7 DEF IsInjective
  <2>1. PICK u \in 1 .. len : r[j] = l[u] /\ ((j < i /\ u = j) \/ (j >= i /\ u = j + 1))
    BY <1>8
  <2>2. PICK v \in 1 .. len : r[k] = l[v] /\ ((k < i /\ v = k) \/ (k >= i /\ v = k + 1))
    BY <1>8
  <2>3. u = v
    BY <1>9, <2>1, <2>2
  <2> QED BY <2>1, <2>2, <2>3
<1>11. ASSUME NEW x \in Range(r) PROVE x \in Range(l) /\ x # p
  <2>1. PICK j \in 1 .. len - 1 : x = r[j]
    BY <1>7 DEF Range
  <2>2. PICK u \in 1 .. len : x = l[u] /\ ((j < i /\ u = j) \/ (j >= i /\ u = j + 1))
    BY <1>8, <2>1
  <2>3. u # i
    BY <2>2
  <2> QED BY <1>1, <1>3, <1>9, <2>2, <2>3 DEF Range
<1>12. ASSUME NEW x \in Range(l), x # p PROVE x \in Range(r)
  <2>1. PICK u \in 1 .. len : x = l[u]
    BY <1>1 DEF Range
  <2>2. u # i
    BY <1>3, <1>12, <2>1
  <2>3. CASE u < i
    <3>1. u \in 1 .. len - 1
      BY <1>1, <2>3
    <3>2. r[u] = x
      BY <1>7, <2>1, <2>3, <3>1
    <3> QED BY <1>7, <3>1, <3>2 DEF Range
  <2>4. CASE u > i
    <3>1. u - 1 \in 1 .. len - 1 /\ ~(u - 1 < i) /\ u - 1 + 1 = u
      BY <1>1, <2>4
    <3>2. r[u - 1] = x
      BY <1>7, <2>1, <3>1
    <3> QED BY <1>7, <3>1, <3>2 DEF Range
  <2> QED BY <2>2, <2>3, <2>4
<1> QED BY <1>4, <1>6, <1>10, <1>11, <1>12

-----------------------------------------------------------------------------
(* The free objects f of a pool of n objects, and those given out, G.      *)
PoolOK(f, G, n) ==
  f \in Seq(1 .. n) /\ IsInjective(f) /\ Range(f) \cap G = {} /\ Range(f) \cup G = 1 .. n

(* alloc of a pool gives its first free object.                            *)
LEMMA PoolAlloc ==
  ASSUME NEW n \in Nat, NEW f, NEW G, PoolOK(f, G, n), f # <<>>
  PROVE  PoolOK(Tail(f), G \cup {Head(f)}, n) /\ Head(f) \in 1 .. n /\ Len(Tail(f)) = Len(f) - 1
<1>1. f \in Seq(1 .. n)
  BY DEF PoolOK
<1>2. /\ Head(f) \in 1 .. n /\ Tail(f) \in Seq(1 .. n)
      /\ Range(f) = {Head(f)} \cup Range(Tail(f))
      /\ IsInjective(Tail(f)) /\ Head(f) \notin Range(Tail(f))
  BY <1>1, PopFacts DEF PoolOK
<1>3. Len(Tail(f)) = Len(f) - 1
  BY <1>1, LenProperties
<1>4. Range(Tail(f)) \cap (G \cup {Head(f)}) = {} /\ Range(Tail(f)) \cup (G \cup {Head(f)}) = 1 .. n
  BY <1>2 DEF PoolOK
<1> QED BY <1>2, <1>3, <1>4 DEF PoolOK

(* free of a pool puts an object that was given out before them.           *)
LEMMA PoolFree ==
  ASSUME NEW n \in Nat, NEW f, NEW G, PoolOK(f, G, n), NEW x \in G
  PROVE  PoolOK(<<x>> \o f, G \ {x}, n) /\ Len(<<x>> \o f) = Len(f) + 1
<1>1. f \in Seq(1 .. n) /\ x \in 1 .. n /\ x \notin Range(f)
  BY DEF PoolOK
<1>2. PICK r : r = <<x>> \o f
  OBVIOUS
<1>3. r \in Seq(1 .. n) /\ Range(r) = {x} \cup Range(f) /\ IsInjective(r)
  BY <1>1, <1>2, PushFacts DEF PoolOK
<1>4. Range(r) \cap (G \ {x}) = {} /\ Range(r) \cup (G \ {x}) = 1 .. n
  BY <1>3 DEF PoolOK
<1>5. Len(<<x>> \o f) = Len(f) + 1
  BY <1>1
<1> QED BY <1>2, <1>3, <1>4, <1>5 DEF PoolOK

(* A pool with an object given out has fewer free ones than objects, and   *)
(* when it is one fewer there is no other object given out.                *)
LEMMA PoolFull ==
  ASSUME NEW n \in Nat, NEW f, NEW G, PoolOK(f, G, n), NEW x \in G
  PROVE  Len(f) < n /\ (Len(f) + 1 = n => G = {x})
<1>1. f \in Seq(1 .. n) /\ x \in 1 .. n /\ x \notin Range(f)
  BY DEF PoolOK
<1>2. PICK len \in Nat : len = Len(f) /\ DOMAIN f = 1 .. len /\ f \in [1 .. len -> 1 .. n]
  BY <1>1, LenProperties
<1>3. /\ IsFiniteSet(1 .. n) /\ Cardinality(1 .. n) = n
      /\ IsFiniteSet(1 .. len) /\ Cardinality(1 .. len) = len
  BY FS_Interval
<1>4. ASSUME NEW T, T \in SUBSET (1 .. n), Range(f) \subseteq T
      PROVE  len <= Cardinality(T)
  <2>1. IsFiniteSet(T)
    BY <1>3, <1>4, FS_Subset
  <2>2. f \in Injection(1 .. len, T)
    <3>1. \A i \in 1 .. len : f[i] \in T
      BY <1>2, <1>4 DEF Range
    <3>2. f \in [1 .. len -> T]
      BY <1>2, <3>1
    <3> QED BY <3>2 DEF Injection, PoolOK
  <2>3. Cardinality(1 .. len) <= Cardinality(T)
    BY <2>1, <2>2, FS_Injection
  <2> QED BY <1>3, <2>3
<1>5. PICK T : T = (1 .. n) \ {x}
  OBVIOUS
<1>6. PICK J : J = 1 .. n
  OBVIOUS
<1>7. Cardinality(T) = n - 1 /\ IsFiniteSet(T)
  <2>1. IsFiniteSet(J) /\ x \in J /\ Cardinality(J) = n
    BY <1>1, <1>3, <1>6
  <2>2. IsFiniteSet(J \ {x}) /\ Cardinality(J \ {x}) = Cardinality(J) - 1
    BY <2>1, FS_RemoveElement
  <2> QED BY <1>5, <1>6, <2>1, <2>2
<1>8. T \in SUBSET (1 .. n) /\ Range(f) \subseteq T
  BY <1>1, <1>5 DEF PoolOK
<1>9. len <= n - 1
  BY <1>4, <1>7, <1>8
<1>10. ASSUME len + 1 = n, NEW y \in G, y # x PROVE FALSE
  <2>1. y \in T /\ y \notin Range(f)
    BY <1>5, <1>10 DEF PoolOK
  <2>2. IsFiniteSet(T \ {y}) /\ Cardinality(T \ {y}) = Cardinality(T) - 1
    BY <1>7, <2>1, FS_RemoveElement
  <2>3. T \ {y} \in SUBSET (1 .. n) /\ Range(f) \subseteq T \ {y}
    BY <1>8, <2>1
  <2>4. len <= Cardinality(T \ {y})
    BY <1>4, <2>3
  <2> QED BY <1>2, <1>7, <1>10, <2>2, <2>4
<1> QED BY <1>2, <1>9, <1>10

-----------------------------------------------------------------------------
(* The objects of page p that have been given out.                         *)
Given(objs, p) == {o.object : o \in {x \in objs : x.page = p}}

(* One more object of a page, and none of another.                         *)
LEMMA GivenMore ==
  ASSUME NEW objs, NEW o
  PROVE  /\ Given(objs \cup {o}, o.page) = Given(objs, o.page) \cup {o.object}
         /\ \A q : q # o.page => Given(objs \cup {o}, q) = Given(objs, q)
<1>1. Given(objs \cup {o}, o.page) = Given(objs, o.page) \cup {o.object}
  BY DEF Given
<1>2. ASSUME NEW q, q # o.page PROVE Given(objs \cup {o}, q) = Given(objs, q)
  BY <1>2 DEF Given
<1> QED BY <1>1, <1>2

(* One object less.                                                        *)
LEMMA GivenLess ==
  ASSUME NEW objs \in SUBSET [page : Pages, object : Objects], NEW o \in objs
  PROVE  /\ Given(objs \ {o}, o.page) = Given(objs, o.page) \ {o.object}
         /\ \A q : q # o.page => Given(objs \ {o}, q) = Given(objs, q)
<1>1. \A y \in objs : y = [page |-> y.page, object |-> y.object]
  OBVIOUS
<1>2. \A y \in objs : y.page = o.page /\ y.object = o.object => y = o
  BY <1>1
<1>3. Given(objs \ {o}, o.page) = Given(objs, o.page) \ {o.object}
  BY <1>2 DEF Given
<1>4. ASSUME NEW q, q # o.page PROVE Given(objs \ {o}, q) = Given(objs, q)
  BY <1>4 DEF Given
<1> QED BY <1>3, <1>4

(* The search for a pool never starts at the list of the full ones: the    *)
(* index at which it goes on is never zero.                                *)
LEMMA NextIndexFacts == \A k \in Nat \ {0} : NextIndex(k) \in Nat \ {0}
<1> SUFFICES ASSUME NEW k \in Nat \ {0} PROVE NextIndex(k) \in Nat \ {0}
  OBVIOUS
<1>1. k - 1 \in Nat /\ 1 \in Nat
  OBVIOUS
<1>2. Max({k - 1, 1}) \in {k - 1, 1} /\ 1 <= Max({k - 1, 1})
  BY <1>1, MaxOfTwo
<1> QED BY <1>1, <1>2 DEF NextIndex

-----------------------------------------------------------------------------
(* The pools of class c in which k objects are free.                       *)
Members(cl, fr, c, k) == {p \in Pages : cl[p] = c /\ Len(fr[p]) = k}

(* The heap's part of the invariant: its lists are those ListsAreCounts    *)
(* speaks of, and the objects of a pool are either free or given out.      *)
HTyped ==
  /\ class \in [Pages -> Used \cup {0}] /\ free \in [Pages -> Seq(Objects)]
  /\ last \in [Classes -> Nat \ {0}] /\ objects \in SUBSET [page : Pages, object : Objects]

(* The list for k free objects of class c has the pools of which this is   *)
(* true, each once.                                                        *)
HeadsOK(h, cl, fr) ==
  /\ DOMAIN h = Classes
  /\ \A c \in Classes : h[c] \in [0 .. MaxCount[c] -> Seq(Pages)]
  /\ \A c \in Classes : \A k \in 0 .. MaxCount[c] :
       IsInjective(h[c][k]) /\ Range(h[c][k]) = Members(cl, fr, c, k)

(* In every pool the free objects and those given out are its objects.     *)
PoolsOK ==
  \A p \in Pages : class[p] # 0 => PoolOK(free[p], Given(objects, p), MaxCount[class[p]])

(* The inductive invariant: the allocator's and the heap's.                *)
HInv == KInv /\ HTyped /\ HeadsOK(heads, class, free) /\ PoolsOK /\ HeapHoldsItsPages

(* It implies the invariants of the heap.                                  *)
LEMMA HInvImplies == HInv => TypeOK /\ ListsAreCounts /\ ObjectsAreDistinct /\ HeapHoldsItsPages
<1> SUFFICES ASSUME HInv PROVE TypeOK /\ ListsAreCounts /\ ObjectsAreDistinct
  BY DEF HInv
<1>1. TypeOK
  BY KInvImplies, HeapAssumption DEF HInv, HTyped, HeadsOK, TypeOK
<1>2. ListsAreCounts
  <2>1. \A c, k : {p \in Pools(c) : Count(p) = k} = Members(class, free, c, k)
    BY DEF Pools, Count, Members
  <2> QED BY <2>1 DEF HInv, HeadsOK, ListsAreCounts
<1>3. ObjectsAreDistinct
  <2>1. \A p \in Pages \ Pools(0) : PoolOK(free[p], Given(objects, p), MaxCount[class[p]])
    BY DEF Pools, HInv, PoolsOK
  <2> QED BY <2>1 DEF ObjectsAreDistinct, PoolOK, Given
<1> QED BY <1>1, <1>2, <1>3

(* Zero, which stands for a page that is no pool, is no class.             *)
LEMMA ClassFacts == \A c \in Classes : c \in Nat /\ c # 0
<1>1. PICK n \in Nat : n = Cardinality(Classes)
  BY HeapAssumption, FS_CardinalityType
<1>2. Classes = 1 .. n
  BY <1>1, HeapAssumption
<1> QED BY <1>2

(* The number of objects of a pool is that of an object, and no object of  *)
(* a pool lies outside Objects.                                            *)
LEMMA CountFacts ==
  \A c \in Classes : MaxCount[c] \in Nat \ {0} /\ 1 .. MaxCount[c] \subseteq Objects
<1> SUFFICES ASSUME NEW c \in Classes PROVE MaxCount[c] \in Nat \ {0} /\ 1 .. MaxCount[c] \subseteq Objects
  OBVIOUS
<1>1. MaxCount \in [Classes -> Nat \ {0}] /\ IsFiniteSet(Classes)
  BY HeapAssumption
<1>2. PICK T : T = {MaxCount[d] : d \in Classes}
  OBVIOUS
<1>3. MaxCount \in Surjection(Classes, T)
  BY <1>1, <1>2 DEF Surjection
<1>4. IsFiniteSet(T)
  BY <1>1, <1>3, FS_Surjection
<1>5. T \subseteq Nat /\ MaxCount[c] \in T
  BY <1>1, <1>2
<1>6. Max(T) \in Nat /\ MaxCount[c] <= Max(T)
  BY <1>4, <1>5, MaxIsGreatest
<1> QED BY <1>1, <1>2, <1>6 DEF Objects

(* One list of the heap replaced.                                          *)
UpdateList(h, c, k, l) == [h EXCEPT ![c][k] = l]

(* A pool is taken out of its list, and is in none.                        *)
LEMMA PoolLeaves ==
  ASSUME NEW h, NEW cl, NEW fr, HeadsOK(h, cl, fr),
         NEW c \in Classes, NEW k \in 0 .. MaxCount[c], NEW p \in Members(cl, fr, c, k),
         NEW x \in Seq(Pages), IsInjective(x), Range(x) = Range(h[c][k]) \ {p},
         NEW cl2, cl2[p] = 0, NEW fr2,
         \A q \in Pages : q # p => cl2[q] = cl[q] /\ fr2[q] = fr[q]
  PROVE  HeadsOK(UpdateList(h, c, k, x), cl2, fr2)
<1>1. PICK r : r = [h EXCEPT ![c][k] = x]
  OBVIOUS
<1>2. PICK hc \in [0 .. MaxCount[c] -> Seq(Pages)] : hc = h[c]
  BY DEF HeadsOK
<1>3. /\ DOMAIN r = Classes /\ r[c] = [hc EXCEPT ![k] = x]
      /\ \A d \in Classes : d # c => r[d] = h[d]
  BY <1>1, <1>2 DEF HeadsOK
<1>4. r[c] \in [0 .. MaxCount[c] -> Seq(Pages)]
  BY <1>2, <1>3
<1>5. r[c][k] = x /\ \A j \in 0 .. MaxCount[c] : j # k => r[c][j] = hc[j]
  BY <1>2, <1>3
<1>6. cl[p] = c /\ Len(fr[p]) = k /\ p \in Pages
  BY DEF Members
<1>7. \A d \in Classes : d # 0
  BY ClassFacts
<1>8. \A d \in Classes : \A j : (d # c \/ j # k) => Members(cl2, fr2, d, j) = Members(cl, fr, d, j)
  BY <1>6, <1>7 DEF Members
<1>9. Members(cl2, fr2, c, k) = Members(cl, fr, c, k) \ {p}
  BY <1>6, <1>7 DEF Members
<1>10. ASSUME NEW d \in Classes, NEW j \in 0 .. MaxCount[d]
       PROVE  IsInjective(r[d][j]) /\ Range(r[d][j]) = Members(cl2, fr2, d, j)
  <2>1. CASE d = c /\ j = k
    BY <1>5, <1>9, <2>1 DEF HeadsOK
  <2>2. CASE d # c \/ j # k
    <3>1. r[d][j] = h[d][j]
      BY <1>2, <1>3, <1>5, <2>2
    <3> QED BY <1>8, <2>2, <3>1 DEF HeadsOK
  <2> QED BY <2>1, <2>2
<1>11. \A d \in Classes : r[d] \in [0 .. MaxCount[d] -> Seq(Pages)]
  BY <1>3, <1>4 DEF HeadsOK
<1>12. HeadsOK(r, cl2, fr2)
  BY <1>3, <1>10, <1>11 DEF HeadsOK
<1> QED BY <1>1, <1>12 DEF UpdateList

(* A pool that is in no list comes into the one for the number of its free *)
(* objects.                                                                *)
LEMMA PoolEnters ==
  ASSUME NEW h, NEW cl, NEW fr, HeadsOK(h, cl, fr),
         NEW c \in Classes, NEW k \in 0 .. MaxCount[c], NEW p \in Pages, cl[p] = 0,
         NEW cl2, cl2[p] = c, NEW fr2, Len(fr2[p]) = k,
         \A q \in Pages : q # p => cl2[q] = cl[q] /\ fr2[q] = fr[q]
  PROVE  HeadsOK(UpdateList(h, c, k, <<p>> \o h[c][k]), cl2, fr2)
<1>1. PICK hc \in [0 .. MaxCount[c] -> Seq(Pages)] : hc = h[c]
  BY DEF HeadsOK
<1>2. PICK l \in Seq(Pages) : l = h[c][k]
  BY <1>1
<1>3. PICK x : x = <<p>> \o l
  OBVIOUS
<1>4. \A d \in Classes : d # 0
  BY ClassFacts
<1>5. IsInjective(l) /\ Range(l) = Members(cl, fr, c, k) /\ p \notin Range(l)
  BY <1>2, <1>4 DEF HeadsOK, Members
<1>6. x \in Seq(Pages) /\ Range(x) = {p} \cup Range(l) /\ IsInjective(x)
  BY <1>3, <1>5, PushFacts
<1>7. PICK r : r = [h EXCEPT ![c][k] = x]
  OBVIOUS
<1>8. /\ DOMAIN r = Classes /\ r[c] = [hc EXCEPT ![k] = x]
      /\ \A d \in Classes : d # c => r[d] = h[d]
  BY <1>1, <1>7 DEF HeadsOK
<1>9. r[c] \in [0 .. MaxCount[c] -> Seq(Pages)]
  BY <1>1, <1>6, <1>8
<1>10. r[c][k] = x /\ \A j \in 0 .. MaxCount[c] : j # k => r[c][j] = hc[j]
  BY <1>1, <1>8
<1>11. \A d \in Classes : \A j : (d # c \/ j # k) => Members(cl2, fr2, d, j) = Members(cl, fr, d, j)
  BY <1>4 DEF Members
<1>12. Members(cl2, fr2, c, k) = Members(cl, fr, c, k) \cup {p}
  BY <1>4 DEF Members
<1>13. ASSUME NEW d \in Classes, NEW j \in 0 .. MaxCount[d]
       PROVE  IsInjective(r[d][j]) /\ Range(r[d][j]) = Members(cl2, fr2, d, j)
  <2>1. CASE d = c /\ j = k
    <3>1. r[d][j] = x /\ Members(cl2, fr2, d, j) = Members(cl, fr, c, k) \cup {p}
      BY <1>10, <1>12, <2>1
    <3> QED BY <1>5, <1>6, <3>1
  <2>2. CASE d # c \/ j # k
    <3>1. r[d][j] = h[d][j]
      BY <1>1, <1>8, <1>10, <2>2
    <3> QED BY <1>11, <2>2, <3>1 DEF HeadsOK
  <2> QED BY <2>1, <2>2
<1>14. \A d \in Classes : r[d] \in [0 .. MaxCount[d] -> Seq(Pages)]
  BY <1>8, <1>9 DEF HeadsOK
<1>15. HeadsOK(r, cl2, fr2)
  BY <1>8, <1>13, <1>14 DEF HeadsOK
<1> QED BY <1>2, <1>3, <1>7, <1>15 DEF UpdateList

(* Initially all pages but the first are free, and there is no pool.       *)
LEMMA HeapInit == Init => HInv
<1> SUFFICES ASSUME Init PROVE HInv
  OBVIOUS
<1>1. Top \in Nat /\ Top >= 2 /\ PoolAreas \in Nat /\ PoolAreas > 0
  <2>1. Top \in Nat /\ Top \div 2 \in Nat
    BY KernelAreasAssumption, DivFacts
  <2> QED BY <2>1, KernelAreasAssumption
<1>2. PICK a \in Ranges : a = Area(1, Top - 1)
  <2>1. 1 \in Nat /\ Top - 1 \in Nat \ {0}
    BY <1>1
  <2> QED BY <2>1 DEF Ranges, Area
<1>3. PICK l \in Seq(Ranges) : l = <<a>>
  <2>1. <<a>> \in Seq(Ranges)
    OBVIOUS
  <2> QED BY <2>1
<1>4. Len(l) = 1 /\ DOMAIN l = {1} /\ l[1] = a
  BY <1>3
<1>5. areas = l /\ nodes = PoolAreas - 1 /\ mappings = {}
  BY <1>2, <1>3 DEF Init, KernelAreasInit
<1>6. Apart(l)
  BY <1>4 DEF Apart
<1>7. \A x : x \in Covered(l) <=> x \in Pages \ {0}
  <2>1. a.start = 1 /\ a.size = Top - 1
    BY <1>2 DEF Area
  <2>2. \A x : x \in Span(a.start, a.size) <=> x \in Pages \ {0}
    BY <1>1, <2>1 DEF Span, Pages
  <2> QED BY <1>4, <2>2, CoveredFacts
<1>8. KInv
  <2>1. Shared(Covered(areas), mappings)
    BY <1>5, <1>7 DEF Shared
  <2>2. nodes \in Nat /\ nodes + Len(areas) = PoolAreas
    <3>1. PICK n \in Nat : n = PoolAreas - 1
      BY <1>1
    <3>2. nodes = n /\ Len(areas) = 1 /\ n + 1 = PoolAreas
      BY <1>1, <1>4, <1>5, <3>1
    <3> QED BY <3>2
  <2> QED BY <1>5, <1>6, <2>1, <2>2 DEF KInv
<1>9. /\ \A p \in Pages : class[p] = 0 /\ free[p] = <<>>
      /\ \A c \in Classes : heads[c] = [k \in 0 .. MaxCount[c] |-> <<>>]
      /\ objects = {} /\ last = MaxCount
  BY DEF Init
<1>10. HTyped
  <2>1. class \in [Pages -> Used \cup {0}] /\ free \in [Pages -> Seq(Objects)]
    BY DEF Init
  <2>2. last \in [Classes -> Nat \ {0}] /\ objects \in SUBSET [page : Pages, object : Objects]
    BY HeapAssumption DEF Init
  <2> QED BY <2>1, <2>2 DEF HTyped
<1>11. HeadsOK(heads, class, free)
  <2>1. \A c \in Classes : c # 0
    BY ClassFacts
  <2>2. \A c \in Classes : \A k : Members(class, free, c, k) = {}
    BY <1>9, <2>1 DEF Members
  <2>3. \A c \in Classes : \A k \in 0 .. MaxCount[c] :
          Range(heads[c][k]) = {} /\ IsInjective(heads[c][k])
    <3>1. \A c \in Classes : \A k \in 0 .. MaxCount[c] : heads[c][k] = <<>>
      BY <1>9
    <3>2. Range(<<>>) = {} /\ IsInjective(<<>>)
      BY DEF Range, IsInjective
    <3> QED BY <3>1, <3>2
  <2>4. /\ DOMAIN heads = Classes
        /\ \A c \in Classes : heads[c] \in [0 .. MaxCount[c] -> Seq(Pages)]
    BY DEF Init
  <2> QED BY <2>2, <2>3, <2>4 DEF HeadsOK
<1>12. PoolsOK
  BY <1>9 DEF PoolsOK
<1>13. HeapHoldsItsPages
  BY <1>9 DEF HeapHoldsItsPages
<1> QED BY <1>8, <1>10, <1>11, <1>12, <1>13 DEF HInv

(* An object of a pool that has free ones goes to a caller.                *)
LEMMA AllocKeepsInv ==
  ASSUME HInv, NEW c \in Used, Alloc(c)
  PROVE  HInv'
<1>1. PICK n \in Nat \ {0} : n = MaxCount[c] /\ c \in Classes /\ c # 0 /\ 1 .. n \subseteq Objects
  <2>1. c \in Classes /\ c # 0
    BY ClassFacts, HeapAssumption
  <2> QED BY <2>1, CountFacts
<1>2. HTyped /\ PoolsOK /\ HeadsOK(heads, class, free) /\ HeapHoldsItsPages
  BY DEF HInv
<1>3. PICK k \in 1 .. n : k = Min(Filled(c)) /\ heads[c][k] # <<>>
  <2>1. last[c] \in Nat \ {0}
    BY <1>1, <1>2 DEF HTyped
  <2>2. Filled(c) \subseteq 1 .. n /\ Filled(c) # {}
    BY <1>1, <2>1 DEF Filled, Alloc
  <2>3. PICK F : F = Filled(c)
    OBVIOUS
  <2>4. Min(F) \in F
    BY <2>2, <2>3, MinIsLeast
  <2> QED BY <2>2, <2>3, <2>4 DEF Filled
<1>4. PICK l \in Seq(Pages) : l = heads[c][k]
  BY <1>1, <1>2, <1>3 DEF HeadsOK
<1>5. IsInjective(l) /\ Range(l) = Members(class, free, c, k) /\ l # <<>>
  BY <1>1, <1>2, <1>3, <1>4 DEF HeadsOK
<1>6. PICK p : p = Head(l)
  OBVIOUS
<1>7. /\ p \in Pages /\ Range(l) = {p} \cup Range(Tail(l)) /\ Tail(l) \in Seq(Pages)
      /\ IsInjective(Tail(l)) /\ p \notin Range(Tail(l))
  BY <1>5, <1>6, PopFacts
<1>8. class[p] = c /\ Len(free[p]) = k /\ p \in Members(class, free, c, k)
  BY <1>5, <1>7 DEF Members
<1>9. PoolOK(free[p], Given(objects, p), n) /\ free[p] # <<>>
  <2>1. PoolOK(free[p], Given(objects, p), n)
    BY <1>1, <1>2, <1>7, <1>8 DEF PoolsOK
  <2>2. free[p] # <<>>
    BY <1>3, <1>8
  <2> QED BY <2>1, <2>2
<1>10. PICK x : x = Head(free[p])
  OBVIOUS
<1>11. PICK f : f = Tail(free[p])
  OBVIOUS
<1>12. PoolOK(f, Given(objects, p) \cup {x}, n) /\ x \in 1 .. n /\ Len(f) = k - 1
  BY <1>1, <1>8, <1>9, <1>10, <1>11, PoolAlloc
<1>13. /\ objects' = objects \cup {[page |-> p, object |-> x]}
       /\ free' = [free EXCEPT ![p] = f]
       /\ last' = [last EXCEPT ![c] = NextIndex(k)]
       /\ class' = class /\ areas' = areas /\ nodes' = nodes /\ mappings' = mappings
  BY <1>3, <1>4, <1>6, <1>10, <1>11 DEF Alloc, areaVars
<1>14. free'[p] = f /\ \A q \in Pages : q # p => free'[q] = free[q]
  BY <1>2, <1>7, <1>13 DEF HTyped
<1>15. KInv'
  BY <1>13 DEF KInv, HInv
<1>16. HTyped'
  <2>1. f \in Seq(Objects)
    BY <1>2, <1>7, <1>9, <1>11, PopFacts DEF HTyped
  <2>2. NextIndex(k) \in Nat \ {0}
    BY <1>3, NextIndexFacts
  <2>3. [page |-> p, object |-> x] \in [page : Pages, object : Objects]
    BY <1>1, <1>7, <1>12
  <2> QED BY <1>1, <1>2, <1>13, <2>1, <2>2, <2>3 DEF HTyped
<1>17. HeadsOK(heads', class', free')
  <2>1. PICK t \in Seq(Pages) : t = Tail(l)
    BY <1>7
  <2>2. PICK cl : cl = [class EXCEPT ![p] = 0]
    OBVIOUS
  <2>3. cl[p] = 0 /\ \A q \in Pages : q # p => cl[q] = class[q]
    BY <1>2, <1>7, <2>2 DEF HTyped
  <2>4. IsInjective(t) /\ Range(t) = Range(heads[c][k]) \ {p}
    BY <1>4, <1>7, <2>1
  <2>5. PICK h : h = UpdateList(heads, c, k, t) /\ HeadsOK(h, cl, free)
    <3>1. k \in 0 .. MaxCount[c] /\ c \in Classes
      BY <1>1, <1>3
    <3>2. HeadsOK(UpdateList(heads, c, k, t), cl, free)
      BY <1>2, <1>8, <2>3, <2>4, <3>1, PoolLeaves
    <3> QED BY <3>2
  <2>6. heads' = UpdateList(h, c, k - 1, <<p>> \o h[c][k - 1])
    <3>1. heads' = [heads EXCEPT ![c][k] = Tail(l), ![c][k - 1] = <<p>> \o heads[c][k - 1]]
      BY <1>3, <1>4, <1>6 DEF Alloc
    <3>2. h[c][k - 1] = heads[c][k - 1]
      BY <1>1, <1>2, <1>3, <2>5 DEF HeadsOK, UpdateList
    <3> QED BY <2>1, <2>5, <3>1, <3>2 DEF UpdateList
  <2>7. /\ k - 1 \in 0 .. MaxCount[c] /\ class'[p] = c /\ Len(free'[p]) = k - 1
        /\ \A q \in Pages : q # p => class'[q] = cl[q] /\ free'[q] = free[q]
    BY <1>1, <1>3, <1>8, <1>12, <1>13, <1>14, <2>3
  <2> QED BY <1>1, <1>7, <2>3, <2>5, <2>6, <2>7, PoolEnters
<1>18. PoolsOK'
  <2>1. /\ Given(objects', p) = Given(objects, p) \cup {x}
        /\ \A q : q # p => Given(objects', q) = Given(objects, q)
    <3>1. PICK o : o = [page |-> p, object |-> x]
      OBVIOUS
    <3>2. o.page = p /\ o.object = x /\ objects' = objects \cup {o}
      BY <1>13, <3>1
    <3>3. /\ Given(objects \cup {o}, o.page) = Given(objects, o.page) \cup {o.object}
          /\ \A q : q # o.page => Given(objects \cup {o}, q) = Given(objects, q)
      BY GivenMore
    <3> QED BY <3>2, <3>3
  <2> SUFFICES ASSUME NEW q \in Pages, class[q] # 0
               PROVE  PoolOK(free'[q], Given(objects', q), MaxCount[class[q]])
    BY <1>13 DEF PoolsOK
  <2>2. CASE q = p
    BY <1>1, <1>8, <1>12, <1>14, <2>1, <2>2
  <2>3. CASE q # p
    BY <1>2, <1>14, <2>1, <2>3 DEF PoolsOK
  <2> QED BY <2>2, <2>3
<1>19. HeapHoldsItsPages'
  <2>1. PICK o : o = [page |-> p, object |-> x]
    OBVIOUS
  <2>2. o.page = p /\ objects' = objects \cup {o} /\ class[p] # 0
    BY <1>1, <1>8, <1>13, <2>1
  <2>3. {q \in Pages : class[q] # 0} = {y.page : y \in objects}
    BY <1>2 DEF HeapHoldsItsPages
  <2>4. \E y \in objects : y.page = p
    BY <1>7, <2>2, <2>3
  <2> QED BY <1>2, <1>13, <2>2, <2>3, <2>4 DEF HeapHoldsItsPages
<1> QED BY <1>15, <1>16, <1>17, <1>18, <1>19 DEF HInv

(* A page that is free, or not of the heap, holds no pool; so a mapping    *)
(* that is taken or returned leaves what the heap holds.                   *)
LEMMA FreePageHasNoPool ==
  ASSUME HInv, NEW p \in Covered(areas)
  PROVE  p \in Pages /\ class[p] = 0 /\ Given(objects, p) = {}
<1>1. p \in Pages
  BY DEF HInv, KInv, Shared
<1>2. \A o \in objects : o.page # p
  <2> SUFFICES ASSUME NEW o \in objects, o.page = p PROVE FALSE
    OBVIOUS
  <2>1. Area(p, 1) \in mappings /\ p \in Nat
    BY <1>1 DEF HInv, HeapHoldsItsPages, Pages
  <2>2. p \in Span(Area(p, 1).start, Area(p, 1).size)
    BY <2>1 DEF Area, Span
  <2> QED BY <2>1, <2>2 DEF HInv, KInv, Shared
<1>3. class[p] = 0
  BY <1>1, <1>2 DEF HInv, HeapHoldsItsPages
<1>4. Given(objects, p) = {}
  BY <1>2 DEF Given
<1> QED BY <1>1, <1>3, <1>4

(* The free list of a new pool, whose first object is given out at once.   *)
LEMMA FreshListFacts ==
  ASSUME NEW c \in Classes
  PROVE  /\ PoolOK(FreshList(c), {1}, MaxCount[c])
         /\ Len(FreshList(c)) = MaxCount[c] - 1 /\ FreshList(c) \in Seq(Objects)
<1>1. PICK n \in Nat \ {0} : n = MaxCount[c] /\ 1 .. n \subseteq Objects
  BY CountFacts
<1>2. PICK d \in Nat : d = n - 1
  BY <1>1
<1>3. PICK f : f = FreshList(c)
  OBVIOUS
<1>4. f = [i \in 1 .. d |-> i + 1]
  BY <1>1, <1>2, <1>3 DEF FreshList
<1>5. f \in [1 .. d -> 1 .. n]
  BY <1>1, <1>2, <1>4
<1>6. f \in Seq(1 .. n) /\ Len(f) = d
  <2>1. f \in Seq(1 .. n)
    BY <1>5, SeqDef
  <2> QED BY <1>2, <1>5, <2>1, LenProperties
<1>7. f \in Seq(Objects)
  <2>1. \A i \in 1 .. Len(f) : f[i] \in Objects
    BY <1>1, <1>5, <1>6
  <2> QED BY <1>6, <2>1, SequenceOver
<1>8. IsInjective(f)
  BY <1>4 DEF IsInjective
<1>9. Range(f) \cap {1} = {}
  BY <1>4 DEF Range
<1>10. Range(f) \cup {1} = 1 .. n
  <2>1. \A x \in Range(f) : x \in 1 .. n
    BY <1>5 DEF Range
  <2>2. ASSUME NEW x \in 1 .. n, x # 1 PROVE x \in Range(f)
    <3>1. x - 1 \in 1 .. d /\ f[x - 1] = x
      BY <1>1, <1>2, <1>4, <2>2
    <3> QED BY <1>5, <3>1 DEF Range
  <2> QED BY <1>1, <2>1, <2>2
<1> QED BY <1>1, <1>2, <1>3, <1>6, <1>7, <1>8, <1>9, <1>10 DEF PoolOK

(* A page becomes a pool.                                                  *)
LEMMA NewPoolKeepsInv ==
  ASSUME HInv, NEW c \in Used, AllocFromNewPool(c)
  PROVE  HInv'
<1>1. PICK n \in Nat \ {0} : n = MaxCount[c] /\ c \in Classes /\ c # 0 /\ 1 .. n \subseteq Objects
  <2>1. c \in Classes /\ c # 0
    BY ClassFacts, HeapAssumption
  <2> QED BY <2>1, CountFacts
<1>2. KInv /\ HTyped /\ PoolsOK /\ HeadsOK(heads, class, free) /\ HeapHoldsItsPages
  BY DEF HInv
<1>3. PICK p : p = Offset(1)
  OBVIOUS
<1>4. KInv' /\ mappings' = mappings \cup {Area(p, 1)} /\ p \in Covered(areas)
  <2>1. GetMapping(1) /\ 1 \in Sizes
    BY HeapAssumption DEF AllocFromNewPool
  <2> QED BY <1>2, <1>3, <2>1, GetMappingFacts
<1>5. p \in Pages /\ class[p] = 0 /\ Given(objects, p) = {}
  BY <1>4, FreePageHasNoPool
<1>6. PICK f : f = FreshList(c)
  OBVIOUS
<1>7. PoolOK(f, {1}, n) /\ Len(f) = n - 1 /\ f \in Seq(Objects)
  BY <1>1, <1>6, FreshListFacts
<1>8. PICK o : o = [page |-> p, object |-> 1]
  OBVIOUS
<1>9. /\ class' = [class EXCEPT ![p] = c] /\ free' = [free EXCEPT ![p] = f]
      /\ heads' = [heads EXCEPT ![c][n - 1] = <<p>> \o @]
      /\ last' = [last EXCEPT ![c] = NextIndex(n)]
  BY <1>1, <1>3, <1>6 DEF AllocFromNewPool
<1>10. o.page = p /\ o.object = 1 /\ objects' = objects \cup {o}
  BY <1>3, <1>8 DEF AllocFromNewPool
<1>11. /\ class'[p] = c /\ free'[p] = f
       /\ \A q \in Pages : q # p => class'[q] = class[q] /\ free'[q] = free[q]
  BY <1>2, <1>5, <1>9 DEF HTyped
<1>12. HTyped'
  <2>1. NextIndex(n) \in Nat \ {0}
    BY NextIndexFacts
  <2>2. o \in [page : Pages, object : Objects]
    BY <1>1, <1>5, <1>8
  <2> QED BY <1>1, <1>2, <1>7, <1>9, <1>10, <2>1, <2>2 DEF HTyped
<1>13. HeadsOK(heads', class', free')
  <2>1. n - 1 \in 0 .. MaxCount[c]
    BY <1>1
  <2>2. HeadsOK(UpdateList(heads, c, n - 1, <<p>> \o heads[c][n - 1]), class', free')
    BY <1>1, <1>2, <1>5, <1>7, <1>11, <2>1, PoolEnters
  <2>3. heads' = UpdateList(heads, c, n - 1, <<p>> \o heads[c][n - 1])
    BY <1>9 DEF UpdateList
  <2> QED BY <2>2, <2>3
<1>14. PoolsOK'
  <2>1. /\ Given(objects \cup {o}, o.page) = Given(objects, o.page) \cup {o.object}
        /\ \A q : q # o.page => Given(objects \cup {o}, q) = Given(objects, q)
    BY GivenMore
  <2>2. Given(objects', p) = {1} /\ \A q : q # p => Given(objects', q) = Given(objects, q)
    BY <1>5, <1>10, <2>1
  <2> SUFFICES ASSUME NEW q \in Pages, class'[q] # 0
               PROVE  PoolOK(free'[q], Given(objects', q), MaxCount[class'[q]])
    BY DEF PoolsOK
  <2>3. CASE q = p
    BY <1>1, <1>7, <1>11, <2>2, <2>3
  <2>4. CASE q # p
    BY <1>2, <1>11, <2>2, <2>4 DEF PoolsOK
  <2> QED BY <2>3, <2>4
<1>15. HeapHoldsItsPages'
  <2>1. {q \in Pages : class[q] # 0} = {y.page : y \in objects}
    BY <1>2 DEF HeapHoldsItsPages
  <2>2. {q \in Pages : class'[q] # 0} = {q \in Pages : class[q] # 0} \cup {p}
    BY <1>1, <1>5, <1>11
  <2>3. {y.page : y \in objects'} = {y.page : y \in objects} \cup {p}
    BY <1>10
  <2>4. \A y \in objects' : Area(y.page, 1) \in mappings'
    BY <1>2, <1>4, <1>10 DEF HeapHoldsItsPages
  <2> QED BY <2>1, <2>2, <2>3, <2>4 DEF HeapHoldsItsPages
<1> QED BY <1>4, <1>12, <1>13, <1>14, <1>15 DEF HInv

(* Nothing but the index changes when there is no page for a pool.         *)
LEMMA AllocFailsKeepsInv ==
  ASSUME HInv, NEW c \in Used, AllocFails(c)
  PROVE  HInv'
<1>1. c \in Classes /\ MaxCount[c] + 1 \in Nat \ {0} /\ last[c] \in Nat \ {0}
  BY CountFacts, HeapAssumption DEF HInv, HTyped
<1>2. Max({last[c], MaxCount[c] + 1}) \in Nat \ {0}
  BY <1>1, MaxOfTwo
<1>3. last' = [last EXCEPT ![c] = Max({last[c], MaxCount[c] + 1})]
  BY DEF AllocFails
<1>4. /\ class' = class /\ free' = free /\ heads' = heads /\ objects' = objects
      /\ areas' = areas /\ nodes' = nodes /\ mappings' = mappings
  BY DEF AllocFails, areaVars
<1>5. HTyped'
  BY <1>2, <1>3, <1>4 DEF HInv, HTyped
<1>6. KInv' /\ HeadsOK(heads', class', free')
  BY <1>4 DEF HInv, KInv
<1>7. PoolsOK' /\ HeapHoldsItsPages'
  BY <1>4 DEF HInv, PoolsOK, HeapHoldsItsPages
<1> QED BY <1>5, <1>6, <1>7 DEF HInv

(* Other callers take a mapping,                                           *)
LEMMA MapKeepsInv ==
  ASSUME HInv, NEW n \in Sizes, Map(n)
  PROVE  HInv'
<1>1. KInv' /\ mappings' = mappings \cup {Area(Offset(n), n)}
  BY GetMappingFacts DEF HInv, Map
<1>2. class' = class /\ free' = free /\ heads' = heads /\ objects' = objects /\ last' = last
  BY DEF Map, heapVars
<1>3. HTyped' /\ HeadsOK(heads', class', free')
  BY <1>2 DEF HInv, HTyped
<1>4. PoolsOK' /\ HeapHoldsItsPages'
  BY <1>1, <1>2 DEF HInv, PoolsOK, HeapHoldsItsPages
<1> QED BY <1>1, <1>3, <1>4 DEF HInv

(* and return one that is not a pool's.                                    *)
LEMMA UnmapKeepsInv ==
  ASSUME HInv, NEW m \in mappings, Unmap(m)
  PROVE  HInv'
<1>1. KInv' /\ mappings' = mappings \ {m} /\ class[m.start] = 0
  BY UnmapAtFacts DEF HInv, Unmap, UnmapAt
<1>2. class' = class /\ free' = free /\ heads' = heads /\ objects' = objects /\ last' = last
  BY DEF Unmap, heapVars
<1>3. HTyped' /\ HeadsOK(heads', class', free')
  BY <1>2 DEF HInv, HTyped
<1>4. \A o \in objects : Area(o.page, 1) \in mappings \ {m}
  <2> SUFFICES ASSUME NEW o \in objects PROVE Area(o.page, 1) \in mappings \ {m}
    OBVIOUS
  <2>1. class[o.page] # 0 /\ Area(o.page, 1) \in mappings
    BY DEF HInv, HeapHoldsItsPages
  <2>2. Area(o.page, 1).start = o.page
    BY DEF Area
  <2>3. Area(o.page, 1) # m
    BY <1>1, <2>1, <2>2
  <2> QED BY <2>1, <2>3
<1>5. PoolsOK'
  BY <1>2 DEF HInv, PoolsOK
<1>6. HeapHoldsItsPages'
  BY <1>1, <1>2, <1>4 DEF HInv, HeapHoldsItsPages
<1> QED BY <1>1, <1>3, <1>5, <1>6 DEF HInv

(* An object comes back: its pool goes to the list for one more free       *)
(* object or, when it was the last given out, to the list of areas.        *)
LEMMA FreeKeepsInv ==
  ASSUME HInv, NEW o \in objects, Free(o)
  PROVE  HInv'
<1>1. KInv /\ HTyped /\ PoolsOK /\ HeadsOK(heads, class, free) /\ HeapHoldsItsPages
  BY DEF HInv
<1>2. PICK p \in Pages : p = o.page
  BY <1>1 DEF HTyped
<1>3. PICK c \in Used : c = class[p] /\ c # 0
  <2>1. class[p] # 0
    BY <1>1, <1>2 DEF HeapHoldsItsPages
  <2> QED BY <1>1, <2>1 DEF HTyped
<1>4. PICK n \in Nat \ {0} : n = MaxCount[c] /\ c \in Classes /\ 1 .. n \subseteq Objects
  <2>1. c \in Classes
    BY HeapAssumption
  <2> QED BY <2>1, CountFacts
<1>5. PoolOK(free[p], Given(objects, p), n) /\ o.object \in Given(objects, p)
  BY <1>1, <1>2, <1>3, <1>4 DEF PoolsOK, Given
<1>6. PICK k \in Nat : k = Len(free[p])
  BY <1>5, LenProperties DEF PoolOK
<1>7. k < n /\ (k + 1 = n => Given(objects, p) = {o.object})
  BY <1>4, <1>5, <1>6, PoolFull
<1>8. k \in 0 .. MaxCount[c] /\ p \in Members(class, free, c, k)
  BY <1>2, <1>3, <1>4, <1>6, <1>7 DEF Members
<1>9. PICK l \in Seq(Pages) : l = heads[c][k]
  BY <1>1, <1>4, <1>8 DEF HeadsOK
<1>10. IsInjective(l) /\ Range(l) = Members(class, free, c, k)
  BY <1>1, <1>4, <1>8, <1>9 DEF HeadsOK
<1>11. PICK t : t = CutPool(l, p)
  OBVIOUS
<1>12. t \in Seq(Pages) /\ IsInjective(t) /\ Range(t) = Range(heads[c][k]) \ {p}
  BY <1>8, <1>9, <1>10, <1>11, CutPoolFacts
<1>13. PICK cut : cut = UpdateList(heads, c, k, t)
  OBVIOUS
<1>14. ASSUME NEW cl, cl[p] = 0, NEW fr,
              \A q \in Pages : q # p => cl[q] = class[q] /\ fr[q] = free[q]
       PROVE  HeadsOK(cut, cl, fr)
  BY <1>1, <1>4, <1>8, <1>12, <1>13, <1>14, PoolLeaves
<1>15. /\ objects' = objects \ {o}
       /\ last' = IF last[c] < k THEN [last EXCEPT ![Granule * c] = k] ELSE last
  BY <1>2, <1>3, <1>6 DEF Free, Count
<1>16. last' \in [Classes -> Nat \ {0}] /\ objects' \in SUBSET [page : Pages, object : Objects]
  <2>1. last \in [Classes -> Nat \ {0}] /\ last[c] \in Nat /\ last[c] > 0
    BY <1>1, <1>4 DEF HTyped
  <2>2. last[c] < k => k \in Nat \ {0}
    BY <2>1
  <2>3. last' \in [Classes -> Nat \ {0}]
    BY <1>15, <2>1, <2>2
  <2> QED BY <1>1, <1>15, <2>3 DEF HTyped
<1>17. /\ Given(objects', p) = Given(objects, p) \ {o.object}
       /\ \A q : q # p => Given(objects', q) = Given(objects, q)
  <2>1. /\ Given(objects \ {o}, o.page) = Given(objects, o.page) \ {o.object}
        /\ \A q : q # o.page => Given(objects \ {o}, q) = Given(objects, q)
    BY <1>1, GivenLess DEF HTyped
  <2> QED BY <1>2, <1>15, <2>1
<1>18. CASE Unmapped(c, k + 1)
  <2>1. k + 1 = n
    BY <1>4, <1>18 DEF Unmapped
  <2>2. /\ UnmapAt(Area(p, 1)) /\ class' = [class EXCEPT ![p] = 0]
        /\ free' = [free EXCEPT ![p] = <<>>]
    BY <1>2, <1>3, <1>6, <1>18 DEF Free, Count
  <2>3. heads' = cut
    <3>1. heads' = [heads EXCEPT ![c][k] = CutPool(@, p)]
      BY <1>2, <1>3, <1>6, <1>18 DEF Free, Count
    <3> QED BY <1>9, <1>11, <1>13, <3>1 DEF UpdateList
  <2>4. /\ class'[p] = 0
        /\ \A q \in Pages : q # p => class'[q] = class[q] /\ free'[q] = free[q]
    BY <1>1, <2>2 DEF HTyped
  <2>5. KInv' /\ mappings' = mappings \ {Area(p, 1)}
    <3>1. Area(p, 1) \in mappings
      BY <1>1, <1>2 DEF HeapHoldsItsPages
    <3> QED BY <1>1, <2>2, <3>1, UnmapAtFacts DEF UnmapAt
  <2>6. HTyped'
    <3>1. <<>> \in Seq(Objects)
      OBVIOUS
    <3> QED BY <1>1, <1>16, <2>2, <3>1 DEF HTyped
  <2>7. HeadsOK(heads', class', free')
    BY <1>14, <2>3, <2>4
  <2>8. PoolsOK'
    BY <1>1, <1>17, <2>4 DEF PoolsOK
  <2>9. \A y \in objects' : y.page # p
    <3>1. Given(objects', p) = {}
      BY <1>7, <1>17, <2>1
    <3> QED BY <3>1 DEF Given
  <2>10. HeapHoldsItsPages'
    <3>1. ASSUME NEW q \in Pages, class'[q] # 0 PROVE \E y \in objects' : q = y.page
      <4>1. q # p /\ class[q] # 0
        BY <2>4, <3>1
      <4>2. PICK y \in objects : q = y.page
        BY <1>1, <4>1 DEF HeapHoldsItsPages
      <4> QED BY <1>2, <1>15, <4>1, <4>2
    <3>2. ASSUME NEW y \in objects'
          PROVE  y.page \in Pages /\ class'[y.page] # 0 /\ Area(y.page, 1) \in mappings'
      <4>1. y \in objects /\ y.page # p /\ y.page \in Pages
        BY <1>1, <1>15, <2>9 DEF HTyped
      <4>2. class[y.page] # 0 /\ Area(y.page, 1) \in mappings
        BY <1>1, <4>1 DEF HeapHoldsItsPages
      <4>3. Area(y.page, 1).start = y.page /\ Area(p, 1).start = p
        BY DEF Area
      <4> QED BY <2>4, <2>5, <4>1, <4>2, <4>3
    <3> QED BY <3>1, <3>2 DEF HeapHoldsItsPages
  <2> QED BY <2>5, <2>6, <2>7, <2>8, <2>10 DEF HInv
<1>19. CASE ~Unmapped(c, k + 1)
  <2>1. k + 1 < n
    BY <1>4, <1>6, <1>7, <1>19 DEF Unmapped
  <2>2. PICK f : f = <<o.object>> \o free[p]
    OBVIOUS
  <2>3. PoolOK(f, Given(objects, p) \ {o.object}, n) /\ Len(f) = k + 1
    BY <1>4, <1>5, <1>6, <2>2, PoolFree
  <2>4. /\ free' = [free EXCEPT ![p] = f] /\ class' = class
        /\ areas' = areas /\ nodes' = nodes /\ mappings' = mappings
    BY <1>2, <1>3, <1>6, <1>19, <2>2 DEF Free, Count, areaVars
  <2>5. free'[p] = f /\ \A q \in Pages : q # p => free'[q] = free[q]
    BY <1>1, <2>4 DEF HTyped
  <2>6. KInv'
    BY <1>1, <2>4 DEF KInv
  <2>7. HTyped'
    <3>1. f \in Seq(Objects)
      <4>1. f \in Seq(1 .. n) /\ \A i \in 1 .. Len(f) : f[i] \in Objects
        BY <1>4, <2>3, LenProperties DEF PoolOK
      <4> QED BY <4>1, SequenceOver
    <3> QED BY <1>1, <1>16, <2>4, <3>1 DEF HTyped
  <2>8. HeadsOK(heads', class', free')
    <3>1. PICK cl : cl = [class EXCEPT ![p] = 0]
      OBVIOUS
    <3>2. cl[p] = 0 /\ \A q \in Pages : q # p => cl[q] = class[q]
      BY <1>1, <3>1 DEF HTyped
    <3>3. HeadsOK(cut, cl, free)
      BY <1>14, <3>2
    <3>4. heads' = UpdateList(cut, c, k + 1, <<p>> \o cut[c][k + 1])
      <4>1. ListAfterFree(p) = k + 1
        BY <1>6 DEF ListAfterFree, Count
      <4>2. heads' = [[heads EXCEPT ![c][k] = CutPool(@, p)] EXCEPT ![c][k + 1] = <<p>> \o @]
        BY <1>2, <1>3, <1>6, <1>19, <4>1 DEF Free, Count
      <4>3. cut = [heads EXCEPT ![c][k] = CutPool(@, p)]
        BY <1>9, <1>11, <1>13 DEF UpdateList
      <4> QED BY <4>2, <4>3 DEF UpdateList
    <3>5. k + 1 \in 0 .. MaxCount[c] /\ class'[p] = c /\ Len(free'[p]) = k + 1
      BY <1>3, <1>4, <2>1, <2>3, <2>4, <2>5
    <3>6. \A q \in Pages : q # p => class'[q] = cl[q] /\ free'[q] = free[q]
      BY <2>4, <2>5, <3>2
    <3>7. HeadsOK(UpdateList(cut, c, k + 1, <<p>> \o cut[c][k + 1]), class', free')
      BY <1>4, <3>2, <3>3, <3>5, <3>6, PoolEnters
    <3> QED BY <3>4, <3>7
  <2>9. PoolsOK'
    <3> SUFFICES ASSUME NEW q \in Pages, class[q] # 0
                 PROVE  PoolOK(free'[q], Given(objects', q), MaxCount[class[q]])
      BY <2>4 DEF PoolsOK
    <3>1. CASE q = p
      BY <1>3, <1>4, <1>17, <2>3, <2>5, <3>1
    <3>2. CASE q # p
      BY <1>1, <1>17, <2>5, <3>2 DEF PoolsOK
    <3> QED BY <3>1, <3>2
  <2>10. \E y \in objects' : y.page = p
    <3>1. PICK x : x \in Given(objects', p)
      <4>1. Given(objects', p) # {}
        <5>1. PICK G : G = Given(objects', p)
          OBVIOUS
        <5>2. G = {} => Range(f) = 1 .. n
          BY <1>17, <2>3, <5>1 DEF PoolOK
        <5>3. G # {}
          <6> SUFFICES ASSUME Range(f) = 1 .. n PROVE FALSE
            BY <5>2
          <6>1. f \in Seq(1 .. n) /\ IsInjective(f)
            BY <2>3 DEF PoolOK
          <6>2. f \in [1 .. k + 1 -> 1 .. n]
            BY <2>3, <6>1, LenProperties
          <6>3. f \in Surjection(1 .. k + 1, 1 .. n)
            BY <6>2 DEF Surjection, Range
          <6>4. /\ IsFiniteSet(1 .. k + 1) /\ Cardinality(1 .. k + 1) = k + 1
                /\ Cardinality(1 .. n) = n
            BY FS_Interval
          <6>5. Cardinality(1 .. n) <= Cardinality(1 .. k + 1)
            BY <6>3, <6>4, FS_Surjection
          <6> QED BY <2>1, <6>4, <6>5
        <5> QED BY <5>1, <5>3
      <4> QED BY <4>1
    <3> QED BY <3>1 DEF Given
  <2>11. HeapHoldsItsPages'
    <3>1. ASSUME NEW q \in Pages, class'[q] # 0 PROVE \E y \in objects' : q = y.page
      <4>1. CASE q = p
        BY <2>10, <4>1
      <4>2. CASE q # p
        <5>1. PICK y \in objects : q = y.page
          BY <1>1, <2>4, <3>1 DEF HeapHoldsItsPages
        <5> QED BY <1>2, <1>15, <4>2, <5>1
      <4> QED BY <4>1, <4>2
    <3>2. ASSUME NEW y \in objects'
          PROVE  y.page \in Pages /\ class'[y.page] # 0 /\ Area(y.page, 1) \in mappings'
      BY <1>1, <1>15, <2>4 DEF HeapHoldsItsPages
    <3> QED BY <3>1, <3>2 DEF HeapHoldsItsPages
  <2> QED BY <2>6, <2>7, <2>8, <2>9, <2>11 DEF HInv
<1> QED BY <1>18, <1>19

-----------------------------------------------------------------------------
(* The invariant holds in every behaviour.                                 *)
THEOREM HInvHolds == Spec => []HInv
<1>1. HInv /\ [Next]_vars => HInv'
  <2> SUFFICES ASSUME HInv, [Next]_vars PROVE HInv'
    OBVIOUS
  <2>1. CASE UNCHANGED vars
    BY <2>1 DEF vars, areaVars, heapVars, HInv, KInv, HTyped, PoolsOK, HeapHoldsItsPages
  <2>2. CASE \E c \in Used : Alloc(c) \/ AllocFromNewPool(c) \/ AllocFails(c)
    BY <2>2, AllocKeepsInv, NewPoolKeepsInv, AllocFailsKeepsInv
  <2>3. CASE \E o \in objects : Free(o)
    BY <2>3, FreeKeepsInv
  <2>4. CASE \E n \in Sizes : Map(n)
    BY <2>4, MapKeepsInv
  <2>5. CASE \E m \in mappings : Unmap(m)
    BY <2>5, UnmapKeepsInv
  <2> QED BY <2>1, <2>2, <2>3, <2>4, <2>5 DEF Next
<1> QED BY HeapInit, <1>1, PTL DEF Spec

(* Every list, index and object is what it should be; above all, the index *)
(* at which the search for a pool starts is never zero.                    *)
THEOREM HeapTypeCorrect == Spec => []TypeOK
<1>1. HInv => TypeOK
  BY HInvImplies
<1> QED BY HInvHolds, <1>1, PTL

(* No page of the kernel is given out twice and none is lost.              *)
THEOREM MemoryAlwaysShared == Spec => []MemoryIsShared
<1>1. HInv => MemoryIsShared
  BY KInvImplies DEF HInv
<1> QED BY HInvHolds, <1>1, PTL

(* No two free areas touch, and the nodes of the pool add up.              *)
THEOREM AlwaysCoalesced == Spec => []Coalesced
<1>1. HInv => Coalesced
  BY KInvImplies DEF HInv
<1> QED BY HInvHolds, <1>1, PTL

(* A pool is in one list, the one for the number of its free objects.      *)
THEOREM ListsAlwaysCount == Spec => []ListsAreCounts
<1>1. HInv => ListsAreCounts
  BY HInvImplies
<1> QED BY HInvHolds, <1>1, PTL

(* An object is either free or given out, and once.                        *)
THEOREM ObjectsAlwaysDistinct == Spec => []ObjectsAreDistinct
<1>1. HInv => ObjectsAreDistinct
  BY HInvImplies
<1> QED BY HInvHolds, <1>1, PTL

(* The heap holds the pages of its objects and no others.                  *)
THEOREM HeapAlwaysHoldsItsPages == Spec => []HeapHoldsItsPages
<1>1. HInv => HeapHoldsItsPages
  BY HInvImplies
<1> QED BY HInvHolds, <1>1, PTL
=============================================================================
