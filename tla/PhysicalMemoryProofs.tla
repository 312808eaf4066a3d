------------------------ MODULE PhysicalMemoryProofs ------------------------
(***************************************************************************)
(* Theorems about PhysicalMemory for every memory map, ram disk, page and  *)
(* word size.                                                              *)
(***************************************************************************)
EXTENDS PhysicalMemory, CommonLemmas

-----------------------------------------------------------------------------
(* The memory map of a machine, and what its bounds are in pages.          *)
LEMMA MapFacts ==
  ASSUME map \in Maps
  PROVE  /\ Len(map) \in Nat /\ Len(map) >= 1 /\ DOMAIN map = 1 .. Len(map)
         /\ \A i \in 1 .. Len(map) : /\ map[i].base \in Nat /\ map[i].limit \in Nat
                                     /\ map[i].available \in BOOLEAN
                                     /\ Up(map[i].base) \in Nat
         /\ PagesCount \in Nat /\ Words \in Nat /\ PagesCount <= Words * Word
<1> DEFINE Entry == [base : Nat, limit : Nat, available : BOOLEAN]
<1>1. /\ map \in Seq(Entry) /\ map # <<>>
      /\ \E i \in DOMAIN map : map[i].limit > 0
  BY MemoryAssumption
<1>2. Len(map) \in Nat /\ Len(map) >= 1 /\ DOMAIN map = 1 .. Len(map)
      /\ \A i \in 1 .. Len(map) : map[i] \in Entry
  <2> HIDE DEF Entry
  <2> QED BY <1>1
<1>3. \A i \in 1 .. Len(map) : /\ map[i].base \in Nat /\ map[i].limit \in Nat
                               /\ map[i].available \in BOOLEAN
  BY <1>1, <1>2
<1>4. ASSUME NEW i \in 1 .. Len(map) PROVE Up(map[i].base) \in Nat
  <2>1. map[i].base + Parts - 1 \in Nat
    BY <1>3, MemoryAssumption
  <2> QED BY <2>1, DivFacts, MemoryAssumption DEF Up
<1>5. PagesCount \in Nat
  <2> DEFINE L == {map[i].limit : i \in DOMAIN map}
             f == [i \in DOMAIN map |-> map[i].limit]
  <2>1. f \in Surjection(DOMAIN map, L)
    BY DEF Surjection
  <2>2. IsFiniteSet(L)
    BY <1>2, <2>1, FS_Interval, FS_Surjection
  <2>3. L \subseteq Nat /\ L # {}
    BY <1>2, <1>3
  <2>5. PICK k \in DOMAIN map : map[k].limit > 0
    BY <1>1
  <2>6. map[k].limit \in L /\ map[k].limit \in Nat /\ map[k].limit >= 1
    BY <1>2, <1>3, <2>5
  <2>4. Max(L) \in Nat /\ Max(L) >= 1
    <3> HIDE DEF L
    <3>1. Max(L) \in Nat /\ \A x \in L : x <= Max(L)
      BY <2>2, <2>3, MaxIsGreatest
    <3> QED BY <2>6, <3>1
  <2>7. Max(L) - 1 \in Nat
    BY <2>4
  <2> QED BY <2>7, DivFacts, MemoryAssumption DEF PagesCount
<1>6. Words \in Nat /\ PagesCount <= Words * Word
  <2> DEFINE n == PagesCount + Word - 1
  <2>1. n \in Nat
    BY <1>5, MemoryAssumption
  <2>2. /\ n \div Word \in Nat /\ n < Word * (n \div Word) + Word
    <3> HIDE DEF n
    <3> QED BY <2>1, DivFacts, MemoryAssumption
  <2>3. Words = n \div Word
    BY DEF Words
  <2>4. Word * Words = Words * Word
    BY <2>2, <2>3, MemoryAssumption
  <2>5. n < Words * Word + Word /\ Words * Word \in Int
    BY <2>2, <2>3, <2>4, MemoryAssumption
  <2> QED BY <1>5, <2>2, <2>3, <2>5, MemoryAssumption
<1> QED BY <1>2, <1>3, <1>4, <1>5, <1>6

-----------------------------------------------------------------------------
(* The address after the entries up to j is a frame, not below the frame   *)
(* it started from and not below the base of entry j.                      *)
LEMMA AddressFacts ==
  ASSUME map \in Maps, NEW p \in Places, p.entry # 0, NEW j \in p.entry .. Len(map)
  PROVE  /\ AddressAt(p, j) \in Nat /\ AddressAt(p, j) >= p.frame
         /\ AddressAt(p, j) >= Up(map[j].base)
         /\ Up(map[j].base) <= p.frame /\ j = p.entry => AddressAt(p, j) = p.frame
<1> DEFINE F(i) == Up(map[i].base)
           B == {F(i) : i \in p.entry .. j}
           A == {p.frame} \cup B
           f == [i \in p.entry .. j |-> F(i)]
<1>1. p.entry \in 1 .. Len(map) /\ p.frame \in Nat /\ j \in 1 .. Len(map)
      /\ \A i \in p.entry .. j : i \in 1 .. Len(map)
  BY MapFacts DEF Places
<1>2. IsFiniteSet(B)
  <2>1. f \in Surjection(p.entry .. j, B)
    BY DEF Surjection
  <2>2. IsFiniteSet(p.entry .. j)
    <3>1. p.entry \in Int /\ j \in Int
      BY <1>1, MapFacts
    <3> QED BY <3>1, FS_Interval
  <2> HIDE DEF B, f
  <2> QED BY <2>1, <2>2, FS_Surjection
<1>3. B \subseteq Nat
  BY <1>1, MapFacts
<1>4. A \subseteq Nat /\ A # {} /\ IsFiniteSet(A)
  <2>1. IsFiniteSet(B \cup {p.frame})
    BY <1>2, FS_AddElement
  <2>2. A = B \cup {p.frame}
    OBVIOUS
  <2> QED BY <1>1, <1>3, <2>1, <2>2
<1>5. p.frame \in A /\ F(j) \in A
  BY <1>1
<1>6. Max(A) \in A /\ \A y \in A : y <= Max(A)
  <2> HIDE DEF A
  <2> QED BY <1>4, MaxIsGreatest
<1>7. AddressAt(p, j) = Max(A)
  BY DEF AddressAt
<1>8. ASSUME F(j) <= p.frame, j = p.entry PROVE Max(A) = p.frame
  <2>1. \A i \in p.entry .. j : i = j
    BY <1>1, <1>8
  <2>2. A \subseteq {p.frame, F(j)}
    BY <2>1
  <2>3. \A y \in A : y <= p.frame
    BY <1>1, <1>8, <2>2
  <2>4. Max(A) <= p.frame /\ p.frame <= Max(A) /\ Max(A) \in Nat
    BY <1>4, <1>5, <1>6, <2>3
  <2> QED BY <1>1, <2>4
<1> QED BY <1>4, <1>5, <1>6, <1>7, <1>8

(* AdjustMemoryArea never goes back, and has nothing to do a second time.  *)
LEMMA AdjustFacts ==
  ASSUME map \in Maps, NEW p \in Places
  PROVE  LET q == AdjustMemoryArea[p]
         IN  /\ q \in Places /\ q.frame >= p.frame
             /\ AdjustMemoryArea[q] = q
<1> DEFINE q == AdjustMemoryArea[p]
           None(r) == r.entry = 0 \/ Within(r) = {}
           To(r) == IF None(r) THEN [r EXCEPT !.entry = 0]
                    ELSE [entry |-> Min(Within(r)), frame |-> AddressAt(r, Min(Within(r)))]
<1>0. \A r \in Places : AdjustMemoryArea[r] = To(r)
  BY DEF AdjustMemoryArea
<1>1. p.entry \in 0 .. Len(map) /\ p.frame \in Nat /\ p = [entry |-> p.entry, frame |-> p.frame]
  BY DEF Places
<1>2. CASE None(p)
  <2>1. q = [entry |-> 0, frame |-> p.frame]
    BY <1>0, <1>1, <1>2
  <2>2. q \in Places
    BY <1>1, <2>1, MapFacts DEF Places
  <2>3. AdjustMemoryArea[q] = q
    <3> HIDE DEF q
    <3>1. q.entry = 0 /\ q.frame = p.frame /\ [q EXCEPT !.entry = 0] = q
      BY <2>1
    <3> QED BY <1>0, <2>2, <3>1
  <2> QED BY <1>1, <2>1, <2>2, <2>3
<1>3. CASE ~None(p)
  <2> DEFINE j == Min(Within(p))
  <2>1. p.entry \in 1 .. Len(map) /\ Within(p) \subseteq p.entry .. Len(map)
    BY <1>1, <1>3, MapFacts DEF Within
  <2>2. Within(p) \subseteq Nat
    BY <2>1
  <2>3. j \in Within(p)
    BY <1>3, <2>2, MinIsLeast
  <2>4. q = [entry |-> j, frame |-> AddressAt(p, j)]
    BY <1>0, <1>3
  <2> HIDE DEF j, q
  <2>5. /\ j \in p.entry .. Len(map) /\ map[j].available
        /\ Parts * AddressAt(p, j) <= map[j].limit + Parts
    BY <2>3 DEF Within
  <2>6. /\ AddressAt(p, j) \in Nat /\ AddressAt(p, j) >= p.frame
        /\ AddressAt(p, j) >= Up(map[j].base)
    BY <1>3, <2>1, <2>5, AddressFacts
  <2>7. q \in Places /\ q.entry = j /\ q.frame = AddressAt(p, j) /\ j \in 1 .. Len(map)
    BY <2>1, <2>4, <2>5, <2>6 DEF Places
  <2>8. AddressAt(q, j) = q.frame
    <3>1. q.entry # 0 /\ j \in q.entry .. Len(map) /\ Up(map[j].base) <= q.frame
      BY <2>5, <2>6, <2>7, MapFacts
    <3> QED BY <2>7, <3>1, AddressFacts
  <2>9. j \in Within(q) /\ Within(q) \subseteq j .. Len(map)
    BY <2>1, <2>5, <2>7, <2>8 DEF Within
  <2>10. Min(Within(q)) = j
    <3>1. Within(q) \subseteq Nat /\ Within(q) # {}
      BY <2>7, <2>9
    <3>2. Min(Within(q)) \in Within(q) /\ Min(Within(q)) <= j
      BY <2>9, <3>1, MinIsLeast
    <3> QED BY <2>7, <2>9, <3>2
  <2>11. AdjustMemoryArea[q] = [entry |-> j, frame |-> q.frame]
    <3>1. ~None(q)
      BY <2>7, <2>9
    <3>2. AdjustMemoryArea[q] = To(q)
      BY <1>0, <2>7
    <3> QED BY <2>8, <2>10, <3>1, <3>2
  <2> QED BY <2>4, <2>6, <2>7, <2>11 DEF q
<1> QED BY <1>2, <1>3

-----------------------------------------------------------------------------
(* Frame n is one of area a.                                               *)
In(n, a) == a.base <= n /\ n < a.limit

(* CheckMultibootOverlap and CheckInitrdOverlap step out of their area.    *)
LEMMA BehindFacts ==
  ASSUME NEW n \in Nat, NEW a \in [base : Nat, limit : Nat]
  PROVE  /\ Behind(n, a) \in Nat /\ Behind(n, a) >= n /\ ~In(Behind(n, a), a)
         /\ In(n, a) => Behind(n, a) = a.limit
         /\ ~In(n, a) => Behind(n, a) = n
BY DEF Behind, In

(* Together they step out of the boot data first, then out of the ram disk,*)
(* and change nothing else of the place.                                   *)
LEMMA OverlapFacts ==
  ASSUME initrd \in Initrds, NEW p \in Places
  PROVE  LET q == CheckOverlaps[p]
         IN  /\ q \in Places /\ q.frame >= p.frame
             /\ q.frame = Behind(Behind(p.frame, Multiboot), initrd)
             /\ q.frame = p.frame => q = p
<1>1. p.entry \in 0 .. Len(map) /\ p.frame \in Nat /\ p = [entry |-> p.entry, frame |-> p.frame]
  BY DEF Places
<1>2. CheckOverlaps[p] =
        [entry |-> p.entry, frame |-> Behind(Behind(p.frame, Multiboot), initrd)]
  BY <1>1 DEF CheckOverlaps
<1>3. /\ Behind(Behind(p.frame, Multiboot), initrd) \in Nat
      /\ Behind(Behind(p.frame, Multiboot), initrd) >= p.frame
  <2>1. Multiboot \in [base : Nat, limit : Nat] /\ initrd \in [base : Nat, limit : Nat]
    BY MemoryAssumption
  <2>2. /\ Behind(p.frame, Multiboot) \in Nat /\ Behind(p.frame, Multiboot) >= p.frame
    BY <1>1, <2>1, BehindFacts
  <2>3. /\ Behind(Behind(p.frame, Multiboot), initrd) \in Nat
        /\ Behind(Behind(p.frame, Multiboot), initrd) >= Behind(p.frame, Multiboot)
    BY <2>1, <2>2, BehindFacts
  <2> QED BY <1>1, <2>2, <2>3
<1> QED BY <1>1, <1>2, <1>3 DEF Places

(* newFrame's three rounds end outside the boot data and the ram disk.     *)
(* They come to rest: to end inside the boot data the last round must have *)
(* stepped out of the ram disk into it, so the round before has stepped    *)
(* out of neither, and then the last one has found nothing to do.          *)
LEMMA SettledFacts ==
  ASSUME map \in Maps, initrd \in Initrds, NEW p \in Places
  PROVE  LET q == Settled(p)
         IN  /\ q \in Places /\ q.frame >= p.frame
             /\ ~In(q.frame, Multiboot) /\ ~In(q.frame, initrd)
<1> DEFINE p1 == AdjustMemoryArea[p]
           p2 == CheckOverlaps[p1]
           p3 == AdjustMemoryArea[p2]
           p4 == CheckOverlaps[p3]
           p5 == AdjustMemoryArea[p4]
           p6 == CheckOverlaps[p5]
<1>m. /\ Multiboot \in [base : Nat, limit : Nat] /\ initrd \in [base : Nat, limit : Nat]
      /\ \A r \in Places : r.frame \in Nat
  BY MemoryAssumption DEF Places
<1>1. p1 \in Places /\ p1.frame >= p.frame
  BY AdjustFacts
<1>2. p2 \in Places /\ p2.frame >= p1.frame
  <2> HIDE DEF p1
  <2> QED BY <1>1, OverlapFacts
<1>3. p3 \in Places /\ p3.frame >= p2.frame /\ AdjustMemoryArea[p3] = p3
  <2> HIDE DEF p2
  <2> QED BY <1>2, AdjustFacts
<1>4. /\ p4 \in Places /\ p4.frame >= p3.frame
      /\ p4.frame = p3.frame => p4 = p3
      /\ p4.frame = Behind(Behind(p3.frame, Multiboot), initrd)
  <2> HIDE DEF p3
  <2> QED BY <1>3, OverlapFacts
<1>5. p5 \in Places /\ p5.frame >= p4.frame
  <2> HIDE DEF p4
  <2> QED BY <1>4, AdjustFacts
<1>6. /\ p6 \in Places /\ p6.frame >= p5.frame
      /\ p6.frame = Behind(Behind(p5.frame, Multiboot), initrd)
  <2> HIDE DEF p5
  <2> QED BY <1>5, OverlapFacts
<1>7. Settled(p) = p6
  BY DEF Settled
<1>8. p4 = p3 => p5 = p3
  BY <1>3
<1> HIDE DEF p1, p2, p3, p4, p5, p6
<1>n. p1.frame \in Nat /\ p2.frame \in Nat /\ p3.frame \in Nat /\ p4.frame \in Nat
      /\ p5.frame \in Nat /\ p6.frame \in Nat /\ p.frame \in Nat
      /\ Multiboot.limit \in Nat /\ initrd.limit \in Nat
  BY <1>m, <1>1, <1>2, <1>3, <1>4, <1>5, <1>6
<1> DEFINE x == Behind(p5.frame, Multiboot)
           y == Behind(p3.frame, Multiboot)
<1>9. /\ x \in Nat /\ x >= p5.frame /\ ~In(x, Multiboot)
      /\ In(p5.frame, Multiboot) => x = Multiboot.limit
      /\ ~In(p5.frame, Multiboot) => x = p5.frame
      /\ y \in Nat /\ y >= p3.frame
      /\ In(p3.frame, Multiboot) => y = Multiboot.limit
      /\ ~In(p3.frame, Multiboot) => y = p3.frame
  BY <1>m, <1>n, BehindFacts
<1> HIDE DEF x, y
<1>10. /\ p6.frame = Behind(x, initrd) /\ p4.frame = Behind(y, initrd)
       /\ ~In(p6.frame, initrd) /\ p6.frame >= x /\ p4.frame >= y
       /\ In(x, initrd) => p6.frame = initrd.limit
       /\ ~In(x, initrd) => p6.frame = x
       /\ In(y, initrd) => p4.frame = initrd.limit
       /\ ~In(y, initrd) => p4.frame = y
  BY <1>m, <1>4, <1>6, <1>9, BehindFacts DEF x, y
<1>11. ASSUME In(p6.frame, Multiboot) PROVE FALSE
  <2>1. In(x, initrd) /\ p6.frame < Multiboot.limit
    BY <1>9, <1>10, <1>11 DEF In
  <2>2. ~In(p5.frame, Multiboot) /\ x = p5.frame
    BY <1>n, <1>9, <1>10, <2>1
  <2>3. ~In(p3.frame, Multiboot) /\ y = p3.frame
    BY <1>n, <1>5, <1>6, <1>9, <1>10, <2>1
  <2>4. ~In(y, initrd)
    <3> SUFFICES ASSUME In(y, initrd) PROVE FALSE
      OBVIOUS
    <3>1. p4.frame = initrd.limit /\ x < initrd.limit
      BY <1>10, <2>1 DEF In
    <3> QED BY <1>n, <1>5, <2>2, <3>1
  <2>5. p4 = p3
    BY <1>4, <1>10, <2>3, <2>4
  <2>6. p5 = p3
    BY <1>8, <2>5
  <2> QED BY <2>1, <2>2, <2>3, <2>4, <2>6
<1>12. p6.frame >= p.frame
  BY <1>n, <1>1, <1>2, <1>3, <1>4, <1>5, <1>6
<1> QED BY <1>6, <1>7, <1>10, <1>11, <1>12

-----------------------------------------------------------------------------
(* What PhysAllocator must never give out, as far as the bitmap reaches:   *)
(* the frames of areas that are not available, and those below the first   *)
(* one TempPhysAllocator has left.                                         *)
ReservedFrames == UNION {Reserved(map[i]) : i \in {j \in DOMAIN map : ~map[j].available}}

(* All that is kept out of the bitmap's free frames.                       *)
Kept == ReservedFrames \cup Frames(0, place.frame)

(* TempPhysAllocator gives frames from the end of the kernel upwards, none *)
(* of the boot data or the ram disk, and leaves the place behind them.     *)
EarlyKeepsClear ==
  /\ place.frame >= KernelLimit
  /\ \A n \in early : /\ KernelLimit <= n /\ n < place.frame
                      /\ ~In(n, Multiboot) /\ ~In(n, initrd)

(* What must be kept has its bit set by InitBitmap and is not among the    *)
(* pages that may be freed, so no free ever clears the bit.                *)
KeptIsSet == running => Kept \subseteq bitmap \ pages

(* The inductive invariant.                                                *)
PInv ==
  /\ TypeOK /\ place \in Places
  /\ EarlyKeepsClear /\ KeptIsSet /\ ScanMissesNothing
  /\ ~running => pages = {}

(* The frames of the bitmap.                                               *)
LEMMA FramesFacts ==
  ASSUME map \in Maps
  PROVE  \A b, l : Frames(b, l) \subseteq 0 .. Words * Word - 1
<1>1. PagesCount \in Nat /\ Words \in Nat /\ PagesCount <= Words * Word
  BY MapFacts
<1>2. Words * Word \in Int
  BY <1>1, MemoryAssumption
<1> QED BY <1>1, <1>2 DEF Frames

(* The boot loader's map and the first place.                              *)
LEMMA PhysInit == Init => PInv
<1> SUFFICES ASSUME Init PROVE PInv
  OBVIOUS
<1> DEFINE p == [entry |-> 1, frame |-> KernelLimit]
<1>1. map \in Maps /\ initrd \in Initrds
  BY DEF Init
<1>2. p \in Places /\ p.frame = KernelLimit
  BY <1>1, MapFacts, MemoryAssumption DEF Places
<1>3. place \in Places /\ place.frame >= KernelLimit
  <2> HIDE DEF p
  <2>1. place = Settled(p)
    BY DEF Init, p
  <2> QED BY <1>1, <1>2, <2>1, SettledFacts
<1>4. TypeOK
  <2>1. 0 \in 0 .. Words
    BY <1>1, MapFacts
  <2> QED BY <1>1, <1>3, <2>1 DEF Init, TypeOK, Places
<1> QED BY <1>3, <1>4 DEF Init, PInv, EarlyKeepsClear, KeptIsSet, ScanMissesNothing

(* A frame from TempPhysAllocator.                                         *)
LEMMA PhysNewFrame == PInv /\ NewFrame => PInv'
<1> SUFFICES ASSUME PInv, NewFrame PROVE PInv'
  OBVIOUS
<1> DEFINE p == Settled(place)
<1>1. map \in Maps /\ initrd \in Initrds /\ place \in Places /\ place.frame \in Nat
  BY DEF PInv, TypeOK
<1>2. /\ p \in Places /\ p.frame >= place.frame
      /\ ~In(p.frame, Multiboot) /\ ~In(p.frame, initrd)
  BY <1>1, SettledFacts
<1>3. /\ ~running /\ UNCHANGED <<map, initrd, running, bitmap, unchecked, pages>>
      /\ IF p.entry = 0 THEN place' = p /\ early' = early
         ELSE place' = [p EXCEPT !.frame = @ + 1] /\ early' = early \cup {p.frame}
  BY DEF NewFrame, bootVars
<1> HIDE DEF p
<1>4. p.entry \in 0 .. Len(map) /\ p.frame \in Nat /\ KernelLimit \in Nat
      /\ p = [entry |-> p.entry, frame |-> p.frame] /\ early \subseteq Nat
  BY <1>2, MemoryAssumption DEF Places, PInv, TypeOK
<1>5. /\ place' \in Places' /\ place'.frame \in Nat /\ place'.entry \in 0 .. Len(map')
      /\ place'.frame >= place.frame /\ early' \subseteq Nat
      /\ early' \subseteq early \cup {p.frame}
      /\ early' # early => p.frame < place'.frame
  <2>1. CASE p.entry = 0
    BY <1>1, <1>2, <1>3, <1>4, <2>1 DEF Places
  <2>2. CASE p.entry # 0
    <3>1. place' = [entry |-> p.entry, frame |-> p.frame + 1]
      BY <1>3, <1>4, <2>2
    <3> QED BY <1>1, <1>2, <1>3, <1>4, <2>2, <3>1 DEF Places
  <2> QED BY <2>1, <2>2
<1>6. EarlyKeepsClear'
  <2>1. place'.frame >= KernelLimit /\ p.frame >= KernelLimit
    BY <1>1, <1>2, <1>4, <1>5 DEF PInv, EarlyKeepsClear
  <2>2. ASSUME NEW n \in early' PROVE /\ KernelLimit <= n /\ n < place'.frame
                                      /\ ~In(n, Multiboot) /\ ~In(n, initrd')
    <3>1. CASE n \in early
      BY <1>1, <1>3, <1>4, <1>5, <3>1 DEF PInv, EarlyKeepsClear
    <3>2. CASE n \notin early
      <4>1. n = p.frame /\ n < place'.frame
        BY <1>5, <2>2, <3>2
      <4> QED BY <1>2, <1>3, <2>1, <4>1
    <3> QED BY <3>1, <3>2
  <2> QED BY <2>1, <2>2 DEF EarlyKeepsClear
<1>7. TypeOK'
  <2>1. Words' = Words
    BY <1>3 DEF Words, PagesCount
  <2> QED BY <1>3, <1>5, <2>1 DEF PInv, TypeOK
<1> QED BY <1>3, <1>5, <1>6, <1>7 DEF PInv, KeptIsSet, ScanMissesNothing

(* What PhysAllocator::init sets.                                          *)
LEMMA PhysInitBitmap == PInv /\ InitBitmap => PInv'
<1> SUFFICES ASSUME PInv, InitBitmap PROVE PInv'
  OBVIOUS
<1> DEFINE set == Frames(0, FirstUnused) \cup Frames(Multiboot.base, Multiboot.limit)
                    \cup Frames(initrd.base, initrd.limit)
<1>1. map \in Maps /\ place.frame \in Nat /\ pages = {}
  BY DEF PInv, TypeOK, InitBitmap
<1>2. PICK tail \in SUBSET (PagesCount .. Words * Word - 1) :
        bitmap' = tail \cup (set \ Frames(FirstUnused, PagesCount)) \cup ReservedFrames
  BY DEF InitBitmap, ReservedFrames
<1>3. UNCHANGED <<map, initrd, place, early, pages>> /\ running' = TRUE /\ unchecked' = 0
  BY DEF InitBitmap, bootVars
<1>4. PagesCount \in Nat /\ Words \in Nat /\ Words * Word \in Int
  BY <1>1, MapFacts, MemoryAssumption
<1>5. set \subseteq 0 .. Words * Word - 1 /\ ReservedFrames \subseteq 0 .. Words * Word - 1
  BY <1>1, FramesFacts DEF ReservedFrames, Reserved
<1>6. bitmap' \subseteq 0 .. Words * Word - 1
  <2> HIDE DEF set
  <2>1. tail \subseteq 0 .. Words * Word - 1
    BY <1>4
  <2> QED BY <1>2, <1>5, <2>1
<1>7. Frames(0, place.frame) \cap Frames(FirstUnused, PagesCount) = {}
  BY <1>1, <1>4 DEF Frames, FirstUnused
<1>8. Kept \subseteq bitmap'
  BY <1>2, <1>7 DEF Kept, FirstUnused
<1>9. Kept' = Kept /\ Words' = Words /\ Places' = Places
  BY <1>3 DEF Kept, ReservedFrames, Reserved, Frames, PagesCount, Words, Places
<1>10. TypeOK'
  <2>1. 0 \in 0 .. Words
    BY <1>4
  <2> QED BY <1>1, <1>3, <1>6, <1>9, <2>1 DEF PInv, TypeOK
<1>11. KeptIsSet'
  BY <1>1, <1>3, <1>8, <1>9 DEF KeptIsSet
<1>12. ScanMissesNothing'
  <2>1. unchecked' * Word - 1 = -1
    BY <1>3, MemoryAssumption
  <2> QED BY <2>1 DEF ScanMissesNothing
<1>13. EarlyKeepsClear'
  BY <1>3 DEF PInv, EarlyKeepsClear
<1> QED BY <1>3, <1>9, <1>10, <1>11, <1>12, <1>13 DEF PInv

(* newPage takes the lowest clear bit; the scan may go on from its word.   *)
LEMMA PhysNewPage == PInv /\ NewPage => PInv'
<1> SUFFICES ASSUME PInv, NewPage PROVE PInv'
  OBVIOUS
<1> DEFINE m == Min(ClearBits)
<1>1. /\ map \in Maps /\ running /\ unchecked \in Nat /\ unchecked \in 0 .. Words
      /\ bitmap \subseteq 0 .. Words * Word - 1 /\ pages \subseteq bitmap
  <2>1. Words \in Nat
    BY MapFacts DEF PInv, TypeOK
  <2> QED BY <2>1 DEF PInv, TypeOK, NewPage
<1>2. Words \in Nat /\ Word \in Nat /\ Word > 0 /\ Words * Word \in Nat
      /\ unchecked * Word \in Nat
  BY <1>1, MapFacts, MemoryAssumption
<1>3. /\ m \in ClearBits /\ \A y \in ClearBits : m <= y
  <2>1. ClearBits \subseteq Nat /\ ClearBits # {}
    BY <1>2 DEF ClearBits, NewPage
  <2> QED BY <2>1, MinIsLeast
<1>4. /\ bitmap' = bitmap \cup {m} /\ pages' = pages \cup {m} /\ unchecked' = m \div Word
      /\ UNCHANGED <<map, initrd, place, early, running>>
  BY DEF NewPage, bootVars
<1> HIDE DEF m
<1>5. /\ m \in Nat /\ m < Words * Word /\ m \notin bitmap /\ unchecked * Word <= m
      /\ \A y \in unchecked * Word .. m - 1 : y \in bitmap
  <2>1. m \in unchecked * Word .. Words * Word - 1 /\ m \notin bitmap
    BY <1>3 DEF ClearBits
  <2>2. ASSUME NEW y \in unchecked * Word .. m - 1, y \notin bitmap PROVE FALSE
    <3>1. y \in ClearBits /\ y < m
      BY <1>2, <2>1, <2>2 DEF ClearBits
    <3> QED BY <1>2, <1>3, <2>1, <3>1
  <2> QED BY <1>2, <2>1, <2>2
<1> DEFINE d == m \div Word
<1>6. d \in Nat /\ Word * d <= m
  BY <1>2, <1>5, DivFacts
<1> HIDE DEF d
<1>7. d <= Words /\ d * Word <= m /\ d * Word \in Nat
  <2>1. d * Word = Word * d /\ d * Word \in Nat
    BY <1>2, <1>6
  <2>2. SUFFICES ASSUME d > Words PROVE FALSE
    BY <1>2, <1>5, <1>6, <2>1
  <2>3. d - Words >= 1 /\ (d - Words) * Word >= 0 /\ d * Word = Words * Word + (d - Words) * Word
    BY <1>2, <1>6, <2>2
  <2> QED BY <1>2, <1>5, <1>6, <2>1, <2>3
<1>8. Kept' = Kept /\ Words' = Words /\ Places' = Places
  BY <1>4 DEF Kept, ReservedFrames, Reserved, Frames, PagesCount, Words, Places
<1>9. TypeOK'
  <2>1. unchecked' \in 0 .. Words
    BY <1>2, <1>4, <1>6, <1>7 DEF d
  <2>2. bitmap' \subseteq 0 .. Words * Word - 1 /\ pages' \subseteq bitmap'
    BY <1>1, <1>2, <1>4, <1>5
  <2> QED BY <1>4, <1>8, <2>1, <2>2 DEF PInv, TypeOK
<1>10. KeptIsSet'
  BY <1>1, <1>4, <1>5, <1>8 DEF PInv, KeptIsSet
<1>11. ScanMissesNothing'
  <2>1. ASSUME NEW y \in 0 .. d * Word - 1 PROVE y \in bitmap
    <3>1. y \in 0 .. unchecked * Word - 1 \/ y \in unchecked * Word .. m - 1
      BY <1>2, <1>5, <1>7
    <3> QED BY <1>1, <1>5, <3>1 DEF PInv, ScanMissesNothing
  <2> QED BY <1>4, <2>1 DEF ScanMissesNothing, d
<1>12. EarlyKeepsClear'
  BY <1>4 DEF PInv, EarlyKeepsClear
<1> QED BY <1>1, <1>4, <1>8, <1>9, <1>10, <1>11, <1>12 DEF PInv

(* freePage clears the bit of a page that was given out, and starts the    *)
(* scan again.                                                             *)
LEMMA PhysFreePage ==
  ASSUME PInv, NEW p \in pages, FreePage(p)
  PROVE  PInv'
<1>1. /\ bitmap' = bitmap \ {p} /\ pages' = pages \ {p} /\ unchecked' = 0
      /\ UNCHANGED <<map, initrd, place, early, running>>
  BY DEF FreePage, bootVars
<1>2. Kept' = Kept /\ Words' = Words /\ Places' = Places /\ Words \in Nat
  BY <1>1, MapFacts DEF Kept, ReservedFrames, Reserved, Frames, PagesCount, Words, Places,
                        PInv, TypeOK
<1>3. TypeOK'
  <2>1. 0 \in 0 .. Words
    BY <1>2
  <2> QED BY <1>1, <1>2, <2>1 DEF PInv, TypeOK
<1>4. KeptIsSet'
  BY <1>1, <1>2 DEF PInv, KeptIsSet
<1>5. ScanMissesNothing'
  <2>1. unchecked' * Word - 1 = -1
    BY <1>1, MemoryAssumption
  <2> QED BY <2>1 DEF ScanMissesNothing
<1>6. EarlyKeepsClear'
  BY <1>1 DEF PInv, EarlyKeepsClear
<1> QED BY <1>1, <1>2, <1>3, <1>4, <1>5, <1>6 DEF PInv

(* PInv is inductive.                                                      *)
LEMMA PhysStep == PInv /\ [Next]_vars => PInv'
<1> SUFFICES ASSUME PInv, [Next]_vars PROVE PInv'
  OBVIOUS
<1>1. CASE UNCHANGED vars
  <2>1. UNCHANGED <<map, initrd, place, early, running, bitmap, unchecked, pages>>
    BY <1>1 DEF vars, bootVars
  <2>2. Kept' = Kept /\ Words' = Words /\ Places' = Places
    BY <2>1 DEF Kept, ReservedFrames, Reserved, Frames, PagesCount, Words, Places
  <2>3. TypeOK' /\ EarlyKeepsClear' /\ KeptIsSet' /\ ScanMissesNothing'
    BY <2>1, <2>2 DEF PInv, TypeOK, EarlyKeepsClear, KeptIsSet, ScanMissesNothing
  <2> QED BY <2>1, <2>2, <2>3 DEF PInv
<1> QED BY <1>1, PhysNewFrame, PhysInitBitmap, PhysNewPage, PhysFreePage DEF Next

(* Together they hold of every machine.                                    *)
THEOREM PInvHolds == Spec => []PInv
BY PhysInit, PhysStep, PTL DEF Spec

-----------------------------------------------------------------------------
(* Type correctness: no bit outside the bitmap is touched, and no scan     *)
(* starts behind its last word.                                            *)
THEOREM PhysicalTypeCorrect == Spec => []TypeOK
BY PInvHolds, PTL DEF PInv

(* newPage says that there is no memory only when there is none.           *)
THEOREM ScanAlwaysMissesNothing == Spec => []ScanMissesNothing
BY PInvHolds, PTL DEF PInv

(* No page PhysAllocator gives out lies in an area that is not available,  *)
(* on every memory map.                                                    *)
LEMMA ReservedFromPInv == PInv => ReservedKept
<1> SUFFICES ASSUME PInv, NEW p \in pages \cap (0 .. PagesCount - 1), NEW i \in DOMAIN map,
                    ~map[i].available, map[i].base <= Parts * p,
                    Parts * (p + 1) <= map[i].limit
             PROVE  FALSE
  BY DEF ReservedKept
<1>1. /\ map \in Maps /\ running /\ Kept \cap pages = {}
      /\ map[i].base \in Nat /\ map[i].limit \in Nat
      /\ PagesCount \in Nat /\ Parts \in Nat \ {0} /\ p \in Nat
  <2>1. map \in Maps
    BY DEF PInv, TypeOK
  <2>2. running /\ Kept \cap pages = {}
    BY DEF PInv, KeptIsSet
  <2>3. i \in 1 .. Len(map) /\ PagesCount \in Nat
    BY <2>1, MapFacts
  <2>4. map[i].base \in Nat /\ map[i].limit \in Nat
    BY <2>1, <2>3, MapFacts
  <2> QED BY <2>1, <2>2, <2>3, <2>4, MemoryAssumption
<1> DEFINE b == map[i].base \div Parts
           l == map[i].limit \div Parts
<1>2. /\ b \in Nat /\ Parts * b <= map[i].base
      /\ l \in Nat /\ map[i].limit < Parts * l + Parts
  BY <1>1, DivFacts
<1> HIDE DEF b, l
<1>3. b <= p
  <2> SUFFICES ASSUME b >= p + 1 PROVE FALSE
    BY <1>1, <1>2
  <2>1. Parts * b = Parts * (p + 1) + Parts * (b - (p + 1)) /\ Parts * (b - (p + 1)) >= 0
    BY <1>1, <1>2
  <2>2. Parts * (p + 1) = Parts * p + Parts /\ Parts * p \in Nat
    BY <1>1
  <2> QED BY <1>1, <1>2, <2>1, <2>2
<1>4. p < l
  <2> SUFFICES ASSUME l <= p PROVE FALSE
    BY <1>1, <1>2
  <2>1. Parts * p = Parts * l + Parts * (p - l) /\ Parts * (p - l) >= 0 /\ Parts * l \in Nat
    BY <1>1, <1>2
  <2>2. Parts * (p + 1) = Parts * p + Parts /\ Parts * p \in Nat
    BY <1>1
  <2> QED BY <1>1, <1>2, <2>1, <2>2
<1>5. p \in Reserved(map[i])
  BY <1>1, <1>2, <1>3, <1>4 DEF Reserved, Frames, b, l
<1>6. p \in Kept
  BY <1>5 DEF Kept, ReservedFrames
<1> QED BY <1>1, <1>6

(* PhysAllocator never gives out a frame of an area that the memory map    *)
(* does not call available.                                                *)
THEOREM ReservedAlwaysKept == Spec => []ReservedKept
BY ReservedFromPInv, PInvHolds, PTL

(* Frames in use before PhysAllocator started stay in use, as long as the  *)
(* bitmap reaches as far as TempPhysAllocator has come.  The condition is  *)
(* needed: newFrame may give the frame behind the last one of memory (it   *)
(* compares with a page beyond the limit of the area), and the bit of that *)
(* frame, where the bitmap has one at all, is whatever the memory held.    *)
LEMMA UsedFromPInv == PInv => (place.frame <= PagesCount => UsedFramesKept)
<1> SUFFICES ASSUME PInv, place.frame <= PagesCount PROVE UsedFramesKept
  OBVIOUS
<1>1. /\ map \in Maps /\ initrd \in Initrds /\ place.frame \in Nat /\ PagesCount \in Nat
      /\ KernelLimit \in Nat
      /\ Multiboot \in [base : Nat, limit : Nat] /\ initrd \in [base : Nat, limit : Nat]
      /\ early \subseteq Nat /\ EarlyKeepsClear
  <2>1. map \in Maps
    BY DEF PInv, TypeOK
  <2> QED BY <2>1, MapFacts, MemoryAssumption DEF PInv, TypeOK
<1>2. pages \cap (0 .. place.frame - 1) = {}
  <2>1. CASE running
    <3>1. 0 .. place.frame - 1 \subseteq Kept
      BY <1>1 DEF Kept, Frames
    <3> QED BY <2>1, <3>1 DEF PInv, KeptIsSet
  <2>2. CASE ~running
    BY <2>2 DEF PInv
  <2> QED BY <2>1, <2>2
<1>3. 0 .. KernelLimit - 1 \cup early \subseteq 0 .. place.frame - 1
  BY <1>1 DEF EarlyKeepsClear
<1>4. \A n \in early : /\ n \notin 0 .. KernelLimit - 1
                       /\ n \notin Multiboot.base .. Multiboot.limit - 1
                       /\ n \notin initrd.base .. initrd.limit - 1
  BY <1>1 DEF EarlyKeepsClear, In
<1> QED BY <1>2, <1>3, <1>4 DEF UsedFramesKept

(* As long as the bitmap reaches as far as TempPhysAllocator has come,     *)
(* nothing that the kernel, the boot loader or TempPhysAllocator has put   *)
(* into memory is given out again.                                         *)
THEOREM UsedFramesAlwaysKept == Spec => [](place.frame <= PagesCount => UsedFramesKept)
BY UsedFromPInv, PInvHolds, PTL

(* On every machine TempPhysAllocator keeps clear of the kernel, the boot  *)
(* data and the ram disk, and never gives a frame at or above the place it *)
(* goes on from.                                                           *)
THEOREM EarlyAlwaysKeepsClear == Spec => []EarlyKeepsClear
BY PInvHolds, PTL DEF PInv
=============================================================================
