------------------------- MODULE ExecuteBinaryProofs -------------------------
(***************************************************************************)
(* The memory of a process, from program to program, for every size of     *)
(* memory, every set of files, every range freed and every number and      *)
(* length of arguments: as long as no end of a range wraps around, the     *)
(* list of free areas stays in order, without memory in use while whole    *)
(* blocks are freed, and the segments of a program lie in pages of their   *)
(* own; and the arguments fit in any case.                                 *)
(***************************************************************************)
EXTENDS ExecuteBinary, CommonLemmas

-----------------------------------------------------------------------------
(* The quotient of a number and the rest, the number itself when it is     *)
(* smaller than what it is divided by.                                     *)
LEMMA IntDivFacts ==
  ASSUME NEW n \in Int, NEW d \in Nat \ {0}
  PROVE  /\ n \div d \in Int /\ (n >= 0 => n \div d \in Nat)
         /\ d * (n \div d) <= n /\ n < d * (n \div d) + d
OBVIOUS

LEMMA RestOfSmall ==
  ASSUME NEW n \in Nat, NEW d \in Nat \ {0}, n < d
  PROVE  n % d = n
<1>1. PICK q \in Int : q = n \div d /\ d * q <= n /\ n < d * q + d
  BY IntDivFacts
<1>2. q = 0
  <2>1. CASE q > 0
    <3>1. PICK k \in Nat : q = k + 1
      <4>1. q - 1 \in Nat /\ q = q - 1 + 1
        BY <2>1
      <4> QED BY <4>1
    <3>2. d * q = d * k + d /\ d * k \in Nat
      BY <3>1
    <3> QED BY <1>1, <3>2
  <2>2. CASE q < 0
    <3>1. PICK k \in Nat : q = -1 - k
      <4>1. -1 - q \in Nat /\ q = -1 - (-1 - q)
        BY <2>2
      <4> QED BY <4>1
    <3>2. d * q = -d - d * k /\ d * k \in Nat
      BY <3>1
    <3> QED BY <1>1, <3>2
  <2> QED BY <1>1, <2>1, <2>2
<1>3. n = d * (n \div d) + (n % d)
  OBVIOUS
<1>4. n % d \in Int /\ d * 0 = 0
  OBVIOUS
<1> QED BY <1>1, <1>2, <1>3, <1>4

(* A number is less than a multiple when its quotient is less.             *)
LEMMA BelowMultiple ==
  ASSUME NEW p \in Nat \ {0}, NEW i \in Int, NEW x \in Int
  PROVE  x < p * i <=> x \div p < i
<1>1. PICK q \in Int : q = x \div p /\ p * q <= x /\ x < p * q + p
  BY IntDivFacts
<1>2. CASE q < i
  <2>1. PICK d \in Nat : i = q + 1 + d
    <3>1. i - q - 1 \in Nat /\ i = q + 1 + (i - q - 1)
      BY <1>2
    <3> QED BY <3>1
  <2>2. p * i = p * q + p + p * d /\ p * d \in Nat /\ p * q \in Int
    BY <2>1
  <2>3. PICK u \in Nat, v \in Int : u = p * d /\ v = p * q
    BY <2>2
  <2> QED BY <1>1, <1>2, <2>2, <2>3
<1>3. CASE i <= q
  <2>1. PICK d \in Nat : q = i + d
    <3>1. q - i \in Nat /\ q = i + (q - i)
      BY <1>3
    <3> QED BY <3>1
  <2>2. p * q = p * i + p * d /\ p * d \in Nat /\ p * i \in Int
    BY <2>1
  <2>3. PICK u \in Nat, v \in Int : u = p * d /\ v = p * i
    BY <2>2
  <2> QED BY <1>1, <1>3, <2>2, <2>3
<1> QED BY <1>1, <1>2, <1>3

(* Sums and differences of addresses where nothing wraps around.           *)
LEMMA PlusFacts ==
  ASSUME NEW a \in Nat, NEW b \in Nat, a + b < Space
  PROVE  Plus(a, b) = a + b
<1>1. PICK c \in Nat, s \in Nat \ {0} : c = a + b /\ s = Space /\ c < s
  BY AllocatorAssumption
<1>2. c % s = c
  BY <1>1, RestOfSmall
<1> QED BY <1>1, <1>2 DEF Plus

LEMMA MinusFacts ==
  ASSUME NEW a \in Nat, NEW b \in Nat, b <= a, a < Space
  PROVE  Minus(a, b) = a - b
<1>1. PICK c \in Nat, s \in Nat \ {0} : c = a - b /\ s = Space /\ c < s
  BY AllocatorAssumption
<1>2. c % s = c
  BY <1>1, RestOfSmall
<1> QED BY <1>1, <1>2 DEF Minus

LEMMA StopFacts ==
  ASSUME NEW a, a.start \in Nat, a.size \in Nat, End(a) < Space
  PROVE  Stop(a) = End(a)
BY PlusFacts DEF Stop, End

-----------------------------------------------------------------------------
(* The page of an address of memory.                                       *)
LEMMA PageFacts ==
  ASSUME NEW a \in Nat, a < Top
  PROVE  PageOf(a) = a \div PageBytes
<1>1. PICK t \in Nat \ {0} : t = Top /\ a < t
  BY AllocatorAssumption
<1>2. a % t = a
  BY <1>1, RestOfSmall
<1> QED BY <1>1, <1>2 DEF PageOf

(* Every page of a range is that of an address of it.                      *)
LEMMA PageFrom ==
  ASSUME NEW s \in Nat, NEW e \in Nat, e <= Top, NEW g \in PagesIn(s, e)
  PROVE  \E x \in Nat : s <= x /\ x < e /\ g = x \div PageBytes
<1>1. PICK p \in Nat \ {0}, d \in Int, q \in Int :
        p = PageBytes /\ d = e - s - 1 /\ q = d \div p /\ p * q <= d
  <2>1. PageBytes \in Nat \ {0} /\ e - s - 1 \in Int
    BY AllocatorAssumption
  <2> QED BY <2>1, IntDivFacts
<1>2. PICK k \in 0 .. q : g = PageOf(s + p * k)
  BY <1>1 DEF PagesIn
<1>3. PICK x \in Nat : x = s + p * k /\ x >= s
  <2>1. k \in Nat
    BY <1>2
  <2>2. p * k \in Nat
    BY <2>1
  <2> QED BY <2>2
<1>4. p * k <= p * q
  <2>1. PICK r \in Nat : q = k + r
    <3>1. q - k \in Nat /\ q = k + (q - k)
      BY <1>2
    <3> QED BY <3>1
  <2>2. p * q = p * k + p * r /\ p * r \in Nat /\ p * k \in Int
    BY <1>2, <2>1
  <2>3. PICK u \in Nat, v \in Int : u = p * r /\ v = p * k
    BY <2>2
  <2> QED BY <2>2, <2>3
<1>5. x < e
  <2>1. PICK u \in Int, v \in Int : u = p * k /\ v = p * q /\ u <= v /\ v <= d
    BY <1>1, <1>2, <1>4
  <2> QED BY <1>1, <1>3, <2>1
<1>6. x < Top
  BY <1>5, AllocatorAssumption
<1> QED BY <1>1, <1>2, <1>3, <1>5, <1>6, PageFacts

(* The pages of a range of whole pages.                                    *)
LEMMA PagesOfWhole ==
  ASSUME NEW b \in Nat, NEW l \in Nat, PageBytes * l <= Top
  PROVE  PagesIn(PageBytes * b, PageBytes * l) = b .. l - 1
<1>1. PICK p \in Nat \ {0} : p = PageBytes
  BY AllocatorAssumption
<1>2. PICK s \in Nat, e \in Nat : s = p * b /\ e = p * l /\ e <= Top
  <2>1. p * b \in Nat /\ p * l \in Nat
    OBVIOUS
  <2> QED BY <1>1, <2>1
<1>3. ASSUME NEW g \in PagesIn(s, e) PROVE g \in b .. l - 1
  <2>1. PICK x \in Nat : s <= x /\ x < e /\ g = x \div p
    BY <1>1, <1>2, <1>3, PageFrom
  <2>2. g \in Int /\ g < l /\ ~(g < b)
    BY <1>2, <2>1, BelowMultiple, IntDivFacts
  <2> QED BY <2>2
<1>4. ASSUME NEW g \in b .. l - 1 PROVE g \in PagesIn(s, e)
  <2>1. PICK k \in Nat, j \in Nat : g = b + k /\ l = g + 1 + j /\ g \in Nat
    <3>1. g - b \in Nat /\ g = b + (g - b) /\ l - g - 1 \in Nat /\ l = g + 1 + (l - g - 1)
      BY <1>4
    <3> QED BY <3>1
  <2>2. p * g = p * b + p * k /\ p * l = p * g + p + p * j
    BY <2>1
  <2>3. PICK u \in Nat, v \in Nat, w \in Nat :
          u = p * k /\ v = p * j /\ w = p * g /\ w = s + u /\ e = w + p + v
    <3>1. p * k \in Nat /\ p * j \in Nat /\ p * g \in Nat
      BY <2>1
    <3> QED BY <1>2, <2>2, <3>1
  <2>4. PICK d \in Nat, q \in Nat : d = e - s - 1 /\ q = d \div p /\ u <= d
    <3>1. PICK d \in Nat : d = e - s - 1 /\ u <= d
      <4>1. e - s - 1 \in Nat /\ u <= e - s - 1
        BY <1>2, <2>3
      <4> QED BY <4>1
    <3>2. d \div p \in Nat
      BY <3>1, IntDivFacts
    <3> QED BY <3>1, <3>2
  <2>5. k \in 0 .. q
    <3>1. ~(d < p * k)
      BY <2>3, <2>4
    <3>2. ~(q < k)
      BY <2>4, <3>1, BelowMultiple
    <3> QED BY <2>4, <3>2
  <2>6. PageOf(w) = g
    <3>1. w < Top
      BY <1>2, <2>3, AllocatorAssumption
    <3>2. w \div p = g
      <4>1. PICK i \in Int : i = w \div p
        BY IntDivFacts
      <4>2. ~(w < p * g) /\ w < p * (g + 1)
        BY <2>1, <2>3
      <4>3. ~(i < g) /\ i < g + 1
        <5>1. g + 1 \in Int
          BY <2>1
        <5> QED BY <4>1, <4>2, <5>1, BelowMultiple
      <4> QED BY <2>1, <4>1, <4>3
    <3> QED BY <1>1, <3>1, <3>2, PageFacts
  <2>7. s + p * k = w
    BY <2>3
  <2> QED BY <1>1, <2>4, <2>5, <2>6, <2>7 DEF PagesIn
<1>5. PagesIn(s, e) = b .. l - 1
  BY <1>3, <1>4
<1> QED BY <1>1, <1>2, <1>5

-----------------------------------------------------------------------------
(* findBestFit finds an area larger than the request, if there is one.     *)
LEMMA FittingFacts ==
  ASSUME NEW l, NEW top, FreeAreas(l, top), NEW n \in Nat, Fitting(l, n) # {}
  PROVE  BestFit(l, n) \in DOMAIN l /\ l[BestFit(l, n)].size > n
<1>1. PICK len \in Nat : /\ len = Len(l) /\ DOMAIN l = 1 .. len
                         /\ \A j \in 1 .. len : l[j] \in Ranges /\ l[j].size \in Nat
  BY LenProperties, SpanFacts DEF FreeAreas
<1>2. PICK F : F = Fitting(l, n)
  OBVIOUS
<1>3. F \subseteq 1 .. len /\ F # {} /\ \A i \in F : l[i].size > n
  BY <1>1, <1>2 DEF Fitting
<1> DEFINE sizes == {l[i].size : i \in F}
           best == {i \in F : \A j \in F : l[i].size <= l[j].size}
<1>4. best # {}
  <2>1. sizes \subseteq Nat /\ sizes # {}
    BY <1>1, <1>3
  <2>2. Min(sizes) \in sizes /\ \A y \in sizes : Min(sizes) <= y
    <3> HIDE DEF sizes
    <3> QED BY <2>1, MinIsLeast
  <2>3. PICK i \in F : l[i].size = Min(sizes)
    BY <2>2
  <2>4. \A j \in F : l[i].size <= l[j].size
    BY <2>2, <2>3
  <2> QED BY <2>4
<1>5. best \subseteq Nat /\ best \subseteq F
  <2>1. best \subseteq F
    OBVIOUS
  <2>2. \A x \in 1 .. len : x \in Nat
    OBVIOUS
  <2> HIDE DEF best
  <2> QED BY <1>3, <2>1, <2>2
<1>6. Min(best) \in best
  <2> HIDE DEF best
  <2> QED BY <1>4, <1>5, MinIsLeast
<1>7. BestFit(l, n) = Min(best)
  BY <1>2 DEF BestFit
<1>8. BestFit(l, n) \in F
  BY <1>5, <1>6, <1>7
<1> QED BY <1>1, <1>3, <1>8

(* The areas of a list that is in order end in memory, where no sum of     *)
(* addresses wraps around.                                                 *)
LEMMA FreeEnds ==
  ASSUME NEW l, NEW top, FreeAreas(l, top)
  PROVE  /\ Len(l) \in Nat /\ DOMAIN l = 1 .. Len(l) /\ l \in Seq(Ranges)
         /\ Len(l) > 0 /\ End(l[Len(l)]) = top /\ top \in Nat \ {0}
         /\ \A j \in 1 .. Len(l) : /\ l[j] \in Ranges /\ l[j].start \in Nat /\ End(l[j]) \in Nat
                                  /\ l[j].start < End(l[j]) /\ End(l[j]) <= top
         /\ \A u, v \in 1 .. Len(l) : u < v => End(l[u]) <= l[v].start
         /\ top < Space => \A j \in 1 .. Len(l) : Stop(l[j]) = End(l[j])
<1>1. PICK len \in Nat : /\ len = Len(l) /\ DOMAIN l = 1 .. len /\ l \in Seq(Ranges)
                         /\ \A j \in 1 .. len : l[j] \in Ranges
                         /\ \A u, v \in 1 .. len : u < v => End(l[u]) <= l[v].start
                         /\ End(l[len]) = top /\ len > 0
  BY LenProperties DEF FreeAreas, Ordered
<1>2. \A j \in 1 .. len : /\ l[j].start \in Nat /\ l[j].size \in Nat /\ End(l[j]) \in Nat
                          /\ l[j].start < End(l[j])
  BY <1>1, SpanFacts
<1>3. top \in Nat \ {0}
  <2>1. len \in 1 .. len
    BY <1>1
  <2> QED BY <1>1, <1>2, <2>1
<1>4. ASSUME NEW j \in 1 .. len PROVE End(l[j]) <= top
  <2>1. CASE j = len
    BY <1>1, <1>2, <2>1
  <2>2. CASE j < len
    <3>1. End(l[j]) <= l[len].start /\ l[len].start < End(l[len]) /\ len \in 1 .. len
      BY <1>1, <1>2, <2>2
    <3> QED BY <1>1, <1>2, <3>1
  <2> QED BY <2>1, <2>2
<1>5. ASSUME top < Space, NEW j \in 1 .. len PROVE Stop(l[j]) = End(l[j])
  <2>1. End(l[j]) < Space
    BY <1>2, <1>3, <1>4, <1>5, AllocatorAssumption
  <2> QED BY <1>2, <2>1, StopFacts
<1> QED BY <1>1, <1>2, <1>3, <1>4, <1>5

(* cutFrom: a range inside an area leaves the list, and nothing else does. *)
LEMMA CutFromFacts ==
  ASSUME NEW l, NEW top, FreeAreas(l, top), NEW i \in DOMAIN l, NEW s \in Nat, NEW n \in Nat,
         top < Space, s + n < Space, Holds(l[i], s), Holds(l[i], Plus(s, n))
  PROVE  LET r == CutFrom(l, i, s, n)
         IN  /\ FreeAreas(r, top) /\ Covered(r) = Covered(l) \ Span(s, n)
             /\ Span(s, n) \subseteq Covered(l) /\ s + n < top
<1>1. PICK len \in Nat : /\ len = Len(l) /\ DOMAIN l = 1 .. len /\ l \in Seq(Ranges)
                         /\ \A j \in 1 .. len : l[j] \in Ranges
                         /\ \A u, v \in 1 .. len : u < v => End(l[u]) <= l[v].start
                         /\ End(l[len]) = top /\ len > 0 /\ i \in 1 .. len
  <2>1. PICK k \in Nat : k = Len(l)
    BY FreeEnds
  <2>2. DOMAIN l = 1 .. k /\ l \in Seq(Ranges) /\ \A j \in 1 .. k : l[j] \in Ranges
    BY <2>1, FreeEnds
  <2>3. (\A u, v \in 1 .. k : u < v => End(l[u]) <= l[v].start) /\ End(l[k]) = top /\ k > 0
    BY <2>1, FreeEnds
  <2> QED BY <2>1, <2>2, <2>3
<1>2. PICK a \in Ranges : a = l[i]
  BY <1>1
<1>3. /\ a.start \in Nat /\ a.size \in Nat /\ End(a) \in Nat /\ a.start < End(a)
      /\ a.start <= s /\ s + n < End(a) /\ Stop(a) = End(a) /\ Plus(s, n) = s + n
      /\ End(a) = a.start + a.size
  <2>1. Stop(a) = End(a) /\ Plus(s, n) = s + n
    BY <1>1, <1>2, FreeEnds, PlusFacts
  <2> QED BY <1>2, <2>1, SpanFacts DEF Holds, End
<1>4. End(a) <= top /\ top \in Nat /\ End(a) < Space
  BY <1>1, <1>2, FreeEnds, AllocatorAssumption
<1>5. PICK t : /\ t \in Seq(Ranges) /\ CutFrom(l, i, s, n) = Splice(l, i, i, t)
               /\ Fits(l, i, i, t, top)
               /\ \A x : x \in Covered(t) <=> x \in Span(a.start, a.size) /\ x \notin Span(s, n)
  <2>1. CASE s = a.start
    <3>1. PICK b : b = Rest(a, n)
      OBVIOUS
    <3>2. b \in Ranges /\ b.start = s + n /\ End(b) = End(a)
      <4>1. PICK m \in Nat \ {0} : m = a.size - n /\ s + n + m = End(a)
        <5>1. a.size - n \in Nat \ {0} /\ s + n + (a.size - n) = End(a)
          BY <1>3, <2>1
        <5> QED BY <5>1
      <4>2. Plus(a.start, n) = s + n /\ Minus(a.size, n) = m
        <5>1. n <= a.size /\ a.size < Space
          BY <1>3, <1>4, <2>1, AllocatorAssumption
        <5> QED BY <1>3, <2>1, <4>1, <5>1, MinusFacts
      <4>3. b = Area(s + n, m) /\ s + n \in Nat
        BY <3>1, <4>2 DEF Rest
      <4>4. b \in Ranges /\ b.start = s + n /\ End(b) = s + n + m
        BY <4>1, <4>3, AreaFacts
      <4> QED BY <4>1, <4>4
    <3>3. CutFrom(l, i, s, n) = Splice(l, i, i, <<b>>)
      BY <1>2, <2>1, <3>1 DEF CutFrom
    <3>4. PICK t : t = <<b>>
      OBVIOUS
    <3>5. t \in Seq(Ranges) /\ Len(t) = 1 /\ DOMAIN t = 1 .. 1 /\ t[1] = b /\ t # <<>>
      BY <3>2, <3>4
    <3>6. \A x : x \in Covered(t) <=> x \in Span(a.start, a.size) /\ x \notin Span(s, n)
      <4>1. \A x : x \in Covered(t) <=> x \in Span(b.start, b.size)
        BY <3>5, CoveredFacts
      <4>2. \A x : x \in Span(b.start, b.size) <=> x \in Nat /\ b.start <= x /\ x < End(b)
        BY <3>2, SpanFacts
      <4>3. \A x : x \in Span(a.start, a.size) <=> x \in Nat /\ a.start <= x /\ x < End(a)
        BY SpanFacts
      <4>4. \A x : x \in Span(s, n) <=> x \in Nat /\ s <= x /\ x < s + n
        BY SpanOf
      <4> QED BY <1>3, <2>1, <3>2, <4>1, <4>2, <4>3, <4>4
    <3>7. Fits(l, i, i, t, top)
      <4>1. Ordered(t)
        BY <3>5 DEF Ordered
      <4>2. \A j \in 1 .. i - 1 : End(l[j]) <= b.start
        <5>1. ASSUME NEW j \in 1 .. i - 1 PROVE End(l[j]) <= a.start /\ End(l[j]) \in Nat
          <6>1. j \in 1 .. len /\ j < i
            BY <1>1
          <6> QED BY <1>1, <1>2, <6>1, SpanFacts
        <5> QED BY <1>3, <2>1, <3>2, <5>1
      <4>3. \A j \in i + 1 .. len : End(b) <= l[j].start
        BY <1>1, <1>2, <3>2
      <4>4. i = len => End(b) = top
        BY <1>1, <1>2, <3>2
      <4>5. i = len => t # <<>> /\ End(t[Len(t)]) = top
        BY <3>5, <4>4
      <4> QED BY <1>1, <3>5, <4>1, <4>2, <4>3, <4>5 DEF Fits
    <3> QED BY <3>3, <3>4, <3>5, <3>6, <3>7
  <2>2. CASE s # a.start
    <3>1. PICK b, c : b = Area(a.start, s - a.start) /\ c = Area(s + n, End(a) - (s + n))
      OBVIOUS
    <3>2. /\ b \in Ranges /\ b.start = a.start /\ End(b) = s
          /\ c \in Ranges /\ c.start = s + n /\ End(c) = End(a)
      BY <1>3, <2>2, <3>1 DEF Area, End, Ranges
    <3>3. CutFrom(l, i, s, n) = Splice(l, i, i, <<b, c>>)
      <4>1. Minus(End(a), s + n) = End(a) - (s + n)
        <5>1. s + n \in Nat /\ s + n <= End(a)
          BY <1>3
        <5> QED BY <1>3, <1>4, <5>1, MinusFacts
      <4> QED BY <1>2, <1>3, <2>2, <3>1, <4>1 DEF CutFrom
    <3>4. PICK t : t = <<b, c>>
      OBVIOUS
    <3>5. t \in Seq(Ranges) /\ Len(t) = 2 /\ DOMAIN t = 1 .. 2 /\ t[1] = b /\ t[2] = c /\ t # <<>>
      BY <3>2, <3>4
    <3>6. \A x : x \in Covered(t) <=> x \in Span(a.start, a.size) /\ x \notin Span(s, n)
      <4>1. \A x : x \in Covered(t) <=>
                     x \in Span(b.start, b.size) \/ x \in Span(c.start, c.size)
        <5>1. \A j : j \in 1 .. 2 <=> j = 1 \/ j = 2
          OBVIOUS
        <5> QED BY <3>5, <5>1, CoveredFacts
      <4>2. \A x : x \in Span(b.start, b.size) <=> x \in Nat /\ b.start <= x /\ x < End(b)
        BY <3>2, SpanFacts
      <4>3. \A x : x \in Span(c.start, c.size) <=> x \in Nat /\ c.start <= x /\ x < End(c)
        BY <3>2, SpanFacts
      <4>4. \A x : x \in Span(a.start, a.size) <=> x \in Nat /\ a.start <= x /\ x < End(a)
        BY SpanFacts
      <4>5. \A x : x \in Span(s, n) <=> x \in Nat /\ s <= x /\ x < s + n
        BY SpanOf
      <4> QED BY <1>3, <3>2, <4>1, <4>2, <4>3, <4>4, <4>5
    <3>7. Fits(l, i, i, t, top)
      <4>1. Ordered(t)
        <5>1. \A u, v \in 1 .. 2 : u < v => u = 1 /\ v = 2
          OBVIOUS
        <5>2. End(b) <= c.start
          BY <3>2
        <5> QED BY <3>5, <5>1, <5>2 DEF Ordered
      <4>2. \A j \in 1 .. i - 1 : End(l[j]) <= b.start /\ End(l[j]) <= c.start
        <5>1. ASSUME NEW j \in 1 .. i - 1 PROVE End(l[j]) <= a.start /\ End(l[j]) \in Nat
          <6>1. j \in 1 .. len /\ j < i
            BY <1>1
          <6> QED BY <1>1, <1>2, <6>1, SpanFacts
        <5> QED BY <1>3, <3>2, <5>1
      <4>3. \A j \in i + 1 .. len : End(b) <= l[j].start /\ End(c) <= l[j].start
        <5>1. ASSUME NEW j \in i + 1 .. len PROVE End(a) <= l[j].start /\ l[j].start \in Nat
          <6>1. j \in 1 .. len /\ i < j
            BY <1>1
          <6> QED BY <1>1, <1>2, <6>1, SpanFacts
        <5> QED BY <1>3, <3>2, <5>1
      <4>4. i = len => End(c) = top
        BY <1>1, <1>2, <3>2
      <4>5. i = len => t # <<>> /\ End(t[Len(t)]) = top
        BY <3>5, <4>4
      <4>6. \A j \in 1 .. 2 : t[j] = b \/ t[j] = c
        BY <3>5
      <4> QED BY <1>1, <3>5, <4>1, <4>2, <4>3, <4>5, <4>6 DEF Fits
    <3> QED BY <3>3, <3>4, <3>5, <3>6, <3>7
  <2> QED BY <2>1, <2>2
<1>6. PICK r : r = CutFrom(l, i, s, n)
  OBVIOUS
<1>7. PICK c : c = i
  OBVIOUS
<1>8. /\ i \in Int /\ c \in Int /\ 1 <= i /\ i <= Len(l) + 1 /\ i - 1 <= c /\ c <= Len(l)
  BY <1>1, <1>7
<1>9. r \in Seq(Ranges) /\ IsSplice(r, l, i, c, t)
  <2>1. r = Splice(l, i, c, t) /\ t \in Seq(Ranges) /\ l \in Seq(Ranges)
    BY <1>1, <1>5, <1>6, <1>7
  <2> QED BY <1>8, <2>1, SpliceFacts
<1>10. FreeAreas(r, top) /\ HasPagesOf(r, l, i, c, t)
  <2>1. Fits(l, i, c, t, top) /\ t \in Seq(Ranges)
    BY <1>5, <1>7
  <2>2. FreeAreas(l, top) /\ r \in Seq(Ranges) /\ IsSplice(r, l, i, c, t)
    BY <1>9
  <2> QED BY <1>8, <2>1, <2>2, SpliceKeepsOrder
<1>11. \A x : x \in Span(s, n) => x \in Span(a.start, a.size)
  <2>1. \A x : x \in Span(s, n) <=> x \in Nat /\ s <= x /\ x < s + n
    BY SpanOf
  <2>2. \A x : x \in Span(a.start, a.size) <=> x \in Nat /\ a.start <= x /\ x < End(a)
    BY SpanFacts
  <2> QED BY <1>3, <2>1, <2>2
<1>12. ASSUME NEW j \in 1 .. len, j < i \/ j > i, NEW x, x \in Span(l[j].start, l[j].size)
       PROVE  x \notin Span(a.start, a.size)
  <2>1. x \in Nat /\ l[j].start <= x /\ x < End(l[j]) /\ l[j].start \in Nat /\ End(l[j]) \in Nat
    BY <1>1, <1>12, SpanFacts
  <2>2. End(l[j]) <= a.start \/ End(a) <= l[j].start
    BY <1>1, <1>2, <1>12
  <2>3. x \in Span(a.start, a.size) => a.start <= x /\ x < End(a)
    BY SpanFacts
  <2> QED BY <1>3, <2>1, <2>2, <2>3
<1>13. \A x : x \in Covered(l) <=>
                \/ x \in Span(a.start, a.size)
                \/ \E j \in 1 .. len : (j < i \/ j > i) /\ x \in Span(l[j].start, l[j].size)
  <2>1. \A j \in 1 .. len : j = i \/ j < i \/ j > i
    BY <1>1
  <2> QED BY <1>1, <1>2, <2>1, CoveredFacts
<1>14. \A x : x \in Covered(r) <=> x \in Covered(l) /\ x \notin Span(s, n)
  <2>1. \A x : x \in Covered(r) <=>
                 \/ x \in Span(a.start, a.size) /\ x \notin Span(s, n)
                 \/ \E j \in 1 .. len : (j < i \/ j > i) /\ x \in Span(l[j].start, l[j].size)
    BY <1>1, <1>5, <1>7, <1>10 DEF HasPagesOf
  <2> QED BY <1>11, <1>12, <1>13, <2>1
<1>15. Span(s, n) \subseteq Covered(l)
  BY <1>11, <1>13
<1> QED BY <1>3, <1>4, <1>6, <1>10, <1>14, <1>15

(* alloc: the first bytes of the best fit leave the list.                  *)
LEMMA AllocFacts ==
  ASSUME NEW l, NEW top, FreeAreas(l, top), top < Space, NEW n \in Nat, Fitting(l, n) # {}
  PROVE  /\ Given(l, n) \in Nat /\ Given(l, n) + n < top
         /\ FreeAreas(AllocFrom(l, n), top)
         /\ Covered(AllocFrom(l, n)) = Covered(l) \ Span(Given(l, n), n)
         /\ Span(Given(l, n), n) \subseteq Covered(l)
<1>1. PICK i \in DOMAIN l : i = BestFit(l, n) /\ l[i].size > n
  BY FittingFacts
<1>2. PICK a \in Ranges : /\ a = l[i] /\ End(a) <= top /\ Stop(a) = End(a) /\ top \in Nat
                         /\ a.start \in Nat /\ a.size \in Nat /\ a.size > n
                         /\ End(a) = a.start + a.size
  <2>1. /\ l[i] \in Ranges /\ End(l[i]) <= top /\ Stop(l[i]) = End(l[i]) /\ top \in Nat
    BY FreeEnds
  <2> QED BY <1>1, <2>1, SpanFacts DEF End
<1>3. PICK s \in Nat : /\ s = l[i].start /\ s + n < Space
                       /\ Holds(l[i], s) /\ Holds(l[i], Plus(s, n))
  <2>1. a.start + n < Space /\ a.start + n < End(a)
    BY <1>2, AllocatorAssumption
  <2>2. Plus(a.start, n) = a.start + n
    BY <1>2, <2>1, PlusFacts
  <2>3. Holds(a, a.start) /\ Holds(a, Plus(a.start, n))
    BY <1>2, <2>1, <2>2 DEF Holds
  <2> QED BY <1>2, <2>1, <2>3
<1>4. Given(l, n) = s
  BY <1>1, <1>3 DEF Given
<1>5. AllocFrom(l, n) = CutFrom(l, i, s, n)
  BY <1>1, <1>3 DEF AllocFrom, CutFrom
<1>6. PICK r : r = CutFrom(l, i, s, n)
  OBVIOUS
<1>7. /\ FreeAreas(r, top) /\ Covered(r) = Covered(l) \ Span(s, n)
      /\ Span(s, n) \subseteq Covered(l) /\ s + n < top
  BY <1>3, <1>6, CutFromFacts
<1> QED BY <1>3, <1>4, <1>5, <1>6, <1>7

(* free of any range whose end does not wrap around keeps the list in      *)
(* order, whatever of it the list has already; only a range that ends      *)
(* behind the last area moves the end of the list.  A range that no area   *)
(* touches or overlaps, not even behind its end, comes into the list, and  *)
(* nothing else does.                                                      *)
LEMMA FreedFacts ==
  ASSUME NEW l, NEW top, FreeAreas(l, top), top < Space, NEW s \in Nat, NEW n \in Nat \ {0},
         s + n < Space
  PROVE  LET r == FreedIn(l, s, n)
         IN  /\ \E e \in Nat : e < Space /\ FreeAreas(r, e) /\ (s + n <= top => e = top)
             /\ Span(s, n + 1) \cap Covered(l) = {} => Covered(r) = Covered(l) \cup Span(s, n)
<1>1. PICK len \in Nat : /\ len = Len(l) /\ DOMAIN l = 1 .. len /\ l \in Seq(Ranges)
                         /\ \A j \in 1 .. len : l[j] \in Ranges
                         /\ \A u, v \in 1 .. len : u < v => End(l[u]) <= l[v].start
                         /\ End(l[len]) = top /\ len > 0
  BY FreeEnds
<1>2. /\ \A j \in 1 .. len : /\ l[j].start \in Nat /\ End(l[j]) \in Nat
                             /\ l[j].start < End(l[j]) /\ Stop(l[j]) = End(l[j])
                             /\ End(l[j]) <= top
      /\ top \in Nat /\ Plus(s, n) = s + n
  BY <1>1, FreeEnds, PlusFacts
<1>3. PICK last \in 0 .. len :
        /\ last = LastBefore(l, s)
        /\ \A i \in 1 .. last : End(l[i]) <= s
        /\ last < len => End(l[last + 1]) > s
  <2> DEFINE P == {i \in 1 .. len : \A j \in 1 .. i : Stop(l[j]) <= s}
  <2>1. P \subseteq 1 .. len /\ \A i \in P : \A j \in 1 .. i : j \in P
    OBVIOUS
  <2>2. Cardinality(P) \in 0 .. len /\ P = 1 .. Cardinality(P)
    <3> HIDE DEF P
    <3> QED BY <2>1, PrefixFacts
  <2>3. PICK c \in 0 .. len : c = Cardinality(P) /\ P = 1 .. c
    BY <2>2
  <2>4. c = LastBefore(l, s)
    BY <1>1, <2>3 DEF LastBefore
  <2>5. \A i \in 1 .. c : End(l[i]) <= s
    <3>1. ASSUME NEW i \in 1 .. c PROVE End(l[i]) <= s
      <4>1. i \in P /\ i \in 1 .. i
        BY <2>3
      <4> QED BY <1>2, <4>1
    <3> QED BY <3>1
  <2>6. ASSUME c < len PROVE End(l[c + 1]) > s
    <3>1. c + 1 \in 1 .. len /\ c + 1 \notin 1 .. c
      BY <2>6
    <3>2. c + 1 \notin P
      BY <2>3, <3>1
    <3>3. PICK j \in 1 .. c + 1 : ~(End(l[j]) <= s)
      BY <1>2, <3>1, <3>2
    <3>4. j = c + 1
      BY <2>5, <3>3
    <3> QED BY <1>2, <3>1, <3>3, <3>4
  <2> QED BY <2>4, <2>5, <2>6
<1>4. PICK left \in 1 .. len + 1 : left = last + 1 /\ (last < len => End(l[left]) > s)
  BY <1>3
<1>5. /\ \A i \in 1 .. left - 1 : End(l[i]) <= s /\ (last < len => End(l[i]) <= l[left].start)
      /\ \A i \in left + 1 .. len : l[left].start <= l[i].start
  <2>1. ASSUME NEW i \in 1 .. left - 1
        PROVE  End(l[i]) <= s /\ (last < len => End(l[i]) <= l[left].start)
    <3>1. i \in 1 .. last /\ i \in 1 .. len /\ i < left /\ (last < len => left \in 1 .. len)
      BY <1>4
    <3> QED BY <1>1, <1>3, <3>1
  <2>2. ASSUME NEW i \in left + 1 .. len PROVE l[left].start <= l[i].start
    <3>1. i \in 1 .. len /\ left < i /\ left \in 1 .. len
      BY <1>4
    <3>2. End(l[left]) <= l[i].start
      BY <1>1, <3>1
    <3> QED BY <1>2, <3>1, <3>2
  <2> QED BY <2>1, <2>2
<1>6. PICK r : r = FreedIn(l, s, n)
  OBVIOUS
<1>7. PICK alone \in BOOLEAN : alone = (last = len \/ s + n < l[left].start)
  OBVIOUS
<1>8. StandsAlone(l, s, n) <=> alone
  BY <1>1, <1>2, <1>3, <1>4, <1>7 DEF StandsAlone
<1>9. CASE alone
  <2>1. PICK b \in Ranges : b = Area(s, n) /\ b.start = s /\ b.size = n /\ End(b) = s + n
    BY AreaFacts
  <2>2. r = Splice(l, left, last, <<b>>)
    BY <1>3, <1>4, <1>6, <1>8, <1>9, <2>1 DEF FreedIn
  <2>3. PICK t \in Seq(Ranges) : /\ t = <<b>> /\ Len(t) = 1 /\ DOMAIN t = 1 .. 1 /\ t[1] = b
                                 /\ t # <<>>
    BY SingleFacts
  <2>4. /\ left \in Int /\ last \in Int /\ 1 <= left /\ left <= Len(l) + 1
        /\ left - 1 <= last /\ last <= Len(l)
    BY <1>1, <1>4
  <2>5. r \in Seq(Ranges) /\ IsSplice(r, l, left, last, t)
    <3>1. r = Splice(l, left, last, t) /\ l \in Seq(Ranges)
      BY <1>1, <2>2, <2>3
    <3> QED BY <2>4, <3>1, SpliceFacts
  <2>6. PICK e \in Nat : e = IF last = len THEN s + n ELSE top
    BY <1>2
  <2>7. Fits(l, left, last, t, e)
    <3>1. Ordered(t)
      BY <2>3 DEF Ordered
    <3>2. ASSUME NEW i \in last + 1 .. len PROVE End(b) <= l[i].start
      <4>1. (i = left \/ i \in left + 1 .. len) /\ last # len /\ left \in 1 .. len
        BY <1>4
      <4>2. l[left].start <= l[i].start /\ i \in 1 .. len
        BY <1>2, <1>4, <1>5, <4>1
      <4>3. s + n < l[left].start
        BY <1>7, <1>9, <4>1
      <4> QED BY <1>2, <2>1, <4>1, <4>2, <4>3
    <3>3. \A i \in 1 .. left - 1 : End(l[i]) <= b.start
      BY <1>5, <2>1
    <3>4. IF last = Len(l) THEN t # <<>> /\ End(t[Len(t)]) = e ELSE End(l[Len(l)]) = e
      BY <1>1, <2>1, <2>3, <2>6
    <3>5. \A j \in DOMAIN t : t[j] = b
      BY <2>3
    <3> QED BY <1>1, <3>1, <3>2, <3>3, <3>4, <3>5 DEF Fits
  <2>8. FreeAreas(r, e) /\ HasPagesOf(r, l, left, last, t)
    BY <2>4, <2>5, <2>7, SpliceKeepsOrder
  <2>9. \A x : x \in Covered(r) <=> x \in Span(s, n) \/ x \in Covered(l)
    <3>1. \A x : x \in Covered(t) <=> x \in Span(s, n)
      BY <2>1, <2>3, CoveredFacts
    <3>2. \A i \in 1 .. len : i < left \/ i > last
      BY <1>4
    <3> QED BY <1>1, <2>8, <3>1, <3>2, CoveredFacts DEF HasPagesOf
  <2>10. e < Space /\ (s + n <= top => e = top)
    <3>1. CASE last = len
      <4>1. len \in 1 .. last
        BY <1>1, <3>1
      <4>2. top <= s
        BY <1>1, <1>3, <4>1
      <4> QED BY <1>2, <2>6, <3>1, <4>2
    <3>2. CASE last # len
      BY <2>6, <3>2
    <3> QED BY <3>1, <3>2
  <2> QED BY <1>6, <2>8, <2>9, <2>10
<1>10. CASE ~alone
  <2>1. last < len /\ left \in 1 .. len /\ ~(s + n < l[left].start)
    <3>1. last # len /\ ~(s + n < l[left].start)
      BY <1>7, <1>10
    <3>2. last < len /\ left \in 1 .. len
      BY <1>1, <1>3, <1>4, <3>1
    <3> QED BY <3>1, <3>2
  <2> DEFINE R == {i \in left .. len : i = len \/ l[i].start > s + n}
  <2>2. PICK right \in left .. len : /\ right = Min(R)
                                     /\ right = len \/ l[right].start > s + n
    <3>1. R \subseteq Nat /\ len \in R
      BY <1>1, <1>4, <2>1
    <3>2. Min(R) \in R
      <4> HIDE DEF R
      <4> QED BY <3>1, MinIsLeast
    <3> QED BY <3>2
  <2>3. right \in 1 .. len /\ left <= right
    BY <1>4, <2>2, <2>1
  <2>4. PICK first \in Nat : /\ first = Min({s, l[left].start})
                             /\ first = s \/ first = l[left].start
                             /\ first <= s /\ first <= l[left].start
    BY <1>2, <2>1, MinOfTwo
  <2>5. PICK end \in Nat : /\ end = Max({End(l[right]), s + n})
                           /\ end = End(l[right]) \/ end = s + n
                           /\ end >= End(l[right]) /\ end >= s + n
    <3>1. End(l[right]) \in Nat /\ s + n \in Nat
      BY <1>2, <2>3
    <3> QED BY <3>1, MaxOfTwo
  <2>6. first < end /\ end < Space
    BY <1>2, <2>3, <2>4, <2>5, AllocatorAssumption
  <2>7. PICK b \in Ranges : b = Area(first, end - first) /\ b.start = first /\ End(b) = end
    <3>1. PICK size \in Nat \ {0} : size = end - first
      BY <2>6
    <3>2. first + size = end
      BY <3>1
    <3>3. PICK b \in Ranges : b = Area(first, size) /\ b.start = first /\ End(b) = first + size
      BY AreaFacts
    <3> QED BY <3>1, <3>2, <3>3
  <2>8. r = Splice(l, left, right, <<b>>)
    <3>1. Merged(l, s, n, left, right) = b
      <4>1. Minus(end, first) = end - first
        BY <2>5, <2>6, MinusFacts
      <4>2. Stop(l[right]) = End(l[right])
        BY <1>2, <2>3
      <4> QED BY <1>2, <2>4, <2>5, <2>7, <4>1, <4>2 DEF Merged
    <3>2. R = {i \in left .. Len(l) : i = Len(l) \/ l[i].start > Plus(s, n)}
      BY <1>1, <1>2
    <3> HIDE DEF R
    <3> QED BY <1>3, <1>4, <1>6, <1>8, <1>10, <2>2, <3>1, <3>2 DEF FreedIn
  <2> HIDE DEF R
  <2>9. PICK t \in Seq(Ranges) : /\ t = <<b>> /\ Len(t) = 1 /\ DOMAIN t = 1 .. 1 /\ t[1] = b
                                 /\ t # <<>>
    BY SingleFacts
  <2>10. /\ left \in Int /\ right \in Int /\ 1 <= left /\ left <= Len(l) + 1
        /\ left - 1 <= right /\ right <= Len(l)
    BY <1>1, <1>4, <2>3
  <2>11. PICK e \in Nat : e = IF right = len THEN end ELSE top
    BY <1>2
  <2>12. r \in Seq(Ranges) /\ IsSplice(r, l, left, right, t)
    <3>1. r = Splice(l, left, right, t) /\ l \in Seq(Ranges)
      BY <1>1, <2>8, <2>9
    <3> QED BY <2>10, <3>1, SpliceFacts
  <2>13. Fits(l, left, right, t, e)
    <3>1. Ordered(t)
      BY <2>9 DEF Ordered
    <3>2. ASSUME NEW i \in right + 1 .. len PROVE End(b) <= l[i].start
      <4>1. i \in 1 .. len /\ right < i /\ right # len
        BY <2>3
      <4>2. l[right].start > s + n /\ End(l[right]) <= l[i].start
        BY <1>1, <2>2, <2>3, <4>1
      <4>3. end = End(l[right])
        BY <1>2, <2>3, <2>5, <4>2
      <4> QED BY <2>7, <4>2, <4>3
    <3>3. \A i \in 1 .. left - 1 : End(l[i]) <= b.start
      BY <1>5, <2>4, <2>7, <2>1
    <3>4. IF right = Len(l) THEN t # <<>> /\ End(t[Len(t)]) = e ELSE End(l[Len(l)]) = e
      BY <1>1, <2>7, <2>9, <2>11
    <3>5. \A j \in DOMAIN t : t[j] = b
      BY <2>9
    <3> QED BY <1>1, <3>1, <3>2, <3>3, <3>4, <3>5 DEF Fits
  <2>14. FreeAreas(r, e)
    BY <2>10, <2>12, <2>13, SpliceKeepsOrder
  <2>15. \E x : x \in Span(s, n + 1) /\ x \in Covered(l)
    <3>1. PICK a \in Ranges : a = l[left]
      BY <1>1, <2>1
    <3>2. a.start \in Nat /\ End(a) \in Nat /\ a.start < End(a) /\ End(a) > s /\ a.start <= s + n
      BY <1>2, <1>4, <2>1, <3>1
    <3>3. PICK x \in Nat : s <= x /\ x < s + (n + 1) /\ a.start <= x /\ x < End(a)
      <4>1. CASE a.start <= s
        BY <3>2, <4>1
      <4>2. CASE a.start > s
        BY <3>2, <4>2
      <4> QED BY <3>2, <4>1, <4>2
    <3>4. x \in Span(s, n + 1)
      <4>1. n + 1 \in Nat
        OBVIOUS
      <4> QED BY <3>3, <4>1, SpanOf
    <3>5. x \in Span(a.start, a.size)
      BY <3>3, SpanFacts
    <3> QED BY <1>1, <2>1, <3>1, <3>4, <3>5, CoveredFacts
  <2>16. e < Space /\ (s + n <= top => e = top)
    <3>1. CASE right = len
      BY <1>1, <1>2, <2>3, <2>5, <2>6, <2>11, <3>1
    <3>2. CASE right # len
      BY <2>11, <3>2
    <3> QED BY <3>1, <3>2
  <2> QED BY <1>6, <2>14, <2>15, <2>16
<1> QED BY <1>7, <1>9, <1>10

-----------------------------------------------------------------------------
(* The addresses that YY_VirtualAlloc took for a block.                    *)
Taken(b) == Span(b.start, b.size * Unit)

(* A range whose addresses are all in memory.                              *)
InMemory(a) == a.start \in Nat /\ a.size \in Nat /\ End(a) <= Top

(* Free memory, the program's ranges and what was taken for the blocks are *)
(* apart, and so is what was taken for one block and for another.          *)
Usage(free, used, given) ==
  /\ \A a \in used : InMemory(a) /\ Span(a.start, a.size) \cap free = {}
  /\ \A b \in given : /\ b \in Ranges /\ InMemory(b) /\ Taken(b) \cap free = {}
                      /\ \A a \in used : Taken(b) \cap Span(a.start, a.size) = {}
                      /\ \A c \in given : b # c => Taken(b) \cap Taken(c) = {}

(* A block takes more addresses than it has bytes: at least the one behind *)
(* its last one too.                                                       *)
LEMMA TakenFacts ==
  ASSUME NEW s \in Nat, NEW n \in Nat \ {0}
  PROVE  /\ n * Unit \in Nat \ {0}
         /\ Span(s, n) \subseteq Span(s, n + 1) /\ Span(s, n + 1) \subseteq Span(s, n * Unit)
         /\ n < n * Unit
<1>1. PICK u \in Nat : Unit = u + 2
  <2>1. Unit - 2 \in Nat /\ Unit = (Unit - 2) + 2
    BY AllocatorAssumption
  <2> QED BY <2>1
<1>2. n * u \in Nat
  OBVIOUS
<1>3. n * Unit = n * u + 2 * n
  BY <1>1
<1>4. PICK m \in Nat : m = n * Unit /\ m >= 2 * n
  BY <1>2, <1>3
<1>5. m > n /\ m >= n + 1
  BY <1>4
<1>6. \A k \in Nat : \A x : x \in Span(s, k) <=> x \in Nat /\ s <= x /\ x < s + k
  BY SpanOf
<1>7. n \in Nat /\ n + 1 \in Nat
  OBVIOUS
<1>8. Span(s, n) \subseteq Span(s, n + 1)
  BY <1>6, <1>7
<1>9. Span(s, n + 1) \subseteq Span(s, m)
  BY <1>5, <1>6, <1>7
<1> QED BY <1>4, <1>5, <1>8, <1>9

(* With less free memory all of this stays.                                *)
LEMMA UsageOfLess ==
  ASSUME NEW C, NEW P, NEW B, Usage(C, P, B), NEW D, D \subseteq C
  PROVE  Usage(D, P, B)
BY DEF Usage

(* Free memory becomes the program's.                                      *)
LEMMA UsageOfProgram ==
  ASSUME NEW C, NEW P, NEW B, Usage(C, P, B), NEW a, InMemory(a), NEW D, D \subseteq C,
         D = Span(a.start, a.size)
  PROVE  Usage(C \ D, P \cup {a}, B)
<1>1. \A b \in B : Taken(b) \cap D = {}
  BY DEF Usage
<1>2. \A c \in P : Span(c.start, c.size) \cap (C \ D) = {} /\ InMemory(c)
  BY DEF Usage
<1>3. D \cap (C \ D) = {}
  OBVIOUS
<1> HIDE DEF Taken, InMemory
<1> QED BY <1>1, <1>2, <1>3 DEF Usage

(* Free memory becomes a block.                                            *)
LEMMA UsageOfBlock ==
  ASSUME NEW C, NEW P, NEW B, Usage(C, P, B), NEW b \in Ranges, InMemory(b), Taken(b) \subseteq C
  PROVE  Usage(C \ Taken(b), P, B \cup {b})
<1>1. /\ Taken(b) \cap (C \ Taken(b)) = {}
      /\ \A a \in P : Taken(b) \cap Span(a.start, a.size) = {}
  BY DEF Usage
<1>2. \A c \in B : Taken(b) \cap Taken(c) = {} /\ Taken(c) \cap Taken(b) = {}
  BY DEF Usage
<1> HIDE DEF Taken, InMemory
<1> QED BY <1>1, <1>2 DEF Usage

(* A block is free again.  The rest of its addresses belong to nobody.     *)
LEMMA UsageOfFreed ==
  ASSUME NEW C, NEW P, NEW B, Usage(C, P, B), NEW b \in B
  PROVE  /\ Span(b.start, b.size + 1) \cap C = {}
         /\ Usage(C \cup Span(b.start, b.size), P, B \ {b})
<1>1. /\ b \in Ranges
      /\ Span(b.start, b.size) \subseteq Taken(b)
      /\ Span(b.start, b.size + 1) \subseteq Taken(b)
  <2>1. b \in Ranges
    BY DEF Usage
  <2>2. b.start \in Nat /\ b.size \in Nat \ {0}
    BY <2>1 DEF Ranges
  <2> QED BY <2>1, <2>2, TakenFacts DEF Taken
<1> HIDE DEF Taken, InMemory
<1>2. Span(b.start, b.size + 1) \cap C = {}
  BY <1>1 DEF Usage
<1>3. \A a \in P : Span(a.start, a.size) \cap (C \cup Span(b.start, b.size)) = {}
  BY <1>1 DEF Usage
<1>4. \A c \in B \ {b} : Taken(c) \cap (C \cup Span(b.start, b.size)) = {}
  BY <1>1 DEF Usage
<1>5. Usage(C \cup Span(b.start, b.size), P, B \ {b})
  BY <1>3, <1>4 DEF Usage
<1> QED BY <1>2, <1>5

-----------------------------------------------------------------------------
(* The list is in order, and ends where memory does as long as the program *)
(* has freed whole blocks only.                                            *)
InOrder == \E top \in Nat : top < Space /\ FreeAreas(areas, top) /\ (whole => top = Top)

(* The invariant of the memory of a process: as long as no end of a range  *)
(* has wrapped around its list is in order, and as long as the program has *)
(* freed whole blocks only what is in use is apart from it.                *)
MInv ==
  /\ foreign \in Nat /\ wrapped \in BOOLEAN
  /\ stage # "running" => whole
  /\ ~whole \/ stage = "dead" => program = {} /\ blocks = {}
  /\ ~wrapped /\ stage # "dead" => InOrder
  /\ ~wrapped /\ whole => Usage(Covered(areas), program, blocks)

(* As long as whole blocks have been freed: the list ends at Top.          *)
LEMMA WholeFacts ==
  ASSUME MInv, ~wrapped, stage # "dead", whole
  PROVE  FreeAreas(areas, Top) /\ Top < Space /\ Usage(Covered(areas), program, blocks)
BY AllocatorAssumption DEF MInv, InOrder

(* A new process, or one whose memory has been dropped: everything is free *)
(* but the first page.                                                     *)
LEMMA EmptyFacts == FreeAreas(Empty, Top)
<1>1. PICK b \in Ranges : b = Area(PageBytes, Top - PageBytes) /\ End(b) = Top
  <2>1. PICK p \in Nat, n \in Nat \ {0} : p = PageBytes /\ n = Top - PageBytes /\ p + n = Top
    BY AllocatorAssumption
  <2>2. Area(p, n) \in Ranges /\ End(Area(p, n)) = p + n
    BY AreaFacts
  <2> QED BY <2>1, <2>2
<1>2. PICK t \in Seq(Ranges) : t = <<b>> /\ Len(t) = 1 /\ DOMAIN t = 1 .. 1 /\ t[1] = b /\ t # <<>>
  BY SingleFacts
<1>3. FreeAreas(t, Top)
  BY <1>1, <1>2 DEF FreeAreas, Ordered
<1> QED BY <1>1, <1>2, <1>3 DEF Empty

(* cleanup, by a new program or for good.                                  *)
LEMMA CleanupKeeps ==
  ASSUME NEW l, Cleanup(l), stage' # "dead" => FreeAreas(l, Top)
  PROVE  MInv'
<1>1. /\ areas' = l /\ program' = {} /\ blocks' = {} /\ foreign' = 0 /\ wrapped' = FALSE
      /\ whole'
  BY DEF Cleanup, whole
<1>2. Usage(Covered(l), {}, {})
  BY DEF Usage
<1>3. stage' # "dead" => InOrder'
  <2>1. Top \in Nat /\ Top < Space
    BY AllocatorAssumption
  <2> QED BY <1>1, <2>1 DEF InOrder
<1> QED BY <1>1, <1>2, <1>3 DEF MInv

(* Once an end has wrapped around nothing is said of the list.             *)
LEMMA WrappedKeeps ==
  ASSUME MInv, wrapped', wrapped' \in BOOLEAN, UNCHANGED <<foreign, stage>>, stage = "loading"
  PROVE  MInv'
BY DEF MInv, whole

(* reserve.                                                                *)
LEMMA ReserveFacts ==
  ASSUME FreeAreas(areas, Top), NEW s \in Nat, NEW n \in Nat, s + n < Space, Reserve(s, n)
  PROVE  /\ FreeAreas(areas', Top) /\ s + n < Top
         /\ Covered(areas') = Covered(areas) \ Span(s, n)
         /\ Span(s, n) \subseteq Covered(areas)
<1>1. Top < Space
  BY AllocatorAssumption
<1>2. PICK i \in DOMAIN areas : /\ Holds(areas[i], s) /\ Holds(areas[i], Plus(s, n))
                                /\ areas' = CutFrom(areas, i, s, n)
  BY DEF Reserve
<1>3. PICK r : r = CutFrom(areas, i, s, n)
  OBVIOUS
<1>4. /\ FreeAreas(r, Top) /\ Covered(r) = Covered(areas) \ Span(s, n)
      /\ Span(s, n) \subseteq Covered(areas) /\ s + n < Top
  BY <1>1, <1>2, <1>3, CutFromFacts
<1> QED BY <1>2, <1>3, <1>4

(* Addresses leave the list and nobody has them: areas of headers that     *)
(* were never written.                                                     *)
LEMMA ReserveKeeps ==
  ASSUME MInv, stage = "loading", NEW s \in Nat, NEW n \in Nat, Reserve(s, n),
         wrapped' = (wrapped \/ Wraps(s, n)), UNCHANGED <<program, blocks, foreign, stage>>
  PROVE  MInv'
<1>1. CASE wrapped'
  <2>1. wrapped' \in BOOLEAN
    BY DEF MInv
  <2> QED BY <1>1, <2>1, WrappedKeeps DEF MInv, whole
<1>2. CASE ~wrapped'
  <2>1. ~wrapped /\ s + n < Space /\ whole /\ whole'
    <3>1. ~wrapped /\ ~Wraps(s, n)
      BY <1>2
    <3>2. s + n < Space
      BY <3>1, AllocatorAssumption DEF Wraps
    <3> QED BY <3>1, <3>2 DEF MInv, whole
  <2>2. FreeAreas(areas, Top) /\ Top < Space /\ Usage(Covered(areas), program, blocks)
    BY <2>1, WholeFacts
  <2>3. FreeAreas(areas', Top) /\ Covered(areas') \subseteq Covered(areas)
    BY <2>1, <2>2, ReserveFacts
  <2>4. Usage(Covered(areas'), program, blocks)
    BY <2>2, <2>3, UsageOfLess
  <2>5. InOrder'
    BY <2>2, <2>3, AllocatorAssumption DEF InOrder
  <2> QED BY <1>2, <2>1, <2>4, <2>5 DEF MInv
<1> QED BY <1>1, <1>2

(* Free addresses become the program's.                                    *)
LEMMA ProgramKeeps ==
  ASSUME MInv, ~wrapped, whole, stage # "dead", stage' # "dead", wrapped' = FALSE,
         NEW s \in Nat, NEW n \in Nat, s + n <= Top, FreeAreas(areas', Top),
         Covered(areas') = Covered(areas) \ Span(s, n), Span(s, n) \subseteq Covered(areas),
         program' = program \cup {Area(s, n)}, UNCHANGED <<blocks, foreign>>
  PROVE  MInv'
<1>1. PICK a : a = Area(s, n) /\ a.start = s /\ a.size = n /\ InMemory(a)
  <2>1. PICK a : a = Area(s, n)
    OBVIOUS
  <2>2. a.start = s /\ a.size = n
    BY <2>1 DEF Area
  <2> QED BY <2>1, <2>2 DEF InMemory, End
<1>2. Usage(Covered(areas), program, blocks) /\ Top < Space /\ Top \in Nat
  BY WholeFacts, AllocatorAssumption
<1>3. Usage(Covered(areas) \ Span(s, n), program \cup {a}, blocks)
  <2>1. PICK D : D = Span(s, n)
    OBVIOUS
  <2>2. Usage(Covered(areas) \ D, program \cup {a}, blocks)
    BY <1>1, <1>2, <2>1, UsageOfProgram
  <2> QED BY <2>1, <2>2
<1>4. Usage(Covered(areas'), program', blocks') /\ whole'
  BY <1>1, <1>3 DEF whole
<1>5. InOrder'
  BY <1>2 DEF InOrder
<1> QED BY <1>4, <1>5 DEF MInv

(* alloc for YY_VirtualAlloc, where the product does not wrap around.      *)
LEMMA BlockFacts ==
  ASSUME NEW top \in Nat, top < Space, FreeAreas(areas, top), NEW n \in Nat \ {0},
         n * Unit < Space, Fitting(areas, Asked(n)) # {},
         NEW s, s = Given(areas, Asked(n)), NEW l, l = AllocFrom(areas, Asked(n))
  PROVE  /\ s \in Nat /\ s + n < top
         /\ FreeAreas(l, top) /\ Covered(l) = Covered(areas) \ Span(s, n * Unit)
         /\ Span(s, n) \subseteq Covered(areas) /\ Span(s, n * Unit) \subseteq Covered(areas)
         /\ Span(s, n) \subseteq Span(s, n * Unit) /\ Span(s, n + 1) \subseteq Span(s, n * Unit)
<1>1. PICK m \in Nat : m = n * Unit /\ n < m /\ Asked(n) = m
  <2>1. PICK m \in Nat : m = n * Unit /\ n < m
    BY TakenFacts
  <2>2. PICK sp \in Nat \ {0} : sp = Space
    BY AllocatorAssumption
  <2>3. m % sp = m
    BY <2>1, <2>2, RestOfSmall
  <2> QED BY <2>1, <2>2, <2>3 DEF Asked
<1>2. /\ s \in Nat /\ s + m < top
      /\ FreeAreas(l, top) /\ Covered(l) = Covered(areas) \ Span(s, m)
      /\ Span(s, m) \subseteq Covered(areas)
  BY <1>1, AllocFacts
<1>3. Span(s, n) \subseteq Span(s, n + 1) /\ Span(s, n + 1) \subseteq Span(s, m)
  BY <1>1, <1>2, TakenFacts
<1> QED BY <1>1, <1>2, <1>3

(* YY_VirtualAlloc gives out the first bytes of what it takes, unless that *)
(* starts at 0.                                                            *)
LEMMA VirtualAllocKeeps ==
  ASSUME MInv, stage = "running", stage' = stage, ~wrapped, NEW n \in Sizes, VirtualAlloc(n)
  PROVE  MInv'
<1>1. n \in Nat \ {0}
  BY AllocatorAssumption
<1>2. PICK s, l : s = Given(areas, Asked(n)) /\ l = AllocFrom(areas, Asked(n))
  OBVIOUS
<1>3. /\ Fitting(areas, Asked(n)) # {} /\ areas' = l /\ program' = program /\ foreign' = foreign
      /\ blocks' = blocks \/ (s # 0 /\ blocks' = IF whole THEN blocks \cup {Area(s, n)} ELSE blocks)
      /\ wrapped' = (wrapped \/ n * Unit >= Space \/ Wraps(s, n))
  BY <1>2 DEF VirtualAlloc
<1>4. whole' = whole
  BY <1>3 DEF whole
<1>5. foreign' \in Nat /\ wrapped' \in BOOLEAN /\ (~whole' => program' = {} /\ blocks' = {})
  BY <1>3, <1>4 DEF MInv
<1>6. CASE wrapped'
  BY <1>5, <1>6 DEF MInv
<1>7. CASE ~wrapped'
  <2>1. n * Unit < Space
    <3>1. PICK m \in Nat, sp \in Nat : m = n * Unit /\ sp = Space
      BY <1>1, AllocatorAssumption, TakenFacts
    <3>2. ~(n * Unit >= Space)
      BY <1>3, <1>7
    <3> QED BY <3>1, <3>2
  <2>2. PICK top \in Nat : top < Space /\ FreeAreas(areas, top) /\ (whole => top = Top)
    BY DEF MInv, InOrder
  <2>3. /\ s \in Nat /\ s + n < top /\ FreeAreas(l, top)
        /\ Covered(l) = Covered(areas) \ Span(s, n * Unit)
        /\ Span(s, n * Unit) \subseteq Covered(areas)
    BY <1>1, <1>2, <1>3, <2>1, <2>2, BlockFacts
  <2>4. InOrder'
    BY <1>3, <1>4, <2>2, <2>3 DEF InOrder
  <2>5. ASSUME whole PROVE Usage(Covered(l), program, blocks')
    <3>1. Usage(Covered(areas), program, blocks)
      BY <2>5 DEF MInv
    <3>2. Usage(Covered(l), program, blocks)
      <4>1. Covered(l) \subseteq Covered(areas)
        BY <2>3
      <4> QED BY <3>1, <4>1, UsageOfLess
    <3>3. PICK b \in Ranges : b = Area(s, n) /\ b.start = s /\ b.size = n /\ InMemory(b)
      <4>1. PICK b \in Ranges : b = Area(s, n) /\ b.start = s /\ b.size = n /\ End(b) = s + n
        BY <1>1, <2>3, AreaFacts
      <4>2. s + n <= Top
        BY <1>1, <2>2, <2>3, <2>5, AllocatorAssumption
      <4> QED BY <1>1, <2>3, <4>1, <4>2 DEF InMemory
    <3>4. Taken(b) = Span(s, n * Unit)
      BY <3>3 DEF Taken
    <3>5. Usage(Covered(areas) \ Taken(b), program, blocks \cup {b})
      BY <2>3, <3>1, <3>3, <3>4, UsageOfBlock
    <3>6. blocks' = blocks \/ blocks' = blocks \cup {b}
      BY <1>3, <2>5, <3>3
    <3> QED BY <2>3, <3>2, <3>4, <3>5, <3>6
  <2> QED BY <1>3, <1>4, <1>5, <2>4, <2>5 DEF MInv
<1> QED BY <1>6, <1>7

(* The addresses that go back are fewer than those taken, so none of them  *)
(* is next to free ones.                                                   *)
LEMMA VirtualAllocUnmappedKeeps ==
  ASSUME MInv, stage = "running", stage' = stage, ~wrapped, NEW n \in Sizes,
         VirtualAllocUnmapped(n)
  PROVE  MInv'
<1>1. n \in Nat \ {0}
  BY AllocatorAssumption
<1>2. PICK s, l : s = Given(areas, Asked(n)) /\ l = AllocFrom(areas, Asked(n))
  OBVIOUS
<1>3. PICK r : r = FreedIn(l, s, n)
  OBVIOUS
<1>4. /\ Fitting(areas, Asked(n)) # {} /\ (areas' = r \/ areas' = l)
      /\ blocks' = blocks /\ program' = program /\ foreign' = foreign
      /\ wrapped' = (wrapped \/ n * Unit >= Space)
  BY <1>2, <1>3 DEF VirtualAllocUnmapped, GivenBack
<1>5. whole' = whole
  BY <1>4 DEF whole
<1>6. foreign' \in Nat /\ wrapped' \in BOOLEAN /\ (~whole' => program' = {} /\ blocks' = {})
  BY <1>4, <1>5 DEF MInv
<1>7. CASE wrapped'
  BY <1>6, <1>7 DEF MInv
<1>8. CASE ~wrapped'
  <2>1. n * Unit < Space
    <3>1. PICK m \in Nat, sp \in Nat : m = n * Unit /\ sp = Space
      BY <1>1, AllocatorAssumption, TakenFacts
    <3>2. ~(n * Unit >= Space)
      BY <1>4, <1>8
    <3> QED BY <3>1, <3>2
  <2>2. PICK top \in Nat : top < Space /\ FreeAreas(areas, top) /\ (whole => top = Top)
    BY DEF MInv, InOrder
  <2>3. Fitting(areas, Asked(n)) # {}
    BY DEF VirtualAllocUnmapped
  <2>4. /\ s \in Nat /\ s + n < top /\ FreeAreas(l, top)
        /\ Covered(l) = Covered(areas) \ Span(s, n * Unit)
        /\ Span(s, n) \subseteq Covered(areas) /\ Span(s, n + 1) \subseteq Span(s, n * Unit)
    BY <1>1, <1>2, <2>1, <2>2, <2>3, BlockFacts
  <2>5. /\ FreeAreas(r, top)
        /\ Span(s, n + 1) \cap Covered(l) = {} => Covered(r) = Covered(l) \cup Span(s, n)
    <3>1. s + n < Space /\ s + n <= top /\ s \in Nat
      BY <1>1, <2>2, <2>4, AllocatorAssumption
    <3>2. FreeAreas(l, top) /\ top < Space
      BY <2>2, <2>4
    <3>3. /\ \E e \in Nat : e < Space /\ FreeAreas(r, e) /\ (s + n <= top => e = top)
          /\ Span(s, n + 1) \cap Covered(l) = {} => Covered(r) = Covered(l) \cup Span(s, n)
      BY ONLY <1>1, <1>3, <3>1, <3>2, FreedFacts
    <3>4. PICK e \in Nat : FreeAreas(r, e) /\ e = top
      BY <3>1, <3>3
    <3> QED BY <3>3, <3>4
  <2>6. Covered(r) \subseteq Covered(areas) /\ Covered(l) \subseteq Covered(areas)
    BY <2>4, <2>5
  <2>7. InOrder'
    BY <1>4, <1>5, <2>2, <2>4, <2>5 DEF InOrder
  <2>8. whole => Usage(Covered(areas'), program, blocks)
    BY <1>4, <2>6, UsageOfLess DEF MInv
  <2> QED BY <1>4, <1>5, <1>6, <2>7, <2>8 DEF MInv
<1> QED BY <1>7, <1>8

(* YY_VirtualFree of whatever range it accepts: the list stays in order,   *)
(* and as long as programs free blocks only, what is in use stays out of   *)
(* it.                                                                     *)
LEMMA VirtualFreeKeeps ==
  ASSUME MInv, stage = "running", stage' = stage, ~wrapped, NEW a \in Frees,
         VirtualFree(a.start, a.size)
  PROVE  MInv'
<1>1. PICK s \in Nat, n \in Nat \ {0} : s = a.start /\ n = a.size
  BY AllocatorAssumption DEF Ranges64
<1>2. PICK r : r = FreedIn(areas, s, n)
  OBVIOUS
<1>3. areas' = r /\ wrapped' = (wrapped \/ Wraps(s, n))
  BY <1>1, <1>2 DEF VirtualFree, GivenBack
<1>4. \/ Area(s, n) \in blocks /\ blocks' = blocks \ {Area(s, n)} /\ UNCHANGED <<program, foreign>>
      \/ foreign' = foreign + 1 /\ blocks' = {} /\ program' = {}
  BY <1>1 DEF VirtualFree
<1>5. /\ foreign \in Nat /\ foreign' \in Nat /\ (whole' => whole)
      /\ wrapped' \in BOOLEAN /\ (~whole' => program' = {} /\ blocks' = {})
  <2>1. foreign \in Nat /\ foreign' \in Nat /\ (whole' => whole)
    BY <1>4 DEF MInv, whole
  <2>2. wrapped' \in BOOLEAN
    BY <1>3 DEF Wraps
  <2>3. ~whole' => program' = {} /\ blocks' = {}
    BY <1>4 DEF MInv, whole
  <2> QED BY <2>1, <2>2, <2>3
<1>6. CASE wrapped'
  BY <1>5, <1>6 DEF MInv
<1>7. CASE ~wrapped'
  <2>1. s + n < Space
    <3>1. ~Wraps(s, n)
      BY <1>3, <1>7
    <3> QED BY <3>1, AllocatorAssumption DEF Wraps
  <2>2. PICK top \in Nat : top < Space /\ FreeAreas(areas, top) /\ (whole => top = Top)
    BY DEF MInv, InOrder
  <2>3. PICK e \in Nat : e < Space /\ FreeAreas(r, e) /\ (s + n <= top => e = top)
    BY <1>2, <2>1, <2>2, FreedFacts
  <2>4. CASE whole'
    <3>1. /\ whole /\ Area(s, n) \in blocks /\ blocks' = blocks \ {Area(s, n)}
          /\ program' = program
      <4>1. foreign' # foreign + 1
        BY <1>5, <2>4 DEF whole
      <4> QED BY <1>4, <1>5, <2>4, <4>1
    <3>2. PICK b \in blocks : b = Area(s, n) /\ b.start = s /\ b.size = n /\ End(b) = s + n
      BY <1>1, <3>1, AreaFacts
    <3>3. Usage(Covered(areas), program, blocks)
      BY <3>1 DEF MInv
    <3>4. s + n <= top
      BY <2>2, <3>1, <3>2, <3>3 DEF Usage, InMemory
    <3>5. /\ Span(b.start, b.size + 1) \cap Covered(areas) = {}
          /\ Usage(Covered(areas) \cup Span(b.start, b.size), program, blocks \ {b})
      BY <3>3, UsageOfFreed
    <3>6. Covered(r) = Covered(areas) \cup Span(s, n)
      <4>1. Span(s, n + 1) \cap Covered(areas) = {}
        BY <3>2, <3>5
      <4>2. /\ \E x \in Nat : x < Space /\ FreeAreas(r, x) /\ (s + n <= top => x = top)
            /\ Span(s, n + 1) \cap Covered(areas) = {} =>
                 Covered(r) = Covered(areas) \cup Span(s, n)
        BY ONLY <1>2, <2>1, <2>2, FreedFacts, s \in Nat, n \in Nat \ {0}
      <4> QED BY <4>1, <4>2
    <3>7. Usage(Covered(areas'), program', blocks')
      BY <1>3, <3>1, <3>2, <3>5, <3>6
    <3>8. InOrder'
      BY <1>3, <2>2, <2>3, <3>1, <3>4 DEF InOrder
    <3> QED BY <1>5, <2>4, <3>7, <3>8 DEF MInv
  <2>5. CASE ~whole'
    <3>1. InOrder'
      BY <1>3, <2>3, <2>5 DEF InOrder
    <3> QED BY <1>5, <2>5, <3>1 DEF MInv
  <2> QED BY <2>4, <2>5
<1> QED BY <1>6, <1>7

-----------------------------------------------------------------------------
(* The arguments are being copied, or all of them have been.               *)
Filling == stage \in {"copying", "started"}

(* The invariant of the call that starts a program: how far the copying of *)
(* the arguments is, and what has been written by then.  One argument has  *)
(* arrived as soon as it is copied, if its string begins behind its        *)
(* pointer.                                                                *)
XInv ==
  /\ stage \in {"accepted", "loading", "copying", "started", "running", "dead"}
  /\ lens \in Seq(Nat) /\ argv \in Seq(Nat) /\ values \in Nat
  /\ next \in 1 .. argc + 1 /\ Len(argv) = next - 1
  /\ ~Filling => next = 1 /\ DOMAIN memory = {}
  /\ Filling => values = ValuesStart + StringBytes(lens)[next - 1]
  /\ DOMAIN memory \subseteq 0 .. Room - 1
  /\ Filling /\ argc = 1 /\ next = 2 /\ 2 * Stride >= Pointer => Arrived(1)
  /\ stage = "started" => next = argc + 1

(* The addresses reserved for a program header.                            *)
SegmentSpan(h) == Span(Base(h), Limit(h) - Base(h))

(* A header has been loaded: no end wrapped around, its pages are mapped,  *)
(* and they have its bytes of the file too.                                *)
HeaderLoaded(h) ==
  /\ ~EndWraps(h) /\ Limit(h) < Top /\ h.vaddr + h.bytes <= Limit(h)
  /\ Area(Base(h), Limit(h) - Base(h)) \in program
  /\ PagesIn(Base(h), Limit(h)) \subseteq mapped

(* Mapped memory for the arguments that no segment has.                    *)
Beside(a) ==
  /\ InMemory(a) /\ a.size >= Room /\ PagesIn(a.start, Stop(a)) \subseteq mapped
  /\ \A i \in 1 .. loaded :
       file[i].type = "load" => SegmentSpan(file[i]) \cap Span(a.start, a.size) = {}

(* The segments loaded so far are in memory, each behind the one before,   *)
(* nothing else is mapped before there is memory for the arguments, and    *)
(* that is beside them.                                                    *)
Loaded ==
  /\ \A i \in 1 .. loaded : file[i].type = "load" => HeaderLoaded(file[i])
  /\ \A i, j \in 1 .. loaded :
       file[i].type = "load" /\ file[j].type = "load" /\ i < j => Limit(file[i]) <= Base(file[j])
  /\ stage = "loading" =>
       \A g \in mapped : \E i \in 1 .. loaded :
         file[i].type = "load" /\ g \in PagesIn(Base(file[i]), Limit(file[i]))
  /\ Filling => loaded = Len(file) /\ \E a \in program : Beside(a)

(* The invariant of the loader.                                            *)
SInv ==
  /\ file \in Seq(Headers) /\ loaded \in 0 .. Len(file)
  /\ stage \in {"accepted", "running", "dead"} => loaded = 0
  /\ stage = "accepted" => mapped = {}
  /\ ~wrapped => Loaded

-----------------------------------------------------------------------------
(* The sums that StringBytes is: there is one function that adds up the    *)
(* strings, as the first number up to which there is none could be reached *)
(* from the number before it.                                              *)
LEMMA StringBytesFacts ==
  ASSUME NEW l \in Seq(Nat)
  PROVE  /\ StringBytes(l)[0] = 0
         /\ \A n \in 0 .. Len(l) : StringBytes(l)[n] \in Nat
         /\ \A n \in 1 .. Len(l) : StringBytes(l)[n] = StringBytes(l)[n - 1] + l[n] + 1
<1> DEFINE Sums(f, k) == /\ f \in [0 .. k -> Nat] /\ f[0] = 0
                         /\ \A n \in 1 .. k : f[n] = f[n - 1] + l[n] + 1
           Bad == {k \in 0 .. Len(l) : ~\E f : Sums(f, k)}
           Step(f) == [n \in 0 .. Len(l) |-> IF n = 0 THEN 0 ELSE f[n - 1] + l[n] + 1]
<1>1. Len(l) \in Nat /\ \A n \in 1 .. Len(l) : l[n] \in Nat
  BY LenProperties
<1>2. Bad = {}
  <2> SUFFICES ASSUME Bad # {} PROVE FALSE
    OBVIOUS
  <2>1. Bad \subseteq Nat
    OBVIOUS
  <2>2. PICK k \in Bad : \A j \in Bad : k <= j
    <3> HIDE DEF Bad
    <3> QED BY <2>1, MinIsLeast
  <2>3. k \in 0 .. Len(l) /\ ~\E f : Sums(f, k)
    BY <2>2
  <2>4. k # 0
    <3>1. Sums([n \in 0 .. 0 |-> 0], 0)
      OBVIOUS
    <3> QED BY <2>3, <3>1
  <2>5. k - 1 \in 0 .. Len(l) /\ k \in 1 .. Len(l)
    BY <1>1, <2>3, <2>4
  <2>6. k - 1 \notin Bad
    <3> HIDE DEF Bad
    <3> QED BY <1>1, <2>2, <2>3
  <2>7. PICK f : Sums(f, k - 1)
    BY <2>5, <2>6
  <2> DEFINE g == [n \in 0 .. k |-> IF n = k THEN f[k - 1] + l[k] + 1 ELSE f[n]]
  <2>8. g \in [0 .. k -> Nat]
    <3>1. ASSUME NEW n \in 0 .. k
          PROVE  (IF n = k THEN f[k - 1] + l[k] + 1 ELSE f[n]) \in Nat
      <4>1. f[k - 1] \in Nat /\ l[k] \in Nat
        BY <1>1, <2>5, <2>7
      <4>2. n # k => n \in 0 .. k - 1
        BY <2>5
      <4>3. n # k => f[n] \in Nat
        BY <2>7, <4>2
      <4> QED BY <4>1, <4>3
    <3> QED BY <3>1
  <2>9. g[0] = 0
    <3>1. 0 \in 0 .. k /\ 0 # k
      BY <2>5
    <3> QED BY <2>7, <3>1
  <2>10. ASSUME NEW n \in 1 .. k PROVE g[n] = g[n - 1] + l[n] + 1
    <3>1. n \in 0 .. k /\ n - 1 \in 0 .. k /\ n - 1 # k
      BY <2>5
    <3>2. g[n - 1] = f[n - 1]
      BY <3>1
    <3>3. CASE n = k
      BY <3>1, <3>2, <3>3
    <3>4. CASE n # k
      <4>1. n \in 1 .. k - 1
        BY <2>5, <3>4
      <4>2. g[n] = f[n]
        BY <3>1, <3>4
      <4> QED BY <2>7, <3>2, <4>1, <4>2
    <3> QED BY <3>3, <3>4
  <2>11. Sums(g, k)
    <3> HIDE DEF g
    <3> QED BY <2>8, <2>9, <2>10
  <2> QED BY <2>3, <2>11
<1>3. PICK f : Sums(f, Len(l))
  <2>1. Len(l) \in 0 .. Len(l)
    BY <1>1
  <2> SUFFICES ASSUME ~\E f : Sums(f, Len(l)) PROVE FALSE
    OBVIOUS
  <2>2. Len(l) \in Bad
    BY <2>1
  <2> QED BY <1>2, <2>2
<1>4. f = Step(f)
  <2>1. ASSUME NEW n \in 0 .. Len(l) PROVE f[n] = IF n = 0 THEN 0 ELSE f[n - 1] + l[n] + 1
    <3>1. n # 0 => n \in 1 .. Len(l)
      OBVIOUS
    <3> QED BY <1>3, <3>1
  <2>2. f = [n \in 0 .. Len(l) |-> f[n]]
    BY <1>3
  <2> QED BY <2>1, <2>2
<1>5. PICK g : g = CHOOSE f_1 : f_1 = Step(f_1)
  OBVIOUS
<1>6. g = Step(g)
  BY <1>4, <1>5
<1>7. StringBytes(l) = g
  BY <1>5 DEF StringBytes
<1>8. g[0] = 0
  <2>1. 0 \in 0 .. Len(l)
    BY <1>1
  <2> QED BY <1>6, <2>1
<1>9. ASSUME NEW n \in 1 .. Len(l) PROVE g[n] = g[n - 1] + l[n] + 1
  <2>1. n \in 0 .. Len(l) /\ n # 0
    BY <1>1
  <2>2. g[n] = Step(g)[n]
    BY <1>6
  <2> QED BY <2>1, <2>2
<1>10. \A n \in 0 .. Len(l) : g[n] = f[n]
  <2> DEFINE Differ == {n \in 0 .. Len(l) : g[n] # f[n]}
  <2>1. ASSUME Differ # {} PROVE FALSE
    <3>1. Differ \subseteq Nat
      OBVIOUS
    <3>2. PICK n \in Differ : \A j \in Differ : n <= j
      <4> HIDE DEF Differ
      <4> QED BY <2>1, <3>1, MinIsLeast
    <3>3. n \in 0 .. Len(l) /\ g[n] # f[n]
      BY <3>2
    <3>4. n # 0
      BY <1>3, <1>8, <3>3
    <3>5. n \in 1 .. Len(l) /\ n - 1 \in 0 .. Len(l)
      BY <1>1, <3>3, <3>4
    <3>6. n - 1 \notin Differ
      <4> HIDE DEF Differ
      <4> QED BY <3>2, <3>5
    <3>7. g[n - 1] = f[n - 1]
      BY <3>5, <3>6
    <3> QED BY <1>3, <1>9, <3>3, <3>5, <3>7
  <2> QED BY <2>1
<1>11. \A n \in 0 .. Len(l) : g[n] \in Nat
  BY <1>3, <1>10
<1> QED BY <1>7, <1>8, <1>9, <1>11

(* All strings take at least what the first n take.                        *)
LEMMA StringBytesGrow ==
  ASSUME NEW l \in Seq(Nat), NEW n \in 0 .. Len(l)
  PROVE  StringBytes(l)[n] <= StringBytes(l)[Len(l)]
<1>1. PICK len \in Nat : len = Len(l)
  BY LenProperties
<1>2. PICK f : f = StringBytes(l)
  OBVIOUS
<1>3. /\ \A k \in 0 .. len : f[k] \in Nat
      /\ \A k \in 1 .. len : f[k] = f[k - 1] + l[k] + 1 /\ l[k] \in Nat
  BY <1>1, <1>2, StringBytesFacts, LenProperties
<1> DEFINE Bad == {k \in 0 .. len : f[len - k] > f[len]}
<1>4. ASSUME Bad # {} PROVE FALSE
  <2>1. Bad \subseteq Nat
    OBVIOUS
  <2>2. PICK k \in Bad : \A j \in Bad : k <= j
    <3> HIDE DEF Bad
    <3> QED BY <1>4, <2>1, MinIsLeast
  <2>3. k \in 0 .. len /\ f[len - k] > f[len]
    BY <2>2
  <2>4. k # 0
    <3>1. f[len] \in Nat /\ len - 0 = len
      BY <1>1, <1>3
    <3> QED BY <2>3, <3>1
  <2>5. PICK j \in 1 .. len : j = len - k + 1 /\ j - 1 = len - k /\ len - (k - 1) = j
    <3>1. len \in Nat /\ k \in Int /\ k >= 1 /\ k <= len
      BY <1>1, <2>3, <2>4
    <3>2. PICK j \in Int : j = len - k + 1
      BY <3>1
    <3>3. j \in 1 .. len /\ j - 1 = len - k /\ len - (k - 1) = j
      BY <3>1, <3>2
    <3> QED BY <3>2, <3>3
  <2>6. k - 1 \in 0 .. len /\ k - 1 \notin Bad
    <3>1. k - 1 \in 0 .. len /\ ~(k <= k - 1)
      BY <1>1, <2>3, <2>4
    <3> HIDE DEF Bad
    <3> QED BY <2>2, <3>1
  <2>7. ~(f[j] > f[len])
    BY <2>5, <2>6
  <2>8. f[j] = f[j - 1] + l[j] + 1 /\ l[j] \in Nat /\ f[j - 1] > f[len]
    BY <1>3, <2>3, <2>5
  <2>9. f[j] \in Nat /\ f[j - 1] \in Nat /\ f[len] \in Nat
    <3>1. j \in 0 .. len /\ j - 1 \in 0 .. len /\ len \in 0 .. len
      BY <1>1
    <3> QED BY <1>3, <3>1
  <2>10. PICK x \in Nat, y \in Nat, z \in Nat, w \in Nat :
           x = f[j - 1] /\ y = f[j] /\ z = f[len] /\ w = l[j]
    BY <2>8, <2>9
  <2>11. y = x + w + 1 /\ x > z /\ ~(y > z)
    BY <2>7, <2>8, <2>10
  <2>12. x \in Nat /\ y \in Nat /\ z \in Nat /\ w \in Nat
    BY <2>10
  <2> QED BY <2>11, <2>12
<1>5. PICK k \in 0 .. len : n = len - k
  <2>1. len - n \in 0 .. len /\ n = len - (len - n)
    BY <1>1
  <2> QED BY <2>1
<1>6. f[n] \in Nat /\ f[len] \in Nat
  BY <1>1, <1>3
<1>7. ~(f[n] > f[len])
  BY <1>4, <1>5
<1> QED BY <1>1, <1>2, <1>6, <1>7

(* The room for the arguments, and that it has the pointers and all the    *)
(* strings.                                                                *)
LEMMA RoomFacts ==
  ASSUME lens \in Seq(Nat)
  PROVE  /\ Room \in Nat /\ ValuesStart \in Nat
         /\ ValuesStart + StringBytes(lens)[argc] <= Room
         /\ \A k \in 1 .. argc : /\ PointerCells(k) \subseteq 0 .. Room - 1
                                 /\ PointerStart(k) \in Nat
<1>1. PICK a \in Nat, p \in Nat \ {0}, q \in Nat :
        a = argc /\ p = Pointer /\ q = Stride /\ q <= p
  BY LenProperties, ExecuteAssumption DEF argc
<1>2. PICK n \in Nat : n = StringBytes(lens)[argc]
  <2>1. argc \in 0 .. Len(lens)
    BY LenProperties DEF argc
  <2> QED BY <2>1, StringBytesFacts
<1>3. Room = p * (a + 1) + n /\ ValuesStart = q * (a + 1)
  BY <1>1, <1>2 DEF Room, ValuesStart
<1>4. PICK d \in Nat : p = q + d
  <2>1. p - q \in Nat /\ p = q + (p - q)
    BY <1>1
  <2> QED BY <2>1
<1>5. p * (a + 1) = q * (a + 1) + d * (a + 1)
  BY <1>1, <1>4
<1>6. p * (a + 1) \in Nat /\ q * (a + 1) \in Nat /\ d * (a + 1) \in Nat
  BY <1>1, <1>4
<1>7. PICK u \in Nat, v \in Nat, w \in Nat :
        u = p * (a + 1) /\ v = q * (a + 1) /\ w = d * (a + 1) /\ u = v + w
  BY <1>5, <1>6
<1>8. Room = u + n /\ ValuesStart = v
  BY <1>3, <1>7
<1>9. ASSUME NEW k \in 1 .. argc
      PROVE  PointerCells(k) \subseteq 0 .. Room - 1 /\ PointerStart(k) \in Nat
  <2>1. PICK e \in Nat, g \in Nat : a = k + e /\ g = k - 1 /\ k = g + 1
    <3>1. a - k \in Nat /\ a = k + (a - k) /\ k - 1 \in Nat /\ k = k - 1 + 1
      BY <1>1
    <3> QED BY <3>1
  <2>2. p * (a + 1) = p * g + p * e + 2 * p
    BY <1>1, <2>1
  <2>3. p * g \in Nat /\ p * e \in Nat
    BY <1>1, <2>1
  <2>4. PICK x \in Nat, y \in Nat : x = p * g /\ y = p * e /\ u = x + y + 2 * p
    BY <1>7, <2>2, <2>3
  <2>5. PointerStart(k) = x
    BY <1>1, <2>1, <2>4 DEF PointerStart
  <2>6. PointerCells(k) = x .. x + p - 1
    BY <1>1, <2>5 DEF PointerCells
  <2>7. x + p - 1 <= Room - 1
    BY <1>1, <1>2, <1>8, <2>4
  <2>8. ASSUME NEW b \in x .. x + p - 1 PROVE b \in 0 .. Room - 1
    <3>1. b \in Int /\ b >= 0 /\ b <= x + p - 1
      BY <1>1, <2>4
    <3>2. PICK m \in Nat : m = Room
      BY <1>2, <1>7, <1>8
    <3>3. x + p - 1 <= m - 1 /\ x + p - 1 \in Int
      BY <1>1, <2>4, <2>7, <3>2
    <3>4. b \in 0 .. m - 1
      BY <3>1, <3>2, <3>3
    <3> QED BY <3>2, <3>4
  <2> QED BY <2>4, <2>5, <2>6, <2>8
<1>10. Room \in Nat /\ ValuesStart \in Nat /\ ValuesStart + n <= Room
  BY <1>2, <1>7, <1>8
<1> QED BY <1>2, <1>9, <1>10

-----------------------------------------------------------------------------
(* What Run and Dies forget.                                               *)
LEMMA ForgetKeepsX ==
  ASSUME Forget, stage' \in {"running", "dead"}
  PROVE  XInv' /\ SInv'
<1>1. /\ file' = <<>> /\ loaded' = 0 /\ lens' = <<>> /\ next' = 1 /\ values' = 0
      /\ argv' = <<>> /\ DOMAIN memory' = {}
  BY DEF Forget
<1>2. Len(<<>>) = 0 /\ <<>> \in Seq(Nat) /\ <<>> \in Seq(Headers)
  OBVIOUS
<1>3. ~Filling' /\ stage' # "started" /\ stage' # "loading"
  BY DEF Filling
<1>4. XInv'
  BY <1>1, <1>2, <1>3 DEF XInv, argc
<1>5. Loaded'
  BY <1>1, <1>3 DEF Loaded
<1>6. SInv'
  BY <1>1, <1>2, <1>3, <1>5 DEF SInv
<1> QED BY <1>4, <1>6

(* The arguments are as they were, in a stage of the same kind.            *)
LEMMA SameArguments ==
  ASSUME XInv, UNCHANGED <<lens, next, values, argv, memory>>, Filling' <=> Filling,
         stage' \in {"accepted", "loading", "copying", "started", "running", "dead"},
         stage' = "started" => stage = "started" \/ next > argc
  PROVE  XInv'
<1>1. argc' = argc /\ Room' = Room /\ ValuesStart' = ValuesStart /\ Arrived(1)' = Arrived(1)
  BY DEF argc, Room, ValuesStart, Arrived, StringByte
<1>2. stage' = "started" => next = argc + 1
  <2>1. argc \in Nat
    BY LenProperties DEF XInv, argc
  <2> QED BY <2>1 DEF XInv
<1> QED BY <1>1, <1>2 DEF XInv

(* The arguments are new, none of them is copied yet.                      *)
LEMMA ParseKeepsX ==
  ASSUME XInv, Parse
  PROVE  XInv'
<1>1. /\ stage = "accepted" /\ stage' = "loading" /\ UNCHANGED <<next, values, argv, memory>>
      /\ \E n \in 0 .. MaxCount : lens' \in [1 .. n -> Lengths]
  BY DEF Parse
<1>2. lens' \in Seq(Nat) /\ Len(lens') \in Nat
  <2>1. PICK n \in Nat : lens' \in [1 .. n -> Lengths]
    BY <1>1, ExecuteAssumption
  <2>2. lens' \in [1 .. n -> Nat]
    BY <2>1, ExecuteAssumption
  <2> QED BY <2>2, SeqDef, LenProperties
<1>3. ~Filling /\ ~Filling' /\ stage' # "started"
  BY <1>1 DEF Filling
<1> QED BY <1>1, <1>2, <1>3 DEF XInv, argc

(* The strings will start where the code takes the array to end.           *)
LEMMA AllocArgumentsKeepsX ==
  ASSUME XInv, AllocArguments
  PROVE  XInv'
<1>1. /\ stage = "loading" /\ stage' = "copying" /\ values' = ValuesStart
      /\ UNCHANGED <<lens, next, argv, memory>>
  BY DEF AllocArguments
<1>2. ~Filling /\ Filling' /\ stage' # "started" /\ lens \in Seq(Nat) /\ next = 1
  BY <1>1 DEF Filling, XInv
<1>3. argc' = argc /\ Room' = Room /\ ValuesStart' = ValuesStart
  BY <1>1 DEF argc, Room, ValuesStart
<1>4. ValuesStart \in Nat /\ StringBytes(lens)[0] = 0
  BY <1>2, RoomFacts, StringBytesFacts
<1>5. values' = ValuesStart' + StringBytes(lens')[next' - 1] /\ values' \in Nat
  BY <1>1, <1>2, <1>3, <1>4
<1> QED BY <1>1, <1>2, <1>3, <1>5 DEF XInv

(* A pointer and a string are written where there is room, and the string  *)
(* of a single argument does not touch its pointer.                        *)
LEMMA CopyArgumentKeepsX ==
  ASSUME XInv, CopyArgument
  PROVE  XInv'
<1>1. /\ stage = "copying" /\ next <= argc /\ stage' = stage /\ lens' = lens
      /\ argv' = Append(argv, values) /\ values' = values + lens[next] + 1 /\ next' = next + 1
      /\ DOMAIN memory' =
           DOMAIN memory \cup PointerCells(next) \cup StringCells(values, lens[next])
      /\ \A b \in PointerCells(next) \cup StringCells(values, lens[next]) :
           memory'[b] = IF b \in StringCells(values, lens[next])
                        THEN StringByte(next, b - values)
                        ELSE PointerByte(next, b - PointerStart(next))
  BY DEF CopyArgument
<1>2. Filling /\ Filling' /\ stage' # "started"
  BY <1>1 DEF Filling
<1>3. PICK a \in Nat, k \in Nat : /\ a = argc /\ a = Len(lens) /\ k = next /\ k \in 1 .. a
                                  /\ lens[k] \in Nat /\ lens \in Seq(Nat)
  <2>1. lens \in Seq(Nat) /\ next \in 1 .. argc + 1 /\ argc = Len(lens)
    BY DEF XInv, argc
  <2>2. argc \in Nat /\ \A i \in 1 .. argc : lens[i] \in Nat
    BY <2>1, LenProperties
  <2>3. next \in Nat /\ next \in 1 .. argc
    BY <1>1, <2>1, <2>2
  <2> QED BY <2>1, <2>2, <2>3
<1>4. /\ argv \in Seq(Nat) /\ values \in Nat /\ Len(argv) = k - 1
      /\ values = ValuesStart + StringBytes(lens)[k - 1] /\ DOMAIN memory \subseteq 0 .. Room - 1
  BY <1>2, <1>3 DEF XInv
<1>5. argc' = argc /\ Room' = Room /\ ValuesStart' = ValuesStart
  BY <1>1 DEF argc, Room, ValuesStart
<1>6. PICK start \in Nat, room \in Nat, all \in Nat, before \in Nat, len \in Nat :
        /\ start = ValuesStart /\ room = Room /\ all = StringBytes(lens)[a]
        /\ before = StringBytes(lens)[k - 1] /\ len = lens[k]
        /\ start + all <= room
        /\ StringBytes(lens)[k] = before + len + 1 /\ before + len + 1 <= all
  <2>1. k - 1 \in 0 .. Len(lens) /\ k \in 1 .. Len(lens) /\ k \in 0 .. Len(lens)
        /\ a \in 0 .. Len(lens)
    BY <1>3
  <2>2. /\ StringBytes(lens)[k - 1] \in Nat /\ StringBytes(lens)[a] \in Nat
        /\ StringBytes(lens)[k] = StringBytes(lens)[k - 1] + lens[k] + 1
    BY <1>3, <2>1, StringBytesFacts
  <2>3. StringBytes(lens)[k] <= StringBytes(lens)[a]
    BY <1>3, <2>1, StringBytesGrow
  <2>4. Room \in Nat /\ ValuesStart \in Nat /\ ValuesStart + StringBytes(lens)[a] <= Room
    BY <1>3, RoomFacts
  <2>5. PICK start \in Nat, room \in Nat, all \in Nat, before \in Nat, len \in Nat :
          /\ start = ValuesStart /\ room = Room /\ all = StringBytes(lens)[a]
          /\ before = StringBytes(lens)[k - 1] /\ len = lens[k]
    BY <1>3, <2>2, <2>4
  <2>6. StringBytes(lens)[k] = before + len + 1
    BY <2>2, <2>5
  <2>7. before + len + 1 <= all
    BY <2>3, <2>5, <2>6
  <2>8. start + all <= room
    BY <2>4, <2>5
  <2> QED BY <2>5, <2>6, <2>7, <2>8
<1>7. values = start + before
  BY <1>4, <1>6
<1>8. values' = ValuesStart' + StringBytes(lens')[next' - 1] /\ values' \in Nat
  <2>1. next' - 1 = k /\ next' - 1 \in Nat
    BY <1>1, <1>3
  <2>2. StringBytes(lens')[next' - 1] = before + len + 1
    BY <1>1, <1>6, <2>1
  <2>3. values' = start + before + len + 1
    BY <1>1, <1>3, <1>6, <1>7
  <2> QED BY <1>5, <1>6, <2>2, <2>3
<1>9. DOMAIN memory' \subseteq 0 .. Room' - 1
  <2>1. PointerCells(next) \subseteq 0 .. Room - 1
    BY <1>3, RoomFacts
  <2>2. ASSUME NEW b \in StringCells(values, lens[next]) PROVE b \in 0 .. Room - 1
    <3>1. b \in start + before .. start + before + len
      BY <1>3, <1>6, <1>7 DEF StringCells
    <3>2. b \in 0 .. room - 1
      <4>1. start + before + len <= room - 1
        BY <1>6
      <4> QED BY <1>6, <3>1, <4>1
    <3> QED BY <1>6, <3>2
  <2> QED BY <1>1, <1>4, <1>5, <2>1, <2>2
<1>10. /\ argv' \in Seq(Nat) /\ Len(argv') = k /\ next' = k + 1 /\ argv'[k] = values
  BY <1>1, <1>3, <1>4
<1>11. ASSUME argc' = 1, next' = 2, 2 * Stride >= Pointer PROVE Arrived(1)'
  <2>1. a = 1 /\ k = 1 /\ next = 1
    BY <1>3, <1>5, <1>10, <1>11
  <2>2. StringBytes(lens)[k - 1] = 0
    BY <1>3, <2>1, StringBytesFacts
  <2>3. values = 2 * Stride /\ Pointer \in Nat /\ Stride \in Nat
    <3>1. Pointer \in Nat /\ Stride \in Nat /\ argc = 1
      BY <1>3, <2>1, ExecuteAssumption
    <3>2. ValuesStart = Stride * (1 + 1)
      BY <3>1 DEF ValuesStart
    <3>3. values = ValuesStart
      BY <1>6, <1>7, <2>2
    <3> QED BY <3>1, <3>2, <3>3
  <2>4. PointerStart(1) = 0 /\ PointerCells(1) = 0 .. Pointer - 1
    BY <2>3 DEF PointerCells, PointerStart
  <2>5. \A b \in PointerCells(1) : b \notin StringCells(values, lens[1])
    BY <1>3, <1>11, <2>1, <2>3, <2>4 DEF StringCells
  <2>6. \A b \in PointerCells(1) : memory'[b] = PointerByte(1, b - PointerStart(1))
    BY <1>1, <2>1, <2>5
  <2>7. \A b \in StringCells(values, lens[1]) : memory'[b] = StringByte(1, b - values)
    BY <1>1, <2>1
  <2>8. argv'[1] = values /\ lens'[1] = lens[1]
    BY <1>1, <1>10, <2>1
  <2>9. \A b : StringByte(1, b)' = StringByte(1, b)
    BY <1>1 DEF StringByte
  <2> QED BY <2>6, <2>7, <2>8, <2>9 DEF Arrived
<1>12. next' \in 1 .. argc' + 1 /\ Len(argv') = next' - 1
  <2>1. a \in Nat /\ k \in 1 .. a /\ argc' = a
    BY <1>3, <1>5
  <2>2. next' = k + 1 /\ Len(argv') = k
    BY <1>10
  <2> QED BY <2>1, <2>2
<1> QED BY <1>1, <1>2, <1>3, <1>8, <1>9, <1>10, <1>11, <1>12 DEF XInv

-----------------------------------------------------------------------------
(* A number of bytes is not more than the pages for it.                    *)
LEMMA AlignUpFacts ==
  ASSUME NEW b \in Nat
  PROVE  /\ AlignUp(b) \in Nat /\ b <= AlignUp(b) /\ AlignUp(b) <= b + PageBytes - 1
         /\ \E l \in Nat : AlignUp(b) = PageBytes * l
<1>1. PICK p \in Nat \ {0} : p = PageBytes
  BY AllocatorAssumption
<1>2. PICK m \in Nat : m = b + p - 1
  BY <1>1
<1>3. PICK q \in Nat : q = m \div p /\ p * q <= m /\ m < p * q + p
  BY <1>1, <1>2, IntDivFacts
<1>4. PICK r \in Nat : r = p * q /\ b <= r /\ r <= m
  <2>1. PICK r \in Nat : r = p * q
    BY <1>1, <1>3
  <2> QED BY <1>1, <1>2, <1>3, <2>1
<1>5. AlignUp(b) = r
  BY <1>1, <1>2, <1>3, <1>4 DEF AlignUp, AlignDown
<1> QED BY <1>1, <1>2, <1>3, <1>4, <1>5

(* The pages of a program header whose end does not wrap around.           *)
LEMMA HeaderFacts ==
  ASSUME NEW h \in Headers, ~EndWraps(h)
  PROVE  /\ h.vaddr \in Nat /\ h.memory \in Nat /\ h.bytes \in Nat
         /\ Base(h) \in Nat /\ Limit(h) \in Nat /\ Limit(h) < Space
         /\ Base(h) <= h.vaddr /\ h.vaddr + h.memory <= Limit(h) /\ Base(h) <= Limit(h)
         /\ Limit(h) - Base(h) \in Nat /\ Minus(Limit(h), Base(h)) = Limit(h) - Base(h)
         /\ \E b \in Nat, l \in Nat : Base(h) = PageBytes * b /\ Limit(h) = PageBytes * l
<1>1. PICK p \in Nat \ {0}, sp \in Nat \ {0} : p = PageBytes /\ sp = Space
  BY AllocatorAssumption
<1>2. PICK v \in Nat, m \in Nat : v = h.vaddr /\ m = h.memory /\ h.bytes \in Nat
  BY DEF Headers, Words
<1>3. PICK b \in Nat, base \in Nat : b = v \div p /\ base = p * b /\ base <= v
  <2>1. PICK b \in Nat : b = v \div p /\ p * b <= v
    BY <1>1, IntDivFacts
  <2> QED BY <1>1, <2>1
<1>4. v + m + p - 1 < sp
  <2>1. ~(v + (m + p - 1) >= sp)
    BY <1>1, <1>2 DEF EndWraps, Wraps
  <2> QED BY <1>1, <1>2, <2>1
<1>5. Plus(v, m) = v + m /\ v + m \in Nat
  <2>1. v + m < Space
    BY <1>1, <1>4
  <2> QED BY <2>1, PlusFacts
<1>6. PICK limit \in Nat, l \in Nat : /\ limit = AlignUp(v + m) /\ v + m <= limit
                                      /\ limit <= v + m + p - 1 /\ limit = p * l
  BY <1>1, <1>5, AlignUpFacts
<1>7. limit < sp
  BY <1>1, <1>4, <1>6
<1>8. limit % sp = limit
  BY <1>1, <1>7, RestOfSmall
<1>9. Limit(h) = limit /\ Base(h) = base
  BY <1>1, <1>2, <1>3, <1>5, <1>6, <1>8 DEF Limit, Base, AlignDown
<1>10. base <= limit /\ limit - base \in Nat
  BY <1>3, <1>6
<1>11. Minus(limit, base) = limit - base
  BY <1>1, <1>7, <1>10, MinusFacts
<1> QED BY <1>1, <1>2, <1>3, <1>6, <1>7, <1>9, <1>10, <1>11

(* The pages mapped for such a header below Top: those from that of its    *)
(* base to the one before that of its limit.                               *)
LEMMA HeaderPages ==
  ASSUME NEW h \in Headers, ~EndWraps(h), Limit(h) < Top
  PROVE  \E b \in Nat, l \in Nat :
           /\ Base(h) = PageBytes * b /\ Limit(h) = PageBytes * l
           /\ PagesIn(Base(h), Limit(h)) = b .. l - 1
           /\ \A x \in Nat : x \div PageBytes \in b .. l - 1 <=> x \in SegmentSpan(h)
<1>1. PICK b \in Nat, l \in Nat : Base(h) = PageBytes * b /\ Limit(h) = PageBytes * l
  BY HeaderFacts
<1>2. PICK p \in Nat \ {0} : p = PageBytes
  BY AllocatorAssumption
<1>3. PagesIn(Base(h), Limit(h)) = b .. l - 1
  <2>1. PageBytes * l <= Top
    BY <1>1, HeaderFacts, AllocatorAssumption
  <2>2. PagesIn(PageBytes * b, PageBytes * l) = b .. l - 1
    BY <2>1, PagesOfWhole
  <2> QED BY <1>1, <2>2
<1>4. ASSUME NEW x \in Nat PROVE x \div p \in b .. l - 1 <=> x \in SegmentSpan(h)
  <2>1. PICK q \in Nat : q = x \div p
    BY <1>2, IntDivFacts
  <2>2. (x < p * b <=> q < b) /\ (x < p * l <=> q < l)
    BY <1>2, <2>1, BelowMultiple
  <2>3. PICK base \in Nat, limit \in Nat :
          base = p * b /\ limit = p * l /\ base = Base(h) /\ limit = Limit(h) /\ limit - base \in Nat
    BY <1>1, <1>2, HeaderFacts
  <2>4. x \in SegmentSpan(h) <=> base <= x /\ x < limit
    <3>1. PICK n \in Nat : n = limit - base /\ base + n = limit
      BY <2>3
    <3>2. SegmentSpan(h) = Span(base, n)
      BY <2>3, <3>1 DEF SegmentSpan
    <3>3. x \in Span(base, n) <=> base <= x /\ x < base + n
      BY <2>3, <3>1, SpanOf
    <3> QED BY <3>1, <3>2, <3>3
  <2>5. q \in b .. l - 1 <=> ~(q < b) /\ q < l
    BY <2>1
  <2>6. base <= x /\ x < limit <=> ~(x < p * b) /\ x < p * l
    BY <2>3
  <2> QED BY <2>1, <2>2, <2>4, <2>5, <2>6
<1> QED BY <1>1, <1>2, <1>3, <1>4

(* Each header of memory starts behind all those before it, if no end has  *)
(* wrapped around.                                                         *)
LEMMA BehindAllBefore ==
  ASSUME NEW f \in Seq(Headers), Parses(f), NEW k \in 1 .. Len(f), f[k].type = "load",
         \A i \in 1 .. k - 1 : f[i].type = "load" => ~EndWraps(f[i]),
         \A i, j \in 1 .. k - 1 :
           f[i].type = "load" /\ f[j].type = "load" /\ i < j => Limit(f[i]) <= Base(f[j]),
         NEW i \in 1 .. k - 1, f[i].type = "load", ~EndWraps(f[k])
  PROVE  Limit(f[i]) <= Base(f[k])
<1>1. PICK before : before = {j \in 1 .. k - 1 : f[j].type = "load"}
  OBVIOUS
<1>2. k \in Nat /\ k \in DOMAIN f /\ Len(f) \in Nat /\ f[k] \in Headers
      /\ \A j \in 1 .. k - 1 : f[j] \in Headers
  BY LenProperties
<1>3. PICK m \in before : m = Max(before) /\ \A y \in before : y <= m
  <2>1. i \in before
    BY <1>1
  <2>2. before \subseteq 1 .. k - 1 /\ before \subseteq Nat
    BY <1>1
  <2>3. IsFiniteSet(before)
    <3>1. 1 \in Int /\ k - 1 \in Int
      BY <1>2
    <3>2. IsFiniteSet(1 .. k - 1)
      BY <3>1, FS_Interval
    <3>3. before \in SUBSET (1 .. k - 1)
      BY <2>2
    <3> QED BY <3>2, <3>3, FS_Subset
  <2> QED BY <2>1, <2>2, <2>3, MaxIsGreatest
<1>4. Base(f[k]) >= Limit(f[m])
  <2>1. Base(f[k]) >= PrevEnd(f, k)
    BY <1>2 DEF Parses
  <2> QED BY <1>1, <1>3, <2>1 DEF PrevEnd
<1>5. /\ Base(f[k]) \in Nat /\ Limit(f[m]) \in Nat /\ Base(f[m]) \in Nat
      /\ Base(f[m]) <= Limit(f[m]) /\ Limit(f[i]) \in Nat
  BY <1>1, <1>2, <1>3, HeaderFacts
<1>6. CASE i = m
  BY <1>4, <1>5, <1>6
<1>7. CASE i # m
  <2>1. i < m /\ m \in 1 .. k - 1 /\ f[m].type = "load"
    BY <1>1, <1>3, <1>7
  <2>2. Limit(f[i]) <= Base(f[m])
    BY <2>1
  <2> QED BY <1>4, <1>5, <2>2
<1> QED BY <1>6, <1>7

-----------------------------------------------------------------------------
(* The steps of the loader.  While a program runs no segments are known.   *)
LEMMA IdleKeepsS ==
  ASSUME SInv, UNCHANGED <<file, loaded>>, stage = "running",
         stage' = "running" \/ (stage' = "accepted" /\ mapped' = {})
  PROVE  SInv'
<1>1. loaded = 0 /\ ~Filling' /\ stage' # "loading"
  BY DEF SInv, Filling
<1>2. Loaded'
  BY <1>1 DEF Loaded
<1> QED BY <1>1, <1>2 DEF SInv

(* The file is opened, none of its headers is in memory yet.               *)
LEMMA ParseKeepsS ==
  ASSUME SInv, Parse
  PROVE  SInv'
<1>1. /\ stage = "accepted" /\ stage' = "loading" /\ file' \in Files
      /\ UNCHANGED <<mapped, loaded>>
  BY DEF Parse, memoryVars
<1>2. loaded = 0 /\ mapped = {} /\ ~Filling' /\ file' \in Seq(Headers)
  BY <1>1, ExecuteAssumption DEF SInv, Filling
<1>3. 0 \in 0 .. Len(file')
  BY <1>2, LenProperties
<1>4. Loaded'
  BY <1>1, <1>2 DEF Loaded
<1> QED BY <1>1, <1>2, <1>3, <1>4 DEF SInv

(* Bytes of the file that go to mapped pages, those before the segment or  *)
(* its own, end where the segment does: the page behind it is neither.     *)
LEMMA BytesEndInside ==
  ASSUME NEW h \in Headers, ~EndWraps(h), Limit(h) < Top,
         FilePages(h) \subseteq mapped \cup PagesIn(Base(h), Limit(h)),
         \A g \in mapped : \E c \in Headers :
           /\ ~EndWraps(c) /\ Limit(c) < Top /\ Limit(c) <= Base(h)
           /\ g \in PagesIn(Base(c), Limit(c))
  PROVE  h.vaddr + h.bytes <= Limit(h)
<1> SUFFICES ASSUME ~(h.vaddr + h.bytes <= Limit(h)) PROVE FALSE
  OBVIOUS
<1>1. PICK b \in Nat, l \in Nat : /\ Base(h) = PageBytes * b /\ Limit(h) = PageBytes * l
                                  /\ PagesIn(Base(h), Limit(h)) = b .. l - 1
                                  /\ \A y \in Nat : y \div PageBytes \in b .. l - 1 <=> y \in SegmentSpan(h)
  BY HeaderPages
<1>2. PICK x \in Nat, v \in Nat, f \in Nat, base \in Nat :
        /\ x = Limit(h) /\ v = h.vaddr /\ f = h.bytes /\ base = Base(h)
        /\ base <= x /\ v <= x /\ x < v + f /\ x < Top
  <2>1. PICK x \in Nat, v \in Nat, f \in Nat, m \in Nat, base \in Nat :
          /\ x = Limit(h) /\ v = h.vaddr /\ f = h.bytes /\ m = h.memory /\ base = Base(h)
          /\ v + m <= x /\ base <= x
    BY HeaderFacts
  <2>2. v <= x /\ x < v + f
    BY <2>1
  <2> QED BY <2>1, <2>2
<1>3. PICK p \in Nat \ {0} : p = PageBytes
  BY AllocatorAssumption
<1>4. PICK g \in Nat : g = PageOf(x) /\ g = x \div p
  BY <1>2, <1>3, PageFacts, IntDivFacts
<1>5. g \in FilePages(h)
  <2>1. x \in Span(v, f)
    BY <1>2, SpanOf
  <2> QED BY <1>2, <1>4, <2>1 DEF FilePages
<1>6. ~(g < l)
  <2>1. ~(x < p * l)
    BY <1>1, <1>2, <1>3
  <2> QED BY <1>3, <1>4, <2>1, BelowMultiple
<1>7. g \notin PagesIn(Base(h), Limit(h))
  BY <1>1, <1>4, <1>6
<1>8. PICK c \in Headers : /\ ~EndWraps(c) /\ Limit(c) < Top /\ Limit(c) <= Base(h)
                           /\ g \in PagesIn(Base(c), Limit(c))
  BY <1>5, <1>7
<1>9. x \in SegmentSpan(c)
  BY <1>3, <1>4, <1>8, HeaderPages
<1>10. x < Limit(c)
  <2>1. PICK n \in Nat, w \in Nat, t \in Nat :
          /\ n = Limit(c) - Base(c) /\ w = Base(c) /\ t = Limit(c) /\ w + n = t
    <3>1. Base(c) \in Nat /\ Limit(c) \in Nat /\ Limit(c) - Base(c) \in Nat
      BY <1>8, HeaderFacts
    <3>2. Base(c) + (Limit(c) - Base(c)) = Limit(c)
      BY <3>1
    <3> QED BY <3>1, <3>2
  <2>2. x \in Span(w, n)
    BY <1>9, <2>1 DEF SegmentSpan
  <2> QED BY <2>1, <2>2, SpanOf
<1>11. Limit(c) \in Nat
  BY <1>8, HeaderFacts
<1> QED BY <1>2, <1>8, <1>10, <1>11

(* The list after the next header: the range was free.                     *)
LEMMA SegmentReserved ==
  ASSUME MInv, stage = "loading", ~wrapped, NEW h \in Headers, ~EndWraps(h),
         Reserve(Base(h), Minus(Limit(h), Base(h)))
  PROVE  /\ FreeAreas(areas', Top) /\ Limit(h) < Top
         /\ Covered(areas') = Covered(areas) \ SegmentSpan(h)
         /\ SegmentSpan(h) \subseteq Covered(areas)
<1>1. PICK s \in Nat, n \in Nat : /\ s = Base(h) /\ n = Limit(h) - Base(h) /\ s + n = Limit(h)
                                  /\ Minus(Limit(h), Base(h)) = n /\ s + n < Space
  <2>1. /\ Base(h) \in Nat /\ Limit(h) \in Nat /\ Limit(h) < Space /\ Limit(h) - Base(h) \in Nat
        /\ Minus(Limit(h), Base(h)) = Limit(h) - Base(h)
    BY HeaderFacts
  <2>2. Base(h) + (Limit(h) - Base(h)) = Limit(h)
    BY <2>1
  <2> QED BY <2>1, <2>2
<1>2. FreeAreas(areas, Top)
  BY WholeFacts DEF MInv
<1>3. Reserve(s, n)
  BY <1>1
<1>4. /\ FreeAreas(areas', Top) /\ s + n < Top /\ Covered(areas') = Covered(areas) \ Span(s, n)
      /\ Span(s, n) \subseteq Covered(areas)
  BY <1>1, <1>2, <1>3, ReserveFacts
<1> QED BY <1>1, <1>4 DEF SegmentSpan

(* One more header is in memory.                                           *)
LEMMA LoadSegmentKeepsS ==
  ASSUME SInv, MInv, LoadSegment
  PROVE  SInv'
<1>1. PICK k \in Nat : k = loaded + 1 /\ k \in 1 .. Len(file) /\ Len(file) \in Nat
                       /\ loaded \in Nat /\ 1 .. k - 1 = 1 .. loaded
  BY LenProperties DEF SInv, LoadSegment
<1>2. PICK h \in Headers : h = file[k]
  BY <1>1, LenProperties DEF SInv
<1>3. /\ stage = "loading" /\ stage' = stage /\ file' = file /\ loaded' = k /\ Parses(file)
      /\ h.type = "load" /\ file[k].type = "load"
      /\ FilePages(h) \subseteq mapped \cup PagesIn(Base(h), Limit(h))
      /\ Reserve(Base(h), Minus(Limit(h), Base(h)))
      /\ mapped' = mapped \cup PagesIn(Base(h), Limit(h))
      /\ program' = program \cup {Area(Base(h), Minus(Limit(h), Base(h)))}
      /\ wrapped' = (wrapped \/ EndWraps(h))
  BY <1>1, <1>2 DEF LoadSegment, MapProgram, Map
<1>4. file \in Seq(Headers) /\ loaded' \in 0 .. Len(file') /\ ~Filling'
  BY <1>1, <1>3 DEF SInv, Filling
<1>5. ASSUME ~wrapped' PROVE Loaded'
  <2>1. ~wrapped /\ ~EndWraps(h)
    BY <1>3, <1>5
  <2>2. /\ \A i \in 1 .. loaded : file[i].type = "load" => HeaderLoaded(file[i])
        /\ \A i, j \in 1 .. loaded :
             file[i].type = "load" /\ file[j].type = "load" /\ i < j => Limit(file[i]) <= Base(file[j])
        /\ \A g \in mapped : \E i \in 1 .. loaded :
             file[i].type = "load" /\ g \in PagesIn(Base(file[i]), Limit(file[i]))
    BY <1>3, <2>1 DEF SInv, Loaded
  <2>3. /\ Limit(h) < Top /\ Minus(Limit(h), Base(h)) = Limit(h) - Base(h)
    BY <1>3, <2>1, SegmentReserved, HeaderFacts
  <2>4. \A i \in 1 .. loaded : file[i] \in Headers
    BY <1>1, <1>4, LenProperties
  <2>5. ASSUME NEW i \in 1 .. loaded, file[i].type = "load"
        PROVE  /\ ~EndWraps(file[i]) /\ Limit(file[i]) < Top /\ Limit(file[i]) <= Base(h)
    <3>1. ~EndWraps(file[i]) /\ Limit(file[i]) < Top
      BY <2>2, <2>5 DEF HeaderLoaded
    <3>2. \A j \in 1 .. k - 1 : file[j].type = "load" => ~EndWraps(file[j])
      BY <1>1, <2>2 DEF HeaderLoaded
    <3>3. \A n, j \in 1 .. k - 1 :
            file[n].type = "load" /\ file[j].type = "load" /\ n < j => Limit(file[n]) <= Base(file[j])
      BY <1>1, <2>2
    <3>4. i \in 1 .. k - 1
      BY <1>1
    <3>5. Limit(file[i]) <= Base(file[k])
      BY <1>1, <1>2, <1>3, <1>4, <2>1, <2>5, <3>2, <3>3, <3>4, BehindAllBefore
    <3> QED BY <1>2, <3>1, <3>5
  <2>6. h.vaddr + h.bytes <= Limit(h)
    <3>1. ASSUME NEW g \in mapped
          PROVE  \E c \in Headers : /\ ~EndWraps(c) /\ Limit(c) < Top /\ Limit(c) <= Base(h)
                                    /\ g \in PagesIn(Base(c), Limit(c))
      <4>1. PICK i \in 1 .. loaded :
              file[i].type = "load" /\ g \in PagesIn(Base(file[i]), Limit(file[i]))
        BY <2>2
      <4> QED BY <2>4, <2>5, <4>1
    <3> QED BY <1>3, <2>1, <2>3, <3>1, BytesEndInside
  <2>7. ASSUME NEW i \in 1 .. k, file[i].type = "load" PROVE HeaderLoaded(file[i])'
    <3>1. CASE i = k
      BY <1>2, <1>3, <2>1, <2>3, <2>6, <3>1 DEF HeaderLoaded, EndWraps, Wraps, Limit, Base
    <3>2. CASE i # k
      <4>1. i \in 1 .. loaded
        BY <1>1, <3>2
      <4>2. HeaderLoaded(file[i])
        BY <2>2, <2>7, <4>1
      <4> QED BY <1>3, <4>2 DEF HeaderLoaded, EndWraps, Wraps, Limit, Base
    <3> QED BY <3>1, <3>2
  <2>8. ASSUME NEW i \in 1 .. k, NEW j \in 1 .. k, file[i].type = "load", file[j].type = "load", i < j
        PROVE  Limit(file[i]) <= Base(file[j])
    <3>1. i \in 1 .. loaded
      BY <1>1, <2>8
    <3>2. CASE j = k
      BY <1>2, <2>5, <2>8, <3>1, <3>2
    <3>3. CASE j # k
      <4>1. j \in 1 .. loaded
        BY <1>1, <3>3
      <4> QED BY <2>2, <2>8, <3>1, <4>1
    <3> QED BY <3>2, <3>3
  <2>9. ASSUME NEW g \in mapped'
        PROVE  \E i \in 1 .. k :
                 file[i].type = "load" /\ g \in PagesIn(Base(file[i]), Limit(file[i]))
    <3>1. CASE g \in mapped
      <4>1. \A i \in 1 .. loaded : i \in 1 .. k
        BY <1>1
      <4> QED BY <2>2, <3>1, <4>1
    <3>2. CASE g \in PagesIn(Base(h), Limit(h))
      BY <1>1, <1>2, <1>3, <3>2
    <3> QED BY <1>3, <3>1, <3>2
  <2> QED BY <1>3, <1>4, <2>7, <2>8, <2>9 DEF Loaded
<1> QED BY <1>3, <1>4, <1>5 DEF SInv

(* The next header has no segment.                                         *)
LEMMA LoadNothingKeepsS ==
  ASSUME SInv, LoadNothing
  PROVE  SInv'
<1>1. PICK k \in Nat : k = loaded + 1 /\ k \in 1 .. Len(file) /\ Len(file) \in Nat
                       /\ loaded \in Nat
  BY LenProperties DEF SInv, LoadNothing
<1>2. /\ stage = "loading" /\ stage' = stage /\ file' = file /\ loaded' = k
      /\ file[k].type = "null" /\ mapped' = mapped /\ program' = program
      /\ (~wrapped' => ~wrapped)
  BY <1>1 DEF LoadNothing
<1>3. file \in Seq(Headers) /\ loaded' \in 0 .. Len(file') /\ ~Filling'
  BY <1>1, <1>2 DEF SInv, Filling
<1>4. \A i \in 1 .. k : file[i].type = "load" => i \in 1 .. loaded
  <2>1. \A i \in 1 .. k : i \in 1 .. loaded \/ i = k
    BY <1>1
  <2> QED BY <1>2, <2>1
<1>5. \A i \in 1 .. loaded : i \in 1 .. k
  BY <1>1
<1>6. ASSUME ~wrapped' PROVE Loaded'
  <2>1. Loaded
    BY <1>2, <1>6 DEF SInv
  <2>2. \A i \in 1 .. k : file[i].type = "load" => HeaderLoaded(file[i])'
    BY <1>2, <1>4, <2>1 DEF Loaded, HeaderLoaded, EndWraps, Wraps, Limit, Base
  <2>3. \A i, j \in 1 .. k :
          file[i].type = "load" /\ file[j].type = "load" /\ i < j => Limit(file[i]) <= Base(file[j])
    BY <1>4, <2>1 DEF Loaded
  <2>4. \A g \in mapped : \E i \in 1 .. k :
          file[i].type = "load" /\ g \in PagesIn(Base(file[i]), Limit(file[i]))
    BY <1>2, <1>5, <2>1 DEF Loaded
  <2> QED BY <1>2, <1>3, <2>2, <2>3, <2>4 DEF Loaded
<1> QED BY <1>2, <1>3, <1>6 DEF SInv

(* The arguments were given free addresses, and so none of the segments'.  *)
LEMMA AllocArgumentsKeepsS ==
  ASSUME SInv, MInv, AllocArguments, NEW n \in Nat, n = AlignUp(Room), Room \in Nat, Room <= n,
         Fitting(areas, n) # {}
  PROVE  SInv'
<1>1. PICK s : s = Given(areas, n)
  OBVIOUS
<1>2. /\ stage = "loading" /\ stage' = "copying" /\ file' = file /\ loaded' = loaded
      /\ lens' = lens /\ loaded = Len(file)
      /\ mapped' = mapped \cup PagesIn(s, Plus(s, n))
      /\ program' = program \cup {Area(s, Minus(Plus(s, n), s))}
      /\ wrapped' = (wrapped \/ Wraps(s, n))
  BY <1>1 DEF AllocArguments, AllocProgram, MapProgram, Map
<1>3. Filling' /\ ~Filling /\ Room' = Room
  BY <1>2 DEF Filling, Room, argc
<1>4. ASSUME ~wrapped' PROVE Loaded'
  <2>1. ~wrapped /\ whole
    BY <1>2, <1>4 DEF MInv
  <2>2. FreeAreas(areas, Top) /\ Top < Space /\ Usage(Covered(areas), program, blocks)
    BY <1>2, <2>1, WholeFacts
  <2>3. s \in Nat /\ s + n < Top /\ Span(s, n) \subseteq Covered(areas)
    BY <1>1, <2>2, AllocFacts
  <2>4. PICK t \in Nat : t = Top /\ s + n < t /\ t < Space
    BY <2>2, <2>3, AllocatorAssumption
  <2>5. Plus(s, n) = s + n /\ Minus(s + n, s) = n
    <3>1. s + n < Space /\ s + n \in Nat /\ s <= s + n /\ (s + n) - s = n
      BY <2>3, <2>4, AllocatorAssumption
    <3> QED BY <2>3, <3>1, PlusFacts, MinusFacts
  <2>6. PICK a : a = Area(s, n) /\ a.start = s /\ a.size = n /\ Stop(a) = s + n /\ InMemory(a)
    <3>1. PICK a : a = Area(s, n)
      OBVIOUS
    <3>2. a.start = s /\ a.size = n
      BY <3>1 DEF Area
    <3>3. InMemory(a)
      BY <2>3, <2>4, <3>2 DEF InMemory, End
    <3> QED BY <2>5, <3>1, <3>2, <3>3 DEF Stop
  <2>7. Loaded
    BY <2>1 DEF SInv
  <2>8. \A i \in 1 .. loaded : file[i].type = "load" => HeaderLoaded(file[i])'
    BY <1>2, <2>7 DEF Loaded, HeaderLoaded, EndWraps, Wraps, Limit, Base
  <2>9. ASSUME NEW i \in 1 .. loaded, file[i].type = "load"
        PROVE  SegmentSpan(file[i]) \cap Span(s, n) = {}
    <3>1. PICK c : c = Area(Base(file[i]), Limit(file[i]) - Base(file[i])) /\ c \in program
      BY <2>7, <2>9 DEF Loaded, HeaderLoaded
    <3>2. Span(c.start, c.size) = SegmentSpan(file[i])
      BY <3>1 DEF SegmentSpan, Area
    <3>3. Span(c.start, c.size) \cap Covered(areas) = {}
      BY <2>2, <3>1 DEF Usage
    <3> QED BY <2>3, <3>2, <3>3
  <2>10. a \in program' /\ PagesIn(s, s + n) \subseteq mapped'
    BY <1>2, <2>5, <2>6
  <2>11. Beside(a)'
    <3>1. \A i \in 1 .. loaded : file[i].type = "load" =>
            SegmentSpan(file[i]) \cap Span(a.start, a.size) = {}
      BY <2>6, <2>9
    <3> QED BY <1>2, <1>3, <2>6, <2>10, <3>1
        DEF Beside, SegmentSpan, Limit, Base, InMemory, Stop
  <2>12. \A i, j \in 1 .. loaded :
           file[i].type = "load" /\ file[j].type = "load" /\ i < j => Limit(file[i]) <= Base(file[j])
    BY <2>7 DEF Loaded
  <2> QED BY <1>2, <2>8, <2>10, <2>11, <2>12 DEF Loaded
<1> QED BY <1>2, <1>3, <1>4 DEF SInv

(* While the arguments are copied the pages stay.                          *)
LEMMA FillingKeepsS ==
  ASSUME SInv, UNCHANGED <<file, loaded, lens, program, mapped, wrapped>>, Filling, Filling'
  PROVE  SInv'
<1>1. Room' = Room /\ stage' \notin {"accepted", "loading", "running", "dead"}
  BY DEF Room, argc, Filling
<1>2. \A a : Beside(a)' <=> Beside(a)
  BY <1>1 DEF Beside
<1>3. \A h : HeaderLoaded(h)' <=> HeaderLoaded(h)
  BY DEF HeaderLoaded
<1>4. Loaded => Loaded'
  BY <1>1, <1>2, <1>3 DEF Loaded
<1> QED BY <1>1, <1>4 DEF SInv

-----------------------------------------------------------------------------
(* The inductive invariant: memory, arguments and segments.                *)
Inv == MInv /\ XInv /\ SInv

(* Process 1 begins with all its memory free.                              *)
LEMMA InitHasInv == Init => Inv
<1> SUFFICES ASSUME Init PROVE Inv
  OBVIOUS
<1>1. /\ areas = Empty /\ mapped = {} /\ program = {} /\ blocks = {} /\ foreign = 0
      /\ wrapped = FALSE /\ whole /\ stage = "loading" /\ file \in Files /\ loaded = 0
      /\ lens = <<>> /\ next = 1 /\ values = 0 /\ argv = <<>> /\ DOMAIN memory = {}
  BY DEF Init, NothingMapped, whole
<1>2. Usage(Covered(areas), {}, {})
  BY DEF Usage
<1>3. InOrder
  <2>1. Top \in Nat /\ Top < Space
    BY AllocatorAssumption
  <2> QED BY <1>1, <2>1, EmptyFacts DEF InOrder
<1>4. MInv
  BY <1>1, <1>2, <1>3 DEF MInv
<1>5. ~Filling
  BY <1>1 DEF Filling
<1>6. Len(<<>>) = 0 /\ <<>> \in Seq(Nat)
  OBVIOUS
<1>7. XInv
  BY <1>1, <1>5, <1>6 DEF XInv, argc
<1>8. file \in Seq(Headers) /\ Len(file) \in Nat
  BY <1>1, ExecuteAssumption, LenProperties
<1>9. Loaded
  BY <1>1, <1>5 DEF Loaded
<1>10. SInv
  BY <1>1, <1>8, <1>9 DEF SInv
<1> QED BY <1>4, <1>7, <1>10 DEF Inv

(* Elf::load of one header, and memory for the arguments.                  *)
LEMMA LoadSegmentKeepsM ==
  ASSUME SInv, MInv, LoadSegment
  PROVE  MInv'
<1>1. PICK h \in Headers : h = file[loaded + 1]
  <2>1. loaded + 1 \in 1 .. Len(file) /\ file \in Seq(Headers)
    BY LenProperties DEF LoadSegment, SInv
  <2> QED BY <2>1, LenProperties
<1>2. /\ stage = "loading" /\ stage' = stage
      /\ Reserve(Base(h), Minus(Limit(h), Base(h)))
      /\ program' = program \cup {Area(Base(h), Minus(Limit(h), Base(h)))}
      /\ blocks' = blocks /\ foreign' = foreign /\ wrapped' = (wrapped \/ EndWraps(h))
  BY <1>1 DEF LoadSegment, MapProgram
<1>3. CASE wrapped'
  <2>1. wrapped' \in BOOLEAN
    BY <1>2 DEF MInv
  <2> QED BY <1>2, <1>3, <2>1, WrappedKeeps
<1>4. CASE ~wrapped'
  <2>1. /\ ~wrapped /\ ~EndWraps(h) /\ whole /\ wrapped' = FALSE
        /\ stage # "dead" /\ stage' # "dead"
    <3>1. ~wrapped /\ ~EndWraps(h)
      BY <1>2, <1>4
    <3>2. wrapped \in BOOLEAN /\ whole
      BY <1>2 DEF MInv
    <3> QED BY <1>2, <3>1, <3>2
  <2>2. PICK s \in Nat, n \in Nat : /\ s = Base(h) /\ n = Limit(h) - Base(h) /\ s + n = Limit(h)
                                    /\ Minus(Limit(h), Base(h)) = n
    <3>1. /\ Base(h) \in Nat /\ Limit(h) \in Nat /\ Limit(h) - Base(h) \in Nat
          /\ Minus(Limit(h), Base(h)) = Limit(h) - Base(h)
      BY <2>1, HeaderFacts
    <3>2. Base(h) + (Limit(h) - Base(h)) = Limit(h)
      BY <3>1
    <3> QED BY <3>1, <3>2
  <2>3. /\ FreeAreas(areas', Top) /\ Limit(h) < Top
        /\ Covered(areas') = Covered(areas) \ Span(s, n) /\ Span(s, n) \subseteq Covered(areas)
    BY <1>2, <2>1, <2>2, SegmentReserved DEF SegmentSpan
  <2>4. s + n <= Top
    BY <2>2, <2>3, AllocatorAssumption
  <2>5. program' = program \cup {Area(s, n)} /\ UNCHANGED <<blocks, foreign>>
    BY <1>2, <2>2
  <2> QED BY <2>1, <2>3, <2>4, <2>5, ProgramKeeps
<1> QED BY <1>3, <1>4

LEMMA AllocArgumentsKeepsM ==
  ASSUME MInv, AllocArguments, NEW n \in Nat, n = AlignUp(Room), Fitting(areas, n) # {}
  PROVE  MInv'
<1>1. PICK s : s = Given(areas, n)
  OBVIOUS
<1>2. /\ stage = "loading" /\ stage' = "copying" /\ areas' = AllocFrom(areas, n)
      /\ program' = program \cup {Area(s, Minus(Plus(s, n), s))}
      /\ blocks' = blocks /\ foreign' = foreign /\ wrapped' = (wrapped \/ Wraps(s, n))
  BY <1>1 DEF AllocArguments, AllocProgram, MapProgram
<1>3. wrapped' \in BOOLEAN /\ whole /\ whole' /\ foreign' \in Nat
  BY <1>2 DEF MInv, whole
<1>4. CASE wrapped'
  BY <1>2, <1>3, <1>4 DEF MInv
<1>5. CASE ~wrapped'
  <2>1. ~wrapped /\ wrapped' = FALSE /\ stage # "dead" /\ stage' # "dead"
    BY <1>2, <1>3, <1>5
  <2>2. FreeAreas(areas, Top) /\ Top < Space
    BY <1>3, <2>1, WholeFacts
  <2>3. /\ s \in Nat /\ s + n < Top /\ Span(s, n) \subseteq Covered(areas)
        /\ FreeAreas(areas', Top) /\ Covered(areas') = Covered(areas) \ Span(s, n)
    BY <1>1, <1>2, <2>2, AllocFacts
  <2>4. s + n <= Top /\ s + n < Space
    BY <2>3, AllocatorAssumption
  <2>5. Minus(Plus(s, n), s) = n
    <3>1. s + n \in Nat /\ s <= s + n /\ (s + n) - s = n
      BY <2>3
    <3> QED BY <2>3, <2>4, <3>1, PlusFacts, MinusFacts
  <2>6. program' = program \cup {Area(s, n)} /\ UNCHANGED <<blocks, foreign>>
    BY <1>2, <2>5
  <2> QED BY <1>3, <2>1, <2>3, <2>4, <2>6, ProgramKeeps
<1> QED BY <1>4, <1>5

(* Every step keeps the three parts.                                       *)
LEMMA NextKeepsInv == Inv /\ [Next]_vars => Inv'
<1> SUFFICES ASSUME Inv, [Next]_vars PROVE Inv'
  OBVIOUS
<1> USE DEF Inv
<1>1. CASE UNCHANGED vars
  <2>1. UNCHANGED <<areas, mapped, wrapped, foreign, program, blocks, stage, file, loaded, lens,
                    next, values, argv, memory>>
    BY <1>1 DEF vars, memoryVars, execVars
  <2>2. MInv'
    BY <2>1 DEF MInv, InOrder, whole
  <2>3. Room' = Room /\ Filling' = Filling /\ argc' = argc
    BY <2>1 DEF Room, argc, Filling
  <2>4. stage' = stage /\ stage \in {"accepted", "loading", "copying", "started", "running", "dead"}
    BY <2>1 DEF XInv
  <2>5. XInv'
    BY <2>1, <2>3, <2>4, SameArguments
  <2>6. /\ \A a : Beside(a)' <=> Beside(a)
        /\ \A h : HeaderLoaded(h)' <=> HeaderLoaded(h)
    BY <2>1, <2>3 DEF Beside, HeaderLoaded
  <2>7. SInv'
    BY <2>1, <2>3, <2>6 DEF SInv, Loaded
  <2> QED BY <2>2, <2>5, <2>7
<1>2. CASE ExecuteReturns
  BY <1>1, <1>2 DEF ExecuteReturns
<1>3. CASE Execute
  <2>1. /\ stage = "running" /\ stage' = "accepted" /\ Cleanup(Empty)
        /\ UNCHANGED <<file, loaded, lens, next, values, argv, memory>>
    BY <1>3 DEF Execute, execVars
  <2>2. MInv'
    BY <2>1, EmptyFacts, CleanupKeeps
  <2>3. mapped' = {} /\ ~Filling /\ ~Filling'
    BY <2>1 DEF Cleanup, Filling
  <2>4. XInv'
    BY <2>1, <2>3, SameArguments
  <2>5. SInv'
    BY <2>1, <2>3, IdleKeepsS
  <2> QED BY <2>2, <2>4, <2>5
<1>4. CASE Parse
  <2>1. UNCHANGED memoryVars /\ stage = "accepted" /\ stage' = "loading"
    BY <1>4 DEF Parse
  <2>2. MInv'
    BY <2>1 DEF MInv, InOrder, whole, memoryVars
  <2> QED BY <1>4, <2>2, ParseKeepsX, ParseKeepsS
<1>5. CASE LoadSegment
  <2>1. /\ stage = "loading" /\ stage' = stage
        /\ UNCHANGED <<lens, next, values, argv, memory>>
    BY <1>5 DEF LoadSegment
  <2>2. ~Filling /\ ~Filling'
    BY <2>1 DEF Filling
  <2>3. XInv'
    BY <2>1, <2>2, SameArguments
  <2> QED BY <1>5, <2>3, LoadSegmentKeepsM, LoadSegmentKeepsS
<1>6. CASE LoadNothing
  <2>1. PICK a \in Leftover : Reserve(a.start, a.size) /\ wrapped' = (wrapped \/ Wraps(a.start, a.size))
    BY <1>6 DEF LoadNothing
  <2>2. /\ stage = "loading" /\ stage' = stage
        /\ UNCHANGED <<program, blocks, foreign, stage>>
        /\ UNCHANGED <<lens, next, values, argv, memory>>
    BY <1>6 DEF LoadNothing
  <2>3. a.start \in Nat /\ a.size \in Nat
    BY ExecuteAssumption, AllocatorAssumption DEF Ranges64
  <2>4. MInv'
    BY <2>1, <2>2, <2>3, ReserveKeeps
  <2>5. ~Filling /\ ~Filling'
    BY <2>2 DEF Filling
  <2>6. XInv'
    BY <2>2, <2>5, SameArguments
  <2> QED BY <1>6, <2>4, <2>6, LoadNothingKeepsS
<1>7. CASE AllocArguments
  <2>1. PICK n \in Nat : n = AlignUp(Room) /\ Room \in Nat /\ Room <= n
    BY RoomFacts, AlignUpFacts DEF XInv
  <2>2. Fitting(areas, n) # {}
    BY <1>7, <2>1 DEF AllocArguments, AllocProgram
  <2>3. MInv'
    BY <1>7, <2>1, <2>2, AllocArgumentsKeepsM
  <2>4. SInv'
    BY <1>7, <2>1, <2>2, AllocArgumentsKeepsS
  <2> QED BY <1>7, <2>3, <2>4, AllocArgumentsKeepsX
<1>8. CASE CopyArgument
  <2>1. stage = "copying" /\ stage' = stage /\ UNCHANGED <<memoryVars, file, loaded, lens>>
    BY <1>8 DEF CopyArgument
  <2>2. MInv'
    BY <2>1 DEF MInv, InOrder, whole, memoryVars
  <2>3. Filling /\ Filling' /\ UNCHANGED <<file, loaded, lens, program, mapped, wrapped>>
    BY <2>1 DEF Filling, memoryVars
  <2> QED BY <1>8, <2>2, <2>3, CopyArgumentKeepsX, FillingKeepsS
<1>9. CASE Start
  <2>1. /\ stage = "copying" /\ stage' = "started" /\ next > argc /\ UNCHANGED memoryVars
        /\ UNCHANGED <<file, loaded, lens, next, values, argv, memory>>
    BY <1>9 DEF Start, execVars
  <2>2. MInv'
    BY <2>1 DEF MInv, InOrder, whole, memoryVars
  <2>3. Filling /\ Filling' /\ UNCHANGED <<file, loaded, lens, program, mapped, wrapped>>
    BY <2>1 DEF Filling, memoryVars
  <2>4. XInv'
    BY <2>1, <2>3, SameArguments
  <2> QED BY <2>2, <2>3, <2>4, FillingKeepsS
<1>10. CASE Run
  <2>1. stage = "started" /\ stage' = "running" /\ Forget /\ UNCHANGED memoryVars
    BY <1>10 DEF Run
  <2>2. MInv'
    BY <2>1 DEF MInv, InOrder, whole, memoryVars
  <2> QED BY <2>1, <2>2, ForgetKeepsX
<1>11. CASE Dies
  <2>1. stage' = "dead" /\ Cleanup(<<>>) /\ Forget
    BY <1>11 DEF Dies
  <2>2. MInv'
    BY <2>1, CleanupKeeps
  <2> QED BY <2>1, <2>2, ForgetKeepsX
<1>12. ASSUME stage = "running", stage' = stage, UNCHANGED execVars, MInv'
       PROVE  Inv'
  <2>1. UNCHANGED <<file, loaded, lens, next, values, argv, memory>> /\ ~Filling /\ ~Filling'
    BY <1>12 DEF execVars, Filling
  <2>2. XInv'
    BY <1>12, <2>1, SameArguments
  <2>3. SInv'
    BY <1>12, <2>1, IdleKeepsS
  <2> QED BY <1>12, <2>2, <2>3
<1>13. ASSUME NEW n \in Sizes, Running(VirtualAlloc(n)) PROVE Inv'
  <2>1. stage = "running" /\ stage' = stage /\ ~wrapped /\ UNCHANGED execVars /\ VirtualAlloc(n)
    BY <1>13 DEF Running
  <2>2. MInv'
    BY <2>1, VirtualAllocKeeps
  <2> QED BY <1>12, <2>1, <2>2
<1>14. ASSUME NEW n \in Sizes, Running(VirtualAllocUnmapped(n)) PROVE Inv'
  <2>1. stage = "running" /\ stage' = stage /\ ~wrapped /\ UNCHANGED execVars /\ VirtualAllocUnmapped(n)
    BY <1>14 DEF Running
  <2>2. MInv'
    BY <2>1, VirtualAllocUnmappedKeeps
  <2> QED BY <1>12, <2>1, <2>2
<1>15. ASSUME NEW a \in Frees, Running(VirtualFree(a.start, a.size)) PROVE Inv'
  <2>1. /\ stage = "running" /\ stage' = stage /\ ~wrapped /\ UNCHANGED execVars
        /\ VirtualFree(a.start, a.size)
    BY <1>15 DEF Running
  <2>2. MInv'
    BY <2>1, VirtualFreeKeeps
  <2> QED BY <1>12, <2>1, <2>2
<1> QED
  BY <1>1, <1>2, <1>3, <1>4, <1>5, <1>6, <1>7, <1>8, <1>9, <1>10, <1>11, <1>13, <1>14, <1>15
  DEF Next

(* The invariant holds in every state of every process.                    *)
THEOREM InvHolds == Spec => []Inv
BY InitHasInv, NextKeepsInv, PTL DEF Spec

-----------------------------------------------------------------------------
(* findLastBefore and the merge of free may take for granted that the list *)
(* is sorted and has no empty area, whatever ranges programs free and      *)
(* however often, the kernel's included, and that it reaches the end of    *)
(* memory as long as they free whole blocks; until an end or a size of a   *)
(* range wraps around, which does break the list.                          *)
THEOREM ListAlwaysInShape == Spec => []FreeListShape
<1>1. ASSUME InOrder PROVE ListShape
  <2>1. PICK top \in Nat : top < Space /\ FreeAreas(areas, top) /\ (whole => top = Top)
    BY <1>1 DEF InOrder
  <2>2. PICK len \in Nat :
          /\ len = Len(areas) /\ DOMAIN areas = 1 .. len /\ len > 0 /\ End(areas[len]) = top
          /\ \A i \in 1 .. len : areas[i] \in Ranges /\ Stop(areas[i]) = End(areas[i])
          /\ \A i, j \in 1 .. len : i < j => End(areas[i]) <= areas[j].start
    BY <2>1, FreeEnds
  <2>3. areas # <<>> /\ (whole => Stop(areas[Len(areas)]) = Top)
    <3>1. len \in 1 .. len /\ areas # <<>>
      BY <2>1, <2>2 DEF FreeAreas
    <3> QED BY <2>1, <2>2, <3>1
  <2>4. \A i \in DOMAIN areas : areas[i].size > 0
    BY <2>2, SpanFacts
  <2>5. ASSUME NEW i \in 1 .. Len(areas) - 1 PROVE Stop(areas[i]) <= areas[i + 1].start
    <3>1. i \in 1 .. len /\ i + 1 \in 1 .. len /\ i < i + 1
      BY <2>2
    <3> QED BY <2>2, <3>1
  <2> QED BY <2>3, <2>4, <2>5 DEF ListShape
<1>2. Inv => FreeListShape
  BY <1>1 DEF Inv, MInv, FreeListShape
<1> QED BY <1>2, InvHolds, PTL

(* No call of alloc is given memory of the program, of its arguments or of *)
(* a block that has not been freed, as long as programs free whole blocks  *)
(* and until an end or a size of a range wraps around.                     *)
THEOREM MemoryInUseIsNeverFree == Spec => []FreeIsUnused
<1>1. ASSUME Inv, whole, ~wrapped, NEW i \in DOMAIN areas, NEW a \in program \cup blocks
      PROVE  ~Overlap(areas[i], a)
  <2>1. /\ stage # "dead"
        /\ Usage(Covered(areas), program, blocks) /\ FreeAreas(areas, Top) /\ Top < Space
    <3>1. stage # "dead"
      BY <1>1 DEF Inv, MInv
    <3> QED BY <1>1, <3>1, WholeFacts DEF Inv
  <2>2. InMemory(a) /\ Span(a.start, a.size) \cap Covered(areas) = {}
    <3>1. CASE a \in program
      BY <2>1, <3>1 DEF Usage
    <3>2. CASE a \in blocks
      <4>1. a \in Ranges /\ InMemory(a) /\ Taken(a) \cap Covered(areas) = {}
        BY <2>1, <3>2 DEF Usage
      <4>2. a.start \in Nat /\ a.size \in Nat \ {0}
        BY <4>1 DEF Ranges
      <4>3. Span(a.start, a.size) \subseteq Taken(a)
        BY <4>2, TakenFacts DEF Taken
      <4> QED BY <4>1, <4>3
    <3> QED BY <1>1, <3>1, <3>2
  <2>3. PICK s \in Nat, n \in Nat : /\ s = a.start /\ n = a.size /\ Stop(a) = s + n
    <3>1. PICK s \in Nat, n \in Nat : s = a.start /\ n = a.size /\ End(a) = s + n
      BY <2>2 DEF InMemory, End
    <3>2. End(a) < Space
      BY <2>1, <2>2, <3>1, AllocatorAssumption DEF InMemory
    <3>3. Stop(a) = End(a)
      BY <3>1, <3>2, StopFacts
    <3> QED BY <3>1, <3>3
  <2>4. PICK c \in Ranges : c = areas[i] /\ Stop(c) = End(c)
    BY <2>1, FreeEnds
  <2>5. c.start \in Nat /\ End(c) \in Nat
    BY SpanFacts
  <2> SUFFICES ASSUME Overlap(c, a) PROVE FALSE
    BY <2>4
  <2>6. PICK x \in Nat : x = Max({c.start, a.start}) /\ c.start <= x /\ s <= x
    BY <2>3, <2>5, MaxOfTwo
  <2>7. PICK y \in Nat : y = Min({Stop(c), Stop(a)}) /\ y <= End(c) /\ y <= s + n
    <3>1. s + n \in Nat
      OBVIOUS
    <3> QED BY <2>3, <2>4, <2>5, <3>1, MinOfTwo
  <2>8. x < y
    BY <2>6, <2>7 DEF Overlap
  <2>9. x \in Span(s, n) /\ x \in Span(c.start, c.size)
    BY <2>3, <2>5, <2>6, <2>7, <2>8, SpanOf, SpanFacts
  <2>10. x \in Covered(areas)
    BY <2>4, <2>9, CoveredFacts
  <2> QED BY <2>2, <2>3, <2>9, <2>10
<1>2. Inv => FreeIsUnused
  BY <1>1 DEF FreeIsUnused
<1> QED BY <1>2, InvHolds, PTL

(* The pointers and the strings stay in the pages that fullsizeof asked    *)
(* for, whatever the number and the lengths of the arguments.              *)
THEOREM AlwaysWritesInRoom == Spec => []WritesInRoom
<1>1. Inv => WritesInRoom
  BY DEF Inv, XInv, WritesInRoom
<1> QED BY <1>1, InvHolds, PTL

(* A program with one argument finds it whatever its length, when sizeof(8)*)
(* is at least half a pointer, as it is: the string begins where a second  *)
(* pointer would, behind the only one.                                     *)
THEOREM OneArgumentAlwaysArrives ==
  ASSUME 2 * Stride >= Pointer
  PROVE  Spec => []SingleArgumentArrives
<1>1. ASSUME Inv, argc = 1, stage = "started" PROVE \A i \in 1 .. argc : Arrived(i)
  <2>1. next = 2 /\ Filling
    BY <1>1 DEF Inv, XInv, Filling
  <2>2. Arrived(1)
    BY <1>1, <2>1 DEF Inv, XInv
  <2> QED BY <1>1, <2>2
<1>2. Inv => SingleArgumentArrives
  BY <1>1 DEF SingleArgumentArrives, ArgumentsArrive
<1> QED BY <1>2, InvHolds, PTL

-----------------------------------------------------------------------------
(* The pages with the bytes of a loaded header, those of the file and      *)
(* those of memory, are its pages.                                         *)
LEMMA BytesInPages ==
  ASSUME NEW h \in Headers, HeaderLoaded(h)
  PROVE  \A g \in Bytes(h) :
           g \in PagesIn(Base(h), Limit(h)) /\ \E x \in SegmentSpan(h) : g = x \div PageBytes
<1>1. ~EndWraps(h) /\ Limit(h) < Top
  BY DEF HeaderLoaded
<1>2. PICK v \in Nat, m \in Nat, f \in Nat, base \in Nat, limit \in Nat :
        /\ v = h.vaddr /\ m = h.memory /\ f = h.bytes /\ base = Base(h) /\ limit = Limit(h)
        /\ base <= v /\ v + m <= limit /\ v + f <= limit /\ base <= limit
  <2>1. h.vaddr + h.bytes <= Limit(h)
    BY DEF HeaderLoaded
  <2> QED BY <1>1, <2>1, HeaderFacts
<1>3. PICK top \in Nat : top = Max({h.memory, h.bytes}) /\ v + top <= limit
  <2>1. PICK top \in Nat : top = Max({h.memory, h.bytes}) /\ (top = m \/ top = f)
    BY <1>2, MaxOfTwo
  <2> QED BY <1>2, <2>1
<1> SUFFICES ASSUME NEW g \in Bytes(h)
             PROVE  /\ g \in PagesIn(Base(h), Limit(h))
                    /\ \E x \in SegmentSpan(h) : g = x \div PageBytes
  OBVIOUS
<1>4. PICK x \in Span(v, top) : g = PageOf(x)
  BY <1>2, <1>3 DEF Bytes
<1>5. x \in Nat /\ v <= x /\ x < v + top
  BY SpanOf
<1>6. base <= x /\ x < limit /\ x < Top
  BY <1>1, <1>2, <1>3, <1>5, AllocatorAssumption
<1>7. g = x \div PageBytes
  BY <1>4, <1>5, <1>6, PageFacts
<1>8. x \in SegmentSpan(h)
  <2>1. PICK n \in Nat : n = limit - base /\ base + n = limit
    BY <1>2
  <2>2. x \in Span(base, n)
    BY <1>5, <1>6, <2>1, SpanOf
  <2> QED BY <1>2, <2>1, <2>2 DEF SegmentSpan
<1>9. g \in PagesIn(Base(h), Limit(h))
  BY <1>1, <1>5, <1>7, <1>8, HeaderPages
<1> QED BY <1>7, <1>8, <1>9

(* A page of one loaded header is that of no address outside its own.      *)
LEMMA NoPageOutside ==
  ASSUME NEW h \in Headers, HeaderLoaded(h), NEW g \in Bytes(h), NEW x \in Nat,
         g = x \div PageBytes
  PROVE  x \in SegmentSpan(h)
<1>1. g \in PagesIn(Base(h), Limit(h)) /\ ~EndWraps(h) /\ Limit(h) < Top
  BY BytesInPages DEF HeaderLoaded
<1> QED BY <1>1, HeaderPages

(* The addresses of headers one behind the other are apart.                *)
LEMMA SpansApart ==
  ASSUME NEW g \in Headers, NEW h \in Headers, ~EndWraps(g), ~EndWraps(h), Limit(g) <= Base(h)
  PROVE  SegmentSpan(g) \cap SegmentSpan(h) = {}
<1>1. PICK b1 \in Nat, l1 \in Nat, b2 \in Nat, l2 \in Nat :
        /\ b1 = Base(g) /\ l1 = Limit(g) /\ l1 - b1 \in Nat
        /\ b2 = Base(h) /\ l2 = Limit(h) /\ l2 - b2 \in Nat /\ l1 <= b2
  BY HeaderFacts
<1>2. \A x : x \in Span(b1, l1 - b1) => x \in Nat /\ x < l1
  <2>1. b1 + (l1 - b1) = l1
    BY <1>1
  <2> QED BY <1>1, <2>1, SpanOf
<1>3. \A x : x \in Span(b2, l2 - b2) => x \in Nat /\ b2 <= x
  BY <1>1, SpanOf
<1>4. \A x : x \in Nat => ~(b2 <= x /\ x < l1)
  BY <1>1
<1> QED BY <1>1, <1>2, <1>3, <1>4 DEF SegmentSpan

(* A program starts with every byte of its segments mapped, no two of them *)
(* in one page, and with mapped memory beside them that holds its          *)
(* arguments; unless the end of a range has wrapped around on the way,     *)
(* which parseElf does not check.                                          *)
THEOREM SegmentsAlwaysWhole == Spec => []SegmentsAreWhole
<1>1. ASSUME Inv, stage = "started", ~wrapped PROVE SegmentsAreWhole
  <2>1. /\ file \in Seq(Headers) /\ loaded = Len(file) /\ Len(file) \in Nat
        /\ DOMAIN file = 1 .. loaded /\ Loaded /\ Filling
    BY <1>1, LenProperties DEF Inv, SInv, Loaded, Filling
  <2>2. PICK load : load = {i \in DOMAIN file : file[i].type = "load"}
    OBVIOUS
  <2>3. ASSUME NEW i \in load
        PROVE  /\ file[i] \in Headers /\ HeaderLoaded(file[i]) /\ ~EndWraps(file[i])
               /\ i \in 1 .. loaded /\ file[i].type = "load"
    <3>1. i \in 1 .. loaded /\ file[i].type = "load" /\ file[i] \in Headers
      BY <2>1, <2>2, LenProperties
    <3> QED BY <2>1, <3>1 DEF Loaded, HeaderLoaded
  <2>4. PICK segments : segments = UNION {Bytes(file[i]) : i \in load}
    OBVIOUS
  <2>5. segments \subseteq mapped
    <3>1. ASSUME NEW i \in load PROVE Bytes(file[i]) \subseteq mapped
      <4>1. Bytes(file[i]) \subseteq PagesIn(Base(file[i]), Limit(file[i]))
        BY <2>3, BytesInPages
      <4> QED BY <2>3, <4>1 DEF HeaderLoaded
    <3> QED BY <2>4, <3>1
  <2>6. ASSUME NEW i \in load, NEW j \in load, i # j
        PROVE  Bytes(file[i]) \cap Bytes(file[j]) = {}
    <3>1. SegmentSpan(file[i]) \cap SegmentSpan(file[j]) = {}
      <4>1. i < j \/ j < i
        BY <2>3, <2>6
      <4>2. CASE i < j
        <5>1. Limit(file[i]) <= Base(file[j])
          BY <2>1, <2>3, <4>2 DEF Loaded
        <5> QED BY <2>3, <5>1, SpansApart
      <4>3. CASE j < i
        <5>1. Limit(file[j]) <= Base(file[i])
          BY <2>1, <2>3, <4>3 DEF Loaded
        <5>2. SegmentSpan(file[j]) \cap SegmentSpan(file[i]) = {}
          BY <2>3, <5>1, SpansApart
        <5> QED BY <5>2
      <4> QED BY <4>1, <4>2, <4>3
    <3> SUFFICES ASSUME NEW g \in Bytes(file[i]), g \in Bytes(file[j]) PROVE FALSE
      OBVIOUS
    <3>2. PICK x \in SegmentSpan(file[i]) : g = x \div PageBytes
      BY <2>3, BytesInPages
    <3>3. x \in Nat
      <4>1. PICK s \in Nat, n \in Nat : s = Base(file[i]) /\ n = Limit(file[i]) - Base(file[i])
        BY <2>3, HeaderFacts
      <4>2. x \in Span(s, n)
        BY <4>1 DEF SegmentSpan
      <4> QED BY <4>1, <4>2, SpanOf
    <3>4. x \in SegmentSpan(file[j])
      BY <2>3, <3>2, <3>3, NoPageOutside
    <3> QED BY <3>1, <3>4
  <2>7. \E a \in program :
          a.size >= Room /\ PagesIn(a.start, Stop(a)) \subseteq mapped \ segments
    <3>1. PICK a \in program : Beside(a)
      BY <2>1 DEF Loaded
    <3>2. PICK s \in Nat, n \in Nat :
            s = a.start /\ n = a.size /\ Stop(a) = s + n /\ s + n <= Top
      <4>1. PICK s \in Nat, n \in Nat :
              s = a.start /\ n = a.size /\ End(a) = s + n /\ s + n <= Top
        BY <3>1 DEF Beside, InMemory, End
      <4>2. End(a) < Space
        BY <4>1, AllocatorAssumption
      <4> QED BY <4>1, <4>2, StopFacts
    <3>3. ASSUME NEW g \in PagesIn(s, s + n), g \in segments PROVE FALSE
      <4>1. PICK x \in Nat : s <= x /\ x < s + n /\ g = x \div PageBytes
        <5>1. s + n \in Nat
          OBVIOUS
        <5> QED BY <3>2, <3>3, <5>1, PageFrom
      <4>2. x \in Span(a.start, a.size)
        BY <3>2, <4>1, SpanOf
      <4>3. PICK i \in load : g \in Bytes(file[i])
        BY <2>4, <3>3
      <4>4. x \in SegmentSpan(file[i])
        BY <2>3, <4>1, <4>3, NoPageOutside
      <4>5. SegmentSpan(file[i]) \cap Span(a.start, a.size) = {}
        BY <2>3, <3>1 DEF Beside
      <4> QED BY <4>2, <4>4, <4>5
    <3> QED BY <3>1, <3>2, <3>3 DEF Beside
  <2> QED BY <2>1, <2>2, <2>4, <2>5, <2>6, <2>7 DEF SegmentsAreWhole
<1>2. Inv => SegmentsAreWhole
  BY <1>1 DEF SegmentsAreWhole
<1> QED BY <1>2, InvHolds, PTL
=============================================================================
