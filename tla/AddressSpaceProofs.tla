------------------------- MODULE AddressSpaceProofs -------------------------
(***************************************************************************)
(* Proofs about AddressSpace, for any depth and width of the page tables,  *)
(* any number of frames and processes.                                     *)
(***************************************************************************)
EXTENDS AddressSpace, CommonLemmas

-----------------------------------------------------------------------------
(* The recursive definition of PagesUnder has its value: the k where it    *)
(* first goes wrong does not exist.                                        *)
LEMMA PagesUnderFacts ==
  /\ PagesUnder[0] = 1
  /\ \A k \in 1 .. Levels : PagesUnder[k] = Width * PagesUnder[k - 1]
<1> DEFINE Computes(f, k) == /\ f = [i \in 0 .. k |-> f[i]] /\ f[0] = 1
                             /\ \A i \in 1 .. k : f[i] = Width * f[i - 1]
           Bad == {k \in 0 .. Levels : ~\E f : Computes(f, k)}
           Step(f) == [k \in 0 .. Levels |-> IF k = 0 THEN 1 ELSE Width * f[k - 1]]
<1>0. Levels \in Nat
  BY PagingAssumption
<1>1. Bad = {}
  <2> SUFFICES ASSUME Bad # {} PROVE FALSE
    OBVIOUS
  <2>1. Bad \subseteq Nat
    OBVIOUS
  <2>2. PICK k \in Bad : \A j \in Bad : k <= j
    <3> HIDE DEF Bad
    <3> QED BY <2>1, MinIsLeast
  <2>3. k \in 0 .. Levels /\ ~\E f : Computes(f, k)
    BY <2>2
  <2>4. k # 0
    <3>1. Computes([i \in 0 .. 0 |-> 1], 0)
      OBVIOUS
    <3> QED BY <2>3, <3>1
  <2>5. k - 1 \in 0 .. Levels /\ k \in 1 .. Levels
    BY <1>0, <2>3, <2>4
  <2>6. k - 1 \notin Bad
    <3> HIDE DEF Bad
    <3> QED BY <2>2, <2>3
  <2>7. PICK f : Computes(f, k - 1)
    BY <2>5, <2>6
  <2> DEFINE g == [i \in 0 .. k |-> IF i = k THEN Width * f[k - 1] ELSE f[i]]
  <2>8. g[0] = 1
    <3>1. 0 \in 0 .. k /\ 0 # k
      BY <2>5
    <3> QED BY <2>7, <3>1
  <2>9. ASSUME NEW i \in 1 .. k PROVE g[i] = Width * g[i - 1]
    <3>1. i \in 0 .. k /\ i - 1 \in 0 .. k /\ i - 1 # k
      BY <2>5
    <3>2. g[i - 1] = f[i - 1]
      BY <3>1
    <3>3. CASE i = k
      BY <3>1, <3>2, <3>3
    <3>4. CASE i # k
      <4>1. i \in 1 .. k - 1
        BY <2>5, <3>4
      <4>2. g[i] = f[i]
        BY <3>1, <3>4
      <4> QED BY <2>7, <3>2, <4>1, <4>2
    <3> QED BY <3>3, <3>4
  <2>10. g = [i \in 0 .. k |-> g[i]]
    OBVIOUS
  <2>11. Computes(g, k)
    <3> HIDE DEF g
    <3> QED BY <2>8, <2>9, <2>10
  <2> QED BY <2>3, <2>11
<1>2. PICK f : Computes(f, Levels)
  <2>1. Levels \in 0 .. Levels
    BY <1>0
  <2> SUFFICES ASSUME ~\E f : Computes(f, Levels) PROVE FALSE
    OBVIOUS
  <2>2. Levels \in Bad
    BY <2>1
  <2> QED BY <1>1, <2>2
<1>3. f = Step(f)
  <2>1. ASSUME NEW i \in 0 .. Levels
        PROVE  f[i] = IF i = 0 THEN 1 ELSE Width * f[i - 1]
    <3>1. i # 0 => i \in 1 .. Levels
      BY <1>0
    <3> QED BY <1>2, <3>1
  <2> QED BY <1>2, <2>1
<1>4. PICK g : g = CHOOSE h : h = Step(h)
  OBVIOUS
<1>5. g = Step(g)
  <2> HIDE DEF Step
  <2> QED BY <1>3, <1>4
<1>6. PagesUnder = g
  BY <1>4 DEF PagesUnder
<1>7. /\ g[0] = 1
      /\ \A k \in 1 .. Levels : g[k] = Width * g[k - 1]
  <2>1. 0 \in 0 .. Levels /\ \A k \in 1 .. Levels : k \in 0 .. Levels /\ k # 0
    BY <1>0
  <2> QED BY <1>5, <2>1
<1> QED BY <1>6, <1>7

(* ... and is a positive number.                                           *)
LEMMA PagesUnderPositive ==
  \A k \in 0 .. Levels : PagesUnder[k] \in Nat \ {0}
<1> DEFINE Bad == {k \in 0 .. Levels : PagesUnder[k] \notin Nat \ {0}}
<1>1. Bad = {}
  <2> SUFFICES ASSUME Bad # {} PROVE FALSE
    OBVIOUS
  <2>1. Bad \subseteq Nat
    OBVIOUS
  <2>2. PICK k \in Bad : \A j \in Bad : k <= j
    <3> HIDE DEF Bad
    <3> QED BY <2>1, MinIsLeast
  <2>3. k \in 0 .. Levels /\ PagesUnder[k] \notin Nat \ {0}
    BY <2>2
  <2>4. k # 0
    BY <2>3, PagesUnderFacts
  <2>5. k \in 1 .. Levels /\ k - 1 \in 0 .. Levels
    BY <2>3, <2>4, PagingAssumption
  <2>6. k - 1 \notin Bad
    <3> HIDE DEF Bad
    <3> QED BY <2>2, <2>3
  <2>7. PagesUnder[k - 1] \in Nat \ {0}
    BY <2>5, <2>6
  <2>8. PICK x \in Nat \ {0} : x = PagesUnder[k - 1]
    BY <2>7
  <2>9. Width * x \in Nat \ {0}
    BY PagingAssumption
  <2> QED BY <2>3, <2>5, <2>8, <2>9, PagesUnderFacts
<1> QED BY <1>1

-----------------------------------------------------------------------------
(* Page numbers, 0 included, and the tables their paths share: m and n are *)
(* reached through the same frame of level i.                              *)
Pages == Addrs \cup {0}
Same(i, m, n) == Node(i, m) = Node(i, n)

(* Division has one quotient.                                              *)
LEMMA QuotientIs ==
  ASSUME NEW n \in Nat, NEW d \in Nat \ {0}, NEW q \in Nat,
         d * q <= n, n < d * q + d
  PROVE  n \div d = q
<1>1. PICK r \in Nat : r = n \div d /\ d * r <= n /\ n < d * r + d
  BY DivFacts
<1>2. ASSUME r < q PROVE FALSE
  <2>1. PICK k \in Nat : q = r + 1 + k
    <3>1. q - r - 1 \in Nat /\ q = r + 1 + (q - r - 1)
      BY <1>2
    <3> QED BY <3>1
  <2>2. d * q = d * r + d + d * k
    BY <2>1
  <2>3. d * k \in Nat /\ d * r \in Nat
    OBVIOUS
  <2> QED BY <1>1, <2>2, <2>3
<1>3. ASSUME q < r PROVE FALSE
  <2>1. PICK k \in Nat : r = q + 1 + k
    <3>1. r - q - 1 \in Nat /\ r = q + 1 + (r - q - 1)
      BY <1>3
    <3> QED BY <3>1
  <2>2. d * r = d * q + d + d * k
    BY <2>1
  <2>3. d * k \in Nat /\ d * q \in Nat
    OBVIOUS
  <2> QED BY <1>1, <2>2, <2>3
<1> QED BY <1>1, <1>2, <1>3

(* To divide twice is to divide by the product.                            *)
LEMMA DivDiv ==
  ASSUME NEW n \in Nat, NEW d \in Nat \ {0}, NEW w \in Nat \ {0}
  PROVE  n \div (w * d) = (n \div d) \div w
<1>1. PICK q \in Nat : q = n \div d /\ d * q <= n /\ n < d * q + d
  BY DivFacts
<1>2. PICK r \in Nat : r = q \div w /\ w * r <= q /\ q < w * r + w
  BY DivFacts
<1>3. PICK a \in Nat : q = w * r + a /\ a < w
  <2>1. PICK x \in Nat : x = w * r
    OBVIOUS
  <2>2. q - x \in Nat /\ q = x + (q - x) /\ q - x < w
    BY <1>2, <2>1
  <2> QED BY <2>1, <2>2
<1>4. PICK b \in Nat : w = a + 1 + b
  <2>1. w - a - 1 \in Nat /\ w = a + 1 + (w - a - 1)
    BY <1>3
  <2> QED BY <2>1
<1>5. PICK e \in Nat \ {0} : e = w * d
  OBVIOUS
<1>6. d * q = e * r + d * a
  <2>1. d * q = d * (w * r) + d * a
    BY <1>3
  <2>2. d * (w * r) = (w * d) * r
    OBVIOUS
  <2> QED BY <1>5, <2>1, <2>2
<1>7. e = d * a + d + d * b
  <2>1. (a + 1 + b) * d = d * a + d + d * b
    OBVIOUS
  <2> QED BY <1>4, <1>5, <2>1
<1>8. PICK er, da, db \in Nat : er = e * r /\ da = d * a /\ db = d * b
  OBVIOUS
<1>9. er <= n /\ n < er + e
  BY <1>1, <1>6, <1>7, <1>8
<1>10. n \div e = r
  BY <1>8, <1>9, QuotientIs
<1> QED BY <1>1, <1>2, <1>5, <1>10

(* A number is its quotient and its remainder.                             *)
LEMMA SameNumber ==
  ASSUME NEW x \in Nat, NEW y \in Nat, NEW w \in Nat \ {0}
  PROVE  /\ x % w \in 0 .. w - 1
         /\ x = y <=> x \div w = y \div w /\ x % w = y % w
<1>1. PICK q \in Nat : q = x \div w
  BY DivFacts
<1>2. PICK r \in Nat : r = y \div w
  BY DivFacts
<1>3. x = w * q + (x % w) /\ x % w \in 0 .. w - 1
  BY <1>1
<1>4. y = w * r + (y % w)
  BY <1>2
<1> QED BY <1>1, <1>2, <1>3, <1>4

(* Two paths share the frame of a level when they share the one above and  *)
(* continue through the same entry; all share the root, and no two the     *)
(* last level.                                                             *)
LEMMA NodeFacts ==
  ASSUME NEW m \in Pages, NEW n \in Pages
  PROVE  /\ Same(0, m, n)
         /\ Same(Levels, m, n) <=> m = n
         /\ \A i \in 1 .. Levels :
              /\ Index(n, i) \in Slots
              /\ Same(i, m, n) <=> Same(i - 1, m, n) /\ Index(m, i) = Index(n, i)
<1>1. PICK L \in Nat : L = Levels /\ L > 0
  BY PagingAssumption
<1>2. PICK w \in Nat \ {0} : w = Width
  BY PagingAssumption
<1>3. PICK all \in Nat \ {0} : all = PagesUnder[L]
  BY <1>1, PagesUnderPositive
<1>4. m \in Nat /\ n \in Nat /\ m < all /\ n < all
  BY <1>1, <1>3 DEF Pages, Addrs
<1>5. ASSUME NEW x \in Nat, x < all PROVE x \div PagesUnder[L] = 0
  <2>1. all * 0 = 0
    OBVIOUS
  <2>2. x \div all = 0
    BY <1>5, <2>1, QuotientIs
  <2> QED BY <1>3, <2>2
<1>6. Same(0, m, n)
  BY <1>1, <1>4, <1>5 DEF Same, Node
<1>7. Same(Levels, m, n) <=> m = n
  <2>1. PagesUnder[L - L] = 1
    BY PagesUnderFacts
  <2>2. m \div 1 = m /\ n \div 1 = n
    BY <1>4
  <2> QED BY <1>1, <2>1, <2>2 DEF Same, Node
<1>8. ASSUME NEW i \in 1 .. Levels
      PROVE  /\ Index(n, i) \in Slots
             /\ Same(i, m, n) <=> Same(i - 1, m, n) /\ Index(m, i) = Index(n, i)
  <2>1. PICK d \in Nat \ {0} : d = PagesUnder[L - i]
    <3>1. L - i \in 0 .. Levels
      BY <1>1
    <3> QED BY <3>1, PagesUnderPositive
  <2>2. PagesUnder[L - (i - 1)] = w * d
    <3>1. L - (i - 1) \in 1 .. Levels /\ (L - (i - 1)) - 1 = L - i
      BY <1>1
    <3> QED BY <1>2, <2>1, <3>1, PagesUnderFacts
  <2>3. PICK x \in Nat : x = m \div d
    BY <1>4, DivFacts
  <2>4. PICK y \in Nat : y = n \div d
    BY <1>4, DivFacts
  <2>5. m \div (w * d) = x \div w /\ n \div (w * d) = y \div w
    BY <1>4, <2>3, <2>4, DivDiv
  <2>6. Index(m, i) = x % w /\ Index(n, i) = y % w
    BY <1>1, <1>2, <2>1, <2>3, <2>4 DEF Index
  <2>7. Same(i, m, n) <=> x = y
    BY <1>1, <2>1, <2>3, <2>4 DEF Same, Node
  <2>8. Same(i - 1, m, n) <=> x \div w = y \div w
    BY <1>1, <2>2, <2>5 DEF Same, Node
  <2>9. /\ y % w \in 0 .. w - 1
        /\ x = y <=> x \div w = y \div w /\ x % w = y % w
    BY SameNumber
  <2> QED BY <1>2, <2>6, <2>7, <2>8, <2>9 DEF Slots
<1> QED BY <1>6, <1>7, <1>8

-----------------------------------------------------------------------------
(* Walk over tables tb from root r, one hop after the other.               *)
Hop(tb, n, i, f) == IF f = 0 THEN 0 ELSE tb[f][Index(n, i)].to

WalkIn(tb, r, n) ==
  LET w[i \in 0 .. Levels] ==
        IF i = 0 THEN r
        ELSE IF w[i - 1] = 0 THEN 0 ELSE tb[w[i - 1]][Index(n, i)].to
  IN  w

(* The recursive definition of a walk has its value.                       *)
LEMMA WalkFacts ==
  ASSUME NEW tb, NEW r, NEW n
  PROVE  /\ WalkIn(tb, r, n) = [i \in 0 .. Levels |-> WalkIn(tb, r, n)[i]]
         /\ WalkIn(tb, r, n)[0] = r
         /\ \A i \in 1 .. Levels :
              WalkIn(tb, r, n)[i] = Hop(tb, n, i, WalkIn(tb, r, n)[i - 1])
<1> DEFINE Computes(f, k) == /\ f = [i \in 0 .. k |-> f[i]] /\ f[0] = r
                             /\ \A i \in 1 .. k : f[i] = Hop(tb, n, i, f[i - 1])
           Bad == {k \in 0 .. Levels : ~\E f : Computes(f, k)}
           Step(f) == [i \in 0 .. Levels |->
                         IF i = 0 THEN r
                         ELSE IF f[i - 1] = 0 THEN 0 ELSE tb[f[i - 1]][Index(n, i)].to]
<1>0. Levels \in Nat
  BY PagingAssumption
<1>1. Bad = {}
  <2> SUFFICES ASSUME Bad # {} PROVE FALSE
    OBVIOUS
  <2>1. Bad \subseteq Nat
    OBVIOUS
  <2>2. PICK k \in Bad : \A j \in Bad : k <= j
    <3> HIDE DEF Bad
    <3> QED BY <2>1, MinIsLeast
  <2>3. k \in 0 .. Levels /\ ~\E f : Computes(f, k)
    BY <2>2
  <2>4. k # 0
    <3>1. Computes([i \in 0 .. 0 |-> r], 0)
      OBVIOUS
    <3> QED BY <2>3, <3>1
  <2>5. k - 1 \in 0 .. Levels /\ k \in 1 .. Levels
    BY <1>0, <2>3, <2>4
  <2>6. k - 1 \notin Bad
    <3> HIDE DEF Bad
    <3> QED BY <2>2, <2>3
  <2>7. PICK f : Computes(f, k - 1)
    BY <2>5, <2>6
  <2> DEFINE g == [i \in 0 .. k |-> IF i = k THEN Hop(tb, n, k, f[k - 1]) ELSE f[i]]
  <2>8. g[0] = r
    <3>1. 0 \in 0 .. k /\ 0 # k
      BY <2>5
    <3> QED BY <2>7, <3>1
  <2>9. ASSUME NEW i \in 1 .. k PROVE g[i] = Hop(tb, n, i, g[i - 1])
    <3>1. i \in 0 .. k /\ i - 1 \in 0 .. k /\ i - 1 # k
      BY <2>5
    <3>2. g[i - 1] = f[i - 1]
      BY <3>1
    <3>3. CASE i = k
      BY <3>1, <3>2, <3>3
    <3>4. CASE i # k
      <4>1. i \in 1 .. k - 1
        BY <2>5, <3>4
      <4>2. g[i] = f[i]
        BY <3>1, <3>4
      <4> QED BY <2>7, <3>2, <4>1, <4>2
    <3> QED BY <3>3, <3>4
  <2>10. g = [i \in 0 .. k |-> g[i]]
    OBVIOUS
  <2>11. Computes(g, k)
    <3> HIDE DEF g
    <3> QED BY <2>8, <2>9, <2>10
  <2> QED BY <2>3, <2>11
<1>2. PICK f : Computes(f, Levels)
  <2>1. Levels \in 0 .. Levels
    BY <1>0
  <2> SUFFICES ASSUME ~\E f : Computes(f, Levels) PROVE FALSE
    OBVIOUS
  <2>2. Levels \in Bad
    BY <2>1
  <2> QED BY <1>1, <2>2
<1>3. f = Step(f)
  <2>1. ASSUME NEW i \in 0 .. Levels
        PROVE  f[i] = IF i = 0 THEN r
                      ELSE IF f[i - 1] = 0 THEN 0 ELSE tb[f[i - 1]][Index(n, i)].to
    <3>1. i # 0 => i \in 1 .. Levels
      BY <1>0
    <3> QED BY <1>2, <3>1 DEF Hop
  <2> QED BY <1>2, <2>1
<1>4. PICK g : g = CHOOSE h : h = Step(h)
  OBVIOUS
<1>5. g = Step(g)
  <2> HIDE DEF Step
  <2> QED BY <1>3, <1>4
<1>6. WalkIn(tb, r, n) = g
  BY <1>4 DEF WalkIn
<1>7. /\ g[0] = r /\ g = [i \in 0 .. Levels |-> g[i]]
      /\ \A i \in 1 .. Levels : g[i] = Hop(tb, n, i, g[i - 1])
  <2>1. 0 \in 0 .. Levels /\ \A i \in 1 .. Levels : i \in 0 .. Levels /\ i # 0
    BY <1>0
  <2>2. g[0] = r
    BY <1>5, <2>1
  <2>3. ASSUME NEW i \in 1 .. Levels PROVE g[i] = Hop(tb, n, i, g[i - 1])
    BY <1>5, <2>1 DEF Hop
  <2>4. g = [i \in 0 .. Levels |-> g[i]]
    BY <1>5
  <2> QED BY <2>2, <2>3, <2>4
<1> QED BY <1>6, <1>7

(* Walk is WalkIn over the current tables.                                 *)
LEMMA WalkIs ==
  ASSUME NEW r, NEW n
  PROVE  Walk(r, n) = WalkIn(tables, r, n)
BY DEF Walk, WalkIn

(* All walks at once: w[p][n][i] is the frame of level i on the path from  *)
(* the root of process p to page n, or 0.                                  *)
Forests == [Procs -> [Pages -> [0 .. Levels -> Frames \cup {0}]]]
Trees == [Frames -> [Slots -> Entries]]
RootsOf == [Procs -> Frames \cup {0}]

IsWalks(w, tb, rt) ==
  /\ w \in Forests
  /\ \A p \in Procs, n \in Pages :
       /\ w[p][n][0] = rt[p]
       /\ \A i \in 1 .. Levels : w[p][n][i] = Hop(tb, n, i, w[p][n][i - 1])

WalksIn(tb, rt) == [p \in Procs |-> [n \in Pages |-> WalkIn(tb, rt[p], n)]]

(* A hop over tables leads to a frame or nowhere.                          *)
LEMMA HopType ==
  ASSUME NEW tb \in Trees, NEW n \in Pages, NEW i \in 1 .. Levels, NEW f \in Frames \cup {0}
  PROVE  Hop(tb, n, i, f) \in Frames \cup {0}
<1>1. CASE f = 0
  BY <1>1 DEF Hop
<1>2. CASE f # 0
  <2>1. f \in Frames /\ Index(n, i) \in Slots
    BY <1>2, NodeFacts
  <2>2. tb[f][Index(n, i)] \in Entries
    BY <2>1 DEF Trees
  <2> QED BY <1>2, <2>2 DEF Hop, Entries
<1> QED BY <1>1, <1>2

(* One walk is a function from levels to frames.                           *)
LEMMA WalkType ==
  ASSUME NEW tb \in Trees, NEW r \in Frames \cup {0}, NEW n \in Pages
  PROVE  WalkIn(tb, r, n) \in [0 .. Levels -> Frames \cup {0}]
<1>1. PICK w : w = WalkIn(tb, r, n)
  OBVIOUS
<1>2. /\ w = [i \in 0 .. Levels |-> w[i]] /\ w[0] = r
      /\ \A i \in 1 .. Levels : w[i] = Hop(tb, n, i, w[i - 1])
  BY <1>1, WalkFacts
<1> DEFINE Bad == {i \in 0 .. Levels : w[i] \notin Frames \cup {0}}
<1>3. Bad = {}
  <2> SUFFICES ASSUME Bad # {} PROVE FALSE
    OBVIOUS
  <2>1. Bad \subseteq Nat
    OBVIOUS
  <2>2. PICK i \in Bad : \A j \in Bad : i <= j
    <3> HIDE DEF Bad
    <3> QED BY <2>1, MinIsLeast
  <2>3. i \in 0 .. Levels /\ w[i] \notin Frames \cup {0}
    BY <2>2
  <2>4. i # 0
    BY <1>2, <2>3
  <2>5. i \in 1 .. Levels /\ i - 1 \in 0 .. Levels
    BY <2>3, <2>4, PagingAssumption
  <2>6. i - 1 \notin Bad
    <3> HIDE DEF Bad
    <3> QED BY <2>2, <2>3
  <2>7. w[i - 1] \in Frames \cup {0}
    BY <2>5, <2>6
  <2> QED BY <1>2, <2>3, <2>5, <2>7, HopType
<1>4. \A i \in 0 .. Levels : w[i] \in Frames \cup {0}
  BY <1>3
<1>5. [i \in 0 .. Levels |-> w[i]] \in [0 .. Levels -> Frames \cup {0}]
  BY <1>4
<1> QED BY <1>1, <1>2, <1>5

(* The walks over tables are walks.                                        *)
LEMMA WalksAreWalks ==
  ASSUME NEW tb \in Trees, NEW rt \in RootsOf
  PROVE  IsWalks(WalksIn(tb, rt), tb, rt)
<1>1. PICK w : w = WalksIn(tb, rt)
  OBVIOUS
<1>2. ASSUME NEW p \in Procs, NEW n \in Pages
      PROVE  /\ w[p][n] = WalkIn(tb, rt[p], n)
             /\ WalkIn(tb, rt[p], n) \in [0 .. Levels -> Frames \cup {0}]
  <2>1. rt[p] \in Frames \cup {0}
    BY DEF RootsOf
  <2> QED BY <1>1, <2>1, WalkType DEF WalksIn
<1>3. w \in Forests
  <2>1. WalksIn(tb, rt) \in Forests
    BY <1>1, <1>2 DEF WalksIn, Forests
  <2> QED BY <1>1, <2>1
<1>4. \A p \in Procs, n \in Pages :
        /\ w[p][n][0] = rt[p]
        /\ \A i \in 1 .. Levels : w[p][n][i] = Hop(tb, n, i, w[p][n][i - 1])
  BY <1>2, WalkFacts
<1> QED BY <1>1, <1>3, <1>4 DEF IsWalks

(* There are no others.                                                    *)
LEMMA WalksUnique ==
  ASSUME NEW tb, NEW rt, NEW w, NEW v, IsWalks(w, tb, rt), IsWalks(v, tb, rt)
  PROVE  w = v
<1>1. ASSUME NEW p \in Procs, NEW n \in Pages, NEW i \in 0 .. Levels
      PROVE  w[p][n][i] = v[p][n][i]
  <2> DEFINE Bad == {k \in 0 .. Levels : w[p][n][k] # v[p][n][k]}
  <2>1. Bad = {}
    <3> SUFFICES ASSUME Bad # {} PROVE FALSE
      OBVIOUS
    <3>1. Bad \subseteq Nat
      OBVIOUS
    <3>2. PICK k \in Bad : \A j \in Bad : k <= j
      <4> HIDE DEF Bad
      <4> QED BY <3>1, MinIsLeast
    <3>3. k \in 0 .. Levels /\ w[p][n][k] # v[p][n][k]
      BY <3>2
    <3>4. k # 0
      BY <3>3 DEF IsWalks
    <3>5. k \in 1 .. Levels /\ k - 1 \in 0 .. Levels
      BY <3>3, <3>4, PagingAssumption
    <3>6. k - 1 \notin Bad
      <4> HIDE DEF Bad
      <4> QED BY <3>2, <3>3
    <3>7. w[p][n][k - 1] = v[p][n][k - 1]
      BY <3>5, <3>6
    <3> QED BY <3>3, <3>5, <3>7 DEF IsWalks
  <2> QED BY <2>1
<1>2. w \in Forests /\ v \in Forests
  BY DEF IsWalks
<1>3. ASSUME NEW p \in Procs, NEW n \in Pages PROVE w[p][n] = v[p][n]
  <2>1. /\ w[p][n] \in [0 .. Levels -> Frames \cup {0}]
        /\ v[p][n] \in [0 .. Levels -> Frames \cup {0}]
    BY <1>2 DEF Forests
  <2>2. PICK x, y : x = w[p][n] /\ y = v[p][n]
    OBVIOUS
  <2>3. \A i \in 0 .. Levels : x[i] = y[i]
    BY <1>1, <2>2
  <2>4. x \in [0 .. Levels -> Frames \cup {0}] /\ y \in [0 .. Levels -> Frames \cup {0}]
    BY <2>1, <2>2
  <2>5. x = [i \in 0 .. Levels |-> x[i]] /\ y = [i \in 0 .. Levels |-> y[i]]
    BY <2>4
  <2>6. [i \in 0 .. Levels |-> x[i]] = [i \in 0 .. Levels |-> y[i]]
    BY <2>3
  <2> QED BY <2>2, <2>5, <2>6
<1>4. ASSUME NEW p \in Procs PROVE w[p] = v[p]
  <2>1. /\ w[p] \in [Pages -> [0 .. Levels -> Frames \cup {0}]]
        /\ v[p] \in [Pages -> [0 .. Levels -> Frames \cup {0}]]
    BY <1>2 DEF Forests
  <2> QED BY <1>3, <2>1
<1> QED BY <1>2, <1>4 DEF Forests

(* Paths of one process that share a node share its frame.                 *)
LEMMA SharedPrefix ==
  ASSUME NEW tb, NEW rt, NEW w, IsWalks(w, tb, rt), NEW p \in Procs,
         NEW m \in Pages, NEW n \in Pages, NEW i \in 0 .. Levels, Same(i, m, n)
  PROVE  w[p][m][i] = w[p][n][i]
<1> DEFINE Bad == {k \in 0 .. Levels : Same(k, m, n) /\ w[p][m][k] # w[p][n][k]}
<1>1. Bad = {}
  <2> SUFFICES ASSUME Bad # {} PROVE FALSE
    OBVIOUS
  <2>1. Bad \subseteq Nat
    OBVIOUS
  <2>2. PICK k \in Bad : \A j \in Bad : k <= j
    <3> HIDE DEF Bad
    <3> QED BY <2>1, MinIsLeast
  <2>3. k \in 0 .. Levels /\ Same(k, m, n) /\ w[p][m][k] # w[p][n][k]
    BY <2>2
  <2>4. k # 0
    BY <2>3 DEF IsWalks
  <2>5. k \in 1 .. Levels /\ k - 1 \in 0 .. Levels
    BY <2>3, <2>4, PagingAssumption
  <2>6. k - 1 \notin Bad
    <3> HIDE DEF Bad
    <3> QED BY <2>2, <2>3
  <2>7. Same(k - 1, m, n) /\ Index(m, k) = Index(n, k)
    BY <2>3, <2>5, NodeFacts
  <2>8. w[p][m][k - 1] = w[p][n][k - 1]
    BY <2>5, <2>6, <2>7
  <2>9. /\ w[p][m][k] = Hop(tb, m, k, w[p][m][k - 1])
        /\ w[p][n][k] = Hop(tb, n, k, w[p][n][k - 1])
    BY <2>5 DEF IsWalks
  <2> QED BY <2>3, <2>7, <2>8, <2>9 DEF Hop
<1> QED BY <1>1

-----------------------------------------------------------------------------
(* A finite set of naturals has a member with k - 1 smaller ones for every *)
(* k up to its size: the least, and the least above the one before.        *)
LEMMA KthExists ==
  ASSUME NEW S, S \subseteq Nat, IsFiniteSet(S), NEW k \in 1 .. Cardinality(S)
  PROVE  \E f \in S : Cardinality({g \in S : g < f}) = k - 1
<1> DEFINE Lower(f) == {g \in S : g < f}
           Bad == {j \in 1 .. Cardinality(S) : ~\E f \in S : Cardinality(Lower(f)) = j - 1}
<1>0. PICK size \in Nat : size = Cardinality(S)
  BY FS_CardinalityType
<1>1. Bad = {}
  <2> SUFFICES ASSUME Bad # {} PROVE FALSE
    OBVIOUS
  <2>1. Bad \subseteq Nat
    OBVIOUS
  <2>2. PICK j \in Bad : \A i \in Bad : j <= i
    <3> HIDE DEF Bad
    <3> QED BY <2>1, MinIsLeast
  <2>3. j \in 1 .. size /\ ~\E f \in S : Cardinality(Lower(f)) = j - 1
    BY <1>0, <2>2
  <2>4. j # 1
    <3>1. S # {}
      BY <1>0, <2>3, FS_EmptySet
    <3>2. PICK f \in S : \A y \in S : f <= y
      BY <3>1, MinIsLeast
    <3>3. \A y \in S : ~(y < f)
      <4>1. f \in Nat /\ \A y \in S : y \in Nat
        OBVIOUS
      <4> QED BY <3>2, <4>1
    <3>4. Lower(f) = {}
      BY <3>3
    <3>5. Cardinality(Lower(f)) = 0
      BY <3>4, FS_EmptySet
    <3> HIDE DEF Lower
    <3>6. 1 - 1 = 0
      OBVIOUS
    <3> QED BY <2>3, <3>5, <3>6
  <2>5. j - 1 \notin Bad
    <3>1. j - 1 < j
      BY <2>3
    <3> HIDE DEF Bad
    <3> QED BY <2>1, <2>2, <3>1
  <2>6. PICK f \in S : Cardinality(Lower(f)) = (j - 1) - 1
    <3>1. j - 1 \in 1 .. size
      BY <1>0, <2>3, <2>4
    <3> QED BY <1>0, <2>5, <3>1
  <2> DEFINE Upper == {g \in S : g > f}
  <2>7. Upper # {}
    <3> SUFFICES ASSUME Upper = {} PROVE FALSE
      OBVIOUS
    <3>0. \A y \in S : y < f \/ y = f
      <4>1. \A y \in S : ~(y > f) /\ y \in Nat
        OBVIOUS
      <4>2. f \in Nat
        OBVIOUS
      <4> QED BY <4>1, <4>2
    <3>1. S = Lower(f) \cup {f}
      BY <3>0
    <3>2. IsFiniteSet(Lower(f)) /\ f \notin Lower(f)
      BY FS_Subset
    <3>3. Cardinality(S) = ((j - 1) - 1) + 1
      BY <2>6, <3>1, <3>2, FS_AddElement
    <3> QED BY <1>0, <2>3, <3>3
  <2>8. PICK h \in Upper : \A y \in Upper : h <= y
    <3>1. Upper \subseteq Nat
      OBVIOUS
    <3> HIDE DEF Upper
    <3> QED BY <2>7, <3>1, MinIsLeast
  <2>9. Lower(h) = Lower(f) \cup {f}
    <3>1. h \in S /\ h > f /\ \A y \in S : y > f => h <= y
      BY <2>8
    <3>2. \A y \in S : y < h <=> y < f \/ y = f
      BY <3>1
    <3> QED BY <3>2
  <2>10. Cardinality(Lower(h)) = ((j - 1) - 1) + 1
    <3>1. IsFiniteSet(Lower(f)) /\ f \notin Lower(f)
      BY FS_Subset
    <3>2. Cardinality(Lower(f) \cup {f}) = Cardinality(Lower(f)) + 1
      BY <3>1, FS_AddElement
    <3> QED BY <2>6, <2>9, <3>2
  <2>11. h \in S /\ Cardinality(Lower(h)) = j - 1
    BY <2>3, <2>8, <2>10
  <2> QED BY <2>3, <2>11
<1> QED BY <1>1

(* The answers to the first calls of newPage are free frames, all          *)
(* different.                                                              *)
LEMMA FreeFacts ==
  /\ Free \subseteq Nat /\ IsFiniteSet(Free) /\ Cardinality(Free) \in Nat
  /\ \A k \in 1 .. Cardinality(Free) :
       NewFrame(k) \in Free /\ Cardinality({g \in Free : g < NewFrame(k)}) = k - 1
<1>1. Free \subseteq Nat /\ IsFiniteSet(Free)
  <2>1. IsFiniteSet(Frames)
    BY PagingAssumption, FS_Interval DEF Frames
  <2>2. Free \subseteq Frames /\ Frames \subseteq Nat
    BY DEF Free, Frames
  <2> QED BY <2>1, <2>2, FS_Subset
<1>2. ASSUME NEW k \in 1 .. Cardinality(Free)
      PROVE  NewFrame(k) \in Free /\ Cardinality({g \in Free : g < NewFrame(k)}) = k - 1
  <2>1. \E f \in Free : Cardinality({g \in Free : g < f}) = k - 1
    BY <1>1, KthExists
  <2> QED BY <2>1 DEF NewFrame
<1> QED BY <1>1, <1>2, FS_CardinalityType

LEMMA NewFramesDiffer ==
  ASSUME NEW j \in 1 .. Cardinality(Free), NEW k \in 1 .. Cardinality(Free),
         NewFrame(j) = NewFrame(k)
  PROVE  j = k
<1>1. j - 1 = k - 1
  BY FreeFacts
<1>2. j \in Int /\ k \in Int
  BY FreeFacts
<1> QED BY <1>1, <1>2

LEMMA NewFrameType ==
  ASSUME NEW k \in 1 .. Cardinality(Free)
  PROVE  NewFrame(k) \in Frames /\ NewFrame(k) \notin taken /\ NewFrame(k) # 0
<1>1. NewFrame(k) \in Free
  BY FreeFacts
<1>2. PICK f : f = NewFrame(k)
  OBVIOUS
<1>3. f \in Frames /\ f \notin taken
  BY <1>1, <1>2 DEF Free
<1>4. f # 0
  BY <1>3 DEF Frames
<1> QED BY <1>2, <1>3, <1>4

-----------------------------------------------------------------------------
(* Types.  The type invariant needs that only a process loads programs.    *)
TypeInv == TypeOK /\ (loading => cur # Nobody)

(* A path that has ended does not go on.                                   *)
LEMMA StaysMissing ==
  ASSUME NEW tb, NEW r, NEW n, NEW i \in 0 .. Levels, NEW j \in 0 .. Levels, i <= j,
         WalkIn(tb, r, n)[i] = 0
  PROVE  WalkIn(tb, r, n)[j] = 0
<1>1. PICK w : w = WalkIn(tb, r, n)
  OBVIOUS
<1> DEFINE Bad == {k \in i .. Levels : w[k] # 0}
<1>2. Bad = {}
  <2> SUFFICES ASSUME Bad # {} PROVE FALSE
    OBVIOUS
  <2>1. Bad \subseteq Nat
    OBVIOUS
  <2>2. PICK k \in Bad : \A l \in Bad : k <= l
    <3> HIDE DEF Bad
    <3> QED BY <2>1, MinIsLeast
  <2>3. k \in i .. Levels /\ w[k] # 0
    BY <2>2
  <2>4. k # i
    BY <1>1, <2>3
  <2>5. k \in 1 .. Levels /\ k - 1 \in i .. Levels
    BY <2>3, <2>4, PagingAssumption
  <2>6. k - 1 \notin Bad
    <3> HIDE DEF Bad
    <3> QED BY <2>2, <2>3
  <2>7. w[k - 1] = 0
    BY <2>5, <2>6
  <2>8. w[k] = Hop(tb, n, k, w[k - 1])
    BY <1>1, <2>5, WalkFacts
  <2> QED BY <2>3, <2>7, <2>8 DEF Hop
<1>3. j \in i .. Levels
  BY PagingAssumption
<1> QED BY <1>1, <1>2, <1>3

(* The walks of a state, and the page at the end.                          *)
LEMMA WalkTyped ==
  ASSUME TypeOK, NEW p \in Procs, NEW n \in Pages
  PROVE  /\ Walk(root[p], n) \in [0 .. Levels -> Frames \cup {0}]
         /\ Page(p, n) = Walk(root[p], n)[Levels]
         /\ Page(p, n) \in Frames \cup {0}
<1>1. root[p] \in Frames \cup {0} /\ tables \in Trees
  BY DEF TypeOK, Trees
<1>2. Walk(root[p], n) = WalkIn(tables, root[p], n)
  BY WalkIs
<1>3. WalkIn(tables, root[p], n) \in [0 .. Levels -> Frames \cup {0}]
  BY <1>1, WalkType
<1>4. 0 \in 0 .. Levels /\ Levels \in 0 .. Levels /\ 0 <= Levels
  BY PagingAssumption
<1>5. root[p] = 0 => WalkIn(tables, root[p], n)[Levels] = 0
  BY <1>4, WalkFacts, StaysMissing
<1> QED BY <1>2, <1>3, <1>4, <1>5 DEF Page

(* The first level without a frame.                                        *)
LEMMA FirstMissingFacts ==
  ASSUME NEW n
  PROVE  /\ FirstMissing(n) \in 1 .. Levels + 1
         /\ \A i \in 1 .. Levels : i < FirstMissing(n) => Walk(root[cur], n)[i] # 0
         /\ FirstMissing(n) <= Levels => Walk(root[cur], n)[FirstMissing(n)] = 0
         /\ Missing(n) \in Nat
         /\ FirstMissing(n) + Missing(n) = Levels + 1
<1>1. PICK S : S = {i \in 1 .. Levels : Walk(root[cur], n)[i] = 0} \cup {Levels + 1}
  OBVIOUS
<1>2. S \subseteq 1 .. Levels + 1 /\ S # {} /\ S \subseteq Nat
  BY <1>1, PagingAssumption
<1>3. PICK m \in S : m = Min(S) /\ \A y \in S : m <= y
  BY <1>2, MinIsLeast
<1>4. m = FirstMissing(n)
  BY <1>1, <1>3 DEF FirstMissing
<1>5. m \in 1 .. Levels + 1
  BY <1>2
<1>6. ASSUME NEW i \in 1 .. Levels, i < m PROVE Walk(root[cur], n)[i] # 0
  BY <1>1, <1>3, <1>5, <1>6
<1>7. m <= Levels => Walk(root[cur], n)[m] = 0
  BY <1>1, PagingAssumption
<1>8. Levels + 1 - m \in Nat /\ m + (Levels + 1 - m) = Levels + 1
  BY <1>5, PagingAssumption
<1> QED BY <1>4, <1>5, <1>6, <1>7, <1>8 DEF Missing

(* The frames and counts of a state.                                       *)
FramesOK == /\ tables \in Trees /\ taken \subseteq Frames
            /\ refCount \in [Frames -> Int] /\ mapCount \in [Frames -> Int]
            /\ tlb \in [Addrs -> Frames \cup {0}]

LEMMA EntryTypes ==
  /\ Absent \in Entries
  /\ \A f \in Frames \cup {0}, w \in BOOLEAN : Link(f, w) \in Entries
  /\ \A e \in Entries : Marked(e) \in Entries /\ Marked(e).to = e.to
  /\ \A e \in Entries, f \in Frames :
       /\ Redirected(e, f) \in Entries
       /\ Redirected(e, f).to = f /\ Redirected(e, f).cow = FALSE
       /\ Redirected(e, f).writable = e.was
BY DEF Absent, Link, Marked, Redirected, Entries

(* A function with one value replaced.                                     *)
LEMMA ExceptType ==
  ASSUME NEW S, NEW T, NEW f \in [S -> T], NEW x, NEW v \in T
  PROVE  [f EXCEPT ![x] = v] \in [S -> T]
OBVIOUS

(* mapNewPageAt keeps the types.                                           *)
LEMMA MapPageType ==
  ASSUME TypeOK, cur # Nobody, NEW n \in Addrs, NEW w \in BOOLEAN, MapPage(n, w)
  PROVE  FramesOK'
<1> DEFINE first == FirstMissing(n)
           old == Walk(root[cur], n)
           levels == first .. Levels
           at == [i \in 0 .. Levels |-> IF i < first THEN old[i] ELSE NewFrame(i - first + 1)]
           made == {at[i] : i \in levels}
           link(i) == Link(at[i], IF i = Levels THEN w ELSE TRUE)
           linked == Min({first, Levels})
<1>1. /\ Enough(Missing(n))
      /\ tables' = [f \in Frames |->
           IF f = at[linked - 1]
             THEN [tables[f] EXCEPT ![Index(n, linked)] = link(linked)]
           ELSE IF f \in made \ {at[Levels]}
             THEN LET i == CHOOSE i \in levels : f = at[i]
                  IN  [s \in Slots |-> IF s = Index(n, i + 1) THEN link(i + 1) ELSE Absent]
           ELSE tables[f]]
      /\ taken' = taken \cup made
      /\ refCount' = [f \in Frames |-> IF f \in made THEN 1 ELSE refCount[f]]
      /\ mapCount' = [f \in Frames |->
           IF f \in made THEN IF f = at[Levels] THEN 1 ELSE 2
           ELSE IF first \in 2 .. Levels /\ f = old[first - 1] THEN mapCount[f] + 1
           ELSE mapCount[f]]
      /\ tlb' = [tlb EXCEPT ![n] = 0]
  BY DEF MapPage
<1>2. /\ first \in 1 .. Levels + 1 /\ Missing(n) \in Nat
      /\ first + Missing(n) = Levels + 1 /\ Levels \in Nat \ {0}
  BY FirstMissingFacts, PagingAssumption
<1>3. old \in [0 .. Levels -> Frames \cup {0}]
  <2>1. cur \in Procs /\ n \in Pages
    BY DEF TypeOK, Pages
  <2> QED BY <2>1, WalkTyped
<1>4. ASSUME NEW i \in levels PROVE at[i] \in Frames /\ i \in 0 .. Levels
  <2>1. i - first + 1 \in 1 .. Cardinality(Free)
    BY <1>1, <1>2, FreeFacts DEF Enough
  <2>2. at[i] = NewFrame(i - first + 1) /\ i \in 0 .. Levels
    BY <1>2
  <2> HIDE DEF at
  <2> QED BY <2>1, <2>2, NewFrameType
<1>5. ASSUME NEW i \in 0 .. Levels PROVE at[i] \in Frames \cup {0}
  <2>1. CASE i < first
    BY <1>3, <2>1
  <2>2. CASE ~(i < first)
    <3>1. i \in levels
      BY <1>2, <2>2
    <3> QED BY <1>4, <3>1
  <2> QED BY <2>1, <2>2
<1>6. linked \in 1 .. Levels
  <2>1. first \in Nat /\ Levels \in Nat
    BY <1>2
  <2>2. linked \in {first, Levels} /\ linked <= Levels
    <3> HIDE DEF first
    <3> QED BY <2>1, MinOfTwo
  <2> QED BY <1>2, <2>2
<1>7. made \subseteq Frames
  BY <1>4
<1>8. \A i \in 1 .. Levels : link(i) \in Entries /\ Index(n, i) \in Slots
  <2>1. ASSUME NEW i \in 1 .. Levels PROVE link(i) \in Entries
    <3>1. at[i] \in Frames \cup {0}
      BY <1>5
    <3> HIDE DEF at
    <3> QED BY <3>1, EntryTypes
  <2>2. n \in Pages
    BY DEF Pages
  <2> HIDE DEF link
  <2> QED BY <2>1, <2>2, NodeFacts
<1> HIDE DEF first, old, at, made, link, linked
<1>9. tables' \in Trees
  <2>1. ASSUME NEW f \in Frames PROVE tables'[f] \in [Slots -> Entries]
    <3>1. tables[f] \in [Slots -> Entries]
      BY DEF TypeOK
    <3>2. CASE f = at[linked - 1]
      <4>1. tables'[f] = [tables[f] EXCEPT ![Index(n, linked)] = link(linked)]
        BY <1>1, <3>2
      <4> QED BY <1>6, <1>8, <3>1, <4>1, ExceptType
    <3>3. CASE f # at[linked - 1] /\ f \in made \ {at[Levels]}
      <4>1. PICK k \in levels : k = CHOOSE i \in levels : f = at[i]
        BY <3>3 DEF made
      <4>2. k \in levels /\ f = at[k]
        BY <3>3, <4>1 DEF made
      <4>3. k + 1 \in 1 .. Levels
        BY <1>2, <3>3, <4>2
      <4>4. tables'[f] = [s \in Slots |-> IF s = Index(n, k + 1) THEN link(k + 1) ELSE Absent]
        BY <1>1, <3>3, <4>1
      <4> QED BY <1>8, <4>3, <4>4, EntryTypes
    <3>4. CASE f # at[linked - 1] /\ f \notin made \ {at[Levels]}
      BY <1>1, <3>1, <3>4
    <3> QED BY <3>2, <3>3, <3>4
  <2>2. tables' = [f \in Frames |-> tables'[f]]
    BY <1>1
  <2> QED BY <2>1, <2>2 DEF Trees
<1>10. taken' \subseteq Frames
  BY <1>1, <1>7 DEF TypeOK
<1>11. refCount' \in [Frames -> Int] /\ mapCount' \in [Frames -> Int]
  <2>1. refCount \in [Frames -> Int] /\ mapCount \in [Frames -> Int]
    BY DEF TypeOK
  <2>2. refCount' \in [Frames -> Int]
    BY <1>1, <2>1
  <2>3. ASSUME NEW f \in Frames PROVE mapCount'[f] \in Int
    BY <1>1, <2>1
  <2>4. mapCount' = [f \in Frames |-> mapCount'[f]]
    BY <1>1
  <2> QED BY <2>2, <2>3, <2>4
<1>12. tlb' \in [Addrs -> Frames \cup {0}]
  BY <1>1 DEF TypeOK
<1> QED BY <1>9, <1>10, <1>11, <1>12 DEF FramesOK

LEMMA FreePagesType ==
  ASSUME NEW F, NEW refs \in [Frames -> Int]
  PROVE  FreePages(F, refs) \in [Frames -> Int]
BY DEF FreePages

(* mapNewPageAt keeps the types when it fails, too.                        *)
LEMMA MapFailsType ==
  ASSUME TypeOK, cur # Nobody, NEW n \in Addrs, MapFails(n)
  PROVE  FramesOK'
<1> DEFINE first == FirstMissing(n)
           old == Walk(root[cur], n)
           failed == first + Cardinality(Free)
           levels == first .. failed - 2
           at == [i \in levels |-> NewFrame(i - first + 1)]
           kept == {at[i] : i \in levels}
           charged == IF failed = first THEN 1 .. first - 1 ELSE 1 .. first - 2
           dropped == {i \in charged : mapCount[old[i]] = 1}
           gone == {old[i] : i \in dropped}
           link(i) == IF i \in levels THEN Link(at[i], TRUE) ELSE Absent
<1>1. /\ tables' = [f \in Frames |-> [s \in Slots |->
           IF f \in kept
             THEN LET i == CHOOSE i \in levels : f = at[i]
                  IN  IF s = Index(n, i + 1) THEN link(i + 1) ELSE Absent
           ELSE IF kept # {} /\ f = old[first - 1] /\ s = Index(n, first)
             THEN link(first)
           ELSE IF \E i \in dropped : f = old[i - 1] /\ s = Index(n, i)
             THEN Absent
           ELSE tables[f][s]]]
      /\ taken' = (taken \cup kept) \ FreedBy(gone)
      /\ refCount' = FreePages(gone, [f \in Frames |-> IF f \in kept THEN 1 ELSE refCount[f]])
      /\ mapCount' = [f \in Frames |->
           IF f \in kept THEN 1
           ELSE IF \E i \in charged : f = old[i] THEN mapCount[f] - 1
           ELSE mapCount[f]]
      /\ tlb' = [tlb EXCEPT ![n] = 0]
  BY DEF MapFails
<1>2. first \in Nat /\ Cardinality(Free) \in Nat
  BY FirstMissingFacts, FreeFacts, PagingAssumption
<1>3. ASSUME NEW i \in levels PROVE at[i] \in Frames
  <2>1. i - first + 1 \in 1 .. Cardinality(Free)
    BY <1>2
  <2>2. at[i] = NewFrame(i - first + 1)
    OBVIOUS
  <2> HIDE DEF at
  <2> QED BY <2>1, <2>2, NewFrameType
<1>4. kept \subseteq Frames
  BY <1>3
<1>5. ASSUME NEW i PROVE link(i) \in Entries
  <2>1. CASE i \in levels
    <3>1. at[i] \in Frames \cup {0}
      BY <1>3, <2>1
    <3>2. PICK f \in Frames \cup {0} : f = at[i]
      BY <3>1
    <3>3. Link(f, TRUE) \in Entries
      BY EntryTypes
    <3> QED BY <2>1, <3>2, <3>3
  <2>2. CASE i \notin levels
    <3>1. link(i) = Absent
      BY <2>2
    <3> HIDE DEF link
    <3> QED BY <3>1, EntryTypes
  <2> QED BY <2>1, <2>2
<1> HIDE DEF first, old, failed, levels, at, kept, charged, dropped, gone, link
<1>6. tables' \in Trees
  <2>1. ASSUME NEW f \in Frames, NEW s \in Slots PROVE tables'[f][s] \in Entries
    <3>1. tables[f][s] \in Entries
      BY DEF TypeOK
    <3> QED BY <1>1, <1>5, <3>1, EntryTypes
  <2>2. tables' = [f \in Frames |-> [s \in Slots |-> tables'[f][s]]]
    BY <1>1
  <2>3. [f \in Frames |-> [s \in Slots |-> tables'[f][s]]] \in Trees
    BY <2>1 DEF Trees
  <2> QED BY <2>2, <2>3
<1>7. taken' \subseteq Frames
  BY <1>1, <1>4 DEF TypeOK
<1>8. refCount' \in [Frames -> Int]
  <2>1. [f \in Frames |-> IF f \in kept THEN 1 ELSE refCount[f]] \in [Frames -> Int]
    BY DEF TypeOK
  <2> QED BY <1>1, <2>1, FreePagesType
<1>9. mapCount' \in [Frames -> Int]
  BY <1>1 DEF TypeOK
<1>10. tlb' \in [Addrs -> Frames \cup {0}]
  BY <1>1 DEF TypeOK
<1> QED BY <1>6, <1>7, <1>8, <1>9, <1>10 DEF FramesOK

(* deallocateUserMemory keeps the types.                                   *)
LEMMA DeallocateType ==
  ASSUME TypeOK, cur # Nobody, Deallocate
  PROVE  FramesOK'
<1>1. refCount' \in [Frames -> Int]
  BY FreePagesType DEF Deallocate, TypeOK
<1>2. tables' \in Trees
  <2>1. [s \in Slots |-> Absent] \in [Slots -> Entries]
    BY EntryTypes
  <2> QED BY <2>1 DEF Deallocate, TypeOK, Trees
<1> QED BY <1>1, <1>2 DEF Deallocate, TypeOK, FramesOK

(* Process::cleanup keeps the types.                                       *)
LEMMA ExitType ==
  ASSUME TypeInv, cur # Nobody, Exit
  PROVE  TypeInv'
<1>1. FramesOK'
  BY DeallocateType DEF Exit, TypeInv
<1>2. data' \in [Frames -> Values] /\ loading' = FALSE
  BY DEF Exit, Gone, Deallocate, TypeInv, TypeOK
<1>3. cur \in Procs /\ root[cur] \in Frames
  BY DEF TypeInv, TypeOK
<1>4. root' \in [Procs -> Frames \cup {0}] /\ lost' \subseteq Frames
  BY <1>3 DEF Exit, Gone, TypeInv, TypeOK
<1>5. /\ leaked' \subseteq {p \in Procs : root'[p] # 0}
      /\ cur' \in (Procs \cup {Nobody}) \ leaked' /\ (cur' # Nobody => root'[cur'] # 0)
  <2>1. Nobody \notin leaked
    BY PagingAssumption DEF TypeInv, TypeOK
  <2> QED BY <1>3, <2>1 DEF Exit, Gone, Runnable, TypeInv, TypeOK
<1>6. reserved' \in [Procs -> SUBSET Addrs]
  BY <1>3 DEF Exit, Gone, TypeInv, TypeOK
<1> QED BY <1>1, <1>2, <1>4, <1>5, <1>6 DEF TypeInv, TypeOK, FramesOK, Trees

(* The child's root is a new frame; entries are marked.                    *)
LEMMA ClonedType ==
  ASSUME TypeInv, InUser, Enough(1), NEW new, new = NewFrame(1)
  PROVE  /\ new \in Frames /\ new \notin taken
         /\ cur \in Procs /\ root[cur] \in Frames /\ cur # Nobody /\ ~loading
         /\ Cloned(new) \in Trees
<1>1. new \in Frames /\ new \notin taken
  <2>1. 1 \in 1 .. Cardinality(Free)
    BY FreeFacts DEF Enough
  <2> QED BY <2>1, NewFrameType
<1>2. cur \in Procs /\ root[cur] \in Frames /\ cur # Nobody /\ ~loading
  BY DEF InUser, TypeInv, TypeOK
<1>3. ASSUME NEW f \in Frames PROVE [s \in Slots |-> Marked(tables[f][s])] \in [Slots -> Entries]
  <2>1. \A s \in Slots : Marked(tables[f][s]) \in Entries
    BY EntryTypes DEF TypeInv, TypeOK
  <2> QED BY <2>1
<1>4. Cloned(new) \in Trees
  BY <1>2, <1>3 DEF Cloned, TypeInv, TypeOK, Trees
<1> QED BY <1>1, <1>2, <1>4

LEMMA ForkType ==
  ASSUME TypeInv, NEW c \in Procs, Fork(c)
  PROVE  TypeInv'
<1>1. PICK new : new = NewFrame(1)
  OBVIOUS
<1> DEFINE tree == Below(root[cur])
<1>2. /\ InUser /\ root[c] = 0 /\ Enough(1)
      /\ tables' = Cloned(new)
      /\ refCount' = [f \in Frames |-> IF f = new THEN 1
                                       ELSE IF f \in tree THEN refCount[f] + 1
                                       ELSE refCount[f]]
      /\ mapCount' = [mapCount EXCEPT ![new] = 1]
      /\ taken' = taken \cup {new}
      /\ root' = [root EXCEPT ![c] = new]
      /\ reserved' = [reserved EXCEPT ![c] = reserved[cur]]
      /\ UNCHANGED <<data, cur, tlb, loading, lost, leaked>>
  BY <1>1 DEF Fork
<1> HIDE DEF tree
<1>3. /\ new \in Frames /\ cur \in Procs /\ root[cur] \in Frames
      /\ tables' \in Trees
  BY <1>1, <1>2, ClonedType
<1>8. refCount' \in [Frames -> Int] /\ mapCount' \in [Frames -> Int]
  <2>1. refCount \in [Frames -> Int] /\ mapCount \in [Frames -> Int]
    BY DEF TypeInv, TypeOK
  <2>2. refCount' \in [Frames -> Int]
    BY <1>2, <2>1
  <2>3. [mapCount EXCEPT ![new] = 1] \in [Frames -> Int]
    BY <2>1, ExceptType, 1 \in Int
  <2>4. mapCount' = [mapCount EXCEPT ![new] = 1]
    BY <1>2
  <2> QED BY <2>2, <2>3, <2>4, Zenon
<1>9. /\ taken' \subseteq Frames /\ data' \in [Frames -> Values] /\ lost' \subseteq Frames
      /\ tlb' \in [Addrs -> Frames \cup {0}] /\ loading' \in BOOLEAN
  BY <1>2, <1>3 DEF TypeInv, TypeOK
<1>10. /\ root' \in [Procs -> Frames \cup {0}] /\ cur' \in (Procs \cup {Nobody}) \ leaked'
       /\ leaked' \subseteq {p \in Procs : root'[p] # 0}
       /\ cur' # Nobody /\ root'[cur'] # 0
  <2>1. new # 0
    BY <1>3 DEF Frames
  <2> QED BY <1>2, <1>3, <2>1 DEF InUser, TypeInv, TypeOK
<1>11. reserved' \in [Procs -> SUBSET Addrs]
  BY <1>2, <1>3 DEF TypeInv, TypeOK
<1> QED BY <1>3, <1>8, <1>9, <1>10, <1>11 DEF TypeInv, TypeOK, Trees

LEMMA ForkCopyFailsType ==
  ASSUME TypeInv, NEW c \in Procs, ForkCopyFails(c)
  PROVE  TypeInv'
<1>1. PICK new : new = NewFrame(1)
  OBVIOUS
<1>2. /\ InUser /\ root[c] = 0 /\ Enough(1)
      /\ tables' = [Cloned(new) EXCEPT ![root[cur]] = [s \in Slots |-> Absent]]
      /\ refCount' = [refCount EXCEPT ![new] = 1]
      /\ mapCount' = [mapCount EXCEPT ![new] = 1]
      /\ taken' = taken \cup {new}
      /\ root' = [root EXCEPT ![c] = new, ![cur] = 0]
      /\ lost' = lost \cup {root[cur]}
      /\ leaked' = leaked \cup {c}
      /\ reserved' = [reserved EXCEPT ![cur] = {}]
      /\ cur' \in (Runnable \ {cur}) \cup {Nobody}
      /\ tlb' = [n \in Addrs |-> 0]
      /\ UNCHANGED <<data, loading>>
  BY <1>1 DEF ForkCopyFails
<1>3. /\ new \in Frames /\ cur \in Procs /\ root[cur] \in Frames /\ ~loading
      /\ Cloned(new) \in Trees
  BY <1>1, <1>2, ClonedType
<1>4. tables' \in Trees
  <2>1. [s \in Slots |-> Absent] \in [Slots -> Entries]
    BY EntryTypes
  <2> QED BY <1>2, <1>3, <2>1 DEF Trees
<1>5. refCount' \in [Frames -> Int] /\ mapCount' \in [Frames -> Int]
  <2>1. refCount \in [Frames -> Int] /\ mapCount \in [Frames -> Int]
    BY DEF TypeInv, TypeOK
  <2> QED BY <1>2, <2>1, ExceptType, 1 \in Int
<1>6. /\ taken' \subseteq Frames /\ data' \in [Frames -> Values] /\ lost' \subseteq Frames
      /\ tlb' \in [Addrs -> Frames \cup {0}] /\ ~loading' /\ loading' \in BOOLEAN
  BY <1>2, <1>3 DEF TypeInv, TypeOK
<1>7. /\ root' \in [Procs -> Frames \cup {0}]
      /\ leaked' \subseteq {p \in Procs : root'[p] # 0}
  <2>1. new # 0 /\ c # cur
    BY <1>2, <1>3 DEF Frames
  <2> QED BY <1>2, <1>3, <2>1 DEF TypeInv, TypeOK
<1>8. cur' \in (Procs \cup {Nobody}) \ leaked' /\ (cur' # Nobody => root'[cur'] # 0)
  <2>1. Nobody \notin leaked /\ Nobody # c
    BY PagingAssumption DEF TypeInv, TypeOK
  <2>2. CASE cur' = Nobody
    BY <1>2, <2>1, <2>2
  <2>3. CASE cur' \in Runnable \ {cur}
    <3>1. cur' \in Procs /\ cur' \notin leaked /\ root[cur'] # 0 /\ cur' # cur /\ cur' # c
      BY <1>2, <2>3 DEF Runnable
    <3>2. root'[cur'] = root[cur']
      BY <1>2, <3>1 DEF TypeInv, TypeOK
    <3> QED BY <1>2, <3>1, <3>2
  <2> QED BY <1>2, <2>2, <2>3
<1>9. reserved' \in [Procs -> SUBSET Addrs]
  BY <1>2, <1>3 DEF TypeInv, TypeOK
<1>10. TypeOK'
  <2>1. /\ tables' \in [Frames -> [Slots -> Entries]]
        /\ data' \in [Frames -> Values] /\ taken' \subseteq Frames
        /\ refCount' \in [Frames -> Int] /\ mapCount' \in [Frames -> Int]
    BY <1>4, <1>5, <1>6 DEF Trees
  <2>2. /\ root' \in [Procs -> Frames \cup {0}]
        /\ leaked' \subseteq {p \in Procs : root'[p] # 0}
        /\ cur' \in (Procs \cup {Nobody}) \ leaked'
        /\ (cur' # Nobody => root'[cur'] # 0)
        /\ tlb' \in [Addrs -> Frames \cup {0}] /\ loading' \in BOOLEAN
        /\ reserved' \in [Procs -> SUBSET Addrs] /\ lost' \subseteq Frames
    BY <1>6, <1>7, <1>8, <1>9
  <2> QED BY ONLY <2>1, <2>2 DEF TypeOK
<1> QED BY <1>6, <1>10 DEF TypeInv

(* The path to a page that is there has a frame at every level, and        *)
(* CopyFrom is the first of the last levels whose entries are marked.      *)
LEMMA PathFacts ==
  ASSUME TypeOK, NEW p \in Procs, NEW n \in Pages, Page(p, n) # 0
  PROVE  /\ \A i \in 0 .. Levels : Walk(root[p], n)[i] \in Frames
         /\ \A i \in 1 .. Levels : EntryAt(p, n, i) \in Entries
<1>1. ASSUME NEW i \in 0 .. Levels PROVE Walk(root[p], n)[i] \in Frames
  <2>1. PICK w : w = Walk(root[p], n)
    OBVIOUS
  <2>2. w \in [0 .. Levels -> Frames \cup {0}] /\ w[Levels] # 0
    BY <2>1, WalkTyped
  <2>3. Levels \in 0 .. Levels /\ i <= Levels
    BY PagingAssumption
  <2>4. w[i] = 0 => w[Levels] = 0
    BY <2>1, <2>3, WalkIs, StaysMissing
  <2> QED BY <2>1, <2>2, <2>4
<1>2. ASSUME NEW i \in 1 .. Levels PROVE EntryAt(p, n, i) \in Entries
  <2>1. PICK k \in 0 .. Levels : k = i - 1
    BY PagingAssumption
  <2>2. Walk(root[p], n)[k] \in Frames /\ Index(n, i) \in Slots
    BY <1>1, NodeFacts
  <2> QED BY <2>1, <2>2 DEF EntryAt, TypeOK
<1> QED BY <1>1, <1>2

LEMMA CopyFromFacts ==
  ASSUME NEW p, NEW n, FaultHandled(p, n)
  PROVE  /\ CopyFrom(p, n) \in 1 .. Levels
         /\ \A j \in CopyFrom(p, n) .. Levels : EntryAt(p, n, j).cow
         /\ CopyFrom(p, n) > 1 => ~EntryAt(p, n, CopyFrom(p, n) - 1).cow
<1>1. PICK S : S = {i \in 1 .. Levels : \A j \in i .. Levels : EntryAt(p, n, j).cow}
  OBVIOUS
<1>2. S \subseteq Nat
  BY <1>1
<1>3. Levels \in S
  <2>1. \A j \in Levels .. Levels : j = Levels
    BY PagingAssumption
  <2>2. Levels \in 1 .. Levels
    BY PagingAssumption
  <2> QED BY <1>1, <2>1, <2>2 DEF FaultHandled
<1>4. PICK m \in S : m = Min(S) /\ \A y \in S : m <= y
  BY <1>2, <1>3, MinIsLeast
<1>5. m \in 1 .. Levels /\ \A j \in m .. Levels : EntryAt(p, n, j).cow
  BY <1>1
<1>6. ASSUME m > 1, EntryAt(p, n, m - 1).cow PROVE FALSE
  <2>1. m - 1 \in 1 .. Levels /\ ~(m <= m - 1)
    BY <1>5, <1>6, PagingAssumption
  <2>2. ASSUME NEW j \in m - 1 .. Levels PROVE EntryAt(p, n, j).cow
    <3>1. j = m - 1 \/ j \in m .. Levels
      BY <1>5
    <3> QED BY <1>5, <1>6, <3>1
  <2>3. m - 1 \in S
    BY <1>1, <2>1, <2>2
  <2> QED BY <1>4, <2>1, <2>3
<1>7. m = CopyFrom(p, n)
  BY <1>1, <1>4 DEF CopyFrom
<1> QED BY <1>5, <1>6, <1>7

(* pageFaultHandler copies tables and a page into new frames.              *)
LEMMA CopyOnWriteType ==
  ASSUME TypeInv, NEW n \in Addrs, CopyOnWrite(n)
  PROVE  TypeInv'
<1> DEFINE old == Walk(root[cur], n)
<1>1. PICK from : from = CopyFrom(cur, n)
  OBVIOUS
<1> DEFINE copied == from .. Levels
           new == [i \in copied |-> NewFrame(Levels - i + 1)]
           made == {new[i] : i \in copied}
           left == {old[i] : i \in copied}
           pathCopy(i) == IF i = Levels THEN tables[old[i]]
                     ELSE [tables[old[i]] EXCEPT
                             ![Index(n, i + 1)] = Redirected(@, new[i + 1])]
<1>2. /\ InUser /\ FaultHandled(cur, n) /\ Enough(Levels - from + 1)
      /\ tables' = [f \in Frames |->
           IF f \in made
             THEN pathCopy(CHOOSE i \in copied : f = new[i])
           ELSE IF f = old[from - 1]
             THEN [tables[f] EXCEPT ![Index(n, from)] = Redirected(@, new[from])]
           ELSE tables[f]]
      /\ data' = [data EXCEPT ![new[Levels]] = data[old[Levels]]]
      /\ refCount' = FreePages(left,
           [f \in Frames |-> IF f \in made THEN 1 ELSE refCount[f]])
      /\ mapCount' = [f \in Frames |-> IF f \in made THEN 1 ELSE mapCount[f]]
      /\ taken' = (taken \cup made) \ FreedBy(left)
      /\ tlb' = [tlb EXCEPT ![n] = 0]
      /\ UNCHANGED <<root, cur, loading, reserved, lost, leaked>>
  BY <1>1 DEF CopyOnWrite
<1>3. from \in 1 .. Levels /\ Levels \in 1 .. Levels
  BY <1>1, <1>2, CopyFromFacts, PagingAssumption
<1>4. cur \in Procs /\ n \in Pages /\ Page(cur, n) # 0
  BY <1>2 DEF InUser, TypeInv, TypeOK, Pages, FaultHandled
<1>5. \A i \in 0 .. Levels : old[i] \in Frames
  BY <1>4, PathFacts DEF TypeInv
<1>6. ASSUME NEW i \in copied PROVE new[i] \in Frames
  <2>1. PICK k \in 1 .. Cardinality(Free) : k = Levels - i + 1
    BY <1>2, <1>3, FreeFacts DEF Enough
  <2>2. new[i] = NewFrame(k)
    BY <2>1
  <2> HIDE DEF new
  <2> QED BY <2>2, NewFrameType
<1>7. made \subseteq Frames
  BY <1>6
<1>8. ASSUME NEW f \in Frames, NEW i \in 1 .. Levels, NEW g \in Frames
      PROVE  [tables[f] EXCEPT ![Index(n, i)] = Redirected(@, g)] \in [Slots -> Entries]
  <2>1. tables[f] \in [Slots -> Entries] /\ Index(n, i) \in Slots
    BY <1>4, NodeFacts DEF TypeInv, TypeOK
  <2>2. Redirected(tables[f][Index(n, i)], g) \in Entries
    BY <2>1, EntryTypes
  <2> QED BY <2>1, <2>2, ExceptType
<1>9. ASSUME NEW i \in copied PROVE pathCopy(i) \in [Slots -> Entries]
  <2>1. old[i] \in Frames /\ tables[old[i]] \in [Slots -> Entries]
    BY <1>3, <1>5 DEF TypeInv, TypeOK
  <2>2. CASE i = Levels
    BY <2>1, <2>2
  <2>3. CASE i # Levels
    <3>1. i + 1 \in 1 .. Levels /\ i + 1 \in copied
      BY <1>3, <2>3
    <3>2. new[i + 1] \in Frames
      BY <1>6, <3>1
    <3>3. pathCopy(i) = [tables[old[i]] EXCEPT ![Index(n, i + 1)] = Redirected(@, new[i + 1])]
      BY <2>3
    <3> HIDE DEF old, new, pathCopy
    <3> QED BY <1>8, <2>1, <3>1, <3>2, <3>3
  <2> QED BY <2>2, <2>3
<1> HIDE DEF old, new, made, left, pathCopy
<1>10. tables' \in Trees
  <2>1. ASSUME NEW f \in Frames PROVE tables'[f] \in [Slots -> Entries]
    <3>1. CASE f \in made
      <4>1. \E i \in copied : f = new[i]
        BY <3>1 DEF made
      <4>2. PICK k : k = CHOOSE i \in copied : f = new[i]
        OBVIOUS
      <4>3. k \in copied
        BY <4>1, <4>2
      <4>4. tables'[f] = pathCopy(k)
        BY <1>2, <3>1, <4>2
      <4> QED BY <1>9, <4>3, <4>4
    <3>2. CASE f \notin made /\ f = old[from - 1]
      <4>1. from \in copied
        BY <1>3
      <4>2. new[from] \in Frames
        BY <1>6, <4>1
      <4>3. tables'[f] = [tables[f] EXCEPT ![Index(n, from)] = Redirected(@, new[from])]
        BY <1>2, <3>2
      <4> QED BY <1>3, <1>8, <4>2, <4>3
    <3>3. CASE f \notin made /\ f # old[from - 1]
      BY <1>2, <3>3 DEF TypeInv, TypeOK
    <3> QED BY <3>1, <3>2, <3>3
  <2>2. tables' = [f \in Frames |-> tables'[f]]
    BY <1>2
  <2> QED BY <2>1, <2>2 DEF Trees
<1>11. data' \in [Frames -> Values]
  <2>1. data \in [Frames -> Values] /\ old[Levels] \in Frames
    BY <1>3, <1>5 DEF TypeInv, TypeOK
  <2>2. PICK f, v : f = new[Levels] /\ v = data[old[Levels]]
    OBVIOUS
  <2>3. v \in Values
    BY <2>1, <2>2
  <2>4. [data EXCEPT ![f] = v] \in [Frames -> Values]
    BY <2>1, <2>3, ExceptType
  <2>5. data' = [data EXCEPT ![f] = v]
    BY <1>2, <2>2
  <2> QED BY <2>4, <2>5
<1>12. refCount' \in [Frames -> Int] /\ mapCount' \in [Frames -> Int]
  <2>1. refCount \in [Frames -> Int] /\ mapCount \in [Frames -> Int]
    BY DEF TypeInv, TypeOK
  <2>2. [f \in Frames |-> IF f \in made THEN 1 ELSE refCount[f]] \in [Frames -> Int]
    BY <2>1
  <2>3. [f \in Frames |-> IF f \in made THEN 1 ELSE mapCount[f]] \in [Frames -> Int]
    BY <2>1
  <2> QED BY <1>2, <2>2, <2>3, FreePagesType
<1>13. taken' \subseteq Frames /\ tlb' \in [Addrs -> Frames \cup {0}]
  BY <1>2, <1>7 DEF TypeInv, TypeOK
<1> QED BY <1>2, <1>10, <1>11, <1>12, <1>13 DEF TypeInv, TypeOK, Trees

LEMMA InitType == Init => TypeInv
<1> SUFFICES ASSUME Init PROVE TypeInv
  OBVIOUS
<1>1. tables \in Trees
  BY EntryTypes DEF Init, Trees
<1>2. 1 \in Frames /\ taken \subseteq Frames
  BY PagingAssumption DEF Init, Frames
<1>3. refCount \in [Frames -> Int] /\ mapCount \in [Frames -> Int]
  BY DEF Init
<1>4. data \in [Frames -> Values] /\ tlb \in [Addrs -> Frames \cup {0}]
  BY PagingAssumption DEF Init
<1>5. /\ root \in [Procs -> Frames \cup {0}] /\ cur \in Procs
      /\ root[cur] # 0 /\ cur # Nobody
  BY <1>2, PagingAssumption DEF Init
<1>6. /\ loading \in BOOLEAN /\ reserved \in [Procs -> SUBSET Addrs] /\ lost \subseteq Frames
      /\ leaked = {}
  BY DEF Init
<1> QED BY <1>1, <1>2, <1>3, <1>4, <1>5, <1>6 DEF TypeInv, TypeOK, Trees

LEMMA NextType == TypeInv /\ [Next]_vars => TypeInv'
<1> SUFFICES ASSUME TypeInv, [Next]_vars PROVE TypeInv'
  OBVIOUS
<1>0. InUser => cur \in Procs /\ cur # Nobody
  BY DEF InUser, TypeInv, TypeOK
<1>1. CASE Switch
  <2>0. Nobody \notin leaked
    BY PagingAssumption DEF TypeInv, TypeOK
  <2>1. cur' \in (Procs \cup {Nobody}) \ leaked /\ (cur' # Nobody => root[cur'] # 0)
    BY <1>1, <2>0 DEF Switch, Runnable
  <2> QED BY <1>1, <2>1 DEF Switch, frameVars, TypeInv, TypeOK
<1>2. CASE ExitProcess \/ ForkFails \/ LoadFails \/ \E n \in Addrs : Killed(n)
  <2>1. Exit /\ cur # Nobody
    BY <1>0, <1>2 DEF ExitProcess, ForkFails, LoadFails, Killed, TypeInv
  <2> QED BY <2>1, ExitType
<1>3. CASE Load
  <2>1. PICK n \in Image : /\ MapPage(n, n \notin ReadOnly)
                           /\ data' = [data EXCEPT ![Page(cur, n)'] = Loaded]
                           /\ reserved' = [reserved EXCEPT ![cur] = @ \cup {n}]
                           /\ loading' \in BOOLEAN
    BY <1>3 DEF Load
  <2>2. loading /\ cur # Nobody /\ cur \in Procs /\ UNCHANGED <<root, cur, lost>>
    BY <1>3 DEF Load, TypeInv, TypeOK
  <2>7. UNCHANGED leaked
    BY <1>3 DEF Load
  <2>3. n \in Addrs /\ Loaded \in Values
    BY PagingAssumption
  <2>4. FramesOK'
    <3>1. PICK w \in BOOLEAN : w = (n \notin ReadOnly)
      OBVIOUS
    <3>2. MapPage(n, w)
      BY <2>1, <3>1
    <3> QED BY <2>2, <2>3, <3>2, MapPageType DEF TypeInv
  <2>5. data' \in [Frames -> Values]
    <3>1. PICK f : f = Page(cur, n)'
      OBVIOUS
    <3>2. data' = [data EXCEPT ![f] = Loaded]
      BY <2>1, <3>1
    <3> QED BY <2>3, <3>2, ExceptType DEF TypeInv, TypeOK
  <2>6. reserved' \in [Procs -> SUBSET Addrs]
    BY <2>1, <2>2, <2>3 DEF TypeInv, TypeOK
  <2> QED BY <2>1, <2>2, <2>4, <2>5, <2>6, <2>7 DEF TypeInv, TypeOK, FramesOK, Trees
<1>4. CASE Execute
  <2>1. InUser /\ Deallocate
    BY <1>4 DEF Execute
  <2>2. FramesOK'
    BY <1>0, <2>1, DeallocateType DEF TypeInv
  <2>3. reserved' \in [Procs -> SUBSET Addrs]
    BY <1>4, <1>0, <2>1 DEF Execute, TypeInv, TypeOK
  <2> QED BY <1>0, <1>4, <2>1, <2>2, <2>3
          DEF Execute, Deallocate, TypeInv, TypeOK, FramesOK, Trees
<1>5. CASE \E c \in Procs : Fork(c) \/ ForkCopyFails(c)
  BY <1>5, ForkType, ForkCopyFailsType
<1>6. CASE \E n \in Addrs : CopyOnWrite(n)
  BY <1>6, CopyOnWriteType
<1>7. CASE \E n \in Addrs : VirtualAlloc(n)
  <2>1. PICK n \in Addrs : VirtualAlloc(n)
    BY <1>7
  <2>2. InUser /\ UNCHANGED <<data, root, cur, loading, lost, leaked>>
    BY <2>1 DEF VirtualAlloc
  <2>3. FramesOK'
    <3>1. MapPage(n, TRUE) \/ MapFails(n)
      BY <2>1 DEF VirtualAlloc
    <3>2. TRUE \in BOOLEAN /\ cur # Nobody /\ TypeOK
      BY <1>0, <2>2 DEF TypeInv
    <3> QED BY <3>1, <3>2, MapPageType, MapFailsType
  <2>4. reserved' \in [Procs -> SUBSET Addrs]
    <3>1. reserved' = [reserved EXCEPT ![cur] = @ \cup {n}] \/ reserved' = reserved
      BY <2>1 DEF VirtualAlloc
    <3> QED BY <1>0, <2>2, <3>1 DEF TypeInv, TypeOK
  <2> QED BY <2>2, <2>3, <2>4 DEF TypeInv, TypeOK, FramesOK, Trees
<1>8. CASE \E n \in Addrs : VirtualFree(n)
  <2>1. PICK n \in Addrs : VirtualFree(n)
    BY <1>8
  <2>2. reserved' \in [Procs -> SUBSET Addrs]
    BY <1>0, <2>1 DEF VirtualFree, TypeInv, TypeOK
  <2> QED BY <2>1, <2>2 DEF VirtualFree, frameVars, TypeInv, TypeOK
<1>9. CASE \E n \in Addrs, v \in Values :
             Write(n, v) \/ WriteThroughTLB(n, v) \/ KernelWrite(n, v)
  <2>1. PICK n \in Addrs, v \in Values :
             Write(n, v) \/ WriteThroughTLB(n, v) \/ KernelWrite(n, v)
    BY <1>9
  <2>2. /\ InUser /\ UNCHANGED <<tables, taken, refCount, mapCount, root, cur, loading>>
        /\ UNCHANGED <<reserved, lost, leaked>>
    BY <2>1 DEF Write, WriteThroughTLB, KernelWrite
  <2>3. \E f : data' = [data EXCEPT ![f] = v]
    BY <2>1 DEF Write, WriteThroughTLB, KernelWrite
  <2>4. data' \in [Frames -> Values]
    BY <2>3, ExceptType DEF TypeInv, TypeOK
  <2>5. tlb' \in [Addrs -> Frames \cup {0}]
    <3>1. tlb' = tlb \/ tlb' = [tlb EXCEPT ![n] = Page(cur, n)]
      BY <2>1 DEF Write, WriteThroughTLB, KernelWrite
    <3>2. Page(cur, n) \in Frames \cup {0}
      <4>1. cur \in Procs /\ n \in Pages
        BY <1>0, <2>2 DEF Pages
      <4> QED BY <4>1, WalkTyped DEF TypeInv
    <3> QED BY <3>1, <3>2, ExceptType DEF TypeInv, TypeOK
  <2> QED BY <2>2, <2>4, <2>5 DEF TypeInv, TypeOK
<1>10. CASE UNCHANGED vars
  BY <1>10 DEF vars, frameVars, TypeInv, TypeOK
<1> QED BY <1>1, <1>2, <1>3, <1>4, <1>5, <1>6, <1>7, <1>8, <1>9, <1>10 DEF Next

(* The variables of AddressSpace keep their types, in every state and for  *)
(* every depth and width of the tables (TypeOK).                           *)
THEOREM TypeCorrect == Spec => []TypeOK
<1>1. Init => TypeInv
  BY InitType
<1>2. TypeInv /\ [Next]_vars => TypeInv'
  BY NextType
<1>3. TypeInv => TypeOK
  BY DEF TypeInv
<1> QED BY <1>1, <1>2, <1>3, PTL DEF Spec

-----------------------------------------------------------------------------
(* The forest of page tables.  The invariant speaks of walks w over tables *)
(* tb; the entry that leads to level i on the path to n:                   *)
Entry(w, tb, p, n, i) == tb[w[p][n][i - 1]][Index(n, i)]

(* A frame has one place, the same one in every tree that has it, and a    *)
(* root is in one tree.                                                    *)
OnePlace(w) ==
  \A p, q \in Procs, n, m \in Pages, i, j \in 0 .. Levels :
    w[p][n][i] # 0 /\ w[p][n][i] = w[q][m][j] =>
      i = j /\ Same(i, n, m) /\ (i = 0 => p = q)

InUse(w, f) == \E p \in Procs, n \in Pages, i \in 0 .. Levels : w[p][n][i] = f

(* Entries on the path to n0 from level a on, in the tree of p0.           *)
OnPath(p0, n0, a, p, m, i) == p = p0 /\ i >= a /\ Same(i, m, n0)

(* What the fault handler and mapNewPageAt do to the tree of p0: the frames*)
(* new[a], new[a + 1], ... take the places on the path to n0, linked by the*)
(* entries patch; they keep what is next to the path in the frames they    *)
(* replace, or are empty where there was none.                             *)
Regrown(w, tb, tb2, p0, n0, a, new, patch) ==
  /\ p0 \in Procs /\ n0 \in Pages /\ a \in 1 .. Levels
  /\ new \in [a .. Levels -> Frames] /\ patch \in [a .. Levels -> Entries]
  /\ \A i, j \in a .. Levels : new[i] = new[j] => i = j
  /\ \A i \in a .. Levels : ~InUse(w, new[i]) /\ patch[i].to = new[i] /\ ~patch[i].cow
  /\ w[p0][n0][a - 1] # 0
  /\ \A q \in Procs : w[q][n0][a - 1] = w[p0][n0][a - 1] => q = p0
  /\ \A s \in Slots : tb2[w[p0][n0][a - 1]][s] =
       IF s = Index(n0, a) THEN patch[a] ELSE tb[w[p0][n0][a - 1]][s]
  /\ \A i \in a + 1 .. Levels, s \in Slots : tb2[new[i - 1]][s] =
       IF s = Index(n0, i) THEN patch[i]
       ELSE IF w[p0][n0][i - 1] = 0 THEN Absent ELSE tb[w[p0][n0][i - 1]][s]
  /\ \A f \in Frames : f # w[p0][n0][a - 1] /\ (\A i \in a .. Levels : f # new[i]) =>
       tb2[f] = tb[f]

IsGrown(v, w, p0, n0, a, new) ==
  /\ v \in Forests
  /\ \A p \in Procs, m \in Pages, i \in 0 .. Levels :
       v[p][m][i] = IF OnPath(p0, n0, a, p, m, i) THEN new[i] ELSE w[p][m][i]

LEMMA ForestType ==
  ASSUME NEW w \in Forests, NEW p \in Procs, NEW n \in Pages, NEW i \in 0 .. Levels
  PROVE  w[p][n][i] \in Frames \cup {0}
<1>1. w[p] \in [Pages -> [0 .. Levels -> Frames \cup {0}]]
  BY DEF Forests
<1>2. w[p][n] \in [0 .. Levels -> Frames \cup {0}]
  BY <1>1
<1> QED BY <1>2

(* The entries of the new tree.                                            *)
LEMMA RegrownEntry ==
  ASSUME NEW w, NEW tb, NEW tb2, NEW rt, NEW p0, NEW n0, NEW a, NEW new, NEW patch, NEW v,
         IsWalks(w, tb, rt), OnePlace(w), Regrown(w, tb, tb2, p0, n0, a, new, patch),
         IsGrown(v, w, p0, n0, a, new),
         NEW p \in Procs, NEW m \in Pages, NEW i \in 1 .. Levels
  PROVE  /\ v[p][m][i - 1] = 0 => w[p][m][i - 1] = 0 /\ ~OnPath(p0, n0, a, p, m, i)
         /\ v[p][m][i - 1] # 0 => Entry(v, tb2, p, m, i) =
              IF OnPath(p0, n0, a, p, m, i) THEN patch[i]
              ELSE IF w[p][m][i - 1] = 0 THEN Absent ELSE Entry(w, tb, p, m, i)
<1>1. v \in Forests /\ w \in Forests
  BY DEF IsGrown, IsWalks
<1>2. p0 \in Procs /\ n0 \in Pages /\ a \in 1 .. Levels /\ Levels \in Nat
  BY PagingAssumption DEF Regrown
<1>3. PICK k \in 0 .. Levels : k = i - 1 /\ i = k + 1
  BY <1>2
<1>4. Same(i, m, n0) <=> Same(k, m, n0) /\ Index(m, i) = Index(n0, i)
  BY <1>2, <1>3, NodeFacts
<1>5. Index(m, i) \in Slots
  BY NodeFacts
<1>6. ASSUME p = p0, Same(k, m, n0) PROVE w[p][m][k] = w[p0][n0][k]
  BY <1>2, <1>6, SharedPrefix
<1>7. CASE OnPath(p0, n0, a, p, m, k)
  <2>1. v[p][m][k] = new[k] /\ new[k] \in Frames /\ k \in a .. Levels
    BY <1>7, <1>2 DEF IsGrown, OnPath, Regrown
  <2>2. i \in a + 1 .. Levels /\ i \in a .. Levels
    BY <1>2, <1>3, <1>7 DEF OnPath
  <2>3. tb2[new[k]][Index(m, i)] =
          IF Index(m, i) = Index(n0, i) THEN patch[i]
          ELSE IF w[p0][n0][k] = 0 THEN Absent ELSE tb[w[p0][n0][k]][Index(m, i)]
    BY <1>3, <1>5, <2>2 DEF Regrown
  <2>4. v[p][m][k] # 0
    BY <2>1 DEF Frames
  <2>5. w[p][m][k] = w[p0][n0][k]
    BY <1>6, <1>7 DEF OnPath
  <2>6. OnPath(p0, n0, a, p, m, i) <=> Index(m, i) = Index(n0, i)
    BY <1>2, <1>4, <1>7, <2>2 DEF OnPath
  <2> QED BY <1>3, <2>1, <2>3, <2>4, <2>5, <2>6 DEF Entry
<1>8. CASE p = p0 /\ i = a /\ Same(k, m, n0)
  <2>1. w[p][m][k] = w[p0][n0][k] /\ w[p0][n0][k] # 0
    BY <1>3, <1>6, <1>8 DEF Regrown
  <2>2. v[p][m][k] = w[p][m][k]
    <3>1. ~(k >= a)
      BY <1>2, <1>3, <1>8
    <3> QED BY <3>1 DEF IsGrown, OnPath
  <2>3. tb2[w[p0][n0][k]][Index(m, i)] =
          IF Index(m, i) = Index(n0, i) THEN patch[i] ELSE tb[w[p0][n0][k]][Index(m, i)]
    BY <1>3, <1>5, <1>8 DEF Regrown
  <2>4. OnPath(p0, n0, a, p, m, i) <=> Index(m, i) = Index(n0, i)
    BY <1>2, <1>4, <1>8 DEF OnPath
  <2> QED BY <1>3, <2>1, <2>2, <2>3, <2>4 DEF Entry
<1>9. CASE ~OnPath(p0, n0, a, p, m, k) /\ ~(p = p0 /\ i = a /\ Same(k, m, n0))
  <2>1. ~OnPath(p0, n0, a, p, m, i)
    <3> SUFFICES ASSUME p = p0, i >= a, Same(i, m, n0) PROVE FALSE
      BY DEF OnPath
    <3>1. Same(k, m, n0)
      BY <1>4
    <3>2. k >= a \/ i = a
      BY <1>2, <1>3
    <3> QED BY <1>9, <3>1, <3>2 DEF OnPath
  <2>2. PICK f \in Frames \cup {0} : f = w[p][m][k]
    BY <1>1, ForestType
  <2>3. v[p][m][k] = f
    BY <1>9, <2>2 DEF IsGrown
  <2>4. CASE f = 0
    BY <1>3, <2>1, <2>2, <2>3, <2>4
  <2>5. CASE f # 0
    <3>1. \A l \in a .. Levels : f # new[l]
      BY <2>2 DEF Regrown, InUse
    <3>2. f # w[p0][n0][a - 1]
      <4> SUFFICES ASSUME f = w[p0][n0][a - 1] PROVE FALSE
        OBVIOUS
      <4>1. PICK l \in 0 .. Levels : l = a - 1
        BY <1>2
      <4>2. w[p][m][k] # 0 /\ w[p][m][k] = w[p0][n0][l]
        BY <2>2, <2>5, <4>1
      <4>3. k = l /\ Same(k, m, n0)
        BY <1>2, <4>2 DEF OnePlace
      <4>4. Same(k, n0, m)
        BY <4>3 DEF Same
      <4>5. w[p][n0][k] = w[p][m][k]
        BY <1>2, <4>4, SharedPrefix
      <4>6. w[p][n0][a - 1] = w[p0][n0][a - 1]
        BY <2>2, <4>1, <4>3, <4>5
      <4>7. p = p0
        BY <4>6 DEF Regrown
      <4>8. i = a
        BY <1>2, <1>3, <4>1, <4>3
      <4> QED BY <1>9, <4>3, <4>7, <4>8
    <3>3. tb2[f] = tb[f]
      BY <2>2, <2>5, <3>1, <3>2 DEF Regrown
    <3> QED BY <1>3, <2>1, <2>2, <2>3, <2>5, <3>3 DEF Entry
  <2> QED BY <2>4, <2>5
<1> QED BY <1>7, <1>8, <1>9

(* Its walks.                                                              *)
LEMMA RegrownWalks ==
  ASSUME NEW w, NEW tb, NEW tb2, NEW rt, NEW p0, NEW n0, NEW a, NEW new, NEW patch, NEW v,
         IsWalks(w, tb, rt), OnePlace(w), Regrown(w, tb, tb2, p0, n0, a, new, patch),
         IsGrown(v, w, p0, n0, a, new)
  PROVE  IsWalks(v, tb2, rt)
<1>1. v \in Forests
  BY DEF IsGrown
<1>2. a \in 1 .. Levels /\ Levels \in Nat
  BY PagingAssumption DEF Regrown
<1>3. ASSUME NEW p \in Procs, NEW m \in Pages PROVE v[p][m][0] = rt[p]
  <2>1. 0 \in 0 .. Levels /\ ~(0 >= a)
    BY <1>2
  <2>2. v[p][m][0] = w[p][m][0]
    BY <2>1 DEF IsGrown, OnPath
  <2> QED BY <2>2 DEF IsWalks
<1>4. ASSUME NEW p \in Procs, NEW m \in Pages, NEW i \in 1 .. Levels
      PROVE  v[p][m][i] = Hop(tb2, m, i, v[p][m][i - 1])
  <2>1. i \in 0 .. Levels
    BY <1>2
  <2>2. w[p][m][i] = Hop(tb, m, i, w[p][m][i - 1])
    BY DEF IsWalks
  <2>3. v[p][m][i] = IF OnPath(p0, n0, a, p, m, i) THEN new[i] ELSE w[p][m][i]
    BY <2>1 DEF IsGrown
  <2>4. /\ v[p][m][i - 1] = 0 => w[p][m][i - 1] = 0 /\ ~OnPath(p0, n0, a, p, m, i)
        /\ v[p][m][i - 1] # 0 => Entry(v, tb2, p, m, i) =
             IF OnPath(p0, n0, a, p, m, i) THEN patch[i]
             ELSE IF w[p][m][i - 1] = 0 THEN Absent ELSE Entry(w, tb, p, m, i)
    BY RegrownEntry
  <2>5. OnPath(p0, n0, a, p, m, i) => patch[i].to = new[i]
    <3>1. OnPath(p0, n0, a, p, m, i) => i \in a .. Levels
      BY <1>2 DEF OnPath
    <3> QED BY <3>1 DEF Regrown
  <2> QED BY <2>2, <2>3, <2>4, <2>5 DEF Hop, Entry, Absent
<1> QED BY <1>1, <1>3, <1>4 DEF IsWalks

(* Its frames have one place.                                              *)
LEMMA RegrownOnePlace ==
  ASSUME NEW w, NEW tb, NEW tb2, NEW p0, NEW n0, NEW a, NEW new, NEW patch, NEW v,
         w \in Forests, OnePlace(w), Regrown(w, tb, tb2, p0, n0, a, new, patch),
         IsGrown(v, w, p0, n0, a, new)
  PROVE  OnePlace(v)
<1> SUFFICES ASSUME NEW p \in Procs, NEW q \in Procs, NEW n \in Pages, NEW m \in Pages,
                    NEW i \in 0 .. Levels, NEW j \in 0 .. Levels,
                    v[p][n][i] # 0, v[p][n][i] = v[q][m][j]
             PROVE  i = j /\ Same(i, n, m) /\ (i = 0 => p = q)
  BY DEF OnePlace
<1>1. a \in 1 .. Levels /\ Levels \in Nat
  BY PagingAssumption DEF Regrown
<1>2. v[p][n][i] = IF OnPath(p0, n0, a, p, n, i) THEN new[i] ELSE w[p][n][i]
  BY DEF IsGrown
<1>3. v[q][m][j] = IF OnPath(p0, n0, a, q, m, j) THEN new[j] ELSE w[q][m][j]
  BY DEF IsGrown
<1>4. OnPath(p0, n0, a, p, n, i) => i \in a .. Levels
  BY <1>1 DEF OnPath
<1>5. OnPath(p0, n0, a, q, m, j) => j \in a .. Levels
  BY <1>1 DEF OnPath
<1>6. CASE OnPath(p0, n0, a, p, n, i) /\ OnPath(p0, n0, a, q, m, j)
  <2>1. i \in a .. Levels /\ j \in a .. Levels /\ new[i] = new[j]
    BY <1>2, <1>3, <1>4, <1>5, <1>6
  <2>2. i = j
    BY <2>1 DEF Regrown
  <2>3. i # 0
    BY <1>1, <2>1
  <2> QED BY <1>6, <2>2, <2>3 DEF OnPath, Same
<1>7. ASSUME NEW k \in a .. Levels, NEW r \in Procs, NEW l \in Pages, NEW h \in 0 .. Levels
      PROVE  new[k] # w[r][l][h]
  <2>1. ~InUse(w, new[k])
    BY DEF Regrown
  <2> QED BY <2>1 DEF InUse
<1>8. CASE ~(OnPath(p0, n0, a, p, n, i) <=> OnPath(p0, n0, a, q, m, j))
  BY <1>2, <1>3, <1>4, <1>5, <1>7, <1>8
<1>9. CASE ~OnPath(p0, n0, a, p, n, i) /\ ~OnPath(p0, n0, a, q, m, j)
  <2>1. w[p][n][i] # 0 /\ w[p][n][i] = w[q][m][j]
    BY <1>2, <1>3, <1>9
  <2> QED BY <2>1 DEF OnePlace
<1> QED BY <1>6, <1>8, <1>9

(* What is there in the new tree.                                          *)
LEMMA RegrownPresent ==
  ASSUME NEW w, NEW tb, NEW tb2, NEW rt, NEW p0, NEW n0, NEW a, NEW new, NEW patch, NEW v,
         IsWalks(w, tb, rt), OnePlace(w), Regrown(w, tb, tb2, p0, n0, a, new, patch),
         IsGrown(v, w, p0, n0, a, new),
         NEW p \in Procs, NEW m \in Pages, NEW i \in 1 .. Levels, v[p][m][i] # 0
  PROVE  /\ v[p][m][i - 1] # 0
         /\ Entry(v, tb2, p, m, i) = IF OnPath(p0, n0, a, p, m, i) THEN patch[i]
                                     ELSE Entry(w, tb, p, m, i)
         /\ ~OnPath(p0, n0, a, p, m, i) => w[p][m][i] = v[p][m][i] /\ w[p][m][i - 1] # 0
<1>1. i \in 0 .. Levels
  BY PagingAssumption
<1>2. /\ v[p][m][i] = IF OnPath(p0, n0, a, p, m, i) THEN new[i] ELSE w[p][m][i]
      /\ w[p][m][i] = Hop(tb, m, i, w[p][m][i - 1])
  BY <1>1 DEF IsGrown, IsWalks
<1>3. v[p][m][i - 1] # 0
  <2>1. IsWalks(v, tb2, rt)
    BY RegrownWalks
  <2>2. v[p][m][i] = Hop(tb2, m, i, v[p][m][i - 1])
    BY <2>1 DEF IsWalks
  <2> QED BY <2>2 DEF Hop
<1>4. ~OnPath(p0, n0, a, p, m, i) => w[p][m][i - 1] # 0
  BY <1>2 DEF Hop
<1>5. Entry(v, tb2, p, m, i) =
        IF OnPath(p0, n0, a, p, m, i) THEN patch[i]
        ELSE IF w[p][m][i - 1] = 0 THEN Absent ELSE Entry(w, tb, p, m, i)
  BY <1>3, RegrownEntry
<1> QED BY <1>2, <1>3, <1>4, <1>5

(* Entries of copy on write: what two processes share is marked, all below *)
(* a marked entry is marked, a marked entry is not writable, and nothing   *)
(* will make the entry of a read-only page writable.                       *)
Marks(w, tb) ==
  /\ \A p, q \in Procs, n \in Pages, i \in 1 .. Levels :
       p # q /\ w[p][n][i] # 0 /\ w[p][n][i] = w[q][n][i] => Entry(w, tb, p, n, i).cow
  /\ \A p \in Procs, n \in Pages, i \in 2 .. Levels :
       w[p][n][i] # 0 /\ Entry(w, tb, p, n, i - 1).cow => Entry(w, tb, p, n, i).cow
  /\ \A p \in Procs, n \in Pages, i \in 1 .. Levels :
       w[p][n][i] # 0 /\ Entry(w, tb, p, n, i).cow => ~Entry(w, tb, p, n, i).writable
  /\ \A p \in Procs, n \in ReadOnly :
       w[p][n][Levels] # 0 =>
         /\ ~Entry(w, tb, p, n, Levels).writable
         /\ Entry(w, tb, p, n, Levels).cow => ~Entry(w, tb, p, n, Levels).was

LEMMA RegrownMarks ==
  ASSUME NEW w, NEW tb, NEW tb2, NEW rt, NEW p0, NEW n0, NEW a, NEW new, NEW patch, NEW v,
         IsWalks(w, tb, rt), OnePlace(w), Regrown(w, tb, tb2, p0, n0, a, new, patch),
         IsGrown(v, w, p0, n0, a, new), Marks(w, tb),
         a > 1 => ~Entry(w, tb, p0, n0, a - 1).cow,
         n0 \in ReadOnly => ~patch[Levels].writable
  PROVE  Marks(v, tb2)
<1>1. p0 \in Procs /\ n0 \in Pages /\ a \in 1 .. Levels /\ Levels \in Nat
  BY PagingAssumption DEF Regrown
<1>2. ASSUME NEW p \in Procs, NEW n \in Pages, NEW i \in 1 .. Levels, v[p][n][i] # 0
      PROVE  /\ OnPath(p0, n0, a, p, n, i) =>
                  /\ i \in a .. Levels /\ v[p][n][i] = new[i]
                  /\ Entry(v, tb2, p, n, i) = patch[i] /\ ~patch[i].cow
             /\ ~OnPath(p0, n0, a, p, n, i) =>
                  /\ v[p][n][i] = w[p][n][i] /\ Entry(v, tb2, p, n, i) = Entry(w, tb, p, n, i)
             /\ v[p][n][i - 1] # 0
  <2>1. /\ v[p][n][i - 1] # 0
        /\ Entry(v, tb2, p, n, i) = IF OnPath(p0, n0, a, p, n, i) THEN patch[i]
                                    ELSE Entry(w, tb, p, n, i)
        /\ ~OnPath(p0, n0, a, p, n, i) => w[p][n][i] = v[p][n][i]
    BY <1>2, RegrownPresent
  <2>2. OnPath(p0, n0, a, p, n, i) => i \in a .. Levels
    BY <1>1 DEF OnPath
  <2>3. i \in 0 .. Levels
    BY <1>1
  <2>4. OnPath(p0, n0, a, p, n, i) => v[p][n][i] = new[i]
    BY <2>3 DEF IsGrown
  <2>5. \A j \in a .. Levels : ~patch[j].cow
    BY DEF Regrown
  <2> QED BY <2>1, <2>2, <2>4, <2>5
<1>3. ASSUME NEW k \in a .. Levels, NEW r \in Procs, NEW l \in Pages, NEW h \in 0 .. Levels
      PROVE  new[k] # w[r][l][h]
  <2>1. ~InUse(w, new[k])
    BY DEF Regrown
  <2> QED BY <2>1 DEF InUse
<1>4. ASSUME NEW p \in Procs, NEW q \in Procs, NEW n \in Pages, NEW i \in 1 .. Levels,
             p # q, v[p][n][i] # 0, v[p][n][i] = v[q][n][i]
      PROVE  Entry(v, tb2, p, n, i).cow
  <2>1. v[q][n][i] # 0 /\ i \in 0 .. Levels
    BY <1>1, <1>4
  <2>2. ~(OnPath(p0, n0, a, p, n, i) /\ OnPath(p0, n0, a, q, n, i))
    BY <1>4 DEF OnPath
  <2>3. ~OnPath(p0, n0, a, p, n, i) /\ ~OnPath(p0, n0, a, q, n, i)
    BY <1>2, <1>3, <1>4, <2>1, <2>2
  <2>4. w[p][n][i] # 0 /\ w[p][n][i] = w[q][n][i]
    BY <1>2, <1>4, <2>1, <2>3
  <2>5. Entry(w, tb, p, n, i).cow
    BY <1>4, <2>4 DEF Marks
  <2> QED BY <1>2, <1>4, <2>3, <2>5
<1>5. ASSUME NEW p \in Procs, NEW n \in Pages, NEW i \in 2 .. Levels,
             v[p][n][i] # 0, Entry(v, tb2, p, n, i - 1).cow
      PROVE  Entry(v, tb2, p, n, i).cow
  <2>1. PICK k \in 1 .. Levels : k = i - 1 /\ i = k + 1
    BY <1>1
  <2>2. i \in 1 .. Levels
    BY <1>1
  <2>3. v[p][n][k] # 0
    BY <1>2, <1>5, <2>1, <2>2
  <2>4. ~OnPath(p0, n0, a, p, n, k) /\ Entry(w, tb, p, n, k).cow
    BY <1>2, <1>5, <2>1, <2>3
  <2>5. CASE ~OnPath(p0, n0, a, p, n, i)
    <3>1. w[p][n][i] # 0 /\ Entry(v, tb2, p, n, i) = Entry(w, tb, p, n, i)
      BY <1>2, <1>5, <2>2, <2>5
    <3>2. Entry(w, tb, p, n, i).cow
      BY <2>1, <2>4, <3>1 DEF Marks
    <3> QED BY <3>1, <3>2
  <2>6. CASE OnPath(p0, n0, a, p, n, i)
    <3>1. Same(k, n, n0) /\ p = p0 /\ i >= a
      BY <1>1, <2>1, <2>2, <2>6, NodeFacts DEF OnPath
    <3>2. k = a - 1 /\ a > 1
      BY <1>1, <2>1, <2>4, <3>1 DEF OnPath
    <3>3. Index(n, k) = Index(n0, k) /\ Same(k - 1, n, n0)
      BY <1>1, <3>1, NodeFacts
    <3>4. w[p0][n][k - 1] = w[p0][n0][k - 1]
      <4>1. k - 1 \in 0 .. Levels
        BY <1>1
      <4> QED BY <1>1, <3>3, <4>1, SharedPrefix
    <3>5. Entry(w, tb, p0, n, k) = Entry(w, tb, p0, n0, k)
      BY <3>3, <3>4 DEF Entry
    <3>6. ~Entry(w, tb, p0, n0, k).cow
      BY <3>2
    <3> QED BY <2>4, <3>1, <3>5, <3>6
  <2> QED BY <2>5, <2>6
<1>6. ASSUME NEW p \in Procs, NEW n \in Pages, NEW i \in 1 .. Levels,
             v[p][n][i] # 0, Entry(v, tb2, p, n, i).cow
      PROVE  ~Entry(v, tb2, p, n, i).writable
  <2>1. ~OnPath(p0, n0, a, p, n, i)
    BY <1>2, <1>6
  <2>2. w[p][n][i] # 0 /\ Entry(v, tb2, p, n, i) = Entry(w, tb, p, n, i)
    BY <1>2, <1>6, <2>1
  <2> QED BY <1>6, <2>2 DEF Marks
<1>7. ASSUME NEW p \in Procs, NEW n \in ReadOnly, v[p][n][Levels] # 0
      PROVE  /\ ~Entry(v, tb2, p, n, Levels).writable
             /\ Entry(v, tb2, p, n, Levels).cow => ~Entry(v, tb2, p, n, Levels).was
  <2>1. n \in Pages /\ Levels \in 1 .. Levels
    BY PagingAssumption DEF Pages
  <2>2. CASE OnPath(p0, n0, a, p, n, Levels)
    <3>1. n = n0
      BY <1>1, <2>1, <2>2, NodeFacts DEF OnPath
    <3> QED BY <1>2, <1>7, <2>1, <2>2, <3>1
  <2>3. CASE ~OnPath(p0, n0, a, p, n, Levels)
    <3>1. /\ w[p][n][Levels] # 0
          /\ Entry(v, tb2, p, n, Levels) = Entry(w, tb, p, n, Levels)
      BY <1>2, <1>7, <2>1, <2>3
    <3> QED BY <3>1 DEF Marks
  <2> QED BY <2>2, <2>3
<1> QED BY <1>4, <1>5, <1>6, <1>7 DEF Marks

-----------------------------------------------------------------------------
(* Counts.  The bitmap has the frames of the trees and the roots of the    *)
(* dead, and the count of a frame is the number of processes that have it  *)
(* at its place.                                                           *)
HoldersAt(w, n, i, f) == {q \in Procs : w[q][n][i] = f}

Counts(w, tk, refs, dead) ==
  /\ tk = dead \cup {f \in Frames : InUse(w, f)}
  /\ \A f \in dead : ~InUse(w, f) /\ refs[f] = 1
  /\ \A p \in Procs, n \in Pages, i \in 0 .. Levels : w[p][n][i] # 0 =>
       refs[w[p][n][i]] = Cardinality(HoldersAt(w, n, i, w[p][n][i]))

(* Who holds a frame are finitely many, and one alone or with others.      *)
LEMMA HolderFacts ==
  ASSUME NEW w, NEW p \in Procs, NEW n, NEW i
  PROVE  /\ IsFiniteSet(HoldersAt(w, n, i, w[p][n][i]))
         /\ p \in HoldersAt(w, n, i, w[p][n][i])
         /\ Cardinality(HoldersAt(w, n, i, w[p][n][i])) = 1 <=>
              \A q \in Procs : w[q][n][i] = w[p][n][i] => q = p
<1>1. PICK S : S = HoldersAt(w, n, i, w[p][n][i])
  OBVIOUS
<1>2. S \subseteq Procs /\ p \in S /\ \A q \in Procs : q \in S <=> w[q][n][i] = w[p][n][i]
  BY <1>1 DEF HoldersAt
<1>3. IsFiniteSet(S)
  BY <1>2, PagingAssumption, FS_Subset
<1>4. ASSUME Cardinality(S) = 1 PROVE S = {p}
  <2>1. \E x : S = {x}
    BY <1>3, <1>4, FS_Singleton
  <2> QED BY <1>2, <2>1
<1>5. S = {p} => Cardinality(S) = 1
  BY FS_Singleton
<1> QED BY <1>1, <1>2, <1>3, <1>4, <1>5

(* The regrown tree keeps the counts: new frames have one holder, those    *)
(* they replace lost one, and who had one only is free.                    *)
LEMMA RegrownCounts ==
  ASSUME NEW w, NEW tb, NEW tb2, NEW rt, NEW p0, NEW n0, NEW a, NEW new, NEW patch, NEW v,
         IsWalks(w, tb, rt), OnePlace(w), Regrown(w, tb, tb2, p0, n0, a, new, patch),
         IsGrown(v, w, p0, n0, a, new),
         NEW tk, NEW refs, NEW dead, NEW tk2, NEW refs2, Counts(w, tk, refs, dead),
         dead \subseteq Frames, \A i \in a .. Levels : new[i] \notin tk,
         \A f \in Frames : f \in tk2 <=>
           \/ \E i \in a .. Levels : f = new[i]
           \/ f \in tk /\ ~(refs[f] = 1 /\ \E i \in a .. Levels : f = w[p0][n0][i]),
         tk2 \subseteq Frames,
         \A f \in Frames : refs2[f] =
           IF \E i \in a .. Levels : f = new[i] THEN 1
           ELSE IF \E i \in a .. Levels : f = w[p0][n0][i] THEN refs[f] - 1 ELSE refs[f]
  PROVE  Counts(v, tk2, refs2, dead)
<1>1. /\ p0 \in Procs /\ n0 \in Pages /\ a \in 1 .. Levels /\ Levels \in Nat
      /\ \A i \in a .. Levels : i \in 0 .. Levels
  BY PagingAssumption DEF Regrown
<1>2. ASSUME NEW p \in Procs, NEW n \in Pages, NEW i \in 0 .. Levels
      PROVE  /\ v[p][n][i] = IF OnPath(p0, n0, a, p, n, i) THEN new[i] ELSE w[p][n][i]
             /\ OnPath(p0, n0, a, p, n, i) => p = p0 /\ i \in a .. Levels
             /\ w[p][n][i] \in Frames \cup {0}
  BY <1>1, ForestType DEF IsGrown, OnPath, IsWalks
<1>3. ASSUME NEW k \in a .. Levels
      PROVE  /\ new[k] \in Frames /\ new[k] # 0 /\ ~InUse(w, new[k])
             /\ \A r \in Procs, l \in Pages, h \in 0 .. Levels : new[k] # w[r][l][h]
  <2>1. ~InUse(w, new[k]) /\ new[k] \in Frames
    BY DEF Regrown
  <2> QED BY <2>1 DEF InUse, Frames
<1>4. ASSUME NEW p \in Procs, NEW n \in Pages, NEW i \in 0 .. Levels, NEW j \in a .. Levels,
             w[p][n][i] # 0, w[p][n][i] = w[p0][n0][j]
      PROVE  i = j /\ OnPath(p0, n0, a, p0, n, i) /\ w[p0][n][i] = w[p0][n0][i]
  <2>1. i = j /\ Same(i, n, n0)
    BY <1>1, <1>4 DEF OnePlace
  <2>2. w[p0][n][i] = w[p0][n0][i]
    BY <1>1, <2>1, SharedPrefix
  <2>3. i >= a
    BY <1>1, <2>1
  <2> QED BY <2>1, <2>2, <2>3 DEF OnPath
<1>5. ASSUME NEW p \in Procs, NEW n \in Pages, NEW i \in 0 .. Levels, v[p][n][i] # 0
      PROVE  refs2[v[p][n][i]] = Cardinality(HoldersAt(v, n, i, v[p][n][i]))
  <2>1. CASE OnPath(p0, n0, a, p, n, i)
    <3>1. v[p][n][i] = new[i] /\ p = p0 /\ i \in a .. Levels
      BY <1>2, <2>1
    <3>2. \A q \in Procs : v[q][n][i] = v[p][n][i] => q = p
      BY <1>2, <1>3, <3>1
    <3>3. Cardinality(HoldersAt(v, n, i, v[p][n][i])) = 1
      BY <3>2, HolderFacts
    <3>4. refs2[new[i]] = 1
      BY <1>3, <3>1
    <3> QED BY <3>1, <3>3, <3>4
  <2>2. CASE ~OnPath(p0, n0, a, p, n, i)
    <3>1. PICK f \in Frames : f = v[p][n][i] /\ f = w[p][n][i]
      BY <1>2, <1>5, <2>2
    <3>2. f # 0 /\ \A k \in a .. Levels : f # new[k]
      BY <1>3, <1>5, <3>1
    <3>3. refs[f] = Cardinality(HoldersAt(w, n, i, f))
      BY <3>1, <3>2 DEF Counts
    <3>4. IsFiniteSet(HoldersAt(w, n, i, f))
      BY <3>1, HolderFacts
    <3>5. CASE OnPath(p0, n0, a, p0, n, i)
      <4>1. i \in a .. Levels /\ w[p0][n][i] = w[p0][n0][i] /\ v[p0][n][i] # f
        <5>1. i \in a .. Levels /\ Same(i, n, n0)
          BY <1>1, <1>2, <3>5 DEF OnPath
        <5> QED BY <1>1, <1>2, <3>2, <3>5, <5>1, SharedPrefix
      <4>2. HoldersAt(v, n, i, f) = HoldersAt(w, n, i, f) \ {p0}
        <5>1. \A q \in Procs : v[q][n][i] = f <=> w[q][n][i] = f /\ q # p0
          BY <1>2, <4>1
        <5> QED BY <5>1 DEF HoldersAt
      <4>3. CASE w[p0][n0][i] = f
        <5>1. p0 \in HoldersAt(w, n, i, f)
          BY <1>1, <4>1, <4>3 DEF HoldersAt
        <5>2. Cardinality(HoldersAt(v, n, i, f)) = Cardinality(HoldersAt(w, n, i, f)) - 1
          BY <3>4, <4>2, <5>1, FS_RemoveElement
        <5>3. refs2[f] = refs[f] - 1
          BY <3>2, <4>1, <4>3
        <5> QED BY <3>1, <3>3, <5>2, <5>3
      <4>4. CASE w[p0][n0][i] # f
        <5>1. HoldersAt(v, n, i, f) = HoldersAt(w, n, i, f)
          BY <4>1, <4>2, <4>4 DEF HoldersAt
        <5>2. ~\E j \in a .. Levels : f = w[p0][n0][j]
          BY <1>4, <3>1, <3>2, <4>4
        <5>3. refs2[f] = refs[f]
          BY <3>2, <5>2
        <5> QED BY <3>1, <3>3, <5>1, <5>3
      <4> QED BY <4>3, <4>4
    <3>6. CASE ~OnPath(p0, n0, a, p0, n, i)
      <4>1. HoldersAt(v, n, i, f) = HoldersAt(w, n, i, f)
        <5>1. \A q \in Procs : v[q][n][i] = w[q][n][i]
          BY <1>2, <3>6
        <5> QED BY <5>1 DEF HoldersAt
      <4>2. ~\E j \in a .. Levels : f = w[p0][n0][j]
        BY <1>4, <3>1, <3>2, <3>6
      <4>3. refs2[f] = refs[f]
        BY <3>2, <4>2
      <4> QED BY <3>1, <3>3, <4>1, <4>3
    <3> QED BY <3>5, <3>6
  <2> QED BY <2>1, <2>2
<1>6. ASSUME NEW f \in dead PROVE ~InUse(v, f) /\ refs2[f] = 1
  <2>1. ~InUse(w, f) /\ refs[f] = 1 /\ f \in tk /\ f \in Frames
    BY DEF Counts
  <2>2. ~\E k \in a .. Levels : f = new[k]
    BY <2>1
  <2>3. ~\E k \in a .. Levels : f = w[p0][n0][k]
    BY <1>1, <2>1 DEF InUse
  <2>4. ~InUse(v, f)
    BY <1>2, <2>1, <2>2 DEF InUse
  <2> QED BY <2>1, <2>2, <2>3, <2>4
<1>7. ASSUME NEW f \in Frames, InUse(v, f) PROVE f \in tk2
  <2>1. PICK p \in Procs, n \in Pages, i \in 0 .. Levels : v[p][n][i] = f
    BY <1>7 DEF InUse
  <2>2. CASE OnPath(p0, n0, a, p, n, i)
    BY <1>2, <2>1, <2>2
  <2>3. CASE ~OnPath(p0, n0, a, p, n, i)
    <3>1. w[p][n][i] = f /\ f # 0
      BY <1>2, <2>1, <2>3 DEF Frames
    <3>2. f \in tk
      BY <3>1 DEF InUse, Counts
    <3>3. ASSUME refs[f] = 1, NEW j \in a .. Levels, f = w[p0][n0][j] PROVE FALSE
      <4>1. OnPath(p0, n0, a, p0, n, i) /\ w[p0][n][i] = w[p][n][i]
        BY <1>4, <3>1, <3>3
      <4>2. Cardinality(HoldersAt(w, n, i, w[p][n][i])) = 1
        BY <3>1, <3>3 DEF Counts
      <4>3. p0 = p
        BY <1>1, <4>1, <4>2, HolderFacts
      <4> QED BY <2>3, <4>1, <4>3
    <3> QED BY <3>2, <3>3
  <2> QED BY <2>2, <2>3
<1>8. ASSUME NEW f \in tk2, f \notin dead PROVE InUse(v, f)
  <2>1. f \in Frames
    OBVIOUS
  <2>2. CASE \E k \in a .. Levels : f = new[k]
    <3>1. PICK k \in a .. Levels : f = new[k]
      BY <2>2
    <3>2. k >= a /\ Same(k, n0, n0) /\ k \in 0 .. Levels
      BY <1>1 DEF Same
    <3>3. v[p0][n0][k] = f
      BY <1>1, <1>2, <3>1, <3>2 DEF OnPath
    <3> QED BY <1>1, <3>2, <3>3 DEF InUse
  <2>3. CASE ~\E k \in a .. Levels : f = new[k]
    <3>1. f \in tk /\ ~(refs[f] = 1 /\ \E k \in a .. Levels : f = w[p0][n0][k])
      BY <2>1, <2>3
    <3>2. PICK p \in Procs, n \in Pages, i \in 0 .. Levels : w[p][n][i] = f
      BY <1>8, <3>1 DEF Counts, InUse
    <3>3. CASE ~OnPath(p0, n0, a, p, n, i)
      <4>1. v[p][n][i] = f
        BY <1>2, <3>2, <3>3
      <4> QED BY <4>1 DEF InUse
    <3>4. CASE OnPath(p0, n0, a, p, n, i)
      <4>1. p = p0 /\ i \in a .. Levels /\ Same(i, n, n0)
        BY <1>2, <3>4 DEF OnPath
      <4>2. w[p0][n0][i] = f
        BY <1>1, <3>2, <4>1, SharedPrefix
      <4>3. refs[f] # 1
        BY <3>1, <4>1, <4>2
      <4>4. w[p][n][i] # 0
        BY <2>1, <3>2 DEF Frames
      <4>5. Cardinality(HoldersAt(w, n, i, w[p][n][i])) # 1
        BY <3>2, <4>3, <4>4 DEF Counts
      <4>6. PICK q \in Procs : w[q][n][i] = w[p][n][i] /\ q # p
        BY <4>5, HolderFacts
      <4>7. v[q][n][i] = f
        BY <1>2, <3>2, <4>1, <4>6
      <4> QED BY <4>7 DEF InUse
    <3> QED BY <3>3, <3>4
  <2> QED BY <2>2, <2>3
<1>9. tk2 = dead \cup {f \in Frames : InUse(v, f)}
  <2>1. ASSUME NEW f \in dead PROVE f \in tk2
    <3>1. f \in Frames /\ f \in tk /\ ~InUse(w, f)
      BY DEF Counts
    <3>2. ~\E k \in a .. Levels : f = w[p0][n0][k]
      BY <1>1, <3>1 DEF InUse
    <3> QED BY <3>1, <3>2
  <2> QED BY <1>7, <1>8, <2>1
<1> QED BY <1>5, <1>6, <1>9 DEF Counts

-----------------------------------------------------------------------------
(* deallocateUserMemory: the tree of p0 is empty, and its root is r0, the  *)
(* old one after an exec and none when the process is gone.                *)
IsDropped(v, w, p0, r0) ==
  /\ v \in Forests /\ p0 \in Procs /\ w[p0][0][0] # 0 /\ r0 \in {0, w[p0][0][0]}
  /\ \A p \in Procs, m \in Pages, i \in 0 .. Levels :
       v[p][m][i] = IF p # p0 THEN w[p][m][i] ELSE IF i = 0 THEN r0 ELSE 0

Dropped(w, tb, tb2, p0) ==
  \A f \in Frames, s \in Slots :
    tb2[f][s] = IF f = w[p0][0][0] THEN Absent ELSE tb[f][s]

(* All paths of a process begin at its root, and nobody else's go there.   *)
LEMMA RootFacts ==
  ASSUME NEW w, NEW tb, NEW rt, IsWalks(w, tb, rt), OnePlace(w),
         NEW p0 \in Procs, w[p0][0][0] # 0
  PROVE  /\ 0 \in Pages /\ 0 \in 0 .. Levels /\ w[p0][0][0] \in Frames
         /\ \A m \in Pages : w[p0][m][0] = w[p0][0][0]
         /\ \A p \in Procs, m \in Pages, i \in 0 .. Levels :
              w[p][m][i] = w[p0][0][0] => p = p0 /\ i = 0
<1>1. 0 \in Pages /\ 0 \in 0 .. Levels /\ w \in Forests
  BY PagingAssumption DEF Pages, IsWalks
<1>2. w[p0][0][0] \in Frames \cup {0}
  BY <1>1, ForestType
<1>3. \A m \in Pages : w[p0][m][0] = w[p0][0][0]
  BY <1>1 DEF IsWalks
<1>4. ASSUME NEW p \in Procs, NEW m \in Pages, NEW i \in 0 .. Levels,
             w[p][m][i] = w[p0][0][0]
      PROVE  p = p0 /\ i = 0
  BY <1>1, <1>4 DEF OnePlace
<1> QED BY <1>1, <1>2, <1>3, <1>4

LEMMA DroppedWalks ==
  ASSUME NEW w, NEW tb, NEW tb2, NEW rt, NEW rt2, NEW p0, NEW r0, NEW v,
         IsWalks(w, tb, rt), OnePlace(w), IsDropped(v, w, p0, r0), Dropped(w, tb, tb2, p0),
         \A p \in Procs : rt2[p] = IF p = p0 THEN r0 ELSE rt[p]
  PROVE  IsWalks(v, tb2, rt2)
<1>1. v \in Forests /\ p0 \in Procs /\ w[p0][0][0] # 0 /\ w \in Forests
  BY DEF IsDropped, IsWalks
<1>2. /\ 0 \in Pages /\ 0 \in 0 .. Levels /\ w[p0][0][0] \in Frames
      /\ \A p \in Procs, m \in Pages, i \in 0 .. Levels :
           w[p][m][i] = w[p0][0][0] => p = p0 /\ i = 0
  BY <1>1, RootFacts
<1>3. ASSUME NEW p \in Procs, NEW m \in Pages PROVE v[p][m][0] = rt2[p]
  BY <1>2 DEF IsDropped, IsWalks
<1>4. ASSUME NEW p \in Procs, NEW m \in Pages, NEW i \in 1 .. Levels
      PROVE  v[p][m][i] = Hop(tb2, m, i, v[p][m][i - 1])
  <2>1. PICK k \in 0 .. Levels : k = i - 1 /\ i \in 0 .. Levels /\ i # 0
    BY PagingAssumption
  <2>2. Index(m, i) \in Slots
    BY NodeFacts
  <2>3. CASE p # p0
    <3>1. PICK f \in Frames \cup {0} : f = w[p][m][k] /\ f # w[p0][0][0]
      BY <1>1, <1>2, <2>3, ForestType
    <3>2. v[p][m][i] = w[p][m][i] /\ v[p][m][k] = f
      BY <2>1, <2>3, <3>1 DEF IsDropped
    <3>3. w[p][m][i] = Hop(tb, m, i, f)
      BY <2>1, <3>1 DEF IsWalks
    <3>4. f # 0 => tb2[f][Index(m, i)] = tb[f][Index(m, i)]
      BY <2>2, <3>1 DEF Dropped
    <3> QED BY <2>1, <3>2, <3>3, <3>4 DEF Hop
  <2>4. CASE p = p0
    <3>1. v[p][m][i] = 0 /\ (v[p][m][k] = 0 \/ v[p][m][k] = w[p0][0][0])
      BY <2>1, <2>4 DEF IsDropped
    <3>2. tb2[w[p0][0][0]][Index(m, i)] = Absent
      BY <1>2, <2>2 DEF Dropped
    <3> QED BY <2>1, <3>1, <3>2 DEF Hop, Absent
  <2> QED BY <2>3, <2>4
<1> QED BY <1>1, <1>3, <1>4 DEF IsWalks

LEMMA DroppedOnePlace ==
  ASSUME NEW w, NEW p0, NEW r0, NEW v, NEW tb, NEW rt, IsWalks(w, tb, rt), OnePlace(w),
         IsDropped(v, w, p0, r0)
  PROVE  /\ \A p \in Procs, n \in Pages, i \in 0 .. Levels :
              v[p][n][i] # 0 => v[p][n][i] = w[p][n][i] /\ (i # 0 => p # p0)
         /\ OnePlace(v)
<1>1. ASSUME NEW p \in Procs, NEW n \in Pages, NEW i \in 0 .. Levels, v[p][n][i] # 0
      PROVE  v[p][n][i] = w[p][n][i] /\ (i # 0 => p # p0)
  <2>1. v[p][n][i] = IF p # p0 THEN w[p][n][i] ELSE IF i = 0 THEN r0 ELSE 0
    BY DEF IsDropped
  <2>2. p0 \in Procs /\ w[p0][0][0] # 0 /\ r0 \in {0, w[p0][0][0]}
    BY DEF IsDropped
  <2>3. w[p0][n][0] = w[p0][0][0]
    BY <2>2, RootFacts
  <2> QED BY <1>1, <2>1, <2>2, <2>3
<1>2. ASSUME NEW p \in Procs, NEW q \in Procs, NEW n \in Pages, NEW m \in Pages,
             NEW i \in 0 .. Levels, NEW j \in 0 .. Levels,
             v[p][n][i] # 0, v[p][n][i] = v[q][m][j]
      PROVE  i = j /\ Same(i, n, m) /\ (i = 0 => p = q)
  <2>1. w[p][n][i] # 0 /\ w[p][n][i] = w[q][m][j]
    <3>1. v[p][n][i] = w[p][n][i]
      BY <1>1, <1>2
    <3>2. v[q][m][j] = w[q][m][j]
      BY <1>1, <1>2
    <3> QED BY <1>2, <3>1, <3>2
  <2> QED BY <2>1 DEF OnePlace
<1> QED BY <1>1, <1>2 DEF OnePlace

LEMMA DroppedMarks ==
  ASSUME NEW w, NEW tb, NEW tb2, NEW rt, NEW p0, NEW r0, NEW v,
         IsWalks(w, tb, rt), OnePlace(w), IsDropped(v, w, p0, r0), Dropped(w, tb, tb2, p0),
         Marks(w, tb)
  PROVE  Marks(v, tb2)
<1>1. p0 \in Procs /\ w[p0][0][0] # 0 /\ w \in Forests
  BY DEF IsDropped, IsWalks
<1>2. ASSUME NEW p \in Procs, NEW n \in Pages, NEW i \in 1 .. Levels, v[p][n][i] # 0
      PROVE  /\ v[p][n][i] = w[p][n][i] /\ v[p][n][i - 1] # 0 /\ w[p][n][i] # 0
             /\ Entry(v, tb2, p, n, i) = Entry(w, tb, p, n, i)
  <2>1. PICK k \in 0 .. Levels : k = i - 1 /\ i \in 0 .. Levels /\ i # 0
    BY PagingAssumption
  <2>2. v[p][n][i] = w[p][n][i] /\ p # p0
    BY <1>2, <2>1, DroppedOnePlace
  <2>3. PICK f \in Frames \cup {0} : f = w[p][n][k] /\ f # w[p0][0][0]
    BY <1>1, <2>2, ForestType, RootFacts
  <2>4. v[p][n][k] = f
    BY <2>2, <2>3 DEF IsDropped
  <2>5. w[p][n][i] = Hop(tb, n, i, f)
    BY <2>1, <2>3 DEF IsWalks
  <2>6. f # 0
    BY <1>2, <2>2, <2>5 DEF Hop
  <2>7. Index(n, i) \in Slots
    BY NodeFacts
  <2>8. tb2[f][Index(n, i)] = tb[f][Index(n, i)]
    BY <2>3, <2>6, <2>7 DEF Dropped
  <2> QED BY <1>2, <2>1, <2>2, <2>3, <2>4, <2>6, <2>8 DEF Entry
<1>3. ASSUME NEW p \in Procs, NEW q \in Procs, NEW n \in Pages, NEW i \in 1 .. Levels,
             p # q, v[p][n][i] # 0, v[p][n][i] = v[q][n][i]
      PROVE  Entry(v, tb2, p, n, i).cow
  <2>1. v[p][n][i] = w[p][n][i] /\ w[p][n][i] # 0 /\ v[q][n][i] = w[q][n][i]
    BY <1>2, <1>3
  <2>2. Entry(w, tb, p, n, i).cow
    BY <1>3, <2>1 DEF Marks
  <2> QED BY <1>2, <1>3, <2>2
<1>4. ASSUME NEW p \in Procs, NEW n \in Pages, NEW i \in 2 .. Levels,
             v[p][n][i] # 0, Entry(v, tb2, p, n, i - 1).cow
      PROVE  Entry(v, tb2, p, n, i).cow
  <2>1. PICK k \in 1 .. Levels : k = i - 1 /\ i \in 1 .. Levels
    BY PagingAssumption
  <2>2. v[p][n][k] # 0 /\ w[p][n][i] # 0
    BY <1>2, <1>4, <2>1
  <2>3. Entry(w, tb, p, n, i - 1).cow
    BY <1>2, <1>4, <2>1, <2>2
  <2>4. Entry(w, tb, p, n, i).cow
    BY <2>2, <2>3 DEF Marks
  <2> QED BY <1>2, <1>4, <2>1, <2>4
<1>5. ASSUME NEW p \in Procs, NEW n \in Pages, NEW i \in 1 .. Levels,
             v[p][n][i] # 0, Entry(v, tb2, p, n, i).cow
      PROVE  ~Entry(v, tb2, p, n, i).writable
  <2>1. w[p][n][i] # 0 /\ Entry(v, tb2, p, n, i) = Entry(w, tb, p, n, i)
    BY <1>2, <1>5
  <2> QED BY <1>5, <2>1 DEF Marks
<1>6. ASSUME NEW p \in Procs, NEW n \in ReadOnly, v[p][n][Levels] # 0
      PROVE  /\ ~Entry(v, tb2, p, n, Levels).writable
             /\ Entry(v, tb2, p, n, Levels).cow => ~Entry(v, tb2, p, n, Levels).was
  <2>1. n \in Pages /\ Levels \in 1 .. Levels
    BY PagingAssumption DEF Pages
  <2>2. w[p][n][Levels] # 0 /\ Entry(v, tb2, p, n, Levels) = Entry(w, tb, p, n, Levels)
    BY <1>2, <1>6, <2>1
  <2> QED BY <2>2 DEF Marks
<1> QED BY <1>3, <1>4, <1>5, <1>6 DEF Marks

(* The frames of the tree lose a holder; a root that is given up is dead.  *)
LEMMA DroppedCounts ==
  ASSUME NEW w, NEW tb, NEW rt, NEW p0, NEW r0, NEW v,
         IsWalks(w, tb, rt), OnePlace(w), IsDropped(v, w, p0, r0),
         NEW tk, NEW refs, NEW dead, NEW tk2, NEW refs2, NEW dead2, Counts(w, tk, refs, dead),
         dead \subseteq Frames, tk2 \subseteq Frames, dead2 \subseteq Frames,
         \A f \in Frames : f \in dead2 <=> f \in dead \/ (r0 = 0 /\ f = w[p0][0][0]),
         \A f \in Frames : f \in tk2 <=>
           f \in tk /\ ~(refs[f] = 1 /\ \E n \in Pages, i \in 1 .. Levels : f = w[p0][n][i]),
         \A f \in Frames : refs2[f] =
           IF \E n \in Pages, i \in 1 .. Levels : f = w[p0][n][i] THEN refs[f] - 1 ELSE refs[f]
  PROVE  Counts(v, tk2, refs2, dead2)
<1> DEFINE In(f) == \E n \in Pages, i \in 1 .. Levels : f = w[p0][n][i]
<1>1. /\ p0 \in Procs /\ w[p0][0][0] # 0 /\ r0 \in {0, w[p0][0][0]} /\ Levels \in Nat
      /\ \A i \in 1 .. Levels : i \in 0 .. Levels /\ i # 0
  BY PagingAssumption DEF IsDropped
<1>2. PICK r \in Frames : /\ r = w[p0][0][0] /\ r # 0 /\ 0 \in Pages /\ 0 \in 0 .. Levels
                          /\ \A m \in Pages : w[p0][m][0] = r
                          /\ \A p \in Procs, m \in Pages, i \in 0 .. Levels :
                               w[p][m][i] = r => p = p0 /\ i = 0
  BY <1>1, RootFacts
<1>3. ASSUME NEW p \in Procs, NEW n \in Pages, NEW i \in 0 .. Levels, v[p][n][i] # 0
      PROVE  v[p][n][i] = w[p][n][i] /\ (i # 0 => p # p0) /\ w[p][n][i] \in Frames
  <2>1. v[p][n][i] = w[p][n][i] /\ (i # 0 => p # p0)
    BY <1>3, DroppedOnePlace
  <2>2. w[p][n][i] \in Frames \cup {0}
    BY ForestType DEF IsWalks
  <2> QED BY <1>3, <2>1, <2>2
<1>4. ASSUME NEW p \in Procs, NEW n \in Pages, NEW i \in 0 .. Levels, w[p][n][i] # 0
      PROVE  In(w[p][n][i]) <=> i # 0 /\ w[p0][n][i] = w[p][n][i]
  <2>1. ASSUME NEW m \in Pages, NEW j \in 1 .. Levels, w[p][n][i] = w[p0][m][j]
        PROVE  i # 0 /\ w[p0][n][i] = w[p][n][i]
    <3>1. j \in 0 .. Levels /\ j # 0
      BY <1>1
    <3>2. i = j /\ Same(i, n, m)
      BY <1>1, <1>4, <2>1, <3>1 DEF OnePlace
    <3>3. w[p0][n][i] = w[p0][m][i]
      BY <1>1, <3>2, SharedPrefix
    <3> QED BY <2>1, <3>1, <3>2, <3>3
  <2>2. i # 0 => i \in 1 .. Levels
    BY <1>1
  <2> QED BY <2>1, <2>2
<1>5. \A f \in Frames : refs2[f] = IF In(f) THEN refs[f] - 1 ELSE refs[f]
  OBVIOUS
<1>6. \A f \in Frames : f \in tk2 <=> f \in tk /\ ~(refs[f] = 1 /\ In(f))
  OBVIOUS
<1> HIDE DEF In
<1>7. ASSUME NEW p \in Procs, NEW n \in Pages, NEW i \in 0 .. Levels, v[p][n][i] # 0
      PROVE  refs2[v[p][n][i]] = Cardinality(HoldersAt(v, n, i, v[p][n][i]))
  <2>1. PICK f \in Frames : f = v[p][n][i] /\ f = w[p][n][i] /\ f # 0
    BY <1>3, <1>7
  <2>2. refs[f] = Cardinality(HoldersAt(w, n, i, f)) /\ IsFiniteSet(HoldersAt(w, n, i, f))
    BY <2>1, HolderFacts DEF Counts
  <2>3. \A q \in Procs : q # p0 => v[q][n][i] = w[q][n][i]
    BY DEF IsDropped
  <2>4. CASE i = 0
    <3>1. ~In(f)
      BY <1>4, <2>1, <2>4
    <3>2. \A q \in Procs : v[q][n][i] = f <=> w[q][n][i] = f
      <4>1. v[p0][n][i] = r0 /\ w[p0][n][i] = r
        BY <1>1, <1>2, <2>4 DEF IsDropped
      <4>2. w[p0][n][i] = f => p = p0
        BY <1>1, <1>2, <2>1, <4>1
      <4>3. p = p0 => v[p0][n][i] = f /\ w[p0][n][i] = f
        BY <2>1
      <4>4. p # p0 => w[p0][n][i] # f /\ v[p0][n][i] # f
        BY <1>1, <1>2, <2>1, <4>1, <4>2
      <4> QED BY <2>3, <4>3, <4>4
    <3>3. HoldersAt(v, n, i, f) = HoldersAt(w, n, i, f)
      BY <3>2 DEF HoldersAt
    <3> QED BY <1>5, <2>1, <2>2, <3>1, <3>3
  <2>5. CASE i # 0
    <3>1. v[p0][n][i] # f
      <4>1. v[p0][n][i] = 0
        BY <1>1, <2>5 DEF IsDropped
      <4> QED BY <2>1, <4>1
    <3>2. HoldersAt(v, n, i, f) = HoldersAt(w, n, i, f) \ {p0}
      BY <2>3, <3>1 DEF HoldersAt
    <3>3. p0 \in HoldersAt(w, n, i, f) <=> In(f)
      BY <1>1, <1>4, <2>1, <2>5 DEF HoldersAt
    <3>4. PICK S : S = HoldersAt(w, n, i, f)
      OBVIOUS
    <3>5. Cardinality(S \ {p0}) = IF p0 \in S THEN Cardinality(S) - 1 ELSE Cardinality(S)
      BY <2>2, <3>4, FS_RemoveElement
    <3>6. Cardinality(HoldersAt(v, n, i, f)) = IF In(f) THEN refs[f] - 1 ELSE refs[f]
      BY <2>2, <3>2, <3>3, <3>4, <3>5
    <3> QED BY <1>5, <2>1, <3>6
  <2> QED BY <2>4, <2>5
<1>8. ASSUME NEW f \in dead PROVE ~InUse(v, f) /\ ~In(f) /\ refs2[f] = 1 /\ f \in tk2
  <2>1. f \in Frames /\ f \in tk /\ ~InUse(w, f) /\ refs[f] = 1
    BY DEF Counts
  <2>2. ~In(f)
    BY <1>1, <2>1 DEF In, InUse
  <2>3. ~InUse(v, f)
    <3>1. f # 0
      BY <2>1 DEF Frames
    <3> QED BY <1>3, <2>1, <3>1 DEF InUse
  <2> QED BY <1>5, <1>6, <2>1, <2>2, <2>3
<1>9. /\ ~In(r) /\ r \in tk2 /\ (r0 = 0 => ~InUse(v, r)) /\ refs2[r] = 1
  <2>1. ~In(r)
    BY <1>1, <1>2, <1>4
  <2>2. r \in tk
    BY <1>1, <1>2 DEF Counts, InUse
  <2>3. Cardinality(HoldersAt(w, 0, 0, w[p0][0][0])) = 1
    BY <1>1, <1>2, HolderFacts
  <2>4. refs[r] = 1
    BY <1>1, <1>2, <2>3 DEF Counts
  <2>5. ASSUME r0 = 0, NEW p \in Procs, NEW n \in Pages, NEW i \in 0 .. Levels,
               v[p][n][i] = r
        PROVE  FALSE
    <3>1. w[p][n][i] = r
      BY <1>2, <1>3, <2>5
    <3>2. p = p0 /\ i = 0
      BY <1>2, <3>1
    <3>3. v[p0][n][0] = 0
      BY <1>2, <2>5, <3>2 DEF IsDropped
    <3> QED BY <1>2, <2>5, <3>2, <3>3
  <2> QED BY <1>5, <1>6, <2>1, <2>2, <2>4, <2>5 DEF InUse
<1>10. ASSUME NEW f \in Frames, InUse(v, f) PROVE f \in tk2
  <2>1. PICK p \in Procs, n \in Pages, i \in 0 .. Levels : v[p][n][i] = f
    BY <1>10 DEF InUse
  <2>2. w[p][n][i] = f /\ f # 0 /\ (i # 0 => p # p0)
    <3>1. f # 0
      BY DEF Frames
    <3> QED BY <1>3, <2>1, <3>1
  <2>3. f \in tk
    BY <2>2 DEF InUse, Counts
  <2>4. ASSUME refs[f] = 1, In(f) PROVE FALSE
    <3>1. i # 0 /\ w[p0][n][i] = w[p][n][i]
      BY <1>4, <2>2, <2>4
    <3>2. Cardinality(HoldersAt(w, n, i, w[p][n][i])) = 1
      BY <2>2, <2>4 DEF Counts
    <3>3. p0 = p
      BY <1>1, <3>1, <3>2, HolderFacts
    <3> QED BY <2>2, <3>1, <3>3
  <2> QED BY <1>6, <2>3, <2>4
<1>11. ASSUME NEW f \in tk2, f \notin dead2 PROVE InUse(v, f)
  <2>1. f \in Frames /\ f \in tk /\ ~(refs[f] = 1 /\ In(f)) /\ f # 0
    BY <1>6 DEF Frames
  <2>2. InUse(w, f)
    BY <1>11, <2>1 DEF Counts
  <2>3. PICK p \in Procs, n \in Pages, i \in 0 .. Levels : w[p][n][i] = f
    BY <2>2 DEF InUse
  <2>4. CASE p # p0
    <3>1. v[p][n][i] = f
      BY <2>3, <2>4 DEF IsDropped
    <3> QED BY <3>1 DEF InUse
  <2>5. CASE p = p0 /\ i = 0
    <3>1. f = r
      BY <1>2, <2>3, <2>5
    <3>2. r0 = r
      BY <1>1, <1>2, <1>11, <2>1, <3>1
    <3>3. v[p0][n][0] = r
      BY <1>1, <1>2, <3>2 DEF IsDropped
    <3> QED BY <1>1, <1>2, <3>1, <3>3 DEF InUse
  <2>6. CASE p = p0 /\ i # 0
    <3>1. In(f)
      BY <1>4, <2>1, <2>3, <2>6
    <3>2. Cardinality(HoldersAt(w, n, i, w[p][n][i])) # 1
      BY <2>1, <2>3, <3>1 DEF Counts
    <3>3. PICK q \in Procs : w[q][n][i] = w[p][n][i] /\ q # p
      BY <3>2, HolderFacts
    <3>4. v[q][n][i] = f
      BY <2>3, <2>6, <3>3 DEF IsDropped
    <3> QED BY <3>4 DEF InUse
  <2> QED BY <2>4, <2>5, <2>6
<1>12. ASSUME NEW f \in dead2 PROVE ~InUse(v, f) /\ refs2[f] = 1 /\ f \in tk2
  <2>1. f \in dead \/ (r0 = 0 /\ f = r)
    BY <1>2
  <2> QED BY <1>8, <1>9, <2>1
<1>13. tk2 = dead2 \cup {f \in Frames : InUse(v, f)}
  BY <1>10, <1>11, <1>12
<1> QED BY <1>7, <1>12, <1>13 DEF Counts

-----------------------------------------------------------------------------
(* clonePageTable: the child c has the tree of p0 below a root of its own, *)
(* and all entries of the tree are marked.                                 *)
IsForked(v, w, p0, c, f0) ==
  /\ v \in Forests /\ p0 \in Procs /\ c \in Procs /\ f0 \in Frames /\ ~InUse(w, f0)
  /\ w[p0][0][0] # 0 /\ w[c][0][0] = 0
  /\ \A p \in Procs, m \in Pages, i \in 0 .. Levels :
       v[p][m][i] = IF p # c THEN w[p][m][i] ELSE IF i = 0 THEN f0 ELSE w[p0][m][i]

InTree(w, p0, f) == \E m \in Pages, k \in 0 .. Levels : f = w[p0][m][k]

Forked(w, tb, tb2, p0, f0) ==
  \A f \in Frames, s \in Slots :
    tb2[f][s] = IF f = f0 THEN Marked(tb[w[p0][0][0]][s])
                ELSE IF InTree(w, p0, f) THEN Marked(tb[f][s]) ELSE tb[f][s]

(* Whose tree of before the fork a process has.                            *)
Ancestor(p0, c, p) == IF p = c THEN p0 ELSE p

(* The entries after the fork.                                             *)
LEMMA ForkedEntry ==
  ASSUME NEW w, NEW tb \in Trees, NEW tb2, NEW rt, NEW p0, NEW c, NEW f0, NEW v,
         IsWalks(w, tb, rt), OnePlace(w), IsForked(v, w, p0, c, f0), Forked(w, tb, tb2, p0, f0),
         NEW p \in Procs, NEW m \in Pages, NEW i \in 1 .. Levels
  PROVE  \E q \in Procs :
           /\ q = Ancestor(p0, c, p) /\ v[p][m][i] = w[q][m][i]
           /\ v[p][m][i - 1] = 0 <=> w[q][m][i - 1] = 0
           /\ w[q][m][i - 1] # 0 =>
                /\ Entry(w, tb, q, m, i) \in Entries
                /\ Entry(v, tb2, p, m, i) = IF InTree(w, p0, w[q][m][i - 1])
                                            THEN Marked(Entry(w, tb, q, m, i))
                                            ELSE Entry(w, tb, q, m, i)
<1>1. PICK k \in 0 .. Levels : k = i - 1 /\ i \in 0 .. Levels /\ i # 0
  BY PagingAssumption
<1>2. PICK q \in Procs : q = Ancestor(p0, c, p)
  BY DEF IsForked, Ancestor
<1>3. PICK f \in Frames \cup {0} : f = w[q][m][k]
  BY ForestType DEF IsWalks
<1>4. Index(m, i) \in Slots
  BY NodeFacts
<1>5. v[p][m][i] = w[q][m][i]
  BY <1>1, <1>2 DEF IsForked, Ancestor
<1>6. f # 0 => tb[f][Index(m, i)] \in Entries
  BY <1>4 DEF Trees
<1>7. f0 \in Frames /\ f0 # 0 /\ f # f0 /\ p0 \in Procs
  BY <1>3 DEF IsForked, InUse, Frames
<1>8. CASE p = c /\ k = 0
  <2>1. v[p][m][k] = f0 /\ q = p0
    BY <1>2, <1>8 DEF IsForked, Ancestor
  <2>2. f = w[p0][0][0] /\ f # 0
    <3>1. w[p0][0][0] # 0
      BY DEF IsForked
    <3> QED BY <1>3, <1>7, <1>8, <2>1, <3>1, RootFacts
  <2>3. tb2[f0][Index(m, i)] = Marked(tb[f][Index(m, i)])
    BY <1>4, <1>7, <2>2 DEF Forked
  <2>4. InTree(w, p0, f)
    BY <1>1, <1>3, <2>1 DEF InTree
  <2> QED BY <1>1, <1>2, <1>3, <1>5, <1>6, <1>7, <2>1, <2>2, <2>3, <2>4 DEF Entry
<1>9. CASE ~(p = c /\ k = 0)
  <2>1. v[p][m][k] = f
    BY <1>2, <1>3, <1>9 DEF IsForked, Ancestor
  <2>2. f # 0 => tb2[f][Index(m, i)] = IF InTree(w, p0, f) THEN Marked(tb[f][Index(m, i)])
                                      ELSE tb[f][Index(m, i)]
    BY <1>4, <1>7 DEF Forked
  <2> QED BY <1>1, <1>2, <1>3, <1>5, <1>6, <2>1, <2>2 DEF Entry
<1> QED BY <1>8, <1>9

LEMMA ForkedWalks ==
  ASSUME NEW w, NEW tb \in Trees, NEW tb2, NEW rt, NEW rt2, NEW p0, NEW c, NEW f0, NEW v,
         IsWalks(w, tb, rt), OnePlace(w), IsForked(v, w, p0, c, f0), Forked(w, tb, tb2, p0, f0),
         \A p \in Procs : rt2[p] = IF p = c THEN f0 ELSE rt[p]
  PROVE  IsWalks(v, tb2, rt2)
<1>1. v \in Forests
  BY DEF IsForked
<1>2. ASSUME NEW p \in Procs, NEW m \in Pages PROVE v[p][m][0] = rt2[p]
  <2>1. 0 \in 0 .. Levels
    BY PagingAssumption
  <2> QED BY <2>1 DEF IsForked, IsWalks
<1>3. ASSUME NEW p \in Procs, NEW m \in Pages, NEW i \in 1 .. Levels
      PROVE  v[p][m][i] = Hop(tb2, m, i, v[p][m][i - 1])
  <2>1. PICK q \in Procs :
           /\ q = Ancestor(p0, c, p) /\ v[p][m][i] = w[q][m][i]
           /\ v[p][m][i - 1] = 0 <=> w[q][m][i - 1] = 0
           /\ w[q][m][i - 1] # 0 =>
                /\ Entry(w, tb, q, m, i) \in Entries
                /\ Entry(v, tb2, p, m, i) = IF InTree(w, p0, w[q][m][i - 1])
                                            THEN Marked(Entry(w, tb, q, m, i))
                                            ELSE Entry(w, tb, q, m, i)
    BY ForkedEntry
  <2>2. w[q][m][i] = Hop(tb, m, i, w[q][m][i - 1])
    BY DEF IsWalks
  <2>3. CASE w[q][m][i - 1] = 0
    BY <2>1, <2>2, <2>3 DEF Hop
  <2>4. CASE w[q][m][i - 1] # 0
    <3>1. Entry(v, tb2, p, m, i).to = Entry(w, tb, q, m, i).to
      BY <2>1, <2>4, EntryTypes
    <3> QED BY <2>1, <2>2, <2>4, <3>1 DEF Hop, Entry
  <2> QED BY <2>3, <2>4
<1> QED BY <1>1, <1>2, <1>3 DEF IsWalks

LEMMA ForkedOnePlace ==
  ASSUME NEW w, NEW p0, NEW c, NEW f0, NEW v, OnePlace(w), IsForked(v, w, p0, c, f0)
  PROVE  OnePlace(v)
<1> SUFFICES ASSUME NEW p \in Procs, NEW q \in Procs, NEW n \in Pages, NEW m \in Pages,
                    NEW i \in 0 .. Levels, NEW j \in 0 .. Levels,
                    v[p][n][i] # 0, v[p][n][i] = v[q][m][j]
             PROVE  i = j /\ Same(i, n, m) /\ (i = 0 => p = q)
  BY DEF OnePlace
<1>1. Ancestor(p0, c, p) \in Procs /\ Ancestor(p0, c, q) \in Procs
  BY DEF Ancestor, IsForked
<1>2. \A r \in Procs, l \in Pages, h \in 0 .. Levels : w[r][l][h] # f0
  BY DEF IsForked, InUse
<1>3. v[p][n][i] = IF p = c /\ i = 0 THEN f0 ELSE w[Ancestor(p0, c, p)][n][i]
  BY DEF IsForked, Ancestor
<1>4. v[q][m][j] = IF q = c /\ j = 0 THEN f0 ELSE w[Ancestor(p0, c, q)][m][j]
  BY DEF IsForked, Ancestor
<1>5. CASE p = c /\ i = 0
  <2>1. q = c /\ j = 0
    BY <1>1, <1>2, <1>3, <1>4, <1>5
  <2> QED BY <1>5, <2>1, NodeFacts
<1>6. CASE ~(p = c /\ i = 0)
  <2>1. ~(q = c /\ j = 0)
    BY <1>1, <1>2, <1>3, <1>4, <1>6
  <2>2. /\ w[Ancestor(p0, c, p)][n][i] # 0
        /\ w[Ancestor(p0, c, p)][n][i] = w[Ancestor(p0, c, q)][m][j]
    BY <1>3, <1>4, <1>6, <2>1
  <2>3. i = j /\ Same(i, n, m) /\ (i = 0 => Ancestor(p0, c, p) = Ancestor(p0, c, q))
    BY <1>1, <2>2 DEF OnePlace
  <2> QED BY <1>6, <2>1, <2>3 DEF Ancestor
<1> QED BY <1>5, <1>6

LEMMA MarkedFacts ==
  ASSUME NEW e \in Entries, e.to # 0
  PROVE  /\ Marked(e).cow
         /\ e.cow => Marked(e) = e
         /\ ~e.cow => ~Marked(e).writable /\ (Marked(e).was <=> e.writable)
BY DEF Marked, Entries

LEMMA ForkedMarks ==
  ASSUME NEW w, NEW tb \in Trees, NEW tb2, NEW rt, NEW p0, NEW c, NEW f0, NEW v,
         IsWalks(w, tb, rt), OnePlace(w), IsForked(v, w, p0, c, f0), Forked(w, tb, tb2, p0, f0),
         Marks(w, tb)
  PROVE  Marks(v, tb2)
<1>1. p0 \in Procs /\ c \in Procs /\ Levels \in Nat
  BY PagingAssumption DEF IsForked
<1>2. ASSUME NEW p \in Procs, NEW n \in Pages, NEW i \in 1 .. Levels, v[p][n][i] # 0
      PROVE  \E q \in Procs, e \in Entries :
               /\ q = Ancestor(p0, c, p) /\ v[p][n][i] = w[q][n][i]
               /\ w[q][n][i - 1] # 0 /\ v[p][n][i - 1] # 0
               /\ e = Entry(w, tb, q, n, i) /\ e.to # 0
               /\ Entry(v, tb2, p, n, i) = IF InTree(w, p0, w[q][n][i - 1])
                                           THEN Marked(e) ELSE e
  <2>1. PICK q \in Procs :
           /\ q = Ancestor(p0, c, p) /\ v[p][n][i] = w[q][n][i]
           /\ v[p][n][i - 1] = 0 <=> w[q][n][i - 1] = 0
           /\ w[q][n][i - 1] # 0 =>
                /\ Entry(w, tb, q, n, i) \in Entries
                /\ Entry(v, tb2, p, n, i) = IF InTree(w, p0, w[q][n][i - 1])
                                            THEN Marked(Entry(w, tb, q, n, i))
                                            ELSE Entry(w, tb, q, n, i)
    BY ForkedEntry
  <2>2. w[q][n][i] = Hop(tb, n, i, w[q][n][i - 1])
    BY DEF IsWalks
  <2>3. w[q][n][i - 1] # 0 /\ Entry(w, tb, q, n, i).to = w[q][n][i]
    BY <1>2, <2>1, <2>2 DEF Hop, Entry
  <2> QED BY <1>2, <2>1, <2>3
<1>3. ASSUME NEW n \in Pages, NEW i \in 1 .. Levels PROVE InTree(w, p0, w[p0][n][i - 1])
  <2>1. i - 1 \in 0 .. Levels
    BY <1>1
  <2> QED BY <2>1 DEF InTree
<1>4. ASSUME NEW p \in Procs, NEW q \in Procs, NEW n \in Pages, NEW i \in 1 .. Levels,
             p # q, v[p][n][i] # 0, v[p][n][i] = v[q][n][i]
      PROVE  Entry(v, tb2, p, n, i).cow
  <2>1. PICK a \in Procs, e \in Entries :
               /\ a = Ancestor(p0, c, p) /\ v[p][n][i] = w[a][n][i]
               /\ e = Entry(w, tb, a, n, i) /\ e.to # 0
               /\ Entry(v, tb2, p, n, i) = IF InTree(w, p0, w[a][n][i - 1])
                                           THEN Marked(e) ELSE e
    BY <1>2, <1>4
  <2>2. PICK b \in Procs : b = Ancestor(p0, c, q) /\ v[q][n][i] = w[b][n][i]
    <3>1. v[q][n][i] # 0
      BY <1>4
    <3> QED BY <1>2, <3>1
  <2>3. CASE a # b
    <3>1. Entry(w, tb, a, n, i).cow
      BY <1>4, <2>1, <2>2, <2>3 DEF Marks
    <3> QED BY <2>1, <3>1, MarkedFacts
  <2>4. CASE a = b
    <3>1. a = p0
      BY <1>4, <2>1, <2>2, <2>4 DEF Ancestor
    <3>2. Entry(v, tb2, p, n, i) = Marked(e)
      BY <1>3, <2>1, <3>1
    <3> QED BY <2>1, <3>2, MarkedFacts
  <2> QED BY <2>3, <2>4
<1>5. ASSUME NEW p \in Procs, NEW n \in Pages, NEW i \in 2 .. Levels,
             v[p][n][i] # 0, Entry(v, tb2, p, n, i - 1).cow
      PROVE  Entry(v, tb2, p, n, i).cow
  <2>1. PICK k \in 1 .. Levels : k = i - 1 /\ i \in 1 .. Levels
    BY <1>1
  <2>2. PICK a \in Procs, e \in Entries :
               /\ a = Ancestor(p0, c, p) /\ v[p][n][i] = w[a][n][i]
               /\ w[a][n][k] # 0 /\ v[p][n][k] # 0
               /\ e = Entry(w, tb, a, n, i) /\ e.to # 0
               /\ Entry(v, tb2, p, n, i) = IF InTree(w, p0, w[a][n][k])
                                           THEN Marked(e) ELSE e
    BY <1>2, <1>5, <2>1
  <2>3. PICK d \in Entries :
               /\ w[a][n][k - 1] # 0
               /\ d = Entry(w, tb, a, n, k) /\ d.to # 0
               /\ Entry(v, tb2, p, n, k) = IF InTree(w, p0, w[a][n][k - 1])
                                           THEN Marked(d) ELSE d
    BY <1>2, <2>2
  <2>4. CASE d.cow
    <3>1. e.cow
      BY <1>5, <2>1, <2>2, <2>3, <2>4 DEF Marks
    <3> QED BY <2>2, <3>1, MarkedFacts
  <2>5. CASE ~d.cow
    <3>1. InTree(w, p0, w[a][n][k - 1])
      BY <1>5, <2>1, <2>3, <2>5
    <3>2. PICK h \in 0 .. Levels : h = k - 1
      BY <1>1, <2>1
    <3>3. PICK m \in Pages, j \in 0 .. Levels : w[a][n][h] = w[p0][m][j]
      BY <3>1, <3>2 DEF InTree
    <3>4. w[a][n][h] # 0
      BY <2>3, <3>2
    <3>5. h = j /\ Same(h, n, m)
      BY <1>1, <3>3, <3>4 DEF OnePlace
    <3>6. w[p0][n][h] = w[a][n][h]
      BY <1>1, <3>3, <3>5, SharedPrefix
    <3>7. w[p0][n][k] = Hop(tb, n, k, w[p0][n][h]) /\ w[a][n][k] = Hop(tb, n, k, w[a][n][h])
      BY <1>1, <3>2 DEF IsWalks
    <3>8. w[a][n][k] = w[p0][n][k] /\ k \in 0 .. Levels
      BY <1>1, <3>6, <3>7
    <3>9. InTree(w, p0, w[a][n][k])
      BY <3>8 DEF InTree
    <3> QED BY <2>2, <3>9, MarkedFacts
  <2> QED BY <2>4, <2>5
<1>6. ASSUME NEW p \in Procs, NEW n \in Pages, NEW i \in 1 .. Levels,
             v[p][n][i] # 0, Entry(v, tb2, p, n, i).cow
      PROVE  ~Entry(v, tb2, p, n, i).writable
  <2>1. PICK a \in Procs, e \in Entries :
               /\ v[p][n][i] = w[a][n][i]
               /\ e = Entry(w, tb, a, n, i) /\ e.to # 0
               /\ Entry(v, tb2, p, n, i) = Marked(e) \/ Entry(v, tb2, p, n, i) = e
    BY <1>2, <1>6
  <2>2. e.cow => ~e.writable
    BY <1>6, <2>1 DEF Marks
  <2> QED BY <1>6, <2>1, <2>2, MarkedFacts
<1>7. ASSUME NEW p \in Procs, NEW n \in ReadOnly, v[p][n][Levels] # 0
      PROVE  /\ ~Entry(v, tb2, p, n, Levels).writable
             /\ Entry(v, tb2, p, n, Levels).cow => ~Entry(v, tb2, p, n, Levels).was
  <2>1. n \in Pages /\ Levels \in 1 .. Levels
    BY PagingAssumption DEF Pages
  <2>2. PICK a \in Procs, e \in Entries :
               /\ v[p][n][Levels] = w[a][n][Levels]
               /\ e = Entry(w, tb, a, n, Levels) /\ e.to # 0
               /\ \/ Entry(v, tb2, p, n, Levels) = Marked(e)
                  \/ Entry(v, tb2, p, n, Levels) = e
    BY <1>2, <1>7, <2>1
  <2>3. ~e.writable /\ (e.cow => ~e.was)
    BY <1>7, <2>2 DEF Marks
  <2> QED BY <2>2, <2>3, MarkedFacts
<1> QED BY <1>4, <1>5, <1>6, <1>7 DEF Marks

(* The frames of the tree gain a holder.                                   *)
LEMMA ForkedCounts ==
  ASSUME NEW w, NEW tb, NEW rt, NEW p0, NEW c, NEW f0, NEW v,
         IsWalks(w, tb, rt), OnePlace(w), IsForked(v, w, p0, c, f0),
         NEW tk, NEW refs, NEW dead, NEW refs2, Counts(w, tk, refs, dead),
         dead \subseteq Frames, f0 \notin tk,
         \A f \in Frames : refs2[f] =
           IF f = f0 THEN 1
           ELSE IF \E n \in Pages, i \in 1 .. Levels : f = w[p0][n][i] THEN refs[f] + 1
           ELSE refs[f]
  PROVE  Counts(v, tk \cup {f0}, refs2, dead)
<1> DEFINE In(f) == \E n \in Pages, i \in 1 .. Levels : f = w[p0][n][i]
<1>1. /\ p0 \in Procs /\ c \in Procs /\ f0 \in Frames /\ f0 # 0 /\ Levels \in Nat
      /\ \A i \in 1 .. Levels : i \in 0 .. Levels /\ i # 0
      /\ 0 \in Pages /\ 0 \in 0 .. Levels
      /\ \A r \in Procs, l \in Pages, h \in 0 .. Levels : w[r][l][h] # f0
  BY PagingAssumption DEF IsForked, InUse, Frames, Pages
<1>2. ASSUME NEW p \in Procs, NEW n \in Pages, NEW i \in 0 .. Levels
      PROVE  /\ v[p][n][i] = IF p # c THEN w[p][n][i] ELSE IF i = 0 THEN f0 ELSE w[p0][n][i]
             /\ w[p][n][i] \in Frames \cup {0} /\ w[c][n][i] = 0
  <2>1. w[c][n][i] = 0
    <3>1. w[c][n][0] = 0
      BY <1>1 DEF IsWalks, IsForked
    <3> DEFINE Bad == {k \in 0 .. Levels : w[c][n][k] # 0}
    <3>2. Bad = {}
      <4> SUFFICES ASSUME Bad # {} PROVE FALSE
        OBVIOUS
      <4>1. Bad \subseteq Nat
        OBVIOUS
      <4>2. PICK k \in Bad : \A l \in Bad : k <= l
        <5> HIDE DEF Bad
        <5> QED BY <4>1, MinIsLeast
      <4>3. k \in 1 .. Levels /\ k - 1 \in 0 .. Levels /\ w[c][n][k] # 0
        BY <1>1, <3>1, <4>2
      <4>4. k - 1 \notin Bad
        <5> HIDE DEF Bad
        <5> QED BY <4>2, <4>3
      <4>5. w[c][n][k] = Hop(tb, n, k, w[c][n][k - 1])
        BY <1>1, <4>3 DEF IsWalks
      <4> QED BY <4>3, <4>4, <4>5 DEF Hop
    <3> QED BY <3>2
  <2> QED BY <2>1, ForestType DEF IsForked, IsWalks
<1>3. ASSUME NEW p \in Procs, NEW n \in Pages, NEW i \in 0 .. Levels, w[p][n][i] # 0
      PROVE  In(w[p][n][i]) <=> i # 0 /\ w[p0][n][i] = w[p][n][i]
  <2>1. ASSUME NEW m \in Pages, NEW j \in 1 .. Levels, w[p][n][i] = w[p0][m][j]
        PROVE  i # 0 /\ w[p0][n][i] = w[p][n][i]
    <3>1. j \in 0 .. Levels /\ j # 0
      BY <1>1
    <3>2. i = j /\ Same(i, n, m)
      BY <1>1, <1>3, <2>1, <3>1 DEF OnePlace
    <3>3. w[p0][n][i] = w[p0][m][i]
      BY <1>1, <3>2, SharedPrefix
    <3> QED BY <2>1, <3>1, <3>2, <3>3
  <2>2. i # 0 => i \in 1 .. Levels
    BY <1>1
  <2> QED BY <2>1, <2>2
<1>4. \A f \in Frames : refs2[f] =
        IF f = f0 THEN 1 ELSE IF In(f) THEN refs[f] + 1 ELSE refs[f]
  OBVIOUS
<1> HIDE DEF In
<1>5. ASSUME NEW p \in Procs, NEW n \in Pages, NEW i \in 0 .. Levels, v[p][n][i] # 0
      PROVE  refs2[v[p][n][i]] = Cardinality(HoldersAt(v, n, i, v[p][n][i]))
  <2>1. CASE p = c /\ i = 0
    <3>1. v[p][n][i] = f0
      BY <1>2, <2>1
    <3>2. \A q \in Procs : v[q][n][i] = v[p][n][i] => q = p
      BY <1>1, <1>2, <2>1, <3>1
    <3>3. Cardinality(HoldersAt(v, n, i, v[p][n][i])) = 1
      BY <3>2, HolderFacts
    <3> QED BY <1>1, <1>4, <3>1, <3>3
  <2>2. CASE ~(p = c /\ i = 0)
    <3>1. PICK q \in Procs : v[p][n][i] = w[q][n][i]
      BY <1>1, <1>2, <2>2
    <3>2. PICK f \in Frames : f = w[q][n][i] /\ f # 0 /\ f # f0
      BY <1>1, <1>2, <1>5, <3>1
    <3>3. PICK S : S = HoldersAt(w, n, i, f)
      OBVIOUS
    <3>4. refs[f] = Cardinality(S) /\ IsFiniteSet(S) /\ c \notin S
      <4>1. IsFiniteSet(S)
        BY <3>2, <3>3, HolderFacts
      <4>2. refs[f] = Cardinality(S)
        BY <3>2, <3>3 DEF Counts
      <4>3. c \notin S
        BY <1>1, <1>2, <3>2, <3>3 DEF HoldersAt
      <4> QED BY <4>1, <4>2, <4>3
    <3>5. \A r \in Procs : r # c => v[r][n][i] = w[r][n][i]
      BY <1>2
    <3>6. v[c][n][i] = IF i = 0 THEN f0 ELSE w[p0][n][i]
      BY <1>1, <1>2
    <3>7. CASE In(f)
      <4>1. v[c][n][i] = f
        BY <1>3, <3>2, <3>6, <3>7
      <4>2. HoldersAt(v, n, i, f) = S \cup {c}
        BY <1>1, <3>3, <3>5, <4>1 DEF HoldersAt
      <4>3. Cardinality(S \cup {c}) = Cardinality(S) + 1
        BY <3>4, FS_AddElement
      <4> QED BY <1>4, <3>1, <3>2, <3>4, <3>7, <4>2, <4>3
    <3>8. CASE ~In(f)
      <4>1. v[c][n][i] # f
        BY <1>3, <3>2, <3>6, <3>8
      <4>2. HoldersAt(v, n, i, f) = S
        <5>1. \A r \in Procs : v[r][n][i] = f <=> w[r][n][i] = f
          BY <1>2, <3>2, <3>5, <4>1
        <5> QED BY <3>3, <5>1 DEF HoldersAt
      <4> QED BY <1>4, <3>1, <3>2, <3>4, <3>8, <4>2
    <3> QED BY <3>7, <3>8
  <2> QED BY <2>1, <2>2
<1>6. ASSUME NEW f \in dead PROVE ~InUse(v, f) /\ refs2[f] = 1
  <2>1. f \in Frames /\ f \in tk /\ ~InUse(w, f) /\ refs[f] = 1
    BY DEF Counts
  <2>2. ~In(f) /\ f # f0
    BY <1>1, <2>1 DEF In, InUse
  <2>3. ~InUse(v, f)
    BY <1>1, <1>2, <2>1, <2>2 DEF InUse
  <2> QED BY <1>4, <2>1, <2>2, <2>3
<1>7. ASSUME NEW f \in Frames PROVE InUse(v, f) <=> InUse(w, f) \/ f = f0
  <2>1. InUse(v, f0)
    BY <1>1, <1>2 DEF InUse
  <2>2. ASSUME InUse(w, f) PROVE InUse(v, f)
    <3>1. PICK p \in Procs, n \in Pages, i \in 0 .. Levels : w[p][n][i] = f
      BY <2>2 DEF InUse
    <3>2. p # c
      BY <1>2, <3>1 DEF Frames
    <3>3. v[p][n][i] = f
      BY <1>2, <3>1, <3>2
    <3> QED BY <3>3 DEF InUse
  <2>3. ASSUME InUse(v, f), f # f0 PROVE InUse(w, f)
    <3>1. PICK p \in Procs, n \in Pages, i \in 0 .. Levels : v[p][n][i] = f
      BY <2>3 DEF InUse
    <3>2. \E q \in Procs : w[q][n][i] = f
      BY <1>1, <1>2, <2>3, <3>1
    <3> QED BY <3>2 DEF InUse
  <2> QED BY <2>1, <2>2, <2>3
<1>8. tk \cup {f0} = dead \cup {f \in Frames : InUse(v, f)}
  <2>1. tk = dead \cup {f \in Frames : InUse(w, f)}
    BY DEF Counts
  <2> QED BY <1>1, <1>7, <2>1
<1> QED BY <1>5, <1>6, <1>8 DEF Counts

-----------------------------------------------------------------------------
(* The forest of a state, and the invariant about it.  Between exec and    *)
(* the end of Elf::load the running process shares nothing; a translation  *)
(* in the TLB is one of the running process.                               *)
Walks == WalksIn(tables, root)

Good(w, tb, rt, tk, refs, dead) ==
  IsWalks(w, tb, rt) /\ OnePlace(w) /\ Marks(w, tb) /\ Counts(w, tk, refs, dead)

Own(w, tb, c, ld) ==
  ld => \A n \in Pages, i \in 1 .. Levels : w[c][n][i] # 0 => ~Entry(w, tb, c, n, i).cow

Fresh(w, c, tl) ==
  \A n \in Addrs : tl[n] # 0 => c \in Procs /\ tl[n] = w[c][n][Levels] /\ n \notin ReadOnly

Kept(w, dt) ==
  \A p \in Procs, n \in ReadOnly : w[p][n][Levels] # 0 => dt[w[p][n][Levels]] = Loaded

ForestInv ==
  /\ TypeInv
  /\ Good(Walks, tables, root, taken, refCount, lost)
  /\ Own(Walks, tables, cur, loading)
  /\ Fresh(Walks, cur, tlb)
  /\ Kept(Walks, data)

(* The walks, pages, entries and subtrees of AddressSpace are those of the *)
(* forest.                                                                 *)
LEMMA StateWalks ==
  ASSUME TypeOK
  PROVE  IsWalks(Walks, tables, root)
<1>1. tables \in Trees /\ root \in RootsOf
  BY DEF TypeOK, Trees, RootsOf
<1> QED BY <1>1, WalksAreWalks DEF Walks

LEMMA NextWalks ==
  ASSUME TypeOK', NEW v, IsWalks(v, tables', root')
  PROVE  Walks' = v
<1>1. tables' \in Trees /\ root' \in RootsOf
  BY DEF TypeOK, Trees, RootsOf
<1>2. PICK tb, rt : tb = tables' /\ rt = root'
  OBVIOUS
<1>3. IsWalks(WalksIn(tb, rt), tb, rt)
  BY <1>1, <1>2, WalksAreWalks
<1>4. WalksIn(tb, rt) = v
  BY <1>2, <1>3, WalksUnique
<1> QED BY <1>2, <1>4 DEF Walks

LEMMA StateFacts ==
  ASSUME TypeOK, NEW p \in Procs, NEW n \in Pages
  PROVE  /\ Walk(root[p], n) = Walks[p][n]
         /\ Walks[p][n][0] = root[p]
         /\ Page(p, n) = Walks[p][n][Levels]
         /\ \A i \in 1 .. Levels : EntryAt(p, n, i) = Entry(Walks, tables, p, n, i)
         /\ \A i \in 0 .. Levels : Walks[p][n][i] \in Frames \cup {0}
<1>1. Walk(root[p], n) = Walks[p][n]
  BY WalkIs DEF Walks, WalksIn
<1>2. IsWalks(Walks, tables, root)
  BY StateWalks
<1>3. Page(p, n) = Walks[p][n][Levels]
  BY <1>1, WalkTyped
<1>4. \A i \in 1 .. Levels : EntryAt(p, n, i) = Entry(Walks, tables, p, n, i)
  BY <1>1 DEF EntryAt, Entry
<1>5. \A i \in 0 .. Levels : Walks[p][n][i] \in Frames \cup {0}
  BY <1>2, ForestType DEF IsWalks
<1> QED BY <1>1, <1>2, <1>3, <1>4, <1>5 DEF IsWalks

LEMMA BelowIs ==
  ASSUME TypeOK, NEW p \in Procs, root[p] # 0
  PROVE  /\ Below(root[p]) \subseteq Frames
         /\ \A f \in Frames : f \in Below(root[p]) <=>
              \E n \in Pages, i \in 1 .. Levels : f = Walks[p][n][i]
<1>1. Below(root[p]) = {Walk(root[p], n)[i] : n \in Pages, i \in 1 .. Levels} \ {0}
  BY DEF Below, Pages
<1>2. \A n \in Pages : Walk(root[p], n) = Walks[p][n]
  BY StateFacts
<1>3. \A n \in Pages, i \in 1 .. Levels : Walks[p][n][i] \in Frames \cup {0}
  <2>1. \A i \in 1 .. Levels : i \in 0 .. Levels
    OBVIOUS
  <2> QED BY <2>1, StateFacts
<1>4. 0 \notin Frames
  BY DEF Frames
<1> QED BY <1>1, <1>2, <1>3, <1>4

(* A step keeps the invariant when some v is the next forest.              *)
LEMMA NextForest ==
  ASSUME TypeInv', NEW v, Good(v, tables', root', taken', refCount', lost'),
         Own(v, tables', cur', loading'), Fresh(v, cur', tlb'), Kept(v, data')
  PROVE  Walks' = v /\ ForestInv'
<1>1. Walks' = v
  BY NextWalks DEF Good, TypeInv
<1> QED BY <1>1 DEF ForestInv

(* Writing to a page that is not read-only.                                *)
LEMMA KeptByWrite ==
  ASSUME NEW w \in Forests, OnePlace(w), NEW dt \in [Frames -> Values], Kept(w, dt),
         NEW p \in Procs, NEW n \in Addrs \ ReadOnly, w[p][n][Levels] # 0, NEW x
  PROVE  Kept(w, [dt EXCEPT ![w[p][n][Levels]] = x])
<1>1. ASSUME NEW q \in Procs, NEW m \in ReadOnly, w[q][m][Levels] # 0
      PROVE  [dt EXCEPT ![w[p][n][Levels]] = x][w[q][m][Levels]] = Loaded
  <2>1. m \in Pages /\ n \in Pages /\ m # n /\ Levels \in 0 .. Levels
    BY PagingAssumption DEF Pages
  <2>2. PICK f, g : f = w[p][n][Levels] /\ g = w[q][m][Levels]
    OBVIOUS
  <2>3. f \in Frames /\ g \in Frames
    BY <1>1, <2>1, <2>2, ForestType
  <2>4. f # g
    <3>1. f = g => Same(Levels, n, m)
      BY <2>1, <2>2 DEF OnePlace
    <3> QED BY <2>1, <3>1, NodeFacts
  <2>5. dt[g] = Loaded
    BY <1>1, <2>2 DEF Kept
  <2> QED BY <2>2, <2>3, <2>4, <2>5
<1> QED BY <1>1 DEF Kept

(* Steps that leave the forest alone.                                      *)
LEMMA QuietStep ==
  ASSUME ForestInv, TypeInv', UNCHANGED <<tables, taken, refCount, root, lost>>,
         loading' => loading /\ cur' = cur, Fresh(Walks, cur', tlb'), Kept(Walks, data')
  PROVE  Walks' = Walks /\ ForestInv'
<1>1. PICK w : w = Walks
  OBVIOUS
<1>2. Good(w, tables', root', taken', refCount', lost')
  BY <1>1 DEF ForestInv
<1>3. Own(w, tables', cur', loading')
  BY <1>1 DEF ForestInv, Own
<1>4. Fresh(w, cur', tlb') /\ Kept(w, data')
  BY <1>1
<1>5. Walks' = w /\ ForestInv'
  BY <1>2, <1>3, <1>4, NextForest
<1> QED BY <1>1, <1>5

(* What a user write, a write through the TLB and a system call write to.  *)
LEMMA WriteTarget ==
  ASSUME ForestInv, NEW n \in Addrs, NEW x,
         Write(n, x) \/ WriteThroughTLB(n, x) \/ KernelWrite(n, x)
  PROVE  /\ cur \in Procs /\ n \notin ReadOnly /\ Walks[cur][n][Levels] # 0
         /\ data' = [data EXCEPT ![Walks[cur][n][Levels]] = x]
         /\ WriteThroughTLB(n, x) => tlb[n] # 0
         /\ KernelWrite(n, x) => n \in Buffers
         /\ Write(n, x) => Entry(Walks, tables, cur, n, Levels).writable
<1>1. cur \in Procs /\ TypeOK /\ n \in Pages /\ Levels \in 1 .. Levels
  BY PagingAssumption DEF Write, WriteThroughTLB, KernelWrite, InUser, ForestInv, TypeInv, TypeOK, Pages
<1>2. Page(cur, n) = Walks[cur][n][Levels]
  BY <1>1, StateFacts
<1>3. EntryAt(cur, n, Levels) = Entry(Walks, tables, cur, n, Levels)
  BY <1>1, StateFacts
<1>4. n \in ReadOnly /\ Walks[cur][n][Levels] # 0 =>
        /\ ~Entry(Walks, tables, cur, n, Levels).writable
        /\ Entry(Walks, tables, cur, n, Levels).cow => ~Entry(Walks, tables, cur, n, Levels).was
  BY <1>1 DEF ForestInv, Good, Marks
<1>5. CASE Write(n, x)
  BY <1>1, <1>2, <1>3, <1>4, <1>5 DEF Write, HardwareWritable, WriteThroughTLB, KernelWrite
<1>6. CASE WriteThroughTLB(n, x)
  <2>1. tlb[n] # 0 /\ data' = [data EXCEPT ![tlb[n]] = x]
    BY <1>6 DEF WriteThroughTLB
  <2>2. tlb[n] = Walks[cur][n][Levels] /\ n \notin ReadOnly
    BY <2>1 DEF ForestInv, Fresh
  <2>3. KernelWrite(n, x) => n \in Buffers
    BY DEF KernelWrite
  <2>4. Write(n, x) => Entry(Walks, tables, cur, n, Levels).writable
    BY <1>1, <1>3 DEF Write, HardwareWritable
  <2> QED BY <1>1, <2>1, <2>2, <2>3, <2>4
<1>7. CASE KernelWrite(n, x)
  <2>1. n \in Buffers /\ KernelWritable(cur, n) /\ data' = [data EXCEPT ![Page(cur, n)] = x]
    BY <1>7 DEF KernelWrite
  <2>2. Walks[cur][n][Levels] # 0 /\ n \notin ReadOnly
    BY <1>1, <1>2, <1>3, <1>4, <2>1 DEF KernelWritable
  <2>3. Write(n, x) => Entry(Walks, tables, cur, n, Levels).writable
    BY <1>1, <1>3 DEF Write, HardwareWritable
  <2>4. WriteThroughTLB(n, x) => tlb[n] # 0
    BY DEF WriteThroughTLB
  <2> QED BY <1>1, <1>2, <2>1, <2>2, <2>3, <2>4
<1> QED BY <1>5, <1>6, <1>7

LEMMA WriteStep ==
  ASSUME ForestInv, TypeInv', NEW n \in Addrs, NEW x,
         Write(n, x) \/ WriteThroughTLB(n, x) \/ KernelWrite(n, x)
  PROVE  Walks' = Walks /\ ForestInv'
<1>1. UNCHANGED <<tables, taken, refCount, root, lost, cur, loading>>
  BY DEF Write, WriteThroughTLB, KernelWrite
<1>2. /\ cur \in Procs /\ n \notin ReadOnly /\ Walks[cur][n][Levels] # 0
      /\ data' = [data EXCEPT ![Walks[cur][n][Levels]] = x]
  BY WriteTarget
<1>3. Kept(Walks, data')
  <2>1. Walks \in Forests /\ OnePlace(Walks) /\ data \in [Frames -> Values] /\ Kept(Walks, data)
    BY DEF ForestInv, Good, IsWalks, TypeInv, TypeOK
  <2> QED BY <1>2, <2>1, KeptByWrite
<1>4. Fresh(Walks, cur', tlb')
  <2>1. tlb' = tlb \/ tlb' = [tlb EXCEPT ![n] = Page(cur, n)]
    BY DEF Write, WriteThroughTLB, KernelWrite
  <2>2. Page(cur, n) = Walks[cur][n][Levels]
    <3>1. n \in Pages /\ TypeOK
      BY DEF Pages, ForestInv, TypeInv
    <3> QED BY <1>2, <3>1, StateFacts
  <2>3. Fresh(Walks, cur, tlb) /\ tlb \in [Addrs -> Frames \cup {0}]
    BY DEF ForestInv, TypeInv, TypeOK
  <2> QED BY <1>1, <1>2, <2>1, <2>2, <2>3 DEF Fresh
<1> QED BY <1>1, <1>3, <1>4, QuietStep

LEMMA SwitchStep ==
  ASSUME ForestInv, TypeInv', Switch
  PROVE  Walks' = Walks /\ ForestInv'
<1>1. Fresh(Walks, cur', tlb')
  BY DEF Switch, Fresh
<1>2. /\ UNCHANGED <<tables, taken, refCount, root, lost>> /\ ~loading'
      /\ Kept(Walks, data')
  BY DEF Switch, frameVars, ForestInv
<1> QED BY <1>1, <1>2, QuietStep

(* deallocateUserMemory, in exit (r0 = 0) and in exec.                     *)
LEMMA DropStep ==
  ASSUME ForestInv, TypeInv', cur # Nobody, Deallocate, NEW r0 \in {0, root[cur]},
         root' = [root EXCEPT ![cur] = r0],
         lost' = IF r0 = 0 THEN lost \cup {root[cur]} ELSE lost,
         loading' => cur' = cur
  PROVE  IsDropped(Walks', Walks, cur, r0) /\ ForestInv'
<1>1. /\ TypeOK /\ cur \in Procs /\ root[cur] # 0 /\ root[cur] \in Frames
      /\ root \in [Procs -> Frames \cup {0}] /\ 0 \in Pages /\ 0 \in 0 .. Levels
  BY PagingAssumption DEF ForestInv, TypeInv, TypeOK, Pages
<1>2. PICK w : w = Walks
  OBVIOUS
<1>3. IsWalks(w, tables, root) /\ OnePlace(w) /\ Marks(w, tables)
      /\ Counts(w, taken, refCount, lost) /\ Kept(w, data) /\ w \in Forests
  BY <1>2 DEF ForestInv, Good, IsWalks
<1>4. w[cur][0][0] = root[cur]
  BY <1>1, <1>2, StateFacts
<1> DEFINE v == [p \in Procs |-> [m \in Pages |-> [i \in 0 .. Levels |->
                   IF p # cur THEN w[p][m][i] ELSE IF i = 0 THEN r0 ELSE 0]]]
<1>5. IsDropped(v, w, cur, r0)
  <2>1. \A p \in Procs, m \in Pages, i \in 0 .. Levels : w[p][m][i] \in Frames \cup {0}
    BY <1>3, ForestType
  <2>2. r0 \in Frames \cup {0}
    BY <1>1
  <2>3. v \in Forests
    BY <2>1, <2>2 DEF Forests
  <2>4. \A p \in Procs, m \in Pages, i \in 0 .. Levels :
          v[p][m][i] = IF p # cur THEN w[p][m][i] ELSE IF i = 0 THEN r0 ELSE 0
    OBVIOUS
  <2> HIDE DEF v
  <2> QED BY <1>1, <1>4, <2>3, <2>4 DEF IsDropped
<1> HIDE DEF v
<1>6. Dropped(w, tables, tables', cur)
  <2>1. tables' = [tables EXCEPT ![root[cur]] = [s \in Slots |-> Absent]]
    BY DEF Deallocate
  <2> QED BY <1>1, <1>4, <2>1 DEF Dropped, TypeOK
<1>7. IsWalks(v, tables', root')
  <2>1. PICK tb2, rt2 : tb2 = tables' /\ rt2 = root'
    OBVIOUS
  <2>2. \A p \in Procs : rt2[p] = IF p = cur THEN r0 ELSE root[p]
    BY <1>1, <2>1
  <2>3. Dropped(w, tables, tb2, cur)
    BY <1>6, <2>1
  <2>4. IsWalks(v, tb2, rt2)
    BY <1>3, <1>5, <2>2, <2>3, DroppedWalks
  <2> QED BY <2>1, <2>4
<1>8. OnePlace(v) /\ Marks(v, tables')
  BY <1>3, <1>5, <1>6, DroppedOnePlace, DroppedMarks
<1>9. Counts(v, taken', refCount', lost')
  <2>1. /\ Below(root[cur]) \subseteq Frames
        /\ \A f \in Frames : f \in Below(root[cur]) <=>
             \E n \in Pages, i \in 1 .. Levels : f = w[cur][n][i]
    BY <1>1, <1>2, BelowIs
  <2>2. /\ refCount' = FreePages(Below(root[cur]), refCount)
        /\ taken' = taken \ FreedBy(Below(root[cur]))
    BY DEF Deallocate
  <2>3. lost \subseteq Frames /\ lost' \subseteq Frames /\ taken' \subseteq Frames
    BY DEF ForestInv, TypeInv, TypeOK
  <2>4. \A f \in Frames : f \in lost' <=> f \in lost \/ (r0 = 0 /\ f = w[cur][0][0])
    BY <1>4
  <2>5. \A f \in Frames : f \in taken' <=>
          f \in taken /\ ~(refCount[f] = 1 /\ \E n \in Pages, i \in 1 .. Levels : f = w[cur][n][i])
    BY <2>1, <2>2 DEF FreedBy
  <2>6. \A f \in Frames : refCount'[f] =
          IF \E n \in Pages, i \in 1 .. Levels : f = w[cur][n][i]
          THEN refCount[f] - 1 ELSE refCount[f]
    BY <2>1, <2>2 DEF FreePages
  <2> QED BY <1>3, <1>5, <2>3, <2>4, <2>5, <2>6, DroppedCounts
<1>10. Own(v, tables', cur', loading')
  <2>1. \A n \in Pages, i \in 1 .. Levels : v[cur][n][i] = 0
    BY <1>1, <1>5 DEF IsDropped
  <2> QED BY <2>1 DEF Own
<1>11. Fresh(v, cur', tlb')
  BY DEF Deallocate, Fresh
<1>12. Kept(v, data')
  <2>1. \A p \in Procs, n \in Pages : v[p][n][Levels] # 0 => v[p][n][Levels] = w[p][n][Levels]
    <3>1. Levels \in 0 .. Levels
      BY PagingAssumption
    <3> QED BY <1>3, <1>5, <3>1, DroppedOnePlace
  <2>2. data' = data /\ ReadOnly \subseteq Pages
    BY PagingAssumption DEF Deallocate, Pages
  <2> QED BY <1>3, <2>1, <2>2 DEF Kept
<1>13. Walks' = v /\ ForestInv'
  BY <1>7, <1>8, <1>9, <1>10, <1>11, <1>12, NextForest DEF Good
<1> QED BY <1>2, <1>5, <1>13

LEMMA ExitStep ==
  ASSUME ForestInv, TypeInv', cur # Nobody, Exit
  PROVE  IsDropped(Walks', Walks, cur, 0) /\ ForestInv' /\ data' = data
<1>1. /\ Deallocate /\ root' = [root EXCEPT ![cur] = 0]
      /\ lost' = lost \cup {root[cur]} /\ loading' = FALSE
  BY DEF Exit, Gone
<1> QED BY <1>1, DropStep DEF Deallocate

LEMMA ExecuteStep ==
  ASSUME ForestInv, TypeInv', Execute
  PROVE  IsDropped(Walks', Walks, cur, root[cur]) /\ ForestInv' /\ data' = data /\ cur' = cur
<1>1. cur # Nobody /\ Deallocate /\ root' = root /\ lost' = lost /\ cur' = cur
  BY DEF Execute, InUser
<1>2. cur \in Procs /\ root[cur] # 0 /\ root \in [Procs -> Frames \cup {0}]
  BY <1>1 DEF ForestInv, TypeInv, TypeOK
<1>3. root' = [root EXCEPT ![cur] = root[cur]]
  BY <1>1, <1>2
<1> QED BY <1>1, <1>2, <1>3, DropStep DEF Deallocate

(* clonePageTable: the forest with the copy, which a fork gives to the     *)
(* child, and a fork that fails later leaves behind.                       *)
ClonedRoot(c, f0) == [root EXCEPT ![c] = f0]
ClonedRefs(f0) == [f \in Frames |-> IF f = f0 THEN 1
                                    ELSE IF f \in Below(root[cur]) THEN refCount[f] + 1
                                    ELSE refCount[f]]
IsClone(v, c, f0) ==
  /\ IsForked(v, Walks, cur, c, f0)
  /\ Good(v, Cloned(f0), ClonedRoot(c, f0), taken \cup {f0}, ClonedRefs(f0), lost)
  /\ Kept(v, data)
  /\ \A n \in Addrs : v[cur][n][Levels] = Walks[cur][n][Levels]

LEMMA ClonedForest ==
  ASSUME ForestInv, InUser, NEW c \in Procs, root[c] = 0, NEW f0 \in Frames, f0 \notin taken
  PROVE  \E v : IsClone(v, c, f0)
<1> DEFINE tree == Below(root[cur])
<1>1. PICK tb2, rt2, refs2 :
        tb2 = Cloned(f0) /\ rt2 = ClonedRoot(c, f0) /\ refs2 = ClonedRefs(f0)
  OBVIOUS
<1>4. /\ TypeOK /\ cur \in Procs /\ root[cur] # 0 /\ root[cur] \in Frames /\ ~loading
      /\ root \in [Procs -> Frames \cup {0}] /\ 0 \in Pages /\ 0 \in 0 .. Levels
      /\ tables \in Trees
  BY PagingAssumption DEF ForestInv, TypeInv, TypeOK, Pages, InUser, Trees
<1>5. PICK w : w = Walks
  OBVIOUS
<1>6. IsWalks(w, tables, root) /\ OnePlace(w) /\ Marks(w, tables)
      /\ Counts(w, taken, refCount, lost) /\ Kept(w, data) /\ w \in Forests
  BY <1>5 DEF ForestInv, Good, IsWalks
<1>7. /\ w[cur][0][0] = root[cur] /\ w[c][0][0] = 0
      /\ \A m \in Pages : w[cur][m][0] = root[cur]
  BY <1>4, <1>5, StateFacts
<1>8. ~InUse(w, f0)
  BY <1>6 DEF Counts
<1> DEFINE v == [p \in Procs |-> [m \in Pages |-> [i \in 0 .. Levels |->
                   IF p # c THEN w[p][m][i] ELSE IF i = 0 THEN f0 ELSE w[cur][m][i]]]]
<1>9. IsForked(v, w, cur, c, f0)
  <2>1. \A p \in Procs, m \in Pages, i \in 0 .. Levels : w[p][m][i] \in Frames \cup {0}
    BY <1>6, ForestType
  <2>2. v \in Forests
    BY <1>4, <2>1 DEF Forests
  <2>3. \A p \in Procs, m \in Pages, i \in 0 .. Levels :
          v[p][m][i] = IF p # c THEN w[p][m][i] ELSE IF i = 0 THEN f0 ELSE w[cur][m][i]
    OBVIOUS
  <2> HIDE DEF v
  <2> QED BY <1>4, <1>7, <1>8, <2>2, <2>3 DEF IsForked
<1> HIDE DEF v
<1>10. /\ tree \subseteq Frames
       /\ \A f \in Frames : f \in tree <=> \E n \in Pages, i \in 1 .. Levels : f = w[cur][n][i]
  BY <1>4, <1>5, BelowIs
<1>11. Forked(w, tables, tb2, cur, f0)
  <2>1. \A f \in Frames : f \in {root[cur]} \cup tree <=> InTree(w, cur, f)
    <3>1. ASSUME NEW f \in Frames, InTree(w, cur, f) PROVE f = root[cur] \/ f \in tree
      <4>1. PICK m \in Pages, k \in 0 .. Levels : f = w[cur][m][k]
        BY <3>1 DEF InTree
      <4>2. CASE k = 0
        BY <1>7, <4>1, <4>2
      <4>3. CASE k # 0
        <5>1. k \in 1 .. Levels
          BY <4>3
        <5> QED BY <1>10, <4>1, <5>1
      <4> QED BY <4>2, <4>3
    <3>2. InTree(w, cur, root[cur])
      BY <1>4, <1>7 DEF InTree
    <3>3. ASSUME NEW f \in Frames, f \in tree PROVE InTree(w, cur, f)
      <4>1. PICK m \in Pages, k \in 1 .. Levels : f = w[cur][m][k]
        BY <1>10, <3>3
      <4>2. k \in 0 .. Levels
        OBVIOUS
      <4> QED BY <4>1, <4>2 DEF InTree
    <3> QED BY <3>1, <3>2, <3>3
  <2>2. ASSUME NEW f \in Frames, NEW s \in Slots
        PROVE  tb2[f][s] = IF f = f0 THEN Marked(tables[root[cur]][s])
                 ELSE IF f \in {root[cur]} \cup tree THEN Marked(tables[f][s]) ELSE tables[f][s]
    BY <1>1 DEF Cloned
  <2> HIDE DEF tree
  <2> QED BY <1>7, <2>1, <2>2 DEF Forked
<1> HIDE DEF tree
<1>12. IsWalks(v, tb2, rt2)
  <2>1. \A p \in Procs : rt2[p] = IF p = c THEN f0 ELSE root[p]
    BY <1>1, <1>4 DEF ClonedRoot
  <2> QED BY <1>4, <1>6, <1>9, <1>11, <2>1, ForkedWalks
<1>13. OnePlace(v)
  BY <1>6, <1>9, ForkedOnePlace
<1>14. Marks(v, tb2)
  BY <1>4, <1>6, <1>9, <1>11, ForkedMarks
<1>15. Counts(v, taken \cup {f0}, refs2, lost)
  <2>1. \A f \in Frames : refs2[f] =
          IF f = f0 THEN 1
          ELSE IF \E n \in Pages, i \in 1 .. Levels : f = w[cur][n][i] THEN refCount[f] + 1
          ELSE refCount[f]
    BY <1>1, <1>10 DEF tree, ClonedRefs
  <2>2. lost \subseteq Frames
    BY <1>4 DEF TypeOK
  <2> QED BY <1>6, <1>9, <2>1, <2>2, ForkedCounts
<1>17. c # cur
  BY <1>4
<1>18. \A p \in Procs, m \in Pages :
         v[p][m][Levels] = w[IF p = c THEN cur ELSE p][m][Levels]
  <2>1. Levels \in 0 .. Levels /\ Levels # 0
    BY PagingAssumption
  <2> QED BY <1>9, <2>1 DEF IsForked
<1>19. \A n \in Addrs : v[cur][n][Levels] = w[cur][n][Levels]
  BY <1>4, <1>17, <1>18 DEF Pages
<1>20. Kept(v, data)
  <2>1. ReadOnly \subseteq Pages
    BY PagingAssumption DEF Pages
  <2> QED BY <1>4, <1>6, <1>18, <2>1 DEF Kept
<1>21. Good(v, Cloned(f0), ClonedRoot(c, f0), taken \cup {f0}, ClonedRefs(f0), lost)
  BY <1>1, <1>12, <1>13, <1>14, <1>15 DEF Good
<1> QED BY <1>5, <1>9, <1>19, <1>20, <1>21 DEF IsClone

LEMMA ForkStep ==
  ASSUME ForestInv, TypeInv', NEW c \in Procs, Fork(c)
  PROVE  /\ \E f0 \in Frames : IsForked(Walks', Walks, cur, c, f0)
         /\ ForestInv' /\ UNCHANGED <<data, cur, leaked>>
<1>1. PICK f0 : f0 = NewFrame(1)
  OBVIOUS
<1>2. /\ InUser /\ root[c] = 0 /\ Enough(1)
      /\ tables' = Cloned(f0)
      /\ refCount' = ClonedRefs(f0)
      /\ taken' = taken \cup {f0}
      /\ root' = ClonedRoot(c, f0)
      /\ UNCHANGED <<data, cur, tlb, loading, lost, leaked>>
  BY <1>1 DEF Fork, ClonedRefs, ClonedRoot
<1>3. f0 \in Frames /\ f0 \notin taken /\ ~loading
  BY <1>1, <1>2, ClonedType DEF ForestInv
<1>4. PICK v : IsClone(v, c, f0)
  BY <1>2, <1>3, ClonedForest
<1>5. /\ IsForked(v, Walks, cur, c, f0)
      /\ \A n \in Addrs : v[cur][n][Levels] = Walks[cur][n][Levels]
  BY <1>4 DEF IsClone
<1>6. Good(v, tables', root', taken', refCount', lost') /\ Kept(v, data')
  BY <1>2, <1>4 DEF IsClone
<1>7. Own(v, tables', cur', loading')
  BY <1>2, <1>3 DEF Own
<1>8. Fresh(v, cur', tlb')
  BY <1>2, <1>5 DEF Fresh, ForestInv
<1>9. Walks' = v /\ ForestInv'
  BY <1>6, <1>7, <1>8, NextForest
<1> QED BY <1>2, <1>3, <1>5, <1>9

(* What cleanup gives back in the caller is what the copy has counted, so  *)
(* nothing is freed, and the counts are right again with the copy there.   *)
LEMMA ForkCopyFailsStep ==
  ASSUME ForestInv, TypeInv', NEW c \in Procs, ForkCopyFails(c)
  PROVE  /\ \A p \in Procs, m \in Pages : p # c =>
              Walks'[p][m][Levels] = IF p = cur THEN 0 ELSE Walks[p][m][Levels]
         /\ ForestInv' /\ data' = data /\ leaked' = leaked \cup {c}
         /\ cur \in Procs /\ root[c] = 0 /\ c # cur
<1>1. PICK f0 : f0 = NewFrame(1)
  OBVIOUS
<1>2. /\ InUser /\ root[c] = 0 /\ Enough(1)
      /\ tables' = [Cloned(f0) EXCEPT ![root[cur]] = [s \in Slots |-> Absent]]
      /\ refCount' = [refCount EXCEPT ![f0] = 1]
      /\ taken' = taken \cup {f0}
      /\ root' = [root EXCEPT ![c] = f0, ![cur] = 0]
      /\ lost' = lost \cup {root[cur]}
      /\ leaked' = leaked \cup {c}
      /\ tlb' = [n \in Addrs |-> 0]
      /\ UNCHANGED <<data, loading>>
  BY <1>1 DEF ForkCopyFails
<1>3. /\ f0 \in Frames /\ f0 \notin taken /\ ~loading /\ cur \in Procs /\ root[cur] \in Frames
      /\ Cloned(f0) \in Trees
  BY <1>1, <1>2, ClonedType DEF ForestInv
<1>4. /\ root \in [Procs -> Frames \cup {0}] /\ root[cur] # 0 /\ c # cur /\ TypeOK
      /\ refCount \in [Frames -> Int] /\ lost \subseteq Frames /\ taken \subseteq Frames
      /\ 0 \in Pages /\ 0 \in 0 .. Levels
  <2>1. /\ TypeOK /\ root \in [Procs -> Frames \cup {0}]
        /\ refCount \in [Frames -> Int] /\ lost \subseteq Frames /\ taken \subseteq Frames
    BY DEF ForestInv, TypeInv, TypeOK
  <2>2. root[cur] # 0 /\ c # cur
    BY <1>2, <1>3 DEF Frames
  <2>3. 0 \in Pages /\ 0 \in 0 .. Levels
    BY PagingAssumption DEF Pages
  <2> QED BY <2>1, <2>2, <2>3
<1> DEFINE In(f) == \E n \in Pages, i \in 1 .. Levels : f = Walks[cur][n][i]
<1>5. \A f \in Frames : f \in Below(root[cur]) <=> In(f)
  BY <1>3, <1>4, BelowIs
<1>6. PICK w1 : IsClone(w1, c, f0)
  BY <1>2, <1>3, ClonedForest
<1>7. PICK tb1, rt1, refs1 :
        tb1 = Cloned(f0) /\ rt1 = ClonedRoot(c, f0) /\ refs1 = ClonedRefs(f0)
  OBVIOUS
<1>8. \A f \in Frames : refs1[f] = IF f = f0 THEN 1
                                   ELSE IF f \in Below(root[cur]) THEN refCount[f] + 1
                                   ELSE refCount[f]
  BY <1>7 DEF ClonedRefs
<1>9. PICK v : /\ IsForked(v, Walks, cur, c, f0)
               /\ Good(v, tb1, rt1, taken \cup {f0}, refs1, lost)
               /\ Kept(v, data)
               /\ \A n \in Addrs : v[cur][n][Levels] = Walks[cur][n][Levels]
  BY <1>6, <1>7 DEF IsClone
<1>10. /\ IsWalks(v, tb1, rt1) /\ OnePlace(v) /\ Marks(v, tb1)
       /\ Counts(v, taken \cup {f0}, refs1, lost) /\ v \in Forests
  BY <1>9 DEF Good, IsWalks
<1>11. /\ \A p \in Procs, m \in Pages, i \in 0 .. Levels : p # c => v[p][m][i] = Walks[p][m][i]
       /\ v[cur][0][0] = root[cur]
  <2>1. \A p \in Procs, m \in Pages, i \in 0 .. Levels : p # c => v[p][m][i] = Walks[p][m][i]
    BY <1>9 DEF IsForked
  <2>2. Walks[cur][0][0] = root[cur]
    BY <1>3, <1>4, StateFacts
  <2> QED BY <1>3, <1>4, <2>1, <2>2
<1> DEFINE u == [p \in Procs |-> [m \in Pages |-> [i \in 0 .. Levels |->
                   IF p # cur THEN v[p][m][i] ELSE 0]]]
<1>12. IsDropped(u, v, cur, 0)
  <2>1. \A p \in Procs, m \in Pages, i \in 0 .. Levels : v[p][m][i] \in Frames \cup {0}
    BY <1>10, ForestType
  <2>2. u \in Forests
    BY <2>1 DEF Forests
  <2>3. \A p \in Procs, m \in Pages, i \in 0 .. Levels :
          u[p][m][i] = IF p # cur THEN v[p][m][i] ELSE IF i = 0 THEN 0 ELSE 0
    OBVIOUS
  <2> HIDE DEF u
  <2> QED BY <1>3, <1>4, <1>11, <2>2, <2>3 DEF IsDropped
<1> HIDE DEF u, In
<1>13. Dropped(v, tb1, tables', cur)
  <2>1. tables' = [tb1 EXCEPT ![root[cur]] = [s \in Slots |-> Absent]]
    BY <1>2, <1>7
  <2> QED BY <1>3, <1>7, <1>11, <2>1 DEF Dropped, Trees
<1>14. IsWalks(u, tables', root')
  <2>1. PICK tb2, rt2 : tb2 = tables' /\ rt2 = root'
    OBVIOUS
  <2>2. \A p \in Procs : rt2[p] = IF p = cur THEN 0 ELSE rt1[p]
    BY <1>2, <1>4, <1>7, <2>1 DEF ClonedRoot
  <2>3. Dropped(v, tb1, tb2, cur)
    BY <1>13, <2>1
  <2>4. IsWalks(u, tb2, rt2)
    BY <1>10, <1>12, <2>2, <2>3, DroppedWalks
  <2> QED BY <2>1, <2>4
<1>15. OnePlace(u) /\ Marks(u, tables')
  BY <1>10, <1>12, <1>13, DroppedOnePlace, DroppedMarks
<1>16. \A f \in Frames : (\E n \in Pages, i \in 1 .. Levels : f = v[cur][n][i]) <=> In(f)
  <2>1. \A i \in 1 .. Levels : i \in 0 .. Levels
    OBVIOUS
  <2> QED BY <1>3, <1>4, <1>11, <2>1 DEF In
<1>17. ASSUME NEW f \in Frames, In(f) PROVE f # f0 /\ refCount[f] # 0
  <2>1. PICK n \in Pages, i \in 1 .. Levels : f = Walks[cur][n][i]
    BY <1>17 DEF In
  <2>2. i \in 0 .. Levels /\ f # 0
    BY DEF Frames
  <2>3. PICK w : w = Walks
    OBVIOUS
  <2>4. Counts(w, taken, refCount, lost)
    BY <2>3 DEF ForestInv, Good
  <2>5. InUse(w, f)
    BY <1>3, <2>1, <2>2, <2>3 DEF InUse
  <2>6. f # f0
    BY <1>3, <2>4, <2>5 DEF Counts
  <2>7. refCount[f] = Cardinality(HoldersAt(w, n, i, f))
    BY <1>3, <2>1, <2>2, <2>3, <2>4 DEF Counts
  <2>8. /\ IsFiniteSet(HoldersAt(w, n, i, f)) /\ cur \in HoldersAt(w, n, i, f)
    BY <1>3, <2>1, <2>3, HolderFacts
  <2>9. Cardinality(HoldersAt(w, n, i, f)) # 0
    BY <2>8, FS_EmptySet
  <2> QED BY <2>6, <2>7, <2>9
<1>18. Counts(u, taken', refCount', lost')
  <2>1. lost' \subseteq Frames /\ taken' \subseteq Frames
    BY <1>2, <1>3, <1>4
  <2>2. \A f \in Frames : f \in lost' <=> f \in lost \/ (0 = 0 /\ f = v[cur][0][0])
    BY <1>2, <1>11
  <2>3. ASSUME NEW f \in Frames
        PROVE  f \in taken' <=> f \in taken \cup {f0} /\ ~(refs1[f] = 1 /\ In(f))
    <3>1. In(f) => refs1[f] = refCount[f] + 1
      BY <1>5, <1>8, <1>17
    <3>2. refCount[f] \in Int
      BY <1>4
    <3>3. ~(refs1[f] = 1 /\ In(f))
      BY <1>17, <3>1, <3>2
    <3> QED BY <1>2, <3>3
  <2>4. ASSUME NEW f \in Frames
        PROVE  refCount'[f] = IF In(f) THEN refs1[f] - 1 ELSE refs1[f]
    <3>1. refCount[f] \in Int /\ refCount'[f] = IF f = f0 THEN 1 ELSE refCount[f]
      BY <1>2, <1>4
    <3>2. CASE In(f)
      BY <1>5, <1>8, <1>17, <3>1, <3>2
    <3>3. CASE ~In(f)
      BY <1>5, <1>8, <3>1, <3>3
    <3> QED BY <3>2, <3>3
  <2>5. \A f \in Frames : f \in taken' <=>
          f \in taken \cup {f0} /\ ~(refs1[f] = 1 /\ \E n \in Pages, i \in 1 .. Levels : f = v[cur][n][i])
    BY <1>16, <2>3
  <2>6. \A f \in Frames : refCount'[f] =
          IF \E n \in Pages, i \in 1 .. Levels : f = v[cur][n][i] THEN refs1[f] - 1 ELSE refs1[f]
    BY <1>16, <2>4
  <2> QED BY <1>4, <1>10, <1>12, <2>1, <2>2, <2>5, <2>6, DroppedCounts
<1>19. Own(u, tables', cur', loading') /\ Fresh(u, cur', tlb')
  BY <1>2, <1>3 DEF Own, Fresh
<1>20. \A p \in Procs, m \in Pages : u[p][m][Levels] = IF p = cur THEN 0 ELSE v[p][m][Levels]
  <2>1. Levels \in 0 .. Levels /\ Levels # 0
    BY PagingAssumption
  <2> QED BY <1>12, <2>1 DEF IsDropped
<1>21. Kept(u, data')
  <2>1. data' = data /\ ReadOnly \subseteq Pages
    BY <1>2, PagingAssumption DEF Pages
  <2> QED BY <1>9, <1>20, <2>1 DEF Kept
<1>22. Walks' = u /\ ForestInv'
  BY <1>14, <1>15, <1>18, <1>19, <1>21, NextForest DEF Good
<1>23. Levels \in 0 .. Levels
  BY PagingAssumption
<1> QED BY <1>2, <1>3, <1>4, <1>11, <1>20, <1>22, <1>23

(* The fault handler and mapNewPageAt: the tree of the running process is  *)
(* regrown along one path.                                                 *)
LEMMA GrownWalks ==
  ASSUME TypeInv, OnePlace(Walks), TypeInv', cur \in Procs, root' = root,
         NEW n \in Addrs, NEW a, NEW new, NEW patch,
         Regrown(Walks, tables, tables', cur, n, a, new, patch)
  PROVE  IsGrown(Walks', Walks, cur, n, a, new)
<1>1. PICK w, tb2 : w = Walks /\ tb2 = tables'
  OBVIOUS
<1>2. IsWalks(w, tables, root) /\ OnePlace(w) /\ w \in Forests
  BY <1>1, StateWalks DEF TypeInv, IsWalks
<1>3. Regrown(w, tables, tb2, cur, n, a, new, patch) /\ new \in [a .. Levels -> Frames]
      /\ a \in 1 .. Levels
  BY <1>1 DEF Regrown
<1> DEFINE v == [p \in Procs |-> [m \in Pages |-> [i \in 0 .. Levels |->
                   IF OnPath(cur, n, a, p, m, i) THEN new[i] ELSE w[p][m][i]]]]
<1>4. IsGrown(v, w, cur, n, a, new)
  <2>1. ASSUME NEW p \in Procs, NEW m \in Pages, NEW i \in 0 .. Levels
        PROVE  (IF OnPath(cur, n, a, p, m, i) THEN new[i] ELSE w[p][m][i]) \in Frames \cup {0}
    <3>1. w[p][m][i] \in Frames \cup {0}
      BY <1>2, ForestType
    <3>2. OnPath(cur, n, a, p, m, i) => i \in a .. Levels
      BY <1>3 DEF OnPath
    <3> QED BY <1>3, <3>1, <3>2
  <2>2. v \in Forests
    BY <2>1 DEF Forests
  <2>3. \A p \in Procs, m \in Pages, i \in 0 .. Levels :
          v[p][m][i] = IF OnPath(cur, n, a, p, m, i) THEN new[i] ELSE w[p][m][i]
    OBVIOUS
  <2> HIDE DEF v
  <2> QED BY <2>2, <2>3 DEF IsGrown
<1> HIDE DEF v
<1>5. IsWalks(v, tb2, root)
  BY <1>2, <1>3, <1>4, RegrownWalks
<1>6. Walks' = v
  BY <1>1, <1>5, NextWalks DEF TypeInv
<1> QED BY <1>1, <1>4, <1>6

(* Its bitmap and counts, and its new page, in which a read-only page has  *)
(* what the old one had or Elf::load wrote.                                *)
CountsGrow(w, p0, n0, a, new, tk, refs, tk2, refs2) ==
  /\ \A i \in a .. Levels : new[i] \notin tk
  /\ \A f \in Frames : f \in tk2 <=>
       \/ \E i \in a .. Levels : f = new[i]
       \/ f \in tk /\ ~(refs[f] = 1 /\ \E i \in a .. Levels : f = w[p0][n0][i])
  /\ \A f \in Frames : refs2[f] =
       IF \E i \in a .. Levels : f = new[i] THEN 1
       ELSE IF \E i \in a .. Levels : f = w[p0][n0][i] THEN refs[f] - 1 ELSE refs[f]

DataGrows(n0, f0, dt, dt2) ==
  /\ \A f \in Frames : f # f0 => dt2[f] = dt[f]
  /\ n0 \in ReadOnly => dt2[f0] = Loaded

LEMMA GrownStep ==
  ASSUME ForestInv, TypeInv', cur \in Procs, UNCHANGED <<root, cur, lost>>, loading' => loading,
         NEW n \in Addrs, NEW a, NEW new, NEW patch,
         Regrown(Walks, tables, tables', cur, n, a, new, patch),
         a > 1 => ~Entry(Walks, tables, cur, n, a - 1).cow,
         n \in ReadOnly => ~patch[Levels].writable,
         CountsGrow(Walks, cur, n, a, new, taken, refCount, taken', refCount'),
         tlb' = [tlb EXCEPT ![n] = 0],
         DataGrows(n, new[Levels], data, data')
  PROVE  /\ IsGrown(Walks', Walks, cur, n, a, new) /\ ForestInv'
         /\ Walks'[cur][n][Levels] = new[Levels]
         /\ \A p \in Procs, m \in Pages : ~(p = cur /\ m = n) =>
              /\ Walks'[p][m][Levels] = Walks[p][m][Levels]
              /\ Walks[p][m][Levels] # 0 =>
                   data'[Walks[p][m][Levels]] = data[Walks[p][m][Levels]]
<1>1. PICK w, v, tb2, tk2, refs2 :
        w = Walks /\ v = Walks' /\ tb2 = tables' /\ tk2 = taken' /\ refs2 = refCount'
  OBVIOUS
<1>2. IsWalks(w, tables, root) /\ OnePlace(w) /\ w \in Forests /\ Marks(w, tables)
      /\ Counts(w, taken, refCount, lost) /\ Kept(w, data)
      /\ Own(w, tables, cur, loading) /\ Fresh(w, cur, tlb)
  BY <1>1 DEF ForestInv, Good, IsWalks
<1>3. IsGrown(v, w, cur, n, a, new)
  BY <1>1, <1>2, GrownWalks DEF ForestInv
<1>4. Regrown(w, tables, tb2, cur, n, a, new, patch)
  BY <1>1
<1>5. /\ a \in 1 .. Levels /\ Levels \in 1 .. Levels /\ n \in Pages /\ ReadOnly \subseteq Pages
      /\ new \in [a .. Levels -> Frames]
      /\ \A i \in a .. Levels : ~InUse(w, new[i]) /\ ~patch[i].cow
  BY <1>4, PagingAssumption DEF Regrown, Pages
<1>6. IsWalks(v, tb2, root)
  BY <1>2, <1>3, <1>4, RegrownWalks
<1>7. OnePlace(v)
  BY <1>2, <1>3, <1>4, RegrownOnePlace
<1>8. Marks(v, tb2)
  <2>1. a > 1 => ~Entry(w, tables, cur, n, a - 1).cow
    BY <1>1
  <2> QED BY <1>2, <1>3, <1>4, <2>1, RegrownMarks
<1>9. Counts(v, tk2, refs2, lost)
  <2>1. lost \subseteq Frames /\ tk2 \subseteq Frames
    BY <1>1 DEF ForestInv, TypeInv, TypeOK
  <2>2. CountsGrow(w, cur, n, a, new, taken, refCount, tk2, refs2)
    BY <1>1
  <2> QED BY <1>2, <1>3, <1>4, <2>1, <2>2, RegrownCounts DEF CountsGrow
<1>10. Good(v, tables', root', taken', refCount', lost')
  BY <1>1, <1>6, <1>7, <1>8, <1>9 DEF Good
<1>11. Own(v, tables', cur', loading')
  <2>1. ASSUME loading, NEW m \in Pages, NEW i \in 1 .. Levels, v[cur][m][i] # 0
        PROVE  ~Entry(v, tb2, cur, m, i).cow
    <3>1. /\ Entry(v, tb2, cur, m, i) = IF OnPath(cur, n, a, cur, m, i) THEN patch[i]
                                        ELSE Entry(w, tables, cur, m, i)
          /\ ~OnPath(cur, n, a, cur, m, i) => w[cur][m][i] = v[cur][m][i]
      BY <1>2, <1>3, <1>4, <2>1, RegrownPresent
    <3>2. CASE OnPath(cur, n, a, cur, m, i)
      <4>1. i \in a .. Levels
        BY <1>5, <3>2 DEF OnPath
      <4> QED BY <1>5, <3>1, <3>2, <4>1
    <3>3. CASE ~OnPath(cur, n, a, cur, m, i)
      BY <1>2, <2>1, <3>1, <3>3 DEF Own
    <3> QED BY <3>2, <3>3
  <2> QED BY <1>1, <2>1 DEF Own
<1>12. v[cur][n][Levels] = new[Levels]
  <2>1. OnPath(cur, n, a, cur, n, Levels)
    BY <1>5 DEF OnPath, Same
  <2>2. Levels \in 0 .. Levels
    BY PagingAssumption
  <2> QED BY <1>3, <1>5, <2>1, <2>2 DEF IsGrown
<1>13. ASSUME NEW p \in Procs, NEW m \in Pages, ~(p = cur /\ m = n)
       PROVE  /\ v[p][m][Levels] = w[p][m][Levels]
              /\ w[p][m][Levels] # 0 => data'[w[p][m][Levels]] = data[w[p][m][Levels]]
  <2>1. ~OnPath(cur, n, a, p, m, Levels)
    BY <1>5, <1>13, NodeFacts DEF OnPath
  <2>2. Levels \in 0 .. Levels
    BY PagingAssumption
  <2>3. v[p][m][Levels] = w[p][m][Levels]
    BY <1>3, <2>1, <2>2 DEF IsGrown
  <2>4. Levels \in a .. Levels
    BY <1>5
  <2>5. w[p][m][Levels] # new[Levels]
    BY <1>5, <2>2, <2>4 DEF InUse
  <2>6. w[p][m][Levels] \in Frames \cup {0}
    BY <1>2, <2>2, ForestType
  <2> QED BY <2>3, <2>5, <2>6 DEF DataGrows
<1>14. Fresh(v, cur', tlb')
  <2>1. ASSUME NEW m \in Addrs, tlb'[m] # 0
        PROVE  tlb'[m] = v[cur][m][Levels] /\ m \notin ReadOnly
    <3>1. m # n /\ tlb'[m] = tlb[m] /\ m \in Pages
      BY <2>1 DEF ForestInv, TypeInv, TypeOK, Pages
    <3>2. v[cur][m][Levels] = w[cur][m][Levels]
      BY <1>13, <3>1
    <3> QED BY <1>2, <2>1, <3>1, <3>2 DEF Fresh
  <2> QED BY <2>1 DEF Fresh
<1>15. Kept(v, data')
  <2>1. ASSUME NEW p \in Procs, NEW m \in ReadOnly, v[p][m][Levels] # 0
        PROVE  data'[v[p][m][Levels]] = Loaded
    <3>1. CASE p = cur /\ m = n
      BY <1>12, <3>1 DEF DataGrows
    <3>2. CASE ~(p = cur /\ m = n)
      <4>1. /\ v[p][m][Levels] = w[p][m][Levels]
            /\ w[p][m][Levels] # 0 => data'[w[p][m][Levels]] = data[w[p][m][Levels]]
        BY <1>5, <1>13, <3>2
      <4> QED BY <1>2, <2>1, <4>1 DEF Kept
    <3> QED BY <3>1, <3>2
  <2> QED BY <2>1 DEF Kept
<1>16. ForestInv'
  BY <1>10, <1>11, <1>14, <1>15, NextForest
<1> QED BY <1>1, <1>3, <1>12, <1>13, <1>16

(* A node that only the running process may have: its root, and what an    *)
(* entry without copy on write leads to.                                   *)
LEMMA SoleHolder ==
  ASSUME NEW w, NEW tb, OnePlace(w), Marks(w, tb), NEW p \in Procs, NEW n \in Pages,
         NEW k \in 0 .. Levels, w[p][n][k] # 0, k > 0 => ~Entry(w, tb, p, n, k).cow,
         NEW q \in Procs, w[q][n][k] = w[p][n][k]
  PROVE  q = p
<1>1. CASE k = 0
  <2>1. w[p][n][k] # 0 /\ w[p][n][k] = w[q][n][k]
    OBVIOUS
  <2> QED BY <1>1, <2>1 DEF OnePlace
<1>2. CASE k > 0
  <2>1. k \in 1 .. Levels
    BY <1>2, PagingAssumption
  <2> QED BY <1>2, <2>1 DEF Marks
<1> QED BY <1>1, <1>2, PagingAssumption

(* pageFaultHandler.                                                       *)
LEMMA CopyOnWriteStep ==
  ASSUME ForestInv, TypeInv', NEW n \in Addrs, CopyOnWrite(n)
  PROVE  /\ ForestInv' /\ cur' = cur /\ cur \in Procs
         /\ \A p \in Procs, m \in Pages :
              /\ Walks'[p][m][Levels] = 0 <=> Walks[p][m][Levels] = 0
              /\ Walks[p][m][Levels] # 0 =>
                   data'[Walks'[p][m][Levels]] = data[Walks[p][m][Levels]]
<1> DEFINE old == Walk(root[cur], n)
<1>1. PICK from : from = CopyFrom(cur, n)
  OBVIOUS
<1> DEFINE copied == from .. Levels
           new == [i \in copied |-> NewFrame(Levels - i + 1)]
           made == {new[i] : i \in copied}
           left == {old[i] : i \in copied}
           pathCopy(i) == IF i = Levels THEN tables[old[i]]
                     ELSE [tables[old[i]] EXCEPT
                             ![Index(n, i + 1)] = Redirected(@, new[i + 1])]
           patch == [i \in copied |-> Redirected(tables[old[i - 1]][Index(n, i)], new[i])]
<1>2. /\ InUser /\ FaultHandled(cur, n) /\ Enough(Levels - from + 1)
      /\ tables' = [f \in Frames |->
           IF f \in made
             THEN pathCopy(CHOOSE i \in copied : f = new[i])
           ELSE IF f = old[from - 1]
             THEN [tables[f] EXCEPT ![Index(n, from)] = Redirected(@, new[from])]
           ELSE tables[f]]
      /\ data' = [data EXCEPT ![new[Levels]] = data[old[Levels]]]
      /\ refCount' = FreePages(left,
           [f \in Frames |-> IF f \in made THEN 1 ELSE refCount[f]])
      /\ taken' = (taken \cup made) \ FreedBy(left)
      /\ tlb' = [tlb EXCEPT ![n] = 0]
      /\ UNCHANGED <<root, cur, loading, lost>>
  BY <1>1 DEF CopyOnWrite
<1>3. from \in 1 .. Levels /\ Levels \in 1 .. Levels /\ Levels \in copied /\ from \in copied
  BY <1>1, <1>2, CopyFromFacts, PagingAssumption
<1>4. cur \in Procs /\ n \in Pages /\ Page(cur, n) # 0 /\ TypeOK /\ tables \in Trees /\ ~loading
  BY <1>2 DEF InUser, ForestInv, TypeInv, TypeOK, Pages, FaultHandled, Trees
<1>5. PICK w : w = Walks
  OBVIOUS
<1>6. IsWalks(w, tables, root) /\ OnePlace(w) /\ w \in Forests /\ Marks(w, tables)
      /\ Counts(w, taken, refCount, lost) /\ Kept(w, data)
  BY <1>5 DEF ForestInv, Good, IsWalks
<1>7. /\ old = w[cur][n] /\ w[cur][n][Levels] # 0
      /\ \A i \in 0 .. Levels : w[cur][n][i] \in Frames /\ w[cur][n][i] # 0
      /\ \A i \in 1 .. Levels : EntryAt(cur, n, i) = Entry(w, tables, cur, n, i)
      /\ \A i \in 1 .. Levels : Entry(w, tables, cur, n, i) \in Entries
  <2>1. old = w[cur][n] /\ Page(cur, n) = w[cur][n][Levels]
        /\ \A i \in 1 .. Levels : EntryAt(cur, n, i) = Entry(w, tables, cur, n, i)
    BY <1>4, <1>5, StateFacts
  <2>2. /\ \A i \in 0 .. Levels : old[i] \in Frames
        /\ \A i \in 1 .. Levels : EntryAt(cur, n, i) \in Entries
    BY <1>4, PathFacts
  <2>3. 0 \notin Frames
    BY DEF Frames
  <2> QED BY <1>4, <2>1, <2>2, <2>3
<1>8. /\ \A j \in copied : Entry(w, tables, cur, n, j).cow
      /\ from > 1 => ~Entry(w, tables, cur, n, from - 1).cow
  <2>1. /\ \A j \in copied : EntryAt(cur, n, j).cow
        /\ from > 1 => ~EntryAt(cur, n, from - 1).cow
    BY <1>1, <1>2, CopyFromFacts
  <2>2. \A j \in copied : j \in 1 .. Levels
    BY <1>3
  <2>3. from > 1 => from - 1 \in 1 .. Levels
    BY <1>3
  <2> QED BY <1>7, <2>1, <2>2, <2>3
<1>9. ASSUME NEW i \in copied PROVE new[i] \in Frames /\ new[i] \notin taken
  <2>1. PICK k \in 1 .. Cardinality(Free) : k = Levels - i + 1
    BY <1>2, <1>3, FreeFacts DEF Enough
  <2>2. new[i] = NewFrame(k)
    BY <2>1
  <2> HIDE DEF new
  <2> QED BY <2>2, NewFrameType
<1>10. ASSUME NEW i \in copied, NEW j \in copied, new[i] = new[j] PROVE i = j
  <2>1. PICK k \in 1 .. Cardinality(Free) : k = Levels - i + 1
    BY <1>2, <1>3, FreeFacts DEF Enough
  <2>2. PICK l \in 1 .. Cardinality(Free) : l = Levels - j + 1
    BY <1>2, <1>3, FreeFacts DEF Enough
  <2>3. NewFrame(k) = NewFrame(l)
    BY <1>10, <2>1, <2>2
  <2>4. k = l
    BY <2>3, NewFramesDiffer
  <2>5. i \in Int /\ j \in Int /\ Levels \in Int
    BY <1>3
  <2> QED BY <2>1, <2>2, <2>4, <2>5
<1>11. ASSUME NEW i \in copied PROVE ~InUse(w, new[i])
  BY <1>6, <1>9 DEF Counts
<1>12. new = [i \in copied |-> new[i]] /\ patch = [i \in copied |-> patch[i]]
  OBVIOUS
<1>13. ASSUME NEW i \in copied
       PROVE  patch[i] = Redirected(Entry(w, tables, cur, n, i), new[i])
  BY <1>7 DEF Entry
<1>14. \A f : f \in made <=> \E i \in copied : f = new[i]
  OBVIOUS
<1>15. \A f : f \in left <=> \E i \in copied : f = w[cur][n][i]
  BY <1>7
<1>16. ASSUME NEW i \in copied, i # Levels
       PROVE  pathCopy(i) = [tables[w[cur][n][i]] EXCEPT
                               ![Index(n, i + 1)] = Redirected(@, new[i + 1])]
  BY <1>7, <1>16
<1> HIDE DEF new, made, left, pathCopy, patch
<1>17. ASSUME NEW i \in copied
       PROVE  patch[i] \in Entries /\ patch[i].to = new[i] /\ ~patch[i].cow
  <2>1. i \in 1 .. Levels
    BY <1>3
  <2>2. Entry(w, tables, cur, n, i) \in Entries
    BY <1>7, <2>1
  <2> QED BY <1>9, <1>13, <2>2, EntryTypes
<1>18. n \in ReadOnly => ~patch[Levels].writable
  <2>1. Entry(w, tables, cur, n, Levels) \in Entries /\ Entry(w, tables, cur, n, Levels).cow
    BY <1>3, <1>7, <1>8
  <2>2. n \in ReadOnly => ~Entry(w, tables, cur, n, Levels).was
    BY <1>4, <1>6, <1>7, <2>1 DEF Marks
  <2>3. patch[Levels].writable = Entry(w, tables, cur, n, Levels).was
    BY <1>3, <1>9, <1>13, <2>1, EntryTypes
  <2> QED BY <2>2, <2>3
<1>19. ASSUME NEW k \in 0 .. Levels, NEW i \in copied PROVE w[cur][n][k] # new[i]
  BY <1>4, <1>11 DEF InUse
<1>20. PICK top \in 0 .. Levels : top = from - 1
  BY <1>3
<1>21. Regrown(w, tables, tables', cur, n, from, new, patch)
  <2>1. /\ cur \in Procs /\ n \in Pages /\ from \in 1 .. Levels
        /\ new \in [copied -> Frames] /\ patch \in [copied -> Entries]
        /\ \A i, j \in copied : new[i] = new[j] => i = j
        /\ \A i \in copied : ~InUse(w, new[i]) /\ patch[i].to = new[i] /\ ~patch[i].cow
    <3>1. \A i \in copied : new[i] \in Frames
      BY <1>9
    <3>2. \A i \in copied : patch[i] \in Entries
      BY <1>17
    <3>3. new \in [copied -> Frames]
      BY <1>12, <3>1
    <3>4. patch \in [copied -> Entries]
      BY <1>12, <3>2
    <3> QED BY <1>3, <1>4, <1>10, <1>11, <1>17, <3>3, <3>4
  <2>2. w[cur][n][from - 1] # 0
    BY <1>7, <1>20
  <2>3. ASSUME NEW q \in Procs, w[q][n][from - 1] = w[cur][n][from - 1] PROVE q = cur
    <3>1. top > 0 => ~Entry(w, tables, cur, n, top).cow
      BY <1>3, <1>8, <1>20
    <3>2. w[cur][n][top] # 0 /\ w[q][n][top] = w[cur][n][top]
      BY <1>7, <1>20, <2>3
    <3> QED BY <1>4, <1>6, <3>1, <3>2, SoleHolder
  <2>4. ASSUME NEW s \in Slots
        PROVE  tables'[w[cur][n][from - 1]][s] =
                 IF s = Index(n, from) THEN patch[from] ELSE tables[w[cur][n][from - 1]][s]
    <3>1. PICK f \in Frames : f = w[cur][n][from - 1]
      BY <1>7, <1>20
    <3>2. f \notin made /\ f = old[from - 1]
      BY <1>7, <1>14, <1>19, <1>20, <3>1
    <3>3. tables'[f] = [tables[f] EXCEPT ![Index(n, from)] = Redirected(@, new[from])]
      BY <1>2, <3>2
    <3>4. tables[f] \in [Slots -> Entries]
      BY <1>4 DEF Trees
    <3>5. patch[from] = Redirected(tables[f][Index(n, from)], new[from])
      BY <1>3, <1>13, <3>1 DEF Entry
    <3> QED BY <3>1, <3>3, <3>4, <3>5
  <2>5. ASSUME NEW i \in from + 1 .. Levels, NEW s \in Slots
        PROVE  tables'[new[i - 1]][s] =
                 IF s = Index(n, i) THEN patch[i]
                 ELSE IF w[cur][n][i - 1] = 0 THEN Absent ELSE tables[w[cur][n][i - 1]][s]
    <3>1. PICK k \in copied : k = i - 1 /\ k # Levels /\ i = k + 1 /\ i \in copied
      BY <1>3
    <3>2. k \in 0 .. Levels
      BY <1>3
    <3>3. PICK f \in Frames : f = new[k]
      BY <1>9
    <3>4. (CHOOSE j \in copied : f = new[j]) = k
      <4>1. \A j \in copied : f = new[j] <=> j = k
        BY <1>10, <3>3
      <4> QED BY <4>1
    <3>5. tables'[f] = pathCopy(k)
      BY <1>2, <1>14, <3>3, <3>4
    <3>6. PICK g \in Frames : g = w[cur][n][k] /\ g # 0
      BY <1>7, <3>2
    <3>7. pathCopy(k) = [tables[g] EXCEPT ![Index(n, i)] = Redirected(@, new[i])]
      BY <1>16, <3>1, <3>6
    <3>8. tables[g] \in [Slots -> Entries]
      BY <1>4 DEF Trees
    <3>9. patch[i] = Redirected(tables[g][Index(n, i)], new[i])
      BY <1>13, <3>1, <3>6 DEF Entry
    <3> QED BY <3>1, <3>3, <3>5, <3>6, <3>7, <3>8, <3>9
  <2>6. ASSUME NEW f \in Frames, f # w[cur][n][from - 1], \A i \in copied : f # new[i]
        PROVE  tables'[f] = tables[f]
    BY <1>2, <1>7, <1>14, <2>6
  <2> QED BY <2>1, <2>2, <2>3, <2>4, <2>5, <2>6 DEF Regrown
<1>22. \A f \in Frames : f \in taken' <=>
         \/ \E i \in copied : f = new[i]
         \/ f \in taken /\ ~(refCount[f] = 1 /\ \E i \in copied : f = w[cur][n][i])
  <2>1. \A f \in made : f \notin left
    <3>1. \A i \in copied : i \in 0 .. Levels
      BY <1>3
    <3> QED BY <1>14, <1>15, <1>19, <3>1
  <2>2. taken' = (taken \cup made) \ FreedBy(left)
    BY <1>2
  <2> QED BY <1>14, <1>15, <2>1, <2>2 DEF FreedBy
<1>23. \A f \in Frames : refCount'[f] =
         IF \E i \in copied : f = new[i] THEN 1
         ELSE IF \E i \in copied : f = w[cur][n][i] THEN refCount[f] - 1
         ELSE refCount[f]
  <2>1. \A f \in made : f \notin left
    <3>1. \A i \in copied : i \in 0 .. Levels
      BY <1>3
    <3> QED BY <1>14, <1>15, <1>19, <3>1
  <2>2. refCount' = FreePages(left, [f \in Frames |-> IF f \in made THEN 1 ELSE refCount[f]])
    BY <1>2
  <2> QED BY <1>14, <1>15, <2>1, <2>2 DEF FreePages
<1>24. PICK page \in Frames : page = w[cur][n][Levels] /\ page # 0
  <2>1. Levels \in 0 .. Levels
    BY <1>3
  <2> QED BY <1>7, <2>1
<1>25. /\ \A f \in Frames : f # new[Levels] => data'[f] = data[f]
       /\ data'[new[Levels]] = data[page]
  <2>1. new[Levels] \in Frames /\ data \in [Frames -> Values]
    BY <1>3, <1>4, <1>9 DEF TypeOK
  <2>2. data' = [data EXCEPT ![new[Levels]] = data[page]]
    BY <1>2, <1>7, <1>24
  <2> QED BY <2>1, <2>2
<1>26. n \in ReadOnly => data'[new[Levels]] = Loaded
  BY <1>4, <1>6, <1>24, <1>25 DEF Kept
<1>27. /\ ForestInv'
       /\ Walks'[cur][n][Levels] = new[Levels]
       /\ \A p \in Procs, m \in Pages : ~(p = cur /\ m = n) =>
            /\ Walks'[p][m][Levels] = w[p][m][Levels]
            /\ w[p][m][Levels] # 0 => data'[w[p][m][Levels]] = data[w[p][m][Levels]]
  <2>1. /\ Regrown(Walks, tables, tables', cur, n, from, new, patch)
        /\ from > 1 => ~Entry(Walks, tables, cur, n, from - 1).cow
    BY <1>5, <1>8, <1>21
  <2>2. CountsGrow(w, cur, n, from, new, taken, refCount, taken', refCount')
    BY <1>9, <1>22, <1>23 DEF CountsGrow
  <2>3. CountsGrow(Walks, cur, n, from, new, taken, refCount, taken', refCount')
    BY <1>5, <2>2
  <2>4. UNCHANGED <<root, cur, lost>> /\ (loading' => loading) /\ tlb' = [tlb EXCEPT ![n] = 0]
    BY <1>2
  <2>5. DataGrows(n, new[Levels], data, data')
    BY <1>25, <1>26 DEF DataGrows
  <2> HIDE DEF copied
  <2> QED BY <1>4, <1>5, <1>18, <2>1, <2>3, <2>4, <2>5, GrownStep
<1>28. ASSUME NEW p \in Procs, NEW m \in Pages
       PROVE  /\ Walks'[p][m][Levels] = 0 <=> w[p][m][Levels] = 0
              /\ w[p][m][Levels] # 0 => data'[Walks'[p][m][Levels]] = data[w[p][m][Levels]]
  <2>1. CASE p = cur /\ m = n
    <3>1. new[Levels] # 0
      BY <1>3, <1>9 DEF Frames
    <3> QED BY <1>24, <1>25, <1>27, <2>1, <3>1
  <2>2. CASE ~(p = cur /\ m = n)
    BY <1>27, <2>2
  <2> QED BY <2>1, <2>2
<1> QED BY <1>2, <1>4, <1>5, <1>27, <1>28

(* mapNewPageAt at an address without a page, in a process that has marked *)
(* nothing, or has nobody to share frames with.                            *)
LEMMA MapGrows ==
  ASSUME TypeInv, OnePlace(Walks), \A f \in Frames : InUse(Walks, f) => f \in taken,
         Marks(Walks, tables) \/ Procs = {cur},
         cur \in Procs, Own(Walks, tables, cur, TRUE),
         NEW n \in Addrs, NEW x \in BOOLEAN, MapPage(n, x), Page(cur, n) = 0
  PROVE  \E a, new, patch :
           /\ Regrown(Walks, tables, tables', cur, n, a, new, patch)
           /\ a > 1 => ~Entry(Walks, tables, cur, n, a - 1).cow
           /\ patch[Levels].writable = x
           /\ CountsGrow(Walks, cur, n, a, new, taken, refCount, taken', refCount')
           /\ taken \subseteq taken' /\ tlb' = [tlb EXCEPT ![n] = 0]
<1>1. PICK a, old : a = FirstMissing(n) /\ old = Walk(root[cur], n)
  OBVIOUS
<1> DEFINE levels == a .. Levels
           at == [i \in 0 .. Levels |-> IF i < a THEN old[i] ELSE NewFrame(i - a + 1)]
           made == {at[i] : i \in levels}
           link(i) == Link(at[i], IF i = Levels THEN x ELSE TRUE)
           linked == Min({a, Levels})
           new == [i \in levels |-> NewFrame(i - a + 1)]
           patch == [i \in levels |-> link(i)]
<1>2. /\ Enough(Missing(n))
      /\ tables' = [f \in Frames |->
           IF f = at[linked - 1]
             THEN [tables[f] EXCEPT ![Index(n, linked)] = link(linked)]
           ELSE IF f \in made \ {at[Levels]}
             THEN LET i == CHOOSE i \in levels : f = at[i]
                  IN  [s \in Slots |-> IF s = Index(n, i + 1) THEN link(i + 1) ELSE Absent]
           ELSE tables[f]]
      /\ taken' = taken \cup made
      /\ refCount' = [f \in Frames |-> IF f \in made THEN 1 ELSE refCount[f]]
      /\ tlb' = [tlb EXCEPT ![n] = 0]
  BY <1>1 DEF MapPage
<1>3. PICK w : w = Walks
  OBVIOUS
<1>4. /\ IsWalks(w, tables, root) /\ OnePlace(w) /\ w \in Forests
      /\ Own(w, tables, cur, TRUE)
      /\ TypeOK /\ tables \in Trees /\ n \in Pages /\ root[cur] # 0 /\ cur # Nobody
  <2>1. IsWalks(w, tables, root) /\ OnePlace(w) /\ w \in Forests /\ TypeOK
    BY <1>3, StateWalks DEF IsWalks, TypeInv
  <2>2. Own(w, tables, cur, TRUE)
    BY <1>3
  <2>3. cur # Nobody
    BY PagingAssumption
  <2> QED BY <2>1, <2>2, <2>3 DEF TypeOK, Trees, Pages
<1>5. old = w[cur][n] /\ w[cur][n][Levels] = 0 /\ w[cur][n][0] = root[cur]
  BY <1>1, <1>3, <1>4, StateFacts
<1>6. /\ a \in 1 .. Levels /\ Levels \in Nat \ {0} /\ Levels + 1 - a = Missing(n)
      /\ \A i \in 1 .. Levels : i < a => w[cur][n][i] # 0
      /\ w[cur][n][a] = 0
  <2>1. /\ a \in 1 .. Levels + 1 /\ a + Missing(n) = Levels + 1 /\ Missing(n) \in Nat
        /\ \A i \in 1 .. Levels : i < a => w[cur][n][i] # 0
        /\ a <= Levels => w[cur][n][a] = 0
    BY <1>1, <1>5, FirstMissingFacts
  <2>2. Levels \in 1 .. Levels /\ Levels \in Nat \ {0}
    BY PagingAssumption
  <2>3. ~(Levels < a)
    BY <1>5, <2>1, <2>2
  <2>4. a \in 1 .. Levels
    BY <2>1, <2>2, <2>3
  <2>5. a <= Levels /\ Levels + 1 - a = Missing(n)
    BY <2>1, <2>2, <2>4
  <2> QED BY <2>1, <2>2, <2>4, <2>5
<1>7. PICK top \in 0 .. Levels : top = a - 1 /\ top < a
  BY <1>6
<1>8. w[cur][n][top] # 0 /\ w[cur][n][top] \in Frames
  <2>1. w[cur][n][top] # 0
    <3>1. CASE top = 0
      BY <1>4, <1>5, <3>1
    <3>2. CASE top # 0
      BY <1>6, <1>7, <3>2
    <3> QED BY <3>1, <3>2
  <2> QED BY <1>4, <2>1, ForestType
<1>9. ASSUME NEW i \in levels PROVE w[cur][n][i] = 0
  <2>1. PICK b \in 0 .. Levels : b = a /\ i \in 0 .. Levels /\ b <= i
    BY <1>6
  <2>2. WalkIn(tables, root[cur], n)[b] = 0
    BY <1>1, <1>5, <1>6, <2>1, WalkIs
  <2>3. WalkIn(tables, root[cur], n)[i] = 0
    BY <2>1, <2>2, StaysMissing
  <2> QED BY <1>1, <1>5, <2>3, WalkIs
<1>10. ASSUME NEW i \in levels
       PROVE  at[i] = new[i] /\ new[i] \in Frames /\ new[i] \notin taken
  <2>1. PICK k \in 1 .. Cardinality(Free) : k = i - a + 1
    BY <1>2, <1>6, FreeFacts DEF Enough
  <2>2. new[i] = NewFrame(k)
    BY <2>1
  <2>3. at[i] = NewFrame(k)
    BY <1>6, <2>1
  <2> HIDE DEF new, at
  <2> QED BY <2>1, <2>2, <2>3, NewFrameType
<1>11. ASSUME NEW i \in levels, NEW j \in levels, new[i] = new[j] PROVE i = j
  <2>1. PICK k \in 1 .. Cardinality(Free) : k = i - a + 1
    BY <1>2, <1>6, FreeFacts DEF Enough
  <2>2. PICK l \in 1 .. Cardinality(Free) : l = j - a + 1
    BY <1>2, <1>6, FreeFacts DEF Enough
  <2>3. NewFrame(k) = NewFrame(l)
    BY <1>11, <2>1, <2>2
  <2>4. k = l
    BY <2>3, NewFramesDiffer
  <2>5. i \in Int /\ j \in Int /\ a \in Int
    BY <1>6
  <2> QED BY <2>1, <2>2, <2>4, <2>5
<1>12. ASSUME NEW i \in levels PROVE ~InUse(w, new[i])
  BY <1>3, <1>10
<1>13. new = [i \in levels |-> new[i]] /\ patch = [i \in levels |-> patch[i]]
  OBVIOUS
<1>14. at[top] = w[cur][n][top]
  BY <1>5, <1>7
<1>15. \A i \in levels : patch[i] = link(i)
  OBVIOUS
<1>16. ASSUME NEW i \in levels PROVE link(i) = Link(new[i], IF i = Levels THEN x ELSE TRUE)
  BY <1>10
<1>17. linked = a
  <2>1. a \in Nat /\ Levels \in Nat /\ a <= Levels
    BY <1>6
  <2> HIDE DEF levels, at, made, link, new, patch
  <2>2. linked <= a /\ linked <= Levels /\ linked \in {a, Levels}
    BY <2>1, MinOfTwo
  <2> QED BY <2>1, <2>2
<1>18. \A f : f \in made <=> \E i \in levels : f = new[i]
  BY <1>10
<1> HIDE DEF at, made, link, linked, new, patch
<1>19. ASSUME NEW i \in levels
       PROVE  /\ patch[i] \in Entries /\ patch[i].to = new[i] /\ ~patch[i].cow
              /\ i = Levels => patch[i].writable = x
  <2>1. PICK b \in BOOLEAN : b = IF i = Levels THEN x ELSE TRUE
    OBVIOUS
  <2>2. patch[i] = Link(new[i], b)
    BY <1>15, <1>16, <2>1
  <2>3. new[i] \in Frames
    BY <1>10
  <2>4. Link(new[i], b) \in Entries
    BY <2>3, EntryTypes
  <2>5. Link(new[i], b).to = new[i] /\ Link(new[i], b).cow = FALSE /\ Link(new[i], b).writable = b
    BY DEF Link
  <2> QED BY <2>1, <2>2, <2>4, <2>5
<1>20. ASSUME NEW k \in 0 .. Levels, NEW i \in levels PROVE w[cur][n][k] # new[i]
  BY <1>4, <1>12 DEF InUse
<1>21. a > 1 => ~Entry(w, tables, cur, n, a - 1).cow
  <2>1. a > 1 => top \in 1 .. Levels
    BY <1>6, <1>7
  <2>2. \A i \in 1 .. Levels : w[cur][n][i] # 0 => ~Entry(w, tables, cur, n, i).cow
    BY <1>4 DEF Own
  <2> QED BY <1>7, <1>8, <2>1, <2>2
<1>22. Regrown(w, tables, tables', cur, n, a, new, patch)
  <2>1. /\ cur \in Procs /\ n \in Pages /\ a \in 1 .. Levels
        /\ new \in [levels -> Frames] /\ patch \in [levels -> Entries]
        /\ \A i, j \in levels : new[i] = new[j] => i = j
        /\ \A i \in levels : ~InUse(w, new[i]) /\ patch[i].to = new[i] /\ ~patch[i].cow
    <3>1. \A i \in levels : new[i] \in Frames
      BY <1>10
    <3>2. \A i \in levels : patch[i] \in Entries
      BY <1>19
    <3>3. new \in [levels -> Frames]
      BY <1>13, <3>1
    <3>4. patch \in [levels -> Entries]
      BY <1>13, <3>2
    <3> QED BY <1>4, <1>6, <1>11, <1>12, <1>19, <3>3, <3>4
  <2>2. w[cur][n][a - 1] # 0
    BY <1>7, <1>8
  <2>3. ASSUME NEW q \in Procs, w[q][n][a - 1] = w[cur][n][a - 1] PROVE q = cur
    <3>1. top > 0 => ~Entry(w, tables, cur, n, top).cow
      BY <1>6, <1>7, <1>21
    <3>2. w[cur][n][top] # 0 /\ w[q][n][top] = w[cur][n][top]
      BY <1>7, <1>8, <2>3
    <3>3. Marks(w, tables) \/ Procs = {cur}
      BY <1>3
    <3>4. CASE Procs = {cur}
      BY <3>4
    <3>5. CASE Marks(w, tables)
      BY <1>4, <3>1, <3>2, <3>5, SoleHolder
    <3> QED BY <3>3, <3>4, <3>5
  <2>4. ASSUME NEW s \in Slots
        PROVE  tables'[w[cur][n][a - 1]][s] =
                 IF s = Index(n, a) THEN patch[a] ELSE tables[w[cur][n][a - 1]][s]
    <3>1. PICK f \in Frames : f = w[cur][n][top]
      BY <1>8
    <3>2. f = at[linked - 1]
      BY <1>7, <1>14, <1>17, <3>1
    <3>3. tables'[f] = [tables[f] EXCEPT ![Index(n, a)] = link(a)]
      BY <1>2, <1>17, <3>2
    <3>4. tables[f] \in [Slots -> Entries]
      BY <1>4 DEF Trees
    <3>5. patch[a] = link(a)
      BY <1>6, <1>15
    <3> QED BY <1>7, <3>1, <3>3, <3>4, <3>5
  <2>5. ASSUME NEW i \in a + 1 .. Levels, NEW s \in Slots
        PROVE  tables'[new[i - 1]][s] =
                 IF s = Index(n, i) THEN patch[i]
                 ELSE IF w[cur][n][i - 1] = 0 THEN Absent ELSE tables[w[cur][n][i - 1]][s]
    <3>1. PICK k \in levels : k = i - 1 /\ k # Levels /\ i = k + 1 /\ i \in levels
      BY <1>6
    <3>2. PICK f \in Frames : f = new[k]
      BY <1>10
    <3>3. k = CHOOSE j \in levels : f = at[j]
      <4>1. \A j \in levels : f = at[j] <=> j = k
        BY <1>10, <1>11, <3>2
      <4> QED BY <4>1
    <3>4. f # at[linked - 1] /\ f \in made /\ f # at[Levels]
      <4>1. f # at[Levels]
        <5>1. Levels \in levels
          BY <1>6
        <5> QED BY <1>10, <1>11, <3>1, <3>2, <5>1
      <4>2. f # at[linked - 1]
        BY <1>7, <1>14, <1>17, <1>20, <3>2
      <4> QED BY <1>18, <3>2, <4>1, <4>2
    <3>5. tables'[f] = [z \in Slots |-> IF z = Index(n, k + 1) THEN link(k + 1) ELSE Absent]
      <4>1. tables'[f] = LET i2 == CHOOSE j \in levels : f = at[j]
                         IN  [z \in Slots |-> IF z = Index(n, i2 + 1) THEN link(i2 + 1) ELSE Absent]
        BY <1>2, <3>4
      <4> QED BY <3>3, <4>1
    <3>6. w[cur][n][i - 1] = 0
      BY <1>9, <3>1
    <3>7. Index(n, k + 1) = Index(n, i) /\ link(k + 1) = patch[i]
      BY <1>15, <3>1
    <3>8. tables'[f] = [z \in Slots |-> IF z = Index(n, i) THEN patch[i] ELSE Absent]
      BY <3>5, <3>7
    <3>9. tables'[f][s] = IF s = Index(n, i) THEN patch[i] ELSE Absent
      BY <3>8
    <3> QED BY <3>1, <3>2, <3>6, <3>9
  <2>6. ASSUME NEW f \in Frames, f # w[cur][n][a - 1], \A i \in levels : f # new[i]
        PROVE  tables'[f] = tables[f]
    BY <1>2, <1>7, <1>14, <1>17, <1>18, <2>6
  <2> QED BY <2>1, <2>2, <2>3, <2>4, <2>5, <2>6 DEF Regrown
<1>23. patch[Levels].writable = x
  <2>1. Levels \in levels
    BY <1>6
  <2> QED BY <1>19, <2>1
<1>24. CountsGrow(w, cur, n, a, new, taken, refCount, taken', refCount')
  <2>1. \A i \in levels : new[i] \notin taken
    BY <1>10
  <2>2. \A f \in Frames, i \in levels : f # w[cur][n][i]
    BY <1>9 DEF Frames
  <2> QED BY <1>2, <1>18, <2>1, <2>2 DEF CountsGrow
<1> HIDE DEF levels
<1> QED BY <1>2, <1>3, <1>21, <1>22, <1>23, <1>24

(* The page of the running process in the next state.                      *)
LEMMA PageNext ==
  ASSUME TypeOK', cur' \in Procs, NEW n \in Pages
  PROVE  Page(cur, n)' = Walks'[cur'][n][Levels]
<1>1. root'[cur'] # 0 /\ Nobody \notin Procs
  BY PagingAssumption DEF TypeOK
<1>2. Walks'[cur'][n] = WalkIn(tables', root'[cur'], n)
  BY DEF Walks, WalksIn
<1>3. Page(cur, n)' = WalkIn(tables', root'[cur'], n)[Levels]
  BY <1>1 DEF Page, Walk, WalkIn
<1> QED BY <1>2, <1>3

(* Elf::load: one page of the program.                                     *)
LEMMA LoadStep ==
  ASSUME ForestInv, TypeInv', Load
  PROVE  /\ ForestInv' /\ cur' = cur /\ cur \in Procs
         /\ \E n \in Addrs :
              /\ Walks'[cur][n][Levels] # 0 /\ data'[Walks'[cur][n][Levels]] = Loaded
              /\ \A p \in Procs, m \in Pages : ~(p = cur /\ m = n) =>
                   /\ Walks'[p][m][Levels] = Walks[p][m][Levels]
                   /\ Walks[p][m][Levels] # 0 =>
                        data'[Walks[p][m][Levels]] = data[Walks[p][m][Levels]]
<1>1. loading /\ UNCHANGED <<root, cur, lost>>
  BY DEF Load
<1>2. cur \in Procs /\ TypeOK /\ TypeOK'
  BY <1>1 DEF ForestInv, TypeInv, TypeOK
<1>3. PICK n \in Image : /\ Page(cur, n) = 0
                         /\ MapPage(n, n \notin ReadOnly)
                         /\ data' = [data EXCEPT ![Page(cur, n)'] = Loaded]
  BY DEF Load
<1>4. n \in Addrs /\ n \in Pages
  BY PagingAssumption DEF Pages
<1>5. PICK x \in BOOLEAN : x = (n \notin ReadOnly)
  OBVIOUS
<1>6. PICK a, new, patch :
           /\ Regrown(Walks, tables, tables', cur, n, a, new, patch)
           /\ a > 1 => ~Entry(Walks, tables, cur, n, a - 1).cow
           /\ n \in ReadOnly => ~patch[Levels].writable
           /\ CountsGrow(Walks, cur, n, a, new, taken, refCount, taken', refCount')
           /\ tlb' = [tlb EXCEPT ![n] = 0]
  <2>1. Own(Walks, tables, cur, TRUE)
    BY <1>1 DEF ForestInv, Own
  <2>2. MapPage(n, x) /\ (n \in ReadOnly => ~x)
    BY <1>3, <1>5
  <2>3. /\ TypeInv /\ OnePlace(Walks) /\ Marks(Walks, tables)
        /\ \A f \in Frames : InUse(Walks, f) => f \in taken
    BY DEF ForestInv, Good, Counts
  <2>4. PICK a, new, patch :
           /\ Regrown(Walks, tables, tables', cur, n, a, new, patch)
           /\ a > 1 => ~Entry(Walks, tables, cur, n, a - 1).cow
           /\ patch[Levels].writable = x
           /\ CountsGrow(Walks, cur, n, a, new, taken, refCount, taken', refCount')
           /\ tlb' = [tlb EXCEPT ![n] = 0]
    BY <1>2, <1>3, <1>4, <2>1, <2>2, <2>3, MapGrows
  <2>5. n \in ReadOnly => ~patch[Levels].writable
    BY <2>2, <2>4
  <2> QED BY <2>4, <2>5
<1>7. a \in 1 .. Levels /\ new \in [a .. Levels -> Frames] /\ new[Levels] \in Frames
  <2>1. a \in 1 .. Levels /\ new \in [a .. Levels -> Frames]
    BY <1>6 DEF Regrown
  <2>2. Levels \in a .. Levels
    BY <2>1, PagingAssumption
  <2> QED BY <2>1, <2>2
<1>8. Page(cur, n)' = new[Levels]
  <2>1. IsGrown(Walks', Walks, cur, n, a, new)
    BY <1>1, <1>2, <1>4, <1>6, GrownWalks DEF ForestInv, Good
  <2>2. OnPath(cur, n, a, cur, n, Levels) /\ Levels \in 0 .. Levels
    BY <1>7, PagingAssumption DEF OnPath, Same
  <2>3. Walks'[cur][n][Levels] = new[Levels]
    BY <1>2, <1>4, <2>1, <2>2 DEF IsGrown
  <2>4. cur' = cur /\ cur' \in Procs
    BY <1>1, <1>2
  <2>5. Page(cur, n)' = Walks'[cur'][n][Levels]
    BY <1>2, <1>4, <2>4, PageNext
  <2> QED BY <2>3, <2>4, <2>5
<1>9. data' = [data EXCEPT ![new[Levels]] = Loaded] /\ data \in [Frames -> Values]
  BY <1>2, <1>3, <1>8 DEF TypeOK
<1>10. DataGrows(n, new[Levels], data, data') /\ data'[new[Levels]] = Loaded
  BY <1>7, <1>9 DEF DataGrows
<1>11. /\ ForestInv'
       /\ Walks'[cur][n][Levels] = new[Levels]
       /\ \A p \in Procs, m \in Pages : ~(p = cur /\ m = n) =>
            /\ Walks'[p][m][Levels] = Walks[p][m][Levels]
            /\ Walks[p][m][Levels] # 0 =>
                 data'[Walks[p][m][Levels]] = data[Walks[p][m][Levels]]
  BY <1>1, <1>2, <1>4, <1>6, <1>10, GrownStep
<1>12. new[Levels] # 0
  BY <1>7 DEF Frames
<1> QED BY <1>1, <1>2, <1>4, <1>10, <1>11, <1>12

(* The first process has an empty tree.                                    *)
LEMMA InitForest == Init => ForestInv
<1> SUFFICES ASSUME Init PROVE ForestInv
  OBVIOUS
<1>1. TypeInv /\ TypeOK
  BY InitType DEF TypeInv
<1>2. PICK w : w = Walks
  OBVIOUS
<1>3. IsWalks(w, tables, root) /\ w \in Forests
  BY <1>1, <1>2, StateWalks DEF IsWalks
<1>4. PICK p0 \in Procs : root = [q \in Procs |-> IF q = p0 THEN 1 ELSE 0] /\ cur = p0
  BY DEF Init
<1>5. 1 \in Frames /\ 0 \in Pages /\ 0 \in 0 .. Levels
  BY PagingAssumption DEF Frames, Pages
<1>6. ASSUME NEW p \in Procs, NEW n \in Pages, NEW i \in 0 .. Levels
      PROVE  w[p][n][i] = IF i = 0 /\ p = p0 THEN 1 ELSE 0
  <2>1. CASE i = 0
    BY <1>3, <1>4, <2>1 DEF IsWalks
  <2>2. CASE i # 0
    <3>1. PICK k \in 0 .. Levels : k = i - 1 /\ i \in 1 .. Levels
      BY <2>2, PagingAssumption
    <3>2. PICK f \in Frames \cup {0} : f = w[p][n][k]
      BY <1>3, ForestType
    <3>3. w[p][n][i] = Hop(tables, n, i, f)
      BY <1>3, <3>1, <3>2 DEF IsWalks
    <3>4. Index(n, i) \in Slots
      BY <3>1, NodeFacts
    <3>5. f # 0 => tables[f][Index(n, i)].to = 0
      BY <3>2, <3>4 DEF Init, Absent
    <3> QED BY <2>2, <3>3, <3>5 DEF Hop
  <2> QED BY <2>1, <2>2
<1>7. OnePlace(w)
  <2>1. ASSUME NEW p \in Procs, NEW q \in Procs, NEW n \in Pages, NEW m \in Pages,
               NEW i \in 0 .. Levels, NEW j \in 0 .. Levels,
               w[p][n][i] # 0, w[p][n][i] = w[q][m][j]
        PROVE  i = j /\ Same(i, n, m) /\ (i = 0 => p = q)
    <3>1. i = 0 /\ p = p0
      BY <1>6, <2>1
    <3>2. j = 0 /\ q = p0
      BY <1>6, <2>1
    <3> QED BY <3>1, <3>2, NodeFacts
  <2> QED BY <2>1 DEF OnePlace
<1>8. ASSUME NEW p \in Procs, NEW n \in Pages, NEW i \in 1 .. Levels PROVE w[p][n][i] = 0
  <2>1. i \in 0 .. Levels /\ i # 0
    OBVIOUS
  <2> QED BY <1>6, <2>1
<1>9. Levels \in 1 .. Levels /\ ReadOnly \subseteq Pages /\ \A i \in 2 .. Levels : i \in 1 .. Levels
  BY PagingAssumption DEF Pages
<1>10. Marks(w, tables)
  BY <1>8, <1>9 DEF Marks
<1>11. Counts(w, taken, refCount, lost)
  <2>1. taken = lost \cup {f \in Frames : InUse(w, f)}
    <3>1. taken = {1} /\ lost = {}
      BY DEF Init
    <3>2. InUse(w, 1)
      BY <1>5, <1>6 DEF InUse
    <3>3. \A f \in Frames : InUse(w, f) => f = 1
      BY <1>6 DEF InUse, Frames
    <3> QED BY <1>5, <3>1, <3>2, <3>3
  <2>2. ASSUME NEW p \in Procs, NEW n \in Pages, NEW i \in 0 .. Levels, w[p][n][i] # 0
        PROVE  refCount[w[p][n][i]] = Cardinality(HoldersAt(w, n, i, w[p][n][i]))
    <3>1. w[p][n][i] = 1 /\ i = 0 /\ p = p0
      BY <1>6, <2>2
    <3>2. \A q \in Procs : w[q][n][i] = w[p][n][i] => q = p
      BY <1>6, <3>1
    <3>3. Cardinality(HoldersAt(w, n, i, w[p][n][i])) = 1
      BY <3>2, HolderFacts
    <3>4. refCount[1] = 1
      BY <1>5 DEF Init
    <3> QED BY <3>1, <3>3, <3>4
  <2>3. \A f \in lost : ~InUse(w, f) /\ refCount[f] = 1
    BY DEF Init
  <2> QED BY <2>1, <2>2, <2>3 DEF Counts
<1>12. Own(w, tables, cur, loading)
  BY <1>4, <1>8 DEF Own
<1>13. Fresh(w, cur, tlb)
  BY DEF Init, Fresh
<1>14. Kept(w, data)
  BY <1>8, <1>9 DEF Kept
<1> QED BY <1>1, <1>2, <1>3, <1>7, <1>10, <1>11, <1>12, <1>13, <1>14 DEF ForestInv, Good

(* No step breaks the forest, when programs do not ask for memory.         *)
LEMMA NextForestInv ==
  ASSUME Allocs = {}
  PROVE  ForestInv /\ [Next]_vars => ForestInv'
<1> SUFFICES ASSUME ForestInv, [Next]_vars PROVE ForestInv'
  OBVIOUS
<1>0. TypeInv'
  BY NextType DEF ForestInv
<1>1. CASE Switch
  BY <1>0, <1>1, SwitchStep
<1>2. CASE ExitProcess \/ ForkFails \/ LoadFails \/ \E n \in Addrs : Killed(n)
  <2>1. Exit /\ cur # Nobody
    BY <1>2 DEF ExitProcess, ForkFails, LoadFails, Killed, InUser, ForestInv, TypeInv
  <2> QED BY <1>0, <2>1, ExitStep
<1>3. CASE Load
  BY <1>0, <1>3, LoadStep
<1>4. CASE Execute
  BY <1>0, <1>4, ExecuteStep
<1>5. CASE \E c \in Procs : Fork(c) \/ ForkCopyFails(c)
  BY <1>0, <1>5, ForkStep, ForkCopyFailsStep
<1>6. CASE \E n \in Addrs : CopyOnWrite(n)
  BY <1>0, <1>6, CopyOnWriteStep
<1>7. CASE \E n \in Addrs : VirtualAlloc(n) \/ VirtualFree(n)
  BY <1>7 DEF VirtualAlloc, VirtualFree
<1>8. CASE \E n \in Addrs, v \in Values :
             Write(n, v) \/ WriteThroughTLB(n, v) \/ KernelWrite(n, v)
  BY <1>0, <1>8, WriteStep
<1>9. CASE UNCHANGED vars
  <2>1. UNCHANGED <<tables, data, taken, refCount, root, cur, tlb, loading, lost>>
    BY <1>9 DEF vars, frameVars
  <2>2. Fresh(Walks, cur', tlb') /\ Kept(Walks, data')
    BY <2>1 DEF ForestInv
  <2> QED BY <1>0, <2>1, <2>2, QuietStep
<1> QED BY <1>1, <1>2, <1>3, <1>4, <1>5, <1>6, <1>7, <1>8, <1>9 DEF Next

LEMMA ForestHolds ==
  ASSUME Allocs = {}
  PROVE  Spec => []ForestInv
<1>1. Init => ForestInv
  BY InitForest
<1>2. ForestInv /\ [Next]_vars => ForestInv'
  BY NextForestInv
<1> QED BY <1>1, <1>2, PTL DEF Spec

(* What a subtree holds, in terms of the forest.                           *)
LEMMA InSomeTree ==
  ASSUME ForestInv, NEW p \in Procs, NEW f \in Frames
  PROVE  f \in Below(root[p]) <=> \E n \in Pages, i \in 1 .. Levels : f = Walks[p][n][i]
<1>1. TypeOK /\ 0 \notin Frames
  BY DEF ForestInv, TypeInv, Frames
<1>2. CASE root[p] # 0
  BY <1>1, <1>2, BelowIs
<1>3. CASE root[p] = 0
  <2>1. ASSUME NEW n \in Pages, NEW i \in 1 .. Levels PROVE Walks[p][n][i] = 0
    <3>1. PICK j, z \in 0 .. Levels : j = i /\ z = 0 /\ z <= j
      BY PagingAssumption
    <3>2. Walks[p][n] = WalkIn(tables, root[p], n)
      BY DEF Walks, WalksIn
    <3>3. WalkIn(tables, root[p], n)[z] = 0
      BY <1>3, <3>1, WalkFacts
    <3>4. WalkIn(tables, root[p], n)[j] = 0
      BY <3>1, <3>3, StaysMissing
    <3> QED BY <3>1, <3>2, <3>4
  <2>2. Below(root[p]) = {}
    BY <1>3 DEF Below
  <2> QED BY <1>1, <2>1, <2>2
<1> QED BY <1>2, <1>3

LEMMA CountsHold ==
  ASSUME ForestInv
  PROVE  RefCountsAreHolders
<1>1. PICK w : w = Walks
  OBVIOUS
<1>2. /\ IsWalks(w, tables, root) /\ OnePlace(w) /\ w \in Forests
      /\ Counts(w, taken, refCount, lost) /\ TypeOK
  BY <1>1 DEF ForestInv, Good, IsWalks, TypeInv
<1>3. /\ 0 \in Pages /\ 0 \in 0 .. Levels /\ 0 \notin Frames
      /\ \A i \in 1 .. Levels : i \in 0 .. Levels
  BY PagingAssumption DEF Pages, Frames
<1>4. \A p \in Procs, n \in Pages : w[p][n][0] = root[p]
  BY <1>2 DEF IsWalks
<1>5. ASSUME NEW p \in Procs, NEW f \in Frames
      PROVE  f \in Below(root[p]) <=> \E n \in Pages, i \in 1 .. Levels : f = w[p][n][i]
  BY <1>1, InSomeTree
<1>6. ASSUME NEW f \in Frames
      PROVE  InUse(w, f) <=> f \in Roots \/ \E p \in Procs : f \in Below(root[p])
  <2>1. ASSUME InUse(w, f) PROVE f \in Roots \/ \E p \in Procs : f \in Below(root[p])
    <3>1. PICK p \in Procs, n \in Pages, i \in 0 .. Levels : w[p][n][i] = f
      BY <2>1 DEF InUse
    <3>2. CASE i = 0
      BY <1>3, <1>4, <3>1, <3>2 DEF Roots
    <3>3. CASE i # 0
      <4>1. i \in 1 .. Levels
        BY <3>3
      <4> QED BY <1>5, <3>1, <4>1
    <3> QED BY <3>2, <3>3
  <2>2. ASSUME f \in Roots PROVE InUse(w, f)
    BY <1>3, <1>4, <2>2 DEF Roots, InUse
  <2>3. ASSUME NEW p \in Procs, f \in Below(root[p]) PROVE InUse(w, f)
    BY <1>3, <1>5, <2>3 DEF InUse
  <2> QED BY <2>1, <2>2, <2>3
<1>7. ASSUME NEW r \in Roots PROVE r \in Frames /\ Below(r) \subseteq Frames
  <2>1. PICK p \in Procs : r = root[p] /\ r # 0
    BY DEF Roots
  <2> QED BY <1>2, <2>1, BelowIs DEF TypeOK
<1>8. \A p \in Procs : root[p] = 0 => Below(root[p]) = {}
  BY DEF Below
<1>9. taken = Roots \cup lost \cup UNION {Below(r) : r \in Roots}
  <2>1. taken = lost \cup {f \in Frames : InUse(w, f)}
    BY <1>2 DEF Counts
  <2>2. \A f \in Frames : (\E p \in Procs : f \in Below(root[p])) <=> \E r \in Roots : f \in Below(r)
    BY <1>8 DEF Roots
  <2> QED BY <1>6, <1>7, <2>1, <2>2
<1>10. ASSUME NEW f \in taken
       PROVE  refCount[f] = IF f \in Roots \cup lost THEN 1 ELSE Cardinality(Holders(f))
  <2>1. CASE f \in lost
    BY <1>2, <2>1 DEF Counts
  <2>2. CASE f \in Roots
    <3>1. PICK p \in Procs : root[p] = f /\ f # 0
      BY <2>2 DEF Roots
    <3>2. w[p][0][0] = f /\ w[p][0][0] # 0
      BY <1>3, <1>4, <3>1
    <3>3. \A q \in Procs : w[q][0][0] = w[p][0][0] => q = p
      BY <1>2, <1>3, <3>2, RootFacts
    <3>4. Cardinality(HoldersAt(w, 0, 0, w[p][0][0])) = 1
      BY <3>3, HolderFacts
    <3>5. refCount[w[p][0][0]] = Cardinality(HoldersAt(w, 0, 0, w[p][0][0]))
      BY <1>2, <1>3, <3>2 DEF Counts
    <3> QED BY <2>2, <3>2, <3>4, <3>5
  <2>3. CASE f \notin Roots \cup lost
    <3>1. f \in Frames /\ \E p \in Procs : f \in Below(root[p])
      BY <1>2, <1>6, <2>3 DEF Counts
    <3>2. PICK p \in Procs, n \in Pages, i \in 1 .. Levels : f = w[p][n][i]
      BY <1>5, <3>1
    <3>3. w[p][n][i] # 0 /\ i \in 0 .. Levels
      BY <1>3, <3>1, <3>2
    <3>4. refCount[f] = Cardinality(HoldersAt(w, n, i, f))
      BY <1>2, <3>2, <3>3 DEF Counts
    <3>5. ASSUME NEW q \in Procs PROVE f \in Below(root[q]) <=> w[q][n][i] = f
      <4>1. ASSUME f \in Below(root[q]) PROVE w[q][n][i] = f
        <5>1. PICK m \in Pages, j \in 1 .. Levels : f = w[q][m][j]
          BY <1>5, <3>1, <4>1
        <5>2. w[p][n][i] # 0 /\ w[p][n][i] = w[q][m][j] /\ j \in 0 .. Levels
          BY <1>3, <3>2, <3>3, <5>1
        <5>3. i = j /\ Same(i, n, m)
          BY <1>2, <3>3, <5>2 DEF OnePlace
        <5>4. w[q][n][i] = w[q][m][i]
          BY <1>2, <3>3, <5>3, SharedPrefix
        <5> QED BY <5>1, <5>3, <5>4
      <4>2. ASSUME w[q][n][i] = f PROVE f \in Below(root[q])
        BY <1>5, <3>1, <4>2
      <4> QED BY <4>1, <4>2
    <3>6. Holders(f) = HoldersAt(w, n, i, f)
      BY <3>5 DEF Holders, HoldersAt
    <3> QED BY <2>3, <3>4, <3>6
  <2> QED BY <2>1, <2>2, <2>3
<1> QED BY <1>9, <1>10 DEF RefCountsAreHolders

LEMMA AliasesHold ==
  ASSUME TypeOK, OnePlace(Walks)
  PROVE  NoAliases
<1>1. ASSUME NEW p \in Procs, NEW n \in Addrs, NEW m \in Addrs,
             NEW i \in 1 .. Levels, NEW j \in 1 .. Levels,
             Walk(root[p], n)[i] # 0, Walk(root[p], n)[i] = Walk(root[p], m)[j]
      PROVE  Node(i, n) = Node(j, m)
  <2>1. /\ n \in Pages /\ m \in Pages /\ TypeOK /\ i \in 0 .. Levels /\ j \in 0 .. Levels
        /\ OnePlace(Walks)
    BY DEF Pages
  <2>2. Walks[p][n][i] # 0 /\ Walks[p][n][i] = Walks[p][m][j]
    BY <1>1, <2>1, StateFacts
  <2>3. i = j /\ Same(i, n, m)
    BY <2>1, <2>2 DEF OnePlace
  <2> QED BY <2>3 DEF Same
<1> QED BY <1>1 DEF NoAliases

LEMMA ReadOnlyHold ==
  ASSUME ForestInv
  PROVE  ReadOnlyKept
<1>1. \A p \in Procs, n \in Pages : Page(p, n) = Walks[p][n][Levels]
  BY StateFacts DEF ForestInv, TypeInv
<1>2. ReadOnly \subseteq Pages
  BY PagingAssumption DEF Pages
<1> QED BY <1>1, <1>2 DEF ForestInv, Kept, ReadOnlyKept

(* The reference counts are right, however fork, exec, exit and the fault  *)
(* handler follow each other (RefCountsAreHolders).  Programs do not       *)
(* allocate memory here: YY_VirtualAlloc in a process that shares tables   *)
(* breaks the counts.                                                      *)
THEOREM CountsCorrect ==
  ASSUME Allocs = {}
  PROVE  Spec => []RefCountsAreHolders
<1>1. Spec => []ForestInv
  BY ForestHolds
<1>2. ForestInv => RefCountsAreHolders
  BY CountsHold
<1> QED BY <1>1, <1>2, PTL

-----------------------------------------------------------------------------
(* The refinement of PrivateMemory: what each process sees of a forest.    *)
SeenIn(w, dt, lk) ==
  [p \in Procs |-> [n \in Addrs |->
     IF p \in lk \/ w[p][n][Levels] = 0 THEN Unmapped ELSE dt[w[p][n][Levels]]]]

LEMMA SeenIs ==
  ASSUME TypeOK
  PROVE  Seen = SeenIn(Walks, data, leaked)
<1>1. \A p \in Procs, n \in Addrs : Page(p, n) = Walks[p][n][Levels]
  BY StateFacts DEF Pages
<1> QED BY <1>1 DEF Seen, SeenIn

LEMMA SeenNext ==
  ASSUME TypeOK'
  PROVE  Seen' = SeenIn(Walks', data', leaked')
<1>1. ASSUME NEW p \in Procs, NEW n \in Addrs
      PROVE  (IF root'[p] = 0 THEN 0 ELSE WalkIn(tables', root'[p], n)[Levels])
               = Walks'[p][n][Levels]
  <2>1. Walks'[p][n] = WalkIn(tables', root'[p], n)
    BY DEF Walks, WalksIn, Pages
  <2>2. PICK tb, r : tb = tables' /\ r = root'[p]
    OBVIOUS
  <2>3. Levels \in 0 .. Levels /\ 0 \in 0 .. Levels /\ 0 <= Levels
    BY PagingAssumption
  <2>4. r = 0 => WalkIn(tb, r, n)[Levels] = 0
    <3>1. WalkIn(tb, r, n)[0] = r
      BY WalkFacts
    <3> QED BY <2>3, <3>1, StaysMissing
  <2> QED BY <2>1, <2>2, <2>4
<1>2. Seen' = [p \in Procs |-> [n \in Addrs |->
        IF p \in leaked' \/ (IF root'[p] = 0 THEN 0 ELSE WalkIn(tables', root'[p], n)[Levels]) = 0
        THEN Unmapped
        ELSE data'[IF root'[p] = 0 THEN 0 ELSE WalkIn(tables', root'[p], n)[Levels]]]]
  BY DEF Seen, Page, Walk, WalkIn
<1> QED BY <1>1, <1>2 DEF SeenIn

(* Processes see the same when their pages have the same contents.         *)
LEMMA SeenSame ==
  ASSUME NEW w, NEW v, NEW dt, NEW dt2, NEW lk, NEW p \in Procs,
         \A n \in Addrs :
           /\ v[p][n][Levels] = 0 <=> w[p][n][Levels] = 0
           /\ w[p][n][Levels] # 0 => dt2[v[p][n][Levels]] = dt[w[p][n][Levels]]
  PROVE  SeenIn(v, dt2, lk)[p] = SeenIn(w, dt, lk)[p]
<1>1. \A n \in Addrs :
        (IF p \in lk \/ v[p][n][Levels] = 0 THEN Unmapped ELSE dt2[v[p][n][Levels]])
          = (IF p \in lk \/ w[p][n][Levels] = 0 THEN Unmapped ELSE dt[w[p][n][Levels]])
  OBVIOUS
<1> QED BY <1>1 DEF SeenIn

LEMMA SeenIsFunction ==
  ASSUME NEW w, NEW dt, NEW lk
  PROVE  SeenIn(w, dt, lk) = [p \in Procs |-> SeenIn(w, dt, lk)[p]]
BY DEF SeenIn

(* A tree that is gone shows nothing, nor does one that has leaked; the    *)
(* others show what they did.                                              *)
LEMMA DroppedSeen ==
  ASSUME TypeOK, TypeOK', cur \in Procs, data' = data, NEW L \in SUBSET Procs,
         leaked' = leaked \cup L, cur \notin L, \A p \in L : root[p] = 0,
         \A m \in Pages : Walks'[cur][m][Levels] = 0,
         \A p \in Procs, m \in Pages : p \notin L \cup {cur} =>
           Walks'[p][m][Levels] = Walks[p][m][Levels]
  PROVE  Seen' = [Seen EXCEPT ![cur] = Private!Empty]
<1>1. PICK w, v, dt, lk, lk2 :
        w = Walks /\ v = Walks' /\ dt = data /\ lk = leaked /\ lk2 = leaked'
  OBVIOUS
<1>2. Addrs \subseteq Pages
  BY DEF Pages
<1>3. Seen = SeenIn(w, dt, lk) /\ Seen' = SeenIn(v, dt, lk2)
  BY <1>1, SeenIs, SeenNext
<1>4. SeenIn(v, dt, lk2)[cur] = Private!Empty
  BY <1>1, <1>2 DEF SeenIn, Private!Empty
<1>5. ASSUME NEW p \in Procs, p # cur PROVE SeenIn(v, dt, lk2)[p] = SeenIn(w, dt, lk)[p]
  <2>1. CASE p \in L
    <3>1. SeenIn(v, dt, lk2)[p] = Private!Empty
      BY <1>1, <2>1 DEF SeenIn, Private!Empty
    <3>2. Seen[p] = Private!Empty
      BY <2>1 DEF Seen, Page, Private!Empty
    <3> QED BY <1>3, <3>1, <3>2
  <2>2. CASE p \notin L
    <3>1. \A n \in Addrs : v[p][n][Levels] = w[p][n][Levels]
      BY <1>1, <1>2, <1>5, <2>2
    <3>2. p \in lk <=> p \in lk2
      BY <1>1, <2>2
    <3> QED BY <3>1, <3>2 DEF SeenIn
  <2> QED BY <2>1, <2>2
<1> QED BY <1>3, <1>4, <1>5, SeenIsFunction

(* The child sees what its parent sees.                                    *)
LEMMA ForkedSeen ==
  ASSUME TypeOK, TypeOK', NEW c \in Procs, NEW f0, IsForked(Walks', Walks, cur, c, f0),
         data' = data, leaked' = leaked, root[c] = 0
  PROVE  Seen' = [Seen EXCEPT ![c] = Seen[cur]]
<1>1. PICK w, v, dt, lk : w = Walks /\ v = Walks' /\ dt = data /\ lk = leaked
  OBVIOUS
<1>2. /\ cur \in Procs /\ Levels \in 0 .. Levels /\ Levels # 0 /\ c \notin lk /\ cur \notin lk
      /\ \A p \in Procs, m \in Pages, i \in 0 .. Levels :
           v[p][m][i] = IF p # c THEN w[p][m][i] ELSE IF i = 0 THEN f0 ELSE w[cur][m][i]
  BY <1>1, PagingAssumption DEF IsForked, TypeOK
<1>3. \A p \in Procs, m \in Addrs :
        v[p][m][Levels] = IF p # c THEN w[p][m][Levels] ELSE w[cur][m][Levels]
  BY <1>2 DEF Pages
<1>4. SeenIn(v, dt, lk)[c] = SeenIn(w, dt, lk)[cur]
  BY <1>2, <1>3 DEF SeenIn
<1>5. ASSUME NEW p \in Procs, p # c PROVE SeenIn(v, dt, lk)[p] = SeenIn(w, dt, lk)[p]
  BY <1>3, <1>5, SeenSame
<1>6. Seen = SeenIn(w, dt, lk) /\ Seen' = SeenIn(v, dt, lk)
  BY <1>1, SeenIs, SeenNext
<1> QED BY <1>4, <1>5, <1>6, SeenIsFunction

(* One page of the running process changes.                                *)
LEMMA PutSeen ==
  ASSUME TypeOK, TypeOK', cur \in Procs, cur' = cur, leaked' = leaked, NEW n \in Addrs,
         Walks'[cur][n][Levels] # 0, data'[Walks'[cur][n][Levels]] \in Values,
         \A p \in Procs, m \in Pages : ~(p = cur /\ m = n) =>
           /\ Walks'[p][m][Levels] = Walks[p][m][Levels]
           /\ Walks[p][m][Levels] # 0 =>
                data'[Walks[p][m][Levels]] = data[Walks[p][m][Levels]]
  PROVE  /\ Private!Put(n)
         /\ \A p \in Procs \ {cur} : Seen'[p] = Seen[p]
<1>1. PICK w, v, dt, dt2, lk :
        w = Walks /\ v = Walks' /\ dt = data /\ dt2 = data' /\ lk = leaked
  OBVIOUS
<1>2. Seen = SeenIn(w, dt, lk) /\ Seen' = SeenIn(v, dt2, lk)
  BY <1>1, SeenIs, SeenNext
<1>3. v[cur][n][Levels] # 0 /\ dt2[v[cur][n][Levels]] \in Values /\ cur \notin lk
  BY <1>1 DEF TypeOK
<1>4. \A p \in Procs, m \in Addrs : ~(p = cur /\ m = n) =>
        /\ v[p][m][Levels] = w[p][m][Levels]
        /\ w[p][m][Levels] # 0 => dt2[w[p][m][Levels]] = dt[w[p][m][Levels]]
  BY <1>1 DEF Pages
<1>5. SeenIn(v, dt2, lk)[cur][n] \in Values
  BY <1>3 DEF SeenIn
<1>6. ASSUME NEW p \in Procs, NEW m \in Addrs, ~(p = cur /\ m = n)
      PROVE  SeenIn(v, dt2, lk)[p][m] = SeenIn(w, dt, lk)[p][m]
  BY <1>4, <1>6 DEF SeenIn
<1>7. Private!Put(n)
  BY <1>2, <1>5, <1>6 DEF Private!Put
<1>8. ASSUME NEW p \in Procs \ {cur} PROVE SeenIn(v, dt2, lk)[p] = SeenIn(w, dt, lk)[p]
  BY <1>4 DEF SeenIn
<1> QED BY <1>2, <1>7, <1>8

(* A store to a page that the tables have read-only now, because it is     *)
(* shared: through a translation of before the fork, or by the kernel.     *)
StaleWrite(n, x) ==
  ~HardwareWritable(cur, n) /\ (WriteThroughTLB(n, x) \/ KernelWrite(n, x))

(* What is written otherwise is nobody else's page.                        *)
LEMMA WriteAlone ==
  ASSUME ForestInv, TypeInv', NEW n \in Addrs, NEW x \in Values,
         Write(n, x) \/ WriteThroughTLB(n, x) \/ KernelWrite(n, x), ~StaleWrite(n, x)
  PROVE  /\ cur \in Procs /\ cur' = cur /\ leaked' = leaked /\ ForestInv'
         /\ Walks'[cur][n][Levels] # 0 /\ data'[Walks'[cur][n][Levels]] \in Values
         /\ \A p \in Procs, m \in Pages : ~(p = cur /\ m = n) =>
              /\ Walks'[p][m][Levels] = Walks[p][m][Levels]
              /\ Walks[p][m][Levels] # 0 =>
                   data'[Walks[p][m][Levels]] = data[Walks[p][m][Levels]]
<1>1. Walks' = Walks /\ ForestInv'
  BY WriteStep
<1>2. /\ cur \in Procs /\ Walks[cur][n][Levels] # 0
      /\ data' = [data EXCEPT ![Walks[cur][n][Levels]] = x]
      /\ Entry(Walks, tables, cur, n, Levels).writable
  <2>1. cur \in Procs /\ Walks[cur][n][Levels] # 0
        /\ data' = [data EXCEPT ![Walks[cur][n][Levels]] = x]
    BY WriteTarget
  <2>2. HardwareWritable(cur, n)
    BY DEF Write, StaleWrite
  <2>3. Levels \in 1 .. Levels /\ n \in Pages /\ TypeOK
    BY PagingAssumption DEF Pages, ForestInv, TypeInv
  <2>4. EntryAt(cur, n, Levels).writable
    BY <2>2, <2>3 DEF HardwareWritable
  <2>5. EntryAt(cur, n, Levels) = Entry(Walks, tables, cur, n, Levels)
    BY <2>1, <2>3, StateFacts
  <2> QED BY <2>1, <2>4, <2>5
<1>3. PICK w : w = Walks
  OBVIOUS
<1>4. /\ OnePlace(w) /\ Marks(w, tables) /\ w \in Forests /\ data \in [Frames -> Values]
      /\ n \in Pages /\ Levels \in 0 .. Levels /\ Levels \in 1 .. Levels
  BY <1>3, PagingAssumption DEF ForestInv, Good, IsWalks, TypeInv, TypeOK, Pages
<1>5. ASSUME NEW p \in Procs, NEW m \in Pages, ~(p = cur /\ m = n)
      PROVE  w[p][m][Levels] # w[cur][n][Levels]
  <2>1. ASSUME w[p][m][Levels] = w[cur][n][Levels] PROVE FALSE
    <3>1. w[cur][n][Levels] # 0 /\ w[cur][n][Levels] = w[p][m][Levels]
      BY <1>2, <1>3, <2>1
    <3>2. Same(Levels, n, m)
      BY <1>2, <1>4, <3>1 DEF OnePlace
    <3>3. n = m
      BY <1>4, <3>2, NodeFacts
    <3>4. p # cur
      BY <1>5, <3>3
    <3>5. cur # p /\ w[cur][n][Levels] # 0 /\ w[cur][n][Levels] = w[p][n][Levels]
      BY <3>1, <3>3, <3>4
    <3>6. Entry(w, tables, cur, n, Levels).cow
      BY <1>2, <1>4, <3>5 DEF Marks
    <3>7. ~Entry(w, tables, cur, n, Levels).writable
      BY <1>2, <1>4, <3>5, <3>6 DEF Marks
    <3> QED BY <1>2, <1>3, <3>7
  <2> QED BY <2>1
<1>6. \A p \in Procs, m \in Pages : w[p][m][Levels] \in Frames \cup {0}
  BY <1>4, ForestType
<1>7. cur' = cur /\ leaked' = leaked
  BY DEF Write, WriteThroughTLB, KernelWrite
<1>8. ASSUME NEW p \in Procs, NEW m \in Pages, ~(p = cur /\ m = n), w[p][m][Levels] # 0
      PROVE  data'[w[p][m][Levels]] = data[w[p][m][Levels]]
  <2>1. w[p][m][Levels] # w[cur][n][Levels]
    BY <1>5, <1>8
  <2>2. w[p][m][Levels] \in Frames
    BY <1>6, <1>8
  <2> QED BY <1>2, <1>3, <1>4, <2>1, <2>2
<1>9. data'[w[cur][n][Levels]] \in Values
  <2>1. w[cur][n][Levels] \in Frames
    BY <1>2, <1>3, <1>4, <1>6
  <2> QED BY <1>2, <1>3, <1>4, <2>1
<1> QED BY <1>1, <1>2, <1>3, <1>7, <1>8, <1>9

NoTranslation == \A n \in Addrs : tlb[n] = 0

LEMMA NoTranslationHolds ==
  ASSUME Allocs = {}, Cached = {}
  PROVE  ForestInv /\ NoTranslation /\ [Next]_vars => NoTranslation'
<1> SUFFICES ASSUME ForestInv, NoTranslation, [Next]_vars PROVE NoTranslation'
  OBVIOUS
<1>1. tlb \in [Addrs -> Frames \cup {0}]
  BY DEF ForestInv, TypeInv, TypeOK
<1>2. \/ tlb' = tlb
      \/ tlb' = [n \in Addrs |-> 0]
      \/ \E n \in Addrs : tlb' = [tlb EXCEPT ![n] = 0]
  <2>1. CASE Switch \/ UNCHANGED vars
    BY <2>1 DEF Switch, vars
  <2>2. CASE ExitProcess \/ ForkFails \/ LoadFails \/ Execute \/ \E n \in Addrs : Killed(n)
    BY <2>2 DEF ExitProcess, ForkFails, LoadFails, Killed, Execute, Exit, Deallocate
  <2>3. CASE Load
    <3>1. Image \subseteq Addrs
      BY PagingAssumption
    <3> QED BY <2>3, <3>1 DEF Load, MapPage
  <2>4. CASE \E c \in Procs : Fork(c) \/ ForkCopyFails(c)
    BY <2>4 DEF Fork, ForkCopyFails
  <2>5. CASE \E n \in Addrs : CopyOnWrite(n)
    BY <2>5 DEF CopyOnWrite
  <2>6. CASE \E n \in Addrs : VirtualAlloc(n) \/ VirtualFree(n)
    BY <2>6 DEF VirtualAlloc, VirtualFree
  <2>7. CASE \E n \in Addrs, v \in Values :
               Write(n, v) \/ WriteThroughTLB(n, v) \/ KernelWrite(n, v)
    BY <2>7 DEF Write, WriteThroughTLB, KernelWrite
  <2> QED BY <2>1, <2>2, <2>3, <2>4, <2>5, <2>6, <2>7 DEF Next
<1> QED BY <1>1, <1>2 DEF NoTranslation

(* Every step but a stale write is a step of PrivateMemory or does not     *)
(* show, and is not seen by other processes.                               *)
LEMMA StepSeen ==
  ASSUME Allocs = {}, ForestInv, [Next]_vars, \A n \in Addrs, x \in Values : ~StaleWrite(n, x)
  PROVE  /\ [Private!Next]_(Private!vars)
         /\ \A p \in Procs \ {cur} : root[p] # 0 /\ root'[p] # 0 => Seen'[p] = Seen[p]
<1>0. TypeInv' /\ TypeOK /\ TypeOK' /\ TypeInv
  BY NextType DEF ForestInv, TypeInv
<1> DEFINE Others == \A p \in Procs \ {cur} :
                       root[p] # 0 /\ root'[p] # 0 => Seen'[p] = Seen[p]
<1>1. cur' \in Procs \cup {Nobody}
  BY <1>0 DEF TypeOK
<1>2. ASSUME leaked' = leaked,
             \A p \in Procs, n \in Pages :
               /\ Walks'[p][n][Levels] = 0 <=> Walks[p][n][Levels] = 0
               /\ Walks[p][n][Levels] # 0 =>
                    data'[Walks'[p][n][Levels]] = data[Walks[p][n][Levels]]
      PROVE  Seen' = Seen
  <2>1. PICK w, v, dt, dt2, lk :
          w = Walks /\ v = Walks' /\ dt = data /\ dt2 = data' /\ lk = leaked
    OBVIOUS
  <2>2. Seen = SeenIn(w, dt, lk) /\ Seen' = SeenIn(v, dt2, lk)
    BY <1>0, <1>2, <2>1, SeenIs, SeenNext
  <2>3. ASSUME NEW p \in Procs PROVE SeenIn(v, dt2, lk)[p] = SeenIn(w, dt, lk)[p]
    <3>1. \A n \in Addrs :
            /\ v[p][n][Levels] = 0 <=> w[p][n][Levels] = 0
            /\ w[p][n][Levels] # 0 => dt2[v[p][n][Levels]] = dt[w[p][n][Levels]]
      BY <1>2, <2>1 DEF Pages
    <3> QED BY <3>1, SeenSame
  <2> QED BY <2>2, <2>3, SeenIsFunction
<1>3. Seen = [p \in Procs |-> Seen[p]]
  BY DEF Seen
<1> DEFINE Private2 == [Private!Next]_(Private!vars)
<1>4. CASE Switch
  <2>1. Walks' = Walks /\ data' = data /\ leaked' = leaked
    BY <1>0, <1>4, SwitchStep DEF Switch, frameVars
  <2>2. Seen' = Seen
    BY <1>2, <2>1
  <2>3. Private!Switch
    BY <1>1, <2>2 DEF Private!Switch
  <2>4. Others
    BY <2>2
  <2> QED BY <2>3, <2>4 DEF Private!Next
<1>17. ASSUME cur \in Procs, Seen' = [Seen EXCEPT ![cur] = Private!Empty]
       PROVE  Private2 /\ Others
  <2>1. Seen' = [Seen EXCEPT ![cur] = Private!Empty]
    BY <1>17
  <2>2. Private!Drop
    BY <1>1, <2>1 DEF Private!Drop
  <2>3. Private!Next
    BY <1>17, <2>2 DEF Private!Next
  <2>4. Others
    BY <1>3, <2>1
  <2> QED BY <2>3, <2>4
<1>5. ASSUME NEW r0, cur \in Procs, IsDropped(Walks', Walks, cur, r0), data' = data,
             leaked' = leaked
      PROVE  Private2 /\ Others
  <2>1. PICK L \in SUBSET Procs : L = {}
    OBVIOUS
  <2>2. Levels \in 0 .. Levels /\ Levels # 0
    BY PagingAssumption
  <2>3. /\ \A m \in Pages : Walks'[cur][m][Levels] = 0
        /\ \A p \in Procs, m \in Pages : p \notin L \cup {cur} =>
             Walks'[p][m][Levels] = Walks[p][m][Levels]
    BY <1>5, <2>1, <2>2 DEF IsDropped
  <2>4. leaked' = leaked \cup L /\ cur \notin L /\ \A p \in L : root[p] = 0
    BY <1>5, <2>1
  <2>5. Seen' = [Seen EXCEPT ![cur] = Private!Empty]
    BY <1>0, <1>5, <2>3, <2>4, DroppedSeen
  <2> QED BY <1>5, <1>17, <2>5
<1>6. CASE ExitProcess \/ ForkFails \/ LoadFails \/ \E n \in Addrs : Killed(n)
  <2>1. Exit /\ cur # Nobody
    BY <1>6 DEF ExitProcess, ForkFails, LoadFails, Killed, InUser, ForestInv, TypeInv
  <2>2. cur \in Procs
    BY <1>0, <2>1 DEF TypeOK
  <2>3. IsDropped(Walks', Walks, cur, 0) /\ data' = data /\ leaked' = leaked
    BY <1>0, <2>1, ExitStep DEF Exit
  <2> QED BY <1>5, <2>2, <2>3
<1>7. CASE Execute
  <2>1. cur \in Procs
    BY <1>0, <1>7 DEF Execute, InUser, TypeOK
  <2>2. IsDropped(Walks', Walks, cur, root[cur]) /\ data' = data /\ leaked' = leaked
    BY <1>0, <1>7, ExecuteStep DEF Execute
  <2> QED BY <1>5, <2>1, <2>2
<1>8. ASSUME NEW n \in Addrs, Private!Put(n), cur \in Procs PROVE Private2
  BY <1>8 DEF Private!Next
<1>9. CASE Load
  <2>1. /\ cur' = cur /\ cur \in Procs
        /\ \E n \in Addrs :
              /\ Walks'[cur][n][Levels] # 0 /\ data'[Walks'[cur][n][Levels]] = Loaded
              /\ \A p \in Procs, m \in Pages : ~(p = cur /\ m = n) =>
                   /\ Walks'[p][m][Levels] = Walks[p][m][Levels]
                   /\ Walks[p][m][Levels] # 0 =>
                        data'[Walks[p][m][Levels]] = data[Walks[p][m][Levels]]
    BY <1>0, <1>9, LoadStep
  <2>2. PICK n \in Addrs :
              /\ Walks'[cur][n][Levels] # 0 /\ data'[Walks'[cur][n][Levels]] = Loaded
              /\ \A p \in Procs, m \in Pages : ~(p = cur /\ m = n) =>
                   /\ Walks'[p][m][Levels] = Walks[p][m][Levels]
                   /\ Walks[p][m][Levels] # 0 =>
                        data'[Walks[p][m][Levels]] = data[Walks[p][m][Levels]]
    BY <2>1
  <2>3. data'[Walks'[cur][n][Levels]] \in Values
    BY <2>2, PagingAssumption
  <2>5. leaked' = leaked
    BY <1>9 DEF Load
  <2>4. Private!Put(n) /\ Others
    BY <1>0, <2>1, <2>2, <2>3, <2>5, PutSeen
  <2> QED BY <1>8, <2>1, <2>4
<1>10. CASE \E c \in Procs : Fork(c)
  <2>1. PICK c \in Procs : Fork(c)
    BY <1>10
  <2>2. PICK f0 \in Frames : IsForked(Walks', Walks, cur, c, f0)
    BY <1>0, <2>1, ForkStep
  <2>3. cur' = cur /\ data' = data /\ leaked' = leaked /\ root[c] = 0
    BY <1>0, <2>1, ForkStep DEF Fork
  <2>4. Seen' = [Seen EXCEPT ![c] = Seen[cur]]
    BY <1>0, <2>2, <2>3, ForkedSeen
  <2>5. root[c] = 0 /\ cur \in Procs /\ c # cur
    BY <1>0, <2>1 DEF Fork, InUser, TypeOK
  <2>6. Seen[c] = Private!Empty
    BY <2>5 DEF Seen, Page, Private!Empty
  <2>7. Private!Fork(c)
    BY <2>3, <2>4, <2>6 DEF Private!Fork
  <2>8. Private!Next
    BY <2>5, <2>7 DEF Private!Next
  <2>9. Others
    BY <1>3, <2>4, <2>5
  <2> QED BY <2>8, <2>9
<1>18. CASE \E c \in Procs : ForkCopyFails(c)
  <2>1. PICK c \in Procs : ForkCopyFails(c)
    BY <1>18
  <2>2. PICK L \in SUBSET Procs : L = {c}
    OBVIOUS
  <2>3. /\ \A p \in Procs, m \in Pages : p # c =>
             Walks'[p][m][Levels] = IF p = cur THEN 0 ELSE Walks[p][m][Levels]
        /\ data' = data /\ leaked' = leaked \cup {c}
        /\ cur \in Procs /\ root[c] = 0 /\ c # cur
    BY <1>0, <2>1, ForkCopyFailsStep
  <2>4. Seen' = [Seen EXCEPT ![cur] = Private!Empty]
    BY <1>0, <2>2, <2>3, DroppedSeen
  <2> QED BY <1>17, <2>3, <2>4
<1>11. ASSUME Seen' = Seen, cur' = cur PROVE Private2 /\ Others
  BY <1>11 DEF Private!vars
<1>12. CASE \E n \in Addrs : CopyOnWrite(n)
  <2>1. PICK n \in Addrs : CopyOnWrite(n)
    BY <1>12
  <2>2. /\ cur' = cur
        /\ \A p \in Procs, m \in Pages :
              /\ Walks'[p][m][Levels] = 0 <=> Walks[p][m][Levels] = 0
              /\ Walks[p][m][Levels] # 0 =>
                   data'[Walks'[p][m][Levels]] = data[Walks[p][m][Levels]]
    BY <1>0, <2>1, CopyOnWriteStep
  <2>3. leaked' = leaked
    BY <2>1 DEF CopyOnWrite
  <2> QED BY <1>2, <1>11, <2>2, <2>3
<1>13. CASE \E n \in Addrs, v \in Values :
              Write(n, v) \/ WriteThroughTLB(n, v) \/ KernelWrite(n, v)
  <2>1. PICK n \in Addrs, x \in Values :
              Write(n, x) \/ WriteThroughTLB(n, x) \/ KernelWrite(n, x)
    BY <1>13
  <2>2. /\ cur \in Procs /\ cur' = cur /\ leaked' = leaked
        /\ Walks'[cur][n][Levels] # 0 /\ data'[Walks'[cur][n][Levels]] \in Values
        /\ \A p \in Procs, m \in Pages : ~(p = cur /\ m = n) =>
              /\ Walks'[p][m][Levels] = Walks[p][m][Levels]
              /\ Walks[p][m][Levels] # 0 =>
                   data'[Walks[p][m][Levels]] = data[Walks[p][m][Levels]]
    BY <1>0, <2>1, WriteAlone
  <2>3. Private!Put(n) /\ Others
    BY <1>0, <2>2, PutSeen
  <2> QED BY <1>8, <2>2, <2>3
<1>14. CASE UNCHANGED vars
  <2>1. cur' = cur /\ Seen' = Seen
    <3>1. UNCHANGED <<tables, data, taken, refCount, root, cur, tlb, loading, lost>>
      BY <1>14 DEF vars, frameVars
    <3>2. Fresh(Walks, cur', tlb') /\ Kept(Walks, data')
      BY <3>1 DEF ForestInv
    <3>3. Walks' = Walks
      BY <1>0, <3>1, <3>2, QuietStep
    <3>4. leaked' = leaked
      BY <1>14 DEF vars
    <3> QED BY <1>2, <3>1, <3>3, <3>4
  <2> QED BY <1>11, <2>1
<1>15. \A n \in Addrs : ~VirtualAlloc(n) /\ ~VirtualFree(n)
  BY DEF VirtualAlloc, VirtualFree
<1>16. Values # {}
  BY PagingAssumption
<1> QED BY <1>4, <1>6, <1>7, <1>9, <1>10, <1>12, <1>13, <1>14, <1>15, <1>16, <1>18 DEF Next

LEMMA InitSeen == Init => Private!Init
<1> SUFFICES ASSUME Init PROVE Private!Init
  OBVIOUS
<1>1. ForestInv /\ TypeOK
  BY InitForest DEF ForestInv, TypeInv
<1>2. cur \in Procs
  BY DEF Init
<1>3. \A p \in Procs, n \in Addrs : Page(p, n) = 0
  <2>1. ASSUME NEW p \in Procs, NEW n \in Addrs PROVE Walks[p][n][Levels] = 0
    <3>1. PICK k \in 0 .. Levels : k = Levels - 1 /\ Levels \in 1 .. Levels
      BY PagingAssumption
    <3>2. n \in Pages /\ IsWalks(Walks, tables, root)
      BY <1>1, StateWalks DEF Pages
    <3>3. PICK f \in Frames \cup {0} : f = Walks[p][n][k]
      BY <3>2, ForestType DEF IsWalks
    <3>4. Walks[p][n][Levels] = Hop(tables, n, Levels, f)
      BY <3>1, <3>2, <3>3 DEF IsWalks
    <3>5. Index(n, Levels) \in Slots
      BY <3>1, <3>2, NodeFacts
    <3>6. f # 0 => tables[f][Index(n, Levels)].to = 0
      BY <3>3, <3>5 DEF Init, Absent
    <3> QED BY <3>4, <3>6 DEF Hop
  <2>2. \A p \in Procs, n \in Addrs : Page(p, n) = Walks[p][n][Levels]
    BY <1>1, StateFacts DEF Pages
  <2> QED BY <2>1, <2>2
<1>4. Seen = [p \in Procs |-> Private!Empty]
  BY <1>3 DEF Seen, Private!Empty
<1> QED BY <1>2, <1>4 DEF Private!Init

(* Without YY_VirtualAlloc, every step of the system is a step of private  *)
(* memories, a fork making a copy, and changes nothing that another        *)
(* process sees, but the two that the code lets past the page tables: a    *)
(* store through a translation of before the fork, which markAsCoW does    *)
(* not flush, and a store of the kernel, for which CR0.WP is not set, to a *)
(* page that is read-only because it is shared.                            *)
THEOREM OnlyStaleWritesAreShared ==
  ASSUME Allocs = {}
  PROVE  Spec => [][\/ [Private!Next]_(Private!vars) /\ OthersKeepTheirs
                    \/ \E n \in Addrs, x \in Values : StaleWrite(n, x)]_vars
<1>1. Spec => []ForestInv
  BY ForestHolds
<1>2. ForestInv /\ [Next]_vars =>
        [\/ [Private!Next]_(Private!vars) /\ OthersKeepTheirs
         \/ \E n \in Addrs, x \in Values : StaleWrite(n, x)]_vars
  BY StepSeen DEF OthersKeepTheirs
<1> QED BY <1>1, <1>2, PTL DEF Spec

(* When nothing is written past the page tables, because no system call    *)
(* stores to user memory and the processor keeps no writable translation   *)
(* across a fork, the shared trees are private memories                    *)
(* (ImplementsPrivateMemory), for programs that do not allocate.           *)
THEOREM PrivateMemoryImplemented ==
  ASSUME Allocs = {}, Buffers = {}, Cached = {}
  PROVE  Spec => ImplementsPrivateMemory
<1>1. Init => ForestInv /\ NoTranslation
  BY InitForest DEF Init, NoTranslation
<1>2. ForestInv /\ NoTranslation /\ [Next]_vars => ForestInv' /\ NoTranslation'
  BY NextForestInv, NoTranslationHolds
<1>3. Init => Private!Init
  BY InitSeen
<1>4. NoTranslation => \A n \in Addrs, x \in Values : ~StaleWrite(n, x)
  BY DEF NoTranslation, StaleWrite, WriteThroughTLB, KernelWrite
<1>5. ForestInv /\ NoTranslation /\ [Next]_vars => [Private!Next]_(Private!vars)
  BY <1>4, StepSeen
<1> QED BY <1>1, <1>2, <1>3, <1>5, PTL DEF Spec, ImplementsPrivateMemory, Private!Spec

-----------------------------------------------------------------------------
(* A process on its own may allocate memory, too: nothing is marked, since *)
(* there is nobody to fork to, and what mapNewPageAt undoes when no frame  *)
(* is left takes whole subtrees away.  Here the tree of p0 gains the tables*)
(* new[a .. b] on the path to n0 and loses the subtrees of that path at    *)
(* the levels of D.                                                        *)
Pruned(w, tb, tb2, p0, n0, a, b, new, D) ==
  /\ Procs = {p0} /\ n0 \in Pages /\ a \in 1 .. Levels /\ b \in Int /\ b < Levels
  /\ w[p0][n0][a - 1] # 0 /\ w[p0][n0][a] = 0
  /\ D \subseteq 1 .. a - 1 /\ (a <= b => a - 1 \notin D)
  /\ \A i \in a .. b : new[i] \in Frames /\ ~InUse(w, new[i])
  /\ \A i, j \in a .. b : new[i] = new[j] => i = j
  /\ \A i \in a .. b, s \in Slots : tb2[new[i]][s] =
       IF s = Index(n0, i + 1) /\ i + 1 <= b THEN Link(new[i + 1], TRUE) ELSE Absent
  /\ \A f \in Frames, s \in Slots : (\A i \in a .. b : f # new[i]) =>
       tb2[f][s] =
         IF a <= b /\ f = w[p0][n0][a - 1] /\ s = Index(n0, a) THEN Link(new[a], TRUE)
         ELSE IF \E d \in D : f = w[p0][n0][d - 1] /\ s = Index(n0, d) THEN Absent
         ELSE tb[f][s]

Cut(n0, D, m, i) == \E d \in D : d <= i /\ Same(d, m, n0)

IsPruned(v, w, p0, n0, a, b, new, D) ==
  /\ v \in Forests
  /\ \A m \in Pages, i \in 0 .. Levels :
       v[p0][m][i] = IF Cut(n0, D, m, i) THEN 0
                     ELSE IF i \in a .. b /\ Same(i, m, n0) THEN new[i]
                     ELSE w[p0][m][i]

(* Below a missing frame all is missing.                                   *)
LEMMA MissingBelow ==
  ASSUME NEW w, NEW tb, NEW rt, IsWalks(w, tb, rt), NEW p \in Procs, NEW m \in Pages,
         NEW i \in 0 .. Levels, NEW j \in 0 .. Levels, i <= j, w[p][m][i] = 0
  PROVE  w[p][m][j] = 0
<1>1. \A k \in 1 .. Levels : w[p][m][k] = Hop(tb, m, k, w[p][m][k - 1])
  BY DEF IsWalks
<1>2. PICK B : B = {k \in i .. Levels : w[p][m][k] # 0}
  OBVIOUS
<1>3. CASE B = {}
  BY <1>2, <1>3, PagingAssumption
<1>4. CASE B # {}
  <2>1. B \subseteq Nat
    BY <1>2
  <2>2. PICK k \in B : \A y \in B : k <= y
    BY <1>4, <2>1, MinIsLeast
  <2>3. k \in i .. Levels /\ w[p][m][k] # 0 /\ k # i
    BY <1>2, <2>2
  <2>4. PICK h \in 0 .. Levels : h = k - 1 /\ h \in i .. Levels /\ ~(k <= h) /\ k \in 1 .. Levels
    BY <2>3, PagingAssumption
  <2>5. w[p][m][h] = 0
    BY <1>2, <2>2, <2>4
  <2>6. w[p][m][k] = 0
    BY <1>1, <2>4, <2>5 DEF Hop
  <2> QED BY <2>3, <2>6
<1> QED BY <1>3, <1>4

LEMMA PrunedWalks ==
  ASSUME NEW w, NEW tb, NEW tb2, NEW rt, NEW p0, NEW n0, NEW a, NEW b, NEW new, NEW D, NEW v,
         IsWalks(w, tb, rt), OnePlace(w), Pruned(w, tb, tb2, p0, n0, a, b, new, D),
         IsPruned(v, w, p0, n0, a, b, new, D)
  PROVE  IsWalks(v, tb2, rt)
<1>1. /\ Procs = {p0} /\ n0 \in Pages /\ a \in 1 .. Levels /\ b \in Int /\ b < Levels
      /\ w[p0][n0][a - 1] # 0 /\ w[p0][n0][a] = 0
      /\ D \subseteq 1 .. a - 1 /\ (a <= b => a - 1 \notin D)
      /\ w \in Forests /\ v \in Forests /\ Levels \in Nat /\ p0 \in Procs
  BY PagingAssumption DEF Pruned, IsPruned, IsWalks
<1>2. \A m \in Pages, i \in 0 .. Levels :
        v[p0][m][i] = IF Cut(n0, D, m, i) THEN 0
                      ELSE IF i \in a .. b /\ Same(i, m, n0) THEN new[i]
                      ELSE w[p0][m][i]
  BY DEF IsPruned
<1>3. \A m \in Pages : v[p0][m][0] = rt[p0]
  <2>1. \A m \in Pages : ~Cut(n0, D, m, 0)
    BY <1>1 DEF Cut
  <2>2. 0 \in 0 .. Levels /\ 0 \notin a .. b
    BY <1>1
  <2> QED BY <1>1, <1>2, <2>1, <2>2 DEF IsWalks
<1>4. ASSUME NEW m \in Pages, NEW i \in 1 .. Levels
      PROVE  v[p0][m][i] = Hop(tb2, m, i, v[p0][m][i - 1])
  <2>1. PICK k \in 0 .. Levels : k = i - 1 /\ i = k + 1 /\ i \in 0 .. Levels
    BY <1>1
  <2>2. /\ Index(m, i) \in Slots /\ Index(n0, i) \in Slots
        /\ Same(i, m, n0) <=> Same(k, m, n0) /\ Index(m, i) = Index(n0, i)
    BY <1>1, <2>1, NodeFacts
  <2>3. Cut(n0, D, m, i) <=> Cut(n0, D, m, k) \/ (i \in D /\ Same(i, m, n0))
    BY <1>1, <2>1 DEF Cut
  <2>4. w[p0][m][i] = Hop(tb, m, i, w[p0][m][k])
    BY <1>1, <2>1 DEF IsWalks
  <2>5. CASE Cut(n0, D, m, k)
    BY <1>2, <2>1, <2>3, <2>5 DEF Hop
  <2>6. CASE ~Cut(n0, D, m, k) /\ k \in a .. b /\ Same(k, m, n0)
    <3>1. v[p0][m][k] = new[k] /\ new[k] \in Frames /\ new[k] # 0
      BY <1>2, <2>6 DEF Pruned, Frames
    <3>2. tb2[new[k]][Index(m, i)] =
            IF Index(m, i) = Index(n0, i) /\ i <= b THEN Link(new[i], TRUE) ELSE Absent
      <4>1. \A j \in a .. b, s \in Slots : tb2[new[j]][s] =
              IF s = Index(n0, j + 1) /\ j + 1 <= b THEN Link(new[j + 1], TRUE) ELSE Absent
        BY DEF Pruned
      <4>2. tb2[new[k]][Index(m, i)] =
              IF Index(m, i) = Index(n0, k + 1) /\ k + 1 <= b THEN Link(new[k + 1], TRUE) ELSE Absent
        BY <2>2, <2>6, <4>1
      <4> QED BY <2>1, <4>2
    <3>3. Hop(tb2, m, i, new[k]) = IF Same(i, m, n0) /\ i <= b THEN new[i] ELSE 0
      BY <2>2, <2>6, <3>1, <3>2 DEF Hop, Link, Absent
    <3>4. w[p0][m][i] = 0
      <4>1. PICK h \in 0 .. Levels : h = a
        BY <1>1
      <4>2. w[p0][n0][k] = 0
        BY <1>1, <2>6, <4>1, MissingBelow
      <4>3. w[p0][m][k] = 0
        BY <1>1, <2>6, <4>2, SharedPrefix
      <4> QED BY <2>4, <4>3 DEF Hop
    <3>5. ~Cut(n0, D, m, i)
      BY <1>1, <2>1, <2>3, <2>6
    <3>6. i <= b => i \in a .. b
      BY <1>1, <2>1, <2>6
    <3>7. v[p0][m][i] = IF i \in a .. b /\ Same(i, m, n0) THEN new[i] ELSE 0
      BY <1>2, <2>1, <3>4, <3>5
    <3> QED BY <1>1, <2>1, <3>1, <3>3, <3>6, <3>7
  <2>7. CASE ~Cut(n0, D, m, k) /\ ~(k \in a .. b /\ Same(k, m, n0))
    <3>1. PICK f \in Frames \cup {0} : f = w[p0][m][k]
      BY <1>1, ForestType
    <3>2. v[p0][m][k] = f
      BY <1>2, <2>7, <3>1
    <3>3. i \in a .. b /\ Same(i, m, n0) =>
            i = a /\ a <= b /\ Same(k, m, n0) /\ f = w[p0][n0][a - 1] /\ f # 0
      <4>1. ASSUME i \in a .. b, Same(i, m, n0)
            PROVE  i = a /\ a <= b /\ Same(k, m, n0)
        BY <1>1, <2>1, <2>2, <2>7, <4>1
      <4>2. Same(k, m, n0) => w[p0][m][k] = w[p0][n0][k]
        BY <1>1, SharedPrefix
      <4> QED BY <1>1, <2>1, <3>1, <4>1, <4>2
    <3>4. CASE f = 0
      <4>1. w[p0][m][i] = 0
        BY <2>4, <3>1, <3>4 DEF Hop
      <4>2. v[p0][m][i] = 0
        BY <1>2, <2>1, <3>3, <3>4, <4>1
      <4> QED BY <2>1, <3>2, <3>4, <4>2 DEF Hop
    <3>5. CASE f # 0
      <4>1. \A j \in a .. b : f # new[j]
        BY <1>1, <3>1 DEF Pruned, InUse
      <4>2. tb2[f][Index(m, i)] =
              IF a <= b /\ f = w[p0][n0][a - 1] /\ Index(m, i) = Index(n0, a) THEN Link(new[a], TRUE)
              ELSE IF \E d \in D : f = w[p0][n0][d - 1] /\ Index(m, i) = Index(n0, d) THEN Absent
              ELSE tb[f][Index(m, i)]
        BY <2>2, <3>1, <3>5, <4>1 DEF Pruned
      <4>3. ASSUME NEW d \in 1 .. Levels
            PROVE  f = w[p0][n0][d - 1] /\ Index(m, i) = Index(n0, d) <=>
                     d = i /\ Same(i, m, n0)
        <5>1. PICK h \in 0 .. Levels : h = d - 1
          BY <1>1
        <5>2. ASSUME f = w[p0][n0][h], Index(m, i) = Index(n0, d) PROVE d = i /\ Same(i, m, n0)
          <6>1. w[p0][m][k] # 0 /\ w[p0][m][k] = w[p0][n0][h]
            BY <3>1, <3>5, <5>2
          <6>2. k = h /\ Same(k, m, n0)
            BY <1>1, <6>1 DEF OnePlace
          <6> QED BY <2>1, <2>2, <5>1, <5>2, <6>2
        <5>3. ASSUME d = i, Same(i, m, n0) PROVE f = w[p0][n0][h] /\ Index(m, i) = Index(n0, d)
          <6>1. h = k /\ Same(k, m, n0) /\ Index(m, i) = Index(n0, i)
            BY <2>1, <2>2, <5>1, <5>3
          <6>2. w[p0][m][k] = w[p0][n0][k]
            BY <1>1, <6>1, SharedPrefix
          <6> QED BY <3>1, <5>3, <6>1, <6>2
        <5> QED BY <5>1, <5>2, <5>3
      <4>4. \A d \in D : d \in 1 .. Levels
        BY <1>1
      <4>5. tb2[f][Index(m, i)] =
              IF a <= b /\ a = i /\ Same(i, m, n0) THEN Link(new[a], TRUE)
              ELSE IF i \in D /\ Same(i, m, n0) THEN Absent ELSE tb[f][Index(m, i)]
        BY <1>1, <4>2, <4>3, <4>4
      <4>6. w[p0][m][i] = tb[f][Index(m, i)].to
        BY <2>4, <3>1, <3>5 DEF Hop
      <4>7. Hop(tb2, m, i, f) =
              IF a <= b /\ a = i /\ Same(i, m, n0) THEN new[a]
              ELSE IF i \in D /\ Same(i, m, n0) THEN 0 ELSE w[p0][m][i]
        BY <3>5, <4>5, <4>6 DEF Hop, Link, Absent
      <4>8. i \in D => i # a
        BY <1>1
      <4>9. v[p0][m][i] = IF i \in D /\ Same(i, m, n0) THEN 0
                          ELSE IF i \in a .. b /\ Same(i, m, n0) THEN new[i]
                          ELSE w[p0][m][i]
        BY <1>2, <2>1, <2>3, <2>7
      <4>10. i \in a .. b /\ Same(i, m, n0) <=> a <= b /\ a = i /\ Same(i, m, n0)
        BY <1>1, <3>3
      <4> QED BY <2>1, <3>2, <4>7, <4>8, <4>9, <4>10
    <3> QED BY <3>4, <3>5
  <2> QED BY <2>5, <2>6, <2>7
<1> QED BY <1>1, <1>3, <1>4 DEF IsWalks

(* What is left or new.                                                    *)
LeftOrNew(v, w, tb, tb2, p0, n0, a, b, new, D) ==
  /\ \A m \in Pages, i \in 0 .. Levels : v[p0][m][i] # 0 =>
       \/ v[p0][m][i] = w[p0][m][i] /\ ~Cut(n0, D, m, i)
       \/ i \in a .. b /\ Same(i, m, n0) /\ v[p0][m][i] = new[i]
  /\ \A m \in Pages, i \in 1 .. Levels : v[p0][m][i] # 0 =>
       \/ i \in a .. b /\ Entry(v, tb2, p0, m, i) = Link(new[i], TRUE)
       \/ /\ w[p0][m][i] = v[p0][m][i]
          /\ Entry(v, tb2, p0, m, i) = Entry(w, tb, p0, m, i)

LEMMA PrunedFacts ==
  ASSUME NEW w, NEW tb, NEW tb2, NEW rt, NEW p0, NEW n0, NEW a, NEW b, NEW new, NEW D, NEW v,
         IsWalks(w, tb, rt), OnePlace(w), Pruned(w, tb, tb2, p0, n0, a, b, new, D),
         IsPruned(v, w, p0, n0, a, b, new, D)
  PROVE  OnePlace(v) /\ LeftOrNew(v, w, tb, tb2, p0, n0, a, b, new, D)
<1>1. /\ Procs = {p0} /\ n0 \in Pages /\ a \in 1 .. Levels /\ b \in Int /\ b < Levels
      /\ w[p0][n0][a - 1] # 0 /\ w[p0][n0][a] = 0
      /\ D \subseteq 1 .. a - 1 /\ (a <= b => a - 1 \notin D)
      /\ w \in Forests /\ v \in Forests /\ Levels \in Nat /\ p0 \in Procs
      /\ IsWalks(v, tb2, rt)
  <2>1. IsWalks(v, tb2, rt)
    BY PrunedWalks
  <2>2. w \in Forests /\ v \in Forests /\ Levels \in Nat
    BY PagingAssumption DEF IsPruned, IsWalks
  <2> QED BY <2>1, <2>2 DEF Pruned
<1>2. ASSUME NEW m \in Pages, NEW i \in 0 .. Levels, v[p0][m][i] # 0
      PROVE  \/ v[p0][m][i] = w[p0][m][i] /\ ~Cut(n0, D, m, i)
             \/ i \in a .. b /\ Same(i, m, n0) /\ v[p0][m][i] = new[i]
  BY <1>2 DEF IsPruned
<1>3. /\ \A i \in a .. b : new[i] \in Frames /\ ~InUse(w, new[i])
      /\ \A i, j \in a .. b : new[i] = new[j] => i = j
  BY DEF Pruned
<1>4. OnePlace(v)
  <2>1. ASSUME NEW n \in Pages, NEW m \in Pages, NEW i \in 0 .. Levels, NEW j \in 0 .. Levels,
               v[p0][n][i] # 0, v[p0][n][i] = v[p0][m][j]
        PROVE  i = j /\ Same(i, n, m)
    <3>1. CASE v[p0][n][i] = w[p0][n][i] /\ v[p0][m][j] = w[p0][m][j]
      <4>1. w[p0][n][i] # 0 /\ w[p0][n][i] = w[p0][m][j]
        BY <2>1, <3>1
      <4> QED BY <1>1, <4>1 DEF OnePlace
    <3>2. CASE /\ i \in a .. b /\ Same(i, n, n0) /\ v[p0][n][i] = new[i]
               /\ j \in a .. b /\ Same(j, m, n0) /\ v[p0][m][j] = new[j]
      <4>1. i = j
        BY <1>3, <2>1, <3>2
      <4> QED BY <3>2, <4>1 DEF Same
    <3>3. CASE v[p0][n][i] = w[p0][n][i] /\ j \in a .. b /\ v[p0][m][j] = new[j]
      <4>1. w[p0][n][i] = new[j]
        BY <2>1, <3>3
      <4> QED BY <1>1, <1>3, <3>3, <4>1 DEF InUse
    <3>4. CASE v[p0][m][j] = w[p0][m][j] /\ i \in a .. b /\ v[p0][n][i] = new[i]
      <4>1. w[p0][m][j] = new[i]
        BY <2>1, <3>4
      <4> QED BY <1>1, <1>3, <3>4, <4>1 DEF InUse
    <3>5. v[p0][m][j] # 0
      BY <2>1
    <3> QED BY <1>2, <2>1, <3>1, <3>2, <3>3, <3>4, <3>5
  <2> QED BY <1>1, <2>1 DEF OnePlace
<1>5. ASSUME NEW m \in Pages, NEW i \in 1 .. Levels, v[p0][m][i] # 0
      PROVE  \/ i \in a .. b /\ Entry(v, tb2, p0, m, i) = Link(new[i], TRUE)
             \/ /\ w[p0][m][i] = v[p0][m][i]
                /\ Entry(v, tb2, p0, m, i) = Entry(w, tb, p0, m, i)
  <2>1. PICK k \in 0 .. Levels : k = i - 1 /\ i = k + 1 /\ i \in 0 .. Levels
    BY <1>1
  <2>2. /\ Index(m, i) \in Slots
        /\ Same(i, m, n0) <=> Same(k, m, n0) /\ Index(m, i) = Index(n0, i)
    BY <1>1, <2>1, NodeFacts
  <2>3. PICK g \in Frames \cup {0} : g = v[p0][m][k]
    BY <1>1, ForestType
  <2>4. g # 0 /\ v[p0][m][i] = tb2[g][Index(m, i)].to
    BY <1>1, <1>5, <2>1, <2>3 DEF IsWalks, Hop
  <2>5. Entry(v, tb2, p0, m, i) = tb2[g][Index(m, i)]
    BY <2>1, <2>3 DEF Entry
  <2>6. CASE k \in a .. b /\ g = new[k]
    <3>1. tb2[g][Index(m, i)] =
            IF Index(m, i) = Index(n0, i) /\ i <= b THEN Link(new[i], TRUE) ELSE Absent
      <4>1. \A j \in a .. b, s \in Slots : tb2[new[j]][s] =
              IF s = Index(n0, j + 1) /\ j + 1 <= b THEN Link(new[j + 1], TRUE) ELSE Absent
        BY DEF Pruned
      <4>2. tb2[g][Index(m, i)] =
              IF Index(m, i) = Index(n0, k + 1) /\ k + 1 <= b THEN Link(new[k + 1], TRUE) ELSE Absent
        BY <2>2, <2>6, <4>1
      <4> QED BY <2>1, <4>2
    <3>2. tb2[g][Index(m, i)] # Absent
      BY <1>5, <2>4 DEF Absent
    <3>3. i <= b => i \in a .. b
      BY <1>1, <2>1, <2>6
    <3> QED BY <2>5, <3>1, <3>2, <3>3
  <2>7. CASE ~(k \in a .. b /\ g = new[k])
    <3>1. g = w[p0][m][k]
      BY <1>2, <2>3, <2>4, <2>7
    <3>2. \A j \in a .. b : g # new[j]
      BY <1>1, <1>3, <3>1 DEF InUse
    <3>3. tb2[g][Index(m, i)] =
              IF a <= b /\ g = w[p0][n0][a - 1] /\ Index(m, i) = Index(n0, a) THEN Link(new[a], TRUE)
              ELSE IF \E d \in D : g = w[p0][n0][d - 1] /\ Index(m, i) = Index(n0, d) THEN Absent
              ELSE tb[g][Index(m, i)]
      BY <2>2, <2>3, <2>4, <3>2 DEF Pruned
    <3>4. CASE a <= b /\ g = w[p0][n0][a - 1] /\ Index(m, i) = Index(n0, a)
      <4>1. PICK h \in 0 .. Levels : h = a - 1
        BY <1>1
      <4>2. w[p0][m][k] # 0 /\ w[p0][m][k] = w[p0][n0][h]
        BY <2>4, <3>1, <3>4, <4>1
      <4>3. k = h
        BY <1>1, <4>2 DEF OnePlace
      <4>4. i = a /\ i \in a .. b
        BY <1>1, <2>1, <3>4, <4>1, <4>3
      <4> QED BY <2>5, <3>3, <3>4, <4>4
    <3>5. CASE ~(a <= b /\ g = w[p0][n0][a - 1] /\ Index(m, i) = Index(n0, a))
      <4>1. tb2[g][Index(m, i)] # Absent
        BY <1>5, <2>4 DEF Absent
      <4>2. tb2[g][Index(m, i)] = tb[g][Index(m, i)]
        BY <3>3, <3>5, <4>1
      <4>3. w[p0][m][i] = tb[g][Index(m, i)].to
        BY <1>1, <2>1, <2>4, <3>1 DEF IsWalks, Hop
      <4> QED BY <2>1, <2>4, <2>5, <3>1, <4>2, <4>3 DEF Entry
    <3> QED BY <3>4, <3>5
  <2> QED BY <2>6, <2>7
<1> QED BY <1>2, <1>4, <1>5 DEF LeftOrNew

(* New flags for an entry: mapNewPageAt of a page that is there.           *)
LEMMA RelinkedWalks ==
  ASSUME NEW w, NEW tb, NEW tb2, NEW rt, IsWalks(w, tb, rt), NEW f0, NEW s0, NEW e,
         e.to = tb[f0][s0].to,
         \A f \in Frames, s \in Slots : tb2[f][s] = IF f = f0 /\ s = s0 THEN e ELSE tb[f][s]
  PROVE  IsWalks(w, tb2, rt)
<1>1. w \in Forests /\ \A p \in Procs, n \in Pages : w[p][n][0] = rt[p]
  BY DEF IsWalks
<1>2. ASSUME NEW p \in Procs, NEW n \in Pages, NEW i \in 1 .. Levels
      PROVE  w[p][n][i] = Hop(tb2, n, i, w[p][n][i - 1])
  <2>1. PICK k \in 0 .. Levels : k = i - 1
    BY PagingAssumption
  <2>2. PICK f \in Frames \cup {0} : f = w[p][n][k]
    BY <1>1, ForestType
  <2>3. w[p][n][i] = Hop(tb, n, i, f) /\ Index(n, i) \in Slots
    BY <2>1, <2>2, NodeFacts DEF IsWalks
  <2>4. f # 0 => tb2[f][Index(n, i)].to = tb[f][Index(n, i)].to
    BY <2>2, <2>3
  <2> QED BY <2>1, <2>2, <2>3, <2>4 DEF Hop
<1> QED BY <1>1, <1>2 DEF IsWalks

(* The invariant of a process on its own.  Frames of its tree are taken;   *)
(* nothing is marked; when it asks for no address of its read-only pages,  *)
(* these stay what they are, and no translation that the TLB holds, though *)
(* it may be of a page that is gone, leads to one of them or to a table.   *)
Alone == \E p : Procs = {p}

NoCow(w, tb) ==
  \A p \in Procs, n \in Pages, i \in 1 .. Levels : w[p][n][i] # 0 => ~Entry(w, tb, p, n, i).cow

ReadOnlyPages(w, tb, tk, dt, tl) ==
  /\ \A p \in Procs, n \in ReadOnly : w[p][n][Levels] # 0 =>
       ~Entry(w, tb, p, n, Levels).writable /\ dt[w[p][n][Levels]] = Loaded
  /\ \A n \in Addrs : tl[n] # 0 =>
       /\ tl[n] \in tk
       /\ \A p \in Procs, m \in Pages, i \in 0 .. Levels :
            w[p][m][i] = tl[n] => i = Levels /\ m \notin ReadOnly

InBitmap(w, tk) == \A f \in Frames : InUse(w, f) => f \in tk

LoneInv ==
  /\ TypeInv
  /\ OnePlace(Walks) /\ InBitmap(Walks, taken) /\ NoCow(Walks, tables)
  /\ Allocs \cap ReadOnly = {} => ReadOnlyPages(Walks, tables, taken, data, tlb)

LEMMA NextLone ==
  ASSUME TypeInv', NEW v, IsWalks(v, tables', root'), OnePlace(v), InBitmap(v, taken'),
         NoCow(v, tables'),
         Allocs \cap ReadOnly = {} => ReadOnlyPages(v, tables', taken', data', tlb')
  PROVE  LoneInv'
<1>1. Walks' = v
  BY NextWalks DEF TypeInv
<1> QED BY <1>1 DEF LoneInv

(* Steps that leave the tree alone.                                        *)
LEMMA LoneQuiet ==
  ASSUME LoneInv, TypeInv', UNCHANGED <<tables, taken, root>>,
         Allocs \cap ReadOnly = {} => ReadOnlyPages(Walks, tables, taken, data', tlb')
  PROVE  LoneInv'
<1>1. PICK w : w = Walks
  OBVIOUS
<1>2. IsWalks(w, tables', root')
  BY <1>1, StateWalks DEF LoneInv, TypeInv
<1>3. OnePlace(w) /\ InBitmap(w, taken') /\ NoCow(w, tables')
  BY <1>1 DEF LoneInv
<1>4. Allocs \cap ReadOnly = {} => ReadOnlyPages(w, tables', taken', data', tlb')
  BY <1>1
<1> QED BY <1>2, <1>3, <1>4, NextLone

LEMMA LoneWrite ==
  ASSUME LoneInv, TypeInv', NEW n \in Addrs, NEW x,
         Write(n, x) \/ WriteThroughTLB(n, x) \/ KernelWrite(n, x)
  PROVE  LoneInv'
<1>1. /\ UNCHANGED <<tables, taken, root>> /\ InUser
      /\ tlb' = tlb \/ (Write(n, x) /\ tlb' = [tlb EXCEPT ![n] = Page(cur, n)])
  BY DEF Write, WriteThroughTLB, KernelWrite
<1>2. PICK w : w = Walks
  OBVIOUS
<1>3. /\ cur \in Procs /\ TypeOK /\ n \in Pages /\ Levels \in 1 .. Levels /\ Levels \in 0 .. Levels
      /\ ReadOnly \subseteq Pages
  BY <1>1, PagingAssumption DEF InUser, LoneInv, TypeInv, TypeOK, Pages
<1>4. IsWalks(w, tables, root) /\ w \in Forests /\ OnePlace(w) /\ InBitmap(w, taken)
      /\ NoCow(w, tables)
  BY <1>2, <1>3, StateWalks DEF IsWalks, LoneInv
<1>5. /\ Page(cur, n) = w[cur][n][Levels]
      /\ EntryAt(cur, n, Levels) = Entry(w, tables, cur, n, Levels)
  BY <1>2, <1>3, StateFacts
<1>6. ASSUME ReadOnlyPages(w, tables, taken, data, tlb)
      PROVE  ReadOnlyPages(w, tables, taken, data', tlb')
  <2>1. Write(n, x) \/ KernelWrite(n, x) =>
          n \notin ReadOnly /\ w[cur][n][Levels] # 0
    <3>1. Write(n, x) \/ KernelWrite(n, x) =>
            /\ w[cur][n][Levels] # 0
            /\ Entry(w, tables, cur, n, Levels).writable \/ Entry(w, tables, cur, n, Levels).cow
      BY <1>3, <1>5 DEF Write, KernelWrite, HardwareWritable, KernelWritable
    <3>2. w[cur][n][Levels] # 0 => ~Entry(w, tables, cur, n, Levels).cow
      BY <1>3, <1>4 DEF NoCow
    <3>3. n \in ReadOnly /\ w[cur][n][Levels] # 0 => ~Entry(w, tables, cur, n, Levels).writable
      BY <1>3, <1>6 DEF ReadOnlyPages
    <3> QED BY <3>1, <3>2, <3>3
  <2>2. \A m \in Pages, i \in 0 .. Levels, p \in Procs :
          w[cur][n][Levels] # 0 /\ w[p][m][i] = w[cur][n][Levels] => i = Levels /\ m = n
    <3>1. ASSUME NEW m \in Pages, NEW i \in 0 .. Levels, NEW p \in Procs,
                 w[cur][n][Levels] # 0, w[p][m][i] = w[cur][n][Levels]
          PROVE  i = Levels /\ m = n
      <4>1. w[cur][n][Levels] # 0 /\ w[cur][n][Levels] = w[p][m][i]
        BY <3>1
      <4>2. i = Levels /\ Same(Levels, n, m)
        BY <1>3, <1>4, <4>1 DEF OnePlace
      <4> QED BY <1>3, <4>2, NodeFacts
    <3> QED BY <3>1
  <2>3. PICK f : /\ data' = [data EXCEPT ![f] = x]
                 /\ \A p \in Procs, m \in ReadOnly : w[p][m][Levels] # 0 => w[p][m][Levels] # f
    <3>1. CASE Write(n, x) \/ KernelWrite(n, x)
      <4>1. data' = [data EXCEPT ![w[cur][n][Levels]] = x]
        BY <1>5, <3>1 DEF Write, KernelWrite
      <4>2. \A p \in Procs, m \in ReadOnly :
              w[p][m][Levels] # 0 => w[p][m][Levels] # w[cur][n][Levels]
        BY <1>3, <2>1, <2>2, <3>1
      <4> QED BY <4>1, <4>2
    <3>2. CASE WriteThroughTLB(n, x)
      <4>1. data' = [data EXCEPT ![tlb[n]] = x] /\ tlb[n] # 0
        BY <3>2 DEF WriteThroughTLB
      <4>2. \A p \in Procs, m \in ReadOnly : w[p][m][Levels] # tlb[n]
        BY <1>3, <1>6, <4>1 DEF ReadOnlyPages
      <4> QED BY <4>1, <4>2
    <3> QED BY <3>1, <3>2
  <2>4. ASSUME NEW p \in Procs, NEW m \in ReadOnly, w[p][m][Levels] # 0
        PROVE  ~Entry(w, tables, p, m, Levels).writable /\ data'[w[p][m][Levels]] = Loaded
    <3>1. w[p][m][Levels] \in Frames /\ data \in [Frames -> Values]
      BY <1>3, <1>4, <2>4, ForestType DEF TypeOK
    <3> QED BY <1>6, <2>3, <2>4, <3>1 DEF ReadOnlyPages
  <2>5. ASSUME NEW k \in Addrs, tlb'[k] # 0
        PROVE  /\ tlb'[k] \in taken
               /\ \A p \in Procs, m \in Pages, i \in 0 .. Levels :
                    w[p][m][i] = tlb'[k] => i = Levels /\ m \notin ReadOnly
    <3>1. CASE tlb'[k] = tlb[k]
      BY <1>6, <2>5, <3>1 DEF ReadOnlyPages
    <3>2. CASE tlb'[k] # tlb[k]
      <4>1. Write(n, x) /\ tlb'[k] = w[cur][n][Levels]
        BY <1>1, <1>3, <1>5, <3>2 DEF TypeOK
      <4>2. n \notin ReadOnly /\ w[cur][n][Levels] # 0
        BY <2>1, <4>1
      <4>3. w[cur][n][Levels] \in Frames /\ InUse(w, w[cur][n][Levels])
        BY <1>3, <1>4, <4>2, ForestType DEF InUse
      <4> QED BY <1>4, <2>2, <4>1, <4>2, <4>3 DEF InBitmap
    <3> QED BY <3>1, <3>2
  <2> QED BY <2>4, <2>5 DEF ReadOnlyPages
<1>7. Allocs \cap ReadOnly = {} => ReadOnlyPages(Walks, tables, taken, data', tlb')
  BY <1>2, <1>6 DEF LoneInv
<1> QED BY <1>1, <1>7, LoneQuiet

(* exit and exec.                                                          *)
LEMMA LoneDrop ==
  ASSUME Alone, LoneInv, TypeInv', cur # Nobody, Deallocate, NEW r0 \in {0, root[cur]},
         root' = [root EXCEPT ![cur] = r0]
  PROVE  LoneInv'
<1>1. /\ TypeOK /\ cur \in Procs /\ root[cur] # 0 /\ root[cur] \in Frames
      /\ root \in [Procs -> Frames \cup {0}] /\ 0 \in Pages /\ 0 \in 0 .. Levels
  BY PagingAssumption DEF LoneInv, TypeInv, TypeOK, Pages
<1>2. PICK w : w = Walks
  OBVIOUS
<1>3. IsWalks(w, tables, root) /\ OnePlace(w) /\ InBitmap(w, taken) /\ w \in Forests
  BY <1>1, <1>2, StateWalks DEF LoneInv, IsWalks
<1>4. w[cur][0][0] = root[cur]
  BY <1>1, <1>2, StateFacts
<1>5. Procs = {cur}
  BY <1>1 DEF Alone
<1> DEFINE v == [p \in Procs |-> [m \in Pages |-> [i \in 0 .. Levels |->
                   IF p # cur THEN w[p][m][i] ELSE IF i = 0 THEN r0 ELSE 0]]]
<1>6. IsDropped(v, w, cur, r0)
  <2>1. \A p \in Procs, m \in Pages, i \in 0 .. Levels : w[p][m][i] \in Frames \cup {0}
    BY <1>3, ForestType
  <2>2. r0 \in Frames \cup {0}
    BY <1>1
  <2>3. v \in Forests
    BY <2>1, <2>2 DEF Forests
  <2>4. \A p \in Procs, m \in Pages, i \in 0 .. Levels :
          v[p][m][i] = IF p # cur THEN w[p][m][i] ELSE IF i = 0 THEN r0 ELSE 0
    OBVIOUS
  <2> HIDE DEF v
  <2> QED BY <1>1, <1>4, <2>3, <2>4 DEF IsDropped
<1> HIDE DEF v
<1>7. Dropped(w, tables, tables', cur)
  <2>1. tables' = [tables EXCEPT ![root[cur]] = [s \in Slots |-> Absent]]
    BY DEF Deallocate
  <2> QED BY <1>1, <1>4, <2>1 DEF Dropped, TypeOK
<1>8. IsWalks(v, tables', root')
  <2>1. PICK tb2, rt2 : tb2 = tables' /\ rt2 = root'
    OBVIOUS
  <2>2. \A p \in Procs : rt2[p] = IF p = cur THEN r0 ELSE root[p]
    BY <1>1, <2>1
  <2>3. Dropped(w, tables, tb2, cur)
    BY <1>7, <2>1
  <2>4. IsWalks(v, tb2, rt2)
    BY <1>3, <1>6, <2>2, <2>3, DroppedWalks
  <2> QED BY <2>1, <2>4
<1>9. OnePlace(v)
  BY <1>3, <1>6, DroppedOnePlace
<1>10. \A p \in Procs, m \in Pages, i \in 0 .. Levels : v[p][m][i] = IF i = 0 THEN r0 ELSE 0
  BY <1>5, <1>6 DEF IsDropped
<1>11. InBitmap(v, taken')
  <2>1. ASSUME NEW f \in Frames, InUse(v, f) PROVE f \in taken'
    <3>1. f = root[cur] /\ f # 0
      BY <1>10, <2>1 DEF InUse, Frames
    <3>2. InUse(w, f)
      BY <1>1, <1>4, <3>1 DEF InUse
    <3>3. f \notin Below(root[cur])
      <4>1. ASSUME f \in Below(root[cur]) PROVE FALSE
        <5>1. PICK n \in Pages, i \in 1 .. Levels : f = w[cur][n][i]
          BY <1>1, <1>2, <4>1, BelowIs
        <5>2. i \in 0 .. Levels /\ i # 0
          OBVIOUS
        <5>3. w[cur][n][i] = w[cur][0][0]
          BY <1>4, <3>1, <5>1
        <5> QED BY <1>1, <1>3, <1>4, <5>2, <5>3, RootFacts
      <4> QED BY <4>1
    <3>4. taken' = taken \ FreedBy(Below(root[cur]))
      BY DEF Deallocate
    <3> QED BY <1>3, <3>2, <3>3, <3>4 DEF InBitmap, FreedBy
  <2> QED BY <2>1 DEF InBitmap
<1>12. \A p \in Procs, m \in Pages, i \in 1 .. Levels : v[p][m][i] = 0
  <2>1. \A i \in 1 .. Levels : i \in 0 .. Levels /\ i # 0
    OBVIOUS
  <2> QED BY <1>10, <2>1
<1>13. NoCow(v, tables')
  BY <1>12 DEF NoCow
<1>14. ReadOnlyPages(v, tables', taken', data', tlb')
  <2>1. Levels \in 1 .. Levels /\ ReadOnly \subseteq Pages
    BY PagingAssumption DEF Pages
  <2>2. \A n \in Addrs : tlb'[n] = 0
    BY DEF Deallocate
  <2> QED BY <1>12, <2>1, <2>2 DEF ReadOnlyPages
<1> QED BY <1>8, <1>9, <1>11, <1>13, <1>14, NextLone

(* mapNewPageAt at an address without a page.                              *)
LEMMA LoneGrow ==
  ASSUME Alone, LoneInv, TypeInv', cur \in Procs, UNCHANGED <<root, cur>>,
         NEW n \in Addrs, NEW x \in BOOLEAN, MapPage(n, x), Page(cur, n) = 0,
         data' = data \/ data' = [data EXCEPT ![Page(cur, n)'] = Loaded],
         Allocs \cap ReadOnly = {} /\ n \in ReadOnly =>
           ~x /\ data' = [data EXCEPT ![Page(cur, n)'] = Loaded]
  PROVE  LoneInv'
<1>1. Procs = {cur} /\ TypeOK /\ TypeOK'
  BY DEF Alone, LoneInv, TypeInv
<1>2. Own(Walks, tables, cur, TRUE)
  BY DEF LoneInv, NoCow, Own
<1>3. PICK a, new, patch :
        /\ Regrown(Walks, tables, tables', cur, n, a, new, patch)
        /\ patch[Levels].writable = x
        /\ CountsGrow(Walks, cur, n, a, new, taken, refCount, taken', refCount')
        /\ taken \subseteq taken' /\ tlb' = [tlb EXCEPT ![n] = 0]
  <2>1. \A f \in Frames : InUse(Walks, f) => f \in taken
    BY DEF LoneInv, InBitmap
  <2>2. TypeInv /\ OnePlace(Walks)
    BY DEF LoneInv
  <2> QED BY <1>1, <1>2, <2>1, <2>2, MapGrows
<1>4. PICK w, v, tb2, tk2 : w = Walks /\ v = Walks' /\ tb2 = tables' /\ tk2 = taken'
  OBVIOUS
<1>5. /\ IsWalks(w, tables, root) /\ w \in Forests /\ OnePlace(w) /\ InBitmap(w, taken)
      /\ NoCow(w, tables)
  BY <1>1, <1>4, StateWalks DEF IsWalks, LoneInv
<1>6. Regrown(w, tables, tb2, cur, n, a, new, patch)
  BY <1>3, <1>4
<1>7. IsGrown(v, w, cur, n, a, new)
  <2>1. TypeInv /\ OnePlace(Walks)
    BY DEF LoneInv
  <2>2. IsGrown(Walks', Walks, cur, n, a, new)
    BY <1>3, <2>1, GrownWalks
  <2> QED BY <1>4, <2>2
<1>8. /\ a \in 1 .. Levels /\ Levels \in a .. Levels /\ Levels \in 1 .. Levels
      /\ Levels \in 0 .. Levels /\ n \in Pages /\ ReadOnly \subseteq Pages
      /\ new \in [a .. Levels -> Frames]
      /\ \A i \in a .. Levels : ~InUse(w, new[i]) /\ ~patch[i].cow
  <2>1. a \in 1 .. Levels /\ new \in [a .. Levels -> Frames] /\ n \in Pages
        /\ \A i \in a .. Levels : ~InUse(w, new[i]) /\ ~patch[i].cow
    BY <1>6 DEF Regrown
  <2> QED BY <2>1, PagingAssumption DEF Pages
<1>9. IsWalks(v, tb2, root)
  BY <1>5, <1>6, <1>7, RegrownWalks
<1>10. OnePlace(v)
  BY <1>5, <1>6, <1>7, RegrownOnePlace
<1>11. ASSUME NEW m \in Pages, NEW i \in 1 .. Levels, v[cur][m][i] # 0
       PROVE  /\ Entry(v, tb2, cur, m, i) = IF OnPath(cur, n, a, cur, m, i) THEN patch[i]
                                            ELSE Entry(w, tables, cur, m, i)
              /\ ~OnPath(cur, n, a, cur, m, i) => w[cur][m][i] = v[cur][m][i]
              /\ OnPath(cur, n, a, cur, m, i) => i \in a .. Levels
  <2>1. OnPath(cur, n, a, cur, m, i) => i \in a .. Levels
    BY <1>8 DEF OnPath
  <2> QED BY <1>5, <1>6, <1>7, <1>11, <2>1, RegrownPresent
<1>12. NoCow(v, tb2)
  <2>1. ASSUME NEW m \in Pages, NEW i \in 1 .. Levels, v[cur][m][i] # 0
        PROVE  ~Entry(v, tb2, cur, m, i).cow
    <3>1. CASE OnPath(cur, n, a, cur, m, i)
      BY <1>8, <1>11, <2>1, <3>1
    <3>2. CASE ~OnPath(cur, n, a, cur, m, i)
      <4>1. w[cur][m][i] # 0 /\ Entry(v, tb2, cur, m, i) = Entry(w, tables, cur, m, i)
        BY <1>11, <2>1, <3>2
      <4> QED BY <1>5, <4>1 DEF NoCow
    <3> QED BY <3>1, <3>2
  <2> QED BY <1>1, <2>1 DEF NoCow
<1>13. ASSUME NEW m \in Pages, NEW i \in 0 .. Levels
       PROVE  \/ v[cur][m][i] = w[cur][m][i] /\ ~OnPath(cur, n, a, cur, m, i)
              \/ i \in a .. Levels /\ Same(i, m, n) /\ v[cur][m][i] = new[i]
  <2>1. v[cur][m][i] = IF OnPath(cur, n, a, cur, m, i) THEN new[i] ELSE w[cur][m][i]
    BY <1>7 DEF IsGrown
  <2> QED BY <1>8, <2>1 DEF OnPath
<1>14. /\ \A i \in a .. Levels : new[i] \notin taken /\ new[i] \in tk2
       /\ taken \subseteq tk2
  BY <1>3, <1>4, <1>8 DEF CountsGrow
<1>15. InBitmap(v, tk2)
  <2>1. ASSUME NEW f \in Frames, InUse(v, f) PROVE f \in tk2
    <3>1. PICK m \in Pages, i \in 0 .. Levels : v[cur][m][i] = f
      BY <1>1, <2>1 DEF InUse
    <3>2. CASE v[cur][m][i] = w[cur][m][i]
      BY <1>5, <1>14, <3>1, <3>2 DEF InUse, InBitmap
    <3> QED BY <1>13, <1>14, <3>1, <3>2
  <2> QED BY <2>1 DEF InBitmap
<1>16. Page(cur, n)' = new[Levels] /\ v[cur][n][Levels] = new[Levels]
  <2>1. OnPath(cur, n, a, cur, n, Levels)
    BY <1>8 DEF OnPath, Same
  <2>2. v[cur][n][Levels] = new[Levels]
    BY <1>8, <1>13, <2>1
  <2>3. cur' = cur /\ cur' \in Procs
    OBVIOUS
  <2>4. Page(cur, n)' = Walks'[cur'][n][Levels]
    BY <1>1, <1>8, <2>3, PageNext
  <2> QED BY <1>4, <2>2, <2>3, <2>4
<1>17. ASSUME NEW f \in Frames, f # new[Levels] PROVE data'[f] = data[f]
  <2>1. data \in [Frames -> Values]
    BY <1>1 DEF TypeOK
  <2> QED BY <1>16, <1>17, <2>1
<1>18. ASSUME ReadOnlyPages(w, tables, taken, data, tlb), Allocs \cap ReadOnly = {}
       PROVE  ReadOnlyPages(v, tb2, tk2, data', tlb')
  <2>1. ASSUME NEW m \in ReadOnly, v[cur][m][Levels] # 0
        PROVE  ~Entry(v, tb2, cur, m, Levels).writable /\ data'[v[cur][m][Levels]] = Loaded
    <3>1. CASE OnPath(cur, n, a, cur, m, Levels)
      <4>1. m = n
        BY <1>8, <3>1, NodeFacts DEF OnPath
      <4>2. data' = [data EXCEPT ![new[Levels]] = Loaded] /\ ~x
        BY <1>16, <1>18, <4>1
      <4>3. new[Levels] \in Frames /\ data \in [Frames -> Values]
        BY <1>1, <1>8 DEF TypeOK
      <4>4. Entry(v, tb2, cur, m, Levels) = patch[Levels]
        BY <1>8, <1>11, <2>1, <3>1
      <4> QED BY <1>3, <1>16, <4>1, <4>2, <4>3, <4>4
    <3>2. CASE ~OnPath(cur, n, a, cur, m, Levels)
      <4>1. /\ w[cur][m][Levels] = v[cur][m][Levels] /\ w[cur][m][Levels] # 0
            /\ Entry(v, tb2, cur, m, Levels) = Entry(w, tables, cur, m, Levels)
        BY <1>8, <1>11, <2>1, <3>2
      <4>2. ~Entry(w, tables, cur, m, Levels).writable /\ data[w[cur][m][Levels]] = Loaded
        BY <1>18, <4>1 DEF ReadOnlyPages
      <4>3. w[cur][m][Levels] \in Frames /\ w[cur][m][Levels] # new[Levels]
        BY <1>5, <1>8, <4>1, ForestType DEF InUse
      <4> QED BY <1>17, <4>1, <4>2, <4>3
    <3> QED BY <3>1, <3>2
  <2>2. ASSUME NEW k \in Addrs, tlb'[k] # 0
        PROVE  /\ tlb'[k] \in tk2
               /\ \A m \in Pages, i \in 0 .. Levels :
                    v[cur][m][i] = tlb'[k] => i = Levels /\ m \notin ReadOnly
    <3>1. tlb'[k] = tlb[k] /\ tlb[k] # 0
      BY <1>1, <1>3, <2>2 DEF TypeOK
    <3>2. /\ tlb[k] \in taken
          /\ \A m \in Pages, i \in 0 .. Levels :
               w[cur][m][i] = tlb[k] => i = Levels /\ m \notin ReadOnly
      BY <1>18, <3>1 DEF ReadOnlyPages
    <3>3. \A i \in a .. Levels : new[i] # tlb[k]
      BY <1>14, <3>2
    <3> QED BY <1>13, <1>14, <3>1, <3>2, <3>3
  <2> QED BY <1>1, <2>1, <2>2 DEF ReadOnlyPages
<1>19. Allocs \cap ReadOnly = {} => ReadOnlyPages(v, tables', taken', data', tlb')
  BY <1>4, <1>18 DEF LoneInv
<1>20. IsWalks(v, tables', root') /\ InBitmap(v, taken') /\ NoCow(v, tables')
  BY <1>4, <1>9, <1>12, <1>15
<1> QED BY <1>10, <1>19, <1>20, NextLone

(* mapNewPageAt of a page that is there.                                   *)
LEMMA LoneRelink ==
  ASSUME Alone, LoneInv, TypeInv', cur \in Procs, UNCHANGED <<root, data>>,
         NEW n \in Addrs, MapPage(n, TRUE), Page(cur, n) # 0,
         Allocs \cap ReadOnly = {} => n \notin ReadOnly
  PROVE  LoneInv'
<1>1. /\ Procs = {cur} /\ TypeOK /\ n \in Pages /\ root[cur] # 0 /\ cur # Nobody
      /\ Levels \in Nat \ {0, 1} /\ tables \in Trees
  BY PagingAssumption DEF Alone, LoneInv, TypeInv, TypeOK, Pages, Trees
<1>2. PICK w : w = Walks
  OBVIOUS
<1>3. /\ IsWalks(w, tables, root) /\ w \in Forests /\ OnePlace(w) /\ InBitmap(w, taken)
      /\ NoCow(w, tables)
  BY <1>1, <1>2, StateWalks DEF IsWalks, LoneInv
<1>4. PICK a, old : a = FirstMissing(n) /\ old = Walk(root[cur], n)
  OBVIOUS
<1>5. old = w[cur][n] /\ w[cur][n][Levels] # 0
  BY <1>1, <1>2, <1>4, StateFacts
<1>6. a = Levels + 1
  <2>1. a \in 1 .. Levels + 1 /\ (a <= Levels => w[cur][n][a] = 0)
    BY <1>1, <1>4, <1>5, FirstMissingFacts
  <2>2. ASSUME a # Levels + 1 PROVE FALSE
    <3>1. PICK i \in 0 .. Levels : i = a /\ i <= Levels
      BY <1>1, <2>1, <2>2
    <3>2. w[cur][n][i] = 0
      BY <2>1, <3>1
    <3>3. Levels \in 0 .. Levels
      BY <1>1
    <3> QED BY <1>1, <1>3, <1>5, <3>1, <3>2, <3>3, MissingBelow
  <2> QED BY <2>2
<1> DEFINE levels == a .. Levels
           at == [i \in 0 .. Levels |-> IF i < a THEN old[i] ELSE NewFrame(i - a + 1)]
           made == {at[i] : i \in levels}
           link(i) == Link(at[i], IF i = Levels THEN TRUE ELSE TRUE)
           linked == Min({a, Levels})
<1>7. /\ tables' = [f \in Frames |->
           IF f = at[linked - 1]
             THEN [tables[f] EXCEPT ![Index(n, linked)] = link(linked)]
           ELSE IF f \in made \ {at[Levels]}
             THEN LET i == CHOOSE i \in levels : f = at[i]
                  IN  [s \in Slots |-> IF s = Index(n, i + 1) THEN link(i + 1) ELSE Absent]
           ELSE tables[f]]
      /\ taken' = taken \cup made
      /\ tlb' = [tlb EXCEPT ![n] = 0]
  BY <1>4 DEF MapPage
<1>8. levels = {}
  BY <1>1, <1>6
<1>9. made = {} /\ linked = Levels
  <2>1. a \in Nat /\ Levels \in Nat /\ ~(a <= Levels)
    BY <1>1, <1>6
  <2> HIDE DEF levels, at
  <2>2. made = {}
    BY <1>8
  <2> HIDE DEF made, link
  <2>3. linked <= Levels /\ linked \in {a, Levels}
    BY <2>1, MinOfTwo
  <2> QED BY <2>1, <2>2, <2>3
<1>10. PICK f0 \in Frames : f0 = w[cur][n][Levels - 1] /\ f0 = at[Levels - 1]
  <2>1. PICK k \in 0 .. Levels : k = Levels - 1 /\ k < a /\ k \in Int
    BY <1>1, <1>6
  <2>2. w[cur][n][k] # 0
    <3>1. Levels \in 0 .. Levels /\ k <= Levels
      BY <1>1, <2>1
    <3> QED BY <1>1, <1>3, <1>5, <3>1, MissingBelow
  <2>3. w[cur][n][k] \in Frames \cup {0}
    BY <1>1, <1>3, ForestType
  <2>4. at[k] = w[cur][n][k]
    BY <1>5, <2>1
  <2> HIDE DEF at
  <2> QED BY <2>1, <2>2, <2>3, <2>4
<1>11. PICK s0 \in Slots : s0 = Index(n, Levels)
  <2>1. Levels \in 1 .. Levels
    BY <1>1
  <2> QED BY <1>1, <2>1, NodeFacts
<1>12. PICK e : e = Link(w[cur][n][Levels], TRUE)
  OBVIOUS
<1>13. link(linked) = e
  <2>1. at[Levels] = w[cur][n][Levels]
    BY <1>1, <1>5, <1>6
  <2> HIDE DEF at, linked, made
  <2> QED BY <1>9, <1>12, <2>1
<1> HIDE DEF levels, at, made, link, linked
<1>14. /\ \A f \in Frames, s \in Slots :
            tables'[f][s] = IF f = f0 /\ s = s0 THEN e ELSE tables[f][s]
       /\ taken' = taken
  <2>1. tables' = [f \in Frames |->
          IF f = f0 THEN [tables[f] EXCEPT ![s0] = e] ELSE tables[f]]
    BY <1>7, <1>9, <1>10, <1>11, <1>13
  <2>2. \A f \in Frames : tables[f] \in [Slots -> Entries]
    BY <1>1 DEF Trees
  <2> QED BY <1>7, <1>9, <2>1, <2>2
<1>15. Entry(w, tables, cur, n, Levels) = tables[f0][s0] /\ tables[f0][s0].to = w[cur][n][Levels]
  <2>1. Levels \in 1 .. Levels /\ f0 # 0
    BY <1>1 DEF Frames
  <2>2. w[cur][n][Levels] = Hop(tables, n, Levels, w[cur][n][Levels - 1])
    BY <1>1, <1>3, <2>1 DEF IsWalks
  <2>3. w[cur][n][Levels] = tables[f0][s0].to
    BY <1>10, <1>11, <2>1, <2>2 DEF Hop
  <2>4. Entry(w, tables, cur, n, Levels) = tables[f0][s0]
    BY <1>10, <1>11 DEF Entry
  <2> QED BY <2>3, <2>4
<1>16. e.to = tables[f0][s0].to /\ ~e.cow
  BY <1>12, <1>15 DEF Link
<1>17. IsWalks(w, tables', root')
  <2>1. PICK tb, tb2 : tb = tables /\ tb2 = tables'
    OBVIOUS
  <2>2. \A f \in Frames, s \in Slots : tb2[f][s] = IF f = f0 /\ s = s0 THEN e ELSE tb[f][s]
    BY <1>14, <2>1
  <2>3. e.to = tb[f0][s0].to /\ IsWalks(w, tb, root)
    BY <1>3, <1>16, <2>1
  <2>4. IsWalks(w, tb2, root)
    BY <2>2, <2>3, RelinkedWalks
  <2> QED BY <2>1, <2>4
<1>18. ASSUME NEW m \in Pages, NEW i \in 1 .. Levels, w[cur][m][i] # 0
       PROVE  /\ Entry(w, tables', cur, m, i) = e /\ i = Levels /\ m = n
              \/ Entry(w, tables', cur, m, i) = Entry(w, tables, cur, m, i)
  <2>1. PICK k \in 0 .. Levels : k = i - 1
    BY <1>1
  <2>2. w[cur][m][i] = Hop(tables, m, i, w[cur][m][k])
    BY <1>1, <1>3, <2>1 DEF IsWalks
  <2>3. w[cur][m][k] # 0 /\ w[cur][m][k] \in Frames
    BY <1>1, <1>3, <1>18, <2>2, ForestType DEF Hop
  <2>4. Index(m, i) \in Slots
    BY NodeFacts
  <2>5. CASE w[cur][m][k] = f0 /\ Index(m, i) = s0
    <3>1. PICK l \in 0 .. Levels : l = Levels - 1 /\ Levels \in 0 .. Levels
      BY <1>1
    <3>2. w[cur][m][k] # 0 /\ w[cur][m][k] = w[cur][n][l]
      BY <1>10, <2>3, <2>5, <3>1
    <3>3. k = l /\ Same(k, m, n)
      BY <1>1, <1>3, <3>2 DEF OnePlace
    <3>4. i = Levels /\ k = i - 1
      BY <1>1, <2>1, <3>1, <3>3
    <3>5. Same(i, m, n)
      BY <1>1, <1>11, <2>5, <3>3, <3>4, NodeFacts
    <3>6. m = n
      BY <1>1, <3>4, <3>5, NodeFacts
    <3>7. tables'[w[cur][m][k]][Index(m, i)] = e
      BY <1>14, <2>3, <2>4, <2>5
    <3> QED BY <2>1, <3>4, <3>6, <3>7 DEF Entry
  <2>6. CASE ~(w[cur][m][k] = f0 /\ Index(m, i) = s0)
    <3>1. tables'[w[cur][m][k]][Index(m, i)] = tables[w[cur][m][k]][Index(m, i)]
      BY <1>14, <2>3, <2>4, <2>6
    <3> QED BY <2>1, <3>1 DEF Entry
  <2> QED BY <2>5, <2>6
<1>19. NoCow(w, tables')
  <2>1. ASSUME NEW m \in Pages, NEW i \in 1 .. Levels, w[cur][m][i] # 0
        PROVE  ~Entry(w, tables', cur, m, i).cow
    BY <1>1, <1>3, <1>16, <1>18, <2>1 DEF NoCow
  <2> QED BY <1>1, <2>1 DEF NoCow
<1>20. ASSUME ReadOnlyPages(w, tables, taken, data, tlb), Allocs \cap ReadOnly = {}
       PROVE  ReadOnlyPages(w, tables', taken', data', tlb')
  <2>1. ASSUME NEW m \in ReadOnly, w[cur][m][Levels] # 0
        PROVE  ~Entry(w, tables', cur, m, Levels).writable /\ data'[w[cur][m][Levels]] = Loaded
    <3>1. m \in Pages /\ m # n /\ Levels \in 1 .. Levels
      BY <1>20, PagingAssumption DEF Pages
    <3>2. Entry(w, tables', cur, m, Levels) = Entry(w, tables, cur, m, Levels)
      BY <1>18, <2>1, <3>1
    <3> QED BY <1>20, <2>1, <3>2 DEF ReadOnlyPages
  <2>2. ASSUME NEW k \in Addrs, tlb'[k] # 0 PROVE tlb'[k] = tlb[k]
    BY <1>1, <1>7, <2>2 DEF TypeOK
  <2> QED BY <1>1, <1>14, <1>20, <2>1, <2>2 DEF ReadOnlyPages
<1>21. Allocs \cap ReadOnly = {} => ReadOnlyPages(w, tables', taken', data', tlb')
  BY <1>2, <1>20 DEF LoneInv
<1>22. InBitmap(w, taken')
  BY <1>3, <1>14
<1> QED BY <1>3, <1>17, <1>19, <1>21, <1>22, NextLone

(* mapNewPageAt that finds no frame: the frames it gives back held         *)
(* subtrees that it has cut off.                                           *)
GivesBack(w, p0, n0, a, b, new, D, tk, tk2) ==
  /\ \A i \in a .. b : new[i] \notin tk /\ new[i] \in tk2
  /\ \A f \in tk : f \in tk2 \/ \E d \in D : f = w[p0][n0][d]

LEMMA LonePruned ==
  ASSUME LoneInv, TypeInv', cur \in Procs, UNCHANGED <<root, data>>,
         NEW n \in Addrs, NEW a, NEW b, NEW new, NEW D,
         Pruned(Walks, tables, tables', cur, n, a, b, new, D),
         GivesBack(Walks, cur, n, a, b, new, D, taken, taken'),
         tlb' = [tlb EXCEPT ![n] = 0]
  PROVE  LoneInv'
<1>1. /\ Procs = {cur} /\ TypeOK /\ n \in Pages /\ Levels \in Nat
      /\ a \in 1 .. Levels /\ b \in Int /\ b < Levels /\ D \subseteq 1 .. a - 1
  BY PagingAssumption DEF LoneInv, TypeInv, Pages, Pruned
<1>2. PICK w, tb, tb2, tk2 : w = Walks /\ tb = tables /\ tb2 = tables' /\ tk2 = taken'
  OBVIOUS
<1>3. /\ IsWalks(w, tb, root) /\ w \in Forests /\ OnePlace(w) /\ InBitmap(w, taken)
      /\ NoCow(w, tb)
  BY <1>1, <1>2, StateWalks DEF IsWalks, LoneInv
<1>4. Pruned(w, tb, tb2, cur, n, a, b, new, D)
  BY <1>2
<1>5. \A i \in a .. b : new[i] \in Frames /\ ~InUse(w, new[i])
  BY <1>4 DEF Pruned
<1> DEFINE v == [p \in Procs |-> [m \in Pages |-> [i \in 0 .. Levels |->
                   IF Cut(n, D, m, i) THEN 0
                   ELSE IF i \in a .. b /\ Same(i, m, n) THEN new[i] ELSE w[p][m][i]]]]
<1>6. IsPruned(v, w, cur, n, a, b, new, D)
  <2>1. \A p \in Procs, m \in Pages, i \in 0 .. Levels : w[p][m][i] \in Frames \cup {0}
    BY <1>3, ForestType
  <2>2. v \in Forests
    BY <1>5, <2>1 DEF Forests
  <2>3. \A m \in Pages, i \in 0 .. Levels :
          v[cur][m][i] = IF Cut(n, D, m, i) THEN 0
                         ELSE IF i \in a .. b /\ Same(i, m, n) THEN new[i] ELSE w[cur][m][i]
    OBVIOUS
  <2> HIDE DEF v
  <2> QED BY <2>2, <2>3 DEF IsPruned
<1> HIDE DEF v
<1>7. IsWalks(v, tb2, root)
  BY <1>3, <1>4, <1>6, PrunedWalks
<1>8. /\ \A m \in Pages, i \in 0 .. Levels : v[cur][m][i] # 0 =>
           \/ v[cur][m][i] = w[cur][m][i] /\ ~Cut(n, D, m, i)
           \/ i \in a .. b /\ Same(i, m, n) /\ v[cur][m][i] = new[i]
      /\ OnePlace(v)
      /\ \A m \in Pages, i \in 1 .. Levels : v[cur][m][i] # 0 =>
           \/ i \in a .. b /\ Entry(v, tb2, cur, m, i) = Link(new[i], TRUE)
           \/ /\ w[cur][m][i] = v[cur][m][i]
              /\ Entry(v, tb2, cur, m, i) = Entry(w, tb, cur, m, i)
  <2>1. OnePlace(v) /\ LeftOrNew(v, w, tb, tb2, cur, n, a, b, new, D)
    BY <1>3, <1>4, <1>6, PrunedFacts
  <2> QED BY <2>1 DEF LeftOrNew
<1>9. NoCow(v, tb2)
  <2>1. ASSUME NEW m \in Pages, NEW i \in 1 .. Levels, v[cur][m][i] # 0
        PROVE  ~Entry(v, tb2, cur, m, i).cow
    <3>1. w[cur][m][i] = v[cur][m][i] => ~Entry(w, tb, cur, m, i).cow
      BY <1>1, <1>3, <2>1 DEF NoCow
    <3>2. ~Link(new[i], TRUE).cow
      BY DEF Link
    <3> QED BY <1>8, <2>1, <3>1, <3>2
  <2> QED BY <1>1, <2>1 DEF NoCow
<1>10. \A f \in taken :
         f \in tk2 \/ \E d \in D : f = w[cur][n][d] /\ d \in 0 .. Levels /\ d # Levels
  <2>1. \A f \in taken : f \in tk2 \/ \E d \in D : f = w[cur][n][d]
    BY <1>2 DEF GivesBack
  <2>2. \A d \in D : d \in 0 .. Levels /\ d # Levels
    BY <1>1
  <2> QED BY <2>1, <2>2
<1>11. \A i \in a .. b : new[i] \notin taken /\ new[i] \in tk2
  BY <1>2 DEF GivesBack
<1>12. InBitmap(v, tk2)
  <2>1. ASSUME NEW f \in Frames, InUse(v, f) PROVE f \in tk2
    <3>1. PICK m \in Pages, i \in 0 .. Levels : v[cur][m][i] = f /\ f # 0
      BY <1>1, <2>1 DEF InUse, Frames
    <3>2. CASE f = w[cur][m][i] /\ ~Cut(n, D, m, i)
      <4>1. f \in taken
        BY <1>1, <1>3, <3>2 DEF InBitmap, InUse
      <4>2. f \in tk2
        <5>1. ASSUME NEW d \in D, f = w[cur][n][d], d \in 0 .. Levels PROVE FALSE
          <6>1. w[cur][m][i] # 0 /\ w[cur][m][i] = w[cur][n][d]
            BY <3>1, <3>2, <5>1
          <6>2. i = d /\ Same(i, m, n)
            BY <1>1, <1>3, <5>1, <6>1 DEF OnePlace
          <6> QED BY <3>2, <6>2 DEF Cut
        <5> QED BY <1>10, <4>1, <5>1
      <4> QED BY <4>2
    <3>3. CASE i \in a .. b /\ f = new[i]
      BY <1>11, <3>3
    <3> QED BY <1>8, <3>1, <3>2, <3>3
  <2> QED BY <2>1 DEF InBitmap
<1>13. ASSUME ReadOnlyPages(w, tb, taken, data, tlb)
       PROVE  ReadOnlyPages(v, tb2, tk2, data', tlb')
  <2>1. ASSUME NEW m \in ReadOnly, v[cur][m][Levels] # 0
        PROVE  ~Entry(v, tb2, cur, m, Levels).writable /\ data'[v[cur][m][Levels]] = Loaded
    <3>1. m \in Pages /\ Levels \in 1 .. Levels /\ Levels \notin a .. b
      BY <1>1, PagingAssumption DEF Pages
    <3>2. /\ w[cur][m][Levels] = v[cur][m][Levels]
          /\ Entry(v, tb2, cur, m, Levels) = Entry(w, tb, cur, m, Levels)
      BY <1>8, <2>1, <3>1
    <3> QED BY <1>1, <1>13, <2>1, <3>2 DEF ReadOnlyPages
  <2>2. ASSUME NEW k \in Addrs, tlb'[k] # 0
        PROVE  /\ tlb'[k] \in tk2
               /\ \A m \in Pages, i \in 0 .. Levels :
                    v[cur][m][i] = tlb'[k] => i = Levels /\ m \notin ReadOnly
    <3>1. tlb'[k] = tlb[k] /\ tlb[k] # 0
      BY <1>1, <2>2 DEF TypeOK
    <3>2. /\ tlb[k] \in taken
          /\ \A m \in Pages, i \in 0 .. Levels :
               w[cur][m][i] = tlb[k] => i = Levels /\ m \notin ReadOnly
      BY <1>1, <1>13, <3>1 DEF ReadOnlyPages
    <3>3. tlb[k] \in tk2
      BY <1>1, <1>10, <3>2
    <3>4. \A i \in a .. b : new[i] # tlb[k]
      BY <1>11, <3>2
    <3> QED BY <1>8, <1>11, <3>1, <3>2, <3>3, <3>4
  <2> QED BY <1>1, <2>1, <2>2 DEF ReadOnlyPages
<1>14. Allocs \cap ReadOnly = {} => ReadOnlyPages(v, tables', taken', data', tlb')
  BY <1>2, <1>13 DEF LoneInv
<1>15. IsWalks(v, tables', root') /\ InBitmap(v, taken') /\ NoCow(v, tables')
  BY <1>2, <1>7, <1>9, <1>12
<1> QED BY <1>8, <1>14, <1>15, NextLone

LEMMA LonePrune ==
  ASSUME Alone, LoneInv, TypeInv', cur \in Procs, UNCHANGED <<root, data>>,
         NEW n \in Addrs, MapFails(n)
  PROVE  LoneInv'
<1>1. /\ Procs = {cur} /\ TypeOK /\ n \in Pages /\ root[cur] # 0 /\ cur # Nobody
      /\ Levels \in Nat \ {0, 1} /\ tables \in Trees
  BY PagingAssumption DEF Alone, LoneInv, TypeInv, TypeOK, Pages, Trees
<1>2. PICK w : w = Walks
  OBVIOUS
<1>3. IsWalks(w, tables, root) /\ w \in Forests /\ InBitmap(w, taken)
  BY <1>1, <1>2, StateWalks DEF IsWalks, LoneInv
<1> DEFINE a == FirstMissing(n)
           old == Walk(root[cur], n)
<1>5. old = w[cur][n] /\ w[cur][n][0] = root[cur]
  BY <1>1, <1>2, StateFacts
<1>6. /\ a \in 1 .. Levels /\ w[cur][n][a] = 0
      /\ Cardinality(Free) \in Nat /\ a + Cardinality(Free) <= Levels
      /\ \A i \in 1 .. Levels : i < a => w[cur][n][i] # 0
  <2>1. /\ a \in 1 .. Levels + 1 /\ a + Missing(n) = Levels + 1 /\ Missing(n) \in Nat
        /\ \A i \in 1 .. Levels : i < a => w[cur][n][i] # 0
        /\ a <= Levels => w[cur][n][a] = 0
    BY <1>5, FirstMissingFacts
  <2>2. Cardinality(Free) \in Nat /\ ~(Cardinality(Free) >= Missing(n))
    BY FreeFacts DEF MapFails, Enough
  <2> QED BY <1>1, <2>1, <2>2
<1> DEFINE b == (a + Cardinality(Free)) - 2
           levels == a .. b
           at == [i \in levels |-> NewFrame(i - a + 1)]
           kept == {at[i] : i \in levels}
           charged == IF a + Cardinality(Free) = a THEN 1 .. a - 1 ELSE 1 .. a - 2
           dropped == {i \in charged : mapCount[old[i]] = 1}
           gone == {old[i] : i \in dropped}
           link(i) == IF i \in levels THEN Link(at[i], TRUE) ELSE Absent
<1>7. /\ tables' = [f \in Frames |-> [s \in Slots |->
           IF f \in kept
             THEN LET i == CHOOSE i \in levels : f = at[i]
                  IN  IF s = Index(n, i + 1) THEN link(i + 1) ELSE Absent
           ELSE IF kept # {} /\ f = old[a - 1] /\ s = Index(n, a)
             THEN link(a)
           ELSE IF \E i \in dropped : f = old[i - 1] /\ s = Index(n, i)
             THEN Absent
           ELSE tables[f][s]]]
      /\ taken' = (taken \cup kept) \ FreedBy(gone)
      /\ tlb' = [tlb EXCEPT ![n] = 0]
  BY DEF MapFails
<1> HIDE DEF a, old
<1>8. /\ b \in Int /\ b < Levels /\ dropped \subseteq 1 .. a - 1
      /\ a <= b => a - 1 \notin dropped
  BY <1>1, <1>6
<1>9. ASSUME NEW i \in levels
      PROVE  at[i] \in Frames /\ at[i] \notin taken /\ at[i] \in kept
  <2>1. PICK k \in 1 .. Cardinality(Free) : k = i - a + 1
    BY <1>6
  <2>2. at[i] = NewFrame(k) /\ at[i] \in kept
    BY <2>1
  <2> HIDE DEF at, kept
  <2> QED BY <2>1, <2>2, NewFrameType
<1>10. ASSUME NEW i \in levels, NEW j \in levels, at[i] = at[j] PROVE i = j
  <2>1. PICK k \in 1 .. Cardinality(Free) : k = i - a + 1
    BY <1>6
  <2>2. PICK l \in 1 .. Cardinality(Free) : l = j - a + 1
    BY <1>6
  <2>3. NewFrame(k) = NewFrame(l)
    BY <1>10, <2>1, <2>2
  <2>4. k = l
    BY <2>3, NewFramesDiffer
  <2>5. i \in Int /\ j \in Int /\ a \in Int
    BY <1>6
  <2> QED BY <2>1, <2>2, <2>4, <2>5
<1>11. \A f : f \in kept <=> \E i \in levels : f = at[i]
  OBVIOUS
<1>12. \A i : link(i) = IF i \in levels THEN Link(at[i], TRUE) ELSE Absent
  OBVIOUS
<1>13. \A f \in FreedBy(gone) : \E d \in dropped : f = w[cur][n][d]
  <2>1. \A f \in gone : \E d \in dropped : f = w[cur][n][d]
    BY <1>5
  <2> HIDE DEF gone, dropped
  <2> QED BY <2>1 DEF FreedBy
<1>14. PICK top \in 0 .. Levels : top = a - 1 /\ top < a
  BY <1>1, <1>6
<1>15. w[cur][n][a - 1] # 0
  <2>1. CASE top = 0
    BY <1>1, <1>5, <1>14, <2>1
  <2>2. CASE top # 0
    BY <1>6, <1>14, <2>2
  <2> QED BY <2>1, <2>2
<1> HIDE DEF b, at, kept, charged, dropped, gone, link
<1>16. ASSUME NEW i \in levels PROVE ~InUse(w, at[i])
  BY <1>3, <1>9 DEF InBitmap
<1>17. ASSUME NEW i \in levels, NEW s \in Slots
       PROVE  tables'[at[i]][s] =
                IF s = Index(n, i + 1) /\ i + 1 <= b THEN Link(at[i + 1], TRUE) ELSE Absent
  <2>1. PICK f \in Frames : f = at[i] /\ f \in kept
    BY <1>9
  <2>2. i = CHOOSE j \in levels : f = at[j]
    <3>1. \A j \in levels : f = at[j] <=> j = i
      BY <1>10, <2>1
    <3> QED BY <3>1
  <2>3. tables'[f][s] = LET i2 == CHOOSE j \in levels : f = at[j]
                        IN  IF s = Index(n, i2 + 1) THEN link(i2 + 1) ELSE Absent
    BY <1>7, <2>1
  <2>4. tables'[f][s] = IF s = Index(n, i + 1) THEN link(i + 1) ELSE Absent
    BY <2>2, <2>3
  <2>5. i + 1 \in levels <=> i + 1 <= b
    BY <1>6, <1>8
  <2> QED BY <1>12, <2>1, <2>4, <2>5
<1>18. ASSUME NEW f \in Frames, NEW s \in Slots, \A i \in levels : f # at[i]
       PROVE  tables'[f][s] =
                IF a <= b /\ f = w[cur][n][a - 1] /\ s = Index(n, a) THEN Link(at[a], TRUE)
                ELSE IF \E d \in dropped : f = w[cur][n][d - 1] /\ s = Index(n, d) THEN Absent
                ELSE tables[f][s]
  <2>1. f \notin kept
    BY <1>11, <1>18
  <2>2. tables'[f][s] =
           IF kept # {} /\ f = old[a - 1] /\ s = Index(n, a) THEN link(a)
           ELSE IF \E i \in dropped : f = old[i - 1] /\ s = Index(n, i) THEN Absent
           ELSE tables[f][s]
    BY <1>7, <2>1
  <2>3. (kept # {} <=> a <= b) /\ (a <= b => a \in levels)
    <3>1. a \in Int
      BY <1>6
    <3> QED BY <1>8, <1>11, <3>1
  <2> QED BY <1>5, <1>12, <2>2, <2>3
<1>19. Pruned(w, tables, tables', cur, n, a, b, at, dropped)
  <2>1. /\ Procs = {cur} /\ n \in Pages /\ a \in 1 .. Levels /\ b \in Int /\ b < Levels
        /\ w[cur][n][a - 1] # 0 /\ w[cur][n][a] = 0
        /\ dropped \subseteq 1 .. a - 1 /\ (a <= b => a - 1 \notin dropped)
    BY <1>1, <1>6, <1>8, <1>15
  <2>2. /\ \A i \in a .. b : at[i] \in Frames /\ ~InUse(w, at[i])
        /\ \A i, j \in a .. b : at[i] = at[j] => i = j
    BY <1>9, <1>10, <1>16
  <2> QED BY <1>17, <1>18, <2>1, <2>2 DEF Pruned
<1>20. GivesBack(w, cur, n, a, b, at, dropped, taken, taken')
  <2>1. ASSUME NEW i \in levels PROVE at[i] \in taken'
    <3>1. at[i] \notin FreedBy(gone)
      <4>1. \A d \in dropped : d \in 0 .. Levels
        BY <1>1, <1>6, <1>8
      <4> QED BY <1>1, <1>13, <1>16, <4>1 DEF InUse
    <3> QED BY <1>7, <1>9, <3>1
  <2>2. ASSUME NEW f \in taken PROVE f \in taken' \/ \E d \in dropped : f = w[cur][n][d]
    BY <1>7, <1>13
  <2> QED BY <1>9, <2>1, <2>2 DEF GivesBack
<1>21. Pruned(Walks, tables, tables', cur, n, a, b, at, dropped)
  BY <1>2, <1>19
<1>22. GivesBack(Walks, cur, n, a, b, at, dropped, taken, taken')
  BY <1>2, <1>20
<1> HIDE DEF levels
<1> QED BY <1>7, <1>21, <1>22, LonePruned

(* The first process has an empty tree.                                    *)
LEMMA InitLone == Init => LoneInv
<1> SUFFICES ASSUME Init PROVE LoneInv
  OBVIOUS
<1>1. ForestInv
  BY InitForest
<1>2. PICK w : w = Walks
  OBVIOUS
<1>3. IsWalks(w, tables, root) /\ w \in Forests /\ OnePlace(w) /\ Counts(w, taken, refCount, lost)
  BY <1>1, <1>2 DEF ForestInv, Good, IsWalks
<1>4. ASSUME NEW p \in Procs, NEW n \in Pages, NEW i \in 1 .. Levels PROVE w[p][n][i] = 0
  <2>1. PICK k \in 0 .. Levels : k = i - 1
    BY PagingAssumption
  <2>2. PICK f \in Frames \cup {0} : f = w[p][n][k]
    BY <1>3, ForestType
  <2>3. w[p][n][i] = Hop(tables, n, i, f)
    BY <1>3, <2>1, <2>2 DEF IsWalks
  <2>4. Index(n, i) \in Slots
    BY NodeFacts
  <2>5. f # 0 => tables[f][Index(n, i)].to = 0
    BY <2>2, <2>4 DEF Init, Absent
  <2> QED BY <2>3, <2>5 DEF Hop
<1>5. InBitmap(w, taken)
  BY <1>3 DEF Counts, InBitmap
<1>6. NoCow(w, tables)
  BY <1>4 DEF NoCow
<1>7. ReadOnlyPages(w, tables, taken, data, tlb)
  <2>1. Levels \in 1 .. Levels /\ ReadOnly \subseteq Pages
    BY PagingAssumption DEF Pages
  <2>2. \A n \in Addrs : tlb[n] = 0
    BY DEF Init
  <2> QED BY <1>4, <2>1, <2>2 DEF ReadOnlyPages
<1> QED BY <1>1, <1>2, <1>3, <1>5, <1>6, <1>7 DEF LoneInv, ForestInv

(* No step of a process on its own breaks its tree.                        *)
LEMMA NextLoneInv ==
  ASSUME Alone
  PROVE  LoneInv /\ [Next]_vars => LoneInv'
<1> SUFFICES ASSUME LoneInv, [Next]_vars PROVE LoneInv'
  OBVIOUS
<1>1. TypeInv' /\ TypeOK /\ TypeInv
  BY NextType DEF LoneInv, TypeInv
<1>2. ASSUME cur \in Procs
      PROVE  /\ Procs = {cur} /\ root[cur] # 0
             /\ \A n \in Pages, i \in 1 .. Levels :
                  Page(cur, n) # 0 /\ i = Levels => ~EntryAt(cur, n, i).cow
  <2>1. Procs = {cur} /\ root[cur] # 0
    BY <1>1, <1>2, PagingAssumption DEF Alone, TypeOK
  <2>2. ASSUME NEW n \in Pages, NEW i \in 1 .. Levels, Page(cur, n) # 0, i = Levels
        PROVE  ~EntryAt(cur, n, i).cow
    <3>1. Walks[cur][n][i] # 0 /\ EntryAt(cur, n, i) = Entry(Walks, tables, cur, n, i)
      BY <1>1, <1>2, <2>2, StateFacts
    <3> QED BY <1>2, <3>1 DEF LoneInv, NoCow
  <2> QED BY <2>1, <2>2
<1>3. InUser => cur \in Procs
  BY <1>1 DEF InUser, TypeOK
<1>4. CASE Switch
  <2>1. Allocs \cap ReadOnly = {} => ReadOnlyPages(Walks, tables, taken, data', tlb')
    <3>1. data' = data /\ \A n \in Addrs : tlb'[n] = 0
      BY <1>4 DEF Switch, frameVars
    <3> QED BY <3>1 DEF LoneInv, ReadOnlyPages
  <2> QED BY <1>1, <1>4, <2>1, LoneQuiet DEF Switch, frameVars
<1>5. CASE ExitProcess \/ ForkFails \/ LoadFails \/ \E n \in Addrs : Killed(n)
  <2>1. Exit /\ cur # Nobody
    BY <1>5 DEF ExitProcess, ForkFails, LoadFails, Killed, InUser, LoneInv, TypeInv
  <2>2. PICK r0 \in {0, root[cur]} : r0 = 0
    OBVIOUS
  <2>3. Deallocate /\ root' = [root EXCEPT ![cur] = r0]
    BY <2>1, <2>2 DEF Exit, Gone
  <2> QED BY <1>1, <2>1, <2>2, <2>3, LoneDrop
<1>6. CASE Load
  <2>1. PICK n \in Image : /\ Page(cur, n) = 0
                           /\ MapPage(n, n \notin ReadOnly)
                           /\ data' = [data EXCEPT ![Page(cur, n)'] = Loaded]
    BY <1>6 DEF Load
  <2>2. cur \in Procs /\ UNCHANGED <<root, cur>> /\ n \in Addrs
    BY <1>1, <1>6, PagingAssumption DEF Load, TypeInv, TypeOK
  <2>3. PICK x \in BOOLEAN : x = (n \notin ReadOnly)
    OBVIOUS
  <2>4. MapPage(n, x) /\ (n \in ReadOnly => ~x)
    BY <2>1, <2>3
  <2> QED BY <1>1, <2>1, <2>2, <2>4, LoneGrow
<1>7. CASE Execute
  <2>1. Deallocate /\ cur # Nobody /\ root' = root
    BY <1>7 DEF Execute, InUser
  <2>2. PICK r0 \in {0, root[cur]} : r0 = root[cur]
    OBVIOUS
  <2>3. root' = [root EXCEPT ![cur] = r0]
    BY <1>1, <2>1, <2>2 DEF TypeOK
  <2> QED BY <1>1, <2>1, <2>2, <2>3, LoneDrop
<1>8. CASE \E c \in Procs : Fork(c) \/ ForkCopyFails(c)
  BY <1>2, <1>3, <1>8 DEF Fork, ForkCopyFails
<1>9. CASE \E n \in Addrs : CopyOnWrite(n)
  <2>1. Levels \in 1 .. Levels /\ Addrs \subseteq Pages
    BY PagingAssumption DEF Pages
  <2> QED BY <1>2, <1>3, <1>9, <2>1 DEF CopyOnWrite, FaultHandled
<1>10. ASSUME NEW n \in Addrs, VirtualAlloc(n) PROVE LoneInv'
  <2>1. cur \in Procs /\ UNCHANGED <<data, root, cur>> /\ n \in Allocs
    BY <1>3, <1>10 DEF VirtualAlloc
  <2>2. CASE MapFails(n)
    BY <1>1, <2>1, <2>2, LonePrune
  <2>3. CASE MapPage(n, TRUE)
    <3>1. Allocs \cap ReadOnly = {} => n \notin ReadOnly
      BY <2>1
    <3>2. CASE Page(cur, n) = 0
      BY <1>1, <2>1, <2>3, <3>1, <3>2, LoneGrow
    <3>3. CASE Page(cur, n) # 0
      BY <1>1, <2>1, <2>3, <3>1, <3>3, LoneRelink
    <3> QED BY <3>2, <3>3
  <2> QED BY <1>10, <2>2, <2>3 DEF VirtualAlloc
<1>11. CASE (\E n \in Addrs : VirtualFree(n)) \/ UNCHANGED vars
  <2>1. UNCHANGED <<tables, taken, root, data, tlb>>
    BY <1>11 DEF VirtualFree, vars, frameVars
  <2>2. Allocs \cap ReadOnly = {} => ReadOnlyPages(Walks, tables, taken, data', tlb')
    BY <2>1 DEF LoneInv
  <2> QED BY <1>1, <2>1, <2>2, LoneQuiet
<1>12. CASE \E n \in Addrs, v \in Values :
              Write(n, v) \/ WriteThroughTLB(n, v) \/ KernelWrite(n, v)
  BY <1>1, <1>12, LoneWrite
<1> QED BY <1>4, <1>5, <1>6, <1>7, <1>8, <1>9, <1>10, <1>11, <1>12 DEF Next

LEMMA LoneHolds ==
  ASSUME Alone
  PROVE  Spec => []LoneInv
<1>1. Init => LoneInv
  BY InitLone
<1>2. LoneInv /\ [Next]_vars => LoneInv'
  BY NextLoneInv
<1> QED BY <1>1, <1>2, PTL DEF Spec

(* No frame is at two places of a tree (NoAliases): with any number of     *)
(* processes that fork, exec, exit and fault but do not allocate memory,   *)
(* and in a process on its own that does, whatever calls fail half-way.    *)
THEOREM AliasesCorrect ==
  ASSUME Allocs = {} \/ Alone
  PROVE  Spec => []NoAliases
<1>1. CASE Allocs = {}
  <2>1. Spec => []ForestInv
    BY <1>1, ForestHolds
  <2>2. ForestInv => NoAliases
    BY AliasesHold DEF ForestInv, TypeInv, Good
  <2> QED BY <2>1, <2>2, PTL
<1>2. CASE Alone
  <2>1. Spec => []LoneInv
    BY <1>2, LoneHolds
  <2>2. LoneInv => NoAliases
    BY AliasesHold DEF LoneInv, TypeInv
  <2> QED BY <2>1, <2>2, PTL
<1> QED BY <1>1, <1>2

(* Read-only pages keep what Elf::load has put there (ReadOnlyKept), in    *)
(* the same two cases; a process on its own must not ask for the address   *)
(* of one, since that would give the page new flags.                       *)
THEOREM ReadOnlyCorrect ==
  ASSUME Allocs = {} \/ (Alone /\ Allocs \cap ReadOnly = {})
  PROVE  Spec => []ReadOnlyKept
<1>1. CASE Allocs = {}
  <2>1. Spec => []ForestInv
    BY <1>1, ForestHolds
  <2>2. ForestInv => ReadOnlyKept
    BY ReadOnlyHold
  <2> QED BY <2>1, <2>2, PTL
<1>2. CASE Alone /\ Allocs \cap ReadOnly = {}
  <2>1. Spec => []LoneInv
    BY <1>2, LoneHolds
  <2>2. LoneInv => ReadOnlyKept
    <3> SUFFICES ASSUME LoneInv PROVE ReadOnlyKept
      OBVIOUS
    <3>1. \A p \in Procs, n \in Pages : Page(p, n) = Walks[p][n][Levels]
      BY StateFacts DEF LoneInv, TypeInv
    <3>2. ReadOnly \subseteq Pages
      BY PagingAssumption DEF Pages
    <3>3. ReadOnlyPages(Walks, tables, taken, data, tlb)
      BY <1>2 DEF LoneInv
    <3> QED BY <3>1, <3>2, <3>3 DEF ReadOnlyPages, ReadOnlyKept
  <2> QED BY <2>1, <2>2, PTL
<1> QED BY <1>1, <1>2
=============================================================================
