---------------------------- MODULE CommonLemmas ----------------------------
(***************************************************************************)
(* What the proofs need of the operators many modules use: Min and Max,    *)
(* which the modules write where the kernel scans a bitmap or compares     *)
(* bounds, division, sequences that stand for linked lists, and the lists  *)
(* of areas of the two virtual allocators.                                 *)
(***************************************************************************)
EXTENDS Integers, Sequences, FiniteSetsExt, Functions, Areas, FiniteSetTheorems,
        SequenceTheorems, WellFoundedInduction, TLAPS

-----------------------------------------------------------------------------
(* A non-empty set of naturals has a least element and Min is that element.*)
(* The intervals 0..n are finite sets, and strict inclusion of finite sets *)
(* is well-founded, so one of the intervals 0..n with n in S is minimal.   *)
LEMMA MinIsLeast ==
  ASSUME NEW S, S \subseteq Nat, S # {}
  PROVE  Min(S) \in S /\ \A y \in S : Min(S) <= y
<1> DEFINE Below == {0 .. n : n \in S}
<1>1. Below \subseteq FiniteSubsetsOf(Nat)
  <2>1. ASSUME NEW n \in S PROVE 0 .. n \in SUBSET Nat /\ IsFiniteSet(0 .. n)
    BY FS_Interval
  <2> QED BY <2>1 DEF FiniteSubsetsOf
<1>2. Below # {}
  OBVIOUS
<1>3. PICK I \in Below : \A J \in Below : <<J, I>> \notin StrictSubsetOrdering(Nat)
  <2>1. IsWellFoundedOn(StrictSubsetOrdering(Nat), FiniteSubsetsOf(Nat))
    BY FS_StrictSubsetOrderingWellFounded
  <2> HIDE DEF Below
  <2> QED BY <1>1, <1>2, <2>1, WFMin, Zenon
<1>4. PICK x \in S : I = 0 .. x
  OBVIOUS
<1>5. \A y \in S : x <= y
  <2> SUFFICES ASSUME NEW y \in S, ~(x <= y) PROVE FALSE
    OBVIOUS
  <2>1. 0 .. y \in Below
    OBVIOUS
  <2>2. 0 .. y \subseteq 0 .. x /\ 0 .. y # 0 .. x
    OBVIOUS
  <2>3. <<0 .. y, 0 .. x>> \in StrictSubsetOrdering(Nat)
    BY <2>2 DEF StrictSubsetOrdering
  <2> QED BY <1>3, <1>4, <2>1, <2>3
<1> QED BY <1>5 DEF Min

(* What has 0 and, with a number, the next one has all numbers up to n.    *)
LEMMA StepByStep ==
  ASSUME NEW n \in Nat, NEW S, 0 \in S, \A k \in 1 .. n : k - 1 \in S => k \in S
  PROVE  0 .. n \subseteq S
<1> DEFINE Bad == {k \in 0 .. n : k \notin S}
<1> SUFFICES ASSUME Bad # {} PROVE FALSE
  OBVIOUS
<1>1. Bad \subseteq Nat
  OBVIOUS
<1>2. PICK k \in Bad : \A j \in Bad : k <= j
  <2> HIDE DEF Bad
  <2> QED BY <1>1, MinIsLeast
<1>3. k \in 0 .. n /\ k \notin S /\ k # 0
  BY <1>2
<1>4. k - 1 \in 0 .. n /\ k \in 1 .. n /\ ~(k <= k - 1)
  BY <1>3
<1>5. k - 1 \in S
  <2>1. k - 1 \notin Bad
    <3> HIDE DEF Bad
    <3> QED BY <1>2, <1>4
  <2> QED BY <1>4, <2>1
<1> QED BY <1>3, <1>4, <1>5

(* A non-empty finite set of naturals has a greatest element and Max is    *)
(* that element: the members above which the fewest others lie.            *)
LEMMA MaxIsGreatest ==
  ASSUME NEW S, S \subseteq Nat, S # {}, IsFiniteSet(S)
  PROVE  Max(S) \in S /\ \A y \in S : y <= Max(S)
<1> DEFINE Above(x) == {y \in S : y > x}
           Aboves == {Above(x) : x \in S}
<1>1. Aboves \subseteq FiniteSubsetsOf(S)
  <2>1. ASSUME NEW x \in S PROVE Above(x) \in SUBSET S /\ IsFiniteSet(Above(x))
    <3>1. Above(x) \in SUBSET S
      OBVIOUS
    <3> QED BY <3>1, FS_Subset
  <2> QED BY <2>1 DEF FiniteSubsetsOf
<1>2. Aboves # {}
  OBVIOUS
<1>3. PICK A \in Aboves : \A B \in Aboves : <<B, A>> \notin StrictSubsetOrdering(S)
  <2>1. IsWellFoundedOn(StrictSubsetOrdering(S), FiniteSubsetsOf(S))
    BY FS_StrictSubsetOrderingWellFounded
  <2> HIDE DEF Aboves
  <2> QED BY <1>1, <1>2, <2>1, WFMin, Zenon
<1>4. PICK x \in S : A = Above(x)
  OBVIOUS
<1>5. \A y \in S : y <= x
  <2> SUFFICES ASSUME NEW y \in S, ~(y <= x) PROVE FALSE
    OBVIOUS
  <2>1. Above(y) \in Aboves
    OBVIOUS
  <2>2. Above(y) \subseteq Above(x) /\ Above(y) # Above(x)
    <3>1. y > x /\ x \in Nat /\ y \in Nat
      OBVIOUS
    <3>2. y \in Above(x) /\ y \notin Above(y)
      BY <3>1
    <3>3. \A z \in S : z > y => z > x
      BY <3>1
    <3> QED BY <3>2, <3>3
  <2>3. <<Above(y), Above(x)>> \in StrictSubsetOrdering(S)
    BY <2>2 DEF StrictSubsetOrdering
  <2> QED BY <1>3, <1>4, <2>1, <2>3
<1> QED BY <1>5 DEF Max

(* The smaller of two naturals.                                            *)
LEMMA MinOfTwo ==
  ASSUME NEW a \in Nat, NEW b \in Nat
  PROVE  Min({a, b}) \in {a, b} /\ Min({a, b}) <= a /\ Min({a, b}) <= b
<1>1. PICK S : S = {a, b}
  OBVIOUS
<1>2. S \subseteq Nat /\ S # {}
  BY <1>1
<1>3. Min(S) \in S /\ \A y \in S : Min(S) <= y
  BY <1>2, MinIsLeast
<1> QED BY <1>1, <1>3

(* The larger of two naturals.                                             *)
LEMMA MaxOfTwo ==
  ASSUME NEW a \in Nat, NEW b \in Nat
  PROVE  Max({a, b}) \in {a, b} /\ a <= Max({a, b}) /\ b <= Max({a, b})
<1>1. PICK S : S = {a, b}
  OBVIOUS
<1>2. S \subseteq Nat /\ S # {} /\ IsFiniteSet(S)
  <2>1. IsFiniteSet({a})
    BY FS_Singleton
  <2>2. IsFiniteSet({a} \cup {b})
    BY <2>1, FS_AddElement
  <2>3. S = {a} \cup {b}
    BY <1>1
  <2> QED BY <1>1, <2>2, <2>3
<1>3. Max(S) \in S /\ \A y \in S : y <= Max(S)
  BY <1>2, MaxIsGreatest
<1> QED BY <1>1, <1>3

(* Division of a natural number: the quotient's multiple is the last one   *)
(* not beyond the number.                                                  *)
LEMMA DivFacts ==
  ASSUME NEW n \in Nat, NEW d \in Nat \ {0}
  PROVE  /\ n \div d \in Nat
         /\ d * (n \div d) <= n /\ n < d * (n \div d) + d
OBVIOUS

-----------------------------------------------------------------------------
(* A sequence whose elements are of a smaller set is a sequence over it.   *)
LEMMA SequenceOver ==
  ASSUME NEW S, NEW T, NEW l \in Seq(S), \A i \in 1 .. Len(l) : l[i] \in T
  PROVE  l \in Seq(T)
<1>1. l = [i \in 1 .. Len(l) |-> l[i]] /\ Len(l) \in Nat
  BY LenProperties
<1>2. [i \in 1 .. Len(l) |-> l[i]] \in [1 .. Len(l) -> T]
  OBVIOUS
<1>3. [1 .. Len(l) -> T] \subseteq Seq(T)
  BY <1>1, SeqDef
<1> QED BY <1>1, <1>2, <1>3

(* A list of one member.                                                   *)
LEMMA SingleFacts ==
  ASSUME NEW S, NEW b \in S
  PROVE  \E t \in Seq(S) : /\ t = <<b>> /\ Len(t) = 1 /\ DOMAIN t = 1 .. 1 /\ t[1] = b
                           /\ t # <<>>
<1>1. PICK t : t = <<b>>
  OBVIOUS
<1>2. t \in Seq(S) /\ Len(t) = 1 /\ DOMAIN t = 1 .. 1 /\ t[1] = b /\ t # <<>>
  BY <1>1
<1> QED BY <1>1, <1>2

(* Many linked lists of the kernel are only pushed and popped, like the    *)
(* stack pool: what a push does to the set of members.                     *)
LEMMA PushFacts ==
  ASSUME NEW S, NEW q \in Seq(S), NEW s \in S
  PROVE  LET r == <<s>> \o q
         IN  /\ r \in Seq(S) /\ Range(r) = {s} \cup Range(q)
             /\ (IsInjective(q) /\ s \notin Range(q)) => IsInjective(r)
<1> DEFINE r == <<s>> \o q
<1>1. /\ r \in Seq(S) /\ Len(r) = Len(q) + 1 /\ DOMAIN r = 1 .. Len(q) + 1
      /\ r[1] = s /\ \A i \in 1 .. Len(q) : r[i + 1] = q[i]
      /\ DOMAIN q = 1 .. Len(q) /\ Len(q) \in Nat
  OBVIOUS
<1>2. \A i \in DOMAIN r : i = 1 \/ (i - 1 \in DOMAIN q /\ r[i] = q[i - 1])
  BY <1>1
<1>3. \A i \in DOMAIN q : i + 1 \in DOMAIN r /\ r[i + 1] = q[i]
  BY <1>1
<1> HIDE DEF r
<1>4. Range(r) = {s} \cup Range(q)
  BY <1>1, <1>2, <1>3 DEF Range
<1>5. ASSUME IsInjective(q), s \notin Range(q) PROVE IsInjective(r)
  BY <1>1, <1>2, <1>5 DEF Range, IsInjective
<1> QED BY <1>1, <1>4, <1>5 DEF r

(* A pop leaves the other members, and the popped one is gone for good.    *)
LEMMA PopFacts ==
  ASSUME NEW S, NEW q \in Seq(S), q # <<>>
  PROVE  /\ Head(q) \in S /\ Tail(q) \in Seq(S)
         /\ Range(q) = {Head(q)} \cup Range(Tail(q))
         /\ IsInjective(q) => IsInjective(Tail(q)) /\ Head(q) \notin Range(Tail(q))
<1> DEFINE r == Tail(q)
<1>1. /\ r \in Seq(S) /\ Len(q) \in Nat /\ Len(q) > 0 /\ DOMAIN r = 1 .. Len(q) - 1
      /\ DOMAIN q = 1 .. Len(q) /\ Head(q) = q[1] /\ q[1] \in S
      /\ \A i \in 1 .. Len(q) - 1 : r[i] = q[i + 1]
  OBVIOUS
<1>2. \A i \in DOMAIN q : i = 1 \/ (i - 1 \in DOMAIN r /\ q[i] = r[i - 1])
  BY <1>1
<1>3. \A i \in DOMAIN r : i + 1 \in DOMAIN q /\ i + 1 # 1 /\ r[i] = q[i + 1]
  BY <1>1
<1> HIDE DEF r
<1>4. Range(q) = {Head(q)} \cup Range(r)
  BY <1>1, <1>2, <1>3 DEF Range
<1>5. ASSUME IsInjective(q) PROVE IsInjective(r) /\ Head(q) \notin Range(r)
  BY <1>1, <1>3, <1>5 DEF Range, IsInjective
<1> QED BY <1>1, <1>4, <1>5 DEF r

-----------------------------------------------------------------------------
(* r is l with t in the place of the members from .. to.                   *)
IsSplice(r, l, from, to, t) ==
  /\ Len(r) = Len(l) - (to - from + 1) + Len(t)
  /\ \A i \in 1 .. Len(r) :
       r[i] = IF i < from THEN l[i]
              ELSE IF i < from + Len(t) THEN t[i - from + 1]
              ELSE l[i - Len(t) + (to - from + 1)]

(* The members of a list after some of them have been replaced.            *)
LEMMA SpliceFacts ==
  ASSUME NEW S, NEW l \in Seq(S), NEW t \in Seq(S), NEW from \in Int, NEW to \in Int,
         1 <= from, from <= Len(l) + 1, from - 1 <= to, to <= Len(l)
  PROVE  LET r == Splice(l, from, to, t)
         IN  r \in Seq(S) /\ IsSplice(r, l, from, to, t)
<1> DEFINE n == Len(l)
           x == SubSeq(l, 1, from - 1)
           y == SubSeq(l, to + 1, n)
<1>1. n \in Nat /\ Len(t) \in Nat /\ from \in Int /\ to \in Int /\ from >= 1
      /\ from <= n + 1 /\ to >= from - 1 /\ to <= n
      /\ \A i \in 1 .. n : l[i] \in S
  BY LenProperties
<1>2. /\ x \in Seq(S) /\ Len(x) = from - 1 /\ \A i \in 1 .. from - 1 : x[i] = l[i]
  <2>1. \A i \in 1 .. from - 1 : l[i] \in S
    BY <1>1
  <2>2. /\ x \in Seq(S) /\ Len(x) = IF 1 <= from - 1 THEN from - 1 - 1 + 1 ELSE 0
        /\ \A i \in 1 .. from - 1 - 1 + 1 : x[i] = l[1 + i - 1]
    BY <1>1, <2>1, SubSeqProperties
  <2> QED BY <1>1, <2>2
<1>3. /\ y \in Seq(S) /\ Len(y) = n - to /\ \A i \in 1 .. n - to : y[i] = l[to + i]
  <2>1. \A i \in to + 1 .. n : l[i] \in S
    BY <1>1
  <2>2. /\ y \in Seq(S) /\ Len(y) = IF to + 1 <= n THEN n - (to + 1) + 1 ELSE 0
        /\ \A i \in 1 .. n - (to + 1) + 1 : y[i] = l[to + 1 + i - 1]
    BY <1>1, <2>1, SubSeqProperties
  <2> QED BY <1>1, <2>2
<1> HIDE DEF n, x, y
<1> DEFINE z == x \o t
           r == Splice(l, from, to, t)
<1>4. /\ z \in Seq(S) /\ Len(z) = Len(x) + Len(t)
      /\ \A i \in 1 .. Len(x) + Len(t) : z[i] = IF i <= Len(x) THEN x[i] ELSE t[i - Len(x)]
  BY <1>2, ConcatProperties
<1> HIDE DEF z
<1>5. r = z \o y
  BY DEF Splice, n, x, y, z
<1>6. /\ r \in Seq(S) /\ Len(r) = Len(z) + Len(y)
      /\ \A i \in 1 .. Len(z) + Len(y) : r[i] = IF i <= Len(z) THEN z[i] ELSE y[i - Len(z)]
  <2>1. y \in Seq(S) /\ z \in Seq(S)
    BY <1>3, <1>4
  <2> QED BY <1>5, <2>1, ConcatProperties
<1> HIDE DEF r
<1>7. Len(r) = n - (to - from + 1) + Len(t)
  BY <1>1, <1>2, <1>3, <1>4, <1>6
<1>8. ASSUME NEW i \in 1 .. Len(r)
      PROVE  r[i] = IF i < from THEN l[i]
                    ELSE IF i < from + Len(t) THEN t[i - from + 1]
                    ELSE l[i - Len(t) + (to - from + 1)]
  <2>1. CASE i < from
    <3>1. i <= Len(z) /\ i <= Len(x) /\ i \in 1 .. from - 1
      BY <1>1, <1>2, <1>4, <2>1
    <3>2. r[i] = z[i] /\ z[i] = x[i] /\ x[i] = l[i]
      BY <1>1, <1>2, <1>4, <1>6, <3>1
    <3> QED BY <2>1, <3>2
  <2>2. CASE i >= from /\ i < from + Len(t)
    <3>1. i <= Len(z) /\ ~(i <= Len(x)) /\ i - Len(x) = i - from + 1 /\ ~(i < from)
      BY <1>1, <1>2, <1>4, <2>2
    <3>2. r[i] = z[i] /\ z[i] = t[i - Len(x)]
      BY <1>1, <1>4, <1>6, <3>1
    <3> QED BY <2>2, <3>1, <3>2
  <2>3. CASE i >= from + Len(t)
    <3>1. /\ ~(i <= Len(z)) /\ ~(i < from) /\ ~(i < from + Len(t))
          /\ i - Len(z) \in 1 .. n - to
          /\ to + (i - Len(z)) = i - Len(t) + (to - from + 1)
      <4>1. PICK lz \in Int, lt \in Nat : lz = Len(z) /\ lt = Len(t) /\ lz = from - 1 + lt
        BY <1>1, <1>2, <1>4
      <4>2. i \in Int /\ i <= lz + (n - to) /\ i >= from + lt
        BY <1>1, <1>3, <1>6, <2>3, <4>1
      <4>3. ~(i <= lz) /\ ~(i < from) /\ i - lz \in 1 .. n - to
        BY <1>1, <4>1, <4>2
      <4>4. to + (i - lz) = i - lt + (to - from + 1)
        BY <1>1, <4>1, <4>2
      <4> QED BY <2>3, <4>1, <4>3, <4>4
    <3>2. r[i] = y[i - Len(z)] /\ y[i - Len(z)] = l[to + (i - Len(z))]
      BY <1>3, <1>6, <3>1
    <3> QED BY <3>1, <3>2
  <2> QED BY <1>1, <1>6, <2>1, <2>2, <2>3
<1>9. IsSplice(r, l, from, to, t)
  BY <1>7, <1>8 DEF n, IsSplice
<1> QED BY <1>6, <1>9 DEF r

(* r is l without node i.                                                  *)
IsCut(r, l, i) ==
  /\ Len(r) = Len(l) - 1
  /\ \A j \in 1 .. Len(r) : r[j] = IF j < i THEN l[j] ELSE l[j + 1]

(* A node is taken out of a list.                                          *)
LEMMA CutFacts ==
  ASSUME NEW S, NEW l \in Seq(S), NEW i \in 1 .. Len(l)
  PROVE  LET r == Splice(l, i, i, <<>>)
         IN  r \in Seq(S) /\ IsCut(r, l, i)
<1>0. PICK r : r = Splice(l, i, i, <<>>)
  OBVIOUS
<1>1. PICK t \in Seq(S) : t = <<>>
  <2>1. <<>> \in Seq(S)
    OBVIOUS
  <2> QED BY <2>1
<1>2. PICK c : c = i
  OBVIOUS
<1>3. r = Splice(l, i, c, t)
  BY <1>0, <1>1, <1>2
<1>4. /\ Len(l) \in Nat /\ i \in Int /\ c \in Int /\ c - i + 1 = 1 /\ Len(t) = 0
      /\ 1 <= i /\ i <= Len(l) + 1 /\ i - 1 <= c /\ c <= Len(l)
  BY <1>1, <1>2, LenProperties
<1>5. r \in Seq(S) /\ IsSplice(r, l, i, c, t)
  BY <1>3, <1>4, SpliceFacts
<1>6. Len(r) = Len(l) - 1
  <2>1. Len(r) = Len(l) - (c - i + 1) + Len(t)
    BY <1>5 DEF IsSplice
  <2> QED BY <1>4, <2>1
<1>7. ASSUME NEW j \in 1 .. Len(r) PROVE r[j] = IF j < i THEN l[j] ELSE l[j + 1]
  <2>1. r[j] = IF j < i THEN l[j]
               ELSE IF j < i + Len(t) THEN t[j - i + 1]
               ELSE l[j - Len(t) + (c - i + 1)]
    BY <1>5 DEF IsSplice
  <2>2. (j < i + Len(t) <=> j < i) /\ j - Len(t) + (c - i + 1) = j + 1
    BY <1>4, <1>6
  <2> QED BY <2>1, <2>2
<1>8. IsCut(r, l, i)
  BY <1>6, <1>7 DEF IsCut
<1> QED BY <1>5, <1>0, <1>8

(* r is l with b before node k.                                            *)
IsInsert(r, l, k, b) ==
  /\ Len(r) = Len(l) + 1
  /\ \A j \in 1 .. Len(r) : r[j] = IF j < k THEN l[j] ELSE IF j = k THEN b ELSE l[j - 1]

(* A node is put before node k of a list, or behind the last one.          *)
LEMMA InsertFacts ==
  ASSUME NEW S, NEW l \in Seq(S), NEW k \in 1 .. Len(l) + 1, NEW b \in S
  PROVE  LET r == Splice(l, k, k - 1, <<b>>)
         IN  r \in Seq(S) /\ IsInsert(r, l, k, b)
<1>0. PICK r : r = Splice(l, k, k - 1, <<b>>)
  OBVIOUS
<1>1. PICK t \in Seq(S) : t = <<b>>
  <2>1. <<b>> \in Seq(S)
    OBVIOUS
  <2> QED BY <2>1
<1>2. PICK c : c = k - 1
  OBVIOUS
<1>3. r = Splice(l, k, c, t)
  BY <1>0, <1>1, <1>2
<1>4. /\ Len(l) \in Nat /\ k \in Int /\ c \in Int
      /\ 1 <= k /\ k <= Len(l) + 1 /\ k - 1 <= c /\ c <= Len(l)
  BY <1>2, LenProperties
<1>5. r \in Seq(S) /\ IsSplice(r, l, k, c, t)
  BY <1>3, <1>4, SpliceFacts
<1>6. ASSUME NEW j \in 1 .. Len(r)
      PROVE  r[j] = IF j < k THEN l[j]
                    ELSE IF j < k + Len(t) THEN t[j - k + 1]
                    ELSE l[j - Len(t) + (c - k + 1)]
  BY <1>5 DEF IsSplice
<1>7. Len(t) = 1 /\ t[1] = b /\ c - k + 1 = 0
  BY <1>1, <1>2, <1>4
<1>8. Len(r) = Len(l) + 1
  <2>1. Len(r) = Len(l) - (c - k + 1) + Len(t)
    BY <1>5 DEF IsSplice
  <2> QED BY <1>4, <1>7, <2>1
<1>9. ASSUME NEW j \in 1 .. Len(r)
      PROVE  r[j] = IF j < k THEN l[j] ELSE IF j = k THEN b ELSE l[j - 1]
  <2>1. CASE j < k
    BY <1>6, <2>1
  <2>2. CASE j = k
    <3>1. ~(j < k) /\ j < k + Len(t) /\ j - k + 1 = 1
      BY <1>4, <1>7, <2>2
    <3> QED BY <1>6, <1>7, <2>2, <3>1
  <2>3. CASE j > k
    <3>1. ~(j < k) /\ ~(j < k + Len(t)) /\ j - Len(t) + (c - k + 1) = j - 1 /\ j # k
      BY <1>4, <1>7, <1>8, <2>3
    <3> QED BY <1>6, <3>1
  <2> QED BY <1>4, <1>8, <2>1, <2>2, <2>3
<1>10. IsInsert(r, l, k, b)
  BY <1>8, <1>9 DEF IsInsert
<1> QED BY <1>0, <1>5, <1>10

(* r is l with the nodes from k to m replaced by b.                        *)
IsJoin(r, l, k, m, b) ==
  /\ Len(r) = Len(l) - (m - k)
  /\ \A j \in 1 .. Len(r) : /\ j < k => r[j] = l[j]
                            /\ j = k => r[j] = b
                            /\ j > k => r[j] = l[j + (m - k)]

(* The nodes k to m are joined to one.                                     *)
LEMMA JoinFacts ==
  ASSUME NEW S, NEW l \in Seq(S), NEW k \in 1 .. Len(l), NEW m \in 1 .. Len(l), k <= m,
         NEW b \in S
  PROVE  LET r == Splice(l, k, m, <<b>>)
         IN  r \in Seq(S) /\ IsJoin(r, l, k, m, b)
<1>0. PICK r : r = Splice(l, k, m, <<b>>)
  OBVIOUS
<1>1. PICK t \in Seq(S) : t = <<b>>
  <2>1. <<b>> \in Seq(S)
    OBVIOUS
  <2> QED BY <2>1
<1>2. r = Splice(l, k, m, t)
  BY <1>0, <1>1
<1>3. /\ Len(l) \in Nat /\ k \in Int /\ m \in Int
      /\ 1 <= k /\ k <= Len(l) + 1 /\ k - 1 <= m /\ m <= Len(l)
  BY LenProperties
<1>4. r \in Seq(S) /\ IsSplice(r, l, k, m, t)
  BY <1>2, <1>3, SpliceFacts
<1>5. Len(r) = Len(l) - (m - k + 1) + Len(t)
  BY <1>4 DEF IsSplice
<1>6. ASSUME NEW j \in 1 .. Len(r)
      PROVE  r[j] = IF j < k THEN l[j]
                    ELSE IF j < k + Len(t) THEN t[j - k + 1]
                    ELSE l[j - Len(t) + (m - k + 1)]
  BY <1>4 DEF IsSplice
<1>7. Len(t) = 1 /\ t[1] = b
  BY <1>1
<1>8. Len(r) = Len(l) - (m - k)
  BY <1>3, <1>5, <1>7
<1>9. r[k] = b
  <2>1. k \in 1 .. Len(r) /\ ~(k < k) /\ k < k + Len(t) /\ k - k + 1 = 1
    BY <1>3, <1>7, <1>8
  <2> QED BY <1>6, <1>7, <2>1
<1>10. ASSUME NEW j \in 1 .. Len(r), j < k PROVE r[j] = l[j]
  BY <1>6, <1>10
<1>11. ASSUME NEW j \in 1 .. Len(r), j > k PROVE r[j] = l[j + (m - k)]
  <2>1. ~(j < k) /\ ~(j < k + Len(t)) /\ j - Len(t) + (m - k + 1) = j + (m - k)
    BY <1>3, <1>7, <1>8, <1>11
  <2> QED BY <1>6, <2>1
<1>12. \A j \in 1 .. Len(r) : /\ j < k => r[j] = l[j]
                              /\ j = k => r[j] = b
                              /\ j > k => r[j] = l[j + (m - k)]
  BY <1>9, <1>10, <1>11
<1>13. IsJoin(r, l, k, m, b)
  BY <1>8, <1>12 DEF IsJoin
<1> QED BY <1>0, <1>4, <1>13

-----------------------------------------------------------------------------
(* Areas that are not empty.                                               *)
Ranges == [start : Nat, size : Nat \ {0}]

(* A list in which every two areas have a page between them.               *)
Apart(l) == \A i, j \in DOMAIN l : i < j => End(l[i]) < l[j].start

(* The same of all pairs but those with area k, which may touch others.    *)
ApartBut(l, k) ==
  \A i, j \in DOMAIN l : i < j => /\ End(l[i]) <= l[j].start
                                  /\ i # k /\ j # k => End(l[i]) < l[j].start

(* The pages of a list, one by one.                                        *)
LEMMA CoveredFacts ==
  ASSUME NEW l
  PROVE  \A x : x \in Covered(l) <=>
                  \E i \in DOMAIN l : x \in Span(l[i].start, l[i].size)
BY DEF Covered

(* A page is in an area when it is neither before nor behind it.           *)
LEMMA SpanFacts ==
  ASSUME NEW a \in Ranges
  PROVE  /\ End(a) \in Nat /\ a.start < End(a) /\ a.start \in Nat /\ a.size \in Nat /\ a.size > 0
         /\ a = Area(a.start, a.size)
         /\ \A x : x \in Span(a.start, a.size) <=> x \in Nat /\ a.start <= x /\ x < End(a)
BY DEF Ranges, Span, End, Area

(* The pages of a range.                                                   *)
LEMMA SpanOf ==
  ASSUME NEW s \in Nat, NEW n \in Nat
  PROVE  \A x : x \in Span(s, n) <=> x \in Nat /\ s <= x /\ x < s + n
BY DEF Span

(* A range as an area.                                                     *)
LEMMA AreaFacts ==
  ASSUME NEW s \in Nat, NEW n \in Nat \ {0}
  PROVE  /\ Area(s, n) \in Ranges /\ Area(s, n).start = s /\ Area(s, n).size = n
         /\ End(Area(s, n)) = s + n
BY DEF Ranges, Area, End

(* A list without area i.                                                  *)
LEMMA LessFacts ==
  ASSUME NEW l \in Seq(Ranges), Apart(l), NEW i \in 1 .. Len(l),
         NEW r \in Seq(Ranges), IsCut(r, l, i)
  PROVE  Apart(r) /\ Covered(r) = Covered(l) \ Span(l[i].start, l[i].size)
<1> DEFINE a == l[i]
<1>1. PICK len \in Nat : /\ len = Len(l) /\ DOMAIN l = 1 .. len /\ i \in 1 .. len
                         /\ \A j \in 1 .. len : l[j] \in Ranges
                         /\ Len(r) = len - 1 /\ DOMAIN r = 1 .. len - 1
  BY LenProperties DEF IsCut
<1>2. a.start \in Nat /\ a.size \in Nat /\ a.size > 0 /\ End(a) = a.start + a.size
  BY <1>1, SpanFacts DEF End
<1>3. \A j \in 1 .. len - 1 : r[j] = IF j < i THEN l[j] ELSE l[j + 1]
  BY <1>1 DEF IsCut
<1>4. \A j \in 1 .. len - 1 : \/ j < i /\ j \in 1 .. len /\ r[j] = l[j]
                              \/ j >= i /\ j + 1 \in 1 .. len /\ r[j] = l[j + 1]
  BY <1>1, <1>3
<1>5. Apart(r)
  <2> SUFFICES ASSUME NEW j \in 1 .. len - 1, NEW q \in 1 .. len - 1, j < q
               PROVE  End(r[j]) < r[q].start
    BY <1>1 DEF Apart
  <2>1. \E u, v \in 1 .. len : u < v /\ r[j] = l[u] /\ r[q] = l[v]
    <3>1. CASE q < i
      <4>1. j \in 1 .. len /\ q \in 1 .. len /\ j < i
        BY <1>1, <3>1
      <4> QED BY <1>3, <3>1, <4>1
    <3>2. CASE j < i /\ q >= i
      <4>1. j \in 1 .. len /\ q + 1 \in 1 .. len /\ j < q + 1 /\ ~(q < i)
        BY <1>1, <3>2
      <4> QED BY <1>3, <3>2, <4>1
    <3>3. CASE j >= i
      <4>1. /\ j + 1 \in 1 .. len /\ q + 1 \in 1 .. len /\ j + 1 < q + 1
            /\ ~(q < i) /\ ~(j < i)
        BY <1>1, <3>3
      <4> QED BY <1>3, <4>1
    <3> QED BY <1>1, <3>1, <3>2, <3>3
  <2> QED BY <1>1, <2>1 DEF Apart
<1>6. ASSUME NEW x, x \in Covered(r) PROVE x \in Covered(l) /\ x \notin Span(a.start, a.size)
  <2>1. PICK j \in 1 .. len : j # i /\ x \in Span(l[j].start, l[j].size)
    <3>1. PICK q \in 1 .. len - 1 : x \in Span(r[q].start, r[q].size)
      BY <1>1, <1>6, CoveredFacts
    <3>2. \E u \in 1 .. len : u # i /\ r[q] = l[u]
      <4>1. \/ q < i /\ q \in 1 .. len /\ r[q] = l[q]
            \/ q >= i /\ q + 1 \in 1 .. len /\ r[q] = l[q + 1]
        BY <1>4
      <4>2. q + 1 # i \/ q < i
        BY <1>1
      <4> QED BY <1>1, <4>1, <4>2
    <3> QED BY <3>1, <3>2
  <2>2. x \in Nat /\ l[j].start <= x /\ x < End(l[j]) /\ End(l[j]) \in Nat /\ l[j].start \in Nat
    BY <1>1, <2>1, SpanFacts
  <2>3. End(l[j]) < a.start \/ End(a) < l[j].start
    BY <1>1, <2>1 DEF Apart
  <2>4. x \notin Span(a.start, a.size)
    <3>1. x \in Span(a.start, a.size) => a.start <= x /\ x < End(a)
      BY <1>1, SpanFacts
    <3> HIDE DEF a
    <3>2. End(a) \in Nat /\ a.start \in Nat
      BY <1>2
    <3> QED BY <2>2, <2>3, <3>1, <3>2
  <2> QED BY <1>1, <2>1, <2>4, CoveredFacts
<1>7. ASSUME NEW x, x \in Covered(l), x \notin Span(a.start, a.size) PROVE x \in Covered(r)
  <2>1. PICK j \in 1 .. len : x \in Span(l[j].start, l[j].size)
    BY <1>1, <1>7, CoveredFacts
  <2>2. j # i
    BY <1>7, <2>1
  <2>3. \E q \in 1 .. len - 1 : r[q] = l[j]
    <3>1. CASE j < i
      <4>1. j \in 1 .. len - 1
        BY <1>1, <3>1
      <4> QED BY <1>3, <3>1, <4>1
    <3>2. CASE j > i
      <4>1. j - 1 \in 1 .. len - 1 /\ ~(j - 1 < i) /\ j - 1 + 1 = j
        BY <1>1, <3>2
      <4> QED BY <1>3, <4>1
    <3> QED BY <1>1, <2>2, <3>1, <3>2
  <2> QED BY <1>1, <2>1, <2>3, CoveredFacts
<1> QED BY <1>5, <1>6, <1>7

(* A list in which area i has lost its first pages.                        *)
LEMMA ShorterFacts ==
  ASSUME NEW l \in Seq(Ranges), Apart(l), NEW i \in 1 .. Len(l),
         NEW b \in Ranges, l[i].start <= b.start, End(b) = End(l[i]),
         NEW r \in Seq(Ranges), IsJoin(r, l, i, i, b)
  PROVE  Apart(r) /\ Covered(r) = Covered(l) \ Span(l[i].start, b.start - l[i].start)
<1> DEFINE a == l[i]
           n == b.start - a.start
<1>1. PICK len \in Nat : /\ len = Len(l) /\ DOMAIN l = 1 .. len /\ i \in 1 .. len
                         /\ \A j \in 1 .. len : l[j] \in Ranges
                         /\ Len(r) = len /\ DOMAIN r = 1 .. len
  BY LenProperties DEF IsJoin
<1>2. /\ a.start \in Nat /\ a.size \in Nat /\ a.size > 0 /\ End(a) = a.start + a.size
      /\ b.start \in Nat /\ b.size \in Nat /\ b.size > 0 /\ End(b) = b.start + b.size
      /\ n \in Nat /\ b.start = a.start + n
  <2>1. a \in Ranges /\ a.start <= b.start
    BY <1>1
  <2> HIDE DEF a
  <2>2. /\ a.start \in Nat /\ a.size \in Nat /\ a.size > 0
        /\ b.start \in Nat /\ b.size \in Nat /\ b.size > 0
    BY <2>1, SpanFacts
  <2>3. n \in Nat /\ b.start = a.start + n
    BY <2>1, <2>2
  <2> QED BY <2>2, <2>3 DEF End
<1> HIDE DEF n
<1>3. r[i] = b /\ \A j \in 1 .. len : j # i => r[j] = l[j]
  <2>1. \A j \in 1 .. len : /\ j < i => r[j] = l[j]
                            /\ j = i => r[j] = b
                            /\ j > i => r[j] = l[j + (i - i)]
    BY <1>1 DEF IsJoin
  <2>2. \A j \in 1 .. len : j + (i - i) = j /\ (j # i => j < i \/ j > i)
    BY <1>1
  <2> QED BY <1>1, <2>1, <2>2
<1>4. Apart(r)
  <2> SUFFICES ASSUME NEW j \in 1 .. len, NEW q \in 1 .. len, j < q
               PROVE  End(r[j]) < r[q].start
    BY <1>1 DEF Apart
  <2>1. End(l[j]) < l[q].start /\ End(l[j]) \in Nat /\ l[q].start \in Nat
    BY <1>1, SpanFacts DEF Apart
  <2>2. End(r[j]) = End(l[j])
    BY <1>3
  <2>3. r[q].start >= l[q].start /\ r[q].start \in Nat
    <3>1. CASE q = i
      BY <1>2, <1>3, <3>1
    <3>2. CASE q # i
      <4>1. r[q] = l[q]
        BY <1>3, <3>2
      <4> QED BY <2>1, <4>1
    <3> QED BY <3>1, <3>2
  <2> QED BY <2>1, <2>2, <2>3
<1>5. \A x : x \in Span(b.start, b.size) <=>
               x \in Span(a.start, a.size) /\ x \notin Span(a.start, n)
  <2>1. \A x : x \in Span(a.start, n) <=> x \in Nat /\ a.start <= x /\ x < b.start
    BY <1>2, SpanOf
  <2>2. \A x : x \in Span(a.start, a.size) <=> x \in Nat /\ a.start <= x /\ x < End(a)
    BY <1>1, SpanFacts
  <2>3. \A x : x \in Span(b.start, b.size) <=> x \in Nat /\ b.start <= x /\ x < End(a)
    BY SpanFacts
  <2> HIDE DEF a
  <2>4. a.start \in Nat /\ b.start \in Nat /\ a.start <= b.start
    BY <1>2
  <2> QED BY <2>1, <2>2, <2>3, <2>4
<1>6. ASSUME NEW x, x \in Covered(r) PROVE x \in Covered(l) /\ x \notin Span(a.start, n)
  <2>1. PICK j \in 1 .. len : x \in Span(r[j].start, r[j].size)
    BY <1>1, <1>6, CoveredFacts
  <2>2. CASE j = i
    BY <1>1, <1>3, <1>5, <2>1, <2>2, CoveredFacts
  <2>3. CASE j # i
    <3>1. /\ x \in Nat /\ l[j].start <= x /\ x < End(l[j])
          /\ End(l[j]) \in Nat /\ l[j].start \in Nat /\ x \in Span(l[j].start, l[j].size)
      BY <1>1, <1>3, <2>1, <2>3, SpanFacts
    <3>2. End(l[j]) < a.start \/ End(a) < l[j].start
      BY <1>1, <2>3 DEF Apart
    <3>3. End(b) = End(a) /\ b.start < End(b) /\ End(b) \in Nat
      BY SpanFacts
    <3>4. x \in Span(a.start, n) => a.start <= x /\ x < b.start
      BY <1>2, SpanOf
    <3>5. x \notin Span(a.start, n)
      <4> SUFFICES ASSUME a.start <= x, x < b.start PROVE FALSE
        BY <3>4
      <4>1. a.start \in Nat /\ b.start \in Nat /\ End(a) \in Nat /\ b.start < End(a)
        BY <1>2, <3>3
      <4>2. x < End(a)
        BY <3>1, <4>1
      <4>3. x < End(l[j])
        BY <3>1
      <4> HIDE DEF a
      <4>4. ~(End(l[j]) < a.start)
        BY <3>1, <4>1, <4>3
      <4>5. ~(End(a) < l[j].start)
        BY <3>1, <4>1, <4>2
      <4> QED BY <3>2, <4>4, <4>5
    <3> QED BY <1>1, <3>1, <3>5, CoveredFacts
  <2> QED BY <2>2, <2>3
<1>7. ASSUME NEW x, x \in Covered(l), x \notin Span(a.start, n) PROVE x \in Covered(r)
  <2>1. PICK j \in 1 .. len : x \in Span(l[j].start, l[j].size)
    BY <1>1, <1>7, CoveredFacts
  <2>2. x \in Span(r[j].start, r[j].size)
    BY <1>3, <1>5, <1>7, <2>1
  <2> QED BY <1>1, <2>1, <2>2, CoveredFacts
<1>8. Span(a.start, n) = Span(l[i].start, b.start - l[i].start)
  BY DEF n
<1> QED BY <1>4, <1>6, <1>7, <1>8

(* A set of places of a list that has, with a place, all before it, counts *)
(* the places up to the last of them.                                      *)
LEMMA PrefixFacts ==
  ASSUME NEW n \in Nat, NEW P, P \subseteq 1 .. n, \A i \in P : \A j \in 1 .. i : j \in P
  PROVE  Cardinality(P) \in 0 .. n /\ P = 1 .. Cardinality(P)
<1>1. CASE P = {}
  <2>1. Cardinality(P) = 0
    BY <1>1, FS_EmptySet
  <2> QED BY <1>1, <2>1
<1>2. CASE P # {}
  <2>1. P \subseteq Nat /\ IsFiniteSet(P)
    <3>1. IsFiniteSet(1 .. n) /\ P \in SUBSET (1 .. n)
      BY FS_Interval
    <3>2. IsFiniteSet(P)
      BY <3>1, FS_Subset
    <3> QED BY <3>2
  <2>2. PICK c \in P : \A y \in P : y <= c
    BY <1>2, <2>1, MaxIsGreatest
  <2>3. P = 1 .. c /\ c \in 1 .. n
    <3>1. c \in 1 .. n /\ \A j \in 1 .. c : j \in P
      BY <2>2
    <3>2. \A j \in P : j \in 1 .. c
      BY <2>2
    <3> QED BY <3>1, <3>2
  <2>4. Cardinality(1 .. c) = c
    <3>1. 1 \in Int /\ c \in Int /\ ~(1 > c) /\ c - 1 + 1 = c
      BY <2>3
    <3> QED BY <3>1, FS_Interval
  <2> QED BY <2>3, <2>4
<1> QED BY <1>1, <1>2

(* A list into which pages have been put that are not in it yet.           *)
LEMMA MoreFacts ==
  ASSUME NEW l \in Seq(Ranges), Apart(l), NEW m \in Ranges, NEW k \in 1 .. Len(l) + 1,
         Covered(l) \cap Span(m.start, m.size) = {},
         \A i \in 1 .. Len(l) : l[i].start <= m.start <=> i < k,
         NEW r \in Seq(Ranges), IsInsert(r, l, k, m)
  PROVE  ApartBut(r, k) /\ Covered(r) = Covered(l) \cup Span(m.start, m.size)
<1>1. PICK len \in Nat : /\ len = Len(l) /\ DOMAIN l = 1 .. len /\ k \in 1 .. len + 1
                         /\ \A j \in 1 .. len : l[j] \in Ranges
                         /\ Len(r) = len + 1 /\ DOMAIN r = 1 .. len + 1
  BY LenProperties DEF IsInsert
<1>2. /\ \A j \in 1 .. len : l[j].start \in Nat /\ End(l[j]) \in Nat /\ l[j].start < End(l[j])
      /\ m.start \in Nat /\ End(m) \in Nat /\ m.start < End(m)
  BY <1>1, SpanFacts
<1>3. ASSUME NEW i \in 1 .. len
      PROVE  /\ i < k => End(l[i]) <= m.start
             /\ i >= k => End(m) <= l[i].start
  <2>1. \A x : ~(x \in Nat /\ l[i].start <= x /\ x < End(l[i]) /\ m.start <= x /\ x < End(m))
    <3>1. \A x : x \in Span(l[i].start, l[i].size) => x \notin Span(m.start, m.size)
      BY <1>1, CoveredFacts
    <3> QED BY <1>1, <3>1, SpanFacts
  <2>2. l[i].start <= m.start <=> i < k
    BY <1>1
  <2>3. ASSUME i < k, ~(End(l[i]) <= m.start) PROVE FALSE
    <3>1. ~(m.start \in Nat /\ l[i].start <= m.start /\ m.start < End(l[i])
            /\ m.start <= m.start /\ m.start < End(m))
      BY <2>1
    <3> QED BY <1>2, <2>2, <2>3, <3>1
  <2>4. ASSUME i >= k, ~(End(m) <= l[i].start) PROVE FALSE
    <3>1. ~(l[i].start \in Nat /\ l[i].start <= l[i].start /\ l[i].start < End(l[i])
            /\ m.start <= l[i].start /\ l[i].start < End(m))
      BY <2>1
    <3>2. ~(i < k)
      BY <1>1, <2>4
    <3> QED BY <1>2, <2>2, <2>4, <3>1, <3>2
  <2> QED BY <2>3, <2>4
<1>4. \A j \in 1 .. len + 1 : r[j] = IF j < k THEN l[j] ELSE IF j = k THEN m ELSE l[j - 1]
  BY <1>1 DEF IsInsert
<1>5. \A j \in 1 .. len + 1 : \/ j < k /\ j \in 1 .. len /\ r[j] = l[j]
                              \/ j = k /\ r[j] = m
                              \/ j > k /\ j - 1 \in 1 .. len /\ j - 1 >= k /\ r[j] = l[j - 1]
  BY <1>1, <1>4
<1>6. \A i, j \in 1 .. len : i < j => End(l[i]) < l[j].start
  BY <1>1 DEF Apart
<1>7. ApartBut(r, k)
  <2> SUFFICES ASSUME NEW i \in 1 .. len + 1, NEW j \in 1 .. len + 1, i < j
               PROVE  /\ End(r[i]) <= r[j].start
                      /\ i # k /\ j # k => End(r[i]) < r[j].start
    BY <1>1 DEF ApartBut
  <2>1. CASE i # k /\ j # k
    <3>1. \E u, v \in 1 .. len : u < v /\ r[i] = l[u] /\ r[j] = l[v]
      <4>1. CASE j < k
        BY <1>1, <1>5, <4>1
      <4>2. CASE i < k /\ j > k
        <5>1. i \in 1 .. len /\ j - 1 \in 1 .. len /\ i < j - 1
          BY <1>1, <4>2
        <5> QED BY <1>1, <1>5, <4>2, <5>1
      <4>3. CASE i > k
        <5>1. i - 1 \in 1 .. len /\ j - 1 \in 1 .. len /\ i - 1 < j - 1
          BY <1>1, <4>3
        <5> QED BY <1>1, <1>5, <4>3, <5>1
      <4> QED BY <1>1, <2>1, <4>1, <4>2, <4>3
    <3>2. PICK u \in 1 .. len, v \in 1 .. len : u < v /\ r[i] = l[u] /\ r[j] = l[v]
      BY <3>1
    <3>3. End(l[u]) < l[v].start /\ End(l[u]) \in Nat /\ l[v].start \in Nat
      BY <1>2, <1>6, <3>2
    <3>4. End(r[i]) < r[j].start /\ End(r[i]) \in Nat /\ r[j].start \in Nat
      BY <3>2, <3>3
    <3> QED BY <3>4
  <2>2. CASE i = k
    <3>1. PICK v \in 1 .. len : v >= k /\ r[j] = l[v]
      BY <1>1, <1>5, <2>2
    <3>2. End(m) <= l[v].start /\ r[i] = m
      BY <1>1, <1>3, <1>5, <2>2, <3>1
    <3> QED BY <2>2, <3>1, <3>2
  <2>3. CASE j = k
    <3>1. r[j] = m /\ i \in 1 .. len /\ r[i] = l[i] /\ i < k
      BY <1>1, <1>5, <2>3
    <3>2. End(l[i]) <= m.start
      BY <1>3, <3>1
    <3> QED BY <2>3, <3>1, <3>2
  <2> QED BY <2>1, <2>2, <2>3
<1>8. \A x : x \in Covered(r) <=> x \in Covered(l) \/ x \in Span(m.start, m.size)
  <2>1. ASSUME NEW x, x \in Covered(r) PROVE x \in Covered(l) \/ x \in Span(m.start, m.size)
    <3>1. PICK j \in 1 .. len + 1 : x \in Span(r[j].start, r[j].size)
      BY <1>1, <2>1, CoveredFacts
    <3>2. CASE j = k
      BY <1>5, <3>1, <3>2
    <3>3. CASE j # k
      <4>1. \E u \in 1 .. len : r[j] = l[u]
        BY <1>5, <3>3
      <4> QED BY <1>1, <3>1, <4>1, CoveredFacts
    <3> QED BY <3>2, <3>3
  <2>2. ASSUME NEW x, x \in Covered(l) PROVE x \in Covered(r)
    <3>1. PICK i \in 1 .. len : x \in Span(l[i].start, l[i].size)
      BY <1>1, <2>2, CoveredFacts
    <3>2. \E j \in 1 .. len + 1 : r[j] = l[i]
      <4>1. CASE i < k
        <5>1. i \in 1 .. len + 1
          BY <1>1
        <5> QED BY <1>4, <4>1, <5>1
      <4>2. CASE i >= k
        <5>1. i + 1 \in 1 .. len + 1 /\ ~(i + 1 < k) /\ i + 1 # k /\ i + 1 - 1 = i
          BY <1>1, <4>2
        <5> QED BY <1>4, <5>1
      <4> QED BY <1>1, <4>1, <4>2
    <3> QED BY <1>1, <3>1, <3>2, CoveredFacts
  <2>3. ASSUME NEW x, x \in Span(m.start, m.size) PROVE x \in Covered(r)
    <3>1. r[k] = m
      BY <1>1, <1>4
    <3> QED BY <1>1, <2>3, <3>1, CoveredFacts
  <2> QED BY <2>1, <2>2, <2>3
<1> QED BY <1>7, <1>8

(* The areas from a to b are area k and those of its neighbours that touch *)
(* it, and c has the pages of all of them.                                 *)
Joins(l, k, a, b, c) ==
  /\ a <= k /\ k <= b
  /\ \/ a = k /\ (k > 1 => End(l[k - 1]) # l[k].start)
     \/ a = k - 1 /\ End(l[a]) = l[k].start
  /\ \/ b = k /\ (k < Len(l) => End(l[k]) # l[k + 1].start)
     \/ b = k + 1 /\ End(l[k]) = l[b].start
  /\ c.start = l[a].start /\ End(c) = End(l[b])

(* A list in which area k and those of its neighbours that touch it are    *)
(* one area: there is a page between every two, and no page is lost.       *)
LEMMA JoinedList ==
  ASSUME NEW l \in Seq(Ranges), NEW k \in 1 .. Len(l), ApartBut(l, k),
         NEW a \in 1 .. Len(l), NEW b \in 1 .. Len(l), NEW c \in Ranges, Joins(l, k, a, b, c),
         NEW r \in Seq(Ranges), IsJoin(r, l, a, b, c)
  PROVE  Apart(r) /\ Covered(r) = Covered(l)
<1>1. Len(r) = Len(l) - (b - a)
  BY DEF IsJoin
<1>2. \A j \in 1 .. Len(r) : /\ j < a => r[j] = l[j]
                             /\ j = a => r[j] = c
                             /\ j > a => r[j] = l[j + (b - a)]
  BY DEF IsJoin
<1>3. a \in 1 .. Len(r) /\ r[a] = c
  BY <1>1, <1>2, LenProperties
<1>4. PICK len \in Nat : /\ len = Len(l) /\ DOMAIN l = 1 .. len /\ k \in 1 .. len
                         /\ a \in 1 .. len /\ b \in 1 .. len
                         /\ \A j \in 1 .. len : l[j] \in Ranges
  BY LenProperties
<1>5. \A j \in 1 .. len : /\ l[j].start \in Nat /\ End(l[j]) \in Nat
                          /\ l[j].start < End(l[j])
  BY <1>4, SpanFacts
<1>6. \A i, j \in 1 .. len : i < j => /\ End(l[i]) <= l[j].start
                                      /\ i # k /\ j # k => End(l[i]) < l[j].start
  BY <1>4 DEF ApartBut
<1>7. /\ \/ a = k /\ (k > 1 => End(l[k - 1]) # l[k].start)
         \/ a = k - 1 /\ End(l[a]) = l[k].start
      /\ \/ b = k /\ (k < len => End(l[k]) # l[k + 1].start)
         \/ b = k + 1 /\ End(l[k]) = l[b].start
      /\ a <= k /\ k <= b /\ a \in Int /\ b \in Int /\ a <= b /\ k \in a .. b
  BY <1>4 DEF Joins
<1>8. c.start = l[a].start /\ End(c) = End(l[b])
  BY DEF Joins
<1>9. PICK d \in Nat : d = b - a
  BY <1>7
<1>10. Len(r) = len - d /\ DOMAIN r = 1 .. len - d
  BY <1>1, <1>4, <1>9, LenProperties
<1>11. /\ a \in 1 .. len - d /\ r[a] = c
       /\ \A j \in 1 .. len - d : r[j] = IF j < a THEN l[j] ELSE IF j = a THEN c ELSE l[j + d]
  <2>1. a \in 1 .. len - d
    BY <1>4, <1>7, <1>9
  <2>2. ASSUME NEW j \in 1 .. len - d
        PROVE  r[j] = IF j < a THEN l[j] ELSE IF j = a THEN c ELSE l[j + d]
    <3>1. j \in Int /\ j \in 1 .. Len(r)
      BY <1>4, <1>9, <1>10
    <3>2. CASE j < a
      BY <1>2, <3>1, <3>2
    <3>3. CASE j = a
      BY <1>3, <3>3
    <3>4. CASE j > a
      BY <1>2, <1>9, <3>1, <3>4
    <3> QED BY <1>7, <3>1, <3>2, <3>3, <3>4
  <2> QED BY <1>3, <2>1, <2>2
<1>12. \A j \in 1 .. len - d : \/ j < a /\ j \in 1 .. len /\ r[j] = l[j]
                               \/ j = a /\ r[j] = c
                               \/ j > a /\ j + d \in 1 .. len /\ j + d > b /\ r[j] = l[j + d]
  BY <1>4, <1>7, <1>9, <1>11
<1>13. ASSUME NEW u \in 1 .. len, NEW v \in 1 .. len, u < v, u < a \/ u >= b, v <= a \/ v > b
       PROVE  End(l[u]) < l[v].start
  <2>1. CASE u # k /\ v # k
    BY <1>6, <1>13, <2>1
  <2>2. CASE u = k
    <3>1. b = k /\ k < len /\ End(l[k]) # l[k + 1].start /\ k + 1 \in 1 .. len
      BY <1>4, <1>7, <1>13, <2>2
    <3>2. End(l[k]) < l[k + 1].start
      BY <1>4, <1>5, <1>6, <3>1
    <3>3. l[k + 1].start <= l[v].start
      <4>1. PICK w \in 1 .. len : w = k + 1
        BY <3>1
      <4>2. v = w \/ v > w
        BY <1>13, <2>2, <4>1
      <4>3. v > w => End(l[w]) <= l[v].start
        BY <1>6
      <4>4. l[w].start <= l[v].start
        BY <1>5, <4>2, <4>3
      <4> QED BY <4>1, <4>4
    <3> QED BY <1>4, <1>5, <2>2, <3>1, <3>2, <3>3
  <2>3. CASE v = k
    <3>1. a = k /\ k > 1 /\ End(l[k - 1]) # l[k].start /\ k - 1 \in 1 .. len
      BY <1>4, <1>7, <1>13, <2>3
    <3>2. End(l[k - 1]) < l[k].start
      BY <1>4, <1>5, <1>6, <3>1
    <3>3. End(l[u]) <= End(l[k - 1])
      <4>1. PICK w \in 1 .. len : w = k - 1
        BY <3>1
      <4>2. u = w \/ u < w
        BY <1>4, <1>13, <2>3, <4>1
      <4>3. u < w => End(l[u]) <= l[w].start
        BY <1>6
      <4>4. End(l[u]) <= End(l[w])
        BY <1>5, <4>2, <4>3
      <4> QED BY <4>1, <4>4
    <3> QED BY <1>4, <1>5, <2>3, <3>1, <3>2, <3>3
  <2> QED BY <2>1, <2>2, <2>3
<1>14. Apart(r)
  <2> SUFFICES ASSUME NEW i \in 1 .. len - d, NEW j \in 1 .. len - d, i < j
               PROVE  End(r[i]) < r[j].start
    BY <1>10, <1>9 DEF Apart
  <2>1. PICK u \in 1 .. len : /\ End(r[i]) = End(l[u])
                              /\ \/ i < a /\ u = i
                                 \/ i = a /\ u = b
                                 \/ i > a /\ u = i + d /\ u > b
    <3>1. CASE i < a
      <4>1. i \in 1 .. len /\ r[i] = l[i]
        BY <1>4, <1>7, <1>12, <3>1
      <4> QED BY <3>1, <4>1
    <3>2. CASE i = a
      <4>1. End(r[i]) = End(l[b])
        BY <1>3, <1>8, <3>2
      <4> QED BY <1>4, <3>2, <4>1
    <3>3. CASE i > a
      <4>1. i \in Int /\ a \in Int
        BY <1>7
      <4>2. i + d \in 1 .. len /\ i + d > b /\ r[i] = l[i + d]
        BY <1>12, <3>3, <4>1
      <4> QED BY <3>3, <4>2
    <3> QED BY <1>4, <1>7, <3>1, <3>2, <3>3
  <2>2. PICK v \in 1 .. len : /\ r[j].start = l[v].start
                              /\ \/ j <= a /\ v = j
                                 \/ j > a /\ v = j + d /\ v > b
    <3>1. CASE j < a
      <4>1. j \in Int /\ a \in Int
        BY <1>7
      <4>2. j \in 1 .. len /\ r[j] = l[j]
        BY <1>12, <3>1, <4>1
      <4>3. j <= a
        BY <3>1, <4>1
      <4> QED BY <4>2, <4>3
    <3>2. CASE j = a
      <4>1. r[j].start = l[a].start /\ j <= a
        BY <1>3, <1>7, <1>8, <3>2
      <4> QED BY <3>2, <4>1
    <3>3. CASE j > a
      <4>1. j \in Int /\ a \in Int
        BY <1>7
      <4>2. j + d \in 1 .. len /\ j + d > b /\ r[j] = l[j + d]
        BY <1>12, <3>3, <4>1
      <4> QED BY <3>3, <4>2
    <3> QED BY <1>4, <1>7, <3>1, <3>2, <3>3
  <2>3. u < v /\ (u < a \/ u >= b) /\ (v <= a \/ v > b)
    <3>1. a \in Int /\ b \in Int /\ a <= b /\ d = b - a /\ i \in Int /\ j \in Int /\ i < j
      BY <1>4, <1>7, <1>9
    <3>2. (u < a \/ u >= b) /\ (v <= a \/ v > b)
      BY <2>1, <2>2, <3>1
    <3>3. u < v
      BY <2>1, <2>2, <3>1
    <3> QED BY <3>2, <3>3
  <2> QED BY <1>13, <2>1, <2>2, <2>3
<1>15. \A x : x \in Span(c.start, c.size) <=> \E i \in a .. b : x \in Span(l[i].start, l[i].size)
  <2>1. \A x : x \in Span(c.start, c.size) <=> x \in Nat /\ l[a].start <= x /\ x < End(l[b])
    BY <1>8, SpanFacts
  <2>2. \A i \in 1 .. len : \A x : x \in Span(l[i].start, l[i].size) <=>
                                   x \in Nat /\ l[i].start <= x /\ x < End(l[i])
    BY <1>4, SpanFacts
  <2>3. \A i \in a .. b : i \in 1 .. len /\ (i = a \/ i = k \/ i = b)
    BY <1>4, <1>7
  <2>4. /\ a \in a .. b /\ k \in a .. b /\ b \in a .. b
        /\ a = k \/ End(l[a]) = l[k].start
        /\ b = k \/ End(l[k]) = l[b].start
        /\ l[a].start <= l[k].start /\ End(l[a]) <= End(l[k])
        /\ l[k].start <= l[b].start /\ End(l[k]) <= End(l[b])
    BY <1>4, <1>5, <1>7
  <2>5. ASSUME NEW x \in Nat, l[a].start <= x, x < End(l[b])
        PROVE  \E i \in a .. b : l[i].start <= x /\ x < End(l[i])
    <3>1. CASE x < End(l[a])
      BY <2>4, <2>5, <3>1
    <3>2. CASE ~(x < End(l[a])) /\ x < End(l[k])
      <4>1. l[k].start <= x
        BY <1>4, <1>5, <2>4, <2>5, <3>2
      <4> QED BY <2>4, <3>2, <4>1
    <3>3. CASE ~(x < End(l[k]))
      <4>1. l[b].start <= x
        BY <1>4, <1>5, <2>4, <2>5, <3>3
      <4> QED BY <2>4, <2>5, <4>1
    <3> QED BY <3>1, <3>2, <3>3
  <2>6. ASSUME NEW x \in Nat, NEW i \in a .. b, l[i].start <= x, x < End(l[i])
        PROVE  l[a].start <= x /\ x < End(l[b])
    <3>1. l[a].start <= l[i].start /\ End(l[i]) <= End(l[b])
      <4>1. /\ l[a].start <= l[a].start /\ End(l[a]) <= End(l[b])
            /\ l[a].start <= l[b].start /\ End(l[b]) <= End(l[b])
        BY <1>4, <1>5, <2>4
      <4> QED BY <2>3, <2>4, <4>1
    <3> QED BY <1>4, <1>5, <2>3, <2>6, <3>1
  <2> QED BY <2>1, <2>2, <2>3, <2>5, <2>6
<1>16. \A x : x \in Covered(r) <=> x \in Covered(l)
  <2>1. ASSUME NEW x, x \in Covered(r) PROVE x \in Covered(l)
    <3>1. PICK j \in 1 .. len - d : x \in Span(r[j].start, r[j].size)
      BY <1>10, <1>9, <2>1, CoveredFacts
    <3>2. CASE j = a
      <4>0. x \in Span(c.start, c.size)
        BY <1>3, <3>1, <3>2
      <4>1. PICK i \in a .. b : x \in Span(l[i].start, l[i].size)
        BY <1>15, <4>0
      <4>2. i \in 1 .. len
        BY <1>4, <1>7
      <4> QED BY <1>4, <4>1, <4>2, CoveredFacts
    <3>3. CASE j # a
      <4>1. \E u \in 1 .. len : r[j] = l[u]
        BY <1>12, <3>3
      <4> QED BY <1>4, <3>1, <4>1, CoveredFacts
    <3> QED BY <3>2, <3>3
  <2>2. ASSUME NEW x, x \in Covered(l) PROVE x \in Covered(r)
    <3>1. PICK i \in 1 .. len : x \in Span(l[i].start, l[i].size)
      BY <1>4, <2>2, CoveredFacts
    <3>2. \E j \in 1 .. len - d : x \in Span(r[j].start, r[j].size)
      <4>1. CASE i < a
        <5>1. i \in 1 .. len - d
          BY <1>4, <1>7, <1>9, <4>1
        <5> QED BY <3>1, <1>11, <4>1, <5>1
      <4>2. CASE i \in a .. b
        BY <1>15, <3>1, <1>11, <4>2
      <4>3. CASE i > b
        <5>1. i - d \in 1 .. len - d /\ ~(i - d < a) /\ i - d # a /\ i - d + d = i
          BY <1>4, <1>7, <1>9, <4>3
        <5> QED BY <3>1, <1>11, <5>1
      <4> QED BY <1>4, <1>7, <4>1, <4>2, <4>3
    <3> QED BY <1>10, <1>9, <3>2, CoveredFacts
  <2> QED BY <2>1, <2>2
<1> QED BY <1>14, <1>16

(* The same of the splice that makes them one.                             *)
LEMMA JoinedFacts ==
  ASSUME NEW l \in Seq(Ranges), NEW k \in 1 .. Len(l), ApartBut(l, k),
         NEW a \in 1 .. Len(l), NEW b \in 1 .. Len(l), NEW c \in Ranges, Joins(l, k, a, b, c)
  PROVE  LET r == Splice(l, a, b, <<c>>)
         IN  /\ r \in Seq(Ranges) /\ Len(r) = Len(l) - (b - a)
             /\ Apart(r) /\ Covered(r) = Covered(l)
<1>1. a <= b
  BY LenProperties DEF Joins
<1>2. PICK r : r = Splice(l, a, b, <<c>>)
  OBVIOUS
<1>3. r \in Seq(Ranges) /\ IsJoin(r, l, a, b, c)
  BY <1>1, <1>2, JoinFacts
<1>4. Len(r) = Len(l) - (b - a)
  BY <1>3 DEF IsJoin
<1>5. Apart(r) /\ Covered(r) = Covered(l)
  BY <1>3, JoinedList
<1> QED BY <1>2, <1>3, <1>4, <1>5

-----------------------------------------------------------------------------
(* A list in which no area starts before those before it end.              *)
Ordered(l) == \A i, j \in DOMAIN l : i < j => End(l[i]) <= l[j].start

(* The lists of free areas of a process: the last area ends at top.        *)
FreeAreas(l, top) ==
  l \in Seq(Ranges) /\ l # <<>> /\ Ordered(l) /\ End(l[Len(l)]) = top

(* The areas t can take the place of those from "from" to "to", and the    *)
(* last area ends at top then.                                             *)
Fits(l, from, to, t, top) ==
  /\ Ordered(t)
  /\ \A j \in DOMAIN t : /\ \A i \in 1 .. from - 1 : End(l[i]) <= t[j].start
                         /\ \A i \in to + 1 .. Len(l) : End(t[j]) <= l[i].start
  /\ IF to = Len(l) THEN t # <<>> /\ End(t[Len(t)]) = top ELSE End(l[Len(l)]) = top

(* A page is in r when it is in t or in an area of l that t has not        *)
(* replaced.                                                               *)
HasPagesOf(r, l, from, to, t) ==
  \A x : x \in Covered(r) <=>
            \/ x \in Covered(t)
            \/ \E i \in DOMAIN l : /\ i < from \/ i > to
                                   /\ x \in Span(l[i].start, l[i].size)

(* Areas have been replaced by others that fit: the list stays in order,   *)
(* and it has the pages of those and of the areas that are left.           *)
LEMMA SpliceKeepsOrder ==
  ASSUME NEW l, NEW t \in Seq(Ranges), NEW from \in Int, NEW to \in Int, NEW top,
         1 <= from, from <= Len(l) + 1, from - 1 <= to, to <= Len(l),
         NEW old, FreeAreas(l, old), Fits(l, from, to, t, top),
         NEW r \in Seq(Ranges), IsSplice(r, l, from, to, t)
  PROVE  FreeAreas(r, top) /\ HasPagesOf(r, l, from, to, t)
<1>1. PICK len \in Nat, m \in Nat, k \in Nat, n \in Nat :
        /\ len = Len(l) /\ m = Len(t) /\ k = to - from + 1 /\ n = Len(r)
        /\ DOMAIN l = 1 .. len /\ DOMAIN t = 1 .. m /\ DOMAIN r = 1 .. n
        /\ \A i \in 1 .. len : l[i] \in Ranges
        /\ \A i \in 1 .. m : t[i] \in Ranges
  <2>1. l \in Seq(Ranges)
    BY DEF FreeAreas
  <2>2. /\ Len(l) \in Nat /\ DOMAIN l = 1 .. Len(l) /\ \A i \in 1 .. Len(l) : l[i] \in Ranges
        /\ Len(t) \in Nat /\ DOMAIN t = 1 .. Len(t) /\ \A i \in 1 .. Len(t) : t[i] \in Ranges
        /\ Len(r) \in Nat /\ DOMAIN r = 1 .. Len(r)
    BY <2>1, LenProperties
  <2>3. to - from + 1 \in Nat
    OBVIOUS
  <2> QED BY <2>2, <2>3
<1>2. /\ n = len - k + m /\ from >= 1 /\ from <= len + 1 /\ from + k = to + 1 /\ to <= len
      /\ len >= 1 /\ len \in Nat /\ m \in Nat /\ k \in Nat /\ n \in Nat
      /\ from \in Int /\ to \in Int
  <2>1. n = len - k + m
    BY <1>1 DEF IsSplice
  <2>2. len >= 1
    BY <1>1 DEF FreeAreas
  <2> QED BY <1>1, <2>1, <2>2
<1>3. ASSUME NEW j \in 1 .. n
      PROVE  r[j] = IF j < from THEN l[j]
                    ELSE IF j < from + m THEN t[j - from + 1]
                    ELSE l[j - m + k]
  BY <1>1 DEF IsSplice
<1>4. /\ \A i, j \in 1 .. len : i < j => End(l[i]) <= l[j].start
      /\ \A i, j \in 1 .. m : i < j => End(t[i]) <= t[j].start
      /\ \A j \in 1 .. m : /\ \A i \in 1 .. from - 1 : End(l[i]) <= t[j].start
                           /\ \A i \in to + 1 .. len : End(t[j]) <= l[i].start
      /\ (to = len => m > 0 /\ End(t[m]) = top) /\ (to # len => End(l[len]) = top)
  <2>1. \A i, j \in 1 .. len : i < j => End(l[i]) <= l[j].start
    BY <1>1 DEF FreeAreas, Ordered
  <2>2. /\ \A i, j \in 1 .. m : i < j => End(t[i]) <= t[j].start
        /\ \A j \in 1 .. m : /\ \A i \in 1 .. from - 1 : End(l[i]) <= t[j].start
                             /\ \A i \in to + 1 .. len : End(t[j]) <= l[i].start
    BY <1>1 DEF Ordered, Fits
  <2>3. (to = len => m > 0 /\ End(t[m]) = top) /\ (to # len => End(l[len]) = top)
    BY <1>1 DEF Fits
  <2> QED BY <2>1, <2>2, <2>3
<1>5. ASSUME NEW j \in 1 .. n, j < from
      PROVE  j \in 1 .. from - 1 /\ j \in 1 .. len /\ r[j] = l[j]
  <2>1. j \in 1 .. from - 1 /\ j \in 1 .. len
    BY <1>2, <1>5
  <2> QED BY <1>3, <1>5, <2>1
<1>6. ASSUME NEW j \in 1 .. n, j >= from, j < from + m
      PROVE  \E u \in 1 .. m : u = j - from + 1 /\ r[j] = t[u]
  <2>1. PICK u \in 1 .. m : u = j - from + 1
    BY <1>2, <1>6
  <2>2. ~(j < from)
    BY <1>2, <1>6
  <2>3. r[j] = t[j - from + 1]
    BY <1>3, <1>6, <2>2
  <2> QED BY <2>1, <2>3
<1>7. ASSUME NEW j \in 1 .. n, j >= from + m
      PROVE  \E u \in 1 .. len : u > to /\ u \in to + 1 .. len /\ u = j - m + k /\ r[j] = l[u]
  <2>1. PICK u \in 1 .. len : u > to /\ u \in to + 1 .. len /\ u = j - m + k
    BY <1>2, <1>7
  <2>2. ~(j < from) /\ ~(j < from + m)
    BY <1>2, <1>7
  <2>3. r[j] = l[j - m + k]
    BY <1>3, <2>2
  <2> QED BY <2>1, <2>3
<1>8. Ordered(r)
  <2> SUFFICES ASSUME NEW i \in 1 .. n, NEW j \in 1 .. n, i < j
               PROVE  End(r[i]) <= r[j].start
    BY <1>1 DEF Ordered
  <2>1. CASE i < from
    <3>1. i \in 1 .. from - 1 /\ i \in 1 .. len /\ r[i] = l[i]
      BY <1>5, <2>1
    <3>2. CASE j < from
      <4>1. j \in 1 .. len /\ r[j] = l[j]
        BY <1>5, <3>2
      <4> QED BY <1>4, <3>1, <4>1
    <3>3. CASE j >= from /\ j < from + m
      <4>1. PICK u \in 1 .. m : r[j] = t[u]
        BY <1>6, <3>3
      <4> QED BY <1>4, <3>1, <4>1
    <3>4. CASE j >= from + m
      <4>1. PICK u \in 1 .. len : u > to /\ r[j] = l[u]
        BY <1>7, <3>4
      <4>2. i < u
        BY <1>2, <2>1, <4>1
      <4> QED BY <1>4, <3>1, <4>1, <4>2
    <3> QED BY <1>2, <3>2, <3>3, <3>4
  <2>2. CASE i >= from /\ i < from + m
    <3>1. PICK v \in 1 .. m : v = i - from + 1 /\ r[i] = t[v]
      BY <1>6, <2>2
    <3>2. CASE j < from + m
      <4>1. j >= from
        BY <1>2, <2>2
      <4>2. PICK u \in 1 .. m : u = j - from + 1 /\ r[j] = t[u]
        BY <1>6, <3>2, <4>1
      <4>3. v < u
        <5>1. i - from + 1 < j - from + 1
          BY <1>2
        <5> QED BY <3>1, <4>2, <5>1
      <4> QED BY <1>4, <3>1, <4>2, <4>3
    <3>3. CASE j >= from + m
      <4>1. PICK u \in 1 .. len : u \in to + 1 .. len /\ r[j] = l[u]
        BY <1>7, <3>3
      <4> QED BY <1>4, <3>1, <4>1
    <3> QED BY <1>2, <3>2, <3>3
  <2>3. CASE i >= from + m
    <3>1. PICK v \in 1 .. len : v = i - m + k /\ r[i] = l[v]
      BY <1>7, <2>3
    <3>2. j >= from + m
      BY <1>2, <2>3
    <3>3. PICK u \in 1 .. len : u = j - m + k /\ r[j] = l[u]
      BY <1>7, <3>2
    <3>4. v < u
      <4>1. i - m + k < j - m + k
        BY <1>2
      <4> QED BY <3>1, <3>3, <4>1
    <3> QED BY <1>4, <3>1, <3>3, <3>4
  <2> QED BY <1>2, <2>1, <2>2, <2>3
<1>9. n > 0 /\ End(r[n]) = top
  <2>1. CASE to = len
    <3>1. m > 0 /\ End(t[m]) = top
      BY <1>4, <2>1
    <3>2. n \in 1 .. n /\ n >= from /\ n < from + m /\ n - from + 1 = m /\ n > 0
      BY <1>2, <2>1, <3>1
    <3>3. r[n] = t[m]
      BY <1>6, <3>2
    <3> QED BY <3>1, <3>2, <3>3
  <2>2. CASE to # len
    <3>1. n \in 1 .. n /\ n >= from + m /\ n - m + k = len /\ n > 0
      BY <1>2, <2>2
    <3>2. r[n] = l[len]
      BY <1>7, <3>1
    <3> QED BY <1>4, <2>2, <3>1, <3>2
  <2> QED BY <2>1, <2>2
<1>10. FreeAreas(r, top)
  BY <1>1, <1>8, <1>9 DEF FreeAreas
<1>11. ASSUME NEW x, x \in Covered(r)
       PROVE  \/ x \in Covered(t)
              \/ \E i \in 1 .. len : (i < from \/ i > to) /\ x \in Span(l[i].start, l[i].size)
  <2>1. PICK j \in 1 .. n : x \in Span(r[j].start, r[j].size)
    BY <1>1, <1>11, CoveredFacts
  <2>2. CASE j < from
    BY <1>5, <2>1, <2>2
  <2>3. CASE j >= from /\ j < from + m
    <3>1. PICK u \in 1 .. m : r[j] = t[u]
      BY <1>6, <2>3
    <3> QED BY <1>1, <2>1, <3>1, CoveredFacts
  <2>4. CASE j >= from + m
    BY <1>7, <2>1, <2>4
  <2> QED BY <1>2, <2>2, <2>3, <2>4
<1>12. ASSUME NEW x, x \in Covered(t) PROVE x \in Covered(r)
  <2>1. PICK u \in 1 .. m : x \in Span(t[u].start, t[u].size)
    BY <1>1, <1>12, CoveredFacts
  <2>2. PICK j \in 1 .. n : j >= from /\ j < from + m /\ u = j - from + 1
    <3>1. u + from - 1 \in 1 .. n /\ u + from - 1 >= from /\ u + from - 1 < from + m
      BY <1>2
    <3>2. u = u + from - 1 - from + 1
      BY <1>2
    <3> QED BY <3>1, <3>2
  <2>3. r[j] = t[u]
    BY <1>6, <2>2
  <2> QED BY <1>1, <2>1, <2>3, CoveredFacts
<1>13. ASSUME NEW x, NEW i \in 1 .. len, i < from \/ i > to, x \in Span(l[i].start, l[i].size)
       PROVE  x \in Covered(r)
  <2>1. \E j \in 1 .. n : r[j] = l[i]
    <3>1. CASE i < from
      <4>1. i \in 1 .. n
        BY <1>2, <3>1
      <4> QED BY <1>5, <3>1, <4>1
    <3>2. CASE i > to
      <4>1. PICK j \in 1 .. n : j >= from + m /\ i = j - m + k
        <5>1. i + m - k \in 1 .. n /\ i + m - k >= from + m /\ i = i + m - k - m + k
          BY <1>2, <3>2
        <5> QED BY <5>1
      <4> QED BY <1>7, <4>1
    <3> QED BY <1>13, <3>1, <3>2
  <2> QED BY <1>1, <1>13, <2>1, CoveredFacts
<1>14. HasPagesOf(r, l, from, to, t)
  BY <1>1, <1>11, <1>12, <1>13 DEF HasPagesOf
<1> QED BY <1>10, <1>14
=============================================================================
