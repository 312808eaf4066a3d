----------------------------- MODULE ShellProofs -----------------------------
(***************************************************************************)
(* Theorems about Shell for every length of the line and every set of      *)
(* keys: getline's buffer is a text with a cursor, and the line is cut     *)
(* into its words.                                                         *)
(***************************************************************************)
EXTENDS Shell, CommonLemmas

Chars == Keys \cup {Bracket, Zero}
Editing == {"key", "escape", "arrow"}

(* A buffer of the editor and the length of its line.                      *)
LineIn(b, len) == b \in [Cells -> Chars] /\ len \in 0 .. Size

(* The state of getline, as a record.                                      *)
IsEdited(e) == LineIn(e.buf, e.length) /\ e.pos \in 0 .. e.length

(* Outside of getline the length is still that of the line that was read.  *)
EditInv ==
  /\ buf \in [Cells -> Chars] /\ length \in 0 .. Size /\ pos \in 0 .. length
  /\ state \in Editing \cup {"command", "exited", "spins"}
  /\ state \in Editing => LineIn(buf, length)

-----------------------------------------------------------------------------
(* f is e after n characters have been put in at the cursor.               *)
Grown(e, f, n) ==
  /\ f.length = e.length + n /\ f.pos = e.pos + n
  /\ \A i \in 0 .. e.pos - 1 : f.buf[i] = e.buf[i]
  /\ \A i \in e.pos .. e.length - 1 : f.buf[i + n] = e.buf[i]

(* insertChar moves what is behind the cursor by one cell, and getline     *)
(* calls it only when there is room.                                       *)
LEMMA InsertedGrows ==
  ASSUME Size \in Nat,
         NEW e, IsEdited(e), NEW c \in Keys \cup {Bracket}
  PROVE  IsEdited(Inserted(e, c)) /\ \E n \in 0 .. 1 : Grown(e, Inserted(e, c), n)
<1> DEFINE f == Inserted(e, c)
<1>1. PICK len \in Nat, p \in Nat : len = e.length /\ p = e.pos /\ p <= len /\ len <= Size
  BY DEF IsEdited, LineIn
<1>2. e.buf \in [0 .. Size -> Chars]
  BY <1>1 DEF IsEdited, LineIn, Cells
<1>3. CASE len = Size
  <2>1. f = e
    BY <1>1, <1>3 DEF Inserted
  <2>2. Grown(e, e, 0)
    BY <1>1 DEF Grown
  <2> QED BY <2>1, <2>2
<1>4. CASE len # Size
  <2> DEFINE b == [i \in 0 .. Size |-> IF i = p THEN c
                                       ELSE IF i \in p + 1 .. len THEN e.buf[i - 1]
                                       ELSE e.buf[i]]
  <2>1. f = [buf |-> b, pos |-> p + 1, length |-> len + 1]
    BY <1>1, <1>4 DEF Inserted, Cells
  <2>2. c \in Chars
    BY DEF Chars
  <2>3. ASSUME NEW i \in 0 .. Size
        PROVE  b[i] \in Chars
    <3>1. CASE i = p
      BY <2>2, <3>1
    <3>2. CASE i \in p + 1 .. len
      <4>1. i # p /\ i - 1 \in 0 .. Size /\ i - 1 \in 0 .. len - 1
        BY <1>1, <3>2
      <4>2. b[i] = e.buf[i - 1]
        BY <3>2, <4>1
      <4> QED BY <1>2, <4>1, <4>2
    <3>3. CASE i # p /\ i \notin p + 1 .. len
      <4>1. b[i] = e.buf[i]
        BY <3>3
      <4> QED BY <1>2, <4>1
    <3> QED BY <3>1, <3>2, <3>3
  <2>4. LineIn(b, len + 1)
    <3>1. b \in [Cells -> Chars]
      BY <2>3 DEF Cells
    <3>2. len + 1 \in 0 .. Size
      BY <1>1, <1>4
    <3> HIDE DEF b
    <3> QED BY <3>1, <3>2 DEF LineIn
  <2>5. \A i \in 0 .. p - 1 : b[i] = e.buf[i]
    <3>1. \A i \in 0 .. p - 1 : i \in 0 .. Size /\ i # p /\ i \notin p + 1 .. len
      BY <1>1
    <3> QED BY <3>1
  <2>6. \A i \in p .. len - 1 : b[i + 1] = e.buf[i]
    <3>1. \A i \in p .. len - 1 : /\ i + 1 \in 0 .. Size /\ i + 1 # p /\ i + 1 \in p + 1 .. len
                                  /\ i + 1 - 1 = i
      BY <1>1
    <3> QED BY <3>1
  <2> HIDE DEF b
  <2>7. f.buf = b /\ f.pos = p + 1 /\ f.length = len + 1
    BY <2>1
  <2>8. Grown(e, f, 1)
    BY <1>1, <2>5, <2>6, <2>7 DEF Grown
  <2>9. IsEdited(f)
    <3>1. p + 1 \in 0 .. len + 1
      BY <1>1
    <3> QED BY <2>4, <2>7, <3>1 DEF IsEdited
  <2> QED BY <2>8, <2>9
<1> QED BY <1>3, <1>4

(* Two characters after each other, as for an unknown escape sequence.     *)
LEMMA GrownTwice ==
  ASSUME NEW e, NEW f, NEW g, IsEdited(e), Size \in Nat,
         NEW n \in 0 .. 1, NEW m \in 0 .. 1, Grown(e, f, n), Grown(f, g, m)
  PROVE  Grown(e, g, n + m)
<1>1. PICK len \in Nat, p \in Nat : len = e.length /\ p = e.pos /\ p <= len
  BY DEF IsEdited, LineIn
<1>2. f.length = len + n /\ f.pos = p + n
  BY <1>1 DEF Grown
<1>3. g.length = len + (n + m) /\ g.pos = p + (n + m)
  BY <1>1, <1>2 DEF Grown
<1>4. ASSUME NEW i \in 0 .. p - 1 PROVE g.buf[i] = e.buf[i]
  <2>1. i \in 0 .. p + n - 1
    BY <1>1
  <2> QED BY <1>1, <1>2, <2>1 DEF Grown
<1>5. ASSUME NEW i \in p .. len - 1 PROVE g.buf[i + (n + m)] = e.buf[i]
  <2>1. i + n \in p + n .. len + n - 1 /\ i + n + m = i + (n + m)
    BY <1>1
  <2>2. g.buf[i + n + m] = f.buf[i + n]
    BY <1>2, <2>1 DEF Grown
  <2>3. f.buf[i + n] = e.buf[i]
    BY <1>1 DEF Grown
  <2> QED BY <2>1, <2>2, <2>3
<1> QED BY <1>1, <1>3, <1>4, <1>5 DEF Grown

(* An arrow moves the cursor by at most one cell and keeps it in the line. *)
LEMMA MovedFacts ==
  ASSUME Size \in Nat, NEW e, IsEdited(e),
         NEW b, NEW p, NEW len, e = [buf |-> b, pos |-> p, length |-> len], NEW c
  PROVE  \E q \in 0 .. len : /\ Moved(e, c) = [buf |-> b, pos |-> q, length |-> len]
                             /\ q - p \in -1 .. 1
<1>1. len \in Nat /\ p \in Nat /\ p <= len
  BY DEF IsEdited, LineIn
<1>2. PICK q : q = IF c = ArrowLeft THEN Max({0, p - 1})
                   ELSE IF c \in {ArrowUp, ArrowDown} THEN p ELSE Min({len, p + 1})
  OBVIOUS
<1>3. Moved(e, c) = [buf |-> b, pos |-> q, length |-> len]
  BY <1>2 DEF Moved
<1>4. q \in 0 .. len /\ q - p \in -1 .. 1
  <2>1. CASE c = ArrowLeft
    <3>1. CASE p = 0
      <4>1. {0, p - 1} = {0, -1}
        BY <3>1
      <4>2. Max({0, -1}) = 0
        BY DEF Max
      <4> QED BY <1>1, <1>2, <2>1, <3>1, <4>1, <4>2
    <3>2. CASE p # 0
      <4>1. PICK r \in Nat : r = p - 1
        BY <1>1, <3>2
      <4>2. Max({0, r}) \in {0, r} /\ r <= Max({0, r})
        BY MaxOfTwo
      <4>3. q = r
        BY <1>2, <2>1, <4>1, <4>2
      <4> QED BY <1>1, <4>1, <4>3
    <3> QED BY <3>1, <3>2
  <2>2. CASE c # ArrowLeft /\ c \in {ArrowUp, ArrowDown}
    BY <1>1, <1>2, <2>2
  <2>3. CASE c # ArrowLeft /\ c \notin {ArrowUp, ArrowDown}
    <3>1. PICK r \in Nat : r = p + 1
      BY <1>1
    <3>2. Min({len, r}) \in {len, r} /\ Min({len, r}) <= len /\ Min({len, r}) <= r
      BY <1>1, MinOfTwo
    <3>3. q = Min({len, r})
      BY <1>2, <2>3, <3>1
    <3> QED BY <1>1, <3>1, <3>2, <3>3
  <2> QED BY <2>1, <2>2, <2>3
<1> QED BY <1>3, <1>4

-----------------------------------------------------------------------------
(* The first len cells of a buffer as a text.                              *)
TextOf(b, len) == [i \in 1 .. len |-> b[i - 1]]

(* Its characters are those of the buffer, one index later.                *)
LEMMA TextFacts ==
  ASSUME Size \in Nat, NEW b, NEW len, LineIn(b, len)
  PROVE  /\ TextOf(b, len) \in Seq(Chars) /\ Len(TextOf(b, len)) = len
         /\ \A i \in 1 .. len : TextOf(b, len)[i] = b[i - 1]
<1>1. len \in Nat /\ \A i \in 1 .. len : i - 1 \in Cells
  BY DEF LineIn, Cells
<1>2. \A i \in 1 .. len : b[i - 1] \in Chars
  BY <1>1 DEF LineIn
<1>3. TextOf(b, len) \in [1 .. len -> Chars]
  BY <1>2 DEF TextOf
<1>4. TextOf(b, len) \in Seq(Chars)
  BY <1>1, <1>3, SeqDef
<1> QED BY <1>1, <1>3, <1>4, LenProperties DEF TextOf

(* There is one list with t in the place of the members from .. to.        *)
LEMMA OneSplice ==
  ASSUME NEW S, NEW l \in Seq(S), NEW t \in Seq(S), NEW from \in Int, NEW to \in Int,
         1 <= from, from <= Len(l) + 1, from - 1 <= to, to <= Len(l),
         NEW r \in Seq(S), IsSplice(r, l, from, to, t)
  PROVE  r = Splice(l, from, to, t)
<1>1. PICK x : x = Splice(l, from, to, t)
  OBVIOUS
<1>2. x \in Seq(S) /\ IsSplice(x, l, from, to, t)
  BY <1>1, SpliceFacts
<1>3. Len(x) = Len(r) /\ \A i \in 1 .. Len(x) : x[i] = r[i]
  BY <1>2 DEF IsSplice
<1> QED BY <1>1, <1>2, <1>3, SeqEqual

(* Characters that are put in at the cursor are put in there in the text,  *)
(* and the rest of it stays.                                               *)
LEMMA GrownText ==
  ASSUME Size \in Nat, NEW e, NEW f, IsEdited(e), LineIn(f.buf, f.length),
         NEW n \in 0 .. 2, Grown(e, f, n)
  PROVE  LET l == TextOf(e.buf, e.length)
             r == TextOf(f.buf, f.length)
         IN  /\ n = Len(r) - Len(l) /\ Len(r) <= Size
             /\ r = SubSeq(l, 1, e.pos) \o SubSeq(r, e.pos + 1, e.pos + n)
                      \o SubSeq(l, e.pos + 1, Len(l))
<1> DEFINE l == TextOf(e.buf, e.length)
           r == TextOf(f.buf, f.length)
<1>1. PICK len \in Nat, p \in Nat :
        len = e.length /\ p = e.pos /\ p <= len /\ len <= Size
  BY DEF IsEdited, LineIn
<1>2. f.length = len + n /\ len + n <= Size
  BY <1>1 DEF Grown, LineIn
<1>3. l \in Seq(Chars) /\ Len(l) = len /\ \A i \in 1 .. len : l[i] = e.buf[i - 1]
  BY <1>1, TextFacts DEF IsEdited
<1>4. r \in Seq(Chars) /\ Len(r) = len + n /\ \A i \in 1 .. len + n : r[i] = f.buf[i - 1]
  BY <1>2, TextFacts
<1> HIDE DEF l, r
<1>5. PICK t : t = SubSeq(r, p + 1, p + n)
  OBVIOUS
<1>6. t \in Seq(Chars) /\ Len(t) = n /\ \A i \in 1 .. n : t[i] = r[p + i]
  <2>1. \A i \in p + 1 .. p + n : r[i] \in Chars
    BY <1>1, <1>4, LenProperties
  <2>2. /\ t \in Seq(Chars) /\ Len(t) = IF p + 1 <= p + n THEN p + n - (p + 1) + 1 ELSE 0
        /\ \A i \in 1 .. p + n - (p + 1) + 1 : t[i] = r[p + 1 + i - 1]
    BY <1>5, <2>1, SubSeqProperties
  <2>3. p + n - (p + 1) + 1 = n /\ (p + 1 <= p + n <=> n > 0)
        /\ \A i \in 1 .. n : p + 1 + i - 1 = p + i
    OBVIOUS
  <2> QED BY <2>2, <2>3
<1>7. ASSUME NEW i \in 1 .. len + n
      PROVE  r[i] = IF i < p + 1 THEN l[i]
                    ELSE IF i < p + 1 + n THEN t[i - (p + 1) + 1]
                    ELSE l[i - n + (p - (p + 1) + 1)]
  <2>1. CASE i < p + 1
    <3>1. i - 1 \in 0 .. p - 1 /\ i \in 1 .. len
      BY <1>1, <2>1
    <3>2. f.buf[i - 1] = e.buf[i - 1]
      BY <1>1, <3>1 DEF Grown
    <3> QED BY <1>3, <1>4, <2>1, <3>1, <3>2
  <2>2. CASE i >= p + 1 /\ i < p + 1 + n
    <3>1. ~(i < p + 1) /\ i - (p + 1) + 1 \in 1 .. n /\ p + (i - (p + 1) + 1) = i
      BY <1>1, <2>2
    <3> QED BY <1>6, <2>2, <3>1
  <2>3. CASE i >= p + 1 + n
    <3>1. PICK j \in p .. len - 1 : j = i - 1 - n
      BY <1>1, <2>3
    <3>2. /\ ~(i < p + 1) /\ ~(i < p + 1 + n) /\ i - 1 = j + n
          /\ i - n + (p - (p + 1) + 1) = j + 1 /\ j + 1 \in 1 .. len /\ j + 1 - 1 = j
      BY <1>1, <2>3, <3>1
    <3>3. f.buf[j + n] = e.buf[j]
      BY <1>1 DEF Grown
    <3>4. r[i] = e.buf[j] /\ l[j + 1] = e.buf[j]
      <4>1. r[i] = f.buf[i - 1]
        BY <1>4
      <4>2. l[j + 1] = e.buf[j + 1 - 1]
        <5>1. j + 1 \in 1 .. len
          BY <3>2
        <5> QED BY <1>3, <5>1
      <4> QED BY <3>2, <3>3, <4>1, <4>2
    <3> QED BY <3>2, <3>4
  <2> QED BY <1>1, <2>1, <2>2, <2>3
<1>8. IsSplice(r, l, p + 1, p, t)
  BY <1>1, <1>3, <1>4, <1>6, <1>7 DEF IsSplice
<1>9. r = Splice(l, p + 1, p, t)
  <2>1. 1 <= p + 1 /\ p + 1 <= Len(l) + 1 /\ p + 1 - 1 <= p /\ p <= Len(l)
    BY <1>1, <1>3
  <2> QED BY <1>3, <1>4, <1>6, <1>8, <2>1, OneSplice
<1>10. r = SubSeq(l, 1, p) \o t \o SubSeq(l, p + 1, Len(l))
  <2>1. (p + 1) - 1 = p
    BY <1>1
  <2>2. Splice(l, p + 1, p, t) = SubSeq(l, 1, (p + 1) - 1) \o t \o SubSeq(l, p + 1, Len(l))
    BY Zenon DEF Splice
  <2> QED BY <1>9, <2>1, <2>2, Zenon
<1>11. n = Len(r) - Len(l) /\ Len(r) <= Size
  BY <1>1, <1>2, <1>3, <1>4
<1> QED BY <1>1, <1>5, <1>10, <1>11 DEF l, r

(* removeChar takes the character before the cursor out of the text.       *)
LEMMA RemovedText ==
  ASSUME Size \in Nat, NEW e, IsEdited(e), e.pos # 0
  PROVE  LET f == Removed(e)
             l == TextOf(e.buf, e.length)
         IN  /\ IsEdited(f) /\ f.pos = e.pos - 1
             /\ TextOf(f.buf, f.length) =
                  SubSeq(l, 1, e.pos - 1) \o SubSeq(l, e.pos + 1, Len(l))
<1> DEFINE f == Removed(e)
           l == TextOf(e.buf, e.length)
           r == TextOf(f.buf, f.length)
<1>1. PICK len \in Nat, p \in Nat :
        len = e.length /\ p = e.pos /\ p <= len /\ len <= Size /\ p > 0
  BY DEF IsEdited, LineIn
<1>2. e.buf \in [0 .. Size -> Chars]
  BY <1>1 DEF IsEdited, LineIn, Cells
<1> DEFINE b == [i \in 0 .. Size |-> IF i \in p - 1 .. len - 2 THEN e.buf[i + 1] ELSE e.buf[i]]
<1>3. f = [buf |-> b, pos |-> p - 1, length |-> len - 1]
  BY <1>1 DEF Removed, Cells
<1>4. ASSUME NEW i \in 0 .. Size
      PROVE  b[i] \in Chars
  <2>1. CASE i \in p - 1 .. len - 2
    <3>1. i + 1 \in 0 .. Size /\ i + 1 \in 0 .. len - 1
      BY <1>1, <2>1
    <3>2. b[i] = e.buf[i + 1]
      BY <2>1
    <3> QED BY <1>2, <3>1, <3>2
  <2>2. CASE i \notin p - 1 .. len - 2
    <3>1. b[i] = e.buf[i]
      BY <2>2
    <3> QED BY <1>2, <3>1
  <2> QED BY <2>1, <2>2
<1>5. LineIn(b, len - 1)
  <2>1. b \in [Cells -> Chars]
    BY <1>4 DEF Cells
  <2>2. len - 1 \in 0 .. Size
    BY <1>1
  <2> HIDE DEF b
  <2> QED BY <2>1, <2>2 DEF LineIn
<1>6. f.buf = b /\ f.pos = p - 1 /\ f.length = len - 1
  BY <1>3
<1>7. l \in Seq(Chars) /\ Len(l) = len /\ \A i \in 1 .. len : l[i] = e.buf[i - 1]
  BY <1>1, TextFacts DEF IsEdited
<1> HIDE DEF f, b
<1>8. r \in Seq(Chars) /\ Len(r) = len - 1 /\ \A i \in 1 .. len - 1 : r[i] = f.buf[i - 1]
  <2>1. LineIn(f.buf, f.length)
    BY <1>5, <1>6
  <2>2. /\ r \in Seq(Chars) /\ Len(r) = f.length
        /\ \A i \in 1 .. f.length : r[i] = f.buf[i - 1]
    BY <2>1, TextFacts
  <2> QED BY <1>6, <2>2
<1> HIDE DEF l, r
<1> USE DEF b
<1>9. ASSUME NEW i \in 1 .. len - 1 PROVE r[i] = IF i < p THEN l[i] ELSE l[i + 1]
  <2>1. i - 1 \in 0 .. Size /\ i \in 1 .. len /\ i + 1 \in 1 .. len /\ i + 1 - 1 = i
        /\ i - 1 + 1 = i
    BY <1>1
  <2>2. r[i] = b[i - 1]
    BY <1>6, <1>8
  <2>3. CASE i < p
    <3>1. i - 1 \notin p - 1 .. len - 2
      BY <1>1, <2>3
    <3>2. b[i - 1] = e.buf[i - 1]
      BY <2>1, <3>1
    <3> QED BY <1>7, <2>1, <2>2, <2>3, <3>2
  <2>4. CASE ~(i < p)
    <3>1. i - 1 \in p - 1 .. len - 2
      BY <1>1, <2>4
    <3>2. b[i - 1] = e.buf[i]
      BY <2>1, <3>1
    <3>3. l[i + 1] = e.buf[i]
      BY <1>7, <2>1
    <3> QED BY <2>2, <2>4, <3>2, <3>3
  <2> QED BY <2>3, <2>4
<1> HIDE DEF b
<1>10. p \in 1 .. Len(l)
  BY <1>1, <1>7
<1>11. r = Splice(l, p, p, <<>>)
  <2>1. PICK x : x = Splice(l, p, p, <<>>)
    OBVIOUS
  <2>2. x \in Seq(Chars) /\ IsCut(x, l, p)
    BY <1>7, <1>10, <2>1, CutFacts
  <2>3. Len(x) = Len(r) /\ \A i \in 1 .. Len(x) : x[i] = r[i]
    BY <1>7, <1>8, <1>9, <2>2 DEF IsCut
  <2> QED BY <1>8, <2>1, <2>2, <2>3, SeqEqual
<1>12. r = SubSeq(l, 1, p - 1) \o SubSeq(l, p + 1, Len(l))
  <2>1. \A i \in 1 .. p - 1 : l[i] \in Chars
    BY <1>1, <1>7, LenProperties
  <2>2. SubSeq(l, 1, p - 1) \in Seq(Chars)
    BY <1>1, <2>1, SubSeqProperties
  <2>3. SubSeq(l, 1, p - 1) \o <<>> = SubSeq(l, 1, p - 1)
    BY <2>2, ConcatEmptySeq
  <2> QED BY <1>11, <2>3 DEF Splice
<1>13. IsEdited(f)
  <2>1. p - 1 \in 0 .. len - 1
    BY <1>1
  <2> QED BY <1>5, <1>6, <2>1 DEF IsEdited
<1> QED BY <1>1, <1>6, <1>12, <1>13 DEF f, l, r

-----------------------------------------------------------------------------
(* What getline does with one key: it puts characters in at the cursor,    *)
(* takes one out before it, or moves it.                                   *)
EditStep(e, f) ==
  /\ IsEdited(f)
  /\ \/ \E g : /\ \E n \in 0 .. 2 : Grown(e, g, n)
               /\ f.buf = g.buf /\ f.length = g.length /\ f.pos - g.pos \in -1 .. 1
     \/ e.pos # 0 /\ f = Removed(e)

(* An insertion moves the cursor with it.                                  *)
LEMMA InsertedIsStep ==
  ASSUME Size \in Nat,
         NEW e, IsEdited(e), NEW c \in Keys \cup {Bracket}
  PROVE  EditStep(e, Inserted(e, c))
<1>1. PICK f : f = Inserted(e, c)
  OBVIOUS
<1>2. IsEdited(f) /\ \E n \in 0 .. 1 : Grown(e, f, n)
  BY <1>1, InsertedGrows
<1>3. f.pos - f.pos \in -1 .. 1
  BY <1>2 DEF IsEdited, LineIn
<1> QED BY <1>1, <1>2, <1>3 DEF EditStep

(* A key that only begins an escape sequence changes nothing.              *)
LEMMA SameIsStep ==
  ASSUME Size \in Nat, NEW e, IsEdited(e)
  PROVE  EditStep(e, e) /\ Grown(e, e, 0)
<1>1. PICK len \in Nat, p \in Nat : len = e.length /\ p = e.pos
  BY DEF IsEdited, LineIn
<1>2. Grown(e, e, 0)
  BY <1>1 DEF Grown
<1>3. e.pos - e.pos \in -1 .. 1
  BY <1>1
<1> QED BY <1>2, <1>3 DEF EditStep

(* The third key of an escape sequence, after up to two insertions.        *)
LEMMA MovedIsStep ==
  ASSUME Size \in Nat, NEW e, IsEdited(e), NEW g, IsEdited(g),
         NEW n \in 0 .. 2, Grown(e, g, n), NEW c,
         g = [buf |-> g.buf, pos |-> g.pos, length |-> g.length]
  PROVE  EditStep(e, Moved(g, c))
<1>1. PICK b, p, len : b = g.buf /\ p = g.pos /\ len = g.length
  OBVIOUS
<1>2. g = [buf |-> b, pos |-> p, length |-> len]
  BY <1>1
<1>3. PICK q \in 0 .. len : /\ Moved(g, c) = [buf |-> b, pos |-> q, length |-> len]
                            /\ q - p \in -1 .. 1
  BY <1>2, MovedFacts
<1>4. PICK f : f = Moved(g, c)
  OBVIOUS
<1>5. f.buf = g.buf /\ f.length = g.length /\ f.pos = q
  BY <1>1, <1>3, <1>4
<1>6. IsEdited(f)
  BY <1>1, <1>5 DEF IsEdited
<1>7. f.pos - g.pos \in -1 .. 1
  BY <1>1, <1>3, <1>5
<1> QED BY <1>4, <1>5, <1>6, <1>7 DEF EditStep

-----------------------------------------------------------------------------
(* The keys of getline are such steps.                                     *)
LEMMA KeysAreSteps ==
  ASSUME EditInv, state \in Editing, NEW c \in Keys, Key(c) \/ AfterEscape(c) \/ Arrow(c)
  PROVE  /\ \E f : Becomes(f) /\ EditStep(Edited, f)
         /\ state' \in Editing /\ UNCHANGED <<argv, line>>
<1>1. Size \in Nat
  BY ShellAssumption
<1>2. PICK e : e = Edited
  OBVIOUS
<1>3. e.buf = buf /\ e.pos = pos /\ e.length = length
      /\ e = [buf |-> e.buf, pos |-> e.pos, length |-> e.length]
  BY <1>2 DEF Edited
<1>4. IsEdited(e)
  BY <1>3 DEF EditInv, IsEdited
<1>5. EditStep(e, e) /\ Grown(e, e, 0)
  BY <1>1, <1>4, SameIsStep
<1>6. ASSUME NEW d \in Keys \cup {Bracket}, NEW x, IsEdited(x),
             x = [buf |-> x.buf, pos |-> x.pos, length |-> x.length]
      PROVE  LET f == Inserted(x, d)
             IN  f = [buf |-> f.buf, pos |-> f.pos, length |-> f.length]
  BY <1>6 DEF Inserted
<1>7. CASE Key(c)
  <2>1. PICK f : Becomes(f) /\ f = IF c \in Backspaces THEN Removed(e)
                                    ELSE IF c = Escape THEN e ELSE Inserted(e, c)
    BY <1>2, <1>7 DEF Key
  <2>2. EditStep(e, f)
    <3>1. CASE c \in Backspaces
      <4>1. CASE pos = 0
        BY <1>3, <1>5, <2>1, <3>1, <4>1 DEF Removed
      <4>2. CASE pos # 0
        <5>1. IsEdited(Removed(e))
          BY <1>1, <1>3, <1>4, <4>2, RemovedText
        <5> QED BY <1>3, <2>1, <3>1, <4>2, <5>1 DEF EditStep
      <4> QED BY <4>1, <4>2
    <3>2. CASE c \notin Backspaces
      BY <1>1, <1>4, <1>5, <2>1, <3>2, InsertedIsStep
    <3> QED BY <3>1, <3>2
  <2> QED BY <1>2, <1>7, <2>1, <2>2 DEF Key, Editing
<1>8. CASE AfterEscape(c)
  <2>1. PICK f : Becomes(f) /\ f = IF c = Bracket THEN e ELSE Inserted(e, c)
    BY <1>2, <1>8 DEF AfterEscape
  <2>2. EditStep(e, f)
    BY <1>1, <1>4, <1>5, <2>1, InsertedIsStep
  <2> QED BY <1>2, <1>8, <2>1, <2>2 DEF AfterEscape, Editing
<1>9. CASE Arrow(c)
  <2>1. PICK g : g = IF c \in {ArrowUp, ArrowDown, ArrowRight, ArrowLeft} THEN e
                     ELSE Inserted(Inserted(e, Bracket), c)
    OBVIOUS
  <2>2. Becomes(Moved(g, c))
    BY <1>2, <1>9, <2>1 DEF Arrow
  <2>3. /\ IsEdited(g) /\ g = [buf |-> g.buf, pos |-> g.pos, length |-> g.length]
        /\ \E n \in 0 .. 2 : Grown(e, g, n)
    <3>1. CASE c \in {ArrowUp, ArrowDown, ArrowRight, ArrowLeft}
      BY <1>3, <1>4, <1>5, <2>1, <3>1
    <3>2. CASE c \notin {ArrowUp, ArrowDown, ArrowRight, ArrowLeft}
      <4>1. PICK f : f = Inserted(e, Bracket)
        OBVIOUS
      <4>2. g = Inserted(f, c)
        BY <2>1, <3>2, <4>1
      <4>3. IsEdited(f) /\ \E n \in 0 .. 1 : Grown(e, f, n)
        BY <1>1, <1>4, <4>1, InsertedGrows
      <4>4. f = [buf |-> f.buf, pos |-> f.pos, length |-> f.length]
        BY <1>3, <1>4, <1>6, <4>1
      <4>5. IsEdited(g) /\ \E n \in 0 .. 1 : Grown(f, g, n)
        BY <1>1, <4>2, <4>3, InsertedGrows
      <4>6. g = [buf |-> g.buf, pos |-> g.pos, length |-> g.length]
        BY <1>6, <4>2, <4>3, <4>4
      <4>7. PICK n \in 0 .. 1, m \in 0 .. 1 : Grown(e, f, n) /\ Grown(f, g, m)
        BY <4>3, <4>5
      <4>8. Grown(e, g, n + m) /\ n + m \in 0 .. 2
        BY <1>1, <1>4, <4>7, GrownTwice
      <4> QED BY <4>5, <4>6, <4>8
    <3> QED BY <3>1, <3>2
  <2>4. EditStep(e, Moved(g, c))
    BY <1>1, <1>4, <2>3, MovedIsStep
  <2> QED BY <1>2, <1>9, <2>2, <2>4 DEF Arrow, Editing
<1> QED BY <1>7, <1>8, <1>9

-----------------------------------------------------------------------------
(* There is one function of the turns of the loop that cuts the line, and  *)
(* Turns is that function: its prefixes exist one after another.           *)
LEMMA TurnsFacts ==
  ASSUME length \in Nat
  PROVE  /\ Turns[0] = [next |-> 0, buf |-> buf, argv |-> << >>]
         /\ \A i \in 1 .. length : Turns[i] = CutAt(Turns[i - 1], i - 1)
<1> DEFINE start == [next |-> 0, buf |-> buf, argv |-> << >>]
           Runs(f, k) == /\ f = [i \in 0 .. k |-> f[i]] /\ f[0] = start
                         /\ \A i \in 1 .. k : f[i] = CutAt(f[i - 1], i - 1)
           Bad == {k \in 0 .. length : ~\E f : Runs(f, k)}
           Step(f) == [i \in 0 .. length |->
                         IF i = 0 THEN [next |-> 0, buf |-> buf, argv |-> << >>]
                         ELSE CutAt(f[i - 1], i - 1)]
<1>1. Bad = {}
  <2> SUFFICES ASSUME Bad # {} PROVE FALSE
    OBVIOUS
  <2>1. Bad \subseteq Nat
    OBVIOUS
  <2>2. PICK k \in Bad : \A j \in Bad : k <= j
    <3> HIDE DEF Bad
    <3> QED BY <2>1, MinIsLeast
  <2>3. k \in 0 .. length /\ ~\E f : Runs(f, k)
    BY <2>2
  <2> HIDE DEF start
  <2>4. k # 0
    <3>1. Runs([i \in 0 .. 0 |-> start], 0)
      OBVIOUS
    <3> QED BY <2>3, <3>1
  <2>5. k - 1 \in 0 .. length /\ k \in 1 .. length
    BY <2>3, <2>4
  <2>6. k - 1 \notin Bad
    <3> HIDE DEF Bad
    <3> QED BY <2>2, <2>3
  <2>7. PICK f : Runs(f, k - 1)
    BY <2>5, <2>6
  <2> DEFINE g == [i \in 0 .. k |-> IF i = k THEN CutAt(f[k - 1], k - 1) ELSE f[i]]
  <2>8. g[0] = start
    <3>1. 0 \in 0 .. k /\ 0 # k
      BY <2>5
    <3> QED BY <2>7, <3>1
  <2>9. ASSUME NEW i \in 1 .. k PROVE g[i] = CutAt(g[i - 1], i - 1)
    <3>1. i \in 0 .. k /\ i - 1 \in 0 .. k /\ i - 1 # k
      BY <2>5
    <3>2. g[i - 1] = f[i - 1]
      BY <3>1
    <3>3. CASE i = k
      BY <3>1, <3>2, <3>3
    <3>4. CASE i # k
      <4>1. i \in 1 .. k - 1
        BY <2>5, <3>4
      <4>2. g[i] = f[i]
        BY <3>1, <3>4
      <4> QED BY <2>7, <3>2, <4>1, <4>2
    <3> QED BY <3>3, <3>4
  <2>10. g = [i \in 0 .. k |-> g[i]]
    OBVIOUS
  <2>11. Runs(g, k)
    <3> HIDE DEF g
    <3> QED BY <2>8, <2>9, <2>10
  <2> QED BY <2>3, <2>11
<1>2. PICK f : Runs(f, length)
  <2>1. length \in 0 .. length
    OBVIOUS
  <2> SUFFICES ASSUME ~\E f : Runs(f, length) PROVE FALSE
    OBVIOUS
  <2>2. length \in Bad
    BY <2>1
  <2> QED BY <1>1, <2>2
<1>3. f = Step(f)
  <2>1. ASSUME NEW i \in 0 .. length
        PROVE  f[i] = IF i = 0 THEN [next |-> 0, buf |-> buf, argv |-> << >>]
                      ELSE CutAt(f[i - 1], i - 1)
    <3>1. i # 0 => i \in 1 .. length
      OBVIOUS
    <3> QED BY <1>2, <3>1
  <2> QED BY <1>2, <2>1
<1>4. PICK g : g = CHOOSE h : h = Step(h)
  OBVIOUS
<1>5. g = Step(g)
  BY <1>3, <1>4
<1>6. Turns = g
  BY <1>4 DEF Turns
<1>7. g[0] = start
  <2>1. 0 \in 0 .. length
    OBVIOUS
  <2> QED BY <1>5, <2>1
<1>8. ASSUME NEW i \in 1 .. length PROVE g[i] = CutAt(g[i - 1], i - 1)
  <2>1. i \in 0 .. length /\ i # 0
    OBVIOUS
  <2> QED BY <1>5, <2>1
<1> QED BY <1>6, <1>7, <1>8

-----------------------------------------------------------------------------
(* The loop that cuts the line.  While it runs, buf is still the line that *)
(* was read; b is the buffer the loop has written.                         *)

(* In b the string at index a is a word of the line that ends at e.        *)
IsWord(b, a, e) ==
  /\ a <= e /\ b[e] = Zero /\ \A j \in a .. e - 1 : b[j] = buf[j]
  /\ \/ /\ a > 0 /\ buf[a - 1] \in Quotes /\ e < length /\ buf[e] = buf[a - 1]
        /\ \A j \in a .. e - 1 : buf[j] # buf[a - 1]
     \/ /\ a < e /\ buf[a] \notin Quotes /\ (e = length \/ buf[e] = Space)
        /\ \A j \in a .. e - 1 : buf[j] # Space

(* The words are behind each other and before the next turn's index.       *)
WordsFound(b, av, next) ==
  \A k \in 1 .. Len(av) :
    \E e \in 0 .. length : /\ IsWord(b, av[k], e) /\ e < next
                           /\ k < Len(av) => e < av[k + 1]

(* Index j of the line is in a word, or need not be.                       *)
Accounted(b, av, next, j) ==
  \/ buf[j] \in Quotes \cup {Space}
  \/ \E q \in 0 .. j - 1 :
       buf[q] \in Quotes /\ \A r \in q + 1 .. length - 1 : buf[r] # buf[q]
  \/ \E k \in 1 .. Len(av) :
       \E e \in 0 .. length : /\ IsWord(b, av[k], e) /\ e < next /\ j \in av[k] .. e - 1
                              /\ k < Len(av) => e < av[k + 1]

AllAccounted(b, av, next, i) ==
  \A j \in 0 .. length - 1 : j < i \/ j < next => Accounted(b, av, next, j)

LoopInv(t, i) ==
  /\ t.next \in 0 .. length + 1
  /\ t.buf \in [Cells -> Chars] /\ \A j \in Cells : j >= t.next => t.buf[j] = buf[j]
  /\ t.argv \in Seq(0 .. length)
  /\ WordsFound(t.buf, t.argv, t.next)
  /\ AllAccounted(t.buf, t.argv, t.next, i)

(* What ends the argument that starts at i.                                *)
Stops(i, j) == IF buf[i] \in Quotes THEN buf[j] = buf[i] ELSE buf[j] = Space

(* It is the first that stops the argument, or the end of the line.        *)
LEMMA EndFacts ==
  ASSUME length \in Nat, NEW i \in 0 .. length - 1
  PROVE  /\ EndOfArgument(i) \in i + 1 .. length
         /\ EndOfArgument(i) < length => Stops(i, EndOfArgument(i))
         /\ \A j \in i + 1 .. EndOfArgument(i) - 1 : ~Stops(i, j)
<1>1. PICK S : S = {j \in i + 1 .. length - 1 : Stops(i, j)} \cup {length}
  OBVIOUS
<1>2. EndOfArgument(i) = Min(S)
  BY <1>1 DEF EndOfArgument, Stops
<1>3. S \subseteq Nat /\ S # {}
  BY <1>1
<1>4. Min(S) \in S /\ \A y \in S : Min(S) <= y
  BY <1>3, MinIsLeast
<1>5. PICK e \in Nat : e = Min(S)
  BY <1>3, <1>4
<1>6. e \in S /\ \A y \in S : e <= y
  BY <1>4, <1>5
<1>7. e \in i + 1 .. length /\ (e < length => Stops(i, e))
  BY <1>1, <1>6
<1>8. ASSUME NEW j \in i + 1 .. e - 1 PROVE ~Stops(i, j)
  <2>1. j \in i + 1 .. length - 1 /\ ~(e <= j)
    BY <1>7
  <2>2. j \notin S
    BY <1>6, <2>1
  <2> QED BY <1>1, <2>1, <2>2
<1> QED BY <1>2, <1>5, <1>7, <1>8

(* What has been found is not touched by later turns.                      *)
LEMMA WordKept ==
  ASSUME Size \in Nat, NEW b \in [Cells -> Chars], NEW end \in Cells, NEW a \in Nat,
         NEW e \in 0 .. length, length \in 0 .. Size, e < end, IsWord(b, a, e)
  PROVE  IsWord([b EXCEPT ![end] = Zero], a, e)
<1>1. PICK c : c = [b EXCEPT ![end] = Zero]
  OBVIOUS
<1>2. \A j \in a .. e : j \in Cells /\ j # end
  BY DEF Cells
<1>3. \A j \in a .. e : c[j] = b[j]
  BY <1>1, <1>2
<1>4. a <= e
  BY DEF IsWord
<1>5. c[e] = Zero /\ \A j \in a .. e - 1 : c[j] = buf[j]
  <2>1. e \in a .. e /\ \A j \in a .. e - 1 : j \in a .. e
    BY <1>4
  <2> QED BY <1>3, <2>1 DEF IsWord
<1> QED BY <1>1, <1>5 DEF IsWord

(* What has been accounted for stays so.                                   *)
LEMMA AccountedKept ==
  ASSUME Size \in Nat, NEW b \in [Cells -> Chars], NEW end \in Cells, length \in 0 .. Size,
         NEW av \in Seq(0 .. length), NEW aw \in Seq(0 .. length), Len(av) <= Len(aw),
         \A k \in 1 .. Len(av) : aw[k] = av[k],
         NEW next \in Int, Len(av) < Len(aw) => next <= aw[Len(av) + 1], NEW nextw \in Int, next <= end, next <= nextw,
         NEW j \in Int, Accounted(b, av, next, j)
  PROVE  Accounted([b EXCEPT ![end] = Zero], aw, nextw, j)
<1>1. PICK c : c = [b EXCEPT ![end] = Zero]
  OBVIOUS
<1>2. ASSUME NEW k \in 1 .. Len(av), NEW e \in 0 .. length,
             IsWord(b, av[k], e), e < next, j \in av[k] .. e - 1,
             k < Len(av) => e < av[k + 1]
      PROVE  Accounted(c, aw, nextw, j)
  <2>1. av[k] \in Nat /\ k \in 1 .. Len(aw) /\ aw[k] = av[k]
    BY LenProperties
  <2>2. e < end /\ e < nextw
    BY <1>2 DEF Cells
  <2>3. IsWord(c, aw[k], e)
    BY <1>1, <1>2, <2>1, <2>2, WordKept
  <2>4. k < Len(aw) => e < aw[k + 1]
    <3>1. PICK m \in Nat, o \in Nat : m = Len(av) /\ o = Len(aw) /\ m <= o
      BY LenProperties
    <3>2. CASE k < m
      <4>1. k + 1 \in 1 .. Len(av) /\ k < Len(av)
        BY <3>1, <3>2
      <4> QED BY <1>2, <4>1
    <3>3. CASE k = m
      <4> SUFFICES ASSUME k < Len(aw) PROVE e < aw[k + 1]
        OBVIOUS
      <4>1. k + 1 \in 1 .. Len(aw)
        BY <3>1, <3>3
      <4>2. aw[k + 1] \in 0 .. length
        BY <4>1, LenProperties
      <4>3. next <= aw[k + 1]
        BY <3>1, <3>3
      <4>4. PICK x \in Int : x = aw[k + 1]
        BY <4>2
      <4> QED BY <1>2, <4>3, <4>4
    <3> QED BY <3>1, <3>2, <3>3
  <2> QED BY <1>2, <2>1, <2>2, <2>3, <2>4 DEF Accounted
<1>3. Accounted(c, aw, nextw, j)
  BY <1>2 DEF Accounted
<1> QED BY <1>1, <1>3

(* A turn that only writes the end of an argument keeps the words.         *)
LEMMA WordsKept ==
  ASSUME Size \in Nat, NEW b \in [Cells -> Chars], NEW end \in Cells, length \in 0 .. Size,
         NEW av \in Seq(0 .. length), NEW next \in Int, next <= end, WordsFound(b, av, next)
  PROVE  WordsFound([b EXCEPT ![end] = Zero], av, end + 1)
<1>1. PICK c : c = [b EXCEPT ![end] = Zero]
  OBVIOUS
<1>2. ASSUME NEW k \in 1 .. Len(av)
      PROVE  \E e \in 0 .. length : /\ IsWord(c, av[k], e) /\ e < end + 1
                                    /\ k < Len(av) => e < av[k + 1]
  <2>1. PICK e \in 0 .. length : /\ IsWord(b, av[k], e) /\ e < next
                                 /\ k < Len(av) => e < av[k + 1]
    BY DEF WordsFound
  <2>2. e < end /\ e < end + 1
    BY <2>1 DEF Cells
  <2>3. av[k] \in Nat
    BY LenProperties
  <2>4. IsWord(c, av[k], e)
    BY <1>1, <2>1, <2>2, <2>3, WordKept
  <2> QED BY <2>1, <2>2, <2>4
<1> QED BY <1>1, <1>2 DEF WordsFound

(* A word that is found is behind the words that were found before.        *)
LEMMA WordAdded ==
  ASSUME NEW c, length \in Nat, NEW av \in Seq(0 .. length), NEW next \in Int,
         NEW end \in 0 .. length, NEW a \in 0 .. length, next <= a,
         WordsFound(c, av, end + 1), IsWord(c, a, end),
         \A k \in 1 .. Len(av) : \E e \in 0 .. length : IsWord(c, av[k], e) /\ e < next
  PROVE  WordsFound(c, Append(av, a), end + 1)
<1>1. PICK aw : aw = Append(av, a)
  OBVIOUS
<1>2. PICK n \in Nat : n = Len(av)
  BY LenProperties
<1>3. /\ aw \in Seq(0 .. length) /\ Len(aw) = n + 1 /\ aw[n + 1] = a
      /\ \A k \in 1 .. n : aw[k] = av[k]
  BY <1>1, <1>2
<1>4. ASSUME NEW k \in 1 .. n + 1
      PROVE  \E e \in 0 .. length : /\ IsWord(c, aw[k], e) /\ e < end + 1
                                    /\ k < n + 1 => e < aw[k + 1]
  <2>1. CASE k = n + 1
    <3>1. end < end + 1 /\ ~(k < n + 1)
      BY <2>1
    <3> QED BY <1>3, <2>1, <3>1
  <2>2. CASE k < n
    <3>1. k \in 1 .. n /\ k + 1 \in 1 .. n /\ k < Len(av)
      BY <1>2, <2>2
    <3>2. aw[k] = av[k] /\ aw[k + 1] = av[k + 1]
      BY <1>3, <3>1
    <3>3. PICK e \in 0 .. length : /\ IsWord(c, av[k], e) /\ e < end + 1
                                   /\ k < Len(av) => e < av[k + 1]
      BY <1>2, <3>1 DEF WordsFound
    <3> QED BY <3>1, <3>2, <3>3
  <2>3. CASE k = n
    <3>1. k \in 1 .. n /\ aw[k] = av[k] /\ aw[k + 1] = a
      BY <1>3, <2>3
    <3>2. PICK e \in 0 .. length : IsWord(c, av[k], e) /\ e < next
      BY <1>2, <3>1
    <3>3. a <= end
      BY DEF IsWord
    <3>4. e < a /\ e < end + 1
      BY <3>2, <3>3
    <3> QED BY <3>1, <3>2, <3>4
  <2> QED BY <2>1, <2>2, <2>3
<1> QED BY <1>1, <1>3, <1>4 DEF WordsFound

(* One turn of the loop.                                                   *)
LEMMA TurnKeepsInv ==
  ASSUME Size \in Nat, Space \notin Quotes, LineIn(buf, length),
         NEW i \in 0 .. length - 1, NEW t, LoopInv(t, i)
  PROVE  LoopInv(CutAt(t, i), i + 1)
<1>1. PICK n \in Nat : n = length /\ n <= Size
  BY DEF LineIn
<1>2. PICK b, av, next : b = t.buf /\ av = t.argv /\ next = t.next
  OBVIOUS
<1>3. /\ next \in 0 .. n + 1 /\ b \in [Cells -> Chars]
      /\ \A j \in Cells : j >= next => b[j] = buf[j]
      /\ av \in Seq(0 .. length) /\ WordsFound(b, av, next) /\ AllAccounted(b, av, next, i)
  BY <1>1, <1>2 DEF LoopInv
<1>4. CASE i < next \/ buf[i] = Space
  <2>1. CutAt(t, i) = t
    BY <1>2, <1>4 DEF CutAt
  <2>2. AllAccounted(b, av, next, i + 1)
    <3>1. ASSUME NEW j \in 0 .. length - 1, j < i + 1 \/ j < next
          PROVE  Accounted(b, av, next, j)
      <4>1. CASE j < i \/ j < next
        BY <1>3, <4>1 DEF AllAccounted
      <4>2. CASE j = i /\ buf[j] = Space
        BY <4>2 DEF Accounted
      <4> QED BY <1>1, <1>4, <3>1, <4>1, <4>2
    <3> QED BY <3>1 DEF AllAccounted
  <2> QED BY <1>2, <2>1, <2>2 DEF LoopInv
<1>5. CASE ~(i < next) /\ buf[i] # Space
  <2>1. PICK end \in Nat : end = EndOfArgument(i)
    BY <1>1, EndFacts
  <2>2. /\ end \in i + 1 .. n /\ (end < n => Stops(i, end))
        /\ \A j \in i + 1 .. end - 1 : ~Stops(i, j)
    <3>1. length \in Nat
      BY <1>1
    <3>2. /\ EndOfArgument(i) \in i + 1 .. length
          /\ EndOfArgument(i) < length => Stops(i, EndOfArgument(i))
          /\ \A j \in i + 1 .. EndOfArgument(i) - 1 : ~Stops(i, j)
      BY <3>1, EndFacts
    <3> QED BY <1>1, <2>1, <3>2
  <2>3. end \in Cells /\ end \in 0 .. length /\ next <= end /\ length \in 0 .. Size
        /\ length \in Nat /\ i \in 0 .. n - 1 /\ next \in Int /\ next <= i
    BY <1>1, <1>3, <1>5, <2>2 DEF Cells
  <2>4. PICK c : c = [b EXCEPT ![end] = Zero]
    OBVIOUS
  <2>5. PICK aw : aw = IF buf[i] \notin Quotes THEN Append(av, i)
                       ELSE IF end < length THEN Append(av, i + 1) ELSE av
    OBVIOUS
  <2>6. CutAt(t, i) = [next |-> end + 1, buf |-> c, argv |-> aw]
    BY <1>2, <1>5, <2>1, <2>4, <2>5 DEF CutAt
  <2>7. c \in [Cells -> Chars]
    BY <1>3, <2>4 DEF Chars
  <2>8. \A j \in Cells : j >= end + 1 => c[j] = buf[j]
    <3> SUFFICES ASSUME NEW j \in Cells, j >= end + 1 PROVE c[j] = buf[j]
      OBVIOUS
    <3>1. j # end /\ j >= next
      BY <1>1, <2>3 DEF Cells
    <3> QED BY <1>3, <2>4, <3>1
  <2>9. \A j \in i .. end - 1 : j \in Cells /\ j >= next /\ j # end /\ c[j] = buf[j]
    <3> SUFFICES ASSUME NEW j \in i .. end - 1
                 PROVE  j \in Cells /\ j >= next /\ j # end /\ c[j] = buf[j]
      OBVIOUS
    <3>1. j \in Cells /\ j >= next /\ j # end
      BY <1>1, <1>3, <1>5, <2>2 DEF Cells
    <3> QED BY <1>3, <2>4, <3>1
  <2>10. c[end] = Zero
    BY <1>3, <2>3, <2>4
  <2>11. WordsFound(c, av, end + 1)
    BY <1>3, <2>3, <2>4, WordsKept
  <2>12. \A k \in 1 .. Len(av) : \E e \in 0 .. length : IsWord(c, av[k], e) /\ e < next
    <3> SUFFICES ASSUME NEW k \in 1 .. Len(av)
                 PROVE  \E e \in 0 .. length : IsWord(c, av[k], e) /\ e < next
      OBVIOUS
    <3>1. PICK e \in 0 .. length : IsWord(b, av[k], e) /\ e < next
      BY <1>3 DEF WordsFound
    <3>2. e < end /\ av[k] \in Nat
      BY <1>3, <2>3, <3>1, LenProperties
    <3>3. IsWord(c, av[k], e)
      BY <1>3, <2>3, <2>4, <3>1, <3>2, WordKept
    <3> QED BY <3>1, <3>3
  <2> DEFINE Found ==
            /\ WordsFound(c, aw, end + 1) /\ aw \in Seq(0 .. length) /\ Len(av) <= Len(aw)
            /\ \A k \in 1 .. Len(av) : aw[k] = av[k]
            /\ Len(av) < Len(aw) => next <= aw[Len(av) + 1]
            /\ \A j \in i .. end - 1 : Accounted(c, aw, end + 1, j)
  <2>13. ASSUME buf[i] \notin Quotes PROVE Found
    <3>1. aw = Append(av, i)
      BY <2>5, <2>13
    <3>2. IsWord(c, i, end)
      <4>1. i <= end /\ i < end /\ (end = length \/ buf[end] = Space)
        BY <1>1, <2>2, <2>13 DEF Stops
      <4>2. ASSUME NEW j \in i .. end - 1 PROVE buf[j] # Space
        <5>1. j = i \/ j \in i + 1 .. end - 1
          OBVIOUS
        <5> QED BY <1>5, <2>2, <2>13, <5>1 DEF Stops
      <4> QED BY <2>9, <2>10, <2>13, <4>1, <4>2 DEF IsWord
    <3>3. WordsFound(c, aw, end + 1) /\ aw \in Seq(0 .. length)
          /\ Len(aw) = Len(av) + 1 /\ aw[Len(av) + 1] = i
          /\ \A k \in 1 .. Len(av) : aw[k] = av[k]
      <4>1. i \in 0 .. length /\ next <= i
        BY <1>1, <2>3
      <4>2. WordsFound(c, aw, end + 1)
        BY <1>3, <2>3, <2>11, <2>12, <3>1, <3>2, <4>1, WordAdded
      <4> QED BY <1>3, <3>1, <4>1, <4>2
    <3>4. ASSUME NEW j \in i .. end - 1 PROVE Accounted(c, aw, end + 1, j)
      <4>1. Len(av) + 1 \in 1 .. Len(aw)
        BY <1>3, <3>3, LenProperties
      <4>2. IsWord(c, aw[Len(av) + 1], end) /\ end < end + 1
            /\ j \in aw[Len(av) + 1] .. end - 1 /\ ~(Len(av) + 1 < Len(aw))
        BY <1>3, <3>2, <3>3, LenProperties
      <4> QED BY <2>3, <4>1, <4>2 DEF Accounted
    <3>5. Len(av) <= Len(aw) /\ next <= aw[Len(av) + 1]
      BY <1>3, <2>3, <3>3, LenProperties
    <3> QED BY <3>3, <3>4, <3>5
  <2>14. ASSUME buf[i] \in Quotes, end < length PROVE Found
    <3>1. aw = Append(av, i + 1)
      BY <2>5, <2>14
    <3>2. IsWord(c, i + 1, end)
      <4>1. i + 1 <= end /\ i + 1 > 0 /\ (i + 1) - 1 = i /\ buf[end] = buf[i]
        BY <1>1, <2>2, <2>14 DEF Stops
      <4>2. \A j \in i + 1 .. end - 1 : c[j] = buf[j] /\ buf[j] # buf[i]
        BY <2>2, <2>9, <2>14 DEF Stops
      <4> QED BY <2>10, <2>14, <4>1, <4>2 DEF IsWord
    <3>3. WordsFound(c, aw, end + 1) /\ aw \in Seq(0 .. length)
          /\ Len(aw) = Len(av) + 1 /\ aw[Len(av) + 1] = i + 1
          /\ \A k \in 1 .. Len(av) : aw[k] = av[k]
      <4>1. i + 1 \in 0 .. length /\ next <= i + 1
        BY <1>1, <1>3, <1>5, <2>3
      <4>2. WordsFound(c, aw, end + 1)
        BY <1>3, <2>3, <2>11, <2>12, <3>1, <3>2, <4>1, WordAdded
      <4> QED BY <1>3, <3>1, <4>1, <4>2
    <3>4. ASSUME NEW j \in i .. end - 1 PROVE Accounted(c, aw, end + 1, j)
      <4>1. Len(av) + 1 \in 1 .. Len(aw)
        BY <1>3, <3>3, LenProperties
      <4>2. IsWord(c, aw[Len(av) + 1], end) /\ end < end + 1 /\ ~(Len(av) + 1 < Len(aw))
        BY <1>3, <3>2, <3>3, LenProperties
      <4>3. j = i \/ j \in aw[Len(av) + 1] .. end - 1
        BY <3>3
      <4> QED BY <2>3, <2>14, <4>1, <4>2, <4>3 DEF Accounted
    <3>5. Len(av) <= Len(aw) /\ next <= aw[Len(av) + 1]
      BY <1>3, <2>3, <3>3, LenProperties
    <3> QED BY <3>3, <3>4, <3>5
  <2>15. ASSUME buf[i] \in Quotes, ~(end < length) PROVE Found
    <3>1. aw = av
      BY <2>5, <2>15
    <3>2. \A j \in i + 1 .. length - 1 : buf[j] # buf[i]
      BY <1>1, <2>2, <2>15 DEF Stops
    <3>3. ASSUME NEW j \in i .. end - 1 PROVE Accounted(c, aw, end + 1, j)
      <4>1. j = i \/ i \in 0 .. j - 1
        BY <2>3
      <4> QED BY <2>15, <3>2, <4>1 DEF Accounted
    <3>4. Len(av) <= Len(aw) /\ ~(Len(av) < Len(aw))
      BY <1>3, <3>1, LenProperties
    <3> QED BY <1>3, <2>11, <3>1, <3>3, <3>4
  <2>16. Found
    BY <2>13, <2>14, <2>15
  <2>17. AllAccounted(c, aw, end + 1, i + 1)
    <3>1. ASSUME NEW j \in 0 .. length - 1, j < i + 1 \/ j < end + 1
          PROVE  Accounted(c, aw, end + 1, j)
      <4>1. CASE j < i
        <5>1. Accounted(b, av, next, j)
          BY <1>3, <4>1 DEF AllAccounted
        <5>2. j \in Int /\ next \in Int /\ end + 1 \in Int /\ next <= end + 1
          BY <1>3, <2>3
        <5> QED BY <1>3, <2>3, <2>4, <2>16, <5>1, <5>2, AccountedKept
      <4>2. CASE j \in i .. end - 1
        BY <2>16, <4>2
      <4>3. CASE j = end
        <5>1. end < length
          BY <1>1, <2>3, <4>3
        <5> QED BY <2>2, <1>1, <4>3, <5>1 DEF Accounted, Stops
      <4> QED BY <2>2, <3>1, <4>1, <4>2, <4>3
    <3> QED BY <3>1 DEF AllAccounted
  <2>18. end + 1 \in 0 .. length + 1
    BY <2>3
  <2> QED BY <2>6, <2>7, <2>8, <2>16, <2>17, <2>18 DEF LoopInv
<1> QED BY <1>4, <1>5

(* All turns of the loop: the counterexample with the fewest turns would   *)
(* have a turn before it.                                                  *)
LEMMA LineIsCut ==
  ASSUME Size \in Nat, Space \notin Quotes, LineIn(buf, length)
  PROVE  LoopInv(Cut, length)
<1>1. PICK n \in Nat : n = length /\ n <= Size
  BY DEF LineIn
<1>2. /\ Turns[0] = [next |-> 0, buf |-> buf, argv |-> << >>]
      /\ \A i \in 1 .. n : Turns[i] = CutAt(Turns[i - 1], i - 1)
  <2>1. length \in Nat
    BY <1>1
  <2> QED BY <1>1, <2>1, TurnsFacts
<1>3. LoopInv(Turns[0], 0)
  <2>1. PICK s : s = [next |-> 0, buf |-> buf, argv |-> << >>]
    OBVIOUS
  <2>2. /\ 0 \in 0 .. length + 1 /\ << >> \in Seq(0 .. length) /\ Len(<< >>) = 0
        /\ \A j \in 0 .. length - 1 : ~(j < 0)
    BY <1>1
  <2>3. s.next = 0 /\ s.buf = buf /\ s.argv = << >>
    BY <2>1
  <2>4. WordsFound(buf, << >>, 0)
    BY DEF WordsFound
  <2>5. AllAccounted(buf, << >>, 0, 0)
    BY <2>2 DEF AllAccounted
  <2>6. LoopInv(s, 0)
    BY <2>2, <2>3, <2>4, <2>5 DEF LoopInv, LineIn
  <2> QED BY <1>2, <2>1, <2>6
<1> DEFINE Bad == {i \in 0 .. n : ~LoopInv(Turns[i], i)}
<1>4. Bad = {}
  <2> SUFFICES ASSUME Bad # {} PROVE FALSE
    OBVIOUS
  <2>1. Bad \subseteq Nat
    OBVIOUS
  <2>2. PICK i \in Bad : \A j \in Bad : i <= j
    <3> HIDE DEF Bad
    <3> QED BY <2>1, MinIsLeast
  <2>3. i \in 0 .. n /\ ~LoopInv(Turns[i], i)
    BY <2>2
  <2>4. i # 0
    BY <1>3, <2>3
  <2>5. PICK m \in 0 .. n - 1 : i = m + 1 /\ m = i - 1
    <3>1. i - 1 \in 0 .. n - 1 /\ i = (i - 1) + 1
      BY <2>3, <2>4
    <3> QED BY <3>1
  <2>6. m \notin Bad
    <3>1. ~(i <= m)
      BY <2>5
    <3> HIDE DEF Bad
    <3> QED BY <2>2, <3>1
  <2>7. LoopInv(Turns[m], m)
    <3>1. m \in 0 .. n
      OBVIOUS
    <3> QED BY <2>6, <3>1
  <2>8. m \in 0 .. length - 1
    BY <1>1
  <2>9. LoopInv(CutAt(Turns[m], m), m + 1)
    BY <2>7, <2>8, TurnKeepsInv
  <2>10. Turns[i] = CutAt(Turns[m], m)
    <3>1. i \in 1 .. n
      BY <2>3, <2>4
    <3> QED BY <1>2, <2>5, <3>1
  <2> QED BY <2>3, <2>5, <2>9, <2>10
<1>5. n \in 0 .. n
  OBVIOUS
<1> QED BY <1>1, <1>4, <1>5 DEF Cut

-----------------------------------------------------------------------------
(* The string at index i of b: Word is that of buf.                        *)
WordOf(b, i) ==
  LET end == Min({j \in Cells : j >= i /\ b[j] = Zero})
  IN  [k \in 1 .. end - i |-> b[i + k - 1]]

(* It goes to a first '\0' at or before e, and its characters are those    *)
(* before that.                                                            *)
LEMMA WordFacts ==
  ASSUME Size \in Nat, NEW b, NEW a \in Nat, NEW e \in Cells, a <= e, b[e] = Zero,
         \A j \in a .. e - 1 : b[j] \in Chars
  PROVE  \E z \in a .. e :
           /\ b[z] = Zero
           /\ WordOf(b, a) \in Seq(Chars) /\ Len(WordOf(b, a)) = z - a
           /\ \A k \in 1 .. z - a : WordOf(b, a)[k] = b[a + k - 1]
<1>1. PICK S : S = {j \in Cells : j >= a /\ b[j] = Zero}
  OBVIOUS
<1>2. S \subseteq Nat /\ e \in S /\ e \in Nat
  BY <1>1 DEF Cells
<1>3. PICK z \in S : z = Min(S) /\ z <= e
  <2>1. S # {}
    BY <1>2
  <2>2. Min(S) \in S /\ \A y \in S : Min(S) <= y
    BY <1>2, <2>1, MinIsLeast
  <2> QED BY <1>2, <2>2
<1>4. z \in a .. e /\ b[z] = Zero /\ z \in Nat
  BY <1>1, <1>2, <1>3
<1>5. PICK w : w = WordOf(b, a)
  OBVIOUS
<1>6. PICK n \in Nat : n = z - a /\ a + n = z
  BY <1>4
<1>7. w = [k \in 1 .. n |-> b[a + k - 1]]
  BY <1>1, <1>3, <1>5, <1>6 DEF WordOf
<1>8. \A k \in 1 .. n : a + k - 1 \in a .. e - 1
  BY <1>2, <1>4, <1>6
<1>9. w \in [1 .. n -> Chars]
  BY <1>7, <1>8
<1>10. w \in Seq(Chars)
  BY <1>9, SeqDef
<1>11. Len(w) = n /\ DOMAIN w = 1 .. n
  BY <1>9, <1>10, LenProperties
<1> QED BY <1>4, <1>5, <1>6, <1>7, <1>10, <1>11

(* What the property says of argument k, with the line l and the buffer b. *)
PartOf(l, b, av, k, behind) ==
  LET first == av[k] + 1
      end   == first + Len(WordOf(b, av[k]))
      part  == {l[j] : j \in first .. behind - 1}
  IN  /\ \E j \in Cells : j >= av[k] /\ b[j] = Zero
      /\ WordOf(b, av[k]) = SubSeq(l, first, end - 1)
      /\ end = behind \/ (end < behind /\ l[end] = Zero)
      /\ k < Len(av) => behind <= av[k + 1]
      /\ \/ /\ first > 1 /\ l[first - 1] \in Quotes \ part
            /\ behind <= Len(l) /\ l[behind] = l[first - 1]
         \/ /\ first < behind /\ l[first] \notin Quotes /\ Space \notin part
            /\ behind > Len(l) \/ l[behind] = Space

(* What it says of the other characters of the line.                       *)
CharPlaced(l, b, av, i) ==
  \/ l[i] \in Quotes \cup {Space}
  \/ \E q \in 1 .. i - 1 : l[q] \in Quotes /\ \A j \in q + 1 .. Len(l) : l[j] # l[q]
  \/ \E k \in DOMAIN av, behind \in 1 .. Len(l) + 1 :
       PartOf(l, b, av, k, behind) /\ i \in av[k] + 1 .. behind - 1

(* Together they are the property of the line.                             *)
LEMMA PropertyOfLine ==
  /\ ArgumentsAreWords <=>
       \A k \in DOMAIN argv : \E behind \in 1 .. Len(line) + 1 :
         PartOf(line, buf, argv, k, behind)
  /\ NothingIsLost <=> \A i \in DOMAIN line : CharPlaced(line, buf, argv, i)
BY Zenon DEF ArgumentsAreWords, NothingIsLost, IsPart, PartOf, Ends, CharPlaced, Word, WordOf

(* The same of the state after a step.                                     *)
LEMMA PropertyOfLineAfter ==
  /\ ArgumentsAreWords' <=>
       \A k \in DOMAIN argv' : \E behind \in 1 .. Len(line') + 1 :
         PartOf(line', buf', argv', k, behind)
  /\ NothingIsLost' <=> \A i \in DOMAIN line' : CharPlaced(line', buf', argv', i)
BY Zenon DEF ArgumentsAreWords, NothingIsLost, IsPart, PartOf, Ends, CharPlaced, Word, WordOf

(* A word that the loop has found is an argument as the property asks.     *)
LEMMA FoundIsArgument ==
  ASSUME Size \in Nat, LineIn(buf, length), NEW b, NEW av \in Seq(0 .. length),
         NEW k \in 1 .. Len(av), NEW e \in 0 .. length, IsWord(b, av[k], e),
         k < Len(av) => e < av[k + 1],
         NEW l, l = TextOf(buf, length)
  PROVE  e + 1 \in 1 .. Len(l) + 1 /\ PartOf(l, b, av, k, e + 1)
<1>1. PICK n \in Nat : n = length /\ n <= Size
  BY DEF LineIn
<1>2. PICK a \in 0 .. n : a = av[k]
  BY <1>1, LenProperties
<1>3. PICK w : w = WordOf(b, a)
  OBVIOUS
<1>4. l \in Seq(Chars) /\ Len(l) = n /\ \A i \in 1 .. n : l[i] = buf[i - 1]
  BY <1>1, TextFacts
<1>5. a <= e /\ e <= n /\ e \in Cells /\ b[e] = Zero
  BY <1>1, <1>2 DEF IsWord, Cells
<1>6. ASSUME NEW j \in a .. e - 1
      PROVE  b[j] = buf[j] /\ b[j] \in Chars /\ j + 1 \in 1 .. n /\ l[j + 1] = b[j]
  <2>1. j \in 0 .. n - 1 /\ j + 1 \in 1 .. n /\ j + 1 - 1 = j /\ j \in Cells
    BY <1>1, <1>5 DEF Cells
  <2>2. b[j] = buf[j]
    BY <1>2 DEF IsWord
  <2> QED BY <1>1, <1>4, <2>1, <2>2 DEF LineIn
<1>7. PICK z \in a .. e :
        /\ b[z] = Zero
        /\ w \in Seq(Chars) /\ Len(w) = z - a
        /\ \A i \in 1 .. z - a : w[i] = b[a + i - 1]
  <2>1. a \in Nat /\ \A j \in a .. e - 1 : b[j] \in Chars
    BY <1>6
  <2>2. \E z \in a .. e :
          /\ b[z] = Zero
          /\ WordOf(b, a) \in Seq(Chars) /\ Len(WordOf(b, a)) = z - a
          /\ \A i \in 1 .. z - a : WordOf(b, a)[i] = b[a + i - 1]
    BY <1>5, <2>1, WordFacts
  <2> QED BY <1>3, <2>2
<1>8. PICK m \in Nat : m = z - a /\ a + m = z
  BY <1>5, <1>7
<1>9. w = SubSeq(l, a + 1, z)
  <2>1. PICK s : s = SubSeq(l, a + 1, z)
    OBVIOUS
  <2>2. \A i \in a + 1 .. z : l[i] \in Chars
    BY <1>4, <1>5, <1>7, LenProperties
  <2>3. /\ s \in Seq(Chars) /\ Len(s) = IF a + 1 <= z THEN z - (a + 1) + 1 ELSE 0
        /\ \A i \in 1 .. z - (a + 1) + 1 : s[i] = l[a + 1 + i - 1]
    BY <2>1, <2>2, SubSeqProperties
  <2>4. Len(s) = m
    BY <1>5, <1>8, <2>3
  <2>5. ASSUME NEW i \in 1 .. m PROVE s[i] = w[i]
    <3>1. PICK j \in a .. e - 1 : j = a + i - 1
      BY <1>5, <1>7, <1>8
    <3>2. a + 1 + i - 1 = j + 1 /\ i \in 1 .. z - (a + 1) + 1 /\ i \in 1 .. z - a
      BY <1>8, <3>1
    <3>3. s[i] = l[j + 1]
      BY <2>3, <3>2
    <3> QED BY <1>6, <1>7, <3>1, <3>2, <3>3
  <2>6. w \in Seq(Chars) /\ Len(w) = m
    BY <1>7, <1>8
  <2> QED BY <2>1, <2>3, <2>4, <2>5, <2>6, SeqEqual
<1>10. \E j \in Cells : j >= a /\ b[j] = Zero
  BY <1>5 DEF Cells
<1>11. k < Len(av) => e + 1 <= av[k + 1]
  <2> SUFFICES ASSUME k < Len(av) PROVE e + 1 <= av[k + 1]
    OBVIOUS
  <2>1. k + 1 \in 1 .. Len(av)
    BY LenProperties
  <2>2. av[k + 1] \in 0 .. length
    BY <2>1, LenProperties
  <2> QED BY <1>1, <2>2
<1>12. a > 0 => a \in 1 .. n /\ l[a] = buf[a - 1]
  BY <1>4
<1>13. e < n => l[e + 1] = buf[e]
  <2> SUFFICES ASSUME e < n PROVE l[e + 1] = buf[e]
    OBVIOUS
  <2>1. e + 1 \in 1 .. n /\ e + 1 - 1 = e
    BY <1>1
  <2> QED BY <1>4, <2>1
<1>14. ASSUME NEW x \in {l[j] : j \in a + 1 .. e}
       PROVE  \E j \in a .. e - 1 : x = b[j] /\ x = buf[j]
  <2>1. PICK i \in a + 1 .. e : x = l[i]
    OBVIOUS
  <2>2. PICK j \in a .. e - 1 : i = j + 1
    <3>1. i - 1 \in a .. e - 1 /\ i = (i - 1) + 1
      BY <1>5
    <3> QED BY <3>1
  <2> QED BY <1>6, <2>1, <2>2
<1>15. \/ /\ a > 0 /\ l[a] \in Quotes \ {l[j] : j \in a + 1 .. e}
          /\ e + 1 <= n /\ l[e + 1] = l[a]
       \/ /\ a + 1 < e + 1 /\ l[a + 1] \notin Quotes
          /\ Space \notin {l[j] : j \in a + 1 .. e}
          /\ e + 1 > n \/ l[e + 1] = Space
  <2>1. CASE /\ a > 0 /\ buf[a - 1] \in Quotes /\ e < length /\ buf[e] = buf[a - 1]
             /\ \A j \in a .. e - 1 : buf[j] # buf[a - 1]
    <3>1. e < n /\ e + 1 <= n
      BY <1>1, <1>5, <2>1
    <3>2. l[a] \notin {l[j] : j \in a + 1 .. e}
      BY <1>12, <1>14, <2>1
    <3> QED BY <1>12, <1>13, <2>1, <3>1, <3>2
  <2>2. CASE /\ a < e /\ buf[a] \notin Quotes /\ (e = length \/ buf[e] = Space)
             /\ \A j \in a .. e - 1 : buf[j] # Space
    <3>1. a \in a .. e - 1 /\ a + 1 < e + 1
      BY <1>5, <2>2
    <3>2. l[a + 1] = buf[a]
      BY <1>6, <3>1
    <3>3. Space \notin {l[j] : j \in a + 1 .. e}
      BY <1>14, <2>2
    <3>4. e + 1 > n \/ l[e + 1] = Space
      BY <1>1, <1>5, <1>13, <2>2
    <3> QED BY <2>2, <3>1, <3>2, <3>3, <3>4
  <2> QED BY <1>2, <2>1, <2>2 DEF IsWord
<1>16. z + 1 = e + 1 \/ (z + 1 < e + 1 /\ l[z + 1] = Zero)
  <2>1. CASE z = e
    BY <2>1
  <2>2. CASE z # e
    <3>1. z \in a .. e - 1 /\ z + 1 < e + 1
      BY <1>5, <1>7, <2>2
    <3> QED BY <1>6, <1>7, <3>1
  <2> QED BY <2>1, <2>2
<1>17. /\ (a + 1) - 1 = a /\ (a + 1 > 1 <=> a > 0) /\ (a + 1) + m = z + 1
       /\ (z + 1) - 1 = z /\ (e + 1) - 1 = e /\ e + 1 \in 1 .. n + 1
  BY <1>5, <1>7, <1>8
<1>18. PartOf(l, b, av, k, e + 1)
  BY <1>2, <1>3, <1>4, <1>7, <1>8, <1>9, <1>10, <1>11, <1>15, <1>16, <1>17 DEF PartOf
<1> QED BY <1>4, <1>17, <1>18

(* The line is cut when it is entered.                                     *)
LEMMA EnterCutsLine ==
  ASSUME EditInv, EnterLine
  PROVE  buf' \in [Cells -> Chars] /\ line' = TextOf(buf, length) /\ LineIsCutIntoWords'
<1>1. Size \in Nat /\ Space \notin Quotes /\ LineIn(buf, length)
  BY ShellAssumption DEF EnterLine, EditInv, Editing
<1>2. PICK n \in Nat : n = length /\ n <= Size
  BY <1>1 DEF LineIn
<1>3. PICK t : t = Cut
  OBVIOUS
<1>4. LoopInv(t, length)
  BY <1>1, <1>3, LineIsCut
<1>5. buf' = t.buf /\ argv' = t.argv /\ line' = Text
  BY <1>3 DEF EnterLine
<1>6. line' = TextOf(buf, length)
  BY <1>5 DEF Text, TextOf
<1>7. PICK b, av, l : b = buf' /\ av = argv' /\ l = line'
  OBVIOUS
<1>8. /\ b \in [Cells -> Chars] /\ av \in Seq(0 .. length)
      /\ WordsFound(b, av, t.next) /\ AllAccounted(b, av, t.next, length)
  BY <1>4, <1>5, <1>7 DEF LoopInv
<1>9. l \in Seq(Chars) /\ Len(l) = n /\ \A i \in 1 .. n : l[i] = buf[i - 1]
  BY <1>1, <1>2, <1>6, <1>7, TextFacts
<1>10. ASSUME NEW k \in DOMAIN av
       PROVE  \E behind \in 1 .. Len(l) + 1 : PartOf(l, b, av, k, behind)
  <2>1. k \in 1 .. Len(av)
    BY <1>8, LenProperties
  <2>2. PICK e \in 0 .. length : IsWord(b, av[k], e) /\ (k < Len(av) => e < av[k + 1])
    BY <1>8, <2>1 DEF WordsFound
  <2>3. l = TextOf(buf, length)
    BY <1>6, <1>7
  <2> QED BY <1>1, <1>8, <2>1, <2>2, <2>3, FoundIsArgument
<1>11. ArgumentsAreWords'
  <2>1. \A k \in DOMAIN argv' : \E behind \in 1 .. Len(line') + 1 :
          PartOf(line', buf', argv', k, behind)
    BY <1>7, <1>10
  <2> QED BY <2>1, PropertyOfLineAfter
<1>12. ASSUME NEW i \in DOMAIN l PROVE CharPlaced(l, b, av, i)
  <2>1. i \in 1 .. n
    BY <1>9, LenProperties
  <2>2. PICK j \in 0 .. n - 1 : j = i - 1 /\ i = j + 1
    <3>1. i - 1 \in 0 .. n - 1 /\ i = (i - 1) + 1
      BY <2>1
    <3> QED BY <3>1
  <2>3. l[i] = buf[j]
    BY <1>9, <2>1, <2>2
  <2>4. Accounted(b, av, t.next, j)
    <3>1. j \in 0 .. length - 1 /\ j < length
      BY <1>2
    <3> QED BY <1>8, <3>1 DEF AllAccounted
  <2>5. CASE buf[j] \in Quotes \cup {Space}
    BY <2>3, <2>5 DEF CharPlaced
  <2>6. ASSUME NEW q \in 0 .. j - 1, buf[q] \in Quotes,
               \A r \in q + 1 .. length - 1 : buf[r] # buf[q]
        PROVE  \E p \in 1 .. i - 1 : l[p] \in Quotes /\ \A r \in p + 1 .. Len(l) : l[r] # l[p]
    <3>1. PICK p \in 1 .. n : p = q + 1 /\ p - 1 = q
      <4>1. q + 1 \in 1 .. n /\ (q + 1) - 1 = q
        BY <2>2
      <4> QED BY <4>1
    <3>2. l[p] = buf[q] /\ p \in 1 .. i - 1
      BY <1>9, <2>2, <3>1
    <3>3. ASSUME NEW r \in p + 1 .. Len(l) PROVE l[r] # l[p]
      <4>1. r \in 1 .. n /\ r - 1 \in q + 1 .. length - 1
        BY <1>2, <1>9, <3>1
      <4>2. l[r] = buf[r - 1]
        BY <1>9, <4>1
      <4> QED BY <2>6, <3>2, <4>1, <4>2
    <3> QED BY <2>6, <3>2, <3>3
  <2>7. ASSUME NEW k \in 1 .. Len(av), NEW e \in 0 .. length,
               IsWord(b, av[k], e), j \in av[k] .. e - 1, k < Len(av) => e < av[k + 1]
        PROVE  \E x \in DOMAIN av, behind \in 1 .. Len(l) + 1 :
                 PartOf(l, b, av, x, behind) /\ i \in av[x] + 1 .. behind - 1
    <3>1. PICK a \in Nat : a = av[k]
      BY <1>2, <1>8, LenProperties
    <3>2. l = TextOf(buf, length)
      BY <1>6, <1>7
    <3>3. e + 1 \in 1 .. Len(l) + 1 /\ PartOf(l, b, av, k, e + 1)
      BY <1>1, <1>8, <2>7, <3>2, FoundIsArgument
    <3>4. k \in DOMAIN av
      BY <1>8, LenProperties
    <3>5. i \in a + 1 .. e + 1 - 1
      BY <1>2, <2>2, <2>7, <3>1
    <3> QED BY <3>1, <3>3, <3>4, <3>5
  <2> QED BY <2>4, <2>5, <2>6, <2>7 DEF Accounted, CharPlaced
<1>13. NothingIsLost'
  <2>1. \A i \in DOMAIN line' : CharPlaced(line', buf', argv', i)
    BY <1>7, <1>12
  <2> QED BY <2>1, PropertyOfLineAfter
<1> QED BY <1>5, <1>6, <1>7, <1>8, <1>11, <1>13 DEF LineIsCutIntoWords

-----------------------------------------------------------------------------
(* What the commands do: they leave everything, or go back to the prompt.  *)
LEMMA CommandSteps ==
  ASSUME EmptyLine \/ RefusedFile \/ ReadFile \/ ExitShell \/ PrintSomething \/ RunProgram
  PROVE  /\ state = "command"
         /\ \/ \E cleared \in BOOLEAN : Prompt(cleared)
            \/ state' \in {"exited", "spins"} /\ UNCHANGED <<editVars, argv, line>>
<1>1. CASE EmptyLine
  BY <1>1 DEF EmptyLine
<1>2. CASE RefusedFile \/ ReadFile
  BY <1>2 DEF RefusedFile, ReadFile
<1>3. CASE ExitShell
  BY <1>3 DEF ExitShell
<1>4. CASE PrintSomething
  BY <1>4 DEF PrintSomething
<1>5. CASE RunProgram
  BY <1>5 DEF RunProgram
<1> QED BY <1>1, <1>2, <1>3, <1>4, <1>5

(* The steps of the shell, as its editor and its commands.                 *)
LEMMA StepsOfShell ==
  ASSUME EditInv, [Next]_vars
  PROVE  \/ /\ state \in Editing /\ state' \in Editing /\ UNCHANGED <<argv, line>>
            /\ \E f : Becomes(f) /\ EditStep(Edited, f)
         \/ EnterLine
         \/ state = "command" /\ \E cleared \in BOOLEAN : Prompt(cleared)
         \/ /\ state = "command" /\ state' \in {"exited", "spins"}
            /\ UNCHANGED <<editVars, argv, line>>
         \/ UNCHANGED vars
<1>1. ASSUME NEW c \in Keys, Key(c) \/ AfterEscape(c) \/ Arrow(c)
      PROVE  /\ state \in Editing /\ state' \in Editing /\ UNCHANGED <<argv, line>>
             /\ \E f : Becomes(f) /\ EditStep(Edited, f)
  <2>1. state \in Editing
    BY <1>1 DEF Key, AfterEscape, Arrow, Editing
  <2> QED BY <1>1, <2>1, KeysAreSteps
<1>2. CASE EmptyLine \/ RefusedFile \/ ReadFile \/ ExitShell \/ PrintSomething \/ RunProgram
  BY <1>2, CommandSteps
<1> QED BY <1>1, <1>2 DEF Next

(* The invariant of the editor and of the line that is cut is inductive.   *)
LEMMA InvAtInit == Init => EditInv /\ LineIsCutIntoWords
<1> SUFFICES ASSUME Init PROVE EditInv /\ LineIsCutIntoWords
  OBVIOUS
<1>1. Size \in Nat /\ state = "key" /\ length = 0 /\ pos = 0
      /\ buf \in [Cells -> Chars] /\ 0 \in 0 .. Size
  BY ShellAssumption DEF Init, Chars
<1> QED BY <1>1 DEF EditInv, Editing, LineIn, LineIsCutIntoWords

(* Only entering a line makes it one that is cut.                          *)
LEMMA InvKept ==
  EditInv /\ LineIsCutIntoWords /\ [Next]_vars => (EditInv /\ LineIsCutIntoWords)'
<1> SUFFICES ASSUME EditInv, LineIsCutIntoWords, [Next]_vars
             PROVE  EditInv' /\ LineIsCutIntoWords'
  OBVIOUS
<1>1. CASE /\ state \in Editing /\ state' \in Editing /\ UNCHANGED <<argv, line>>
           /\ \E f : Becomes(f) /\ EditStep(Edited, f)
  <2>1. PICK f : Becomes(f) /\ IsEdited(f)
    BY <1>1 DEF EditStep
  <2>2. LineIn(buf', length') /\ pos' \in 0 .. length'
    BY <2>1 DEF Becomes, IsEdited
  <2>3. state' # "command"
    BY <1>1 DEF Editing
  <2> QED BY <1>1, <2>2, <2>3 DEF EditInv, LineIn, LineIsCutIntoWords
<1>2. CASE EnterLine
  <2>1. buf' \in [Cells -> Chars] /\ LineIsCutIntoWords'
    BY <1>2, EnterCutsLine
  <2>2. state' = "command" /\ UNCHANGED <<pos, length>>
    BY <1>2 DEF EnterLine
  <2> QED BY <2>1, <2>2 DEF EditInv, Editing
<1>3. ASSUME NEW cleared \in BOOLEAN, Prompt(cleared)
      PROVE  EditInv' /\ LineIsCutIntoWords'
  <2>1. state' = "key" /\ pos' = 0 /\ length' = 0
    BY <1>3 DEF Prompt
  <2>2. buf' \in [Cells -> Chars]
    BY <1>3 DEF Prompt, EditInv, Chars
  <2>3. 0 \in 0 .. Size
    BY ShellAssumption
  <2> QED BY <2>1, <2>2, <2>3 DEF EditInv, Editing, LineIn, LineIsCutIntoWords
<1>4. CASE /\ state = "command" /\ state' \in {"exited", "spins"}
           /\ UNCHANGED <<editVars, argv, line>>
  BY <1>4 DEF EditInv, Editing, editVars, LineIsCutIntoWords
<1>5. CASE UNCHANGED vars
  <2>1. EditInv'
    BY <1>5 DEF EditInv, vars, editVars
  <2>2. buf' = buf /\ argv' = argv /\ line' = line /\ state' = state
    BY <1>5 DEF vars, editVars
  <2>3. ArgumentsAreWords' <=> ArgumentsAreWords
    BY <2>2, PropertyOfLine, PropertyOfLineAfter
  <2>4. NothingIsLost' <=> NothingIsLost
    BY <2>2, PropertyOfLine, PropertyOfLineAfter
  <2>5. LineIsCutIntoWords'
    BY <2>2, <2>3, <2>4 DEF LineIsCutIntoWords
  <2> QED BY <2>1, <2>5
<1> QED BY <1>1, <1>2, <1>3, <1>4, <1>5, StepsOfShell

(* The line that getline has returned is cut into its words, in the order  *)
(* of the line, whatever was typed and whatever earlier lines have left in *)
(* the buffer.                                                             *)
THEOREM LineAlwaysCutIntoWords == Spec => []LineIsCutIntoWords
<1>1. Spec => [](EditInv /\ LineIsCutIntoWords)
  BY InvAtInit, InvKept, PTL DEF Spec
<1> QED BY <1>1, PTL

-----------------------------------------------------------------------------
(* At first the line is empty.                                             *)
LEMMA EditorInit == Init => Editor!Init
<1> SUFFICES ASSUME Init PROVE Editor!Init
  OBVIOUS
<1>1. state = "key" /\ length = 0 /\ pos = 0
  BY DEF Init
<1>2. Text = << >>
  BY <1>1 DEF Text
<1> QED BY <1>1, <1>2 DEF Editor!Init

(* Every step of the shell is one of the text with a cursor, or none.      *)
LEMMA EditorStep == EditInv /\ EditInv' /\ [Next]_vars => [Editor!Next]_(Editor!vars)
<1> SUFFICES ASSUME EditInv, EditInv', [Next]_vars PROVE [Editor!Next]_(Editor!vars)
  OBVIOUS
<1> DEFINE shown == IF state \in {"key", "escape", "arrow"} THEN Text ELSE line
           done == state \notin {"key", "escape", "arrow"}
<1>1. CASE /\ state \in Editing /\ state' \in Editing /\ UNCHANGED <<argv, line>>
           /\ \E f : Becomes(f) /\ EditStep(Edited, f)
  <2>1. PICK f : Becomes(f) /\ EditStep(Edited, f)
    BY <1>1
  <2>2. PICK e : e = Edited
    OBVIOUS
  <2>3. e.buf = buf /\ e.pos = pos /\ e.length = length /\ IsEdited(e) /\ Size \in Nat
    BY <1>1, <2>2, ShellAssumption DEF Edited, EditInv, IsEdited
  <2>4. f.buf = buf' /\ f.pos = pos' /\ f.length = length' /\ IsEdited(f)
    BY <2>1 DEF Becomes, EditStep
  <2>5. PICK l, r : l = shown /\ r = shown'
    OBVIOUS
  <2>6. l = TextOf(buf, length) /\ r = TextOf(buf', length')
    BY <1>1, <2>5 DEF Text, TextOf, Editing
  <2>7. ~done /\ ~done'
    BY <1>1 DEF Editing
  <2>8. \/ \E n \in 0 .. 2, move \in -1 .. 1 :
             /\ n = Len(r) - Len(l) /\ Len(r) <= Size
             /\ r = SubSeq(l, 1, pos) \o SubSeq(r, pos + 1, pos + n)
                      \o SubSeq(l, pos + 1, Len(l))
             /\ pos' = pos + n + move /\ pos' \in 0 .. Len(r)
        \/ /\ pos > 0 /\ pos' = pos - 1
           /\ r = SubSeq(l, 1, pos - 1) \o SubSeq(l, pos + 1, Len(l))
    <3>1. ASSUME NEW g, NEW n \in 0 .. 2, Grown(e, g, n), f.buf = g.buf,
                 f.length = g.length, f.pos - g.pos \in -1 .. 1
          PROVE  \E move \in -1 .. 1 :
             /\ n = Len(r) - Len(l) /\ Len(r) <= Size
             /\ r = SubSeq(l, 1, pos) \o SubSeq(r, pos + 1, pos + n)
                      \o SubSeq(l, pos + 1, Len(l))
             /\ pos' = pos + n + move /\ pos' \in 0 .. Len(r)
      <4>1. LineIn(g.buf, g.length)
        BY <2>4, <3>1 DEF IsEdited
      <4>2. /\ n = Len(r) - Len(l) /\ Len(r) <= Size
            /\ r = SubSeq(l, 1, pos) \o SubSeq(r, pos + 1, pos + n)
                     \o SubSeq(l, pos + 1, Len(l))
        <5>1. l = TextOf(e.buf, e.length) /\ r = TextOf(g.buf, g.length) /\ pos = e.pos
          BY <2>3, <2>4, <2>6, <3>1
        <5>2. LET x == TextOf(e.buf, e.length)
                  y == TextOf(g.buf, g.length)
              IN  /\ n = Len(y) - Len(x) /\ Len(y) <= Size
                  /\ y = SubSeq(x, 1, e.pos) \o SubSeq(y, e.pos + 1, e.pos + n)
                           \o SubSeq(x, e.pos + 1, Len(x))
          BY <2>3, <3>1, <4>1, GrownText
        <5> QED BY <5>1, <5>2
      <4>3. g.pos = pos + n /\ pos \in Nat /\ pos' \in Nat
        BY <2>3, <2>4, <3>1 DEF Grown, IsEdited, LineIn
      <4>4. PICK p \in Nat, q \in Nat : p = pos /\ q = pos' /\ q - (p + n) \in -1 .. 1
        BY <2>4, <3>1, <4>3
      <4>5. PICK move \in -1 .. 1 : pos' = pos + n + move
        <5>1. q = p + n + (q - (p + n))
          OBVIOUS
        <5> QED BY <4>4, <5>1
      <4>6. Len(r) = length'
        BY <2>3, <2>4, <2>6, TextFacts DEF IsEdited
      <4>7. pos' \in 0 .. Len(r)
        BY <2>4, <4>6 DEF IsEdited
      <4> QED BY <4>2, <4>5, <4>7
    <3>2. CASE e.pos # 0 /\ f = Removed(e)
      <4>1. pos > 0
        BY <2>3, <3>2 DEF IsEdited, LineIn
      <4> QED BY <2>3, <2>4, <2>6, <3>2, <4>1, RemovedText
    <3> QED BY <2>1, <2>2, <3>1, <3>2 DEF EditStep
  <2>9. Editor!Edit \/ Editor!Erase
    BY <2>5, <2>8 DEF Editor!Edit, Editor!Erase, Editor!Before, Editor!Behind
  <2> QED BY <2>7, <2>9 DEF Editor!Next
<1>2. CASE EnterLine
  <2>1. state = "key" /\ state' = "command" /\ pos' = pos /\ line' = Text
    BY <1>2 DEF EnterLine
  <2> QED BY <2>1 DEF Editor!Next
<1>3. ASSUME NEW cleared \in BOOLEAN, Prompt(cleared), state = "command"
      PROVE  Editor!Next
  <2>1. state' = "key" /\ pos' = 0 /\ length' = 0
    BY <1>3 DEF Prompt
  <2>2. Text' = << >>
    BY <2>1 DEF Text
  <2> QED BY <1>3, <2>1, <2>2 DEF Editor!Next
<1>4. CASE /\ state = "command" /\ state' \in {"exited", "spins"}
           /\ UNCHANGED <<editVars, argv, line>>
  BY <1>4 DEF Editor!vars, editVars
<1>5. CASE UNCHANGED vars
  BY <1>5 DEF Editor!vars, vars, editVars, Text
<1> QED BY <1>1, <1>2, <1>3, <1>4, <1>5, StepsOfShell

(* getline's buffer, cursor and length are a text with a cursor: every key *)
(* of a line changes it as TextLine allows, arrows and unknown escape      *)
(* sequences too, and entering the line changes nothing.                   *)
THEOREM EditorImplemented == Spec => EditsText
<1>1. Spec => [](EditInv /\ LineIsCutIntoWords)
  BY InvAtInit, InvKept, PTL DEF Spec
<1>2. Spec => Editor!Init /\ [][Editor!Next]_(Editor!vars)
  BY <1>1, EditorInit, EditorStep, PTL DEF Spec
<1> QED BY <1>2 DEF EditsText, Editor!Spec
=============================================================================
