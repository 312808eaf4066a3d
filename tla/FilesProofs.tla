----------------------------- MODULE FilesProofs -----------------------------
(***************************************************************************)
(* Theorems about Files and RamDisk for every set of archives, names and   *)
(* devices and any number of entries: counts cover the users, a path opens *)
(* what it names, and, on disks too small for their arrays to move, every  *)
(* file is found and read once and in order.                               *)
(***************************************************************************)
EXTENDS Files, CommonLemmas

-----------------------------------------------------------------------------
(* The children of d, and how many users d has, in a tree of the given     *)
(* nodes and parents.                                                      *)
KidsIn(nd, pr, d) == {c \in Entries \ Roots : nd[c] # 0 /\ pr[c] = d}

UsersIn(w, ob, nd, pr, d) ==
  (IF w = d THEN 1 ELSE 0) + ob[d] + Cardinality(KidsIn(nd, pr, d))
    + (IF d \in Roots THEN 1 ELSE 0)

LEMMA EntryFacts ==
  /\ Entries \subseteq Nat /\ 0 \notin Entries /\ Roots \subseteq Entries
  /\ IsFiniteSet(Entries) /\ Cardinality(Entries) = MaxEntries /\ MaxEntries \in Nat
  /\ Disk # Dev
<1>1. MaxEntries \in Nat \ {0, 1}
  BY FilesAssumption
<1>2. IsFiniteSet(1 .. MaxEntries) /\ Cardinality(1 .. MaxEntries) = MaxEntries
  BY <1>1, FS_Interval
<1> QED BY <1>1, <1>2 DEF Entries, Roots, Disk, Dev

LEMMA OneOrNone ==
  ASSUME NEW w, NEW d
  PROVE  Cardinality({v \in {w} : v = d}) = IF w = d THEN 1 ELSE 0
<1>1. CASE w = d
  <2>1. {v \in {w} : v = d} = {w}
    BY <1>1
  <2> QED BY <1>1, <2>1, FS_Singleton
<1>2. CASE w # d
  <2>1. {v \in {w} : v = d} = {}
    BY <1>2
  <2> QED BY <1>2, <2>1, FS_EmptySet
<1> QED BY <1>1, <1>2

LEMMA UsersAre ==
  ASSUME NEW d
  PROVE  /\ Users(d) = UsersIn(walker, objects, node, par, d)
         /\ Users(d)' = UsersIn(walker', objects', node', par', d)
<1>1. {c \in Live \ Roots : par[c] = d} = KidsIn(node, par, d)
  BY DEF Live, KidsIn
<1>2. {c \in Live' \ Roots : par'[c] = d} = KidsIn(node', par', d)
  BY DEF Live, KidsIn
<1>3. Users(d) = UsersIn(walker, objects, node, par, d)
  <2>1. Cardinality({v \in {walker} : v = d}) = IF walker = d THEN 1 ELSE 0
    BY OneOrNone
  <2> QED BY <1>1, <2>1 DEF Users, UsersIn
<1>4. Users(d)' = UsersIn(walker', objects', node', par', d)
  <2>1. Cardinality({v \in {walker'} : v = d}) = IF walker' = d THEN 1 ELSE 0
    BY OneOrNone
  <2> QED BY <1>2, <2>1 DEF Users, UsersIn
<1> QED BY <1>3, <1>4

LEMMA KidsCounted ==
  ASSUME NEW nd, NEW pr, NEW d
  PROVE  IsFiniteSet(KidsIn(nd, pr, d)) /\ Cardinality(KidsIn(nd, pr, d)) \in Nat
<1>1. KidsIn(nd, pr, d) \in SUBSET Entries
  BY DEF KidsIn
<1>2. IsFiniteSet(KidsIn(nd, pr, d))
  BY <1>1, EntryFacts, FS_Subset
<1> QED BY <1>2, FS_CardinalityType

(* An entry that has a child has a user.                                   *)
LEMMA KidIsUser ==
  ASSUME NEW nd, NEW pr, NEW d, NEW c \in KidsIn(nd, pr, d)
  PROVE  /\ Cardinality(KidsIn(nd, pr, d)) >= 1
         /\ Cardinality(KidsIn(nd, pr, d)) = 1 => KidsIn(nd, pr, d) = {c}
<1>1. PICK S : S = KidsIn(nd, pr, d)
  OBVIOUS
<1>2. IsFiniteSet(S) /\ Cardinality(S) \in Nat /\ c \in S
  BY <1>1, KidsCounted
<1>3. Cardinality(S) # 0
  BY <1>2, FS_EmptySet
<1>4. Cardinality(S) = 1 => \E x : S = {x}
  BY <1>2, FS_Singleton
<1> QED BY <1>1, <1>2, <1>3, <1>4

(* One child goes.                                                         *)
LEMMA KidGoes ==
  ASSUME NEW nd, NEW pr, NEW md, NEW d, NEW w \in Entries \ Roots, nd[w] # 0, md[w] = 0,
         \A e \in Entries \ {w} : md[e] = nd[e]
  PROVE  /\ KidsIn(md, pr, d) = KidsIn(nd, pr, d) \ {w}
         /\ Cardinality(KidsIn(md, pr, d)) =
              Cardinality(KidsIn(nd, pr, d)) - (IF pr[w] = d THEN 1 ELSE 0)
<1>1. KidsIn(md, pr, d) = KidsIn(nd, pr, d) \ {w}
  BY DEF KidsIn
<1>2. w \in KidsIn(nd, pr, d) <=> pr[w] = d
  BY DEF KidsIn
<1>3. PICK S : S = KidsIn(nd, pr, d)
  OBVIOUS
<1>4. IsFiniteSet(S) /\ Cardinality(S) \in Nat
  BY <1>3, KidsCounted
<1>5. Cardinality(S \ {w}) = IF w \in S THEN Cardinality(S) - 1 ELSE Cardinality(S)
  BY <1>4, FS_RemoveElement
<1> QED BY <1>1, <1>2, <1>3, <1>4, <1>5

(* One child comes.                                                        *)
Comes(nd, pr, md, qr, w) ==
  /\ w \in Entries \ Roots /\ nd[w] = 0 /\ md[w] # 0
  /\ \A e \in Entries \ {w} : md[e] = nd[e] /\ qr[e] = pr[e]

LEMMA KidComes ==
  ASSUME NEW nd, NEW pr, NEW md, NEW qr, NEW d, NEW w, Comes(nd, pr, md, qr, w)
  PROVE  Cardinality(KidsIn(md, qr, d)) =
              Cardinality(KidsIn(nd, pr, d)) + (IF qr[w] = d THEN 1 ELSE 0)
<1>1. KidsIn(md, qr, d) = IF qr[w] = d THEN KidsIn(nd, pr, d) \cup {w} ELSE KidsIn(nd, pr, d)
  <2>1. ASSUME NEW c \in Entries \ Roots
        PROVE  c \in KidsIn(md, qr, d) <=> (c \in KidsIn(nd, pr, d) \/ (c = w /\ qr[w] = d))
    BY DEF KidsIn, Comes
  <2>2. KidsIn(md, qr, d) \subseteq Entries \ Roots /\ KidsIn(nd, pr, d) \subseteq Entries \ Roots
    BY DEF KidsIn
  <2>3. w \in Entries \ Roots
    BY DEF Comes
  <2> QED BY <2>1, <2>2, <2>3
<1>2. w \notin KidsIn(nd, pr, d)
  BY DEF KidsIn, Comes
<1>3. PICK S : S = KidsIn(nd, pr, d)
  OBVIOUS
<1>4. IsFiniteSet(S) /\ Cardinality(S) \in Nat
  BY <1>3, KidsCounted
<1>5. Cardinality(S \cup {w}) = IF w \in S THEN Cardinality(S) ELSE Cardinality(S) + 1
  BY <1>4, FS_AddElement
<1> QED BY <1>1, <1>2, <1>3, <1>4, <1>5

-----------------------------------------------------------------------------
(* The way from a root to d that path names, and its entries.              *)
IsWay(c, d) ==
  /\ c \in [0 .. Len(path) -> Live] /\ c[0] = sb[d] /\ c[Len(path)] = d
  /\ \A k \in 0 .. Len(path) : sb[c[k]] = sb[d]
  /\ \A k \in 1 .. Len(path) :
       /\ c[k] \notin Roots /\ par[c[k]] = c[k - 1]
       /\ node[c[k]] = LookupIn(c[k - 1], path[k])
  /\ \A j, k \in 0 .. Len(path) : c[j] = c[k] => j = k

NodeIsFunction == node = [d \in Entries |-> node[d]]

TreeType ==
  /\ DOMAIN node = Entries /\ NodeIsFunction
  /\ sb \in [Entries -> Roots] /\ par \in [Entries -> Entries]
  /\ used \in [Entries -> Int] /\ objects \in [Entries -> Nat]
  /\ \A r \in Roots : sb[r] = r /\ par[r] = r
  /\ walker \in Entries \cup {0} /\ file \in Entries \cup {0} /\ (walker = 0 \/ file = 0)
  /\ path \in Seq(Names)

(* The roots are there from kmain on, and before it has mounted both no    *)
(* one uses anything.                                                      *)
RootsMounted ==
  /\ node[Disk] # 0 => Mounted /\ node[Disk] = GetRootNum
  /\ Ready => node[Disk] # 0 /\ node[Dev] = 1
  /\ ~Ready =>
       /\ walker = 0 /\ file = 0 /\ Live \subseteq {Disk}
       /\ \A d \in Entries : objects[d] = 0 /\ used[d] >= 0
       /\ node[Disk] # 0 => used[Disk] >= 1

(* A walk is the only user of the entries it has made, and an open file    *)
(* has a user besides.                                                     *)
OnWay ==
  /\ walker # 0 => \E c : IsWay(c, walker) /\ \A k \in 1 .. Len(path) : used[c[k]] = 1
  /\ file # 0 => used[file] >= 2 /\ objects[file] >= 1 /\ \E c : IsWay(c, file)

TreeInv == TreeType /\ RootsMounted /\ OnWay /\ CountsCoverUsers

(* CountsCoverUsers, of the given users.                                   *)
Covers(w, ob, nd, pr, us) ==
  \A d \in Entries : /\ us[d] >= UsersIn(w, ob, nd, pr, d)
                     /\ UsersIn(w, ob, nd, pr, d) > 0 => nd[d] # 0

LEMMA CoverIs ==
  /\ CountsCoverUsers <=> (Ready => Covers(walker, objects, node, par, used))
  /\ CountsCoverUsers' <=> (Ready' => Covers(walker', objects', node', par', used'))
<1>1. CountsCoverUsers <=> (Ready => Covers(walker, objects, node, par, used))
  <2>1. \A d \in Entries : Users(d) = UsersIn(walker, objects, node, par, d)
    BY UsersAre
  <2>2. \A d \in Entries : d \in Live <=> node[d] # 0
    BY DEF Live
  <2> QED BY <2>1, <2>2 DEF CountsCoverUsers, Covers
<1>2. CountsCoverUsers' <=> (Ready' => Covers(walker', objects', node', par', used'))
  <2>1. \A d \in Entries : Users(d)' = UsersIn(walker', objects', node', par', d)
    BY UsersAre
  <2>2. \A d \in Entries : d \in Live' <=> node'[d] # 0
    BY DEF Live
  <2> QED BY <2>1, <2>2 DEF CountsCoverUsers, Covers
<1> QED BY <1>1, <1>2

(* Users are a number: the walk, the files, the children, the mount.       *)
LEMMA UsersFacts ==
  ASSUME NEW w, NEW ob \in [Entries -> Nat], NEW nd, NEW pr, NEW d \in Entries
  PROVE  /\ UsersIn(w, ob, nd, pr, d) \in Nat
         /\ w = d => UsersIn(w, ob, nd, pr, d) >= 1
         /\ ob[d] >= 1 => UsersIn(w, ob, nd, pr, d) >= 1
         /\ w = d /\ d \in Roots => UsersIn(w, ob, nd, pr, d) >= 2
<1>1. Cardinality(KidsIn(nd, pr, d)) \in Nat /\ ob[d] \in Nat
  BY KidsCounted
<1> QED BY <1>1 DEF UsersIn

(* VFS::open starts at a root.                                             *)
LEMMA StartWalkKeeps ==
  ASSUME TreeInv, NEW r \in Roots, StartWalk(r)
  PROVE  TreeInv'
<1>1. Ready /\ walker = 0 /\ file = 0 /\ walker' = r /\ path' = << >>
  BY DEF StartWalk, Idle
<1>2. /\ used' = [used EXCEPT ![r] = @ + 1]
      /\ UNCHANGED <<node, sb, par, objects, file, devices>> /\ UNCHANGED diskVars
  BY DEF StartWalk, fileVars
<1>3. r \in Entries /\ r # 0
  BY EntryFacts
<1>4. Ready' /\ Live' = Live
  BY <1>1, <1>2 DEF Ready, Live
<1>5. node[Disk] # 0 /\ node[Dev] # 0
  BY <1>1 DEF TreeInv, RootsMounted, Ready
<1>6. r \in Live
  BY <1>3, <1>5 DEF Live, Roots
<1>7. TreeType'
  <2>1. used' \in [Entries -> Int]
    BY <1>2, <1>3 DEF TreeInv, TreeType
  <2> QED BY <1>1, <1>2, <1>3, <2>1 DEF TreeInv, TreeType, NodeIsFunction
<1>8. RootsMounted'
  BY <1>2, <1>4, <1>1 DEF TreeInv, RootsMounted, Mounted, GetRootNum, diskVars, Ready
<1>9. OnWay'
  <2> DEFINE c == [k \in 0 .. 0 |-> r]
  <2>1. Len(path') = 0
    BY <1>1
  <2>2. c \in [0 .. 0 -> Live'] /\ c[0] = r /\ sb'[r] = r
    BY <1>2, <1>3, <1>4, <1>6 DEF TreeInv, TreeType
  <2>3. IsWay(c, r)'
    BY <2>1, <2>2 DEF IsWay
  <2> HIDE DEF c
  <2> QED BY <1>1, <1>2, <2>1, <2>3 DEF OnWay
<1>10. CountsCoverUsers'
  <2>1. Covers(0, objects, node, par, used)
    BY <1>1, CoverIs DEF TreeInv
  <2>2. ASSUME NEW d \in Entries
        PROVE  UsersIn(r, objects, node, par, d) =
                 UsersIn(0, objects, node, par, d) + (IF d = r THEN 1 ELSE 0)
    <3>1. Cardinality(KidsIn(node, par, d)) \in Nat /\ objects[d] \in Nat /\ d # 0
      BY KidsCounted, EntryFacts DEF TreeInv, TreeType
    <3> QED BY <3>1 DEF UsersIn
  <2>3. \A d \in Entries : UsersIn(0, objects, node, par, d) \in Nat /\ used[d] \in Int
    BY UsersFacts DEF TreeInv, TreeType
  <2>4. \A d \in Entries : used'[d] = used[d] + (IF d = r THEN 1 ELSE 0)
    BY <1>2, <2>3 DEF TreeInv, TreeType
  <2>5. node[r] # 0
    BY <1>6 DEF Live
  <2>6. Covers(r, objects, node, par, used')
    BY <2>1, <2>2, <2>3, <2>4, <2>5 DEF Covers
  <2> QED BY <1>1, <1>2, <2>6, CoverIs
<1> QED BY <1>7, <1>8, <1>9, <1>10 DEF TreeInv

(* The walk ends with an open file or a refusal: what the walker leaves    *)
(* behind is counted as before, or more.                                   *)
LEMMA WalkEnds ==
  ASSUME TreeInv, walker # 0, walker' = 0, path' \in Seq(Names),
         UNCHANGED <<diskVars, devices, node, sb, par>>,
         file' = 0 \/ (file' = walker /\ path' = path /\ objects' # objects),
         \/ objects' = objects /\ used' \in {used, [used EXCEPT ![walker] = @ + 1]}
         \/ /\ objects' = [objects EXCEPT ![walker] = @ + 1]
            /\ used' = [used EXCEPT ![walker] = @ + 1]
  PROVE  TreeInv'
<1>1. Ready /\ walker \in Entries
  BY DEF TreeInv, TreeType, RootsMounted
<1>2. Ready' /\ Live' = Live
  BY <1>1 DEF Ready, Live
<1>3. \A d \in Entries : objects[d] \in Nat /\ used[d] \in Int
  BY DEF TreeInv, TreeType
<1>4. objects' \in [Entries -> Nat] /\ used' \in [Entries -> Int]
  <2>1. objects \in [Entries -> Nat] /\ used \in [Entries -> Int]
    BY DEF TreeInv, TreeType
  <2>2. [objects EXCEPT ![walker] = @ + 1] \in [Entries -> Nat]
    BY <1>1, <2>1
  <2>3. [used EXCEPT ![walker] = @ + 1] \in [Entries -> Int]
    BY <1>1, <2>1
  <2> QED BY <2>1, <2>2, <2>3
<1>5. Covers(walker, objects, node, par, used)
  BY <1>1, CoverIs DEF TreeInv
<1>6. TreeType'
  BY <1>1, <1>4 DEF TreeInv, TreeType, NodeIsFunction
<1>7. RootsMounted'
  BY <1>2 DEF TreeInv, RootsMounted, Mounted, GetRootNum, diskVars, Ready
<1>8. used[walker] >= 1
  <2>1. objects \in [Entries -> Nat]
    BY DEF TreeInv, TreeType
  <2>2. /\ UsersIn(walker, objects, node, par, walker) \in Nat
        /\ UsersIn(walker, objects, node, par, walker) >= 1
    BY <1>1, <2>1, UsersFacts
  <2> QED BY <1>1, <1>3, <1>5, <2>2 DEF Covers
<1>9. OnWay'
  <2>1. SUFFICES ASSUME file' # 0
                  PROVE  used'[file'] >= 2 /\ objects'[file'] >= 1 /\ \E c : IsWay(c, file)'
    BY DEF OnWay
  <2>2. file' = walker /\ path' = path /\ objects' # objects
    BY <2>1
  <2>3. used'[walker] = used[walker] + 1 /\ objects'[walker] = objects[walker] + 1
    BY <1>1, <2>2 DEF TreeInv, TreeType
  <2>4. PICK c : IsWay(c, walker)
    BY DEF TreeInv, OnWay
  <2>5. IsWay(c, file)'
    <3>1. \A d, x : LookupIn(d, x)' = LookupIn(d, x)
      BY DEF LookupIn, Lookup, GetNode, DevLookup, diskVars
    <3> QED BY <1>2, <2>2, <2>4, <3>1 DEF IsWay
  <2> QED BY <1>1, <1>3, <1>8, <2>2, <2>3, <2>5
<1>10. CountsCoverUsers'
  <2>1. ASSUME NEW d \in Entries
        PROVE  /\ UsersIn(0, objects', node, par, d) \in Nat
               /\ UsersIn(0, objects', node, par, d) <= UsersIn(walker, objects, node, par, d)
    <3>1. Cardinality(KidsIn(node, par, d)) \in Nat /\ objects[d] \in Nat /\ d # 0
      BY KidsCounted, EntryFacts DEF TreeInv, TreeType
    <3>2. objects'[d] \in Nat /\ (objects'[d] = objects[d] \/ (d = walker /\ objects'[d] = objects[d] + 1))
      BY <1>1, <1>4 DEF TreeInv, TreeType
    <3> QED BY <3>1, <3>2 DEF UsersIn
  <2>2. \A d \in Entries : UsersIn(walker, objects, node, par, d) \in Nat /\ used[d] \in Int
    BY UsersFacts DEF TreeInv, TreeType
  <2>3. \A d \in Entries : used'[d] >= used[d] /\ used'[d] \in Int
    BY <1>1, <2>2 DEF TreeInv, TreeType
  <2>4. Covers(0, objects', node, par, used')
    BY <1>5, <2>1, <2>2, <2>3 DEF Covers
  <2> QED BY <2>4, CoverIs
<1> QED BY <1>6, <1>7, <1>9, <1>10 DEF TreeInv

(* Reading and seeking change the position and what has been delivered.    *)
LEMMA ReadingKeeps ==
  ASSUME TreeInv, UNCHANGED <<diskVars, devices, treeVars, walker, path, file, objects>>
  PROVE  TreeInv'
<1>1. TreeType'
  BY DEF TreeInv, TreeType, treeVars, NodeIsFunction
<1>2. RootsMounted'
  BY DEF TreeInv, RootsMounted, Mounted, GetRootNum, diskVars, treeVars, Ready, Live
<1>3. OnWay'
  <2>1. \A c, d : IsWay(c, d)' <=> IsWay(c, d)
    BY DEF IsWay, LookupIn, Lookup, GetNode, DevLookup, diskVars, treeVars, Live
  <2> QED BY <2>1 DEF TreeInv, OnWay, treeVars
<1>4. CountsCoverUsers'
  BY DEF TreeInv, CountsCoverUsers, treeVars, Users, Live, Ready
<1> QED BY <1>1, <1>2, <1>3, <1>4 DEF TreeInv

(* goToParent: a root is its own parent, any other entry had one user.     *)
LEMMA GoToParentKeeps ==
  ASSUME TreeInv, GoToParent
  PROVE  TreeInv'
<1>1. /\ Ready /\ walker \in Entries /\ walker # 0 /\ file = 0
  BY DEF TreeInv, TreeType, RootsMounted, GoToParent
<1>2. /\ walker' = par[walker]
      /\ path' = IF path = << >> THEN path ELSE Front(path)
      /\ UNCHANGED <<sb, par, file, objects, devices>> /\ UNCHANGED diskVars
  BY DEF GoToParent, fileVars
<1>3. PICK c : IsWay(c, walker) /\ \A k \in 1 .. Len(path) : used[c[k]] = 1
  BY <1>1 DEF TreeInv, OnWay
<1>4. PICK n \in Nat : n = Len(path) /\ (n = 0 <=> path = << >>)
  BY DEF TreeInv, TreeType
<1>5. /\ c \in [0 .. n -> Live] /\ c[0] = sb[walker] /\ c[n] = walker
      /\ \A k \in 0 .. n : sb[c[k]] = sb[walker]
      /\ \A k \in 1 .. n :
           /\ c[k] \notin Roots /\ par[c[k]] = c[k - 1] /\ used[c[k]] = 1
           /\ node[c[k]] = LookupIn(c[k - 1], path[k])
      /\ \A j, k \in 0 .. n : c[j] = c[k] => j = k
  BY <1>3, <1>4 DEF IsWay
<1>6. walker \in Roots <=> n = 0
  <2>1. sb[walker] \in Roots
    BY <1>1 DEF TreeInv, TreeType
  <2> QED BY <1>4, <1>5, <2>1
<1>7. Covers(walker, objects, node, par, used)
  BY <1>1, CoverIs DEF TreeInv
<1>8. CASE n = 0
  <2>1. walker' = walker /\ path' = path /\ UNCHANGED <<node, used, disposals>>
    BY <1>2, <1>4, <1>6, <1>8 DEF GoToParent, TreeInv, TreeType
  <2> QED BY <1>2, <2>1, ReadingKeeps DEF treeVars
<1>9. CASE n # 0
  <2>1. PICK p \in Entries : p = par[walker]
    BY <1>1 DEF TreeInv, TreeType
  <2>2. n \in 1 .. n /\ n - 1 \in 0 .. n /\ n \in 0 .. n /\ walker \notin Roots /\ n - 1 # n
    BY <1>4, <1>6, <1>9
  <2>3. /\ p = c[n - 1] /\ p # walker /\ used[walker] = 1 /\ p \in Live
    BY <1>5, <2>1, <2>2
  <2>4. /\ used' = [used EXCEPT ![walker] = 0] /\ node' = [node EXCEPT ![walker] = 0]
    BY <2>2 DEF GoToParent
  <2>5. /\ DOMAIN node = Entries
        /\ \A d \in Entries : node'[d] = IF d = walker THEN 0 ELSE node[d]
    BY <2>4 DEF TreeInv, TreeType
  <2>6. \A d \in Entries : used'[d] = (IF d = walker THEN 0 ELSE used[d]) /\ used[d] \in Int
    BY <2>4 DEF TreeInv, TreeType
  <2>7. path' \in Seq(Names) /\ Len(path') = n - 1 /\ \A k \in 1 .. n - 1 : path'[k] = path[k]
    <3>1. path \in Seq(Names) /\ path # << >>
      BY <1>4, <1>9 DEF TreeInv, TreeType
    <3> QED BY <1>2, <1>4, <3>1 DEF Front
  <2>8. node[walker] # 0 /\ \A r \in Roots : node'[r] = node[r]
    <3>1. walker \in Live
      BY <1>5, <2>2
    <3> QED BY <2>2, <2>5, <3>1, EntryFacts DEF Live
  <2>9. TreeType'
    <3>1. DOMAIN node' = Entries /\ NodeIsFunction'
      BY <2>4 DEF TreeInv, TreeType, NodeIsFunction
    <3>2. used' \in [Entries -> Int]
      <4>1. used \in [Entries -> Int]
        BY DEF TreeInv, TreeType
      <4> QED BY <1>1, <2>4, <4>1
    <3> QED BY <3>2, <1>1, <1>2, <2>1, <2>7, <3>1 DEF TreeInv, TreeType
  <2>10. RootsMounted'
    <3>1. Ready' /\ Ready
      BY <1>1, <2>8 DEF Ready, Roots
    <3> QED BY <1>2, <2>8, <3>1 DEF TreeInv, RootsMounted, Mounted, GetRootNum, diskVars, Roots
  <2>11. OnWay'
    <3> DEFINE e == [k \in 0 .. n - 1 |-> c[k]]
    <3>1. ASSUME NEW k \in 0 .. n - 1
          PROVE  e[k] = c[k] /\ c[k] \in Entries /\ node'[c[k]] = node[c[k]] /\ node[c[k]] # 0 /\ c[k] # walker
      <4>1. k \in 0 .. n /\ k # n
        BY <1>4
      <4> QED BY <1>5, <2>2, <2>5, <4>1 DEF Live
    <3>2. e \in [0 .. n - 1 -> Live']
      BY <3>1 DEF Live
    <3> HIDE DEF e
    <3>3. n - 1 \in 0 .. n - 1 /\ 0 \in 0 .. n - 1
      BY <1>4, <1>9
    <3>4. e[0] = sb'[p] /\ e[n - 1] = p
      <4>1. sb[p] = sb[walker]
        BY <1>5, <2>2, <2>3
      <4> QED BY <1>2, <1>5, <2>3, <3>1, <3>3, <4>1
    <3>5. ASSUME NEW k \in 0 .. n - 1 PROVE sb'[e[k]] = sb'[p]
      <4>1. k \in 0 .. n
        BY <1>4
      <4> QED BY <1>2, <1>5, <2>2, <2>3, <3>1, <4>1
    <3>6. ASSUME NEW k \in 1 .. n - 1
          PROVE  /\ e[k] \notin Roots /\ par'[e[k]] = e[k - 1] /\ used'[e[k]] = 1
                 /\ node'[e[k]] = LookupIn(e[k - 1], path[k])'
      <4>1. k \in 0 .. n - 1 /\ k - 1 \in 0 .. n - 1 /\ k \in 1 .. n
        BY <1>4
      <4>2. node'[e[k]] = LookupIn(c[k - 1], path[k])
        BY <1>5, <3>1, <4>1
      <4>3. LookupIn(e[k - 1], path[k])' = LookupIn(c[k - 1], path[k])
        <5>1. PICK x : x = path[k]
          OBVIOUS
        <5>2. path'[k] = x
          BY <2>7, <5>1
        <5>3. PICK d \in Entries : d = c[k - 1] /\ d = e[k - 1] /\ node'[d] = node[d] /\ sb'[d] = sb[d]
          BY <1>2, <3>1, <4>1
        <5>4. LookupIn(d, x)' = LookupIn(d, x)
          BY <1>2, <5>3 DEF LookupIn, Lookup, GetNode, DevLookup, diskVars
        <5>5. LookupIn(e[k - 1], path[k])' = LookupIn(d, x)'
          BY <5>2, <5>3 DEF LookupIn
        <5> QED BY <5>1, <5>3, <5>4, <5>5
      <4> QED BY <1>2, <1>5, <2>6, <3>1, <4>1, <4>2, <4>3
    <3>7. ASSUME NEW j \in 0 .. n - 1, NEW k \in 0 .. n - 1, e[j] = e[k] PROVE j = k
      <4>1. j \in 0 .. n /\ k \in 0 .. n
        BY <1>4
      <4> QED BY <1>5, <3>1, <3>7, <4>1
    <3>8. IsWay(e, p)'
      BY <2>7, <3>2, <3>4, <3>5, <3>6, <3>7 DEF IsWay
    <3>9. \A k \in 1 .. Len(path') : used'[e[k]] = 1
      BY <2>7, <3>6
    <3> QED BY <1>1, <1>2, <2>1, <3>8, <3>9 DEF OnWay
  <2>12. CountsCoverUsers'
    <3>1. PICK k \in [Entries -> Nat] : \A d \in Entries : k[d] = Cardinality(KidsIn(node, par, d))
      <4>1. \A d \in Entries : Cardinality(KidsIn(node, par, d)) \in Nat
        BY KidsCounted
      <4>2. [d \in Entries |-> Cardinality(KidsIn(node, par, d))] \in [Entries -> Nat]
        BY <4>1
      <4> QED BY <4>2
    <3>2. ASSUME NEW d \in Entries
          PROVE  /\ UsersIn(walker, objects, node, par, d) =
                      (IF d = walker THEN 1 ELSE 0) + objects[d] + k[d] + (IF d \in Roots THEN 1 ELSE 0)
                 /\ UsersIn(p, objects, node', par, d) =
                      (IF d = p THEN 1 ELSE 0) + objects[d] + (k[d] - (IF d = p THEN 1 ELSE 0))
                        + (IF d \in Roots THEN 1 ELSE 0)
                 /\ objects[d] \in Nat /\ k[d] \in Nat /\ (d = p => k[d] >= 1)
      <4>1. Cardinality(KidsIn(node', par, d)) = k[d] - (IF d = p THEN 1 ELSE 0)
        <5>1. \A e \in Entries \ {walker} : node'[e] = node[e]
          BY <2>5
        <5>2. walker \in Entries \ Roots /\ node'[walker] = 0
          BY <1>1, <2>2, <2>5
        <5> QED BY <2>1, <2>8, <3>1, <5>1, <5>2, KidGoes
      <4>2. d = p => k[d] >= 1
        <5>1. walker \in KidsIn(node, par, p)
          BY <1>1, <2>1, <2>2, <2>8 DEF KidsIn
        <5> QED BY <3>1, <5>1, KidIsUser
      <4> QED BY <3>1, <4>1, <4>2 DEF UsersIn, TreeInv, TreeType
    <3>3. ASSUME NEW d \in Entries
          PROVE  /\ used'[d] >= UsersIn(p, objects, node', par, d)
                 /\ UsersIn(p, objects, node', par, d) > 0 => node'[d] # 0
      <4>1. used[d] >= UsersIn(walker, objects, node, par, d)
            /\ (UsersIn(walker, objects, node, par, d) > 0 => node[d] # 0)
        BY <1>7 DEF Covers
      <4>2. CASE d = walker
        <5>1. UsersIn(p, objects, node', par, d) = 0
          BY <2>2, <2>3, <3>2, <4>1, <4>2
        <5> QED BY <2>6, <4>2, <5>1
      <4>3. CASE d # walker
        <5>1. UsersIn(p, objects, node', par, d) = UsersIn(walker, objects, node, par, d)
          BY <3>2, <4>3
        <5> QED BY <2>5, <2>6, <4>1, <4>3, <5>1
      <4> QED BY <4>2, <4>3
    <3>4. Covers(walker', objects', node', par', used')
      BY <1>2, <2>1, <3>3 DEF Covers
    <3> QED BY <3>4, CoverIs
  <2> QED BY <2>9, <2>10, <2>11, <2>12 DEF TreeInv
<1> QED BY <1>8, <1>9

(* goToChild: a new entry takes the walk's place among the users of the    *)
(* entry above it.                                                         *)
LEMMA GoToChildKeeps ==
  ASSUME TreeInv, NEW n \in Names, GoToChild(n)
  PROVE  TreeInv'
<1>1. /\ Ready /\ walker \in Entries /\ walker # 0 /\ file = 0 /\ LookupIn(walker, n) # 0
  BY DEF TreeInv, TreeType, RootsMounted, GoToChild
<1>2. PICK d \in Entries \ (Live \cup Roots) :
        /\ node' = [node EXCEPT ![d] = LookupIn(walker, n)]
        /\ sb' = [sb EXCEPT ![d] = sb[walker]]
        /\ par' = [par EXCEPT ![d] = walker]
        /\ used' = [used EXCEPT ![d] = 1]
        /\ walker' = d
  BY DEF GoToChild
<1>3. /\ path' = Append(path, n) /\ UNCHANGED <<file, objects, devices>> /\ UNCHANGED diskVars
  BY DEF GoToChild, fileVars
<1>4. PICK c : IsWay(c, walker) /\ \A k \in 1 .. Len(path) : used[c[k]] = 1
  BY <1>1 DEF TreeInv, OnWay
<1>5. PICK m \in Nat : m = Len(path)
  BY DEF TreeInv, TreeType
<1>6. /\ c \in [0 .. m -> Live] /\ c[0] = sb[walker] /\ c[m] = walker
      /\ \A k \in 0 .. m : sb[c[k]] = sb[walker]
      /\ \A k \in 1 .. m :
           /\ c[k] \notin Roots /\ par[c[k]] = c[k - 1] /\ used[c[k]] = 1
           /\ node[c[k]] = LookupIn(c[k - 1], path[k])
      /\ \A j, k \in 0 .. m : c[j] = c[k] => j = k
  BY <1>4, <1>5 DEF IsWay
<1>7. Covers(walker, objects, node, par, used)
  BY <1>1, CoverIs DEF TreeInv
<1>8. m \in 0 .. m /\ 0 \in 0 .. m
  BY <1>5
<1>9. d \in Entries /\ d \notin Roots /\ node[d] = 0 /\ d # 0 /\ walker # d
  <2>1. walker \in Live
    BY <1>6, <1>8
  <2> QED BY <1>2, <2>1, EntryFacts DEF Live
<1>10. \A e \in Entries :
         /\ node'[e] = IF e = d THEN LookupIn(walker, n) ELSE node[e]
         /\ sb'[e] = IF e = d THEN sb[walker] ELSE sb[e]
         /\ par'[e] = IF e = d THEN walker ELSE par[e]
         /\ used'[e] = IF e = d THEN 1 ELSE used[e]
  BY <1>2, <1>9 DEF TreeInv, TreeType
<1>11. path' \in Seq(Names) /\ Len(path') = m + 1 /\ path'[m + 1] = n /\ \A k \in 1 .. m : path'[k] = path[k]
  BY <1>3, <1>5 DEF TreeInv, TreeType
<1>12. TreeType'
  <2>1. sb[walker] \in Roots /\ sb \in [Entries -> Roots] /\ par \in [Entries -> Entries]
        /\ used \in [Entries -> Int] /\ DOMAIN node = Entries
    BY <1>1 DEF TreeInv, TreeType
  <2>2. sb' \in [Entries -> Roots] /\ par' \in [Entries -> Entries]
        /\ used' \in [Entries -> Int] /\ DOMAIN node' = Entries /\ NodeIsFunction'
    <3>1. DOMAIN node' = Entries /\ NodeIsFunction'
      BY <1>2, <2>1 DEF NodeIsFunction
    <3> QED BY <1>1, <1>2, <1>9, <2>1, <3>1
  <2>3. \A r \in Roots : sb'[r] = r /\ par'[r] = r
    BY <1>9, <1>10, EntryFacts DEF TreeInv, TreeType
  <2> QED BY <1>1, <1>2, <1>3, <1>9, <1>11, <2>2, <2>3 DEF TreeInv, TreeType
<1>13. RootsMounted'
  <2>1. node'[Disk] = node[Disk] /\ node'[Dev] = node[Dev]
    BY <1>9, <1>10, EntryFacts DEF Roots
  <2>2. Ready'
    BY <1>1, <2>1 DEF Ready
  <2> QED BY <1>1, <1>3, <2>1, <2>2 DEF TreeInv, RootsMounted, Mounted, GetRootNum, diskVars, Roots
<1>14. ASSUME NEW x, NEW e \in Entries, e # d PROVE LookupIn(e, x)' = LookupIn(e, x)
  <2>1. sb'[e] = sb[e] /\ node'[e] = node[e]
    BY <1>10, <1>14
  <2>2. nodes' = nodes /\ devices' = devices
    BY <1>3 DEF diskVars
  <2> QED BY <2>1, <2>2 DEF LookupIn, Lookup, GetNode, DevLookup
<1>15. OnWay'
  <2> DEFINE g == [k \in 0 .. m + 1 |-> IF k = m + 1 THEN d ELSE c[k]]
  <2>1. m + 1 \in 0 .. m + 1 /\ g[m + 1] = d
    BY <1>5
  <2>2. ASSUME NEW k \in 0 .. m
        PROVE  g[k] = c[k] /\ k # m + 1 /\ k \in 0 .. m + 1 /\ c[k] \in Entries /\ c[k] # d /\ node[c[k]] # 0
    <3>1. k \in 0 .. m + 1 /\ k # m + 1
      BY <1>5
    <3>2. c[k] \in Live
      BY <1>6
    <3> QED BY <1>9, <3>1, <3>2 DEF Live
  <2>3. \A k \in 0 .. m + 1 : k \in 0 .. m \/ k = m + 1
    BY <1>5
  <2>4. g \in [0 .. m + 1 -> Live']
    <3>1. d \in Live'
      BY <1>1, <1>9, <1>10 DEF Live
    <3>2. \A k \in 0 .. m : g[k] \in Live'
      BY <1>10, <2>2 DEF Live
    <3>3. \A k \in 0 .. m + 1 : g[k] \in Live'
      BY <2>1, <2>3, <3>1, <3>2
    <3> QED BY <3>3
  <2> HIDE DEF g
  <2>5. g[0] = sb'[d]
    BY <1>6, <1>8, <1>9, <1>10, <2>2
  <2>6. ASSUME NEW k \in 0 .. m + 1 PROVE sb'[g[k]] = sb'[d]
    <3>1. CASE k \in 0 .. m
      BY <1>6, <1>9, <1>10, <2>2, <3>1
    <3>2. CASE k = m + 1
      BY <2>1, <3>2
    <3> QED BY <2>3, <3>1, <3>2
  <2>7. ASSUME NEW k \in 1 .. m + 1
        PROVE  /\ g[k] \notin Roots /\ par'[g[k]] = g[k - 1] /\ used'[g[k]] = 1
               /\ node'[g[k]] = LookupIn(g[k - 1], path[k])'
    <3>1. k - 1 \in 0 .. m /\ (k \in 1 .. m \/ k = m + 1) /\ (k \in 1 .. m => k \in 0 .. m)
      BY <1>5
    <3>2. PICK e \in Entries : e = g[k - 1] /\ e = c[k - 1] /\ e # d
      BY <2>2, <3>1
    <3>3. PICK x : x = path'[k]
      OBVIOUS
    <3>4. LookupIn(g[k - 1], path[k])' = LookupIn(e, x)'
      BY <3>2, <3>3 DEF LookupIn
    <3>5. LookupIn(e, x)' = LookupIn(e, x)
      BY <1>14, <3>2
    <3>6. CASE k \in 1 .. m
      <4>1. x = path[k] /\ g[k] = c[k] /\ c[k] # d /\ c[k] \in Entries
        BY <1>11, <2>2, <3>1, <3>3, <3>6
      <4> QED BY <1>6, <1>10, <3>2, <3>4, <3>5, <3>6, <4>1
    <3>7. CASE k = m + 1
      <4>1. x = n /\ g[k] = d /\ e = walker
        <5>1. k - 1 = m
          BY <1>5, <3>7
        <5> QED BY <1>6, <1>11, <2>1, <3>2, <3>3, <3>7, <5>1
      <4> QED BY <1>9, <1>10, <3>2, <3>4, <3>5, <4>1
    <3> QED BY <3>1, <3>6, <3>7
  <2>8. ASSUME NEW j \in 0 .. m + 1, NEW k \in 0 .. m + 1, g[j] = g[k] PROVE j = k
    <3>1. CASE j \in 0 .. m /\ k \in 0 .. m
      BY <1>6, <2>2, <2>8, <3>1
    <3>2. CASE j = m + 1 \/ k = m + 1
      BY <2>1, <2>2, <2>3, <2>8, <3>2
    <3> QED BY <2>3, <3>1, <3>2
  <2>9. IsWay(g, d)'
    BY <1>11, <2>1, <2>4, <2>5, <2>6, <2>7, <2>8 DEF IsWay
  <2>10. \A k \in 1 .. Len(path') : used'[g[k]] = 1
    BY <1>11, <2>7
  <2> QED BY <1>1, <1>2, <1>3, <2>9, <2>10 DEF OnWay
<1>16. CountsCoverUsers'
  <2>1. PICK k \in [Entries -> Nat] : \A e \in Entries : k[e] = Cardinality(KidsIn(node, par, e))
    <3>1. \A e \in Entries : Cardinality(KidsIn(node, par, e)) \in Nat
      BY KidsCounted
    <3>2. [e \in Entries |-> Cardinality(KidsIn(node, par, e))] \in [Entries -> Nat]
      BY <3>1
    <3> QED BY <3>2
  <2>2. ASSUME NEW e \in Entries
        PROVE  /\ UsersIn(walker, objects, node, par, e) =
                    (IF e = walker THEN 1 ELSE 0) + objects[e] + k[e] + (IF e \in Roots THEN 1 ELSE 0)
               /\ UsersIn(d, objects, node', par', e) =
                    (IF e = d THEN 1 ELSE 0) + objects[e] + (k[e] + (IF e = walker THEN 1 ELSE 0))
                      + (IF e \in Roots THEN 1 ELSE 0)
               /\ objects[e] \in Nat /\ k[e] \in Nat /\ used[e] \in Int
    <3>1. Cardinality(KidsIn(node', par', e)) = k[e] + (IF walker = e THEN 1 ELSE 0)
      <4>1. \A f \in Entries \ {d} : node'[f] = node[f] /\ par'[f] = par[f]
        BY <1>10
      <4>2. d \in Entries \ Roots /\ node[d] = 0 /\ node'[d] # 0
        BY <1>1, <1>9, <1>10
      <4>3. Comes(node, par, node', par', d)
        BY <4>1, <4>2 DEF Comes
      <4>4. Cardinality(KidsIn(node', par', e)) =
              Cardinality(KidsIn(node, par, e)) + (IF par'[d] = e THEN 1 ELSE 0)
        BY <4>3, KidComes
      <4> QED BY <1>9, <1>10, <2>1, <4>4
    <3> QED BY <2>1, <3>1 DEF UsersIn, TreeInv, TreeType
  <2>3. ASSUME NEW e \in Entries
        PROVE  /\ used'[e] >= UsersIn(d, objects, node', par', e)
               /\ UsersIn(d, objects, node', par', e) > 0 => node'[e] # 0
    <3>1. used[e] >= UsersIn(walker, objects, node, par, e)
          /\ (UsersIn(walker, objects, node, par, e) > 0 => node[e] # 0)
      BY <1>7 DEF Covers
    <3>2. CASE e = d
      <4>1. objects[e] = 0 /\ k[e] = 0
        BY <1>9, <2>2, <3>1, <3>2
      <4>2. UsersIn(d, objects, node', par', e) = 1
        BY <1>9, <2>2, <3>2, <4>1
      <4> QED BY <1>1, <1>10, <3>2, <4>2
    <3>3. CASE e # d
      <4>1. UsersIn(d, objects, node', par', e) = UsersIn(walker, objects, node, par, e)
        BY <2>2, <3>3
      <4> QED BY <1>10, <3>1, <3>3, <4>1
    <3> QED BY <3>2, <3>3
  <2>4. Covers(walker', objects', node', par', used')
    BY <1>2, <1>3, <2>3 DEF Covers
  <2> QED BY <2>4, CoverIs
<1> QED BY <1>12, <1>13, <1>15, <1>16 DEF TreeInv

-----------------------------------------------------------------------------
(* Dropped in the form of a choice, as the definition of a recursive       *)
(* function is.                                                            *)
LEMMA DroppedIs ==
  ASSUME NEW d
  PROVE  \E up : /\ up = CHOOSE f : f = [k \in 0 .. MaxEntries |-> IF k = 0 THEN d ELSE par[f[k - 1]]]
                 /\ Dropped(d) = {up[k] : k \in {j \in 0 .. MaxEntries : \A i \in 0 .. j : used[up[i]] = 1}}
BY DEF Dropped

(* What dropRec unlinks, if g follows par from d on.                       *)
Follows(g, d) ==
  /\ g = [k \in 0 .. MaxEntries |-> g[k]] /\ g[0] = d
  /\ \A k \in 1 .. MaxEntries : g[k] = par[g[k - 1]]

LEMMA DroppedFollows ==
  ASSUME NEW d, NEW g, Follows(g, d)
  PROVE  Dropped(d) = {g[k] : k \in {j \in 0 .. MaxEntries : \A i \in 0 .. j : used[g[i]] = 1}}
<1> DEFINE Step(f) == [k \in 0 .. MaxEntries |-> IF k = 0 THEN d ELSE par[f[k - 1]]]
<1>1. PICK up : /\ up = CHOOSE f : f = Step(f)
                /\ Dropped(d) = {up[k] : k \in {j \in 0 .. MaxEntries : \A i \in 0 .. j : used[up[i]] = 1}}
  BY DroppedIs
<1>2. MaxEntries \in Nat
  BY EntryFacts
<1>3. g = Step(g)
  <2>1. ASSUME NEW k \in 0 .. MaxEntries PROVE g[k] = IF k = 0 THEN d ELSE par[g[k - 1]]
    <3>1. k # 0 => k \in 1 .. MaxEntries
      BY <1>2
    <3> QED BY <3>1 DEF Follows
  <2>2. g = [k \in 0 .. MaxEntries |-> g[k]]
    BY DEF Follows
  <2> QED BY <2>1, <2>2
<1>4. up = Step(up)
  <2> HIDE DEF Step
  <2> QED BY <1>1, <1>3
<1>5. \A k \in 0 .. MaxEntries : up[k] = IF k = 0 THEN d ELSE par[up[k - 1]]
  BY <1>4
<1> DEFINE Same == {k \in 0 .. MaxEntries : up[k] = g[k]}
<1>6. 0 .. MaxEntries \subseteq Same
  <2>1. 0 \in Same
    BY <1>2, <1>5 DEF Follows
  <2>2. ASSUME NEW k \in 1 .. MaxEntries, k - 1 \in Same PROVE k \in Same
    <3>1. k \in 0 .. MaxEntries /\ k # 0 /\ up[k - 1] = g[k - 1]
      BY <1>2, <2>2
    <3> QED BY <1>5, <3>1, <2>2 DEF Follows
  <2> HIDE DEF Same
  <2> QED BY <1>2, <2>1, <2>2, StepByStep
<1>7. \A k \in 0 .. MaxEntries : up[k] = g[k]
  BY <1>6
<1>8. \A j \in 0 .. MaxEntries : (\A i \in 0 .. j : used[up[i]] = 1) <=> (\A i \in 0 .. j : used[g[i]] = 1)
  <2>1. \A j \in 0 .. MaxEntries : \A i \in 0 .. j : i \in 0 .. MaxEntries
    BY <1>2
  <2> QED BY <1>7, <2>1
<1>9. {j \in 0 .. MaxEntries : \A i \in 0 .. j : used[up[i]] = 1} =
      {j \in 0 .. MaxEntries : \A i \in 0 .. j : used[g[i]] = 1}
  BY <1>8
<1>10. \A S : S \subseteq 0 .. MaxEntries => {up[k] : k \in S} = {g[k] : k \in S}
  BY <1>7
<1> QED BY <1>1, <1>9, <1>10

(* A way is no longer than there are entries.                              *)
LEMMA WayIsShort ==
  ASSUME NEW n \in Nat, NEW c \in [0 .. n -> Entries],
         \A j, k \in 0 .. n : c[j] = c[k] => j = k
  PROVE  n + 1 <= MaxEntries
<1>1. IsFiniteSet(0 .. n) /\ Cardinality(0 .. n) = n + 1
  BY FS_Interval
<1>2. IsFiniteSet(Entries) /\ Cardinality(Entries) = MaxEntries /\ MaxEntries \in Nat
  BY EntryFacts
<1>3. c \in Injection(0 .. n, Entries)
  BY DEF Injection, IsInjective
<1> QED BY <1>1, <1>2, <1>3, FS_Injection

(* dropRec stops at once if the entry has another user, and otherwise at   *)
(* the root, if only the walk uses the entries below it.                   *)
LEMMA WayDropped ==
  ASSUME TreeInv, NEW d, NEW c, IsWay(c, d)
  PROVE  /\ used[d] # 1 => Dropped(d) = {}
         /\ used[c[0]] # 1 /\ (\A k \in 1 .. Len(path) : used[c[k]] = 1) =>
              Dropped(d) = {c[k] : k \in 1 .. Len(path)}
<1>1. PICK n \in Nat : n = Len(path)
  BY DEF TreeInv, TreeType
<1>2. /\ c \in [0 .. n -> Live] /\ c[0] = sb[d] /\ c[n] = d
      /\ \A k \in 1 .. n : c[k] \notin Roots /\ par[c[k]] = c[k - 1]
      /\ \A j, k \in 0 .. n : c[j] = c[k] => j = k
  BY <1>1 DEF IsWay
<1>3. n \in 0 .. n /\ 0 \in 0 .. n
  BY <1>1
<1>4. d \in Entries /\ c[0] \in Roots /\ par[c[0]] = c[0]
  BY <1>2, <1>3 DEF TreeInv, TreeType, Live
<1>5. MaxEntries \in Nat /\ n + 1 <= MaxEntries
  <2>1. c \in [0 .. n -> Entries]
    BY <1>2 DEF Live
  <2> QED BY <1>2, <2>1, WayIsShort, EntryFacts
<1> DEFINE g == [k \in 0 .. MaxEntries |-> IF k <= n THEN c[n - k] ELSE c[0]]
<1>6. \A k \in 0 .. MaxEntries : g[k] = IF k <= n THEN c[n - k] ELSE c[0]
  OBVIOUS
<1>7. g = [k \in 0 .. MaxEntries |-> g[k]]
  OBVIOUS
<1> HIDE DEF g
<1>8. g[0] = d
  <2>1. 0 \in 0 .. MaxEntries /\ 0 <= n /\ n - 0 = n
    BY <1>5
  <2> QED BY <1>2, <1>6, <2>1
<1>9. ASSUME NEW k \in 1 .. MaxEntries PROVE g[k] = par[g[k - 1]]
  <2>1. k \in 0 .. MaxEntries /\ k - 1 \in 0 .. MaxEntries
    BY <1>5
  <2>2. CASE k <= n
    <3>1. g[k] = c[n - k] /\ g[k - 1] = c[n - (k - 1)]
      BY <1>1, <1>6, <2>1, <2>2
    <3>2. n - (k - 1) \in 1 .. n /\ (n - (k - 1)) - 1 = n - k
      BY <1>1, <2>2
    <3> QED BY <1>2, <3>1, <3>2
  <2>3. CASE k = n + 1
    <3>1. g[k] = c[0] /\ g[k - 1] = c[n - (k - 1)] /\ n - (k - 1) = 0
      BY <1>1, <1>6, <2>1, <2>3
    <3> QED BY <1>4, <3>1
  <2>4. CASE k > n + 1
    <3>1. g[k] = c[0] /\ g[k - 1] = c[0]
      BY <1>1, <1>6, <2>1, <2>4
    <3> QED BY <1>4, <3>1
  <2> QED BY <1>1, <2>2, <2>3, <2>4
<1>10. Dropped(d) = {g[k] : k \in {j \in 0 .. MaxEntries : \A i \in 0 .. j : used[g[i]] = 1}}
  <2>1. Follows(g, d)
    BY <1>7, <1>8, <1>9 DEF Follows
  <2> QED BY <2>1, DroppedFollows
<1>11. used[d] # 1 => Dropped(d) = {}
  <2>1. \A j \in 0 .. MaxEntries : 0 \in 0 .. j
    BY <1>5
  <2> QED BY <1>8, <1>10, <2>1
<1>12. ASSUME used[c[0]] # 1, \A k \in 1 .. n : used[c[k]] = 1
       PROVE  Dropped(d) = {c[k] : k \in 1 .. n}
  <2>1. ASSUME NEW j \in 0 .. MaxEntries
        PROVE  (\A i \in 0 .. j : used[g[i]] = 1) <=> j < n
    <3>1. CASE j < n
      <4>1. ASSUME NEW i \in 0 .. j PROVE used[g[i]] = 1
        <5>1. i \in 0 .. MaxEntries /\ i <= n /\ n - i \in 1 .. n
          BY <1>1, <1>5, <3>1
        <5> QED BY <1>6, <1>12, <5>1
      <4> QED BY <3>1, <4>1
    <3>2. CASE ~(j < n)
      <4>1. n \in 0 .. j /\ n \in 0 .. MaxEntries /\ n - n = 0 /\ n <= n
        BY <1>1, <1>5, <3>2
      <4>2. g[n] = c[0]
        BY <1>6, <4>1
      <4> QED BY <1>12, <3>2, <4>1, <4>2
    <3> QED BY <3>1, <3>2
  <2>2. Dropped(d) = {g[k] : k \in {j \in 0 .. MaxEntries : j < n}}
    <3>1. {j \in 0 .. MaxEntries : \A i \in 0 .. j : used[g[i]] = 1} = {j \in 0 .. MaxEntries : j < n}
      BY <2>1
    <3> QED BY <1>10, <3>1
  <2>3. ASSUME NEW k \in 0 .. MaxEntries, k < n PROVE g[k] \in {c[m] : m \in 1 .. n}
    <3>1. k <= n /\ n - k \in 1 .. n
      BY <1>1, <2>3
    <3> QED BY <1>6, <3>1
  <2>4. ASSUME NEW m \in 1 .. n PROVE c[m] \in {g[k] : k \in {j \in 0 .. MaxEntries : j < n}}
    <3>1. n - m \in 0 .. MaxEntries /\ n - m < n /\ n - m <= n /\ n - (n - m) = m
      BY <1>1, <1>5
    <3>2. g[n - m] = c[m]
      BY <1>6, <3>1
    <3> QED BY <3>1, <3>2
  <2> QED BY <2>2, <2>3, <2>4
<1> QED BY <1>1, <1>11, <1>12

(* decrementUsedCount of an entry with another user.                       *)
LEMMA OneUserLess ==
  ASSUME NEW d \in Entries, Dropped(d) = {}, Release(d), node = [e \in Entries |-> node[e]],
         used \in [Entries -> Int]
  PROVE  /\ used' = [used EXCEPT ![d] = @ - 1] /\ node' = node
         /\ sb' = sb /\ par' = par
<1>1. used' = [e \in Entries |-> IF e = d THEN used[e] - 1 ELSE used[e]]
  BY DEF Release
<1>2. node' = [e \in Entries |-> node[e]]
  BY DEF Release
<1> QED BY <1>1, <1>2 DEF Release

(* A walk or an open file goes, of an entry that has another user.         *)
LEMMA UserGoes ==
  ASSUME TreeInv, NEW d \in Entries, walker' = 0, file' = 0, path' = << >>,
         UNCHANGED <<diskVars, devices, node, sb, par>>,
         used' = [used EXCEPT ![d] = @ - 1],
         \/ d = walker /\ objects' = objects
         \/ d = file /\ objects' = [objects EXCEPT ![d] = @ - 1]
  PROVE  TreeInv'
<1>1. Ready /\ Ready' /\ Live' = Live /\ d # 0
  BY EntryFacts DEF TreeInv, RootsMounted, Ready, Live
<1>2. used \in [Entries -> Int] /\ objects \in [Entries -> Nat] /\ (d = file => objects[d] >= 1 /\ walker = 0)
  BY <1>1 DEF TreeInv, TreeType, OnWay
<1>3. used' \in [Entries -> Int]
  BY <1>2
<1>4. objects' \in [Entries -> Nat]
  BY <1>2
<1>5. TreeType'
  BY <1>3, <1>4 DEF TreeInv, TreeType, NodeIsFunction
<1>6. RootsMounted'
  BY <1>1 DEF TreeInv, RootsMounted, Mounted, GetRootNum, diskVars, Ready
<1>7. OnWay'
  BY DEF OnWay
<1>8. CountsCoverUsers'
  <2>1. Covers(walker, objects, node, par, used)
    BY <1>1, CoverIs DEF TreeInv
  <2>2. ASSUME NEW e \in Entries
        PROVE  UsersIn(0, objects', node, par, e) =
                 UsersIn(walker, objects, node, par, e) - (IF e = d THEN 1 ELSE 0)
    <3>1. Cardinality(KidsIn(node, par, e)) \in Nat /\ objects[e] \in Nat /\ e # 0
      BY <1>2, KidsCounted, EntryFacts
    <3>2. CASE d = walker /\ objects' = objects
      BY <1>1, <3>1, <3>2 DEF UsersIn
    <3>3. CASE d = file /\ objects' = [objects EXCEPT ![d] = @ - 1]
      <4>1. walker = 0 /\ objects'[e] = objects[e] - (IF e = d THEN 1 ELSE 0)
        BY <1>2, <3>1, <3>3
      <4> QED BY <3>1, <4>1 DEF UsersIn
    <3> QED BY <3>2, <3>3
  <2>3. \A e \in Entries : UsersIn(walker, objects, node, par, e) \in Nat /\ used[e] \in Int
    BY <1>2, UsersFacts
  <2>4. \A e \in Entries : used'[e] = used[e] - (IF e = d THEN 1 ELSE 0)
    BY <1>2, <2>3
  <2>5. Covers(0, objects', node, par, used')
    BY <2>1, <2>2, <2>3, <2>4 DEF Covers
  <2> QED BY <2>5, CoverIs
<1> QED BY <1>5, <1>6, <1>7, <1>8 DEF TreeInv

(* A walk that fails below a root drops all entries it has made, each the  *)
(* only child of the one above.                                            *)
LEMMA WalkGoes ==
  ASSUME TreeInv, walker # 0, NEW c, IsWay(c, walker), \A k \in 1 .. Len(path) : used[c[k]] = 1,
         path # << >>, walker' = 0, file' = 0, path' = << >>, Release(walker),
         UNCHANGED <<diskVars, devices, objects>>
  PROVE  TreeInv'
<1>1. PICK n \in Nat : n = Len(path) /\ n # 0
  BY DEF TreeInv, TreeType
<1>2. /\ c \in [0 .. n -> Live] /\ c[0] = sb[walker] /\ c[n] = walker
      /\ \A k \in 1 .. n : c[k] \notin Roots /\ par[c[k]] = c[k - 1] /\ used[c[k]] = 1
      /\ \A j, k \in 0 .. n : c[j] = c[k] => j = k
  BY <1>1 DEF IsWay
<1>3. n \in 1 .. n /\ 1 \in 1 .. n /\ 0 \in 0 .. n /\ n \in 0 .. n /\ 1 \in 0 .. n /\ 1 - 1 = 0
  BY <1>1
<1>4. PICK r \in Roots : r = c[0]
  BY <1>2 DEF TreeInv, TreeType
<1>5. Ready /\ walker \in Entries /\ r \in Entries /\ \A k \in 0 .. n : c[k] \in Entries /\ node[c[k]] # 0
  BY <1>2, EntryFacts DEF TreeInv, TreeType, RootsMounted, Live
<1>6. /\ Covers(walker, objects, node, par, used)
      /\ used \in [Entries -> Int] /\ objects \in [Entries -> Nat]
  BY <1>5, CoverIs DEF TreeInv, TreeType
<1>7. PICK kc \in [Entries -> Nat] : \A d \in Entries : kc[d] = Cardinality(KidsIn(node, par, d))
  <2>1. \A d \in Entries : Cardinality(KidsIn(node, par, d)) \in Nat
    BY KidsCounted
  <2>2. [d \in Entries |-> Cardinality(KidsIn(node, par, d))] \in [Entries -> Nat]
    BY <2>1
  <2> QED BY <2>2
<1>8. ASSUME NEW d \in Entries
      PROVE  /\ UsersIn(walker, objects, node, par, d) =
                  (IF walker = d THEN 1 ELSE 0) + objects[d] + kc[d] + (IF d \in Roots THEN 1 ELSE 0)
             /\ used[d] >= UsersIn(walker, objects, node, par, d)
             /\ UsersIn(walker, objects, node, par, d) > 0 => node[d] # 0
             /\ objects[d] \in Nat /\ kc[d] \in Nat /\ used[d] \in Int
  BY <1>6, <1>7 DEF UsersIn, Covers
<1>9. ASSUME NEW k \in 1 .. n
      PROVE  c[k] \in KidsIn(node, par, c[k - 1]) /\ kc[c[k - 1]] >= 1
  <2>1. k \in 0 .. n /\ k - 1 \in 0 .. n
    BY <1>1
  <2>2. c[k] \in KidsIn(node, par, c[k - 1])
    BY <1>2, <1>5, <2>1 DEF KidsIn
  <2> QED BY <1>5, <1>7, <2>1, <2>2, KidIsUser
<1>10. used[r] # 1
  <2>1. kc[r] >= 1
    BY <1>3, <1>4, <1>9
  <2>2. /\ UsersIn(walker, objects, node, par, r) =
             (IF walker = r THEN 1 ELSE 0) + objects[r] + kc[r] + (IF r \in Roots THEN 1 ELSE 0)
        /\ used[r] >= UsersIn(walker, objects, node, par, r)
        /\ objects[r] \in Nat /\ kc[r] \in Nat /\ used[r] \in Int
    BY <1>5, <1>8
  <2>3. UsersIn(walker, objects, node, par, r) >= 2
    BY <2>1, <2>2, <1>4
  <2> QED BY <2>2, <2>3
<1> DEFINE gone == {c[k] : k \in 1 .. n}
<1>11. Dropped(walker) = gone
  BY <1>1, <1>2, <1>4, <1>10, WayDropped
<1>12. gone # {} /\ r \notin gone
  BY <1>2, <1>3, <1>4
<1>13. {par[g] : g \in gone} = {c[k - 1] : k \in 1 .. n}
  <2>1. {par[g] : g \in gone} = {par[c[k]] : k \in 1 .. n}
    OBVIOUS
  <2>2. \A k \in 1 .. n : par[c[k]] = c[k - 1]
    BY <1>2
  <2> QED BY <2>1, <2>2
<1>14. (CHOOSE e \in {par[g] : g \in gone} : e \notin gone) = r
  <2>1. r \in {c[k - 1] : k \in 1 .. n}
    BY <1>3, <1>4
  <2>2. ASSUME NEW k \in 1 .. n, c[k - 1] \notin gone PROVE c[k - 1] = r
    <3>1. k - 1 = 0 \/ k - 1 \in 1 .. n
      BY <1>1
    <3> QED BY <1>4, <2>2, <3>1
  <2>3. \A e \in {par[g] : g \in gone} : e \notin gone => e = r
    BY <1>13, <2>2
  <2>4. r \in {par[g] : g \in gone}
    BY <1>13, <2>1
  <2> HIDE DEF gone
  <2> QED BY <1>12, <2>3, <2>4
<1>15. /\ used' = [e \in Entries |-> IF e \in gone THEN 0 ELSE IF e = r THEN used[e] - 1 ELSE used[e]]
       /\ node' = [e \in Entries |-> IF e \in gone THEN 0 ELSE node[e]]
       /\ sb' = sb /\ par' = par
  <2> HIDE DEF gone
  <2> DEFINE stays == IF gone = {} THEN walker
                      ELSE CHOOSE e \in {par[g] : g \in gone} : e \notin gone
  <2>2. stays = r
    BY <1>12, <1>14
  <2>3. /\ used' = [e \in Entries |-> IF e \in gone THEN 0 ELSE IF e = stays THEN used[e] - 1 ELSE used[e]]
        /\ node' = [e \in Entries |-> IF e \in gone THEN 0 ELSE node[e]]
        /\ sb' = sb /\ par' = par
    BY <1>11 DEF Release
  <2> HIDE DEF stays
  <2> QED BY <2>2, <2>3
<1>16. \A e \in gone : e \in Entries \ Roots /\ used[e] = 1
  <2>1. \A k \in 1 .. n : k \in 0 .. n
    BY <1>1
  <2> QED BY <1>2, <1>5, <2>1
<1>17. \A e \in gone : objects[e] = 0
  <2>1. SUFFICES ASSUME NEW k \in 1 .. n PROVE objects[c[k]] = 0
    OBVIOUS
  <2>2. k \in 0 .. n /\ (k = n \/ k + 1 \in 1 .. n) /\ (k + 1) - 1 = k
    BY <1>1
  <2>3. walker = c[k] \/ kc[c[k]] >= 1
    BY <1>2, <1>9, <2>2
  <2>4. PICK d \in Entries : d = c[k]
    BY <1>5, <2>2
  <2>5. used[d] = 1 /\ d \notin Roots
    BY <1>2, <2>4
  <2>6. (IF walker = d THEN 1 ELSE 0) + objects[d] + kc[d] <= 1 /\ (walker = d \/ kc[d] >= 1)
    BY <1>8, <2>3, <2>4, <2>5
  <2>7. objects[d] = 0
    BY <1>8, <2>6
  <2> QED BY <2>4, <2>7
<1> HIDE DEF gone
<1>18. KidsIn(node', par, r) = KidsIn(node, par, r) \ {c[1]}
  <2>1. ASSUME NEW e \in gone, par[e] = r PROVE e = c[1]
    <3>1. PICK k \in 1 .. n : e = c[k]
      BY DEF gone
    <3>2. k - 1 \in 0 .. n /\ c[k - 1] = c[0]
      BY <1>1, <1>2, <1>4, <2>1, <3>1
    <3>3. k - 1 = 0
      BY <1>2, <1>3, <3>2
    <3> QED BY <3>1, <3>3
  <2>2. c[1] \in gone
    BY <1>3 DEF gone
  <2> QED BY <1>15, <2>1, <2>2 DEF KidsIn
<1>19. Cardinality(KidsIn(node', par, r)) = kc[r] - 1
  <2>1. PICK S : S = KidsIn(node, par, r)
    OBVIOUS
  <2>2. IsFiniteSet(S) /\ c[1] \in S /\ Cardinality(S) = kc[r]
    BY <1>3, <1>4, <1>5, <1>7, <1>9, <2>1, KidsCounted
  <2>3. Cardinality(S \ {c[1]}) = Cardinality(S) - 1
    BY <2>2, FS_RemoveElement
  <2> QED BY <1>18, <2>1, <2>2, <2>3
<1>20. ASSUME NEW d \in Entries, d \notin gone, d # r PROVE KidsIn(node', par, d) = KidsIn(node, par, d)
  <2>1. ASSUME NEW e \in gone PROVE par[e] # d
    <3>1. PICK k \in 1 .. n : e = c[k]
      BY DEF gone
    <3>2. par[e] = c[k - 1] /\ (k - 1 = 0 \/ k - 1 \in 1 .. n)
      BY <1>1, <1>2, <3>1
    <3> QED BY <1>4, <1>20, <3>2 DEF gone
  <2> QED BY <1>15, <2>1 DEF KidsIn
<1>21. ASSUME NEW d \in gone PROVE KidsIn(node', par, d) = {}
  <2>1. PICK k \in 1 .. n : d = c[k]
    BY DEF gone
  <2>2. k \in 0 .. n /\ (k = n \/ k + 1 \in 1 .. n) /\ (k + 1) - 1 = k
    BY <1>1
  <2>3. CASE k = n
    <3>1. kc[d] = 0
      BY <1>2, <1>8, <1>16, <2>1, <2>3
    <3>2. KidsIn(node, par, d) = {}
      BY <1>7, <1>16, <3>1, KidsCounted, FS_EmptySet
    <3> QED BY <1>15, <3>2 DEF KidsIn
  <2>4. CASE k + 1 \in 1 .. n
    <3>1. c[k + 1] \in KidsIn(node, par, d) /\ kc[d] >= 1
      BY <1>9, <2>1, <2>2, <2>4
    <3>2. kc[d] = 1
      BY <1>8, <1>16, <3>1
    <3>3. KidsIn(node, par, d) = {c[k + 1]}
      BY <1>7, <1>16, <3>1, <3>2, KidIsUser
    <3>4. c[k + 1] \in gone
      BY <2>4 DEF gone
    <3> QED BY <1>15, <3>3, <3>4 DEF KidsIn
  <2> QED BY <2>2, <2>3, <2>4
<1>22. CountsCoverUsers'
  <2>1. ASSUME NEW d \in Entries
        PROVE  /\ used'[d] >= UsersIn(0, objects, node', par, d)
               /\ UsersIn(0, objects, node', par, d) > 0 => node'[d] # 0
    <3>1. d # 0 /\ walker # 0 /\ walker \in gone
      BY <1>2, <1>3, EntryFacts DEF gone
    <3>2. CASE d \in gone
      <4>1. Cardinality(KidsIn(node', par, d)) = 0
        BY <1>21, <3>2, FS_EmptySet
      <4>2. UsersIn(0, objects, node', par, d) = 0
        BY <1>16, <1>17, <3>1, <3>2, <4>1 DEF UsersIn
      <4> QED BY <1>15, <3>2, <4>2
    <3>3. CASE d = r
      <4>1. UsersIn(0, objects, node', par, d) = UsersIn(walker, objects, node, par, d) - 1
        BY <1>8, <1>12, <1>19, <3>1, <3>3 DEF UsersIn
      <4>2. used'[d] = used[d] - 1 /\ node'[d] = node[d]
        BY <1>12, <1>15, <3>3
      <4>3. UsersIn(walker, objects, node, par, d) \in Nat
        BY <1>8
      <4> QED BY <1>8, <4>1, <4>2, <4>3
    <3>4. CASE d \notin gone /\ d # r
      <4>1. UsersIn(0, objects, node', par, d) = UsersIn(walker, objects, node, par, d)
        BY <1>7, <1>8, <1>20, <3>1, <3>4 DEF UsersIn
      <4> QED BY <1>8, <1>15, <3>4, <4>1
    <3> QED BY <3>2, <3>3, <3>4
  <2>2. Covers(0, objects, node', par, used')
    BY <2>1 DEF Covers
  <2> QED BY <1>15, <2>2, CoverIs
<1>23. TreeType'
  <2>1. used' \in [Entries -> Int] /\ DOMAIN node' = Entries /\ NodeIsFunction'
    BY <1>6, <1>15 DEF NodeIsFunction
  <2> QED BY <1>15, <2>1 DEF TreeInv, TreeType
<1>24. RootsMounted'
  <2>1. \A e \in Roots : node'[e] = node[e]
    BY <1>15, <1>16, EntryFacts
  <2>2. node'[Disk] = node[Disk] /\ node'[Dev] = node[Dev]
    BY <2>1 DEF Roots
  <2>3. Ready'
    BY <1>5, <2>2 DEF Ready
  <2> QED BY <1>5, <2>2, <2>3 DEF TreeInv, RootsMounted, Mounted, GetRootNum, diskVars
<1>25. OnWay'
  BY DEF OnWay
<1> QED BY <1>22, <1>23, <1>24, <1>25 DEF TreeInv

(* VFS::open fails.                                                        *)
LEMMA WalkFailsKeeps ==
  ASSUME TreeInv, WalkFails
  PROVE  TreeInv'
<1>1. /\ Ready /\ walker \in Entries /\ walker # 0 /\ file' = 0 /\ walker' = 0 /\ path' = << >>
      /\ Release(walker) /\ UNCHANGED <<devices, objects>> /\ UNCHANGED diskVars
  BY DEF TreeInv, TreeType, RootsMounted, WalkFails, fileVars
<1>2. PICK c : IsWay(c, walker) /\ \A k \in 1 .. Len(path) : used[c[k]] = 1
  BY <1>1 DEF TreeInv, OnWay
<1>3. CASE path # << >>
  BY <1>1, <1>2, <1>3, WalkGoes
<1>4. CASE path = << >>
  <2>1. walker \in Roots
    <3>1. Len(path) = 0
      BY <1>4
    <3> QED BY <1>1, <1>2, <3>1 DEF IsWay, TreeInv, TreeType
  <2>2. used[walker] # 1
    <3>1. Covers(walker, objects, node, par, used) /\ objects \in [Entries -> Nat] /\ used[walker] \in Int
      BY <1>1, CoverIs DEF TreeInv, TreeType
    <3>2. /\ UsersIn(walker, objects, node, par, walker) >= 2
          /\ UsersIn(walker, objects, node, par, walker) \in Nat
      BY <1>1, <2>1, <3>1, UsersFacts
    <3> QED BY <1>1, <3>1, <3>2 DEF Covers
  <2>3. Dropped(walker) = {}
    BY <1>2, <2>2, WayDropped
  <2>4. node = [e \in Entries |-> node[e]] /\ used \in [Entries -> Int]
    BY DEF TreeInv, TreeType, NodeIsFunction
  <2>5. used' = [used EXCEPT ![walker] = @ - 1] /\ node' = node /\ sb' = sb /\ par' = par
    BY <1>1, <2>3, <2>4, OneUserLess
  <2> QED BY <1>1, <2>5, UserGoes
<1> QED BY <1>3, <1>4

(* ~IFile.                                                                 *)
LEMMA CloseBinaryKeeps ==
  ASSUME TreeInv, CloseBinary
  PROVE  TreeInv'
<1>1. /\ Ready /\ file \in Entries /\ file # 0 /\ walker = 0
      /\ file' = 0 /\ walker' = 0 /\ path' = << >> /\ Release(file)
      /\ objects' = [objects EXCEPT ![file] = @ - 1]
      /\ UNCHANGED devices /\ UNCHANGED diskVars
  BY DEF TreeInv, TreeType, RootsMounted, CloseBinary
<1>2. PICK c : IsWay(c, file)
  BY <1>1 DEF TreeInv, OnWay
<1>3. used[file] # 1
  BY <1>1 DEF TreeInv, OnWay
<1>4. Dropped(file) = {}
  BY <1>2, <1>3, WayDropped
<1>5. node = [e \in Entries |-> node[e]] /\ used \in [Entries -> Int]
  BY DEF TreeInv, TreeType, NodeIsFunction
<1>6. used' = [used EXCEPT ![file] = @ - 1] /\ node' = node /\ sb' = sb /\ par' = par
  BY <1>1, <1>4, <1>5, OneUserLess
<1> QED BY <1>1, <1>6, UserGoes

(* kmain mounts the ram disk; nobody uses it yet.                          *)
LEMMA MountDiskKeeps ==
  ASSUME TreeInv, MountDisk
  PROVE  TreeInv'
<1>1. /\ Mounted /\ node[Disk] = 0 /\ node' = [node EXCEPT ![Disk] = GetRootNum]
      /\ used' = [used EXCEPT ![Disk] = 1] /\ UNCHANGED <<sb, par, walker, path, devices, file, objects>>
      /\ UNCHANGED diskVars
  BY DEF MountDisk, Mount, fileVars
<1>2. Disk \in Entries /\ Dev \in Entries /\ Disk # Dev
  BY EntryFacts DEF Roots
<1>3. ~Ready /\ ~Ready'
  BY <1>1, <1>2 DEF TreeInv, RootsMounted, Ready, TreeType
<1>4. \A d \in Entries : node'[d] = (IF d = Disk THEN GetRootNum ELSE node[d])
                         /\ used'[d] = (IF d = Disk THEN 1 ELSE used[d])
  BY <1>1 DEF TreeInv, TreeType
<1>5. TreeType'
  <2>1. used' \in [Entries -> Int] /\ DOMAIN node' = Entries
    BY <1>1, <1>2 DEF TreeInv, TreeType
  <2>2. NodeIsFunction'
    BY <1>1, <2>1 DEF NodeIsFunction
  <2> QED BY <1>1, <2>1, <2>2 DEF TreeInv, TreeType
<1>6. RootsMounted'
  <2>1. Live' \subseteq {Disk}
    BY <1>3, <1>4 DEF TreeInv, RootsMounted, Live
  <2>2. Mounted' /\ GetRootNum' = GetRootNum
    BY <1>1 DEF Mounted, GetRootNum, diskVars
  <2> QED BY <1>1, <1>2, <1>3, <1>4, <2>1, <2>2 DEF TreeInv, RootsMounted
<1>7. OnWay'
  BY <1>1, <1>3 DEF TreeInv, RootsMounted, OnWay
<1> QED BY <1>3, <1>5, <1>6, <1>7, CoverIs DEF TreeInv

(* kmain mounts the devices, and from here on users are counted.           *)
LEMMA MountDevicesKeeps ==
  ASSUME TreeInv, MountDevices
  PROVE  TreeInv'
<1>1. /\ node[Disk] # 0 /\ node[Dev] = 0 /\ node' = [node EXCEPT ![Dev] = 1]
      /\ used' = [used EXCEPT ![Dev] = 1] /\ UNCHANGED <<sb, par, walker, path, file, objects>>
      /\ UNCHANGED diskVars
  BY DEF MountDevices, Mount, fileVars
<1>2. Disk \in Entries /\ Dev \in Entries /\ Disk # Dev
  BY EntryFacts DEF Roots
<1>3. ~Ready
  BY <1>1 DEF Ready
<1>4. \A d \in Entries : node'[d] = (IF d = Dev THEN 1 ELSE node[d])
                         /\ used'[d] = (IF d = Dev THEN 1 ELSE used[d])
  BY <1>1 DEF TreeInv, TreeType
<1>5. Ready' /\ node'[Disk] = node[Disk] /\ node'[Dev] = 1
  BY <1>2, <1>4 DEF Ready
<1>6. TreeType'
  <2>1. used' \in [Entries -> Int] /\ DOMAIN node' = Entries
    BY <1>1, <1>2 DEF TreeInv, TreeType
  <2>2. NodeIsFunction'
    BY <1>1, <2>1 DEF NodeIsFunction
  <2> QED BY <1>1, <2>1, <2>2 DEF TreeInv, TreeType
<1>7. RootsMounted'
  BY <1>1, <1>5 DEF TreeInv, RootsMounted, Mounted, GetRootNum, diskVars
<1>8. OnWay'
  BY <1>1, <1>3 DEF TreeInv, RootsMounted, OnWay
<1>9. CountsCoverUsers'
  <2>1. walker = 0 /\ Live \subseteq {Disk} /\ (\A d \in Entries : objects[d] = 0 /\ used[d] >= 0) /\ used[Disk] >= 1
    BY <1>1, <1>3 DEF TreeInv, RootsMounted
  <2>2. ASSUME NEW d \in Entries
        PROVE  UsersIn(0, objects, node', par, d) = IF d \in Roots THEN 1 ELSE 0
    <3>1. KidsIn(node', par, d) = {}
      BY <1>4, <2>1 DEF KidsIn, Live, Roots
    <3> QED BY <2>1, <3>1, FS_EmptySet, EntryFacts DEF UsersIn
  <2>3. Covers(0, objects, node', par, used')
    <3>1. SUFFICES ASSUME NEW d \in Entries
                   PROVE  /\ used'[d] >= UsersIn(0, objects, node', par, d)
                          /\ UsersIn(0, objects, node', par, d) > 0 => node'[d] # 0
      BY DEF Covers
    <3>2. CASE d = Dev
      BY <1>4, <2>2, <3>2 DEF Roots
    <3>3. CASE d = Disk
      BY <1>1, <1>2, <1>4, <2>1, <2>2, <3>3 DEF Roots
    <3>4. CASE d # Dev /\ d # Disk
      BY <1>4, <2>1, <2>2, <3>4 DEF Roots
    <3> QED BY <3>2, <3>3, <3>4
  <2> QED BY <1>1, <2>1, <2>3, CoverIs
<1> QED BY <1>6, <1>7, <1>8, <1>9 DEF TreeInv

(* The ram disk is parsed before it is mounted.                            *)
LEMMA ParsingKeeps ==
  ASSUME TreeInv, ParseHeader, UNCHANGED <<devices, treeVars, walker, path, fileVars>>
  PROVE  TreeInv'
<1>1. ~Mounted
  BY DEF ParseHeader, OpenDirectory, AddFile, CloseDirectory, Mounted
<1>2. ~Ready /\ ~Ready' /\ node[Disk] = 0 /\ Live' = Live
  BY <1>1 DEF TreeInv, RootsMounted, Ready, treeVars, Live
<1>3. TreeType'
  BY DEF TreeInv, TreeType, treeVars, fileVars, NodeIsFunction
<1>4. RootsMounted'
  BY <1>2 DEF TreeInv, RootsMounted, treeVars, fileVars
<1>5. OnWay'
  BY <1>2 DEF TreeInv, RootsMounted, OnWay, fileVars
<1> QED BY <1>2, <1>3, <1>4, <1>5, CoverIs DEF TreeInv

LEMMA InitTree == Init => TreeInv
<1> SUFFICES ASSUME Init PROVE TreeInv
  OBVIOUS
<1>1. Disk \in Roots /\ Dev \in Roots /\ Roots \subseteq Entries /\ Disk # Dev /\ Roots = {Disk, Dev}
  BY EntryFacts DEF Roots
<1>2. \A d \in Entries : node[d] = 0 /\ used[d] = 0 /\ objects[d] = 0
  BY DEF Init
<1>3. ~Ready /\ node[Disk] = 0 /\ Live = {}
  BY <1>1, <1>2 DEF Ready, Live
<1>4. TreeType
  <2>1. \A r \in Roots : sb[r] = r /\ par[r] = r
    BY <1>1 DEF Init
  <2>2. sb \in [Entries -> Roots] /\ par \in [Entries -> Entries] /\ used \in [Entries -> Int]
        /\ objects \in [Entries -> Nat]
    BY <1>1 DEF Init
  <2> QED BY <2>1, <2>2 DEF Init, TreeType, NodeIsFunction
<1>5. RootsMounted
  BY <1>2, <1>3 DEF RootsMounted, Init
<1>6. OnWay
  BY DEF OnWay, Init
<1> QED BY <1>3, <1>4, <1>5, <1>6, CoverIs DEF TreeInv

LEMMA NextTree ==
  ASSUME TreeInv, [Next]_vars
  PROVE  TreeInv'
<1>1. CASE ParseHeader /\ UNCHANGED <<devices, treeVars, walker, execute, path, fileVars, tableVars>>
  BY <1>1, ParsingKeeps
<1>2. CASE MountDisk
  BY <1>2, MountDiskKeeps
<1>3. CASE MountDevices
  BY <1>3, MountDevicesKeeps
<1>4. CASE \E root \in Roots : StartWalk(root)
  BY <1>4, StartWalkKeeps
<1>5. CASE GoToParent
  BY <1>5, GoToParentKeeps
<1>6. CASE \E n \in Names : GoToChild(n)
  BY <1>6, GoToChildKeeps
<1>7. CASE WalkFails
  BY <1>7, WalkFailsKeeps
<1>8. CASE OpenRefused \/ HandleFails \/ OpenFile
  <2>1. walker # 0 /\ walker' = 0 /\ path' \in Seq(Names)
    <3>1. walker # 0 /\ walker' = 0 /\ path' = << >>
      BY <1>8 DEF OpenRefused, HandleFails, OpenFile
    <3> QED BY <3>1
  <2>2. file' = 0 /\ UNCHANGED <<diskVars, devices, node, sb, par>>
    BY <1>8, <2>1 DEF OpenRefused, HandleFails, OpenFile, TreeInv, TreeType, fileVars, treeVars
  <2>3. \/ objects' = objects /\ used' \in {used, [used EXCEPT ![walker] = @ + 1]}
        \/ /\ objects' = [objects EXCEPT ![walker] = @ + 1]
           /\ used' = [used EXCEPT ![walker] = @ + 1]
    BY <1>8 DEF OpenRefused, HandleFails, OpenFile, fileVars, treeVars
  <2> QED BY <2>1, <2>2, <2>3, WalkEnds
<1>9. CASE OpenBinary
  <2>1. walker # 0 /\ walker' = 0 /\ path' = path /\ path' \in Seq(Names) /\ walker \in Entries
    BY <1>9 DEF OpenBinary, TreeInv, TreeType
  <2>2. file' = walker /\ UNCHANGED <<diskVars, devices, node, sb, par>>
    BY <1>9 DEF OpenBinary
  <2>3. /\ objects' = [objects EXCEPT ![walker] = @ + 1]
        /\ used' = [used EXCEPT ![walker] = @ + 1]
    BY <1>9 DEF OpenBinary
  <2>4. objects' # objects
    BY <2>1, <2>3 DEF TreeInv, TreeType
  <2> QED BY <2>1, <2>2, <2>3, <2>4, WalkEnds
<1>10. CASE \/ \E count \in 0 .. MaxCount : Read(count) \/ ReadDevices(count)
            \/ \E offset \in -1 .. 1, from \in {0, pos, FileSize} : Lseek(offset, from)
  <2>1. UNCHANGED <<diskVars, devices, treeVars, walker, path, file, objects>>
    BY <1>10 DEF Read, ReadDevices, Lseek, Unchanged
  <2> QED BY <2>1, ReadingKeeps
<1>11. CASE CloseBinary
  BY <1>11, CloseBinaryKeeps
<1>12. CASE UNCHANGED vars
  BY <1>12, ReadingKeeps DEF vars, fileVars
<1> QED BY <1>1, <1>2, <1>3, <1>4, <1>5, <1>6, <1>7, <1>8, <1>9, <1>10, <1>11, <1>12 DEF Next

(* Until an entry has been disposed of twice, its count is never below the *)
(* number of its users (CountsCoverUsers): no entry is freed under a walk, *)
(* an open file or a child, whatever the disk, however walks go and fail.  *)
(* dropRec disposes of an entry twice when a walk fails two entries deep   *)
(* (vfs.cpp:204); no walk is followed that starts later (DisposedOnce in   *)
(* StartWalk), and the code goes on there with freed memory.               *)
THEOREM CountsAlwaysCover == Spec => []CountsCoverUsers
<1>1. TreeInv => CountsCoverUsers
  BY DEF TreeInv
<1> QED BY <1>1, InitTree, NextTree, PTL DEF Spec

-----------------------------------------------------------------------------
(* Resolve and DevResolve, by the nodes a path leads to.                   *)
Resolves(f, p) ==
  /\ f = [k \in 0 .. Len(p) |-> f[k]] /\ f[0] = GetRootNum
  /\ \A k \in 1 .. Len(p) : f[k] = Lookup(f[k - 1], p[k])

LEMMA ResolveIs ==
  ASSUME NEW p, Len(p) \in Nat, NEW f, Resolves(f, p)
  PROVE  Resolve(p) = f[Len(p)]
<1> DEFINE Step(h) == [k \in 0 .. Len(p) |-> IF k = 0 THEN GetRootNum ELSE Lookup(h[k - 1], p[k])]
           at == CHOOSE h : h = Step(h)
<1>1. Resolve(p) = at[Len(p)]
  BY DEF Resolve
<1>2. f = Step(f)
  <2>1. ASSUME NEW k \in 0 .. Len(p) PROVE f[k] = IF k = 0 THEN GetRootNum ELSE Lookup(f[k - 1], p[k])
    <3>1. k # 0 => k \in 1 .. Len(p)
      OBVIOUS
    <3> QED BY <3>1 DEF Resolves
  <2>2. f = [k \in 0 .. Len(p) |-> f[k]]
    BY DEF Resolves
  <2> QED BY <2>1, <2>2
<1>3. at = Step(at)
  <2> HIDE DEF Step
  <2> QED BY <1>2
<1> HIDE DEF at
<1>4. \A k \in 0 .. Len(p) : at[k] = IF k = 0 THEN GetRootNum ELSE Lookup(at[k - 1], p[k])
  BY <1>3
<1> DEFINE Same == {k \in 0 .. Len(p) : at[k] = f[k]}
<1>5. 0 .. Len(p) \subseteq Same
  <2>1. 0 \in Same
    BY <1>4 DEF Resolves
  <2>2. ASSUME NEW k \in 1 .. Len(p), k - 1 \in Same PROVE k \in Same
    <3>1. k \in 0 .. Len(p) /\ k # 0 /\ at[k - 1] = f[k - 1]
      BY <2>2
    <3> QED BY <1>4, <3>1, <2>2 DEF Resolves
  <2> HIDE DEF Same
  <2> QED BY <2>1, <2>2, StepByStep
<1>6. Len(p) \in Same
  BY <1>5
<1> QED BY <1>1, <1>6

DevResolves(f, p) ==
  /\ f = [k \in 0 .. Len(p) |-> f[k]] /\ f[0] = 1
  /\ \A k \in 1 .. Len(p) : f[k] = DevLookup(f[k - 1], p[k])

LEMMA DevResolveIs ==
  ASSUME NEW p, Len(p) \in Nat, NEW f, DevResolves(f, p)
  PROVE  DevResolve(p) = f[Len(p)]
<1> DEFINE Step(h) == [k \in 0 .. Len(p) |-> IF k = 0 THEN 1 ELSE DevLookup(h[k - 1], p[k])]
           at == CHOOSE h : h = Step(h)
<1>1. DevResolve(p) = at[Len(p)]
  BY DEF DevResolve
<1>2. f = Step(f)
  <2>1. ASSUME NEW k \in 0 .. Len(p) PROVE f[k] = IF k = 0 THEN 1 ELSE DevLookup(f[k - 1], p[k])
    <3>1. k # 0 => k \in 1 .. Len(p)
      OBVIOUS
    <3> QED BY <3>1 DEF DevResolves
  <2>2. f = [k \in 0 .. Len(p) |-> f[k]]
    BY DEF DevResolves
  <2> QED BY <2>1, <2>2
<1>3. at = Step(at)
  <2> HIDE DEF Step
  <2> QED BY <1>2
<1> HIDE DEF at
<1>4. \A k \in 0 .. Len(p) : at[k] = IF k = 0 THEN 1 ELSE DevLookup(at[k - 1], p[k])
  BY <1>3
<1> DEFINE Same == {k \in 0 .. Len(p) : at[k] = f[k]}
<1>5. 0 .. Len(p) \subseteq Same
  <2>1. 0 \in Same
    BY <1>4 DEF DevResolves
  <2>2. ASSUME NEW k \in 1 .. Len(p), k - 1 \in Same PROVE k \in Same
    <3>1. k \in 0 .. Len(p) /\ k # 0 /\ at[k - 1] = f[k - 1]
      BY <2>2
    <3> QED BY <1>4, <3>1, <2>2 DEF DevResolves
  <2> HIDE DEF Same
  <2> QED BY <2>1, <2>2, StepByStep
<1>6. Len(p) \in Same
  BY <1>5
<1> QED BY <1>1, <1>6

(* A way leads where its names do.                                         *)
LEMMA WayResolves ==
  ASSUME TreeInv, Ready, NEW d \in Entries, NEW c, IsWay(c, d)
  PROVE  node[d] = IF sb[d] = Disk THEN Resolve(path) ELSE DevResolve(path)
<1>1. PICK n \in Nat : n = Len(path)
  BY DEF TreeInv, TreeType
<1> DEFINE f == [k \in 0 .. n |-> node[c[k]]]
<1>2. /\ c[0] = sb[d] /\ c[n] = d /\ \A k \in 0 .. n : sb[c[k]] = sb[d]
      /\ \A k \in 1 .. n : node[c[k]] = LookupIn(c[k - 1], path[k])
  BY <1>1 DEF IsWay
<1>3. n \in 0 .. n /\ 0 \in 0 .. n /\ f[n] = node[d] /\ f[0] = node[sb[d]]
  BY <1>1, <1>2
<1>4. sb[d] \in {Disk, Dev} /\ node[Disk] = GetRootNum /\ node[Dev] = 1
  BY DEF TreeInv, TreeType, RootsMounted, Roots
<1>5. ASSUME NEW k \in 1 .. n
      PROVE  f[k] = IF sb[d] = Disk THEN Lookup(f[k - 1], path[k]) ELSE DevLookup(f[k - 1], path[k])
  <2>1. k \in 0 .. n /\ k - 1 \in 0 .. n
    BY <1>1
  <2> QED BY <1>2, <2>1 DEF LookupIn
<1>6. f = [k \in 0 .. n |-> f[k]]
  OBVIOUS
<1> HIDE DEF f
<1>7. CASE sb[d] = Disk
  <2>1. Resolves(f, path)
    BY <1>1, <1>3, <1>4, <1>5, <1>6, <1>7 DEF Resolves
  <2> QED BY <1>1, <1>3, <1>7, <2>1, ResolveIs
<1>8. CASE sb[d] # Disk
  <2>1. DevResolves(f, path)
    BY <1>1, <1>3, <1>4, <1>5, <1>6, <1>8 DEF DevResolves
  <2> QED BY <1>1, <1>3, <1>8, <2>1, DevResolveIs
<1> QED BY <1>7, <1>8

(* The file that is opened is the one its path names                       *)
(* (OpensWhatThePathNames), on every disk, and so is each entry on the     *)
(* way, up and down the tree (goToChild, goToParent), until an entry has   *)
(* been disposed of twice: see CountsAlwaysCover.                          *)
THEOREM AlwaysOpensWhatIsNamed == Spec => []OpensWhatThePathNames
<1>1. ASSUME TreeInv PROVE OpensWhatThePathNames
  <2>1. SUFFICES ASSUME NEW d \in {walker, file} \ {0}
                 PROVE  node[d] = IF sb[d] = Disk THEN Resolve(path) ELSE DevResolve(path)
    BY DEF OpensWhatThePathNames
  <2>2. Ready /\ d \in Entries
    BY <1>1 DEF TreeInv, TreeType, RootsMounted
  <2>3. \E c : IsWay(c, d)
    BY <1>1 DEF TreeInv, OnWay
  <2> QED BY <1>1, <2>2, <2>3, WayResolves
<1> QED BY <1>1, InitTree, NextTree, PTL DEF Spec

-----------------------------------------------------------------------------
(* The ram disk, on archives for which no array moves.                     *)
SmallDisks == \A a \in Archives : Len(a) < FirstCapacity

Header == [path : Seq(Names), dir : BOOLEAN]

LEMMA ArchiveFacts ==
  ASSUME NEW a \in Archives
  PROVE  /\ a \in Seq(Header) /\ Len(a) \in Nat \ {0} /\ DOMAIN a = 1 .. Len(a)
         /\ a[1].path = << >> /\ a[1].dir
         /\ \A i \in 1 .. Len(a) : a[i].path \in Seq(Names) /\ a[i].dir \in BOOLEAN
         /\ \A i, j \in 1 .. Len(a) : a[i].path = a[j].path => i = j
         /\ \A i \in 2 .. Len(a) : \E j \in 1 .. i - 1 :
              /\ Child(a[j], a[i])
              /\ \A k \in j + 1 .. i - 1 : IsStrictPrefix(a[j].path, a[k].path)
<1>1. /\ a \in Seq(Header) /\ a # << >> /\ a[1] = [path |-> << >>, dir |-> TRUE]
      /\ \A i \in DOMAIN a :
           /\ i > 1 => \E j \in 1 .. i - 1 :
                /\ Child(a[j], a[i])
                /\ \A k \in j + 1 .. i - 1 : IsStrictPrefix(a[j].path, a[k].path)
           /\ \A j \in DOMAIN a : a[i].path = a[j].path => i = j
  BY DiskAssumption DEF Header
<1>2. Len(a) \in Nat \ {0} /\ DOMAIN a = 1 .. Len(a) /\ \A i \in 1 .. Len(a) : a[i] \in Header
  BY <1>1
<1>3. \A i \in 2 .. Len(a) : i \in DOMAIN a /\ i > 1
  BY <1>2
<1>4. \A i \in 1 .. Len(a) : a[i].path \in Seq(Names) /\ a[i].dir \in BOOLEAN
  BY <1>2 DEF Header
<1>5. \A i \in 2 .. Len(a) : \E j \in 1 .. i - 1 :
              /\ Child(a[j], a[i])
              /\ \A k \in j + 1 .. i - 1 : IsStrictPrefix(a[j].path, a[k].path)
  BY <1>1, <1>3
<1>6. a[1].path = << >> /\ a[1].dir
  BY <1>1
<1>7. \A i, j \in 1 .. Len(a) : a[i].path = a[j].path => i = j
  BY <1>1, <1>2
<1> QED BY <1>1, <1>2, <1>4, <1>5, <1>6, <1>7

(* A prefix, by its elements.                                              *)
LEMMA PrefixIs ==
  ASSUME NEW s \in Seq(Names), NEW t \in Seq(Names)
  PROVE  IsPrefix(s, t) <=> Len(s) <= Len(t) /\ \A i \in 1 .. Len(s) : s[i] = t[i]
<1>1. Len(s) \in Nat /\ Len(t) \in Nat
  OBVIOUS
<1>2. SUFFICES ASSUME Len(s) <= Len(t)
               PROVE  SubSeq(s, 1, Len(s)) = SubSeq(t, 1, Len(s)) <=> \A i \in 1 .. Len(s) : s[i] = t[i]
  BY DEF IsPrefix
<1>3. /\ SubSeq(s, 1, Len(s)) \in Seq(Names) /\ Len(SubSeq(s, 1, Len(s))) = Len(s)
      /\ \A i \in 1 .. Len(s) : SubSeq(s, 1, Len(s))[i] = s[i]
  BY <1>1
<1>4. /\ SubSeq(t, 1, Len(s)) \in Seq(Names) /\ Len(SubSeq(t, 1, Len(s))) = Len(s)
      /\ \A i \in 1 .. Len(s) : SubSeq(t, 1, Len(s))[i] = t[i]
  BY <1>1, <1>2
<1>5. ASSUME \A i \in 1 .. Len(s) : s[i] = t[i]
      PROVE  SubSeq(s, 1, Len(s)) = SubSeq(t, 1, Len(s))
  BY <1>3, <1>4, <1>5, SeqEqual
<1>6. ASSUME SubSeq(s, 1, Len(s)) = SubSeq(t, 1, Len(s)), NEW i \in 1 .. Len(s)
      PROVE  s[i] = t[i]
  BY <1>3, <1>4, <1>6
<1> QED BY <1>5, <1>6

LEMMA StrictPrefixIs ==
  ASSUME NEW s \in Seq(Names), NEW t \in Seq(Names)
  PROVE  IsStrictPrefix(s, t) <=> Len(s) < Len(t) /\ \A i \in 1 .. Len(s) : s[i] = t[i]
<1>1. Len(s) \in Nat /\ Len(t) \in Nat
  OBVIOUS
<1>2. ASSUME Len(s) = Len(t), \A i \in 1 .. Len(s) : s[i] = t[i] PROVE s = t
  BY <1>2, SeqEqual
<1>3. Len(s) < Len(t) => s # t
  OBVIOUS
<1> QED BY <1>1, <1>2, <1>3, PrefixIs DEF IsStrictPrefix

(* Two prefixes of one path.                                               *)
LEMMA StrictPrefixFacts ==
  ASSUME NEW s \in Seq(Names), NEW t \in Seq(Names), NEW u \in Seq(Names)
  PROVE  /\ IsStrictPrefix(s, t) /\ IsStrictPrefix(t, u) => IsStrictPrefix(s, u)
         /\ t # << >> => IsStrictPrefix(<< >>, t)
<1>1. Len(s) \in Nat /\ Len(t) \in Nat /\ Len(u) \in Nat
  OBVIOUS
<1>2. ASSUME IsStrictPrefix(s, t), IsStrictPrefix(t, u) PROVE IsStrictPrefix(s, u)
  <2>1. /\ Len(s) < Len(t) /\ Len(t) < Len(u) /\ \A i \in 1 .. Len(s) : s[i] = t[i]
        /\ \A i \in 1 .. Len(t) : t[i] = u[i]
    BY <1>2, StrictPrefixIs
  <2>2. \A i \in 1 .. Len(s) : i \in 1 .. Len(t)
    BY <1>1, <2>1
  <2>3. Len(s) < Len(u) /\ \A i \in 1 .. Len(s) : s[i] = u[i]
    BY <1>1, <2>1, <2>2
  <2> QED BY <2>3, StrictPrefixIs
<1>3. ASSUME t # << >> PROVE IsStrictPrefix(<< >>, t)
  <2>1. << >> \in Seq(Names) /\ Len(<< >>) = 0 /\ Len(t) > 0
    BY <1>1, <1>3
  <2>2. \A i \in 1 .. Len(<< >>) : << >>[i] = t[i]
    BY <2>1
  <2> QED BY <2>1, <2>2, StrictPrefixIs
<1> QED BY <1>2, <1>3

LEMMA ChildFacts ==
  ASSUME NEW h \in Header, NEW d \in Header, Child(h, d)
  PROVE  /\ IsStrictPrefix(h.path, d.path) /\ Len(d.path) = Len(h.path) + 1 /\ h.dir
         /\ d.path # << >> /\ h.path = Front(d.path) /\ Last(d.path) \in Names
         /\ \A g \in Header : Child(h, g) /\ Last(g.path) = Last(d.path) => g.path = d.path
<1>1. h.path \in Seq(Names) /\ d.path \in Seq(Names) /\ Len(h.path) \in Nat /\ Len(d.path) = Len(h.path) + 1
      /\ IsPrefix(h.path, d.path) /\ h.dir
  BY DEF Child, Header
<1>2. \A i \in 1 .. Len(h.path) : h.path[i] = d.path[i]
  BY <1>1, PrefixIs
<1>3. IsStrictPrefix(h.path, d.path)
  BY <1>1, <1>2, StrictPrefixIs
<1>4. d.path # << >> /\ Last(d.path) \in Names
  BY <1>1 DEF Last
<1>5. h.path = Front(d.path)
  <2>1. /\ Front(d.path) \in Seq(Names) /\ Len(Front(d.path)) = Len(h.path)
        /\ \A i \in 1 .. Len(h.path) : Front(d.path)[i] = d.path[i]
    BY <1>1 DEF Front
  <2> QED BY <1>1, <1>2, <2>1, SeqEqual
<1>6. ASSUME NEW g \in Header, Child(h, g), Last(g.path) = Last(d.path) PROVE g.path = d.path
  <2>1. g.path \in Seq(Names) /\ Len(g.path) = Len(h.path) + 1 /\ IsPrefix(h.path, g.path)
    BY <1>6 DEF Child, Header
  <2>2. \A i \in 1 .. Len(h.path) : h.path[i] = g.path[i]
    BY <1>1, <2>1, PrefixIs
  <2>3. ASSUME NEW i \in 1 .. Len(g.path) PROVE g.path[i] = d.path[i]
    <3>1. i \in 1 .. Len(h.path) \/ i = Len(h.path) + 1
      BY <1>1, <2>1
    <3> QED BY <1>1, <1>2, <1>6, <2>1, <2>2, <3>1 DEF Last
  <2> QED BY <1>1, <2>1, <2>3, SeqEqual
<1> QED BY <1>1, <1>3, <1>4, <1>5, <1>6

-----------------------------------------------------------------------------
(* How parseHeader fills the ram disk, of an archive a, at header cur, with*)
(* the calls st and the nodes nds.                                         *)
(*                                                                         *)
(* e is the entry of a node in the list of its directory, that of header h.*)
KidEntry(a, nds, h, e) ==
  /\ e \in DirEntry /\ e.inode \in 1 .. Len(nds)
  /\ nds[e.inode].header \in 1 .. Len(a)
  /\ Child(a[h], a[nds[e.inode].header])
  /\ e.name = Last(a[nds[e.inode].header].path)

(* The list of node or call x has entries of its header, in the archive's  *)
(* order.                                                                  *)
HoldsKids(a, nds, x) ==
  /\ x \in DiskNode /\ x.header \in 1 .. Len(a)
  /\ x.entries.capacity = FirstCapacity /\ Len(x.entries.elems) <= Len(nds)
  /\ \A i \in 1 .. Len(x.entries.elems) : KidEntry(a, nds, x.header, x.entries.elems[i])
  /\ \A i, j \in 1 .. Len(x.entries.elems) :
       i < j => nds[x.entries.elems[i].inode].header < nds[x.entries.elems[j].inode].header

EntriesBefore(nds, x, h) ==
  \A i \in 1 .. Len(x.entries.elems) : nds[x.entries.elems[i].inode].header < h

HasEntry(x, m) == \E i \in 1 .. Len(x.entries.elems) : x.entries.elems[i].inode = m

(* Every header before the cursor has a node or a call, and only one.      *)
Parted(a, cur, st, nds) ==
  /\ cur \in 1 .. Len(a) + 1 /\ st \in Seq(DiskNode) /\ nds \in Seq(DiskNode)
  /\ Len(nds) + Len(st) = cur - 1
  /\ \A k \in 1 .. Len(st) : st[k].header \in 1 .. cur - 1
  /\ \A m \in 1 .. Len(nds) : nds[m].header \in 1 .. cur - 1
  /\ \A l, m \in 1 .. Len(nds) : nds[l].header = nds[m].header => l = m
  /\ \A k \in 1 .. Len(st), m \in 1 .. Len(nds) : st[k].header # nds[m].header
  /\ \A h \in 1 .. cur - 1 : \/ \E k \in 1 .. Len(st) : st[k].header = h
                             \/ \E m \in 1 .. Len(nds) : nds[m].header = h

(* The calls are for directories, each in that of the call before.         *)
Nested(a, st) ==
  /\ st # << >> => st[1].header = 1
  /\ \A k \in 1 .. Len(st) : a[st[k].header].dir
  /\ \A k \in 2 .. Len(st) : Child(a[st[k - 1].header], a[st[k].header])
  /\ \A j, k \in 1 .. Len(st) : j < k => Len(a[st[j].header].path) < Len(a[st[k].header].path)

(* A directory has its node when a header that is not below it has come.   *)
PassedBy(a, cur, h) ==
  cur > Len(a) \/ \E c \in h + 1 .. cur : ~IsStrictPrefix(a[h].path, a[c].path)

Passed(a, cur, nds) ==
  \A m \in 1 .. Len(nds) : a[nds[m].header].dir => PassedBy(a, cur, nds[m].header)

Listed(a, cur, st, nds) ==
  /\ \A k \in 1 .. Len(st) : HoldsKids(a, nds, st[k])
  /\ \A m \in 1 .. Len(nds) : HoldsKids(a, nds, nds[m])
  /\ \A k \in 1 .. Len(st) :
       EntriesBefore(nds, st[k], IF k = Len(st) THEN cur ELSE st[k + 1].header)
  /\ \A m \in 1 .. Len(nds) : nds[m].header # 1 =>
       (\E k \in 1 .. Len(st) : HasEntry(st[k], m)) \/ (\E l \in 1 .. Len(nds) : HasEntry(nds[l], m))

Finished(a, cur, st, nds) ==
  st = << >> /\ cur > 1 => cur = Len(a) + 1 /\ nds # << >> /\ nds[Len(nds)].header = 1

DiskInv ==
  /\ nodes \in [elems : Seq(DiskNode), capacity : {FirstCapacity}]
  /\ archive \in Archives
  /\ Parted(archive, cursor, parsing, nodes.elems)
  /\ Nested(archive, parsing)
  /\ Passed(archive, cursor, nodes.elems)
  /\ Listed(archive, cursor, parsing, nodes.elems)
  /\ Finished(archive, cursor, parsing, nodes.elems)

-----------------------------------------------------------------------------
LEMMA NodeFields ==
  ASSUME NEW x \in DiskNode
  PROVE  /\ x.header \in Nat /\ x.entries.elems \in Seq(DirEntry \cup {Junk}) /\ x.entries.capacity \in Nat
         /\ Len(x.entries.elems) \in Nat
         /\ x.entries = [elems |-> x.entries.elems, capacity |-> x.entries.capacity]
BY DEF DiskNode

LEMMA Appended ==
  ASSUME NEW S, NEW s \in Seq(S), NEW e \in S
  PROVE  /\ Append(s, e) \in Seq(S) /\ Len(Append(s, e)) = Len(s) + 1 /\ Append(s, e) # << >>
         /\ Len(s) \in Nat
         /\ \A i \in 1 .. Len(s) : Append(s, e)[i] = s[i]
         /\ Append(s, e)[Len(s) + 1] = e
  OBVIOUS

LEMMA PushBackAppends ==
  ASSUME NEW q, NEW e, NEW w, q = [elems |-> q.elems, capacity |-> FirstCapacity],
         Len(Append(q.elems, e)) # FirstCapacity
  PROVE  PushBack(q, e, w) = [elems |-> Append(q.elems, e), capacity |-> FirstCapacity]
<1>1. PushBack(q, e, w) = [q EXCEPT !.elems = Append(q.elems, e)]
  <2>1. q.capacity = FirstCapacity
    OBVIOUS
  <2> QED BY <2>1 DEF PushBack
<1>2. [[elems |-> q.elems, capacity |-> FirstCapacity] EXCEPT !.elems = Append(q.elems, e)]
        = [elems |-> Append(q.elems, e), capacity |-> FirstCapacity]
  OBVIOUS
<1> QED BY <1>1, <1>2

(* A new node changes no list.                                             *)
LEMMA KidsStay ==
  ASSUME NEW a, NEW nds \in Seq(DiskNode), NEW y \in DiskNode, NEW x, HoldsKids(a, nds, x)
  PROVE  /\ HoldsKids(a, Append(nds, y), x)
         /\ \A h : EntriesBefore(nds, x, h) => EntriesBefore(Append(nds, y), x, h)
<1> DEFINE new == Append(nds, y)
<1> DEFINE es == x.entries.elems
<1>1. /\ new \in Seq(DiskNode) /\ Len(new) = Len(nds) + 1 /\ Len(nds) \in Nat
      /\ \A m \in 1 .. Len(nds) : new[m] = nds[m]
  BY Appended
<1>2. x \in DiskNode /\ \A i \in 1 .. Len(es) : KidEntry(a, nds, x.header, es[i])
  BY DEF HoldsKids
<1>3. Len(es) \in Nat
  BY <1>2, NodeFields
<1> HIDE DEF new
<1>4. ASSUME NEW i \in 1 .. Len(es)
      PROVE  KidEntry(a, new, x.header, es[i]) /\ new[es[i].inode] = nds[es[i].inode]
  <2>1. KidEntry(a, nds, x.header, es[i])
    BY <1>2
  <2>2. es[i].inode \in 1 .. Len(nds)
    BY <2>1 DEF KidEntry
  <2>4. es[i].inode \in 1 .. Len(new)
    BY <1>1, <2>2
  <2>3. new[es[i].inode] = nds[es[i].inode]
    BY <1>1, <2>2
  <2> QED BY <2>1, <2>2, <2>3, <2>4 DEF KidEntry
<1>5. Len(es) <= Len(new)
  BY <1>1, <1>3 DEF HoldsKids
<1>6. \A i, j \in 1 .. Len(es) : i < j => new[es[i].inode].header < new[es[j].inode].header
  BY <1>4 DEF HoldsKids
<1>7. HoldsKids(a, new, x)
  BY <1>4, <1>5, <1>6 DEF HoldsKids
<1>8. ASSUME NEW h, EntriesBefore(nds, x, h) PROVE EntriesBefore(new, x, h)
  BY <1>4, <1>8 DEF EntriesBefore
<1> QED BY <1>7, <1>8 DEF new

(* x, with an entry of node m, that of header h, at the end of its list.   *)
WithKid(a, x, m, h) ==
  [x EXCEPT !.entries = PushBack(@, [inode |-> m, name |-> Last(a[h].path)], EntryWidth)]

LEMMA EntryGrows ==
  ASSUME NEW a \in Archives, NEW nds \in Seq(DiskNode), NEW x, HoldsKids(a, nds, x),
         NEW m \in 1 .. Len(nds), NEW h \in 1 .. Len(a), nds[m].header = h, Child(a[x.header], a[h]),
         EntriesBefore(nds, x, h), Len(x.entries.elems) < Len(nds), Len(nds) < FirstCapacity
  PROVE  LET y == WithKid(a, x, m, h)
         IN  /\ HoldsKids(a, nds, y) /\ y.header = x.header
             /\ HasEntry(y, m) /\ \A l : HasEntry(x, l) => HasEntry(y, l)
             /\ \A g \in Int : h < g => EntriesBefore(nds, y, g)
<1> DEFINE e == [inode |-> m, name |-> Last(a[h].path)]
<1> DEFINE es == x.entries.elems
<1> DEFINE fs == Append(es, e)
<1> DEFINE y == WithKid(a, x, m, h)
<1>1. x \in DiskNode /\ x.header \in 1 .. Len(a) /\ x.entries.capacity = FirstCapacity
  BY DEF HoldsKids
<1>2. /\ es \in Seq(DirEntry \cup {Junk}) /\ Len(es) \in Nat
      /\ x.entries = [elems |-> es, capacity |-> FirstCapacity]
  BY <1>1, NodeFields
<1>3. Len(nds) \in Nat /\ FirstCapacity \in Nat /\ m \in Nat
  BY ArrayAssumption
<1>4. e \in DirEntry
  <2>1. a[x.header] \in Header /\ a[h] \in Header
    BY <1>1, ArchiveFacts
  <2>2. Last(a[h].path) \in Names
    BY <2>1, ChildFacts
  <2> QED BY <1>3, <2>2 DEF DirEntry
<1>5. KidEntry(a, nds, x.header, e)
  BY <1>4 DEF KidEntry
<1>6. y = [header |-> x.header, entries |-> [elems |-> fs, capacity |-> FirstCapacity]]
  <2>1. PushBack(x.entries, e, EntryWidth) = [elems |-> fs, capacity |-> FirstCapacity]
    <3>1. Len(Append(x.entries.elems, e)) # FirstCapacity
      BY <1>2, <1>3, <1>4, Appended
    <3>2. x.entries = [elems |-> x.entries.elems, capacity |-> FirstCapacity]
      BY <1>2
    <3> HIDE DEF e
    <3> QED BY <3>1, <3>2, PushBackAppends
  <2>2. y = [x EXCEPT !.entries = PushBack(x.entries, e, EntryWidth)]
    BY DEF WithKid
  <2>3. x = [header |-> x.header, entries |-> x.entries]
    BY <1>1 DEF DiskNode
  <2> HIDE DEF e, fs, y
  <2> QED BY <2>1, <2>2, <2>3
<1> HIDE DEF e, y
<1>7. /\ fs \in Seq(DirEntry \cup {Junk}) /\ Len(fs) = Len(es) + 1
      /\ \A i \in 1 .. Len(es) : fs[i] = es[i]
      /\ fs[Len(es) + 1] = e
  BY <1>2, <1>4, Appended
<1> HIDE DEF fs
<1>8. y \in DiskNode /\ y.header = x.header /\ y.entries.elems = fs /\ y.entries.capacity = FirstCapacity
  BY <1>1, <1>3, <1>6, <1>7 DEF DiskNode
<1>9. ASSUME NEW i \in 1 .. Len(fs)
      PROVE  \/ i \in 1 .. Len(es) /\ fs[i] = es[i]
             \/ i = Len(es) + 1 /\ fs[i] = e
  BY <1>2, <1>7
<1>10. nds[e.inode].header = h
  BY DEF e
<1>11. \A i \in 1 .. Len(es) : nds[es[i].inode].header < h /\ KidEntry(a, nds, x.header, es[i])
  BY DEF EntriesBefore, HoldsKids
<1>12. \A i \in 1 .. Len(fs) : KidEntry(a, nds, x.header, fs[i])
  BY <1>5, <1>9, <1>11
<1>13. ASSUME NEW i \in 1 .. Len(fs), NEW j \in 1 .. Len(fs), i < j
       PROVE  nds[fs[i].inode].header < nds[fs[j].inode].header
  <2>1. i \in 1 .. Len(es) /\ fs[i] = es[i]
    BY <1>2, <1>7, <1>9, <1>13
  <2>2. CASE j \in 1 .. Len(es) /\ fs[j] = es[j]
    BY <1>13, <2>1, <2>2 DEF HoldsKids
  <2>3. CASE fs[j] = e
    BY <1>10, <1>11, <2>1, <2>3
  <2> QED BY <1>9, <2>2, <2>3
<1>14. Len(fs) <= Len(nds)
  BY <1>2, <1>3, <1>7
<1>15. HoldsKids(a, nds, y)
  BY <1>1, <1>8, <1>12, <1>13, <1>14 DEF HoldsKids
<1>16. HasEntry(y, m)
  <2>1. Len(es) + 1 \in 1 .. Len(fs) /\ fs[Len(es) + 1].inode = m
    BY <1>2, <1>7 DEF e
  <2> QED BY <1>8, <2>1 DEF HasEntry
<1>17. ASSUME NEW l, HasEntry(x, l) PROVE HasEntry(y, l)
  <2>1. PICK i \in 1 .. Len(es) : es[i].inode = l
    BY <1>17 DEF HasEntry
  <2>2. i \in 1 .. Len(fs) /\ fs[i] = es[i]
    BY <1>2, <1>7, <2>1
  <2> QED BY <1>8, <2>1, <2>2 DEF HasEntry
<1>18. ASSUME NEW g \in Int, h < g PROVE EntriesBefore(nds, y, g)
  <2>1. ASSUME NEW i \in 1 .. Len(fs) PROVE nds[fs[i].inode].header < g
    <3>1. CASE fs[i] = e
      BY <1>10, <1>18, <3>1
    <3>2. CASE i \in 1 .. Len(es) /\ fs[i] = es[i]
      <4>1. es[i].inode \in 1 .. Len(nds) /\ nds[es[i].inode] \in DiskNode
        <5>1. KidEntry(a, nds, x.header, es[i])
          BY <1>11, <3>2
        <5>2. es[i].inode \in 1 .. Len(nds)
          BY <5>1 DEF KidEntry
        <5>3. nds \in Seq(DiskNode)
          OBVIOUS
        <5> QED BY <5>2, <5>3
      <4>2. nds[es[i].inode].header \in Nat
        BY <4>1, NodeFields
      <4>3. PICK u \in Nat : u = nds[es[i].inode].header
        BY <4>2
      <4>4. u < h
        BY <1>11, <3>2, <4>3
      <4>5. u < g
        BY <1>18, <4>4
      <4> QED BY <3>2, <4>3, <4>5
    <3> QED BY <1>9, <3>1, <3>2
  <2> QED BY <1>8, <2>1 DEF EntriesBefore
<1> QED BY <1>8, <1>15, <1>16, <1>17, <1>18 DEF y

(* The stack st after its last call has got the entry of a node.           *)
LEMMA EntryGoesOnTop ==
  ASSUME NEW st \in Seq(DiskNode), st # << >>, NEW m, NEW h, WithKid(archive, st[Len(st)], m, h) \in DiskNode
  PROVE  LET rest == WithEntry(st, m, h)
         IN  /\ rest \in Seq(DiskNode) /\ Len(rest) = Len(st)
             /\ rest[Len(st)] = WithKid(archive, st[Len(st)], m, h)
             /\ \A k \in 1 .. Len(st) : k # Len(st) => rest[k] = st[k]
<1> DEFINE z == WithKid(archive, st[Len(st)], m, h)
<1>1. WithEntry(st, m, h) = [st EXCEPT ![Len(st)] = z]
  BY DEF WithEntry, WithKid
<1>2. z \in DiskNode /\ Len(st) \in 1 .. Len(st)
  OBVIOUS
<1> HIDE DEF z
<1>3. /\ [st EXCEPT ![Len(st)] = z] \in Seq(DiskNode) /\ Len([st EXCEPT ![Len(st)] = z]) = Len(st)
      /\ [st EXCEPT ![Len(st)] = z][Len(st)] = z
      /\ \A k \in 1 .. Len(st) : k # Len(st) => [st EXCEPT ![Len(st)] = z][k] = st[k]
  BY <1>2
<1> QED BY <1>1, <1>3 DEF z

(* What the entries of calls st and nodes nds are when node y is about to  *)
(* be added and listed by the last of these calls.                         *)
ReadyFor(a, st, nds, y) ==
  /\ HoldsKids(a, nds, y)
  /\ \A k \in 1 .. Len(st) : HoldsKids(a, nds, st[k])
  /\ \A m \in 1 .. Len(nds) : HoldsKids(a, nds, nds[m])
  /\ \A k \in 1 .. Len(st) :
       EntriesBefore(nds, st[k], IF k = Len(st) THEN y.header ELSE st[k + 1].header)
  /\ \A m \in 1 .. Len(nds) : nds[m].header # 1 =>
       \/ \E k \in 1 .. Len(st) : HasEntry(st[k], m)
       \/ \E l \in 1 .. Len(nds) : HasEntry(nds[l], m)
       \/ HasEntry(y, m)
  /\ IF st = << >> THEN y.header = 1 ELSE Child(a[st[Len(st)].header], a[y.header])

LEMMA NodeMade ==
  ASSUME archive \in Archives, NEW st \in Seq(DiskNode), NEW nds \in Seq(DiskNode), NEW y \in DiskNode,
         Len(nds) + 1 < FirstCapacity, ReadyFor(archive, st, nds, y), NEW cur \in Int, y.header < cur
  PROVE  LET new  == Append(nds, y)
             rest == WithEntry(st, Len(new), y.header)
         IN  /\ rest \in Seq(DiskNode) /\ Len(rest) = Len(st)
             /\ \A k \in 1 .. Len(st) : rest[k].header = st[k].header
             /\ Listed(archive, cur, rest, new)
<1> DEFINE a == archive
<1> DEFINE new == Append(nds, y)
<1> DEFINE m == Len(new)
<1> DEFINE h == y.header
<1> DEFINE rest == WithEntry(st, m, h)
<1>1. /\ new \in Seq(DiskNode) /\ m = Len(nds) + 1 /\ Len(nds) \in Nat
      /\ \A i \in 1 .. Len(nds) : new[i] = nds[i]
      /\ new[m] = y
  BY Appended
<1>2. /\ m \in 1 .. m /\ m < FirstCapacity /\ FirstCapacity \in Nat /\ Len(st) \in Nat
      /\ \A i \in 1 .. m : i \in 1 .. Len(nds) \/ i = m
      /\ \A i \in 1 .. Len(nds) : i \in 1 .. m
  BY <1>1, ArrayAssumption
<1> HIDE DEF new, m, rest
<1>3. ASSUME NEW x, HoldsKids(a, nds, x)
      PROVE  HoldsKids(a, new, x) /\ \A g : EntriesBefore(nds, x, g) => EntriesBefore(new, x, g)
  BY <1>3, KidsStay DEF new
<1>4. h \in 1 .. Len(a) /\ h \in Nat
  <2>1. h \in 1 .. Len(a)
    BY DEF ReadyFor, HoldsKids
  <2> QED BY <2>1, NodeFields
<1>5. st # << >> =>
        LET top == st[Len(st)]
            z   == WithKid(a, top, m, h)
        IN  /\ HoldsKids(a, new, z) /\ z.header = top.header /\ z \in DiskNode
            /\ HasEntry(z, m) /\ \A l : HasEntry(top, l) => HasEntry(z, l)
            /\ EntriesBefore(new, z, cur)
  <2> SUFFICES ASSUME st # << >>
               PROVE  LET top == st[Len(st)]
                          z   == WithKid(a, top, m, h)
                      IN  /\ HoldsKids(a, new, z) /\ z.header = top.header /\ z \in DiskNode
                          /\ HasEntry(z, m) /\ \A l : HasEntry(top, l) => HasEntry(z, l)
                          /\ EntriesBefore(new, z, cur)
    OBVIOUS
  <2> DEFINE top == st[Len(st)]
  <2>1. Len(st) \in 1 .. Len(st)
    BY <1>2
  <2>2. HoldsKids(a, nds, top) /\ EntriesBefore(nds, top, h) /\ Child(a[top.header], a[h])
    BY <2>1 DEF ReadyFor
  <2> HIDE DEF top
  <2>3. HoldsKids(a, new, top) /\ EntriesBefore(new, top, h)
    BY <1>3, <2>2
  <2>4. Len(top.entries.elems) < Len(new)
    <3>1. top \in DiskNode /\ Len(top.entries.elems) <= Len(nds)
      BY <2>2 DEF HoldsKids
    <3>2. Len(top.entries.elems) \in Nat
      BY <3>1, NodeFields
    <3> QED BY <1>1, <3>1, <3>2 DEF m
  <2>5. m \in 1 .. Len(new) /\ Len(new) < FirstCapacity /\ new[m].header = h
    BY <1>1, <1>2 DEF m
  <2> DEFINE z == WithKid(a, top, m, h)
  <2>6. /\ HoldsKids(a, new, z) /\ z.header = top.header
        /\ HasEntry(z, m) /\ \A l : HasEntry(top, l) => HasEntry(z, l)
        /\ \A g \in Int : h < g => EntriesBefore(new, z, g)
    <3>1. /\ new \in Seq(DiskNode) /\ h \in 1 .. Len(a) /\ new[m].header = h
          /\ Child(a[top.header], a[h]) /\ HoldsKids(a, new, top)
          /\ EntriesBefore(new, top, h) /\ Len(top.entries.elems) < Len(new) /\ Len(new) < FirstCapacity
          /\ m \in 1 .. Len(new) /\ a \in Archives
      BY <1>1, <1>4, <2>2, <2>3, <2>4, <2>5
    <3> HIDE DEF a, h
    <3> QED BY ONLY <3>1, EntryGrows
  <2>7. z \in DiskNode /\ EntriesBefore(new, z, cur)
    BY <2>6 DEF HoldsKids
  <2> QED BY <2>6, <2>7 DEF top
<1>6. st = << >> => rest = st
  BY DEF rest, WithEntry
<1>7. st # << >> => /\ rest \in Seq(DiskNode) /\ Len(rest) = Len(st)
                    /\ rest[Len(st)] = WithKid(a, st[Len(st)], m, h)
                    /\ \A k \in 1 .. Len(st) : k # Len(st) => rest[k] = st[k]
  BY <1>5, EntryGoesOnTop DEF rest
<1>8. rest \in Seq(DiskNode) /\ Len(rest) = Len(st)
  BY <1>6, <1>7
<1>9. ASSUME NEW k \in 1 .. Len(st)
      PROVE  /\ rest[k].header = st[k].header /\ HoldsKids(a, new, rest[k])
             /\ \A l : HasEntry(st[k], l) => HasEntry(rest[k], l)
             /\ k = Len(st) => EntriesBefore(new, rest[k], cur) /\ HasEntry(rest[k], m)
             /\ k # Len(st) => EntriesBefore(new, rest[k], st[k + 1].header)
  <2>1. st # << >>
    BY <1>2
  <2>2. CASE k = Len(st)
    BY <1>5, <1>7, <2>1, <2>2
  <2>3. CASE k # Len(st)
    <3>1. rest[k] = st[k]
      BY <1>7, <2>1, <2>3
    <3>2. HoldsKids(a, nds, st[k]) /\ EntriesBefore(nds, st[k], st[k + 1].header)
      BY <2>3 DEF ReadyFor
    <3> QED BY <1>3, <2>3, <3>1, <3>2
  <2> QED BY <2>2, <2>3
<1>10. ASSUME NEW i \in 1 .. m PROVE HoldsKids(a, new, new[i])
  <2>1. CASE i \in 1 .. Len(nds)
    BY <1>1, <1>3, <2>1 DEF ReadyFor
  <2>2. CASE i = m
    BY <1>1, <1>3, <2>2 DEF ReadyFor
  <2> QED BY <1>2, <2>1, <2>2
<1>11. ASSUME NEW k \in 1 .. Len(rest)
       PROVE  EntriesBefore(new, rest[k], IF k = Len(rest) THEN cur ELSE rest[k + 1].header)
  <2>1. k \in 1 .. Len(st) /\ Len(rest) = Len(st)
    BY <1>8
  <2>2. k # Len(st) => k + 1 \in 1 .. Len(st)
    BY <1>2, <2>1
  <2>3. k # Len(st) => rest[k + 1].header = st[k + 1].header
    BY <1>9, <2>2
  <2> QED BY <1>9, <2>1, <2>3
<1>12. ASSUME NEW i \in 1 .. m, new[i].header # 1
       PROVE  (\E k \in 1 .. Len(rest) : HasEntry(rest[k], i)) \/ (\E l \in 1 .. m : HasEntry(new[l], i))
  <2>1. CASE i = m
    <3>1. st # << >>
      BY <1>1, <1>12, <2>1 DEF ReadyFor
    <3>2. Len(st) \in 1 .. Len(st)
      BY <1>2, <3>1
    <3> QED BY <1>8, <1>9, <2>1, <3>2
  <2>2. CASE i \in 1 .. Len(nds)
    <3>1. \/ \E k \in 1 .. Len(st) : HasEntry(st[k], i)
          \/ \E l \in 1 .. Len(nds) : HasEntry(nds[l], i)
          \/ HasEntry(y, i)
      BY <1>1, <1>12, <2>2 DEF ReadyFor
    <3>2. CASE \E k \in 1 .. Len(st) : HasEntry(st[k], i)
      BY <1>8, <1>9, <3>2
    <3>3. CASE \E l \in 1 .. Len(nds) : HasEntry(nds[l], i)
      BY <1>1, <1>2, <3>3
    <3>4. CASE HasEntry(y, i)
      BY <1>1, <1>2, <3>4
    <3> QED BY <3>1, <3>2, <3>3, <3>4
  <2> QED BY <1>2, <2>1, <2>2
<1>13. Listed(a, cur, rest, new)
  BY <1>8, <1>9, <1>10, <1>11, <1>12 DEF Listed, m
<1> QED BY <1>8, <1>9, <1>13 DEF rest, m, new

-----------------------------------------------------------------------------
(* Only the headers of calls matter for where parseHeader stands.          *)
LEMMA SameHeaders ==
  ASSUME NEW a, NEW cur, NEW nds, NEW st \in Seq(DiskNode), NEW rest \in Seq(DiskNode),
         Len(rest) = Len(st), \A k \in 1 .. Len(st) : rest[k].header = st[k].header
  PROVE  /\ Parted(a, cur, st, nds) => Parted(a, cur, rest, nds)
         /\ Nested(a, st) => Nested(a, rest)
<1>1. Len(st) \in Nat
  OBVIOUS
<1>2. ASSUME Parted(a, cur, st, nds) PROVE Parted(a, cur, rest, nds)
  <2>1. \A k \in 1 .. Len(rest) : rest[k].header \in 1 .. cur - 1
    BY <1>2 DEF Parted
  <2>2. \A k \in 1 .. Len(rest), m \in 1 .. Len(nds) : rest[k].header # nds[m].header
    BY <1>2 DEF Parted
  <2>3. ASSUME NEW h \in 1 .. cur - 1
        PROVE  \/ \E k \in 1 .. Len(rest) : rest[k].header = h
               \/ \E m \in 1 .. Len(nds) : nds[m].header = h
    <3>1. \/ \E k \in 1 .. Len(st) : st[k].header = h
          \/ \E m \in 1 .. Len(nds) : nds[m].header = h
      BY <1>2 DEF Parted
    <3> QED BY <3>1
  <2>4. Len(nds) + Len(rest) = cur - 1
    BY <1>2 DEF Parted
  <2> QED BY <1>2, <2>1, <2>2, <2>3, <2>4 DEF Parted
<1>3. ASSUME Nested(a, st) PROVE Nested(a, rest)
  <2>1. rest # << >> => 1 \in 1 .. Len(st) /\ st # << >>
    BY <1>1
  <2>2. rest # << >> => rest[1].header = 1
    BY <1>3, <2>1 DEF Nested
  <2>3. ASSUME NEW k \in 2 .. Len(rest) PROVE Child(a[rest[k - 1].header], a[rest[k].header])
    <3>1. k \in 2 .. Len(st) /\ k \in 1 .. Len(st) /\ k - 1 \in 1 .. Len(st)
      BY <1>1
    <3> QED BY <1>3, <3>1 DEF Nested
  <2>4. \A k \in 1 .. Len(rest) : a[rest[k].header].dir
    BY <1>3 DEF Nested
  <2>5. \A j, k \in 1 .. Len(rest) : j < k => Len(a[rest[j].header].path) < Len(a[rest[k].header].path)
    BY <1>3 DEF Nested
  <2> QED BY <2>2, <2>3, <2>4, <2>5 DEF Nested
<1> QED BY <1>2, <1>3

(* The header that is below the last call's directory is an entry of it:   *)
(* its directory comes before it, has not been passed by, and is no other  *)
(* call's, which all have shorter paths.                                   *)
LEMMA ParentOnTop ==
  ASSUME NEW a \in Archives, NEW cur \in 2 .. Len(a), NEW st, NEW nds, st # << >>,
         Parted(a, cur, st, nds), Nested(a, st), Passed(a, cur, nds),
         IsStrictPrefix(a[st[Len(st)].header].path, a[cur].path)
  PROVE  Child(a[st[Len(st)].header], a[cur])
<1>1. /\ st \in Seq(DiskNode) /\ Len(st) \in 1 .. Len(st) /\ Len(st) \in Nat /\ Len(a) \in Nat
      /\ \A k \in 1 .. Len(st) : st[k].header \in 1 .. cur - 1
      /\ \A h \in 1 .. cur - 1 : \/ \E k \in 1 .. Len(st) : st[k].header = h
                                 \/ \E m \in 1 .. Len(nds) : nds[m].header = h
  <2>1. st \in Seq(DiskNode) /\ Len(a) \in Nat
    BY ArchiveFacts DEF Parted
  <2>2. Len(st) \in 1 .. Len(st) /\ Len(st) \in Nat
    BY <2>1
  <2> QED BY <2>1, <2>2 DEF Parted
<1>2. PICK j \in 1 .. cur - 1 : /\ Child(a[j], a[cur])
                                /\ \A k \in j + 1 .. cur - 1 : IsStrictPrefix(a[j].path, a[k].path)
  BY ArchiveFacts
<1>3. a[j] \in Header /\ a[cur] \in Header /\ cur <= Len(a)
  BY <1>1, ArchiveFacts
<1>4. /\ IsStrictPrefix(a[j].path, a[cur].path) /\ Len(a[cur].path) = Len(a[j].path) + 1 /\ a[j].dir
      /\ Len(a[j].path) \in Nat /\ a[j].path \in Seq(Names) /\ a[cur].path \in Seq(Names)
  <2>1. a[j].path \in Seq(Names) /\ a[cur].path \in Seq(Names)
    BY <1>3 DEF Header
  <2> QED BY <1>2, <1>3, <2>1, ChildFacts
<1>5. ASSUME NEW m \in 1 .. Len(nds), nds[m].header = j PROVE FALSE
  <2>1. PassedBy(a, cur, j)
    BY <1>4, <1>5 DEF Passed
  <2>2. PICK c \in j + 1 .. cur : ~IsStrictPrefix(a[j].path, a[c].path)
    BY <1>1, <1>3, <2>1 DEF PassedBy
  <2>3. c = cur \/ c \in j + 1 .. cur - 1
    BY <1>2, <2>2
  <2> QED BY <1>2, <1>4, <2>2, <2>3
<1>6. PICK k \in 1 .. Len(st) : st[k].header = j
  BY <1>1, <1>5
<1> DEFINE t == st[Len(st)].header
<1>7. t \in 1 .. cur - 1 /\ a[t] \in Header
  <2>1. t \in 1 .. cur - 1
    BY <1>1
  <2>2. t \in 1 .. Len(a)
    BY <1>1, <2>1
  <2> QED BY <2>1, <2>2, ArchiveFacts
<1>8. Len(a[t].path) < Len(a[cur].path) /\ Len(a[t].path) \in Nat
  <2>1. a[t].path \in Seq(Names)
    BY <1>7 DEF Header
  <2> HIDE DEF t
  <2> QED BY <1>4, <2>1, StrictPrefixIs DEF t
<1>9. k = Len(st)
  <2>1. SUFFICES ASSUME k < Len(st) PROVE FALSE
    BY <1>1
  <2>2. Len(a[j].path) < Len(a[t].path)
    BY <1>1, <1>6, <2>1 DEF Nested
  <2> HIDE DEF t
  <2>3. PICK lj \in Nat, lt \in Nat : lj = Len(a[j].path) /\ lt = Len(a[t].path)
    BY <1>4, <1>8
  <2>4. PICK lc : lc = Len(a[cur].path)
    OBVIOUS
  <2>5. lc = lj + 1
    BY <1>4, <2>3, <2>4
  <2>6. lj < lt /\ lt < lc
    BY <1>8, <2>2, <2>3, <2>4
  <2> QED BY ONLY <2>3, <2>5, <2>6
<1> QED BY <1>2, <1>6, <1>9

LEMMA StillPassed ==
  ASSUME NEW a, NEW cur \in Int, NEW nds, Len(a) \in Nat,
         \A m \in 1 .. Len(nds) : nds[m].header \in Nat, Passed(a, cur, nds)
  PROVE  Passed(a, cur + 1, nds)
<1> SUFFICES ASSUME NEW m \in 1 .. Len(nds), a[nds[m].header].dir
             PROVE  PassedBy(a, cur + 1, nds[m].header)
  BY DEF Passed
<1>1. PICK h \in Nat : h = nds[m].header
  OBVIOUS
<1>2. PassedBy(a, cur, h)
  BY <1>1 DEF Passed
<1>3. CASE cur > Len(a)
  BY <1>1, <1>3 DEF PassedBy
<1>4. CASE \E c \in h + 1 .. cur : ~IsStrictPrefix(a[h].path, a[c].path)
  <2>1. PICK c \in h + 1 .. cur : ~IsStrictPrefix(a[h].path, a[c].path)
    BY <1>4
  <2>2. c \in h + 1 .. cur + 1
    BY <2>1
  <2> QED BY <1>1, <2>1, <2>2 DEF PassedBy
<1> QED BY <1>2, <1>3, <1>4 DEF PassedBy

LEMMA EmptyList ==
  ASSUME NEW a \in Archives, NEW h \in 1 .. Len(a), NEW nds \in Seq(DiskNode)
  PROVE  LET y == [header |-> h, entries |-> EmptyArray]
         IN  /\ y \in DiskNode /\ HoldsKids(a, nds, y) /\ \A g : EntriesBefore(nds, y, g)
<1> DEFINE y == [header |-> h, entries |-> EmptyArray]
<1>1. h \in Nat /\ FirstCapacity \in Nat /\ Len(nds) \in Nat
  BY ArchiveFacts, ArrayAssumption
<1>2. EmptyArray = [elems |-> << >>, capacity |-> FirstCapacity] /\ << >> \in Seq(DirEntry \cup {Junk})
  BY DEF EmptyArray
<1>3. /\ y \in DiskNode /\ y.header = h /\ y.entries.capacity = FirstCapacity
      /\ y.entries.elems = << >> /\ Len(y.entries.elems) = 0 /\ Len(y.entries.elems) <= Len(nds)
  BY <1>1, <1>2 DEF DiskNode
<1> HIDE DEF y
<1>4. 1 .. Len(y.entries.elems) = {}
  BY <1>3
<1>5. HoldsKids(a, nds, y) /\ \A g : EntriesBefore(nds, y, g)
  BY <1>3, <1>4 DEF HoldsKids, EntriesBefore
<1> QED BY <1>3, <1>5 DEF y

LEMMA FrontFacts ==
  ASSUME NEW S, NEW s \in Seq(S), s # << >>
  PROVE  /\ Len(s) \in Nat /\ Len(s) >= 1 /\ s[Len(s)] \in S
         /\ Front(s) \in Seq(S) /\ Len(Front(s)) = Len(s) - 1
         /\ \A k \in 1 .. Len(s) - 1 : Front(s)[k] = s[k]
<1>1. Len(s) \in Nat /\ Len(s) >= 1 /\ Len(s) \in 1 .. Len(s)
  OBVIOUS
<1>2. s[Len(s)] \in S
  BY <1>1
<1>3. Front(s) \in Seq(S) /\ Len(Front(s)) = Len(s) - 1
  <2>1. PICK n \in Int : n = Len(s) - 1 /\ n >= 0
    BY <1>1
  <2>2. \A i \in 1 .. n : s[i] \in S
    BY <1>1, <2>1
  <2>3. /\ SubSeq(s, 1, n) \in Seq(S)
        /\ Len(SubSeq(s, 1, n)) = IF 1 <= n THEN (n - 1) + 1 ELSE 0
    BY <2>2, SubSeqProperties
  <2>4. Len(SubSeq(s, 1, n)) = n
    <3>1. CASE 1 <= n
      BY <2>1, <2>3, <3>1
    <3>2. CASE ~(1 <= n)
      BY <2>1, <2>3, <3>2
    <3> QED BY <3>1, <3>2
  <2> QED BY <2>1, <2>3, <2>4 DEF Front
<1>4. \A k \in 1 .. Len(s) - 1 : Front(s)[k] = s[k]
  BY <1>1 DEF Front
<1> QED BY <1>1, <1>2, <1>3, <1>4

LEMMA PartedFacts ==
  ASSUME NEW a \in Archives, NEW cur, NEW st, NEW nds, Parted(a, cur, st, nds)
  PROVE  /\ Len(a) \in Nat \ {0} /\ Len(st) \in Nat /\ Len(nds) \in Nat /\ cur \in 1 .. Len(a) + 1
         /\ st \in Seq(DiskNode) /\ nds \in Seq(DiskNode) /\ cur \in Nat
         /\ Len(nds) + Len(st) = cur - 1
         /\ \A k \in 1 .. Len(st) : st[k] \in DiskNode /\ st[k].header \in 1 .. cur - 1
         /\ \A m \in 1 .. Len(nds) : nds[m] \in DiskNode /\ nds[m].header \in 1 .. cur - 1
         /\ st # << >> => Len(st) \in 1 .. Len(st)
<1>1. Len(a) \in Nat \ {0}
  BY ArchiveFacts
<1>2. cur \in 1 .. Len(a) + 1 /\ st \in Seq(DiskNode) /\ nds \in Seq(DiskNode)
  BY DEF Parted
<1>3. Len(st) \in Nat /\ Len(nds) \in Nat /\ cur \in Nat /\ (st # << >> => Len(st) \in 1 .. Len(st))
  BY <1>1, <1>2
<1>4. \A k \in 1 .. Len(st) : st[k] \in DiskNode
  BY <1>2
<1>5. \A m \in 1 .. Len(nds) : nds[m] \in DiskNode
  BY <1>2
<1> QED BY <1>1, <1>2, <1>3, <1>4, <1>5 DEF Parted

(* A call begins for the header under the cursor.                          *)
LEMMA PartedOpen ==
  ASSUME NEW a \in Archives, NEW cur, NEW st, NEW nds, Parted(a, cur, st, nds), cur <= Len(a),
         NEW y \in DiskNode, y.header = cur
  PROVE  Parted(a, cur + 1, Append(st, y), nds)
<1> DEFINE new == Append(st, y)
<1>1. /\ Len(a) \in Nat \ {0} /\ Len(st) \in Nat /\ Len(nds) \in Nat /\ cur \in 1 .. Len(a) + 1
      /\ st \in Seq(DiskNode) /\ nds \in Seq(DiskNode) /\ cur \in Nat
      /\ Len(nds) + Len(st) = cur - 1
      /\ \A k \in 1 .. Len(st) : st[k].header \in 1 .. cur - 1
      /\ \A m \in 1 .. Len(nds) : nds[m].header \in 1 .. cur - 1
  BY PartedFacts
<1>2. /\ new \in Seq(DiskNode) /\ Len(new) = Len(st) + 1
      /\ \A k \in 1 .. Len(st) : new[k] = st[k]
      /\ new[Len(st) + 1] = y
  BY <1>1, Appended
<1> HIDE DEF new
<1>12. PICK p \in Nat : p = cur + 1 /\ p - 1 = cur
  BY <1>1
<1>3. ASSUME NEW k \in 1 .. Len(new)
      PROVE  \/ k \in 1 .. Len(st) /\ new[k] = st[k]
             \/ k = Len(st) + 1 /\ new[k].header = cur
  BY <1>1, <1>2
<1>4. \A h \in 1 .. cur - 1 : h \in 1 .. p - 1 /\ h # cur
  BY <1>1, <1>12
<1>5. cur \in 1 .. p - 1 /\ p \in 1 .. Len(a) + 1 /\ Len(nds) + Len(new) = p - 1
  BY <1>1, <1>2, <1>12
<1>6. \A k \in 1 .. Len(new) : new[k].header \in 1 .. p - 1
  BY <1>1, <1>3, <1>4, <1>5
<1>7. \A m \in 1 .. Len(nds) : nds[m].header \in 1 .. p - 1
  BY <1>1, <1>4
<1>8. ASSUME NEW k \in 1 .. Len(new), NEW m \in 1 .. Len(nds) PROVE new[k].header # nds[m].header
  <2>1. nds[m].header # cur
    BY <1>1, <1>4
  <2>2. \A i \in 1 .. Len(st) : st[i].header # nds[m].header
    BY DEF Parted
  <2> QED BY <1>3, <2>1, <2>2
<1>9. ASSUME NEW h \in 1 .. p - 1
      PROVE  (\E k \in 1 .. Len(new) : new[k].header = h) \/ (\E m \in 1 .. Len(nds) : nds[m].header = h)
  <2>1. CASE h = cur
    <3>1. Len(st) + 1 \in 1 .. Len(new)
      BY <1>1, <1>2
    <3> QED BY <1>2, <2>1, <3>1
  <2>2. CASE h \in 1 .. cur - 1
    <3>1. (\E k \in 1 .. Len(st) : st[k].header = h) \/ (\E m \in 1 .. Len(nds) : nds[m].header = h)
      BY <2>2 DEF Parted
    <3>2. \A k \in 1 .. Len(st) : k \in 1 .. Len(new) /\ new[k] = st[k]
      BY <1>1, <1>2
    <3> QED BY <3>1, <3>2
  <2> QED BY <1>1, <1>12, <2>1, <2>2
<1>10. \A l, m \in 1 .. Len(nds) : nds[l].header = nds[m].header => l = m
  BY DEF Parted
<1>11. new \in Seq(DiskNode) /\ nds \in Seq(DiskNode) /\ cur \in Nat
  BY <1>1, <1>2
<1>13. Parted(a, p, new, nds)
  BY ONLY <1>5, <1>6, <1>7, <1>8, <1>9, <1>10, <1>11 DEF Parted
<1> QED BY <1>12, <1>13 DEF new

(* A node is made for the header under the cursor.                         *)
LEMMA PartedAdd ==
  ASSUME NEW a \in Archives, NEW cur, NEW st, NEW nds, Parted(a, cur, st, nds), cur <= Len(a),
         NEW y \in DiskNode, y.header = cur
  PROVE  Parted(a, cur + 1, st, Append(nds, y))
<1> DEFINE new == Append(nds, y)
<1>1. /\ Len(a) \in Nat \ {0} /\ Len(st) \in Nat /\ Len(nds) \in Nat /\ cur \in 1 .. Len(a) + 1
      /\ st \in Seq(DiskNode) /\ nds \in Seq(DiskNode) /\ cur \in Nat
      /\ Len(nds) + Len(st) = cur - 1
      /\ \A k \in 1 .. Len(st) : st[k].header \in 1 .. cur - 1
      /\ \A m \in 1 .. Len(nds) : nds[m].header \in 1 .. cur - 1
  BY PartedFacts
<1>2. /\ new \in Seq(DiskNode) /\ Len(new) = Len(nds) + 1
      /\ \A k \in 1 .. Len(nds) : new[k] = nds[k]
      /\ new[Len(nds) + 1] = y
  BY <1>1, Appended
<1> HIDE DEF new
<1>12. PICK p \in Nat : p = cur + 1 /\ p - 1 = cur
  BY <1>1
<1>3. ASSUME NEW k \in 1 .. Len(new)
      PROVE  \/ k \in 1 .. Len(nds) /\ new[k] = nds[k]
             \/ k = Len(nds) + 1 /\ new[k].header = cur
  BY <1>1, <1>2
<1>4. \A h \in 1 .. cur - 1 : h \in 1 .. p - 1 /\ h # cur
  BY <1>1, <1>12
<1>5. cur \in 1 .. p - 1 /\ p \in 1 .. Len(a) + 1 /\ Len(new) + Len(st) = p - 1
  BY <1>1, <1>2, <1>12
<1>6. \A k \in 1 .. Len(new) : new[k].header \in 1 .. p - 1
  BY <1>1, <1>3, <1>4, <1>5
<1>7. \A k \in 1 .. Len(st) : st[k].header \in 1 .. p - 1
  BY <1>1, <1>4
<1>8. ASSUME NEW k \in 1 .. Len(st), NEW m \in 1 .. Len(new) PROVE st[k].header # new[m].header
  <2>1. st[k].header # cur
    BY <1>1, <1>4
  <2> QED BY <1>3, <2>1 DEF Parted
<1>9. ASSUME NEW h \in 1 .. p - 1
      PROVE  (\E k \in 1 .. Len(st) : st[k].header = h) \/ (\E m \in 1 .. Len(new) : new[m].header = h)
  <2>1. CASE h = cur
    <3>1. Len(nds) + 1 \in 1 .. Len(new)
      BY <1>1, <1>2
    <3> QED BY <1>2, <2>1, <3>1
  <2>2. CASE h \in 1 .. cur - 1
    <3>1. (\E k \in 1 .. Len(st) : st[k].header = h) \/ (\E m \in 1 .. Len(nds) : nds[m].header = h)
      BY <2>2 DEF Parted
    <3>2. \A k \in 1 .. Len(nds) : k \in 1 .. Len(new) /\ new[k] = nds[k]
      BY <1>1, <1>2
    <3> QED BY <3>1, <3>2
  <2> QED BY <1>1, <1>12, <2>1, <2>2
<1>10. ASSUME NEW l \in 1 .. Len(new), NEW m \in 1 .. Len(new), new[l].header = new[m].header
       PROVE  l = m
  <2>1. \A i \in 1 .. Len(nds) : nds[i].header # cur
    BY <1>1, <1>4
  <2> QED BY <1>3, <1>10, <2>1 DEF Parted
<1>11. new \in Seq(DiskNode) /\ st \in Seq(DiskNode) /\ cur \in Nat
  BY <1>1, <1>2
<1>13. Parted(a, p, st, new)
  BY ONLY <1>5, <1>6, <1>7, <1>8, <1>9, <1>10, <1>11 DEF Parted
<1> QED BY <1>12, <1>13 DEF new

(* The last call returns with a node for its header.                       *)
LEMMA PartedClose ==
  ASSUME NEW a \in Archives, NEW cur, NEW st, NEW nds, Parted(a, cur, st, nds), Nested(a, st), st # << >>
  PROVE  Parted(a, cur, Front(st), Append(nds, st[Len(st)]))
<1> DEFINE y == st[Len(st)]
<1> DEFINE new == Append(nds, y)
<1> DEFINE rest == Front(st)
<1>1. /\ Len(a) \in Nat \ {0} /\ Len(st) \in Nat /\ Len(nds) \in Nat /\ cur \in 1 .. Len(a) + 1
      /\ st \in Seq(DiskNode) /\ nds \in Seq(DiskNode) /\ cur \in Nat
      /\ Len(nds) + Len(st) = cur - 1 /\ Len(st) \in 1 .. Len(st)
      /\ \A k \in 1 .. Len(st) : st[k].header \in 1 .. cur - 1
      /\ \A m \in 1 .. Len(nds) : nds[m].header \in 1 .. cur - 1
  BY PartedFacts
<1>2. /\ rest \in Seq(DiskNode) /\ Len(rest) = Len(st) - 1
      /\ \A k \in 1 .. Len(st) - 1 : rest[k] = st[k] /\ k \in 1 .. Len(st)
  <2>1. \A k \in 1 .. Len(st) - 1 : k \in 1 .. Len(st)
    BY <1>1
  <2> QED BY <1>1, <2>1, FrontFacts
<1>3. y \in DiskNode
  BY <1>1
<1>4. /\ new \in Seq(DiskNode) /\ Len(new) = Len(nds) + 1
      /\ \A k \in 1 .. Len(nds) : new[k] = nds[k]
      /\ new[Len(nds) + 1] = y
  BY <1>1, <1>3, Appended
<1> HIDE DEF new, rest
<1>5. ASSUME NEW k \in 1 .. Len(new)
      PROVE  \/ k \in 1 .. Len(nds) /\ new[k] = nds[k]
             \/ k = Len(nds) + 1 /\ new[k] = y
  BY <1>1, <1>4
<1>6. Len(new) + Len(rest) = cur - 1
  BY <1>1, <1>2, <1>4
<1>7. \A k \in 1 .. Len(new) : new[k].header \in 1 .. cur - 1
  BY <1>1, <1>5
<1>8. \A k \in 1 .. Len(rest) : rest[k].header \in 1 .. cur - 1
  BY <1>1, <1>2
<1>9. ASSUME NEW k \in 1 .. Len(st) - 1 PROVE st[k].header # y.header
  <2>1. st[k].header \in 1 .. cur - 1 /\ k \in 1 .. Len(st) /\ k < Len(st)
    BY <1>1
  <2>2. Len(a[st[k].header].path) < Len(a[y.header].path)
    BY <1>1, <2>1 DEF Nested
  <2>3. a[y.header].path \in Seq(Names)
    <3>1. y.header \in 1 .. cur - 1
      BY <1>1
    <3>2. y.header \in 1 .. Len(a)
      BY <1>1, <3>1
    <3> QED BY <3>2, ArchiveFacts
  <2>4. Len(a[y.header].path) \in Nat
    BY <2>3
  <2> QED BY <2>2, <2>4
<1>10. ASSUME NEW k \in 1 .. Len(rest), NEW m \in 1 .. Len(new) PROVE rest[k].header # new[m].header
  <2>1. k \in 1 .. Len(st) /\ k \in 1 .. Len(st) - 1 /\ rest[k] = st[k]
    BY <1>2
  <2>2. CASE m \in 1 .. Len(nds) /\ new[m] = nds[m]
    BY <2>1, <2>2 DEF Parted
  <2>3. CASE new[m] = y
    BY <1>9, <2>1, <2>3
  <2> QED BY <1>5, <2>2, <2>3
<1>11. ASSUME NEW h \in 1 .. cur - 1
       PROVE  (\E k \in 1 .. Len(rest) : rest[k].header = h) \/ (\E m \in 1 .. Len(new) : new[m].header = h)
  <2>1. CASE \E m \in 1 .. Len(nds) : nds[m].header = h
    <3>1. \A k \in 1 .. Len(nds) : k \in 1 .. Len(new) /\ new[k] = nds[k]
      BY <1>1, <1>4
    <3> QED BY <2>1, <3>1
  <2>2. CASE \E k \in 1 .. Len(st) : st[k].header = h
    <3>1. PICK k \in 1 .. Len(st) : st[k].header = h
      BY <2>2
    <3>2. CASE k = Len(st)
      <4>1. Len(nds) + 1 \in 1 .. Len(new)
        BY <1>1, <1>4
      <4> QED BY <1>4, <3>1, <3>2, <4>1
    <3>3. CASE k # Len(st)
      <4>1. k \in 1 .. Len(rest) /\ k \in 1 .. Len(st) - 1
        BY <1>1, <1>2, <3>3
      <4> QED BY <1>2, <3>1, <4>1
    <3> QED BY <3>2, <3>3
  <2> QED BY <2>1, <2>2 DEF Parted
<1>12. ASSUME NEW l \in 1 .. Len(new), NEW m \in 1 .. Len(new), new[l].header = new[m].header
       PROVE  l = m
  <2>1. \A i \in 1 .. Len(nds) : nds[i].header # y.header
    BY <1>1 DEF Parted
  <2> QED BY <1>5, <1>12, <2>1 DEF Parted
<1>13. new \in Seq(DiskNode) /\ rest \in Seq(DiskNode) /\ cur \in 1 .. Len(a) + 1
  BY <1>1, <1>2, <1>4
<1> QED BY ONLY <1>6, <1>7, <1>8, <1>10, <1>11, <1>12, <1>13 DEF Parted, new, rest

-----------------------------------------------------------------------------
(* The steps of parseHeader.                                               *)
LEMMA DiskFacts ==
  ASSUME DiskInv
  PROVE  /\ archive \in Archives /\ Len(archive) \in Nat \ {0}
         /\ parsing \in Seq(DiskNode) /\ nodes.elems \in Seq(DiskNode)
         /\ Len(parsing) \in Nat /\ Len(nodes.elems) \in Nat /\ cursor \in Nat
         /\ cursor \in 1 .. Len(archive) + 1 /\ Len(nodes.elems) + Len(parsing) = cursor - 1
         /\ nodes = [elems |-> nodes.elems, capacity |-> FirstCapacity]
         /\ parsing # << >> => /\ Len(parsing) \in 1 .. Len(parsing) /\ 1 \in 1 .. Len(parsing)
                               /\ Top \in DiskNode /\ Top.header \in 1 .. cursor - 1
                               /\ Top.header \in 1 .. Len(archive) /\ cursor >= 2
         /\ SmallDisks /\ parsing # << >> => Len(nodes.elems) + 1 < FirstCapacity
<1>1. /\ archive \in Archives /\ Parted(archive, cursor, parsing, nodes.elems)
      /\ nodes \in [elems : Seq(DiskNode), capacity : {FirstCapacity}]
  BY DEF DiskInv
<1>2. /\ Len(archive) \in Nat \ {0} /\ Len(parsing) \in Nat /\ Len(nodes.elems) \in Nat
      /\ cursor \in 1 .. Len(archive) + 1 /\ cursor \in Nat
      /\ parsing \in Seq(DiskNode) /\ nodes.elems \in Seq(DiskNode)
      /\ Len(nodes.elems) + Len(parsing) = cursor - 1
      /\ \A k \in 1 .. Len(parsing) : parsing[k] \in DiskNode /\ parsing[k].header \in 1 .. cursor - 1
  BY <1>1, PartedFacts
<1>3. nodes = [elems |-> nodes.elems, capacity |-> FirstCapacity]
  BY <1>1
<1>4. ASSUME parsing # << >>
      PROVE  /\ Len(parsing) \in 1 .. Len(parsing) /\ 1 \in 1 .. Len(parsing) /\ Len(parsing) >= 1
             /\ Top \in DiskNode /\ Top.header \in 1 .. cursor - 1
             /\ Top.header \in 1 .. Len(archive) /\ cursor >= 2
  <2>1. Len(parsing) \in 1 .. Len(parsing) /\ 1 \in 1 .. Len(parsing) /\ Len(parsing) >= 1
    BY <1>2, <1>4
  <2>2. Top \in DiskNode /\ Top.header \in 1 .. cursor - 1
    BY <1>2, <2>1 DEF Top
  <2>3. Top.header \in 1 .. Len(archive) /\ cursor >= 2
    BY <1>2, <2>2
  <2> QED BY <2>1, <2>2, <2>3
<1>5. ASSUME SmallDisks, parsing # << >> PROVE Len(nodes.elems) + 1 < FirstCapacity
  <2>1. Len(archive) < FirstCapacity /\ FirstCapacity \in Nat
    BY <1>1, <1>5, ArrayAssumption DEF SmallDisks
  <2>2. Len(parsing) >= 1
    BY <1>4, <1>5
  <2> QED BY <1>2, <2>1, <2>2
<1> QED BY <1>1, <1>2, <1>3, <1>4, <1>5

LEMMA InTopIsChild ==
  ASSUME DiskInv, parsing # << >>, InTop
  PROVE  cursor \in 2 .. Len(archive) /\ Child(archive[Top.header], archive[cursor])
<1>1. cursor \in 2 .. Len(archive)
  BY DiskFacts DEF InTop
<1> QED BY <1>1, ParentOnTop DEF DiskInv, InTop, Top

LEMMA OpenKeeps ==
  ASSUME DiskInv, OpenDirectory
  PROVE  DiskInv'
<1> DEFINE a == archive
<1> DEFINE cur == cursor
<1> DEFINE st == parsing
<1> DEFINE nds == nodes.elems
<1> DEFINE y == [header |-> cur, entries |-> EmptyArray]
<1> DEFINE new == Append(st, y)
<1>1. /\ a \in Archives /\ Len(a) \in Nat \ {0} /\ st \in Seq(DiskNode) /\ nds \in Seq(DiskNode)
      /\ Len(st) \in Nat /\ cur \in Nat /\ cur \in 1 .. Len(a) + 1
  BY DiskFacts
<1>2. IF st = << >> THEN cur = 1 ELSE cur \in 2 .. Len(a) /\ Child(a[Top.header], a[cur])
  BY InTopIsChild DEF OpenDirectory
<1>3. cur \in 1 .. Len(a) /\ cur <= Len(a) /\ a[cur].dir /\ y.header = cur
  BY <1>1, <1>2 DEF OpenDirectory
<1>4. y \in DiskNode /\ HoldsKids(a, nds, y) /\ EntriesBefore(nds, y, cur + 1)
  BY <1>1, <1>3, EmptyList
<1>5. archive' = a /\ cursor' = cur + 1 /\ parsing' = new /\ nodes' = nodes
  BY DEF OpenDirectory
<1>6. y.header = cur
  OBVIOUS
<1> HIDE DEF y
<1>7. /\ new \in Seq(DiskNode) /\ Len(new) = Len(st) + 1 /\ new # << >>
      /\ \A k \in 1 .. Len(st) : new[k] = st[k]
      /\ new[Len(st) + 1] = y
  BY <1>1, <1>4, Appended
<1>8. /\ Parted(a, cur, st, nds) /\ Nested(a, st) /\ Passed(a, cur, nds) /\ Listed(a, cur, st, nds)
      /\ nodes \in [elems : Seq(DiskNode), capacity : {FirstCapacity}]
  BY DEF DiskInv
<1>9. Parted(a, cur + 1, new, nds)
  BY <1>1, <1>3, <1>4, <1>6, <1>8, PartedOpen
<1> HIDE DEF new
<1>10. ASSUME NEW k \in 1 .. Len(new)
       PROVE  \/ k \in 1 .. Len(st) /\ new[k] = st[k]
              \/ k = Len(st) + 1 /\ new[k] = y
  BY <1>1, <1>7
<1>11. /\ \A k \in 1 .. Len(st) : a[st[k].header].path \in Seq(Names)
       /\ a[cur].path \in Seq(Names)
  <2>1. \A k \in 1 .. Len(st) : st[k].header \in 1 .. cur - 1
    BY <1>8 DEF Parted
  <2>2. \A k \in 1 .. Len(st) : st[k].header \in 1 .. Len(a)
    BY <1>1, <1>3, <2>1
  <2> QED BY <1>1, <1>3, <2>2, ArchiveFacts
<1>12. Nested(a, new)
  <2>1. new[1].header = 1
    <3>1. CASE st = << >>
      BY <1>2, <1>6, <1>7, <3>1
    <3>2. CASE st # << >>
      <4>1. 1 \in 1 .. Len(st) /\ st[1].header = 1
        BY <1>1, <1>8, <3>2 DEF Nested
      <4> QED BY <1>7, <4>1
    <3> QED BY <3>1, <3>2
  <2>2. \A k \in 1 .. Len(new) : a[new[k].header].dir
    BY <1>3, <1>6, <1>8, <1>10 DEF Nested
  <2>3. ASSUME NEW k \in 2 .. Len(new) PROVE Child(a[new[k - 1].header], a[new[k].header])
    <3>1. k \in 1 .. Len(new) /\ k - 1 \in 1 .. Len(st)
      BY <1>1, <1>7
    <3>2. new[k - 1] = st[k - 1]
      BY <1>7, <3>1
    <3>3. CASE k \in 1 .. Len(st) /\ new[k] = st[k]
      <4>1. k \in 2 .. Len(st)
        BY <1>1, <3>3
      <4> QED BY <1>8, <3>2, <3>3, <4>1 DEF Nested
    <3>4. CASE k = Len(st) + 1 /\ new[k] = y
      <4>1. k - 1 = Len(st) /\ st # << >>
        BY <1>1, <3>1, <3>4
      <4>2. st[k - 1].header = Top.header
        BY <4>1 DEF Top
      <4> QED BY <1>2, <1>6, <3>2, <3>4, <4>1, <4>2
    <3> QED BY <1>10, <3>1, <3>3, <3>4
  <2>4. ASSUME NEW j \in 1 .. Len(new), NEW k \in 1 .. Len(new), j < k
        PROVE  Len(a[new[j].header].path) < Len(a[new[k].header].path)
    <3>1. j \in 1 .. Len(st) /\ new[j] = st[j]
      BY <1>1, <1>7, <2>4
    <3>2. CASE k \in 1 .. Len(st) /\ new[k] = st[k]
      BY <1>8, <2>4, <3>1, <3>2 DEF Nested
    <3>3. CASE k = Len(st) + 1 /\ new[k] = y
      <4>1. st # << >> /\ Len(st) \in 1 .. Len(st) /\ (j = Len(st) \/ j < Len(st))
        BY <1>1, <3>1
      <4>2. PICK t \in 1 .. Len(a) : t = st[Len(st)].header
        BY DiskFacts, <4>1 DEF Top
      <4>3. Len(a[cur].path) = Len(a[t].path) + 1
        BY <1>2, <4>1, <4>2 DEF Child, Top
      <4>4. Len(a[t].path) \in Nat /\ Len(a[st[j].header].path) \in Nat
        <5>1. a[t].path \in Seq(Names) /\ a[st[j].header].path \in Seq(Names)
          BY <1>11, <3>1, <4>1, <4>2
        <5> QED BY <5>1
      <4>5. j < Len(st) => Len(a[st[j].header].path) < Len(a[t].path)
        BY <1>8, <3>1, <4>1, <4>2 DEF Nested
      <4>6. PICK lt \in Nat, lj \in Nat : lt = Len(a[t].path) /\ lj = Len(a[st[j].header].path)
        BY <4>4
      <4>7. lj <= lt
        <5>1. CASE j < Len(st)
          BY <4>5, <4>6, <5>1
        <5>2. CASE j = Len(st)
          BY <4>2, <4>6, <5>2
        <5> QED BY <4>1, <5>1, <5>2
      <4>8. PICK lc : lc = Len(a[cur].path)
        OBVIOUS
      <4>9. lc = lt + 1
        BY ONLY <4>3, <4>6, <4>8
      <4>10. lj < lc
        <5>1. lj \in Nat /\ lt \in Nat
          BY <4>6
        <5> QED BY ONLY <5>1, <4>7, <4>9
      <4>11. Len(a[st[j].header].path) < Len(a[cur].path)
        BY ONLY <4>6, <4>8, <4>10
      <4> QED BY <1>6, <3>1, <3>3, <4>11
    <3> QED BY <1>10, <3>2, <3>3
  <2> QED BY <2>1, <2>2, <2>3, <2>4 DEF Nested
<1>13. Passed(a, cur + 1, nds)
  <2>1. \A m \in 1 .. Len(nds) : nds[m] \in DiskNode
    BY <1>1
  <2>2. \A m \in 1 .. Len(nds) : nds[m].header \in Nat
    BY <2>1, NodeFields
  <2> QED BY <1>1, <1>8, <2>2, StillPassed
<1>14. Listed(a, cur + 1, new, nds)
  <2>1. \A k \in 1 .. Len(new) : HoldsKids(a, nds, new[k])
    BY <1>4, <1>8, <1>10 DEF Listed
  <2>2. ASSUME NEW k \in 1 .. Len(new)
        PROVE  EntriesBefore(nds, new[k], IF k = Len(new) THEN cur + 1 ELSE new[k + 1].header)
    <3>1. CASE k = Len(st) + 1 /\ new[k] = y
      BY <1>4, <1>7, <3>1
    <3>2. CASE k \in 1 .. Len(st) /\ new[k] = st[k]
      <4>1. k # Len(new)
        BY <1>1, <1>7, <3>2
      <4>2. CASE k = Len(st)
        <5>1. new[k + 1].header = cur
          BY <1>6, <1>7, <4>2
        <5>2. EntriesBefore(nds, st[k], cur)
          BY <1>8, <3>2, <4>2 DEF Listed
        <5> QED BY <3>2, <4>1, <5>1, <5>2
      <4>3. CASE k # Len(st)
        <5>1. k + 1 \in 1 .. Len(st)
          BY <1>1, <3>2, <4>3
        <5>2. new[k + 1] = st[k + 1]
          BY <1>7, <5>1
        <5>3. EntriesBefore(nds, st[k], st[k + 1].header)
          BY <1>8, <3>2, <4>3 DEF Listed
        <5> QED BY <3>2, <4>1, <5>2, <5>3
      <4> QED BY <4>2, <4>3
    <3> QED BY <1>10, <3>1, <3>2
  <2>3. ASSUME NEW m \in 1 .. Len(nds), nds[m].header # 1
        PROVE  (\E k \in 1 .. Len(new) : HasEntry(new[k], m)) \/ (\E l \in 1 .. Len(nds) : HasEntry(nds[l], m))
    <3>1. (\E k \in 1 .. Len(st) : HasEntry(st[k], m)) \/ (\E l \in 1 .. Len(nds) : HasEntry(nds[l], m))
      BY <1>8, <2>3 DEF Listed
    <3>2. \A k \in 1 .. Len(st) : k \in 1 .. Len(new) /\ new[k] = st[k]
      BY <1>1, <1>7
    <3> QED BY <3>1, <3>2
  <2>4. \A m \in 1 .. Len(nds) : HoldsKids(a, nds, nds[m])
    BY <1>8 DEF Listed
  <2> QED BY <2>1, <2>2, <2>3, <2>4 DEF Listed
<1>15. Finished(a, cur + 1, new, nds)
  BY <1>7 DEF Finished
<1> QED BY <1>1, <1>5, <1>8, <1>9, <1>12, <1>13, <1>14, <1>15 DEF DiskInv

LEMMA AddKeeps ==
  ASSUME SmallDisks, DiskInv, AddFile
  PROVE  DiskInv'
<1> DEFINE a == archive
<1> DEFINE cur == cursor
<1> DEFINE st == parsing
<1> DEFINE nds == nodes.elems
<1> DEFINE y == [header |-> cur, entries |-> EmptyArray]
<1> DEFINE new == Append(nds, y)
<1> DEFINE rest == WithEntry(st, Len(new), cur)
<1>1. /\ a \in Archives /\ Len(a) \in Nat \ {0} /\ st \in Seq(DiskNode) /\ nds \in Seq(DiskNode)
      /\ Len(st) \in Nat /\ Len(nds) \in Nat /\ cur \in Nat /\ cur \in 1 .. Len(a) + 1
      /\ Len(nds) + 1 < FirstCapacity /\ st # << >> /\ Len(st) \in 1 .. Len(st)
      /\ nodes = [elems |-> nds, capacity |-> FirstCapacity]
  BY DiskFacts DEF AddFile
<1>2. cur \in 2 .. Len(a) /\ Child(a[Top.header], a[cur]) /\ ~a[cur].dir
  BY InTopIsChild DEF AddFile
<1>3. cur \in 1 .. Len(a) /\ cur <= Len(a)
  BY <1>1, <1>2
<1>4. y \in DiskNode /\ HoldsKids(a, nds, y) /\ y.header = cur
  BY <1>1, <1>3, EmptyList
<1>5. /\ new \in Seq(DiskNode) /\ Len(new) = Len(nds) + 1
      /\ \A k \in 1 .. Len(nds) : new[k] = nds[k]
      /\ new[Len(nds) + 1] = y
  BY <1>1, <1>4, Appended
<1>6. nodes' = [elems |-> new, capacity |-> FirstCapacity]
  <2>1. nodes' = PushBack(nodes, y, NodeWidth)
    BY DEF AddFile
  <2>2. Len(new) # FirstCapacity
    BY <1>1, <1>5
  <2> HIDE DEF y
  <2>3. PushBack(nodes, y, NodeWidth) = [elems |-> Append(nodes.elems, y), capacity |-> FirstCapacity]
    BY <1>1, <2>2, PushBackAppends
  <2> QED BY <2>1, <2>3
<1>7. archive' = a /\ cursor' = cur + 1 /\ parsing' = rest
  <2>1. nodes'.elems = new
    BY <1>6
  <2> QED BY <2>1 DEF AddFile
<1> HIDE DEF y, new, rest
<1>8. /\ Parted(a, cur, st, nds) /\ Nested(a, st) /\ Passed(a, cur, nds) /\ Listed(a, cur, st, nds)
  BY DEF DiskInv
<1>9. ReadyFor(a, st, nds, y)
  <2>1. \A k \in 1 .. Len(st) :
          EntriesBefore(nds, st[k], IF k = Len(st) THEN y.header ELSE st[k + 1].header)
    BY <1>4, <1>8 DEF Listed
  <2>2. Child(a[st[Len(st)].header], a[y.header])
    BY <1>2, <1>4 DEF Top
  <2> QED BY <1>1, <1>4, <1>8, <2>1, <2>2 DEF Listed, ReadyFor
<1>10. /\ rest \in Seq(DiskNode) /\ Len(rest) = Len(st)
       /\ \A k \in 1 .. Len(st) : rest[k].header = st[k].header
       /\ Listed(a, cur + 1, rest, new)
  <2>1. y.header < cur + 1 /\ cur + 1 \in Int
    BY <1>1, <1>4
  <2>2. rest = WithEntry(st, Len(Append(nds, y)), y.header)
    BY <1>4 DEF rest, new
  <2> QED BY <1>1, <1>4, <1>9, <2>1, <2>2, NodeMade DEF new
<1>11. Parted(a, cur + 1, st, new)
  BY <1>1, <1>3, <1>4, <1>8, PartedAdd DEF new
<1>12. Parted(a, cur + 1, rest, new) /\ Nested(a, rest)
  BY <1>1, <1>8, <1>10, <1>11, SameHeaders
<1>13. Passed(a, cur + 1, new)
  <2>1. \A m \in 1 .. Len(nds) : nds[m] \in DiskNode
    BY <1>1
  <2>2. \A m \in 1 .. Len(nds) : nds[m].header \in Nat
    BY <2>1, NodeFields
  <2>3. Passed(a, cur + 1, nds)
    BY <1>1, <1>8, <2>2, StillPassed
  <2>4. ASSUME NEW m \in 1 .. Len(new), a[new[m].header].dir PROVE PassedBy(a, cur + 1, new[m].header)
    <3>1. m \in 1 .. Len(nds) \/ m = Len(nds) + 1
      BY <1>1, <1>5
    <3>2. m # Len(nds) + 1
      BY <1>2, <1>4, <1>5, <2>4
    <3> QED BY <1>5, <2>3, <2>4, <3>1, <3>2 DEF Passed
  <2> QED BY <2>4 DEF Passed
<1>14. Finished(a, cur + 1, rest, new)
  BY <1>1, <1>10 DEF Finished
<1>15. nodes'.elems = new /\ nodes' \in [elems : Seq(DiskNode), capacity : {FirstCapacity}]
  BY <1>5, <1>6
<1> QED BY <1>1, <1>7, <1>10, <1>12, <1>13, <1>14, <1>15 DEF DiskInv

LEMMA CloseKeeps ==
  ASSUME SmallDisks, DiskInv, CloseDirectory
  PROVE  DiskInv'
<1> DEFINE a == archive
<1> DEFINE cur == cursor
<1> DEFINE st == parsing
<1> DEFINE nds == nodes.elems
<1> DEFINE y == st[Len(st)]
<1> DEFINE out == Front(st)
<1> DEFINE new == Append(nds, y)
<1> DEFINE rest == WithEntry(out, Len(new), y.header)
<1>1. /\ a \in Archives /\ Len(a) \in Nat \ {0} /\ st \in Seq(DiskNode) /\ nds \in Seq(DiskNode)
      /\ Len(st) \in Nat /\ Len(nds) \in Nat /\ cur \in Nat /\ cur \in 1 .. Len(a) + 1
      /\ Len(nds) + 1 < FirstCapacity /\ st # << >> /\ Len(st) \in 1 .. Len(st)
      /\ nodes = [elems |-> nds, capacity |-> FirstCapacity]
  BY DiskFacts DEF CloseDirectory
<1>2. y = Top /\ y \in DiskNode /\ y.header \in 1 .. cur - 1 /\ y.header \in 1 .. Len(a) /\ cur >= 2
  BY <1>1, DiskFacts DEF Top
<1>3. cur > Len(a) \/ ~IsStrictPrefix(a[y.header].path, a[cur].path)
  BY <1>1, <1>2 DEF CloseDirectory, InTop
<1>4. /\ out \in Seq(DiskNode) /\ Len(out) = Len(st) - 1
      /\ \A k \in 1 .. Len(st) - 1 : out[k] = st[k]
  BY <1>1, FrontFacts
<1>5. /\ new \in Seq(DiskNode) /\ Len(new) = Len(nds) + 1 /\ new # << >>
      /\ \A k \in 1 .. Len(nds) : new[k] = nds[k]
      /\ new[Len(nds) + 1] = y
  BY <1>1, <1>2, Appended
<1>6. nodes' = [elems |-> new, capacity |-> FirstCapacity]
  <2>1. nodes' = PushBack(nodes, y, NodeWidth)
    BY <1>2 DEF CloseDirectory
  <2>2. Len(new) # FirstCapacity
    BY <1>1, <1>5
  <2> HIDE DEF y
  <2>3. PushBack(nodes, y, NodeWidth) = [elems |-> Append(nodes.elems, y), capacity |-> FirstCapacity]
    BY <1>1, <2>2, PushBackAppends
  <2> QED BY <2>1, <2>3
<1>7. archive' = a /\ cursor' = cur /\ parsing' = rest
  <2>1. nodes'.elems = new
    BY <1>6
  <2> QED BY <1>2, <2>1 DEF CloseDirectory
<1>8. /\ Parted(a, cur, st, nds) /\ Nested(a, st) /\ Passed(a, cur, nds) /\ Listed(a, cur, st, nds)
  BY DEF DiskInv
<1>9. Parted(a, cur, out, new)
  BY <1>1, <1>8, PartedClose
<1>10. HoldsKids(a, nds, y)
  BY <1>1, <1>8 DEF Listed
<1>11. \A k \in 1 .. Len(out) :
         /\ k \in 1 .. Len(st) - 1 /\ k \in 1 .. Len(st) /\ k # Len(st) /\ out[k] = st[k]
         /\ k = Len(out) => k + 1 = Len(st)
         /\ k # Len(out) => k + 1 \in 1 .. Len(st) - 1
  BY <1>1, <1>4
<1> HIDE DEF y, out, new, rest
<1>12. Nested(a, out)
  <2>1. out # << >> => 1 \in 1 .. Len(out)
    BY <1>4
  <2>2. out # << >> => out[1].header = 1
    BY <1>1, <1>8, <1>11, <2>1 DEF Nested
  <2>3. ASSUME NEW k \in 2 .. Len(out) PROVE Child(a[out[k - 1].header], a[out[k].header])
    <3>1. k \in 1 .. Len(out) /\ k - 1 \in 1 .. Len(out) /\ k \in 2 .. Len(st)
      BY <1>1, <1>4
    <3>2. out[k] = st[k] /\ out[k - 1] = st[k - 1]
      BY <1>11, <3>1
    <3> QED BY <1>8, <3>1, <3>2 DEF Nested
  <2>4. \A k \in 1 .. Len(out) : a[out[k].header].dir
    BY <1>8, <1>11 DEF Nested
  <2>5. \A j, k \in 1 .. Len(out) : j < k => Len(a[out[j].header].path) < Len(a[out[k].header].path)
    BY <1>8, <1>11 DEF Nested
  <2> QED BY <2>2, <2>3, <2>4, <2>5 DEF Nested
<1>13. ReadyFor(a, out, nds, y)
  <2>1. \A k \in 1 .. Len(out) : HoldsKids(a, nds, out[k])
    BY <1>8, <1>11 DEF Listed
  <2>2. ASSUME NEW k \in 1 .. Len(out)
        PROVE  EntriesBefore(nds, out[k], IF k = Len(out) THEN y.header ELSE out[k + 1].header)
    <3>1. out[k] = st[k] /\ EntriesBefore(nds, st[k], st[k + 1].header)
      BY <1>8, <1>11 DEF Listed
    <3>2. CASE k = Len(out)
      BY <1>11, <3>1, <3>2 DEF y
    <3>3. CASE k # Len(out)
      <4>1. out[k + 1] = st[k + 1]
        BY <1>4, <1>11, <3>3
      <4> QED BY <3>1, <3>3, <4>1
    <3> QED BY <3>2, <3>3
  <2>3. ASSUME NEW m \in 1 .. Len(nds), nds[m].header # 1
        PROVE  \/ \E k \in 1 .. Len(out) : HasEntry(out[k], m)
               \/ \E l \in 1 .. Len(nds) : HasEntry(nds[l], m)
               \/ HasEntry(y, m)
    <3>1. CASE \E k \in 1 .. Len(st) : HasEntry(st[k], m)
      <4>1. PICK k \in 1 .. Len(st) : HasEntry(st[k], m)
        BY <3>1
      <4>2. k # Len(st) => k \in 1 .. Len(out)
        BY <1>1, <1>4
      <4> QED BY <1>11, <4>1, <4>2 DEF y
    <3> QED BY <1>8, <2>3, <3>1 DEF Listed
  <2>4. IF out = << >> THEN y.header = 1 ELSE Child(a[out[Len(out)].header], a[y.header])
    <3>1. CASE out = << >>
      <4>1. Len(st) = 1
        BY <1>1, <1>4, <3>1
      <4> QED BY <1>1, <1>8, <3>1, <4>1 DEF Nested, y
    <3>2. CASE out # << >>
      <4>1. Len(out) \in 1 .. Len(out) /\ Len(out) = Len(st) - 1 /\ Len(st) \in 2 .. Len(st)
        BY <1>1, <1>4, <3>2
      <4>2. out[Len(out)] = st[Len(st) - 1]
        BY <1>11, <4>1
      <4> QED BY <1>8, <3>2, <4>1, <4>2 DEF Nested, y
    <3> QED BY <3>1, <3>2
  <2>5. \A m \in 1 .. Len(nds) : HoldsKids(a, nds, nds[m])
    BY <1>8 DEF Listed
  <2> QED BY <1>10, <2>1, <2>2, <2>3, <2>4, <2>5 DEF ReadyFor
<1>14. /\ rest \in Seq(DiskNode) /\ Len(rest) = Len(out)
       /\ \A k \in 1 .. Len(out) : rest[k].header = out[k].header
       /\ Listed(a, cur, rest, new)
  <2>1. y.header < cur /\ cur \in Int
    BY <1>1, <1>2
  <2> QED BY <1>1, <1>2, <1>4, <1>13, <2>1, NodeMade DEF new, rest
<1>15. Parted(a, cur, rest, new) /\ Nested(a, rest)
  BY <1>4, <1>9, <1>12, <1>14, SameHeaders
<1>16. Passed(a, cur, new)
  <2>1. PassedBy(a, cur, y.header)
    <3>1. cur \in y.header + 1 .. cur
      BY <1>1, <1>2
    <3> QED BY <1>3, <3>1 DEF PassedBy
  <2>2. ASSUME NEW m \in 1 .. Len(new), a[new[m].header].dir PROVE PassedBy(a, cur, new[m].header)
    <3>1. m \in 1 .. Len(nds) \/ m = Len(nds) + 1
      BY <1>1, <1>5
    <3> QED BY <1>5, <1>8, <2>1, <2>2, <3>1 DEF Passed
  <2> QED BY <2>2 DEF Passed
<1>17. Finished(a, cur, rest, new)
  <2> SUFFICES ASSUME rest = << >>
               PROVE  cur = Len(a) + 1 /\ new # << >> /\ new[Len(new)].header = 1
    BY DEF Finished
  <2>1. Len(out) = 0
    BY <1>14
  <2>2. out = << >>
    BY <1>4, <2>1
  <2>3. y.header = 1
    BY <1>13, <2>2 DEF ReadyFor
  <2>4. ASSUME cur <= Len(a) PROVE FALSE
    <3>1. cur \in 2 .. Len(a) /\ cur \in 1 .. Len(a)
      BY <1>1, <1>2, <2>4
    <3>2. a[cur].path \in Seq(Names) /\ a[1].path = << >>
      BY <1>1, <3>1, ArchiveFacts
    <3>3. a[cur].path # << >>
      <4>1. PICK j \in 1 .. cur - 1 : Child(a[j], a[cur])
        BY <1>1, <3>1, ArchiveFacts
      <4>2. j \in 1 .. Len(a)
        BY <1>1, <3>1
      <4>3. a[j] \in Header /\ a[cur] \in Header
        BY <1>1, <3>1, <4>2, ArchiveFacts
      <4> QED BY <4>1, <4>3, ChildFacts
    <3>4. IsStrictPrefix(<< >>, a[cur].path)
      BY <3>2, <3>3, StrictPrefixFacts
    <3> QED BY <1>3, <2>3, <2>4, <3>2, <3>4, <1>1
  <2> QED BY <1>1, <1>5, <2>3, <2>4
<1>18. nodes'.elems = new /\ nodes' \in [elems : Seq(DiskNode), capacity : {FirstCapacity}]
  BY <1>5, <1>6
<1> QED BY <1>1, <1>7, <1>14, <1>15, <1>16, <1>17, <1>18 DEF DiskInv

LEMMA InitDisk == Init => DiskInv
<1> SUFFICES ASSUME Init PROVE DiskInv
  OBVIOUS
<1>1. archive \in Archives /\ cursor = 1 /\ parsing = << >> /\ nodes = EmptyArray
  BY DEF Init, DiskInit
<1>2. nodes.elems = << >> /\ nodes \in [elems : Seq(DiskNode), capacity : {FirstCapacity}]
  <2>1. EmptyArray = [elems |-> << >>, capacity |-> FirstCapacity] /\ << >> \in Seq(DiskNode)
    BY DEF EmptyArray
  <2> QED BY <1>1, <2>1
<1>3. Len(archive) \in Nat \ {0} /\ 1 \in 1 .. Len(archive) + 1
  BY <1>1, ArchiveFacts
<1>4. << >> \in Seq(DiskNode) /\ Len(<< >>) = 0 /\ 1 .. 0 = {} /\ 2 .. 0 = {} /\ 1 .. 1 - 1 = {}
  OBVIOUS
<1>5. Parted(archive, 1, << >>, << >>)
  BY <1>3, <1>4 DEF Parted
<1>6. Nested(archive, << >>)
  BY <1>4 DEF Nested
<1>7. Passed(archive, 1, << >>)
  BY <1>4 DEF Passed
<1>8. Listed(archive, 1, << >>, << >>)
  BY <1>4 DEF Listed
<1>9. Finished(archive, 1, << >>, << >>)
  BY DEF Finished
<1> QED BY <1>1, <1>2, <1>5, <1>6, <1>7, <1>8, <1>9 DEF DiskInv

LEMMA NextDisk ==
  ASSUME SmallDisks, DiskInv, [Next]_vars
  PROVE  DiskInv'
<1>1. CASE UNCHANGED diskVars
  BY <1>1 DEF DiskInv, diskVars
<1>2. CASE ParseHeader
  BY <1>2, OpenKeeps, AddKeeps, CloseKeeps DEF ParseHeader
<1>3. CASE MountDisk \/ MountDevices
  BY <1>1, <1>3 DEF MountDisk, MountDevices, Mount
<1>4. CASE (\E root \in Roots : StartWalk(root)) \/ GoToParent \/ (\E n \in Names : GoToChild(n))
  BY <1>1, <1>4 DEF StartWalk, GoToParent, GoToChild
<1>5. CASE WalkFails \/ OpenRefused \/ HandleFails \/ OpenFile \/ OpenBinary
  BY <1>1, <1>5 DEF WalkFails, OpenRefused, HandleFails, OpenFile, OpenBinary
<1>6. CASE \/ \E count \in 0 .. MaxCount : Read(count) \/ ReadDevices(count)
           \/ \E offset \in -1 .. 1, from \in {0, pos, FileSize} : Lseek(offset, from)
           \/ CloseBinary
  BY <1>1, <1>6 DEF Read, ReadDevices, Lseek, CloseBinary, Unchanged
<1>7. CASE UNCHANGED vars
  BY <1>1, <1>7 DEF vars
<1> QED BY <1>2, <1>3, <1>4, <1>5, <1>6, <1>7 DEF Next

-----------------------------------------------------------------------------
(* Looking a name up in a node.                                            *)
LEMMA NodeOfDisk ==
  ASSUME DiskInv, NEW m \in 1 .. Len(nodes.elems)
  PROVE  /\ GetNode(m) = nodes.elems[m] /\ nodes.elems[m] \in DiskNode /\ nodes.elems[m] # Junk
         /\ HoldsKids(archive, nodes.elems, nodes.elems[m])
         /\ nodes.elems[m].header \in 1 .. Len(archive)
         /\ archive[nodes.elems[m].header] \in Header
         /\ Len(nodes.elems[m].entries.elems) \in Nat
         /\ DOMAIN nodes.elems[m].entries.elems = 1 .. Len(nodes.elems[m].entries.elems)
<1>1. nodes.elems \in Seq(DiskNode) /\ archive \in Archives
  BY DiskFacts
<1>2. nodes.elems[m] \in DiskNode /\ m \in DOMAIN nodes.elems
  BY <1>1
<1>3. HoldsKids(archive, nodes.elems, nodes.elems[m])
  BY DEF DiskInv, Listed
<1>4. nodes.elems[m].header \in 1 .. Len(archive)
  BY <1>3 DEF HoldsKids
<1>5. archive[nodes.elems[m].header] \in Header
  BY <1>1, <1>4, ArchiveFacts
<1>6. nodes.elems[m].entries.elems \in Seq(DirEntry \cup {Junk})
  BY <1>2, NodeFields
<1> QED BY <1>2, <1>3, <1>4, <1>5, <1>6, JunkAssumption DEF GetNode

(* The entries of m with name n, as Lookup finds them.                     *)
LEMMA LookupIs ==
  ASSUME DiskInv, NEW m \in 1 .. Len(nodes.elems), NEW n
  PROVE  LET es    == nodes.elems[m].entries.elems
             found == {i \in 1 .. Len(es) : es[i].name = n}
         IN  /\ found = {} => Lookup(m, n) = 0
             /\ found # {} => \E i \in found : Lookup(m, n) = es[i].inode
<1> DEFINE es == nodes.elems[m].entries.elems
<1> DEFINE found == {i \in 1 .. Len(es) : es[i].name = n}
<1>1. /\ GetNode(m) = nodes.elems[m] /\ nodes.elems[m] # Junk /\ DOMAIN es = 1 .. Len(es)
      /\ HoldsKids(archive, nodes.elems, nodes.elems[m])
  BY NodeOfDisk
<1>2. \A i \in 1 .. Len(es) : es[i] # Junk
  <2>1. \A i \in 1 .. Len(es) : es[i] \in DirEntry
    BY <1>1 DEF HoldsKids, KidEntry
  <2> QED BY <2>1, JunkAssumption
<1>3. found = {i \in DOMAIN es : LET e == es[i] IN e # Junk /\ e.name = n}
  BY <1>1, <1>2
<1>4. Lookup(m, n) = IF found = {} THEN 0 ELSE es[Min(found)].inode
  BY <1>1, <1>3 DEF Lookup
<1>5. found # {} => Min(found) \in found
  <2>1. found \subseteq Nat
    OBVIOUS
  <2> HIDE DEF found
  <2> QED BY <2>1, MinIsLeast
<1> HIDE DEF found, es
<1>6. found # {} => \E i \in found : Lookup(m, n) = es[i].inode
  BY <1>4, <1>5
<1> QED BY <1>4, <1>6 DEF found, es

(* What is found is an entry of the directory with that name.              *)
LEMMA LookupIsKid ==
  ASSUME DiskInv, NEW m \in 1 .. Len(nodes.elems), NEW n, Lookup(m, n) # 0
  PROVE  /\ Lookup(m, n) \in 1 .. Len(nodes.elems)
         /\ Child(archive[nodes.elems[m].header], archive[nodes.elems[Lookup(m, n)].header])
         /\ Last(archive[nodes.elems[Lookup(m, n)].header].path) = n
<1>1. PICK i \in 1 .. Len(nodes.elems[m].entries.elems) :
        /\ nodes.elems[m].entries.elems[i].name = n
        /\ Lookup(m, n) = nodes.elems[m].entries.elems[i].inode
  BY LookupIs
<1>2. KidEntry(archive, nodes.elems, nodes.elems[m].header, nodes.elems[m].entries.elems[i])
  BY NodeOfDisk DEF HoldsKids
<1> QED BY <1>1, <1>2 DEF KidEntry

(* Once the disk is mounted every entry of a directory is found.           *)
LEMMA LookupFindsKid ==
  ASSUME DiskInv, Mounted, NEW m \in 1 .. Len(nodes.elems), NEW num \in 1 .. Len(nodes.elems),
         Child(archive[nodes.elems[m].header], archive[nodes.elems[num].header])
  PROVE  /\ Lookup(m, Last(archive[nodes.elems[num].header].path)) = num
         /\ HasEntry(nodes.elems[m], num)
<1> DEFINE a == archive
<1> DEFINE nds == nodes.elems
<1> DEFINE h == nds[num].header
<1> DEFINE n == Last(a[h].path)
<1>1. /\ nds[m].header \in 1 .. Len(a) /\ h \in 1 .. Len(a)
      /\ a[nds[m].header] \in Header /\ a[h] \in Header /\ a \in Archives
  BY NodeOfDisk, DiskFacts
<1>2. /\ a[h].path # << >> /\ a[nds[m].header].path = Front(a[h].path)
      /\ \A g \in Header : Child(a[nds[m].header], g) /\ Last(g.path) = n => g.path = a[h].path
  BY <1>1, ChildFacts
<1>3. \A i, j \in 1 .. Len(a) : a[i].path = a[j].path => i = j
  BY <1>1, ArchiveFacts
<1>4. \A l, k \in 1 .. Len(nds) : nds[l].header = nds[k].header => l = k
  BY DEF DiskInv, Parted
<1>5. h # 1
  BY <1>1, <1>2, ArchiveFacts
<1>6. PICK l \in 1 .. Len(nds) : HasEntry(nds[l], num)
  <2>1. 1 .. Len(parsing) = {}
    BY DEF Mounted
  <2> QED BY <1>5, <2>1 DEF DiskInv, Listed
<1>7. PICK i \in 1 .. Len(nds[l].entries.elems) : nds[l].entries.elems[i].inode = num
  BY <1>6 DEF HasEntry
<1>8. KidEntry(a, nds, nds[l].header, nds[l].entries.elems[i])
  BY NodeOfDisk, <1>7 DEF HoldsKids
<1>9. Child(a[nds[l].header], a[h]) /\ nds[l].entries.elems[i].name = n
  BY <1>7, <1>8 DEF KidEntry
<1>10. nds[l].header \in 1 .. Len(a) /\ a[nds[l].header] \in Header
  BY <1>6, NodeOfDisk
<1>11. a[nds[l].header].path = Front(a[h].path)
  BY <1>1, <1>9, <1>10, ChildFacts
<1>12. l = m
  BY <1>1, <1>2, <1>3, <1>4, <1>10, <1>11
<1>13. PICK j \in 1 .. Len(nds[m].entries.elems) :
         nds[m].entries.elems[j].name = n /\ Lookup(m, n) = nds[m].entries.elems[j].inode
  <2> DEFINE named == {k \in 1 .. Len(nds[m].entries.elems) : nds[m].entries.elems[k].name = n}
  <2>1. i \in named
    BY <1>7, <1>9, <1>12
  <2>2. \E k \in named : Lookup(m, n) = nds[m].entries.elems[k].inode
    <3>1. PICK w : w = n
      OBVIOUS
    <3>2. LET es    == nds[m].entries.elems
              found == {k \in 1 .. Len(es) : es[k].name = w}
          IN  found # {} => \E k \in found : Lookup(m, w) = es[k].inode
      <4> HIDE DEF n
      <4> QED BY LookupIs
    <3>3. named = {k \in 1 .. Len(nds[m].entries.elems) : nds[m].entries.elems[k].name = w} /\ named # {}
      BY <2>1, <3>1
    <3> QED BY ONLY <3>1, <3>2, <3>3
  <2> QED BY <2>2
<1>14. KidEntry(a, nds, nds[m].header, nds[m].entries.elems[j])
  BY NodeOfDisk, <1>13 DEF HoldsKids
<1>15. PICK u \in 1 .. Len(nds) : u = Lookup(m, n)
  BY <1>13, <1>14 DEF KidEntry
<1>16. Child(a[nds[m].header], a[nds[u].header]) /\ Last(a[nds[u].header].path) = n
  BY <1>13, <1>14, <1>15 DEF KidEntry
<1>17. nds[u].header \in 1 .. Len(a) /\ a[nds[u].header] \in Header
  BY <1>15, NodeOfDisk
<1>18. nds[u].header = h
  BY <1>1, <1>2, <1>3, <1>16, <1>17
<1> QED BY <1>4, <1>6, <1>12, <1>15, <1>18

(* The node of header h is found by the header's path.                     *)
IsFound(h) ==
  \E f : LET p == archive[h].path
         IN  /\ Resolves(f, p) /\ f[Len(p)] \in 1 .. Len(nodes.elems)
             /\ nodes.elems[f[Len(p)]].header = h

LEMMA RootIsFound ==
  ASSUME DiskInv, Mounted
  PROVE  IsFound(1)
<1> DEFINE p == archive[1].path
<1> DEFINE f == [k \in 0 .. 0 |-> GetRootNum]
<1>1. p = << >> /\ Len(p) = 0
  BY DiskFacts, ArchiveFacts
<1>2. f = [k \in 0 .. Len(p) |-> f[k]] /\ f[0] = GetRootNum /\ 1 .. Len(p) = {}
  BY <1>1
<1>3. GetRootNum \in 1 .. Len(nodes.elems) /\ nodes.elems[GetRootNum].header = 1
  <2>1. nodes.elems # << >> /\ nodes.elems[Len(nodes.elems)].header = 1
    BY DEF DiskInv, Finished, Mounted
  <2> QED BY <2>1, DiskFacts DEF GetRootNum
<1>4. Resolves(f, p)
  BY <1>2 DEF Resolves
<1> QED BY <1>1, <1>2, <1>3, <1>4 DEF IsFound

LEMMA ChildIsFound ==
  ASSUME DiskInv, Mounted, NEW j \in 1 .. Len(archive), NEW h \in 1 .. Len(archive),
         Child(archive[j], archive[h]), IsFound(j)
  PROVE  IsFound(h)
<1> DEFINE a == archive
<1> DEFINE nds == nodes.elems
<1> DEFINE q == a[j].path
<1> DEFINE p == a[h].path
<1>1. PICK f : Resolves(f, q) /\ f[Len(q)] \in 1 .. Len(nds) /\ nds[f[Len(q)]].header = j
  BY DEF IsFound
<1>2. PICK m \in 1 .. Len(nds) : m = f[Len(q)] /\ nds[m].header = j
  BY <1>1
<1>3. PICK num \in 1 .. Len(nds) : nds[num].header = h
  <2>1. h \in 1 .. cursor - 1 /\ 1 .. Len(parsing) = {}
    BY DiskFacts DEF DiskInv, Finished, Mounted
  <2> QED BY <2>1 DEF DiskInv, Parted
<1>4. a[j] \in Header /\ a[h] \in Header /\ a \in Archives
  BY DiskFacts, ArchiveFacts
<1>5. PICK n \in Nat : n = Len(q) /\ Len(p) = n + 1 /\ q \in Seq(Names) /\ p \in Seq(Names)
  BY <1>4, ChildFacts DEF Header
<1>6. \A k \in 1 .. n : p[k] = q[k]
  <2>1. IsStrictPrefix(q, p)
    BY <1>4, ChildFacts
  <2> QED BY <1>5, <2>1, StrictPrefixIs
<1>7. Lookup(m, p[n + 1]) = num
  <2>1. Lookup(m, Last(p)) = num
    BY <1>2, <1>3, LookupFindsKid
  <2>2. Last(p) = p[n + 1]
    BY <1>5 DEF Last
  <2> QED BY <2>1, <2>2
<1>12. f[0] = GetRootNum /\ \A k \in 1 .. n : f[k] = Lookup(f[k - 1], q[k])
  BY <1>1, <1>5 DEF Resolves
<1>13. 0 \in 0 .. n /\ \A k \in 1 .. n + 1 : k - 1 \in 0 .. n /\ (k = n + 1 \/ k \in 1 .. n)
  BY <1>5
<1>14. \A k \in 1 .. n : k \in 0 .. n
  BY <1>5
<1> DEFINE g == [k \in 0 .. n + 1 |-> IF k = n + 1 THEN num ELSE f[k]]
<1>8. /\ g = [k \in 0 .. n + 1 |-> g[k]] /\ g[n + 1] = num
      /\ \A k \in 0 .. n : g[k] = f[k]
  BY <1>5
<1> HIDE DEF g
<1>9. g[0] = GetRootNum
  BY <1>8, <1>12, <1>13
<1>10. ASSUME NEW k \in 1 .. n + 1 PROVE g[k] = Lookup(g[k - 1], p[k])
  <2>1. k - 1 \in 0 .. n /\ g[k - 1] = f[k - 1]
    BY <1>8, <1>13
  <2>2. CASE k = n + 1
    <3>1. k - 1 = n
      BY <1>5, <2>2
    <3> QED BY <1>2, <1>5, <1>7, <1>8, <2>1, <2>2, <3>1
  <2>3. CASE k \in 1 .. n
    BY <1>6, <1>8, <1>12, <1>14, <2>1, <2>3
  <2> QED BY <1>13, <2>2, <2>3
<1>11. Resolves(g, p)
  BY <1>5, <1>8, <1>9, <1>10 DEF Resolves
<1> QED BY <1>3, <1>5, <1>8, <1>11 DEF IsFound

(* The first header that is not found would have a parent that is.         *)
LEMMA AllAreFound ==
  ASSUME DiskInv, Mounted
  PROVE  EverythingIsFound
<1> DEFINE a == archive
<1>1. a \in Archives /\ Len(a) \in Nat \ {0} /\ DOMAIN a = 1 .. Len(a)
  BY DiskFacts, ArchiveFacts
<1> DEFINE Bad == {i \in 1 .. Len(a) : ~IsFound(i)}
<1>2. Bad = {}
  <2> SUFFICES ASSUME Bad # {} PROVE FALSE
    OBVIOUS
  <2>1. Bad \subseteq Nat
    OBVIOUS
  <2>2. PICK h \in Bad : \A i \in Bad : h <= i
    <3> HIDE DEF Bad
    <3> QED BY <2>1, MinIsLeast
  <2>3. h \in 1 .. Len(a) /\ ~IsFound(h)
    BY <2>2
  <2>4. h # 1
    BY <2>3, RootIsFound
  <2>5. h \in 2 .. Len(a)
    BY <1>1, <2>3, <2>4
  <2>6. PICK j \in 1 .. h - 1 : Child(a[j], a[h])
    BY <1>1, <2>5, ArchiveFacts
  <2>7. j \in 1 .. Len(a) /\ ~(h <= j)
    BY <1>1, <2>5
  <2>8. IsFound(j)
    <3>1. j \notin Bad
      <4> HIDE DEF Bad
      <4> QED BY <2>2, <2>7
    <3> QED BY <2>7, <3>1
  <2> QED BY <2>3, <2>6, <2>7, <2>8, ChildIsFound
<1>3. ASSUME NEW i \in 1 .. Len(a)
      PROVE  LET node1 == GetNode(Resolve(a[i].path)) IN node1 # Junk /\ node1.header = i
  <2>1. IsFound(i)
    BY <1>2
  <2>2. PICK f : LET p == a[i].path
                 IN  /\ Resolves(f, p) /\ f[Len(p)] \in 1 .. Len(nodes.elems)
                     /\ nodes.elems[f[Len(p)]].header = i
    BY <2>1 DEF IsFound
  <2>3. Len(a[i].path) \in Nat
    BY <1>1, ArchiveFacts
  <2>4. Resolve(a[i].path) = f[Len(a[i].path)]
    BY <2>2, <2>3, ResolveIs
  <2> QED BY <2>2, <2>4, NodeOfDisk
<1> QED BY <1>1, <1>3 DEF EverythingIsFound

(* On every ram disk whose nodes fit in the first array, every file and    *)
(* directory of the archive is found by its path once the disk is mounted, *)
(* and is what the archive has there (EverythingIsFound), in whatever      *)
(* order tar has written it.                                               *)
THEOREM EverythingIsAlwaysFound ==
  ASSUME SmallDisks
  PROVE  Spec => []EverythingIsFound
<1>1. ASSUME DiskInv PROVE EverythingIsFound
  BY <1>1, AllAreFound DEF EverythingIsFound
<1>2. DiskInv /\ [Next]_vars => DiskInv'
  BY NextDisk
<1> QED BY <1>1, <1>2, InitDisk, PTL DEF Spec

-----------------------------------------------------------------------------
(* The table of slots, and the position in the open file.                  *)
(*                                                                         *)
(* YY_OpenFile frees the slot it has taken: the table stays empty.         *)
LEMMA TableStaysEmpty ==
  ASSUME handles = << >>, AllocAndFree
  PROVE  handles' = << >>
<1> DEFINE a == AllocDescriptor(handles)
<1> DEFINE t == [a.table EXCEPT ![a.fd + 1] = NoHandle]
<1>1. {i \in DOMAIN handles : handles[i] = NoHandle} = {}
  OBVIOUS
<1>2. a = [fd |-> 0, table |-> <<NoHandle>>]
  BY <1>1 DEF AllocDescriptor
<1>3. t = <<NoHandle>>
  BY <1>2
<1>4. {i \in DOMAIN t : t[i] # NoHandle} \cup {0} = {0}
  BY <1>3
<1>5. Max({0}) = 0
  <2>1. {0} \subseteq Nat /\ {0} # {}
    OBVIOUS
  <2>2. IsFiniteSet({0})
    BY FS_Singleton
  <2>3. Max({0}) \in {0}
    BY <2>1, <2>2, MaxIsGreatest
  <2> QED BY <2>3
<1>6. ShrinkToFit(t) = SubSeq(t, 1, 0)
  BY <1>4, <1>5 DEF ShrinkToFit
<1>7. SubSeq(t, 1, 0) = << >>
  BY SubSeqEmpty
<1>8. handles' = ShrinkToFit(t)
  BY DEF AllocAndFree, FreeDescriptor
<1> QED BY <1>6, <1>7, <1>8

(* An entry on a way of the disk's tree has a node of the disk.            *)
LEMMA WayHasNodes ==
  ASSUME DiskInv, TreeInv, Ready, NEW d \in Entries, sb[d] = Disk, NEW c, IsWay(c, d)
  PROVE  node[d] \in 1 .. Len(nodes.elems)
<1>1. PICK n \in Nat : n = Len(path)
  BY DEF TreeInv, TreeType
<1>2. /\ \A k \in 0 .. n : c[k] \in Live /\ sb[c[k]] = Disk
      /\ c[0] = Disk /\ c[n] = d
      /\ \A k \in 1 .. n : node[c[k]] = LookupIn(c[k - 1], path[k])
  BY <1>1 DEF IsWay
<1> DEFINE Good == {k \in 0 .. n : node[c[k]] \in 1 .. Len(nodes.elems)}
<1>3. 0 \in Good
  <2>1. node[Disk] = GetRootNum /\ parsing = << >> /\ cursor > 1
    BY DEF TreeInv, RootsMounted, Mounted
  <2>2. nodes.elems # << >>
    BY <2>1 DEF DiskInv, Finished
  <2>3. Len(nodes.elems) \in 1 .. Len(nodes.elems)
    BY <2>2, DiskFacts
  <2>4. 0 \in 0 .. n
    BY <1>1
  <2> QED BY <1>2, <2>1, <2>3, <2>4 DEF GetRootNum
<1>4. ASSUME NEW k \in 1 .. n, k - 1 \in Good PROVE k \in Good
  <2>1. k - 1 \in 0 .. n /\ k \in 0 .. n
    BY <1>1
  <2>2. PICK m \in 1 .. Len(nodes.elems) : m = node[c[k - 1]]
    BY <1>4
  <2>3. node[c[k]] = Lookup(m, path[k])
    BY <1>2, <2>1, <2>2 DEF LookupIn
  <2>4. node[c[k]] # 0
    BY <1>2, <2>1 DEF Live
  <2>5. node[c[k]] \in 1 .. Len(nodes.elems)
    BY <2>2, <2>3, <2>4, LookupIsKid
  <2> QED BY <2>1, <2>5
<1>5. 0 .. n \subseteq Good
  <2> HIDE DEF Good
  <2> QED BY <1>3, <1>4, StepByStep
<1>6. n \in 0 .. n
  BY <1>1
<1> QED BY <1>2, <1>5, <1>6

LEMMA OpenFacts ==
  ASSUME DiskInv, TreeInv, NEW d \in {walker, file} \ {0}
  PROVE  /\ Ready /\ Mounted /\ d \in Entries /\ (walker = 0 \/ file = 0)
         /\ sb[d] = Disk => node[d] \in 1 .. Len(nodes.elems) /\ Size(node[d]) \in Nat
<1>1. d \in Entries /\ (walker = 0 \/ file = 0)
  BY DEF TreeInv, TreeType
<1>2. Ready /\ Mounted
  BY DEF TreeInv, RootsMounted
<1>3. \E c : IsWay(c, d)
  BY DEF TreeInv, OnWay
<1>4. ASSUME sb[d] = Disk PROVE node[d] \in 1 .. Len(nodes.elems) /\ Size(node[d]) \in Nat
  <2>1. node[d] \in 1 .. Len(nodes.elems)
    BY <1>1, <1>2, <1>3, <1>4, WayHasNodes
  <2>2. FileSize \in Nat
    BY DiskAssumption
  <2> QED BY <2>1, <2>2, NodeOfDisk DEF Size
<1> QED BY <1>1, <1>2, <1>4

PosOK == file # 0 => pos \in 0 .. (IF sb[file] = Disk THEN Size(node[file]) ELSE Len(devices))

FileInv == DiskInv /\ TreeInv /\ handles = << >> /\ devices \in Seq(Names) /\ PosOK

(* Nothing is parsed once the disk is mounted.                             *)
LEMMA ParsedOnce ==
  ASSUME Mounted, cursor \in Nat
  PROVE  ~ParseHeader
BY DEF Mounted, ParseHeader, OpenDirectory, AddFile, CloseDirectory

(* What a call that reads gets.                                            *)
LEMMA RealCountFits ==
  ASSUME NEW count \in Nat, NEW size \in Nat, NEW p \in 0 .. size
  PROVE  /\ (IF p + count > size THEN size - p ELSE count) \in Nat
         /\ p + (IF p + count > size THEN size - p ELSE count) \in 0 .. size
  OBVIOUS

(* What can happen to a file that is open.                                 *)
LEMMA FileStep ==
  ASSUME DiskInv, TreeInv, [Next]_vars, file' # 0
  PROVE  \/ file = 0 /\ OpenBinary
         \/ /\ file # 0 /\ UNCHANGED <<diskVars, devices, sb, node, file>>
            /\ \/ \E count \in 0 .. MaxCount : Read(count) \/ ReadDevices(count)
               \/ \E offset \in -1 .. 1, from \in {0, pos, FileSize} : Lseek(offset, from)
               \/ UNCHANGED vars
<1>1. CASE file = 0
  BY <1>1 DEF Next, vars, fileVars, MountDisk, MountDevices, Mount, StartWalk, GoToParent, GoToChild,
     WalkFails, OpenRefused, HandleFails, OpenFile, Read, ReadDevices, Lseek, CloseBinary
<1>2. CASE file # 0
  <2>1. walker = 0 /\ Ready /\ Mounted /\ node[Disk] # 0 /\ cursor \in Nat
    <3>1. walker = 0 /\ Ready /\ Mounted
      BY <1>2, OpenFacts
    <3> QED BY <3>1, DiskFacts DEF TreeInv, RootsMounted
  <2>2. \/ \E count \in 0 .. MaxCount : Read(count) \/ ReadDevices(count)
        \/ \E offset \in -1 .. 1, from \in {0, pos, FileSize} : Lseek(offset, from)
        \/ UNCHANGED vars
    <3>1. ~ParseHeader /\ ~MountDisk /\ ~MountDevices
      BY <2>1, ParsedOnce DEF MountDisk, MountDevices, Ready
    <3>2. /\ ~(\E root \in Roots : StartWalk(root)) /\ ~GoToParent /\ ~(\E n \in Names : GoToChild(n))
          /\ ~WalkFails /\ ~OpenRefused /\ ~HandleFails /\ ~OpenFile /\ ~OpenBinary
      BY <1>2, <2>1 DEF StartWalk, Idle, GoToParent, GoToChild, WalkFails, OpenRefused, HandleFails,
                        OpenFile, OpenBinary
    <3>3. ~CloseBinary
      BY DEF CloseBinary
    <3> QED BY <3>1, <3>2, <3>3 DEF Next
  <2>3. UNCHANGED <<diskVars, devices, sb, node, file>>
    BY <2>2 DEF Read, ReadDevices, Lseek, Unchanged, treeVars, vars, fileVars
  <2> QED BY <1>2, <2>2, <2>3
<1> QED BY <1>1, <1>2

LEMMA PosStep ==
  ASSUME DiskInv, TreeInv, devices \in Seq(Names), PosOK, [Next]_vars, file' # 0
  PROVE  pos' \in 0 .. (IF sb'[file'] = Disk THEN Size(node[file])' ELSE Len(devices'))
<1>1. CASE file = 0
  <2>1. OpenBinary
    BY <1>1, FileStep
  <2>2. /\ walker # 0 /\ file' = walker /\ pos' = 0 /\ UNCHANGED <<diskVars, devices, sb, node>>
    BY <2>1 DEF OpenBinary
  <2>3. Size(node[file])' = Size(node[walker])
    BY <2>2 DEF Size, IsDirectory, GetNode, diskVars
  <2>4. sb[walker] = Disk => Size(node[walker]) \in Nat
    BY <2>2, OpenFacts
  <2>5. Len(devices) \in Nat
    OBVIOUS
  <2> QED BY <2>2, <2>3, <2>4, <2>5
<1>2. CASE file # 0
  <2> DEFINE size == IF sb[file] = Disk THEN Size(node[file]) ELSE Len(devices)
  <2>1. size \in Nat /\ pos \in 0 .. size
    BY <1>2, OpenFacts DEF PosOK
  <2>2. /\ UNCHANGED <<diskVars, devices, sb, node, file>>
        /\ \/ \E count \in 0 .. MaxCount : Read(count) \/ ReadDevices(count)
           \/ \E offset \in -1 .. 1, from \in {0, pos, FileSize} : Lseek(offset, from)
           \/ UNCHANGED vars
    BY <1>2, FileStep
  <2>3. (IF sb'[file'] = Disk THEN Size(node[file])' ELSE Len(devices')) = size
    <3>1. Size(node[file])' = Size(node[file])
      BY <2>2 DEF Size, IsDirectory, GetNode, diskVars
    <3> QED BY <2>2, <3>1
  <2> SUFFICES pos' \in 0 .. size
    BY <2>3
  <2>4. MaxCount \in Nat /\ FileSize \in Nat
    BY FilesAssumption, DiskAssumption
  <2>5. ASSUME NEW count \in 0 .. MaxCount, Read(count) PROVE pos' \in 0 .. size
    <3>1. count \in Nat
      BY <2>4
    <3>2. sb[file] = Disk /\ size = Size(node[file])
      BY <2>5 DEF Read
    <3>3. pos' = pos + (IF pos + count > size THEN size - pos ELSE count)
      BY <2>5, <3>2 DEF Read, RealCount
    <3> HIDE DEF size
    <3> QED BY <2>1, <3>1, <3>3, RealCountFits
  <2>6. ASSUME NEW count \in 0 .. MaxCount, ReadDevices(count) PROVE pos' \in 0 .. size
    <3>1. count \in Nat
      BY <2>4
    <3>2. sb[file] = Dev /\ size = Len(devices)
      BY <2>6, EntryFacts DEF ReadDevices
    <3>3. pos' = pos + (IF pos + count > size THEN size - pos ELSE count)
      BY <2>6, <3>2 DEF ReadDevices
    <3> HIDE DEF size
    <3> QED BY <2>1, <3>1, <3>3, RealCountFits
  <2>7. ASSUME NEW offset \in -1 .. 1, NEW from \in {0, pos, FileSize}, Lseek(offset, from)
        PROVE  pos' \in 0 .. size
    <3>1. sb[file] = Disk /\ ~IsDirectory(node[file]) /\ InFile(offset + from) /\ pos' = offset + from
      BY <2>7 DEF Lseek, IsDir
    <3>2. size = FileSize
      BY <3>1 DEF Size
    <3>3. offset + from \in Int
      BY <2>1, <2>4
    <3> QED BY <2>4, <3>1, <3>2, <3>3 DEF InFile
  <2>8. CASE UNCHANGED vars
    BY <2>1, <2>8 DEF vars, fileVars
  <2> QED BY <2>2, <2>5, <2>6, <2>7, <2>8
<1> QED BY <1>1, <1>2

LEMMA NextFile ==
  ASSUME SmallDisks, FileInv, [Next]_vars
  PROVE  FileInv'
<1>1. DiskInv' /\ TreeInv'
  BY NextDisk, NextTree DEF FileInv
<1>2. handles' = << >>
  <2>1. handles' = handles \/ AllocAndFree
    BY DEF Next, vars, tableVars, MountDisk, MountDevices, Mount, StartWalk, GoToParent, GoToChild, WalkFails,
           OpenRefused, HandleFails, OpenFile, OpenBinary, Read, ReadDevices, Lseek, Unchanged, CloseBinary
  <2> QED BY <2>1, TableStaysEmpty DEF FileInv
<1>3. devices' \in Seq(Names)
  <2>1. devices' = devices \/ devices' = Devices
    BY DEF Next, vars, tableVars, MountDisk, MountDevices, StartWalk, GoToParent, GoToChild, WalkFails,
           OpenRefused, HandleFails, OpenFile, OpenBinary, Read, ReadDevices, Lseek, Unchanged, CloseBinary
  <2> QED BY <2>1, FilesAssumption DEF FileInv
<1>4. PosOK'
  BY PosStep DEF FileInv, PosOK
<1> QED BY <1>1, <1>2, <1>3, <1>4 DEF FileInv

LEMMA InitFile == Init => FileInv
<1> SUFFICES ASSUME Init PROVE FileInv
  OBVIOUS
<1>1. handles = << >> /\ devices \in Seq(Names) /\ file = 0
  BY DEF Init
<1> QED BY <1>1, InitDisk, InitTree DEF FileInv, PosOK

LEMMA FileInvTypes ==
  ASSUME SmallDisks, FileInv
  PROVE  TypeOK
<1>1. DiskTypeOK
  <2>1. cursor \in 1 .. Len(archive) + 1
    BY DiskFacts DEF FileInv
  <2>2. \A i \in DOMAIN parsing : parsing[i].header \in 1 .. cursor - 1
    <3>1. DOMAIN parsing = 1 .. Len(parsing)
      BY DiskFacts DEF FileInv
    <3> QED BY <3>1 DEF FileInv, DiskInv, Parted
  <2>3. Len(nodes.elems) < nodes.capacity
    <3>1. nodes.capacity = FirstCapacity
      BY DEF FileInv, DiskInv
    <3>2. Len(nodes.elems) <= Len(archive)
      BY DiskFacts DEF FileInv
    <3>3. Len(archive) < FirstCapacity /\ FirstCapacity \in Nat
      BY DiskFacts, ArrayAssumption DEF FileInv, SmallDisks
    <3>4. Len(nodes.elems) \in Nat /\ Len(archive) \in Nat
      BY DiskFacts DEF FileInv
    <3> QED BY <3>1, <3>2, <3>3, <3>4
  <2> QED BY <2>1, <2>2, <2>3 DEF DiskTypeOK
<1>2. sb \in [Entries -> Roots] /\ par \in [Entries -> Entries]
  BY DEF FileInv, TreeInv, TreeType
<1>3. ASSUME NEW d \in {walker, file} \ {0} PROVE d \in Live
  <2>1. PICK c : IsWay(c, d)
    BY DEF FileInv, TreeInv, OnWay
  <2>2. Len(path) \in Nat
    BY DEF FileInv, TreeInv, TreeType
  <2>3. Len(path) \in 0 .. Len(path)
    BY <2>2
  <2> QED BY <2>1, <2>3 DEF IsWay
<1>4. handles \in Seq(Entries \cup {NoHandle})
  BY DEF FileInv
<1> QED BY <1>1, <1>2, <1>3, <1>4 DEF TypeOK, FileInv, PosOK

(* On such disks a position is never behind the end of what is open, and   *)
(* the walker and the file are entries that exist (TypeOK): what is left   *)
(* of a file or directory is computed without a sign, however it is read   *)
(* and sought.                                                             *)
THEOREM FilesTypeCorrect ==
  ASSUME SmallDisks
  PROVE  Spec => []TypeOK
<1>1. FileInv /\ [Next]_vars => FileInv'
  BY NextFile
<1>2. FileInv => TypeOK
  BY FileInvTypes
<1> QED BY <1>1, <1>2, InitFile, PTL DEF Spec

-----------------------------------------------------------------------------
(* What has been read of the open file is what the file has there.         *)
Given == Nat \cup DirEntry \cup {Junk}

(* The i-th thing a file holds.                                            *)
Holds(i) ==
  IF sb[file] = Disk THEN (IF IsDirectory(node[file]) THEN GetNode(node[file]).entries.elems[i] ELSE i)
  ELSE [inode |-> i + 1, name |-> devices[i]]

ReadOK ==
  file # 0 =>
    /\ delivered \in Seq(Given) /\ Len(delivered) = pos
    /\ \A i \in 1 .. pos : delivered[i] = Holds(i)
    /\ sb[file] = Dev /\ ~IsDir(file) => pos = 0

OrderInv == FileInv /\ Len(devices) <= 1 /\ ReadOK

(* A read adds what comes next.                                            *)
LEMMA ReadOn ==
  ASSUME NEW s \in Seq(Given), NEW t \in Seq(Given), \A i \in 1 .. Len(s) : s[i] = Holds(i),
         \A i \in 1 .. Len(t) : t[i] = Holds(Len(s) + i)
  PROVE  /\ s \o t \in Seq(Given) /\ Len(s \o t) = Len(s) + Len(t)
         /\ \A i \in 1 .. Len(s) + Len(t) : (s \o t)[i] = Holds(i)
<1>1. /\ s \o t \in Seq(Given) /\ Len(s \o t) = Len(s) + Len(t) /\ Len(s) \in Nat /\ Len(t) \in Nat
      /\ \A i \in 1 .. Len(s) : (s \o t)[i] = s[i]
      /\ \A i \in 1 .. Len(t) : (s \o t)[Len(s) + i] = t[i]
  OBVIOUS
<1>2. ASSUME NEW i \in 1 .. Len(s) + Len(t) PROVE (s \o t)[i] = Holds(i)
  <2>1. CASE i \in 1 .. Len(s)
    BY <1>1, <2>1
  <2>2. CASE i \notin 1 .. Len(s)
    <3>1. PICK j \in 1 .. Len(t) : i = Len(s) + j
      <4>1. i - Len(s) \in 1 .. Len(t) /\ i = Len(s) + (i - Len(s))
        BY <1>1, <2>2
      <4> QED BY <4>1
    <3> QED BY <1>1, <3>1
  <2> QED BY <2>1, <2>2
<1> QED BY <1>1, <1>2

LEMMA ReadMore ==
  ASSUME FileInv, ReadOK, file # 0, NEW t \in Seq(Given), \A i \in 1 .. Len(t) : t[i] = Holds(pos + i),
         delivered' = delivered \o t, pos' = pos + Len(t),
         UNCHANGED <<diskVars, devices, sb, node, file>>, sb[file] = Dev => IsDir(file)
  PROVE  ReadOK'
<1>1. delivered \in Seq(Given) /\ Len(delivered) = pos /\ \A i \in 1 .. pos : delivered[i] = Holds(i)
  BY DEF ReadOK
<1>2. /\ delivered \o t \in Seq(Given) /\ Len(delivered \o t) = pos'
      /\ \A i \in 1 .. pos' : (delivered \o t)[i] = Holds(i)
  BY <1>1, ReadOn
<1>3. \A i : Holds(i)' = Holds(i)
  BY DEF Holds, IsDirectory, GetNode, diskVars
<1>4. /\ delivered' \in Seq(Given) /\ Len(delivered') = pos' /\ \A i \in 1 .. pos' : delivered'[i] = Holds(i)'
  BY <1>2, <1>3
<1>5. IsDir(file)' = IsDir(file) /\ sb'[file'] = sb[file]
  BY DEF IsDir, IsDirectory, GetNode, diskVars
<1> QED BY <1>4, <1>5, EntryFacts DEF ReadOK

(* The entries of a directory are given to who reads it.                   *)
LEMMA HoldsGiven ==
  ASSUME FileInv, file # 0, sb[file] = Disk, NEW i \in 1 .. Size(node[file])
  PROVE  Holds(i) \in Given
<1>1. node[file] \in 1 .. Len(nodes.elems) /\ Size(node[file]) \in Nat
  BY OpenFacts DEF FileInv
<1>2. CASE IsDirectory(node[file])
  <2>1. PICK m \in 1 .. Len(nodes.elems) : m = node[file]
    BY <1>1
  <2>2. i \in 1 .. Len(nodes.elems[m].entries.elems) /\ GetNode(m) = nodes.elems[m]
        /\ HoldsKids(archive, nodes.elems, nodes.elems[m])
    BY <1>2, <2>1, NodeOfDisk DEF FileInv, Size
  <2>3. nodes.elems[m].entries.elems[i] \in DirEntry
    BY <2>2 DEF HoldsKids, KidEntry
  <2> QED BY <1>2, <2>1, <2>2, <2>3 DEF Holds, Given
<1>3. CASE ~IsDirectory(node[file])
  <2>1. i \in Nat
    BY <1>1
  <2> QED BY <1>3, <2>1 DEF Holds, Given
<1> QED BY <1>2, <1>3

LEMMA ReadKeeps ==
  ASSUME FileInv, ReadOK, file # 0, NEW count \in Nat, Read(count),
         UNCHANGED <<diskVars, devices, sb, node, file>>
  PROVE  ReadOK'
<1>1. PICK n : n = RealCount(count)
  OBVIOUS
<1>2. sb[file] = Disk
  BY DEF Read
<1>3. pos \in 0 .. Size(node[file]) /\ Size(node[file]) \in Nat
  BY <1>2, OpenFacts DEF FileInv, PosOK
<1>4. n \in Nat /\ pos + n \in 0 .. Size(node[file])
  BY <1>1, <1>3, RealCountFits DEF RealCount
<1> DEFINE e(i) == IF IsDir(file) THEN GetNode(node[file]).entries.elems[pos + i] ELSE pos + i
<1> DEFINE t == [i \in 1 .. n |-> e(i)]
<1>5. ASSUME NEW i \in 1 .. n PROVE e(i) = Holds(pos + i) /\ e(i) \in Given
  <2>1. PICK j \in 1 .. Size(node[file]) : j = pos + i
    <3>1. pos + i \in 1 .. Size(node[file])
      BY <1>3, <1>4
    <3> QED BY <3>1
  <2>2. Holds(j) \in Given
    BY <1>2, HoldsGiven
  <2>3. e(i) = Holds(j)
    BY <1>2, <2>1 DEF Holds, IsDir
  <2> QED BY <2>1, <2>2, <2>3
<1>6. delivered' = delivered \o t /\ pos' = pos + n
  BY <1>1 DEF Read
<1> HIDE DEF e
<1>7. t \in Seq(Given) /\ Len(t) = n /\ \A i \in 1 .. n : t[i] = Holds(pos + i)
  <2>1. \A i \in 1 .. n : t[i] = e(i) /\ e(i) \in Given
    BY <1>5
  <2>2. t \in Seq(Given) /\ Len(t) = n
    BY <1>4, <2>1
  <2> QED BY <1>5, <2>1, <2>2
<1> HIDE DEF t
<1> QED BY <1>2, <1>6, <1>7, ReadMore, EntryFacts

(* Of one device, a call lists it or nothing.                              *)
LEMMA ReadDevicesKeeps ==
  ASSUME FileInv, ReadOK, file # 0, Len(devices) <= 1, NEW count \in Nat, ReadDevices(count),
         UNCHANGED <<diskVars, devices, sb, node, file>>
  PROVE  ReadOK'
<1>1. PICK n : n = IF pos + count > Len(devices) THEN Len(devices) - pos ELSE count
  OBVIOUS
<1>2. sb[file] = Dev /\ IsDir(file) /\ sb[file] # Disk
  BY EntryFacts DEF ReadDevices
<1>3. Len(devices) \in Nat /\ pos \in 0 .. Len(devices) /\ devices \in Seq(Names)
  BY <1>2 DEF FileInv, PosOK
<1>4. n \in Nat /\ pos + n \in 0 .. Len(devices)
  BY <1>1, <1>3, RealCountFits
<1> DEFINE e(i) == IF i = 1 THEN [inode |-> pos + n + 1, name |-> devices[pos + n]] ELSE Junk
<1> DEFINE t == [i \in 1 .. n |-> e(i)]
<1>5. ASSUME NEW i \in 1 .. n PROVE e(i) = Holds(pos + i) /\ e(i) \in Given
  <2>1. i = 1 /\ pos = 0 /\ n = 1 /\ pos + i = 1 /\ pos + n = 1 /\ 1 \in 1 .. Len(devices)
    BY <1>3, <1>4
  <2>2. e(i) = [inode |-> 1 + 1, name |-> devices[1]]
    BY <2>1
  <2>3. Holds(1) = [inode |-> 1 + 1, name |-> devices[1]]
    BY <1>2 DEF Holds
  <2>4. devices[1] \in Names
    BY <1>3, <2>1
  <2>5. [inode |-> 1 + 1, name |-> devices[1]] \in DirEntry
    BY <2>4 DEF DirEntry
  <2> HIDE DEF e
  <2> QED BY <2>1, <2>2, <2>3, <2>5 DEF Given
<1>6. delivered' = delivered \o t /\ pos' = pos + n
  BY <1>1 DEF ReadDevices
<1> HIDE DEF e
<1>7. t \in Seq(Given) /\ Len(t) = n /\ \A i \in 1 .. n : t[i] = Holds(pos + i)
  <2>1. \A i \in 1 .. n : t[i] = e(i) /\ e(i) \in Given
    BY <1>5
  <2>2. t \in Seq(Given) /\ Len(t) = n
    BY <1>4, <2>1
  <2> QED BY <1>5, <2>1, <2>2
<1> HIDE DEF t
<1> QED BY <1>2, <1>6, <1>7, ReadMore

LEMMA LseekKeeps ==
  ASSUME FileInv, ReadOK, file # 0, NEW offset \in -1 .. 1, NEW from \in {0, pos, FileSize},
         Lseek(offset, from), UNCHANGED <<diskVars, devices, sb, node, file>>
  PROVE  ReadOK'
<1>1. sb[file] = Disk /\ ~IsDir(file) /\ ~IsDirectory(node[file])
  BY DEF Lseek, IsDir
<1>2. PICK n \in Nat : n = offset + from
  <2>1. pos \in Int /\ FileSize \in Nat
    BY <1>1, OpenFacts, DiskAssumption DEF FileInv, PosOK
  <2>2. offset + from \in Int /\ offset + from >= 0
    BY <2>1 DEF Lseek, InFile
  <2> QED BY <2>2
<1>3. pos' = n /\ delivered' = [i \in 1 .. n |-> i]
  BY <1>2 DEF Lseek
<1>4. [i \in 1 .. n |-> i] \in Seq(Given) /\ Len([i \in 1 .. n |-> i]) = n
  <2>1. \A i \in 1 .. n : i \in Given
    BY DEF Given
  <2> QED BY <2>1
<1>5. \A i : Holds(i)' = i
  <2>1. sb'[file'] = Disk /\ ~IsDirectory(node[file])'
    BY <1>1 DEF IsDirectory, GetNode, diskVars
  <2> QED BY <2>1 DEF Holds
<1>6. sb'[file'] # Dev
  BY <1>1, EntryFacts
<1> QED BY <1>3, <1>4, <1>5, <1>6 DEF ReadOK

LEMMA NextOrder ==
  ASSUME SmallDisks, Len(Devices) <= 1, OrderInv, [Next]_vars
  PROVE  OrderInv'
<1>1. FileInv'
  BY NextFile DEF OrderInv
<1>2. Len(devices') <= 1
  <2>1. devices' = devices \/ devices' = Devices
    BY DEF Next, vars, tableVars, MountDisk, MountDevices, StartWalk, GoToParent, GoToChild, WalkFails,
           OpenRefused, HandleFails, OpenFile, OpenBinary, Read, ReadDevices, Lseek, Unchanged, CloseBinary
  <2> QED BY <2>1 DEF OrderInv
<1>3. ReadOK'
  <2> SUFFICES ASSUME file' # 0 PROVE ReadOK'
    BY DEF ReadOK
  <2>1. CASE file = 0 /\ OpenBinary
    <3>1. pos' = 0 /\ delivered' = << >>
      BY <2>1 DEF OpenBinary
    <3> QED BY <3>1 DEF ReadOK
  <2>2. CASE /\ file # 0 /\ UNCHANGED <<diskVars, devices, sb, node, file>>
             /\ \/ \E count \in 0 .. MaxCount : Read(count) \/ ReadDevices(count)
                \/ \E offset \in -1 .. 1, from \in {0, pos, FileSize} : Lseek(offset, from)
                \/ UNCHANGED vars
    <3>1. \A count \in 0 .. MaxCount : count \in Nat
      BY FilesAssumption
    <3>2. CASE \E count \in 0 .. MaxCount : Read(count) \/ ReadDevices(count)
      BY <2>2, <3>1, <3>2, ReadKeeps, ReadDevicesKeeps DEF OrderInv
    <3>3. CASE \E offset \in -1 .. 1, from \in {0, pos, FileSize} : Lseek(offset, from)
      BY <2>2, <3>3, LseekKeeps DEF OrderInv
    <3>4. CASE UNCHANGED vars
      <4>1. \A i : Holds(i)' = Holds(i)
        BY <2>2 DEF Holds, IsDirectory, GetNode, diskVars
      <4>2. IsDir(file)' = IsDir(file)
        BY <2>2 DEF IsDir, IsDirectory, GetNode, diskVars
      <4>3. pos' = pos /\ delivered' = delivered
        BY <3>4 DEF vars, fileVars
      <4> QED BY <2>2, <4>1, <4>2, <4>3 DEF ReadOK, OrderInv
    <3> QED BY <2>2, <3>2, <3>3, <3>4
  <2> QED BY <2>1, <2>2, FileStep DEF OrderInv, FileInv
<1> QED BY <1>1, <1>2, <1>3 DEF OrderInv

-----------------------------------------------------------------------------
(* The k-th of a set is the one with k - 1 below it.                       *)
IsKth(S, k, x) == x \in S /\ Cardinality({c \in S : c < x}) = k - 1

LEMMA KthIs ==
  ASSUME NEW n \in Nat, NEW f, \A i \in 1 .. n : f[i] \in Nat,
         \A i, j \in 1 .. n : i < j => f[i] < f[j],
         NEW S, \A x : x \in S <=> \E i \in 1 .. n : x = f[i]
  PROVE  \A i \in 1 .. n : \A x : IsKth(S, i, x) <=> x = f[i]
<1> DEFINE Below(i) == {c \in S : c < f[i]}
<1> DEFINE Good == {k \in 0 .. n : k > 0 => IsFiniteSet(Below(k)) /\ Cardinality(Below(k)) = k - 1}
<1>1. 0 \in Good
  OBVIOUS
<1>2. ASSUME NEW k \in 1 .. n, k - 1 \in Good PROVE k \in Good
  <2>1. CASE k = 1
    <3>1. ASSUME NEW c \in S PROVE ~(c < f[1])
      <4>1. PICK i \in 1 .. n : c = f[i]
        OBVIOUS
      <4>2. 1 \in 1 .. n /\ (i = 1 \/ 1 < i)
        BY <2>1
      <4> QED BY <4>1, <4>2
    <3>2. Below(1) = {}
      BY <3>1
    <3>3. IsFiniteSet({}) /\ Cardinality({}) = 0
      BY FS_EmptySet
    <3> QED BY <2>1, <3>2, <3>3
  <2>2. CASE k # 1
    <3>1. PICK p \in 1 .. n : k = p + 1
      <4>1. k - 1 \in 1 .. n /\ k = (k - 1) + 1
        BY <2>2
      <4> QED BY <4>1
    <3>2. IsFiniteSet(Below(p)) /\ Cardinality(Below(p)) = p - 1
      <4>1. p \in Good /\ p > 0
        <5>1. p = k - 1
          BY <3>1
        <5> HIDE DEF Good
        <5> QED BY <1>2, <3>1, <5>1
      <4> QED BY <4>1
    <3>3. ASSUME NEW c \in S PROVE c < f[k] <=> (c < f[p] \/ c = f[p])
      <4>1. PICK i \in 1 .. n : c = f[i]
        OBVIOUS
      <4>2. i < p \/ i = p \/ i = k \/ k < i
        BY <3>1
      <4> QED BY <3>1, <4>1, <4>2
    <3>4. f[p] \in S /\ ~(f[p] < f[p])
      OBVIOUS
    <3>5. Below(k) = Below(p) \cup {f[p]} /\ f[p] \notin Below(p)
      BY <3>3, <3>4
    <3> HIDE DEF Below
    <3>6. IsFiniteSet(Below(k)) /\ Cardinality(Below(k)) = Cardinality(Below(p)) + 1
      <4>1. PICK B : B = Below(p)
        OBVIOUS
      <4>2. PICK y : y = f[p]
        OBVIOUS
      <4>3. IsFiniteSet(B) /\ y \notin B /\ Below(k) = B \cup {y}
        BY <3>2, <3>5, <4>1, <4>2
      <4>4. IsFiniteSet(B \cup {y}) /\ Cardinality(B \cup {y}) = Cardinality(B) + 1
        BY ONLY <4>3, FS_AddElement
      <4> QED BY <4>1, <4>3, <4>4
    <3>7. Cardinality(Below(k)) = k - 1
      BY <3>1, <3>2, <3>6
    <3> QED BY <3>6, <3>7
  <2> QED BY <2>1, <2>2
<1>3. 0 .. n \subseteq Good
  <2> HIDE DEF Good
  <2> QED BY <1>1, <1>2, StepByStep
<1>4. ASSUME NEW i \in 1 .. n PROVE Cardinality(Below(i)) = i - 1 /\ f[i] \in S
  <2>1. i \in Good /\ i > 0
    <3>1. i \in 0 .. n
      OBVIOUS
    <3> HIDE DEF Good
    <3> QED BY <1>3, <3>1
  <2> QED BY <2>1
<1>5. ASSUME NEW i \in 1 .. n, NEW x PROVE IsKth(S, i, x) <=> x = f[i]
  <2>1. ASSUME x = f[i] PROVE IsKth(S, i, x)
    BY <1>4, <2>1 DEF IsKth
  <2>2. ASSUME IsKth(S, i, x) PROVE x = f[i]
    <3>1. PICK j \in 1 .. n : x = f[j]
      BY <2>2 DEF IsKth
    <3>2. Cardinality(Below(j)) = i - 1
      BY <2>2, <3>1 DEF IsKth
    <3>3. Cardinality(Below(j)) = j - 1
      BY <1>4
    <3> HIDE DEF Below
    <3>4. i = j
      BY <3>2, <3>3
    <3> QED BY <3>1, <3>4
  <2> QED BY <2>1, <2>2
<1> QED BY <1>5

(* The entries of a directory are the children of its header, in order.    *)
LEMMA KidsInOrder ==
  ASSUME DiskInv, Mounted, NEW m \in 1 .. Len(nodes.elems),
         NEW i \in 1 .. Len(nodes.elems[m].entries.elems)
  PROVE  LET kids == {k \in DOMAIN archive : Child(archive[nodes.elems[m].header], archive[k])}
             e    == nodes.elems[m].entries.elems[i]
         IN  e # Junk /\ e.name = Last(archive[CHOOSE k \in kids : IsKth(kids, i, k)].path)
<1> DEFINE a == archive
<1> DEFINE nds == nodes.elems
<1> DEFINE es == nds[m].entries.elems
<1> DEFINE kids == {k \in DOMAIN a : Child(a[nds[m].header], a[k])}
<1> DEFINE f == [j \in 1 .. Len(es) |-> nds[es[j].inode].header]
<1>1. /\ HoldsKids(a, nds, nds[m]) /\ Len(es) \in Nat /\ nds[m].header \in 1 .. Len(a)
      /\ Len(a) \in Nat /\ DOMAIN a = 1 .. Len(a)
  BY NodeOfDisk, DiskFacts, ArchiveFacts
<1>2. \A j \in 1 .. Len(es) : KidEntry(a, nds, nds[m].header, es[j])
  BY <1>1 DEF HoldsKids
<1>3. \A j \in 1 .. Len(es) : f[j] = nds[es[j].inode].header /\ f[j] \in 1 .. Len(a) /\ f[j] \in kids
  BY <1>1, <1>2 DEF KidEntry
<1>4. \A j, k \in 1 .. Len(es) : j < k => f[j] < f[k]
  BY <1>1 DEF HoldsKids
<1>5. ASSUME NEW h \in kids PROVE \E j \in 1 .. Len(es) : h = f[j]
  <2>1. h \in 1 .. Len(a)
    BY <1>1
  <2>2. PICK num \in 1 .. Len(nds) : nds[num].header = h
    <3>1. h \in 1 .. cursor - 1 /\ 1 .. Len(parsing) = {}
      BY <2>1, DiskFacts DEF DiskInv, Finished, Mounted
    <3> QED BY <3>1 DEF DiskInv, Parted
  <2>3. Child(a[nds[m].header], a[nds[num].header])
    BY <2>2
  <2>4. HasEntry(nds[m], num)
    BY <2>3, LookupFindsKid
  <2>5. PICK j \in 1 .. Len(es) : es[j].inode = num
    BY <2>4 DEF HasEntry
  <2> QED BY <2>2, <2>5
<1> HIDE DEF f
<1>6. \A x : x \in kids <=> \E j \in 1 .. Len(es) : x = f[j]
  BY <1>3, <1>5
<1>7. \A j \in 1 .. Len(es) : f[j] \in Nat
  BY <1>1, <1>3
<1> HIDE DEF kids
<1>8. \A x : IsKth(kids, i, x) <=> x = f[i]
  <2>1. \A j \in 1 .. Len(es) : \A x : IsKth(kids, j, x) <=> x = f[j]
    BY <1>1, <1>4, <1>6, <1>7, KthIs
  <2> QED BY <2>1
<1>9. (CHOOSE k \in kids : IsKth(kids, i, k)) = f[i]
  <2>1. f[i] \in kids
    BY <1>3
  <2> QED BY <1>8, <2>1
<1>10. es[i] # Junk /\ es[i].name = Last(a[f[i]].path)
  <2>1. es[i] \in DirEntry /\ es[i].name = Last(a[nds[es[i].inode].header].path)
    BY <1>2 DEF KidEntry
  <2> QED BY <1>3, <2>1, JunkAssumption
<1> QED BY <1>9, <1>10 DEF kids

LEMMA DeliversInOrder ==
  ASSUME OrderInv
  PROVE  DeliveredInOrder
<1> SUFFICES ASSUME file # 0 PROVE DeliveredInOrder
  BY DEF DeliveredInOrder
<1> DEFINE h == GetNode(node[file]).header
<1> DEFINE kids == {k \in DOMAIN archive : Child(archive[h], archive[k])}
<1> DEFINE kid(i) == CHOOSE k \in kids : Cardinality({c \in kids : c < k}) = i - 1
<1> DEFINE name(i) == IF sb[file] = Disk THEN Last(archive[kid(i)].path) ELSE devices[i]
<1>1. /\ delivered \in Seq(Given) /\ Len(delivered) = pos /\ DOMAIN delivered = 1 .. pos
      /\ \A i \in 1 .. pos : delivered[i] = Holds(i)
      /\ sb[file] = Dev /\ ~IsDir(file) => pos = 0
  BY DEF OrderInv, ReadOK
<1>2. sb[file] \in Roots /\ Mounted /\ DiskInv /\ TreeInv /\ devices \in Seq(Names)
  BY OpenFacts DEF OrderInv, FileInv, TreeInv, TreeType
<1>3. CASE sb[file] = Disk
  <2>1. PICK m \in 1 .. Len(nodes.elems) : m = node[file]
    BY <1>2, <1>3, OpenFacts
  <2>2. GetNode(m) = nodes.elems[m] /\ pos \in 0 .. Size(m)
    BY <1>2, <1>3, <2>1, NodeOfDisk DEF OrderInv, FileInv, PosOK
  <2>3. ASSUME NEW i \in 1 .. pos, IsDir(file) PROVE delivered[i] # Junk /\ delivered[i].name = name(i)
    <3>1. IsDirectory(m)
      BY <1>3, <2>1, <2>3 DEF IsDir
    <3>2. Size(m) = Len(nodes.elems[m].entries.elems) /\ Len(nodes.elems[m].entries.elems) \in Nat
      BY <1>2, <2>2, <3>1, NodeOfDisk DEF Size
    <3>3. i \in 1 .. Len(nodes.elems[m].entries.elems)
      BY <2>2, <3>2
    <3>4. delivered[i] = nodes.elems[m].entries.elems[i]
      BY <1>1, <1>3, <2>1, <2>2, <3>1 DEF Holds
    <3>5. h = nodes.elems[m].header
      BY <2>1, <2>2
    <3>6. \A k \in kids : IsKth(kids, i, k) <=> Cardinality({c \in kids : c < k}) = i - 1
      BY DEF IsKth
    <3>7. kid(i) = CHOOSE k \in kids : IsKth(kids, i, k)
      <4> HIDE DEF kids
      <4> QED BY <3>6
    <3>8. nodes.elems[m].entries.elems[i] # Junk
          /\ nodes.elems[m].entries.elems[i].name = Last(archive[CHOOSE k \in kids : IsKth(kids, i, k)].path)
      BY <1>2, <3>3, <3>5, KidsInOrder
    <3> HIDE DEF kid, kids
    <3> QED BY <1>3, <3>4, <3>7, <3>8
  <2>4. ASSUME NEW i \in 1 .. pos, ~IsDir(file) PROVE delivered[i] = i
    BY <1>1, <1>3, <2>4 DEF Holds, IsDir
  <2> HIDE DEF name
  <2>5. \A i \in DOMAIN delivered : IF IsDir(file) THEN delivered[i] # Junk /\ delivered[i].name = name(i)
                                    ELSE delivered[i] = i
    BY <1>1, <2>3, <2>4
  <2> QED BY <1>1, <2>5 DEF DeliveredInOrder, name
<1>4. CASE sb[file] = Dev
  <2>1. sb[file] # Disk
    BY <1>4, EntryFacts
  <2>2. ASSUME NEW i \in 1 .. pos PROVE IsDir(file) /\ delivered[i] # Junk /\ delivered[i].name = devices[i]
    <3>1. IsDir(file)
      BY <1>1, <1>4
    <3>2. delivered[i] = [inode |-> i + 1, name |-> devices[i]]
      BY <1>1, <2>1 DEF Holds
    <3>3. pos \in 0 .. Len(devices) /\ Len(devices) \in Nat
      BY <1>2, <2>1 DEF OrderInv, FileInv, PosOK
    <3>4. i \in 1 .. Len(devices) /\ i + 1 \in Nat
      BY <3>3
    <3>5. devices[i] \in Names
      BY <1>2, <3>4
    <3>6. delivered[i] \in DirEntry
      BY <3>2, <3>4, <3>5 DEF DirEntry
    <3> QED BY <3>1, <3>2, <3>6, JunkAssumption
  <2>3. \A i : name(i) = devices[i]
    BY <2>1
  <2> HIDE DEF name
  <2>4. \A i \in DOMAIN delivered : IF IsDir(file) THEN delivered[i] # Junk /\ delivered[i].name = name(i)
                                    ELSE delivered[i] = i
    BY <1>1, <2>2, <2>3
  <2> QED BY <1>1, <2>4 DEF DeliveredInOrder, name
<1> QED BY <1>2, <1>3, <1>4 DEF Roots

(* On such disks, and with the one device kmain registers, calls of any    *)
(* size deliver a directory's entries in the archive's order, each once,   *)
(* and a file's bytes in theirs, and stop at the end (DeliveredInOrder).   *)
THEOREM ReadsInOrder ==
  ASSUME SmallDisks, Len(Devices) <= 1
  PROVE  Spec => []DeliveredInOrder
<1>1. Init => OrderInv
  <2> SUFFICES ASSUME Init PROVE OrderInv
    OBVIOUS
  <2>1. devices = << >> /\ file = 0
    BY DEF Init
  <2> QED BY <2>1, InitFile DEF OrderInv, ReadOK
<1>2. OrderInv /\ [Next]_vars => OrderInv'
  BY NextOrder
<1>3. OrderInv => DeliveredInOrder
  BY DeliversInOrder
<1> QED BY <1>1, <1>2, <1>3, PTL DEF Spec
=============================================================================
