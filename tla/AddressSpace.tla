---------------------------- MODULE AddressSpace ----------------------------
(***************************************************************************)
(* User memory of the YYSloth kernel: the trees of page tables that share  *)
(* frames after a fork, the reference counts of PhysAllocator, and the     *)
(* page fault handler that copies on write (src/YYSloth/src/memory/cow.cpp,*)
(* vmmap.cpp, vmbase.cpp, physalloc.cpp and the memory calls of            *)
(* userapi.cpp).                                                           *)
(*                                                                         *)
(* A page has a number n (its address divided by the page size); the path  *)
(* to it visits Levels frames, 4 in the hardware: tables, then the page.   *)
(* Levels are counted from the root, so level 1 is p3Table of the code and *)
(* level Levels is the page itself.                                        *)
(***************************************************************************)
EXTENDS Integers, FiniteSetsExt

CONSTANTS
  Levels,    (* depth of the page tables, 4 in the hardware                *)
  Width,     (* entries per table, 512 in the hardware                     *)
  MaxFrame,  (* physical frames 1 .. MaxFrame; 0 is no frame               *)
  Procs,     (* slots for address spaces: those of processes, and those    *)
             (* that failed forks have left behind                         *)
  Nobody,    (* the idle process, which has no user memory                 *)
  Values,    (* contents of a page; the loader writes Loaded               *)
  Loaded,
  Unmapped,  (* not a value: nothing is mapped at an address               *)
  Image,     (* pages of the program                                       *)
  ReadOnly,  (* those of them mapped read-only                             *)
  Allocs,    (* pages programs ask YY_VirtualAlloc for                     *)
  Buffers,   (* pages programs hand to system calls that write to them     *)
  Cached     (* pages whose writable translation the TLB may keep          *)

Frames == 1 .. MaxFrame
Slots == 0 .. Width - 1

(* Pages an entry k levels above the pages stands for: 512^k in the        *)
(* hardware, where getP1Index .. getP4Index shift an address by 9 bits     *)
(* from level to level.                                                    *)
PagesUnder[k \in 0 .. Levels] == IF k = 0 THEN 1 ELSE Width * PagesUnder[k - 1]

Addrs == 1 .. PagesUnder[Levels] - 1   \* UserVirtualAllocator starts at 0x1000

ASSUME PagingAssumption ==
  /\ Levels \in Nat \ {0, 1} /\ Width \in Nat \ {0, 1} /\ MaxFrame \in Nat \ {0}
  /\ IsFiniteSet(Procs) /\ Nobody \notin Procs /\ Loaded \in Values /\ Unmapped \notin Values
  /\ ReadOnly \subseteq Image
  /\ Image \cup Allocs \cup Buffers \cup Cached \subseteq Addrs

VARIABLES
  tables,    \* the entries of a frame used as a page table
  data,      \* the contents of a frame used as a page
  taken,     \* frames whose bit of PhysAllocator::m_bitmap is set
  refCount, mapCount,   \* PhysicalPageInfo of each frame
  root,      \* cr3 of each process, 0 if there is no process
  cur,       \* the running process
  tlb,       \* writable translations the processor still holds, 0 if none
  loading,   \* the running process is inside Elf::load
  reserved,  \* pages its UserVirtualAllocator has given out, by process
  lost,      \* history: root frames of the dead, which nothing frees
  leaked     \* history: copies made by forks that failed after it; nobody
             \* runs in them and nothing frees them

frameVars == <<tables, data, taken, refCount, mapCount>>
vars == <<frameVars, root, cur, tlb, loading, reserved, lost, leaked>>

(***************************************************************************)
(* Page table entries.                                                     *)
(***************************************************************************)
Entries == [to : Frames \cup {0}, writable : BOOLEAN, cow : BOOLEAN, was : BOOLEAN]
Absent == [to |-> 0, writable |-> FALSE, cow |-> FALSE, was |-> FALSE]
Link(f, w) == [to |-> f, writable |-> w, cow |-> FALSE, was |-> FALSE]

(* Mutant: the entry stays writable.                                       *)
MarkedWritable(e) ==
  IF e.to = 0 \/ e.cow THEN e ELSE [e EXCEPT !.was = e.writable, !.cow = TRUE]

Marked(e) ==
  IF e.to = 0 \/ e.cow THEN e
  ELSE [e EXCEPT !.was = e.writable, !.writable = FALSE, !.cow = TRUE]

(* An entry redirected to the copy made for it.                            *)
Redirected(e, f) == [e EXCEPT !.to = f, !.cow = FALSE, !.writable = e.was]

(***************************************************************************)
(* Walks.                                                                  *)
(***************************************************************************)
Index(n, i) == (n \div PagesUnder[Levels - i]) % Width

Walk(r, n) ==
  LET w[i \in 0 .. Levels] ==
        IF i = 0 THEN r
        ELSE IF w[i - 1] = 0 THEN 0 ELSE tables[w[i - 1]][Index(n, i)].to
  IN  w

Page(p, n) == IF root[p] = 0 THEN 0 ELSE Walk(root[p], n)[Levels]
EntryAt(p, n, i) == tables[Walk(root[p], n)[i - 1]][Index(n, i)]

(* The frames below a root; all of page 0's path belongs to it too.        *)
Below(r) ==
  IF r = 0 THEN {} ELSE {Walk(r, n)[i] : n \in Addrs \cup {0}, i \in 1 .. Levels} \ {0}

HardwareWritable(p, n) ==
  /\ Page(p, n) # 0
  /\ \A i \in 1 .. Levels : EntryAt(p, n, i).writable

(* checkAndMoveToNext at every level, and the handler's own test of the    *)
(* last one: otherwise the process dies.                                   *)
FaultHandled(p, n) ==
  /\ Page(p, n) # 0
  /\ \A i \in 1 .. Levels : EntryAt(p, n, i).cow \/ EntryAt(p, n, i).writable
  /\ EntryAt(p, n, Levels).cow

(* Mutant: any mapped page will do.                                        *)
KernelWritablePresent(p, n) == Page(p, n) # 0

(* virtualPageConditionCheck of a buffer a system call will write to.      *)
KernelWritable(p, n) ==
  /\ Page(p, n) # 0
  /\ \A i \in 1 .. Levels :
       EntryAt(p, n, i).writable \/ (EntryAt(p, n, i).cow /\ EntryAt(p, n, i).was)

(***************************************************************************)
(* PhysAllocator.  newPage takes the lowest free frame; NewFrame(k) is the *)
(* answer to the k-th of several calls.                                    *)
(***************************************************************************)
Free == Frames \ taken
(* Mutant: newPage does not set the bit, so the next call finds it again.  *)
NewFrameAgain(k) == CHOOSE f \in Free : \A g \in Free : f <= g
NewFrame(k) == CHOOSE f \in Free : Cardinality({g \in Free : g < f}) = k - 1
Enough(k) == Cardinality(Free) >= k

(* freePage of every frame of F.                                           *)
FreePages(F, refs) == [f \in Frames |-> IF f \in F THEN refs[f] - 1 ELSE refs[f]]
FreedBy(F) == {f \in F : refCount[f] = 1}

-----------------------------------------------------------------------------
InUser == cur # Nobody /\ ~loading

(* deallocateUserMemory of the running process: every frame of its tree    *)
(* loses one reference, the root's user entries are cleared and the TLB is *)
(* flushed.  The root's own frame is never freed.                          *)
Deallocate ==
  /\ refCount' = FreePages(Below(root[cur]), refCount)
  /\ taken' = taken \ FreedBy(Below(root[cur]))
  /\ tables' = [tables EXCEPT ![root[cur]] = [s \in Slots |-> Absent]]
  /\ tlb' = [n \in Addrs |-> 0]
  /\ UNCHANGED <<data, mapCount>>

(* Process::cleanup: the process is gone and its root stays allocated.     *)
Gone ==
  /\ root' = [root EXCEPT ![cur] = 0]
  /\ lost' = lost \cup {root[cur]}
  /\ reserved' = [reserved EXCEPT ![cur] = {}]
  /\ loading' = FALSE

Runnable == {p \in Procs \ leaked : root[p] # 0}

(* Mutant: the dead process may be chosen to run next.                     *)
ExitMayStay == Deallocate /\ Gone /\ cur' \in Runnable \cup {Nobody} /\ UNCHANGED leaked

Exit ==
  /\ Deallocate /\ Gone
  /\ cur' \in (Runnable \ {cur}) \cup {Nobody}
  /\ UNCHANGED leaked

ExitProcess == InUser /\ Exit

(* YY_Yield and the idle process: loading cr3 flushes the TLB.             *)
Switch ==
  /\ ~loading
  /\ cur' \in (Runnable \cup {Nobody}) \ {cur}
  /\ tlb' = [n \in Addrs |-> 0]
  /\ UNCHANGED <<frameVars, root, loading, reserved, lost, leaked>>

(***************************************************************************)
(* Fork: clonePageTable.  markAsCoW marks every entry below the root and   *)
(* counts every frame once more; the new root is a copy of the old one.    *)
(***************************************************************************)
Cloned(new) ==
  LET tree == Below(root[cur])
      marked(f) == [s \in Slots |-> Marked(tables[f][s])]
  IN  [f \in Frames |-> IF f = new THEN marked(root[cur])
                        ELSE IF f \in {root[cur]} \cup tree THEN marked(f)
                        ELSE tables[f]]

Fork(c) ==
  LET tree == Below(root[cur])
      new == NewFrame(1)
  IN  /\ InUser /\ root[c] = 0 /\ Enough(1)
      /\ tables' = Cloned(new)
      /\ refCount' = [f \in Frames |-> IF f = new THEN 1
                                       ELSE IF f \in tree THEN refCount[f] + 1
                                       ELSE refCount[f]]
      /\ mapCount' = [mapCount EXCEPT ![new] = 1]
      /\ taken' = taken \cup {new}
      /\ root' = [root EXCEPT ![c] = new]
      /\ reserved' = [reserved EXCEPT ![c] = reserved[cur]]
      /\ UNCHANGED <<data, cur, tlb, loading, lost, leaked>>

(* Without a frame for the root, or memory for the records of the child,   *)
(* sysForkWithFrame cleans up in the memory of its caller, which then dies *)
(* at its next instruction.                                                *)
ForkFails == InUser /\ Exit

(* The same when DescriptorTable::copy fails, but then the tree has been   *)
(* copied: cleanup gives back in the caller what the copy has counted, and *)
(* the copy stays, with a root of its own and holding all of the tree.     *)
ForkCopyFails(c) ==
  LET new == NewFrame(1)
  IN  /\ InUser /\ root[c] = 0 /\ Enough(1)
      /\ tables' = [Cloned(new) EXCEPT ![root[cur]] = [s \in Slots |-> Absent]]
      /\ refCount' = [refCount EXCEPT ![new] = 1]
      /\ mapCount' = [mapCount EXCEPT ![new] = 1]
      /\ taken' = taken \cup {new}
      /\ root' = [root EXCEPT ![c] = new, ![cur] = 0]
      /\ lost' = lost \cup {root[cur]}
      /\ leaked' = leaked \cup {c}
      /\ reserved' = [reserved EXCEPT ![cur] = {}]
      /\ cur' \in (Runnable \ {cur}) \cup {Nobody}
      /\ tlb' = [n \in Addrs |-> 0]
      /\ UNCHANGED <<data, loading>>

(***************************************************************************)
(* User writes.                                                            *)
(***************************************************************************)
Write(n, v) ==
  /\ InUser /\ HardwareWritable(cur, n)
  /\ data' = [data EXCEPT ![Page(cur, n)] = v]
  /\ tlb' = IF n \in Cached THEN [tlb EXCEPT ![n] = Page(cur, n)] ELSE tlb
  /\ UNCHANGED <<tables, taken, refCount, mapCount, root, cur, loading, reserved, lost, leaked>>

(* The processor may use a translation it holds without a new walk.        *)
WriteThroughTLB(n, v) ==
  /\ InUser /\ tlb[n] # 0
  /\ data' = [data EXCEPT ![tlb[n]] = v]
  /\ UNCHANGED <<tables, taken, refCount, mapCount, root, cur, tlb, loading, reserved, lost, leaked>>

(* Mutant: only the page is copied, never a shared table above it.         *)
CopyFromPageOnly(p, n) == Levels

(* The highest level down from which every entry is shared: frames from    *)
(* there to the page are copied.                                           *)
CopyFrom(p, n) ==
  Min({i \in 1 .. Levels : \A j \in i .. Levels : EntryAt(p, n, j).cow})

(* pageFaultHandler: the page first, then the tables above it, each copy   *)
(* pointing to the one below; the old frames lose one reference.  When a   *)
(* frame is missing the handler gives back the others and the instruction  *)
(* faults again: no change.                                                *)
CopyOnWrite(n) ==
  LET from == CopyFrom(cur, n)
      old == Walk(root[cur], n)
      copied == from .. Levels
      new == [i \in copied |-> NewFrame(Levels - i + 1)]
      made == {new[i] : i \in copied}
      left == {old[i] : i \in copied}
      pathCopy(i) == IF i = Levels THEN tables[old[i]]
                     ELSE [tables[old[i]] EXCEPT
                             ![Index(n, i + 1)] = Redirected(@, new[i + 1])]
  IN  /\ InUser /\ FaultHandled(cur, n) /\ ~HardwareWritable(cur, n)
      /\ Enough(Levels - from + 1)
      /\ tables' = [f \in Frames |->
           IF f \in made
             THEN pathCopy(CHOOSE i \in copied : f = new[i])
           ELSE IF f = old[from - 1]
             THEN [tables[f] EXCEPT ![Index(n, from)] = Redirected(@, new[from])]
           ELSE tables[f]]
      /\ data' = [data EXCEPT ![new[Levels]] = data[old[Levels]]]
      /\ refCount' = FreePages(left,
           [f \in Frames |-> IF f \in made THEN 1 ELSE refCount[f]])
      /\ mapCount' = [f \in Frames |-> IF f \in made THEN 1 ELSE mapCount[f]]
      /\ taken' = (taken \cup made) \ FreedBy(left)
      /\ tlb' = [tlb EXCEPT ![n] = 0]
      /\ UNCHANGED <<root, cur, loading, reserved, lost, leaked>>

(* A write the handler does not allow.                                     *)
Killed(n) == InUser /\ ~HardwareWritable(cur, n) /\ ~FaultHandled(cur, n) /\ Exit

(* A system call stores a result in a user buffer.  CR0.WP is never set,   *)
(* so the processor checks nothing and no fault occurs.                    *)
KernelWrite(n, v) ==
  /\ InUser /\ n \in Buffers /\ KernelWritable(cur, n)
  /\ data' = [data EXCEPT ![Page(cur, n)] = v]
  /\ UNCHANGED <<tables, taken, refCount, mapCount, root, cur, tlb, loading, reserved, lost, leaked>>

(***************************************************************************)
(* mapNewPageAt in the running process.  It writes to the tables on the    *)
(* path whether they are shared or not, makes those that are missing, and  *)
(* counts in mapCount one more than the entries it has put in a table.  A  *)
(* page that is there gets new flags.                                      *)
(***************************************************************************)
FirstMissing(n) ==
  Min({i \in 1 .. Levels : Walk(root[cur], n)[i] = 0} \cup {Levels + 1})

Missing(n) == Levels + 1 - FirstMissing(n)   \* frames mapNewPageAt needs

MapPage(n, w) ==
  LET first == FirstMissing(n)
      old == Walk(root[cur], n)
      levels == first .. Levels   \* those without a frame
      at == [i \in 0 .. Levels |-> IF i < first THEN old[i] ELSE NewFrame(i - first + 1)]
      made == {at[i] : i \in levels}
      link(i) == Link(at[i], IF i = Levels THEN w ELSE TRUE)
      linked == Min({first, Levels})   \* the level whose entry changes
  IN  /\ Enough(Missing(n))
      /\ tables' = [f \in Frames |->
           IF f = at[linked - 1]
             THEN [tables[f] EXCEPT ![Index(n, linked)] = link(linked)]
           ELSE IF f \in made \ {at[Levels]}
             THEN LET i == CHOOSE i \in levels : f = at[i]
                  IN  [s \in Slots |-> IF s = Index(n, i + 1) THEN link(i + 1) ELSE Absent]
           ELSE tables[f]]
      /\ taken' = taken \cup made
      /\ refCount' = [f \in Frames |-> IF f \in made THEN 1 ELSE refCount[f]]
      /\ mapCount' = [f \in Frames |->
           IF f \in made THEN IF f = at[Levels] THEN 1 ELSE 2
           ELSE IF first \in 2 .. Levels /\ f = old[first - 1] THEN mapCount[f] + 1
           ELSE mapCount[f]]
      /\ tlb' = [tlb EXCEPT ![n] = 0]

(* When newPage fails for the frame of level "failed", every table above   *)
(* it loses one mapping, also those that gained none, and a table without  *)
(* mappings is unlinked and freed with all it holds.                       *)
MapFails(n) ==
  LET first == FirstMissing(n)
      old == Walk(root[cur], n)
      failed == first + Cardinality(Free)
      levels == first .. failed - 2   \* those whose new table stays
      at == [i \in levels |-> NewFrame(i - first + 1)]
      kept == {at[i] : i \in levels}
      charged == IF failed = first THEN 1 .. first - 1 ELSE 1 .. first - 2
      dropped == {i \in charged : mapCount[old[i]] = 1}
      gone == {old[i] : i \in dropped}
      link(i) == IF i \in levels THEN Link(at[i], TRUE) ELSE Absent
  IN  /\ ~Enough(Missing(n))
      /\ tables' = [f \in Frames |-> [s \in Slots |->
           IF f \in kept
             THEN LET i == CHOOSE i \in levels : f = at[i]
                  IN  IF s = Index(n, i + 1) THEN link(i + 1) ELSE Absent
           ELSE IF kept # {} /\ f = old[first - 1] /\ s = Index(n, first)
             THEN link(first)
           ELSE IF \E i \in dropped : f = old[i - 1] /\ s = Index(n, i)
             THEN Absent
           ELSE tables[f][s]]]
      /\ taken' = (taken \cup kept) \ FreedBy(gone)
      /\ refCount' = FreePages(gone, [f \in Frames |-> IF f \in kept THEN 1 ELSE refCount[f]])
      /\ mapCount' = [f \in Frames |->
           IF f \in kept THEN 1
           ELSE IF \E i \in charged : f = old[i] THEN mapCount[f] - 1
           ELSE mapCount[f]]
      /\ tlb' = [tlb EXCEPT ![n] = 0]

(***************************************************************************)
(* Elf::load, page after page, for process 1 and after an exec.  A load    *)
(* that finds no frame ends the process; the trees it has built are fresh, *)
(* so what mapNewPageAt undoes first makes no difference.                  *)
(***************************************************************************)
Load ==
  /\ loading
  /\ UNCHANGED <<root, cur, lost, leaked>>
  /\ LET todo == {n \in Image : Page(cur, n) = 0}
     IN  \E n \in todo :
           /\ n = Min(todo)
           /\ MapPage(n, n \notin ReadOnly)
           /\ data' = [data EXCEPT ![Page(cur, n)'] = Loaded]
           /\ reserved' = [reserved EXCEPT ![cur] = @ \cup {n}]
           /\ loading' = (todo # {n})

LoadFails ==
  /\ loading
  /\ \E n \in Image : Page(cur, n) = 0 /\ ~Enough(Missing(n))
  /\ Exit

Execute ==
  /\ InUser
  /\ Deallocate
  /\ reserved' = [reserved EXCEPT ![cur] = {}]
  /\ loading' = TRUE
  /\ UNCHANGED <<root, cur, lost, leaked>>

(* YY_VirtualAlloc of one writable page.                                   *)
VirtualAlloc(n) ==
  /\ InUser /\ n \in Allocs \ reserved[cur]
  /\ \/ /\ MapPage(n, TRUE)
        /\ reserved' = [reserved EXCEPT ![cur] = @ \cup {n}]
     \/ /\ MapFails(n)
        /\ UNCHANGED reserved
  /\ UNCHANGED <<data, root, cur, loading, lost, leaked>>

(* YY_VirtualFree of one page.  freePages takes the end of a range and is  *)
(* given its size, which no page number is below: only the allocator hears *)
(* of the call.                                                            *)
VirtualFree(n) ==
  /\ InUser /\ n \in Allocs \cap reserved[cur]
  /\ Page(cur, n) # 0
  /\ reserved' = [reserved EXCEPT ![cur] = @ \ {n}]
  /\ UNCHANGED <<frameVars, root, cur, tlb, loading, lost, leaked>>

-----------------------------------------------------------------------------
(* The first process with an empty tree, about to load its program.        *)
Init ==
  /\ tables = [f \in Frames |-> [s \in Slots |-> Absent]]
  /\ data = [f \in Frames |-> Loaded]
  /\ taken = {1}
  /\ refCount = [f \in Frames |-> IF f = 1 THEN 1 ELSE 0]
  /\ mapCount = [f \in Frames |-> IF f = 1 THEN 1 ELSE 0]
  /\ \E p \in Procs : root = [q \in Procs |-> IF q = p THEN 1 ELSE 0] /\ cur = p
  /\ tlb = [n \in Addrs |-> 0]
  /\ loading = TRUE
  /\ reserved = [p \in Procs |-> {}] /\ lost = {} /\ leaked = {}

Next ==
  \/ Switch \/ ExitProcess \/ ForkFails \/ Load \/ LoadFails \/ Execute
  \/ \E c \in Procs : Fork(c) \/ ForkCopyFails(c)
  \/ \E n \in Addrs :
       \/ CopyOnWrite(n) \/ Killed(n) \/ VirtualAlloc(n) \/ VirtualFree(n)
       \/ \E v \in Values : Write(n, v) \/ WriteThroughTLB(n, v) \/ KernelWrite(n, v)

Spec == Init /\ [][Next]_vars

-----------------------------------------------------------------------------
TypeOK ==
  /\ tables \in [Frames -> [Slots -> Entries]]
  /\ data \in [Frames -> Values] /\ taken \subseteq Frames
  /\ refCount \in [Frames -> Int] /\ mapCount \in [Frames -> Int]
  /\ root \in [Procs -> Frames \cup {0}]
  /\ leaked \subseteq {p \in Procs : root[p] # 0}
  /\ cur \in (Procs \cup {Nobody}) \ leaked
  /\ (cur # Nobody => root[cur] # 0)
  /\ tlb \in [Addrs -> Frames \cup {0}] /\ loading \in BOOLEAN
  /\ reserved \in [Procs -> SUBSET Addrs] /\ lost \subseteq Frames

(* The reference count of a frame is the number of address spaces that     *)
(* reach it, however their trees share tables, so no frame is freed while  *)
(* someone reaches it; and nothing is lost but the roots of the dead and   *)
(* what is held by the address spaces that failed forks leave behind.      *)
Roots == {root[p] : p \in Procs} \ {0}
Holders(f) == {p \in Procs : f \in Below(root[p])}
RefCountsAreHolders ==
  /\ taken = Roots \cup lost \cup UNION {Below(r) : r \in Roots}
  /\ \A f \in taken : refCount[f] = IF f \in Roots \cup lost THEN 1
                                    ELSE Cardinality(Holders(f))

(* The nodes of one tree are distinct frames: no page is mapped twice and  *)
(* no table is also a page, whatever calls succeed or fail half-way.       *)
Node(i, n) == <<i, n \div PagesUnder[Levels - i]>>
NoAliases ==
  \A p \in Procs : root[p] # 0 =>
    \A n, m \in Addrs, i, j \in 1 .. Levels :
      LET f == Walk(root[p], n)[i]
      IN  f # 0 /\ f = Walk(root[p], m)[j] => Node(i, n) = Node(j, m)

(* A page of the program that is mapped read-only keeps its contents,      *)
(* although kernel code may write through it and flags can be replaced.    *)
ReadOnlyKept ==
  \A p \in Procs, n \in ReadOnly : Page(p, n) # 0 => data[Page(p, n)] = Loaded

(* What a process sees in its memory; nobody looks at what has leaked.     *)
Seen == [p \in Procs |-> [n \in Addrs |->
           IF p \in leaked \/ Page(p, n) = 0 THEN Unmapped ELSE data[Page(p, n)]]]

Private == INSTANCE PrivateMemory WITH memory <- Seen

(* The trees with their shared frames give every process a memory of its   *)
(* own, of which a fork makes a copy (YY_DuplicateProcess).                *)
ImplementsPrivateMemory == Private!Spec

(* No step of the running process changes what another one sees.           *)
OthersKeepTheirs ==
  \A p \in Procs \ {cur} : root[p] # 0 /\ root'[p] # 0 => Seen'[p] = Seen[p]

(* After a fork the two processes have separate memories (OthersKeepTheirs *)
(* in every step).                                                         *)
ForkIsolates == [][OthersKeepTheirs]_vars
=============================================================================
