# A TLA+ model of the YYSloth kernel and its shell

YayOS is a small x86-64 operating system: the kernel YYSloth
(`src/YYSloth`) and a user space of a shell, which is also process 1
(`shell/build.sh` links it as `Binaries/init`), and `uname`
(`src/YYUserspace`). This directory holds TLA+ modules translated from its
code, TLC configurations that check them on small instances, and proofs,
checked by TLAPS, of the process subsystem and the shells that run on it, of
the page tables that processes share, of physical memory, of the kernel's heap
and virtual memory, of the memory of a process from program to program, of the
ram disk and the open files, and of the shell's line.

- [1. The system](#1-the-system)
- [2. Modules](#2-modules)
- [3. Runs](#3-runs)
- [4. Fairness](#4-fairness)
- [5. Proofs](#5-proofs)
- [6. Divergences](#6-divergences)
- [7. What is not modelled](#7-what-is-not-modelled)
- [8. Plan](#8-plan)

Run a check with `tlc -config MCProcessManager.cfg MCProcessManager`, the
proofs with `tlapm CommonLemmas.tla` and the same for each of the modules whose
name ends in `Proofs`.

## 1. The system

The kernel runs with one CPU. The timer interrupt stays disabled
(`kmain.cpp:104`), so a process runs until it calls `YY_Yield` or ends: a
system call, or the handling of a page fault, is one step as far as other
processes can tell. What is concurrent is the order in which processes take
their turns, and every order of system calls across them. Mutexes do nothing,
because `ProcessManager::m_initialized` is never set.

| Part | State it keeps | Operations | Correct when |
|---|---|---|---|
| Process manager (`proc/proc.cpp`, `proc/userapi.cpp`) | pid bitmap and `m_lastCheckedIndex`; `Process` per pid with `next`/`prev`, `ppid`, `dead`, exit status, allocator; head of the run list | newProcess, freePid, schedule, suspend, kill, exit; fork, exec, exit, yield, status calls | the ring holds exactly the live processes; a dead process keeps its pid and status until it is collected; no free pid is out of reach; everyone gets a turn |
| Stack pool (`proc/stackpool.cpp`) | list of kernel stacks of the dead | getNewStack, pushStack, freeStack | a live process shares its stack with nobody; the running stack is not unmapped; dead stacks are unmapped in the end |
| Idle process (`kmain.cpp`) | where its loop stands | yields, drains the stack pool | it runs whenever the pool needs it |
| User memory (`memory/cow.cpp`, `vmmap.cpp`, `vmbase.cpp`) | the page tables, one tree per process with shared subtrees; map counts of frames | clone, copy on write, map, free, exec, exit | a process's store reaches no other process; counts are the number of holders; read-only pages stay as they are |
| User virtual allocator (`memory/usrvmmngr.cpp`) | sorted list of free areas | reserve, alloc, free | memory in use is not in the list; areas are sorted and apart |
| Kernel virtual allocator (`memory/kvmmngr.cpp`) | list of free areas, pools of its nodes | getMapping, unmapAt | no page is given out twice; neighbours are merged |
| Kernel heap (`memory/kheap.cpp`) | pools of small objects by class and number of free objects | alloc, free | no object is given out twice; a pool is in the list of its count |
| Physical memory (`memory/memoryinfo.cpp`, `tmpphysalloc.cpp`, `physalloc.cpp`) | memory map, next early frame, bitmap and its scan | newFrame, init, newPage, freePage | frames in use or reserved are not given out; no free page is missed |
| Files (`fs/vfs.cpp`, `ramdiskfs.cpp`, `devfs.cpp`, `proc/descriptor.cpp`, `core/dynarray.hpp`) | nodes of the ram disk and of the devices; directory entries with usage counts; the walk under way; table of slots; position in an open file | mount, register, walk, open, read, list, seek, close | every file of the archive is found; a path opens what it names; no entry is freed under a user; reads deliver a file once, in order |
| Exec (`YY_ExecuteBinary`, `proc/elf.cpp`) | the parsed file, what is loaded, the pages with argc and argv | check, parse, load, measure and copy arguments, start | every byte of the program and its arguments is in pages of its own; writes stay in their room; what is passed arrives |
| Shell (`shell/shell.cpp`, `init.s`), `uname` | line buffer, its end, cursor, arguments; where each shell is and for which pid it waits | keys, cutting the line, builtins, run | the buffer is an edited text; the arguments are the words of the line; run waits for its own child; the prompt comes back |

How they interact: fork takes a pid and a kernel stack (kernel virtual
allocator), clones the allocator (kernel heap), the page tables (frames) and the
descriptor table, and undoes some of it when a later step fails. Exec opens its
file through the VFS, which asks the ram disk, drops the old memory, and
reserves and maps pages for the program and its arguments. The shell forks,
executes in the child and asks for the child's status between yields. A fault
takes frames and short kernel mappings. Exit drops user memory and gives the
stack on which it runs to the pool, which the idle process empties. The kernel
heap, the stack pool, the fault handler and the ram disk share the kernel's
virtual memory.

What is hard here: failure paths in the middle of fork, exec and mapping;
frames shared at four levels of page tables by any number of processes; pids
and statuses that are kept for a parent; caches of "where the first free one
may be" (pids, frames, pools); lists linked and merged in place; and programs
that must cooperate for anything to progress. `PROJECT.json` lists these
hazards at their lines.

## 2. Modules

| Module | Code | State | Actions |
|---|---|---|---|
| `ProcessManager` | `proc.cpp`, `stackpool.cpp`, the process calls of `userapi.cpp`, loop of `kmain.cpp` | `next`, `prev`, `head`, `used`, `lastChecked`, `ppid`, `dead`, `exitInfo`, `stack`, `pool`, `mapped`, `usralloc`, `mem`, `idlePc`, `heapOk` | `Yield`, `Duplicate` and its failures, `ExitProcess`, `SecurityViolation`, `Execute...` that fail, `GetProcStatus`, `IdleYield`, `IdleFreeStack` |
| `ProcessLifecycle` | (abstract) | FIFO queue, phase of each pid, parent, exit status | `Turn`, `Create`, `Die`, `Collect` |
| `AddressSpace` | `cow.cpp`, `vmmap.cpp`, `vmbase.cpp`, counts of `physalloc.cpp`, memory calls | entries of every frame, contents, map counts, roots, stale translations, address spaces left by failed forks | `Switch`, `Fork`, `ForkFails`, `ForkCopyFails`, `CopyOnWrite`, `Killed`, `Write`, `WriteThroughTLB`, `KernelWrite`, `VirtualAlloc`, `VirtualFree`, `Load`, `LoadFails`, `Execute`, `ExitProcess` |
| `PrivateMemory` | (abstract) | what each process sees at each page | `Put`, `Fork`, `Drop`, `Switch` |
| `UserVirtualAllocator`, `Areas` | `usrvmmngr.cpp`, the memory calls of `userapi.cpp` | free areas; mapped pages; whether an end or a size has wrapped around; what is in use | operators `Reserve`, `AllocProgram`, `VirtualAlloc`, `VirtualAllocUnmapped`, `VirtualFree`, `Cleanup` |
| `ExecuteBinary` | `YY_ExecuteBinary`, `elf.cpp`, over `UserVirtualAllocator` | stage of exec, headers, lengths of the arguments, bytes of their pages | `Execute`, `ExecuteReturns`, `Parse`, `LoadSegment`, `LoadNothing`, `AllocArguments`, `CopyArgument`, `Start`, `Run`, the memory calls of the running program, `Dies` |
| `KernelVirtualAllocator`, `KernelHeap` | `kvmmngr.cpp`, `kheap.cpp` | free areas and nodes; pools, lists, search indices, objects, mappings | `Alloc`, `AllocFromNewPool`, `AllocFails`, `Free`, `Map`, `Unmap` |
| `PhysicalMemory` | `memoryinfo.cpp`, `tmpphysalloc.cpp`, `tmpvalloc.cpp`, `physalloc.cpp` | map, early frames, bitmap, scan index | `NewFrame`, `InitBitmap`, `NewPage`, `FreePage` |
| `RamDisk`, `DynArray` | `ramdiskfs.cpp`, `dynarray.hpp` | archive, stack of parseHeader's calls, nodes | `ParseHeader`; lookup as an operator |
| `Files` | `vfs.cpp`, `devfs.cpp`, `serialfs.cpp`, `descriptor.cpp`, open and exec of `userapi.cpp`, over `RamDisk` | entries with parent and count, walker, table of slots, one file in use | `MountDisk`, `MountDevices`, `StartWalk`, `GoToChild`, `GoToParent`, `WalkFails`, `OpenRefused`, `HandleFails`, `OpenFile`, `OpenBinary`, `Read`, `ReadDevices`, `Lseek`, `CloseBinary` |
| `Shell` | `shell.cpp` | buffer, length, cursor, arguments | `Key`, `AfterEscape`, `Arrow`, `EnterLine`, the builtins, `RunProgram` |
| `TextLine` | (abstract) | text and cursor | `Edit`, `Erase`, entering a line, starting the next |
| `UserSpace` | `run` and `_start` of `init.s`, its use in `shell.cpp`, `uname.s`, over `ProcessManager` | the place of each process in its code, the pid it waits for | `Run`, `RunFails`, `AsksAndYields`, `Collects`, `ExitCommand`, `Executes`, `ExecuteFails`, `ProgramYields`, `ProgramEnds`, `ProgramForks`, `ProgramAsks`, `Faults`, `IdleSteps` |
| `CommonLemmas` | | | lemmas about `Min` and `Max`, division, sequences as linked lists, lists of areas |
| `ProcessManagerProofs` (with `UserSpace`), `AddressSpaceProofs`, `PhysicalMemoryProofs`, `KernelHeapProofs`, `ExecuteBinaryProofs`, `FilesProofs`, `ShellProofs` | | | theorems (5) |

Conventions. A constant of the code that is too large for TLC is a CONSTANT
(`PidMax`, `Levels`, `Width`, `Top`, ...). Lists that code links with pointers
are `next`/`prev` functions where the linking is the point (`ProcessManager`)
and sequences where it is not. A system call is one action, with every call it
makes; its failing outcomes are actions of their own. A search through a bitmap
is written as the least element it finds, with the index it leaves behind.
`KernelHeap` EXTENDS `KernelVirtualAllocator`: pools and large objects of the
heap are really taken from the same list of areas as other callers' mappings.
In the same way `ExecuteBinary` EXTENDS `UserVirtualAllocator`, `Files` EXTENDS
`RamDisk`, and every step of `UserSpace` is a step of `ProcessManager` taken by
a process that has reached the call. `MCX` modules only give constants their
values.

History variables observe, and no guard and no other variable depends on them:
`lost` in `AddressSpace` (root frames of dead processes, which nothing frees),
`program` and `blocks` in `UserVirtualAllocator` (what is in use, for as long as
the program frees whole blocks), `path`, `delivered` and
`given` in `Files`, and `line` in `Shell`. Three more mark states and serve as
bounds besides: `leaked` in `AddressSpace` names the address spaces that failed
forks have left behind, in which nobody runs; `foreign` in
`UserVirtualAllocator` counts the ranges a program has freed that were no blocks
of its own, up to `MaxForeign`; and `wrapped` is true once the end or the size
of a range has wrapped around modulo 2^64.

## 3. Runs

| Run | Bounds | Shows |
|---|---|---|
| `process` | 4 pids in words of 2, each pid above the first word possibly occupied by leftover bits, 3 stacks, one exit code, every step may fail | pids, ring, stacks and statuses stay consistent through all interleavings; the subsystem implements `ProcessLifecycle`; if programs yield, everyone runs again and dead stacks are unmapped |
| `cow_memory` | 3 address spaces, 2 levels of 2-entry tables, 8 frames, fork may fail before and after the clone | copy on write implements `PrivateMemory`, counts are exact, with the address spaces that failed forks leave behind |
| `memory_calls` | 1 process, 3 pages to allocate, 9 frames so that they run out | no frame twice, read-only pages keep their contents |
| `alloc_after_fork` (violation) | 2 processes, 2 levels | see 6, memory |
| `execute_binary` | 12 pages of 32 bytes, one of them the kernel's, and 768 addresses, modulo which sums are taken; files of up to two segments, with a header of type ELF_NULL, or with headers whose end wraps around; up to 3 arguments of lengths 0, 1, 3, 4, 9; allocations of 1, 2 and 12 pages that take twice the addresses (4096 times in the code; the last product wraps around); 24 ranges to free, which may be parts of blocks, the kernel's page, unaligned, below their own size or wrapping around, `MaxForeign` = 2 of them no blocks | from exec to exec, until an end or a size wraps around: segments and arguments have mapped pages of their own, memory in use is not free, the free list stays sorted and apart; always: writes stay in their room, a single argument arrives |
| `kernel_memory` | 5 pages, 4 classes of which class 1 has the size that is class 2's number, pages of 2 or 3 objects | areas merge, nothing is given out twice, lists are by count |
| `physical_memory` | four memory maps with holes, reserved areas and bounds inside pages, one of them out of order with overlaps and an empty area; two places of the ram disk | early and reserved frames are kept; the scan misses no free page |
| `files` | every archive of up to 5 headers, depth 3, 2 names, in every order tar may write, is mounted; walks on those of up to 4; 5 entries, one device, files of 2 bytes, calls of up to 2 | every file is found; a walk, up and down, opens what its path names; entries are not freed under walkers, files and children; reads and listings deliver in order |
| `full_directory` (violation) | one directory of 15 files: 16 nodes | see 6, files |
| `opened_file` (violation) | a disk of two headers | see 6, files |
| `shell` | buffer of 4 characters, 11 keys with '\0' among them, commands of one letter | the buffer is an edited text, arguments are the words of the line |
| `user_space` | 4 pids, 4 stacks, every step may fail | run waits for its own child and nobody else's; one shell reads keys; the prompt comes back; who starves, starves behind a shell |

Why the bounds are enough. Four pids are the idle process, process 1, and two
more, which can be siblings (one of them dead), parent and child, or strangers
after one of them has reused a pid; two words make the scan cross a word. Three
stacks are those of the idle process and process 1 and a third, so that they run
out, wait in the pool, and are reused; the proofs cover any number of either.
Three address spaces are a parent with two children, a grandchild, or a process
beside one that a failed fork has left. With two levels a fault copies at both
or at the last one only, which is all the handler distinguishes, its four levels
being the same step repeated; `memory_calls` has three levels, and the proofs
cover any. With 8 frames the last frame can be missing at any step of a fault.
Five pages let the kernel's list have three areas, the most a merge can touch.
Twelve pages do the same for the user list behind the program; with pages of 32
bytes one argument fits a page, two fit or not by their lengths, and three
never. With 768 addresses each page has a second address, as 2^64 is a multiple
of the 2^48 the page tables look at. `MaxForeign` = 2 lets a program free a part
of a block or the kernel's page and then something that meets it; the proofs
have no such bound. Five entries are two roots and a walk of depth three, the
deepest directory of the archives. A line of four characters has a quote that is
opened and closed with something in it, and is soon full. In `user_space` four
pids are the idle process, a shell, a shell or program it runs, and one more;
the stacks start in one order, as nothing in `UserSpace` looks at which stack it
is, and the proofs cover any.

Some properties hold under restrictions, which are constants of the runs and
which the code does not enforce. `cow_memory` has no allocation after a fork
(`Allocs = {}`), no stale translations (`Cached = {}`) and no stores by the
kernel (`Buffers = {}`): the code breaks isolation in each case (6, memory),
and `alloc_after_fork` shows the first. `memory_calls`, with one process, has
all three. `files` stays below sixteen nodes, `full_directory` shows
why; and it claims nothing after an entry has been disposed of twice
(`DisposedOnce`), which happens when a walk fails two entries deep (6, files).
`SingleArgumentArrives` speaks of one argument, because with more the code
overwrites the array it builds. `FreeIsUnused` speaks of programs
that free whole blocks, because of the merge in `usrvmmngr.cpp:187`. It,
`FreeListShape` and `SegmentsAreWhole` claim nothing once an end or a size has
wrapped around (6, programs); the model follows the loader and the calls
through that, and only what a program does afterwards is cut short (`Running`).
A call that would map over a page the kernel has mapped is not followed, nor
one that would unmap such a page (`Map`, `VirtualFree`): what the kernel does
without its memory is no question about lists of areas.
`LiveHaveAllocator` speaks of the time before an allocator is deleted twice,
after which the heap promises nothing. `PromptReturns` is about programs that are
not themselves a shell, and both liveness properties of `user_space` end where
an allocator has been deleted twice. `process` has no restriction: where
the code takes the caller's memory away (fork failures), the model does.

Deadlock is checked where the component always has a step (`kernel_memory`).
Elsewhere the model really may stop: the shell exits, an address space dies,
all frames are used, no memory for entries is left.

Every property has a mutant in `PROJECT.json`: a plausible bug in one
definition with which TLC finds that property violated.

## 4. Fairness

`ProcessManager!FairSpec` assumes weak fairness of `Yield`, of the two steps of
the idle loop, and of the fault by which a process without user memory ends
as soon as it goes on. Nothing preempts a process, so the first of these is an
assumption on programs: a program goes on calling `YY_Yield` (as `run` of
`init.s` does) or ends. The shell at its prompt does not; what remains true
with it is `OnlyShellsStarve`, below. The idle loop is kernel code that does nothing
else. Nothing is assumed of `schedule`: that the head moves, that the idle
process is not passed over for good, and that the pool is emptied is what
`EveryoneRuns` and `StacksReclaimed` check.

`UserSpace!UserFairSpec` is about the same code at the level of programs: weak
fairness of the shell's question and its yield, of its return to the prompt, of
the exec of the child, of a fault and of the idle loop - kernel code and the
loop of `run`, with nothing in between that could wait - and of programs
yielding or ending; and for each process strong fairness of a program's
end: a program that is given its turn again and again ends at some time. Weak
fairness would not do, as between two turns of the program its end is not
enabled. Keys are not fair: nobody has to type, and while a shell waits for a
key it does not yield (`shell/shell.cpp:129`), so that everyone waits with it;
when fork fails `run` spins for ever (`shell/init.s:52`). `OnlyShellsStarve`
says that these are the only places where the processor stays. A new process
is put right before its parent in the ring (`proc.cpp:100`): it gets its turn
when all others have had theirs, and when it ends its parent is next.

`Shell` and the other modules make no claim about liveness.

## 5. Proofs

`ProcessManagerProofs` proves for every `PidMax`, `WordSize`, `Stacks`,
`Codes`, and every choice of failing steps, from `PidAssumption` (at least two
pids; the bits of the first two are cleared and in one word, as with 64 pids
a word in the code), `StackAssumption` and `EnvironmentAssumption`:

| Theorem | Says |
|---|---|
| `TypeCorrect` | `Spec => []TypeOK` |
| `RunListAlwaysARing` | the run list is one ring, both ways, through exactly the live processes |
| `StacksAlwaysExclusive` | no two live processes share a stack, none of theirs is in the pool, and every mapped one belongs to somebody or is in the pool |
| `ScanIsComplete` | no free pid lies below the scan's start: newProcess fails only when all pids are taken |
| `LiveAlwaysHaveAllocator` | a live process has an allocator that nothing has deleted, through every failure of fork and exec, until exec deletes one twice |
| `ZombiesAlwaysWait` | no step but the collection by the process `ppid` names touches pid or status of the dead |

The argument. None of the invariants is inductive alone. The inductive one is
`Inv == TypeOK /\ RunListIsRing /\ StacksExclusive /\ ScanSkipsNoFreePid`. The
ring is stated without recursion: on the live processes `next` and `prev` are
inverse to each other, and no smaller non-empty set is closed under `next`
(`IsRing`); inserting before the head and removing the head are lemmas about
such rings (`RingInsert`, `RingRemove`), and each action needs only which of
them it applies and how the set of live processes changes (the `LiveAfter...`
lemmas). Stack exclusivity needs the ring: exit pushes the running process's
stack, which nobody else has, because the running process is live. The scan's
invariant needs the least element of a set of naturals to exist: `MinIsLeast` of
`CommonLemmas`, from the well-foundedness of strict inclusion of finite sets.
`InvStep` splits on the actions, `ZombiesAlwaysWait` follows from `Inv` and a
lemma about single steps (`ZombieKept`), and `LiveAlwaysHaveAllocator` is
inductive relative to `Inv`: a step gives an allocator to the process it creates
and takes it only from the one that dies, or clears `heapOk`.

The second part of `ProcessManagerProofs` proves, from the same assumptions,
that all this implements the abstract life cycle:

| Theorem | Says |
|---|---|
| `LifecycleImplemented` | `Spec => Lifecycle!Spec`: processes take turns first in, first out; the status of the dead is kept for the parent; a pid is free again when it is collected |

The argument. The abstract queue is `RunQueue`, which follows `next` from the
head. What a function defined by recursion computes is not a matter of
calculation for the provers, so it is characterised: `IsQueue(Live, next, head,
q)` says that `q` lists the live processes once each in the order of `next` from
the head on and back. There is such a list (`QueueFromIsQueue`: were there a
first place at which the recursion goes wrong, the place before it
would be wrong too), it is the only one (`RunQueueIs`), and turning, appending
before the head and removing the head each take it to the list of the next state.
Then every action is a step of `ProcessLifecycle` (`YieldIsTurn`,
`DuplicateIsCreate`, `ExitIsDie`, `GetProcStatusIsCollect`) or leaves its
variables alone (`OthersStutter`). One fact is added to `Inv`: a record that has
been collected names no parent (`CollectedHaveNoParent`), as otherwise
`YY_GetProcStatus`, which looks at `ppid` and `dead` only, would collect it
again.

`AddressSpaceProofs` proves of `AddressSpace`, for every depth and width of the
page tables and any number of frames and of processes, from `PagingAssumption`:

| Theorem | Says | If |
|---|---|---|
| `TypeCorrect` | `Spec => []TypeOK` | |
| `CountsCorrect` | the count of a frame is the number of those that hold it, the address spaces left by failed forks included, and the bitmap has the frames that are held (`RefCountsAreHolders`) | `Allocs = {}` |
| `AliasesCorrect` | no frame is at two places of a tree (`NoAliases`) | `Allocs = {}`, or there is one process |
| `ReadOnlyCorrect` | read-only pages keep what the loader has put there (`ReadOnlyKept`) | `Allocs = {}`, or there is one process, which does not ask for the address of such a page |
| `PrivateMemoryImplemented` | `Spec => ImplementsPrivateMemory`: the shared trees give every process a memory of its own, of which a fork makes a copy | `Allocs`, `Buffers` and `Cached` are empty |
| `OnlyStaleWritesAreShared` | what `alloc_after_fork` refutes: no step of the running process changes what another one sees, but for stores to a page that the page tables call read-only, by the kernel or through a translation from before a fork (`StaleWrite`) | `Allocs = {}` |

The argument. A walk from the root of a process to a page is a function by
recursion; all walks together are one function `w` of process, page and
level, characterised by `IsWalks`, and the invariant is about that function.
`ForestInv` says of it: a frame has one place, the same level and the same
part of the address space in every tree that has it (`OnePlace`); what two
address spaces share is marked for copying, what is below a marked entry is
marked, what is marked is not writable, and nothing will make the entry of a
read-only page writable (`Marks`); a frame's count is the number of processes
that have it at its place, and 1 for the root of a dead process (`Counts`);
while exec loads, the running process shares nothing (`Own`);
translations are those of the running process (`Fresh`); read-only pages have
what was loaded (`Kept`). One place and the marks are what makes counting
possible: fork adds one to the count of each frame below its caller's root, and
the fault handler takes one off along a single path; these are the numbers of
holders only if no tree has a frame twice, and if nobody shares what is not marked.
The address space a failed fork leaves behind is a tree like the others, in which
nobody runs: such a fork is a clone followed by the drop of the caller's tree.
What the handlers do to the forest is of three kinds - a tree is dropped, a
tree is cloned, a path is grown anew from some level on (by the fault handler,
which copies what is shared, or by `mapNewPageAt`, which makes what is missing) -
and each is a lemma about forests that knows nothing of the handlers.

The hypotheses are those of the runs (3), and the code needs them: an
allocation after a fork goes into a shared table, so that counts, isolation and
marks are all lost (6, memory); neither the shell nor `uname` calls
`YY_VirtualAlloc`. Stores of the kernel and stale translations reach shared
frames without a fault, which breaks the refinement and none of the rest;
`OnlyStaleWritesAreShared` says that nothing else does, and
`PrivateMemoryImplemented` follows from it where there are none. For a
process on its own (`Alone`) allocation is allowed, and
the failures of `mapNewPageAt` half-way, which give back what they should not.
Counts are then wrong, and `LoneInv` does without them: nothing is marked, a
frame has one place, frames of the tree are in the bitmap, and stale translations
lead to frames that are still taken and neither tables nor read-only pages.
That a page's address must not be allocated again if the page is to stay
read-only is the meaning of the call: it gives the page new flags.

The last part of `ProcessManagerProofs` proves of `UserSpace`, from the
assumptions above and `NotRunAssumption`:

| Theorem | Says |
|---|---|
| `UserImplementsProcesses` | `UserSpec => Spec`: what programs do is a behaviour of the process manager, so the theorems above hold of it |
| `RunWaitsForItsOwn` | the pid run waits for is that of its child, alive or dead, until run has its status |
| `OneShellReadsKeys` | at most one process is at a shell's prompt |

The argument. The invariant is `UserInv == Inv /\ PlacesOK /\ WaitsForItsOwn
/\ ShellsTakeTurns`. That two shells never read keys does not follow
from the steps of either: it holds because the shells form a chain, each
waiting for the next, and only the last, which has the turn, is anywhere else
(`HasTurn`). The chain could break in two ways, and the invariant excludes
both: another process could collect the child, which `ppid` prevents while the
parent lives; and a waiting shell could fault, so `HasTurn` says that it
keeps its memory. A step of the process that has the turn passes it on (`Run`
gives it to the child, `Collects` takes it back, a new shell keeps it), and a
program's step leaves it where it is.

`PhysicalMemoryProofs` proves of `PhysicalMemory`, for every memory map, with
areas in any order that may overlap and be empty, as long as memory has a
frame at all, every place of the ram disk and every size of pages and words,
from `MemoryAssumption`:

| Theorem | Says |
|---|---|
| `PhysicalTypeCorrect` | `Spec => []TypeOK`: the scan stays in the bitmap |
| `ScanAlwaysMissesNothing` | no free page is before the word at which the scan starts |
| `ReservedAlwaysKept` | no frame of an area that is not available is ever given out |
| `UsedFramesAlwaysKept` | nor one of the kernel, the boot data, the ram disk or the early frames, if `place.frame <= PagesCount` |
| `EarlyAlwaysKeepsClear` | early frames are none of the kernel's, the boot data's or the ram disk's, and all before the place the early allocator has reached |

The argument. `PInv` adds to the type invariant what links the two allocators:
`EarlyKeepsClear`, and that the bit of each frame that must be kept is set and
is not among the pages that may be freed (`KeptIsSet`). The difficult step is
`newFrame`, which steps out of the memory map's holes, the boot data and the ram
disk three times over and then stops, whether it has come to rest or not:
`SettledFacts` proves that three rounds are always enough. The walk over the
areas ends at the least entry that will do, with the largest of the bounds it
has passed; both exist by `MinIsLeast` and `MaxIsGreatest` (`AdjustFacts`). The
condition of `UsedFramesAlwaysKept` is needed: newFrame may give out the frame
behind the last one of memory, where the bitmap may have no bit. On the maps of
the run this does not happen.

`KernelHeapProofs` proves of `KernelHeap` over `KernelVirtualAllocator`, for
every size of memory and of the classes, from `KernelAreasAssumption` (nodes for
every list that memory can be cut into) and `HeapAssumption`:

| Theorem | Says |
|---|---|
| `HeapTypeCorrect` | `Spec => []TypeOK`: above all, the search never starts at the list of the full pools |
| `MemoryAlwaysShared` | every page but page 0 is free or in exactly one mapping |
| `AlwaysCoalesced` | two free areas never touch, and no node is lost |
| `ListsAlwaysCount` | a pool is in the list of its class and its number of free objects, once, and in no other |
| `ObjectsAlwaysDistinct` | an object of a pool is free, once, or given out |
| `HeapAlwaysHoldsItsPages` | a page is a pool as long as one of its objects is given out, and then it is mapped |

The argument. Of the allocator `KInv` keeps that areas are apart (`Apart`) and
what each page belongs to (`Shared`). A freed range goes in front of the
first area behind it; the list is then apart but for one area that may touch its
neighbours (`ApartBut`), and merging is the replacement of up to three areas by
one (`MergeIsJoin`, `JoinedList`). Of the heap `HInv` keeps for each list its
members (`HeadsOK`) and for each pool which objects are free (`PoolsOK`). That a
pool whose objects are all free again is the one its object has been
taken from, and may be unmapped, is a matter of counting: `PoolFull` compares the
length of a list without repetition with the number of objects. A pool leaves one
list and enters another (`PoolLeaves`, `PoolEnters`), also where the code works
with the counter of the wrong class.

`ExecuteBinaryProofs` proves of `ExecuteBinary` over `UserVirtualAllocator`, for
every size of memory, set of files, number and length of arguments, from
`AllocatorAssumption` (the page tables tell apart a divisor of the addresses
there are, pages divide both, and sizes are whole pages, as the calls check, but
not 0, for which nothing happens) and `ExecuteAssumption`. Sums of addresses are
taken modulo `Space`:

| Theorem | Says | Until |
|---|---|---|
| `ListAlwaysInShape` | the list of free areas is sorted, without overlap or empty areas, whatever ranges programs free, the kernel's included; it reaches the end of memory as long as they free whole blocks | an end or a size has wrapped around |
| `MemoryInUseIsNeverFree` | no byte in use is in that list | the same, or a program frees what is no whole block of its own |
| `AlwaysWritesInRoom` | pointers and strings of the arguments stay in the room asked for | |
| `OneArgumentAlwaysArrives` | a single argument arrives, if `2 * Stride >= Pointer` | |
| `SegmentsAlwaysWhole` | every byte of every segment is mapped, in pages of its own, and there is room for the arguments beside them | an end has wrapped around |

The argument. As long as the last area ends below `Space`, the modular sums of
the code are sums of naturals (`PlusFacts`, `MinusFacts`, `FreeEnds`); a range
whose own end does not wrap around keeps it so, also behind the last area
(`FreedFacts`). `InOrder` says that there is such an end, and that it is `Top`
as long as only whole blocks have been freed. `alloc`, `reserve` and `free` all
replace neighbouring areas by others; `SpliceKeepsOrder` says when such a
replacement (`Fits`) keeps a list in order and what bytes it has then, and each
operation needs only that what it puts in fits. What `free` gives back may join
pages of somebody else to the list: it merges with the next area also where
there is something between them (`usrvmmngr.cpp:187`). For whole blocks it does
not, because of a second flaw: `YY_VirtualAlloc` takes 4096 times the addresses
it hands out, so the page behind a block is nobody's. `Usage` is the invariant
that says so: what was taken for a block (`Taken`), not only what was given out,
is apart from everything else. `MInv` is both, for as long as nothing has
wrapped around. `XInv` follows the copying: `StringBytes` is the running sum of
the strings' sizes, proved from the first place at which it would be wrong to be
what its definition says (`StringBytesFacts`). The hypothesis of
`OneArgumentAlwaysArrives` holds of the code (4 and 8): one argument and the
terminator are taken to need two strides, which is one pointer. `SInv` follows
the loader: the segments loaded so far (`Loaded`) are mapped, are areas of the
program, and each header starts behind the ends of all before it
(`BehindAllBefore`), which `parseElf` compares with the last one only; that the
bytes of a header are in its pages is arithmetic of quotients (`BytesInPages`).

`FilesProofs` proves of `Files` and `RamDisk`, for every set of archives that
tar can have written, all names and devices and any number of entries, from
`FilesAssumption`, `DiskAssumption`, `ArrayAssumption` and `JunkAssumption`
(what new memory holds is neither a node nor an entry):

| Theorem | Says | If |
|---|---|---|
| `CountsAlwaysCover` | an entry counts at least its users, and one with a user is not freed (`CountsCoverUsers`) | no walk has started after an entry was disposed of twice |
| `AlwaysOpensWhatIsNamed` | what is opened is what the path names (`OpensWhatThePathNames`) | the same |
| `EverythingIsAlwaysFound` | once the disk is mounted every header of the archive is found by its path (`EverythingIsFound`) | `SmallDisks` |
| `FilesTypeCorrect` | `Spec => []TypeOK`: a position is never behind the end | `SmallDisks` |
| `ReadsInOrder` | what is read is what is there, in order, once (`DeliveredInOrder`) | `SmallDisks`, and at most one device |

The condition of the first two is a guard of `StartWalk` (`DisposedOnce`): a walk that
fails two entries deep disposes of an entry twice (`vfs.cpp:204`), and what the code
does with freed memory afterwards is not followed. So of walks that fail, those
that fail two or more deep are the last.

The argument. Two invariants are proved apart. `TreeInv` is about the entries: the
names a walk has taken lead from a root down to its entry (`IsWay`), and the
walk is the only user of each entry but the root, so going up drops exactly one;
the file that is open has two users, the walk that made it and the `IFile`,
so closing drops nothing and disposes of nothing. A walk that fails drops the
whole way, and `Dropped`, a function of the number of steps up, is followed step
by step (`WayDropped`, `StepByStep`) until it reaches the root, which is used once
more than by its children.

`DiskInv` is about the archive: every header before the cursor has a node or a
call of `parseHeader`, and only one (`Parted`); the calls are nested directories
(`Nested`); a directory that has its node is followed by a header that is not
below it (`Passed`); every node but the root is in the list of a node or call,
under its name, and lists are in the archive's order (`Listed`). The step that needs
tar's order is the one that puts a node into the list of the call on top:
`ParentOnTop` says that this is its parent. That everything is found follows by
the first header that is not: its parent comes earlier and is found, so the
lookup in it succeeds (`AllAreFound`). That it is delivered in order is
`KthIs`: of the children of a directory, the i-th by header is the i-th entry.

`SmallDisks` says that an archive has fewer headers than the first capacity of
a `DynamicArray` has places (`FirstCapacity`, 16 in the code), so that no array
ever moves. It cannot be weakened: `full_directory` refutes
`EverythingIsFound` on a disk of 16 headers. `kmain` registers one device, and the
second hypothesis holds of it; with two, one call of `readdir` writes both to the
first place of the buffer (`src/fs/devfs.cpp:15`, see 6).

`ShellProofs` proves of `Shell`, for every length of the line and every set of
keys, '\0' included, from `ShellAssumption` (a space is no quote):

| Theorem | Says |
|---|---|
| `EditorImplemented` | `Spec => EditsText`: getline's array with `insertChar` and `removeChar` is the text with a cursor of `TextLine` |
| `LineAlwaysCutIntoWords` | the arguments are the words of the entered line, in its order, each to its end or, as strings go, to the first '\0' typed in it; and nothing else of the line is dropped but spaces, quotes and what is behind an open quote |

The argument. `EditInv` keeps the cursor in the line. One or
two insertions are one splice of the text at the cursor (`Grown`, `GrownTwice`,
`GrownText`), and an arrow moves the cursor after them (`EditStep`). The loop that
cuts the line is one step of the model, so its invariant is about the function of
its turns (`Turns`, `TurnsFacts`): `LoopInv` says of the cells that were written
that they end words (`IsWord`), that these are behind each other (`WordsFound`),
and that each character up to the turn's index is accounted for (`Accounted`). The
first turn after which it would fail contradicts `TurnKeepsInv`. It needs nothing of
the characters of the line, among which '\0' is one more, nor of the cells
behind it, where earlier lines have left theirs; where an argument ends as a string
is read off its cells when the loop is done.

Before each proof TLC has checked the inductive invariant on the component's run.

Only model-checked. Every safety invariant, step property and refinement the
passing runs check is a theorem above, under the hypotheses in the tables. What
is left is liveness (`EveryoneRuns`, `StacksReclaimed`, `PromptReturns`,
`OnlyShellsStarve`): fairness and ENABLED are out of the provers' reach.
Induction over data is so in general, as the induction theorems of the library
take an operator as parameter; where a proof above needs it of one function of
the naturals (`RunQueue`, `StringBytes`, `Turns`, `Dropped`, `Resolve`) it looks
for the first place at which the claim fails, with `MinIsLeast` or `StepByStep`.

## 6. Divergences

Places where the code does not do what its documentation, its own other lines,
or a caller's expectation says. The model follows the code in every case that it
covers. Three are counterexamples of runs of this project (marked *checked*);
the others were met in reading and are listed because properties are
restricted around them. Paths are below `src/YYSloth` unless they begin with
`shell`, which are below `src/YYUserspace`.

Processes
- Fork's failure paths call `cleanup` of the new process, which unmaps the user
  memory of the caller (`src/proc/userapi.cpp:86`, `src/proc/proc.cpp:131`):
  the caller does not get the -1 that `README.md:153` promises, it faults. When
  it is `DescriptorTable::copy` that fails (`src/proc/userapi.cpp:91`), the tree has
  been cloned already: the new root and one count of every frame below it are
  never given back. `ForkCopyFails` models it.
- Exec that fails in parsing or loading runs `cleanup` and then `exit`,
  which runs it again: the allocator is deleted twice
  (`src/proc/userapi.cpp:291`, `src/proc/proc.cpp:124`). `heapOk` models it.
- `ppid` names a pid. When a parent dies and its pid is given out again, the
  new holder can collect the child (`src/proc/userapi.cpp:182`,
  `README.md:79`, "not allowed to know").
- `memset` of the pid bitmap clears an eighth of it. Leftover bits make pids
  unusable, and nothing worse, which `process` checks.

Memory
- *checked*: a page allocated after a fork goes into a table that parent and
  child share, and appears in both (`src/memory/vmmap.cpp:45`). When it is then
  written, the fault handler may find no entry marked for copying and end the
  process (`src/memory/cow.cpp:111`), although it was allocated writable.
- The caches of translations are not flushed after fork has made pages
  read-only (`src/memory/cow.cpp:275`): the parent can go on writing to frames
  it shares.
- Stores of the kernel to user buffers do not fault on read-only pages,
  as CR0.WP is never set: they reach shared frames (`src/proc/userapi.cpp:193`).
- `YY_VirtualFree` passes a size where an end is expected, so it
  unmaps nothing in practice (`src/proc/userapi.cpp:167`,
  `src/memory/vmmap.cpp:175`). It checks the range as one of the kernel
  (`isUser` is false, `src/proc/userapi.cpp:163`), so that a program can free
  pages of the kernel: they go to its list, behind the last area
  (`src/memory/usrvmmngr.cpp:152`), where `YY_VirtualAlloc` may find them. It does
  not ask that a range start where a page does, nor that its end be behind its
  start: with an end that has wrapped around the check looks at no page, and the
  list is no longer in order (`execute_binary` has all of these).
- `YY_VirtualAlloc` multiplies a size in bytes by the page size
  (`src/proc/userapi.cpp:139`), so addresses run out 4096 times as fast, and for
  sizes from 2^52 on the product wraps around (`Asked`), so that the pages it
  then maps are not those it has taken. It gives back the size, not the product,
  when it fails (`:152`), and returns 0, where `README.md:46` says -1.
- A failed mapping decrements counts it has not incremented
  (`src/memory/vmmap.cpp:54`).
- Freeing part of a block may put the pages behind it, which are in use, into the
  free list (`src/memory/usrvmmngr.cpp:187`).
- The area behind the first unused early frame is cleared in the bitmap after the
  ram disk and the boot information have been set in it
  (`src/memory/physalloc.cpp:101`); the early allocator goes on for a page
  behind an area's end (`src/memory/tmpphysalloc.cpp:10`).
- The kernel heap's `free` updates the search index of the wrong class
  (`src/memory/kheap.cpp:178`); `kernel_memory` checks that this is harmless
  for the classes it has. The kernel virtual allocator loses a pool of nodes
  when another has as many free (`src/memory/kvmmngr.cpp:28`), and writes
  through a null head when it takes the last full one (`:163`).

Programs and files
- Exec computes the room for argv with `sizeof(8)`, four bytes a pointer, in
  one place (`src/proc/userapi.cpp:272`): with two arguments or more the strings
  overwrite pointers, or pointers the strings. `README.md:158` promises argv.
- It checks `path` where it means `argv[i]` (`src/proc/userapi.cpp:222`), so no
  argument is ever checked or limited, though `README.md:64` documents limits.
- The end of a program header is rounded up from a sum that may wrap around, and
  nothing checks it (`src/proc/elf.cpp:72`): such a header parses although its end is
  before its start, lets the next one lie anywhere, takes a range with a wrapped size
  from the list, which then overlaps itself (`:120`, `src/memory/usrvmmngr.cpp:89`),
  and maps nothing; when it has no bytes in the file, the program starts.
  The model does all this, and the properties claim nothing afterwards.
- It reads the entry point from the ELF after deleting it
  (`src/proc/userapi.cpp:280`, `:287`).
- The area of a program header of type ELF_NULL is never initialised and is
  reserved and unmapped like the others (`src/proc/elf.cpp:120`); `LoadNothing`
  models it. When what it reserves begins or ends inside a page, so may the
  range of the arguments, whose last page is then not whole. A segment with more
  bytes in the file than in memory is read beyond its mapping (`:105`). A failed
  load unmaps `areas[i]` where it means `areas[j]` (`:125`), and the wrong
  pointer is tested (`:45`).
- *checked*: `YY_OpenFile` frees the slot it has allocated and never stores the
  handle (`src/proc/userapi.cpp:330`): no descriptor it returns can be read.
- The VFS never links an entry to its parent's children
  (`src/fs/vfs.cpp:62`), so its cache is always empty; a refused open keeps
  its counts (`:313`); dropping a chain disposes of its first entry only, as
  often as the chain is long (`:204`): a walk that fails two entries deep frees
  the same entry twice.
- *checked*: a growing array copies as many bytes as it has elements
  (`include/core/dynarray.hpp:26`): the sixteenth node or entry of the ram
  disk loses most of those before.
- Reading the device directory writes every entry to the same place
  (`src/fs/devfs.cpp:15`). With the one device the kernel registers this cannot
  be seen.
- Two readings of the clock count as equal when any one of their fields is
  (`include/core/time.hpp:15`), so the second reading, which is to catch an
  update between two registers (`src/drivers/rtc.cpp:19`), catches none in
  practice; in 12-hour mode noon and midnight are swapped (`:37`), where
  `time.hpp:12` says "always 24 hour format"; and `YY_GetSystemTime` checks the
  size of a pointer (`src/proc/userapi.cpp:439`).

Shell
- `cat` never closes its file (`shell/shell.cpp:333`); `?` answers with the
  status of an earlier program after one that crashed or could not be started
  (`:397`), though the help says "last program" (`:353`); November is "Feb"
  (`:381`); `run` spins when fork fails (`shell/init.s:52`).
- `getc` waits without yielding (`shell/shell.cpp:129`): background programs run
  only while a program is run. When reading fails it takes -1 for a number of
  characters and returns the first byte of its buffer for ever. Since the
  serial line's descriptor never stands for a file (above), this is what
  happens on this kernel; `Shell` and `UserSpace` take open and read as they
  are documented.

## 7. What is not modelled

- The boot assembly, segment and interrupt tables, drivers, formatting and
  logging: no state that changes under the operations above. The clock's two
  readings are described in 6 only: a model would consist of the comparison.
- Semaphores, mutexes and task queues: `ProcessManager::m_initialized` is never
  set, so locks do nothing, and nothing else uses them. Circular buffers: unused.
- The system calls on open descriptors: they check their arguments and call the
  file, and no descriptor ever stands for a file (`opened_file`). What the calls
  would do is in `Files`, whose `Read`, `ReadDevices` and `Lseek` are the
  interface of an open file. Opening a device without memory for the
  file, and the bytes of a serial port.
- The text of archive headers and the magic numbers of ELF files: both are taken
  as parsed.
- Several pools of nodes in the kernel virtual allocator.
- What happens when a program maps over the kernel's own pages, or unmaps or
  writes to them; addresses that the processor calls non-canonical, which the
  page tables would not tell from others.
- What the shell prints, and with it `success`, which only `?` reads.

Five hazards have no property. Four are wrong in the code, so that no passing
property can promise otherwise and no document says it in words that a run could
check: fork's failure paths (`userapi.cpp:86`), the stale translations
(`cow.cpp:275`), children collected by whoever gets the pid of their dead parent
(`userapi.cpp:182`), and what a failed `YY_VirtualAlloc` gives back and answers
(`userapi.cpp:152`); the models follow the code in all four. Progress of a
program that faults when no frame is left (`cow.cpp:215`) needs the kernel
virtual allocator composed with the page tables, which is beyond what TLC can
enumerate.

## 8. Plan

Order of the modules, the most important first, with what is done:

1. `ProcessManager` with `ProcessLifecycle` - done, with proofs of the
   invariants and of the refinement.
2. `AddressSpace` with `PrivateMemory` - done, with proofs of the invariants
   and of the refinement; left: progress of a faulting program.
3. `UserVirtualAllocator` with `ExecuteBinary` - done, with proofs.
4. `KernelVirtualAllocator` with `KernelHeap`, `PhysicalMemory` - done, with
   proofs; left: several pools of nodes.
5. `RamDisk`, `DynArray` with `Files` - done, with proofs; left: what is still
   found on a disk whose arrays have grown.
6. `Shell`, `TextLine`, and `UserSpace` - done, with proofs.
