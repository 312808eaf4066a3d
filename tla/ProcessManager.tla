--------------------------- MODULE ProcessManager ---------------------------
(***************************************************************************)
(* The process subsystem of the YYSloth kernel: pid allocation, the ring   *)
(* of runnable processes, kernel stacks, and the system calls that create, *)
(* end and collect processes (src/YYSloth/src/proc/proc.cpp, stackpool.cpp,*)
(* the process calls of userapi.cpp, and the idle loop of kmain.cpp).      *)
(*                                                                         *)
(* The timer is never enabled (kmain.cpp:104), so a process leaves the CPU *)
(* only inside YY_Yield or when it dies: every system call is one atomic   *)
(* action of the process at the head of the run list.                      *)
(*                                                                         *)
(* Memory is abstracted to what these operations can confuse: whether a    *)
(* process's UserVirtualAllocator exists, and whether the user half of its *)
(* address space is mapped.                                                *)
(***************************************************************************)
EXTENDS Integers, Sequences, FiniteSetsExt, Functions

CONSTANTS
  PidMax,    (* PID_MAX, 65536 in proc.hpp                                 *)
  WordSize,  (* pids per bitmap word, 64 in the code                       *)
  Zeroed,    (* pids whose bit ProcessManager::init really clears          *)
  Stacks,    (* 0x10000-byte kernel ranges KernelVirtualAllocator can give *)
  NoStack,   (* kernelStackBase = 0                                        *)
  Codes,     (* exit codes programs pass to YY_ExitProcess                 *)
  MayFail    (* which fallible steps may fail, a subset of Steps           *)

Steps == {"getMapping", "usralloc", "pageTable", "descriptors", "elf"}

Pids == 0 .. PidMax - 1
Idle == 0      \* kmain's own process, the first newProcess
InitPid == 1   \* the process that runs Y:\Binaries\init

ASSUME PidAssumption ==
  /\ PidMax \in Nat \ {0, 1}
  /\ WordSize \in Nat \ {0}
  /\ Zeroed \subseteq Pids
  /\ {Idle, InitPid} \subseteq Zeroed
  /\ Idle \div WordSize = InitPid \div WordSize

ASSUME StackAssumption == NoStack \notin Stacks

ASSUME EnvironmentAssumption == Codes \subseteq Int /\ MayFail \subseteq Steps

VARIABLES
  next, prev,   \* Process::next, Process::prev: the ring of runnable processes
  head,         \* m_schedListHead: the running process
  used,         \* pids whose bit of m_pidBitmap is set
  lastChecked,  \* m_lastCheckedIndex
  ppid, dead,   \* Process::ppid, Process::dead
  exitInfo,     \* Process::returnCode and Process::status
  stack,        \* Process::kernelStackBase
  pool,         \* StackPool::m_head and its chain, first popped first
  mapped,       \* kernel ranges mapped as stacks
  usralloc,     \* Process::usralloc: "null", "live" or "freed" (dangling)
  mem,          \* is the user half of the process's address space mapped?
  idlePc,       \* where kmain resumes: "first", "loop" or "drain"
  heapOk        \* FALSE once an allocator has been deleted twice

listVars == <<next, prev, head>>
pidVars == <<used, lastChecked>>
stackVars == <<pool, mapped>>
procVars == <<ppid, dead, exitInfo, stack, usralloc, mem>>
vars == <<listVars, pidVars, stackVars, procVars, idlePc, heapOk>>

(***************************************************************************)
(* Values.  A never-written Process record reads as zeroes.                *)
(***************************************************************************)
ExitedAfterSyscall == 2
NonRecoverableError == 3
Nothing == [code |-> 0, status |-> 0]
ExitInfos == [code : Codes \cup {0, -1},
              status : {0, ExitedAfterSyscall, NonRecoverableError}]

(* A process exists from the end of its creation until it dies.  A bit     *)
(* that was set by leftover memory belongs to no process: its record has   *)
(* never been given a stack.                                               *)
Live == {p \in used : dead[p] = 0 /\ stack[p] # NoStack}
Zombies == {p \in used : dead[p] = 1}

TypeOK ==
  /\ next \in [Pids -> Pids] /\ prev \in [Pids -> Pids] /\ head \in Pids
  /\ used \subseteq Pids /\ lastChecked \in Nat
  /\ ppid \in [Pids -> Pids] /\ dead \in [Pids -> {0, 1}]
  /\ exitInfo \in [Pids -> ExitInfos]
  /\ stack \in [Pids -> Stacks \cup {NoStack}]
  /\ pool \in Seq(Stacks) /\ mapped \subseteq Stacks
  /\ usralloc \in [Pids -> {"null", "live", "freed"}]
  /\ mem \in [Pids -> BOOLEAN]
  /\ idlePc \in {"first", "loop", "drain"} /\ heapOk \in BOOLEAN

(***************************************************************************)
(* Pids: newProcess scans the words from lastChecked up for one with a     *)
(* clear bit and takes its lowest; freePid moves the scan back.            *)
(***************************************************************************)
WordOf(p) == p \div WordSize
Words == {WordOf(p) : p \in Pids}
BitmapWords == (PidMax + WordSize - 1) \div WordSize   \* m_pidBitmapSize
ClearBits(w) == {p \in Pids \ used : WordOf(p) = w}
OpenWords == {w \in Words : w >= lastChecked /\ ClearBits(w) # {}}
PidAvailable == OpenWords # {}
FoundWord == Min(OpenWords)
NewPid == Min(ClearBits(FoundWord))

(* Mutant: freePid forgets to move the scan back.                          *)
FreePidNoRescan(p) ==
  /\ used' = used \ {p}
  /\ lastChecked' = lastChecked

FreePid(p) ==
  /\ used' = used \ {p}
  /\ lastChecked' = IF WordOf(p) < lastChecked THEN WordOf(p) ELSE lastChecked

(***************************************************************************)
(* Run list.  An added process goes just before the head, so it runs last. *)
(***************************************************************************)
(* Mutant: the tail's next still points to the head.                       *)
AddToRunListHalf(p) ==
  /\ next' = [next EXCEPT ![p] = head]
  /\ prev' = [prev EXCEPT ![p] = prev[head], ![head] = p]

(* Mutant: inserted after the head, so the newest process runs first.      *)
AddToRunListFront(p) ==
  /\ next' = [next EXCEPT ![p] = next[head], ![head] = p]
  /\ prev' = [prev EXCEPT ![p] = head, ![next[head]] = p]

AddToRunList(p) ==
  LET tail == prev[head]
  IN  /\ next' = [next EXCEPT ![p] = head, ![tail] = p]
      /\ prev' = [prev EXCEPT ![p] = tail, ![head] = p]

(* Mutant: only the forward pointer is repaired.                           *)
UnlinkHalf(p) ==
  /\ next' = [next EXCEPT ![prev[p]] = next[p]]
  /\ prev' = prev

Unlink(p) ==
  /\ next' = [next EXCEPT ![prev[p]] = next[p]]
  /\ prev' = [prev EXCEPT ![next[p]] = prev[p]]

(* Mutant: the idle process is passed over even with stacks to free.       *)
SuccessorNeverIdle(h, nextOf, stacks) ==
  IF nextOf[h] = Idle THEN nextOf[Idle] ELSE nextOf[h]

(* schedule: the next process, passing over the idle one while there is no *)
(* stack for it to free.                                                   *)
Successor(h, nextOf, stacks) ==
  IF nextOf[h] = Idle /\ stacks = <<>> THEN nextOf[Idle] ELSE nextOf[h]

(***************************************************************************)
(* Stacks: from the pool if it has one, freshly mapped otherwise.          *)
(***************************************************************************)
StackSource(s) ==
  IF pool # <<>> THEN s = Head(pool) ELSE s \in Stacks \ mapped
PoolNotPopped == pool   \* Mutant: getNewStack leaves m_head alone
PoolAfterGet == IF pool # <<>> THEN Tail(pool) ELSE pool
NoStackToGet ==
  pool = <<>> /\ ("getMapping" \in MayFail \/ Stacks \subseteq mapped)

-----------------------------------------------------------------------------
(***************************************************************************)
(* The running process must have its memory to make a system call: after   *)
(* DuplicateFails its very next instruction fetch faults (cow.cpp:46-52).  *)
(***************************************************************************)
InUser == heapOk /\ head # Idle /\ mem[head]

Yield ==
  /\ InUser
  /\ head' = Successor(head, next, pool)
  /\ UNCHANGED <<next, prev, pidVars, stackVars, procVars, idlePc, heapOk>>

(* The idle loop: two yields before the first look at the pool, then all   *)
(* pooled stacks are unmapped between yields.                              *)
IdleYield ==
  /\ heapOk /\ head = Idle
  /\ idlePc = "drain" => pool = <<>>
  /\ idlePc' = IF idlePc = "first" THEN "loop" ELSE "drain"
  /\ head' = Successor(head, next, pool)
  /\ UNCHANGED <<next, prev, pidVars, stackVars, procVars, heapOk>>

IdleFreeStack ==
  /\ heapOk /\ head = Idle /\ idlePc = "drain" /\ pool # <<>>
  /\ pool' = Tail(pool)
  /\ mapped' = mapped \ {Head(pool)}
  /\ UNCHANGED <<listVars, pidVars, procVars, idlePc, heapOk>>

(***************************************************************************)
(* YY_DuplicateProcess (sysForkWithFrame).                                 *)
(***************************************************************************)
Duplicate ==
  /\ InUser /\ PidAvailable
  /\ \E s \in Stacks :
       /\ StackSource(s)
       /\ stack' = [stack EXCEPT ![NewPid] = s]
       /\ mapped' = mapped \cup {s}
  /\ pool' = PoolAfterGet
  /\ used' = used \cup {NewPid} /\ lastChecked' = FoundWord
  /\ ppid' = [ppid EXCEPT ![NewPid] = head]
  /\ dead' = [dead EXCEPT ![NewPid] = 0]
  /\ usralloc' = [usralloc EXCEPT ![NewPid] = "live"]
  /\ mem' = [mem EXCEPT ![NewPid] = TRUE]
  /\ AddToRunList(NewPid)
  /\ UNCHANGED <<head, exitInfo, idlePc, heapOk>>

DuplicateNoPid ==
  /\ InUser /\ ~PidAvailable
  /\ lastChecked' = BitmapWords
  /\ UNCHANGED <<listVars, used, stackVars, procVars, idlePc, heapOk>>

(* newProcess set the bit and freePid clears it again.                     *)
TakeAndFreePid ==
  /\ used' = used
  /\ lastChecked' = FoundWord

(* Mutant: the stack is pushed back also when there is none.               *)
DuplicateNoStackPushed ==
  /\ InUser /\ PidAvailable /\ NoStackToGet
  /\ TakeAndFreePid
  /\ stack' = [stack EXCEPT ![NewPid] = NoStack]
  /\ pool' = <<NoStack>> \o pool
  /\ UNCHANGED <<listVars, mapped, ppid, dead, exitInfo, usralloc, mem,
                 idlePc, heapOk>>

DuplicateNoStack ==
  /\ InUser /\ PidAvailable /\ NoStackToGet
  /\ TakeAndFreePid
  /\ stack' = [stack EXCEPT ![NewPid] = NoStack]
  /\ UNCHANGED <<listVars, stackVars, ppid, dead, exitInfo, usralloc, mem,
                 idlePc, heapOk>>

(* The three later failures: newProc->cleanup() deletes the allocator the  *)
(* new record has by then, and deallocates the memory of the address space *)
(* that is current, which is the caller's.  ppid and dead are already      *)
(* written when the page table or the descriptors fail.                    *)
DuplicateFails(step) ==
  /\ InUser /\ PidAvailable /\ step \in MayFail
  /\ TakeAndFreePid
  /\ \E s \in Stacks :
       /\ StackSource(s)
       /\ stack' = [stack EXCEPT ![NewPid] = s]
       /\ mapped' = mapped \cup {s}
       /\ pool' = <<s>> \o PoolAfterGet
  /\ IF step = "usralloc"
       THEN /\ usralloc' = [usralloc EXCEPT ![NewPid] = "null"]
            /\ UNCHANGED <<ppid, dead>>
       ELSE /\ usralloc' = [usralloc EXCEPT ![NewPid] = "freed"]
            /\ ppid' = [ppid EXCEPT ![NewPid] = head]
            /\ dead' = [dead EXCEPT ![NewPid] = 0]
  /\ mem' = [mem EXCEPT ![head] = FALSE]
  /\ UNCHANGED <<listVars, exitInfo, idlePc, heapOk>>

(* Mutant: the pid is given back at once, as nobody runs under it.         *)
ExitFreesPid(info, alloc) ==
  /\ exitInfo' = [exitInfo EXCEPT ![head] = info]
  /\ usralloc' = [usralloc EXCEPT ![head] = IF alloc = "null" THEN "null" ELSE "freed"]
  /\ heapOk' = (alloc # "freed")
  /\ mem' = [mem EXCEPT ![head] = FALSE]
  /\ dead' = [dead EXCEPT ![head] = 1]
  /\ pool' = <<stack[head]>> \o pool
  /\ Unlink(head) /\ FreePid(head)
  /\ head' = Successor(head, next', pool')
  /\ UNCHANGED <<mapped, ppid, stack, idlePc>>

(***************************************************************************)
(* exit and kill of the running process: its memory goes, its stack goes   *)
(* to the pool while it still runs on it, and the yield in                 *)
(* suspendFromRunList never returns.  Called as the last step of whatever  *)
(* ends the process, with the state of its allocator at that point.        *)
(***************************************************************************)
Exit(info, alloc) ==
  /\ exitInfo' = [exitInfo EXCEPT ![head] = info]
  /\ usralloc' = [usralloc EXCEPT ![head] = IF alloc = "null" THEN "null" ELSE "freed"]
  /\ heapOk' = (alloc # "freed")
  /\ mem' = [mem EXCEPT ![head] = FALSE]
  /\ dead' = [dead EXCEPT ![head] = 1]
  /\ pool' = <<stack[head]>> \o pool
  /\ Unlink(head)
  /\ head' = Successor(head, next', pool')
  /\ UNCHANGED <<pidVars, mapped, ppid, stack, idlePc>>

ExitProcess ==
  /\ InUser
  /\ \E c \in Codes :
       Exit([code |-> c, status |-> ExitedAfterSyscall], usralloc[head])

Killed == [code |-> -1, status |-> NonRecoverableError]

(* handleSecurityViolation, and YY_VirtualFree without memory to free.     *)
SecurityViolation ==
  /\ heapOk /\ head # Idle
  /\ Exit(Killed, usralloc[head])

(* YY_ExecuteBinary past its point of no return.  With no new allocator    *)
(* exit finds usralloc = nullptr; when the file is not a loadable ELF the  *)
(* new allocator is deleted by the cleanup of the error path and again,    *)
(* through the same pointer, by the cleanup in kill.                       *)
(* Mutant: the call takes the recoverable error exit and returns -1.       *)
ExecuteReturnsWithoutAllocator ==
  /\ InUser /\ "usralloc" \in MayFail
  /\ usralloc' = [usralloc EXCEPT ![head] = "null"]
  /\ mem' = [mem EXCEPT ![head] = FALSE]
  /\ UNCHANGED <<listVars, pidVars, stackVars, ppid, dead, exitInfo, stack,
                 idlePc, heapOk>>

ExecuteNoAllocator ==
  /\ InUser /\ "usralloc" \in MayFail
  /\ Exit(Killed, "null")

ExecuteBadElf ==
  /\ InUser /\ "elf" \in MayFail
  /\ Exit(Killed, "freed")

(* Mutant: anyone may collect.                                             *)
GetProcStatusOfAnyone(c) ==
  /\ InUser
  /\ c \in used /\ dead[c] = 1
  /\ ppid' = [ppid EXCEPT ![c] = 0]
  /\ FreePid(c)
  /\ UNCHANGED <<listVars, stackVars, dead, exitInfo, stack, usralloc, mem,
                 idlePc, heapOk>>

(* YY_GetProcStatus when it finds a dead child.  Every other answer of the *)
(* call changes nothing.                                                   *)
GetProcStatus(c) ==
  /\ InUser
  /\ ppid[c] = head
  /\ dead[c] = 1
  /\ ppid' = [ppid EXCEPT ![c] = 0]
  /\ FreePid(c)
  /\ UNCHANGED <<listVars, stackVars, dead, exitInfo, stack, usralloc, mem,
                 idlePc, heapOk>>

-----------------------------------------------------------------------------
(* kmain just before it yields for the first time: it has made itself      *)
(* process 0 and queued process 1.                                         *)
Init ==
  /\ next = [p \in Pids |-> IF p = Idle THEN InitPid ELSE Idle]
  /\ prev = [p \in Pids |-> IF p = Idle THEN InitPid ELSE Idle]
  /\ head = Idle
  /\ \E leftover \in SUBSET (Pids \ Zeroed) : used = {Idle, InitPid} \cup leftover
  /\ lastChecked = WordOf(Idle)
  /\ ppid = [p \in Pids |-> 0] /\ dead = [p \in Pids |-> 0]
  /\ exitInfo = [p \in Pids |-> Nothing]
  /\ \E s, t \in Stacks :
       /\ s # t
       /\ stack = [p \in Pids |-> IF p = Idle THEN s
                                  ELSE IF p = InitPid THEN t ELSE NoStack]
       /\ mapped = {s, t}
  /\ pool = <<>>
  /\ usralloc = [p \in Pids |-> IF p \in {Idle, InitPid} THEN "live" ELSE "null"]
  /\ mem = [p \in Pids |-> p = InitPid]
  /\ idlePc = "first" /\ heapOk = TRUE

Next ==
  \/ Yield \/ IdleYield \/ IdleFreeStack
  \/ Duplicate \/ DuplicateNoPid \/ DuplicateNoStack
  \/ \E step \in {"usralloc", "pageTable", "descriptors"} : DuplicateFails(step)
  \/ ExitProcess \/ SecurityViolation \/ ExecuteNoAllocator \/ ExecuteBadElf
  \/ \E c \in Pids : GetProcStatus(c)

Spec == Init /\ [][Next]_vars

(* Cooperative programs: whoever runs yields sooner or later (or dies).    *)
(* The kernel itself guarantees no more, since nothing preempts a program. *)
Fairness == /\ WF_vars(Yield) /\ WF_vars(IdleYield) /\ WF_vars(IdleFreeStack)
            /\ WF_vars(SecurityViolation /\ ~mem[head])
FairSpec == Spec /\ Fairness

-----------------------------------------------------------------------------
(* The run list is one ring that holds every live process and nothing      *)
(* else: next and prev are inverse, and following next from any live       *)
(* process reaches all of them.  schedule, addToRunList and                *)
(* suspendFromRunList follow these pointers without checking them.         *)
IsRing(S, nextOf, prevOf) ==
  /\ \A p \in S : /\ nextOf[p] \in S /\ prevOf[p] \in S
                  /\ prevOf[nextOf[p]] = p /\ nextOf[prevOf[p]] = p
  /\ \A T \in SUBSET S : (T # {} /\ \A p \in T : nextOf[p] \in T) => T = S
RunListIsRing == head \in Live /\ Idle \in Live /\ IsRing(Live, next, prev)

(* Every mapped stack is either the stack of exactly one live process or   *)
(* in the pool once: no two processes run on one stack, none runs on a     *)
(* stack the idle loop may unmap, and none is lost.                        *)
StacksExclusive ==
  /\ \A p, q \in Live : stack[p] = stack[q] => p = q
  /\ \A p \in Live : stack[p] \notin Range(pool)
  /\ IsInjective(pool)
  /\ mapped = {stack[p] : p \in Live} \cup Range(pool)

(* The scan of newProcess never leaves a free pid behind, so it answers    *)
(* PID_MAX only when every pid is taken.                                   *)
ScanSkipsNoFreePid == \A p \in Pids \ used : WordOf(p) >= lastChecked

(* A live process never holds a deleted or missing allocator: its system   *)
(* calls and the fork of its children dereference usralloc unchecked.      *)
LiveHaveAllocator == heapOk => \A p \in Live : usralloc[p] = "live"

(* What a dead process leaves for its parent stays as it is, and its pid   *)
(* is not handed out again, until the process named by its ppid collects.  *)
ZombiesWaitForParent ==
  [][\A c \in Zombies :
       IF c \in used'
         THEN c \in Zombies' /\ exitInfo'[c] = exitInfo[c] /\ ppid'[c] = ppid[c]
         ELSE ppid[c] = head /\ head # Idle]_vars

(* Round robin: a live process runs again, whatever the others do, unless  *)
(* an exec has damaged the kernel's heap.                                  *)
EveryoneRuns ==
  \A p \in Pids \ {Idle} : p \in Live ~> (head = p \/ p \notin Live \/ ~heapOk)

(* The stacks of the dead are unmapped or reused, although the scheduler   *)
(* passes over the idle process.                                           *)
StacksReclaimed == pool # <<>> ~> pool = <<>> \/ ~heapOk

(***************************************************************************)
(* The process life cycle this module implements: the run list read from   *)
(* the head is the queue, and records and bitmap together give the phase.  *)
(***************************************************************************)
RunQueue ==
  LET n == Cardinality(Live)
      at[i \in 1 .. n] == IF i = 1 THEN head ELSE next[at[i - 1]]
  IN  [i \in 1 .. n |-> at[i]]

Phase == [p \in Pids |-> CASE p \in Live -> "running"
                          [] p \in Zombies -> "zombie"
                          [] p \in used \ (Live \cup Zombies) -> "lost"
                          [] OTHER -> "free"]

Parents == [p \in Pids |-> IF p \in Live \cup Zombies THEN ppid[p] ELSE Idle]
Infos == [p \in Pids |-> IF p \in Zombies THEN exitInfo[p] ELSE Nothing]

Lifecycle == INSTANCE ProcessLifecycle WITH
  queue <- RunQueue, phase <- Phase, parent <- Parents, info <- Infos

ImplementsLifecycle == Lifecycle!Spec
=============================================================================
