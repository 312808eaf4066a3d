------------------------ MODULE ProcessManagerProofs ------------------------
(***************************************************************************)
(* Theorems about ProcessManager for every number of pids, word size, set  *)
(* of stacks and choice of failing steps, the proof that it implements     *)
(* ProcessLifecycle, and theorems about UserSpace for every program: what  *)
(* programs do is allowed by the process manager, run waits for the        *)
(* process it has forked, and one shell reads keys.                        *)
(***************************************************************************)
EXTENDS UserSpace, CommonLemmas

-----------------------------------------------------------------------------
(* Pids are numbers and have word numbers.                                 *)
LEMMA PidFacts ==
  /\ Pids \subseteq Nat
  /\ \A p \in Pids : WordOf(p) \in Nat
  /\ Idle \in Pids /\ InitPid \in Pids /\ Idle # InitPid
BY PidAssumption DEF Pids, WordOf, Idle, InitPid

(* newProcess finds the lowest clear bit of the first word with one.       *)
LEMMA NewPidFacts ==
  ASSUME PidAvailable
  PROVE  /\ NewPid \in Pids \ used
         /\ FoundWord \in Nat
         /\ WordOf(NewPid) = FoundWord
         /\ FoundWord >= lastChecked
         /\ \A p \in Pids \ used : WordOf(p) >= lastChecked => FoundWord <= WordOf(p)
<1>1. OpenWords \subseteq Nat /\ OpenWords # {}
  BY PidFacts DEF OpenWords, Words, PidAvailable
<1>2. FoundWord \in OpenWords /\ \A w \in OpenWords : FoundWord <= w
  BY <1>1, MinIsLeast DEF FoundWord
<1>3. ClearBits(FoundWord) \subseteq Nat /\ ClearBits(FoundWord) # {}
  BY <1>2, PidFacts DEF OpenWords, ClearBits
<1>4. NewPid \in ClearBits(FoundWord)
  BY <1>3, MinIsLeast DEF NewPid
<1>5. ASSUME NEW p \in Pids \ used, WordOf(p) >= lastChecked
      PROVE  FoundWord <= WordOf(p)
  <2>1. WordOf(p) \in OpenWords
    BY <1>5 DEF OpenWords, Words, ClearBits
  <2> QED BY <1>2, <2>1
<1> QED BY <1>1, <1>2, <1>4, <1>5 DEF ClearBits, OpenWords

-----------------------------------------------------------------------------
(* Insertion just before a member keeps a ring a ring (addToRunList).      *)
LEMMA RingInsert ==
  ASSUME NEW P, NEW S, S \subseteq P, NEW nx \in [P -> P], NEW pv \in [P -> P],
         IsRing(S, nx, pv), NEW h \in S, NEW p \in P \ S,
         NEW nx1, nx1 = [nx EXCEPT ![p] = h, ![pv[h]] = p],
         NEW pv1, pv1 = [pv EXCEPT ![p] = pv[h], ![h] = p]
  PROVE  IsRing(S \cup {p}, nx1, pv1)
<1> DEFINE t == pv[h]
<1>1. /\ t \in S /\ nx[t] = h
      /\ \A q \in S : /\ nx[q] \in S /\ pv[q] \in S
                      /\ pv[nx[q]] = q /\ nx[pv[q]] = q
  BY DEF IsRing
<1>2. /\ nx1[p] = h /\ nx1[t] = p /\ \A q \in S \ {t} : nx1[q] = nx[q]
      /\ pv1[p] = t /\ pv1[h] = p /\ \A q \in S \ {h} : pv1[q] = pv[q]
  BY <1>1
<1>3. \A q \in S \cup {p} : /\ nx1[q] \in S \cup {p} /\ pv1[q] \in S \cup {p}
                            /\ pv1[nx1[q]] = q /\ nx1[pv1[q]] = q
  <2>1. ASSUME NEW q \in S \cup {p}
        PROVE  nx1[q] \in S \cup {p} /\ pv1[nx1[q]] = q
    <3>1. CASE q = p
      BY <3>1, <1>2
    <3>2. CASE q = t
      BY <3>2, <1>2
    <3>3. CASE q \in S /\ q # t
      <4>1. nx[q] \in S /\ nx[q] # h
        BY <3>3, <1>1
      <4> QED BY <3>3, <4>1, <1>1, <1>2
    <3> QED BY <3>1, <3>2, <3>3
  <2>2. ASSUME NEW q \in S \cup {p}
        PROVE  pv1[q] \in S \cup {p} /\ nx1[pv1[q]] = q
    <3>1. CASE q = p
      BY <3>1, <1>1, <1>2
    <3>2. CASE q = h
      BY <3>2, <1>2
    <3>3. CASE q \in S /\ q # h
      <4>1. pv[q] \in S /\ pv[q] # t
        BY <3>3, <1>1
      <4> QED BY <3>3, <4>1, <1>1, <1>2
    <3> QED BY <3>1, <3>2, <3>3
  <2> QED BY <2>1, <2>2
<1>4. ASSUME NEW T \in SUBSET (S \cup {p}), T # {}, \A q \in T : nx1[q] \in T
      PROVE  T = S \cup {p}
  <2>1. T \ {p} \in SUBSET S /\ T \ {p} # {}
    BY <1>2, <1>4
  <2>2. \A q \in T \ {p} : nx[q] \in T \ {p}
    <3> SUFFICES ASSUME NEW q \in T \ {p} PROVE nx[q] \in T \ {p}
      OBVIOUS
    <3>1. CASE q = t
      BY <3>1, <1>1, <1>2, <1>4
    <3>2. CASE q # t
      BY <3>2, <1>1, <1>2, <1>4
    <3> QED BY <3>1, <3>2
  <2>3. T \ {p} = S
    BY <2>1, <2>2 DEF IsRing
  <2>4. p \in T
    BY <2>3, <1>1, <1>2, <1>4
  <2> QED BY <2>3, <2>4
<1> QED BY <1>3, <1>4 DEF IsRing

(* So does unlinking a member, as long as one other is left                *)
(* (suspendFromRunList).                                                   *)
LEMMA RingRemove ==
  ASSUME NEW P, NEW S, S \subseteq P, NEW nx \in [P -> P], NEW pv \in [P -> P],
         IsRing(S, nx, pv), NEW p \in S,
         S \ {p} # {}
  PROVE  /\ IsRing(S \ {p}, [nx EXCEPT ![pv[p]] = nx[p]], [pv EXCEPT ![nx[p]] = pv[p]])
         /\ nx[p] \in S \ {p}
<1> DEFINE t == pv[p]
           s == nx[p]
           nx1 == [nx EXCEPT ![pv[p]] = nx[p]]
           pv1 == [pv EXCEPT ![nx[p]] = pv[p]]
<1>1. /\ t \in S /\ s \in S /\ nx[t] = p /\ pv[s] = p
      /\ \A q \in S : /\ nx[q] \in S /\ pv[q] \in S
                      /\ pv[nx[q]] = q /\ nx[pv[q]] = q
  BY DEF IsRing
<1>2. s # p /\ t # p
  <2>1. ASSUME s = p PROVE FALSE
    <3>1. {p} \in SUBSET S /\ {p} # {} /\ \A q \in {p} : nx[q] \in {p}
      BY <2>1
    <3> QED BY <3>1 DEF IsRing
  <2> QED BY <2>1, <1>1
<1>3. /\ nx1[t] = s /\ \A q \in S \ {t} : nx1[q] = nx[q]
      /\ pv1[s] = t /\ \A q \in S \ {s} : pv1[q] = pv[q]
  BY <1>1
<1>4. \A q \in S \ {p} : /\ nx1[q] \in S \ {p} /\ pv1[q] \in S \ {p}
                         /\ pv1[nx1[q]] = q /\ nx1[pv1[q]] = q
  <2>1. ASSUME NEW q \in S \ {p}
        PROVE  nx1[q] \in S \ {p} /\ pv1[nx1[q]] = q
    <3>1. CASE q = t
      BY <3>1, <1>1, <1>2, <1>3
    <3>2. CASE q # t
      <4>1. nx[q] \in S /\ nx[q] # p /\ nx[q] # s
        BY <3>2, <1>1
      <4> QED BY <3>2, <4>1, <1>1, <1>3
    <3> QED BY <3>1, <3>2
  <2>2. ASSUME NEW q \in S \ {p}
        PROVE  pv1[q] \in S \ {p} /\ nx1[pv1[q]] = q
    <3>1. CASE q = s
      BY <3>1, <1>1, <1>2, <1>3
    <3>2. CASE q # s
      <4>1. pv[q] \in S /\ pv[q] # p /\ pv[q] # t
        BY <3>2, <1>1
      <4> QED BY <3>2, <4>1, <1>1, <1>3
    <3> QED BY <3>1, <3>2
  <2> QED BY <2>1, <2>2
<1>5. ASSUME NEW T \in SUBSET (S \ {p}), T # {}, \A q \in T : nx1[q] \in T
      PROVE  T = S \ {p}
  <2> DEFINE U == T \cup (IF t \in T THEN {p} ELSE {})
  <2>1. U \in SUBSET S /\ U # {}
    BY <1>5
  <2>2. \A q \in U : nx[q] \in U
    <3> SUFFICES ASSUME NEW q \in U PROVE nx[q] \in U
      OBVIOUS
    <3>1. CASE q = p
      BY <3>1, <1>3, <1>5
    <3>2. CASE q = t
      BY <3>2, <1>1, <1>2
    <3>3. CASE q # p /\ q # t
      BY <3>3, <1>1, <1>3, <1>5
    <3> QED BY <3>1, <3>2, <3>3
  <2>3. U = S
    <3> HIDE DEF U
    <3> QED BY <2>1, <2>2 DEF IsRing
  <2> QED BY <2>3, <1>5
<1> QED BY <1>1, <1>2, <1>4, <1>5 DEF IsRing
-----------------------------------------------------------------------------
(* Type correctness: kmain hands over well-typed state.                    *)
LEMMA TypeInit == Init => TypeOK
<1> SUFFICES ASSUME Init PROVE TypeOK
  OBVIOUS
<1> USE PidFacts DEF Init
<1>1. next \in [Pids -> Pids] /\ prev \in [Pids -> Pids] /\ head \in Pids
  OBVIOUS
<1>2. used \subseteq Pids /\ lastChecked \in Nat /\ ppid \in [Pids -> Pids]
  BY DEF Idle
<1>3. exitInfo \in [Pids -> ExitInfos]
  BY DEF ExitInfos, Nothing
<1>4. stack \in [Pids -> Stacks \cup {NoStack}] /\ mapped \subseteq Stacks
  OBVIOUS
<1>5. usralloc \in [Pids -> {"null", "live", "freed"}] /\ mem \in [Pids -> BOOLEAN]
  OBVIOUS
<1>6. dead \in [Pids -> {0, 1}] /\ pool \in Seq(Stacks)
  OBVIOUS
<1> QED BY <1>1, <1>2, <1>3, <1>4, <1>5, <1>6 DEF TypeOK

(* schedule picks a pid.                                                   *)
LEMMA SuccessorType ==
  ASSUME NEW nx \in [Pids -> Pids], NEW h \in Pids, NEW q
  PROVE  Successor(h, nx, q) \in Pids
BY PidFacts DEF Successor

(* Whatever a dying process was doing, exit leaves well-typed state.       *)
LEMMA TypeExit ==
  ASSUME TypeOK, NEW i \in ExitInfos, NEW a \in {"null", "live", "freed"}, Exit(i, a),
         stack[head] \in Stacks
  PROVE  TypeOK'
<1>1. pool' \in Seq(Stacks)
  BY PushFacts DEF TypeOK, Exit
<1>2. next' \in [Pids -> Pids] /\ prev' \in [Pids -> Pids]
  BY DEF TypeOK, Exit, Unlink
<1>3. head' \in Pids
  BY <1>2, SuccessorType DEF TypeOK, Exit
<1>4. /\ exitInfo' \in [Pids -> ExitInfos] /\ dead' \in [Pids -> {0, 1}]
      /\ usralloc' \in [Pids -> {"null", "live", "freed"}]
      /\ mem' \in [Pids -> BOOLEAN] /\ heapOk' \in BOOLEAN
  BY DEF TypeOK, Exit
<1> QED BY <1>1, <1>2, <1>3, <1>4 DEF TypeOK, Exit, pidVars

(* Getting a stack, from the pool or freshly mapped.                       *)
LEMMA StackSourceType ==
  ASSUME TypeOK, NEW s \in Stacks, StackSource(s)
  PROVE  PoolAfterGet \in Seq(Stacks) /\ <<s>> \o PoolAfterGet \in Seq(Stacks)
<1>1. PoolAfterGet \in Seq(Stacks)
  BY PopFacts DEF TypeOK, PoolAfterGet
<1> QED BY <1>1, PushFacts

(* Every system call, and the idle loop, keeps the state well typed.       *)
LEMMA TypeStep ==
  ASSUME TypeOK, head \in Live, [Next]_vars
  PROVE  TypeOK'
<1> USE PidFacts
<1>s. stack[head] \in Stacks
  BY DEF TypeOK, Live
<1>1. CASE Yield
  BY <1>1, SuccessorType DEF Yield, TypeOK, pidVars, stackVars, procVars
<1>2. CASE IdleYield
  BY <1>2, SuccessorType DEF IdleYield, TypeOK, pidVars, stackVars, procVars
<1>3. CASE IdleFreeStack
  <2>1. pool' \in Seq(Stacks)
    BY <1>3, PopFacts DEF IdleFreeStack, TypeOK
  <2> QED BY <1>3, <2>1 DEF IdleFreeStack, TypeOK, pidVars, procVars, listVars
<1>4. CASE Duplicate
  <2> USE <1>4 DEF Duplicate
  <2>1. NewPid \in Pids /\ FoundWord \in Nat
    BY NewPidFacts
  <2>2. pool' \in Seq(Stacks)
    BY StackSourceType
  <2>3. next' \in [Pids -> Pids] /\ prev' \in [Pids -> Pids]
    BY <2>1 DEF AddToRunList, TypeOK
  <2>4. stack' \in [Pids -> Stacks \cup {NoStack}] /\ mapped' \subseteq Stacks
    BY <2>1 DEF TypeOK
  <2>5. used' \subseteq Pids /\ lastChecked' \in Nat /\ ppid' \in [Pids -> Pids]
    BY <2>1 DEF TypeOK
  <2>6. /\ dead' \in [Pids -> {0, 1}] /\ mem' \in [Pids -> BOOLEAN]
        /\ usralloc' \in [Pids -> {"null", "live", "freed"}]
    BY <2>1 DEF TypeOK
  <2> QED BY <2>2, <2>3, <2>4, <2>5, <2>6 DEF TypeOK
<1>5. CASE DuplicateNoPid
  <2>1. BitmapWords \in Nat
    BY PidAssumption DEF BitmapWords
  <2> QED BY <1>5, <2>1 DEF DuplicateNoPid, TypeOK, stackVars, procVars, listVars
<1>6. CASE DuplicateNoStack
  <2>1. NewPid \in Pids /\ FoundWord \in Nat
    BY <1>6, NewPidFacts DEF DuplicateNoStack
  <2> QED BY <1>6, <2>1 DEF DuplicateNoStack, TakeAndFreePid, TypeOK, stackVars, listVars
<1>7. ASSUME NEW step \in {"usralloc", "pageTable", "descriptors"}, DuplicateFails(step)
      PROVE  TypeOK'
  <2> USE <1>7 DEF DuplicateFails
  <2>1. NewPid \in Pids /\ FoundWord \in Nat
    BY NewPidFacts
  <2>2. PICK s \in Stacks : /\ StackSource(s)
                            /\ stack' = [stack EXCEPT ![NewPid] = s]
                            /\ mapped' = mapped \cup {s}
                            /\ pool' = <<s>> \o PoolAfterGet
    OBVIOUS
  <2>3. /\ pool' \in Seq(Stacks) /\ mapped' \subseteq Stacks
        /\ stack' \in [Pids -> Stacks \cup {NoStack}]
    BY <2>1, <2>2, StackSourceType DEF TypeOK
  <2>4. /\ usralloc' \in [Pids -> {"null", "live", "freed"}]
        /\ ppid' \in [Pids -> Pids] /\ dead' \in [Pids -> {0, 1}]
    <3>1. CASE /\ usralloc' = [usralloc EXCEPT ![NewPid] = "null"]
               /\ UNCHANGED <<ppid, dead>>
      BY <3>1 DEF TypeOK
    <3>2. CASE /\ usralloc' = [usralloc EXCEPT ![NewPid] = "freed"]
               /\ ppid' = [ppid EXCEPT ![NewPid] = head]
               /\ dead' = [dead EXCEPT ![NewPid] = 0]
      BY <3>2, <2>1 DEF TypeOK
    <3> QED BY <3>1, <3>2, Zenon
  <2>5. mem' \in [Pids -> BOOLEAN]
    BY DEF TypeOK
  <2> QED BY <2>1, <2>3, <2>4, <2>5 DEF TakeAndFreePid, TypeOK, listVars
<1>8. Killed \in ExitInfos
  BY DEF Killed, ExitInfos
<1>9. CASE ExitProcess
  <2>1. PICK c \in Codes :
          Exit([code |-> c, status |-> ExitedAfterSyscall], usralloc[head])
    BY <1>9 DEF ExitProcess
  <2>2. [code |-> c, status |-> ExitedAfterSyscall] \in ExitInfos
    BY DEF ExitInfos
  <2>3. usralloc[head] \in {"null", "live", "freed"}
    BY DEF TypeOK
  <2> QED BY <1>s, <2>1, <2>2, <2>3, TypeExit
<1>10. CASE SecurityViolation
  <2>1. usralloc[head] \in {"null", "live", "freed"}
    BY DEF TypeOK
  <2> QED BY <1>s, <1>8, <1>10, <2>1, TypeExit DEF SecurityViolation
<1>11. CASE ExecuteNoAllocator \/ ExecuteBadElf
  <2>1. PICK a \in {"null", "live", "freed"} : Exit(Killed, a)
    BY <1>11, Zenon DEF ExecuteNoAllocator, ExecuteBadElf
  <2> QED BY <1>s, <1>8, <2>1, TypeExit
<1>13. ASSUME NEW c \in Pids, GetProcStatus(c) PROVE TypeOK'
  BY <1>13 DEF GetProcStatus, FreePid, TypeOK, stackVars, listVars, Idle
<1>14. CASE UNCHANGED vars
  BY <1>14 DEF vars, TypeOK, listVars, pidVars, stackVars, procVars
<1> QED
  BY <1>1, <1>2, <1>3, <1>4, <1>5, <1>6, <1>7, <1>9, <1>10, <1>11,
     <1>13, <1>14 DEF Next

-----------------------------------------------------------------------------
(* The inductive invariant.  The ring, the stacks and the pid scan are     *)
(* proved together: a step is safe for the ring because the head is live,  *)
(* and for the stacks because a new pid is not in use.                     *)
Inv == TypeOK /\ RunListIsRing /\ StacksExclusive /\ ScanSkipsNoFreePid

(* Which processes are live after each kind of step.                       *)
LEMMA LiveAfterDuplicate ==
  ASSUME TypeOK, Duplicate
  PROVE  /\ NewPid \in Pids \ Live /\ Live' = Live \cup {NewPid}
         /\ \A p \in Live : stack'[p] = stack[p]
<1>1. NewPid \in Pids \ used
  BY NewPidFacts DEF Duplicate
<1>2. stack'[NewPid] # NoStack /\ dead'[NewPid] = 0
  BY <1>1, StackAssumption DEF Duplicate, TypeOK
<1>3. \A p \in Pids \ {NewPid} : stack'[p] = stack[p] /\ dead'[p] = dead[p]
  BY DEF Duplicate, TypeOK
<1>4. used' = used \cup {NewPid}
  BY DEF Duplicate
<1> QED BY <1>1, <1>2, <1>3, <1>4 DEF Live, TypeOK

(* A fork that fails after the pid was taken makes no process live.        *)
LEMMA LiveAfterFailure ==
  ASSUME TypeOK,
         DuplicateNoStack \/ \E step \in {"usralloc", "pageTable", "descriptors"} :
                                 DuplicateFails(step)
  PROVE  Live' = Live /\ used' = used /\ \A p \in Live : stack'[p] = stack[p]
<1>1. NewPid \in Pids \ used
  BY NewPidFacts DEF DuplicateNoStack, DuplicateFails
<1>2. \A p \in Pids \ {NewPid} : stack'[p] = stack[p] /\ dead'[p] = dead[p]
  BY DEF DuplicateNoStack, DuplicateFails, TypeOK
<1>3. used' = used
  BY DEF DuplicateNoStack, DuplicateFails, TakeAndFreePid
<1> QED BY <1>1, <1>2, <1>3 DEF Live, TypeOK

(* exit and kill end the running process and no other.                     *)
LEMMA LiveAfterExit ==
  ASSUME TypeOK, head \in Live, NEW i, NEW a, Exit(i, a)
  PROVE  Live' = Live \ {head} /\ stack' = stack
<1>1. dead' = [dead EXCEPT ![head] = 1] /\ used' = used /\ stack' = stack
  BY DEF Exit, pidVars
<1> QED BY <1>1 DEF Live, TypeOK

(* Collecting a dead child ends no process.                                *)
LEMMA LiveAfterCollect ==
  ASSUME TypeOK, NEW c \in Pids, GetProcStatus(c)
  PROVE  Live' = Live /\ stack' = stack
BY DEF GetProcStatus, FreePid, Live, TypeOK

-----------------------------------------------------------------------------
(* schedule only switches to live processes.                               *)
LEMMA SuccessorLive ==
  ASSUME NEW S, NEW nx, NEW pv, IsRing(S, nx, pv), Idle \in S, NEW h, nx[h] \in S, NEW q
  PROVE  Successor(h, nx, q) \in S
BY DEF IsRing, Successor

(* kmain and init form the first ring.                                     *)
LEMMA RingInit == Init => RunListIsRing
<1> SUFFICES ASSUME Init PROVE RunListIsRing
  OBVIOUS
<1> USE PidFacts
<1>1. Live = {Idle, InitPid}
  <2>1. Idle \in used /\ InitPid \in used /\ used \subseteq Pids
    BY DEF Init
  <2>2. \A p \in Pids : dead[p] = 0 /\ (stack[p] # NoStack <=> p \in {Idle, InitPid})
    BY StackAssumption DEF Init
  <2> QED BY <2>1, <2>2 DEF Live
<1>2. /\ next[Idle] = InitPid /\ next[InitPid] = Idle
      /\ prev[Idle] = InitPid /\ prev[InitPid] = Idle /\ head = Idle
  BY DEF Init
<1>3. IsRing({Idle, InitPid}, next, prev)
  BY <1>2 DEF IsRing
<1> QED BY <1>1, <1>2, <1>3 DEF RunListIsRing

(* suspendFromRunList leaves a ring without the dying process.             *)
LEMMA RingExit ==
  ASSUME TypeOK, RunListIsRing, head # Idle, NEW i, NEW a, Exit(i, a)
  PROVE  RunListIsRing'
<1>1. Live' = Live \ {head}
  BY LiveAfterExit DEF RunListIsRing
<1>2. /\ next' = [next EXCEPT ![prev[head]] = next[head]]
      /\ prev' = [prev EXCEPT ![next[head]] = prev[head]]
  BY DEF Exit, Unlink
<1>3. IsRing(Live \ {head}, next', prev') /\ next[head] \in Live \ {head}
  <2>1. Live \subseteq Pids /\ Live \ {head} # {}
    BY DEF TypeOK, Live, RunListIsRing
  <2>2. /\ next \in [Pids -> Pids] /\ prev \in [Pids -> Pids]
        /\ head \in Live /\ IsRing(Live, next, prev)
    BY DEF TypeOK, RunListIsRing
  <2>3. /\ IsRing(Live \ {head}, [next EXCEPT ![prev[head]] = next[head]],
                                 [prev EXCEPT ![next[head]] = prev[head]])
        /\ next[head] \in Live \ {head}
    BY <2>1, <2>2, RingRemove
  <2> QED BY <1>2, <2>3, Zenon
<1>4. next'[head] \in Live \ {head}
  BY <1>2, <1>3 DEF TypeOK, RunListIsRing, IsRing
<1>5. head' \in Live'
  <2>1. head' = Successor(head, next', pool')
    BY DEF Exit
  <2>2. Idle \in Live \ {head}
    BY DEF RunListIsRing
  <2> QED BY <1>1, <1>3, <1>4, <2>1, <2>2, SuccessorLive
<1> QED BY <1>1, <1>3, <1>5 DEF RunListIsRing

(* Every step keeps the ring.                                              *)
LEMMA RingStep ==
  ASSUME TypeOK, RunListIsRing, [Next]_vars
  PROVE  RunListIsRing'
<1>0. head \in Live /\ Idle \in Live /\ IsRing(Live, next, prev) /\ next[head] \in Live
  BY DEF RunListIsRing, IsRing
<1>1. CASE Yield \/ IdleYield
  <2>1. Live' = Live /\ next' = next /\ prev' = prev
        /\ head' = Successor(head, next, pool)
    BY <1>1 DEF Yield, IdleYield, Live, pidVars, procVars
  <2> QED BY <1>0, <2>1, SuccessorLive DEF RunListIsRing
<1>2. CASE IdleFreeStack \/ DuplicateNoPid
  BY <1>0, <1>2 DEF IdleFreeStack, DuplicateNoPid, RunListIsRing, Live, listVars, pidVars, procVars
<1>3. CASE Duplicate
  <2>1. NewPid \in Pids \ Live /\ Live' = Live \cup {NewPid}
    BY <1>3, LiveAfterDuplicate
  <2>2. /\ next' = [next EXCEPT ![NewPid] = head, ![prev[head]] = NewPid]
        /\ prev' = [prev EXCEPT ![NewPid] = prev[head], ![head] = NewPid]
        /\ head' = head
    BY <1>3 DEF Duplicate, AddToRunList
  <2>3. Live \subseteq Pids
    BY DEF TypeOK, Live
  <2>4. IsRing(Live \cup {NewPid}, next', prev')
    BY <1>0, <2>1, <2>2, <2>3, RingInsert DEF TypeOK
  <2> QED BY <1>0, <2>1, <2>2, <2>4 DEF RunListIsRing
<1>4. CASE DuplicateNoStack \/ \E step \in {"usralloc", "pageTable", "descriptors"} :
                                   DuplicateFails(step)
  <2>1. Live' = Live
    BY <1>4, LiveAfterFailure
  <2>2. UNCHANGED listVars
    BY <1>4 DEF DuplicateNoStack, DuplicateFails, listVars
  <2> QED BY <1>0, <2>1, <2>2 DEF RunListIsRing, listVars
<1>5. CASE ExitProcess \/ SecurityViolation \/ ExecuteNoAllocator \/ ExecuteBadElf
  <2>1. head # Idle /\ \E i, a : Exit(i, a)
    BY <1>5 DEF ExitProcess, SecurityViolation, ExecuteNoAllocator, ExecuteBadElf, InUser
  <2> QED BY <2>1, RingExit
<1>6. ASSUME NEW c \in Pids, GetProcStatus(c) PROVE RunListIsRing'
  <2>1. Live' = Live
    BY <1>6, LiveAfterCollect
  <2>2. UNCHANGED listVars
    BY <1>6 DEF GetProcStatus
  <2> QED BY <1>0, <2>1, <2>2 DEF RunListIsRing, listVars
<1>7. CASE UNCHANGED vars
  BY <1>0, <1>7 DEF vars, RunListIsRing, Live, listVars, pidVars, procVars
<1> QED BY <1>1, <1>2, <1>3, <1>4, <1>5, <1>6, <1>7 DEF Next

-----------------------------------------------------------------------------
(* The first two pids were taken from the first word.                      *)
LEMMA ScanInit == Init => ScanSkipsNoFreePid
<1> SUFFICES ASSUME Init PROVE ScanSkipsNoFreePid
  OBVIOUS
<1>1. lastChecked = 0
  BY PidAssumption DEF Init, WordOf, Idle
<1> QED BY <1>1, PidFacts DEF ScanSkipsNoFreePid

(* newProcess moves the scan past full words only, freePid moves it back.  *)
LEMMA ScanStep ==
  ASSUME TypeOK, ScanSkipsNoFreePid, [Next]_vars
  PROVE  ScanSkipsNoFreePid'
<1> USE PidFacts DEF ScanSkipsNoFreePid
<1>1. CASE UNCHANGED pidVars
  BY <1>1 DEF pidVars
<1>2. CASE DuplicateNoPid
  <2>1. Pids \ used = {}
    <3> SUFFICES ASSUME NEW p \in Pids \ used PROVE FALSE
      OBVIOUS
    <3>1. WordOf(p) \in OpenWords
      BY DEF OpenWords, Words, ClearBits
    <3> QED BY <1>2, <3>1 DEF DuplicateNoPid, PidAvailable
  <2> QED BY <1>2, <2>1 DEF DuplicateNoPid
<1>3. CASE PidAvailable /\ lastChecked' = FoundWord /\ used \subseteq used'
  <2>1. \A p \in Pids \ used : FoundWord <= WordOf(p)
    BY <1>3, NewPidFacts
  <2> QED BY <1>3, <2>1, NewPidFacts
<1>4. ASSUME NEW c \in Pids, FreePid(c) PROVE ScanSkipsNoFreePid'
  BY <1>4 DEF FreePid, TypeOK
<1>5. CASE Duplicate \/ DuplicateNoStack
           \/ \E step \in {"usralloc", "pageTable", "descriptors"} : DuplicateFails(step)
  BY <1>3, <1>5 DEF Duplicate, DuplicateNoStack, DuplicateFails, TakeAndFreePid
<1>6. CASE ExitProcess \/ SecurityViolation \/ ExecuteNoAllocator \/ ExecuteBadElf
  BY <1>1, <1>6 DEF ExitProcess, SecurityViolation, ExecuteNoAllocator, ExecuteBadElf, Exit
<1>7. CASE Yield \/ IdleYield \/ IdleFreeStack \/ UNCHANGED vars
  BY <1>1, <1>7 DEF Yield, IdleYield, IdleFreeStack, vars
<1>8. ASSUME NEW c \in Pids, GetProcStatus(c) PROVE ScanSkipsNoFreePid'
  BY <1>4, <1>8 DEF GetProcStatus
<1> QED BY <1>2, <1>5, <1>6, <1>7, <1>8 DEF Next

-----------------------------------------------------------------------------
(* kmain and init have a stack each.                                       *)
LEMMA StacksInit == Init => StacksExclusive
<1> SUFFICES ASSUME Init PROVE StacksExclusive
  OBVIOUS
<1> USE PidFacts
<1>1. PICK s \in Stacks, t \in Stacks :
        /\ s # t /\ mapped = {s, t}
        /\ stack = [p \in Pids |-> IF p = Idle THEN s
                                   ELSE IF p = InitPid THEN t ELSE NoStack]
  BY DEF Init
<1>2. Live = {Idle, InitPid}
  <2>1. Idle \in used /\ InitPid \in used /\ used \subseteq Pids
    BY DEF Init
  <2>2. \A p \in Pids : dead[p] = 0 /\ (stack[p] # NoStack <=> p \in {Idle, InitPid})
    BY StackAssumption, <1>1 DEF Init
  <2> QED BY <2>1, <2>2 DEF Live
<1>3. Range(pool) = {} /\ IsInjective(pool)
  BY DEF Init, Range, IsInjective
<1> QED BY <1>1, <1>2, <1>3 DEF StacksExclusive

(* What a stack from StackSource is not: the stack of a live process, or   *)
(* still in the pool.                                                      *)
LEMMA FreshStack ==
  ASSUME TypeOK, StacksExclusive, NEW s \in Stacks, StackSource(s)
  PROVE  /\ \A p \in Live : stack[p] # s
         /\ s \notin Range(PoolAfterGet) /\ IsInjective(PoolAfterGet)
         /\ {s} \cup Range(PoolAfterGet) = {s} \cup Range(pool)
         /\ PoolAfterGet \in Seq(Stacks)
<1>1. CASE pool # <<>>
  <2>1. s = Head(pool) /\ PoolAfterGet = Tail(pool) /\ pool \in Seq(Stacks)
    BY <1>1 DEF StackSource, PoolAfterGet, TypeOK
  <2>2. s \in Range(pool)
    BY <1>1, <2>1, PopFacts
  <2> QED BY <1>1, <2>1, <2>2, PopFacts DEF StacksExclusive
<1>2. CASE pool = <<>>
  <2>1. PoolAfterGet = pool /\ s \notin mapped
    BY <1>2 DEF StackSource, PoolAfterGet
  <2> QED BY <2>1 DEF StacksExclusive, TypeOK
<1> QED BY <1>1, <1>2

(* Every step keeps stacks exclusive.                                      *)
LEMMA StacksStep ==
  ASSUME TypeOK, RunListIsRing, StacksExclusive, [Next]_vars
  PROVE  StacksExclusive'
<1>h. head \in Live /\ head \in Pids /\ stack[head] \in Stacks
  BY DEF RunListIsRing, Live, TypeOK
<1>1. CASE Live' = Live /\ UNCHANGED <<stack, pool, mapped>>
  BY <1>1 DEF StacksExclusive
<1>2. CASE Yield \/ IdleYield \/ DuplicateNoPid \/ UNCHANGED vars
  BY <1>1, <1>2 DEF Yield, IdleYield, DuplicateNoPid, Live, vars, pidVars, procVars, stackVars
<1>3. CASE IdleFreeStack
  <2>1. pool # <<>> /\ pool \in Seq(Stacks) /\ pool' = Tail(pool)
        /\ mapped' = mapped \ {Head(pool)}
        /\ stack' = stack /\ Live' = Live
    BY <1>3 DEF IdleFreeStack, TypeOK, Live, pidVars, procVars
  <2>2. /\ Range(pool) = {Head(pool)} \cup Range(pool')
        /\ IsInjective(pool') /\ Head(pool) \notin Range(pool')
    BY <2>1, PopFacts DEF StacksExclusive
  <2> QED BY <2>1, <2>2 DEF StacksExclusive
<1>4. CASE Duplicate
  <2>1. /\ NewPid \in Pids \ Live /\ Live' = Live \cup {NewPid}
        /\ \A p \in Live : stack'[p] = stack[p]
    BY <1>4, LiveAfterDuplicate
  <2>2. PICK s \in Stacks : /\ StackSource(s) /\ mapped' = mapped \cup {s}
                            /\ stack' = [stack EXCEPT ![NewPid] = s]
    BY <1>4 DEF Duplicate
  <2>3. pool' = PoolAfterGet /\ stack'[NewPid] = s
    BY <1>4, <2>1, <2>2 DEF Duplicate, TypeOK
  <2>4. /\ \A p \in Live : stack[p] # s
        /\ s \notin Range(pool') /\ IsInjective(pool')
        /\ {s} \cup Range(pool') = {s} \cup Range(pool)
    BY <2>2, <2>3, FreshStack
  <2>5. \A p, q \in Live' : stack'[p] = stack'[q] => p = q
    BY <2>1, <2>3, <2>4 DEF StacksExclusive
  <2>6. \A p \in Live' : stack'[p] \notin Range(pool')
    BY <2>1, <2>3, <2>4 DEF StacksExclusive
  <2>7. mapped' = {stack'[p] : p \in Live'} \cup Range(pool')
    <3>1. {stack'[p] : p \in Live'} = {s} \cup {stack[p] : p \in Live}
      BY <2>1, <2>3
    <3> QED BY <3>1, <2>2, <2>4 DEF StacksExclusive
  <2> QED BY <2>4, <2>5, <2>6, <2>7 DEF StacksExclusive
<1>5. CASE DuplicateNoStack
  <2>1. Live' = Live /\ \A p \in Live : stack'[p] = stack[p]
    BY <1>5, LiveAfterFailure
  <2> QED BY <1>5, <2>1 DEF DuplicateNoStack, stackVars, StacksExclusive
<1>6. ASSUME NEW step \in {"usralloc", "pageTable", "descriptors"}, DuplicateFails(step)
      PROVE  StacksExclusive'
  <2>1. Live' = Live /\ \A p \in Live : stack'[p] = stack[p]
    BY <1>6, LiveAfterFailure
  <2>2. PICK s \in Stacks : /\ StackSource(s) /\ mapped' = mapped \cup {s}
                            /\ pool' = <<s>> \o PoolAfterGet
    BY <1>6 DEF DuplicateFails
  <2>3. /\ \A p \in Live : stack[p] # s
        /\ s \notin Range(PoolAfterGet) /\ IsInjective(PoolAfterGet)
        /\ {s} \cup Range(PoolAfterGet) = {s} \cup Range(pool)
        /\ PoolAfterGet \in Seq(Stacks)
    BY <2>2, FreshStack
  <2>4. Range(pool') = {s} \cup Range(pool) /\ IsInjective(pool')
    BY <2>2, <2>3, PushFacts
  <2> QED BY <2>1, <2>2, <2>3, <2>4 DEF StacksExclusive
<1>7. ASSUME NEW i, NEW a, Exit(i, a) PROVE StacksExclusive'
  <2>1. Live' = Live \ {head} /\ stack' = stack
    BY <1>7, <1>h, LiveAfterExit
  <2>2. pool' = <<stack[head]>> \o pool /\ mapped' = mapped
    BY <1>7 DEF Exit
  <2>3. stack[head] \notin Range(pool)
    BY <1>h DEF StacksExclusive
  <2>4. Range(pool') = {stack[head]} \cup Range(pool) /\ IsInjective(pool')
    BY <1>h, <2>2, <2>3, PushFacts DEF StacksExclusive, TypeOK
  <2>5. \A p \in Live' : stack'[p] \notin Range(pool')
    BY <1>h, <2>1, <2>4 DEF StacksExclusive
  <2>6. mapped' = {stack'[p] : p \in Live'} \cup Range(pool')
    BY <1>h, <2>1, <2>2, <2>4 DEF StacksExclusive
  <2> QED BY <2>1, <2>4, <2>5, <2>6 DEF StacksExclusive
<1>8. CASE ExitProcess \/ SecurityViolation \/ ExecuteNoAllocator \/ ExecuteBadElf
  BY <1>7, <1>8 DEF ExitProcess, SecurityViolation, ExecuteNoAllocator, ExecuteBadElf
<1>9. ASSUME NEW c \in Pids, GetProcStatus(c) PROVE StacksExclusive'
  <2>1. Live' = Live /\ stack' = stack
    BY <1>9, LiveAfterCollect
  <2> QED BY <1>1, <1>9, <2>1 DEF GetProcStatus, stackVars
<1> QED BY <1>2, <1>3, <1>4, <1>5, <1>6, <1>8, <1>9 DEF Next

-----------------------------------------------------------------------------
(* The inductive invariant holds when kmain first yields ...               *)
LEMMA InvInit == Init => Inv
BY TypeInit, RingInit, StacksInit, ScanInit DEF Inv

(* ... and every step preserves it.                                        *)
LEMMA InvStep == Inv /\ [Next]_vars => Inv'
<1> SUFFICES ASSUME Inv, [Next]_vars PROVE Inv'
  OBVIOUS
<1>1. TypeOK /\ RunListIsRing /\ StacksExclusive /\ ScanSkipsNoFreePid /\ head \in Live
  BY DEF Inv, RunListIsRing
<1> QED BY <1>1, TypeStep, RingStep, StacksStep, ScanStep DEF Inv

(* All four state invariants, together inductive, hold of the process      *)
(* subsystem for every number of pids, stacks and set of failing steps.    *)
THEOREM InvHolds == Spec => []Inv
BY InvInit, InvStep, PTL DEF Spec

(* Type correctness of the process subsystem.                              *)
THEOREM TypeCorrect == Spec => []TypeOK
BY InvHolds, PTL DEF Inv

(* schedule, addToRunList and suspendFromRunList keep next and prev one    *)
(* ring through all live processes and no other record, however processes  *)
(* are created, killed and collected.                                      *)
THEOREM RunListAlwaysARing == Spec => []RunListIsRing
BY InvHolds, PTL DEF Inv

(* Kernel stacks are never shared, never unmapped under a live process and *)
(* never lost, through every failure path of fork.                         *)
THEOREM StacksAlwaysExclusive == Spec => []StacksExclusive
BY InvHolds, PTL DEF Inv

(* newProcess refuses a pid only when there is none.                       *)
THEOREM ScanIsComplete == Spec => []ScanSkipsNoFreePid
BY InvHolds, PTL DEF Inv

-----------------------------------------------------------------------------
(* kmain and init have an allocator each.                                  *)
LEMMA AllocatorInit == Init => LiveHaveAllocator
<1> SUFFICES ASSUME Init PROVE \A p \in Live : usralloc[p] = "live"
  BY DEF LiveHaveAllocator
<1>1. \A p \in Pids : stack[p] # NoStack => p \in {Idle, InitPid}
  BY PidFacts, StackAssumption DEF Init
<1>2. Live \subseteq Pids /\ \A p \in Live : stack[p] # NoStack
  BY PidFacts DEF Init, Live
<1> QED BY <1>1, <1>2, PidFacts DEF Init

(* Fork gives one to its child, and only what ends takes one away.         *)
LEMMA AllocatorStep ==
  ASSUME Inv, LiveHaveAllocator, [Next]_vars
  PROVE  LiveHaveAllocator'
<1>0. TypeOK /\ head \in Live /\ Live \subseteq Pids
  BY DEF Inv, RunListIsRing, TypeOK, Live
<1>1. CASE /\ heapOk /\ Live' \subseteq Live
           /\ \A p \in Live' : usralloc'[p] = usralloc[p]
  BY <1>1 DEF LiveHaveAllocator
<1>2. CASE Yield \/ IdleYield \/ IdleFreeStack \/ DuplicateNoPid
  BY <1>1, <1>2 DEF Yield, IdleYield, IdleFreeStack, DuplicateNoPid, InUser, Live,
                    pidVars, procVars
<1>3. CASE Duplicate
  <2>1. /\ NewPid \in Pids \ Live /\ Live' = Live \cup {NewPid}
        /\ usralloc' = [usralloc EXCEPT ![NewPid] = "live"] /\ heapOk
    BY <1>0, <1>3, LiveAfterDuplicate DEF Duplicate, InUser
  <2> QED BY <1>0, <2>1 DEF LiveHaveAllocator, TypeOK
<1>4. CASE DuplicateNoStack \/ \E step \in {"usralloc", "pageTable", "descriptors"} :
                                   DuplicateFails(step)
  <2>1. Live' = Live /\ heapOk
    BY <1>0, <1>4, LiveAfterFailure DEF DuplicateNoStack, DuplicateFails, InUser
  <2>2. NewPid \in Pids \ Live
    BY <1>4, NewPidFacts DEF DuplicateNoStack, DuplicateFails, Live
  <2>3. usralloc' = usralloc \/ \E a : usralloc' = [usralloc EXCEPT ![NewPid] = a]
    BY <1>4, Zenon DEF DuplicateNoStack, DuplicateFails
  <2>4. \A p \in Pids \ {NewPid} : usralloc'[p] = usralloc[p]
    BY <1>0, <2>3 DEF TypeOK
  <2> QED BY <1>0, <1>1, <2>1, <2>2, <2>4
<1>5. CASE ExitProcess \/ SecurityViolation \/ ExecuteNoAllocator \/ ExecuteBadElf
  <2>1. heapOk /\ \E i, a : Exit(i, a)
    BY <1>5 DEF ExitProcess, SecurityViolation, ExecuteNoAllocator, ExecuteBadElf, InUser
  <2>2. Live' = Live \ {head}
    BY <1>0, <2>1, LiveAfterExit
  <2>3. \A p \in Pids \ {head} : usralloc'[p] = usralloc[p]
    BY <2>1 DEF Exit, TypeOK
  <2> QED BY <1>0, <1>1, <2>1, <2>2, <2>3
<1>6. ASSUME NEW c \in Pids, GetProcStatus(c) PROVE LiveHaveAllocator'
  <2>1. Live' = Live /\ heapOk /\ usralloc' = usralloc
    BY <1>0, <1>6, LiveAfterCollect DEF GetProcStatus, InUser
  <2> QED BY <1>1, <2>1
<1>7. CASE UNCHANGED vars
  BY <1>7 DEF vars, LiveHaveAllocator, Live, pidVars, procVars
<1> QED BY <1>2, <1>3, <1>4, <1>5, <1>6, <1>7 DEF Next

(* No live process is left without an allocator, or with one that exec or  *)
(* a failed fork has deleted.                                              *)
THEOREM LiveAlwaysHaveAllocator == Spec => []LiveHaveAllocator
BY AllocatorInit, AllocatorStep, InvHolds, PTL DEF Spec

-----------------------------------------------------------------------------
(* No step touches what a dead process leaves, or gives its pid away,      *)
(* before the process its ppid names has collected it.                     *)
ZombieStep ==
  \A c \in Zombies :
    IF c \in used'
      THEN c \in Zombies' /\ exitInfo'[c] = exitInfo[c] /\ ppid'[c] = ppid[c]
      ELSE ppid[c] = head /\ head # Idle

(* One step keeps every uncollected dead process, its status and its       *)
(* parent.                                                                 *)
LEMMA ZombieKept ==
  ASSUME Inv, [Next]_vars
  PROVE  ZombieStep
<1> SUFFICES ASSUME NEW c \in Zombies
             PROVE  IF c \in used'
                      THEN /\ c \in Zombies' /\ exitInfo'[c] = exitInfo[c]
                           /\ ppid'[c] = ppid[c]
                      ELSE ppid[c] = head /\ head # Idle
  BY DEF ZombieStep
<1>0. TypeOK /\ head \in Live /\ c \in used /\ dead[c] = 1 /\ c # head /\ c \in Pids
  BY DEF Inv, RunListIsRing, Live, Zombies, TypeOK
<1>1. CASE UNCHANGED <<used, dead, exitInfo, ppid>>
  BY <1>0, <1>1 DEF Zombies
<1>2. CASE PidAvailable /\ used \subseteq used' /\ exitInfo' = exitInfo
           /\ (dead' = dead \/ dead' = [dead EXCEPT ![NewPid] = 0])
           /\ (ppid' = ppid \/ ppid' = [ppid EXCEPT ![NewPid] = head])
  <2>1. NewPid # c
    BY <1>0, <1>2, NewPidFacts
  <2> QED BY <1>0, <1>2, <2>1 DEF Zombies, TypeOK
<1>3. ASSUME NEW i, NEW a, Exit(i, a)
      PROVE  c \in used' /\ c \in Zombies' /\ exitInfo'[c] = exitInfo[c] /\ ppid'[c] = ppid[c]
  BY <1>0, <1>3 DEF Exit, Zombies, TypeOK, pidVars
<1>4. CASE Yield \/ IdleYield \/ IdleFreeStack \/ DuplicateNoPid \/ UNCHANGED vars
  BY <1>1, <1>4 DEF Yield, IdleYield, IdleFreeStack, DuplicateNoPid, vars, pidVars, procVars
<1>5. CASE Duplicate
  BY <1>2, <1>5 DEF Duplicate
<1>6. CASE DuplicateNoStack
  BY <1>1, <1>6 DEF DuplicateNoStack, TakeAndFreePid
<1>7. ASSUME NEW step \in {"usralloc", "pageTable", "descriptors"}, DuplicateFails(step)
      PROVE  /\ PidAvailable /\ used \subseteq used' /\ exitInfo' = exitInfo
             /\ (dead' = dead \/ dead' = [dead EXCEPT ![NewPid] = 0])
             /\ (ppid' = ppid \/ ppid' = [ppid EXCEPT ![NewPid] = head])
  BY <1>7 DEF DuplicateFails, TakeAndFreePid
<1>8. CASE ExitProcess \/ SecurityViolation \/ ExecuteNoAllocator \/ ExecuteBadElf
  <2>1. \E i, a : Exit(i, a)
    BY <1>8 DEF ExitProcess, SecurityViolation, ExecuteNoAllocator, ExecuteBadElf
  <2> QED BY <2>1, <1>3
<1>9. ASSUME NEW d \in Pids, GetProcStatus(d)
      PROVE  IF c \in used'
               THEN c \in Zombies' /\ exitInfo'[c] = exitInfo[c] /\ ppid'[c] = ppid[c]
               ELSE ppid[c] = head /\ head # Idle
  BY <1>0, <1>9 DEF GetProcStatus, FreePid, InUser, Zombies, TypeOK
<1> QED BY <1>2, <1>4, <1>5, <1>6, <1>7, <1>8, <1>9 DEF Next

(* The exit status a parent waits for is the one its child left.           *)
THEOREM ZombiesAlwaysWait == Spec => ZombiesWaitForParent
<1>1. Inv /\ [Next]_vars => [ZombieStep]_vars
  BY ZombieKept
<1>2. Spec => [][ZombieStep]_vars
  BY <1>1, InvHolds, PTL DEF Spec
<1> QED BY <1>2 DEF ZombiesWaitForParent, ZombieStep

-----------------------------------------------------------------------------
(* ProcessManager implements ProcessLifecycle: the ring of pointers        *)
(* behaves as a FIFO queue, the pid bitmap and the records as phases.      *)
(*                                                                         *)
(* q lists the members of S once each in the order of nx, from h on, and   *)
(* nx closes the circle.                                                   *)
IsQueue(S, nx, h, q) ==
  /\ q \in Seq(S) /\ q # <<>> /\ q[1] = h
  /\ IsInjective(q) /\ Range(q) = S
  /\ \A i \in 1 .. Len(q) - 1 : nx[q[i]] = q[i + 1]
  /\ nx[q[Len(q)]] = h

(* RunQueue as an operator of the ring it reads.                           *)
QueueFrom(S, nx, h) ==
  LET n == Cardinality(S)
      ith[i \in 1 .. n] == IF i = 1 THEN h ELSE nx[ith[i - 1]]
  IN  [i \in 1 .. n |-> ith[i]]

(* Following nx from h spells out the queue: its length is the number of   *)
(* members, and two ways to follow nx cannot part at a first place.        *)
LEMMA QueueFromIsQueue ==
  ASSUME NEW S, NEW nx, NEW h, NEW q, IsQueue(S, nx, h, q)
  PROVE  QueueFrom(S, nx, h) = q
<1> DEFINE n == Cardinality(S)
           Step(f) == [i \in 1 .. n |-> IF i = 1 THEN h ELSE nx[f[i - 1]]]
<1>1. Len(q) \in Nat /\ Len(q) > 0 /\ DOMAIN q = 1 .. Len(q) /\ q = [i \in 1 .. Len(q) |-> q[i]]
      /\ q \in [1 .. Len(q) -> S]
  BY DEF IsQueue
<1>2. Cardinality(S) = Len(q)
  <2>1. q \in Bijection(1 .. Len(q), S)
    BY <1>1 DEF IsQueue, IsInjective, Range, Bijection, Injection, Surjection
  <2> QED BY <1>1, <2>1, FS_CountingElements DEF ExistsBijection
<1>3. q = Step(q)
  <2>1. ASSUME NEW i \in 1 .. n PROVE q[i] = IF i = 1 THEN h ELSE nx[q[i - 1]]
    <3>1. CASE i = 1
      BY <3>1 DEF IsQueue
    <3>2. CASE i # 1
      <4>1. i - 1 \in 1 .. Len(q) - 1 /\ i - 1 + 1 = i
        BY <1>1, <1>2, <3>2
      <4> QED BY <3>2, <4>1 DEF IsQueue
    <3> QED BY <3>1, <3>2
  <2> QED BY <1>1, <1>2, <2>1
<1>4. ASSUME NEW f, f = Step(f) PROVE f = q
  <2> DEFINE Bad == {i \in 1 .. n : f[i] # q[i]}
  <2>1. Bad = {}
    <3> SUFFICES ASSUME Bad # {} PROVE FALSE
      OBVIOUS
    <3>1. Bad \subseteq Nat
      OBVIOUS
    <3>2. PICK i \in Bad : \A j \in Bad : i <= j
      BY <3>1, MinIsLeast
    <3>3. \A k \in 1 .. n : f[k] = IF k = 1 THEN h ELSE nx[f[k - 1]]
      BY <1>4
    <3>4. \A k \in 1 .. n : q[k] = IF k = 1 THEN h ELSE nx[q[k - 1]]
      BY <1>3
    <3>5. i \in 1 .. n /\ f[i] # q[i]
      BY <3>2
    <3>6. i - 1 \in 1 .. n
      BY <1>1, <1>2, <3>3, <3>4, <3>5
    <3>7. f[i - 1] = q[i - 1]
      BY <1>1, <1>2, <3>2, <3>6
    <3> QED BY <3>3, <3>4, <3>5, <3>7
  <2>2. f = [i \in 1 .. n |-> f[i]]
    BY <1>4
  <2> QED BY <1>1, <1>2, <2>1, <2>2
<1>5. (CHOOSE f : f = Step(f)) = q
  BY <1>3, <1>4
<1> QED BY <1>1, <1>2, <1>5 DEF QueueFrom

-----------------------------------------------------------------------------
(* A turn: the ring read from the next process is the queue rotated.       *)
LEMMA QueueRotated ==
  ASSUME NEW S, NEW nx, NEW h, NEW q, IsQueue(S, nx, h, q)
  PROVE  /\ IsQueue(S, nx, nx[h], Lifecycle!Rotated(q))
         /\ Head(Lifecycle!Rotated(q)) = nx[h]
<1> DEFINE n == Len(q)
           r == Append(Tail(q), Head(q))
<1>1. /\ n = Len(q) /\ n \in Nat /\ n > 0 /\ Head(q) = q[1] /\ \A i \in 1 .. n : q[i] \in S
      /\ DOMAIN q = 1 .. n
      /\ \A i, j \in 1 .. n : q[i] = q[j] => i = j
      /\ \A i \in 1 .. n - 1 : nx[q[i]] = q[i + 1]
  BY DEF IsQueue, IsInjective
<1>2. /\ r \in Seq(S) /\ Len(r) = n /\ DOMAIN r = 1 .. n /\ r # <<>>
      /\ r[n] = q[1] /\ \A i \in 1 .. n - 1 : r[i] = q[i + 1]
  BY <1>1 DEF IsQueue
<1> HIDE DEF n, r
<1>3. \A i \in 1 .. n : i = n \/ (i \in 1 .. n - 1 /\ i + 1 \in 1 .. n /\ i + 1 # 1)
  BY <1>1
<1>4. r[1] = nx[h] /\ nx[r[n]] = r[1]
  BY <1>1, <1>2 DEF IsQueue
<1>5. IsInjective(r)
  <2>1. \A i \in 1 .. n : r[i] = q[IF i = n THEN 1 ELSE i + 1]
    BY <1>1, <1>2, <1>3
  <2>2. ASSUME NEW i \in 1 .. n, NEW j \in 1 .. n, r[i] = r[j] PROVE i = j
    BY <1>1, <1>3, <2>1, <2>2
  <2> QED BY <1>2, <2>2 DEF IsInjective
<1>6. Range(r) = S
  <2>1. ASSUME NEW x \in S PROVE x \in Range(r)
    <3>1. PICK i \in 1 .. n : q[i] = x
      BY <1>1 DEF IsQueue, Range
    <3>2. CASE i = 1
      BY <1>1, <1>2, <3>1, <3>2 DEF Range
    <3>3. CASE i # 1
      <4>1. i - 1 \in 1 .. n - 1 /\ i - 1 \in 1 .. n /\ i - 1 + 1 = i
        BY <1>1, <3>3
      <4>2. r[i - 1] = x
        BY <1>2, <3>1, <4>1
      <4> QED BY <1>2, <4>1, <4>2 DEF Range
    <3> QED BY <3>2, <3>3
  <2> QED BY <1>2, <2>1 DEF Range
<1>7. ASSUME NEW i \in 1 .. n - 1 PROVE nx[r[i]] = r[i + 1]
  <2>1. r[i] = q[i + 1]
    BY <1>2
  <2>2. CASE i + 1 = n
    BY <1>1, <1>2, <2>1, <2>2 DEF IsQueue
  <2>3. CASE i + 1 # n
    <3>1. i + 1 \in 1 .. n - 1
      BY <1>1, <2>3
    <3>2. i + 1 \in 1 .. n - 1 /\ r[i + 1] = q[i + 1 + 1]
      BY <1>2, <3>1
    <3> QED BY <1>1, <2>1, <3>1, <3>2
  <2> QED BY <2>2, <2>3
<1>8. IsQueue(S, nx, nx[h], r) /\ Head(r) = nx[h]
  BY <1>2, <1>4, <1>5, <1>6, <1>7 DEF IsQueue
<1> QED BY <1>8 DEF r, Lifecycle!Rotated

(* addToRunList: a process linked in between the last one and the head     *)
(* comes last in the queue.                                                *)
LEMMA QueueAppended ==
  ASSUME NEW P, NEW S, S \subseteq P, NEW nx \in [P -> P], NEW h, NEW q,
         IsQueue(S, nx, h, q), NEW p \in P \ S,
         NEW nx1, nx1 = [nx EXCEPT ![p] = h, ![q[Len(q)]] = p]
  PROVE  IsQueue(S \cup {p}, nx1, h, Append(q, p))
<1> DEFINE n == Len(q)
           r == Append(q, p)
<1>1. /\ n = Len(q) /\ n \in Nat /\ n > 0 /\ DOMAIN q = 1 .. n /\ \A i \in 1 .. n : q[i] \in S
      /\ q \in Seq(S)
      /\ \A i, j \in 1 .. n : q[i] = q[j] => i = j
      /\ \A i \in 1 .. n - 1 : nx[q[i]] = q[i + 1]
  BY DEF IsQueue, IsInjective
<1>2. /\ r \in Seq(S \cup {p}) /\ Len(r) = n + 1 /\ DOMAIN r = 1 .. n + 1 /\ r # <<>>
      /\ r[n + 1] = p /\ \A i \in 1 .. n : r[i] = q[i]
  BY <1>1
<1> HIDE DEF n, r
<1>3. \A i \in 1 .. n + 1 : i = n + 1 \/ i \in 1 .. n
  BY <1>1
<1>4. nx1[p] = h /\ nx1[q[n]] = p /\ \A x \in S \ {q[n]} : nx1[x] = nx[x]
  BY <1>1
<1>5. IsInjective(r)
  BY <1>1, <1>2, <1>3 DEF IsQueue, IsInjective
<1>6. Range(r) = S \cup {p}
  <2>1. ASSUME NEW x \in S PROVE x \in Range(r)
    <3>1. PICK i \in 1 .. n : q[i] = x
      BY <1>1 DEF IsQueue, Range
    <3> QED BY <1>1, <1>2, <3>1 DEF Range
  <2>2. p \in Range(r)
    BY <1>1, <1>2 DEF Range
  <2> QED BY <1>2, <2>1, <2>2 DEF Range
<1>7. ASSUME NEW i \in 1 .. n PROVE nx1[r[i]] = r[i + 1]
  <2>1. CASE i = n
    BY <1>1, <1>2, <1>4, <2>1
  <2>2. CASE i # n
    <3>1. i \in 1 .. n - 1 /\ i + 1 \in 1 .. n /\ n \in 1 .. n
      BY <1>1, <2>2
    <3>2. q[i] # q[n]
      BY <1>1, <2>2, <3>1 DEF IsQueue, IsInjective
    <3>3. nx1[q[i]] = q[i + 1]
      BY <1>1, <1>4, <3>1, <3>2 DEF IsQueue
    <3> QED BY <1>2, <3>1, <3>3
  <2> QED BY <2>1, <2>2
<1>8. r[1] = h /\ n + 1 - 1 = n
  BY <1>1, <1>2 DEF IsQueue
<1>9. IsQueue(S \cup {p}, nx1, h, r)
  <2>1. nx1[r[Len(r)]] = h /\ \A i \in 1 .. Len(r) - 1 : nx1[r[i]] = r[i + 1]
    BY <1>1, <1>2, <1>4, <1>7, <1>8
  <2> QED BY <1>2, <1>5, <1>6, <1>8, <2>1 DEF IsQueue
<1> QED BY <1>9 DEF r

(* suspendFromRunList: unlinking the head drops it from the queue.         *)
LEMMA QueueWithoutHead ==
  ASSUME NEW P, NEW S, S \subseteq P, NEW nx \in [P -> P], NEW h, NEW q,
         IsQueue(S, nx, h, q), S # {h},
         NEW nx1, nx1 = [nx EXCEPT ![q[Len(q)]] = nx[h]]
  PROVE  IsQueue(S \ {h}, nx1, nx[h], Tail(q))
<1> DEFINE n == Len(q)
           r == Tail(q)
<1>1. /\ n = Len(q) /\ n \in Nat /\ n > 0 /\ DOMAIN q = 1 .. n /\ \A i \in 1 .. n : q[i] \in S
      /\ q \in Seq(S) /\ h = q[1] /\ h \in S
      /\ \A i, j \in 1 .. n : q[i] = q[j] => i = j
      /\ \A i \in 1 .. n - 1 : nx[q[i]] = q[i + 1]
  BY DEF IsQueue, IsInjective
<1>2. n > 1
  <2>1. PICK x \in S : x # h
    BY <1>1
  <2>2. PICK i \in 1 .. n : q[i] = x
    BY <1>1 DEF IsQueue, Range
  <2> QED BY <1>1, <2>1, <2>2
<1>3. \A i \in 2 .. n : q[i] \in S \ {h}
  BY <1>1, <1>2 DEF IsQueue, IsInjective
<1>4. /\ Len(r) = n - 1 /\ DOMAIN r = 1 .. n - 1 /\ r # <<>> /\ r \in Seq(S)
      /\ \A i \in 1 .. n - 1 : r[i] = q[i + 1]
  <2>1. q # <<>> /\ q \in Seq(S)
    BY <1>1
  <2>2. r \in Seq(S) /\ Len(r) = Len(q) - 1
    BY <2>1, HeadTailProperties
  <2>3. \A i \in 1 .. Len(r) : r[i] = q[i + 1]
    BY <2>1, <2>2, HeadTailProperties
  <2>4. DOMAIN r = 1 .. Len(r)
    BY <2>2
  <2>5. Len(r) = n - 1
    BY <2>2
  <2>6. r # <<>>
    <3>1. n - 1 > 0
      BY <1>1, <1>2
    <3> HIDE DEF r, n
    <3> QED BY <2>5, <3>1
  <2> QED BY <2>2, <2>3, <2>4, <2>5, <2>6
<1> HIDE DEF n, r
<1>5. r \in Seq(S \ {h})
  <2>1. \A i \in 1 .. n - 1 : r[i] \in S \ {h}
    BY <1>1, <1>3, <1>4
  <2>2. n - 1 \in Nat /\ r = [i \in 1 .. n - 1 |-> r[i]]
    BY <1>2, <1>4, <1>1
  <2>3. r \in [1 .. n - 1 -> S \ {h}]
    BY <2>1, <2>2
  <2> QED BY <2>2, <2>3, SeqDef
<1>6. nx1[q[n]] = nx[h] /\ \A x \in S \ {q[n]} : nx1[x] = nx[x]
  BY <1>1
<1>7. r[1] = nx[h]
  BY <1>1, <1>2, <1>4 DEF IsQueue
<1>8. IsInjective(r)
  <2>1. ASSUME NEW i \in 1 .. n - 1, NEW j \in 1 .. n - 1, r[i] = r[j] PROVE i = j
    <3>1. i + 1 \in 1 .. n /\ j + 1 \in 1 .. n /\ q[i + 1] = q[j + 1]
      BY <1>1, <1>4, <2>1
    <3> QED BY <1>1, <3>1
  <2> QED BY <1>4, <2>1 DEF IsInjective
<1>9. Range(r) = S \ {h}
  <2>1. ASSUME NEW x \in S \ {h} PROVE x \in Range(r)
    <3>1. PICK i \in 1 .. n : q[i] = x
      BY <1>1 DEF IsQueue, Range
    <3>2. i # 1 /\ i - 1 \in 1 .. n - 1 /\ i - 1 + 1 = i
      BY <1>1, <3>1
    <3>3. r[i - 1] = x
      BY <1>4, <3>1, <3>2
    <3> QED BY <1>4, <3>2, <3>3 DEF Range
  <2>2. ASSUME NEW i \in DOMAIN r PROVE r[i] \in S \ {h}
    BY <1>1, <1>3, <1>4
  <2> QED BY <2>1, <2>2 DEF Range
<1>10. ASSUME NEW i \in 1 .. Len(r) - 1 PROVE nx1[r[i]] = r[i + 1]
  <2>1. r[i] = q[i + 1] /\ r[i + 1] = q[i + 2]
    BY <1>1, <1>2, <1>4
  <2>2. i + 1 \in 1 .. n - 1 /\ i + 1 # n /\ i + 1 \in 1 .. n /\ n \in 1 .. n
    BY <1>1, <1>2, <1>4
  <2>3. q[i + 1] # q[n] /\ q[i + 1] \in S
    BY <1>1, <2>2
  <2>4. nx[q[i + 1]] = q[i + 1 + 1] /\ i + 1 + 1 = i + 2
    BY <1>1, <2>2
  <2> QED BY <1>6, <2>1, <2>3, <2>4
<1>11. nx1[r[Len(r)]] = nx[h]
  BY <1>1, <1>2, <1>4, <1>6
<1>12. IsQueue(S \ {h}, nx1, nx[h], r)
  BY <1>4, <1>5, <1>7, <1>8, <1>9, <1>10, <1>11 DEF IsQueue
<1> QED BY <1>12 DEF r

-----------------------------------------------------------------------------
(* RunQueue really is the queue of live processes the ring forms, and a    *)
(* collected record names no parent, so that YY_GetProcStatus, which looks *)
(* at ppid and dead only, never finds a pid that is free.                  *)
Queued == IsQueue(Live, next, head, RunQueue)
CollectedHaveNoParent == \A c \in Pids \ used : dead[c] = 1 => ppid[c] = Idle
QInv == Inv /\ Queued /\ CollectedHaveNoParent

(* Whatever lists the ring of a state is that state's RunQueue.            *)
LEMMA RunQueueIs ==
  ASSUME NEW q, IsQueue(Live, next, head, q)
  PROVE  RunQueue = q
<1>1. RunQueue = QueueFrom(Live, next, head)
  BY DEF RunQueue, QueueFrom
<1> QED BY <1>1, QueueFromIsQueue

(* The same of the state after a step.                                     *)
LEMMA RunQueueNextIs ==
  ASSUME NEW q, IsQueue(Live', next', head', q)
  PROVE  RunQueue' = q
<1>1. RunQueue' = QueueFrom(Live', next', head')
  BY DEF RunQueue, QueueFrom
<1> QED BY <1>1, QueueFromIsQueue

(* The phase of a pid before and after a step.                             *)
LEMMA PhaseIs ==
  /\ Phase = [p \in Pids |-> IF p \in Live THEN "running"
                            ELSE IF p \in Zombies THEN "zombie"
                            ELSE IF p \in used THEN "lost" ELSE "free"]
  /\ Phase' = [p \in Pids |-> IF p \in Live' THEN "running"
                             ELSE IF p \in Zombies' THEN "zombie"
                             ELSE IF p \in used' THEN "lost" ELSE "free"]
<1>1. Live \cap Zombies = {} /\ Live \subseteq used /\ Zombies \subseteq used
  BY DEF Zombies, Live
<1>2. Live' \cap Zombies' = {} /\ Live' \subseteq used' /\ Zombies' \subseteq used'
  BY DEF Zombies, Live
<1>3. Phase = [p \in Pids |-> IF p \in Live THEN "running"
                            ELSE IF p \in Zombies THEN "zombie"
                            ELSE IF p \in used THEN "lost" ELSE "free"]
  BY <1>1 DEF Phase
<1>4. Phase' = [p \in Pids |-> IF p \in Live' THEN "running"
                             ELSE IF p \in Zombies' THEN "zombie"
                             ELSE IF p \in used' THEN "lost" ELSE "free"]
  BY <1>2 DEF Phase
<1> QED BY <1>3, <1>4

(* Phases, parents and exit information of one pid.                        *)
LEMMA PhaseFacts ==
  ASSUME NEW p \in Pids
  PROVE  /\ p \in Live => Phase[p] = "running"
         /\ p \in Zombies => Phase[p] = "zombie"
         /\ p \in used \ (Live \cup Zombies) => Phase[p] = "lost"
         /\ p \notin used => Phase[p] = "free"
         /\ Parents[p] = IF p \in Live \cup Zombies THEN ppid[p] ELSE Idle
         /\ Infos[p] = IF p \in Zombies THEN exitInfo[p] ELSE Nothing
         /\ p \in Zombies => p \notin Live
<1>1. p \in Zombies => p \notin Live
  BY DEF Zombies, Live
<1>2. Live \subseteq used /\ Zombies \subseteq used
  BY DEF Zombies, Live
<1> QED BY <1>1, <1>2 DEF Phase, Parents, Infos

-----------------------------------------------------------------------------
(* A step that leaves the ring alone leaves the queue alone.               *)
LEMMA QueueKept ==
  ASSUME Queued, Live' = Live, next' = next, head' = head
  PROVE  Queued' /\ RunQueue' = RunQueue
<1>1. IsQueue(Live', next', head', RunQueue)
  BY DEF Queued
<1>2. RunQueue' = RunQueue
  BY <1>1, RunQueueNextIs
<1> QED BY <1>1, <1>2 DEF Queued

(* schedule: the queue is rotated once, or twice when that brings the idle *)
(* process to the front.                                                   *)
LEMMA QueueTurn ==
  ASSUME Queued, Live' = Live, next' = next, head' = Successor(head, next, pool)
  PROVE  /\ Queued'
         /\ LET q == Lifecycle!Rotated(RunQueue)
            IN  RunQueue' = q \/ (Head(q) = Idle /\ RunQueue' = Lifecycle!Rotated(q))
<1> DEFINE q == Lifecycle!Rotated(RunQueue)
<1>1. IsQueue(Live, next, next[head], q) /\ Head(q) = next[head]
  BY QueueRotated DEF Queued
<1>2. CASE head' = next[head]
  <2>1. IsQueue(Live', next', head', q)
    BY <1>1, <1>2
  <2>2. RunQueue' = q
    BY <2>1, RunQueueNextIs
  <2> QED BY <2>1, <2>2 DEF Queued
<1>3. CASE next[head] = Idle /\ head' = next[Idle]
  <2> HIDE DEF q
  <2>1. IsQueue(Live, next, next[next[head]], Lifecycle!Rotated(q))
    BY <1>1, QueueRotated
  <2>2. IsQueue(Live', next', head', Lifecycle!Rotated(q))
    BY <1>3, <2>1
  <2>3. RunQueue' = Lifecycle!Rotated(q)
    BY <2>2, RunQueueNextIs
  <2>4. Queued' /\ Head(q) = Idle
    BY <1>1, <1>3, <2>2, <2>3 DEF Queued
  <2> QED BY <2>3, <2>4 DEF q
<1> QED BY <1>2, <1>3 DEF Successor

(* The process that comes last in the queue is the one before the head.    *)
LEMMA LastIsPrev ==
  ASSUME Inv, Queued
  PROVE  RunQueue[Len(RunQueue)] = prev[head]
<1> DEFINE t == RunQueue[Len(RunQueue)]
<1>1. next[t] = head
  BY DEF Queued, IsQueue
<1>2. t \in Live
  BY DEF Queued, IsQueue
<1>3. prev[next[t]] = t
  BY <1>2 DEF Inv, RunListIsRing, IsRing
<1> QED BY <1>1, <1>3

(* fork puts the child last.                                               *)
LEMMA QueueDuplicate ==
  ASSUME Inv, Queued, Duplicate
  PROVE  Queued' /\ RunQueue' = Append(RunQueue, NewPid)
<1>1. /\ NewPid \in Pids \ Live /\ Live' = Live \cup {NewPid} /\ Live \subseteq Pids
      /\ next \in [Pids -> Pids] /\ head' = head
  BY LiveAfterDuplicate DEF Inv, TypeOK, Duplicate, Live
<1>2. next' = [next EXCEPT ![NewPid] = head, ![RunQueue[Len(RunQueue)]] = NewPid]
  BY LastIsPrev DEF Duplicate, AddToRunList
<1>3. IsQueue(Live \cup {NewPid}, next', head, Append(RunQueue, NewPid))
  BY <1>1, <1>2, QueueAppended DEF Queued
<1>4. IsQueue(Live', next', head', Append(RunQueue, NewPid))
  BY <1>1, <1>3
<1>5. RunQueue' = Append(RunQueue, NewPid)
  BY <1>4, RunQueueNextIs
<1> QED BY <1>4, <1>5 DEF Queued

(* exit takes the head off: its stack is in the pool by then, so schedule  *)
(* does not pass over the idle process.                                    *)
LEMMA QueueExit ==
  ASSUME Inv, Queued, head # Idle, NEW i, NEW a, Exit(i, a)
  PROVE  Queued' /\ RunQueue' = Tail(RunQueue)
<1>1. /\ head \in Live /\ Idle \in Live /\ Live \subseteq Pids /\ Live # {head}
      /\ next \in [Pids -> Pids] /\ prev[head] # head
      /\ pool \in Seq(Stacks) /\ stack[head] \in Stacks
  <2>1. /\ head \in Live /\ Idle \in Live /\ Live \subseteq Pids /\ Live # {head}
        /\ next \in [Pids -> Pids] /\ prev \in [Pids -> Pids]
        /\ pool \in Seq(Stacks) /\ stack[head] \in Stacks
    BY DEF Inv, TypeOK, RunListIsRing, Live
  <2>2. prev[head] # head
    <3>1. SUFFICES ASSUME prev[head] = head PROVE FALSE
      OBVIOUS
    <3>2. next[head] = head
      BY <2>1, <3>1 DEF Inv, RunListIsRing, IsRing
    <3>3. {head} \in SUBSET Live /\ {head} # {} /\ \A p \in {head} : next[p] \in {head}
      BY <2>1, <3>2
    <3> QED BY <2>1, <3>3 DEF Inv, RunListIsRing, IsRing
  <2> QED BY <2>1, <2>2
<1>2. Live' = Live \ {head}
  BY <1>1, LiveAfterExit DEF Inv
<1>3. next' = [next EXCEPT ![RunQueue[Len(RunQueue)]] = next[head]]
  BY LastIsPrev DEF Exit, Unlink
<1>4. head' = next[head]
  <2>1. pool' # <<>>
    <3>1. pool' = <<stack[head]>> \o pool
      BY DEF Exit
    <3> QED BY <1>1, <3>1
  <2>2. next'[head] = next[head]
    BY <1>1, <1>3, LastIsPrev
  <2> QED BY <2>1, <2>2 DEF Exit, Successor
<1>5. IsQueue(Live \ {head}, next', next[head], Tail(RunQueue))
  BY <1>1, <1>3, QueueWithoutHead DEF Queued
<1>6. IsQueue(Live', next', head', Tail(RunQueue))
  BY <1>2, <1>4, <1>5
<1>7. RunQueue' = Tail(RunQueue)
  BY <1>6, RunQueueNextIs
<1> QED BY <1>6, <1>7 DEF Queued

(* kmain's two processes are the first queue.                              *)
LEMMA QueueInit ==
  ASSUME Init
  PROVE  Queued /\ RunQueue = <<Idle, InitPid>> /\ CollectedHaveNoParent
<1>1. Live = {Idle, InitPid}
  <2>1. Idle \in used /\ InitPid \in used /\ used \subseteq Pids
    BY PidFacts DEF Init
  <2>2. \A p \in Pids : dead[p] = 0 /\ (stack[p] # NoStack <=> p \in {Idle, InitPid})
    BY PidFacts, StackAssumption DEF Init
  <2> QED BY <2>1, <2>2 DEF Live
<1>2. next[Idle] = InitPid /\ next[InitPid] = Idle /\ head = Idle
  BY PidFacts DEF Init
<1> DEFINE q == <<Idle, InitPid>>
<1>3. /\ q \in Seq(Live) /\ Len(q) = 2 /\ q[1] = Idle /\ q[2] = InitPid
      /\ DOMAIN q = {1, 2} /\ q # <<>>
  BY <1>1
<1>4. IsInjective(q) /\ Range(q) = Live
  <2> HIDE DEF q
  <2>1. IsInjective(q)
    BY <1>3, PidFacts DEF IsInjective
  <2>2. Range(q) = {Idle, InitPid}
    BY <1>3 DEF Range
  <2> QED BY <1>1, <2>1, <2>2
<1>5. IsQueue(Live, next, head, q)
  <2> HIDE DEF q
  <2>1. \A i \in 1 .. Len(q) - 1 : i = 1 /\ i + 1 = 2
    BY <1>3
  <2> QED BY <1>2, <1>3, <1>4, <2>1 DEF IsQueue
<1>6. RunQueue = q
  BY <1>5, RunQueueIs
<1>7. CollectedHaveNoParent
  BY DEF Init, CollectedHaveNoParent
<1> QED BY <1>5, <1>6, <1>7 DEF Queued

-----------------------------------------------------------------------------
(* The records behind the mapping are written by few operations: as long   *)
(* as these five variables agree on the processes in use, so do phases,    *)
(* parents and exit information.                                           *)
LEMMA PhasesKept ==
  ASSUME TypeOK, Live' = Live, used' = used,
         \A p \in used : /\ dead'[p] = dead[p] /\ ppid'[p] = ppid[p]
                         /\ exitInfo'[p] = exitInfo[p]
  PROVE  Phase' = Phase /\ Parents' = Parents /\ Infos' = Infos
<1>1. Live \subseteq used
  BY DEF Live
<1>2. Zombies' = Zombies /\ Zombies \subseteq used
  BY DEF Zombies
<1>3. Phase' = Phase
  BY <1>2 DEF Phase
<1>4. Parents' = Parents
  BY <1>1, <1>2 DEF Parents
<1>5. Infos' = Infos
  BY <1>2 DEF Infos
<1> QED BY <1>3, <1>4, <1>5

(* A turn of the scheduler is a turn of the queue.                         *)
LEMMA YieldIsTurn ==
  ASSUME Inv, Queued, Yield \/ IdleYield
  PROVE  Queued' /\ Lifecycle!Turn
<1>1. /\ Live' = Live /\ next' = next /\ head' = Successor(head, next, pool)
      /\ used' = used /\ dead' = dead /\ ppid' = ppid /\ exitInfo' = exitInfo
  BY DEF Yield, IdleYield, Live, pidVars, procVars
<1>2. Phase' = Phase /\ Parents' = Parents /\ Infos' = Infos
  BY <1>1, PhasesKept DEF Inv
<1> QED BY <1>1, <1>2, QueueTurn DEF Lifecycle!Turn

(* fork takes a free pid and puts the child last.                          *)
LEMMA DuplicateIsCreate ==
  ASSUME Inv, Queued, Duplicate
  PROVE  Queued' /\ NewPid \in Pids /\ Lifecycle!Create(NewPid)
<1>1. /\ NewPid \in Pids \ used /\ NewPid \notin Live /\ Live' = Live \cup {NewPid}
      /\ used \subseteq Pids /\ Live \subseteq used
  BY NewPidFacts, LiveAfterDuplicate DEF Duplicate, Inv, TypeOK, Live
<1>2. Head(RunQueue) = head
  BY DEF Queued, IsQueue
<1>3. /\ used' = used \cup {NewPid}
      /\ \A p \in Pids \ {NewPid} : dead'[p] = dead[p] /\ ppid'[p] = ppid[p]
      /\ dead'[NewPid] = 0 /\ ppid'[NewPid] = head /\ exitInfo' = exitInfo
      /\ head # Idle
  BY <1>1 DEF Duplicate, InUser, Inv, TypeOK
<1>4. Zombies' = Zombies /\ NewPid \notin Zombies /\ Zombies \subseteq used
  BY <1>1, <1>3 DEF Zombies
<1>5. Phase[NewPid] = "free"
  BY <1>1, PhaseFacts
<1>6. Phase' = [Phase EXCEPT ![NewPid] = "running"]
  BY <1>1, <1>3, <1>4, PhaseIs
<1>7. Parents' = [Parents EXCEPT ![NewPid] = head]
  BY <1>1, <1>3, <1>4 DEF Parents
<1>8. Infos' = Infos
  BY <1>3, <1>4 DEF Infos
<1>9. Queued' /\ RunQueue' = Append(RunQueue, NewPid)
  BY QueueDuplicate
<1> QED BY <1>1, <1>2, <1>3, <1>5, <1>6, <1>7, <1>8, <1>9 DEF Lifecycle!Create

(* Every way to end is a death of the running process with its exit        *)
(* information.                                                            *)
LEMMA ExitIsDie ==
  ASSUME Inv, Queued, head # Idle, NEW i, NEW a, Exit(i, a)
  PROVE  Queued' /\ Lifecycle!Die(i)
<1>1. /\ head \in Live /\ head \in used /\ head \notin Zombies /\ Live' = Live \ {head}
      /\ used \subseteq Pids /\ Live \subseteq used /\ used' = used
  BY LiveAfterExit DEF Inv, TypeOK, RunListIsRing, Live, Zombies, Exit, pidVars
<1>2. Head(RunQueue) = head
  BY DEF Queued, IsQueue
<1>3. /\ dead' = [dead EXCEPT ![head] = 1] /\ exitInfo' = [exitInfo EXCEPT ![head] = i]
      /\ ppid' = ppid
      /\ dead \in [Pids -> {0, 1}] /\ exitInfo \in [Pids -> ExitInfos]
  BY DEF Exit, Inv, TypeOK
<1>4. Zombies' = Zombies \cup {head} /\ Zombies \subseteq used
  BY <1>1, <1>3 DEF Zombies
<1>5. Phase' = [Phase EXCEPT ![head] = "zombie"]
  BY <1>1, <1>4, PhaseIs
<1>6. Infos' = [Infos EXCEPT ![head] = i]
  BY <1>1, <1>3, <1>4 DEF Infos
<1>7. Parents' = Parents
  BY <1>1, <1>3, <1>4 DEF Parents
<1>8. Queued' /\ RunQueue' = Tail(RunQueue)
  BY QueueExit
<1> QED BY <1>2, <1>5, <1>6, <1>7, <1>8 DEF Lifecycle!Die

(* A parent that finds a dead child collects a zombie of its own.          *)
LEMMA GetProcStatusIsCollect ==
  ASSUME QInv, NEW c \in Pids, GetProcStatus(c)
  PROVE  Queued' /\ Lifecycle!Collect(c)
<1>1. /\ head # Idle /\ ppid[c] = head /\ dead[c] = 1 /\ c \in used
      /\ Live' = Live /\ next' = next /\ head' = head
      /\ used' = used \ {c} /\ dead' = dead /\ exitInfo' = exitInfo
      /\ ppid' = [ppid EXCEPT ![c] = 0] /\ ppid \in [Pids -> Pids]
  BY LiveAfterCollect DEF GetProcStatus, InUser, FreePid, listVars, QInv, Inv, TypeOK,
                          CollectedHaveNoParent
<1>2. c \in Zombies /\ c \notin Live /\ Zombies' = Zombies \ {c}
  BY <1>1 DEF Zombies, Live
<1>3. Phase[c] = "zombie" /\ Parents[c] = head
  BY <1>1, <1>2, PhaseFacts
<1>4. Phase' = [Phase EXCEPT ![c] = "free"]
  BY <1>1, <1>2, PhaseIs
<1>5. Parents' = [Parents EXCEPT ![c] = Idle]
  BY <1>1, <1>2 DEF Parents, Idle
<1>6. Infos' = [Infos EXCEPT ![c] = Nothing]
  BY <1>1, <1>2 DEF Infos
<1>7. Queued' /\ RunQueue' = RunQueue /\ Head(RunQueue) = head
  <2>1. Queued /\ Head(RunQueue) = head
    BY DEF QInv, Queued, IsQueue
  <2> QED BY <1>1, <2>1, QueueKept
<1> QED BY <1>1, <1>3, <1>4, <1>5, <1>6, <1>7 DEF Lifecycle!Collect

(* The other steps, the failed forks among them, are invisible.            *)
LEMMA OthersStutter ==
  ASSUME Inv, Queued,
         \/ IdleFreeStack \/ DuplicateNoPid \/ DuplicateNoStack \/ UNCHANGED vars
         \/ \E step \in {"usralloc", "pageTable", "descriptors"} : DuplicateFails(step)
  PROVE  Queued' /\ UNCHANGED Lifecycle!vars
<1>1. CASE IdleFreeStack \/ DuplicateNoPid \/ UNCHANGED vars
  <2>1. /\ Live' = Live /\ next' = next /\ head' = head
        /\ used' = used /\ dead' = dead /\ ppid' = ppid /\ exitInfo' = exitInfo
    BY <1>1 DEF IdleFreeStack, DuplicateNoPid, vars, listVars, pidVars, procVars, Live
  <2>2. Phase' = Phase /\ Parents' = Parents /\ Infos' = Infos
    BY <2>1, PhasesKept DEF Inv
  <2> QED BY <2>1, <2>2, QueueKept DEF Lifecycle!vars
<1>2. CASE DuplicateNoStack \/ \E step \in {"usralloc", "pageTable", "descriptors"} :
                                   DuplicateFails(step)
  <2>1. /\ Live' = Live /\ used' = used /\ next' = next /\ head' = head
        /\ exitInfo' = exitInfo
    BY <1>2, LiveAfterFailure DEF Inv, DuplicateNoStack, DuplicateFails, listVars
  <2>2. NewPid \in Pids \ used
    BY <1>2, NewPidFacts DEF DuplicateNoStack, DuplicateFails
  <2>3. /\ dead' = dead \/ dead' = [dead EXCEPT ![NewPid] = 0]
        /\ ppid' = ppid \/ ppid' = [ppid EXCEPT ![NewPid] = head]
    BY <1>2 DEF DuplicateNoStack, DuplicateFails
  <2>4. \A p \in used : dead'[p] = dead[p] /\ ppid'[p] = ppid[p]
    BY <2>2, <2>3 DEF Inv, TypeOK
  <2>5. Phase' = Phase /\ Parents' = Parents /\ Infos' = Infos
    BY <2>1, <2>4, PhasesKept DEF Inv
  <2> QED BY <2>1, <2>5, QueueKept DEF Lifecycle!vars
<1> QED BY <1>1, <1>2

(* No step leaves a free pid with a dead record and a parent.              *)
LEMMA CollectedStep ==
  ASSUME Inv, CollectedHaveNoParent, [Next]_vars
  PROVE  CollectedHaveNoParent'
<1> USE DEF CollectedHaveNoParent
<1>0. TypeOK /\ head \in used /\ Idle \in Pids
  BY PidFacts DEF Inv, RunListIsRing, Live
<1>1. CASE UNCHANGED <<used, dead, ppid>>
  BY <1>1
<1>2. CASE Yield \/ IdleYield \/ IdleFreeStack \/ DuplicateNoPid \/ UNCHANGED vars
  BY <1>1, <1>2 DEF Yield, IdleYield, IdleFreeStack, DuplicateNoPid, vars, pidVars, procVars
<1>3. CASE DuplicateNoStack
  BY <1>1, <1>3 DEF DuplicateNoStack, TakeAndFreePid
<1>4. CASE Duplicate
  BY <1>0, <1>4, NewPidFacts DEF Duplicate, TypeOK
<1>5. ASSUME NEW step \in {"usralloc", "pageTable", "descriptors"}, DuplicateFails(step)
      PROVE  CollectedHaveNoParent'
  <2>1. NewPid \in Pids \ used /\ used' = used
    BY <1>5, NewPidFacts DEF DuplicateFails, TakeAndFreePid
  <2>2. \/ UNCHANGED <<dead, ppid>>
        \/ /\ dead' = [dead EXCEPT ![NewPid] = 0]
           /\ ppid' = [ppid EXCEPT ![NewPid] = head]
    BY <1>5 DEF DuplicateFails
  <2> QED BY <1>0, <2>1, <2>2 DEF TypeOK
<1>6. CASE ExitProcess \/ SecurityViolation \/ ExecuteNoAllocator \/ ExecuteBadElf
  <2>1. used' = used /\ ppid' = ppid /\ dead' = [dead EXCEPT ![head] = 1]
    BY <1>6 DEF ExitProcess, SecurityViolation, ExecuteNoAllocator, ExecuteBadElf, Exit,
                pidVars
  <2> QED BY <1>0, <2>1 DEF TypeOK
<1>7. ASSUME NEW c \in Pids, GetProcStatus(c) PROVE CollectedHaveNoParent'
  BY <1>0, <1>7 DEF GetProcStatus, FreePid, TypeOK, Idle
<1> QED BY <1>2, <1>3, <1>4, <1>5, <1>6, <1>7 DEF Next

-----------------------------------------------------------------------------
(* kmain's state is an initial state of the life cycle: what the leftover  *)
(* bits of the pid bitmap withhold is lost.                                *)
LEMMA LifecycleInit == Init => QInv /\ Lifecycle!Init
<1> SUFFICES ASSUME Init PROVE QInv /\ Lifecycle!Init
  OBVIOUS
<1>1. Queued /\ RunQueue = <<Idle, InitPid>> /\ CollectedHaveNoParent
  BY QueueInit
<1>2. Live = {Idle, InitPid}
  BY <1>1 DEF Queued, IsQueue, Range
<1>3. Zombies = {} /\ used \subseteq Pids
  <2>1. used \subseteq Pids
    BY PidFacts DEF Init
  <2>2. \A p \in Pids : dead[p] = 0
    BY DEF Init
  <2> QED BY <2>1, <2>2 DEF Zombies
<1>4. \E lost \in SUBSET (Pids \ {Idle, InitPid}) :
        Phase = [p \in Pids |-> IF p \in {Idle, InitPid} THEN "running"
                                ELSE IF p \in lost THEN "lost" ELSE "free"]
  <2>1. used \ {Idle, InitPid} \in SUBSET (Pids \ {Idle, InitPid})
    BY <1>3
  <2> WITNESS used \ {Idle, InitPid} \in SUBSET (Pids \ {Idle, InitPid})
  <2> QED BY <1>2, <1>3, PhaseIs
<1>5. Parents = [p \in Pids |-> Idle]
  BY DEF Parents, Init, Idle
<1>6. Infos = [p \in Pids |-> Nothing]
  BY DEF Infos, Init
<1>7. Lifecycle!Init
  BY <1>1, <1>4, <1>5, <1>6 DEF Lifecycle!Init
<1> QED BY <1>1, <1>7, InvInit DEF QInv

(* Every step of the kernel is a step of the life cycle or invisible in    *)
(* it.                                                                     *)
LEMMA LifecycleStep ==
  QInv /\ [Next]_vars => QInv' /\ [Lifecycle!Next]_(Lifecycle!vars)
<1> SUFFICES ASSUME QInv, [Next]_vars
             PROVE  Queued' /\ [Lifecycle!Next]_(Lifecycle!vars)
  BY InvStep, CollectedStep DEF QInv
<1>0. Inv /\ Queued
  BY DEF QInv
<1>1. CASE Yield \/ IdleYield
  BY <1>0, <1>1, YieldIsTurn DEF Lifecycle!Next
<1>2. CASE Duplicate
  BY <1>0, <1>2, DuplicateIsCreate DEF Lifecycle!Next
<1>3. ASSUME head # Idle, NEW i \in ExitInfos, NEW a, Exit(i, a)
      PROVE  Queued' /\ Lifecycle!Next
  BY <1>0, <1>3, ExitIsDie DEF Lifecycle!Next
<1>4. CASE ExitProcess
  <2>1. PICK c \in Codes :
          Exit([code |-> c, status |-> ExitedAfterSyscall], usralloc[head])
    BY <1>4 DEF ExitProcess
  <2>2. [code |-> c, status |-> ExitedAfterSyscall] \in ExitInfos
    BY DEF ExitInfos
  <2>3. head # Idle
    BY <1>4 DEF ExitProcess, InUser
  <2> QED BY <1>3, <2>1, <2>2, <2>3
<1>5. CASE SecurityViolation \/ ExecuteNoAllocator \/ ExecuteBadElf
  <2>1. Killed \in ExitInfos
    BY DEF Killed, ExitInfos
  <2>2. head # Idle /\ \E a : Exit(Killed, a)
    BY <1>5, Zenon DEF SecurityViolation, ExecuteNoAllocator, ExecuteBadElf, InUser
  <2> QED BY <1>3, <2>1, <2>2
<1>6. ASSUME NEW c \in Pids, GetProcStatus(c) PROVE Queued' /\ Lifecycle!Next
  BY <1>6, GetProcStatusIsCollect DEF Lifecycle!Next
<1>7. CASE \/ IdleFreeStack \/ DuplicateNoPid \/ DuplicateNoStack \/ UNCHANGED vars
           \/ \E step \in {"usralloc", "pageTable", "descriptors"} : DuplicateFails(step)
  BY <1>0, <1>7, OthersStutter
<1> QED BY <1>1, <1>2, <1>4, <1>5, <1>6, <1>7 DEF Next

(* The ring of runnable processes, the pid bitmap and the process records  *)
(* together behave as the abstract life cycle: FIFO turns, exit            *)
(* information kept for the parent, pids free only when collected.         *)
THEOREM LifecycleImplemented == Spec => ImplementsLifecycle
<1>1. Spec => Lifecycle!Init /\ [][Lifecycle!Next]_(Lifecycle!vars)
  BY LifecycleInit, LifecycleStep, PTL DEF Spec
<1> QED BY <1>1 DEF ImplementsLifecycle, Lifecycle!Spec

-----------------------------------------------------------------------------
(* UserSpace.                                                              *)

(* Every process is at a place of its code, and run waits for a pid.       *)
PlacesOK == at \in [Pids -> Places] /\ waitsFor \in [Pids -> Pids]

(* t has the turn among the shells: the last of a chain of shells, each of *)
(* which waits for the next.  It reads keys, or is to become a program, or *)
(* is the program (alive or dead) for which the shell before it waits.  A  *)
(* shell that waits has its memory, so that it cannot fault.               *)
HasTurn(t) ==
  /\ \A p \in Live : at[p] \in {"getc", "spins", "child"} => p = t
  /\ \A p \in Live : at[p] = "run" =>
       /\ mem[p]
       /\ waitsFor[p] = t \/ (waitsFor[p] \in Live /\ at[waitsFor[p]] = "run")
  /\ t \in Live => at[t] # "run"

ShellsTakeTurns == \E t \in Pids : HasTurn(t)

UserInv == Inv /\ PlacesOK /\ WaitsForItsOwn /\ ShellsTakeTurns

-----------------------------------------------------------------------------
(* Every step of a program is a system call, a fault or nothing at all for *)
(* the kernel.                                                             *)
LEMMA UserStepIsCall ==
  ASSUME PlacesOK, head \in Pids, [UserNext]_userVars
  PROVE  [Next]_vars
<1>1. NoProcess => Next
  BY DEF NoProcess, Next
<1>2. CASE Run \/ RunFails \/ AsksAndYields \/ ExitCommand
  BY <1>1, <1>2 DEF Run, RunFails, AsksAndYields, ExitCommand, Next
<1>3. CASE Collects
  BY <1>3 DEF Collects, PlacesOK, Next
<1>4. CASE Executes \/ ExecuteFails
  <2>1. \/ UNCHANGED vars
        \/ InUser /\ Exit([code |-> NotRun, status |-> ExitedAfterSyscall], usralloc[head])
        \/ ExecuteNoAllocator \/ ExecuteBadElf
    BY <1>4 DEF Executes, ExecuteFails
  <2> QED BY <2>1, NotRunAssumption DEF ExitProcess, Next
<1>5. CASE ProgramYields \/ ProgramEnds \/ Faults \/ IdleSteps
  BY <1>5 DEF ProgramYields, ProgramEnds, Faults, IdleSteps, Next
<1>6. CASE ProgramForks \/ ProgramAsks
  BY <1>1, <1>6 DEF ProgramForks, ProgramAsks, Next
<1>7. CASE UNCHANGED userVars
  BY <1>7 DEF userVars
<1> QED BY <1>2, <1>3, <1>4, <1>5, <1>6, <1>7 DEF UserNext

-----------------------------------------------------------------------------
(* What the kinds of steps do to the dead, to parents and to memory.       *)
LEMMA AfterDuplicate ==
  ASSUME TypeOK, Duplicate
  PROVE  /\ NewPid \in Pids \ (Live \cup Zombies)
         /\ Live' = Live \cup {NewPid} /\ Zombies' = Zombies
         /\ \A p \in Live \cup Zombies : ppid'[p] = ppid[p] /\ mem'[p] = mem[p]
         /\ ppid'[NewPid] = head
<1>1. NewPid \in Pids \ used
  BY NewPidFacts DEF Duplicate
<1>2. Live' = Live \cup {NewPid}
  BY LiveAfterDuplicate
<1>3. /\ used' = used \cup {NewPid} /\ dead' = [dead EXCEPT ![NewPid] = 0]
      /\ ppid' = [ppid EXCEPT ![NewPid] = head] /\ mem' = [mem EXCEPT ![NewPid] = TRUE]
  BY DEF Duplicate
<1>4. NewPid \notin Live \cup Zombies
  BY <1>1 DEF Live, Zombies
<1>5. Zombies' = Zombies
  BY <1>1, <1>3 DEF TypeOK, Zombies
<1>6. \A p \in Pids \ {NewPid} : ppid'[p] = ppid[p] /\ mem'[p] = mem[p]
  BY <1>3 DEF TypeOK
<1>7. Live \cup Zombies \subseteq Pids
  BY DEF TypeOK, Live, Zombies
<1>8. ppid'[NewPid] = head
  BY <1>1, <1>3 DEF TypeOK
<1> QED BY <1>1, <1>2, <1>4, <1>5, <1>6, <1>7, <1>8

(* A fork that fails changes no process but, perhaps, its caller's memory. *)
LEMMA AfterNoProcess ==
  ASSUME TypeOK, NoProcess
  PROVE  /\ Live' = Live /\ Zombies' = Zombies
         /\ \A p \in Live \cup Zombies : ppid'[p] = ppid[p]
         /\ \A p \in Pids \ {head} : mem'[p] = mem[p]
<1>1. CASE DuplicateNoPid
  BY <1>1 DEF DuplicateNoPid, procVars, Live, Zombies
<1>2. CASE DuplicateNoStack \/ \E step \in {"usralloc", "pageTable", "descriptors"} :
                                   DuplicateFails(step)
  <2>1. Live' = Live /\ used' = used
    BY <1>2, LiveAfterFailure
  <2>2. NewPid \in Pids \ used
    BY <1>2, NewPidFacts DEF DuplicateNoStack, DuplicateFails
  <2>3. \A p \in Pids \ {NewPid} : ppid'[p] = ppid[p] /\ dead'[p] = dead[p]
    BY <1>2 DEF DuplicateNoStack, DuplicateFails, TypeOK
  <2>4. \A p \in Pids \ {head} : mem'[p] = mem[p]
    BY <1>2 DEF DuplicateNoStack, DuplicateFails, TypeOK
  <2> QED BY <2>1, <2>2, <2>3, <2>4 DEF TypeOK, Live, Zombies
<1> QED BY <1>1, <1>2 DEF NoProcess

(* The process that ends is dead, and keeps its parent.                    *)
LEMMA AfterExit ==
  ASSUME TypeOK, head \in Live, NEW i, NEW a, Exit(i, a)
  PROVE  /\ Live' = Live \ {head} /\ Zombies' = Zombies \cup {head} /\ ppid' = ppid
         /\ \A p \in Pids \ {head} : mem'[p] = mem[p]
<1>1. Live' = Live \ {head}
  BY LiveAfterExit
<1>2. /\ dead' = [dead EXCEPT ![head] = 1] /\ used' = used /\ ppid' = ppid
      /\ mem' = [mem EXCEPT ![head] = FALSE]
  BY DEF Exit, pidVars
<1> QED BY <1>1, <1>2 DEF TypeOK, Live, Zombies

(* A dead child that is collected is gone; its parent was the caller.      *)
LEMMA AfterCollect ==
  ASSUME TypeOK, NEW c \in Pids, GetProcStatus(c)
  PROVE  /\ Live' = Live /\ Zombies' = Zombies \ {c} /\ mem' = mem /\ head' = head
         /\ ppid[c] = head /\ dead[c] = 1 /\ c \notin Live
         /\ \A p \in Pids \ {c} : ppid'[p] = ppid[p]
<1>1. Live' = Live
  BY LiveAfterCollect
<1> QED BY <1>1 DEF GetProcStatus, FreePid, listVars, TypeOK, Live, Zombies

-----------------------------------------------------------------------------
(* What the properties say of the programs' side of a state.               *)
ShellsOK == PlacesOK /\ WaitsForItsOwn /\ ShellsTakeTurns

(* The state before a step, with the shell that has the turn.              *)
LEMMA UserFacts ==
  ASSUME UserInv
  PROVE  /\ TypeOK /\ head \in Live /\ Live \subseteq Pids /\ Zombies \subseteq Pids
         /\ Live \cap Zombies = {}
         /\ PlacesOK /\ WaitsForItsOwn /\ \E t \in Pids : HasTurn(t)
BY DEF UserInv, Inv, RunListIsRing, ShellsTakeTurns, TypeOK, Live, Zombies

(* A process that goes on in its own code, or becomes the program or the   *)
(* shell it was forked for, changes nothing for the others.                *)
LEMMA GoesOn ==
  ASSUME UserInv, UNCHANGED <<used, dead, stack, ppid, mem, waitsFor>>,
         \/ at' = at
         \/ at[head] = "child" /\ \E e \in {"getc", "program"} : at' = [at EXCEPT ![head] = e]
  PROVE  ShellsOK'
<1>0. Live' = Live /\ Zombies' = Zombies
  BY DEF Live, Zombies
<1>1. CASE at' = at
  BY <1>0, <1>1, UserFacts DEF ShellsOK, PlacesOK, WaitsForItsOwn, ShellsTakeTurns, HasTurn
<1>2. ASSUME at[head] = "child", NEW e \in {"getc", "program"}, at' = [at EXCEPT ![head] = e]
      PROVE  ShellsOK'
  <2>1. \A p \in Pids : at'[p] = IF p = head THEN e ELSE at[p]
    BY <1>2, UserFacts DEF PlacesOK
  <2>2. PlacesOK'
    BY <1>2, UserFacts DEF PlacesOK, Places
  <2>3. WaitsForItsOwn'
    BY <1>0, <1>2, <2>1, UserFacts DEF WaitsForItsOwn
  <2>4. PICK t \in Pids : HasTurn(t)
    BY UserFacts
  <2>5. HasTurn(t)'
    BY <1>0, <1>2, <2>1, <2>4, UserFacts DEF HasTurn, PlacesOK
  <2> QED BY <2>2, <2>3, <2>5 DEF ShellsOK, ShellsTakeTurns
<1> QED BY <1>1, <1>2

(* run forks: the child has the turn.                                      *)
LEMMA RunStep ==
  ASSUME UserInv, Run
  PROVE  ShellsOK'
<1>n. PICK n \in Pids : n = NewPid
  BY UserFacts, AfterDuplicate DEF Run
<1>1. /\ n \in Pids \ (Live \cup Zombies) /\ Live' = Live \cup {n} /\ Zombies' = Zombies
      /\ \A p \in Live \cup Zombies : ppid'[p] = ppid[p] /\ mem'[p] = mem[p]
      /\ ppid'[n] = head
  BY <1>n, UserFacts, AfterDuplicate DEF Run
<1>2. mem[head] /\ at[head] = "getc"
  BY DEF Run, Duplicate, InUser
<1>3. at' = [at EXCEPT ![head] = "run", ![n] = "child"]
      /\ waitsFor' = [waitsFor EXCEPT ![head] = n]
  BY <1>n DEF Run
<1>4. /\ \A p \in Pids : at'[p] = IF p = n THEN "child" ELSE IF p = head THEN "run" ELSE at[p]
      /\ \A p \in Pids : waitsFor'[p] = IF p = head THEN n ELSE waitsFor[p]
  BY <1>1, <1>3, UserFacts DEF PlacesOK
<1>5. PlacesOK'
  BY <1>1, <1>3, UserFacts DEF PlacesOK, Places
<1>6. WaitsForItsOwn'
  BY <1>1, <1>4, UserFacts DEF WaitsForItsOwn
<1>7. PICK t \in Pids : HasTurn(t)
  BY UserFacts
<1>8. t = head
  BY <1>2, <1>7, UserFacts DEF HasTurn
<1>9. HasTurn(n)'
  <2>1. \A p \in Live' : at'[p] \in {"getc", "spins", "child"} => p = n
    BY <1>1, <1>4, <1>7, <1>8, UserFacts DEF HasTurn
  <2>2. ASSUME NEW p \in Live', at'[p] = "run"
        PROVE  /\ mem'[p]
               /\ waitsFor'[p] = n \/ (waitsFor'[p] \in Live' /\ at'[waitsFor'[p]] = "run")
    <3>1. CASE p = head
      BY <3>1, <1>1, <1>2, <1>4, UserFacts
    <3>2. CASE p # head
      <4>1. p \in Live /\ at[p] = "run" /\ waitsFor'[p] = waitsFor[p] /\ mem'[p]
        BY <3>2, <2>2, <1>1, <1>4, <1>7, UserFacts DEF HasTurn
      <4>2. waitsFor[p] = head \/ (waitsFor[p] \in Live /\ at[waitsFor[p]] = "run")
        BY <4>1, <1>7, <1>8 DEF HasTurn
      <4> QED BY <4>1, <4>2, <1>1, <1>4, UserFacts
    <3> QED BY <3>1, <3>2
  <2>3. at'[n] # "run"
    BY <1>1, <1>4
  <2> QED BY <2>1, <2>2, <2>3 DEF HasTurn
<1> QED BY <1>1, <1>5, <1>6, <1>9 DEF ShellsOK, ShellsTakeTurns

(* A program forks: the new process is no shell.                           *)
LEMMA ProgramForkStep ==
  ASSUME UserInv, at[head] = "program", Duplicate, waitsFor' = waitsFor,
         at' = [at EXCEPT ![NewPid] = "program"]
  PROVE  ShellsOK'
<1> DEFINE n == NewPid
<1>1. /\ n \in Pids \ (Live \cup Zombies) /\ Live' = Live \cup {n} /\ Zombies' = Zombies
      /\ \A p \in Live \cup Zombies : ppid'[p] = ppid[p] /\ mem'[p] = mem[p]
  BY UserFacts, AfterDuplicate
<1> HIDE DEF n
<1>2. \A p \in Pids : at'[p] = IF p = n THEN "program" ELSE at[p]
  BY <1>1, UserFacts DEF PlacesOK, n
<1>3. PlacesOK'
  BY UserFacts DEF PlacesOK, Places
<1>4. WaitsForItsOwn'
  BY <1>1, <1>2, UserFacts DEF WaitsForItsOwn
<1>5. PICK t \in Pids : HasTurn(t)
  BY UserFacts
<1>6. HasTurn(t)'
  BY <1>1, <1>2, <1>5, UserFacts DEF HasTurn
<1> QED BY <1>3, <1>4, <1>6 DEF ShellsOK, ShellsTakeTurns

(* A fork fails: the caller may have lost its memory, but it does not      *)
(* wait for anybody.                                                       *)
LEMMA NoProcessStep ==
  ASSUME UserInv, NoProcess, waitsFor' = waitsFor,
         \/ at[head] = "getc" /\ at' = [at EXCEPT ![head] = "spins"]
         \/ at[head] = "program" /\ at' = at
  PROVE  ShellsOK'
<1>1. /\ Live' = Live /\ Zombies' = Zombies
      /\ \A p \in Live \cup Zombies : ppid'[p] = ppid[p]
      /\ \A p \in Pids \ {head} : mem'[p] = mem[p]
  BY UserFacts, AfterNoProcess
<1>2. \A p \in Pids : IF p = head THEN /\ at[p] \in {"getc", "program"}
                                      /\ at'[p] = IF at[p] = "getc" THEN "spins" ELSE at[p]
                                 ELSE at'[p] = at[p]
  BY UserFacts DEF PlacesOK
<1>3. PlacesOK'
  BY UserFacts DEF PlacesOK, Places
<1>4. WaitsForItsOwn'
  BY <1>1, <1>2, UserFacts DEF WaitsForItsOwn
<1>5. PICK t \in Pids : HasTurn(t)
  BY UserFacts
<1>6. HasTurn(t)'
  BY <1>1, <1>2, <1>5, UserFacts DEF HasTurn
<1> QED BY <1>3, <1>4, <1>6 DEF ShellsOK, ShellsTakeTurns

(* A process that is not waiting ends; whoever waits for it finds it dead. *)
LEMMA EndStep ==
  ASSUME UserInv, at[head] # "run", NEW i, NEW a, Exit(i, a), Goes("none")
  PROVE  ShellsOK'
<1>1. /\ Live' = Live \ {head} /\ Zombies' = Zombies \cup {head} /\ ppid' = ppid
      /\ \A p \in Pids \ {head} : mem'[p] = mem[p]
  BY UserFacts, AfterExit
<1>2. /\ waitsFor' = waitsFor
      /\ \A p \in Pids \ {head} : at'[p] = at[p]
  BY UserFacts DEF Goes, PlacesOK
<1>3. PlacesOK'
  BY UserFacts DEF Goes, PlacesOK, Places
<1>4. WaitsForItsOwn'
  BY <1>1, <1>2, UserFacts DEF WaitsForItsOwn
<1>5. PICK t \in Pids : HasTurn(t)
  BY UserFacts
<1>6. HasTurn(t)'
  BY <1>1, <1>2, <1>5, UserFacts DEF HasTurn
<1> QED BY <1>3, <1>4, <1>6 DEF ShellsOK, ShellsTakeTurns

(* run has the status of its child and returns: the child had the turn,    *)
(* and nobody else waits for it.                                           *)
LEMMA CollectStep ==
  ASSUME UserInv, Collects
  PROVE  ShellsOK'
<1>0. PICK c \in Pids, h \in Pids : c = waitsFor[head] /\ h = head
  BY UserFacts DEF PlacesOK
<1>1. /\ Live' = Live /\ Zombies' = Zombies \ {c} /\ mem' = mem
      /\ ppid[c] = h /\ c \notin Live
      /\ \A p \in Pids \ {c} : ppid'[p] = ppid[p]
  BY <1>0, UserFacts, AfterCollect DEF Collects
<1>2. h \in Live /\ at[h] = "run" /\ waitsFor[h] = c
  BY <1>0, UserFacts DEF Collects
<1>3. PICK t \in Pids : HasTurn(t)
  BY UserFacts
<1>4. t = c
  BY <1>1, <1>2, <1>3, UserFacts DEF HasTurn
<1>5. /\ \A p \in Pids : at'[p] = IF p = h THEN "getc" ELSE at[p]
      /\ \A p \in Pids \ {h} : waitsFor'[p] = waitsFor[p]
  BY <1>0, UserFacts DEF Collects, PlacesOK
<1>6. PlacesOK'
  BY UserFacts, PidFacts DEF Collects, PlacesOK, Places
<1>7. \A p \in Live \ {h} : at[p] = "run" => waitsFor[p] # c
  BY <1>1, UserFacts DEF WaitsForItsOwn
<1>8. WaitsForItsOwn'
  BY <1>1, <1>5, <1>7, UserFacts DEF WaitsForItsOwn, PlacesOK
<1>9. HasTurn(h)'
  BY <1>1, <1>2, <1>3, <1>4, <1>5, <1>7, UserFacts DEF HasTurn
<1> QED BY <1>6, <1>8, <1>9 DEF ShellsOK, ShellsTakeTurns

(* A program that collects takes nobody's child but its own.               *)
LEMMA ProgramAsksStep ==
  ASSUME UserInv, at[head] = "program", NEW c \in Pids, GetProcStatus(c),
         at' = at, waitsFor' = waitsFor
  PROVE  ShellsOK'
<1>1. /\ Live' = Live /\ Zombies' = Zombies \ {c} /\ mem' = mem
      /\ ppid[c] = head /\ c \notin Live
      /\ \A p \in Pids \ {c} : ppid'[p] = ppid[p]
  BY UserFacts, AfterCollect
<1>2. \A p \in Live : at[p] = "run" => waitsFor[p] # c
  BY <1>1, UserFacts DEF WaitsForItsOwn
<1>3. PlacesOK'
  BY UserFacts DEF PlacesOK
<1>4. WaitsForItsOwn'
  BY <1>1, <1>2, UserFacts DEF WaitsForItsOwn, PlacesOK
<1>5. PICK t \in Pids : HasTurn(t)
  BY UserFacts
<1>6. HasTurn(t)'
  BY <1>1, <1>5, UserFacts DEF HasTurn
<1> QED BY <1>3, <1>4, <1>6 DEF ShellsOK, ShellsTakeTurns

-----------------------------------------------------------------------------
(* Process 1 begins at its prompt, and has the turn.                       *)
LEMMA UserInvInit == UserInit => UserInv
<1> SUFFICES ASSUME UserInit PROVE UserInv
  OBVIOUS
<1> USE PidFacts
<1>1. Inv
  BY InvInit DEF UserInit
<1>2. \A p \in Pids : at[p] = IF p = InitPid THEN "getc" ELSE "none"
  BY DEF UserInit
<1>3. PlacesOK
  BY DEF UserInit, PlacesOK, Places
<1>4. Live \subseteq Pids
  BY <1>1 DEF Inv, TypeOK, Live
<1>5. WaitsForItsOwn
  BY <1>2, <1>4 DEF WaitsForItsOwn
<1>6. HasTurn(InitPid)
  BY <1>2, <1>4 DEF HasTurn
<1> QED BY <1>1, <1>3, <1>5, <1>6 DEF UserInv, ShellsTakeTurns

(* Every step of every program keeps the invariant.                        *)
LEMMA UserInvStep == UserInv /\ [UserNext]_userVars => UserInv'
<1> SUFFICES ASSUME UserInv, [UserNext]_userVars PROVE UserInv'
  OBVIOUS
<1>0. TypeOK /\ head \in Live /\ head \in Pids /\ PlacesOK
  BY UserFacts
<1>1. Inv'
  BY <1>0, UserStepIsCall, InvStep DEF UserInv
<1> SUFFICES ShellsOK'
  BY <1>1 DEF UserInv, ShellsOK
<1>2. CASE AsksAndYields \/ ProgramYields \/ IdleSteps \/ UNCHANGED userVars
  <2>1. UNCHANGED <<used, dead, stack, ppid, mem, at, waitsFor>>
    BY <1>2 DEF AsksAndYields, ProgramYields, IdleSteps, Stays, Yield, IdleYield,
                IdleFreeStack, userVars, vars, pidVars, procVars
  <2> QED BY <2>1, GoesOn
<1>3. CASE Executes
  <2>1. /\ UNCHANGED <<used, dead, stack, ppid, mem, waitsFor>>
        /\ at[head] = "child"
        /\ \E e \in {"getc", "program"} : at' = [at EXCEPT ![head] = e]
    BY <1>3 DEF Executes, Goes, vars, pidVars, procVars
  <2> QED BY <2>1, GoesOn
<1>4. CASE Run
  BY <1>4, RunStep
<1>5. CASE RunFails
  BY <1>5, NoProcessStep DEF RunFails, Goes
<1>6. CASE Collects
  BY <1>6, CollectStep
<1>7. CASE ExitCommand \/ ExecuteFails \/ ProgramEnds \/ Faults
  <2>1. Goes("none") /\ \E i, a : Exit(i, a)
    BY <1>7 DEF ExitCommand, ExecuteFails, ProgramEnds, Faults, ExitProcess,
                SecurityViolation, ExecuteNoAllocator, ExecuteBadElf
  <2>2. at[head] # "run"
    <3>1. PICK t \in Pids : HasTurn(t)
      BY UserFacts
    <3>2. at[head] = "run" => mem[head]
      BY <1>0, <3>1 DEF HasTurn
    <3> QED BY <1>7, <3>2 DEF ExitCommand, ExecuteFails, ProgramEnds, Faults
  <2> QED BY <2>1, <2>2, EndStep
<1>8. CASE ProgramForks
  BY <1>8, ProgramForkStep, NoProcessStep DEF ProgramForks, Stays
<1>9. CASE ProgramAsks
  BY <1>9, ProgramAsksStep DEF ProgramAsks, Stays
<1> QED BY <1>2, <1>3, <1>4, <1>5, <1>6, <1>7, <1>8, <1>9 DEF UserNext

(* The invariants of the kernel and of the shells hold together.           *)
THEOREM UserInvHolds == UserSpec => []UserInv
BY UserInvInit, UserInvStep, PTL DEF UserSpec

(* The programs implement what the process manager lets programs do: each  *)
(* behaviour of theirs is one of ProcessManager, whose theorems hold of it.*)
THEOREM UserImplementsProcesses == UserSpec => Spec
<1>1. UserInit => Init
  BY DEF UserInit
<1>2. UserInv /\ [UserNext]_userVars => [Next]_vars
  BY UserFacts, UserStepIsCall
<1> QED BY <1>1, <1>2, UserInvHolds, PTL DEF UserSpec, Spec

(* run never asks for ever, and never takes another program's status for   *)
(* its own: the pid it waits for stays that of the process it has forked.  *)
THEOREM RunWaitsForItsOwn == UserSpec => []WaitsForItsOwn
BY UserInvHolds, PTL DEF UserInv

(* However shells run shells, and whatever their programs do, one of them  *)
(* reads the keys.                                                         *)
THEOREM OneShellReadsKeys == UserSpec => []OneReadsKeys
<1>1. UserInv => OneReadsKeys
  BY DEF UserInv, ShellsTakeTurns, HasTurn, OneReadsKeys
<1> QED BY <1>1, UserInvHolds, PTL
=============================================================================
