------------------------------ MODULE UserSpace ------------------------------
(***************************************************************************)
(* The programs of YYUserspace on the process manager: process 1 is the    *)
(* shell (build.sh links it as Binaries/init), whose run (init.s) forks,   *)
(* executes a file in the child, and asks for the child's status between   *)
(* yields.  The file may be the shell again, or a program of any           *)
(* behaviour that itself starts no shell.                                  *)
(*                                                                         *)
(* Every step is a step of ProcessManager, taken by a process that is at   *)
(* the place of its code where it makes that call.  A builtin of the shell *)
(* other than exit makes none of these calls, and waiting for a key does   *)
(* not give the processor away: at the prompt a shell may do nothing.      *)
(***************************************************************************)
EXTENDS ProcessManager

CONSTANT NotRun   \* what the child exits with after a failed exec

ASSUME NotRunAssumption == NotRun \in Codes

VARIABLES
  at,        \* where the code of each process is
  waitsFor   \* the pid in rdi of run, in processes at "run"

userVars == <<vars, at, waitsFor>>

Places == {"none", "getc", "run", "spins", "child", "program"}

Goes(place) == at' = [at EXCEPT ![head] = place] /\ UNCHANGED waitsFor
Stays == UNCHANGED <<at, waitsFor>>

NoProcess == DuplicateNoPid \/ DuplicateNoStack
             \/ \E step \in {"usralloc", "pageTable", "descriptors"} : DuplicateFails(step)

-----------------------------------------------------------------------------
(* The shell.                                                              *)
Run ==
  /\ at[head] = "getc" /\ Duplicate
  /\ at' = [at EXCEPT ![head] = "run", ![NewPid] = "child"]
  /\ waitsFor' = [waitsFor EXCEPT ![head] = NewPid]

(* je $                                                                    *)
RunFails == at[head] = "getc" /\ NoProcess /\ Goes("spins")

(* Mutant: the prompt comes back while the program runs.                   *)
BackAtOnce ==
  /\ at[head] = "run"
  /\ ~(ppid[waitsFor[head]] = head /\ dead[waitsFor[head]] = 1)
  /\ Yield /\ Goes("getc")

(* Mutant: run asks again without giving the processor away.               *)
AsksForEver ==
  /\ at[head] = "run" /\ InUser
  /\ ~(ppid[waitsFor[head]] = head /\ dead[waitsFor[head]] = 1)
  /\ UNCHANGED vars /\ Stays

(* One turn of .loop: any answer but 1 is followed by YY_Yield.            *)
AsksAndYields ==
  /\ at[head] = "run"
  /\ ~(ppid[waitsFor[head]] = head /\ dead[waitsFor[head]] = 1)
  /\ Yield /\ Stays

Collects ==
  /\ at[head] = "run" /\ GetProcStatus(waitsFor[head])
  /\ at' = [at EXCEPT ![head] = "getc"]
  /\ waitsFor' = [waitsFor EXCEPT ![head] = Idle]

ExitCommand == at[head] = "getc" /\ ExitProcess /\ Goes("none")

-----------------------------------------------------------------------------
(* The child of run.                                                       *)
Executes ==
  /\ at[head] = "child" /\ InUser
  /\ Goes("getc") \/ Goes("program")
  /\ UNCHANGED vars

(* YY_ExecuteBinary returned, or it has ended the process.                 *)
ExecuteFails ==
  /\ at[head] = "child" /\ Goes("none")
  /\ \/ /\ InUser
        /\ Exit([code |-> NotRun, status |-> ExitedAfterSyscall], usralloc[head])
     \/ ExecuteNoAllocator \/ ExecuteBadElf

-----------------------------------------------------------------------------
(* Other programs: uname, and what else somebody puts on the disk.         *)
ProgramYields == at[head] = "program" /\ Yield /\ Stays

ProgramEnds ==
  /\ at[head] = "program" /\ Goes("none")
  /\ ExitProcess \/ SecurityViolation \/ ExecuteNoAllocator \/ ExecuteBadElf

ProgramForks ==
  /\ at[head] = "program"
  /\ \/ Duplicate /\ at' = [at EXCEPT ![NewPid] = "program"] /\ UNCHANGED waitsFor
     \/ NoProcess /\ Stays

ProgramAsks == at[head] = "program" /\ (\E c \in Pids : GetProcStatus(c)) /\ Stays

(* A failed fork has taken the memory of its caller.                       *)
Faults == head # Idle /\ ~mem[head] /\ SecurityViolation /\ Goes("none")

IdleSteps == (IdleYield \/ IdleFreeStack) /\ Stays

-----------------------------------------------------------------------------
UserInit ==
  /\ Init
  /\ at = [p \in Pids |-> IF p = InitPid THEN "getc" ELSE "none"]
  /\ waitsFor = [p \in Pids |-> Idle]

UserNext ==
  \/ Run \/ RunFails \/ AsksAndYields \/ Collects \/ ExitCommand
  \/ Executes \/ ExecuteFails
  \/ ProgramYields \/ ProgramEnds \/ ProgramForks \/ ProgramAsks
  \/ Faults \/ IdleSteps

UserSpec == UserInit /\ [][UserNext]_userVars

(* The kernel's and the shell's own code goes on, until the shell waits    *)
(* for a key; a program yields or ends sooner or later, and one that gets  *)
(* its turn again and again ends.                                          *)
UserFairness ==
  /\ WF_userVars(AsksAndYields) /\ WF_userVars(Collects)
  /\ WF_userVars(Executes \/ ExecuteFails)
  /\ WF_userVars(Faults) /\ WF_userVars(IdleSteps)
  /\ WF_userVars(ProgramYields \/ ProgramEnds)
  /\ \A p \in Pids : SF_userVars(head = p /\ ProgramEnds)

UserFairSpec == UserSpec /\ UserFairness

-----------------------------------------------------------------------------
(* The process run asks for is the one it has forked until run has its     *)
(* status: alive or dead, the pid is not free, and no orphan, collector or *)
(* new process has come between.  Otherwise run would ask for ever, or     *)
(* take another program's status for its own.                              *)
WaitsForItsOwn ==
  \A p \in Live : at[p] = "run" =>
    waitsFor[p] \in Live \cup Zombies /\ ppid[waitsFor[p]] = p

(* However shells are nested, one of them reads keys: a shell that waits   *)
(* for its program takes no key from it.                                   *)
OneReadsKeys == \A p, q \in Live : at[p] = "getc" /\ at[q] = "getc" => p = q

(* A program that is not the shell gives the prompt back, if programs end. *)
ShellProgram(p) == at[waitsFor[p]] \in {"getc", "run", "spins"}
PromptReturns ==
  \A p \in Pids \ {Idle} :
    at[p] = "run" /\ p \in Live ~>
      at[p] = "getc" \/ ShellProgram(p) \/ p \notin Live \/ ~heapOk

(* Everyone runs again, unless a shell keeps the processor: at its prompt, *)
(* where it waits for keys, and where run stops after a failed fork.       *)
OnlyShellsStarve ==
  \A p \in Pids \ {Idle} :
    p \in Live ~> head = p \/ p \notin Live \/ ~heapOk \/ at[head] \in {"getc", "spins"}
=============================================================================
