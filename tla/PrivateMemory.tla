--------------------------- MODULE PrivateMemory ---------------------------
(***************************************************************************)
(* What copy on write must look like to programs: every process has a      *)
(* memory of its own, a fork starts the child with a copy of it, and a     *)
(* write changes one page of the process that makes it.                    *)
(***************************************************************************)
CONSTANTS Procs, Nobody, Addrs, Values, Unmapped

VARIABLES
  cur,     \* the running process, or Nobody
  memory   \* what each process sees at each page address

vars == <<cur, memory>>

Empty == [n \in Addrs |-> Unmapped]

Init == cur \in Procs /\ memory = [p \in Procs |-> Empty]

(* A write, or the mapping of a page: one page of the caller changes.      *)
Put(n) ==
  /\ memory'[cur][n] \in Values
  /\ \A p \in Procs, a \in Addrs :
       <<p, a>> # <<cur, n>> => memory'[p][a] = memory[p][a]
  /\ UNCHANGED cur

Fork(c) ==
  /\ memory[c] = Empty
  /\ memory' = [memory EXCEPT ![c] = memory[cur]]
  /\ UNCHANGED cur

(* exec drops the memory of the running process; exit and a failed fork    *)
(* too, and then another process runs.                                     *)
Drop ==
  /\ memory' = [memory EXCEPT ![cur] = Empty]
  /\ cur' \in Procs \cup {Nobody}

Switch == cur' \in Procs \cup {Nobody} /\ UNCHANGED memory

Next ==
  \/ Switch
  \/ /\ cur \in Procs
     /\ \/ Drop
        \/ \E n \in Addrs : Put(n)
        \/ \E c \in Procs \ {cur} : Fork(c)

Spec == Init /\ [][Next]_vars
=============================================================================
