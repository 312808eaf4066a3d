-------------------------- MODULE ProcessLifecycle --------------------------
(***************************************************************************)
(* What the process subsystem promises, without bitmap, pointers, stacks   *)
(* or memory: processes take turns in the order of a FIFO queue, the idle  *)
(* process may be passed over, a dead process waits with its exit status   *)
(* for the process its parent pid names, and only then is its pid free.    *)
(***************************************************************************)
EXTENDS Integers, Sequences

CONSTANTS Pids, Idle, InitPid, ExitInfos, Nothing

VARIABLES
  queue,    \* the runnable processes, the running one first
  phase,    \* "free", "running", "zombie", or "lost" (never handed out)
  parent,   \* pid of the process that may collect this one
  info      \* what a zombie leaves to its parent

vars == <<queue, phase, parent, info>>

Rotated(q) == Append(Tail(q), Head(q))

Init ==
  /\ queue = <<Idle, InitPid>>
  /\ \E lost \in SUBSET (Pids \ {Idle, InitPid}) :
       phase = [p \in Pids |-> IF p \in {Idle, InitPid} THEN "running"
                               ELSE IF p \in lost THEN "lost" ELSE "free"]
  /\ parent = [p \in Pids |-> Idle]
  /\ info = [p \in Pids |-> Nothing]

Turn ==
  /\ LET q == Rotated(queue)
     IN  queue' = q \/ (Head(q) = Idle /\ queue' = Rotated(q))
  /\ UNCHANGED <<phase, parent, info>>

Create(p) ==
  /\ Head(queue) # Idle
  /\ phase[p] = "free"
  /\ phase' = [phase EXCEPT ![p] = "running"]
  /\ parent' = [parent EXCEPT ![p] = Head(queue)]
  /\ queue' = Append(queue, p)
  /\ UNCHANGED info

Die(i) ==
  LET p == Head(queue)
  IN  /\ p # Idle
      /\ queue' = Tail(queue)
      /\ phase' = [phase EXCEPT ![p] = "zombie"]
      /\ info' = [info EXCEPT ![p] = i]
      /\ UNCHANGED parent

Collect(p) ==
  /\ Head(queue) # Idle
  /\ phase[p] = "zombie" /\ parent[p] = Head(queue)
  /\ phase' = [phase EXCEPT ![p] = "free"]
  /\ parent' = [parent EXCEPT ![p] = Idle]
  /\ info' = [info EXCEPT ![p] = Nothing]
  /\ UNCHANGED queue

Next ==
  \/ Turn
  \/ \E p \in Pids : Create(p) \/ Collect(p)
  \/ \E i \in ExitInfos : Die(i)

Spec == Init /\ [][Next]_vars
=============================================================================
