-------------------------- MODULE MCProcessManager --------------------------
(* A small instance of ProcessManager: four pids in two words, the last of *)
(* which may hold what the memory held before, and every failure.          *)
EXTENDS ProcessManager

AllSteps == Steps
=============================================================================
