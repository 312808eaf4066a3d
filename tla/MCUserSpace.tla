----------------------------- MODULE MCUserSpace -----------------------------
(* The instance of MCProcessManager with the programs of YYUserspace and   *)
(* one more stack.  Which stacks the first two processes have makes no     *)
(* difference, so one choice is checked.                                   *)
EXTENDS UserSpace

AllSteps == Steps
OneInit == UserInit /\ stack[Idle] = 1 /\ stack[InitPid] = 2
OneSpec == OneInit /\ [][UserNext]_userVars /\ UserFairness
=============================================================================
