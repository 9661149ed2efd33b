---------------------------- MODULE MCScheduler ----------------------------
(* Model-checking instance of Scheduler: a high-priority task H and two    *)
(* round-robin peers A and B above the idle task, created as in main.c     *)
(* before kernel_start.                                                    *)
EXTENDS Scheduler, TLC

CONSTANTS H, A, B

MCTasks == {H, A, B}
MCCreateOrder == <<A, B, H>>
MCInitPriority == (H :> 0) @@ (A :> 1) @@ (B :> 1)
MCPriorityCallers == {H}
MCPeerCallers == {A}

=============================================================================
