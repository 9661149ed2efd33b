---------------------------- MODULE MCSemaphore -----------------------------
(* Model-checking instances of Semaphore: one semaphore S, takers A and B, *)
(* gives from an interrupt handler (sem_give_isr) or from a task.          *)
EXTENDS Semaphore, TLC

CONSTANTS H, A, B, S

MCTasks == {H, A, B}
MCCreateOrder == <<A, B, H>>
MCInitPriority == (H :> 0) @@ (A :> 1) @@ (B :> 1)
MCPairTasks == {A, B}
MCPairOrder == <<A, B>>
MCPairRanked == (A :> 0) @@ (B :> 1)
MCSems == {S}
MCSemInit == S :> 0
MCSemMax == S :> 1
MCTakers == {A, B}
MCGivers == {H}
MCResetters == {H}
MCLowTask == {B}
MCNoTasks == {}

=============================================================================
