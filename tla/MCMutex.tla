------------------------------ MODULE MCMutex -------------------------------
(* Model-checking instances of Mutex: tasks H, A and B at three priorities *)
(* above idle, mutexes M1 and M2.                                          *)
EXTENDS Mutex, TLC

CONSTANTS H, A, B, M1, M2

MCTasks == {H, A, B}
MCCreateOrder == <<B, A, H>>
MCInitPriority == (H :> 0) @@ (A :> 1) @@ (B :> 2)
MCOneMutex == {M1}
MCTwoMutexes == {M1, M2}
MCNoTasks == {}
MCPair == {A, B}
MCPairOrder == <<B, A>>
MCPairRanked == (A :> 0) @@ (B :> 1)

=============================================================================
