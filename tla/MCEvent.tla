------------------------------ MODULE MCEvent -------------------------------
(* Model-checking instances of Event: a waiter W and a setter S of lower  *)
(* priority on one event group with bits B1 and B2, and an interrupt      *)
(* handler that sets B2.                                                   *)
EXTENDS Event

CONSTANTS W, S, B1, B2

MCTasks == {W, S}
MCCreateOrder == <<S, W>>
MCInitPriority == (W :> 0) @@ (S :> 1)
MCBits == {B1, B2}

Op(t, op, bits, all, to) == [task |-> t, op |-> op, bits |-> bits, all |-> all, timeout |-> to]

\* W waits for both bits with auto-clear and for either bit without it,
\* each for 2 ticks, and polls B1 with TIMEOUT_NONE; S sets and clears B1.
MCEventOps ==
  {Op(W, "wait", {B1, B2, ClearOnExit}, TRUE, 2), Op(W, "wait", {B1, B2}, FALSE, 2),
   Op(W, "wait", {B1}, FALSE, 0),
   Op(S, "set", {B1}, FALSE, 0), Op(S, "clear", {B1}, FALSE, 0)}
MCIsrBits == {{B2}}
MCNoIsrBits == {}
=============================================================================
