----------------------------- MODULE QueueFifo ------------------------------
(***************************************************************************)
(* What a HelixRT message queue promises (spec 4.7, P5, R2): a bounded     *)
(* FIFO of messages per queue. A send appends at the back or pushes at the *)
(* front while there is room; a receive hands the caller the front message *)
(* and removes it; a peek hands it over and keeps it; a reset empties the  *)
(* queue. out[t] is the message buffer of task t, the last message a       *)
(* receive or peek copied to it.                                           *)
(***************************************************************************)
EXTENDS Naturals, Sequences

CONSTANTS Queues, Capacity, Msgs, Callers, NIL

VARIABLES msgs, out

fifovars == <<msgs, out>>

FifoInit ==
  /\ msgs = [q \in Queues |-> <<>>]
  /\ out = [t \in Callers |-> NIL]

HasRoom(q) == Len(msgs[q]) < Capacity[q]

SendBack(q, m) ==
  /\ HasRoom(q)
  /\ msgs' = [msgs EXCEPT ![q] = Append(@, m)]
  /\ UNCHANGED out

SendFront(q, m) ==
  /\ HasRoom(q)
  /\ msgs' = [msgs EXCEPT ![q] = <<m>> \o @]
  /\ UNCHANGED out

Receive(t, q) ==
  /\ msgs[q] # <<>>
  /\ out' = [out EXCEPT ![t] = Head(msgs[q])]
  /\ msgs' = [msgs EXCEPT ![q] = Tail(@)]

Peek(t, q) ==
  /\ msgs[q] # <<>>
  /\ out' = [out EXCEPT ![t] = Head(msgs[q])]
  /\ UNCHANGED msgs

Reset(q) ==
  /\ msgs' = [msgs EXCEPT ![q] = <<>>]
  /\ UNCHANGED out

FifoNext ==
  \E q \in Queues :
    \/ \E m \in Msgs : SendBack(q, m) \/ SendFront(q, m)
    \/ \E t \in Callers : Receive(t, q) \/ Peek(t, q)
    \/ Reset(q)

FifoSpec == FifoInit /\ [][FifoNext]_fifovars

=============================================================================
