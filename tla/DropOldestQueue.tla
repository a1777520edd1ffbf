-------------------------- MODULE DropOldestQueue --------------------------
(***************************************************************************)
(* What the event rings of EspNowNode and Button promise: a queue that     *)
(* keeps the newest Capacity events in their order.                        *)
(***************************************************************************)
EXTENDS Naturals, Sequences

CONSTANTS Events, Capacity

VARIABLE queue

Init == queue = <<>>

Push(e) ==
  queue' = IF Len(queue) < Capacity THEN Append(queue, e) ELSE Append(Tail(queue), e)

Pop == queue # <<>> /\ queue' = Tail(queue)

Next == Pop \/ \E e \in Events : Push(e)

Spec == Init /\ [][Next]_queue
=============================================================================
