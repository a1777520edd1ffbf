----------------------------- MODULE EventRing -----------------------------
(***************************************************************************)
(* The event ring of EspNowNode and of Button: an array with a head, a     *)
(* tail and a count.  EspNowNode pushes on the WiFi task and pops on the   *)
(* application task, each in a critical section; Button does both on one   *)
(* task.                                                                   *)
(***************************************************************************)
EXTENDS Naturals, Sequences

CONSTANTS
  Events,     \* the events of the owner
  Capacity,   \* EventQueueCapacity, EVENT_QUEUE_CAPACITY
  NoEvent     \* what the array holds before anything is pushed

ASSUME RingAssumption == Capacity \in Nat \ {0} /\ NoEvent \notin Events

VARIABLES
  buffer,     \* m_eventQueue
  head,       \* m_eventHead: where the next event goes
  tail,       \* m_eventTail: the oldest event
  count       \* m_eventCount

vars == <<buffer, head, tail, count>>

Index    == 0..(Capacity - 1)
After(i) == (i + 1) % Capacity

Init ==
  /\ buffer = [i \in Index |-> NoEvent]
  /\ head = 0 /\ tail = 0 /\ count = 0

\* Mutant: a full ring overwrites its oldest event and keeps its tail.
PushOverTail(e) ==
  /\ buffer' = [buffer EXCEPT ![head] = e]
  /\ head' = After(head)
  /\ count' = IF count < Capacity THEN count + 1 ELSE count
  /\ UNCHANGED tail

\* A full ring loses its oldest event.
PushEvent(e) ==
  /\ buffer' = [buffer EXCEPT ![head] = e]
  /\ head' = After(head)
  /\ IF count < Capacity
     THEN count' = count + 1 /\ UNCHANGED tail
     ELSE tail' = After(tail) /\ UNCHANGED count

PopEvent ==
  /\ count > 0
  /\ tail' = After(tail)
  /\ count' = count - 1
  /\ UNCHANGED <<buffer, head>>

Next == PopEvent \/ \E e \in Events : PushEvent(e)

Spec == Init /\ [][Next]_vars

-----------------------------------------------------------------------------
(* Properties. *)

RingTypeOK ==
  /\ buffer \in [Index -> Events \union {NoEvent}]
  /\ head \in Index /\ tail \in Index
  /\ count \in 0..Capacity

\* The three indices agree, and what popEvent copies out was pushed.
RingIsConsistent ==
  /\ head = (tail + count) % Capacity
  /\ \A k \in 0..(count - 1) : buffer[(tail + k) % Capacity] \in Events

\* The ring is the queue of the newest events, in the order they were pushed.
Contents == [k \in 1..count |-> buffer[(tail + k - 1) % Capacity]]

Queue     == INSTANCE DropOldestQueue WITH queue <- Contents
QueueSpec == Queue!Spec
=============================================================================
