----------------------------- MODULE SlotRoster -----------------------------
(***************************************************************************)
(* What AgentRegistry promises its clients, without locks, clocks,         *)
(* callbacks or payloads: every slot has at most one owner, a session key  *)
(* owns at most one slot, and a slot passes from one key to another only   *)
(* by becoming free.  A suspended owner (its lease runs) keeps its slot    *)
(* until it claims it back, releases it or is evicted.                     *)
(***************************************************************************)
CONSTANTS SlotIds, Keys, NoKey

VARIABLES
  owner,   \* the session key that holds each slot, or NoKey
  live     \* the slots whose owner is connected

vars == <<owner, live>>

Held == {i \in SlotIds : owner[i] # NoKey}

Init ==
  /\ owner = [i \in SlotIds |-> NoKey]
  /\ live = {}

\* A key that holds no slot takes a free one.
Claim(i, k) ==
  /\ owner[i] = NoKey
  /\ \A j \in SlotIds : owner[j] # k
  /\ owner' = [owner EXCEPT ![i] = k]
  /\ live' = live \union {i}

\* A key takes back the slot it still holds.
Reclaim(i) ==
  /\ i \in Held
  /\ live' = live \union {i}
  /\ UNCHANGED owner

\* The link drops: every owner is suspended.
Suspend ==
  /\ live' = {}
  /\ UNCHANGED owner

\* Leases run out: only suspended owners lose their slots.
Evict(S) ==
  /\ S \subseteq Held \ live
  /\ owner' = [i \in SlotIds |-> IF i \in S THEN NoKey ELSE owner[i]]
  /\ UNCHANGED live

\* A client gives a slot up.
Release(i) ==
  /\ i \in Held
  /\ owner' = [owner EXCEPT ![i] = NoKey]
  /\ live' = live \ {i}

Next ==
  \/ \E i \in SlotIds, k \in Keys : Claim(i, k)
  \/ \E i \in SlotIds : Reclaim(i)
  \/ Suspend
  \/ \E S \in SUBSET SlotIds : Evict(S)
  \/ \E i \in SlotIds : Release(i)

Spec == Init /\ [][Next]_vars
=============================================================================
