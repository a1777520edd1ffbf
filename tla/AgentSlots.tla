----------------------------- MODULE AgentSlots -----------------------------
(***************************************************************************)
(* The slot table of AgentRegistry (AgentRegistry.h) as a value, and what  *)
(* each of its critical sections does to it.  A table is a function from   *)
(* slot ids to slot records; every operator takes the table before the     *)
(* critical section and returns the table after it.                        *)
(*                                                                         *)
(* Keys, names and texts are opaque.  Time is the 32-bit millis() counter, *)
(* kept modulo ClockMod.                                                   *)
(***************************************************************************)
EXTENDS Integers, FiniteSetsExt

CONSTANTS
  AgentCount,   \* protocol::AgentCount, the number of slots
  Keys,         \* the session keys a client may register (never key 0)
  NoKey,        \* the key of a default-constructed Slot
  Names,        \* agent names
  NoName,       \* the name of a default-constructed Slot
  Texts,        \* agent texts
  NoText,       \* the text of a default-constructed Slot
  States,       \* protocol::AgentState values a client may set
  Idle,         \* AgentState::Idle
  LeaseMs,      \* protocol::LeaseMs
  ClockMod      \* 2^32 in the firmware: millis() wraps to 0 there

ASSUME SlotsAssumption ==
  /\ AgentCount \in 1..8               \* removedMask and slotBit are uint8_t
  /\ NoKey \notin Keys
  /\ Idle \in States
  /\ LeaseMs \in Nat \ {0}
  /\ ClockMod \in Nat
  /\ LeaseMs < ClockMod

SlotIds == 0..(AgentCount - 1)
NoAgent == 255
Clock   == 0..(ClockMod - 1)

Slot ==
  [used: BOOLEAN, active: BOOLEAN, key: Keys \union {NoKey}, leaseStarted: Clock,
   state: States, name: Names \union {NoName}, text: Texts \union {NoText}]

Table == [SlotIds -> Slot]

\* Slot {}: what a free slot holds.
FreeSlot ==
  [used |-> FALSE, active |-> FALSE, key |-> NoKey, leaseStarted |-> 0,
   state |-> Idle, name |-> NoName, text |-> NoText]

EmptyTable == [i \in SlotIds |-> FreeSlot]

-----------------------------------------------------------------------------
(* Which slot an operation finds. *)

\* Mutant: only connected owners are searched for the key.
ActiveHoldersOf(table, key) ==
  {i \in SlotIds : table[i].used /\ table[i].active /\ table[i].key = key}

\* Mutant: a suspended owner's slot counts as free.
FreeOrLeasedIds(table) == {i \in SlotIds : ~(table[i].used /\ table[i].active)}

HoldersOf(table, key) == {i \in SlotIds : table[i].used /\ table[i].key = key}
FreeIds(table)        == {i \in SlotIds : ~table[i].used}
IsActive(table, id)   == id \in SlotIds /\ table[id].used /\ table[id].active

\* The id registerAgent returns: the slot that holds the key, else the first
\* free one, else NoAgent (Status::NoFreeSlot).
RegisteredId(table, key) ==
  IF HoldersOf(table, key) # {} THEN Min(HoldersOf(table, key))
  ELSE IF FreeIds(table) # {} THEN Min(FreeIds(table))
  ELSE NoAgent

(* What the critical sections write. *)

\* A slot found by its key keeps state and text; a free one starts from Slot {}.
RegisterAgent(table, key, name) ==
  LET id == RegisteredId(table, key) IN
  IF HoldersOf(table, key) # {}
  THEN [table EXCEPT ![id].active = TRUE, ![id].name = name]
  ELSE [table EXCEPT ![id] = [FreeSlot EXCEPT !.used = TRUE, !.active = TRUE,
                                              !.key = key, !.name = name]]

SetState(table, id, state) == [table EXCEPT ![id].state = state]
SetText(table, id, text)   == [table EXCEPT ![id].text = text]
\* Mutant: the slot is marked free but not cleared.
UnregisterFlagOnly(table, id) == [table EXCEPT ![id].used = FALSE]
Unregister(table, id)      == [table EXCEPT ![id] = FreeSlot]

\* Mutant: every disconnection starts the leases anew.
BeginLeaseAgain(table, nowMs) ==
  [i \in SlotIds |->
     IF table[i].used
     THEN [table[i] EXCEPT !.active = FALSE, !.leaseStarted = nowMs]
     ELSE table[i]]

BeginLease(table, nowMs) ==
  [i \in SlotIds |->
     IF table[i].used /\ table[i].active
     THEN [table[i] EXCEPT !.active = FALSE, !.leaseStarted = nowMs]
     ELSE table[i]]

\* static_cast<uint32_t>(now - then)
Elapsed(now, then) == IF now >= then THEN now - then ELSE now - then + ClockMod

\* Mutant: connected owners are reaped as well.
ExpiredOrActive(table, nowMs) ==
  {i \in SlotIds : table[i].used /\ Elapsed(nowMs, table[i].leaseStarted) >= LeaseMs}

\* Mutant: the lease ends a millisecond early.
ExpiredEarly(table, nowMs) ==
  {i \in SlotIds : /\ table[i].used
                   /\ ~table[i].active
                   /\ Elapsed(nowMs, table[i].leaseStarted) >= LeaseMs - 1}

Expired(table, nowMs) ==
  {i \in SlotIds : /\ table[i].used
                   /\ ~table[i].active
                   /\ Elapsed(nowMs, table[i].leaseStarted) >= LeaseMs}

Reap(table, nowMs) ==
  [i \in SlotIds |-> IF i \in Expired(table, nowMs) THEN FreeSlot ELSE table[i]]

-----------------------------------------------------------------------------
\* No session key is held by two slots.
KeysUnique(table) ==
  \A i, j \in SlotIds :
    (table[i].used /\ table[j].used /\ table[i].key = table[j].key) => i = j

\* A free slot is Slot {}: nothing of its last owner is left in it.
FreeSlotsAreClean(table) ==
  \A i \in SlotIds : ~table[i].used => table[i] = FreeSlot
=============================================================================
