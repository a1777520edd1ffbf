-------------------------- MODULE AgentSlots_proofs --------------------------
(***************************************************************************)
(* What the critical sections of the slot table preserve, for every number *)
(* of slots, every set of keys and every lease length.                     *)
(***************************************************************************)
EXTENDS AgentSlots, WellFoundedInduction, TLAPS

\* A slot in use belongs to a session key a client registered.
OwnersAreKeys(table) ==
  \A i \in SlotIds : table[i].used => table[i].key \in Keys

\* A table the registry can be in.
GoodTable(table) ==
  /\ table \in Table
  /\ KeysUnique(table)
  /\ FreeSlotsAreClean(table)
  /\ OwnersAreKeys(table)

-----------------------------------------------------------------------------
\* The first slot of a search is one of those searched for.
LEMMA FirstIsMember ==
  ASSUME NEW S \in SUBSET SlotIds, S # {}
  PROVE  Min(S) \in S
<1>1. S \in SUBSET Nat
  BY SlotsAssumption DEF SlotIds
<1> DEFINE Less == OpToRel(<, Nat)
<1>2. IsWellFoundedOn(Less, Nat)
  BY NatLessThanWellFounded
<1>3. \A i, j \in S : <<j, i>> \in Less <=> j < i
  BY <1>1 DEF OpToRel
<1> HIDE DEF Less
<1>4. PICK i \in S : \A j \in S : ~(<<j, i>> \in Less)
  BY <1>1, <1>2, WFMin
<1>5. \A j \in S : ~(j < i)
  BY <1>3, <1>4
<1>6. \A j \in S : i <= j
  BY <1>1, <1>5
<1>7. QED BY <1>1, <1>6 DEF Min, SlotIds

\* Every table the registry starts from or returns to has the fields of Slot {}
\* in its free slots.
LEMMA FreeSlotType == FreeSlot \in Slot
BY SlotsAssumption DEF FreeSlot, Slot, Clock

LEMMA EmptyTableIsGood == GoodTable(EmptyTable)
<1>1. EmptyTable \in Table
  BY FreeSlotType DEF EmptyTable, Table
<1>2. \A i \in SlotIds : EmptyTable[i] = FreeSlot /\ ~EmptyTable[i].used
  BY DEF EmptyTable, FreeSlot
<1>3. QED BY <1>1, <1>2 DEF GoodTable, KeysUnique, FreeSlotsAreClean, OwnersAreKeys

-----------------------------------------------------------------------------
\* registerAgent finds the slot that holds the key, else a free one, else none.
LEMMA RegisteredIdFound ==
  ASSUME NEW table \in Table, NEW key \in Keys, RegisteredId(table, key) # NoAgent
  PROVE  /\ RegisteredId(table, key) \in SlotIds
         /\ HoldersOf(table, key) # {} =>
              /\ table[RegisteredId(table, key)].used
              /\ table[RegisteredId(table, key)].key = key
         /\ HoldersOf(table, key) = {} => ~table[RegisteredId(table, key)].used
<1>1. CASE HoldersOf(table, key) # {}
  <2>1. Min(HoldersOf(table, key)) \in HoldersOf(table, key)
    BY <1>1, FirstIsMember DEF HoldersOf
  <2>2. QED BY <1>1, <2>1 DEF RegisteredId, HoldersOf
<1>2. CASE HoldersOf(table, key) = {} /\ FreeIds(table) # {}
  <2>1. Min(FreeIds(table)) \in FreeIds(table)
    BY <1>2, FirstIsMember DEF FreeIds
  <2>2. QED BY <1>2, <2>1 DEF RegisteredId, FreeIds
<1>3. QED BY <1>1, <1>2 DEF RegisteredId

LEMMA RegisterKeepsGood ==
  ASSUME NEW table, GoodTable(table), NEW key \in Keys, NEW name \in Names,
         RegisteredId(table, key) # NoAgent
  PROVE  GoodTable(RegisterAgent(table, key, name))
<1> DEFINE id  == RegisteredId(table, key)
           new == RegisterAgent(table, key, name)
<1>1. table \in Table BY DEF GoodTable
<1>2. /\ id \in SlotIds
      /\ HoldersOf(table, key) # {} => table[id].used /\ table[id].key = key
      /\ HoldersOf(table, key) = {} => ~table[id].used
  BY <1>1, RegisteredIdFound
<1>3. CASE HoldersOf(table, key) # {}
  <2> DEFINE back == [table[id] EXCEPT !.active = TRUE, !.name = name]
  <2>1. new = [table EXCEPT ![id] = back]
    BY <1>3, <1>1, <1>2 DEF RegisterAgent, Table
  <2>2. back \in Slot /\ back.used = table[id].used /\ back.used /\ back.key = table[id].key
    <3>1. table[id] \in Slot /\ table[id].used BY <1>1, <1>2, <1>3 DEF Table
    <3>2. QED BY <3>1 DEF Slot
  <2> HIDE DEF back
  <2>3. new \in Table
    BY <2>1, <2>2, <1>1, <1>2 DEF Table
  <2>4. \A i \in SlotIds : /\ new[i].used = table[i].used
                           /\ new[i].key = table[i].key
                           /\ ~new[i].used => new[i] = table[i]
    <3>1. new[id] = back /\ \A i \in SlotIds \ {id} : new[i] = table[i]
      BY <2>1, <1>1, <1>2 DEF Table
    <3> HIDE DEF new, id
    <3>2. QED BY <3>1, <2>2, <1>2, <1>3
  <2>5. QED
    BY <2>3, <2>4 DEF GoodTable, KeysUnique, FreeSlotsAreClean, OwnersAreKeys
<1>4. CASE HoldersOf(table, key) = {}
  <2> DEFINE fresh == [FreeSlot EXCEPT !.used = TRUE, !.active = TRUE, !.key = key, !.name = name]
  <2>1. new = [table EXCEPT ![id] = fresh]
    BY <1>4 DEF RegisterAgent
  <2>2. fresh \in Slot /\ fresh.used /\ fresh.key = key
    BY FreeSlotType DEF FreeSlot, Slot
  <2> HIDE DEF fresh
  <2>3. new \in Table
    BY <2>1, <2>2, <1>1, <1>2 DEF Table
  <2>4. /\ new[id].used /\ new[id].key = key
        /\ \A i \in SlotIds \ {id} : new[i] = table[i]
    BY <2>1, <2>2, <1>1, <1>2 DEF Table
  <2>5. \A i \in SlotIds : ~(table[i].used /\ table[i].key = key)
    BY <1>4 DEF HoldersOf
  <2> HIDE DEF new, id
  <2>6. KeysUnique(new)
    BY <2>4, <2>5 DEF GoodTable, KeysUnique
  <2>7. FreeSlotsAreClean(new) /\ OwnersAreKeys(new)
    BY <2>4 DEF GoodTable, FreeSlotsAreClean, OwnersAreKeys
  <2>8. GoodTable(new)
    BY <2>3, <2>6, <2>7 DEF GoodTable
  <2>9. QED BY <2>8 DEF new
<1>5. QED BY <1>3, <1>4

\* The slot a registration finds becomes the key's, connected; its state and text
\* stay if the key had it before; and no other slot changes.
LEMMA RegisterEffect ==
  ASSUME NEW table \in Table, NEW key \in Keys, NEW name \in Names,
         NEW id, id = RegisteredId(table, key), id # NoAgent,
         NEW new, new = RegisterAgent(table, key, name)
  PROVE  /\ id \in SlotIds
         /\ new[id].used /\ new[id].active /\ new[id].key = key
         /\ table[id].used => /\ table[id].key = key
                              /\ new[id].state = table[id].state
                              /\ new[id].text = table[id].text
         /\ \A i \in SlotIds : i # id => new[i] = table[i]
<1>1. /\ id \in SlotIds
      /\ HoldersOf(table, key) # {} => table[id].used /\ table[id].key = key
      /\ HoldersOf(table, key) = {} => ~table[id].used
  BY RegisteredIdFound
<1>2. CASE HoldersOf(table, key) # {}
  <2>1. new = [table EXCEPT ![id].active = TRUE, ![id].name = name]
    BY <1>2 DEF RegisterAgent
  <2>2. table[id] \in Slot
    BY <1>1 DEF Table
  <2>3. /\ new[id].used = table[id].used /\ new[id].active /\ new[id].key = table[id].key
        /\ new[id].state = table[id].state /\ new[id].text = table[id].text
        /\ \A i \in SlotIds : i # id => new[i] = table[i]
    BY <1>1, <2>1, <2>2 DEF Table, Slot
  <2>4. QED BY <1>1, <1>2, <2>3
<1>3. CASE HoldersOf(table, key) = {}
  <2> DEFINE fresh == [FreeSlot EXCEPT !.used = TRUE, !.active = TRUE, !.key = key, !.name = name]
  <2>1. new = [table EXCEPT ![id] = fresh]
    BY <1>3 DEF RegisterAgent
  <2>2. fresh.used /\ fresh.active /\ fresh.key = key
    BY DEF FreeSlot
  <2> HIDE DEF fresh
  <2>3. new[id] = fresh /\ \A i \in SlotIds : i # id => new[i] = table[i]
    BY <1>1, <2>1 DEF Table
  <2>4. QED BY <1>1, <1>3, <2>2, <2>3
<1>4. QED BY <1>2, <1>3

LEMMA SetStateKeepsGood ==
  ASSUME NEW table, GoodTable(table), NEW id \in SlotIds, NEW state \in States,
         IsActive(table, id)
  PROVE  GoodTable(SetState(table, id, state))
<1> DEFINE new == SetState(table, id, state)
<1>1. table \in Table BY DEF GoodTable
<1>2. new \in Table
  BY <1>1 DEF SetState, Table, Slot
<1>3. \A i \in SlotIds : /\ new[i].used = table[i].used
                         /\ new[i].key = table[i].key
                         /\ ~new[i].used => new[i] = table[i]
  BY <1>1 DEF SetState, Table, Slot, IsActive
<1>4. QED
  BY <1>2, <1>3 DEF GoodTable, KeysUnique, FreeSlotsAreClean, OwnersAreKeys

LEMMA SetTextKeepsGood ==
  ASSUME NEW table, GoodTable(table), NEW id \in SlotIds, NEW text \in Texts,
         IsActive(table, id)
  PROVE  GoodTable(SetText(table, id, text))
<1> DEFINE new == SetText(table, id, text)
<1>1. table \in Table BY DEF GoodTable
<1>2. new \in Table
  BY <1>1 DEF SetText, Table, Slot
<1>3. \A i \in SlotIds : /\ new[i].used = table[i].used
                         /\ new[i].key = table[i].key
                         /\ ~new[i].used => new[i] = table[i]
  BY <1>1 DEF SetText, Table, Slot, IsActive
<1>4. QED
  BY <1>2, <1>3 DEF GoodTable, KeysUnique, FreeSlotsAreClean, OwnersAreKeys

\* Freeing any set of slots: unregisterAgent and reap.
LEMMA FreeingKeepsGood ==
  ASSUME NEW table, GoodTable(table), NEW S \in SUBSET SlotIds
  PROVE  GoodTable([i \in SlotIds |-> IF i \in S THEN FreeSlot ELSE table[i]])
<1> DEFINE new == [i \in SlotIds |-> IF i \in S THEN FreeSlot ELSE table[i]]
<1>1. new \in Table
  BY FreeSlotType DEF GoodTable, Table
<1>2. \A i \in SlotIds : \/ new[i] = FreeSlot /\ ~new[i].used
                         \/ new[i] = table[i]
  BY DEF FreeSlot
<1> HIDE DEF new
<1>3. GoodTable(new)
  BY <1>1, <1>2 DEF GoodTable, KeysUnique, FreeSlotsAreClean, OwnersAreKeys
<1>4. QED BY <1>3 DEF new

LEMMA UnregisterKeepsGood ==
  ASSUME NEW table, GoodTable(table), NEW id \in SlotIds
  PROVE  GoodTable(Unregister(table, id))
<1>1. Unregister(table, id) = [i \in SlotIds |-> IF i \in {id} THEN FreeSlot ELSE table[i]]
  BY DEF GoodTable, Unregister, Table
<1>2. {id} \in SUBSET SlotIds OBVIOUS
<1>3. GoodTable([i \in SlotIds |-> IF i \in {id} THEN FreeSlot ELSE table[i]])
  BY <1>2, FreeingKeepsGood
<1>4. QED BY <1>1, <1>3

LEMMA ReapKeepsGood ==
  ASSUME NEW table, GoodTable(table), NEW nowMs \in Clock
  PROVE  GoodTable(Reap(table, nowMs))
<1>1. Expired(table, nowMs) \in SUBSET SlotIds BY DEF Expired
<1>2. QED BY <1>1, FreeingKeepsGood DEF Reap

LEMMA BeginLeaseKeepsGood ==
  ASSUME NEW table, GoodTable(table), NEW nowMs \in Clock
  PROVE  GoodTable(BeginLease(table, nowMs))
<1> DEFINE new == BeginLease(table, nowMs)
<1>1. table \in Table BY DEF GoodTable
<1>2. new \in Table
  BY <1>1 DEF BeginLease, Table, Slot
<1>3. \A i \in SlotIds : /\ new[i].used = table[i].used
                         /\ new[i].key = table[i].key
                         /\ ~new[i].used => new[i] = table[i]
  BY <1>1 DEF BeginLease, Table, Slot
<1>4. QED
  BY <1>2, <1>3 DEF GoodTable, KeysUnique, FreeSlotsAreClean, OwnersAreKeys

-----------------------------------------------------------------------------
(* The wrapping counter. *)

\* The elapsed time of two clock readings is a clock value.
LEMMA ElapsedType ==
  ASSUME NEW now \in Clock, NEW then \in Clock
  PROVE  Elapsed(now, then) \in Clock /\ Elapsed(now, now) = 0
BY SlotsAssumption DEF Elapsed, Clock

\* One tick makes it one larger, until it wraps itself.
LEMMA ElapsedTick ==
  ASSUME NEW now \in Clock, NEW then \in Clock, Elapsed(now, then) < ClockMod - 1
  PROVE  Elapsed(IF now = ClockMod - 1 THEN 0 ELSE now + 1, then) = Elapsed(now, then) + 1
BY SlotsAssumption DEF Elapsed, Clock

\* Two readings that lie a and b ticks back, the second one earlier or at the
\* same time, are a - b apart.
LEMMA ElapsedDifference ==
  ASSUME NEW now \in Clock, NEW early \in Clock, NEW late \in Clock,
         Elapsed(now, early) >= Elapsed(now, late)
  PROVE  Elapsed(late, early) = Elapsed(now, early) - Elapsed(now, late)
BY SlotsAssumption DEF Elapsed, Clock
=============================================================================
