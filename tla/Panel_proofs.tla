----------------------------- MODULE Panel_proofs -----------------------------
(***************************************************************************)
(* The agent registry and the panel it is composed into, for every number  *)
(* of slots, every set of keys, every lease length and counter width, and  *)
(* any number of subscribers.                                              *)
(***************************************************************************)
EXTENDS Panel, AgentSlots_proofs

\* The BLE host task has news exactly while it is telling it.
NewsWhileNotifying == blePc = "notify" <=> bleNote.kind # "none"

\* The readings of the wrapping counter that are still to be used say how long
\* ago they were taken, unless a lease has run out anyway.
PollClockOK == appPc = "polling" => Elapsed(clock, pollAt) = sincePoll
LinkClockOK ==
  (blePc = "leasing" /\ leaseAge < LeaseMs) => Elapsed(clock, leaseAt) = leaseAge
SlotClocksOK ==
  \A i \in SlotIds :
    (slots[i].used /\ ~slots[i].active /\ age[i] < LeaseMs)
      => Elapsed(clock, slots[i].leaseStarted) = age[i]

\* The inductive invariant.
IInv ==
  /\ TypeOK
  /\ GoodTable(slots)
  /\ NewsWhileNotifying
  /\ NewsIsCurrent
  /\ PollClockOK
  /\ LinkClockOK
  /\ SlotClocksOK

-----------------------------------------------------------------------------
LEMMA InitInv == Init => IInv
<1> SUFFICES ASSUME Init PROVE IInv
  OBVIOUS
<1>1. slots \in Table /\ GoodTable(slots)
  BY EmptyTableIsGood DEF Init, GoodTable
<1>2. \A i \in SlotIds : ~slots[i].used
  BY DEF Init, EmptyTable, FreeSlot
<1>3. NoNote \in Note /\ NoNote.kind = "none"
  <2>1. 0 \in SlotIds BY SlotsAssumption DEF SlotIds
  <2>2. QED BY <2>1, SlotsAssumption DEF NoNote, Note, Kinds
<1>4. 0 \in Clock /\ 1 \in Subscribers /\ 0 \in 0..PollGap /\ 0 \in 0..LeaseMs
  BY SlotsAssumption, RegistryAssumption DEF Clock, Subscribers
<1>5. TypeOK
  BY <1>1, <1>3, <1>4 DEF Init, TypeOK
<1>6. QED
  BY <1>1, <1>2, <1>3, <1>5
  DEF Init, IInv, NewsWhileNotifying, NewsIsCurrent, PollClockOK, LinkClockOK, SlotClocksOK

-----------------------------------------------------------------------------
(* The BLE host task. *)

LEMMA HandleConnectedInv == ASSUME IInv, HandleConnected PROVE IInv'
<1>1. TypeOK'
  BY DEF IInv, TypeOK, HandleConnected, appVars, timeVars
<1>2. QED
  BY <1>1 DEF IInv, HandleConnected, appVars, timeVars, NewsWhileNotifying, NewsIsCurrent,
              PollClockOK, LinkClockOK, SlotClocksOK

LEMMA HandleDisconnectedInv == ASSUME IInv, HandleDisconnected PROVE IInv'
<1>1. TypeOK'
  <2>1. 0 \in 0..LeaseMs BY SlotsAssumption
  <2>2. QED BY <2>1 DEF IInv, TypeOK, HandleDisconnected, appVars
<1>2. NewsWhileNotifying' /\ NewsIsCurrent'
  BY DEF IInv, HandleDisconnected, NewsWhileNotifying, NewsIsCurrent
<1>3. LinkClockOK'
  BY ElapsedType DEF IInv, TypeOK, HandleDisconnected, LinkClockOK
<1>4. QED
  BY <1>1, <1>2, <1>3
  DEF IInv, HandleDisconnected, appVars, PollClockOK, SlotClocksOK

LEMMA StartLeasesInv == ASSUME IInv, StartLeases PROVE IInv'
<1> USE DEF IInv
<1>1. GoodTable(slots') /\ slots' \in Table
  BY BeginLeaseKeepsGood DEF StartLeases, TypeOK, GoodTable
<1>2. age' \in [SlotIds -> 0..LeaseMs] /\ 0 \in Clock /\ 0 \in 0..LeaseMs
  BY SlotsAssumption DEF StartLeases, TypeOK, Clock
<1>3. TypeOK'
  BY <1>1, <1>2 DEF TypeOK, StartLeases, appVars
<1>4. NewsWhileNotifying' /\ NewsIsCurrent'
  BY DEF StartLeases, NewsWhileNotifying, NewsIsCurrent, TypeOK, Note, Kinds
<1>5. SlotClocksOK'
  <2> SUFFICES ASSUME NEW i \in SlotIds, slots'[i].used, ~slots'[i].active, age'[i] < LeaseMs
               PROVE  Elapsed(clock, slots'[i].leaseStarted) = age'[i]
    BY DEF SlotClocksOK, StartLeases
  <2>1. slots \in Table BY DEF TypeOK
  <2>2. CASE IsActive(slots, i)
    <3>1. slots'[i].leaseStarted = leaseAt /\ age'[i] = leaseAge
      BY <2>1, <2>2 DEF StartLeases, BeginLease, IsActive, Table, Slot
    <3>2. QED BY <3>1 DEF StartLeases, LinkClockOK
  <2>3. CASE ~IsActive(slots, i)
    <3>1. slots'[i] = slots[i] /\ age'[i] = age[i]
      BY <2>3 DEF StartLeases, BeginLease, IsActive
    <3>2. QED BY <3>1 DEF SlotClocksOK
  <2>4. QED BY <2>2, <2>3
<1>6. QED
  BY <1>1, <1>3, <1>4, <1>5 DEF StartLeases, appVars, PollClockOK, LinkClockOK

\* What every accepted command leaves: news about an existing slot.
LEMMA AnnounceInv ==
  ASSUME TypeOK, NEW kind \in Kinds \ {"none"}, NEW id \in SlotIds, NEW state \in States,
         Announce(kind, id, state)
  PROVE  /\ bleNote' \in Note /\ bleSub' \in Subscribers /\ blePc' = "notify"
         /\ bleNote'.kind = kind /\ bleNote'.id = id /\ bleNote'.state = state
         /\ NewsWhileNotifying'
BY RegistryAssumption DEF Announce, Note, Subscribers, NewsWhileNotifying

LEMMA WriteRegisterInv ==
  ASSUME IInv, NEW key \in Keys, NEW name \in Names, WriteRegister(key, name)
  PROVE  IInv'
<1> DEFINE id == RegisteredId(slots, key)
<1> USE DEF IInv
<1>1. slots \in Table /\ id # NoAgent
  BY DEF TypeOK, WriteRegister
<1>2. /\ id \in SlotIds
      /\ HoldersOf(slots, key) # {} => slots[id].used /\ slots[id].key = key
  BY <1>1, RegisteredIdFound
<1>3. GoodTable(slots') /\ slots' \in Table
  BY <1>1, RegisterKeepsGood DEF WriteRegister, GoodTable
<1>4. /\ slots'[id].used /\ slots'[id].active
      /\ \A i \in SlotIds \ {id} : slots'[i] = slots[i]
  <2>1. CASE HoldersOf(slots, key) # {}
    BY <2>1, <1>1, <1>2 DEF WriteRegister, RegisterAgent, Table, Slot
  <2>2. CASE HoldersOf(slots, key) = {}
    BY <2>2, <1>1, <1>2 DEF WriteRegister, RegisterAgent, Table, Slot, FreeSlot
  <2>3. QED BY <2>1, <2>2
<1>5. /\ bleNote' \in Note /\ bleSub' \in Subscribers /\ blePc' = "notify"
      /\ bleNote'.kind = "registered" /\ bleNote'.id = id
      /\ NewsWhileNotifying'
  BY <1>2, AnnounceInv, SlotsAssumption DEF WriteRegister, Kinds
<1>6. age' = [age EXCEPT ![id] = 0] /\ age' \in [SlotIds -> 0..LeaseMs]
  BY <1>2, SlotsAssumption DEF WriteRegister, TypeOK
<1> HIDE DEF id
<1>7. TypeOK'
  BY <1>3, <1>5, <1>6 DEF TypeOK, WriteRegister, appVars
<1>8. NewsIsCurrent'
  BY <1>2, <1>4, <1>5 DEF NewsIsCurrent, IsActive
<1>9. SlotClocksOK'
  BY <1>2, <1>4, <1>6 DEF SlotClocksOK, WriteRegister, TypeOK
<1>10. QED
  BY <1>3, <1>5, <1>7, <1>8, <1>9 DEF WriteRegister, appVars, PollClockOK, LinkClockOK

LEMMA WriteSetStateInv ==
  ASSUME IInv, NEW id \in SlotIds, NEW state \in States, WriteSetState(id, state)
  PROVE  IInv'
<1> USE DEF IInv
<1>1. slots \in Table
  BY DEF TypeOK
<1>2. GoodTable(slots') /\ slots' \in Table
  BY SetStateKeepsGood DEF WriteSetState, GoodTable
<1>3. \A i \in SlotIds : /\ slots'[i].used = slots[i].used
                         /\ slots'[i].active = slots[i].active
                         /\ slots'[i].leaseStarted = slots[i].leaseStarted
  BY <1>1 DEF WriteSetState, SetState, Table, Slot
<1>4. slots'[id].state = state
  BY <1>1 DEF WriteSetState, SetState, Table, Slot
<1>5. /\ bleNote' \in Note /\ bleSub' \in Subscribers /\ blePc' = "notify"
      /\ bleNote'.kind = "state" /\ bleNote'.id = id /\ bleNote'.state = state
      /\ NewsWhileNotifying'
  BY AnnounceInv DEF WriteSetState, Kinds
<1>6. TypeOK'
  BY <1>2, <1>5 DEF TypeOK, WriteSetState, appVars, timeVars
<1>7. NewsIsCurrent'
  BY <1>3, <1>4, <1>5 DEF NewsIsCurrent, IsActive, WriteSetState
<1>8. SlotClocksOK'
  BY <1>3 DEF SlotClocksOK, WriteSetState, timeVars
<1>9. QED
  BY <1>2, <1>5, <1>6, <1>7, <1>8
  DEF WriteSetState, appVars, timeVars, PollClockOK, LinkClockOK

LEMMA WriteSetTextInv ==
  ASSUME IInv, NEW id \in SlotIds, NEW text \in Texts, WriteSetText(id, text)
  PROVE  IInv'
<1> USE DEF IInv
<1>1. slots \in Table
  BY DEF TypeOK
<1>2. GoodTable(slots') /\ slots' \in Table
  BY SetTextKeepsGood DEF WriteSetText, GoodTable
<1>3. \A i \in SlotIds : /\ slots'[i].used = slots[i].used
                         /\ slots'[i].active = slots[i].active
                         /\ slots'[i].leaseStarted = slots[i].leaseStarted
  BY <1>1 DEF WriteSetText, SetText, Table, Slot
<1>4. /\ bleNote' \in Note /\ bleSub' \in Subscribers /\ blePc' = "notify"
      /\ bleNote'.kind = "text" /\ bleNote'.id = id
      /\ NewsWhileNotifying'
  BY AnnounceInv, SlotsAssumption DEF WriteSetText, Kinds
<1>5. TypeOK'
  BY <1>2, <1>4 DEF TypeOK, WriteSetText, appVars, timeVars
<1>6. NewsIsCurrent'
  BY <1>3, <1>4 DEF NewsIsCurrent, IsActive, WriteSetText
<1>7. SlotClocksOK'
  BY <1>3 DEF SlotClocksOK, WriteSetText, timeVars
<1>8. QED
  BY <1>2, <1>4, <1>5, <1>6, <1>7
  DEF WriteSetText, appVars, timeVars, PollClockOK, LinkClockOK

LEMMA WriteUnregisterInv ==
  ASSUME IInv, NEW id \in SlotIds, WriteUnregister(id)
  PROVE  IInv'
<1> USE DEF IInv
<1>1. slots \in Table
  BY DEF TypeOK
<1>2. GoodTable(slots') /\ slots' \in Table
  BY UnregisterKeepsGood DEF WriteUnregister, GoodTable
<1>3. ~slots'[id].used /\ \A i \in SlotIds \ {id} : slots'[i] = slots[i]
  BY <1>1 DEF WriteUnregister, Unregister, Table, FreeSlot
<1>4. /\ bleNote' \in Note /\ bleSub' \in Subscribers /\ blePc' = "notify"
      /\ bleNote'.kind = "removed" /\ bleNote'.id = id
      /\ NewsWhileNotifying'
  BY AnnounceInv, SlotsAssumption DEF WriteUnregister, Kinds
<1>5. age' = [age EXCEPT ![id] = 0] /\ age' \in [SlotIds -> 0..LeaseMs]
  BY SlotsAssumption DEF WriteUnregister, TypeOK
<1>6. TypeOK'
  BY <1>2, <1>4, <1>5 DEF TypeOK, WriteUnregister, appVars
<1>7. NewsIsCurrent'
  BY <1>3, <1>4 DEF NewsIsCurrent
<1>8. SlotClocksOK'
  BY <1>3, <1>5 DEF SlotClocksOK, WriteUnregister, TypeOK
<1>9. QED
  BY <1>2, <1>4, <1>6, <1>7, <1>8 DEF WriteUnregister, appVars, PollClockOK, LinkClockOK

LEMMA BleNotifyInv == ASSUME IInv, BleNotify PROVE IInv'
<1> USE DEF IInv
<1>1. NoNote \in Note /\ NoNote.kind = "none"
  <2>1. 0 \in SlotIds BY SlotsAssumption DEF SlotIds
  <2>2. QED BY <2>1, SlotsAssumption DEF NoNote, Note, Kinds
<1>2. bleSub' \in Subscribers
  BY RegistryAssumption DEF BleNotify, TypeOK, Subscribers
<1>3. TypeOK' /\ NewsWhileNotifying' /\ NewsIsCurrent'
  BY <1>1, <1>2
  DEF BleNotify, TypeOK, NewsWhileNotifying, NewsIsCurrent, appVars, timeVars
<1>4. QED
  BY <1>3 DEF BleNotify, appVars, timeVars, PollClockOK, LinkClockOK, SlotClocksOK

-----------------------------------------------------------------------------
(* The application task and the clock. *)

LEMMA ReadPollClockInv == ASSUME IInv, ReadPollClock PROVE IInv'
<1> USE DEF IInv
<1>1. TypeOK'
  BY RegistryAssumption DEF TypeOK, ReadPollClock, bleVars
<1>2. PollClockOK'
  BY ElapsedType DEF TypeOK, ReadPollClock, PollClockOK
<1>3. QED
  BY <1>1, <1>2
  DEF ReadPollClock, bleVars, NewsWhileNotifying, NewsIsCurrent, LinkClockOK, SlotClocksOK

LEMMA ReapExpiredInv == ASSUME IInv, ReapExpired PROVE IInv'
<1> USE DEF IInv
<1>1. slots \in Table /\ pollAt \in Clock
  BY DEF TypeOK
<1>2. GoodTable(slots') /\ slots' \in Table
  BY <1>1, ReapKeepsGood DEF ReapExpired, GoodTable
<1>3. \A i \in SlotIds : \/ slots'[i] = slots[i] /\ age'[i] = age[i]
                         \/ ~slots'[i].used /\ ~slots[i].active /\ age'[i] = 0
  BY <1>1 DEF ReapExpired, Reap, Expired, FreeSlot, TypeOK
<1>4. age' \in [SlotIds -> 0..LeaseMs] /\ 0 \in Clock
  BY SlotsAssumption DEF ReapExpired, TypeOK, Clock
<1>5. TypeOK'
  BY <1>2, <1>4 DEF TypeOK, ReapExpired, bleVars, Expired
<1>6. NewsIsCurrent'
  <2>1. bleNote.id \in SlotIds BY DEF TypeOK, Note
  <2>2. QED BY <1>3, <2>1 DEF NewsIsCurrent, IsActive, ReapExpired, bleVars
<1>7. SlotClocksOK'
  BY <1>3 DEF SlotClocksOK, ReapExpired
<1>8. QED
  BY <1>2, <1>5, <1>6, <1>7
  DEF ReapExpired, bleVars, NewsWhileNotifying, PollClockOK, LinkClockOK

LEMMA NotifyRemovedInv == ASSUME IInv, NotifyRemoved PROVE IInv'
<1> USE DEF IInv
<1>1. appSub' \in Subscribers /\ removing' \in SUBSET SlotIds
  BY RegistryAssumption DEF NotifyRemoved, TypeOK, Subscribers
<1>2. TypeOK'
  BY <1>1 DEF TypeOK, NotifyRemoved, bleVars, timeVars
<1>3. QED
  BY <1>2
  DEF NotifyRemoved, bleVars, timeVars, NewsWhileNotifying, NewsIsCurrent, PollClockOK,
      LinkClockOK, SlotClocksOK

LEMMA TickInv == ASSUME IInv, Tick PROVE IInv'
<1> USE DEF IInv
<1>1. clock' \in Clock /\ sincePoll' \in 0..PollGap
  BY SlotsAssumption, RegistryAssumption DEF Tick, TypeOK, Clock
<1>2. \A a \in 0..LeaseMs : /\ Older(a) \in 0..LeaseMs
                            /\ Older(a) < LeaseMs => a < LeaseMs /\ Older(a) = a + 1
  BY SlotsAssumption DEF Older
<1>3. leaseAge' \in 0..LeaseMs /\ age' \in [SlotIds -> 0..LeaseMs]
  BY <1>2, SlotsAssumption DEF Tick, TypeOK
<1>4. TypeOK'
  BY <1>1, <1>3 DEF TypeOK, Tick, bleVars, appVars
<1>5. \A then \in Clock : Elapsed(clock, then) < ClockMod - 1 =>
                            Elapsed(clock', then) = Elapsed(clock, then) + 1
  BY ElapsedTick DEF Tick, TypeOK
<1>6. PollClockOK'
  BY <1>5, SlotsAssumption, RegistryAssumption DEF PollClockOK, Tick, appVars, TypeOK
<1>7. LinkClockOK'
  BY <1>2, <1>5, SlotsAssumption, RegistryAssumption
  DEF LinkClockOK, Tick, bleVars, TypeOK
<1>8. SlotClocksOK'
  <2> SUFFICES ASSUME NEW i \in SlotIds, slots[i].used, ~slots[i].active, age'[i] < LeaseMs
               PROVE  Elapsed(clock', slots[i].leaseStarted) = age'[i]
    BY DEF SlotClocksOK, Tick
  <2>1. age[i] \in 0..LeaseMs /\ slots[i].leaseStarted \in Clock
    BY DEF TypeOK, Table, Slot
  <2>2. age'[i] = Older(age[i])
    BY DEF Tick, Leased
  <2>3. age[i] < LeaseMs /\ age'[i] = age[i] + 1
    BY <1>2, <2>1, <2>2
  <2>4. Elapsed(clock, slots[i].leaseStarted) = age[i]
    BY <2>3 DEF SlotClocksOK
  <2>5. QED
    BY <1>5, <2>1, <2>3, <2>4, SlotsAssumption, RegistryAssumption
<1>9. QED
  BY <1>4, <1>6, <1>7, <1>8
  DEF Tick, bleVars, appVars, NewsWhileNotifying, NewsIsCurrent

-----------------------------------------------------------------------------
LEMMA WriteInv == ASSUME IInv, Write PROVE IInv'
BY WriteRegisterInv, WriteSetStateInv, WriteSetTextInv, WriteUnregisterInv DEF Write

LEMMA StutterInv == ASSUME IInv, UNCHANGED vars PROVE IInv'
BY DEF IInv, TypeOK, NewsWhileNotifying, NewsIsCurrent, PollClockOK, LinkClockOK,
       SlotClocksOK, vars, bleVars, appVars, timeVars

LEMMA NextInv == IInv /\ [Next]_vars => IInv'
<1> SUFFICES ASSUME IInv, [Next]_vars PROVE IInv'
  OBVIOUS
<1>1. CASE HandleConnected BY <1>1, HandleConnectedInv
<1>2. CASE HandleDisconnected BY <1>2, HandleDisconnectedInv
<1>3. CASE StartLeases BY <1>3, StartLeasesInv
<1>4. CASE Write BY <1>4, WriteInv
<1>5. CASE BleNotify BY <1>5, BleNotifyInv
<1>6. CASE ReadPollClock BY <1>6, ReadPollClockInv
<1>7. CASE ReapExpired BY <1>7, ReapExpiredInv
<1>8. CASE NotifyRemoved BY <1>8, NotifyRemovedInv
<1>9. CASE Tick BY <1>9, TickInv
<1>10. CASE UNCHANGED vars BY <1>10, StutterInv
<1>11. QED
  BY <1>1, <1>2, <1>3, <1>4, <1>5, <1>6, <1>7, <1>8, <1>9, <1>10 DEF Next

LEMMA Invariance == Spec => []IInv
BY InitInv, NextInv, PTL DEF Spec

-----------------------------------------------------------------------------
(* What the invariant gives. *)

\* Every variable keeps the values its comment promises; in particular the
\* callbacks never run past the subscriber table and the masks never past the
\* slots.
THEOREM TypeCorrect == Spec => []TypeOK
BY Invariance, PTL DEF IInv

\* registerAgent never gives one session key two slots, in any order of
\* registrations, disconnections, unregistrations and polls.
THEOREM OwnersAreUnique == Spec => []OneSlotPerKey
<1>1. IInv => OneSlotPerKey
  BY DEF IInv, GoodTable, OneSlotPerKey
<1>2. QED BY Invariance, <1>1, PTL

\* unregisterAgent and reap leave Slot {} behind, and nothing writes to a free
\* slot before registerAgent takes it.
THEOREM FreedSlotsAreClean == Spec => []NothingLeftBehind
<1>1. IInv => NothingLeftBehind
  BY DEF IInv, GoodTable, NothingLeftBehind
<1>2. QED BY Invariance, <1>1, PTL

\* What the BLE host task tells its subscribers, without the lock, is still so
\* when it tells the last of them.
THEOREM NewsStaysCurrent == Spec => []NewsIsCurrent
BY Invariance, PTL DEF IInv

\* reap frees a slot before its lease is over only with a millis() the
\* application task read before the lease began.
LEMMA ReapStep ==
  ASSUME IInv, NEW i \in SlotIds, ReapExpired, i \in Expired(slots, pollAt)
  PROVE  age[i] >= LeaseMs \/ age[i] < sincePoll
<1> SUFFICES ASSUME age[i] < LeaseMs, age[i] >= sincePoll PROVE FALSE
  BY SlotsAssumption, RegistryAssumption DEF IInv, TypeOK
<1>1. /\ clock \in Clock /\ pollAt \in Clock /\ slots[i].leaseStarted \in Clock
      /\ age[i] \in 0..LeaseMs /\ sincePoll \in 0..PollGap
  BY DEF IInv, TypeOK, Table, Slot
<1>2. Elapsed(clock, pollAt) = sincePoll
  BY DEF IInv, PollClockOK, ReapExpired
<1>3. Elapsed(clock, slots[i].leaseStarted) = age[i]
  BY DEF IInv, SlotClocksOK, Expired
<1>4. Elapsed(pollAt, slots[i].leaseStarted) = age[i] - sincePoll
  BY <1>1, <1>2, <1>3, ElapsedDifference
<1>5. Elapsed(pollAt, slots[i].leaseStarted) >= LeaseMs
  BY DEF Expired
<1>6. QED
  BY <1>1, <1>4, <1>5, SlotsAssumption, RegistryAssumption

THEOREM LeasesAreCutOnlyByStalePolls == Spec => LeaseCutOnlyByStalePoll
<1>1. IInv /\ [Next]_vars =>
        [\A i \in SlotIds :
           (ReapExpired /\ i \in Expired(slots, pollAt))
             => (age[i] >= LeaseMs \/ age[i] < sincePoll)]_vars
  BY ReapStep
<1>2. QED
  BY Invariance, <1>1, PTL DEF Spec, LeaseCutOnlyByStalePoll

-----------------------------------------------------------------------------
(* The registry implements the slot roster. *)

LEMMA RosterInit == Init => Roster!Init
<1> SUFFICES ASSUME Init PROVE Roster!Init
  OBVIOUS
<1>1. \A i \in SlotIds : ~slots[i].used
  BY DEF Init, EmptyTable, FreeSlot
<1>2. QED
  BY <1>1 DEF Roster!Init, OwnerOf, LiveIds

\* A step that leaves keys, used and active alone is a stutter of the roster.
LEMMA RosterStutter ==
  ASSUME \A i \in SlotIds : /\ slots'[i].used = slots[i].used
                            /\ slots'[i].active = slots[i].active
                            /\ slots'[i].key = slots[i].key
  PROVE  UNCHANGED Roster!vars
BY DEF Roster!vars, OwnerOf, LiveIds

LEMMA StartLeasesSuspends == ASSUME IInv, StartLeases PROVE Roster!Suspend
<1>1. slots \in Table
  BY DEF IInv, TypeOK
<1>2. \A i \in SlotIds : /\ slots'[i].used = slots[i].used
                         /\ slots'[i].key = slots[i].key
                         /\ ~(slots'[i].used /\ slots'[i].active)
  BY <1>1 DEF StartLeases, BeginLease, Table, Slot
<1>3. QED
  BY <1>2 DEF Roster!Suspend, OwnerOf, LiveIds

LEMMA RegisterClaimsOrReclaims ==
  ASSUME IInv, NEW key \in Keys, NEW name \in Names, WriteRegister(key, name)
  PROVE  Roster!Next
<1> DEFINE id == RegisteredId(slots, key)
<1>1. slots \in Table /\ id # NoAgent
  BY DEF IInv, TypeOK, WriteRegister
<1>2. /\ id \in SlotIds
      /\ HoldersOf(slots, key) # {} => slots[id].used /\ slots[id].key = key
      /\ HoldersOf(slots, key) = {} => ~slots[id].used
  BY <1>1, RegisteredIdFound
<1>3. CASE HoldersOf(slots, key) # {}
  <2>1. /\ slots'[id].used = slots[id].used /\ slots'[id].key = slots[id].key
        /\ slots[id].used /\ slots'[id].active
        /\ \A i \in SlotIds \ {id} : slots'[i] = slots[i]
    BY <1>3, <1>1, <1>2 DEF WriteRegister, RegisterAgent, Table, Slot
  <2>2. slots[id].key \in Keys
    BY <1>2, <1>3
  <2> HIDE DEF id
  <2>3. Roster!Reclaim(id)
    <3>1. OwnerOf' = OwnerOf
      BY <2>1 DEF OwnerOf
    <3>2. LiveIds' = LiveIds \union {id}
      BY <2>1, <1>2 DEF LiveIds
    <3>3. OwnerOf[id] # NoKey
      BY <2>1, <2>2, <1>2, SlotsAssumption DEF OwnerOf
    <3>4. QED BY <3>1, <3>2, <3>3, <1>2 DEF Roster!Reclaim, Roster!Held
  <2>4. QED BY <2>3, <1>2 DEF Roster!Next
<1>4. CASE HoldersOf(slots, key) = {}
  <2>1. /\ slots'[id].used /\ slots'[id].key = key /\ slots'[id].active
        /\ \A i \in SlotIds \ {id} : slots'[i] = slots[i]
    BY <1>4, <1>1, <1>2 DEF WriteRegister, RegisterAgent, Table, Slot, FreeSlot
  <2>2. \A j \in SlotIds : ~(slots[j].used /\ slots[j].key = key)
    BY <1>4 DEF HoldersOf
  <2> HIDE DEF id
  <2>3. Roster!Claim(id, key)
    <3>1. OwnerOf[id] = NoKey
      BY <1>2, <1>4 DEF OwnerOf
    <3>2. \A j \in SlotIds : OwnerOf[j] # key
      BY <2>2, SlotsAssumption DEF OwnerOf
    <3>3. OwnerOf' = [OwnerOf EXCEPT ![id] = key]
      BY <2>1, <1>2 DEF OwnerOf
    <3>4. LiveIds' = LiveIds \union {id}
      BY <2>1, <1>2 DEF LiveIds
    <3>5. QED BY <3>1, <3>2, <3>3, <3>4 DEF Roster!Claim
  <2>4. QED BY <2>3, <1>2 DEF Roster!Next
<1>5. QED BY <1>3, <1>4

LEMMA UnregisterReleases ==
  ASSUME IInv, NEW id \in SlotIds, WriteUnregister(id)
  PROVE  Roster!Release(id)
<1>1. slots \in Table /\ slots[id].used /\ slots[id].key \in Keys
  BY DEF IInv, TypeOK, GoodTable, OwnersAreKeys, WriteUnregister
<1>2. ~slots'[id].used /\ \A i \in SlotIds \ {id} : slots'[i] = slots[i]
  BY <1>1 DEF WriteUnregister, Unregister, Table, FreeSlot
<1>3. OwnerOf[id] # NoKey
  BY <1>1, SlotsAssumption DEF OwnerOf
<1>4. OwnerOf' = [OwnerOf EXCEPT ![id] = NoKey]
  BY <1>2 DEF OwnerOf
<1>5. LiveIds' = LiveIds \ {id}
  BY <1>2 DEF LiveIds
<1>6. QED BY <1>3, <1>4, <1>5 DEF Roster!Release, Roster!Held

LEMMA ReapEvicts == ASSUME IInv, ReapExpired PROVE Roster!Next
<1> DEFINE S == Expired(slots, pollAt)
<1>1. slots \in Table /\ OwnersAreKeys(slots)
  BY DEF IInv, TypeOK, GoodTable
<1>2. S \in SUBSET SlotIds /\ \A i \in S : slots[i].used /\ ~slots[i].active
  BY DEF Expired
<1>3. \A i \in SlotIds : IF i \in S THEN ~slots'[i].used ELSE slots'[i] = slots[i]
  BY DEF ReapExpired, Reap, FreeSlot
<1> HIDE DEF S
<1>4. S \subseteq Roster!Held \ LiveIds
  BY <1>1, <1>2, SlotsAssumption DEF Roster!Held, OwnerOf, LiveIds, OwnersAreKeys
<1>5. OwnerOf' = [i \in SlotIds |-> IF i \in S THEN NoKey ELSE OwnerOf[i]]
  BY <1>3 DEF OwnerOf
<1>6. LiveIds' = LiveIds
  BY <1>2, <1>3 DEF LiveIds
<1>7. Roster!Evict(S)
  BY <1>4, <1>5, <1>6 DEF Roster!Evict
<1>8. QED BY <1>2, <1>7 DEF Roster!Next

LEMMA RosterStep == IInv /\ [Next]_vars => [Roster!Next]_(Roster!vars)
<1> SUFFICES ASSUME IInv, [Next]_vars PROVE [Roster!Next]_(Roster!vars)
  OBVIOUS
<1> USE DEF IInv
<1>1. CASE UNCHANGED slots
  BY <1>1, RosterStutter
<1>2. CASE StartLeases
  BY <1>2, StartLeasesSuspends DEF Roster!Next
<1>3. CASE Write
  <2>1. CASE \E key \in Keys, name \in Names : WriteRegister(key, name)
    BY <2>1, RegisterClaimsOrReclaims
  <2>2. CASE \E id \in SlotIds, state \in States : WriteSetState(id, state)
    <3>1. \A i \in SlotIds : /\ slots'[i].used = slots[i].used
                             /\ slots'[i].active = slots[i].active
                             /\ slots'[i].key = slots[i].key
      BY <2>2 DEF TypeOK, WriteSetState, SetState, Table, Slot
    <3>2. QED BY <3>1, RosterStutter
  <2>3. CASE \E id \in SlotIds, text \in Texts : WriteSetText(id, text)
    <3>1. \A i \in SlotIds : /\ slots'[i].used = slots[i].used
                             /\ slots'[i].active = slots[i].active
                             /\ slots'[i].key = slots[i].key
      BY <2>3 DEF TypeOK, WriteSetText, SetText, Table, Slot
    <3>2. QED BY <3>1, RosterStutter
  <2>4. CASE \E id \in SlotIds : WriteUnregister(id)
    BY <2>4, UnregisterReleases DEF Roster!Next
  <2>5. QED BY <1>3, <2>1, <2>2, <2>3, <2>4 DEF Write
<1>4. CASE ReapExpired
  BY <1>4, ReapEvicts
<1>5. QED
  BY <1>1, <1>2, <1>3, <1>4
  DEF Next, HandleConnected, HandleDisconnected, BleNotify, ReadPollClock, NotifyRemoved,
      Tick, vars

\* Every behaviour of the registry, its tasks, clocks and callbacks included, is
\* a behaviour of SlotRoster: a slot changes owner only by becoming free, and a
\* connected owner is never evicted.
THEOREM RegistryImplementsRoster == Spec => RosterSpec
BY RosterInit, RosterStep, Invariance, PTL DEF Spec, RosterSpec, Roster!Spec
-----------------------------------------------------------------------------
(* The panel: the registry with the display and the LEDs, and the loop. *)

\* The application task has removals to tell exactly while it is telling them.
AppTells ==
  /\ appPc # "notify" => removing = {} /\ appSub = 1
  /\ appPc = "notify" => removing # {}

\* An LED is active only where the LEDs are told, and for a slot.
LedsAreTold == activeMask \subseteq SlotIds /\ (OnDisplay => activeMask = {})

\* The inductive invariant of the composition.
PanelInv == IInv /\ AppTells /\ LedsAreTold /\ NoGhostLed

LEMMA PanelInitInv == PanelInit => PanelInv
<1> SUFFICES ASSUME PanelInit PROVE PanelInv
  OBVIOUS
<1>1. IInv
  BY InitInv DEF PanelInit
<1>2. activeMask = {} /\ AppTells
  BY DEF PanelInit, L!InitLeds, Init, AppTells
<1>3. QED BY <1>1, <1>2 DEF PanelInv, LedsAreTold, NoGhostLed

\* Whatever the panel does, the registry in it makes a step of its own or none.
LEMMA PanelStepsRegistry == [PanelNext]_panelVars => [Next]_vars
<1> SUFFICES ASSUME [PanelNext]_panelVars PROVE [Next]_vars
  OBVIOUS
<1>1. CASE Ble
  BY <1>1 DEF Ble, RegistryOnly, BleTellDisplay, BleTellLeds, BleTellOther, Next
<1>2. CASE App
  BY <1>2 DEF App, RegistryOnly, AppPoll, AppTellDisplay, AppTellLeds, AppTellOther, AppReadConnected,
              AppApplyConnected, AppTakeDisplayError, Next
<1>3. CASE MarkDisplay \/ DisplayTask \/ RegistryOnly(Tick) \/ UNCHANGED panelVars
  BY <1>3 DEF MarkDisplay, DisplayTask, RegistryOnly, panelVars, Next
<1>4. QED BY <1>1, <1>2, <1>3 DEF PanelNext

\* Every behaviour of the panel is one of the registry, so what is proved of the
\* registry holds in the panel.
THEOREM PanelContainsRegistry == PanelSpec => Spec
<1>1. PanelInit => Init
  BY DEF PanelInit
<1>2. QED BY <1>1, PanelStepsRegistry, PTL DEF PanelSpec, Spec

-----------------------------------------------------------------------------
(* The LEDs. *)

\* What a step of the registry in which no LED is told does to them.
LEMMA UntoldStep ==
  ASSUME PanelInv, UNCHANGED <<activeMask, followed>>,
         \/ HandleConnected \/ HandleDisconnected \/ StartLeases \/ Write
         \/ ReadPollClock \/ ReapExpired \/ Tick \/ UNCHANGED vars
  PROVE  AppTells' /\ LedsAreTold' /\ NoGhostLed'
<1>1. /\ AppTells /\ LedsAreTold /\ NoGhostLed /\ slots \in Table /\ activeMask \subseteq SlotIds
  BY DEF PanelInv, IInv, TypeOK, LedsAreTold
<1>2. LedsAreTold'
  BY <1>1 DEF LedsAreTold, OnDisplay
<1>3. CASE HandleConnected \/ HandleDisconnected \/ ReadPollClock \/ Tick \/ UNCHANGED vars
  <2>1. AppTells' /\ UNCHANGED <<slots, removing>>
    BY <1>1, <1>3 DEF AppTells, HandleConnected, HandleDisconnected, ReadPollClock, Tick, vars, appVars,
                      bleVars, timeVars
  <2>2. \/ UNCHANGED <<blePc, bleNote>> \/ blePc # "notify"
    BY <1>3 DEF HandleConnected, HandleDisconnected, ReadPollClock, Tick, vars, bleVars
  <2>3. NoGhostLed'
    BY <1>1, <2>1, <2>2 DEF NoGhostLed
  <2>4. QED BY <1>2, <2>1, <2>3
<1>4. CASE StartLeases
  <2>1. UNCHANGED <<removing, appPc, appSub>> /\ blePc # "notify"
    BY <1>4 DEF StartLeases, appVars
  <2>2. \A i \in SlotIds : slots'[i].used = slots[i].used
    BY <1>1, <1>4 DEF StartLeases, BeginLease, Table, Slot
  <2>3. AppTells' /\ NoGhostLed'
    BY <1>1, <2>1, <2>2 DEF AppTells, NoGhostLed
  <2>4. QED BY <1>2, <2>3
<1>5. CASE Write
  <2>1. UNCHANGED <<removing, appPc, appSub>> /\ blePc # "notify"
    BY <1>5 DEF Write, WriteRegister, WriteSetState, WriteSetText, WriteUnregister, appVars
  <2>2. \A i \in SlotIds : slots[i].used =>
          slots'[i].used \/ (blePc' = "notify" /\ bleNote'.kind = "removed" /\ bleNote'.id = i)
    <3>1. ASSUME NEW key \in Keys, NEW name \in Names, WriteRegister(key, name),
                 NEW i \in SlotIds, slots[i].used
          PROVE  slots'[i].used
      <4> DEFINE id == RegisteredId(slots, key)
      <4>1. id \in SlotIds
        BY <1>1, <3>1, RegisteredIdFound DEF WriteRegister
      <4> HIDE DEF id
      <4>2. \/ slots' = [slots EXCEPT ![id].active = TRUE, ![id].name = name]
            \/ slots' = [slots EXCEPT ![id] = [FreeSlot EXCEPT !.used = TRUE, !.active = TRUE,
                                               !.key = key, !.name = name]]
        BY <3>1 DEF WriteRegister, RegisterAgent, id
      <4>3. CASE slots' = [slots EXCEPT ![id].active = TRUE, ![id].name = name]
        <5>1. slots'[i].used = slots[i].used
          BY <1>1, <4>1, <4>3 DEF Table, Slot
        <5>2. QED BY <3>1, <5>1
      <4>4. CASE slots' = [slots EXCEPT ![id] = [FreeSlot EXCEPT !.used = TRUE, !.active = TRUE,
                                                !.key = key, !.name = name]]
        <5>1. slots'[id].used /\ (i # id => slots'[i] = slots[i])
          BY <1>1, <4>1, <4>4 DEF Table, FreeSlot
        <5>2. QED BY <3>1, <5>1
      <4>5. QED BY <4>2, <4>3, <4>4
    <3>2. ASSUME NEW id \in SlotIds, NEW state \in States, WriteSetState(id, state), NEW i \in SlotIds
          PROVE  slots'[i].used = slots[i].used
      BY <1>1, <3>2 DEF WriteSetState, SetState, Table, Slot
    <3>3. ASSUME NEW id \in SlotIds, NEW text \in Texts, WriteSetText(id, text), NEW i \in SlotIds
          PROVE  slots'[i].used = slots[i].used
      BY <1>1, <3>3 DEF WriteSetText, SetText, Table, Slot
    <3>4. ASSUME NEW id \in SlotIds, WriteUnregister(id), NEW i \in SlotIds
          PROVE  \/ slots'[i] = slots[i]
                 \/ blePc' = "notify" /\ bleNote'.kind = "removed" /\ bleNote'.id = i
      BY <1>1, <3>4 DEF WriteUnregister, Unregister, Announce, Table
    <3>5. QED BY <1>5, <3>1, <3>2, <3>3, <3>4 DEF Write
  <2>3. AppTells' /\ NoGhostLed'
    BY <1>1, <2>1, <2>2 DEF AppTells, NoGhostLed
  <2>4. QED BY <1>2, <2>3
<1>6. CASE ReapExpired
  <2>1. /\ removing = {} /\ appSub' = 1 /\ UNCHANGED <<blePc, bleNote>>
        /\ removing' = Expired(slots, pollAt)
        /\ appPc' = IF removing' = {} THEN "idle" ELSE "notify"
    BY <1>1, <1>6 DEF ReapExpired, AppTells, bleVars
  <2>2. \A i \in SlotIds : i \in removing' \/ slots'[i] = slots[i]
    BY <1>6 DEF ReapExpired, Reap
  <2>3. NoGhostLed'
    BY <1>1, <2>1, <2>2 DEF NoGhostLed
  <2>4. QED BY <1>2, <2>1, <2>3 DEF AppTells
<1>7. QED BY <1>3, <1>4, <1>5, <1>6

\* The BLE host task tells a subscriber.
LEMMA BleTellsInv ==
  ASSUME PanelInv, BleTellDisplay \/ BleTellLeds \/ BleTellOther
  PROVE  AppTells' /\ LedsAreTold' /\ NoGhostLed'
<1>1. /\ AppTells /\ LedsAreTold /\ NoGhostLed /\ NewsIsCurrent /\ bleSub \in 1..2 /\ bleNote.id \in SlotIds
      /\ NumSubscribers = 2 /\ blePc = "notify" /\ BleNotify
  BY PanelAssumption DEF PanelInv, IInv, TypeOK, Subscribers, Note, BleNotify, BleTellDisplay, BleTellLeds,
                         BleTellOther, RegistryOnly
<1>2. UNCHANGED <<slots, removing, appPc, appSub>> /\ AppTells'
  BY <1>1 DEF BleNotify, appVars, AppTells
<1>3. UNCHANGED followed
  BY DEF BleTellDisplay, BleTellLeds, BleTellOther, RegistryOnly, outputVars
<1>4. CASE OnDisplay
  <2>1. activeMask = {} /\ activeMask' = activeMask
    BY <1>1, <1>4 DEF LedsAreTold, BleTellDisplay, BleTellLeds, BleTellOther, RegistryOnly, outputVars,
                      ledVars, OnDisplay, OnLeds
  <2>2. QED BY <1>2, <2>1 DEF LedsAreTold, NoGhostLed
<1>5. CASE ~OnDisplay /\ bleSub # LedSub
  <2>1. activeMask' = activeMask
    BY <1>5 DEF BleTellDisplay, BleTellLeds, BleTellOther, RegistryOnly, outputVars, ledVars
  <2>2. UNCHANGED <<blePc, bleNote>>
    BY <1>1, <1>5 DEF BleNotify, LedSub
  <2>3. QED BY <1>1, <1>2, <1>3, <1>5, <2>1, <2>2 DEF LedsAreTold, NoGhostLed, OnDisplay
<1>6. CASE ~OnDisplay /\ bleSub = LedSub
  <2>1. CASE bleNote.kind = "registered" /\ L!HandleRegistered(bleNote.id)
    <3>1. activeMask' = activeMask \union {bleNote.id} /\ slots[bleNote.id].used
      BY <1>1, <2>1 DEF L!HandleRegistered, NewsIsCurrent, IsActive
    <3>2. QED BY <1>1, <1>2, <1>3, <1>6, <2>1, <3>1 DEF LedsAreTold, NoGhostLed, OnDisplay
  <2>2. CASE bleNote.kind = "removed" /\ L!HandleRemoved(bleNote.id)
    <3>1. activeMask' = activeMask \ {bleNote.id}
      BY <2>2 DEF L!HandleRemoved
    <3>2. QED BY <1>1, <1>2, <1>3, <1>6, <3>1 DEF LedsAreTold, NoGhostLed, OnDisplay
  <2>3. CASE bleNote.kind # "removed" /\ activeMask' = activeMask
    BY <1>1, <1>2, <1>3, <1>6, <2>3 DEF LedsAreTold, NoGhostLed, OnDisplay
  <2>4. BleTellLeds
    BY <1>6 DEF BleTellDisplay, BleTellOther
  <2>5. bleNote.kind = "state" /\ L!HandleState(bleNote.id, bleNote.state) => activeMask' = activeMask
    BY DEF L!HandleState
  <2>6. QED BY <2>1, <2>2, <2>3, <2>4, <2>5 DEF BleTellLeds, ledVars
<1>7. QED BY <1>4, <1>5, <1>6

\* The application task tells a subscriber.
LEMMA AppTellsInv ==
  ASSUME PanelInv, AppTellDisplay \/ AppTellLeds \/ AppTellOther
  PROVE  AppTells' /\ LedsAreTold' /\ NoGhostLed'
<1>1. /\ AppTells /\ LedsAreTold /\ NoGhostLed /\ appSub \in 1..2
      /\ NumSubscribers = 2 /\ appPc = "notify" /\ removing # {} /\ NotifyRemoved
  BY PanelAssumption DEF PanelInv, IInv, TypeOK, Subscribers, NotifyRemoved, AppTellDisplay, AppTellLeds,
                         AppTellOther, RegistryOnly, AppTells
<1>2. UNCHANGED <<slots, blePc, bleNote>> /\ AppTells'
  BY <1>1 DEF NotifyRemoved, bleVars, AppTells
<1>3. UNCHANGED followed
  BY DEF AppTellDisplay, AppTellLeds, AppTellOther, RegistryOnly, outputVars
<1>4. CASE OnDisplay
  <2>1. activeMask = {} /\ activeMask' = activeMask
    BY <1>1, <1>4 DEF LedsAreTold, AppTellDisplay, AppTellLeds, AppTellOther, RegistryOnly, outputVars,
                      ledVars, OnDisplay, OnLeds
  <2>2. QED BY <1>2, <2>1 DEF LedsAreTold, NoGhostLed
<1>5. CASE ~OnDisplay /\ appSub # LedSub
  <2>1. activeMask' = activeMask
    BY <1>5 DEF AppTellDisplay, AppTellLeds, AppTellOther, RegistryOnly, outputVars, ledVars
  <2>2. removing' = removing
    BY <1>1, <1>5 DEF NotifyRemoved, LedSub
  <2>3. QED BY <1>1, <1>2, <1>3, <1>5, <2>1, <2>2 DEF LedsAreTold, NoGhostLed, OnDisplay
<1>6. CASE ~OnDisplay /\ appSub = LedSub
  <2>1. AppTellLeds
    BY <1>6 DEF AppTellDisplay, AppTellOther
  <2>2. activeMask' = activeMask \ {Min(removing)} /\ removing' = removing \ {Min(removing)}
    BY <1>1, <1>6, <2>1 DEF AppTellLeds, L!HandleRemoved, NotifyRemoved, LedSub
  <2>3. QED BY <1>1, <1>2, <1>3, <1>6, <2>2 DEF LedsAreTold, NoGhostLed, OnDisplay
<1>7. QED BY <1>4, <1>5, <1>6

\* setConnected(false) makes all LEDs inactive, and nothing in the loop makes
\* one active.
LEMMA LoopInv ==
  ASSUME PanelInv, AppApplyConnected PROVE AppTells' /\ LedsAreTold' /\ NoGhostLed'
<1>1. UNCHANGED <<vars, followed>> /\ activeMask' \subseteq activeMask
  BY DEF AppApplyConnected, L!SetConnected, ledVars
<1>2. QED BY <1>1 DEF PanelInv, AppTells, LedsAreTold, NoGhostLed, OnDisplay, vars, appVars, bleVars

LEMMA PanelNextInv == PanelInv /\ [PanelNext]_panelVars => PanelInv'
<1> SUFFICES ASSUME PanelInv, [PanelNext]_panelVars PROVE PanelInv'
  OBVIOUS
<1>1. IInv'
  BY PanelStepsRegistry, NextInv DEF PanelInv
<1> SUFFICES AppTells' /\ LedsAreTold' /\ NoGhostLed'
  BY <1>1 DEF PanelInv
<1>2. CASE Ble
  BY <1>2, UntoldStep, BleTellsInv DEF Ble, RegistryOnly, outputVars, ledVars
<1>3. CASE App
  BY <1>3, UntoldStep, AppTellsInv, LoopInv
  DEF App, RegistryOnly, AppPoll, AppReadConnected, AppTakeDisplayError, outputVars, ledVars
<1>4. CASE MarkDisplay \/ DisplayTask \/ RegistryOnly(Tick) \/ UNCHANGED panelVars
  BY <1>4, UntoldStep DEF MarkDisplay, DisplayTask, RegistryOnly, panelVars, outputVars, ledVars
<1>5. QED BY <1>2, <1>3, <1>4 DEF PanelNext

LEMMA PanelInvariance == PanelSpec => []PanelInv
BY PanelInitInv, PanelNextInv, PTL DEF PanelSpec

\* An LED the service holds for active belongs to a slot in use, or to one whose
\* removal the LEDs are about to be told, whatever registrations, polls and link
\* changes cross.
THEOREM NoGhostStaysLit == PanelSpec => []NoGhostLed
<1>1. PanelInv => NoGhostLed
  BY DEF PanelInv
<1>2. QED BY <1>1, PanelInvariance, PTL

-----------------------------------------------------------------------------
(* The display: what the panel is for DisplayService. *)

RowsShown  == [i \in SlotIds |-> IF OnDisplay THEN RowOf(slots[i]) ELSE EmptyRow]
TellingNow == [c \in {"ble", "app"} |-> IF OnDisplay THEN Untold(c) ELSE {}]

LEMMA DisplayInit == PanelInit => D!Init
<1> SUFFICES ASSUME PanelInit PROVE D!Init
  OBVIOUS
<1>1. RowsShown = [i \in SlotIds |-> EmptyRow]
  BY DEF RowsShown, PanelInit, Init, EmptyTable, FreeSlot, RowOf
<1>2. TellingNow = [c \in {"ble", "app"} |-> {}]
  BY DEF TellingNow, PanelInit, Init, Untold, UntoldByBle, UntoldByApp, DisplaySub
<1>3. QED BY <1>1, <1>2 DEF PanelInit, D!Init, D!SlotIds, SlotIds, RowsShown, TellingNow

LEMMA DisplayStutters ==
  ASSUME UNCHANGED displayVars, RowsShown' = RowsShown, TellingNow' = TellingNow
  PROVE  UNCHANGED D!vars
BY DEF D!vars, D!callerVars, D!taskVars, displayVars, RowsShown, TellingNow

\* A critical section that changes what rows show, announced by the caller.
LEMMA DisplayChanges ==
  ASSUME NEW c \in {"ble", "app"}, NEW S \in SUBSET SlotIds, S # {}, NEW row \in AgentRows,
         TellingNow[c] = {}, TellingNow' = [TellingNow EXCEPT ![c] = S],
         RowsShown' = [i \in SlotIds |-> IF i \in S THEN row ELSE RowsShown[i]],
         UNCHANGED displayVars
  PROVE  D!Next
<1>1. D!Change(c, S, row)
  BY DEF D!Change, D!SlotIds, SlotIds, displayVars, D!taskVars, RowsShown, TellingNow
<1>2. QED BY <1>1 DEF D!Next, D!SlotIds, SlotIds

LEMMA RowType == ASSUME NEW slot \in Slot PROVE RowOf(slot) \in AgentRows
BY DEF RowOf, AgentRows, Slot

\* What is not followed changes nothing.
LEMMA OffDisplay ==
  ASSUME ~OnDisplay, UNCHANGED <<followed, displayVars>> PROVE UNCHANGED D!vars
<1>1. RowsShown' = RowsShown /\ TellingNow' = TellingNow
  BY DEF RowsShown, TellingNow, OnDisplay
<1>2. QED BY <1>1, DisplayStutters

\* Steps that show in no row and tell nobody.
LEMMA QuietForDisplay ==
  ASSUME UNCHANGED <<followed, displayVars>>,
         \A i \in SlotIds : RowOf(slots'[i]) = RowOf(slots[i]),
         UntoldByBle' = UntoldByBle, UntoldByApp' = UntoldByApp
  PROVE  UNCHANGED D!vars
<1>1. RowsShown' = RowsShown
  BY DEF RowsShown, OnDisplay
<1>2. TellingNow' = TellingNow
  BY DEF TellingNow, OnDisplay, Untold
<1>3. QED BY <1>1, <1>2, DisplayStutters

LEMMA QuietRegistrySteps ==
  ASSUME PanelInv, UNCHANGED <<followed, displayVars>>,
         \/ HandleConnected \/ HandleDisconnected \/ StartLeases \/ ReadPollClock \/ Tick
         \/ UNCHANGED vars
  PROVE  UNCHANGED D!vars
<1>1. \A i \in SlotIds : RowOf(slots'[i]) = RowOf(slots[i])
  <2>1. CASE StartLeases
    <3>1. slots \in Table
      BY DEF PanelInv, IInv, TypeOK
    <3>2. QED BY <2>1, <3>1 DEF StartLeases, BeginLease, RowOf, Table, Slot
  <2>2. CASE ~StartLeases
    BY <2>2 DEF HandleConnected, HandleDisconnected, ReadPollClock, Tick, vars
  <2>3. QED BY <2>1, <2>2
<1>2. UntoldByBle' = UntoldByBle
  BY DEF UntoldByBle, HandleConnected, HandleDisconnected, StartLeases, ReadPollClock, Tick, vars, bleVars
<1>3. UntoldByApp' = UntoldByApp
  BY DEF UntoldByApp, HandleConnected, HandleDisconnected, StartLeases, ReadPollClock, Tick, vars, appVars
<1>4. QED BY <1>1, <1>2, <1>3, QuietForDisplay

\* A command changes one row at most, and the BLE host task tells of it.
LEMMA OneRowChanges ==
  ASSUME PanelInv, OnDisplay, UNCHANGED <<followed, displayVars, appVars>>,
         blePc = "idle", NEW kind, NEW id \in SlotIds, NEW state, Announce(kind, id, state),
         slots' \in Table, \A i \in SlotIds : i # id => slots'[i] = slots[i]
  PROVE  D!Next
<1>1. UntoldByBle = {} /\ UntoldByBle' = {id} /\ UntoldByApp' = UntoldByApp
  BY DEF UntoldByBle, UntoldByApp, Announce, DisplaySub, appVars
<1>2. TellingNow["ble"] = {} /\ TellingNow' = [TellingNow EXCEPT !["ble"] = {id}]
  BY <1>1 DEF TellingNow, OnDisplay, Untold
<1>3. RowOf(slots'[id]) \in AgentRows
  BY RowType DEF Table
<1>4. RowsShown' = [i \in SlotIds |-> IF i \in {id} THEN RowOf(slots'[id]) ELSE RowsShown[i]]
  BY DEF RowsShown, OnDisplay
<1>5. {id} \in SUBSET SlotIds /\ {id} # {} /\ UNCHANGED displayVars
  OBVIOUS
<1>6. QED BY <1>2, <1>3, <1>4, <1>5, DisplayChanges

LEMMA WriteForDisplay ==
  ASSUME PanelInv, OnDisplay, RegistryOnly(Write) PROVE D!Next
<1>1. /\ slots \in Table /\ slots' \in Table /\ UNCHANGED <<followed, displayVars, appVars>>
  <2>1. IInv'
    BY WriteInv DEF PanelInv, RegistryOnly
  <2>2. UNCHANGED appVars
    BY DEF RegistryOnly, Write, WriteRegister, WriteSetState, WriteSetText, WriteUnregister
  <2>3. QED BY <2>1, <2>2 DEF PanelInv, IInv, TypeOK, RegistryOnly, outputVars
<1>2. ASSUME NEW key \in Keys, NEW name \in Names, WriteRegister(key, name) PROVE D!Next
  <2> DEFINE id == RegisteredId(slots, key)
  <2>1. id \in SlotIds
    BY <1>1, <1>2, RegisteredIdFound DEF WriteRegister
  <2>2. /\ blePc = "idle" /\ Announce("registered", id, Idle)
        /\ \A i \in SlotIds : i # id => slots'[i] = slots[i]
    BY <1>1, <1>2 DEF WriteRegister, RegisterAgent, Table
  <2> HIDE DEF id
  <2>3. QED BY <1>1, <2>1, <2>2, OneRowChanges
<1>3. ASSUME NEW id \in SlotIds, NEW state \in States, WriteSetState(id, state) PROVE D!Next
  BY <1>1, <1>3, OneRowChanges DEF WriteSetState, SetState, Table
<1>4. ASSUME NEW id \in SlotIds, NEW text \in Texts, WriteSetText(id, text) PROVE D!Next
  BY <1>1, <1>4, OneRowChanges DEF WriteSetText, SetText, Table
<1>5. ASSUME NEW id \in SlotIds, WriteUnregister(id) PROVE D!Next
  BY <1>1, <1>5, OneRowChanges DEF WriteUnregister, Unregister, Table
<1>6. QED BY <1>2, <1>3, <1>4, <1>5 DEF RegistryOnly, Write

LEMMA ReapForDisplay ==
  ASSUME PanelInv, OnDisplay, RegistryOnly(ReapExpired) PROVE [D!Next]_(D!vars)
<1> DEFINE S == Expired(slots, pollAt)
<1>1. /\ removing = {} /\ appSub = 1 /\ UNCHANGED <<followed, displayVars, blePc, bleNote, bleSub, appSub>>
      /\ removing' = S /\ slots' = Reap(slots, pollAt) /\ S \in SUBSET SlotIds
  BY DEF PanelInv, AppTells, RegistryOnly, ReapExpired, bleVars, outputVars, Expired
<1>2. UntoldByApp = {} /\ UntoldByApp' = S /\ UntoldByBle' = UntoldByBle
  BY <1>1 DEF UntoldByApp, UntoldByBle, DisplaySub
<1>3. CASE S = {}
  <2>1. \A i \in SlotIds : RowOf(slots'[i]) = RowOf(slots[i])
    BY <1>1, <1>3 DEF Reap
  <2>2. QED BY <1>1, <1>2, <1>3, <2>1, QuietForDisplay
<1>4. CASE S # {}
  <2>1. TellingNow["app"] = {} /\ TellingNow' = [TellingNow EXCEPT !["app"] = S]
    BY <1>1, <1>2 DEF TellingNow, OnDisplay, Untold
  <2>2. RowsShown' = [i \in SlotIds |-> IF i \in S THEN EmptyRow ELSE RowsShown[i]]
    BY <1>1 DEF RowsShown, OnDisplay, Reap, FreeSlot, RowOf
  <2>3. EmptyRow \in AgentRows
    BY DEF AgentRows
  <2> HIDE DEF S
  <2>4. D!Next
    BY <1>1, <1>4, <2>1, <2>2, <2>3, DisplayChanges
  <2>5. QED BY <2>4
<1>5. QED BY <1>3, <1>4

\* A callback of the display returns: the slot is told, and no other.
LEMMA TellForDisplay ==
  ASSUME PanelInv, OnDisplay, BleTellDisplay \/ AppTellDisplay PROVE D!Next
<1>1. NumSubscribers = 2 /\ UNCHANGED <<slots, followed>>
  BY PanelAssumption DEF BleTellDisplay, AppTellDisplay, BleNotify, NotifyRemoved
<1>2. RowsShown' = RowsShown
  BY <1>1 DEF RowsShown, OnDisplay
<1>3. CASE BleTellDisplay
  <2>1. UntoldByBle = {bleNote.id} /\ UntoldByBle' = {} /\ UntoldByApp' = UntoldByApp
    BY <1>1, <1>3 DEF BleTellDisplay, BleNotify, UntoldByBle, UntoldByApp, DisplaySub, appVars
  <2>2. Min({bleNote.id}) = bleNote.id
    <3>1. bleNote.id \in Int
      BY DEF PanelInv, IInv, TypeOK, Note, SlotIds
    <3>2. QED BY <3>1 DEF Min
  <2>3. TellingNow' = [TellingNow EXCEPT !["ble"] = @ \ {Min(@)}]
    BY <1>1, <2>1, <2>2 DEF TellingNow, OnDisplay, Untold
  <2>4. D!NotifyGive("ble")
    BY <1>2, <1>3, <2>3 DEF BleTellDisplay, D!NotifyGive, D!Min, Min, RowsShown, TellingNow
  <2>5. QED BY <2>4 DEF D!Next, D!Tell
<1>4. CASE AppTellDisplay
  <2>1. UntoldByApp = removing /\ UntoldByApp' = removing \ {Min(removing)} /\ UntoldByBle' = UntoldByBle
    BY <1>1, <1>4 DEF AppTellDisplay, NotifyRemoved, UntoldByBle, UntoldByApp, DisplaySub, bleVars
  <2>2. TellingNow' = [TellingNow EXCEPT !["app"] = @ \ {Min(@)}]
    BY <1>1, <2>1 DEF TellingNow, OnDisplay, Untold
  <2>3. D!NotifyGive("app")
    BY <1>2, <1>4, <2>2 DEF AppTellDisplay, D!NotifyGive, D!Min, Min, RowsShown, TellingNow
  <2>4. QED BY <2>3 DEF D!Next, D!Tell
<1>5. QED BY <1>3, <1>4

\* What the LEDs are told, or would be, the display has been told before.
LEMMA OtherForDisplay ==
  ASSUME PanelInv, OnDisplay, BleTellOther \/ AppTellOther PROVE UNCHANGED D!vars
<1>1. /\ NumSubscribers = 2 /\ UNCHANGED <<slots, followed, displayVars>>
      /\ bleSub \in 1..2 /\ appSub \in 1..2
  BY PanelAssumption
  DEF BleTellOther, AppTellOther, BleNotify, NotifyRemoved, RegistryOnly, outputVars, PanelInv, IInv,
      TypeOK, Subscribers
<1>2. UntoldByBle' = UntoldByBle /\ UntoldByApp' = UntoldByApp
  <2>1. CASE BleTellOther
    <3>1. bleSub = 2 /\ blePc' = "idle" /\ UNCHANGED <<removing, appSub>>
      BY <1>1, <2>1 DEF BleTellOther, RegistryOnly, BleNotify, DisplaySub, appVars
    <3>2. QED BY <3>1 DEF UntoldByBle, UntoldByApp, DisplaySub
  <2>2. CASE AppTellOther
    <3>1. /\ appSub = 2 /\ appSub' = 1 /\ removing' = removing \ {Min(removing)}
          /\ UNCHANGED <<blePc, bleNote, bleSub>>
      BY <1>1, <2>2 DEF AppTellOther, RegistryOnly, NotifyRemoved, DisplaySub, bleVars
    <3>2. QED BY <3>1 DEF UntoldByBle, UntoldByApp, DisplaySub
  <2>3. QED BY <2>1, <2>2
<1>3. QED BY <1>1, <1>2, QuietForDisplay

LEMMA DisplayStep == PanelInv /\ [PanelNext]_panelVars => [D!Next]_(D!vars)
<1> SUFFICES ASSUME PanelInv, [PanelNext]_panelVars PROVE [D!Next]_(D!vars)
  OBVIOUS
<1>1. CASE ~OnDisplay
  <2>1. UNCHANGED <<followed, displayVars>>
    BY <1>1 DEF PanelNext, Ble, App, MarkDisplay, DisplayTask, RegistryOnly, BleTellDisplay, BleTellLeds,
                BleTellOther, AppPoll, AppTellDisplay, AppTellLeds, AppTellOther, AppReadConnected,
                AppApplyConnected, AppTakeDisplayError, panelVars, outputVars
  <2>2. QED BY <1>1, <2>1, OffDisplay
<1>2. CASE OnDisplay
  <2>1. CASE \/ RegistryOnly(HandleConnected \/ HandleDisconnected \/ StartLeases) \/ AppPoll
             \/ RegistryOnly(Tick) \/ AppReadConnected \/ AppApplyConnected \/ UNCHANGED panelVars
    BY <2>1, QuietRegistrySteps DEF RegistryOnly, AppPoll, AppReadConnected, AppApplyConnected, outputVars,
                                    panelVars
  <2>2. CASE RegistryOnly(Write)
    BY <1>2, <2>2, WriteForDisplay
  <2>3. CASE RegistryOnly(ReapExpired)
    BY <1>2, <2>3, ReapForDisplay
  <2>4. CASE BleTellDisplay \/ AppTellDisplay
    BY <1>2, <2>4, TellForDisplay
  <2>5. CASE BleTellOther \/ AppTellOther
    BY <1>2, <2>5, OtherForDisplay
  <2>6. CASE MarkDisplay \/ DisplayTask \/ AppTakeDisplayError
    BY <2>6 DEF MarkDisplay, DisplayTask, AppTakeDisplayError, D!Next, D!Tell
  <2>7. ~BleTellLeds /\ ~AppTellLeds
    BY <1>2 DEF BleTellLeds, AppTellLeds, OnLeds, OnDisplay
  <2>8. QED BY <2>1, <2>2, <2>3, <2>4, <2>5, <2>6, <2>7 DEF PanelNext, Ble, App
<1>3. QED BY <1>1, <1>2

\* The panel drives the display only in the ways DisplayService is built for:
\* every critical section changes rows of a caller that has told of its last
\* change, and each of them is marked and notified once.
THEOREM PanelDrivesDisplay == PanelSpec => DisplaySpec
BY DisplayInit, DisplayStep, PanelInvariance, PTL DEF PanelSpec, DisplaySpec, D!Spec

=============================================================================
