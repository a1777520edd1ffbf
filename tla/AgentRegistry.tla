--------------------------- MODULE AgentRegistry ---------------------------
(***************************************************************************)
(* The slot registry of the BLE Agent Panel between its two callers: the   *)
(* BLE host task, which runs the GATT callbacks of BleGattTransport and    *)
(* BleAgentLightService one at a time, and the application task, whose     *)
(* loop calls poll(millis()).                                              *)
(*                                                                         *)
(* A critical section (Guard) of the registry is one step.  What the code  *)
(* does outside it is a step of its own: reading millis() before the call, *)
(* and telling each subscriber afterwards, one callback at a time.         *)
(*                                                                         *)
(* Commands the service rejects (a frame decode() refuses, an unknown or   *)
(* inactive id, no free slot) leave this state as it is and are stuttering *)
(* steps here.                                                             *)
(***************************************************************************)
EXTENDS AgentSlots

CONSTANTS
  NumSubscribers,  \* m_subscriberCount after setup: the display, then the LEDs
  PollGap          \* the longest time, in ticks of millis(), between two polls

ASSUME RegistryAssumption ==
  /\ NumSubscribers \in 1..4           \* MaxSubscribers
  /\ PollGap \in Nat \ {0}
  /\ LeaseMs + PollGap < ClockMod

VARIABLES
  slots,      \* m_slots
  connected,  \* m_connected of the GATT transport
  blePc,      \* where the BLE host task is: idle, leasing, notify
  leaseAt,    \* the millis() handleDisconnected read for beginLease
  bleNote,    \* the event the BLE host task is telling the subscribers
  bleSub,     \* the subscriber it tells next
  appPc,      \* where the application task is: idle, polling, notify
  pollAt,     \* the millis() the application task read for reap
  removing,   \* removedMask: removals it has yet to tell
  appSub,     \* the subscriber it tells next
  clock,      \* millis()
  sincePoll,  \* ghost: ticks since the application task read millis()
  leaseAge,   \* ghost: ticks since leaseAt was read, up to LeaseMs
  age         \* ghost: ticks each slot has been leased, up to LeaseMs

bleVars  == <<connected, blePc, leaseAt, bleNote, bleSub>>
appVars  == <<appPc, pollAt, removing, appSub>>
timeVars == <<clock, sincePoll, leaseAge, age>>
vars     == <<slots, bleVars, appVars, timeVars>>

Subscribers == 1..NumSubscribers

Kinds  == {"none", "registered", "state", "text", "removed"}
Note   == [kind: Kinds, id: SlotIds, state: States]
NoNote == [kind |-> "none", id |-> 0, state |-> Idle]

Leased == {i \in SlotIds : slots[i].used /\ ~slots[i].active}

Init ==
  /\ slots = EmptyTable
  /\ connected = FALSE
  /\ blePc = "idle" /\ leaseAt = 0 /\ bleNote = NoNote /\ bleSub = 1
  /\ appPc = "idle" /\ pollAt = 0 /\ removing = {} /\ appSub = 1
  /\ clock \in Clock /\ sincePoll = 0 /\ leaseAge = 0
  /\ age = [i \in SlotIds |-> 0]

-----------------------------------------------------------------------------
(* The BLE host task. *)

\* The mutation is done and the lock released; the subscribers come next.
Announce(kind, id, state) ==
  /\ blePc' = "notify"
  /\ bleNote' = [kind |-> kind, id |-> id, state |-> state]
  /\ bleSub' = 1

HandleConnected ==
  /\ blePc = "idle"
  /\ ~connected
  /\ connected' = TRUE
  /\ UNCHANGED <<slots, blePc, leaseAt, bleNote, bleSub, appVars, timeVars>>

\* m_connected is cleared and millis() read; beginLease has not run yet.
HandleDisconnected ==
  /\ blePc = "idle"
  /\ connected
  /\ connected' = FALSE
  /\ blePc' = "leasing"
  /\ leaseAt' = clock
  /\ leaseAge' = 0
  /\ UNCHANGED <<slots, bleNote, bleSub, appVars, clock, sincePoll, age>>

StartLeases ==
  /\ blePc = "leasing"
  /\ slots' = BeginLease(slots, leaseAt)
  /\ age' = [i \in SlotIds |-> IF IsActive(slots, i) THEN leaseAge ELSE age[i]]
  /\ blePc' = "idle" /\ leaseAt' = 0 /\ leaseAge' = 0
  /\ UNCHANGED <<connected, bleNote, bleSub, appVars, clock, sincePoll>>

\* The four opcodes of handleWrite, when the registry accepts them.
WriteRegister(key, name) ==
  LET id == RegisteredId(slots, key) IN
  /\ blePc = "idle" /\ connected
  /\ id # NoAgent
  /\ slots' = RegisterAgent(slots, key, name)
  /\ age' = [age EXCEPT ![id] = 0]
  /\ Announce("registered", id, Idle)
  /\ UNCHANGED <<connected, leaseAt, appVars, clock, sincePoll, leaseAge>>

\* Mutant: setState does not notify.
WriteSetStateSilently(id, state) ==
  /\ blePc = "idle" /\ connected
  /\ IsActive(slots, id)
  /\ slots' = SetState(slots, id, state)
  /\ UNCHANGED <<connected, blePc, leaseAt, bleNote, bleSub, appVars, timeVars>>

WriteSetState(id, state) ==
  /\ blePc = "idle" /\ connected
  /\ IsActive(slots, id)
  /\ slots' = SetState(slots, id, state)
  /\ Announce("state", id, state)
  /\ UNCHANGED <<connected, leaseAt, appVars, timeVars>>

WriteSetText(id, text) ==
  /\ blePc = "idle" /\ connected
  /\ IsActive(slots, id)
  /\ slots' = SetText(slots, id, text)
  /\ Announce("text", id, Idle)
  /\ UNCHANGED <<connected, leaseAt, appVars, timeVars>>

\* Only `used` is asked for: a client may give up a slot it has not reclaimed.
WriteUnregister(id) ==
  /\ blePc = "idle" /\ connected
  /\ slots[id].used
  /\ slots' = Unregister(slots, id)
  /\ age' = [age EXCEPT ![id] = 0]
  /\ Announce("removed", id, Idle)
  /\ UNCHANGED <<connected, leaseAt, appVars, clock, sincePoll, leaseAge>>

\* Mutant: the loop over the subscribers runs one too far.
BleNotifyOneMore ==
  /\ blePc = "notify"
  /\ IF bleSub <= NumSubscribers
     THEN /\ bleSub' = bleSub + 1
          /\ UNCHANGED <<blePc, bleNote>>
     ELSE /\ bleSub' = 1
          /\ blePc' = "idle"
          /\ bleNote' = NoNote
  /\ UNCHANGED <<slots, connected, leaseAt, appVars, timeVars>>

\* One callback of one subscriber returns.
BleNotify ==
  /\ blePc = "notify"
  /\ IF bleSub < NumSubscribers
     THEN /\ bleSub' = bleSub + 1
          /\ UNCHANGED <<blePc, bleNote>>
     ELSE /\ bleSub' = 1
          /\ blePc' = "idle"
          /\ bleNote' = NoNote
  /\ UNCHANGED <<slots, connected, leaseAt, appVars, timeVars>>

-----------------------------------------------------------------------------
(* The application task. *)

\* millis() is evaluated as the argument of poll, before the lock is taken.
ReadPollClock ==
  /\ appPc = "idle"
  /\ appPc' = "polling"
  /\ pollAt' = clock
  /\ sincePoll' = 0
  /\ UNCHANGED <<slots, bleVars, removing, appSub, clock, leaseAge, age>>

ReapExpired ==
  /\ appPc = "polling"
  /\ slots' = Reap(slots, pollAt)
  /\ removing' = Expired(slots, pollAt)
  /\ appPc' = IF Expired(slots, pollAt) = {} THEN "idle" ELSE "notify"
  /\ pollAt' = 0
  /\ age' = [i \in SlotIds |-> IF i \in Expired(slots, pollAt) THEN 0 ELSE age[i]]
  /\ UNCHANGED <<bleVars, appSub, clock, sincePoll, leaseAge>>

\* Removals are told in id order, each to every subscriber in turn.
NotifyRemoved ==
  /\ appPc = "notify"
  /\ IF appSub < NumSubscribers
     THEN /\ appSub' = appSub + 1
          /\ UNCHANGED <<appPc, removing>>
     ELSE /\ appSub' = 1
          /\ removing' = removing \ {Min(removing)}
          /\ appPc' = IF removing \ {Min(removing)} = {} THEN "idle" ELSE "notify"
  /\ UNCHANGED <<slots, bleVars, pollAt, timeVars>>

-----------------------------------------------------------------------------
Older(a) == IF a < LeaseMs THEN a + 1 ELSE LeaseMs

\* A millisecond passes.  The application task is not starved: PollGap bounds
\* the time until its next turn.
Tick ==
  /\ sincePoll < PollGap
  /\ clock' = IF clock = ClockMod - 1 THEN 0 ELSE clock + 1
  /\ sincePoll' = sincePoll + 1
  /\ leaseAge' = IF blePc = "leasing" THEN Older(leaseAge) ELSE 0
  /\ age' = [i \in SlotIds |-> IF i \in Leased THEN Older(age[i]) ELSE 0]
  /\ UNCHANGED <<slots, bleVars, appVars>>

Write ==
  \/ \E key \in Keys, name \in Names : WriteRegister(key, name)
  \/ \E id \in SlotIds, state \in States : WriteSetState(id, state)
  \/ \E id \in SlotIds, text \in Texts : WriteSetText(id, text)
  \/ \E id \in SlotIds : WriteUnregister(id)

Next ==
  \/ HandleConnected
  \/ HandleDisconnected
  \/ StartLeases
  \/ Write
  \/ BleNotify
  \/ ReadPollClock
  \/ ReapExpired
  \/ NotifyRemoved
  \/ Tick

Spec == Init /\ [][Next]_vars

\* Both tasks are scheduled and time passes; clients are free to do nothing.
Fairness ==
  /\ WF_vars(StartLeases \/ BleNotify)
  /\ WF_vars(ReadPollClock \/ ReapExpired \/ NotifyRemoved)
  /\ WF_vars(Tick)

FairSpec == Spec /\ Fairness

-----------------------------------------------------------------------------
(* Properties. *)

TypeOK ==
  /\ slots \in Table
  /\ connected \in BOOLEAN
  /\ blePc \in {"idle", "leasing", "notify"}
  /\ leaseAt \in Clock
  /\ bleNote \in Note
  /\ bleSub \in Subscribers
  /\ appPc \in {"idle", "polling", "notify"}
  /\ pollAt \in Clock
  /\ removing \in SUBSET SlotIds
  /\ appSub \in Subscribers
  /\ clock \in Clock
  /\ sincePoll \in 0..PollGap
  /\ leaseAge \in 0..LeaseMs
  /\ age \in [SlotIds -> 0..LeaseMs]

\* Two slots never hold the same session key, whatever the order in which
\* registrations, disconnections and polls arrive.
OneSlotPerKey == KeysUnique(slots)

\* A slot that was reaped or unregistered carries nothing over to its next owner.
NothingLeftBehind == FreeSlotsAreClean(slots)

\* The BLE task tells its subscribers about a slot after it released the lock,
\* yet no poll in between can have made the news false: a slot announced as
\* registered or changed is still active, with the announced state, and one
\* announced as removed is still free.
NewsIsCurrent ==
  /\ bleNote.kind \in {"registered", "state", "text"} => IsActive(slots, bleNote.id)
  /\ bleNote.kind = "state" => slots[bleNote.id].state = bleNote.state
  /\ bleNote.kind = "removed" => ~slots[bleNote.id].used

\* "BLE disconnect: every active slot enters a 30 second lease": a poll takes
\* a slot away only when its lease has run for LeaseMs.
LeaseHonoured ==
  [][\A i \in SlotIds :
       (ReapExpired /\ i \in Expired(slots, pollAt)) => age[i] >= LeaseMs]_vars

\* A poll cuts a lease short only if its millis() was read before the lease's.
LeaseCutOnlyByStalePoll ==
  [][\A i \in SlotIds :
       (ReapExpired /\ i \in Expired(slots, pollAt))
         => (age[i] >= LeaseMs \/ age[i] < sincePoll)]_vars

\* A suspended agent is not kept for ever, whether or not the counter wraps
\* and however often the link comes and goes: its slot is reclaimed or freed.
LeaseEnds ==
  \A i \in SlotIds : (i \in Leased) ~> (i \notin Leased)

\* The registry implements the slot roster.
OwnerOf == [i \in SlotIds |-> IF slots[i].used THEN slots[i].key ELSE NoKey]
LiveIds == {i \in SlotIds : slots[i].used /\ slots[i].active}

Roster == INSTANCE SlotRoster WITH owner <- OwnerOf, live <- LiveIds
RosterSpec == Roster!Spec
=============================================================================
