---------------------------- MODULE Outputs_proofs ----------------------------
(***************************************************************************)
(* The two outputs of the agent panel.  No update of the LCD is lost, for  *)
(* every number of slots and of callers and whatever the rows show; and no *)
(* LED keeps a colour that is out of date, for every number of LEDs and    *)
(* every set of agent states, whatever fails and whenever events come.     *)
(***************************************************************************)
EXTENDS MCOutputs, WellFoundedInduction, TLAPS

-----------------------------------------------------------------------------
(* The LCD display service. *)

\* A caller that has set a bit and is about to notify is telling that slot.
MarkedIsTelling == \A c \in Callers : marked[c] => telling[c] # {}

\* The task holds a batch exactly while it has rows to draw.
BatchWhileDrawing == dispPc \in {"drain", "snapshot", "draw"} <=> batch # {}

\* The inductive invariant.
DInv ==
  /\ TypeOK
  /\ MarkedIsTelling
  /\ BatchWhileDrawing
  /\ StaleRowsAreScheduled
  /\ StaleSnapshotIsScheduled
  /\ NoLostWakeUp

-----------------------------------------------------------------------------
\* The first slot of a mask is one of its slots.
LEMMA FirstIsSlot ==
  ASSUME NEW S \in SUBSET SlotIds, S # {}
  PROVE  Min(S) \in S /\ Min(S) \in SlotIds
<1>1. S \in SUBSET Nat
  BY DisplayAssumption DEF SlotIds
<1> DEFINE Less == OpToRel(<, Nat)
<1>2. IsWellFoundedOn(Less, Nat)
  BY NatLessThanWellFounded
<1>3. \A i, j \in S : <<j, i>> \in Less <=> j < i
  BY <1>1 DEF OpToRel
<1> HIDE DEF Less
<1>4. PICK i \in S : \A j \in S : ~(<<j, i>> \in Less)
  BY <1>1, <1>2, WFMin
<1>5. \A j \in S : ~(j < i)
  BY <1>3, <1>4
<1>6. \A j \in S : i <= j
  BY <1>1, <1>5
<1>7. QED BY <1>1, <1>6 DEF Min, SlotIds

LEMMA DisplayInitInv == Init => DInv
<1> SUFFICES ASSUME Init PROVE DInv
  OBVIOUS
<1>1. TypeOK
  BY DisplayAssumption DEF Init, InitTask, TypeOK, DispPcs
<1>2. QED
  BY <1>1
  DEF Init, InitTask, DInv, MarkedIsTelling, BatchWhileDrawing, StaleRowsAreScheduled,
      StaleSnapshotIsScheduled, NoLostWakeUp

-----------------------------------------------------------------------------
(* The callers. *)

LEMMA ChangeInv ==
  ASSUME DInv, NEW c \in Callers, NEW S \in (SUBSET SlotIds) \ {{}}, NEW new \in Rows,
         Change(c, S, new)
  PROVE  DInv'
<1> USE DEF DInv
<1>1. TypeOK'
  BY DEF TypeOK, Change, taskVars
<1>2. ~marked[c] /\ telling'[c] = S /\ \A d \in Callers \ {c} : telling'[d] = telling[d]
  BY DEF TypeOK, Change, MarkedIsTelling
<1>3. marked' = marked /\ dirty' = dirty /\ dispPc' = dispPc /\ batch' = batch
      /\ snap' = snap /\ shown' = shown /\ given' = given
  BY DEF Change, taskVars
<1>4. \A i \in SlotIds : i \notin S => rows'[i] = rows[i]
  BY DEF Change
<1>5. \A i \in SlotIds : i \in S => Scheduled(i)'
  BY <1>2, <1>3 DEF Scheduled
<1>6. \A i \in SlotIds : Scheduled(i) => Scheduled(i)'
  BY <1>2, <1>3 DEF Scheduled, Change
<1>7. StaleRowsAreScheduled'
  BY <1>3, <1>4, <1>5, <1>6 DEF StaleRowsAreScheduled
<1>8. StaleSnapshotIsScheduled'
  <2> SUFFICES ASSUME dispPc = "draw", snap # rows'[Min(batch)]
               PROVE  Scheduled(Min(batch))'
    BY <1>3 DEF StaleSnapshotIsScheduled
  <2>1. Min(batch) \in SlotIds
    BY FirstIsSlot DEF BatchWhileDrawing, TypeOK
  <2>2. QED
    BY <1>3, <1>4, <1>5, <1>6, <2>1 DEF StaleSnapshotIsScheduled
<1>9. MarkedIsTelling' /\ BatchWhileDrawing' /\ NoLostWakeUp'
  BY <1>2, <1>3 DEF MarkedIsTelling, BatchWhileDrawing, NoLostWakeUp
<1>10. QED BY <1>1, <1>7, <1>8, <1>9

LEMMA MarkDirtyInv ==
  ASSUME DInv, NEW c \in Callers, MarkDirty(c)
  PROVE  DInv'
<1> DEFINE id == Min(telling[c])
<1> USE DEF DInv
<1>1. id \in telling[c] /\ id \in SlotIds
  BY FirstIsSlot DEF TypeOK, MarkDirty
<1>2. /\ rows' = rows /\ telling' = telling /\ given' = given /\ dispPc' = dispPc
      /\ batch' = batch /\ snap' = snap /\ shown' = shown
      /\ dirty' = dirty \union {id}
      /\ marked'[c] /\ \A d \in Callers \ {c} : marked'[d] = marked[d]
      /\ telling[c] # {}
  BY DEF MarkDirty, taskVars, TypeOK
<1>3. TypeOK'
  BY <1>1 DEF TypeOK, MarkDirty, taskVars
<1> HIDE DEF id
<1>4. \A i \in SlotIds : Scheduled(i) => Scheduled(i)'
  <2> SUFFICES ASSUME NEW i \in SlotIds, Scheduled(i), i # id
               PROVE  Scheduled(i)'
    BY <1>2 DEF Scheduled
  <2>1. CASE i \in dirty BY <2>1, <1>2 DEF Scheduled
  <2>2. CASE \E d \in Callers : i \in telling[d] /\ ~(marked[d] /\ i = Min(telling[d]))
    <3>1. PICK d \in Callers : i \in telling[d] /\ ~(marked[d] /\ i = Min(telling[d]))
      BY <2>2
    <3>2. CASE d = c
      BY <3>1, <3>2, <1>2 DEF Scheduled, id
    <3>3. CASE d # c
      BY <3>1, <3>3, <1>2 DEF Scheduled
    <3>4. QED BY <3>2, <3>3
  <2>3. QED BY <2>1, <2>2 DEF Scheduled
<1>5. StaleRowsAreScheduled'
  BY <1>2, <1>4 DEF StaleRowsAreScheduled
<1>6. StaleSnapshotIsScheduled'
  <2>1. dispPc = "draw" => Min(batch) \in SlotIds
    BY FirstIsSlot DEF BatchWhileDrawing, TypeOK
  <2>2. QED BY <1>2, <1>4, <2>1 DEF StaleSnapshotIsScheduled
<1>7. MarkedIsTelling' /\ BatchWhileDrawing' /\ NoLostWakeUp'
  BY <1>2 DEF MarkedIsTelling, BatchWhileDrawing, NoLostWakeUp
<1>8. QED BY <1>3, <1>5, <1>6, <1>7

LEMMA NotifyGiveInv ==
  ASSUME DInv, NEW c \in Callers, NotifyGive(c)
  PROVE  DInv'
<1> DEFINE id == Min(telling[c])
<1> USE DEF DInv
<1>1. /\ rows' = rows /\ given' /\ dispPc' = dispPc /\ dirty' = dirty
      /\ batch' = batch /\ snap' = snap /\ shown' = shown
      /\ marked[c] /\ ~marked'[c] /\ \A d \in Callers \ {c} : marked'[d] = marked[d]
      /\ telling'[c] = telling[c] \ {id}
      /\ \A d \in Callers \ {c} : telling'[d] = telling[d]
  BY DEF NotifyGive, Give, taskVars, TypeOK
<1>2. TypeOK'
  BY DEF TypeOK, NotifyGive, Give, taskVars
<1> HIDE DEF id
<1>3. \A i \in SlotIds : Scheduled(i) => Scheduled(i)'
  <2> SUFFICES ASSUME NEW i \in SlotIds, Scheduled(i), i \notin dirty
               PROVE  Scheduled(i)'
    BY <1>1 DEF Scheduled
  <2>1. PICK d \in Callers : i \in telling[d] /\ ~(marked[d] /\ i = Min(telling[d]))
    BY DEF Scheduled
  <2>2. CASE d = c
    BY <2>1, <2>2, <1>1 DEF Scheduled, id
  <2>3. CASE d # c
    BY <2>1, <2>3, <1>1 DEF Scheduled
  <2>4. QED BY <2>2, <2>3
<1>4. StaleRowsAreScheduled'
  BY <1>1, <1>3 DEF StaleRowsAreScheduled
<1>5. StaleSnapshotIsScheduled'
  <2>1. dispPc = "draw" => Min(batch) \in SlotIds
    BY FirstIsSlot DEF BatchWhileDrawing, TypeOK
  <2>2. QED BY <1>1, <1>3, <2>1 DEF StaleSnapshotIsScheduled
<1>6. MarkedIsTelling' /\ BatchWhileDrawing' /\ NoLostWakeUp'
  BY <1>1 DEF MarkedIsTelling, BatchWhileDrawing, NoLostWakeUp
<1>7. QED BY <1>2, <1>4, <1>5, <1>6

-----------------------------------------------------------------------------
(* The display task. *)

\* While the callers stand still a slot stays scheduled as long as its bit does.
LEMMA ScheduledKept ==
  ASSUME NEW i \in SlotIds, Scheduled(i), i \in dirty => i \in dirty',
         UNCHANGED <<telling, marked>>
  PROVE  Scheduled(i)'
BY DEF Scheduled

LEMMA TakeDirtyMaskInv == ASSUME DInv, TakeDirtyMask PROVE DInv'
<1> USE DEF DInv
<1>1. TypeOK'
  BY DEF TypeOK, TakeDirtyMask, callerVars, DispPcs
<1>2. batch = {} /\ BatchWhileDrawing'
  BY DEF TakeDirtyMask, BatchWhileDrawing
<1>3. StaleRowsAreScheduled'
  BY <1>2 DEF StaleRowsAreScheduled, Scheduled, TakeDirtyMask, callerVars
<1>4. MarkedIsTelling' /\ StaleSnapshotIsScheduled' /\ NoLostWakeUp'
  BY DEF MarkedIsTelling, StaleSnapshotIsScheduled, NoLostWakeUp, TakeDirtyMask, callerVars
<1>5. QED BY <1>1, <1>2, <1>3, <1>4

LEMMA DrainNotificationInv == ASSUME DInv, DrainNotification PROVE DInv'
BY DEF DInv, DrainNotification, callerVars, TypeOK, DispPcs, MarkedIsTelling,
       BatchWhileDrawing, StaleRowsAreScheduled, StaleSnapshotIsScheduled, NoLostWakeUp,
       Scheduled

LEMMA WakeUpInv == ASSUME DInv, WakeUp PROVE DInv'
BY DEF DInv, WakeUp, callerVars, TypeOK, DispPcs, MarkedIsTelling,
       BatchWhileDrawing, StaleRowsAreScheduled, StaleSnapshotIsScheduled, NoLostWakeUp,
       Scheduled

LEMMA ReadSlotInv == ASSUME DInv, ReadSlot PROVE DInv'
<1> USE DEF DInv
<1>1. Min(batch) \in SlotIds
  BY FirstIsSlot DEF ReadSlot, BatchWhileDrawing, TypeOK
<1>2. TypeOK'
  BY <1>1 DEF TypeOK, ReadSlot, callerVars, DispPcs
<1>3. QED
  BY <1>2 DEF ReadSlot, callerVars, MarkedIsTelling, BatchWhileDrawing,
              StaleRowsAreScheduled, StaleSnapshotIsScheduled, NoLostWakeUp, Scheduled

LEMMA DrawRowInv == ASSUME DInv, DrawRow PROVE DInv'
<1> DEFINE id == Min(batch)
<1> USE DEF DInv
<1>1. id \in batch /\ id \in SlotIds
  BY FirstIsSlot DEF DrawRow, BatchWhileDrawing, TypeOK
<1>2. TypeOK'
  BY DEF TypeOK, DrawRow, callerVars, DispPcs
<1>3. /\ shown'[id] = snap /\ \A i \in SlotIds \ {id} : shown'[i] = shown[i]
      /\ batch' = batch \ {id} /\ rows' = rows /\ dirty' = dirty
      /\ telling' = telling /\ marked' = marked
  BY <1>1 DEF TypeOK, DrawRow, callerVars
<1>4. snap # rows[id] => Scheduled(id)
  BY DEF DrawRow, StaleSnapshotIsScheduled
<1> HIDE DEF id
<1>5. \A i \in SlotIds : Scheduled(i)' <=> Scheduled(i)
  BY <1>3 DEF Scheduled
<1>6. StaleRowsAreScheduled'
  BY <1>1, <1>3, <1>4, <1>5 DEF StaleRowsAreScheduled
<1>7. MarkedIsTelling' /\ BatchWhileDrawing' /\ StaleSnapshotIsScheduled' /\ NoLostWakeUp'
  BY DEF DrawRow, callerVars, MarkedIsTelling, BatchWhileDrawing,
         StaleSnapshotIsScheduled, NoLostWakeUp
<1>8. QED BY <1>2, <1>6, <1>7

LEMMA DrawFailsInv == ASSUME DInv, DrawFails PROVE DInv'
<1> DEFINE id == Min(batch)
<1> USE DEF DInv
<1>1. id \in batch /\ id \in SlotIds
  BY FirstIsSlot DEF DrawFails, BatchWhileDrawing, TypeOK
<1>2. TypeOK'
  BY DEF TypeOK, DrawFails, callerVars, DispPcs
<1>3. /\ \A i \in SlotIds \ {id} : shown'[i] = shown[i]
      /\ dirty' = dirty \union batch /\ rows' = rows
      /\ telling' = telling /\ marked' = marked
  BY <1>1 DEF TypeOK, DrawFails, callerVars
<1> HIDE DEF id
<1>4. StaleRowsAreScheduled'
  BY <1>1, <1>3 DEF StaleRowsAreScheduled, Scheduled
<1>5. MarkedIsTelling' /\ BatchWhileDrawing' /\ StaleSnapshotIsScheduled' /\ NoLostWakeUp'
  BY DEF DrawFails, callerVars, MarkedIsTelling, BatchWhileDrawing,
         StaleSnapshotIsScheduled, NoLostWakeUp
<1>6. QED BY <1>2, <1>4, <1>5

LEMMA RememberErrorInv == ASSUME DInv, RememberError PROVE DInv'
BY DEF DInv, RememberError, callerVars, TypeOK, DispPcs, MarkedIsTelling,
       BatchWhileDrawing, StaleRowsAreScheduled, StaleSnapshotIsScheduled, NoLostWakeUp,
       Scheduled

LEMMA TakeLastErrorInv == ASSUME DInv, TakeLastError PROVE DInv'
BY DEF DInv, TakeLastError, callerVars, TypeOK, MarkedIsTelling,
       BatchWhileDrawing, StaleRowsAreScheduled, StaleSnapshotIsScheduled, NoLostWakeUp,
       Scheduled

-----------------------------------------------------------------------------
LEMMA DisplayNextInv == DInv /\ [Next]_vars => DInv'
<1> SUFFICES ASSUME DInv, [Next]_vars PROVE DInv'
  OBVIOUS
<1>1. CASE \E c \in Callers, S \in (SUBSET SlotIds) \ {{}}, new \in Rows : Change(c, S, new)
  BY <1>1, ChangeInv
<1>2. CASE \E c \in Callers : Tell(c)
  BY <1>2, MarkDirtyInv, NotifyGiveInv DEF Tell
<1>3. CASE Task
  BY <1>3, TakeDirtyMaskInv, DrainNotificationInv, WakeUpInv, ReadSlotInv, DrawRowInv,
     DrawFailsInv, RememberErrorInv DEF Task
<1>4. CASE TakeLastError
  BY <1>4, TakeLastErrorInv
<1>5. CASE UNCHANGED vars
  BY <1>5 DEF DInv, vars, callerVars, taskVars, TypeOK, MarkedIsTelling, BatchWhileDrawing,
              StaleRowsAreScheduled, StaleSnapshotIsScheduled, NoLostWakeUp, Scheduled
<1>6. QED BY <1>1, <1>2, <1>3, <1>4, <1>5 DEF Next

LEMMA DisplayInvariance == Spec => []DInv
BY DisplayInitInv, DisplayNextInv, PTL DEF Spec

\* The dirty mask and the batch never hold a bit that is not a slot's, and the
\* task is always at one of its steps.
THEOREM DisplayTypeCorrect == Spec => []TypeOK
BY DisplayInvariance, PTL DEF DInv

\* Between the registry's lock, the dirty mask, the batch and the LCD no update
\* of a row is lost.
THEOREM NoRowIsForgotten == Spec => []StaleRowsAreScheduled
BY DisplayInvariance, PTL DEF DInv

\* A row drawn from an outdated copy of its slot is drawn once more.
THEOREM NoSnapshotIsForgotten == Spec => []StaleSnapshotIsScheduled
BY DisplayInvariance, PTL DEF DInv

\* The display task never waits without timeout while a row is dirty and no
\* notification is coming.
THEOREM NoWakeUpIsLost == Spec => []NoLostWakeUp
BY DisplayInvariance, PTL DEF DInv

-----------------------------------------------------------------------------
(* The LED service. *)

\* Only LEDs in a frame that is being flushed have a colour there.
FrameWhileFlushing == ledPc # "flush" => frame = NoFrame

\* The inductive invariant.
LedInv ==
  /\ LedTypeOK
  /\ FrameWhileFlushing
  /\ StalePixelsAreScheduled
  /\ StaleFrameIsScheduled

-----------------------------------------------------------------------------
\* Every colour the service computes is one the LEDs can show, and none is the
\* mark of an LED that is not in the frame.
LEMMA ColorType ==
  ASSUME LedTypeOK, NEW i \in LedIds, NEW blink \in BOOLEAN
  PROVE  Color(i, blink) \in Colors /\ Color(i, blink) # NoColor
<1>1. states[i] \in States
  BY DEF LedTypeOK
<1>2. ColorFor(states[i]) \in Colors /\ ColorFor(states[i]) # NoColor
  BY <1>1 DEF Colors, ColorFor, Black, NoColor
<1>3. Red # NoColor /\ Black # NoColor /\ White # NoColor
  BY DEF Red, Black, White, NoColor
<1>4. {Red, Black, White} \subseteq Colors
  BY DEF Colors
<1>5. QED
  BY <1>2, <1>3, <1>4 DEF Color

\* A steady LED has the same colour in both phases of the blinking.
LEMMA SteadyColor ==
  ASSUME NEW i \in LedIds, Steady(i), NEW blink, NEW other
  PROVE  Color(i, blink) = Color(i, other)
BY DEF Steady, Color

LEMMA LedInitInv == InitLeds => LedInv
<1> SUFFICES ASSUME InitLeds PROVE LedInv
  OBVIOUS
<1>1. LedTypeOK
  <2>1. states \in [LedIds -> States] /\ frame \in [LedIds -> Colors \union {NoColor}]
        /\ lit \in [LedIds -> Colors]
    BY LedAssumption DEF InitLeds, Colors, NoFrame
  <2>2. ledConnected \in BOOLEAN /\ blinkOn \in BOOLEAN /\ ledError \in BOOLEAN
    BY DEF InitLeds
  <2>3. QED BY <2>1, <2>2 DEF InitLeds, LedTypeOK
<1>2. QED
  BY <1>1 DEF InitLeds, LedInv, FrameWhileFlushing, StalePixelsAreScheduled, StaleFrameIsScheduled

-----------------------------------------------------------------------------
(* Being told. *)

\* What is told of one LED leaves the colour of the others.
LEMMA ToldOne ==
  ASSUME LedInv, NEW id \in LedIds,
         LedTypeOK',
         dirtyMask' = dirtyMask \union {id},
         UNCHANGED <<ledConnected, blinkOn, ledPc, frame, lit, ledError>>,
         \A i \in LedIds \ {id} :
           /\ states'[i] = states[i]
           /\ (i \in activeMask') = (i \in activeMask)
           /\ (i \in registeringMask') = (i \in registeringMask)
  PROVE  LedInv'
<1>1. \A i \in LedIds \ {id} : Wanted(i)' = Wanted(i) /\ Steady(i)' = Steady(i)
  BY DEF Wanted, Steady, Color
<1>2. QED
  BY <1>1 DEF LedInv, FrameWhileFlushing, StalePixelsAreScheduled, StaleFrameIsScheduled, NoFrame

LEMMA HandleRegisteredInv ==
  ASSUME LedInv, NEW id \in LedIds, HandleRegistered(id)
  PROVE  LedInv'
<1>1. LedTypeOK'
  BY LedAssumption DEF LedInv, LedTypeOK, HandleRegistered
<1>2. QED
  BY <1>1, ToldOne DEF LedInv, LedTypeOK, HandleRegistered

LEMMA HandleStateInv ==
  ASSUME LedInv, NEW id \in LedIds, NEW state \in States, HandleState(id, state)
  PROVE  LedInv'
<1>1. LedTypeOK'
  BY DEF LedInv, LedTypeOK, HandleState
<1>2. QED
  BY <1>1, ToldOne DEF LedInv, LedTypeOK, HandleState

LEMMA HandleRemovedInv ==
  ASSUME LedInv, NEW id \in LedIds, HandleRemoved(id)
  PROVE  LedInv'
<1>1. LedTypeOK'
  BY LedAssumption DEF LedInv, LedTypeOK, HandleRemoved
<1>2. QED
  BY <1>1, ToldOne DEF LedInv, LedTypeOK, HandleRemoved

\* A change of the connection dirties every LED.
LEMMA SetConnectedInv ==
  ASSUME LedInv, NEW connected \in BOOLEAN, SetConnected(connected)
  PROVE  LedInv'
<1>1. LedTypeOK'
  BY DEF LedInv, LedTypeOK, SetConnected
<1>2. QED
  BY <1>1
  DEF LedInv, SetConnected, FrameWhileFlushing, StalePixelsAreScheduled, StaleFrameIsScheduled, NoFrame

LEMMA TakeLedErrorInv == ASSUME LedInv, TakeLedError PROVE LedInv'
<1>1. LedTypeOK'
  BY DEF LedInv, LedTypeOK, TakeLedError, toldVars
<1>2. QED
  BY <1>1
  DEF LedInv, TakeLedError, toldVars, FrameWhileFlushing, StalePixelsAreScheduled, StaleFrameIsScheduled,
      Wanted, Steady, Color, NoFrame

-----------------------------------------------------------------------------
(* The LED task. *)

LEMMA SnapshotInv == ASSUME LedInv, Snapshot PROVE LedInv'
<1>1. PICK todo \in SUBSET LedIds :
        /\ dirtyMask \subseteq todo
        /\ blinkOn' \in BOOLEAN
        /\ frame' = [i \in LedIds |-> IF i \in todo THEN Color(i, blinkOn') ELSE NoColor]
        /\ ledPc' = IF todo = {} THEN "wait" ELSE "flush"
  BY DEF Snapshot, LedInv, LedTypeOK
<1>2. /\ UNCHANGED <<states, activeMask, registeringMask, ledConnected, lit, ledError>>
      /\ dirtyMask' = {} /\ ledPc = "update"
  BY DEF Snapshot, toldVars
<1>3. \A i \in LedIds : Color(i, blinkOn') \in Colors /\ Color(i, blinkOn') # NoColor
  BY <1>1, ColorType DEF LedInv
<1>4. \A i \in LedIds : Steady(i)' = Steady(i) /\ Wanted(i)' = Color(i, blinkOn')
  BY <1>2 DEF Steady, Wanted, Color
<1>5. LedTypeOK'
  <2>1. frame' \in [LedIds -> Colors \union {NoColor}]
    BY <1>1, <1>3
  <2>2. ledPc' \in {"update", "flush", "remember", "wait"}
    BY <1>1
  <2>3. QED
    BY <1>1, <1>2, <2>1, <2>2 DEF LedInv, LedTypeOK
<1>6. FrameWhileFlushing'
  BY <1>1 DEF FrameWhileFlushing, NoFrame
<1>7. StaleFrameIsScheduled'
  BY <1>1, <1>4 DEF StaleFrameIsScheduled
<1>8. StalePixelsAreScheduled'
  <2> SUFFICES ASSUME NEW i \in LedIds, Steady(i)', lit'[i] # Wanted(i)'
               PROVE  ledPc' = "flush" /\ frame'[i] = Wanted(i)'
    BY DEF StalePixelsAreScheduled
  <2>1. Steady(i) /\ Wanted(i) = Wanted(i)'
    BY <1>4, SteadyColor DEF Wanted
  <2>2. i \in dirtyMask
    BY <1>2, <2>1 DEF LedInv, StalePixelsAreScheduled
  <2>3. QED BY <1>1, <1>4, <2>2
<1>9. QED BY <1>5, <1>6, <1>7, <1>8 DEF LedInv

LEMMA FlushedType == ASSUME LedTypeOK PROVE Flushed \in [LedIds -> Colors]
BY DEF LedTypeOK, Flushed

LEMMA FlushInv == ASSUME LedInv, Flush PROVE LedInv'
<1>1. \A i \in LedIds : Steady(i)' = Steady(i) /\ Wanted(i)' = Wanted(i)
  BY DEF Flush, toldVars, Steady, Wanted, Color
<1>2. LedTypeOK'
  <2>1. NoFrame \in [LedIds -> Colors \union {NoColor}]
    BY DEF NoFrame
  <2>2. QED BY <2>1, FlushedType DEF LedInv, LedTypeOK, Flush, toldVars
<1>3. FrameWhileFlushing' /\ StaleFrameIsScheduled'
  BY DEF Flush, FrameWhileFlushing, StaleFrameIsScheduled
<1>4. StalePixelsAreScheduled'
  <2> SUFFICES ASSUME NEW i \in LedIds, Steady(i), lit'[i] # Wanted(i)
               PROVE  i \in dirtyMask'
    BY <1>1 DEF StalePixelsAreScheduled
  <2>1. CASE frame[i] # NoColor
    BY <2>1 DEF Flush, Flushed, LedInv, StaleFrameIsScheduled
  <2>2. CASE frame[i] = NoColor
    <3>1. lit'[i] = lit[i]
      BY <2>2 DEF Flush, Flushed
    <3>2. Wanted(i) # NoColor
      BY ColorType DEF LedInv, LedTypeOK, Wanted
    <3>3. QED
      BY <2>2, <3>1, <3>2 DEF LedInv, Flush, StalePixelsAreScheduled
  <2>3. QED BY <2>1, <2>2
<1>5. QED BY <1>2, <1>3, <1>4 DEF LedInv

LEMMA FlushFailsInv == ASSUME LedInv, FlushFails PROVE LedInv'
<1>1. \A i \in LedIds : Steady(i)' = Steady(i) /\ Wanted(i)' = Wanted(i)
  BY DEF FlushFails, toldVars, Steady, Wanted, Color
<1>2. LedTypeOK'
  <2>1. NoFrame \in [LedIds -> Colors \union {NoColor}]
    BY DEF NoFrame
  <2>2. lit' \in [LedIds -> Colors]
    BY FlushedType DEF FlushFails, LedInv, LedTypeOK
  <2>3. QED BY <2>1, <2>2 DEF LedInv, LedTypeOK, FlushFails, toldVars
<1>3. FrameWhileFlushing' /\ StaleFrameIsScheduled'
  BY DEF FlushFails, FrameWhileFlushing, StaleFrameIsScheduled
<1>4. StalePixelsAreScheduled'
  <2> SUFFICES ASSUME NEW i \in LedIds, Steady(i), lit'[i] # Wanted(i)
               PROVE  i \in dirtyMask'
    BY <1>1 DEF StalePixelsAreScheduled
  <2>1. CASE frame[i] # NoColor
    BY <2>1 DEF FlushFails
  <2>2. CASE frame[i] = NoColor
    <3>1. lit'[i] = lit[i]
      BY <2>2 DEF FlushFails, Flushed
    <3>2. Wanted(i) # NoColor
      BY ColorType DEF LedInv, LedTypeOK, Wanted
    <3>3. QED
      BY <2>2, <3>1, <3>2 DEF LedInv, FlushFails, StalePixelsAreScheduled
  <2>3. QED BY <2>1, <2>2
<1>5. QED BY <1>2, <1>3, <1>4 DEF LedInv

LEMMA RestInv == ASSUME LedInv, RememberLedError \/ Wait PROVE LedInv'
<1>1. UNCHANGED <<toldVars, dirtyMask, blinkOn, frame, lit>> /\ ledPc' = "update" /\ ledPc # "flush"
      /\ ledError' \in BOOLEAN
  BY DEF RememberLedError, Wait, LedInv, LedTypeOK
<1>2. \A i \in LedIds : Steady(i)' = Steady(i) /\ Wanted(i)' = Wanted(i)
  BY <1>1 DEF toldVars, Steady, Wanted, Color
<1>3. LedTypeOK'
  BY <1>1 DEF LedInv, LedTypeOK, toldVars
<1>4. QED
  BY <1>1, <1>2, <1>3
  DEF LedInv, FrameWhileFlushing, StalePixelsAreScheduled, StaleFrameIsScheduled, NoFrame

-----------------------------------------------------------------------------
LEMMA LedNextInv == LedInv /\ [LedNext]_ledVars => LedInv'
<1> SUFFICES ASSUME LedInv, [LedNext]_ledVars PROVE LedInv'
  OBVIOUS
<1>1. CASE Told
  BY <1>1, HandleRegisteredInv, HandleStateInv, HandleRemovedInv, SetConnectedInv DEF Told
<1>2. CASE TakeLedError
  BY <1>2, TakeLedErrorInv
<1>3. CASE LedTask
  BY <1>3, SnapshotInv, FlushInv, FlushFailsInv, RestInv DEF LedTask
<1>4. CASE UNCHANGED ledVars
  BY <1>4
  DEF ledVars, toldVars, LedInv, LedTypeOK, FrameWhileFlushing, StalePixelsAreScheduled,
      StaleFrameIsScheduled, Steady, Wanted, Color, NoFrame
<1>5. QED BY <1>1, <1>2, <1>3, <1>4 DEF LedNext

LEMMA LedInvariance == LedSpec => []LedInv
<1>1. InitLeds => LedInv
  BY LedInitInv
<1>2. LedInv /\ [LedNext]_ledVars => LedInv'
  BY LedNextInv
<1>3. QED BY <1>1, <1>2, PTL DEF LedSpec

\* No LED that does not blink keeps a colour that is out of date, unless it is
\* dirty or its right colour is being flushed.
THEOREM NoPixelIsForgotten == LedSpec => []StalePixelsAreScheduled
<1>1. LedInv => StalePixelsAreScheduled
  BY DEF LedInv
<1>2. QED BY <1>1, LedInvariance, PTL
-----------------------------------------------------------------------------
(* The two outputs side by side. *)

LEMMA OutputsInvariance == MCSpec => [](DInv /\ LedInv)
<1>1. MCInit => DInv /\ LedInv
  BY DisplayInitInv, LedInitInv DEF MCInit
<1>2. DInv /\ LedInv /\ [MCNext]_outputsVars => (DInv /\ LedInv)'
  <2>1. [MCNext]_outputsVars => [Next]_vars /\ [LedNext]_ledVars
    BY DEF MCNext, outputsVars
  <2>2. QED BY <2>1, DisplayNextInv, LedNextInv
<1>3. QED BY <1>1, <1>2, PTL DEF MCSpec

\* Neither output leaves its types: no mask of either holds a bit that is not a
\* slot's or an LED's, and each task is at one of its steps.
THEOREM OutputsKeepTypes == MCSpec => []OutputsTypeOK
<1>1. DInv /\ LedInv => OutputsTypeOK
  BY DEF DInv, LedInv, OutputsTypeOK
<1>2. QED BY <1>1, OutputsInvariance, PTL
=============================================================================
