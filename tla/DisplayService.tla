--------------------------- MODULE DisplayService ---------------------------
(***************************************************************************)
(* DisplayService: the task that draws one LCD row per registry slot.      *)
(*                                                                         *)
(* The callers are the tasks on which the registry runs its callbacks (the *)
(* BLE host task and the application task).  A caller first changes the    *)
(* registry, then, without the registry's lock, tells the display about    *)
(* each slot it changed: markDirty sets the slot's bit under m_stateLock   *)
(* and only then gives the task notification.  The display task takes the  *)
(* dirty mask, reads each dirty slot from the registry again, and draws.   *)
(***************************************************************************)
EXTENDS Integers, FiniteSetsExt

CONSTANTS
  AgentCount,  \* protocol::AgentCount
  Callers,     \* the tasks that run registry callbacks
  Rows,        \* what a slot can make its LCD row show
  EmptyRow,    \* the row of a free slot (renderEmpty)
  Garbled      \* a row whose drawing stopped half way

ASSUME DisplayAssumption ==
  /\ AgentCount \in 1..8       \* the dirty mask is a uint8_t
  /\ EmptyRow \in Rows
  /\ Garbled \notin Rows

VARIABLES
  rows,       \* what registry.agent(id) returns, as far as the row shows it
  telling,    \* per caller: slots it has changed and not finished telling
  marked,     \* per caller: markDirty has set the bit, the give is to come
  dirty,      \* m_dirtyMask
  given,      \* the display task's notification value (pdTRUE: 0 or not)
  dispPc,     \* where the display task is
  batch,      \* the dirtyMask of waitAndUpdate: rows still to draw
  snap,       \* the snapshot it is about to draw
  shown,      \* the rows on the LCD
  lastError   \* m_lastError is set

callerVars == <<rows, telling, marked>>
taskVars   == <<dispPc, batch, snap, shown, lastError>>
vars       == <<callerVars, dirty, given, taskVars>>

SlotIds == 0..(AgentCount - 1)
DispPcs == {"take", "drain", "wait", "retake", "snapshot", "draw", "remember"}

\* setup() has drawn every row empty and started the task.
InitTask ==
  /\ dirty = {} /\ given = FALSE
  /\ dispPc = "take" /\ batch = {} /\ snap = EmptyRow
  /\ shown = [i \in SlotIds |-> EmptyRow]
  /\ lastError = FALSE

Init ==
  /\ rows = [i \in SlotIds |-> EmptyRow]
  /\ telling = [c \in Callers |-> {}]
  /\ marked = [c \in Callers |-> FALSE]
  /\ InitTask

-----------------------------------------------------------------------------
(* The callers. *)

\* A critical section of the registry changes some slots.
Change(c, S, new) ==
  /\ telling[c] = {}
  /\ rows' = [i \in SlotIds |-> IF i \in S THEN new ELSE rows[i]]
  /\ telling' = [telling EXCEPT ![c] = S]
  /\ UNCHANGED <<marked, dirty, given, taskVars>>

\* Mutant: the bit of the next slot is set.
MarkNextDirty(c) ==
  /\ telling[c] # {} /\ ~marked[c]
  /\ dirty' = dirty \union {Min(telling[c]) + 1}
  /\ marked' = [marked EXCEPT ![c] = TRUE]
  /\ UNCHANGED <<rows, telling, given, taskVars>>

MarkDirty(c) ==
  /\ telling[c] # {} /\ ~marked[c]
  /\ dirty' = dirty \union {Min(telling[c])}
  /\ marked' = [marked EXCEPT ![c] = TRUE]
  /\ UNCHANGED <<rows, telling, given, taskVars>>

\* The display's half of it: xTaskNotifyGive.
Give(c) ==
  /\ marked[c]
  /\ given' = TRUE
  /\ marked' = [marked EXCEPT ![c] = FALSE]
  /\ UNCHANGED <<dirty, taskVars>>

\* With it the caller has told the display about this slot.
NotifyGive(c) ==
  /\ Give(c)
  /\ telling' = [telling EXCEPT ![c] = @ \ {Min(@)}]
  /\ UNCHANGED rows

-----------------------------------------------------------------------------
(* The display task: taskLoop around waitAndUpdate(portMAX_DELAY). *)

\* takeDirtyMask, before or after the wait; an empty mask first waits, and
\* after the wait starts over.
TakeDirtyMask ==
  /\ dispPc \in {"take", "retake"}
  /\ batch' = dirty
  /\ dirty' = {}
  /\ dispPc' = IF dispPc = "take"
               THEN IF dirty = {} THEN "wait" ELSE "drain"
               ELSE IF dirty = {} THEN "take" ELSE "snapshot"
  /\ UNCHANGED <<callerVars, given, snap, shown, lastError>>

\* ulTaskNotifyTake(pdTRUE, 0)
DrainNotification ==
  /\ dispPc = "drain"
  /\ given' = FALSE
  /\ dispPc' = "snapshot"
  /\ UNCHANGED <<callerVars, dirty, batch, snap, shown, lastError>>

\* ulTaskNotifyTake(pdTRUE, portMAX_DELAY) returns only when notified.
WakeUp ==
  /\ dispPc = "wait"
  /\ given
  /\ given' = FALSE
  /\ dispPc' = "retake"
  /\ UNCHANGED <<callerVars, dirty, batch, snap, shown, lastError>>

ReadSlot ==
  /\ dispPc = "snapshot"
  /\ snap' = rows[Min(batch)]
  /\ dispPc' = "draw"
  /\ UNCHANGED <<callerVars, dirty, given, batch, shown, lastError>>

\* Mutant: after a batch the task waits without looking at the mask again.
DrawRowThenWait ==
  /\ dispPc = "draw"
  /\ shown' = [shown EXCEPT ![Min(batch)] = snap]
  /\ batch' = batch \ {Min(batch)}
  /\ dispPc' = IF batch \ {Min(batch)} = {} THEN "wait" ELSE "snapshot"
  /\ UNCHANGED <<callerVars, dirty, given, snap, lastError>>

DrawRow ==
  /\ dispPc = "draw"
  /\ shown' = [shown EXCEPT ![Min(batch)] = snap]
  /\ batch' = batch \ {Min(batch)}
  /\ dispPc' = IF batch \ {Min(batch)} = {} THEN "take" ELSE "snapshot"
  /\ UNCHANGED <<callerVars, dirty, given, snap, lastError>>

\* Mutant: only the rows after the failed one are requeued.
DrawFailsAndSkips ==
  /\ dispPc = "draw"
  /\ shown' = [shown EXCEPT ![Min(batch)] = Garbled]
  /\ dirty' = dirty \union (batch \ {Min(batch)})
  /\ batch' = {}
  /\ dispPc' = "remember"
  /\ UNCHANGED <<callerVars, given, snap, lastError>>

\* The LCD fails inside renderSlot: this row and the rest go back into the mask.
DrawFails ==
  /\ dispPc = "draw"
  /\ shown' = [shown EXCEPT ![Min(batch)] = Garbled]
  /\ dirty' = dirty \union batch
  /\ batch' = {}
  /\ dispPc' = "remember"
  /\ UNCHANGED <<callerVars, given, snap, lastError>>

\* Mutant: a failed update waits for the next event instead of retrying.
RememberErrorAndWait ==
  /\ dispPc = "remember"
  /\ lastError' = TRUE
  /\ dispPc' = "wait"
  /\ UNCHANGED <<callerVars, dirty, given, batch, snap, shown>>

\* rememberError, then the retry delay.
RememberError ==
  /\ dispPc = "remember"
  /\ lastError' = TRUE
  /\ dispPc' = "take"
  /\ UNCHANGED <<callerVars, dirty, given, batch, snap, shown>>

\* The application task takes the error.
TakeLastError ==
  /\ lastError
  /\ lastError' = FALSE
  /\ UNCHANGED <<callerVars, dirty, given, dispPc, batch, snap, shown>>

Tell(c) == MarkDirty(c) \/ NotifyGive(c)

Task ==
  \/ TakeDirtyMask
  \/ DrainNotification
  \/ WakeUp
  \/ ReadSlot
  \/ DrawRow
  \/ DrawFails
  \/ RememberError

Next ==
  \/ \E c \in Callers, S \in (SUBSET SlotIds) \ {{}}, new \in Rows : Change(c, S, new)
  \/ \E c \in Callers : Tell(c)
  \/ Task
  \/ TakeLastError

Spec == Init /\ [][Next]_vars

-----------------------------------------------------------------------------
(* Properties. *)

TypeOK ==
  /\ rows \in [SlotIds -> Rows]
  /\ telling \in [Callers -> SUBSET SlotIds]
  /\ marked \in [Callers -> BOOLEAN]
  /\ dirty \in SUBSET SlotIds
  /\ given \in BOOLEAN
  /\ dispPc \in DispPcs
  /\ batch \in SUBSET SlotIds
  /\ snap \in Rows
  /\ shown \in [SlotIds -> Rows \union {Garbled}]
  /\ lastError \in BOOLEAN

\* A caller will still set the slot's bit, or the bit is set.
Scheduled(i) ==
  \/ i \in dirty
  \/ \E c \in Callers : i \in telling[c] /\ ~(marked[c] /\ i = Min(telling[c]))

\* No update is lost between the registry's lock, the dirty mask and the
\* drawing: a row that shows anything but its slot is going to be drawn again,
\* also when the slot changes while its old snapshot is being drawn and when
\* the LCD fails half way through a batch.
StaleRowsAreScheduled ==
  \A i \in SlotIds : shown[i] # rows[i] => (Scheduled(i) \/ i \in batch)

\* The snapshot in hand is current or its row is going to be drawn again.
StaleSnapshotIsScheduled ==
  (dispPc = "draw" /\ snap # rows[Min(batch)]) => Scheduled(Min(batch))

\* The display never sleeps over a dirty row: while it waits without timeout, a
\* notification is there or about to be given for every bit in the mask.
NoLostWakeUp ==
  (dispPc = "wait" /\ dirty # {}) => (given \/ \E c \in Callers : marked[c])

\* When registry events stop coming, the LCD ends up showing the registry, and
\* stays so, also when drawing has failed in between.
ScreenSettles ==
  []<><<telling' # telling>>_telling \/ <>[](shown = rows)
=============================================================================
