--------------------------- MODULE Ws2812Service ---------------------------
(***************************************************************************)
(* Ws2812Service: one LED per registry slot.  Unlike the display it keeps  *)
(* its own copy of what it was told (state, active and registering masks), *)
(* which registry callbacks and setConnected change under m_stateLock; its *)
(* task copies that state, computes the colours and flushes them.          *)
(***************************************************************************)
EXTENDS Integers

CONSTANTS
  LedCount,    \* min(m_config.ledCount, protocol::AgentCount)
  States,      \* protocol::AgentState
  OffState,    \* AgentState::Off
  Idle         \* AgentState::Idle

ASSUME LedAssumption ==
  /\ LedCount \in 1..8             \* the masks are uint8_t
  /\ {OffState, Idle} \subseteq States

VARIABLES
  states,           \* m_states
  activeMask,       \* m_activeMask
  registeringMask,  \* m_registeringMask
  dirtyMask,        \* m_dirtyMask
  ledConnected,     \* m_connected
  blinkOn,          \* m_blinkOn
  ledPc,            \* where the LED task is
  frame,            \* the colours update() has computed for its dirtyMask
  lit,              \* the colours the LEDs show
  ledError          \* m_lastError is set

toldVars == <<states, activeMask, registeringMask, ledConnected>>
ledVars  == <<toldVars, dirtyMask, blinkOn, ledPc, frame, lit, ledError>>

LedIds == 0..(LedCount - 1)

\* Colours: AgentVisualTheme maps Off to black and keeps the others apart.
Red      == <<"disconnected">>
Black    == <<"off">>
White    == <<"registered">>
NoColor  == <<"none">>
NoFrame  == [i \in LedIds |-> NoColor]
ColorFor(state) == IF state = OffState THEN Black ELSE <<"state", state>>
Colors   == {Red, Black, White} \union {ColorFor(s) : s \in States}

\* setup(): the driver is up, every slot dirty, the task started.
InitLeds ==
  /\ states = [i \in LedIds |-> OffState]
  /\ activeMask = {} /\ registeringMask = {}
  /\ dirtyMask = LedIds
  /\ ledConnected = FALSE
  /\ blinkOn = TRUE
  /\ ledPc = "update"
  /\ frame = NoFrame
  /\ lit = [i \in LedIds |-> Black]
  /\ ledError = FALSE

-----------------------------------------------------------------------------
(* Called from the BLE host task and the application task. *)

HandleRegistered(id) ==
  /\ id \in LedIds
  /\ states' = [states EXCEPT ![id] = Idle]
  /\ activeMask' = activeMask \union {id}
  /\ registeringMask' = registeringMask \union {id}
  /\ dirtyMask' = dirtyMask \union {id}
  /\ UNCHANGED <<ledConnected, blinkOn, ledPc, frame, lit, ledError>>

HandleState(id, state) ==
  /\ id \in LedIds
  /\ states' = [states EXCEPT ![id] = state]
  /\ registeringMask' = registeringMask \ {id}
  /\ dirtyMask' = dirtyMask \union {id}
  /\ UNCHANGED <<activeMask, ledConnected, blinkOn, ledPc, frame, lit, ledError>>

\* Mutant: the active bit survives the removal.
HandleRemovedStaysActive(id) ==
  /\ id \in LedIds
  /\ states' = [states EXCEPT ![id] = OffState]
  /\ registeringMask' = registeringMask \ {id}
  /\ dirtyMask' = dirtyMask \union {id}
  /\ UNCHANGED <<activeMask, ledConnected, blinkOn, ledPc, frame, lit, ledError>>

HandleRemoved(id) ==
  /\ id \in LedIds
  /\ states' = [states EXCEPT ![id] = OffState]
  /\ activeMask' = activeMask \ {id}
  /\ registeringMask' = registeringMask \ {id}
  /\ dirtyMask' = dirtyMask \union {id}
  /\ UNCHANGED <<ledConnected, blinkOn, ledPc, frame, lit, ledError>>

\* Mutant: only the LEDs of active agents are dirtied.
SetConnectedActiveOnly(connected) ==
  /\ connected # ledConnected
  /\ ledConnected' = connected
  /\ activeMask' = IF connected THEN activeMask ELSE {}
  /\ registeringMask' = IF connected THEN registeringMask ELSE {}
  /\ dirtyMask' = dirtyMask \union activeMask
  /\ UNCHANGED <<states, blinkOn, ledPc, frame, lit, ledError>>

SetConnected(connected) ==
  /\ connected # ledConnected
  /\ ledConnected' = connected
  /\ activeMask' = IF connected THEN activeMask ELSE {}
  /\ registeringMask' = IF connected THEN registeringMask ELSE {}
  /\ dirtyMask' = LedIds
  /\ UNCHANGED <<states, blinkOn, ledPc, frame, lit, ledError>>

TakeLedError ==
  /\ ledError
  /\ ledError' = FALSE
  /\ UNCHANGED <<toldVars, dirtyMask, blinkOn, ledPc, frame, lit>>

-----------------------------------------------------------------------------
(* The LED task: update() in a loop. *)

Color(id, blink) ==
  CASE ~ledConnected -> Red
    [] ledConnected /\ id \notin activeMask -> Black
    [] ledConnected /\ id \in activeMask /\ id \in registeringMask ->
         IF blink THEN White ELSE Black
    [] OTHER -> ColorFor(states[id])

\* Mutant: a flip of the blink phase dirties nothing.
SnapshotFlipsUnseen ==
  LET newRegistration == dirtyMask \intersect registeringMask # {} IN
  /\ ledPc = "update"
  /\ \E periodOver \in BOOLEAN :
       LET flip == ~newRegistration /\ registeringMask # {} /\ periodOver IN
       /\ blinkOn' = IF newRegistration THEN TRUE ELSE IF flip THEN ~blinkOn ELSE blinkOn
       /\ frame' = [i \in LedIds |-> IF i \in dirtyMask THEN Color(i, blinkOn') ELSE NoColor]
       /\ ledPc' = IF dirtyMask = {} THEN "wait" ELSE "flush"
  /\ dirtyMask' = {}
  /\ UNCHANGED <<toldVars, lit, ledError>>

\* The critical section of update().  Registering LEDs blink: a new one starts
\* with the light on; otherwise the phase flips when a blink period has passed.
Snapshot ==
  LET newRegistration == dirtyMask \intersect registeringMask # {} IN
  /\ ledPc = "update"
  /\ \E periodOver \in BOOLEAN :
       LET flip == ~newRegistration /\ registeringMask # {} /\ periodOver
           todo == IF flip THEN dirtyMask \union registeringMask ELSE dirtyMask IN
       /\ blinkOn' = IF newRegistration THEN TRUE ELSE IF flip THEN ~blinkOn ELSE blinkOn
       /\ frame' = [i \in LedIds |-> IF i \in todo THEN Color(i, blinkOn') ELSE NoColor]
       /\ ledPc' = IF todo = {} THEN "wait" ELSE "flush"
  /\ dirtyMask' = {}
  /\ UNCHANGED <<toldVars, lit, ledError>>

Flushed == [i \in LedIds |-> IF frame[i] = NoColor THEN lit[i] ELSE frame[i]]

\* Every setPixel and show() succeed.
Flush ==
  /\ ledPc = "flush"
  /\ lit' = Flushed
  /\ frame' = NoFrame
  /\ ledPc' = "wait"
  /\ UNCHANGED <<toldVars, dirtyMask, blinkOn, ledError>>

\* One of them fails, before or after the LEDs latched: the mask is requeued.
FlushFails ==
  /\ ledPc = "flush"
  /\ lit' \in {lit, Flushed}
  /\ dirtyMask' = dirtyMask \union {i \in LedIds : frame[i] # NoColor}
  /\ frame' = NoFrame
  /\ ledPc' = "remember"
  /\ UNCHANGED <<toldVars, blinkOn, ledError>>

\* The error is kept for the application task; after a delay the task retries.
RememberLedError ==
  /\ ledPc = "remember"
  /\ ledError' = TRUE
  /\ ledPc' = "update"
  /\ UNCHANGED <<toldVars, dirtyMask, blinkOn, frame, lit>>

\* ulTaskNotifyTake(pdTRUE, period) returns when notified or after a period.
Wait ==
  /\ ledPc = "wait"
  /\ ledPc' = "update"
  /\ UNCHANGED <<toldVars, dirtyMask, blinkOn, frame, lit, ledError>>

LedTask == Snapshot \/ Flush \/ FlushFails \/ RememberLedError \/ Wait

Told ==
  \/ \E id \in LedIds : HandleRegistered(id)
  \/ \E id \in LedIds, state \in States : HandleState(id, state)
  \/ \E id \in LedIds : HandleRemoved(id)
  \/ \E connected \in BOOLEAN : SetConnected(connected)

LedNext == Told \/ TakeLedError \/ LedTask
LedSpec == InitLeds /\ [][LedNext]_ledVars

\* The phase of the blinking LEDs changes.
Flip == Snapshot /\ blinkOn' # blinkOn

-----------------------------------------------------------------------------
(* Properties. *)

LedTypeOK ==
  /\ states \in [LedIds -> States]
  /\ activeMask \in SUBSET LedIds
  /\ registeringMask \in SUBSET LedIds
  /\ dirtyMask \in SUBSET LedIds
  /\ ledConnected \in BOOLEAN
  /\ blinkOn \in BOOLEAN
  /\ ledPc \in {"update", "flush", "remember", "wait"}
  /\ frame \in [LedIds -> Colors \union {NoColor}]
  /\ lit \in [LedIds -> Colors]
  /\ ledError \in BOOLEAN

\* An LED that does not blink has one colour to show.
Steady(id)  == ~(ledConnected /\ id \in activeMask /\ id \in registeringMask)
Wanted(id)  == Color(id, blinkOn)

\* A colour computed before the latest event is never left on a steady LED: a
\* wrong LED is dirty or its right colour is on the way.
StalePixelsAreScheduled ==
  \A i \in LedIds :
    (Steady(i) /\ lit[i] # Wanted(i))
      => (i \in dirtyMask \/ (ledPc = "flush" /\ frame[i] = Wanted(i)))

\* A frame in flight with an outdated colour will be followed by another.
StaleFrameIsScheduled ==
  \A i \in LedIds :
    (ledPc = "flush" /\ Steady(i) /\ frame[i] # NoColor /\ frame[i] # Wanted(i))
      => i \in dirtyMask

\* The LED of an agent that has registered and said nothing since keeps
\* blinking, whatever else the LEDs were told or failed to show before: unless
\* events or driver errors go on for ever, it stops registering or is lit and
\* dark again and again.
RegisteringBlinks ==
  \A i \in LedIds :
    \/ []<><<Told \/ FlushFails>>_ledVars
    \/ []<>(Steady(i))
    \/ ([]<>(lit[i] = White) /\ []<>(lit[i] = Black))
=============================================================================
