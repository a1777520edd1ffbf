-------------------------------- MODULE Button --------------------------------
(***************************************************************************)
(* Button: a debounced input, polled by the application task or, after     *)
(* setupInterrupt, looked at only when the interrupt of its pin has been   *)
(* seen.  It keeps its events in the ring of EventRing.                    *)
(*                                                                         *)
(* m_lastInterruptMs and m_lastStateChangeMs are only reported; the        *)
(* callback does not change the button.                                    *)
(***************************************************************************)
EXTENDS EventRing

CONSTANTS
  ActiveLevel,     \* m_activeLevel
  ButtonLevels,    \* HIGH and LOW
  ButtonDebounce,  \* m_debounceMs
  Pressed,         \* State::PRESSED and Event::PRESSED
  Released         \* State::RELEASED and Event::RELEASED

ASSUME ButtonAssumption ==
  /\ ActiveLevel \in ButtonLevels
  /\ Events = {Pressed, Released} /\ Pressed # Released
  /\ ButtonDebounce \in Nat

VARIABLES
  level,              \* the level of the pin
  lastRawLevel,       \* m_lastRawLevel
  sinceRawChange,     \* time since m_lastRawChangeMs, as far as it matters
  state,              \* m_state
  interruptEnabled,   \* m_interruptEnabled
  interruptPending,   \* m_interruptPending
  updatePc            \* where update() is

pinVars    == <<level, sinceRawChange>>
lineVars   == <<lastRawLevel, state>>
buttonVars == <<vars, pinVars, lineVars, interruptEnabled, interruptPending, updatePc>>

StateFromLevel(l) == IF l = ActiveLevel THEN Pressed ELSE Released

\* setup() or setupInterrupt(): the state is taken from the pin.
ButtonInit ==
  /\ Init
  /\ level \in ButtonLevels
  /\ lastRawLevel = level
  /\ sinceRawChange = 0
  /\ state = StateFromLevel(level)
  /\ interruptEnabled \in BOOLEAN
  /\ interruptPending = FALSE
  /\ updatePc = "idle"

-----------------------------------------------------------------------------
(* The pin, its interrupt and the clock. *)

\* The contact changes, or bounces: an interrupt on CHANGE runs interruptEntry.
Edge ==
  /\ \E l \in ButtonLevels \ {level} : level' = l
  /\ interruptPending' = (interruptPending \/ interruptEnabled)
  /\ UNCHANGED <<vars, sinceRawChange, lineVars, interruptEnabled, updatePc>>

Tick ==
  /\ sinceRawChange < ButtonDebounce
  /\ sinceRawChange' = sinceRawChange + 1
  /\ UNCHANGED <<vars, level, lineVars, interruptEnabled, interruptPending, updatePc>>

-----------------------------------------------------------------------------
(* update(), cut where the interrupt can come between. *)

\* The two tests of m_interruptPending; handleInterrupt clears the flag.
UpdateStarts ==
  /\ updatePc = "idle"
  /\ interruptEnabled => interruptPending
  /\ updatePc' = IF interruptPending THEN "clear" ELSE "read"
  /\ UNCHANGED <<vars, pinVars, lineVars, interruptEnabled, interruptPending>>

\* Mutant: the pin is left to the next call, which is not looked at any more.
HandleInterruptAndReturn ==
  /\ updatePc = "clear"
  /\ interruptPending' = FALSE
  /\ updatePc' = "idle"
  /\ UNCHANGED <<vars, pinVars, lineVars, interruptEnabled>>

HandleInterrupt ==
  /\ updatePc = "clear"
  /\ interruptPending' = FALSE
  /\ updatePc' = "read"
  /\ UNCHANGED <<vars, pinVars, lineVars, interruptEnabled>>

\* A level that differs from the last one read starts the debounce time.
ReadChanged ==
  /\ updatePc = "read"
  /\ level # lastRawLevel
  /\ lastRawLevel' = level
  /\ sinceRawChange' = 0
  /\ updatePc' = "idle"
  /\ UNCHANGED <<vars, level, state, interruptEnabled, interruptPending>>

\* Mutant: the new state is not compared with the old one.
ReadSameRepeats ==
  /\ updatePc = "read"
  /\ level = lastRawLevel
  /\ IF sinceRawChange >= ButtonDebounce
     THEN state' = StateFromLevel(level) /\ PushEvent(state')
     ELSE UNCHANGED <<state, vars>>
  /\ updatePc' = "idle"
  /\ UNCHANGED <<pinVars, lastRawLevel, interruptEnabled, interruptPending>>

ReadSame ==
  /\ updatePc = "read"
  /\ level = lastRawLevel
  /\ IF sinceRawChange >= ButtonDebounce /\ StateFromLevel(level) # state
     THEN state' = StateFromLevel(level) /\ PushEvent(state')
     ELSE UNCHANGED <<state, vars>>
  /\ updatePc' = "idle"
  /\ UNCHANGED <<pinVars, lastRawLevel, interruptEnabled, interruptPending>>

\* popEvent, on the same task as update().
TakeEvent ==
  /\ updatePc = "idle"
  /\ PopEvent
  /\ UNCHANGED <<pinVars, lineVars, interruptEnabled, interruptPending, updatePc>>

\* detachInterruptMode: from here on the button is polled.
DetachInterruptMode ==
  /\ updatePc = "idle"
  /\ interruptEnabled
  /\ interruptEnabled' = FALSE
  /\ interruptPending' = FALSE
  /\ UNCHANGED <<vars, pinVars, lineVars, updatePc>>

Update == UpdateStarts \/ HandleInterrupt \/ ReadChanged \/ ReadSame

ButtonNext == Edge \/ Tick \/ Update \/ TakeEvent \/ DetachInterruptMode

ButtonSpec == ButtonInit /\ [][ButtonNext]_buttonVars

-----------------------------------------------------------------------------
(* Properties. *)

ButtonTypeOK ==
  /\ RingTypeOK
  /\ level \in ButtonLevels /\ lastRawLevel \in ButtonLevels
  /\ sinceRawChange \in 0..ButtonDebounce
  /\ state \in Events
  /\ interruptEnabled \in BOOLEAN /\ interruptPending \in BOOLEAN
  /\ updatePc \in {"idle", "clear", "read"}

\* The application never finds two presses without the release between them,
\* nor a queue that contradicts isPressed(): queued events alternate and the
\* newest is the state, through bounces, missed edges and lost old events.
EventsAlternate ==
  /\ \A i \in 1..(Len(Contents) - 1) : Contents[i] # Contents[i + 1]
  /\ Contents # <<>> => Contents[Len(Contents)] = state

\* No edge is lost between the interrupt flag and the read of the pin, and none
\* is forgotten while it is debounced: when the contact is left alone, the level
\* update() has read last becomes the level of the pin, and a polled button ends
\* up in the state of its pin.
PinIsFollowed ==
  \/ []<><<Edge>>_buttonVars
  \/ <>[](/\ lastRawLevel = level
          /\ interruptEnabled \/ state = StateFromLevel(level))
=============================================================================
