-------------------------------- MODULE Panel --------------------------------
(***************************************************************************)
(* BleAgentLightApp: the registry with the display as its first subscriber *)
(* and the LEDs as its second, and the application task, which polls the   *)
(* leases and mirrors the link state to the LEDs.                          *)
(*                                                                         *)
(* The two outputs share no state, so a behaviour of the panel is followed *)
(* on one of them, chosen at the start; the callbacks of the other do      *)
(* nothing here.  The LED task writes nothing the callbacks or the         *)
(* application task read, but for its errors: module Ws2812Service has it. *)
(***************************************************************************)
EXTENDS AgentRegistry

CONSTANT OffState   \* AgentState::Off

ASSUME PanelAssumption ==
  /\ NumSubscribers = 2     \* setup() subscribes the display, then the LEDs
  /\ OffState \in States

VARIABLES
  followed,   \* "display" or "leds"
  marked, dirty, given, dispPc, batch, snap, shown, lastError,
  states, activeMask, registeringMask, dirtyMask, ledConnected, blinkOn,
  ledPc, frame, lit, ledError,
  stage,      \* the application task's place in its loop: poll, read, apply
  seen,       \* the value of connected() it has read
  displayed   \* displayedConnectionState: {} (nullopt) or {value}

displayVars == <<marked, dirty, given, dispPc, batch, snap, shown, lastError>>
ledVars     == <<states, activeMask, registeringMask, dirtyMask, ledConnected,
                 blinkOn, ledPc, frame, lit, ledError>>
loopVars    == <<stage, seen, displayed>>
outputVars  == <<followed, displayVars, ledVars, loopVars>>
panelVars   == <<vars, outputVars>>

DisplaySub == 1
LedSub     == 2

OnDisplay == followed = "display"
OnLeds    == followed = "leds"

\* What the LCD shows of a slot: not whether its owner is connected.
EmptyRow == <<"empty">>
RowOf(slot) == IF slot.used THEN <<"agent", slot.state, slot.name, slot.text>> ELSE EmptyRow
AgentRows ==
  {EmptyRow} \union ({"agent"} \X States \X (Names \union {NoName}) \X (Texts \union {NoText}))

\* The slots a task has changed and not told the display about.
UntoldByBle == IF blePc = "notify" /\ bleSub = DisplaySub THEN {bleNote.id} ELSE {}
UntoldByApp == IF appSub = DisplaySub THEN removing ELSE removing \ {Min(removing)}
Untold(caller) == IF caller = "ble" THEN UntoldByBle ELSE UntoldByApp

D == INSTANCE DisplayService WITH
       Callers <- {"ble", "app"}, Rows <- AgentRows, Garbled <- <<"garbled">>,
       rows <- [i \in SlotIds |-> IF OnDisplay THEN RowOf(slots[i]) ELSE EmptyRow],
       telling <- [c \in {"ble", "app"} |-> IF OnDisplay THEN Untold(c) ELSE {}]

L == INSTANCE Ws2812Service WITH LedCount <- AgentCount

PanelInit ==
  /\ Init
  /\ followed \in {"display", "leds"}
  /\ marked = [c \in {"ble", "app"} |-> FALSE]
  /\ D!InitTask
  /\ L!InitLeds
  /\ stage = "poll" /\ seen = FALSE /\ displayed = {}

RegistryOnly(A) == A /\ UNCHANGED outputVars

-----------------------------------------------------------------------------
(* The callbacks of the output that is followed, and of the other one. *)

\* The display's callback: markDirty, then xTaskNotifyGive and return.
MarkDisplay ==
  /\ OnDisplay
  /\ UNCHANGED <<vars, followed, ledVars, loopVars>>
  /\ \/ UntoldByBle # {} /\ D!MarkDirty("ble")
     \/ appSub = DisplaySub /\ removing # {} /\ D!MarkDirty("app")

BleTellDisplay ==
  /\ OnDisplay /\ bleSub = DisplaySub
  /\ BleNotify
  /\ UNCHANGED <<followed, ledVars, loopVars>>
  /\ D!Give("ble")

BleTellLeds ==
  /\ OnLeds /\ bleSub = LedSub
  /\ BleNotify
  /\ CASE bleNote.kind = "registered" -> L!HandleRegistered(bleNote.id)
       [] bleNote.kind = "state"      -> L!HandleState(bleNote.id, bleNote.state)
       [] bleNote.kind = "removed"    -> L!HandleRemoved(bleNote.id)
       [] OTHER                       -> UNCHANGED ledVars      \* text
  /\ UNCHANGED <<followed, displayVars, loopVars>>

BleTellOther ==
  /\ bleSub # (IF OnDisplay THEN DisplaySub ELSE LedSub)
  /\ RegistryOnly(BleNotify)

AppTellDisplay ==
  /\ OnDisplay /\ appSub = DisplaySub
  /\ NotifyRemoved
  /\ UNCHANGED <<followed, ledVars, loopVars>>
  /\ D!Give("app")

AppTellLeds ==
  /\ OnLeds /\ appSub = LedSub
  /\ NotifyRemoved
  /\ L!HandleRemoved(Min(removing))
  /\ UNCHANGED <<followed, displayVars, loopVars>>

AppTellOther ==
  /\ appSub # (IF OnDisplay THEN DisplaySub ELSE LedSub)
  /\ RegistryOnly(NotifyRemoved)

-----------------------------------------------------------------------------
(* One pass of taskEntry's loop.  The display does not see the loop but for *)
(* the poll, which comes at any time there.                                 *)

AppPoll ==
  /\ stage = "poll"
  /\ ReadPollClock
  /\ stage' = IF OnLeds THEN "read" ELSE "poll"
  /\ UNCHANGED <<followed, displayVars, ledVars, seen, displayed>>

\* const bool connected = bleService.connected(), once poll has returned.
AppReadConnected ==
  /\ stage = "read" /\ appPc = "idle"
  /\ seen' = connected
  /\ stage' = "apply"
  /\ UNCHANGED <<vars, followed, displayVars, ledVars, displayed>>

\* setConnected, only when the value differs from the one displayed.
AppApplyConnected ==
  /\ stage = "apply"
  /\ IF displayed # {seen} /\ ledConnected # seen
     THEN L!SetConnected(seen)
     ELSE UNCHANGED ledVars
  /\ displayed' = {seen}
  /\ seen' = FALSE
  /\ stage' = "poll"
  /\ UNCHANGED <<vars, followed, displayVars>>

AppTakeDisplayError ==
  /\ OnDisplay
  /\ UNCHANGED <<vars, followed, ledVars, loopVars>>
  /\ D!TakeLastError

-----------------------------------------------------------------------------
Ble ==
  \/ RegistryOnly(HandleConnected \/ HandleDisconnected \/ StartLeases)
  \/ RegistryOnly(Write)
  \/ BleTellDisplay \/ BleTellLeds \/ BleTellOther

App ==
  \/ AppPoll
  \/ RegistryOnly(ReapExpired)
  \/ AppTellDisplay \/ AppTellLeds \/ AppTellOther
  \/ AppReadConnected \/ AppApplyConnected
  \/ AppTakeDisplayError

DisplayTask ==
  /\ OnDisplay
  /\ UNCHANGED <<vars, followed, ledVars, loopVars>>
  /\ D!Task

PanelNext ==
  \/ Ble \/ App \/ MarkDisplay
  \/ DisplayTask
  \/ RegistryOnly(Tick)

PanelSpec == PanelInit /\ [][PanelNext]_panelVars

-----------------------------------------------------------------------------
(* Properties. *)

\* The panel drives the display only in the ways DisplayService is built for,
\* and the display does to the panel only what DisplayService does.
DisplaySpec == D!Spec

\* An LED the service holds for active belongs to a slot in use, or to one whose
\* removal the LEDs are about to be told: polls, registrations and link changes
\* can leave no ghost behind. It says nothing of the display's rows, nor that the
\* LED of a slot in use is active.
NoGhostLed ==
  \A i \in activeMask :
    \/ slots[i].used
    \/ blePc = "notify" /\ bleNote.kind = "removed" /\ bleNote.id = i
    \/ i \in removing
=============================================================================
