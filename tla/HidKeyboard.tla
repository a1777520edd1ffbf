----------------------------- MODULE HidKeyboard -----------------------------
(***************************************************************************)
(* The keyboard and mouse: a key matrix and a mouse buffer, scanned by one *)
(* task that sends what it finds to a host, over USB (NkroKeyboardService  *)
(* and NkroKeyboard) or over BLE (BleHidExample's task and                 *)
(* BleHidNkroKeyboardMouse).  Both transports remember the last report     *)
(* they sent and do not send it again; the host can go away and come back  *)
(* between any two steps of the task.                                      *)
(*                                                                         *)
(* The pins are sampled by Scan only, so contacts is what the latest scan  *)
(* has read.  The mouse has one axis and one button.                       *)
(***************************************************************************)
EXTENDS Integers, FiniteSetsExt

CONSTANTS
  Cells,        \* the cells of the matrix
  KeyIds,       \* prt_hid::KeyId
  ShortKey,     \* KeyIdMapMatrix
  LongKey,      \* LongKeyIdMapMatrix
  NoKey,        \* KeyId::None
  ScanMs,       \* scanIntervalMs
  DebounceMs,   \* debounceMs
  LongPressMs,  \* longPressMs
  PauseMs,      \* the task's delay after a failed update
  Motions,      \* what queueMotion is called with
  DeltaMax,     \* a report carries -DeltaMax..DeltaMax
  PendingMax    \* the buffer saturates at this

ASSUME HidAssumption ==
  /\ {ScanMs, DebounceMs, LongPressMs, PauseMs, DeltaMax, PendingMax} \subseteq Nat \ {0}
  /\ DebounceMs <= LongPressMs
  /\ Motions \subseteq Int
  /\ NoKey \in KeyIds
  /\ ShortKey \in [Cells -> KeyIds] /\ LongKey \in [Cells -> KeyIds]

VARIABLES
  transport,      \* "usb" or "ble"
  contacts,       \* the cells found closed by the latest scan
  active,         \* KeyStateMatrix: how long a cell has been closed
  sinceScan,      \* time since m_lastScanTimestampMs; 0: that is not set
  pending,        \* m_pendingX
  buttons,        \* the buffer's m_buttons
  hidPc,          \* where the scan task is
  hand,           \* the reports of the scan it is sending
  keyboard,       \* m_keyboard, m_report
  lastKeys,       \* m_lastSentKeyboard if valid: {} or {keys}
  lastButtons,    \* m_lastSentMouseButtons if valid: {} or {buttons}
  resetPending,   \* m_resetPending (BLE)
  link,           \* the way to the host, see Links
  host,           \* the keys and buttons the host believes to be held
  unseen,         \* the host may have missed the report last recorded as sent
  owed            \* motion queued, not lost with a report and not at the host

inputVars == <<contacts, active, sinceScan, pending, buttons>>
sentVars  == <<keyboard, lastKeys, lastButtons>>
hostVars  == <<link, host, unseen>>
hidVars   == <<transport, inputVars, hidPc, hand, sentVars, resetPending, hostVars, owed>>

\* joining: connected, the reports not yet subscribed to; lost: the link is
\* gone and the callbacks not yet run; dropping: between the two stores of
\* onDisconnect.  USB is down or up.
Links  == {"down", "joining", "up", "lost", "dropping"}
HidPcs == {"scan", "ready", "mouse", "mouseCheck", "mouseSend",
           "keys", "keysPrepare", "keysCheck", "keysSend"}

Usb       == transport = "usb"
Connected == link \in {"joining", "up", "lost"}     \* m_connected

Keys        == KeyIds \ {NoKey}
Silence     == [keys |-> {}, buttons |-> FALSE, motion |-> 0]
FreshHost   == [keys |-> {}, buttons |-> FALSE]
AllSeen     == [keys |-> FALSE, buttons |-> FALSE]

HidInit ==
  /\ transport \in {"usb", "ble"}
  /\ contacts = {} /\ active = [c \in Cells |-> 0] /\ sinceScan = 0
  /\ pending = 0 /\ buttons = FALSE
  /\ hidPc = "scan" /\ hand = Silence
  /\ keyboard = {} /\ lastKeys = {} /\ lastButtons = {}
  /\ resetPending = FALSE
  /\ link = "down" /\ host = FreshHost /\ unseen = AllSeen
  /\ owed = 0

-----------------------------------------------------------------------------
(* The mouse buffer is filled between two passes of the task. *)

Within(bound, n) == IF n > bound THEN bound ELSE IF n < -bound THEN -bound ELSE n

\* Mutant: the buffer does not saturate.
QueueMotionUnbounded(delta) ==
  /\ hidPc = "scan"
  /\ pending' = pending + delta
  /\ owed' = owed + delta
  /\ UNCHANGED <<transport, contacts, active, sinceScan, buttons, hidPc, hand,
                 sentVars, resetPending, hostVars>>

QueueMotion(delta) ==
  /\ hidPc = "scan"
  /\ pending' = Within(PendingMax, pending + delta)
  /\ owed' = owed + (pending' - pending)
  /\ UNCHANGED <<transport, contacts, active, sinceScan, buttons, hidPc, hand,
                 sentVars, resetPending, hostVars>>

SetButton(pressed) ==
  /\ hidPc = "scan"
  /\ buttons' = pressed
  /\ UNCHANGED <<transport, contacts, active, sinceScan, pending, hidPc, hand,
                 sentVars, resetPending, hostVars, owed>>

-----------------------------------------------------------------------------
(* One pass of the task: scan, then the mouse report, then the keys. *)

KeyAt(c, activeMs) ==
  IF activeMs >= LongPressMs /\ LongKey[c] # NoKey THEN LongKey[c] ELSE ShortKey[c]

ClosedFor(closed) ==
  [c \in Cells |-> IF c \notin closed THEN 0
                   ELSE Min({active[c] + sinceScan, LongPressMs})]

Scan ==
  /\ hidPc = "scan"
  /\ \E closed \in SUBSET Cells :
       LET activeMs == ClosedFor(closed) IN
       /\ contacts' = closed
       /\ active' = activeMs
       /\ hand' = [keys    |-> {KeyAt(c, activeMs[c]) :
                                  c \in {d \in closed : activeMs[d] >= DebounceMs}} \ {NoKey},
                   buttons |-> buttons,
                   motion  |-> Within(DeltaMax, pending)]
  /\ pending' = pending - hand'.motion
  /\ sinceScan' = ScanMs
  /\ hidPc' = "ready"
  /\ UNCHANGED <<transport, buttons, sentVars, resetPending, hostVars, owed>>

\* The pass ends with no report sent after this point.
Abandon ==
  /\ hidPc' = "scan"
  /\ hand' = Silence

\* The motion in hand is with the host, or the link did not take it.
MotionIsGone == owed' = owed - hand.motion

Ready ==
  /\ hidPc = "ready"
  /\ IF Usb THEN link = "up" ELSE Connected
  /\ hidPc' = "mouse"
  /\ UNCHANGED <<transport, inputVars, hand, sentVars, resetPending, hostVars, owed>>

\* USB is not ready without a host, or while it is busy with a report.
NotReady ==
  /\ hidPc = "ready"
  /\ Usb \/ ~Connected
  /\ Abandon /\ MotionIsGone
  /\ lastKeys' = IF Usb THEN {} ELSE lastKeys
  /\ lastButtons' = IF Usb THEN {} ELSE lastButtons
  /\ UNCHANGED <<transport, inputVars, keyboard, resetPending, hostVars>>

\* Mutant: the buttons remembered as sent outlive the connection.
ForgetKeysOnly ==
  /\ resetPending' = FALSE
  /\ lastKeys' = IF resetPending THEN {} ELSE lastKeys
  /\ UNCHANGED lastButtons

\* prepareState takes the pending reset (there is none over USB).
ForgetSent ==
  /\ resetPending' = FALSE
  /\ lastKeys' = IF resetPending THEN {} ELSE lastKeys
  /\ lastButtons' = IF resetPending THEN {} ELSE lastButtons

PrepareState ==
  /\ ForgetSent
  /\ keyboard' = IF resetPending THEN {} ELSE keyboard

PrepareMouse ==
  /\ hidPc = "mouse"
  /\ PrepareState
  /\ hidPc' = "mouseCheck"
  /\ UNCHANGED <<transport, inputVars, hand, hostVars, owed>>

\* Mutant: motion does not force a report out.
CheckMouseButtonsOnly ==
  /\ hidPc = "mouseCheck"
  /\ IF ~Usb /\ ~Connected
     THEN hidPc' = "keys" /\ hand' = [hand EXCEPT !.motion = 0] /\ MotionIsGone
     ELSE /\ hidPc' = IF lastButtons = {hand.buttons} THEN "keys" ELSE "mouseSend"
          /\ UNCHANGED <<hand, owed>>
  /\ UNCHANGED <<transport, inputVars, sentVars, resetPending, hostVars>>

\* isReady, then the comparison with what was sent last.
CheckMouse ==
  /\ hidPc = "mouseCheck"
  /\ IF ~Usb /\ ~Connected
     THEN hidPc' = "keys" /\ hand' = [hand EXCEPT !.motion = 0] /\ MotionIsGone
     ELSE /\ hidPc' = IF hand.motion = 0 /\ lastButtons = {hand.buttons}
                      THEN "keys" ELSE "mouseSend"
          /\ UNCHANGED <<hand, owed>>
  /\ UNCHANGED <<transport, inputVars, sentVars, resetPending, hostVars>>

\* notify reports no failure; a SendReport that succeeds has reached the host.
SendMouse ==
  /\ hidPc = "mouseSend"
  /\ Usb => link = "up"
  /\ lastButtons' = {hand.buttons}
  /\ host' = IF link = "up" THEN [host EXCEPT !.buttons = hand.buttons] ELSE host
  /\ unseen' = [unseen EXCEPT !.buttons = link # "up"]
  /\ MotionIsGone
  /\ hand' = [hand EXCEPT !.motion = 0]
  /\ hidPc' = "keys"
  /\ UNCHANGED <<transport, inputVars, keyboard, lastKeys, resetPending, link>>

\* SendReport fails; the report it gave up on may have reached the host.
SendFails == Usb /\ sinceScan' = IF sinceScan = 0 THEN 0 ELSE sinceScan + PauseMs

SendMouseFails ==
  /\ hidPc = "mouseSend"
  /\ SendFails
  /\ \/ UNCHANGED <<host, unseen>>
     \/ /\ link = "up"
        /\ host' = [host EXCEPT !.buttons = hand.buttons]
        /\ unseen' = [unseen EXCEPT !.buttons = TRUE]
  /\ Abandon /\ MotionIsGone
  /\ UNCHANGED <<transport, contacts, active, pending, buttons, sentVars, resetPending, link>>

UpdateKeys ==
  /\ hidPc = "keys"
  /\ ForgetSent
  /\ keyboard' = hand.keys
  /\ hidPc' = "keysPrepare"
  /\ UNCHANGED <<transport, inputVars, hand, hostVars, owed>>

PrepareKeys ==
  /\ hidPc = "keysPrepare"
  /\ PrepareState
  /\ hidPc' = "keysCheck"
  /\ UNCHANGED <<transport, inputVars, hand, hostVars, owed>>

CheckKeys ==
  /\ hidPc = "keysCheck"
  /\ IF (~Usb /\ ~Connected) \/ lastKeys = {keyboard}
     THEN Abandon
     ELSE hidPc' = "keysSend" /\ UNCHANGED hand
  /\ UNCHANGED <<transport, inputVars, sentVars, resetPending, hostVars, owed>>

SendKeys ==
  /\ hidPc = "keysSend"
  /\ Usb => link = "up"
  /\ lastKeys' = {keyboard}
  /\ host' = IF link = "up" THEN [host EXCEPT !.keys = keyboard] ELSE host
  /\ unseen' = [unseen EXCEPT !.keys = link # "up"]
  /\ Abandon
  /\ UNCHANGED <<transport, inputVars, keyboard, lastButtons, resetPending, link, owed>>

\* Mutant: the report is recorded as sent before it is known to be.
SendKeysFailsRecorded ==
  /\ hidPc = "keysSend"
  /\ SendFails
  /\ lastKeys' = {keyboard}
  /\ Abandon
  /\ UNCHANGED <<transport, contacts, active, pending, buttons, keyboard, lastButtons,
                 resetPending, hostVars, owed>>

SendKeysFails ==
  /\ hidPc = "keysSend"
  /\ SendFails
  /\ \/ UNCHANGED <<host, unseen>>
     \/ /\ link = "up"
        /\ host' = [host EXCEPT !.keys = keyboard]
        /\ unseen' = [unseen EXCEPT !.keys = TRUE]
  /\ Abandon
  /\ UNCHANGED <<transport, contacts, active, pending, buttons, sentVars, resetPending, link, owed>>

\* NkroKeyboardService::reset: both scanners start over, and the host is sent
\* empty reports, whether it is ready or not.
Reset ==
  /\ Usb /\ hidPc = "scan"
  /\ active' = [c \in Cells |-> 0] /\ sinceScan' = 0
  /\ pending' = 0 /\ buttons' = FALSE /\ owed' = 0
  /\ hand' = Silence
  /\ hidPc' = "mouseCheck"
  /\ UNCHANGED <<transport, contacts, sentVars, resetPending, hostVars>>

Pass ==
  \/ Scan \/ Ready \/ NotReady
  \/ PrepareMouse \/ CheckMouse \/ SendMouse \/ SendMouseFails
  \/ UpdateKeys \/ PrepareKeys \/ CheckKeys \/ SendKeys \/ SendKeysFails

-----------------------------------------------------------------------------
(* The link.  A host that connects holds no key. *)

LinkStep(to) ==
  /\ link' = to
  /\ UNCHANGED <<transport, inputVars, hidPc, hand, sentVars, owed>>

HostForgets == host' = FreshHost

\* Over USB nothing tells the task that a host was away between two ready()s.
Plug ==
  /\ Usb /\ link = "down"
  /\ LinkStep("up")
  /\ HostForgets
  /\ unseen' = [keys |-> lastKeys # {}, buttons |-> lastButtons # {}]
  /\ UNCHANGED resetPending

Unplug ==
  /\ Usb /\ link = "up"
  /\ LinkStep("down")
  /\ HostForgets
  /\ UNCHANGED <<unseen, resetPending>>

\* onConnect
Connect ==
  /\ ~Usb /\ link = "down"
  /\ LinkStep("joining")
  /\ HostForgets
  /\ unseen' = AllSeen
  /\ UNCHANGED resetPending

Subscribe ==
  /\ link = "joining"
  /\ LinkStep("up")
  /\ UNCHANGED <<host, unseen, resetPending>>

LoseLink ==
  /\ ~Usb /\ link \in {"joining", "up"}
  /\ LinkStep("lost")
  /\ HostForgets
  /\ UNCHANGED <<unseen, resetPending>>

\* onDisconnect: m_connected, then m_resetPending and advertising again.
Disconnected ==
  /\ link = "lost"
  /\ LinkStep("dropping")
  /\ UNCHANGED <<host, unseen, resetPending>>

RequestReset ==
  /\ link = "dropping"
  /\ LinkStep("down")
  /\ resetPending' = TRUE
  /\ UNCHANGED <<host, unseen>>

HidEnv ==
  \/ Plug \/ Unplug
  \/ Connect \/ Subscribe \/ LoseLink \/ Disconnected \/ RequestReset
  \/ Reset
  \/ \E delta \in Motions : QueueMotion(delta)
  \/ \E pressed \in BOOLEAN : SetButton(pressed)

HidNext == Pass \/ HidEnv

HidSpec == HidInit /\ [][HidNext]_hidVars

-----------------------------------------------------------------------------
(* Properties. *)

HidTypeOK ==
  /\ transport \in {"usb", "ble"}
  /\ contacts \in SUBSET Cells
  /\ active \in [Cells -> 0..LongPressMs]
  /\ sinceScan \in {0, ScanMs, ScanMs + PauseMs}
  /\ pending \in -PendingMax..PendingMax
  /\ buttons \in BOOLEAN
  /\ hidPc \in HidPcs
  /\ hand \in [keys : SUBSET Keys, buttons : BOOLEAN, motion : -DeltaMax..DeltaMax]
  /\ keyboard \in SUBSET Keys
  /\ \A last \in lastKeys : lastKeys = {last} /\ last \in SUBSET Keys
  /\ \A last \in lastButtons : lastButtons = {last} /\ last \in BOOLEAN
  /\ resetPending \in BOOLEAN
  /\ link \in Links
  /\ host \in [keys : SUBSET Keys, buttons : BOOLEAN]
  /\ unseen \in [keys : BOOLEAN, buttons : BOOLEAN]
  /\ owed \in Int

\* A report is left unsent only because the host has it: what is remembered as
\* sent is what the host of this connection holds, across every disconnection
\* that comes between the steps of a pass.  The exceptions are the reports the
\* code cannot know to be missed, in unseen: notified before the host
\* subscribed, given up on by SendReport, or sent to a USB host that has gone
\* and come back unnoticed.
LastSentIsCurrent ==
  (link = "up" /\ ~resetPending) =>
    /\ lastKeys \subseteq {host.keys} \/ unseen.keys
    /\ lastButtons \subseteq {host.buttons} \/ unseen.buttons

\* Motion is not lost, repeated or held back by clamping it to a report, by
\* leaving reports with unchanged buttons unsent, or on the way through the pass
\* that took it out of the buffer: every count queued is in the buffer, in the
\* report in hand, at the host, or went with a report the link did not take.
MotionIsConserved ==
  owed = pending + hand.motion

Wanted(closed) == {KeyAt(c, LongPressMs) : c \in closed} \ {NoKey}

\* When keys and buttons are left alone and the link stays up, the host ends up
\* holding exactly them: no ghost key and none missing, whatever failed before.
HostFollows ==
  \/ []<><<contacts' # contacts \/ buttons' # buttons \/ Reset>>_hidVars
  \/ []<>(link # "up")
  \/ <>[](/\ host.keys = Wanted(contacts) \/ unseen.keys
          /\ host.buttons = buttons \/ unseen.buttons)
=============================================================================
