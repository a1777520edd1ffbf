---------------------------- MODULE Inputs_proofs -----------------------------
(***************************************************************************)
(* The two input devices.  Keyboard and mouse: what is remembered as sent  *)
(* is what the host has, and no motion is lost on its way, for every       *)
(* matrix, key map and timing, over both transports and however often the  *)
(* host leaves.  Button: the event ring is the queue it is meant to be,    *)
(* for every capacity, and the events alternate, for every debounce time.  *)
(***************************************************************************)
EXTENDS MCInputs, SequenceTheorems, TLAPS

-----------------------------------------------------------------------------
(* Keyboard and mouse. *)

\* A failed update is followed by a scan: the pause is counted once.
PauseCountedOnce == hidPc # "scan" => sinceScan \in {0, ScanMs}

\* The motion in hand is gone once the mouse report is dealt with.
MotionOnlyWithMouse ==
  hidPc \in {"scan", "keys", "keysPrepare", "keysCheck", "keysSend"} => hand.motion = 0

UsbLink == Usb => (link \in {"down", "up"} /\ ~resetPending)

\* After a disconnection nothing is remembered as sent, and nothing is about to
\* be sent, unless the reset is still to be taken.
DownMeansForgotten ==
  (~Usb /\ link = "down" /\ ~resetPending) =>
    lastKeys = {} /\ lastButtons = {} /\ hidPc \notin {"mouseSend", "keysSend"}

\* LastSentIsCurrent, already from the connection on.
SentSinceConnect ==
  (link \in {"joining", "up"} /\ ~resetPending) =>
    /\ lastKeys \subseteq {host.keys} \/ unseen.keys
    /\ lastButtons \subseteq {host.buttons} \/ unseen.buttons

\* The inductive invariant.
HidInv ==
  /\ HidTypeOK
  /\ PauseCountedOnce
  /\ MotionOnlyWithMouse
  /\ MotionIsConserved
  /\ UsbLink
  /\ DownMeansForgotten
  /\ SentSinceConnect

-----------------------------------------------------------------------------
(* Operators. *)

\* Saturating keeps a count within its bound, and moves it by no more.
LEMMA WithinBound ==
  ASSUME NEW bound \in Nat, NEW n \in Int
  PROVE  Within(bound, n) \in -bound..bound
BY DEF Within

\* The time a contact has been closed for is capped at the long press.
LEMMA ClosedForType ==
  ASSUME HidTypeOK, NEW closed \in SUBSET Cells
  PROVE  ClosedFor(closed) \in [Cells -> 0..LongPressMs]
<1>1. ASSUME NEW n \in Nat PROVE Min({n, LongPressMs}) \in 0..LongPressMs
  <2>1. LongPressMs \in Nat
    BY HidAssumption
  <2>2. \E x \in {n, LongPressMs} : \A y \in {n, LongPressMs} : x <= y
    BY <2>1
  <2>3. Min({n, LongPressMs}) \in {n, LongPressMs}
        /\ \A y \in {n, LongPressMs} : Min({n, LongPressMs}) <= y
    BY <2>2 DEF Min
  <2>4. QED BY <2>1, <2>3
<1>2. \A c \in Cells : active[c] + sinceScan \in Nat
  BY HidAssumption DEF HidTypeOK
<1>3. QED BY <1>1, <1>2, HidAssumption DEF ClosedFor

\* A cell stands for one of the keys, or for none.
LEMMA KeyAtType ==
  ASSUME NEW c \in Cells, NEW ms \in Int
  PROVE  KeyAt(c, ms) \in KeyIds
BY HidAssumption DEF KeyAt

LEMMA HidInitInv == HidInit => HidInv
<1> SUFFICES ASSUME HidInit PROVE HidInv
  OBVIOUS
<1>1. HidTypeOK
  <2>1. active \in [Cells -> 0..LongPressMs] /\ pending \in -PendingMax..PendingMax
    BY HidAssumption DEF HidInit
  <2>2. hand \in [keys : SUBSET Keys, buttons : BOOLEAN, motion : -DeltaMax..DeltaMax]
    BY HidAssumption DEF HidInit, Silence
  <2>3. host \in [keys : SUBSET Keys, buttons : BOOLEAN] /\ unseen \in [keys : BOOLEAN, buttons : BOOLEAN]
    BY DEF HidInit, FreshHost, AllSeen
  <2>4. buttons \in BOOLEAN /\ resetPending \in BOOLEAN /\ lastKeys = {} /\ lastButtons = {}
    BY DEF HidInit
  <2>5. QED
    BY <2>1, <2>2, <2>3, <2>4 DEF HidInit, HidTypeOK, HidPcs, Links
<1>2. MotionOnlyWithMouse /\ MotionIsConserved
  BY DEF HidInit, MotionOnlyWithMouse, MotionIsConserved, Silence
<1>3. PauseCountedOnce /\ UsbLink /\ DownMeansForgotten /\ SentSinceConnect
  BY DEF HidInit, PauseCountedOnce, UsbLink, DownMeansForgotten, SentSinceConnect
<1>4. QED BY <1>1, <1>2, <1>3 DEF HidInv

-----------------------------------------------------------------------------
(* The mouse buffer. *)

LEMMA QueueMotionInv ==
  ASSUME HidInv, NEW delta \in Motions, QueueMotion(delta)
  PROVE  HidInv'
<1> USE DEF HidInv, QueueMotion, sentVars, hostVars
<1>1. pending \in Int /\ delta \in Int /\ PendingMax \in Nat /\ owed \in Int
  BY HidAssumption DEF HidTypeOK
<1>2. pending' \in -PendingMax..PendingMax
  BY <1>1, WithinBound
<1>3. HidTypeOK'
  BY <1>1, <1>2 DEF HidTypeOK
<1>4. MotionIsConserved'
  BY <1>1, <1>2 DEF MotionIsConserved, HidTypeOK
<1>5. QED
  BY <1>3, <1>4
  DEF PauseCountedOnce, MotionOnlyWithMouse, UsbLink, DownMeansForgotten, SentSinceConnect, Usb

LEMMA SetButtonInv ==
  ASSUME HidInv, NEW pressed \in BOOLEAN, SetButton(pressed)
  PROVE  HidInv'
BY DEF HidInv, SetButton, HidTypeOK, sentVars, hostVars, PauseCountedOnce, MotionOnlyWithMouse,
       MotionIsConserved, UsbLink, DownMeansForgotten, SentSinceConnect, Usb

-----------------------------------------------------------------------------
(* The scan task. *)

LEMMA ScanInv == ASSUME HidInv, Scan PROVE HidInv'
<1> USE DEF HidInv, Scan, sentVars, hostVars
<1>1. PICK closed \in SUBSET Cells :
        LET activeMs == ClosedFor(closed) IN
        /\ contacts' = closed
        /\ active' = activeMs
        /\ hand' = [keys    |-> {KeyAt(c, activeMs[c]) :
                                   c \in {d \in closed : activeMs[d] >= DebounceMs}} \ {NoKey},
                    buttons |-> buttons,
                    motion  |-> Within(DeltaMax, pending)]
  OBVIOUS
<1>2. active' \in [Cells -> 0..LongPressMs]
  BY <1>1, ClosedForType
<1>3. hand'.keys \in SUBSET Keys
  <2>1. \A c \in Cells : active'[c] \in Int
    BY <1>2, HidAssumption
  <2>2. \A c \in Cells : KeyAt(c, active'[c]) \in KeyIds
    BY <2>1, KeyAtType
  <2>3. QED BY <1>1, <2>2 DEF Keys
<1>4. PendingMax \in Nat /\ DeltaMax \in Nat /\ pending \in -PendingMax..PendingMax
  BY HidAssumption DEF HidTypeOK
<1>5. hand'.motion \in -DeltaMax..DeltaMax /\ hand'.motion = Within(DeltaMax, pending)
  BY <1>1, <1>4, WithinBound
<1>6. pending' \in -PendingMax..PendingMax
  BY <1>4, <1>5 DEF Within
<1>7. hand' \in [keys : SUBSET Keys, buttons : BOOLEAN, motion : -DeltaMax..DeltaMax]
  <2> DEFINE k == hand'.keys  m == hand'.motion
  <2>1. hand' = [keys |-> k, buttons |-> buttons, motion |-> m]
    BY <1>1
  <2>2. k \in SUBSET Keys /\ buttons \in BOOLEAN /\ m \in -DeltaMax..DeltaMax
    BY <1>3, <1>5 DEF HidTypeOK
  <2> HIDE DEF k, m
  <2>3. QED BY <2>1, <2>2
<1>8. HidTypeOK'
  BY <1>1, <1>2, <1>6, <1>7 DEF HidTypeOK, HidPcs
<1>9. MotionIsConserved' /\ MotionOnlyWithMouse'
  BY <1>4, <1>5 DEF MotionIsConserved, MotionOnlyWithMouse, HidTypeOK
<1>10. QED
  BY <1>8, <1>9
  DEF PauseCountedOnce, UsbLink, DownMeansForgotten, SentSinceConnect, Usb

\* The end of a pass keeps the types.
LEMMA SilenceType == Silence \in [keys : SUBSET Keys, buttons : BOOLEAN, motion : -DeltaMax..DeltaMax]
BY HidAssumption DEF Silence

LEMMA HostTypes ==
  ASSUME HidInv
  PROVE  /\ FreshHost \in [keys : SUBSET Keys, buttons : BOOLEAN]
         /\ [host EXCEPT !.buttons = hand.buttons] \in [keys : SUBSET Keys, buttons : BOOLEAN]
         /\ [host EXCEPT !.keys = keyboard] \in [keys : SUBSET Keys, buttons : BOOLEAN]
         /\ \A b \in BOOLEAN :
              /\ [unseen EXCEPT !.buttons = b] \in [keys : BOOLEAN, buttons : BOOLEAN]
              /\ [unseen EXCEPT !.keys = b] \in [keys : BOOLEAN, buttons : BOOLEAN]
         /\ [hand EXCEPT !.motion = 0]
              \in [keys : SUBSET Keys, buttons : BOOLEAN, motion : -DeltaMax..DeltaMax]
<1>1. FreshHost \in [keys : SUBSET Keys, buttons : BOOLEAN]
  BY DEF FreshHost
<1>2. hand.buttons \in BOOLEAN /\ keyboard \in SUBSET Keys
  BY DEF HidInv, HidTypeOK
<1>3. [hand EXCEPT !.motion = 0]
        \in [keys : SUBSET Keys, buttons : BOOLEAN, motion : -DeltaMax..DeltaMax]
  BY HidAssumption DEF HidInv, HidTypeOK
<1>4. QED BY <1>1, <1>2, <1>3 DEF HidInv, HidTypeOK

LEMMA ReadyInv == ASSUME HidInv, Ready PROVE HidInv'
BY DEF HidInv, Ready, HidTypeOK, HidPcs, inputVars, sentVars, hostVars, PauseCountedOnce,
       MotionOnlyWithMouse, MotionIsConserved, UsbLink, DownMeansForgotten, SentSinceConnect, Usb

LEMMA NotReadyInv == ASSUME HidInv, NotReady PROVE HidInv'
<1> USE DEF HidInv, NotReady, Abandon, MotionIsGone, inputVars, hostVars
<1>1. HidTypeOK'
  BY SilenceType DEF HidTypeOK, HidPcs
<1>2. MotionOnlyWithMouse' /\ MotionIsConserved'
  BY DEF MotionOnlyWithMouse, MotionIsConserved, Silence, HidTypeOK
<1>3. PauseCountedOnce' /\ UsbLink' /\ DownMeansForgotten' /\ SentSinceConnect'
  BY DEF PauseCountedOnce, UsbLink, DownMeansForgotten, SentSinceConnect, Usb
<1>4. QED BY <1>1, <1>2, <1>3

LEMMA PrepareMouseInv == ASSUME HidInv, PrepareMouse PROVE HidInv'
BY DEF HidInv, PrepareMouse, PrepareState, ForgetSent, HidTypeOK, HidPcs, Keys, inputVars, hostVars,
       PauseCountedOnce, MotionOnlyWithMouse, MotionIsConserved, UsbLink, DownMeansForgotten,
       SentSinceConnect, Usb

LEMMA CheckMouseInv == ASSUME HidInv, CheckMouse PROVE HidInv'
<1> USE DEF HidInv, CheckMouse, MotionIsGone, inputVars, sentVars, hostVars
<1>1. HidTypeOK'
  BY HidAssumption DEF HidTypeOK, HidPcs
<1>2. MotionOnlyWithMouse' /\ MotionIsConserved'
  BY DEF MotionOnlyWithMouse, MotionIsConserved, HidTypeOK
<1>3. PauseCountedOnce' /\ UsbLink' /\ DownMeansForgotten' /\ SentSinceConnect'
  BY DEF PauseCountedOnce, UsbLink, DownMeansForgotten, SentSinceConnect, Usb, Connected
<1>4. QED BY <1>1, <1>2, <1>3

LEMMA SendMouseInv == ASSUME HidInv, SendMouse PROVE HidInv'
<1> USE DEF HidInv, SendMouse, MotionIsGone, inputVars
<1>1. HidTypeOK'
  <2>1. hand.buttons \in BOOLEAN
    BY DEF HidTypeOK
  <2>2. \A last \in lastButtons' : lastButtons' = {last} /\ last \in BOOLEAN
    BY <2>1
  <2>3. \A last \in lastKeys' : lastKeys' = {last} /\ last \in SUBSET Keys
    BY DEF HidTypeOK
  <2>4. host' \in [keys : SUBSET Keys, buttons : BOOLEAN]
        /\ unseen' \in [keys : BOOLEAN, buttons : BOOLEAN]
        /\ hand' \in [keys : SUBSET Keys, buttons : BOOLEAN, motion : -DeltaMax..DeltaMax]
    BY HostTypes DEF HidTypeOK
  <2>5. owed' \in Int
    BY HidAssumption DEF HidTypeOK
  <2> HIDE DEF SendMouse
  <2>6. /\ hidPc' \in HidPcs
        /\ transport' = transport /\ contacts' = contacts /\ active' = active
        /\ sinceScan' = sinceScan /\ pending' = pending /\ buttons' = buttons
        /\ keyboard' = keyboard /\ resetPending' = resetPending /\ link' = link
    BY DEF SendMouse, HidPcs
  <2>7. QED
    BY <2>2, <2>3, <2>4, <2>5, <2>6 DEF HidTypeOK
<1>2. MotionOnlyWithMouse' /\ MotionIsConserved'
  BY DEF MotionOnlyWithMouse, MotionIsConserved, HidTypeOK
<1>3. PauseCountedOnce' /\ UsbLink' /\ DownMeansForgotten'
  BY DEF PauseCountedOnce, UsbLink, DownMeansForgotten, Usb
<1>4. SentSinceConnect'
  BY DEF SentSinceConnect, HidTypeOK
<1>5. QED BY <1>1, <1>2, <1>3, <1>4

LEMMA SendMouseFailsInv == ASSUME HidInv, SendMouseFails PROVE HidInv'
<1> USE DEF HidInv, SendMouseFails, SendFails, Abandon, MotionIsGone, sentVars
<1>1. HidTypeOK'
  <2>1. host' \in [keys : SUBSET Keys, buttons : BOOLEAN]
        /\ unseen' \in [keys : BOOLEAN, buttons : BOOLEAN]
    BY HostTypes DEF HidTypeOK
  <2>2. sinceScan' \in {0, ScanMs, ScanMs + PauseMs}
    BY HidAssumption DEF PauseCountedOnce
  <2>3. owed' \in Int
    BY HidAssumption DEF HidTypeOK
  <2>4. QED
    BY <2>1, <2>2, <2>3, SilenceType DEF HidTypeOK, HidPcs
<1>2. MotionOnlyWithMouse' /\ MotionIsConserved'
  BY DEF MotionOnlyWithMouse, MotionIsConserved, Silence, HidTypeOK
<1>3. PauseCountedOnce' /\ UsbLink' /\ DownMeansForgotten'
  BY DEF PauseCountedOnce, UsbLink, DownMeansForgotten, Usb
<1>4. SentSinceConnect'
  BY DEF SentSinceConnect, HidTypeOK
<1>5. QED BY <1>1, <1>2, <1>3, <1>4

LEMMA UpdateKeysInv == ASSUME HidInv, UpdateKeys PROVE HidInv'
BY DEF HidInv, UpdateKeys, ForgetSent, HidTypeOK, HidPcs, inputVars, hostVars,
       PauseCountedOnce, MotionOnlyWithMouse, MotionIsConserved, UsbLink, DownMeansForgotten,
       SentSinceConnect, Usb

LEMMA PrepareKeysInv == ASSUME HidInv, PrepareKeys PROVE HidInv'
BY DEF HidInv, PrepareKeys, PrepareState, ForgetSent, HidTypeOK, HidPcs, Keys, inputVars, hostVars,
       PauseCountedOnce, MotionOnlyWithMouse, MotionIsConserved, UsbLink, DownMeansForgotten,
       SentSinceConnect, Usb

LEMMA CheckKeysInv == ASSUME HidInv, CheckKeys PROVE HidInv'
<1> USE DEF HidInv, CheckKeys, Abandon, inputVars, sentVars, hostVars
<1>1. HidTypeOK'
  BY SilenceType DEF HidTypeOK, HidPcs
<1>2. MotionOnlyWithMouse' /\ MotionIsConserved'
  BY DEF MotionOnlyWithMouse, MotionIsConserved, Silence, HidTypeOK
<1>3. PauseCountedOnce' /\ UsbLink' /\ DownMeansForgotten' /\ SentSinceConnect'
  BY DEF PauseCountedOnce, UsbLink, DownMeansForgotten, SentSinceConnect, Usb, Connected
<1>4. QED BY <1>1, <1>2, <1>3

LEMMA SendKeysInv == ASSUME HidInv, SendKeys PROVE HidInv'
<1> USE DEF HidInv, SendKeys, Abandon, inputVars
<1>1. HidTypeOK'
  BY SilenceType DEF HidTypeOK, HidPcs
<1>2. MotionOnlyWithMouse' /\ MotionIsConserved'
  BY DEF MotionOnlyWithMouse, MotionIsConserved, Silence, HidTypeOK
<1>3. PauseCountedOnce' /\ UsbLink' /\ DownMeansForgotten'
  BY DEF PauseCountedOnce, UsbLink, DownMeansForgotten, Usb
<1>4. SentSinceConnect'
  BY DEF SentSinceConnect, HidTypeOK
<1>5. QED BY <1>1, <1>2, <1>3, <1>4

LEMMA SendKeysFailsInv == ASSUME HidInv, SendKeysFails PROVE HidInv'
<1> USE DEF HidInv, SendKeysFails, SendFails, Abandon, sentVars
<1>1. HidTypeOK'
  BY SilenceType, HostTypes, HidAssumption DEF HidTypeOK, HidPcs, PauseCountedOnce
<1>2. MotionOnlyWithMouse' /\ MotionIsConserved'
  BY DEF MotionOnlyWithMouse, MotionIsConserved, Silence, HidTypeOK
<1>3. PauseCountedOnce' /\ UsbLink' /\ DownMeansForgotten'
  BY DEF PauseCountedOnce, UsbLink, DownMeansForgotten, Usb
<1>4. SentSinceConnect'
  BY DEF SentSinceConnect, HidTypeOK
<1>5. QED BY <1>1, <1>2, <1>3, <1>4

LEMMA ResetInv == ASSUME HidInv, Reset PROVE HidInv'
<1> USE DEF HidInv, Reset, sentVars, hostVars
<1>1. HidTypeOK'
  <2>1. active' \in [Cells -> 0..LongPressMs] /\ pending' \in -PendingMax..PendingMax
    BY HidAssumption
  <2>2. sinceScan' \in {0, ScanMs, ScanMs + PauseMs} /\ owed' \in Int
    OBVIOUS
  <2>3. buttons' \in BOOLEAN
    OBVIOUS
  <2>4. hand' \in [keys : SUBSET Keys, buttons : BOOLEAN, motion : -DeltaMax..DeltaMax]
    BY SilenceType
  <2>5. /\ hidPc' \in HidPcs
        /\ transport' = transport /\ contacts' = contacts /\ keyboard' = keyboard
        /\ lastKeys' = lastKeys /\ lastButtons' = lastButtons /\ resetPending' = resetPending
        /\ link' = link /\ host' = host /\ unseen' = unseen
    BY DEF HidPcs
  <2> HIDE DEF Reset
  <2>6. QED
    BY <2>1, <2>2, <2>3, <2>4, <2>5 DEF HidTypeOK
<1>2. MotionOnlyWithMouse' /\ MotionIsConserved'
  BY DEF MotionOnlyWithMouse, MotionIsConserved, Silence
<1>3. PauseCountedOnce' /\ UsbLink' /\ DownMeansForgotten' /\ SentSinceConnect'
  BY DEF PauseCountedOnce, UsbLink, DownMeansForgotten, SentSinceConnect, Usb
<1>4. QED BY <1>1, <1>2, <1>3

-----------------------------------------------------------------------------
(* The link. *)

\* A step of the link leaves the task alone.
LEMMA LinkStepKeeps ==
  ASSUME HidInv, NEW to, LinkStep(to)
  PROVE  PauseCountedOnce' /\ MotionOnlyWithMouse' /\ MotionIsConserved'
BY DEF HidInv, LinkStep, inputVars, sentVars, PauseCountedOnce, MotionOnlyWithMouse, MotionIsConserved

LEMMA LinkStepType ==
  ASSUME HidInv, NEW to \in Links, LinkStep(to),
         resetPending' \in BOOLEAN,
         host' \in {host, FreshHost},
         unseen' \in [keys : BOOLEAN, buttons : BOOLEAN]
  PROVE  HidTypeOK'
<1>1. host' \in [keys : SUBSET Keys, buttons : BOOLEAN]
  BY HostTypes DEF HidInv, HidTypeOK
<1>2. QED
  BY <1>1 DEF HidInv, HidTypeOK, LinkStep, inputVars, sentVars

LEMMA LinkInv ==
  ASSUME HidInv,
         Plug \/ Unplug \/ Connect \/ Subscribe \/ LoseLink \/ Disconnected \/ RequestReset
  PROVE  HidInv'
<1> USE DEF HidInv, LinkStep, HostForgets, inputVars, sentVars
<1>1. PauseCountedOnce' /\ MotionOnlyWithMouse' /\ MotionIsConserved'
  BY LinkStepKeeps DEF Plug, Unplug, Connect, Subscribe, LoseLink, Disconnected, RequestReset
<1>2. HidTypeOK'
  <2>1. {"down", "joining", "up", "lost", "dropping"} \subseteq Links
        /\ unseen \in [keys : BOOLEAN, buttons : BOOLEAN] /\ resetPending \in BOOLEAN
        /\ AllSeen \in [keys : BOOLEAN, buttons : BOOLEAN]
    BY DEF Links, HidTypeOK, AllSeen
  <2>2. CASE Plug
    BY <2>1, <2>2, LinkStepType DEF Plug
  <2>3. CASE Connect
    BY <2>1, <2>3, LinkStepType DEF Connect
  <2>4. CASE Unplug \/ Subscribe \/ LoseLink
    BY <2>1, <2>4, LinkStepType DEF Unplug, Subscribe, LoseLink
  <2>5. CASE Disconnected \/ RequestReset
    BY <2>1, <2>5, LinkStepType DEF Disconnected, RequestReset
  <2>6. QED BY <2>2, <2>3, <2>4, <2>5
<1>3. UsbLink' /\ DownMeansForgotten'
  BY DEF UsbLink, DownMeansForgotten, Usb, Plug, Unplug, Connect, Subscribe, LoseLink, Disconnected,
         RequestReset, HidTypeOK
<1>4. SentSinceConnect'
  <2>1. CASE Plug
    BY <2>1 DEF SentSinceConnect, Plug, HidTypeOK
  <2>2. CASE Connect
    BY <2>2 DEF SentSinceConnect, Connect, DownMeansForgotten
  <2>3. CASE Subscribe
    BY <2>3 DEF SentSinceConnect, Subscribe
  <2>4. CASE Unplug \/ LoseLink \/ Disconnected \/ RequestReset
    BY <2>4 DEF SentSinceConnect, Unplug, LoseLink, Disconnected, RequestReset
  <2>5. QED BY <2>1, <2>2, <2>3, <2>4
<1>5. QED BY <1>1, <1>2, <1>3, <1>4

-----------------------------------------------------------------------------
LEMMA HidNextInv == HidInv /\ [HidNext]_hidVars => HidInv'
<1> SUFFICES ASSUME HidInv, [HidNext]_hidVars PROVE HidInv'
  OBVIOUS
<1>1. CASE Pass
  BY <1>1, ScanInv, ReadyInv, NotReadyInv, PrepareMouseInv, CheckMouseInv, SendMouseInv,
     SendMouseFailsInv, UpdateKeysInv, PrepareKeysInv, CheckKeysInv, SendKeysInv, SendKeysFailsInv
  DEF Pass
<1>2. CASE HidEnv
  BY <1>2, LinkInv, ResetInv, QueueMotionInv, SetButtonInv DEF HidEnv
<1>3. CASE UNCHANGED hidVars
  BY <1>3
  DEF hidVars, inputVars, sentVars, hostVars, HidInv, HidTypeOK, PauseCountedOnce, MotionOnlyWithMouse,
      MotionIsConserved, UsbLink, DownMeansForgotten, SentSinceConnect, Usb
<1>4. QED BY <1>1, <1>2, <1>3 DEF HidNext

LEMMA HidInvariance == HidSpec => []HidInv
<1>1. HidInit => HidInv
  BY HidInitInv
<1>2. HidInv /\ [HidNext]_hidVars => HidInv'
  BY HidNextInv
<1>3. QED BY <1>1, <1>2, PTL DEF HidSpec

\* The keyboard keeps its types: the buffer and the reports stay within their
\* widths, the contact times within theirs.
THEOREM HidTypeCorrect == HidSpec => []HidTypeOK
<1>1. HidInv => HidTypeOK
  BY DEF HidInv
<1>2. QED BY <1>1, HidInvariance, PTL

\* No report is withheld from a host that does not have it, but for those the
\* code cannot know to be missed.
THEOREM SentIsWhatHostHas == HidSpec => []LastSentIsCurrent
<1>1. HidInv => LastSentIsCurrent
  BY DEF HidInv, SentSinceConnect, LastSentIsCurrent
<1>2. QED BY <1>1, HidInvariance, PTL

\* No motion is lost or repeated on its way from the buffer to the link.
THEOREM NoMotionIsLost == HidSpec => []MotionIsConserved
<1>1. HidInv => MotionIsConserved
  BY DEF HidInv
<1>2. QED BY <1>1, HidInvariance, PTL

-----------------------------------------------------------------------------
(* Button and event ring. *)

\* The invariant of the ring.
RingInv == RingTypeOK /\ RingIsConsistent

\* Where the k-th event is when the oldest one is at t.
Place(t, k) == (t + k - 1) % Capacity

\* The queue of n events in an array whose oldest is at t, and whether what is
\* there are events.
Queued(array, t, n) == [k \in 1..n |-> array[Place(t, k)]]
AllEvents(array, t, n) == \A k \in 1..n : array[Place(t, k)] \in Events

-----------------------------------------------------------------------------
(* Indices that wrap. *)

LEMMA Wrapped ==
  ASSUME NEW n \in 0..(2 * Capacity - 1)
  PROVE  n % Capacity = IF n < Capacity THEN n ELSE n - Capacity
BY RingAssumption

LEMMA AfterIndex ==
  ASSUME NEW i \in Index
  PROVE  After(i) \in Index /\ After(i) = IF i = Capacity - 1 THEN 0 ELSE i + 1
BY RingAssumption, Wrapped DEF Index, After

LEMMA PlaceIndex ==
  ASSUME NEW t \in Index, NEW k \in 1..Capacity
  PROVE  /\ Place(t, k) \in Index
         /\ Place(t, k) = IF t + k - 1 < Capacity THEN t + k - 1 ELSE t + k - 1 - Capacity
<1>1. Capacity \in Nat \ {0} /\ t \in 0..(Capacity - 1)
  BY RingAssumption DEF Index
<1>2. PICK n \in 0..(2 * Capacity - 1) : n = t + k - 1
  BY <1>1
<1>3. n % Capacity = IF n < Capacity THEN n ELSE n - Capacity
  BY Wrapped
<1>4. Place(t, k) = IF t + k - 1 < Capacity THEN t + k - 1 ELSE t + k - 1 - Capacity
  BY <1>1, <1>2, <1>3 DEF Place
<1>5. QED BY <1>1, <1>4 DEF Index

\* Two places of the queue are two places of the array.
LEMMA PlacesDiffer ==
  ASSUME NEW t \in Index, NEW k \in 1..Capacity, NEW l \in 1..Capacity, k # l
  PROVE  Place(t, k) # Place(t, l)
<1>1. t \in 0..(Capacity - 1) /\ Capacity \in Nat \ {0}
  BY RingAssumption DEF Index
<1>2. QED BY <1>1, PlaceIndex

\* When the oldest event is gone, the next one is the first.
LEMMA PlaceAfter ==
  ASSUME NEW t \in Index, NEW k \in 1..Capacity
  PROVE  Place(After(t), k) = IF k = Capacity THEN t ELSE Place(t, k + 1)
<1>1. t \in 0..(Capacity - 1) /\ Capacity \in Nat \ {0}
  BY RingAssumption DEF Index
<1>2. After(t) \in Index /\ After(t) = IF t = Capacity - 1 THEN 0 ELSE t + 1
  BY AfterIndex
<1>3. Place(After(t), k) = IF After(t) + k - 1 < Capacity THEN After(t) + k - 1
                           ELSE After(t) + k - 1 - Capacity
  BY <1>2, PlaceIndex
<1>4. CASE k = Capacity
  BY <1>1, <1>2, <1>3, <1>4
<1>5. CASE k # Capacity
  <2>1. k + 1 \in 1..Capacity
    BY <1>1, <1>5
  <2>2. Place(t, k + 1) = IF t + (k + 1) - 1 < Capacity THEN t + (k + 1) - 1
                          ELSE t + (k + 1) - 1 - Capacity
    BY <2>1, PlaceIndex
  <2>3. QED BY <1>1, <1>2, <1>3, <1>5, <2>2
<1>6. QED BY <1>4, <1>5

\* The next event goes behind the newest one; in a full ring, over the oldest.
LEMMA HeadPlace ==
  ASSUME RingInv
  PROVE  head = IF count < Capacity THEN Place(tail, count + 1) ELSE tail
<1>1. tail \in 0..(Capacity - 1) /\ count \in 0..Capacity /\ Capacity \in Nat \ {0}
  BY RingAssumption DEF RingInv, RingTypeOK, Index
<1>2. head = (tail + count) % Capacity
  BY DEF RingInv, RingIsConsistent
<1>3. CASE count < Capacity
  <2>1. tail + (count + 1) - 1 = tail + count
    BY <1>1
  <2>2. QED BY <1>2, <1>3, <2>1 DEF Place
<1>4. CASE count = Capacity
  <2>1. tail + count \in 0..(2 * Capacity - 1) /\ ~(count < Capacity)
    BY <1>1, <1>4
  <2>2. QED BY <1>1, <1>2, <1>4, <2>1, Wrapped
<1>5. QED BY <1>1, <1>3, <1>4

-----------------------------------------------------------------------------
(* The queue the ring stands for. *)

\* The two parts of RingIsConsistent in terms of places.
LEMMA HeldPlaces ==
  ASSUME NEW t \in Index, NEW n \in 0..Capacity, NEW array
  PROVE  (\A k \in 0..(n - 1) : array[(t + k) % Capacity] \in Events)
           <=> (\A k \in 1..n : array[Place(t, k)] \in Events)
<1>1. t \in 0..(Capacity - 1) /\ Capacity \in Nat \ {0}
  BY RingAssumption DEF Index
<1>2. ASSUME NEW k \in 1..n PROVE k - 1 \in 0..(n - 1) /\ t + (k - 1) = t + k - 1
  BY <1>1
<1>3. ASSUME NEW k \in 0..(n - 1) PROVE k + 1 \in 1..n /\ t + (k + 1) - 1 = t + k
  BY <1>1
<1>4. ASSUME \A k \in 0..(n - 1) : array[(t + k) % Capacity] \in Events, NEW k \in 1..n
      PROVE  array[Place(t, k)] \in Events
  <2>1. array[(t + (k - 1)) % Capacity] \in Events
    BY <1>2, <1>4
  <2>2. QED BY <1>2, <2>1 DEF Place
<1>5. ASSUME \A k \in 1..n : array[Place(t, k)] \in Events, NEW k \in 0..(n - 1)
      PROVE  array[(t + k) % Capacity] \in Events
  <2>1. array[Place(t, k + 1)] \in Events
    BY <1>3, <1>5
  <2>2. QED BY <1>3, <2>1 DEF Place
<1>6. QED BY <1>4, <1>5

LEMMA AfterNewest ==
  ASSUME NEW t \in Index, NEW n \in 1..Capacity
  PROVE  (t + n) % Capacity = After(Place(t, n))
<1>1. t \in 0..(Capacity - 1) /\ Capacity \in Nat \ {0} /\ t + n \in 0..(2 * Capacity - 1)
  BY RingAssumption DEF Index
<1>2. Place(t, n) \in Index
      /\ Place(t, n) = IF t + n - 1 < Capacity THEN t + n - 1 ELSE t + n - 1 - Capacity
  BY PlaceIndex
<1>3. (t + n) % Capacity = IF t + n < Capacity THEN t + n ELSE t + n - Capacity
  BY <1>1, Wrapped
<1>4. QED BY <1>1, <1>2, <1>3, AfterIndex

LEMMA QueuedIsSeq ==
  ASSUME NEW t \in Index, NEW n \in 0..Capacity, NEW array, AllEvents(array, t, n)
  PROVE  /\ Queued(array, t, n) \in Seq(Events) /\ Len(Queued(array, t, n)) = n
         /\ \A k \in 1..n : Queued(array, t, n)[k] = array[Place(t, k)]
<1>1. n \in Nat
  BY RingAssumption
<1>2. QED BY <1>1 DEF Queued, AllEvents

\* What the invariant says in terms of places.
LEMMA RingPlaces ==
  ASSUME RingInv
  PROVE  /\ Capacity \in Nat \ {0} /\ tail \in Index /\ head \in Index /\ count \in 0..Capacity
         /\ AllEvents(buffer, tail, count)
         /\ Contents = Queued(buffer, tail, count)
         /\ Contents \in Seq(Events) /\ Len(Contents) = count
<1>1. Capacity \in Nat \ {0} /\ tail \in Index /\ head \in Index /\ count \in 0..Capacity
  BY RingAssumption DEF RingInv, RingTypeOK
<1>2. AllEvents(buffer, tail, count)
  BY <1>1, HeldPlaces DEF RingInv, RingIsConsistent, AllEvents
<1>3. Contents = Queued(buffer, tail, count)
  BY DEF Contents, Queued, Place
<1>4. QED BY <1>1, <1>2, <1>3, QueuedIsSeq

\* A ring whose events are in their places is consistent.
LEMMA ConsistentNext ==
  ASSUME RingTypeOK', AllEvents(buffer', tail', count'),
         head' = (tail' + count') % Capacity
  PROVE  RingInv' /\ Contents' \in Seq(Events) /\ Len(Contents') = count'
<1>1. count' \in 0..Capacity /\ tail' \in Index
  BY DEF RingTypeOK, Index
<1>2. \A k \in 0..(count' - 1) : buffer'[(tail' + k) % Capacity] \in Events
  BY <1>1, HeldPlaces DEF AllEvents
<1>3. Contents' = Queued(buffer', tail', count')
  BY DEF Contents, Queued, Place
<1>4. QED BY <1>1, <1>2, <1>3, QueuedIsSeq DEF RingInv, RingIsConsistent

-----------------------------------------------------------------------------
(* The operations. *)

\* Popping: every event moves up by one place.
LEMMA PopInv == ASSUME RingInv, PopEvent PROVE RingInv' /\ Contents' = Tail(Contents)
<1>1. /\ Capacity \in Nat \ {0} /\ count \in 1..Capacity /\ tail \in Index
      /\ tail' = After(tail) /\ tail' \in Index /\ count' = count - 1
      /\ UNCHANGED <<buffer, head>>
  BY RingPlaces, AfterIndex DEF PopEvent
<1>2. \A k \in 1..count' : k + 1 \in 1..count /\ Place(tail', k) = Place(tail, k + 1)
  BY <1>1, PlaceAfter
<1>3. RingTypeOK'
  BY <1>1 DEF RingInv, RingTypeOK
<1>4. head' = (tail' + count') % Capacity
  <2>1. head = After(Place(tail, count))
    BY <1>1, AfterNewest DEF RingInv, RingIsConsistent
  <2>2. CASE count = 1
    <3>1. Place(tail, 1) = tail
      BY <1>1, PlaceIndex DEF Index
    <3>2. tail' \in 0..(2 * Capacity - 1) /\ tail' + count' = tail' /\ tail' < Capacity
      BY <1>1, <2>2 DEF Index
    <3>3. QED BY <1>1, <2>1, <2>2, <3>1, <3>2, Wrapped
  <2>3. CASE count # 1
    <3>1. count' \in 1..Capacity /\ count' \in 1..count' /\ count' + 1 = count
      BY <1>1, <2>3
    <3>2. Place(tail', count') = Place(tail, count)
      BY <1>2, <3>1
    <3>3. (tail' + count') % Capacity = After(Place(tail', count'))
      BY <1>1, <3>1, AfterNewest
    <3>4. QED BY <1>1, <2>1, <3>2, <3>3
  <2>4. QED BY <2>2, <2>3
<1>5. AllEvents(buffer', tail', count')
  BY <1>1, <1>2, RingPlaces DEF AllEvents
<1>6. RingInv' /\ Contents' \in Seq(Events) /\ Len(Contents') = count'
  BY <1>3, <1>4, <1>5, ConsistentNext
<1>7. Contents' = Tail(Contents)
  <2>1. Contents = Queued(buffer, tail, count) /\ Contents' = Queued(buffer', tail', count')
    BY DEF Contents, Queued, Place
  <2>2. Contents \in Seq(Events) /\ Len(Contents) = count /\ Contents # <<>>
    BY <1>1, RingPlaces
  <2>3. /\ Tail(Contents) \in Seq(Events) /\ Len(Tail(Contents)) = count'
        /\ \A k \in 1..count' : Tail(Contents)[k] = Contents[k + 1]
    BY <1>1, <2>2, HeadTailProperties
  <2>4. \A k \in 1..count' : Contents'[k] = Contents[k + 1]
    BY <1>1, <1>2, <2>1 DEF Queued
  <2>5. QED BY <1>6, <2>3, <2>4, SeqEqual
<1>8. QED BY <1>6, <1>7

\* Pushing into a ring with room: no event moves.
LEMMA PushInv ==
  ASSUME RingInv, NEW e \in Events, PushEvent(e), count < Capacity
  PROVE  RingInv' /\ Contents' = Append(Contents, e)
<1>1. /\ Capacity \in Nat \ {0} /\ count \in 0..Capacity /\ tail \in Index /\ head \in Index
      /\ tail' = tail /\ count' = count + 1 /\ count' \in 1..Capacity
      /\ head' = After(head) /\ head' \in Index
      /\ buffer' = [buffer EXCEPT ![head] = e]
      /\ buffer \in [Index -> Events \union {NoEvent}]
  BY RingPlaces, AfterIndex DEF PushEvent, RingInv, RingTypeOK
<1>2. head = Place(tail, count')
  BY <1>1, HeadPlace
<1>3. \A k \in 1..count' : Place(tail, k) \in Index /\ (k # count' => Place(tail, k) # head)
  BY <1>1, <1>2, PlaceIndex, PlacesDiffer
<1>4. \A k \in 1..count' :
        buffer'[Place(tail, k)] = IF k = count' THEN e ELSE buffer[Place(tail, k)]
  BY <1>1, <1>2, <1>3
<1>5. RingTypeOK'
  BY <1>1 DEF RingInv, RingTypeOK
<1>6. AllEvents(buffer', tail', count')
  BY <1>1, <1>4, RingPlaces DEF AllEvents
<1>7. head' = (tail' + count') % Capacity
  BY <1>1, <1>2, AfterNewest
<1>8. RingInv' /\ Contents' \in Seq(Events) /\ Len(Contents') = count'
  BY <1>5, <1>6, <1>7, ConsistentNext
<1>9. Contents' = Append(Contents, e)
  <2>1. Contents = Queued(buffer, tail, count) /\ Contents' = Queued(buffer', tail', count')
    BY DEF Contents, Queued, Place
  <2>2. \A k \in 1..count' : Contents'[k] = IF k = count' THEN e ELSE Contents[k]
    BY <1>1, <1>4, <2>1 DEF Queued
  <2>3. Contents \in Seq(Events) /\ Len(Contents) = count
    BY RingPlaces
  <2>4. /\ Append(Contents, e) \in Seq(Events) /\ Len(Append(Contents, e)) = count'
        /\ \A k \in 1..count' : Append(Contents, e)[k] = IF k = count' THEN e ELSE Contents[k]
    BY <1>1, <2>3
  <2>5. QED BY <1>8, <2>2, <2>4, SeqEqual
<1>10. QED BY <1>8, <1>9

\* Pushing into a full ring: the oldest event is lost, the others move up.
LEMMA PushFullInv ==
  ASSUME RingInv, NEW e \in Events, PushEvent(e), ~(count < Capacity)
  PROVE  RingInv' /\ Contents' = Append(Tail(Contents), e)
<1>1. /\ Capacity \in Nat \ {0} /\ count = Capacity /\ tail \in Index
      /\ head = tail /\ tail' = After(tail) /\ tail' \in Index /\ count' = count
      /\ head' = tail'
      /\ buffer' = [buffer EXCEPT ![tail] = e]
      /\ buffer \in [Index -> Events \union {NoEvent}]
  <2>1. Capacity \in Nat \ {0} /\ count = Capacity /\ tail \in Index
    BY RingPlaces
  <2>2. head = tail
    BY HeadPlace
  <2>3. After(tail) \in Index
    BY <2>1, AfterIndex
  <2>4. QED BY <2>1, <2>2, <2>3 DEF PushEvent, RingInv, RingTypeOK
<1>2. \A k \in 1..Capacity :
        Place(tail', k) = IF k = Capacity THEN tail ELSE Place(tail, k + 1)
  BY <1>1, PlaceAfter
<1>3. \A k \in 1..Capacity : Place(tail, k) \in Index /\ (k # 1 => Place(tail, k) # tail)
  <2>1. Place(tail, 1) = tail
    BY <1>1, PlaceIndex DEF Index
  <2>2. QED BY <1>1, <2>1, PlaceIndex, PlacesDiffer
<1>4. \A k \in 1..Capacity :
        buffer'[Place(tail', k)] = IF k = Capacity THEN e ELSE buffer[Place(tail, k + 1)]
  <2> SUFFICES ASSUME NEW k \in 1..Capacity
               PROVE  buffer'[Place(tail', k)]
                        = IF k = Capacity THEN e ELSE buffer[Place(tail, k + 1)]
    OBVIOUS
  <2>1. CASE k = Capacity
    BY <1>1, <1>2, <2>1
  <2>2. CASE k # Capacity
    <3>1. k + 1 \in 1..Capacity /\ k + 1 # 1
      BY <1>1, <2>2
    <3>2. Place(tail, k + 1) \in Index /\ Place(tail, k + 1) # tail
      BY <1>3, <3>1
    <3>3. QED BY <1>1, <1>2, <2>2, <3>2
  <2>3. QED BY <2>1, <2>2
<1>5. RingTypeOK'
  BY <1>1 DEF RingInv, RingTypeOK
<1>6. AllEvents(buffer', tail', count')
  <2>1. \A k \in 1..Capacity : k # Capacity => buffer[Place(tail, k + 1)] \in Events
    BY <1>1, RingPlaces DEF AllEvents
  <2>2. QED BY <1>1, <1>4, <2>1 DEF AllEvents
<1>7. head' = (tail' + count') % Capacity
  <2>1. tail' \in 0..(Capacity - 1) /\ count' = Capacity
    BY <1>1 DEF Index
  <2>2. PICK n \in 0..(2 * Capacity - 1) : n = tail' + count'
    BY <1>1, <2>1
  <2>3. n % Capacity = n - Capacity
    BY <1>1, <2>1, <2>2, Wrapped
  <2>4. QED BY <1>1, <2>1, <2>2, <2>3
<1>8. RingInv' /\ Contents' \in Seq(Events) /\ Len(Contents') = count'
  BY <1>5, <1>6, <1>7, ConsistentNext
<1>9. Contents' = Append(Tail(Contents), e)
  <2>1. Contents = Queued(buffer, tail, count) /\ Contents' = Queued(buffer', tail', count')
    BY DEF Contents, Queued, Place
  <2>2. Contents \in Seq(Events) /\ Len(Contents) = count /\ Contents # <<>>
    BY <1>1, RingPlaces
  <2>3. /\ Tail(Contents) \in Seq(Events) /\ Len(Tail(Contents)) = Capacity - 1
        /\ \A k \in 1..(Capacity - 1) : Tail(Contents)[k] = Contents[k + 1]
    BY <1>1, <2>2, HeadTailProperties
  <2>4. \A k \in 1..Capacity : Contents'[k] = IF k = Capacity THEN e ELSE Contents[k + 1]
    BY <1>1, <1>4, <2>1 DEF Queued
  <2>5. PICK rest \in Seq(Events) : rest = Tail(Contents)
    BY <2>3
  <2>6. /\ Append(rest, e) \in Seq(Events) /\ Len(Append(rest, e)) = Capacity
        /\ \A k \in 1..Capacity :
             Append(rest, e)[k] = IF k = Capacity THEN e ELSE rest[k]
    BY <1>1, <2>3, <2>5
  <2>7. \A k \in 1..Capacity : k # Capacity => rest[k] = Contents[k + 1]
    BY <1>1, <2>3, <2>5
  <2>8. QED BY <1>1, <1>8, <2>4, <2>5, <2>6, <2>7, SeqEqual
<1>10. QED BY <1>8, <1>9

-----------------------------------------------------------------------------
(* The ring implements its queue. *)

LEMMA RingInitInv == Init => RingInv /\ Queue!Init
<1> SUFFICES ASSUME Init PROVE RingInv /\ Queue!Init
  OBVIOUS
<1>1. Capacity \in Nat \ {0} /\ 0 \in Index /\ 0 \in 0..Capacity /\ 0 % Capacity = 0
  BY RingAssumption, Wrapped DEF Index
<1>2. RingTypeOK
  BY <1>1 DEF Init, RingTypeOK
<1>3. RingIsConsistent
  BY <1>1 DEF Init, RingIsConsistent
<1>4. Contents = <<>>
  BY DEF Init, Contents
<1>5. QED BY <1>2, <1>3, <1>4 DEF RingInv, Queue!Init

LEMMA RingStep ==
  ASSUME RingInv, [Next]_vars
  PROVE  RingInv' /\ [Queue!Next]_Contents
<1>1. CASE PopEvent
  <2>1. RingInv' /\ Contents' = Tail(Contents)
    BY <1>1, PopInv
  <2>2. Contents # <<>>
    BY <1>1, RingPlaces DEF PopEvent
  <2>3. QED BY <2>1, <2>2 DEF Queue!Next, Queue!Pop
<1>2. ASSUME NEW e \in Events, PushEvent(e) PROVE RingInv' /\ [Queue!Next]_Contents
  <2>1. Len(Contents) = count
    BY RingPlaces
  <2>2. CASE count < Capacity
    BY <1>2, <2>1, <2>2, PushInv DEF Queue!Next, Queue!Push
  <2>3. CASE ~(count < Capacity)
    BY <1>2, <2>1, <2>3, PushFullInv DEF Queue!Next, Queue!Push
  <2>4. QED BY <2>2, <2>3
<1>3. CASE UNCHANGED vars
  BY <1>3 DEF vars, RingInv, RingTypeOK, RingIsConsistent, Contents
<1>4. QED BY <1>1, <1>2, <1>3 DEF Next

\* The ring is the queue of the newest events, however its owner pushes and
\* pops: EspNowNode, in critical sections of two tasks.
THEOREM RingIsAQueue == Spec => QueueSpec
<1>1. Init => RingInv /\ Queue!Init
  BY RingInitInv
<1>2. RingInv /\ [Next]_vars => RingInv' /\ [Queue!Next]_Contents
  BY RingStep
<1>3. QED BY <1>1, <1>2, PTL DEF Spec, QueueSpec, Queue!Spec

-----------------------------------------------------------------------------
(* The button. *)

\* EventsAlternate, of any sequence.
Alternating(s, last) ==
  /\ \A i \in 1..(Len(s) - 1) : s[i] # s[i + 1]
  /\ s # <<>> => s[Len(s)] = last

LEMMA TailAlternates ==
  ASSUME NEW s \in Seq(Events), s # <<>>, NEW last, Alternating(s, last)
  PROVE  Alternating(Tail(s), last)
<1>1. /\ Tail(s) \in Seq(Events) /\ Len(Tail(s)) = Len(s) - 1
      /\ \A i \in 1..(Len(s) - 1) : Tail(s)[i] = s[i + 1]
      /\ Len(s) \in Nat
  BY HeadTailProperties
<1>2. \A i \in 1..(Len(Tail(s)) - 1) :
        i + 1 \in 1..(Len(s) - 1) /\ i \in 1..(Len(s) - 1)
  BY <1>1
<1>3. \A i \in 1..(Len(Tail(s)) - 1) : Tail(s)[i] # Tail(s)[i + 1]
  BY <1>1, <1>2 DEF Alternating
<1>4. Tail(s) # <<>> => Tail(s)[Len(Tail(s))] = last
  BY <1>1 DEF Alternating
<1>5. QED BY <1>3, <1>4 DEF Alternating

LEMMA AppendAlternates ==
  ASSUME NEW s \in Seq(Events), NEW last, NEW e \in Events, Alternating(s, last), e # last
  PROVE  Alternating(Append(s, e), e)
<1>1. /\ Len(Append(s, e)) = Len(s) + 1 /\ Len(s) \in Nat
      /\ \A i \in 1..(Len(s) + 1) : Append(s, e)[i] = IF i = Len(s) + 1 THEN e ELSE s[i]
  OBVIOUS
<1>2. ASSUME NEW i \in 1..Len(s) PROVE Append(s, e)[i] # Append(s, e)[i + 1]
  <2>1. Append(s, e)[i] = s[i]
    BY <1>1
  <2>2. CASE i = Len(s)
    <3>1. s # <<>> /\ s[i] = last
      BY <2>2 DEF Alternating
    <3>2. QED BY <1>1, <2>1, <2>2, <3>1
  <2>3. CASE i # Len(s)
    <3>1. i \in 1..(Len(s) - 1)
      BY <1>1, <2>3
    <3>2. QED BY <1>1, <2>1, <2>3, <3>1 DEF Alternating
  <2>4. QED BY <2>2, <2>3
<1>3. QED BY <1>1, <1>2 DEF Alternating

\* The inductive invariant of the button.
ButtonInv == ButtonTypeOK /\ RingIsConsistent /\ Alternating(Contents, state)

LEMMA ButtonInvParts ==
  ButtonInv <=> ButtonTypeOK /\ RingInv /\ Alternating(Contents, state)
BY DEF ButtonInv, RingInv, ButtonTypeOK

LEMMA StateType == ASSUME NEW l PROVE StateFromLevel(l) \in Events
BY ButtonAssumption DEF StateFromLevel

LEMMA ButtonInitInv == ButtonInit => ButtonInv /\ Init
<1> SUFFICES ASSUME ButtonInit PROVE ButtonInv
  BY DEF ButtonInit
<1>1. RingInv
  BY RingInitInv DEF ButtonInit
<1>2. Contents = <<>>
  BY DEF ButtonInit, Init, Contents
<1>3. Alternating(Contents, state)
  BY <1>2 DEF Alternating
<1>4. ButtonTypeOK
  <2>1. state \in Events /\ lastRawLevel \in ButtonLevels
    BY StateType DEF ButtonInit
  <2>2. sinceRawChange \in 0..ButtonDebounce
    BY ButtonAssumption DEF ButtonInit
  <2>3. interruptEnabled \in BOOLEAN /\ interruptPending \in BOOLEAN
        /\ level \in ButtonLevels /\ updatePc = "idle"
    BY DEF ButtonInit
  <2>4. QED BY <1>1, <2>1, <2>2, <2>3 DEF ButtonTypeOK, RingInv
<1>5. QED BY <1>1, <1>3, <1>4, ButtonInvParts

\* Reports are pushed only when the state changes.
LEMMA ReadSameInv == ASSUME ButtonInv, ReadSame PROVE ButtonInv' /\ [Next]_vars
<1>1. RingInv /\ Alternating(Contents, state) /\ ButtonTypeOK
  BY ButtonInvParts
<1>2. CASE UNCHANGED <<state, vars>>
  <2>1. Contents' = Contents
    BY <1>2 DEF vars, Contents
  <2>2. QED
    BY <1>1, <1>2, <2>1
    DEF ButtonInv, ButtonTypeOK, RingTypeOK, RingIsConsistent, vars, ReadSame, pinVars
<1>3. CASE PushEvent(state') /\ state' = StateFromLevel(level) /\ state' # state
  <2>1. state' \in Events
    BY <1>3, StateType
  <2>2. RingInv' /\ Contents \in Seq(Events) /\ Len(Contents) = count /\ Capacity \in Nat \ {0}
        /\ count \in 0..Capacity
    BY <1>1, <1>3, <2>1, RingPlaces, PushInv, PushFullInv
  <2>3. Alternating(Contents', state')
    <3>1. CASE count < Capacity
      <4>1. Contents' = Append(Contents, state')
        BY <1>1, <1>3, <2>1, <3>1, PushInv
      <4>2. QED BY <1>1, <1>3, <2>1, <2>2, <4>1, AppendAlternates
    <3>2. CASE ~(count < Capacity)
      <4>1. Contents' = Append(Tail(Contents), state')
        BY <1>1, <1>3, <2>1, <3>2, PushFullInv
      <4>2. Contents # <<>>
        BY <2>2, <3>2
      <4>3. Tail(Contents) \in Seq(Events) /\ Alternating(Tail(Contents), state)
        BY <1>1, <2>2, <4>2, HeadTailProperties, TailAlternates
      <4>4. QED BY <1>3, <2>1, <4>1, <4>3, AppendAlternates
    <3>3. QED BY <3>1, <3>2
  <2>4. ButtonTypeOK'
    BY <1>1, <2>1, <2>2 DEF ButtonTypeOK, RingInv, ReadSame, pinVars
  <2>5. [Next]_vars
    BY <1>3, <2>1 DEF Next
  <2>6. QED BY <2>2, <2>3, <2>4, <2>5 DEF ButtonInv, RingInv
<1>4. QED BY <1>2, <1>3 DEF ReadSame

LEMMA TakeEventInv == ASSUME ButtonInv, TakeEvent PROVE ButtonInv' /\ [Next]_vars
<1>1. RingInv /\ Alternating(Contents, state) /\ ButtonTypeOK
  BY ButtonInvParts
<1>2. RingInv' /\ Contents' = Tail(Contents)
  BY <1>1, PopInv DEF TakeEvent
<1>3. Contents \in Seq(Events) /\ Contents # <<>>
  BY <1>1, RingPlaces DEF TakeEvent, PopEvent
<1>4. Alternating(Contents', state')
  BY <1>1, <1>2, <1>3, TailAlternates DEF TakeEvent, lineVars
<1>5. ButtonTypeOK'
  BY <1>1, <1>2 DEF ButtonTypeOK, RingInv, TakeEvent, pinVars, lineVars
<1>6. QED BY <1>2, <1>4, <1>5 DEF ButtonInv, RingInv, TakeEvent, Next

\* Everything else leaves the ring and the state alone.
LEMMA QuietInv ==
  ASSUME ButtonInv,
         \/ Edge \/ Tick \/ UpdateStarts \/ HandleInterrupt \/ ReadChanged
         \/ DetachInterruptMode \/ UNCHANGED buttonVars
  PROVE  ButtonInv' /\ [Next]_vars
<1>1. UNCHANGED <<vars, state>>
  BY DEF Edge, Tick, UpdateStarts, HandleInterrupt, ReadChanged, DetachInterruptMode,
         lineVars, buttonVars
<1>2. ButtonTypeOK'
  <2>1. UNCHANGED <<buffer, head, tail, count, state>>
    BY <1>1 DEF vars
  <2>2. RingTypeOK'
    BY <2>1 DEF ButtonInv, ButtonTypeOK, RingTypeOK
  <2>3. level' \in ButtonLevels /\ lastRawLevel' \in ButtonLevels
        /\ sinceRawChange' \in 0..ButtonDebounce
        /\ updatePc' \in {"idle", "clear", "read"}
    BY ButtonAssumption
    DEF ButtonInv, ButtonTypeOK, Edge, Tick, UpdateStarts, HandleInterrupt, ReadChanged,
        DetachInterruptMode, lineVars, pinVars, buttonVars
  <2>4. interruptEnabled' \in BOOLEAN /\ interruptPending' \in BOOLEAN
    BY DEF ButtonInv, ButtonTypeOK, Edge, Tick, UpdateStarts, HandleInterrupt, ReadChanged,
           DetachInterruptMode, buttonVars
  <2>5. QED BY <2>1, <2>2, <2>3, <2>4 DEF ButtonInv, ButtonTypeOK
<1>3. Contents' = Contents /\ RingIsConsistent'
  BY <1>1 DEF ButtonInv, vars, Contents, RingIsConsistent
<1>4. QED BY <1>1, <1>2, <1>3 DEF ButtonInv

LEMMA ButtonNextInv == ButtonInv /\ [ButtonNext]_buttonVars => ButtonInv' /\ [Next]_vars
BY ReadSameInv, TakeEventInv, QuietInv DEF ButtonNext, Update

LEMMA ButtonInvariance == ButtonSpec => []ButtonInv
<1>1. ButtonInit => ButtonInv
  BY ButtonInitInv
<1>2. ButtonInv /\ [ButtonNext]_buttonVars => ButtonInv'
  BY ButtonNextInv
<1>3. QED BY <1>1, <1>2, PTL DEF ButtonSpec

\* The application never pops two presses without the release between them, and
\* the newest event in the queue is the state.
THEOREM PressesAlternate == ButtonSpec => []EventsAlternate
<1>1. ButtonInv => EventsAlternate
  BY DEF ButtonInv, Alternating, EventsAlternate
<1>2. QED BY <1>1, ButtonInvariance, PTL

\* The ring of a button is the queue, too.
THEOREM ButtonImplementsQueue == ButtonSpec => QueueSpec
<1>1. ButtonSpec => Spec
  <2>1. ButtonInit => ButtonInv /\ Init
    BY ButtonInitInv
  <2>2. ButtonInv /\ [ButtonNext]_buttonVars => [Next]_vars
    BY ButtonNextInv
  <2>3. QED BY <2>1, <2>2, ButtonInvariance, PTL DEF ButtonSpec, Spec
<1>2. QED BY <1>1, RingIsAQueue
-----------------------------------------------------------------------------
(* The two devices side by side. *)

LEMMA InputsInvariance == MCSpec => [](HidInv /\ ButtonInv)
<1>1. MCInit => HidInv /\ ButtonInv
  BY HidInitInv, ButtonInitInv DEF MCInit
<1>2. HidInv /\ ButtonInv /\ [MCNext]_inputsVars => (HidInv /\ ButtonInv)'
  <2>1. [MCNext]_inputsVars => [HidNext]_hidVars /\ [ButtonNext]_buttonVars
    BY DEF MCNext, inputsVars
  <2>2. QED BY <2>1, HidNextInv, ButtonNextInv
<1>3. QED BY <1>1, <1>2, PTL DEF MCSpec

\* Neither device leaves its types: times stay under their caps, indices in the
\* ring, and motion within what a report can carry.
THEOREM InputsKeepTypes == MCSpec => []InputsTypeOK
<1>1. HidInv /\ ButtonInv => InputsTypeOK
  BY DEF HidInv, ButtonInv, InputsTypeOK
<1>2. QED BY <1>1, InputsInvariance, PTL
=============================================================================
