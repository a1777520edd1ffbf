---------------------------- MODULE AgentDaemon ----------------------------
(***************************************************************************)
(* The worker of the host client's daemon (tools/ble-agent-client) at one  *)
(* end of a BLE link and the panel's registry at the other.                *)
(*                                                                         *)
(* Hook processes queue events; the worker takes one, or wakes up on its   *)
(* retry tick, looks for interrupted turns in the transcripts, and brings  *)
(* the panel up to date with one command at a time.  Every error ends in   *)
(* the same place: the client is disconnected and every session forgets    *)
(* its slot.  Each end of the link notices a loss in its own time, and the *)
(* panel may handle a command after the client gave it up.                 *)
(*                                                                         *)
(* The panel is the slot table of AgentSlots; AgentRegistry refines it     *)
(* with locks and clocks.  A lease may run out at any time here.           *)
(* disconnect() is taken to bring the link down, as BlueZ promises.        *)
(***************************************************************************)
EXTENDS AgentSlots, Sequences

CONSTANTS
  Sessions,      \* the session ids hooks report
  KeyOf,         \* session_key: the key of each session
  DisplayText,   \* Activity::display_text: the text of each activity's state
  Remove,        \* Activity::Remove; the other activities are their states
  NoSlot, None,  \* slot: None; nothing in a channel
  Interrupted,   \* the text mark_interrupted sets
  QueueCap,      \* capacity of the mpsc channel (64)
  MaxEvents,     \* bound: hook events and aborted turns in a behaviour
  MaxFaults      \* bound: losses, failed connections and late answers

\* The commands of AgentClient and the responses it understands.
Commands == {"register", "unregister", "text", "state"}
Request  == [op: Commands, key: Keys, id: SlotIds \union {NoAgent}, text: Texts, state: States]
Reply    == [op: Commands, ok: BOOLEAN, id: SlotIds \union {NoAgent}]

ASSUME DaemonAssumption ==
  /\ KeyOf \in [Sessions -> Keys]
  /\ \A s, t \in Sessions : KeyOf[s] = KeyOf[t] => s = t
  /\ DisplayText \in [States -> Texts]
  /\ Remove \notin States
  /\ None \notin Sessions \union Request \union Reply /\ NoSlot \notin SlotIds
  /\ Names # {}
  /\ Interrupted \in Texts
  /\ QueueCap \in Nat \ {0} /\ MaxEvents \in Nat /\ MaxFaults \in Nat

VARIABLES
  queue,     \* the mpsc channel
  aborts,    \* sessions whose transcript has a turn_aborted past the offset
  known,     \* sessions: the session ids in the worker's map
  agent,     \* their SessionAgents
  pc,        \* where the worker is
  todo,      \* dirty sessions the loop of synchronize has not reached
  cur,       \* the session it is at
  removed,   \* sessions it has unregistered
  clientUp,  \* the client holds a connection it believes in
  panelUp,   \* m_connected of the panel
  request,   \* the command on its way to the panel
  reply,     \* the indication on its way back
  slots,     \* the panel's slot table
  told,      \* ghost: the last activity the worker took from the queue
  events,    \* bound
  faults     \* bound

workerVars == <<known, agent, pc, todo, cur, removed>>
linkVars   == <<clientUp, panelUp, request, reply>>
bounds     == <<events, faults>>
vars       == <<queue, aborts, workerVars, linkVars, slots, told, bounds>>

SessionAgent ==
  [state: States, text: Texts, slot: SlotIds \union {NoSlot}, remove: BOOLEAN, dirty: BOOLEAN]

Absent == [state |-> Idle, text |-> DisplayText[Idle], slot |-> NoSlot,
           remove |-> FALSE, dirty |-> FALSE]

NewAgent == [Absent EXCEPT !.dirty = TRUE]

Init ==
  /\ queue = <<>> /\ aborts = {}
  /\ known = {} /\ agent = [s \in Sessions |-> Absent]
  /\ pc = "wait" /\ todo = {} /\ cur = None /\ removed = {}
  /\ clientUp = FALSE /\ panelUp = FALSE /\ request = None /\ reply = None
  /\ slots = EmptyTable
  /\ told = [s \in Sessions |-> None]
  /\ events = 0 /\ faults = 0

-----------------------------------------------------------------------------
(* Codex and its hooks. *)

HookEvent(s, activity) ==
  /\ Len(queue) < QueueCap
  /\ events < MaxEvents
  /\ queue' = Append(queue, [session |-> s, activity |-> activity])
  /\ events' = events + 1
  /\ UNCHANGED <<aborts, workerVars, linkVars, slots, told, faults>>

\* Codex writes turn_aborted to the transcript the daemon follows.
TurnAborted(s) ==
  /\ s \in known
  /\ events < MaxEvents
  /\ aborts' = aborts \union {s}
  /\ events' = events + 1
  /\ UNCHANGED <<queue, workerVars, linkVars, slots, told, faults>>

-----------------------------------------------------------------------------
(* SessionAgent. *)

Apply(a, activity) ==
  IF activity = Remove
  THEN [a EXCEPT !.remove = TRUE, !.dirty = TRUE]
  ELSE [a EXCEPT !.state = activity, !.text = DisplayText[activity],
                 !.remove = FALSE, !.dirty = TRUE]

MarkInterrupted(a) ==
  [a EXCEPT !.state = Idle, !.text = Interrupted, !.remove = FALSE, !.dirty = TRUE]

\* Mutant: the slot is forgotten, but nothing asks for a new one.
ResetSlotOnly(a) == [a EXCEPT !.slot = NoSlot]

ResetConnection(a) == [a EXCEPT !.slot = NoSlot, !.dirty = TRUE]

Reset(agents) == [s \in Sessions |-> IF s \in known THEN ResetConnection(agents[s]) ELSE Absent]

-----------------------------------------------------------------------------
(* ble_worker: an event or the retry tick starts a round. *)

\* A transcript is followed from its end as of the first event of a session.
SetTranscript(s) == IF s \in known THEN aborts ELSE aborts \ {s}

Receive ==
  LET s == Head(queue).session  activity == Head(queue).activity IN
  /\ pc = "wait"
  /\ queue # <<>>
  /\ queue' = Tail(queue)
  /\ known' = known \union {s}
  /\ aborts' = SetTranscript(s)
  /\ agent' = [agent EXCEPT ![s] =
                 Apply(IF s \in known THEN agent[s] ELSE NewAgent, activity)]
  /\ told' = [told EXCEPT ![s] = activity]
  /\ pc' = "detect"
  /\ UNCHANGED <<todo, cur, removed, linkVars, slots, bounds>>

RetryTick ==
  /\ pc = "wait"
  /\ known # {}
  /\ pc' = "detect"
  /\ UNCHANGED <<queue, aborts, known, agent, todo, cur, removed, linkVars, slots, told, bounds>>

DetectInterruptedTurns ==
  /\ pc = "detect"
  /\ agent' = [s \in Sessions |-> IF s \in aborts THEN MarkInterrupted(agent[s]) ELSE agent[s]]
  /\ aborts' = {}
  /\ pc' = "synchronize"
  /\ UNCHANGED <<queue, known, todo, cur, removed, linkVars, slots, told, bounds>>

(* synchronize. *)

Dirty(agents) == {s \in known : agents[s].dirty}

StillConnected ==
  /\ pc = "synchronize"
  /\ clientUp
  /\ todo' = Dirty(agent)
  /\ pc' = "next"
  /\ UNCHANGED <<queue, aborts, known, agent, cur, removed, linkVars, slots, told, bounds>>

\* Mutant: a new connection takes the slots of the old one for granted.
ConnectKeepsSlots ==
  /\ pc = "synchronize"
  /\ ~clientUp /\ ~panelUp
  /\ clientUp' = TRUE /\ panelUp' = TRUE
  /\ todo' = Dirty(agent)
  /\ pc' = "next"
  /\ UNCHANGED <<queue, aborts, known, agent, cur, removed, request, reply, slots, told, bounds>>

\* The panel advertises again once it has seen the last connection end.
Connect ==
  /\ pc = "synchronize"
  /\ ~clientUp /\ ~panelUp
  /\ clientUp' = TRUE /\ panelUp' = TRUE
  /\ agent' = Reset(agent)
  /\ todo' = Dirty(agent')
  /\ pc' = "next"
  /\ UNCHANGED <<queue, aborts, known, cur, removed, request, reply, slots, told, bounds>>

\* find_panel: the panel is out of reach, or still takes itself for connected.
PanelNotFound ==
  /\ pc = "synchronize"
  /\ ~clientUp
  /\ panelUp \/ faults < MaxFaults
  /\ faults' = IF panelUp THEN faults ELSE faults + 1
  /\ pc' = "failed"
  /\ UNCHANGED <<queue, aborts, known, agent, todo, cur, removed, linkVars, slots, told, events>>

\* The connection comes up and pairing, discovery or subscription fails: the
\* client drops it before anything is written.
InitializationFails ==
  /\ pc = "synchronize"
  /\ ~clientUp /\ ~panelUp
  /\ faults < MaxFaults
  /\ faults' = faults + 1
  /\ panelUp' = TRUE
  /\ pc' = "failed"
  /\ UNCHANGED <<queue, aborts, known, agent, todo, cur, removed, clientUp, request, reply,
                 slots, told, events>>

\* The map hands out the dirty sessions in an order of its own.
PickSession(s) ==
  /\ pc = "next"
  /\ s \in todo
  /\ todo' = todo \ {s}
  /\ cur' = s
  /\ pc' = IF agent[s].slot = NoSlot THEN "register"
           ELSE IF agent[s].remove THEN "unregister" ELSE "text"
  /\ UNCHANGED <<queue, aborts, known, agent, removed, linkVars, slots, told, bounds>>

\* Mutant: sessions it removed from the map are still on the list.
EndRoundKeepsList ==
  /\ pc = "next"
  /\ todo = {}
  /\ known' = known \ removed
  /\ agent' = [s \in Sessions |-> IF s \in removed THEN Absent ELSE agent[s]]
  /\ aborts' = aborts \ removed
  /\ pc' = "wait"
  /\ UNCHANGED <<queue, todo, cur, removed, linkVars, slots, told, bounds>>

EndRound ==
  /\ pc = "next"
  /\ todo = {}
  /\ known' = known \ removed
  /\ agent' = [s \in Sessions |-> IF s \in removed THEN Absent ELSE agent[s]]
  /\ aborts' = aborts \ removed
  /\ removed' = {}
  /\ pc' = "wait"
  /\ UNCHANGED <<queue, todo, cur, linkVars, slots, told, bounds>>

-----------------------------------------------------------------------------
(* AgentClient::execute. *)

\* The command of each pc, for the session it is about.
Command(s) ==
  [op |-> pc, key |-> KeyOf[s],
   id |-> IF pc = "register" THEN NoAgent ELSE agent[s].slot,
   text |-> agent[s].text, state |-> agent[s].state]

\* What is written to a link the panel has already lost reaches nobody.
Write ==
  /\ pc \in Commands
  /\ clientUp
  /\ request' = IF panelUp THEN Command(cur) ELSE None
  /\ pc' = "await"
  /\ UNCHANGED <<queue, aborts, known, agent, todo, cur, removed, clientUp, panelUp, reply,
                 slots, told, bounds>>

\* A response with the opcode that was sent and Status::Ok.
Registered ==
  /\ pc = "await" /\ reply # None
  /\ reply.op = "register" /\ reply.ok
  /\ agent' = [agent EXCEPT ![cur].slot = reply.id]
  /\ pc' = IF agent[cur].remove THEN "unregister" ELSE "text"
  /\ reply' = None
  /\ UNCHANGED <<queue, aborts, known, todo, cur, removed, clientUp, panelUp, request,
                 slots, told, bounds>>

Unregistered ==
  /\ pc = "await" /\ reply # None
  /\ reply.op = "unregister" /\ reply.ok
  /\ removed' = removed \union {cur}
  /\ cur' = None
  /\ pc' = "next"
  /\ reply' = None
  /\ UNCHANGED <<queue, aborts, known, agent, todo, clientUp, panelUp, request, slots, told, bounds>>

\* Mutant: a session counts as shown before its state was sent.
TextSetAndClean ==
  /\ pc = "await" /\ reply # None
  /\ reply.op = "text" /\ reply.ok
  /\ agent' = [agent EXCEPT ![cur].dirty = FALSE]
  /\ pc' = "state"
  /\ reply' = None
  /\ UNCHANGED <<queue, aborts, known, todo, cur, removed, clientUp, panelUp, request,
                 slots, told, bounds>>

TextSet ==
  /\ pc = "await" /\ reply # None
  /\ reply.op = "text" /\ reply.ok
  /\ pc' = "state"
  /\ reply' = None
  /\ UNCHANGED <<queue, aborts, known, agent, todo, cur, removed, clientUp, panelUp, request,
                 slots, told, bounds>>

StateSet ==
  /\ pc = "await" /\ reply # None
  /\ reply.op = "state" /\ reply.ok
  /\ agent' = [agent EXCEPT ![cur].dirty = FALSE]
  /\ cur' = None
  /\ pc' = "next"
  /\ reply' = None
  /\ UNCHANGED <<queue, aborts, known, todo, removed, clientUp, panelUp, request,
                 slots, told, bounds>>

\* require_ok: the panel refused the command.
Refused ==
  /\ pc = "await" /\ reply # None
  /\ ~reply.ok
  /\ pc' = "failed"
  /\ UNCHANGED <<queue, aborts, known, agent, todo, cur, removed, linkVars, slots, told, bounds>>

\* The write fails, the stream closes, or response_timeout passes: at once if
\* no answer is left to come, else because the panel is slow.
NoAnswer ==
  /\ \/ pc \in Commands /\ ~clientUp
     \/ pc = "await" /\ reply = None
  /\ ~clientUp \/ request = None \/ faults < MaxFaults
  /\ faults' = IF ~clientUp \/ request = None THEN faults ELSE faults + 1
  /\ pc' = "failed"
  /\ UNCHANGED <<queue, aborts, known, agent, todo, cur, removed, linkVars, slots, told, events>>

\* The error path of ble_worker: client.take(), disconnect, reset_connection.
GiveUp ==
  /\ pc = "failed"
  /\ clientUp' = FALSE
  /\ reply' = None
  /\ agent' = Reset(agent)
  /\ todo' = {} /\ cur' = None /\ removed' = {}
  /\ pc' = "wait"
  /\ UNCHANGED <<queue, aborts, known, panelUp, request, slots, told, bounds>>

-----------------------------------------------------------------------------
(* The panel. *)

Response(op, ok, id) == [op |-> op, ok |-> ok, id |-> id]

\* sendStatus indicates only while the link is up; nobody listens otherwise.
Answer(response) == reply' = IF clientUp THEN response ELSE None

HandleRegister ==
  LET id == RegisteredId(slots, request.key) IN
  /\ request.op = "register"
  /\ slots' = IF id = NoAgent THEN slots
              ELSE RegisterAgent(slots, request.key, CHOOSE n \in Names : TRUE)
  /\ Answer(Response("register", id # NoAgent, id))

HandleUnregister ==
  LET ok == slots[request.id].used IN
  /\ request.op = "unregister"
  /\ slots' = IF ok THEN Unregister(slots, request.id) ELSE slots
  /\ Answer(Response("unregister", ok, request.id))

HandleSetText ==
  LET ok == IsActive(slots, request.id) IN
  /\ request.op = "text"
  /\ slots' = IF ok THEN SetText(slots, request.id, request.text) ELSE slots
  /\ Answer(Response("text", ok, request.id))

HandleSetState ==
  LET ok == IsActive(slots, request.id) IN
  /\ request.op = "state"
  /\ slots' = IF ok THEN SetState(slots, request.id, request.state) ELSE slots
  /\ Answer(Response("state", ok, request.id))

HandleWrite ==
  /\ panelUp
  /\ request # None
  /\ HandleRegister \/ HandleUnregister \/ HandleSetText \/ HandleSetState
  /\ request' = None
  /\ UNCHANGED <<queue, aborts, workerVars, clientUp, panelUp, told, bounds>>

\* A command that had not arrived is lost with the link.
HandleDisconnected ==
  /\ panelUp
  /\ ~clientUp \/ faults < MaxFaults
  /\ faults' = IF clientUp THEN faults + 1 ELSE faults
  /\ panelUp' = FALSE
  /\ request' = None
  /\ slots' = BeginLease(slots, 0)
  /\ UNCHANGED <<queue, aborts, workerVars, clientUp, reply, told, events>>

LeaseRunsOut(id) ==
  /\ slots[id].used /\ ~slots[id].active
  /\ slots' = [slots EXCEPT ![id] = FreeSlot]
  /\ UNCHANGED <<queue, aborts, workerVars, linkVars, told, bounds>>

ClientLosesLink ==
  /\ clientUp
  /\ ~panelUp \/ faults < MaxFaults
  /\ faults' = IF panelUp THEN faults + 1 ELSE faults
  /\ clientUp' = FALSE
  /\ reply' = None
  /\ UNCHANGED <<queue, aborts, workerVars, panelUp, request, slots, told, events>>

-----------------------------------------------------------------------------
Round ==
  \/ Receive \/ RetryTick \/ DetectInterruptedTurns
  \/ StillConnected \/ Connect \/ PanelNotFound \/ InitializationFails
  \/ \E s \in Sessions : PickSession(s)
  \/ EndRound
  \/ Write \/ Registered \/ Unregistered \/ TextSet \/ StateSet
  \/ Refused \/ NoAnswer \/ GiveUp

Panel ==
  \/ HandleWrite
  \/ HandleDisconnected
  \/ \E id \in SlotIds : LeaseRunsOut(id)

Next ==
  \/ \E s \in Sessions, activity \in States \union {Remove} : HookEvent(s, activity)
  \/ \E s \in Sessions : TurnAborted(s)
  \/ Round
  \/ Panel
  \/ ClientLosesLink

Spec == Init /\ [][Next]_vars

\* The worker task runs, and takes an event when there is one; the panel
\* handles what arrives and notices a dead link, and so does the client;
\* leases end.  The worker and the hooks are free to meet failures, within
\* MaxFaults.
Fairness ==
  /\ WF_vars(Round)
  /\ SF_vars(Receive)
  /\ WF_vars(HandleWrite)
  /\ WF_vars(~clientUp /\ HandleDisconnected)
  /\ WF_vars(~panelUp /\ ClientLosesLink)
  /\ \A id \in SlotIds : WF_vars(LeaseRunsOut(id))

FairSpec == Spec /\ Fairness

-----------------------------------------------------------------------------
(* Properties. *)

DaemonTypeOK ==
  /\ queue \in Seq([session: Sessions, activity: States \union {Remove}])
  /\ Len(queue) <= QueueCap
  /\ aborts \in SUBSET Sessions
  /\ known \in SUBSET Sessions
  /\ agent \in [Sessions -> SessionAgent]
  /\ pc \in Commands \union {"wait", "detect", "synchronize", "next", "await", "failed"}
  /\ todo \in SUBSET known /\ removed \in SUBSET known
  /\ cur \in known \union {None}
  /\ clientUp \in BOOLEAN /\ panelUp \in BOOLEAN
  /\ request \in Request \union {None}
  /\ reply \in Reply \union {None}
  /\ slots \in Table
  /\ told \in [Sessions -> States \union {Remove, None}]
  /\ events \in 0..MaxEvents /\ faults \in 0..MaxFaults

\* Both ends agree that they are connected.
Linked == clientUp /\ panelUp /\ pc # "failed"

\* "slot id is not a permanent identity": while both ends are connected, a slot
\* the daemon holds for a session is that session's, live, on the panel,
\* whatever leases, losses and late commands came before.
SlotsAreOurs ==
  \A s \in known \ removed :
    LET id == agent[s].slot IN
    (Linked /\ id # NoSlot) =>
      \/ IsActive(slots, id) /\ slots[id].key = KeyOf[s]
      \/ cur = s /\ reply # None /\ reply.op = "unregister"

\* A clean session is on the panel exactly as the daemon has it.
CleanMeansShown ==
  \A s \in known :
    (Linked /\ ~agent[s].dirty) =>
      /\ agent[s].slot # NoSlot
      /\ slots[agent[s].slot].state = agent[s].state
      /\ slots[agent[s].slot].text = agent[s].text

\* No command, however late the panel handles it, touches another session's slot.
CommandsHitTheirOwner ==
  [][\A id \in SlotIds :
       (HandleWrite /\ slots[id].used /\ slots'[id] # slots[id])
         => slots[id].key = request.key]_vars

\* When hooks fall silent and the faults are over, the panel shows exactly the
\* sessions the daemon knows, each with its state and text, unless they stay
\* too many for it.
Mirrored ==
  /\ \A s \in known : \E id \in SlotIds :
       /\ IsActive(slots, id) /\ slots[id].key = KeyOf[s]
       /\ slots[id].state = agent[s].state /\ slots[id].text = agent[s].text
  /\ \A id \in SlotIds : slots[id].used => \E s \in known : slots[id].key = KeyOf[s]

PanelSettles == <>[](Cardinality(known) <= AgentCount) => <>[]Mirrored

\* "SessionEnd: unregister, cleared": a session that ended leaves the panel,
\* unless another event revives it.
SessionEndClears ==
  \A s \in Sessions :
    told[s] = Remove ~>
      (told[s] # Remove \/ \A id \in SlotIds : slots[id].key # KeyOf[s])
=============================================================================
