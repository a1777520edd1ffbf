------------------------- MODULE AgentDaemon_proofs -------------------------
(***************************************************************************)
(* The slots a daemon holds are its own, its commands hit them and no      *)
(* others, and what it takes for shown is shown: for every number of       *)
(* sessions and slots, any losses, late commands and leases that run out.  *)
(***************************************************************************)
EXTENDS AgentDaemon, AgentSlots_proofs

Both      == clientUp /\ panelUp
QueuedEvent == [session: Sessions, activity: States \union {Remove}]
Exchange  == Commands \union {"await"}
Owned(table, id, key) == IsActive(table, id) /\ table[id].key = key

\* The worker's place in its round: which sessions are still to be seen to,
\* and that they, and those removed, stay dirty.
RoundInv ==
  /\ pc \in {"wait", "detect", "synchronize"} => todo = {} /\ removed = {}
  /\ pc \in {"wait", "detect", "synchronize", "next"} => cur = None
  /\ pc \in Exchange => cur \in known \ removed /\ cur \notin todo /\ agent[cur].dirty
  /\ todo \intersect removed = {}
  /\ \A s \in todo \union removed : agent[s].dirty
  /\ pc \in {"unregister", "text", "state"} => agent[cur].slot # NoSlot

\* A command on its way was written over the connection the panel still has,
\* for a slot that stays its session's until the command is handled.
RequestInv ==
  request # None =>
    /\ panelUp
    /\ clientUp => pc \in {"await", "failed"} /\ reply = None
    /\ request.op # "register" => Owned(slots, request.id, request.key)
    /\ (clientUp /\ pc = "await") =>
         /\ request.key = KeyOf[cur]
         /\ request.text = agent[cur].text /\ request.state = agent[cur].state
         /\ request.op # "register" => request.id = agent[cur].slot
         /\ request.op = "state" => slots[request.id].text = request.text

\* An answer belongs to the command the worker waits for, and says what the
\* panel holds as long as the panel is connected.
ReplyInv ==
  reply # None =>
    /\ clientUp /\ pc \in {"await", "failed"}
    /\ (pc = "await" /\ reply.ok) =>
         /\ reply.id \in SlotIds
         /\ reply.op # "register" => agent[cur].slot = reply.id
         /\ (panelUp /\ reply.op # "unregister") => Owned(slots, reply.id, KeyOf[cur])
         /\ (panelUp /\ reply.op \in {"text", "state"}) => slots[reply.id].text = agent[cur].text
         /\ (panelUp /\ reply.op = "state") => slots[reply.id].state = agent[cur].state

\* Between the two commands that show a session its text is shown.
TextShown == (Both /\ pc = "state") => slots[agent[cur].slot].text = agent[cur].text

\* The inductive invariant.
DaemonInv ==
  /\ DaemonTypeOK
  /\ GoodTable(slots)
  /\ RoundInv /\ RequestInv /\ ReplyInv /\ TextShown
  /\ SlotsAreOurs /\ CleanMeansShown

-----------------------------------------------------------------------------
(* What the operations of a SessionAgent keep. *)

LEMMA AbsentType == Absent \in SessionAgent /\ NewAgent \in SessionAgent
BY SlotsAssumption, DaemonAssumption DEF Absent, NewAgent, SessionAgent

LEMMA ApplyKeeps ==
  ASSUME NEW a \in SessionAgent, NEW activity \in States \union {Remove}
  PROVE  /\ Apply(a, activity) \in SessionAgent
         /\ Apply(a, activity).slot = a.slot /\ Apply(a, activity).dirty
BY DaemonAssumption DEF Apply, SessionAgent

LEMMA MarkInterruptedKeeps ==
  ASSUME NEW a \in SessionAgent
  PROVE  /\ MarkInterrupted(a) \in SessionAgent
         /\ MarkInterrupted(a).slot = a.slot /\ MarkInterrupted(a).dirty
BY SlotsAssumption, DaemonAssumption DEF MarkInterrupted, SessionAgent

\* After a reset every session asks for a slot.
LEMMA ResetKeeps ==
  ASSUME NEW agents \in [Sessions -> SessionAgent], known \in SUBSET Sessions
  PROVE  /\ Reset(agents) \in [Sessions -> SessionAgent]
         /\ \A s \in known : Reset(agents)[s].slot = NoSlot /\ Reset(agents)[s].dirty
<1>1. \A s \in Sessions : /\ ResetConnection(agents[s]) \in SessionAgent
                          /\ ResetConnection(agents[s]).slot = NoSlot
                          /\ ResetConnection(agents[s]).dirty
  BY DEF ResetConnection, SessionAgent
<1>2. QED BY <1>1, AbsentType DEF Reset

-----------------------------------------------------------------------------
LEMMA DaemonInitInv == Init => DaemonInv
<1> SUFFICES ASSUME Init PROVE DaemonInv
  OBVIOUS
<1>1. DaemonTypeOK
  <2>1. queue \in Seq(QueuedEvent) /\ Len(queue) <= QueueCap
    BY DaemonAssumption DEF Init
  <2>2. agent \in [Sessions -> SessionAgent] /\ told \in [Sessions -> States \union {Remove, None}]
    BY AbsentType DEF Init
  <2>3. slots \in Table
    BY EmptyTableIsGood DEF Init, GoodTable
  <2>4. /\ aborts \in SUBSET Sessions /\ known \in SUBSET Sessions
        /\ pc = "wait" /\ todo \in SUBSET known /\ removed \in SUBSET known /\ cur = None
        /\ clientUp \in BOOLEAN /\ panelUp \in BOOLEAN /\ request = None /\ reply = None
    BY DEF Init
  <2>5. events \in 0..MaxEvents /\ faults \in 0..MaxFaults
    BY DaemonAssumption DEF Init
  <2>6. QED
    BY <2>1, <2>2, <2>3, <2>4, <2>5 DEF DaemonTypeOK, QueuedEvent
<1>2. GoodTable(slots)
  BY EmptyTableIsGood DEF Init
<1>3. QED
  BY <1>1, <1>2
  DEF Init, DaemonInv, RoundInv, RequestInv, ReplyInv, TextShown, SlotsAreOurs,
      CleanMeansShown, Exchange, Both, Commands, Linked

(* Codex and its hooks. *)

LEMMA HookEventInv ==
  ASSUME DaemonInv, NEW s \in Sessions, NEW activity \in States \union {Remove},
         HookEvent(s, activity)
  PROVE  DaemonInv'
<1> DEFINE event == [session |-> s, activity |-> activity]
<1>1. event \in QueuedEvent
  BY DEF QueuedEvent
<1>2. queue \in Seq(QueuedEvent) /\ Len(queue) < QueueCap /\ queue' = Append(queue, event)
  BY DEF DaemonInv, DaemonTypeOK, QueuedEvent, HookEvent
<1> HIDE DEF event
<1>3. queue' \in Seq(QueuedEvent) /\ Len(queue') <= QueueCap
  BY <1>1, <1>2, DaemonAssumption
<1>4. DaemonTypeOK'
  BY <1>3, DaemonAssumption
  DEF DaemonInv, DaemonTypeOK, QueuedEvent, HookEvent, workerVars, linkVars
<1>5. QED
  BY <1>4
  DEF DaemonInv, HookEvent, workerVars, linkVars, RoundInv, RequestInv, ReplyInv, TextShown,
      SlotsAreOurs, CleanMeansShown, Exchange, Both, Linked, Owned

LEMMA TurnAbortedInv ==
  ASSUME DaemonInv, NEW s \in Sessions, TurnAborted(s) PROVE DaemonInv'
<1>1. DaemonTypeOK'
  BY DaemonAssumption DEF DaemonInv, DaemonTypeOK, TurnAborted, workerVars, linkVars
<1>2. QED
  BY <1>1
  DEF DaemonInv, TurnAborted, workerVars, linkVars, RoundInv, RequestInv, ReplyInv, TextShown,
      SlotsAreOurs, CleanMeansShown, Exchange, Both, Linked, Owned

(* The start of a round. *)

LEMMA ReceiveInv == ASSUME DaemonInv, Receive PROVE DaemonInv'
<1> DEFINE s == Head(queue).session  activity == Head(queue).activity
<1>1. /\ s \in Sessions /\ activity \in States \union {Remove}
      /\ Tail(queue) \in Seq(QueuedEvent) /\ Len(Tail(queue)) <= QueueCap
  <2>1. queue \in Seq(QueuedEvent) /\ queue # <<>> /\ Len(queue) <= QueueCap
    BY DEF DaemonInv, DaemonTypeOK, QueuedEvent, Receive
  <2>2. Head(queue) \in QueuedEvent /\ Tail(queue) \in Seq(QueuedEvent) /\ Len(Tail(queue)) = Len(queue) - 1
    BY <2>1
  <2>3. QED BY <2>1, <2>2, DaemonAssumption DEF QueuedEvent
<1>2. /\ agent' \in [Sessions -> SessionAgent]
      /\ agent'[s].dirty
      /\ s \in known => agent'[s].slot = agent[s].slot
      /\ s \notin known => agent'[s].slot = NoSlot
      /\ \A t \in Sessions : t # s => agent'[t] = agent[t]
  <2> DEFINE before == IF s \in known THEN agent[s] ELSE NewAgent
  <2>1. before \in SessionAgent /\ (s \notin known => before.slot = NoSlot)
    BY <1>1, AbsentType DEF DaemonInv, DaemonTypeOK, NewAgent, Absent
  <2>2. agent' = [agent EXCEPT ![s] = Apply(before, activity)]
    BY DEF Receive
  <2>3. Apply(before, activity) \in SessionAgent /\ Apply(before, activity).slot = before.slot /\ Apply(before, activity).dirty
    BY <1>1, <2>1, ApplyKeeps
  <2> HIDE DEF s, activity, before
  <2>4. agent' \in [Sessions -> SessionAgent] /\ agent'[s] = Apply(before, activity) /\ \A t \in Sessions : t # s => agent'[t] = agent[t]
    BY <1>1, <2>2, <2>3 DEF DaemonInv, DaemonTypeOK
  <2>5. QED BY <2>1, <2>3, <2>4 DEF before
<1>3. /\ pc = "wait" /\ pc' = "detect" /\ known' = known \union {s}
      /\ queue' = Tail(queue) /\ aborts' \in SUBSET Sessions
      /\ told' \in [Sessions -> States \union {Remove, None}]
      /\ UNCHANGED <<todo, cur, removed, linkVars, slots, bounds>>
  BY <1>1 DEF Receive, DaemonInv, DaemonTypeOK, SetTranscript
<1> HIDE DEF s, activity
<1>4. DaemonTypeOK'
  BY <1>1, <1>2, <1>3 DEF DaemonInv, DaemonTypeOK, QueuedEvent, linkVars, bounds
<1>5. GoodTable(slots)' /\ RoundInv' /\ RequestInv' /\ ReplyInv' /\ TextShown'
  BY <1>3 DEF DaemonInv, RoundInv, RequestInv, ReplyInv, TextShown, Exchange, Commands, Both, Owned, linkVars
<1>6. SlotsAreOurs' /\ CleanMeansShown'
  BY <1>1, <1>2, <1>3 DEF DaemonInv, DaemonTypeOK, RoundInv, SlotsAreOurs, CleanMeansShown, Linked, linkVars
<1>7. QED BY <1>4, <1>5, <1>6 DEF DaemonInv

LEMMA RetryTickInv == ASSUME DaemonInv, RetryTick PROVE DaemonInv'
<1>1. DaemonTypeOK'
  BY DaemonAssumption DEF DaemonInv, DaemonTypeOK, RetryTick, linkVars, bounds
<1>2. QED
  BY <1>1
  DEF DaemonInv, RetryTick, linkVars, RoundInv, RequestInv, ReplyInv, TextShown,
      SlotsAreOurs, CleanMeansShown, Exchange, Commands, Both, Linked, Owned

LEMMA DetectInv == ASSUME DaemonInv, DetectInterruptedTurns PROVE DaemonInv'
<1>1. /\ agent' \in [Sessions -> SessionAgent]
      /\ \A s \in Sessions : \/ agent'[s] = agent[s]
                             \/ agent'[s].slot = agent[s].slot /\ agent'[s].dirty
  BY MarkInterruptedKeeps DEF DaemonInv, DaemonTypeOK, DetectInterruptedTurns
<1>2. /\ pc = "detect" /\ pc' = "synchronize" /\ aborts' = {}
      /\ UNCHANGED <<queue, known, todo, cur, removed, linkVars, slots, told, bounds>>
  BY DEF DetectInterruptedTurns
<1>3. DaemonTypeOK'
  BY <1>1, <1>2 DEF DaemonInv, DaemonTypeOK, linkVars, bounds
<1>4. GoodTable(slots)' /\ RoundInv' /\ RequestInv' /\ ReplyInv' /\ TextShown'
  BY <1>2 DEF DaemonInv, RoundInv, RequestInv, ReplyInv, TextShown, Exchange, Commands, Both, Owned, linkVars
<1>5. SlotsAreOurs' /\ CleanMeansShown'
  BY <1>1, <1>2 DEF DaemonInv, DaemonTypeOK, SlotsAreOurs, CleanMeansShown, Linked, linkVars
<1>6. QED BY <1>3, <1>4, <1>5 DEF DaemonInv

(* synchronize. *)

LEMMA StillConnectedInv == ASSUME DaemonInv, StillConnected PROVE DaemonInv'
<1>1. DaemonTypeOK'
  BY DaemonAssumption DEF DaemonInv, DaemonTypeOK, StillConnected, Dirty, linkVars, bounds
<1>2. QED
  BY <1>1, DaemonAssumption
  DEF DaemonInv, DaemonTypeOK, StillConnected, Dirty, linkVars, bounds, RoundInv, RequestInv, ReplyInv, TextShown, SlotsAreOurs,
      CleanMeansShown, Exchange, Commands, Both, Linked, Owned

LEMMA ConnectInv == ASSUME DaemonInv, Connect PROVE DaemonInv'
<1>1. /\ agent' \in [Sessions -> SessionAgent]
      /\ \A s \in known : agent'[s].slot = NoSlot /\ agent'[s].dirty
  BY ResetKeeps DEF DaemonInv, DaemonTypeOK, Connect
<1>2. DaemonTypeOK'
  BY <1>1 DEF DaemonInv, DaemonTypeOK, Connect, Dirty, bounds
<1>3. QED
  BY <1>1, <1>2
  DEF DaemonInv, DaemonTypeOK, Connect, Dirty, bounds, RoundInv, RequestInv, ReplyInv, TextShown, SlotsAreOurs,
      CleanMeansShown, Exchange, Commands, Both, Linked, Owned

LEMMA PanelNotFoundInv == ASSUME DaemonInv, PanelNotFound PROVE DaemonInv'
<1>1. DaemonTypeOK'
  BY DaemonAssumption DEF DaemonInv, DaemonTypeOK, PanelNotFound, linkVars, bounds
<1>2. QED
  BY <1>1, DaemonAssumption
  DEF DaemonInv, DaemonTypeOK, PanelNotFound, linkVars, bounds, RoundInv, RequestInv, ReplyInv, TextShown, SlotsAreOurs,
      CleanMeansShown, Exchange, Commands, Both, Linked, Owned

LEMMA InitializationFailsInv == ASSUME DaemonInv, InitializationFails PROVE DaemonInv'
<1>1. DaemonTypeOK'
  BY DaemonAssumption DEF DaemonInv, DaemonTypeOK, InitializationFails, linkVars, bounds
<1>2. QED
  BY <1>1, DaemonAssumption
  DEF DaemonInv, DaemonTypeOK, InitializationFails, linkVars, bounds, RoundInv, RequestInv, ReplyInv, TextShown, SlotsAreOurs,
      CleanMeansShown, Exchange, Commands, Both, Linked, Owned

LEMMA PickSessionInv == ASSUME DaemonInv, NEW s \in Sessions, PickSession(s) PROVE DaemonInv'
<1>1. DaemonTypeOK'
  BY DaemonAssumption DEF DaemonInv, DaemonTypeOK, RoundInv, ReplyInv, Exchange, Commands,
      PickSession, linkVars, bounds
<1>2. QED
  BY <1>1, DaemonAssumption
  DEF DaemonInv, DaemonTypeOK, PickSession, linkVars, bounds, RoundInv, RequestInv, ReplyInv, TextShown, SlotsAreOurs,
      CleanMeansShown, Exchange, Commands, Both, Linked, Owned

LEMMA EndRoundInv == ASSUME DaemonInv, EndRound PROVE DaemonInv'
<1>1. /\ agent' \in [Sessions -> SessionAgent]
      /\ \A s \in known' : agent'[s] = agent[s] /\ s \notin removed
  BY AbsentType DEF DaemonInv, DaemonTypeOK, EndRound
<1>2. DaemonTypeOK'
  BY <1>1 DEF DaemonInv, DaemonTypeOK, RoundInv, EndRound, linkVars, bounds
<1>3. QED
  BY <1>1, <1>2
  DEF DaemonInv, DaemonTypeOK, EndRound, linkVars, bounds, RoundInv, RequestInv, ReplyInv, TextShown, SlotsAreOurs,
      CleanMeansShown, Exchange, Commands, Both, Linked, Owned

(* AgentClient::execute. *)

LEMMA WriteInv == ASSUME DaemonInv, Write PROVE DaemonInv'
<1>1. /\ cur \in Sessions /\ KeyOf[cur] \in Keys
      /\ pc # "register" => agent[cur].slot \in SlotIds
      /\ agent[cur].text \in Texts /\ agent[cur].state \in States
  BY DaemonAssumption
  DEF DaemonInv, DaemonTypeOK, RoundInv, Write, Exchange, Commands, SessionAgent
<1>2. Command(cur) \in Request
  BY <1>1 DEF Write, Command, Request
<1>3. DaemonTypeOK'
  BY <1>2 DEF DaemonInv, DaemonTypeOK, Write, bounds
<1>4. QED
  BY <1>1, <1>3, DaemonAssumption
  DEF DaemonInv, DaemonTypeOK, Write, Command, Request, SessionAgent, linkVars, bounds, RoundInv, RequestInv, ReplyInv, TextShown, SlotsAreOurs,
      CleanMeansShown, Exchange, Commands, Both, Linked, Owned

LEMMA RegisteredInv == ASSUME DaemonInv, Registered PROVE DaemonInv'
<1>1. DaemonTypeOK'
  BY DEF DaemonInv, DaemonTypeOK, RoundInv, ReplyInv, Exchange, Commands,
      Registered, SessionAgent, Reply, linkVars, bounds
<1>2. QED
  BY <1>1, DaemonAssumption
  DEF DaemonInv, DaemonTypeOK, Registered, SessionAgent, Reply, linkVars, bounds, RoundInv, RequestInv, ReplyInv, TextShown, SlotsAreOurs,
      CleanMeansShown, Exchange, Commands, Both, Linked, Owned

LEMMA UnregisteredInv == ASSUME DaemonInv, Unregistered PROVE DaemonInv'
<1>1. DaemonTypeOK'
  BY DaemonAssumption DEF DaemonInv, DaemonTypeOK, RoundInv, ReplyInv, Exchange, Commands,
      Unregistered, linkVars, bounds
<1>2. QED
  BY <1>1, DaemonAssumption
  DEF DaemonInv, DaemonTypeOK, Unregistered, linkVars, bounds, RoundInv, RequestInv, ReplyInv, TextShown, SlotsAreOurs,
      CleanMeansShown, Exchange, Commands, Both, Linked, Owned

LEMMA TextSetInv == ASSUME DaemonInv, TextSet PROVE DaemonInv'
<1>1. DaemonTypeOK'
  BY DaemonAssumption DEF DaemonInv, DaemonTypeOK, RoundInv, ReplyInv, Exchange, Commands,
      TextSet, linkVars, bounds
<1>2. QED
  BY <1>1, DaemonAssumption
  DEF DaemonInv, DaemonTypeOK, TextSet, linkVars, bounds, RoundInv, RequestInv, ReplyInv, TextShown, SlotsAreOurs,
      CleanMeansShown, Exchange, Commands, Both, Linked, Owned

LEMMA StateSetInv == ASSUME DaemonInv, StateSet PROVE DaemonInv'
<1>1. DaemonTypeOK'
  BY DaemonAssumption DEF DaemonInv, DaemonTypeOK, RoundInv, ReplyInv, Exchange, Commands,
      StateSet, SessionAgent, linkVars, bounds
<1>2. QED
  BY <1>1, DaemonAssumption
  DEF DaemonInv, DaemonTypeOK, StateSet, SessionAgent, linkVars, bounds, RoundInv, RequestInv, ReplyInv, TextShown, SlotsAreOurs,
      CleanMeansShown, Exchange, Commands, Both, Linked, Owned

LEMMA RefusedInv == ASSUME DaemonInv, Refused PROVE DaemonInv'
<1>1. DaemonTypeOK'
  BY DaemonAssumption DEF DaemonInv, DaemonTypeOK, Refused, linkVars, bounds
<1>2. QED
  BY <1>1, DaemonAssumption
  DEF DaemonInv, DaemonTypeOK, Refused, linkVars, bounds, RoundInv, RequestInv, ReplyInv, TextShown, SlotsAreOurs,
      CleanMeansShown, Exchange, Commands, Both, Linked, Owned

LEMMA NoAnswerInv == ASSUME DaemonInv, NoAnswer PROVE DaemonInv'
<1>1. DaemonTypeOK'
  BY DaemonAssumption DEF DaemonInv, DaemonTypeOK, NoAnswer, linkVars, bounds
<1>2. QED
  BY <1>1, DaemonAssumption
  DEF DaemonInv, DaemonTypeOK, NoAnswer, linkVars, bounds, RoundInv, RequestInv, ReplyInv, TextShown, SlotsAreOurs,
      CleanMeansShown, Exchange, Commands, Both, Linked, Owned

LEMMA GiveUpInv == ASSUME DaemonInv, GiveUp PROVE DaemonInv'
<1>1. /\ agent' \in [Sessions -> SessionAgent]
      /\ \A s \in known : agent'[s].slot = NoSlot /\ agent'[s].dirty
  BY ResetKeeps DEF DaemonInv, DaemonTypeOK, GiveUp
<1>2. DaemonTypeOK'
  BY <1>1 DEF DaemonInv, DaemonTypeOK, GiveUp, bounds
<1>3. QED
  BY <1>1, <1>2
  DEF DaemonInv, DaemonTypeOK, GiveUp, bounds, RoundInv, RequestInv, ReplyInv, TextShown, SlotsAreOurs,
      CleanMeansShown, Exchange, Commands, Both, Linked, Owned

-----------------------------------------------------------------------------
(* The panel. *)

\* While both ends are connected and the worker has not failed, the command on
\* its way is about the session the worker is at.
LEMMA LinkedRequest ==
  ASSUME DaemonInv, request # None, Linked
  PROVE  /\ pc = "await" /\ cur \in known \ removed /\ request.key = KeyOf[cur]
         /\ \A s \in known : s # cur => KeyOf[s] # request.key
BY DaemonAssumption
DEF DaemonInv, DaemonTypeOK, RoundInv, RequestInv, Exchange, Linked

\* A handler changes free slots and those of the command's session only, and
\* answers with what it did.
HandlerIsFair ==
  /\ GoodTable(slots')
  /\ reply' = None \/ reply' \in Reply
  /\ clientUp <=> reply' # None
  /\ \A i \in SlotIds : slots'[i] # slots[i] => (slots[i].used => slots[i].key = request.key)
  /\ request.op # "unregister" =>
       \A i \in SlotIds : Owned(slots, i, request.key) => Owned(slots', i, request.key)
  /\ reply' # None => reply'.op = request.op
  /\ (reply' # None /\ reply'.ok) =>
       /\ reply'.id \in SlotIds
       /\ request.op # "register" => reply'.id = request.id
       /\ request.op # "unregister" => Owned(slots', reply'.id, request.key)
       /\ request.op = "text" => slots'[reply'.id].text = request.text
       /\ request.op = "state" => /\ slots'[reply'.id].state = request.state
                                  /\ slots'[reply'.id].text = slots[reply'.id].text

LEMMA HandledInv ==
  ASSUME DaemonInv, HandleWrite, HandlerIsFair
  PROVE  DaemonInv'
<1>1. /\ panelUp /\ request # None /\ request' = None
      /\ UNCHANGED <<queue, aborts, known, agent, pc, todo, cur, removed, clientUp, panelUp,
                     told, events, faults>>
  BY DEF HandleWrite, workerVars, bounds
<1>2. DaemonTypeOK' /\ GoodTable(slots)'
  BY <1>1 DEF DaemonInv, DaemonTypeOK, GoodTable, HandlerIsFair
<1>3. RoundInv' /\ RequestInv'
  BY <1>1 DEF DaemonInv, RoundInv, RequestInv, Exchange, Commands
<1>4. TextShown'
  BY <1>1 DEF DaemonInv, RequestInv, TextShown, Both
<1>5. ReplyInv'
  BY <1>1 DEF DaemonInv, RequestInv, ReplyInv, HandlerIsFair
<1>6. ASSUME Linked'
      PROVE  /\ Linked /\ pc = "await" /\ cur \in known \ removed /\ request.key = KeyOf[cur]
             /\ agent[cur].dirty
             /\ \A s \in known : s # cur => KeyOf[s] # request.key
  BY <1>1, <1>6, LinkedRequest DEF Linked, DaemonInv, RoundInv, Exchange
<1>7. SlotsAreOurs'
  <2> SUFFICES ASSUME NEW s \in known \ removed, Linked', agent[s].slot # NoSlot
               PROVE  \/ Owned(slots', agent[s].slot, KeyOf[s])
                      \/ cur = s /\ reply' # None /\ reply'.op = "unregister"
    BY <1>1 DEF SlotsAreOurs, Owned
  <2>1. Owned(slots, agent[s].slot, KeyOf[s]) /\ agent[s].slot \in SlotIds
    BY <1>1, <1>6 DEF DaemonInv, SlotsAreOurs, RequestInv, ReplyInv, Linked, Owned, IsActive
  <2>2. CASE s # cur
    BY <1>1, <1>6, <2>1, <2>2 DEF HandlerIsFair, Owned, IsActive
  <2>3. CASE s = cur /\ request.op # "unregister"
    BY <1>1, <1>6, <2>1, <2>3 DEF HandlerIsFair
  <2>4. CASE s = cur /\ request.op = "unregister"
    BY <1>1, <1>6, <2>4 DEF HandlerIsFair, Linked
  <2>5. QED BY <2>2, <2>3, <2>4
<1>8. CleanMeansShown'
  <2> SUFFICES ASSUME NEW s \in known, Linked', ~agent[s].dirty
               PROVE  /\ agent[s].slot # NoSlot
                      /\ slots'[agent[s].slot].state = agent[s].state
                      /\ slots'[agent[s].slot].text = agent[s].text
    BY <1>1 DEF CleanMeansShown
  <2>1. s # cur /\ s \notin removed
    BY <1>6 DEF DaemonInv, RoundInv
  <2>2. /\ agent[s].slot # NoSlot
        /\ slots[agent[s].slot].state = agent[s].state
        /\ slots[agent[s].slot].text = agent[s].text
    BY <1>6 DEF DaemonInv, CleanMeansShown
  <2>3. Owned(slots, agent[s].slot, KeyOf[s]) /\ agent[s].slot \in SlotIds
    BY <1>6, <2>1, <2>2 DEF DaemonInv, SlotsAreOurs, Owned, IsActive
  <2>4. slots'[agent[s].slot] = slots[agent[s].slot]
    BY <1>6, <2>1, <2>3 DEF HandlerIsFair, Owned, IsActive
  <2>5. QED BY <2>2, <2>4
<1>9. QED BY <1>2, <1>3, <1>4, <1>5, <1>7, <1>8 DEF DaemonInv

LEMMA HandleRegisterIsFair ==
  ASSUME DaemonInv, HandleWrite, HandleRegister PROVE HandlerIsFair
<1> DEFINE id == RegisteredId(slots, request.key)
           name == CHOOSE n \in Names : TRUE
<1>1. request \in Request /\ request.key \in Keys /\ slots \in Table /\ GoodTable(slots)
  BY DEF DaemonInv, DaemonTypeOK, HandleWrite, Request
<1>2. name \in Names
  BY DaemonAssumption
<1>3. id = NoAgent \/ id \in SlotIds
  BY <1>1, RegisteredIdFound
<1>4. /\ request.op = "register"
      /\ reply' = IF clientUp THEN [op |-> "register", ok |-> id # NoAgent, id |-> id] ELSE None
      /\ slots' = IF id = NoAgent THEN slots ELSE RegisterAgent(slots, request.key, name)
  BY DEF HandleRegister, Answer, Response
<1> HIDE DEF name, id
<1>5. [op |-> "register", ok |-> id # NoAgent, id |-> id] \in Reply
  BY <1>3 DEF Reply, Commands
<1>6. CASE id = NoAgent
  BY <1>1, <1>4, <1>5, <1>6, DaemonAssumption DEF HandlerIsFair, Owned, IsActive
<1>7. CASE id # NoAgent
  <2>1. GoodTable(slots')
    BY <1>1, <1>2, <1>4, <1>7, RegisterKeepsGood DEF id
  <2>2. /\ id \in SlotIds
        /\ slots'[id].used /\ slots'[id].active /\ slots'[id].key = request.key
        /\ slots[id].used => slots[id].key = request.key
        /\ \A i \in SlotIds : i # id => slots'[i] = slots[i]
    BY <1>1, <1>2, <1>4, <1>7, RegisterEffect DEF id
  <2>3. QED
    BY <1>1, <1>4, <1>5, <1>7, <2>1, <2>2, DaemonAssumption DEF HandlerIsFair, Owned, IsActive
<1>8. QED BY <1>6, <1>7

LEMMA HandleUnregisterIsFair ==
  ASSUME DaemonInv, HandleWrite, HandleUnregister PROVE HandlerIsFair
<1> DEFINE id == request.id
<1>1. /\ request.op = "unregister" /\ Owned(slots, id, request.key) /\ id \in SlotIds
      /\ slots \in Table /\ GoodTable(slots)
  BY DEF DaemonInv, DaemonTypeOK, RequestInv, HandleWrite, HandleUnregister, Owned, IsActive
<1>2. /\ slots' = Unregister(slots, id)
      /\ reply' = IF clientUp THEN [op |-> "unregister", ok |-> TRUE, id |-> id] ELSE None
  BY <1>1 DEF HandleUnregister, Owned, IsActive, Answer, Response
<1>3. GoodTable(slots')
  BY <1>1, <1>2, UnregisterKeepsGood
<1>4. \A i \in SlotIds : i # id => slots'[i] = slots[i]
  BY <1>1, <1>2 DEF Unregister, Table
<1>5. [op |-> "unregister", ok |-> TRUE, id |-> id] \in Reply
  BY <1>1 DEF Reply, Commands
<1> HIDE DEF id
<1>6. \A i \in SlotIds : slots'[i] # slots[i] => slots[i].key = request.key
  BY <1>1, <1>4 DEF Owned
<1>7. QED
  BY <1>1, <1>2, <1>3, <1>5, <1>6, DaemonAssumption DEF HandlerIsFair, id

LEMMA HandleSetTextIsFair ==
  ASSUME DaemonInv, HandleWrite, HandleSetText PROVE HandlerIsFair
<1> DEFINE id == request.id
<1>1. /\ request.op = "text" /\ Owned(slots, id, request.key) /\ id \in SlotIds
      /\ request.text \in Texts /\ slots \in Table /\ GoodTable(slots)
  BY DEF DaemonInv, DaemonTypeOK, RequestInv, HandleWrite, HandleSetText, Owned, IsActive, Request
<1>2. /\ slots' = SetText(slots, id, request.text)
      /\ reply' = IF clientUp THEN [op |-> "text", ok |-> TRUE, id |-> id] ELSE None
  BY <1>1 DEF HandleSetText, Owned, Answer, Response
<1>3. GoodTable(slots')
  BY <1>1, <1>2, SetTextKeepsGood DEF Owned
<1>4. /\ slots'[id].used /\ slots'[id].active /\ slots'[id].key = slots[id].key
      /\ slots'[id].text = request.text
      /\ \A i \in SlotIds : i # id => slots'[i] = slots[i]
  BY <1>1, <1>2 DEF Owned, IsActive, SetText, Table, Slot
<1>5. [op |-> "text", ok |-> TRUE, id |-> id] \in Reply
  BY <1>1 DEF Reply, Commands
<1> HIDE DEF id
<1>6. \A i \in SlotIds : /\ slots'[i] # slots[i] => slots[i].key = request.key
                         /\ Owned(slots, i, request.key) => Owned(slots', i, request.key)
  BY <1>1, <1>4 DEF Owned, IsActive
<1>7. Owned(slots', id, request.key)
  BY <1>1, <1>6
<1>8. QED
  BY <1>1, <1>2, <1>3, <1>4, <1>5, <1>6, <1>7, DaemonAssumption DEF HandlerIsFair, id

LEMMA HandleSetStateIsFair ==
  ASSUME DaemonInv, HandleWrite, HandleSetState PROVE HandlerIsFair
<1> DEFINE id == request.id
<1>1. /\ request.op = "state" /\ Owned(slots, id, request.key) /\ id \in SlotIds
      /\ request.state \in States /\ slots \in Table /\ GoodTable(slots)
  BY DEF DaemonInv, DaemonTypeOK, RequestInv, HandleWrite, HandleSetState, Owned, IsActive, Request
<1>2. /\ slots' = SetState(slots, id, request.state)
      /\ reply' = IF clientUp THEN [op |-> "state", ok |-> TRUE, id |-> id] ELSE None
  BY <1>1 DEF HandleSetState, Owned, Answer, Response
<1>3. GoodTable(slots')
  BY <1>1, <1>2, SetStateKeepsGood DEF Owned
<1>4. /\ slots'[id].used /\ slots'[id].active /\ slots'[id].key = slots[id].key
      /\ slots'[id].state = request.state
      /\ \A i \in SlotIds : i # id => slots'[i] = slots[i]
      /\ slots'[id].text = slots[id].text
  BY <1>1, <1>2 DEF Owned, IsActive, SetState, Table, Slot
<1>5. [op |-> "state", ok |-> TRUE, id |-> id] \in Reply
  BY <1>1 DEF Reply, Commands
<1> HIDE DEF id
<1>6. \A i \in SlotIds : /\ slots'[i] # slots[i] => slots[i].key = request.key
                         /\ Owned(slots, i, request.key) => Owned(slots', i, request.key)
  BY <1>1, <1>4 DEF Owned, IsActive
<1>7. Owned(slots', id, request.key)
  BY <1>1, <1>6
<1>8. QED
  BY <1>1, <1>2, <1>3, <1>4, <1>5, <1>6, <1>7, DaemonAssumption DEF HandlerIsFair, id

LEMMA HandleWriteInv == ASSUME DaemonInv, HandleWrite PROVE HandlerIsFair /\ DaemonInv'
BY HandleRegisterIsFair, HandleUnregisterIsFair, HandleSetTextIsFair, HandleSetStateIsFair,
   HandledInv DEF HandleWrite

LEMMA HandleDisconnectedInv == ASSUME DaemonInv, HandleDisconnected PROVE DaemonInv'
<1>1. GoodTable(slots)'
  BY SlotsAssumption, BeginLeaseKeepsGood DEF DaemonInv, HandleDisconnected, Clock
<1>2. ~panelUp' /\ request' = None
      /\ UNCHANGED <<queue, aborts, known, agent, pc, todo, cur, removed, clientUp, reply,
                     told, events>>
  BY DEF HandleDisconnected, workerVars
<1>3. faults' \in 0..MaxFaults /\ panelUp' \in BOOLEAN /\ slots' \in Table
  <2>1. faults \in 0..MaxFaults /\ MaxFaults \in Nat
    BY DaemonAssumption DEF DaemonInv, DaemonTypeOK
  <2>2. faults' = faults \/ (faults < MaxFaults /\ faults' = faults + 1)
    BY Zenon DEF HandleDisconnected
  <2>3. faults' \in 0..MaxFaults
    BY <2>1, <2>2
  <2>4. QED BY <1>1, <2>3 DEF HandleDisconnected, GoodTable
<1>4. DaemonTypeOK'
  BY <1>2, <1>3 DEF DaemonInv, DaemonTypeOK
<1>5. QED
  BY <1>1, <1>2, <1>4
  DEF DaemonInv, RoundInv, RequestInv, ReplyInv, TextShown, SlotsAreOurs, CleanMeansShown,
      Exchange, Commands, Both, Linked

\* A lease that runs out is not the lease of a slot in use over this connection.
LEMMA LeaseRunsOutInv ==
  ASSUME DaemonInv, NEW id \in SlotIds, LeaseRunsOut(id) PROVE DaemonInv'
<1>1. /\ GoodTable(slots)'
      /\ \A i \in SlotIds : IsActive(slots, i) => slots'[i] = slots[i]
  <2>1. slots' = Unregister(slots, id) /\ slots \in Table /\ GoodTable(slots) /\ ~slots[id].active
    BY DEF LeaseRunsOut, Unregister, DaemonInv, DaemonTypeOK
  <2>2. GoodTable(slots')
    BY <2>1, UnregisterKeepsGood
  <2>3. \A i \in SlotIds : i # id => slots'[i] = slots[i]
    BY <2>1 DEF Unregister, Table
  <2>4. QED BY <2>1, <2>2, <2>3 DEF IsActive
<1>2. UNCHANGED <<queue, aborts, known, agent, pc, todo, cur, removed, clientUp, panelUp,
                  request, reply, told, events, faults>>
  BY DEF LeaseRunsOut, workerVars, linkVars, bounds
<1>3. DaemonTypeOK' /\ RoundInv'
  BY <1>1, <1>2 DEF DaemonInv, DaemonTypeOK, RoundInv, GoodTable, Exchange, Commands
<1>4. RequestInv' /\ ReplyInv'
  BY <1>1, <1>2 DEF DaemonInv, RequestInv, ReplyInv, Owned, IsActive
<1>5. SlotsAreOurs'
  BY <1>1, <1>2 DEF DaemonInv, SlotsAreOurs, Linked, IsActive
<1>6. \A s \in known \ removed :
        (Linked /\ agent[s].slot # NoSlot /\ pc # "await") => Owned(slots, agent[s].slot, KeyOf[s])
  BY DEF DaemonInv, SlotsAreOurs, ReplyInv, Owned, Linked
<1>7. TextShown'
  BY <1>1, <1>2, <1>6
  DEF DaemonInv, RoundInv, TextShown, Exchange, Commands, Both, Linked, Owned, IsActive
<1>8. CleanMeansShown'
  <2> SUFFICES ASSUME NEW s \in known, Linked, ~agent[s].dirty
               PROVE  slots'[agent[s].slot] = slots[agent[s].slot]
    BY <1>2 DEF CleanMeansShown, DaemonInv, Linked
  <2>1. s \notin removed /\ (pc \in Exchange => s # cur) /\ agent[s].slot # NoSlot
    BY DEF DaemonInv, RoundInv, CleanMeansShown
  <2>2. Owned(slots, agent[s].slot, KeyOf[s])
    BY <2>1 DEF DaemonInv, SlotsAreOurs, ReplyInv, Exchange, Owned, Linked
  <2>3. QED BY <1>1, <2>2 DEF Owned, IsActive
<1>9. QED BY <1>1, <1>3, <1>4, <1>5, <1>7, <1>8 DEF DaemonInv

LEMMA ClientLosesLinkInv == ASSUME DaemonInv, ClientLosesLink PROVE DaemonInv'
<1>1. faults' \in 0..MaxFaults /\ clientUp' \in BOOLEAN
  <2>1. faults \in 0..MaxFaults /\ MaxFaults \in Nat
    BY DaemonAssumption DEF DaemonInv, DaemonTypeOK
  <2>2. faults' = faults \/ (faults < MaxFaults /\ faults' = faults + 1)
    BY Zenon DEF ClientLosesLink
  <2>3. faults' \in 0..MaxFaults
    BY <2>1, <2>2
  <2>4. QED BY <2>3 DEF ClientLosesLink
<1>2. DaemonTypeOK'
  BY <1>1 DEF DaemonInv, DaemonTypeOK, ClientLosesLink, workerVars
<1>3. QED
  BY <1>2
  DEF DaemonInv, ClientLosesLink, workerVars, RoundInv, RequestInv, ReplyInv, TextShown,
      SlotsAreOurs, CleanMeansShown, Exchange, Commands, Both, Linked, Owned

-----------------------------------------------------------------------------
LEMMA RoundStepInv == ASSUME DaemonInv, Round PROVE DaemonInv'
BY ReceiveInv, RetryTickInv, DetectInv, StillConnectedInv, ConnectInv, PanelNotFoundInv,
   InitializationFailsInv, PickSessionInv, EndRoundInv, WriteInv, RegisteredInv,
   UnregisteredInv, TextSetInv, StateSetInv, RefusedInv, NoAnswerInv, GiveUpInv
DEF Round

LEMMA DaemonStutterInv == ASSUME DaemonInv, UNCHANGED vars PROVE DaemonInv'
BY DEF vars, workerVars, linkVars, bounds, DaemonInv, DaemonTypeOK, RoundInv, RequestInv,
       ReplyInv, TextShown, SlotsAreOurs, CleanMeansShown, Exchange, Both, Linked, Owned

LEMMA DaemonNextInv == DaemonInv /\ [Next]_vars => DaemonInv'
<1> SUFFICES ASSUME DaemonInv, [Next]_vars PROVE DaemonInv'
  OBVIOUS
<1>1. CASE \E s \in Sessions, activity \in States \union {Remove} : HookEvent(s, activity)
  BY <1>1, HookEventInv
<1>2. CASE \E s \in Sessions : TurnAborted(s)
  BY <1>2, TurnAbortedInv
<1>3. CASE Round
  BY <1>3, RoundStepInv
<1>4. CASE Panel
  BY <1>4, HandleWriteInv, HandleDisconnectedInv, LeaseRunsOutInv DEF Panel
<1>5. CASE ClientLosesLink
  BY <1>5, ClientLosesLinkInv
<1>6. CASE UNCHANGED vars
  BY <1>6, DaemonStutterInv
<1>7. QED BY <1>1, <1>2, <1>3, <1>4, <1>5, <1>6 DEF Next

LEMMA DaemonInvariance == Spec => []DaemonInv
<1>1. Init => DaemonInv
  BY DaemonInitInv
<1>2. DaemonInv /\ [Next]_vars => DaemonInv'
  BY DaemonNextInv
<1>3. QED BY <1>1, <1>2, PTL DEF Spec

\* The worker and the panel keep their types: no command is ever written for a
\* session without a slot, and nothing is asked of a slot that does not exist.
THEOREM DaemonTypeCorrect == Spec => []DaemonTypeOK
<1>1. DaemonInv => DaemonTypeOK
  BY DEF DaemonInv
<1>2. QED BY <1>1, DaemonInvariance, PTL

\* A slot the daemon holds while both ends are connected is its session's.
THEOREM SlotsBelongToSessions == Spec => []SlotsAreOurs
<1>1. DaemonInv => SlotsAreOurs
  BY DEF DaemonInv
<1>2. QED BY <1>1, DaemonInvariance, PTL

\* What the daemon takes for shown is what the panel shows.
THEOREM CleanSessionsAreShown == Spec => []CleanMeansShown
<1>1. DaemonInv => CleanMeansShown
  BY DEF DaemonInv
<1>2. QED BY <1>1, DaemonInvariance, PTL

\* Commands, the late ones too, hit the slot of their session.
THEOREM CommandsStayWithTheirOwner == Spec => CommandsHitTheirOwner
<1>1. DaemonInv /\ [Next]_vars =>
        [\A id \in SlotIds :
           (HandleWrite /\ slots[id].used /\ slots'[id] # slots[id])
             => slots[id].key = request.key]_vars
  BY HandleWriteInv DEF HandlerIsFair
<1>2. QED BY <1>1, DaemonInvariance, PTL DEF Spec, CommandsHitTheirOwner

=============================================================================
