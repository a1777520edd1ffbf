----------------------------- MODULE MqttServer -----------------------------
(***************************************************************************)
(* MqttServer: TCP connections in reused client slots and the table of     *)
(* their subscriptions.  One task runs update(), which accepts a           *)
(* connection and then goes through the slots, reading what each client    *)
(* has sent; connections come, break and fall silent meanwhile.            *)
(*                                                                         *)
(* What a client sends is any packet, well-formed or not.  A write that    *)
(* fails leaves the peer half a packet, so it counts as the connection     *)
(* breaking just before.  topicMatches is in module TopicMatch.            *)
(***************************************************************************)
EXTENDS FiniteSets, TopicMatch
LOCAL INSTANCE Functions

CONSTANTS
  Conns,        \* TCP connections, each opened once
  Filters,      \* the filters clients subscribe, and the topics of messages:
  Topics,       \* sequences of symbols
  MaxClients,   \* m_config.maxClients
  MaxSubs,      \* m_config.maxSubscriptions
  MaxFilters,   \* MaxTopicFiltersPerSubscribe
  MaxMessages,  \* bound: packets the server reads, PUBLISH apart
  MaxPublished, \* bound: messages that are published
  Wishes,       \* bound: the keep-alives, some or none, that the CONNECTs of a
                \* connection ask for
  NoConn,
  NoFilter

ASSUME ServerAssumption ==
  /\ MaxClients \in Nat \ {0} /\ MaxSubs \in Nat /\ MaxFilters \in Nat
  /\ MaxMessages \in Nat /\ MaxPublished \in Nat
  /\ Wishes \in [Conns -> SUBSET BOOLEAN]
  /\ NoConn \notin Conns /\ NoFilter \notin Filters

VARIABLES
  started,   \* m_started
  turn,      \* where update() is: 0 accepts, i serves slot i
  reading,   \* it has found slot `turn` connected and reads its packets
  adding,    \* the filters of a SUBSCRIBE that are still to be added
  conn,      \* m_clients[i].tcp, NoConn when not used
  greeted,   \* m_clients[i].mqttConnected
  keeps,     \* m_clients[i].keepAliveSec # 0
  late,      \* nothing was read from the client for too long
  subs,      \* m_subscriptions
  link,      \* a connection: unopened, open, silent (the peer is gone and TCP
             \* has not noticed), broken
  outbox,    \* how often each topic reached each connection
  published, \* ghost: how many messages of each topic were published
  granted,   \* ghost: filters a connection was told are subscribed
  messages   \* bound

clients == <<conn, greeted, keeps, late>>
place   == <<turn, reading, adding>>
traffic == <<outbox, published>>
vars    == <<started, place, clients, subs, link, traffic, granted, messages>>

Slots == 1..MaxClients
Index == 1..MaxSubs
Unused == [client |-> 0, filter |-> NoFilter]

Init ==
  /\ started = FALSE /\ turn = 0 /\ reading = FALSE /\ adding = <<>>
  /\ conn = [i \in Slots |-> NoConn]
  /\ greeted = [i \in Slots |-> FALSE]
  /\ keeps = [i \in Slots |-> TRUE]
  /\ late = [i \in Slots |-> FALSE]
  /\ subs = [k \in Index |-> Unused]
  /\ link = [c \in Conns |-> "unopened"]
  /\ outbox = [c \in Conns |-> [t \in Topics |-> 0]]
  /\ published = [t \in Topics |-> 0]
  /\ granted = [c \in Conns |-> {}]
  /\ messages = 0

-----------------------------------------------------------------------------
(* Connections. *)

Break(c) ==
  /\ link[c] \in {"open", "silent"}
  /\ link' = [link EXCEPT ![c] = "broken"]
  /\ UNCHANGED <<started, place, clients, subs, traffic, granted, messages>>

FallSilent(c) ==
  /\ link[c] = "open"
  /\ link' = [link EXCEPT ![c] = "silent"]
  /\ UNCHANGED <<started, place, clients, subs, traffic, granted, messages>>

\* isTimedOut: only for a client that has sent CONNECT with a keep-alive.
KeepAliveRunsOut(i) ==
  /\ conn[i] # NoConn /\ greeted[i] /\ keeps[i] /\ ~late[i]
  /\ late' = [late EXCEPT ![i] = TRUE]
  /\ UNCHANGED <<started, place, conn, greeted, keeps, subs, link, traffic, granted, messages>>

-----------------------------------------------------------------------------
(* closeClient, for the slots of a set. *)

\* Mutant: the subscriptions of the client stay.
CloseKeepsSubs(closing) ==
  /\ conn' = [i \in Slots |-> IF i \in closing THEN NoConn ELSE conn[i]]
  /\ greeted' = [i \in Slots |-> greeted[i] /\ i \notin closing]
  /\ keeps' = [i \in Slots |-> keeps[i] \/ i \in closing]
  /\ late' = [i \in Slots |-> late[i] /\ i \notin closing]
  /\ UNCHANGED subs
  /\ link' = [c \in Conns |-> IF \E i \in closing : conn[i] = c THEN "broken" ELSE link[c]]

Close(closing) ==
  /\ conn' = [i \in Slots |-> IF i \in closing THEN NoConn ELSE conn[i]]
  /\ greeted' = [i \in Slots |-> greeted[i] /\ i \notin closing]
  /\ keeps' = [i \in Slots |-> keeps[i] \/ i \in closing]
  /\ late' = [i \in Slots |-> late[i] /\ i \notin closing]
  /\ subs' = [k \in Index |-> IF subs[k].client \in closing THEN Unused ELSE subs[k]]
  /\ link' = [c \in Conns |-> IF \E i \in closing : conn[i] = c THEN "broken" ELSE link[c]]

\* Mutant: one slot too many.
GoOnTooFar ==
  /\ turn' = IF turn > MaxClients THEN 0 ELSE turn + 1
  /\ reading' = FALSE

GoOn ==
  /\ turn' = IF turn = MaxClients THEN 0 ELSE turn + 1
  /\ reading' = FALSE

CloseAndGoOn ==
  /\ Close({turn})
  /\ GoOn
  /\ UNCHANGED <<started, adding, traffic, granted>>

-----------------------------------------------------------------------------
(* begin, stop and acceptClient. *)

Begin ==
  /\ ~started
  /\ started' = TRUE
  /\ UNCHANGED <<place, clients, subs, link, traffic, granted, messages>>

Stop ==
  /\ started /\ turn = 0
  /\ started' = FALSE
  /\ Close({i \in Slots : conn[i] # NoConn})
  /\ UNCHANGED <<place, traffic, granted, messages>>

Free     == {i \in Slots : conn[i] = NoConn}
First(S) == CHOOSE i \in S : \A j \in S : i <= j

Accept(c) ==
  /\ started /\ turn = 0
  /\ link[c] = "unopened"
  /\ IF Free # {}
     THEN /\ conn' = [conn EXCEPT ![First(Free)] = c]
          /\ greeted' = [greeted EXCEPT ![First(Free)] = FALSE]
          /\ keeps' = [keeps EXCEPT ![First(Free)] = TRUE]
          /\ late' = [late EXCEPT ![First(Free)] = FALSE]
          /\ link' = [link EXCEPT ![c] = "open"]
     ELSE link' = [link EXCEPT ![c] = "broken"] /\ UNCHANGED clients
  /\ GoOn
  /\ UNCHANGED <<started, adding, subs, traffic, granted, messages>>

NothingToAccept ==
  /\ started /\ turn = 0
  /\ GoOn
  /\ UNCHANGED <<started, adding, clients, subs, link, traffic, granted, messages>>

-----------------------------------------------------------------------------
(* update: the slots in turn. *)

Skip ==
  /\ turn # 0 /\ ~reading /\ conn[turn] = NoConn
  /\ GoOn
  /\ UNCHANGED <<started, adding, clients, subs, link, traffic, granted, messages>>

FindBroken ==
  /\ turn # 0 /\ ~reading /\ conn[turn] # NoConn /\ link[conn[turn]] = "broken"
  /\ CloseAndGoOn /\ UNCHANGED messages

FindConnected ==
  /\ turn # 0 /\ ~reading /\ conn[turn] # NoConn /\ link[conn[turn]] # "broken"
  /\ reading' = TRUE
  /\ UNCHANGED <<started, turn, adding, clients, subs, link, traffic, granted, messages>>

\* A packet is there.  What was read before a connection broke may still come.
Read ==
  /\ turn # 0 /\ reading /\ adding = <<>>
  /\ link[conn[turn]] # "silent"

\* Bounds the packets that are no PUBLISH; Forward bounds the others.
Counted == messages < MaxMessages /\ messages' = messages + 1

\* readPacket fails, CONNECT is refused, DISCONNECT, or anything before CONNECT.
ReadAndClose == Read /\ Counted /\ CloseAndGoOn

\* handlePacket after a packet that does not end the connection.
Seen ==
  /\ late' = [late EXCEPT ![turn] = FALSE]
  /\ UNCHANGED <<started, turn, reading, conn, link>>

\* A client may send CONNECT again.
HandleConnect(keep) ==
  /\ Read /\ Counted /\ Seen
  /\ keep \in Wishes[conn[turn]]
  /\ greeted' = [greeted EXCEPT ![turn] = TRUE]
  /\ keeps' = [keeps EXCEPT ![turn] = keep]
  /\ UNCHANGED <<adding, subs, traffic, granted>>

\* PINGREQ and PUBACK.
HandleOther ==
  /\ Read /\ Counted /\ greeted[turn] /\ Seen
  /\ UNCHANGED <<adding, greeted, keeps, subs, traffic, granted>>

Hits(i, t) == {k \in Index : subs[k].client = i /\ Matches(subs[k].filter, t)}

\* Mutant: a client gets a message for every filter that matches.
CopiesPerFilter(i, t) == Cardinality(Hits(i, t))

Copies(i, t) == IF Hits(i, t) # {} THEN 1 ELSE 0

\* forwardPublish, a message that reaches nobody counted as well.
Forward(t) ==
  /\ FoldFunction(+, 0, published) < MaxPublished
  /\ outbox' = [c \in Conns |->
       IF \E i \in Slots : conn[i] = c /\ greeted[i] /\ link[c] = "open"
       THEN [outbox[c] EXCEPT ![t] = @ + Copies(CHOOSE i \in Slots : conn[i] = c, t)]
       ELSE outbox[c]]
  /\ published' = [published EXCEPT ![t] = @ + 1]

HandlePublish(t) ==
  /\ Read /\ greeted[turn] /\ Seen
  /\ Forward(t)
  /\ UNCHANGED <<adding, greeted, keeps, subs, granted, messages>>

HandleSubscribe(fs) ==
  /\ Read /\ Counted /\ greeted[turn] /\ Seen
  /\ adding' = fs
  /\ UNCHANGED <<greeted, keeps, subs, traffic, granted>>

Entry(i, f) == [client |-> i, filter |-> f]
FreeIndex   == {k \in Index : subs[k] = Unused}

\* addSubscription for one filter; SUBACK grants it whether it was added or not.
AddSubscription ==
  /\ adding # <<>>
  /\ subs' = IF Entry(turn, Head(adding)) \in {subs[k] : k \in Index} \/ FreeIndex = {} THEN subs
             ELSE [subs EXCEPT ![First(FreeIndex)] = Entry(turn, Head(adding))]
  /\ adding' = Tail(adding)
  /\ granted' = [granted EXCEPT ![conn[turn]] = @ \union {Head(adding)}]
  /\ UNCHANGED <<started, turn, reading, clients, link, traffic, messages>>

TimeOut ==
  /\ turn # 0 /\ reading /\ adding = <<>> /\ late[turn]
  /\ CloseAndGoOn /\ UNCHANGED messages

\* Mutant: the loop is left without a look at the clock.
NothingToReadYet ==
  /\ turn # 0 /\ reading /\ adding = <<>>
  /\ GoOn
  /\ UNCHANGED <<started, adding, clients, subs, link, traffic, granted, messages>>

NothingToRead ==
  /\ turn # 0 /\ reading /\ adding = <<>> /\ ~late[turn]
  /\ GoOn
  /\ UNCHANGED <<started, adding, clients, subs, link, traffic, granted, messages>>

\* publish() by the application, or by its message handler.
Publish(t) ==
  /\ Forward(t)
  /\ UNCHANGED <<started, place, clients, subs, link, granted, messages>>

-----------------------------------------------------------------------------
Requests == UNION {[1..n -> Filters] : n \in 1..MaxFilters}

Handle ==
  \/ ReadAndClose \/ HandleOther
  \/ \E keep \in BOOLEAN : HandleConnect(keep)
  \/ \E t \in Topics : HandlePublish(t)
  \/ \E fs \in Requests : HandleSubscribe(fs)

\* What update() does by itself.
Update ==
  \/ NothingToAccept \/ Skip \/ FindBroken \/ FindConnected
  \/ AddSubscription \/ TimeOut \/ NothingToRead

Next ==
  \/ Update \/ Handle \/ Begin \/ Stop
  \/ \E c \in Conns : Accept(c) \/ Break(c) \/ FallSilent(c)
  \/ \E i \in Slots : KeepAliveRunsOut(i)
  \/ \E t \in Topics : Publish(t)

Spec == Init /\ [][Next]_vars

\* update() is called again and again; time passes; a stopped server is begun.
FairSpec ==
  /\ Spec
  /\ WF_vars(Update) /\ WF_vars(Begin)
  /\ \A i \in Slots : WF_vars(KeepAliveRunsOut(i))

-----------------------------------------------------------------------------
(* Properties. *)

Attached(c) == \E i \in Slots : conn[i] = c

ServerTypeOK ==
  /\ started \in BOOLEAN /\ turn \in 0..MaxClients /\ reading \in BOOLEAN
  /\ adding \in Seq(Filters) /\ Len(adding) <= MaxFilters
  /\ conn \in [Slots -> Conns \union {NoConn}]
  /\ greeted \in [Slots -> BOOLEAN]
  /\ keeps \in [Slots -> BOOLEAN] /\ late \in [Slots -> BOOLEAN]
  /\ subs \in [Index -> [client: Slots, filter: Filters] \union {Unused}]
  /\ link \in [Conns -> {"unopened", "open", "silent", "broken"}]
  /\ outbox \in [Conns -> [Topics -> Nat]] /\ published \in [Topics -> Nat]
  /\ granted \in [Conns -> SUBSET Filters]
  /\ messages \in Nat

\* A connection is in one slot.
OneSlotEach ==
  \A i, j \in Slots : conn[i] = conn[j] /\ conn[i] # NoConn => i = j

\* Slots are reused, but what is in the table was subscribed over the very
\* connection that is in the slot now, and only after CONNECT; and no
\* subscription takes two entries of the table.
SubscriptionsAreOwned ==
  \A k \in Index :
    subs[k] # Unused =>
      LET i == subs[k].client IN
      /\ conn[i] # NoConn /\ greeted[i]
      /\ subs[k].filter \in granted[conn[i]]
      /\ \A l \in Index : subs[k] = subs[l] => k = l

\* The slot of a connection that broke, or of a greeted client with a
\* keep-alive that fell silent, is given back.
DeadClientsLeave ==
  \A c \in Conns :
    (\E i \in Slots : conn[i] = c /\ (link[c] = "broken" \/ (link[c] = "silent" /\ greeted[i] /\ keeps[i])))
      ~> ~Attached(c)

\* The server is the broker that routes every published message by connection,
\* and by what the filters denote.  A message that does not reach who it should
\* is a step no broker takes.
FiltersOf(c) == {subs[k].filter : k \in {l \in Index : subs[l] # Unused /\ conn[subs[l].client] = c}}
SessionOf(c) ==
  IF Attached(c)
  THEN IF \E i \in Slots : conn[i] = c /\ greeted[i] THEN "mqtt" ELSE "tcp"
  ELSE IF link[c] = "unopened" THEN "none" ELSE "over"

Broker == INSTANCE MqttBroker WITH
  Matching  <- {pair \in Filters \X Topics : Denotes(pair[1], pair[2])},
  session   <- [c \in Conns |-> SessionOf(c)],
  filters   <- [c \in Conns |-> FiltersOf(c)],
  reachable <- {c \in Conns : link[c] = "open"}

BrokerSpec == Broker!Spec
=============================================================================
