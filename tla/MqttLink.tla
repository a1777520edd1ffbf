------------------------------ MODULE MqttLink ------------------------------
(***************************************************************************)
(* MqttClient and the session MqttServer has with it, in time: connecting, *)
(* keep-alive from both ends, links that break or fall silent, and         *)
(* reconnection.                                                           *)
(*                                                                         *)
(* Time passes in ticks, and both update() run in each.  Ages count ticks  *)
(* up to a cap.  Packets are in the receiver's socket as soon as they are  *)
(* sent.  A session the server still has of an earlier connection is in    *)
(* another slot, and module MqttServer is about it.                        *)
(***************************************************************************)
EXTENDS Naturals, Sequences

CONSTANTS
  PingAfter,    \* half of keepAliveSec: the client pings
  DropAfter,    \* one and a half of it: either end gives the other up
  Reconnect,    \* reconnectIntervalMs
  AckWait,      \* what connect() waits for CONNACK
  MaxPublishes, \* bound: calls of publish() and subscribe() between two packets
                \* that the client reads
  SocketCap,    \* bound: packets in a socket
  MaxFaults     \* bound: breaks, silences, failed connects, disconnects

ASSUME MqttLinkAssumption ==
  /\ PingAfter \in Nat /\ DropAfter \in Nat /\ PingAfter <= DropAfter
  /\ Reconnect \in Nat /\ AckWait \in Nat \ {0}
  /\ MaxPublishes \in Nat /\ SocketCap \in Nat \ {0} /\ MaxFaults \in Nat

VARIABLES
  link,        \* the TCP connection: down, up, silent
  toServer, toClient,
  waiting,     \* the client is in connect(), waiting for CONNACK
  mqtt,        \* m_mqttConnected
  rxAge, txAge, \* since m_lastRxMs, m_lastTxMs
  attemptAge,  \* since m_lastConnectAttemptMs; Reconnect when there was none
  waitAge,
  session,     \* the server's: none, mqtt
  seenAge,     \* since lastSeenMs
  clientRan, serverRan,
  spared,      \* ghost: no keep-alive has ended a link that was up
  published,   \* calls of publish() and subscribe() since the client read a packet
  faults       \* bound

sockets == <<link, toServer, toClient>>
ages    == <<rxAge, txAge, attemptAge, waitAge, seenAge>>
bounds  == <<published, faults>>
vars    == <<sockets, waiting, mqtt, ages, session, clientRan, serverRan, spared, bounds>>

Cap       == IF Reconnect > DropAfter THEN Reconnect ELSE DropAfter + 1
Connected == mqtt /\ link # "down"

Init ==
  /\ link = "down" /\ toServer = <<>> /\ toClient = <<>>
  /\ waiting = FALSE /\ mqtt = FALSE
  /\ rxAge = 0 /\ txAge = 0 /\ attemptAge = Reconnect /\ waitAge = 0
  /\ session = "none" /\ seenAge = 0
  /\ clientRan = FALSE /\ serverRan = FALSE
  /\ spared = TRUE /\ published = 0 /\ faults = 0

\* A write waits for room in the socket; what is written to a silent connection
\* is lost.
Room(socket) == Len(socket) < SocketCap

Written(socket, packet) == IF link = "up" THEN Append(socket, packet) ELSE socket

HangUp ==
  /\ link' = "down" /\ toServer' = <<>> /\ toClient' = <<>>

Fault == faults < MaxFaults /\ faults' = faults + 1 /\ UNCHANGED published

-----------------------------------------------------------------------------
(* connect(). *)

MayAttempt == ~Connected /\ ~waiting /\ attemptAge >= Reconnect

\* sendConnect: what a new connection starts with.
ConnectSent == <<"CONNECT">>

\* Mutant: m_mqttConnected stays over a new attempt.
ConnectKeepsFlag ==
  /\ MayAttempt
  /\ link' = "up" /\ toServer' = ConnectSent /\ toClient' = <<>>
  /\ attemptAge' = 0 /\ txAge' = 0 /\ waitAge' = 0
  /\ waiting' = TRUE
  /\ session' = "none"
  /\ UNCHANGED <<mqtt, rxAge, seenAge, clientRan, serverRan, spared, bounds>>

\* A new TCP connection.
Connect ==
  /\ MayAttempt
  /\ link' = "up" /\ toServer' = ConnectSent /\ toClient' = <<>>
  /\ attemptAge' = 0 /\ txAge' = 0 /\ waitAge' = 0
  /\ mqtt' = FALSE /\ waiting' = TRUE
  /\ session' = "none"
  /\ UNCHANGED <<rxAge, seenAge, clientRan, serverRan, spared, bounds>>

ConnectFails ==
  /\ MayAttempt
  /\ Fault
  /\ HangUp
  /\ attemptAge' = 0 /\ mqtt' = FALSE
  /\ UNCHANGED <<waiting, rxAge, txAge, waitAge, session, seenAge, clientRan, serverRan, spared>>

\* Mutant: the wait is a tick longer.
AckLateLater == waiting /\ waitAge > AckWait

AckLate == waiting /\ waitAge >= AckWait

ConnAck ==
  /\ waiting /\ link # "down" /\ toClient # <<>>
  /\ IF Head(toClient) = "CONNACK"
     THEN /\ mqtt' = TRUE /\ rxAge' = 0 /\ txAge' = 0 /\ published' = 0
          /\ toClient' = Tail(toClient)
          /\ UNCHANGED <<link, toServer>>
     ELSE HangUp /\ UNCHANGED <<mqtt, rxAge, txAge, published>>
  /\ waiting' = FALSE
  /\ UNCHANGED <<attemptAge, waitAge, session, seenAge, clientRan, serverRan, spared, faults>>

NoConnAck ==
  /\ waiting
  /\ link = "down" \/ (AckLate /\ toClient = <<>>)
  /\ HangUp
  /\ waiting' = FALSE /\ mqtt' = FALSE
  /\ UNCHANGED <<ages, session, clientRan, serverRan, spared, bounds>>

-----------------------------------------------------------------------------
(* The client's update() and calls. *)

NothingToAttempt ==
  /\ ~Connected /\ ~waiting /\ attemptAge < Reconnect
  /\ clientRan' = TRUE
  /\ UNCHANGED <<sockets, waiting, mqtt, ages, session, serverRan, spared, bounds>>

ClientReads ==
  /\ Connected /\ ~waiting /\ toClient # <<>>
  /\ toClient' = Tail(toClient)
  /\ rxAge' = 0 /\ published' = 0
  /\ UNCHANGED <<link, toServer, waiting, mqtt, txAge, attemptAge, waitAge, session, seenAge,
                 clientRan, serverRan, spared, faults>>

\* Mutant: the time of the last packet received decides.
PingOverdue == rxAge >= PingAfter

PingDue == txAge >= PingAfter

\* Mutant: the server is never given up.
RestWithoutTimeout ==
  /\ Connected /\ ~waiting /\ toClient = <<>>
  /\ clientRan' = TRUE
  /\ IF PingDue
     THEN Room(toServer) /\ toServer' = Written(toServer, "PINGREQ") /\ txAge' = 0
     ELSE UNCHANGED <<toServer, txAge>>
  /\ UNCHANGED <<link, toClient, waiting, mqtt, rxAge, attemptAge, waitAge, session, seenAge,
                 serverRan, spared, bounds>>

ClientRests ==
  /\ Connected /\ ~waiting /\ toClient = <<>>
  /\ clientRan' = TRUE
  /\ IF rxAge > DropAfter
     THEN /\ HangUp /\ mqtt' = FALSE
          /\ spared' = (spared /\ link # "up")
          /\ UNCHANGED txAge
     ELSE /\ IF PingDue
             THEN Room(toServer) /\ toServer' = Written(toServer, "PINGREQ") /\ txAge' = 0
             ELSE UNCHANGED <<toServer, txAge>>
          /\ UNCHANGED <<link, toClient, mqtt, spared>>
  /\ UNCHANGED <<waiting, rxAge, attemptAge, waitAge, session, seenAge, serverRan, bounds>>

\* publish() and subscribe(); the message handler may call them too.
Send(packet) ==
  /\ Connected /\ ~waiting /\ Room(toServer)
  /\ published < MaxPublishes
  /\ published' = published + 1
  /\ toServer' = Written(toServer, packet)
  /\ txAge' = 0
  /\ UNCHANGED <<link, toClient, waiting, mqtt, rxAge, attemptAge, waitAge, session, seenAge,
                 clientRan, serverRan, spared, faults>>

Publish   == Send("PUBLISH")
Subscribe == Send("SUBSCRIBE")

\* disconnect() and stop(): the server reads DISCONNECT, or sees the end.
Disconnect ==
  /\ ~waiting
  /\ Fault
  /\ HangUp
  /\ mqtt' = FALSE
  /\ UNCHANGED <<waiting, ages, session, clientRan, serverRan, spared>>

-----------------------------------------------------------------------------
(* The server's update() for this client, and messages of others. *)

ServerReads ==
  /\ link = "up" /\ toServer # <<>> /\ Room(toClient)
  /\ LET packet == Head(toServer) IN
     /\ toServer' = Tail(toServer)
     /\ session' = IF packet = "CONNECT" THEN "mqtt" ELSE session
     /\ toClient' =
          CASE packet = "CONNECT"   -> Written(toClient, "CONNACK")
            [] packet = "PINGREQ"   -> Written(toClient, "PINGRESP")
            [] packet = "SUBSCRIBE" -> Written(toClient, "SUBACK")
            [] OTHER                -> toClient
  /\ seenAge' = 0
  /\ UNCHANGED <<link, waiting, mqtt, rxAge, txAge, attemptAge, waitAge, clientRan, serverRan,
                 spared, bounds>>

\* On a silent connection the client learns nothing of the server's end.
ServerRests ==
  /\ toServer = <<>> \/ link # "up"
  /\ serverRan' = TRUE
  /\ IF session # "none" /\ link = "down"
     THEN session' = "none" /\ UNCHANGED <<sockets, spared>>
     ELSE IF session = "mqtt" /\ seenAge > DropAfter
          THEN /\ session' = "none"
               /\ IF link = "up" THEN HangUp /\ spared' = FALSE ELSE UNCHANGED <<sockets, spared>>
          ELSE UNCHANGED <<sockets, session, spared>>
  /\ UNCHANGED <<waiting, mqtt, ages, clientRan, bounds>>

\* forwardPublish of what another client published.
Feed ==
  /\ session = "mqtt" /\ link = "up" /\ Room(toClient)
  /\ toClient' = Append(toClient, "PUBLISH")
  /\ UNCHANGED <<link, toServer, waiting, mqtt, ages, session, clientRan, serverRan, spared, bounds>>

-----------------------------------------------------------------------------
(* The network and time. *)

Break ==
  /\ link # "down"
  /\ Fault
  /\ HangUp
  /\ UNCHANGED <<waiting, mqtt, ages, session, clientRan, serverRan, spared>>

FallSilent ==
  /\ link = "up"
  /\ Fault
  /\ link' = "silent" /\ toServer' = <<>> /\ toClient' = <<>>
  /\ UNCHANGED <<waiting, mqtt, ages, session, clientRan, serverRan, spared>>

Older(age) == IF age < Cap THEN age + 1 ELSE age

Tick ==
  /\ clientRan \/ (waiting /\ ~AckLate /\ toClient = <<>>)
  /\ serverRan
  /\ rxAge' = Older(rxAge) /\ txAge' = Older(txAge) /\ attemptAge' = Older(attemptAge)
  /\ waitAge' = IF waiting THEN waitAge + 1 ELSE 0
  /\ seenAge' = Older(seenAge)
  /\ clientRan' = FALSE /\ serverRan' = FALSE
  /\ UNCHANGED <<sockets, waiting, mqtt, session, spared, bounds>>

Client == Connect \/ ConnAck \/ NoConnAck \/ NothingToAttempt \/ ClientReads \/ ClientRests
Server == ServerReads \/ ServerRests

Next ==
  \/ Client \/ Server \/ Tick
  \/ ConnectFails \/ Publish \/ Subscribe \/ Disconnect \/ Feed \/ Break \/ FallSilent

Spec == Init /\ [][Next]_vars

\* Both loops run and time passes.
FairSpec == Spec /\ WF_vars(Client) /\ WF_vars(Server) /\ WF_vars(Tick)

-----------------------------------------------------------------------------
(* Properties. *)

MqttLinkTypeOK ==
  /\ link \in {"down", "up", "silent"}
  /\ toServer \in Seq({"CONNECT", "PINGREQ", "PUBLISH", "SUBSCRIBE"}) /\ Len(toServer) <= SocketCap
  /\ toClient \in Seq({"CONNACK", "PINGRESP", "SUBACK", "PUBLISH"}) /\ Len(toClient) <= SocketCap
  /\ waiting \in BOOLEAN /\ mqtt \in BOOLEAN /\ spared \in BOOLEAN
  /\ clientRan \in BOOLEAN /\ serverRan \in BOOLEAN
  /\ rxAge \in 0..Cap /\ txAge \in 0..Cap /\ attemptAge \in 0..Cap /\ seenAge \in 0..Cap
  /\ waitAge \in 0..AckWait
  /\ session \in {"none", "mqtt"} /\ published \in 0..MaxPublishes /\ faults \in 0..MaxFaults

\* A client that takes itself for connected over a link that works has a
\* session at the server, whatever connections came before.
ConnectedMeansGreeted == Connected /\ link = "up" => session = "mqtt"

\* Neither end's keep-alive ends a connection that works.
KeepAliveSparesLiveLinks == spared

\* After the last fault the client is connected and stays so.
ClientComesBack == <>[](Connected /\ session = "mqtt")
=============================================================================
