--------------------------- MODULE MqttLink_proofs ---------------------------
(***************************************************************************)
(* A client that takes itself for connected is known to the server, and,   *)
(* unless it publishes too much between two packets it reads, no           *)
(* keep-alive ends a connection that works; for all times and faults.      *)
(***************************************************************************)
EXTENDS MqttLink, TLAPS

\* Nothing is on the way over a connection that does not work.
OnlyWorkingCarries == link # "up" => toServer = <<>> /\ toClient = <<>>

\* While connect() waits the client is not connected; a wait that began in
\* this tick, after the loop ran, has no age.
WaitingIsFresh ==
  /\ waiting => ~mqtt
  /\ clientRan /\ waiting => waitAge = 0

\* Without a session there is a CONNECT for the server to read, and nothing else.
GreetingIsSent ==
  (link = "up" /\ session # "mqtt") =>
     ~mqtt /\ toClient = <<>> /\ toServer = <<"CONNECT">>

\* The inductive invariant of the connection.
LinkInv == MqttLinkTypeOK /\ OnlyWorkingCarries /\ WaitingIsFresh /\ GreetingIsSent

ToServer == {"CONNECT", "PINGREQ", "PUBLISH", "SUBSCRIBE"}
ToClient == {"CONNACK", "PINGRESP", "SUBACK", "PUBLISH"}

-----------------------------------------------------------------------------
\* What is written keeps to the type and the bound of a socket.
LEMMA WrittenType ==
  ASSUME NEW S, NEW socket \in Seq(S), Room(socket), NEW packet \in S
  PROVE  Written(socket, packet) \in Seq(S) /\ Len(Written(socket, packet)) <= SocketCap
BY MqttLinkAssumption DEF Written, Room

\* What is read leaves the rest.
LEMMA TailType ==
  ASSUME NEW S, NEW socket \in Seq(S), Len(socket) <= SocketCap, socket # <<>>
  PROVE  /\ Tail(socket) \in Seq(S) /\ Len(Tail(socket)) <= SocketCap
         /\ Head(socket) \in S
BY MqttLinkAssumption

LEMMA EmptyType ==
  ASSUME NEW S
  PROVE  <<>> \in Seq(S) /\ Len(<<>>) <= SocketCap
BY MqttLinkAssumption

LEMMA ConnectType == ConnectSent \in Seq(ToServer) /\ Len(ConnectSent) <= SocketCap
BY MqttLinkAssumption DEF ConnectSent, ToServer

LEMMA OlderType ==
  ASSUME NEW age \in 0..Cap
  PROVE  Older(age) \in 0..Cap /\ Older(age) <= age + 1 /\ (age < Cap => Older(age) = age + 1)
BY MqttLinkAssumption DEF Older, Cap

LEMMA CapType == Cap \in Nat /\ 0 \in 0..Cap /\ Reconnect \in 0..Cap
BY MqttLinkAssumption DEF Cap

LEMMA LinkInitInv == Init => LinkInv
<1> SUFFICES ASSUME Init PROVE LinkInv
  OBVIOUS
<1>1. MqttLinkTypeOK
  <2>1. /\ toServer \in Seq(ToServer) /\ Len(toServer) <= SocketCap
        /\ toClient \in Seq(ToClient) /\ Len(toClient) <= SocketCap
    BY EmptyType DEF Init
  <2>2. /\ rxAge \in 0..Cap /\ txAge \in 0..Cap /\ attemptAge \in 0..Cap
        /\ seenAge \in 0..Cap /\ waitAge \in 0..AckWait
    BY MqttLinkAssumption, CapType DEF Init
  <2>3. published \in 0..MaxPublishes /\ faults \in 0..MaxFaults
    BY MqttLinkAssumption DEF Init
  <2>4. QED BY <2>1, <2>2, <2>3 DEF Init, MqttLinkTypeOK, ToServer, ToClient
<1>2. OnlyWorkingCarries /\ WaitingIsFresh /\ GreetingIsSent
  BY DEF Init, OnlyWorkingCarries, WaitingIsFresh, GreetingIsSent
<1>3. QED BY <1>1, <1>2 DEF LinkInv

LEMMA StutterLinkInv == LinkInv /\ UNCHANGED vars => LinkInv'
BY DEF LinkInv, MqttLinkTypeOK, OnlyWorkingCarries, WaitingIsFresh, GreetingIsSent,
       vars, sockets, ages, bounds

LEMMA FaultType == ASSUME MqttLinkTypeOK, Fault PROVE faults' \in 0..MaxFaults /\ published' = published
BY MqttLinkAssumption DEF MqttLinkTypeOK, Fault

LEMMA ConnectLink == LinkInv /\ Connect => LinkInv'
<1> SUFFICES ASSUME LinkInv, Connect PROVE LinkInv'
  OBVIOUS
<1> USE DEF Connect, LinkInv, MayAttempt, Connected
<1>1. toServer' \in Seq(ToServer) /\ Len(toServer') <= SocketCap
  BY EmptyType, ConnectType DEF MqttLinkTypeOK, sockets, ToServer
<1>2. toClient' \in Seq(ToClient) /\ Len(toClient') <= SocketCap
  BY EmptyType, ConnectType DEF MqttLinkTypeOK, sockets, ToClient
<1>3. /\ rxAge' \in 0..Cap /\ txAge' \in 0..Cap /\ attemptAge' \in 0..Cap
      /\ seenAge' \in 0..Cap /\ waitAge' \in 0..AckWait
  BY MqttLinkAssumption, CapType, ConnectType DEF MqttLinkTypeOK, WaitingIsFresh, ages
<1>4. /\ waiting' \in BOOLEAN /\ mqtt' \in BOOLEAN /\ spared' \in BOOLEAN
      /\ clientRan' \in BOOLEAN /\ serverRan' \in BOOLEAN
  BY DEF MqttLinkTypeOK
<1>5. link' \in {"down", "up", "silent"} /\ session' \in {"none", "mqtt"}
  BY DEF MqttLinkTypeOK, sockets
<1>6. published' \in 0..MaxPublishes /\ faults' \in 0..MaxFaults
  BY MqttLinkAssumption, FaultType DEF MqttLinkTypeOK, bounds
<1>7. OnlyWorkingCarries' /\ WaitingIsFresh' /\ GreetingIsSent'
  BY DEF MqttLinkTypeOK, OnlyWorkingCarries, WaitingIsFresh, GreetingIsSent, ConnectSent
<1>8. QED BY <1>1, <1>2, <1>3, <1>4, <1>5, <1>6, <1>7 DEF MqttLinkTypeOK, ToServer, ToClient

LEMMA ConnectFailsLink == LinkInv /\ ConnectFails => LinkInv'
<1> SUFFICES ASSUME LinkInv, ConnectFails PROVE LinkInv'
  OBVIOUS
<1> USE DEF ConnectFails, LinkInv, HangUp
<1>1. toServer' \in Seq(ToServer) /\ Len(toServer') <= SocketCap
  BY EmptyType DEF MqttLinkTypeOK, sockets, ToServer
<1>2. toClient' \in Seq(ToClient) /\ Len(toClient') <= SocketCap
  BY EmptyType DEF MqttLinkTypeOK, sockets, ToClient
<1>3. /\ rxAge' \in 0..Cap /\ txAge' \in 0..Cap /\ attemptAge' \in 0..Cap
      /\ seenAge' \in 0..Cap /\ waitAge' \in 0..AckWait
  BY MqttLinkAssumption, CapType DEF MqttLinkTypeOK, WaitingIsFresh, ages
<1>4. /\ waiting' \in BOOLEAN /\ mqtt' \in BOOLEAN /\ spared' \in BOOLEAN
      /\ clientRan' \in BOOLEAN /\ serverRan' \in BOOLEAN
  BY DEF MqttLinkTypeOK
<1>5. link' \in {"down", "up", "silent"} /\ session' \in {"none", "mqtt"}
  BY DEF MqttLinkTypeOK, sockets
<1>6. published' \in 0..MaxPublishes /\ faults' \in 0..MaxFaults
  BY MqttLinkAssumption, FaultType DEF MqttLinkTypeOK, bounds
<1>7. OnlyWorkingCarries' /\ WaitingIsFresh' /\ GreetingIsSent'
  BY DEF MqttLinkTypeOK, OnlyWorkingCarries, WaitingIsFresh, GreetingIsSent, sockets, ages
<1>8. QED BY <1>1, <1>2, <1>3, <1>4, <1>5, <1>6, <1>7 DEF MqttLinkTypeOK, ToServer, ToClient

LEMMA ConnAckLink == LinkInv /\ ConnAck => LinkInv'
<1> SUFFICES ASSUME LinkInv, ConnAck PROVE LinkInv'
  OBVIOUS
<1> USE DEF ConnAck, LinkInv, HangUp
<1>1. toServer' \in Seq(ToServer) /\ Len(toServer') <= SocketCap
  BY EmptyType, TailType DEF MqttLinkTypeOK, sockets, ToServer
<1>2. toClient' \in Seq(ToClient) /\ Len(toClient') <= SocketCap
  BY EmptyType, TailType DEF MqttLinkTypeOK, sockets, ToClient
<1>3. /\ rxAge' \in 0..Cap /\ txAge' \in 0..Cap /\ attemptAge' \in 0..Cap
      /\ seenAge' \in 0..Cap /\ waitAge' \in 0..AckWait
  BY MqttLinkAssumption, CapType, TailType DEF MqttLinkTypeOK, WaitingIsFresh, ages
<1>4. /\ waiting' \in BOOLEAN /\ mqtt' \in BOOLEAN /\ spared' \in BOOLEAN
      /\ clientRan' \in BOOLEAN /\ serverRan' \in BOOLEAN
  BY DEF MqttLinkTypeOK
<1>5. link' \in {"down", "up", "silent"} /\ session' \in {"none", "mqtt"}
  BY DEF MqttLinkTypeOK, sockets
<1>6. published' \in 0..MaxPublishes /\ faults' \in 0..MaxFaults
  BY MqttLinkAssumption, FaultType DEF MqttLinkTypeOK, bounds
<1>7. OnlyWorkingCarries' /\ WaitingIsFresh' /\ GreetingIsSent'
  BY DEF MqttLinkTypeOK, OnlyWorkingCarries, WaitingIsFresh, GreetingIsSent, sockets, ages
<1>8. QED BY <1>1, <1>2, <1>3, <1>4, <1>5, <1>6, <1>7 DEF MqttLinkTypeOK, ToServer, ToClient

LEMMA NoConnAckLink == LinkInv /\ NoConnAck => LinkInv'
BY MqttLinkAssumption, EmptyType
   DEF LinkInv, MqttLinkTypeOK, OnlyWorkingCarries, WaitingIsFresh, GreetingIsSent, NoConnAck,
       sockets, ages, bounds, HangUp, AckLate

LEMMA NothingToAttemptLink == LinkInv /\ NothingToAttempt => LinkInv'
BY MqttLinkAssumption, EmptyType
   DEF LinkInv, MqttLinkTypeOK, OnlyWorkingCarries, WaitingIsFresh, GreetingIsSent, NothingToAttempt,
       sockets, ages, bounds, Connected

LEMMA ClientReadsLink == LinkInv /\ ClientReads => LinkInv'
BY MqttLinkAssumption, EmptyType, TailType
   DEF LinkInv, MqttLinkTypeOK, OnlyWorkingCarries, WaitingIsFresh, GreetingIsSent, ClientReads,
       sockets, ages, bounds, Connected, Cap

LEMMA ClientRestsLink == LinkInv /\ ClientRests => LinkInv'
<1> SUFFICES ASSUME LinkInv, ClientRests PROVE LinkInv'
  OBVIOUS
<1> USE DEF ClientRests, LinkInv, HangUp, Connected
<1>1. toServer' \in Seq(ToServer) /\ Len(toServer') <= SocketCap
  BY EmptyType, WrittenType DEF MqttLinkTypeOK, sockets, ToServer
<1>2. toClient' \in Seq(ToClient) /\ Len(toClient') <= SocketCap
  BY EmptyType, WrittenType DEF MqttLinkTypeOK, sockets, ToClient
<1>3. /\ rxAge' \in 0..Cap /\ txAge' \in 0..Cap /\ attemptAge' \in 0..Cap
      /\ seenAge' \in 0..Cap /\ waitAge' \in 0..AckWait
  BY MqttLinkAssumption, CapType, WrittenType DEF MqttLinkTypeOK, WaitingIsFresh, ages
<1>4. /\ waiting' \in BOOLEAN /\ mqtt' \in BOOLEAN /\ spared' \in BOOLEAN
      /\ clientRan' \in BOOLEAN /\ serverRan' \in BOOLEAN
  BY DEF MqttLinkTypeOK
<1>5. link' \in {"down", "up", "silent"} /\ session' \in {"none", "mqtt"}
  BY DEF MqttLinkTypeOK, sockets
<1>6. published' \in 0..MaxPublishes /\ faults' \in 0..MaxFaults
  BY MqttLinkAssumption, FaultType DEF MqttLinkTypeOK, bounds
<1>7. OnlyWorkingCarries' /\ WaitingIsFresh' /\ GreetingIsSent'
  BY DEF MqttLinkTypeOK, OnlyWorkingCarries, WaitingIsFresh, GreetingIsSent, Written
<1>8. QED BY <1>1, <1>2, <1>3, <1>4, <1>5, <1>6, <1>7 DEF MqttLinkTypeOK, ToServer, ToClient

LEMMA SendLink ==
  ASSUME LinkInv, NEW packet \in {"PUBLISH", "SUBSCRIBE"}, Send(packet)
  PROVE  LinkInv'
BY MqttLinkAssumption, WrittenType
   DEF LinkInv, MqttLinkTypeOK, OnlyWorkingCarries, WaitingIsFresh, GreetingIsSent, Send, Written,
       Connected, Cap

LEMMA DisconnectLink == LinkInv /\ Disconnect => LinkInv'
<1> SUFFICES ASSUME LinkInv, Disconnect PROVE LinkInv'
  OBVIOUS
<1> USE DEF Disconnect, LinkInv, HangUp
<1>1. toServer' \in Seq(ToServer) /\ Len(toServer') <= SocketCap
  BY EmptyType DEF MqttLinkTypeOK, sockets, ToServer
<1>2. toClient' \in Seq(ToClient) /\ Len(toClient') <= SocketCap
  BY EmptyType DEF MqttLinkTypeOK, sockets, ToClient
<1>3. /\ rxAge' \in 0..Cap /\ txAge' \in 0..Cap /\ attemptAge' \in 0..Cap
      /\ seenAge' \in 0..Cap /\ waitAge' \in 0..AckWait
  BY MqttLinkAssumption, CapType DEF MqttLinkTypeOK, WaitingIsFresh, ages
<1>4. /\ waiting' \in BOOLEAN /\ mqtt' \in BOOLEAN /\ spared' \in BOOLEAN
      /\ clientRan' \in BOOLEAN /\ serverRan' \in BOOLEAN
  BY DEF MqttLinkTypeOK
<1>5. link' \in {"down", "up", "silent"} /\ session' \in {"none", "mqtt"}
  BY DEF MqttLinkTypeOK, sockets
<1>6. published' \in 0..MaxPublishes /\ faults' \in 0..MaxFaults
  BY MqttLinkAssumption, FaultType DEF MqttLinkTypeOK, bounds
<1>7. OnlyWorkingCarries' /\ WaitingIsFresh' /\ GreetingIsSent'
  BY DEF MqttLinkTypeOK, OnlyWorkingCarries, WaitingIsFresh, GreetingIsSent, sockets, ages
<1>8. QED BY <1>1, <1>2, <1>3, <1>4, <1>5, <1>6, <1>7 DEF MqttLinkTypeOK, ToServer, ToClient

LEMMA ServerReadsLink == LinkInv /\ ServerReads => LinkInv'
<1> SUFFICES ASSUME LinkInv, ServerReads PROVE LinkInv'
  OBVIOUS
<1> USE DEF ServerReads, LinkInv
<1>1. toServer' \in Seq(ToServer) /\ Len(toServer') <= SocketCap
  BY EmptyType, TailType, WrittenType DEF MqttLinkTypeOK, sockets, ToServer
<1>2. toClient' \in Seq(ToClient) /\ Len(toClient') <= SocketCap
  <2>1. toClient \in Seq(ToClient) /\ Len(toClient) <= SocketCap
    BY DEF MqttLinkTypeOK, ToClient
  <2>2. \/ toClient' = toClient
        \/ \E packet \in ToClient : toClient' = Written(toClient, packet)
    BY DEF ToClient
  <2>3. QED BY <2>1, <2>2, WrittenType
<1>3. /\ rxAge' \in 0..Cap /\ txAge' \in 0..Cap /\ attemptAge' \in 0..Cap
      /\ seenAge' \in 0..Cap /\ waitAge' \in 0..AckWait
  BY MqttLinkAssumption, CapType, TailType, WrittenType DEF MqttLinkTypeOK, WaitingIsFresh, ages
<1>4. /\ waiting' \in BOOLEAN /\ mqtt' \in BOOLEAN /\ spared' \in BOOLEAN
      /\ clientRan' \in BOOLEAN /\ serverRan' \in BOOLEAN
  BY DEF MqttLinkTypeOK
<1>5. link' \in {"down", "up", "silent"} /\ session' \in {"none", "mqtt"}
  BY DEF MqttLinkTypeOK, sockets
<1>6. published' \in 0..MaxPublishes /\ faults' \in 0..MaxFaults
  BY MqttLinkAssumption, FaultType DEF MqttLinkTypeOK, bounds
<1>7. OnlyWorkingCarries' /\ WaitingIsFresh' /\ GreetingIsSent'
  BY DEF MqttLinkTypeOK, OnlyWorkingCarries, WaitingIsFresh, GreetingIsSent, sockets, ages
<1>8. QED BY <1>1, <1>2, <1>3, <1>4, <1>5, <1>6, <1>7 DEF MqttLinkTypeOK, ToServer, ToClient

LEMMA ServerRestsLink == LinkInv /\ ServerRests => LinkInv'
<1> SUFFICES ASSUME LinkInv, ServerRests PROVE LinkInv'
  OBVIOUS
<1> USE DEF ServerRests, LinkInv, HangUp
<1>1. toServer' \in Seq(ToServer) /\ Len(toServer') <= SocketCap
  BY EmptyType DEF MqttLinkTypeOK, sockets, ToServer
<1>2. toClient' \in Seq(ToClient) /\ Len(toClient') <= SocketCap
  BY EmptyType DEF MqttLinkTypeOK, sockets, ToClient
<1>3. /\ rxAge' \in 0..Cap /\ txAge' \in 0..Cap /\ attemptAge' \in 0..Cap
      /\ seenAge' \in 0..Cap /\ waitAge' \in 0..AckWait
  BY MqttLinkAssumption, CapType DEF MqttLinkTypeOK, WaitingIsFresh, ages
<1>4. /\ waiting' \in BOOLEAN /\ mqtt' \in BOOLEAN /\ spared' \in BOOLEAN
      /\ clientRan' \in BOOLEAN /\ serverRan' \in BOOLEAN
  BY DEF MqttLinkTypeOK
<1>5. link' \in {"down", "up", "silent"} /\ session' \in {"none", "mqtt"}
  BY DEF MqttLinkTypeOK, sockets
<1>6. published' \in 0..MaxPublishes /\ faults' \in 0..MaxFaults
  BY MqttLinkAssumption, FaultType DEF MqttLinkTypeOK, bounds
<1>7. OnlyWorkingCarries' /\ WaitingIsFresh' /\ GreetingIsSent'
  BY DEF MqttLinkTypeOK, OnlyWorkingCarries, WaitingIsFresh, GreetingIsSent, sockets, ages
<1>8. QED BY <1>1, <1>2, <1>3, <1>4, <1>5, <1>6, <1>7 DEF MqttLinkTypeOK, ToServer, ToClient

LEMMA FeedLink == LinkInv /\ Feed => LinkInv'
BY MqttLinkAssumption, EmptyType
   DEF LinkInv, MqttLinkTypeOK, OnlyWorkingCarries, WaitingIsFresh, GreetingIsSent, Feed,
       sockets, ages, bounds, Room

LEMMA BreakLink == LinkInv /\ Break => LinkInv'
BY MqttLinkAssumption, EmptyType, FaultType
   DEF LinkInv, MqttLinkTypeOK, OnlyWorkingCarries, WaitingIsFresh, GreetingIsSent, Break,
       sockets, ages, bounds, HangUp

LEMMA FallSilentLink == LinkInv /\ FallSilent => LinkInv'
BY MqttLinkAssumption, EmptyType, FaultType
   DEF LinkInv, MqttLinkTypeOK, OnlyWorkingCarries, WaitingIsFresh, GreetingIsSent, FallSilent,
       sockets, ages, bounds

LEMMA TickLink == LinkInv /\ Tick => LinkInv'
<1> SUFFICES ASSUME LinkInv, Tick PROVE LinkInv'
  OBVIOUS
<1> USE DEF Tick, LinkInv, AckLate
<1>1. toServer' \in Seq(ToServer) /\ Len(toServer') <= SocketCap
  BY EmptyType, OlderType DEF MqttLinkTypeOK, sockets, ToServer
<1>2. toClient' \in Seq(ToClient) /\ Len(toClient') <= SocketCap
  BY EmptyType, OlderType DEF MqttLinkTypeOK, sockets, ToClient
<1>3. /\ rxAge' \in 0..Cap /\ txAge' \in 0..Cap /\ attemptAge' \in 0..Cap
      /\ seenAge' \in 0..Cap /\ waitAge' \in 0..AckWait
  BY MqttLinkAssumption, CapType, OlderType DEF MqttLinkTypeOK, WaitingIsFresh, ages
<1>4. /\ waiting' \in BOOLEAN /\ mqtt' \in BOOLEAN /\ spared' \in BOOLEAN
      /\ clientRan' \in BOOLEAN /\ serverRan' \in BOOLEAN
  BY DEF MqttLinkTypeOK
<1>5. link' \in {"down", "up", "silent"} /\ session' \in {"none", "mqtt"}
  BY DEF MqttLinkTypeOK, sockets
<1>6. published' \in 0..MaxPublishes /\ faults' \in 0..MaxFaults
  BY MqttLinkAssumption, FaultType DEF MqttLinkTypeOK, bounds
<1>7. OnlyWorkingCarries' /\ WaitingIsFresh' /\ GreetingIsSent'
  BY DEF MqttLinkTypeOK, OnlyWorkingCarries, WaitingIsFresh, GreetingIsSent, sockets, ages
<1>8. QED BY <1>1, <1>2, <1>3, <1>4, <1>5, <1>6, <1>7 DEF MqttLinkTypeOK, ToServer, ToClient

LEMMA LinkNextInv == LinkInv /\ [Next]_vars => LinkInv'
BY ConnectLink, ConnectFailsLink, ConnAckLink, NoConnAckLink, NothingToAttemptLink, ClientReadsLink,
   ClientRestsLink, SendLink, DisconnectLink, ServerReadsLink, ServerRestsLink, FeedLink, BreakLink,
   FallSilentLink, TickLink, StutterLinkInv
   DEF Next, Client, Server, Publish, Subscribe

\* The connection, both ends and their times keep their types; a wait for
\* CONNACK never outlasts AckWait.
THEOREM MqttLinkTypeCorrect == Spec => []MqttLinkTypeOK
<1>1. LinkInv => MqttLinkTypeOK
  BY DEF LinkInv
<1>2. QED BY LinkInitInv, LinkNextInv, <1>1, PTL DEF Spec

\* MqttClient's m_mqttConnected over a TCP connection that works means that
\* MqttServer has greeted this client, over every drop and reconnection.
THEOREM ConnectedIsGreeted == Spec => []ConnectedMeansGreeted
<1>1. LinkInv => ConnectedMeansGreeted
  BY DEF LinkInv, GreetingIsSent, ConnectedMeansGreeted, Connected
<1>2. QED BY LinkInitInv, LinkNextInv, <1>1, PTL DEF Spec

-----------------------------------------------------------------------------
(* Keep-alive. *)

\* What the code's keep-alive can bear between two packets that the client
\* reads: publish() and subscribe() put the next PINGREQ off by PingAfter each,
\* and one more tick passes until it is read.
FewPublishes ==
  /\ PingAfter > 0
  /\ (MaxPublishes + 1) * PingAfter < DropAfter

PutOff(n) == n * PingAfter

\* The server holds a session with the client over a connection that works.
Live == link = "up" /\ session = "mqtt"

Pinged == \E i \in 1..Len(toServer) : toServer[i] = "PINGREQ"

\* The client of a live connection is connected, or its CONNACK is waiting.
LiveIsAnswered ==
  /\ link = "up" => waiting \/ mqtt
  /\ Live /\ waiting => toClient # <<>> /\ Head(toClient) = "CONNACK"

\* A connected client sends within PingAfter.
SendsInTime ==
  Live /\ mqtt => txAge <= PingAfter /\ (clientRan => txAge < PingAfter)

\* The server has heard of the client not long after that sent last.
ServerHears ==
  /\ Live /\ waiting => seenAge <= (IF clientRan THEN 0 ELSE 1)
  /\ Live /\ mqtt /\ toServer = <<>> => seenAge <= txAge + 1

\* The client has heard of the server, or has asked it.
ClientHears ==
  Live /\ mqtt /\ toClient = <<>> =>
    /\ ~Pinged => rxAge <= PutOff(published) + txAge
    /\ Pinged => rxAge <= PutOff(published + 1) + (IF serverRan THEN 0 ELSE 1)

\* The inductive invariant of the keep-alive.
AliveInv ==
  /\ spared
  /\ LiveIsAnswered /\ SendsInTime /\ ServerHears /\ ClientHears

-----------------------------------------------------------------------------
LEMMA PutOffStep ==
  ASSUME NEW n \in Nat
  PROVE  PutOff(n) \in Nat /\ PutOff(n + 1) = PutOff(n) + PingAfter
BY MqttLinkAssumption DEF PutOff

LEMMA PutOffBound ==
  ASSUME FewPublishes, NEW n \in 0..MaxPublishes
  PROVE  PutOff(n + 1) < DropAfter
<1>1. n \in Nat /\ MaxPublishes \in Nat /\ PingAfter \in Nat /\ DropAfter \in Nat
  BY MqttLinkAssumption
<1>2. PICK d \in Nat : MaxPublishes + 1 = n + 1 + d
  <2>1. MaxPublishes - n \in Nat /\ MaxPublishes + 1 = n + 1 + (MaxPublishes - n)
    BY <1>1
  <2>2. QED BY <2>1
<1>3. (n + 1 + d) * PingAfter = (n + 1) * PingAfter + d * PingAfter
  BY <1>1
<1>4. d * PingAfter \in Nat /\ (n + 1) * PingAfter \in Nat
  BY <1>1
<1>5. QED BY <1>1, <1>2, <1>3, <1>4 DEF FewPublishes, PutOff

\* Where no session is held there is no keep-alive.
LEMMA NotLiveAlive ==
  ASSUME AliveInv, ~Live', link' = "up" => waiting' \/ mqtt', spared'
  PROVE  AliveInv'
BY DEF AliveInv, LiveIsAnswered, SendsInTime, ServerHears, ClientHears, Live

LEMMA AppendPinged ==
  ASSUME NEW S, toServer \in Seq(S), NEW packet \in S, toServer' = Append(toServer, packet)
  PROVE  /\ Pinged => Pinged'
         /\ Pinged' => Pinged \/ packet = "PINGREQ"
         /\ packet = "PINGREQ" => Pinged'
<1>1. /\ Len(toServer) \in Nat /\ Len(toServer') = Len(toServer) + 1
      /\ toServer'[Len(toServer) + 1] = packet
      /\ \A j \in 1..Len(toServer) : toServer'[j] = toServer[j]
  OBVIOUS
<1>2. QED BY <1>1 DEF Pinged

LEMMA TailPinged ==
  ASSUME NEW S, toServer \in Seq(S), toServer # <<>>, toServer' = Tail(toServer)
  PROVE  /\ Pinged' => Pinged
         /\ Pinged => Pinged' \/ Head(toServer) = "PINGREQ"
<1>1. /\ Len(toServer) \in Nat \ {0} /\ Len(toServer') = Len(toServer) - 1
      /\ \A j \in 1..Len(toServer') : toServer'[j] = toServer[j + 1]
      /\ Head(toServer) = toServer[1]
  OBVIOUS
<1>2. Pinged' => Pinged
  BY <1>1 DEF Pinged
<1>3. ASSUME NEW i \in 1..Len(toServer), toServer[i] = "PINGREQ", i # 1
      PROVE  Pinged'
  <2>1. i - 1 \in 1..Len(toServer') /\ (i - 1) + 1 = i
    BY <1>1, <1>3
  <2>2. toServer'[i - 1] = "PINGREQ"
    BY <1>1, <1>3, <2>1
  <2>3. QED BY <2>1, <2>2 DEF Pinged
<1>4. QED BY <1>1, <1>2, <1>3 DEF Pinged

\* A connected client's connection, if it works, has a session.
LEMMA ConnectedIsLive ==
  ASSUME LinkInv, Connected, link = "up" PROVE Live
BY DEF LinkInv, GreetingIsSent, Connected, Live

\* Neither end has reason to give up.
LEMMA KeepAliveHolds ==
  ASSUME FewPublishes, LinkInv, AliveInv, Live
  PROVE  /\ mqtt /\ toClient = <<>> => rxAge <= DropAfter
         /\ toServer = <<>> => seenAge <= DropAfter
<1>1. /\ published \in 0..MaxPublishes /\ published \in Nat /\ rxAge \in Nat /\ txAge \in Nat
      /\ seenAge \in Nat /\ PingAfter \in Nat /\ DropAfter \in Nat /\ PingAfter > 0
  BY MqttLinkAssumption DEF LinkInv, MqttLinkTypeOK, Cap, FewPublishes
<1>2. /\ PutOff(published) \in Nat /\ PutOff(published + 1) = PutOff(published) + PingAfter
      /\ PutOff(published + 1) < DropAfter
  BY <1>1, PutOffStep, PutOffBound
<1>3. mqtt /\ toClient = <<>> => rxAge <= DropAfter
  <2> SUFFICES ASSUME mqtt, toClient = <<>> PROVE rxAge <= DropAfter
    OBVIOUS
  <2>1. rxAge <= PutOff(published + 1) + 1
    BY <1>1, <1>2 DEF AliveInv, ClientHears, SendsInTime
  <2>2. QED BY <1>1, <1>2, <2>1
<1>4. toServer = <<>> => seenAge <= DropAfter
  <2>1. waiting => seenAge <= 1
    BY <1>1 DEF AliveInv, ServerHears
  <2>2. mqtt /\ toServer = <<>> => seenAge <= PingAfter + 1
    BY <1>1 DEF AliveInv, ServerHears, SendsInTime
  <2>3. waiting \/ mqtt
    BY DEF AliveInv, LiveIsAnswered, Live
  <2>4. PingAfter < DropAfter
    BY <1>1, <1>2
  <2>5. QED BY <1>1, <2>1, <2>2, <2>3, <2>4
<1>5. QED BY <1>3, <1>4

LEMMA InitAlive == Init => AliveInv
BY DEF Init, AliveInv, LiveIsAnswered, SendsInTime, ServerHears, ClientHears, Live

LEMMA StutterAlive == AliveInv /\ UNCHANGED vars => AliveInv'
BY DEF AliveInv, LiveIsAnswered, SendsInTime, ServerHears, ClientHears, Live, Pinged,
       vars, sockets, ages, bounds

LEMMA HangUpAlive ==
  ASSUME AliveInv, HangUp, spared' PROVE AliveInv'
BY NotLiveAlive DEF HangUp, Live

LEMMA ConnectAlive == AliveInv /\ Connect => AliveInv'
BY NotLiveAlive DEF Connect, Live, AliveInv

LEMMA EndingsAlive ==
  ASSUME AliveInv, ConnectFails \/ NoConnAck \/ Disconnect \/ Break PROVE AliveInv'
BY HangUpAlive DEF ConnectFails, NoConnAck, Disconnect, Break, AliveInv

LEMMA FallSilentAlive == AliveInv /\ FallSilent => AliveInv'
BY NotLiveAlive DEF FallSilent, Live, AliveInv

LEMMA NothingToAttemptAlive == AliveInv /\ NothingToAttempt => AliveInv'
<1> SUFFICES ASSUME AliveInv, NothingToAttempt PROVE AliveInv'
  OBVIOUS
<1>1. link # "up"
  BY DEF NothingToAttempt, Connected, AliveInv, LiveIsAnswered
<1>2. QED BY <1>1, NotLiveAlive DEF NothingToAttempt, sockets, Live, AliveInv

LEMMA ConnAckAlive == FewPublishes /\ LinkInv /\ AliveInv /\ ConnAck => AliveInv'
<1> SUFFICES ASSUME FewPublishes, LinkInv, AliveInv, ConnAck PROVE AliveInv'
  OBVIOUS
<1>1. CASE Head(toClient) # "CONNACK"
  BY <1>1, HangUpAlive DEF ConnAck, AliveInv
<1>2. CASE Head(toClient) = "CONNACK"
  <2>1. Live /\ waiting
    BY DEF ConnAck, LinkInv, OnlyWorkingCarries, GreetingIsSent, MqttLinkTypeOK, Live
  <2>2. /\ mqtt' /\ ~waiting' /\ rxAge' = 0 /\ txAge' = 0 /\ published' = 0 /\ Live'
        /\ UNCHANGED <<link, toServer, seenAge, clientRan, serverRan, spared>>
    BY <1>2, <2>1 DEF ConnAck, Live
  <2>3. seenAge \in Nat /\ PingAfter \in Nat /\ PingAfter > 0
    BY MqttLinkAssumption DEF LinkInv, MqttLinkTypeOK, FewPublishes, Cap
  <2>4. LiveIsAnswered' /\ SendsInTime' /\ spared'
    BY <2>2, <2>3 DEF LiveIsAnswered, SendsInTime, AliveInv
  <2>5. ServerHears'
    BY <2>1, <2>2, <2>3 DEF AliveInv, ServerHears
  <2>6. ClientHears'
    <3>1. PutOff(0) \in Nat /\ PutOff(0 + 1) \in Nat
      BY PutOffStep
    <3>2. QED BY <2>2, <2>3, <3>1 DEF ClientHears
  <2>7. QED BY <2>4, <2>5, <2>6 DEF AliveInv
<1>3. QED BY <1>1, <1>2

LEMMA ClientReadsAlive == FewPublishes /\ LinkInv /\ AliveInv /\ ClientReads => AliveInv'
<1> SUFFICES ASSUME FewPublishes, LinkInv, AliveInv, ClientReads PROVE AliveInv'
  OBVIOUS
<1>1. Live /\ mqtt /\ ~waiting
  BY DEF ClientReads, Connected, LinkInv, OnlyWorkingCarries, GreetingIsSent, MqttLinkTypeOK, Live
<1>2. /\ rxAge' = 0 /\ published' = 0
      /\ UNCHANGED <<link, toServer, waiting, mqtt, txAge, session, seenAge, clientRan, serverRan, spared>>
  BY DEF ClientReads
<1>3. txAge \in Nat
  BY MqttLinkAssumption DEF LinkInv, MqttLinkTypeOK, Cap
<1>4. ClientHears'
  <2>1. PutOff(0) \in Nat /\ PutOff(0 + 1) \in Nat
    BY PutOffStep
  <2>2. QED BY <1>2, <1>3, <2>1 DEF ClientHears
<1>5. LiveIsAnswered' /\ SendsInTime' /\ ServerHears' /\ spared'
  BY <1>1, <1>2 DEF AliveInv, LiveIsAnswered, SendsInTime, ServerHears, Live
<1>6. QED BY <1>4, <1>5 DEF AliveInv

\* What the client writes to a live connection goes behind the rest.
LEMMA WriteEffect ==
  ASSUME LinkInv, Live, NEW packet \in {"PINGREQ", "PUBLISH", "SUBSCRIBE"},
         toServer' = Written(toServer, packet)
  PROVE  /\ toServer' # <<>>
         /\ Pinged => Pinged'
         /\ packet = "PINGREQ" => Pinged'
         /\ Pinged' => Pinged \/ packet = "PINGREQ"
<1>1. toServer \in Seq(ToServer) /\ packet \in ToServer
  BY DEF LinkInv, MqttLinkTypeOK, ToServer
<1>2. toServer' = Append(toServer, packet)
  BY DEF Written, Live
<1>3. toServer' # <<>>
  BY <1>1, <1>2
<1>4. QED BY <1>1, <1>2, <1>3, AppendPinged

LEMMA ClientRestsAlive == FewPublishes /\ LinkInv /\ AliveInv /\ ClientRests => AliveInv'
<1> SUFFICES ASSUME FewPublishes, LinkInv, AliveInv, ClientRests PROVE AliveInv'
  OBVIOUS
<1>1. CASE link # "up"
  <2>1. link' # "up" /\ spared'
    BY <1>1 DEF ClientRests, HangUp, AliveInv
  <2>2. QED BY <2>1, NotLiveAlive DEF Live
<1>2. CASE link = "up"
  <2>1. Live /\ mqtt /\ ~waiting /\ toClient = <<>> /\ ~(rxAge > DropAfter)
    <3>1. Live /\ mqtt /\ ~waiting /\ toClient = <<>>
      BY <1>2, ConnectedIsLive DEF ClientRests, Connected
    <3>2. rxAge <= DropAfter /\ rxAge \in Nat /\ DropAfter \in Nat
      BY <3>1, KeepAliveHolds, MqttLinkAssumption DEF LinkInv, MqttLinkTypeOK, Cap
    <3>3. QED BY <3>1, <3>2
  <2>2. /\ clientRan' /\ UNCHANGED <<link, toClient, waiting, mqtt, rxAge, session, seenAge,
                                       serverRan, published, spared>>
        /\ IF PingDue THEN toServer' = Written(toServer, "PINGREQ") /\ txAge' = 0
                      ELSE UNCHANGED <<toServer, txAge>>
    BY <2>1 DEF ClientRests, bounds
  <2>3. /\ published \in Nat /\ seenAge \in Nat /\ rxAge \in Nat /\ txAge \in Nat
        /\ PingAfter \in Nat /\ PingAfter > 0
    BY MqttLinkAssumption DEF LinkInv, MqttLinkTypeOK, FewPublishes, Cap
  <2>4. PutOff(published) \in Nat /\ PutOff(published + 1) = PutOff(published) + PingAfter
    BY <2>3, PutOffStep
  <2>5. LiveIsAnswered' /\ spared'
    BY <2>1, <2>2 DEF AliveInv, LiveIsAnswered
  <2>6. CASE PingDue
    <3>1. toServer' # <<>> /\ Pinged'
      BY <2>1, <2>2, <2>3, <2>6, WriteEffect
    <3>2. SendsInTime' /\ ServerHears'
      BY <2>1, <2>2, <2>3, <2>6, <3>1 DEF SendsInTime, ServerHears
    <3>3. ClientHears'
      BY <2>1, <2>2, <2>3, <2>4, <3>1 DEF AliveInv, ClientHears, SendsInTime
    <3>4. QED BY <2>5, <3>1, <3>2, <3>3 DEF AliveInv
  <2>7. CASE ~PingDue
    <3>1. ServerHears' /\ ClientHears'
      BY <2>1, <2>2, <2>7 DEF AliveInv, ServerHears, ClientHears, Live, Pinged
    <3>2. SendsInTime'
      BY <2>2, <2>3, <2>7 DEF SendsInTime, PingDue
    <3>3. QED BY <2>5, <3>1, <3>2 DEF AliveInv
  <2>8. QED BY <2>6, <2>7
<1>3. QED BY <1>1, <1>2

LEMMA SendAlive ==
  ASSUME FewPublishes, LinkInv, AliveInv, NEW packet \in {"PUBLISH", "SUBSCRIBE"}, Send(packet)
  PROVE  AliveInv'
<1>1. CASE link # "up"
  <2>1. link' # "up" /\ spared'
    BY <1>1 DEF Send, AliveInv
  <2>2. QED BY <2>1, NotLiveAlive DEF Live
<1>2. CASE link = "up"
  <2>1. Live /\ mqtt /\ ~waiting
    BY <1>2, ConnectedIsLive DEF Send, Connected
  <2>2. /\ txAge' = 0 /\ published' = published + 1 /\ toServer' = Written(toServer, packet)
        /\ UNCHANGED <<link, toClient, waiting, mqtt, rxAge, session, seenAge, clientRan,
                        serverRan, spared>>
    BY DEF Send
  <2>3. /\ published \in Nat /\ seenAge \in Nat /\ rxAge \in Nat /\ txAge \in Nat
        /\ PingAfter \in Nat /\ PingAfter > 0
    BY MqttLinkAssumption DEF LinkInv, MqttLinkTypeOK, FewPublishes, Cap
  <2>4. /\ PutOff(published) \in Nat /\ PutOff(published + 1) = PutOff(published) + PingAfter
        /\ PutOff(published' + 1) = PutOff(published + 1) + PingAfter
    BY <2>2, <2>3, PutOffStep
  <2>5. toServer' # <<>> /\ (Pinged <=> Pinged')
    BY <2>1, <2>2, <2>3, WriteEffect
  <2>6. LiveIsAnswered' /\ SendsInTime' /\ ServerHears' /\ spared'
    BY <2>1, <2>2, <2>3, <2>5 DEF AliveInv, LiveIsAnswered, SendsInTime, ServerHears, Live
  <2>7. ClientHears'
    BY <2>1, <2>2, <2>3, <2>4, <2>5 DEF AliveInv, ClientHears, SendsInTime, Live
  <2>8. QED BY <2>5, <2>6, <2>7 DEF AliveInv
<1>3. QED BY <1>1, <1>2

LEMMA ServerReadsAlive == FewPublishes /\ LinkInv /\ AliveInv /\ ServerReads => AliveInv'
<1> SUFFICES ASSUME FewPublishes, LinkInv, AliveInv, ServerReads PROVE AliveInv'
  OBVIOUS
<1>1. /\ link = "up" /\ link' = "up" /\ toServer # <<>> /\ toServer' = Tail(toServer) /\ seenAge' = 0
      /\ UNCHANGED <<waiting, mqtt, rxAge, txAge, clientRan, serverRan, published, spared>>
  BY DEF ServerReads, bounds
<1>2. /\ published \in Nat /\ txAge \in Nat /\ SocketCap \in Nat \ {0} /\ MqttLinkTypeOK
      /\ toServer \in Seq(ToServer) /\ toClient \in Seq(ToClient)
  BY MqttLinkAssumption DEF LinkInv, MqttLinkTypeOK, Cap, ToServer, ToClient
<1>3. CASE session # "mqtt"
  <2>1. ~mqtt /\ waiting /\ toServer = <<"CONNECT">> /\ toClient = <<>>
    BY <1>1, <1>3 DEF LinkInv, GreetingIsSent, AliveInv, LiveIsAnswered
  <2>2. toServer' = <<>> /\ toClient' = <<"CONNACK">>
    BY <1>1, <1>2, <2>1 DEF ServerReads, Written
  <2>3. LiveIsAnswered' /\ spared'
    BY <1>1, <2>1, <2>2 DEF LiveIsAnswered, AliveInv
  <2>4. SendsInTime' /\ ServerHears' /\ ClientHears'
    BY <1>1, <2>1 DEF SendsInTime, ServerHears, ClientHears
  <2>5. QED BY <2>3, <2>4 DEF AliveInv
<1>4. CASE session = "mqtt"
  <2>1. Live /\ session' = "mqtt"
    BY <1>1, <1>4 DEF ServerReads, Live
  <2>2. \/ toClient' = toClient /\ Head(toServer) # "PINGREQ"
        \/ \E packet \in ToClient : toClient' = Written(toClient, packet)
    BY DEF ServerReads, ToClient
  <2>3. toClient # <<>> => toClient' # <<>> /\ Head(toClient') = Head(toClient)
    BY <1>2, <2>2 DEF Written
  <2>4. toClient' = <<>> => toClient = <<>> /\ Head(toServer) # "PINGREQ"
    <3>1. ASSUME NEW packet \in ToClient, toClient' = Written(toClient, packet) PROVE toClient' # <<>>
      <4>1. toClient' = Append(toClient, packet)
        BY <1>1, <3>1 DEF Written
      <4>2. QED BY <1>2, <4>1
    <3>2. QED BY <2>2, <3>1
  <2>5. LiveIsAnswered' /\ spared'
    BY <1>1, <2>1, <2>3 DEF LiveIsAnswered, AliveInv, Live
  <2>6. SendsInTime' /\ ServerHears'
    BY <1>1, <1>2, <2>1 DEF SendsInTime, ServerHears, AliveInv, Live
  <2>7. ClientHears'
    <3>1. Head(toServer) # "PINGREQ" => (Pinged <=> Pinged')
      BY <1>1, <1>2, TailPinged
    <3>2. QED BY <1>1, <2>1, <2>4, <3>1 DEF ClientHears, AliveInv, Live
  <2>8. QED BY <2>5, <2>6, <2>7 DEF AliveInv
<1>5. QED BY <1>3, <1>4

LEMMA ServerRestsAlive == FewPublishes /\ LinkInv /\ AliveInv /\ ServerRests => AliveInv'
<1> SUFFICES ASSUME FewPublishes, LinkInv, AliveInv, ServerRests PROVE AliveInv'
  OBVIOUS
<1>1. CASE link # "up"
  <2>1. link' # "up" /\ spared'
    BY <1>1 DEF ServerRests, sockets, AliveInv
  <2>2. QED BY <2>1, NotLiveAlive DEF Live
<1>2. CASE link = "up"
  <2>1. toServer = <<>> /\ Live
    BY <1>2 DEF ServerRests, LinkInv, GreetingIsSent, Live
  <2>2. ~(seenAge > DropAfter)
    <3>1. seenAge <= DropAfter /\ seenAge \in Nat /\ DropAfter \in Nat
      BY <2>1, KeepAliveHolds, MqttLinkAssumption DEF LinkInv, MqttLinkTypeOK, Cap
    <3>2. QED BY <3>1
  <2>3. serverRan' /\ UNCHANGED <<sockets, session, spared, waiting, mqtt, ages, clientRan, bounds>>
    BY <1>2, <2>2 DEF ServerRests
  <2>4. ~Pinged
    BY <2>1 DEF Pinged
  <2>5. ClientHears'
    BY <2>1, <2>3, <2>4 DEF AliveInv, ClientHears, Live, Pinged, sockets, ages, bounds
  <2>6. QED BY <2>3, <2>5 DEF AliveInv, LiveIsAnswered, SendsInTime, ServerHears, Live,
               sockets, ages, bounds
<1>3. QED BY <1>1, <1>2

LEMMA FeedAlive == LinkInv /\ AliveInv /\ Feed => AliveInv'
<1> SUFFICES ASSUME LinkInv, AliveInv, Feed PROVE AliveInv'
  OBVIOUS
<1>1. /\ toClient' # <<>> /\ Live /\ (toClient # <<>> => Head(toClient') = Head(toClient))
      /\ UNCHANGED <<link, toServer, waiting, mqtt, ages, session, clientRan, serverRan, spared, bounds>>
  BY DEF Feed, Live, LinkInv, MqttLinkTypeOK
<1>2. QED BY <1>1 DEF AliveInv, LiveIsAnswered, SendsInTime, ServerHears, ClientHears,
             Live, ages, bounds

LEMMA TickAlive == FewPublishes /\ LinkInv /\ AliveInv /\ Tick => AliveInv'
<1> SUFFICES ASSUME FewPublishes, LinkInv, AliveInv, Tick PROVE AliveInv'
  OBVIOUS
<1>1. /\ ~clientRan' /\ ~serverRan' /\ serverRan
      /\ UNCHANGED <<link, toServer, toClient, waiting, mqtt, session, published, spared>>
  BY DEF Tick, sockets, bounds
<1>2. CASE ~Live
  <2>1. link' = "up" => waiting' \/ mqtt'
    BY <1>1 DEF AliveInv, LiveIsAnswered
  <2>2. QED BY <1>1, <1>2, <2>1, NotLiveAlive DEF AliveInv, Live
<1>3. CASE Live
  <2>1. waiting \/ mqtt
    BY <1>3 DEF AliveInv, LiveIsAnswered, Live
  <2>2. clientRan /\ ~(waiting /\ mqtt)
    BY <1>3 DEF Tick, AliveInv, LiveIsAnswered, LinkInv, WaitingIsFresh
  <2>3. /\ rxAge \in Nat /\ txAge \in Nat /\ seenAge \in Nat /\ rxAge' \in Nat /\ txAge' \in Nat
        /\ seenAge' \in Nat /\ rxAge' <= rxAge + 1 /\ txAge' <= txAge + 1 /\ seenAge' <= seenAge + 1
        /\ (txAge < Cap => txAge' = txAge + 1)
    BY OlderType, CapType DEF Tick, LinkInv, MqttLinkTypeOK
  <2>4. PingAfter \in Nat /\ PingAfter < Cap /\ published \in Nat
    BY MqttLinkAssumption DEF Cap, LinkInv, MqttLinkTypeOK
  <2>5. mqtt => txAge < PingAfter /\ txAge' = txAge + 1
    BY <1>3, <2>2, <2>3, <2>4, CapType DEF AliveInv, SendsInTime
  <2>6. LiveIsAnswered' /\ spared'
    BY <1>1 DEF AliveInv, LiveIsAnswered, Live
  <2>7. SendsInTime'
    BY <1>1, <2>3, <2>4, <2>5 DEF SendsInTime
  <2>8. ServerHears'
    <3>1. waiting => seenAge <= 0
      BY <1>3, <2>2 DEF AliveInv, ServerHears
    <3>2. mqtt /\ toServer = <<>> => seenAge <= txAge + 1
      BY <1>3 DEF AliveInv, ServerHears
    <3>3. waiting => seenAge' <= 1
      BY <2>3, <3>1
    <3>4. mqtt /\ toServer = <<>> => seenAge' <= txAge' + 1
      BY <2>3, <2>5, <3>2
    <3>5. QED BY <1>1, <3>3, <3>4 DEF ServerHears
  <2>9. ClientHears'
    <3>1. PutOff(published) \in Nat /\ PutOff(published + 1) \in Nat
      BY <2>4, PutOffStep
    <3>2. QED BY <1>1, <1>3, <2>3, <2>5, <3>1 DEF AliveInv, ClientHears, Live, Pinged
  <2>10. QED BY <2>6, <2>7, <2>8, <2>9 DEF AliveInv
<1>4. QED BY <1>2, <1>3

LEMMA AliveNextInv ==
  ASSUME FewPublishes PROVE LinkInv /\ AliveInv /\ [Next]_vars => AliveInv'
BY EndingsAlive, ConnectAlive, ConnAckAlive, NothingToAttemptAlive, ClientReadsAlive, ClientRestsAlive,
   SendAlive, ServerReadsAlive, ServerRestsAlive, FeedAlive, FallSilentAlive, TickAlive, StutterAlive
   DEF Next, Client, Server, Publish, Subscribe

\* Neither end's keep-alive ever ends a connection that works, of a client that
\* goes on calling publish() and subscribe(), but between two packets it reads
\* only so often that the PINGREQ they put off still comes in time; for all
\* times, whatever breaks.  Without FewPublishes the code does end it: run
\* keepalive_publisher.
THEOREM KeepAliveSparesFewPublishers ==
  ASSUME FewPublishes PROVE Spec => []KeepAliveSparesLiveLinks
<1>1. AliveInv => KeepAliveSparesLiveLinks
  BY DEF AliveInv, KeepAliveSparesLiveLinks
<1>2. QED BY LinkInitInv, LinkNextInv, InitAlive, AliveNextInv, <1>1, PTL DEF Spec
=============================================================================
