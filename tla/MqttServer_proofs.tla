-------------------------- MODULE MqttServer_proofs --------------------------
(***************************************************************************)
(* Every entry of the subscription table belongs to the connection that is *)
(* in its slot, and the server is the broker of MqttBroker; for every      *)
(* number of connections, slots and entries.                               *)
(***************************************************************************)
EXTENDS MqttServer, FiniteSetTheorems, WellFoundedInduction, TLAPS

USE DEF traffic, Broker!traffic

\* update() reads from a slot only while that holds a connection.
ReadsConnected == reading => turn # 0 /\ conn[turn] # NoConn

\* Filters are added only for the client they came from, which has been greeted.
AddsGreeted == adding # <<>> => reading /\ greeted[turn]

\* A connection that was not accepted yet is in no slot.
UnopenedIsDetached == \A c \in Conns : link[c] = "unopened" => \A i \in Slots : conn[i] # c

\* What the table and the slots have to do with each other.
TableInv == OneSlotEach /\ SubscriptionsAreOwned /\ UnopenedIsDetached

\* The inductive invariant.
ServerInv == ServerTypeOK /\ TableInv /\ ReadsConnected /\ AddsGreeted

-----------------------------------------------------------------------------
LEMMA EntryType ==
  ASSUME ServerTypeOK, NEW k \in Index, subs[k] # Unused
  PROVE  subs[k] \in [client: Slots, filter: Filters] /\ subs[k].client \in Slots
BY DEF ServerTypeOK

LEMMA ServerInitInv == Init => ServerInv
<1> SUFFICES ASSUME Init PROVE ServerInv
  OBVIOUS
<1>1. ServerTypeOK
  <2>1. greeted \in [Slots -> BOOLEAN] /\ keeps \in [Slots -> BOOLEAN] /\ late \in [Slots -> BOOLEAN]
        /\ started \in BOOLEAN /\ reading \in BOOLEAN
    BY DEF Init
  <2>2. turn \in 0..MaxClients /\ adding \in Seq(Filters) /\ Len(adding) <= MaxFilters
        /\ messages \in Nat
    BY ServerAssumption DEF Init
  <2>3. outbox \in [Conns -> [Topics -> Nat]] /\ published \in [Topics -> Nat]
    BY DEF Init
  <2>4. QED BY <2>1, <2>2, <2>3 DEF Init, ServerTypeOK
<1>2. TableInv
  <2>1. OneSlotEach
    BY DEF Init, OneSlotEach
  <2>2. SubscriptionsAreOwned
    BY DEF Init, SubscriptionsAreOwned
  <2>3. UnopenedIsDetached
    BY ServerAssumption DEF Init, UnopenedIsDetached
  <2>4. QED BY <2>1, <2>2, <2>3 DEF TableInv
<1>3. QED BY <1>1, <1>2 DEF Init, ServerInv, ReadsConnected, AddsGreeted

\* While the slots, the table and what was granted stay, it does not matter to
\* the table how the rest goes on.
LEMMA KeptTable ==
  ASSUME ServerInv, UNCHANGED <<conn, subs, granted>>,
         \A i \in Slots : greeted[i] => greeted'[i],
         \A c \in Conns : link'[c] = "unopened" => link[c] = "unopened"
  PROVE  TableInv'
<1>1. OneSlotEach' /\ UnopenedIsDetached'
  BY DEF ServerInv, TableInv, OneSlotEach, UnopenedIsDetached
<1>2. SubscriptionsAreOwned'
  <2> SUFFICES ASSUME NEW k \in Index, subs[k] # Unused
               PROVE  /\ conn[subs[k].client] # NoConn /\ greeted'[subs[k].client]
                      /\ subs[k].filter \in granted[conn[subs[k].client]]
                      /\ \A l \in Index : subs[k] = subs[l] => k = l
    BY DEF SubscriptionsAreOwned
  <2>1. subs[k].client \in Slots
    BY EntryType DEF ServerInv
  <2>2. QED BY <2>1 DEF ServerInv, TableInv, SubscriptionsAreOwned
<1>3. QED BY <1>1, <1>2 DEF TableInv

-----------------------------------------------------------------------------
(* closeClient takes the subscriptions of a slot along. *)

LEMMA CloseTable ==
  ASSUME ServerInv, NEW closing \in SUBSET Slots, Close(closing), UNCHANGED granted
  PROVE  TableInv'
<1>1. \A i \in Slots : /\ conn'[i] = IF i \in closing THEN NoConn ELSE conn[i]
                       /\ greeted'[i] <=> greeted[i] /\ i \notin closing
  BY DEF Close
<1>2. \A k \in Index : subs'[k] = IF subs[k].client \in closing THEN Unused ELSE subs[k]
  BY DEF Close
<1>3. OneSlotEach'
  BY <1>1 DEF ServerInv, TableInv, OneSlotEach
<1>4. SubscriptionsAreOwned'
  <2> SUFFICES ASSUME NEW k \in Index, subs'[k] # Unused
               PROVE  /\ conn'[subs'[k].client] # NoConn /\ greeted'[subs'[k].client]
                      /\ subs'[k].filter \in granted'[conn'[subs'[k].client]]
                      /\ \A l \in Index : subs'[k] = subs'[l] => k = l
    BY DEF SubscriptionsAreOwned
  <2>1. subs'[k] = subs[k] /\ subs[k] # Unused /\ subs[k].client \notin closing
    BY <1>2
  <2>2. subs[k].client \in Slots
    BY <2>1, EntryType DEF ServerInv
  <2>3. \A l \in Index : subs'[k] = subs'[l] => subs[k] = subs[l]
    BY <1>2, <2>1
  <2>4. QED BY <1>1, <2>1, <2>2, <2>3 DEF ServerInv, TableInv, SubscriptionsAreOwned
<1>5. UnopenedIsDetached'
  <2> SUFFICES ASSUME NEW c \in Conns, link'[c] = "unopened", NEW i \in Slots
               PROVE  conn'[i] # c
    BY DEF UnopenedIsDetached
  <2>1. link[c] = "unopened"
    BY DEF Close
  <2>2. conn[i] # c
    BY <2>1 DEF ServerInv, TableInv, UnopenedIsDetached
  <2>3. QED BY <1>1, <2>2, ServerAssumption
<1>6. QED BY <1>3, <1>4, <1>5 DEF TableInv

\* The types that Close is about.
LEMMA CloseTypes ==
  ASSUME ServerTypeOK, NEW closing \in SUBSET Slots, Close(closing)
  PROVE  /\ conn' \in [Slots -> Conns \union {NoConn}]
         /\ greeted' \in [Slots -> BOOLEAN]
         /\ keeps' \in [Slots -> BOOLEAN] /\ late' \in [Slots -> BOOLEAN]
         /\ subs' \in [Index -> [client: Slots, filter: Filters] \union {Unused}]
         /\ link' \in [Conns -> {"unopened", "open", "silent", "broken"}]
BY DEF ServerTypeOK, Close

LEMMA GoOnType ==
  ASSUME ServerTypeOK, GoOn
  PROVE  turn' \in 0..MaxClients /\ reading' = FALSE
BY ServerAssumption DEF ServerTypeOK, GoOn

LEMMA CloseAndGoOnInv ==
  ASSUME ServerInv, turn # 0, adding = <<>>, CloseAndGoOn, messages' \in Nat
  PROVE  ServerInv'
<1>1. {turn} \in SUBSET Slots
  BY ServerAssumption DEF ServerInv, ServerTypeOK, Slots
<1>2. TableInv'
  BY <1>1, CloseTable DEF CloseAndGoOn
<1>3. ServerTypeOK'
  <2>1. turn' \in 0..MaxClients /\ reading' \in BOOLEAN
    BY GoOnType DEF CloseAndGoOn, ServerInv
  <2>2. UNCHANGED <<started, adding, outbox, published, granted>>
    BY DEF CloseAndGoOn
  <2>3. QED BY <1>1, <2>1, <2>2, CloseTypes DEF CloseAndGoOn, ServerInv, ServerTypeOK
<1>4. reading' = FALSE /\ adding' = <<>>
  BY DEF CloseAndGoOn, GoOn
<1>5. QED BY <1>2, <1>3, <1>4 DEF ServerInv, ReadsConnected, AddsGreeted

LEMMA StopInv == ASSUME ServerInv, Stop PROVE ServerInv'
<1>1. {i \in Slots : conn[i] # NoConn} \in SUBSET Slots
  OBVIOUS
<1>2. TableInv'
  BY <1>1, CloseTable DEF Stop
<1>3. ServerTypeOK'
  BY <1>1, CloseTypes DEF Stop, place, ServerInv, ServerTypeOK
<1>4. reading' = FALSE /\ adding' = <<>>
  BY DEF Stop, place, ServerInv, ServerTypeOK, ReadsConnected, AddsGreeted
<1>5. QED BY <1>2, <1>3, <1>4 DEF ServerInv, ReadsConnected, AddsGreeted

-----------------------------------------------------------------------------
(* accept, and what leaves the table alone. *)

LEMMA SmallestExists ==
  ASSUME NEW S \in SUBSET Nat, S # {}
  PROVE  \E i \in S : \A j \in S : i <= j
<1> DEFINE Less == OpToRel(<, Nat)
<1>1. IsWellFoundedOn(Less, Nat)
  BY NatLessThanWellFounded
<1>2. \A i, j \in S : <<j, i>> \in Less <=> j < i
  BY DEF OpToRel
<1> HIDE DEF Less
<1>3. PICK i \in S : \A j \in S : ~(<<j, i>> \in Less)
  BY <1>1, WFMin
<1>4. \A j \in S : ~(j < i)
  BY <1>2, <1>3
<1>5. QED BY <1>4

LEMMA FirstFree == ASSUME ServerTypeOK, Free # {} PROVE First(Free) \in Free
<1>1. Free \in SUBSET Nat
  BY ServerAssumption DEF Free, Slots
<1>2. \E i \in Free : \A j \in Free : i <= j
  BY <1>1, SmallestExists
<1>3. QED BY <1>2 DEF First

LEMMA AcceptInv == ASSUME ServerInv, NEW c \in Conns, Accept(c) PROVE ServerInv'
<1>1. turn' \in 0..MaxClients /\ reading' = FALSE /\ adding' = <<>>
  BY GoOnType DEF Accept, ServerInv, AddsGreeted, ReadsConnected
<1>2. CASE Free # {}
  <2> DEFINE s == First(Free)
  <2>1. s \in Slots /\ conn[s] = NoConn
    BY <1>2, FirstFree DEF Free, ServerInv
  <2>2. /\ conn' = [conn EXCEPT ![s] = c]
        /\ greeted' = [greeted EXCEPT ![s] = FALSE]
        /\ keeps' = [keeps EXCEPT ![s] = TRUE]
        /\ late' = [late EXCEPT ![s] = FALSE]
        /\ link' = [link EXCEPT ![c] = "open"]
        /\ UNCHANGED <<started, adding, subs, outbox, published, granted, messages>>
    BY <1>2 DEF Accept
  <2> HIDE DEF s
  <2>3. ServerTypeOK'
    BY <1>1, <2>1, <2>2 DEF ServerInv, ServerTypeOK
  <2>4. \A i \in Slots : conn[i] # c
    BY DEF Accept, ServerInv, TableInv, UnopenedIsDetached
  <2>5. \A i \in Slots : conn'[i] = IF i = s THEN c ELSE conn[i]
    BY <2>1, <2>2 DEF ServerInv, ServerTypeOK
  <2>6. OneSlotEach'
    BY <2>4, <2>5 DEF ServerInv, TableInv, OneSlotEach
  <2>7. UnopenedIsDetached'
    BY <2>2, <2>5 DEF ServerInv, ServerTypeOK, TableInv, UnopenedIsDetached
  <2>8. SubscriptionsAreOwned'
    <3> SUFFICES ASSUME NEW k \in Index, subs[k] # Unused
                 PROVE  /\ conn'[subs[k].client] # NoConn /\ greeted'[subs[k].client]
                        /\ subs[k].filter \in granted[conn'[subs[k].client]]
                        /\ \A l \in Index : subs[k] = subs[l] => k = l
      BY <2>2 DEF SubscriptionsAreOwned
    <3>1. subs[k].client \in Slots
      BY EntryType DEF ServerInv
    <3>2. conn[subs[k].client] # NoConn
      BY DEF ServerInv, TableInv, SubscriptionsAreOwned
    <3>3. conn'[subs[k].client] = conn[subs[k].client]
          /\ greeted'[subs[k].client] = greeted[subs[k].client]
      BY <2>1, <2>2, <2>5, <3>1, <3>2 DEF ServerInv, ServerTypeOK
    <3>4. QED BY <3>3 DEF ServerInv, TableInv, SubscriptionsAreOwned
  <2>9. QED BY <1>1, <2>3, <2>6, <2>7, <2>8 DEF ServerInv, TableInv, ReadsConnected, AddsGreeted
<1>3. CASE Free = {}
  <2>1. link' = [link EXCEPT ![c] = "broken"]
        /\ UNCHANGED <<started, clients, subs, outbox, published, granted, messages>>
    BY <1>3 DEF Accept
  <2>2. TableInv'
    <3>1. UNCHANGED <<conn, greeted, subs, granted>>
      BY <2>1 DEF clients
    <3>2. \A d \in Conns : link'[d] = "unopened" => link[d] = "unopened"
      BY <2>1 DEF ServerInv, ServerTypeOK
    <3>3. QED BY <3>1, <3>2, KeptTable
  <2>3. ServerTypeOK'
    <3>1. link' \in [Conns -> {"unopened", "open", "silent", "broken"}]
      BY <2>1 DEF ServerInv, ServerTypeOK
    <3>2. UNCHANGED <<conn, greeted, keeps, late>>
      BY <2>1 DEF clients
    <3>3. UNCHANGED <<started, adding, subs, outbox, published, granted, messages>>
      BY <2>1 DEF Accept
    <3>4. QED BY <1>1, <3>1, <3>2, <3>3 DEF ServerInv, ServerTypeOK
  <2>4. QED BY <1>1, <2>2, <2>3 DEF ServerInv, ReadsConnected, AddsGreeted
<1>4. QED BY <1>2, <1>3

\* The environment, begin, and the steps of update() that find nothing.
LEMMA IdleInv ==
  ASSUME ServerInv,
         \/ Begin \/ NothingToAccept \/ Skip \/ FindConnected \/ NothingToRead
         \/ \E c \in Conns : Break(c) \/ FallSilent(c)
         \/ \E i \in Slots : KeepAliveRunsOut(i)
         \/ UNCHANGED vars
  PROVE  ServerInv'
<1>1. UNCHANGED <<adding, conn, greeted, keeps, subs, outbox, published, granted, messages>>
  BY DEF Begin, NothingToAccept, Skip, FindConnected, NothingToRead, Break, FallSilent,
         KeepAliveRunsOut, vars, clients, place
<1>2. /\ started' \in BOOLEAN /\ reading' \in BOOLEAN /\ turn' \in 0..MaxClients
      /\ late' \in [Slots -> BOOLEAN]
      /\ link' \in [Conns -> {"unopened", "open", "silent", "broken"}]
      /\ \A c \in Conns : link'[c] = "unopened" => link[c] = "unopened"
  <2>1. CASE Begin \/ UNCHANGED vars
    BY <2>1 DEF Begin, vars, clients, place, ServerInv, ServerTypeOK
  <2>2. CASE NothingToAccept \/ Skip \/ NothingToRead
    <3>1. GoOn /\ UNCHANGED <<started, late, link>>
      BY <2>2 DEF NothingToAccept, Skip, NothingToRead, clients
    <3>2. QED BY <3>1, GoOnType DEF ServerInv, ServerTypeOK
  <2>3. CASE FindConnected
    BY <2>3 DEF FindConnected, clients, ServerInv, ServerTypeOK
  <2>4. ASSUME NEW c \in Conns, Break(c) \/ FallSilent(c)
        PROVE  /\ UNCHANGED <<started, reading, turn, late>>
               /\ link' \in [Conns -> {"unopened", "open", "silent", "broken"}]
               /\ \A d \in Conns : link'[d] = "unopened" => link[d] = "unopened"
    BY <2>4 DEF Break, FallSilent, clients, place, ServerInv, ServerTypeOK
  <2>5. ASSUME NEW i \in Slots, KeepAliveRunsOut(i)
        PROVE  UNCHANGED <<started, reading, turn, link>> /\ late' \in [Slots -> BOOLEAN]
    BY <2>5 DEF KeepAliveRunsOut, place, ServerInv, ServerTypeOK
  <2>6. QED BY <2>1, <2>2, <2>3, <2>4, <2>5 DEF ServerInv, ServerTypeOK
<1>3. ServerTypeOK'
  BY <1>1, <1>2 DEF ServerInv, ServerTypeOK
<1>4. TableInv'
  BY <1>1, <1>2, KeptTable
<1>5. ReadsConnected' /\ AddsGreeted'
  BY <1>1 DEF Begin, NothingToAccept, Skip, FindConnected, NothingToRead, Break, FallSilent,
              KeepAliveRunsOut, GoOn, vars, clients, place,
              ServerInv, ReadsConnected, AddsGreeted
<1>6. QED BY <1>3, <1>4, <1>5 DEF ServerInv

-----------------------------------------------------------------------------
(* Packets and messages. *)

LEMMA ForwardType ==
  ASSUME ServerTypeOK, NEW t \in Topics, Forward(t)
  PROVE  outbox' \in [Conns -> [Topics -> Nat]] /\ published' \in [Topics -> Nat]
<1>1. ASSUME NEW c \in Conns, NEW i
      PROVE  [outbox[c] EXCEPT ![t] = @ + Copies(i, t)] \in [Topics -> Nat]
  <2>1. Copies(i, t) \in {0, 1}
    BY DEF Copies
  <2>2. outbox[c] \in [Topics -> Nat] /\ outbox[c][t] + Copies(i, t) \in Nat
    BY <2>1 DEF ServerTypeOK
  <2>3. QED BY <2>2
<1>2. published' \in [Topics -> Nat]
  <2>1. published \in [Topics -> Nat] /\ published' = [published EXCEPT ![t] = @ + 1]
    BY DEF Forward, ServerTypeOK
  <2>2. QED BY <2>1
<1>3. outbox' \in [Conns -> [Topics -> Nat]]
  <2>1. \A c \in Conns : outbox[c] \in [Topics -> Nat]
    BY DEF ServerTypeOK
  <2>2. outbox' = [c \in Conns |->
          IF \E i \in Slots : conn[i] = c /\ greeted[i] /\ link[c] = "open"
          THEN [outbox[c] EXCEPT ![t] = @ + Copies(CHOOSE i \in Slots : conn[i] = c, t)]
          ELSE outbox[c]]
    BY DEF Forward
  <2>3. QED BY <1>1, <2>1, <2>2
<1>4. QED BY <1>2, <1>3

LEMMA PublishInv == ASSUME ServerInv, NEW t \in Topics, Publish(t) PROVE ServerInv'
<1>1. outbox' \in [Conns -> [Topics -> Nat]] /\ published' \in [Topics -> Nat] /\ messages' \in Nat
  BY ForwardType DEF Publish, ServerInv, ServerTypeOK
<1>2. UNCHANGED <<started, turn, reading, adding, conn, greeted, keeps, late, subs, link, granted>>
  BY DEF Publish, place, clients
<1>3. TableInv'
  BY <1>2, KeptTable
<1>4. QED BY <1>1, <1>2, <1>3 DEF ServerInv, ServerTypeOK, ReadsConnected, AddsGreeted

\* A packet that leaves the connection and the table as they are.
LEMMA HandleInv ==
  ASSUME ServerInv,
         \/ HandleOther
         \/ \E keep \in BOOLEAN : HandleConnect(keep)
         \/ \E t \in Topics : HandlePublish(t)
         \/ \E fs \in Requests : HandleSubscribe(fs)
  PROVE  ServerInv'
<1>1. /\ Read /\ Seen /\ UNCHANGED <<subs, granted>>
      /\ Counted \/ UNCHANGED messages
  BY DEF HandleOther, HandleConnect, HandlePublish, HandleSubscribe
<1>2. /\ turn # 0 /\ turn \in Slots /\ reading /\ messages' \in Nat
      /\ UNCHANGED <<started, turn, reading, conn, link>>
      /\ late' \in [Slots -> BOOLEAN]
  BY <1>1, ServerAssumption DEF Read, Counted, Seen, ServerInv, ServerTypeOK, Slots
<1>3. /\ greeted' \in [Slots -> BOOLEAN] /\ keeps' \in [Slots -> BOOLEAN]
      /\ \A i \in Slots : greeted[i] => greeted'[i]
  BY <1>2 DEF HandleOther, HandleConnect, HandlePublish, HandleSubscribe, ServerInv, ServerTypeOK
<1>4. /\ adding' \in Seq(Filters) /\ Len(adding') <= MaxFilters
      /\ adding' # <<>> => greeted'[turn]
  <2>1. ASSUME NEW fs \in Requests
        PROVE  fs \in Seq(Filters) /\ Len(fs) <= MaxFilters
    BY ServerAssumption DEF Requests
  <2>2. CASE \E fs \in Requests : HandleSubscribe(fs)
    BY <2>1, <2>2 DEF HandleSubscribe
  <2>3. CASE adding' = adding /\ adding = <<>>
    BY <2>3 DEF ServerInv, ServerTypeOK
  <2>4. QED
    BY <1>1, <2>2, <2>3 DEF HandleOther, HandleConnect, HandlePublish, Read
<1>5. outbox' \in [Conns -> [Topics -> Nat]] /\ published' \in [Topics -> Nat]
  <2>1. ASSUME NEW t \in Topics, HandlePublish(t)
        PROVE  outbox' \in [Conns -> [Topics -> Nat]] /\ published' \in [Topics -> Nat]
    BY <2>1, ForwardType DEF HandlePublish, ServerInv
  <2>2. CASE UNCHANGED <<outbox, published>>
    BY <2>2 DEF ServerInv, ServerTypeOK
  <2>3. QED BY <2>1, <2>2 DEF HandleOther, HandleConnect, HandleSubscribe
<1>6. TableInv'
  BY <1>1, <1>2, <1>3, KeptTable
<1>7. ServerTypeOK'
  BY <1>1, <1>2, <1>3, <1>4, <1>5 DEF ServerInv, ServerTypeOK
<1>8. QED BY <1>2, <1>4, <1>6, <1>7 DEF ServerInv, ReadsConnected, AddsGreeted

\* A filter is added to the table only where there is none like it.
LEMMA AddSubscriptionInv == ASSUME ServerInv, AddSubscription PROVE ServerInv'
<1> DEFINE f == Head(adding)
           e == Entry(turn, f)
<1>1. /\ adding # <<>> /\ reading /\ greeted[turn] /\ turn # 0 /\ conn[turn] # NoConn
      /\ adding \in Seq(Filters) /\ turn \in Slots
  BY ServerAssumption
  DEF AddSubscription, ServerInv, ServerTypeOK, AddsGreeted, ReadsConnected, Slots
<1>2. f \in Filters /\ Tail(adding) \in Seq(Filters) /\ Len(Tail(adding)) <= MaxFilters
  BY <1>1, ServerAssumption DEF ServerInv, ServerTypeOK
<1>3. e \in [client: Slots, filter: Filters] /\ e # Unused
      /\ e.client = turn /\ e.filter = f
  BY <1>1, <1>2, ServerAssumption DEF Entry, Unused
<1>4. /\ UNCHANGED <<started, turn, reading, conn, greeted, keeps, late, link, outbox, published, messages>>
      /\ adding' = Tail(adding)
      /\ granted' = [granted EXCEPT ![conn[turn]] = @ \union {f}]
  BY DEF AddSubscription, clients
<1>5. conn[turn] \in Conns /\ granted \in [Conns -> SUBSET Filters]
  BY <1>1 DEF ServerInv, ServerTypeOK
<1>6. /\ granted' \in [Conns -> SUBSET Filters]
      /\ \A c \in Conns : granted[c] \subseteq granted'[c]
      /\ f \in granted'[conn[turn]]
  BY <1>2, <1>4, <1>5
<1>7. \/ subs' = subs
      \/ \E k \in Index : /\ subs' = [subs EXCEPT ![k] = e]
                          /\ \A l \in Index : subs[l] # e
  <2>1. FreeIndex # {} => First(FreeIndex) \in Index
    <3>1. FreeIndex \in SUBSET Nat
      BY ServerAssumption DEF FreeIndex, Index
    <3>2. FreeIndex # {} => \E i \in FreeIndex : \A j \in FreeIndex : i <= j
      BY <3>1, SmallestExists
    <3>3. QED BY <3>2 DEF First, FreeIndex
  <2>2. subs' = IF e \in {subs[k] : k \in Index} \/ FreeIndex = {} THEN subs
                ELSE [subs EXCEPT ![First(FreeIndex)] = e]
    BY DEF AddSubscription
  <2> HIDE DEF e
  <2>3. QED BY <2>1, <2>2
<1> HIDE DEF e, f
<1>8. subs \in [Index -> [client: Slots, filter: Filters] \union {Unused}]
  BY DEF ServerInv, ServerTypeOK
<1>9. \A k \in Index : subs'[k] # subs[k] => subs'[k] = e
  BY <1>7, <1>8
<1>10. ServerTypeOK'
  <2>1. subs' \in [Index -> [client: Slots, filter: Filters] \union {Unused}]
    BY <1>3, <1>7, <1>8
  <2>2. QED BY <1>2, <1>4, <1>6, <2>1 DEF ServerInv, ServerTypeOK
<1>11. OneSlotEach' /\ UnopenedIsDetached'
  BY <1>4 DEF ServerInv, TableInv, OneSlotEach, UnopenedIsDetached
<1>12. SubscriptionsAreOwned'
  <2> SUFFICES ASSUME NEW k \in Index, subs'[k] # Unused
               PROVE  /\ conn[subs'[k].client] # NoConn /\ greeted[subs'[k].client]
                      /\ subs'[k].filter \in granted'[conn[subs'[k].client]]
                      /\ \A l \in Index : subs'[k] = subs'[l] => k = l
    BY <1>4 DEF SubscriptionsAreOwned
  <2> DEFINE Held == /\ conn[subs'[k].client] # NoConn /\ greeted[subs'[k].client]
                     /\ subs'[k].filter \in granted'[conn[subs'[k].client]]
  <2>1. ASSUME subs'[k] = e PROVE Held
    BY <1>1, <1>3, <1>6, <2>1
  <2>2. ASSUME subs'[k] = subs[k] PROVE Held
    <3>1. subs[k].client \in Slots /\ subs[k] # Unused
      BY <2>2, EntryType DEF ServerInv
    <3>2. /\ conn[subs[k].client] # NoConn /\ greeted[subs[k].client]
          /\ subs[k].filter \in granted[conn[subs[k].client]]
      BY <3>1 DEF ServerInv, TableInv, SubscriptionsAreOwned
    <3>3. conn[subs[k].client] \in Conns
      BY <3>1, <3>2 DEF ServerInv, ServerTypeOK
    <3>4. QED BY <1>6, <2>2, <3>2, <3>3
  <2>3. ASSUME NEW l \in Index, subs'[k] = subs'[l] PROVE k = l
    <3>1. \A i, j \in Index : subs[i] # Unused /\ subs[i] = subs[j] => i = j
      BY DEF ServerInv, TableInv, SubscriptionsAreOwned
    <3>2. CASE subs' = subs
      BY <2>3, <3>1, <3>2
    <3>3. ASSUME NEW m \in Index, subs' = [subs EXCEPT ![m] = e],
                 \A i \in Index : subs[i] # e
          PROVE  k = l
      <4>1. \A i \in Index : subs'[i] = IF i = m THEN e ELSE subs[i]
        BY <1>8, <3>3
      <4>2. QED BY <2>3, <3>1, <3>3, <4>1
    <3>4. QED BY <1>7, <3>2, <3>3
  <2>4. Held
    BY <1>9, <2>1, <2>2
  <2>5. QED BY <2>3, <2>4
<1>13. ReadsConnected' /\ AddsGreeted'
  BY <1>1, <1>4 DEF ReadsConnected, AddsGreeted
<1>14. QED BY <1>10, <1>11, <1>12, <1>13 DEF ServerInv, TableInv

-----------------------------------------------------------------------------
LEMMA ServerNextInv == ServerInv /\ [Next]_vars => ServerInv'
<1> SUFFICES ASSUME ServerInv, [Next]_vars PROVE ServerInv'
  OBVIOUS
<1>1. CASE ReadAndClose \/ FindBroken \/ TimeOut
  <2>1. turn # 0 /\ adding = <<>> /\ CloseAndGoOn
    BY <1>1 DEF ReadAndClose, Read, FindBroken, TimeOut, ServerInv, AddsGreeted
  <2>2. messages' \in Nat
    BY <1>1 DEF ReadAndClose, Read, Counted, FindBroken, TimeOut, ServerInv, ServerTypeOK
  <2>3. QED BY <2>1, <2>2, CloseAndGoOnInv
<1>2. CASE Handle
  BY <1>1, <1>2, HandleInv DEF Handle
<1>3. CASE Update
  BY <1>1, <1>3, IdleInv, AddSubscriptionInv DEF Update
<1>4. CASE \E c \in Conns : Accept(c) \/ Break(c) \/ FallSilent(c)
  BY <1>4, AcceptInv, IdleInv
<1>5. CASE \E i \in Slots : KeepAliveRunsOut(i)
  BY <1>5, IdleInv
<1>6. CASE \E t \in Topics : Publish(t)
  BY <1>6, PublishInv
<1>7. CASE Begin \/ Stop \/ UNCHANGED vars
  BY <1>7, IdleInv, StopInv
<1>8. QED BY <1>2, <1>3, <1>4, <1>5, <1>6, <1>7 DEF Next

LEMMA ServerInvariance == Spec => []ServerInv
<1>1. QED BY ServerInitInv, ServerNextInv, PTL DEF Spec

\* The server, its slots, its table and its connections keep their types.
THEOREM ServerTypeCorrect == Spec => []ServerTypeOK
<1>1. ServerInv => ServerTypeOK
  BY DEF ServerInv
<1>2. QED BY <1>1, ServerInvariance, PTL

\* However slots are reused, an entry of the table was subscribed over the
\* connection that is in its slot now, and is there once.
THEOREM SubscribersAreTheirOwn == Spec => []SubscriptionsAreOwned
<1>1. ServerInv => SubscriptionsAreOwned
  BY DEF ServerInv, TableInv
<1>2. QED BY <1>1, ServerInvariance, PTL
-----------------------------------------------------------------------------
(* The server is the broker of MqttBroker, step by step. *)

\* The broker counts as the server does.
LEMMA SameCount == ASSUME NEW S PROVE Broker!Cardinality(S) = Cardinality(S)
BY DEF Broker!Cardinality, Cardinality

\* What the server shows of a connection.
LEMMA SessionIs ==
  ASSUME ServerInv, NEW c \in Conns
  PROVE  /\ SessionOf(c) \in {"tcp", "mqtt"} <=> Attached(c)
         /\ SessionOf(c) = "mqtt" <=> \E i \in Slots : conn[i] = c /\ greeted[i]
         /\ SessionOf(c) = "none" <=> link[c] = "unopened"
BY DEF SessionOf, Attached, ServerInv, TableInv, UnopenedIsDetached

LEMMA FiltersAre ==
  ASSUME NEW c, NEW f
  PROVE  f \in FiltersOf(c) <=>
           \E k \in Index : subs[k] # Unused /\ conn[subs[k].client] = c /\ subs[k].filter = f
BY DEF FiltersOf

LEMMA FiltersOfType ==
  ASSUME ServerTypeOK, NEW c
  PROVE  FiltersOf(c) \subseteq Filters
BY EntryType DEF FiltersOf

\* There is a free slot exactly while fewer connections are served than there
\* are slots.
LEMMA FreeSlots ==
  ASSUME ServerInv
  PROVE  Free # {} <=> Cardinality({c \in Conns : Attached(c)}) < MaxClients
<1> DEFINE S == {c \in Conns : Attached(c)}
           place_of == [c \in S |-> CHOOSE i \in Slots : conn[i] = c]
<1>1. \A c \in S : place_of[c] \in Slots /\ conn[place_of[c]] = c
  BY DEF Attached
<1> HIDE DEF place_of
<1>2. place_of \in [S -> Slots]
  <2>1. place_of = [c \in S |-> place_of[c]]
    BY DEF place_of
  <2>2. QED BY <1>1, <2>1
<1>3. place_of \in Injection(S, Slots)
  BY <1>1, <1>2 DEF Injection, IsInjective
<1>4. IsFiniteSet(Slots) /\ Cardinality(Slots) = MaxClients
  BY FS_Interval, ServerAssumption DEF Slots
<1>5. /\ IsFiniteSet(S) /\ Cardinality(S) <= MaxClients
      /\ Cardinality(S) = MaxClients <=> place_of \in Surjection(S, Slots)
  BY <1>3, <1>4, FS_Injection
<1>6. place_of \in Surjection(S, Slots) <=> \A i \in Slots : \E c \in S : place_of[c] = i
  BY <1>2 DEF Surjection
<1>7. ASSUME Free = {}, NEW i \in Slots PROVE \E c \in S : place_of[c] = i
  <2>1. conn[i] \in S
    BY <1>7 DEF Free, Attached, ServerInv, ServerTypeOK
  <2>2. place_of[conn[i]] = i
    BY <1>1, <1>7, <2>1 DEF Free, ServerInv, TableInv, OneSlotEach
  <2>3. QED BY <2>1, <2>2
<1>8. ASSUME NEW i \in Slots, conn[i] = NoConn, NEW c \in S PROVE place_of[c] # i
  BY <1>1, <1>8, ServerAssumption
<1>9. Cardinality(S) \in Nat
  BY <1>5, FS_CardinalityType
<1>10. CASE Free = {}
  BY <1>5, <1>6, <1>7, <1>9, <1>10, ServerAssumption
<1>11. CASE Free # {}
  <2>1. PICK i \in Slots : conn[i] = NoConn
    BY <1>11 DEF Free
  <2>2. Cardinality(S) # MaxClients
    BY <1>5, <1>6, <1>8, <2>1
  <2>3. QED BY <1>5, <1>9, <1>11, <2>2, ServerAssumption
<1>12. QED BY <1>10, <1>11

\* While the table has an unused entry, fewer filters are held than it has
\* entries: no filter takes two.
LEMMA FreeEntries ==
  ASSUME ServerInv, FreeIndex # {}
  PROVE  Cardinality({pair \in Conns \X Filters : pair[2] \in FiltersOf(pair[1])}) < MaxSubs
<1> DEFINE H == {pair \in Conns \X Filters : pair[2] \in FiltersOf(pair[1])}
           IsAt(k, pair) == /\ subs[k] # Unused
                            /\ conn[subs[k].client] = pair[1] /\ subs[k].filter = pair[2]
           entry_of == [pair \in H |-> CHOOSE k \in Index : IsAt(k, pair)]
<1>1. \A pair \in H : \E k \in Index : IsAt(k, pair)
  BY FiltersAre
<1> HIDE DEF IsAt
<1>2. \A pair \in H : entry_of[pair] \in Index /\ IsAt(entry_of[pair], pair)
  BY <1>1
<1>3. entry_of = [pair \in H |-> entry_of[pair]]
  OBVIOUS
<1> HIDE DEF entry_of
<1>4. entry_of \in [H -> Index]
  BY <1>2, <1>3
<1>5. ASSUME NEW p \in H, NEW q \in H, entry_of[p] = entry_of[q] PROVE p = q
  <2>1. p[1] = q[1] /\ p[2] = q[2]
    BY <1>2, <1>5 DEF IsAt
  <2>2. p \in Conns \X Filters /\ q \in Conns \X Filters
    OBVIOUS
  <2>3. QED BY <2>1, <2>2
<1> HIDE DEF H
<1>6. entry_of \in Injection(H, Index)
  BY <1>4, <1>5 DEF Injection, IsInjective
<1>7. IsFiniteSet(Index) /\ Cardinality(Index) = MaxSubs
  BY FS_Interval, ServerAssumption DEF Index
<1>8. /\ IsFiniteSet(H) /\ Cardinality(H) <= MaxSubs
      /\ Cardinality(H) = MaxSubs <=> entry_of \in Surjection(H, Index)
  BY <1>6, <1>7, FS_Injection
<1>9. entry_of \notin Surjection(H, Index)
  <2>1. PICK k \in Index : subs[k] = Unused
    BY DEF FreeIndex
  <2>2. \A pair \in H : entry_of[pair] # k
    BY <1>2, <2>1 DEF IsAt
  <2>3. QED BY <2>1, <2>2 DEF Surjection
<1>10. Cardinality(H) \in Nat
  BY <1>8, FS_CardinalityType
<1>11. QED BY <1>8, <1>9, <1>10, ServerAssumption DEF H

\* The broker sees nothing of what does not touch slots, table and traffic.
LEMMA KeptBroker ==
  ASSUME UNCHANGED <<conn, greeted, subs, outbox, published>>,
         \A c \in Conns : /\ link'[c] = "unopened" <=> link[c] = "unopened"
                          /\ link'[c] = "open" <=> link[c] = "open"
  PROVE  UNCHANGED Broker!vars
<1>1. \A c \in Conns : SessionOf(c)' = SessionOf(c)
  BY DEF SessionOf, Attached
<1>2. \A c \in Conns : FiltersOf(c)' = FiltersOf(c)
  BY DEF FiltersOf
<1>3. QED BY <1>1, <1>2 DEF Broker!vars

LEMMA InitIsBroker == Init => Broker!Init
<1> SUFFICES ASSUME Init PROVE Broker!Init
  OBVIOUS
<1>1. ASSUME NEW c \in Conns
      PROVE  SessionOf(c) = "none" /\ FiltersOf(c) = {} /\ link[c] # "open"
  BY ServerAssumption DEF Init, SessionOf, Attached, FiltersOf
<1>2. QED BY <1>1 DEF Init, Broker!Init

\* A connection that breaks or falls silent cannot be reached any longer.
LEMMA BreakIsBroker ==
  ASSUME ServerInv, NEW c \in Conns, Break(c) \/ FallSilent(c)
  PROVE  Broker!Break(c)
<1>1. /\ UNCHANGED <<conn, greeted, subs, outbox, published>> /\ link[c] # "unopened"
      /\ \A d \in Conns : IF d = c THEN link'[d] \notin {"unopened", "open"}
                                   ELSE link'[d] = link[d]
  BY DEF Break, FallSilent, clients, ServerInv, ServerTypeOK
<1>2. \A d \in Conns : SessionOf(d)' = SessionOf(d)
  BY <1>1 DEF SessionOf, Attached
<1>3. \A d \in Conns : FiltersOf(d)' = FiltersOf(d)
  BY <1>1 DEF FiltersOf
<1>4. {d \in Conns : link[d] = "open"}' = {d \in Conns : link[d] = "open"} \ {c}
  BY <1>1
<1>5. QED BY <1>1, <1>2, <1>3, <1>4 DEF Broker!Break

\* Closing slots ends the sessions of their connections, and takes their
\* filters along.
LEMMA CloseIsBroker ==
  ASSUME ServerInv, NEW closing \in SUBSET Slots, Close(closing), UNCHANGED <<outbox, published>>
  PROVE  \E ended \in SUBSET Conns : Broker!Close(ended)
<1> DEFINE cs == {c \in Conns : \E i \in closing : conn[i] = c}
<1>1. \A i \in Slots : /\ conn'[i] = IF i \in closing THEN NoConn ELSE conn[i]
                       /\ greeted'[i] <=> greeted[i] /\ i \notin closing
  BY DEF Close
<1>2. \A c \in Conns : link'[c] = IF c \in cs THEN "broken" ELSE link[c]
  BY DEF Close
<1>3. \A k \in Index : subs'[k] = IF subs[k].client \in closing THEN Unused ELSE subs[k]
  BY DEF Close
<1>4. ASSUME NEW c \in cs PROVE \A i \in Slots : conn[i] = c => i \in closing
  BY ServerAssumption DEF ServerInv, TableInv, OneSlotEach
<1>5. cs \subseteq Broker!Served
  BY SessionIs DEF Broker!Served, Attached
<1>6. ASSUME NEW c \in Conns
      PROVE  SessionOf(c)' = IF c \in cs THEN "over" ELSE SessionOf(c)
  <2>1. CASE c \in cs
    <3>1. \A i \in Slots : conn'[i] # c
      BY <1>1, <1>4, <2>1, ServerAssumption
    <3>2. QED BY <1>2, <2>1, <3>1 DEF SessionOf, Attached
  <2>2. CASE c \notin cs
    <3>1. \A i \in Slots : /\ conn'[i] = c <=> conn[i] = c
                           /\ conn[i] = c => (greeted'[i] <=> greeted[i])
      BY <1>1, <2>2, ServerAssumption
    <3>2. QED BY <1>2, <2>2, <3>1 DEF SessionOf, Attached
  <2>3. QED BY <2>1, <2>2
<1>7. ASSUME NEW c \in Conns
      PROVE  FiltersOf(c)' = IF c \in cs THEN {} ELSE FiltersOf(c)
  <2>1. ASSUME NEW f
        PROVE  f \in FiltersOf(c)' <=> c \notin cs /\ f \in FiltersOf(c)
    <3>1. f \in FiltersOf(c)' <=>
            \E k \in Index : subs'[k] # Unused /\ conn'[subs'[k].client] = c /\ subs'[k].filter = f
      BY DEF FiltersOf
    <3>2. ASSUME NEW k \in Index, subs[k] # Unused
          PROVE  /\ subs'[k] # Unused /\ conn'[subs'[k].client] = c <=>
                      c \notin cs /\ conn[subs[k].client] = c
                 /\ subs'[k] # Unused => subs'[k] = subs[k]
      <4>1. subs[k].client \in Slots
        BY <3>2, EntryType DEF ServerInv
      <4>2. QED BY <1>1, <1>3, <1>4, <3>2, <4>1
    <3>3. \A k \in Index : subs[k] = Unused => subs'[k] = Unused
      BY <1>3
    <3> HIDE DEF cs
    <3>4. QED BY <3>1, <3>2, <3>3, FiltersAre
  <2> HIDE DEF cs
  <2>2. QED BY <2>1
<1>8. {c \in Conns : link[c] = "open"}' = {c \in Conns : link[c] = "open"} \ cs
  BY <1>2
<1>9. cs \in SUBSET Conns
  OBVIOUS
<1> HIDE DEF cs
<1>10. PICK ended \in SUBSET Conns : ended = cs
  BY <1>9
<1>11. QED BY <1>5, <1>6, <1>7, <1>8, <1>10 DEF Broker!Close

LEMMA AcceptIsBroker ==
  ASSUME ServerInv, NEW c \in Conns, Accept(c)
  PROVE  Broker!Open(c)
<1>1. /\ SessionOf(c) = "none" /\ UNCHANGED <<subs, outbox, published>>
      /\ \A i \in Slots : conn[i] # c
      /\ Broker!Served = {d \in Conns : Attached(d)}
  BY SessionIs DEF Accept, Broker!Served, ServerInv, TableInv, UnopenedIsDetached
<1>2. CASE Free # {}
  <2> DEFINE s == First(Free)
  <2>1. s \in Slots /\ conn[s] = NoConn
    BY <1>2, FirstFree DEF Free, ServerInv
  <2>2. /\ conn' = [conn EXCEPT ![s] = c] /\ greeted' = [greeted EXCEPT ![s] = FALSE]
        /\ link' = [link EXCEPT ![c] = "open"]
    BY <1>2 DEF Accept
  <2> HIDE DEF s
  <2>3. \A i \in Slots : /\ conn'[i] = IF i = s THEN c ELSE conn[i]
                         /\ i # s => greeted'[i] = greeted[i]
    BY <2>1, <2>2 DEF ServerInv, ServerTypeOK
  <2>4. ~greeted'[s]
    BY <2>1, <2>2 DEF ServerInv, ServerTypeOK
  <2>5. \A d \in Conns : link'[d] = IF d = c THEN "open" ELSE link[d]
    BY <2>2 DEF ServerInv, ServerTypeOK
  <2>6. ASSUME NEW d \in Conns
        PROVE  SessionOf(d)' = IF d = c THEN "tcp" ELSE SessionOf(d)
    <3>1. CASE d = c
      <4>1. \A i \in Slots : conn'[i] = d <=> i = s
        BY <1>1, <2>3, <3>1
      <4>2. QED BY <2>1, <2>4, <3>1, <4>1 DEF SessionOf, Attached
    <3>2. CASE d # c
      <4>1. \A i \in Slots : (conn'[i] = d <=> conn[i] = d) /\ (conn[i] = d => greeted'[i] = greeted[i])
        BY <2>1, <2>3, <3>2, ServerAssumption
      <4>2. QED BY <2>5, <3>2, <4>1 DEF SessionOf, Attached
    <3>3. QED BY <3>1, <3>2
  <2>7. ASSUME NEW d \in Conns PROVE FiltersOf(d)' = FiltersOf(d)
    <3>1. ASSUME NEW k \in Index, subs[k] # Unused
          PROVE  conn'[subs[k].client] = conn[subs[k].client]
      <4>1. subs[k].client \in Slots
        BY <3>1, EntryType DEF ServerInv
      <4>2. conn[subs[k].client] # NoConn
        BY <3>1 DEF ServerInv, TableInv, SubscriptionsAreOwned
      <4>3. QED BY <2>1, <2>3, <4>1, <4>2
    <3>2. QED BY <1>1, <3>1 DEF FiltersOf
  <2>8. {d \in Conns : link[d] = "open"}' = {d \in Conns : link[d] = "open"} \union {c}
    BY <2>5
  <2>9. Cardinality(Broker!Served) < MaxClients
    BY <1>1, <1>2, FreeSlots
  <2>10. /\ [d \in Conns |-> SessionOf(d)]' = [[d \in Conns |-> SessionOf(d)] EXCEPT ![c] = "tcp"]
         /\ [d \in Conns |-> FiltersOf(d)]' = [d \in Conns |-> FiltersOf(d)]
    BY <2>6, <2>7
  <2>11. QED BY <1>1, <2>8, <2>9, <2>10, SameCount DEF Broker!Open
<1>3. CASE Free = {}
  <2>1. link' = [link EXCEPT ![c] = "broken"] /\ UNCHANGED <<conn, greeted>> /\ link[c] = "unopened"
    BY <1>3 DEF Accept, clients
  <2>2. \A d \in Conns : link'[d] = IF d = c THEN "broken" ELSE link[d]
    BY <2>1 DEF ServerInv, ServerTypeOK
  <2>3. \A d \in Conns : SessionOf(d)' = IF d = c THEN "over" ELSE SessionOf(d)
    BY <1>1, <2>1, <2>2 DEF SessionOf, Attached
  <2>4. \A d \in Conns : FiltersOf(d)' = FiltersOf(d)
    BY <1>1, <2>1 DEF FiltersOf
  <2>5. {d \in Conns : link[d] = "open"}' = {d \in Conns : link[d] = "open"}
    BY <2>1, <2>2
  <2>6. ~(Cardinality(Broker!Served) < MaxClients)
    BY <1>1, <1>3, FreeSlots
  <2>7. /\ [d \in Conns |-> SessionOf(d)]' = [[d \in Conns |-> SessionOf(d)] EXCEPT ![c] = "over"]
        /\ [d \in Conns |-> FiltersOf(d)]' = [d \in Conns |-> FiltersOf(d)]
    BY <2>3, <2>4
  <2>8. QED BY <1>1, <2>5, <2>6, <2>7, SameCount DEF Broker!Open
<1>4. QED BY <1>2, <1>3

LEMMA ConnectIsBroker ==
  ASSUME ServerInv, NEW keep \in BOOLEAN, HandleConnect(keep)
  PROVE  \E c \in Conns : Broker!Greet(c)
<1>1. /\ turn \in Slots /\ conn[turn] # NoConn /\ conn[turn] \in Conns
      /\ UNCHANGED <<conn, link, subs, outbox, published>>
      /\ greeted' = [greeted EXCEPT ![turn] = TRUE]
  <2>1. /\ reading /\ UNCHANGED <<conn, link, subs, outbox, published>>
        /\ greeted' = [greeted EXCEPT ![turn] = TRUE]
    BY DEF HandleConnect, Read, Seen
  <2>2. QED BY <2>1 DEF ServerInv, ServerTypeOK, ReadsConnected, Slots
<1> DEFINE c == conn[turn]
<1>2. SessionOf(c) \in {"tcp", "mqtt"}
  BY <1>1, SessionIs DEF Attached
<1>3. \A i \in Slots : greeted'[i] <=> greeted[i] \/ i = turn
  BY <1>1 DEF ServerInv, ServerTypeOK
<1>4. ASSUME NEW d \in Conns PROVE SessionOf(d)' = IF d = c THEN "mqtt" ELSE SessionOf(d)
  BY <1>1, <1>3 DEF SessionOf, Attached
<1>5. \A d \in Conns : FiltersOf(d)' = FiltersOf(d)
  BY <1>1 DEF FiltersOf
<1>6. QED BY <1>1, <1>2, <1>4, <1>5 DEF Broker!Greet

\* A message goes to the connections the broker names, once to each.
LEMMA ForwardIsBroker ==
  ASSUME \A f \in Filters, u \in Topics : Matches(f, u) <=> Denotes(f, u),
         ServerInv, NEW t \in Topics, Forward(t), UNCHANGED <<conn, greeted, subs, link>>
  PROVE  Broker!Publish(t)
<1>1. ASSUME NEW c \in Conns
      PROVE  outbox'[c] = IF c \in Broker!Receivers(t) THEN [outbox[c] EXCEPT ![t] = @ + 1]
                                                       ELSE outbox[c]
  <2>1. outbox[c] \in [Topics -> Nat]
    BY DEF ServerInv, ServerTypeOK
  <2>2. c \in Broker!Receivers(t) <=>
          /\ link[c] = "open" /\ SessionOf(c) = "mqtt"
          /\ \E f \in FiltersOf(c) : f \in Filters /\ Denotes(f, t)
    BY DEF Broker!Receivers
  <2>3. CASE \E i \in Slots : conn[i] = c /\ greeted[i] /\ link[c] = "open"
    <3>1. PICK i \in Slots : conn[i] = c /\ greeted[i] /\ link[c] = "open"
      BY <2>3
    <3>2. (CHOOSE j \in Slots : conn[j] = c) = i
      BY <3>1, ServerAssumption DEF ServerInv, TableInv, OneSlotEach
    <3>3. outbox'[c] = [outbox[c] EXCEPT ![t] = @ + Copies(i, t)]
      BY <2>3, <3>2 DEF Forward
    <3>4. Hits(i, t) # {} <=> \E f \in FiltersOf(c) : f \in Filters /\ Denotes(f, t)
      <4>1. ASSUME NEW k \in Index
            PROVE  subs[k].client = i <=> subs[k] # Unused /\ conn[subs[k].client] = c
        <5>1. CASE subs[k] = Unused
          BY <5>1, ServerAssumption DEF Unused, Slots
        <5>2. CASE subs[k] # Unused
          <6>1. subs[k].client \in Slots
            BY <5>2, EntryType DEF ServerInv
          <6>2. QED BY <3>1, <5>2, <6>1, ServerAssumption DEF ServerInv, TableInv, OneSlotEach
        <5>3. QED BY <5>1, <5>2
      <4>2. \A k \in Index : subs[k] # Unused => subs[k].filter \in Filters
        BY EntryType DEF ServerInv
      <4>3. \A f : f \in FiltersOf(c) <=> \E k \in Index : subs[k].client = i /\ subs[k].filter = f
        BY <4>1, FiltersAre
      <4>4. QED BY <4>1, <4>2, <4>3 DEF Hits
    <3>5. c \in Broker!Receivers(t) <=> Hits(i, t) # {}
      BY <2>2, <3>1, <3>4, SessionIs
    <3>6. CASE Hits(i, t) # {}
      BY <3>3, <3>5, <3>6 DEF Copies
    <3>7. CASE Hits(i, t) = {}
      <4>1. outbox'[c] = [outbox[c] EXCEPT ![t] = @ + 0]
        BY <3>3, <3>7 DEF Copies
      <4>2. QED BY <2>1, <3>5, <3>7, <4>1
    <3>8. QED BY <3>6, <3>7
  <2>4. CASE ~(\E i \in Slots : conn[i] = c /\ greeted[i] /\ link[c] = "open")
    <3>1. outbox'[c] = outbox[c]
      BY <2>4 DEF Forward
    <3>2. QED BY <2>2, <2>4, <3>1, SessionIs
  <2>5. QED BY <2>3, <2>4
<1>2. outbox' = [c \in Conns |-> IF c \in Broker!Receivers(t) THEN [outbox[c] EXCEPT ![t] = @ + 1]
                                                              ELSE outbox[c]]
  BY <1>1 DEF Forward
<1>3. \A c \in Conns : SessionOf(c)' = SessionOf(c) /\ FiltersOf(c)' = FiltersOf(c)
  BY DEF SessionOf, Attached, FiltersOf
<1>4. QED BY <1>2, <1>3 DEF Broker!Publish, Forward

\* A filter that is added is one the broker subscribes, in a table with room.
LEMMA AddSubscriptionIsBroker ==
  ASSUME ServerInv, AddSubscription
  PROVE  \/ \E c \in Conns, f \in Filters : Broker!Subscribe(c, f)
         \/ UNCHANGED Broker!vars
<1> DEFINE f == Head(adding)
           e == Entry(turn, f)
           c == conn[turn]
<1>1. /\ greeted[turn] /\ turn \in Slots /\ c # NoConn /\ c \in Conns /\ f \in Filters
      /\ UNCHANGED <<conn, greeted, link, outbox, published>>
  <2>1. adding # <<>> /\ UNCHANGED <<conn, greeted, link, outbox, published>>
    BY DEF AddSubscription, clients
  <2>2. adding \in Seq(Filters) /\ turn \in 0..MaxClients /\ conn \in [Slots -> Conns \union {NoConn}]
    BY DEF ServerInv, ServerTypeOK
  <2>3. reading /\ greeted[turn] /\ turn # 0 /\ c # NoConn
    BY <2>1 DEF ServerInv, AddsGreeted, ReadsConnected
  <2>4. turn \in Slots /\ f \in Filters
    BY <2>1, <2>2, <2>3, ServerAssumption DEF Slots
  <2>5. QED BY <2>1, <2>2, <2>3, <2>4
<1>2. e # Unused /\ e.client = turn /\ e.filter = f
  BY <1>1, ServerAssumption DEF Entry, Unused
<1>3. subs' = IF e \in {subs[k] : k \in Index} \/ FreeIndex = {} THEN subs
              ELSE [subs EXCEPT ![First(FreeIndex)] = e]
  BY DEF AddSubscription
<1>4. \A d \in Conns : SessionOf(d)' = SessionOf(d)
  BY <1>1 DEF SessionOf, Attached
<1> HIDE DEF e, f
<1>5. CASE e \in {subs[k] : k \in Index} \/ FreeIndex = {}
  BY <1>1, <1>3, <1>5, KeptBroker
<1>6. CASE FreeIndex # {} /\ e \notin {subs[k] : k \in Index}
  <2> DEFINE m == First(FreeIndex)
  <2>1. m \in Index /\ subs[m] = Unused
    <3>1. FreeIndex \in SUBSET Nat
      BY ServerAssumption DEF FreeIndex, Index
    <3>2. \E i \in FreeIndex : \A j \in FreeIndex : i <= j
      BY <1>6, <3>1, SmallestExists
    <3>3. QED BY <3>2 DEF First, FreeIndex
  <2>2. subs' = [subs EXCEPT ![m] = e]
    BY <1>3, <1>6
  <2> HIDE DEF m
  <2>3. \A k \in Index : subs'[k] = IF k = m THEN e ELSE subs[k]
    BY <2>1, <2>2 DEF ServerInv, ServerTypeOK
  <2>4. ASSUME NEW d \in Conns
        PROVE  FiltersOf(d)' = IF d = c THEN FiltersOf(d) \union {f} ELSE FiltersOf(d)
    <3>1. ASSUME NEW g PROVE g \in FiltersOf(d)' <=> g \in FiltersOf(d) \/ (d = c /\ g = f)
      <4>1. g \in FiltersOf(d)' <=>
              \E k \in Index : subs'[k] # Unused /\ conn[subs'[k].client] = d /\ subs'[k].filter = g
        BY <1>1 DEF FiltersOf
      <4>2. QED BY <1>2, <2>1, <2>3, <4>1, FiltersAre
    <3>2. QED BY <3>1
  <2>5. SessionOf(c) = "mqtt"
    BY <1>1, SessionIs
  <2>6. Broker!Held = {pair \in Conns \X Filters : pair[2] \in FiltersOf(pair[1])}
    BY DEF Broker!Held
  <2>7. Cardinality(Broker!Held) < MaxSubs
    BY <1>6, <2>6, FreeEntries
  <2>8. Broker!Subscribe(c, f)
    <3>1. [d \in Conns |-> FiltersOf(d)]'
            = [[d \in Conns |-> FiltersOf(d)] EXCEPT ![c] = @ \union {f}]
      BY <2>4
    <3>2. [d \in Conns |-> SessionOf(d)]' = [d \in Conns |-> SessionOf(d)]
      BY <1>4
    <3>3. QED BY <1>1, <2>5, <2>7, <3>1, <3>2, SameCount DEF Broker!Subscribe
  <2>9. QED BY <1>1, <2>8
<1>7. QED BY <1>5, <1>6

LEMMA StepIsBroker ==
  ASSUME \A f \in Filters, t \in Topics : Matches(f, t) <=> Denotes(f, t),
         ServerInv, [Next]_vars
  PROVE  [Broker!Next]_(Broker!vars)
<1>1. CASE ReadAndClose \/ FindBroken \/ TimeOut \/ Stop
  <2>1. PICK closing \in SUBSET Slots : Close(closing) /\ UNCHANGED <<outbox, published>>
    <3>1. CASE Stop
      <4>1. {i \in Slots : conn[i] # NoConn} \in SUBSET Slots
        OBVIOUS
      <4>2. QED BY <3>1, <4>1 DEF Stop
    <3>2. CASE ReadAndClose \/ FindBroken \/ TimeOut
      <4>1. {turn} \in SUBSET Slots
        BY <3>2 DEF ReadAndClose, Read, FindBroken, TimeOut, ServerInv, ServerTypeOK, Slots
      <4>2. QED BY <3>2, <4>1 DEF ReadAndClose, FindBroken, TimeOut, CloseAndGoOn
    <3>3. QED BY <1>1, <3>1, <3>2
  <2>2. QED BY <2>1, CloseIsBroker DEF Broker!Next
<1>2. CASE \/ Begin \/ NothingToAccept \/ Skip \/ FindConnected \/ NothingToRead \/ HandleOther
           \/ \E fs \in Requests : HandleSubscribe(fs)
           \/ \E i \in Slots : KeepAliveRunsOut(i)
           \/ UNCHANGED vars
  <2>1. UNCHANGED <<conn, greeted, subs, outbox, published, link>>
    BY <1>2 DEF Begin, NothingToAccept, Skip, FindConnected, NothingToRead, HandleOther,
                HandleSubscribe, Seen, KeepAliveRunsOut, vars, clients
  <2>2. QED BY <2>1, KeptBroker
<1>3. ASSUME NEW t \in Topics, HandlePublish(t) \/ Publish(t) PROVE Broker!Next
  <2>1. Forward(t) /\ UNCHANGED <<conn, greeted, subs, link>>
    BY <1>3 DEF HandlePublish, Seen, Publish, clients
  <2>2. QED BY <2>1, ForwardIsBroker DEF Broker!Next
<1>4. ASSUME NEW keep \in BOOLEAN, HandleConnect(keep) PROVE Broker!Next
  BY <1>4, ConnectIsBroker DEF Broker!Next
<1>5. ASSUME NEW c \in Conns, Accept(c) \/ Break(c) \/ FallSilent(c) PROVE Broker!Next
  BY <1>5, AcceptIsBroker, BreakIsBroker DEF Broker!Next
<1>6. CASE AddSubscription
  BY <1>6, AddSubscriptionIsBroker DEF Broker!Next
<1>7. QED BY <1>1, <1>2, <1>3, <1>4, <1>5, <1>6 DEF Next, Update, Handle

\* Over slots and entries that are reused, the server routes by connection:
\* what is published reaches, once, each connection with a filter that denotes
\* its topic, and none that has gone.  That the walk of topicMatches finds what
\* a filter denotes is an induction over texts; it is the hypothesis here, and
\* evaluated for all texts up to a length by MatchIsRight.
THEOREM ServerIsBroker ==
  ASSUME \A f \in Filters, t \in Topics : Matches(f, t) <=> Denotes(f, t)
  PROVE  Spec => BrokerSpec
<1>1. ServerInv /\ [Next]_vars => [Broker!Next]_(Broker!vars)
  BY StepIsBroker
<1>2. QED BY <1>1, InitIsBroker, ServerInvariance, PTL DEF Spec, BrokerSpec, Broker!Spec
=============================================================================
