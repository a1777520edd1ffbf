----------------------------- MODULE EspNowLink -----------------------------
(***************************************************************************)
(* EspNowNode on every board of a network, each with the application loop  *)
(* of EspNowEchoController, over a radio that loses frames.                *)
(*                                                                         *)
(* A board has two tasks: the WiFi task runs handlePacket for each frame   *)
(* that arrives; the application task runs update(), pops events, answers  *)
(* commands and sends its own.  They share the node table and m_txBuffer,  *)
(* and nothing protects either.  A send takes its number, encodes into the *)
(* buffer, hands the buffer to the radio and records what was sent from    *)
(* the buffer.  encode() writes the fields in place and the checksum last, *)
(* over what is there by then: fields of the two tasks can end up in one   *)
(* packet, which decode() accepts if a checksum was computed over it and   *)
(* its length is the one the sender gives the radio.                       *)
(*                                                                         *)
(* Numbers stay below 256: they do not wrap, and their two bytes cannot be *)
(* torn.  The numbers of broadcasts, which nobody acknowledges, are all 0; *)
(* the increment of a counter is one step; payloads are not looked at;     *)
(* checksums of different packets differ.                                  *)
(*                                                                         *)
(* Time is abstract: a node is silent, a retry due, at any time.  (For     *)
(* OFFLINE that is no exaggeration: updateNodeTimeouts reads millis()      *)
(* before the loop, and a frame that arrives during it makes the unsigned  *)
(* silence huge.)  Boards do not share node ids, and table and driver have *)
(* room for all of them.                                                   *)
(***************************************************************************)
EXTENDS Naturals, Sequences, Bags

CONSTANTS
  Boards,        \* MAC addresses
  Senders,       \* boards with enableSender
  Receivers,     \* boards with enableReceiver: they echo commands
  MaxRetries,    \* m_config.maxRetries
  EventCap,      \* EventQueueCapacity
  AirCap,        \* bound: frames between two boards; more are lost
  MaxCommands,   \* bound: commands a sender issues
  MaxBeacons,    \* bound: discoveries and heartbeats
  MaxFaults,     \* bound: frames lost, sends refused, nodes timed out, early retries
  NoBoard

ASSUME LinkAssumption ==
  /\ Senders \subseteq Boards /\ Receivers \subseteq Boards /\ NoBoard \notin Boards
  /\ MaxRetries \in Nat /\ EventCap \in Nat \ {0} /\ AirCap \in Nat \ {0}
  /\ MaxCommands \in Nat /\ MaxBeacons \in Nat /\ MaxFaults \in Nat

VARIABLES
  node,      \* m_nodes: the entry a board has for another (its own is not used)
  events,    \* the event ring
  txBuffer,  \* m_txBuffer: its fields, and whether the checksum is theirs
  pc,        \* what the two tasks of a board do
  job,       \* what they are sending, to whom, how many fields are written,
             \* and the frame the WiFi task is acknowledging
  air,       \* frames on their way
  heard,     \* ghost: the numbers a board was asked to acknowledge, by sender
  acked,     \* ghost: the numbers it took for acknowledged, by receiver
  issued,    \* bound
  beacons,   \* bound
  faults     \* bound

tasks  == <<pc, job>>
bounds == <<issued, beacons, faults>>
vars   == <<node, events, txBuffer, tasks, air, heard, acked, bounds>>

Tasks      == {"app", "wifi"}
Other(t)   == IF t = "app" THEN "wifi" ELSE "app"
NodeStates == {"UNKNOWN", "DISCOVERED", "ONLINE", "STALE", "OFFLINE", "ERROR"}
Types      == {"HEARTBEAT", "DISCOVERY", "NODE_INFO", "COMMAND", "COMMAND_RESULT", "ACK"}

\* Payloads are of three lengths: none, node info, and what commands carry.
Lengths == {"empty", "info", "data"}

\* The fields are in the order encode() writes them.
NumFields == 5
Frame   == [type: Types \union {"none"}, need: BOOLEAN, seq: Nat, ackSeq: Nat, length: Lengths]
NoFrame == [type |-> "none", need |-> FALSE, seq |-> 0, ackSeq |-> 0, length |-> "empty"]

\* What decode() refuses.
Garbled == [NoFrame EXCEPT !.type = "garbled"]

\* `content` after the fields of `frame` with these places have been written.
Overlaid(content, frame, places) ==
  [type   |-> IF 1 \in places THEN frame.type   ELSE content.type,
   need   |-> IF 2 \in places THEN frame.need   ELSE content.need,
   seq    |-> IF 3 \in places THEN frame.seq    ELSE content.seq,
   ackSeq |-> IF 4 \in places THEN frame.ackSeq ELSE content.ackSeq,
   length |-> IF 5 \in places THEN frame.length ELSE content.length]

\* UNKNOWN stands for a node that is not in the table.
NewNode ==
  [state |-> "UNKNOWN", named |-> FALSE, nextTxSeq |-> 1, pendingAckSeq |-> 0,
   retryCount |-> 0, lastTxPacket |-> NoFrame]

\* currentEspNowTarget, and sendCommandResult by node id: registered (which
\* handlePacket does first), named, and neither OFFLINE nor ERROR.
Talkable(entry) == entry.state \notin {"UNKNOWN", "OFFLINE", "ERROR"} /\ entry.named

Peers(b) == Boards \ {b}

NoJob == [to |-> NoBoard, frame |-> NoFrame, written |-> 0, handling |-> NoFrame]

Init ==
  /\ node = [b \in Boards |-> [p \in Boards |-> NewNode]]
  /\ events = [b \in Boards |-> <<>>]
  /\ txBuffer = [b \in Boards |-> [frame |-> NoFrame, sound |-> FALSE]]
  /\ pc = [b \in Boards |-> [t \in Tasks |-> "idle"]]
  /\ job = [b \in Boards |-> [t \in Tasks |-> NoJob]]
  /\ air = [b \in Boards |-> [p \in Boards |-> <<>>]]
  /\ heard = [b \in Boards |-> [p \in Boards |-> EmptyBag]]
  /\ acked = [b \in Boards |-> [p \in Boards |-> {}]]
  /\ issued = [b \in Boards |-> 0] /\ beacons = 0 /\ faults = 0

-----------------------------------------------------------------------------
(* The radio: air[b][p] holds what b sent to p. *)

Transmit(b, targets, frame) ==
  air' = [air EXCEPT ![b] =
            [p \in Boards |->
               IF p \in targets /\ frame # Garbled /\ Len(air[b][p]) < AirCap
               THEN Append(air[b][p], frame) ELSE air[b][p]]]

Lose(b, p) ==
  /\ air[b][p] # <<>>
  /\ faults < MaxFaults
  /\ air' = [air EXCEPT ![b][p] = Tail(@)]
  /\ faults' = faults + 1
  /\ UNCHANGED <<node, events, txBuffer, tasks, heard, acked, issued, beacons>>

-----------------------------------------------------------------------------
(* sendPacket on either task, up to the end of encode(). *)

\* The number is taken; nothing is written yet.
Start(b, t, to, frame, handling) ==
  /\ pc' = [pc EXCEPT ![b][t] = "encode"]
  /\ job' = [job EXCEPT ![b][t] =
       [to |-> to, frame |-> frame, written |-> 0, handling |-> handling]]

Numbered(entry) == [entry EXCEPT !.nextTxSeq = @ + 1]

Finish(b, t) ==
  /\ pc' = [pc EXCEPT ![b][t] = "idle"]
  /\ job' = [job EXCEPT ![b][t] = NoJob]

\* The checksum closes the packet, over what is there.  The other task may have
\* written the fields `theirs` of its packet meanwhile, which it will not write
\* again: `over` are those this packet's do not lie over.  A task that had only
\* the checksum left while the other one wrote may have computed it before.
Encode(b, t) ==
  LET own   == job[b][t]
      other == job[b][Other(t)]
      mine  == (own.written + 1)..NumFields
  IN
  /\ pc[b][t] = "encode"
  /\ \E last \in other.written..(IF pc[b][Other(t)] = "encode" THEN NumFields ELSE other.written) :
       LET theirs == (other.written + 1)..last IN
       /\ \E over \in SUBSET theirs, sound \in IF mine = {} THEN BOOLEAN ELSE {TRUE} :
            /\ theirs \ mine \subseteq over
            /\ txBuffer' = [txBuffer EXCEPT ![b] =
                 [frame |-> Overlaid(Overlaid(@.frame, own.frame, mine), other.frame, over),
                  sound |-> sound]]
       /\ job' = [job EXCEPT ![b][t].written = NumFields, ![b][Other(t)].written = last]
  /\ pc' = [pc EXCEPT ![b][t] = "send"]
  /\ UNCHANGED <<node, events, air, heard, acked, bounds>>

\* What a task can read from the buffer in place of the packet it has encoded:
\* what is there by now, or, if the other task is writing, parts of both.
Readings(b, t) ==
  LET buffer == txBuffer[b] IN
  {IF buffer.sound /\ buffer.frame.length = job[b][t].frame.length THEN buffer.frame
   ELSE Garbled}
  \union (IF pc[b][Other(t)] = "encode" THEN {Garbled} ELSE {})

-----------------------------------------------------------------------------
(* sendPacket on the application task. *)

StartSend(b, to, type, need, length) ==
  LET number == IF to = NoBoard THEN 0 ELSE node[b][to].nextTxSeq IN
  /\ Start(b, "app", to, [type |-> type, need |-> need, seq |-> number,
                          ackSeq |-> 0, length |-> length], NoFrame)
  /\ node' = IF to = NoBoard THEN node ELSE [node EXCEPT ![b][to] = Numbered(@)]

\* sendUnicast or sendBroadcast: the radio takes what the buffer holds by now.
Send(b) ==
  LET own == job[b]["app"] IN
  /\ pc[b]["app"] = "send"
  /\ \E packet \in Readings(b, "app") :
       Transmit(b, IF own.to = NoBoard THEN Peers(b) ELSE {own.to}, packet)
  /\ IF own.frame.need
     THEN pc' = [pc EXCEPT ![b]["app"] = "record"] /\ UNCHANGED job
     ELSE Finish(b, "app")
  /\ UNCHANGED <<node, events, txBuffer, heard, acked, bounds>>

SendFails(b) ==
  /\ pc[b]["app"] = "send"
  /\ faults < MaxFaults
  /\ faults' = faults + 1
  /\ Finish(b, "app")
  /\ UNCHANGED <<node, events, txBuffer, air, heard, acked, issued, beacons>>

\* One command at a time waits for its acknowledgement: a later one replaces
\* it.  What is kept for a retry is what the buffer holds by now.
Record(b) ==
  LET own == job[b]["app"] IN
  /\ pc[b]["app"] = "record"
  /\ \E packet \in Readings(b, "app") :
       node' = [node EXCEPT ![b][own.to] =
         [@ EXCEPT !.pendingAckSeq = own.frame.seq, !.retryCount = 0, !.lastTxPacket = packet]]
  /\ Finish(b, "app")
  /\ UNCHANGED <<events, txBuffer, air, heard, acked, bounds>>

-----------------------------------------------------------------------------
(* EspNowNode::update and EspNowEchoController::update. *)

Beacon(b, type) ==
  /\ pc[b]["app"] = "idle"
  /\ beacons < MaxBeacons
  /\ beacons' = beacons + 1
  /\ StartSend(b, NoBoard, type, FALSE, IF type = "DISCOVERY" THEN "info" ELSE "empty")
  /\ UNCHANGED <<events, txBuffer, air, heard, acked, issued, faults>>

NodeTimeout(b, p) ==
  /\ pc[b]["app"] = "idle"
  /\ node[b][p].state # "UNKNOWN"
  /\ faults < MaxFaults
  /\ faults' = faults + 1
  /\ \E late \in {"STALE", "OFFLINE"} :
       /\ late = "STALE" => node[b][p].state = "ONLINE"
       /\ node' = [node EXCEPT ![b][p].state = late]
  /\ UNCHANGED <<events, txBuffer, tasks, air, heard, acked, issued, beacons>>

Pending(entry) == entry.pendingAckSeq # 0 /\ entry.lastTxPacket # NoFrame

\* Nothing is on its way between the two boards.
Quiet(b, p) ==
  /\ air[b][p] = <<>> /\ air[p][b] = <<>>
  /\ pc[b]["wifi"] = "idle" /\ pc[p]["wifi"] = "idle"

\* Mutant: one retry too many.
RetryDueLate(b, p) ==
  /\ pc[b]["app"] = "idle"
  /\ Pending(node[b][p])
  /\ IF Quiet(b, p) THEN UNCHANGED faults ELSE faults < MaxFaults /\ faults' = faults + 1
  /\ pc' = [pc EXCEPT ![b]["app"] =
       IF node[b][p].retryCount > MaxRetries THEN "giveUp" ELSE "resend"]
  /\ job' = [job EXCEPT ![b]["app"] = [NoJob EXCEPT !.to = p]]
  /\ UNCHANGED <<node, events, txBuffer, air, heard, acked, issued, beacons>>

\* updateRetries looks at the entry; the WiFi task may change it before it acts.
\* The time is up when nothing will come any more, or, as a fault, before.
RetryDue(b, p) ==
  /\ pc[b]["app"] = "idle"
  /\ Pending(node[b][p])
  /\ IF Quiet(b, p) THEN UNCHANGED faults ELSE faults < MaxFaults /\ faults' = faults + 1
  /\ pc' = [pc EXCEPT ![b]["app"] =
       IF node[b][p].retryCount >= MaxRetries THEN "giveUp" ELSE "resend"]
  /\ job' = [job EXCEPT ![b]["app"] = [NoJob EXCEPT !.to = p]]
  /\ UNCHANGED <<node, events, txBuffer, air, heard, acked, issued, beacons>>

\* Mutant: the node is marked, and what it waits for is kept.
GiveUpStateOnly(b) ==
  /\ pc[b]["app"] = "giveUp"
  /\ node' = [node EXCEPT ![b][job[b]["app"].to].state = "ERROR"]
  /\ Finish(b, "app")
  /\ UNCHANGED <<events, txBuffer, air, heard, acked, bounds>>

GiveUp(b) ==
  /\ pc[b]["app"] = "giveUp"
  /\ node' = [node EXCEPT ![b][job[b]["app"].to] =
       [@ EXCEPT !.pendingAckSeq = 0, !.retryCount = 0, !.lastTxPacket = NoFrame,
                 !.state = "ERROR"]]
  /\ Finish(b, "app")
  /\ UNCHANGED <<events, txBuffer, air, heard, acked, bounds>>

\* Mutant: retransmissions are not counted.
ResendUncounted(b) ==
  LET p == job[b]["app"].to IN
  /\ pc[b]["app"] = "resend"
  /\ Transmit(b, {p}, IF node[b][p].lastTxPacket = NoFrame THEN Garbled
                       ELSE node[b][p].lastTxPacket)
  /\ Finish(b, "app")
  /\ UNCHANGED <<node, events, txBuffer, heard, acked, bounds>>

\* A packet that was acknowledged meanwhile has length 0, and the driver
\* refuses it.
Resend(b) ==
  LET p == job[b]["app"].to  packet == node[b][p].lastTxPacket IN
  /\ pc[b]["app"] = "resend"
  /\ IF packet = NoFrame THEN UNCHANGED <<air, node>>
     ELSE /\ Transmit(b, {p}, packet)
          /\ node' = [node EXCEPT ![b][p].retryCount = @ + 1]
  /\ Finish(b, "app")
  /\ UNCHANGED <<events, txBuffer, heard, acked, bounds>>

ResendFails(b) ==
  /\ pc[b]["app"] = "resend"
  /\ faults < MaxFaults
  /\ faults' = faults + 1
  /\ Finish(b, "app")
  /\ UNCHANGED <<node, events, txBuffer, air, heard, acked, issued, beacons>>

\* popEvent and handleEspNowEvent: a command of a named node is echoed.
HandleEvent(b) ==
  /\ pc[b]["app"] = "idle"
  /\ events[b] # <<>>
  /\ events' = [events EXCEPT ![b] = Tail(@)]
  /\ LET event == Head(events[b]) IN
     IF event.type = "COMMAND" /\ b \in Receivers /\ event.named /\ Talkable(node[b][event.from])
     THEN StartSend(b, event.from, "COMMAND_RESULT", TRUE, event.length)
     ELSE UNCHANGED <<node, tasks>>
  /\ UNCHANGED <<txBuffer, air, heard, acked, bounds>>

SendCommand(b, p) ==
  /\ pc[b]["app"] = "idle"
  /\ b \in Senders /\ issued[b] < MaxCommands
  /\ Talkable(node[b][p])
  /\ issued' = [issued EXCEPT ![b] = @ + 1]
  /\ StartSend(b, p, "COMMAND", TRUE, "data")
  /\ UNCHANGED <<events, txBuffer, air, heard, acked, beacons, faults>>

-----------------------------------------------------------------------------
(* handlePacket on the WiFi task. *)

\* Every accepted packet: the node enters the table or comes back from OFFLINE.
Seen(entry) ==
  IF entry.state \in {"UNKNOWN", "OFFLINE"}
  THEN [entry EXCEPT !.state = "DISCOVERED"] ELSE entry

\* Mutant: any acknowledgement is taken for the one that is waited for.
AckedByAny(entry, frame) == entry.pendingAckSeq # 0

AckedBy(entry, frame) == entry.pendingAckSeq # 0 /\ entry.pendingAckSeq = frame.ackSeq

\* The handlers of the packet types.
Handled(entry, frame) ==
  LET named == entry.named \/ frame.length # "empty" IN
  CASE frame.type = "DISCOVERY" -> [entry EXCEPT !.named = named, !.state = "DISCOVERED"]
    [] frame.type = "NODE_INFO" -> [entry EXCEPT !.named = named, !.state = "ONLINE"]
    [] frame.type = "ACK" /\ AckedBy(entry, frame) ->
         [entry EXCEPT !.pendingAckSeq = 0, !.retryCount = 0, !.lastTxPacket = NoFrame,
                       !.state = "ONLINE"]
    [] OTHER -> [entry EXCEPT !.state = "ONLINE"]

Note(b, p, frame) ==
  events' = [events EXCEPT ![b] =
    IF frame.type \in {"COMMAND", "COMMAND_RESULT"}
    THEN LET kept == IF Len(@) < EventCap THEN @ ELSE Tail(@)
         IN  Append(kept, [type |-> frame.type, from |-> p, named |-> node[b][p].named,
                           length |-> frame.length])
    ELSE @]

\* The switch of handlePacket.  A discovery is answered, on the same task.
Handle(b, p, entry, frame) ==
  LET new  == Handled(entry, frame)
      info == [type |-> "NODE_INFO", need |-> FALSE, seq |-> new.nextTxSeq,
               ackSeq |-> 0, length |-> "info"]
  IN
  /\ IF frame.type = "DISCOVERY"
     THEN node' = [node EXCEPT ![b][p] = Numbered(new)] /\ Start(b, "wifi", p, info, NoFrame)
     ELSE node' = [node EXCEPT ![b][p] = new] /\ Finish(b, "wifi")
  /\ Note(b, p, frame)
  /\ acked' = IF frame.type = "ACK" /\ AckedBy(entry, frame)
              THEN [acked EXCEPT ![b][p] = @ \union {entry.pendingAckSeq}] ELSE acked

Take(b, p) == air' = [air EXCEPT ![p][b] = Tail(@)]

\* A packet that asks for no acknowledgement is handled at once.
ReceivePlain(b, p) ==
  LET frame == Head(air[p][b]) IN
  /\ pc[b]["wifi"] = "idle"
  /\ air[p][b] # <<>> /\ ~frame.need
  /\ Take(b, p)
  /\ Handle(b, p, Seen(node[b][p]), frame)
  /\ UNCHANGED <<txBuffer, heard, bounds>>

\* sendAck comes before the handler, whatever the type.
ReceiveCommand(b, p) ==
  LET frame == Head(air[p][b])
      entry == Seen(node[b][p])
      ack   == [type |-> "ACK", need |-> FALSE, seq |-> entry.nextTxSeq,
                ackSeq |-> frame.seq, length |-> "empty"]
  IN
  /\ pc[b]["wifi"] = "idle"
  /\ air[p][b] # <<>> /\ frame.need
  /\ Take(b, p)
  /\ node' = [node EXCEPT ![b][p] = Numbered(entry)]
  /\ Start(b, "wifi", p, ack, frame)
  /\ heard' = [heard EXCEPT ![b][p] = @ (+) SetToBag({frame.seq})]
  /\ UNCHANGED <<events, txBuffer, acked, bounds>>

\* The acknowledgement goes out, or not, and the handler of the packet runs.
SendAck(b) ==
  LET own == job[b]["wifi"] IN
  /\ pc[b]["wifi"] = "send" /\ own.frame.type = "ACK"
  /\ \E packet \in Readings(b, "wifi") : Transmit(b, {own.to}, packet)
  /\ Handle(b, own.to, node[b][own.to], own.handling)
  /\ UNCHANGED <<txBuffer, heard, bounds>>

SendNodeInfo(b) ==
  LET own == job[b]["wifi"] IN
  /\ pc[b]["wifi"] = "send" /\ own.frame.type = "NODE_INFO"
  /\ \E packet \in Readings(b, "wifi") : Transmit(b, {own.to}, packet)
  /\ Finish(b, "wifi")
  /\ UNCHANGED <<node, events, txBuffer, heard, acked, bounds>>

-----------------------------------------------------------------------------
AppStep(b) ==
  \/ \E type \in {"DISCOVERY", "HEARTBEAT"} : Beacon(b, type)
  \/ \E p \in Peers(b) : NodeTimeout(b, p) \/ SendCommand(b, p)
  \/ SendFails(b) \/ ResendFails(b)

\* What the application task goes on with by itself.
AppWork(b) ==
  \/ \E p \in Peers(b) : RetryDue(b, p)
  \/ GiveUp(b) \/ Resend(b) \/ HandleEvent(b)
  \/ Encode(b, "app") \/ Send(b) \/ Record(b)

WifiWork(b) ==
  \/ \E p \in Peers(b) : ReceivePlain(b, p) \/ ReceiveCommand(b, p)
  \/ Encode(b, "wifi") \/ SendAck(b) \/ SendNodeInfo(b)

Next ==
  \E b \in Boards :
    \/ AppStep(b) \/ AppWork(b) \/ WifiWork(b)
    \/ \E p \in Peers(b) : Lose(b, p)

Spec == Init /\ [][Next]_vars

\* As long as a task of some board can go on, one does.
FairSpec == Spec /\ WF_vars(\E b \in Boards : AppWork(b) \/ WifiWork(b))

-----------------------------------------------------------------------------
(* Properties. *)

Kept    == Frame \union {Garbled}
Jobs    == [to: Boards \union {NoBoard}, frame: Frame, written: 0..NumFields, handling: Frame]
Entries ==
  [state: NodeStates, named: BOOLEAN, nextTxSeq: Nat \ {0}, pendingAckSeq: Nat,
   retryCount: 0..MaxRetries, lastTxPacket: Kept]
Events  ==
  [type: {"COMMAND", "COMMAND_RESULT"}, from: Boards, named: BOOLEAN, length: Lengths]

LinkTypeOK ==
  /\ node \in [Boards -> [Boards -> Entries]]
  /\ events \in [Boards -> Seq(Events)] /\ \A b \in Boards : Len(events[b]) <= EventCap
  /\ txBuffer \in [Boards -> [frame: Frame, sound: BOOLEAN]]
  /\ pc \in [Boards -> [Tasks -> {"idle", "encode", "send", "record", "resend", "giveUp"}]]
  /\ job \in [Boards -> [Tasks -> Jobs]]
  /\ air \in [Boards -> [Boards -> Seq(Frame)]]
  /\ \A b, p \in Boards : Len(air[b][p]) <= AirCap
  /\ \A b, p \in Boards : IsABag(heard[b][p]) /\ BagToSet(heard[b][p]) \subseteq Nat
  /\ acked \in [Boards -> [Boards -> SUBSET Nat]]

\* A number counts as acknowledged only if a packet with it that asked for an
\* acknowledgement has reached the board it went to.  (Not that a command was
\* handled: such a packet can have got the type of another.)  Between two
\* boards; a third may be taken in: a HEARTBEAT that finds an ACK in the shared
\* buffer sends it to everybody, and an ACK names nobody.
AcksAreHonest ==
  \A b \in Boards : \A p \in Peers(b) : acked[b][p] \subseteq BagToSet(heard[p][b])

TimesIn(seq, bag) == IF BagIn(seq, bag) THEN bag[seq] ELSE 0

\* How often packets with one number ask for an acknowledgement: once for every
\* transmission of the packet, one and MaxRetries more, and once more if a
\* packet of the other task got the number, or this one its number.
DuplicatesAreBounded ==
  \A b \in Boards : \A p \in Peers(b) :
    \A seq \in BagToSet(heard[b][p]) \ {0} : TimesIn(seq, heard[b][p]) <= MaxRetries + 2

\* Nobody waits for an acknowledgement for ever: it comes, or the command is
\* given up or replaced.
PendingEnds ==
  \A b \in Boards : \A p \in Boards \ {b} :
    []<>~Pending(node[b][p])
=============================================================================
