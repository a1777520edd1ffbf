-------------------------- MODULE EspNowLink_proofs --------------------------
(***************************************************************************)
(* Types and acknowledgements over the shared send buffer, in a network of *)
(* any boards, with any bounds and faults: also when the fields of two     *)
(* packets end up in one with a valid checksum.                            *)
(***************************************************************************)
EXTENDS EspNowLink, TLAPS

\* The numbers a board was asked to acknowledge, by whomever.
HeardBy(p) == UNION {BagToSet(heard[p][q]) : q \in Peers(p)}

\* A frame, and every mixture of such frames, acknowledges one of them or none.
Sendable(b) == {frame \in Frame : frame.ackSeq \in HeardBy(b) \union {0}}

EntryWell(b, entry) == entry \in Entries /\ entry.lastTxPacket \in Sendable(b) \union {Garbled}

NodesWell ==
  node \in [Boards -> [Boards -> Entries]] /\ \A b, p \in Boards : EntryWell(b, node[b][p])

EventsWell == events \in [Boards -> Seq(Events)] /\ \A b \in Boards : Len(events[b]) <= EventCap

BuffersWell ==
  /\ txBuffer \in [Boards -> [frame: Frame, sound: BOOLEAN]]
  /\ \A b \in Boards : txBuffer[b].frame \in Sendable(b)

AirWell ==
  /\ air \in [Boards -> [Boards -> Seq(Frame)]]
  /\ \A b, p \in Boards : air[b][p] \in Seq(Sendable(b)) /\ Len(air[b][p]) <= AirCap

HeardWell ==
  /\ heard = [b \in Boards |-> [p \in Boards |-> heard[b][p]]]
  /\ \A b, p \in Boards : IsABag(heard[b][p]) /\ BagToSet(heard[b][p]) \subseteq Nat

\* A number a board takes for acknowledged is one the other was asked to
\* acknowledge, by it or by somebody else.
AckedWell == \A b, p \in Boards : acked[b][p] \subseteq HeardBy(p)

Steps == {"idle", "encode", "send", "record", "resend", "giveUp"}

TasksType == pc \in [Boards -> [Tasks -> Steps]] /\ job \in [Boards -> [Tasks -> Jobs]]

AppWell(b) ==
  LET own == job[b]["app"] IN
  /\ own.frame \in Sendable(b)
  /\ own.frame.need => own.to \in Boards
  /\ pc[b]["app"] = "record" => own.frame.need
  /\ pc[b]["app"] \in {"resend", "giveUp"} => own.to \in Boards
  /\ pc[b]["app"] = "resend" => \/ node[b][own.to].lastTxPacket = NoFrame
                                \/ node[b][own.to].retryCount < MaxRetries

WifiWell(b) ==
  LET own == job[b]["wifi"] IN
  /\ own.frame \in Sendable(b)
  /\ pc[b]["wifi"] # "idle" => own.to \in Boards /\ own.handling \in Sendable(own.to)

JobsWell == \A b \in Boards : AppWell(b) /\ WifiWell(b)

\* The inductive invariant.
EspInv ==
  /\ NodesWell /\ EventsWell /\ BuffersWell /\ AirWell /\ HeardWell
  /\ acked \in [Boards -> [Boards -> SUBSET Nat]] /\ AckedWell
  /\ TasksType /\ JobsWell

-----------------------------------------------------------------------------
(* Updates. *)

LEMMA Put ==
  ASSUME NEW S, NEW B, NEW T, NEW f \in [B -> [T -> S]], NEW b \in B, NEW p \in T, NEW v \in S,
         NEW g, g = [f EXCEPT ![b][p] = v]
  PROVE  /\ g \in [B -> [T -> S]] /\ g[b][p] = v
         /\ \A c \in B, q \in T : c # b \/ q # p => g[c][q] = f[c][q]
OBVIOUS

LEMMA SetAt ==
  ASSUME NEW S, NEW B, NEW f \in [B -> S], NEW b \in B, NEW v \in S, NEW g, g = [f EXCEPT ![b] = v]
  PROVE  g \in [B -> S] /\ g[b] = v /\ \A c \in B : c # b => g[c] = f[c]
OBVIOUS

\* What is heard once more.
LEMMA BagGrows ==
  ASSUME NEW B, IsABag(B), BagToSet(B) \subseteq Nat, NEW x \in Nat
  PROVE  /\ IsABag(B (+) SetToBag({x}))
         /\ BagToSet(B (+) SetToBag({x})) = BagToSet(B) \union {x}
<1> DEFINE C == B (+) SetToBag({x})
<1>1. /\ DOMAIN C = DOMAIN B \union {x}
      /\ \A y \in DOMAIN C : C[y] = (IF y \in DOMAIN B THEN B[y] ELSE 0) + (IF y = x THEN 1 ELSE 0)
      /\ C = [y \in DOMAIN C |-> C[y]]
  BY DEF (+), SetToBag
<1>2. \A y \in DOMAIN B : B[y] \in Nat /\ B[y] > 0
  BY DEF IsABag
<1>3. \A y \in DOMAIN C : C[y] \in Nat /\ C[y] > 0
  BY <1>1, <1>2
<1>4. IsABag(C)
  BY <1>1, <1>3 DEF IsABag
<1>5. QED BY <1>1, <1>4 DEF BagToSet

LEMMA FrameFacts ==
  /\ NoFrame \in Frame /\ Garbled \notin Frame /\ NoFrame # Garbled
  /\ ~NoFrame.need /\ NoFrame.ackSeq = 0 /\ NoJob \in Jobs
  /\ NoJob.to = NoBoard /\ NoJob.frame = NoFrame /\ NoJob.handling = NoFrame
BY DEF NoFrame, Garbled, Frame, Types, Lengths, NoJob, Jobs, NumFields

LEMMA SendableFacts ==
  ASSUME NEW b
  PROVE  Sendable(b) \subseteq Frame /\ NoFrame \in Sendable(b) /\ Garbled \notin Sendable(b)
BY FrameFacts DEF Sendable

-----------------------------------------------------------------------------
(* Steps of parts. *)

\* What was asked for is not forgotten.
Grows == \A b \in Boards : HeardBy(b) \subseteq HeardBy(b)' /\ Sendable(b) \subseteq Sendable(b)'

LEMMA SameGrows ==
  ASSUME UNCHANGED heard
  PROVE  Grows /\ \A b : Sendable(b)' = Sendable(b) /\ HeardBy(b)' = HeardBy(b)
BY DEF Grows, Sendable, HeardBy

LEMMA SameHeard == ASSUME HeardWell, UNCHANGED heard PROVE HeardWell'
BY DEF HeardWell

LEMMA PutNode ==
  ASSUME NodesWell, Grows, NEW b \in Boards, NEW p \in Boards, NEW new, EntryWell(b, new),
         node' = [node EXCEPT ![b][p] = new]
  PROVE  /\ NodesWell' /\ node'[b][p] = new
         /\ \A c, q \in Boards : c # b \/ q # p => node'[c][q] = node[c][q]
<1>1. new \in Entries
  BY DEF EntryWell
<1>2. /\ node' \in [Boards -> [Boards -> Entries]] /\ node'[b][p] = new
      /\ \A c, q \in Boards : c # b \/ q # p => node'[c][q] = node[c][q]
  BY <1>1, Put DEF NodesWell
<1>3. ASSUME NEW c \in Boards, NEW q \in Boards PROVE EntryWell(c, node[c][q])'
  <2>1. CASE c = b /\ q = p
    <3>1. node'[c][q] = new
      BY <1>2, <2>1
    <3>2. QED BY <3>1, <2>1 DEF EntryWell, Grows
  <2>2. CASE c # b \/ q # p
    <3>1. EntryWell(c, node[c][q]) /\ node'[c][q] = node[c][q]
      BY <1>2, <2>2 DEF NodesWell
    <3>2. QED BY <3>1 DEF EntryWell, Grows
  <2>3. QED BY <2>1, <2>2
<1>4. QED BY <1>2, <1>3 DEF NodesWell

LEMMA SameNodes == ASSUME NodesWell, Grows, UNCHANGED node PROVE NodesWell'
<1>1. ASSUME NEW c \in Boards, NEW q \in Boards PROVE EntryWell(c, node[c][q])'
  <2>1. EntryWell(c, node[c][q]) /\ node'[c][q] = node[c][q]
    BY DEF NodesWell
  <2>2. QED BY <2>1 DEF EntryWell, Grows
<1>2. QED BY <1>1 DEF NodesWell

LEMMA SameEvents == ASSUME EventsWell, UNCHANGED events PROVE EventsWell'
BY DEF EventsWell

LEMMA SameBuffers == ASSUME BuffersWell, Grows, UNCHANGED txBuffer PROVE BuffersWell'
BY DEF BuffersWell, Grows

LEMMA SameAcked == ASSUME AckedWell, Grows, UNCHANGED acked PROVE AckedWell'
BY DEF AckedWell, Grows

LEMMA SeqGrows ==
  ASSUME NEW S, NEW T, S \subseteq T, NEW q \in Seq(S)
  PROVE  q \in Seq(T)
OBVIOUS

LEMMA SameAir == ASSUME AirWell, Grows, UNCHANGED air PROVE AirWell'
<1>1. ASSUME NEW b \in Boards, NEW p \in Boards PROVE air[b][p] \in Seq(Sendable(b)')
  <2>1. air[b][p] \in Seq(Sendable(b)) /\ Sendable(b) \subseteq Sendable(b)'
    BY DEF AirWell, Grows
  <2>2. QED BY <2>1, SeqGrows
<1>2. QED BY <1>1 DEF AirWell

\* A transmission appends a frame, or nothing.
LEMMA TransmitAir ==
  ASSUME AirWell, UNCHANGED heard, NEW b \in Boards, NEW targets,
         NEW frame \in Sendable(b) \union {Garbled}, Transmit(b, targets, frame)
  PROVE  AirWell'
<1> DEFINE row == [p \in Boards |->
                     IF p \in targets /\ frame # Garbled /\ Len(air[b][p]) < AirCap
                     THEN Append(air[b][p], frame) ELSE air[b][p]]
<1>1. air' = [air EXCEPT ![b] = row]
  BY DEF Transmit
<1>2. air'[b] = row /\ (\A c \in Boards : c # b => air'[c] = air[c])
  BY <1>1 DEF AirWell
<1>3. ASSUME NEW q \in Boards
      PROVE  row[q] \in Seq(Sendable(b)) /\ row[q] \in Seq(Frame) /\ Len(row[q]) <= AirCap
  <2>1. /\ air[b][q] \in Seq(Sendable(b)) /\ air[b][q] \in Seq(Frame)
        /\ Len(air[b][q]) <= AirCap /\ AirCap \in Nat
    BY LinkAssumption DEF AirWell
  <2>2. CASE row[q] = air[b][q]
    BY <2>1, <2>2
  <2>3. CASE frame # Garbled /\ Len(air[b][q]) < AirCap /\ row[q] = Append(air[b][q], frame)
    <3>1. frame \in Sendable(b) /\ frame \in Frame
      BY <2>3, SendableFacts
    <3>2. QED BY <2>1, <2>3, <3>1
  <2>4. QED BY <2>2, <2>3
<1>4. row \in [Boards -> Seq(Frame)]
  BY <1>3
<1> HIDE DEF row
<1>5. air' \in [Boards -> [Boards -> Seq(Frame)]]
  BY <1>1, <1>4 DEF AirWell
<1>6. ASSUME NEW c \in Boards, NEW q \in Boards
      PROVE  air'[c][q] \in Seq(Sendable(c)') /\ Len(air'[c][q]) <= AirCap
  BY <1>2, <1>3, SameGrows DEF AirWell
<1>7. QED BY <1>5, <1>6 DEF AirWell

\* A frame is taken from the air.
LEMMA TakeAir ==
  ASSUME AirWell, Grows, NEW c \in Boards, NEW q \in Boards, air[c][q] # <<>>,
         air' = [air EXCEPT ![c][q] = Tail(@)]
  PROVE  AirWell' /\ Head(air[c][q]) \in Sendable(c)
<1> DEFINE rest == Tail(air[c][q])
<1>1. /\ rest \in Seq(Frame) /\ rest \in Seq(Sendable(c)) /\ Head(air[c][q]) \in Sendable(c)
      /\ Len(rest) <= AirCap
  BY LinkAssumption DEF AirWell
<1>2. air' = [air EXCEPT ![c][q] = rest]
  BY DEF AirWell
<1> HIDE DEF rest
<1>3. /\ air' \in [Boards -> [Boards -> Seq(Frame)]] /\ air'[c][q] = rest
      /\ \A d \in Boards, r \in Boards : d # c \/ r # q => air'[d][r] = air[d][r]
  BY <1>1, <1>2, Put DEF AirWell
<1>4. ASSUME NEW d \in Boards, NEW r \in Boards
      PROVE  air'[d][r] \in Seq(Sendable(d)') /\ Len(air'[d][r]) <= AirCap
  <2>1. air'[d][r] \in Seq(Sendable(d)) /\ Len(air'[d][r]) <= AirCap
    BY <1>1, <1>3 DEF AirWell
  <2>2. Sendable(d) \subseteq Sendable(d)'
    BY DEF Grows
  <2>3. QED BY <2>1, <2>2, SeqGrows
<1>5. QED BY <1>1, <1>3, <1>4 DEF AirWell

\* What a task reads from the buffer of its board.
LEMMA ReadingFacts ==
  ASSUME BuffersWell, NEW b \in Boards, NEW t, NEW packet \in Readings(b, t)
  PROVE  packet \in Sendable(b) \union {Garbled}
BY DEF BuffersWell, Readings

LEMMA OverlaidFacts ==
  ASSUME NEW b \in Boards, NEW content \in Sendable(b), NEW frame \in Sendable(b), NEW places
  PROVE  Overlaid(content, frame, places) \in Sendable(b)
<1> DEFINE mixed == Overlaid(content, frame, places)
<1>1. content \in Frame /\ frame \in Frame
  BY DEF Sendable
<1>2. /\ mixed.type \in Types \union {"none"} /\ mixed.need \in BOOLEAN /\ mixed.seq \in Nat
      /\ mixed.ackSeq \in Nat /\ mixed.length \in Lengths
  BY <1>1 DEF Overlaid, Frame
<1>3. mixed \in Frame
  BY <1>1 DEF Overlaid, Frame
<1>4. mixed.ackSeq \in HeardBy(b) \union {0}
  BY DEF Overlaid, Sendable
<1>5. QED BY <1>3, <1>4 DEF Sendable

\* How an entry may change without touching what the next retry does: what it
\* waits for stays or is done with.
EntryKept(old, new) ==
  \/ new.lastTxPacket = old.lastTxPacket /\ new.retryCount = old.retryCount
  \/ new.lastTxPacket = NoFrame

LEMMA SeenKept ==
  ASSUME NEW b, NEW entry, EntryWell(b, entry)
  PROVE  EntryWell(b, Seen(entry)) /\ EntryKept(entry, Seen(entry))
BY DEF Seen, EntryWell, Entries, EntryKept, NodeStates

LEMMA NumberedKept ==
  ASSUME NEW b, NEW entry, EntryWell(b, entry)
  PROVE  EntryWell(b, Numbered(entry)) /\ EntryKept(entry, Numbered(entry))
BY DEF Numbered, EntryWell, Entries, EntryKept

LEMMA ClearedKept ==
  ASSUME NEW b, NEW entry, EntryWell(b, entry), NEW state \in NodeStates, NEW new,
         new = [entry EXCEPT !.pendingAckSeq = 0, !.retryCount = 0, !.lastTxPacket = NoFrame,
                             !.state = state]
  PROVE  EntryWell(b, new) /\ EntryKept(entry, new)
<1>1. 0 \in Nat /\ 0 \in 0..MaxRetries /\ NoFrame \in Kept /\ NoFrame \in Sendable(b)
  BY LinkAssumption, FrameFacts, SendableFacts DEF Kept
<1>2. new \in Entries /\ new.lastTxPacket = NoFrame
  BY <1>1 DEF EntryWell, Entries
<1>3. QED BY <1>1, <1>2 DEF EntryWell, EntryKept

LEMMA StatedKept ==
  ASSUME NEW b, NEW entry, EntryWell(b, entry), NEW state \in NodeStates
  PROVE  LET new == [entry EXCEPT !.state = state] IN
         EntryWell(b, new) /\ EntryKept(entry, new)
BY DEF EntryWell, Entries, EntryKept

LEMMA NamedKept ==
  ASSUME NEW b, NEW entry, EntryWell(b, entry), NEW state \in NodeStates, NEW named \in BOOLEAN
  PROVE  LET new == [entry EXCEPT !.named = named, !.state = state] IN
         EntryWell(b, new) /\ EntryKept(entry, new)
<1> DEFINE new == [entry EXCEPT !.named = named, !.state = state]
<1>1. new \in Entries /\ new.lastTxPacket = entry.lastTxPacket /\ new.retryCount = entry.retryCount
  BY DEF EntryWell, Entries
<1>2. QED BY <1>1 DEF EntryWell, EntryKept

LEMMA HandledKept ==
  ASSUME NEW b, NEW entry, EntryWell(b, entry), NEW frame
  PROVE  EntryWell(b, Handled(entry, frame)) /\ EntryKept(entry, Handled(entry, frame))
<1> DEFINE named == entry.named \/ frame.length # "empty"
<1>1. "ONLINE" \in NodeStates /\ "DISCOVERED" \in NodeStates /\ named \in BOOLEAN
  BY DEF NodeStates, EntryWell, Entries
<1>2. \/ Handled(entry, frame) = [entry EXCEPT !.pendingAckSeq = 0, !.retryCount = 0,
                                               !.lastTxPacket = NoFrame, !.state = "ONLINE"]
      \/ Handled(entry, frame) = [entry EXCEPT !.state = "ONLINE"]
      \/ \E state \in {"ONLINE", "DISCOVERED"} :
           Handled(entry, frame) = [entry EXCEPT !.named = named, !.state = state]
  BY DEF Handled
<1> HIDE DEF named
<1>3. CASE Handled(entry, frame) = [entry EXCEPT !.pendingAckSeq = 0, !.retryCount = 0,
                                                 !.lastTxPacket = NoFrame, !.state = "ONLINE"]
  BY <1>1, <1>3, ClearedKept
<1>4. CASE Handled(entry, frame) = [entry EXCEPT !.state = "ONLINE"]
  BY <1>1, <1>4, StatedKept
<1>5. ASSUME NEW state \in {"ONLINE", "DISCOVERED"},
             Handled(entry, frame) = [entry EXCEPT !.named = named, !.state = state]
      PROVE  EntryWell(b, Handled(entry, frame)) /\ EntryKept(entry, Handled(entry, frame))
  <2> DEFINE new == [entry EXCEPT !.named = named, !.state = state]
  <2>1. state \in NodeStates /\ named \in BOOLEAN
    BY <1>1
  <2>2. EntryWell(b, new) /\ EntryKept(entry, new)
    BY <2>1, NamedKept
  <2> HIDE DEF new
  <2>3. Handled(entry, frame) = new
    BY <1>5 DEF new
  <2>4. QED BY <2>2, <2>3
<1>6. QED BY <1>2, <1>3, <1>4, <1>5

-----------------------------------------------------------------------------
(* Tasks. *)

Same(c, t) == pc'[c][t] = pc[c][t] /\ job'[c][t] = job[c][t]

LEMMA SetTask ==
  ASSUME TasksType, NEW b \in Boards, NEW t \in Tasks, NEW step \in Steps, NEW new \in Jobs,
         pc' = [pc EXCEPT ![b][t] = step], job' = [job EXCEPT ![b][t] = new]
  PROVE  /\ TasksType' /\ pc'[b][t] = step /\ job'[b][t] = new
         /\ \A c \in Boards, u \in Tasks : c # b \/ u # t => Same(c, u)
<1>1. /\ pc' \in [Boards -> [Tasks -> Steps]] /\ pc'[b][t] = step
      /\ \A c \in Boards, u \in Tasks : c # b \/ u # t => pc'[c][u] = pc[c][u]
  BY Put DEF TasksType
<1>2. /\ job' \in [Boards -> [Tasks -> Jobs]] /\ job'[b][t] = new
      /\ \A c \in Boards, u \in Tasks : c # b \/ u # t => job'[c][u] = job[c][u]
  BY Put DEF TasksType
<1>3. QED BY <1>1, <1>2 DEF TasksType, Same

LEMMA FinishStep ==
  ASSUME TasksType, NEW b \in Boards, NEW t \in Tasks, Finish(b, t)
  PROVE  /\ TasksType' /\ pc'[b][t] = "idle" /\ job'[b][t] = NoJob
         /\ \A c \in Boards, u \in Tasks : c # b \/ u # t => Same(c, u)
BY SetTask, FrameFacts DEF Finish, Steps

LEMMA StartStep ==
  ASSUME TasksType, NEW b \in Boards, NEW t \in Tasks, NEW to \in Boards \union {NoBoard},
         NEW frame \in Frame, NEW handling \in Frame, Start(b, t, to, frame, handling)
  PROVE  /\ TasksType' /\ pc'[b][t] = "encode"
         /\ job'[b][t].to = to /\ job'[b][t].frame = frame /\ job'[b][t].handling = handling
         /\ \A c \in Boards, u \in Tasks : c # b \/ u # t => Same(c, u)
<1> DEFINE new == [to |-> to, frame |-> frame, written |-> 0, handling |-> handling]
<1>1. new \in Jobs
  BY DEF Jobs, NumFields
<1>2. "encode" \in Steps /\ pc' = [pc EXCEPT ![b][t] = "encode"] /\ job' = [job EXCEPT ![b][t] = new]
  BY DEF Start, Steps
<1>3. /\ TasksType' /\ pc'[b][t] = "encode" /\ job'[b][t] = new
      /\ \A c \in Boards, u \in Tasks : c # b \/ u # t => Same(c, u)
  <2> HIDE DEF new
  <2>1. QED BY <1>1, <1>2, SetTask
<1>4. QED BY <1>3

\* The jobs the step does not touch stay well.
LEMMA AppStays ==
  ASSUME Grows, NEW c \in Boards, AppWell(c), Same(c, "app"),
         \A p \in Boards : EntryKept(node[c][p], node'[c][p])
  PROVE  AppWell(c)'
<1>1. pc'[c]["app"] = pc[c]["app"] /\ job'[c]["app"] = job[c]["app"]
  BY DEF Same
<1>2. job'[c]["app"].frame \in Sendable(c)'
  BY <1>1 DEF AppWell, Grows
<1>3. pc[c]["app"] = "resend" => \/ node'[c][job[c]["app"].to].lastTxPacket = NoFrame
                                 \/ node'[c][job[c]["app"].to].retryCount < MaxRetries
  BY DEF AppWell, EntryKept
<1>4. QED BY <1>1, <1>2, <1>3 DEF AppWell

LEMMA WifiStays ==
  ASSUME Grows, NEW c \in Boards, WifiWell(c), Same(c, "wifi")
  PROVE  WifiWell(c)'
<1>1. pc'[c]["wifi"] = pc[c]["wifi"] /\ job'[c]["wifi"] = job[c]["wifi"]
  BY DEF Same
<1>2. QED BY <1>1 DEF WifiWell, Grows

LEMMA AppJobs ==
  ASSUME JobsWell, Grows, NEW b \in Boards, AppWell(b)',
         \A c \in Boards, u \in Tasks : c # b \/ u # "app" => Same(c, u),
         \A c, p \in Boards : c # b => node'[c][p] = node[c][p]
  PROVE  JobsWell'
<1>1. ASSUME NEW c \in Boards PROVE AppWell(c)' /\ WifiWell(c)'
  <2>1. WifiWell(c)'
    BY WifiStays DEF JobsWell, Tasks
  <2>2. CASE c # b
    <3>1. Same(c, "app") /\ AppWell(c)
      BY <2>2 DEF JobsWell, Tasks
    <3>2. \A p \in Boards : EntryKept(node[c][p], node'[c][p])
      BY <2>2 DEF EntryKept
    <3>3. AppWell(c)'
      BY <3>1, <3>2, AppStays
    <3>4. QED BY <2>1, <3>3
  <2>3. QED BY <2>1, <2>2
<1>2. QED BY <1>1 DEF JobsWell

LEMMA WifiJobs ==
  ASSUME JobsWell, Grows, NEW b \in Boards, WifiWell(b)',
         \A c \in Boards, u \in Tasks : c # b \/ u # "wifi" => Same(c, u),
         \A c, p \in Boards : EntryKept(node[c][p], node'[c][p])
  PROVE  JobsWell'
<1>1. ASSUME NEW c \in Boards PROVE AppWell(c)' /\ WifiWell(c)'
  <2>1. AppWell(c)'
    BY AppStays DEF JobsWell, Tasks
  <2>2. CASE c # b
    <3>1. Same(c, "wifi") /\ WifiWell(c)
      BY <2>2 DEF JobsWell, Tasks
    <3>2. QED BY <2>1, <3>1, WifiStays
  <2>3. QED BY <2>1, <2>2
<1>2. QED BY <1>1 DEF JobsWell

LEMMA SameJobs ==
  ASSUME JobsWell, Grows, UNCHANGED tasks,
         \A c, p \in Boards : EntryKept(node[c][p], node'[c][p])
  PROVE  JobsWell'
<1>1. \A c \in Boards, u \in Tasks : Same(c, u)
  BY DEF tasks, Same
<1>2. QED BY <1>1, AppStays, WifiStays DEF JobsWell, Tasks

LEMMA SameTasks == ASSUME TasksType, UNCHANGED tasks PROVE TasksType'
BY DEF TasksType, tasks

\* A board's application task gives its job up or has done it, and nothing of
\* the entries and of what was heard changes.
LEMMA AppDone ==
  ASSUME EspInv, NEW b \in Boards, Finish(b, "app"), UNCHANGED heard,
         \A c, p \in Boards : c # b => node'[c][p] = node[c][p]
  PROVE  TasksType' /\ JobsWell'
<1>1. /\ TasksType' /\ pc'[b]["app"] = "idle" /\ job'[b]["app"] = NoJob
      /\ \A c \in Boards, u \in Tasks : c # b \/ u # "app" => Same(c, u)
  BY FinishStep DEF EspInv, Tasks
<1>2. AppWell(b)'
  BY <1>1, FrameFacts, SendableFacts, SameGrows DEF AppWell
<1>3. QED BY <1>1, <1>2, SameGrows, AppJobs DEF EspInv

LEMMA WifiDone ==
  ASSUME EspInv, NEW b \in Boards, Finish(b, "wifi"), UNCHANGED heard,
         \A c, p \in Boards : EntryKept(node[c][p], node'[c][p])
  PROVE  TasksType' /\ JobsWell'
<1>1. /\ TasksType' /\ pc'[b]["wifi"] = "idle" /\ job'[b]["wifi"] = NoJob
      /\ \A c \in Boards, u \in Tasks : c # b \/ u # "wifi" => Same(c, u)
  BY FinishStep DEF EspInv, Tasks
<1>2. WifiWell(b)'
  BY <1>1, FrameFacts, SendableFacts, SameGrows DEF WifiWell
<1>3. QED BY <1>1, <1>2, SameGrows, WifiJobs DEF EspInv

-----------------------------------------------------------------------------
(* The application task. *)

\* The parts a step of a task leaves alone.
LEMMA Rest ==
  ASSUME EspInv, UNCHANGED heard
  PROVE  /\ HeardWell' /\ Grows
         /\ UNCHANGED node => NodesWell'
         /\ UNCHANGED events => EventsWell'
         /\ UNCHANGED txBuffer => BuffersWell'
         /\ UNCHANGED air => AirWell'
         /\ UNCHANGED acked => acked' \in [Boards -> [Boards -> SUBSET Nat]] /\ AckedWell'
BY SameHeard, SameGrows, SameNodes, SameEvents, SameBuffers, SameAir, SameAcked DEF EspInv

LEMMA StartSendStep ==
  ASSUME EspInv, UNCHANGED heard, NEW b \in Boards, NEW to \in Boards \union {NoBoard},
         NEW type \in Types, NEW need \in BOOLEAN, NEW length \in Lengths, need => to \in Boards,
         StartSend(b, to, type, need, length)
  PROVE  NodesWell' /\ TasksType' /\ JobsWell'
<1>1. Grows
  BY Rest
<1>2. PICK number : number = IF to = NoBoard THEN 0 ELSE node[b][to].nextTxSeq
  OBVIOUS
<1> DEFINE frame == [type |-> type, need |-> need, seq |-> number, ackSeq |-> 0, length |-> length]
<1>3. frame \in Frame /\ frame \in Sendable(b)' /\ frame.need = need
  <2>1. number \in Nat
    BY <1>2 DEF EspInv, NodesWell, Entries
  <2>2. QED BY <2>1 DEF Frame, Sendable
<1>4. NodesWell' /\ \A c, p \in Boards : c # b => node'[c][p] = node[c][p]
  <2>1. CASE to = NoBoard
    BY <1>1, <2>1, SameNodes DEF StartSend, EspInv
  <2>2. CASE to # NoBoard
    <3>1. to \in Boards /\ EntryWell(b, node[b][to]) /\ node \in [Boards -> [Boards -> Entries]]
      BY <2>2 DEF EspInv, NodesWell
    <3>2. PICK new : new = Numbered(node[b][to])
      OBVIOUS
    <3>3. EntryWell(b, new)
      BY <3>1, <3>2, NumberedKept
    <3>4. node' = [node EXCEPT ![b][to] = new]
      BY <2>2, <3>1, <3>2 DEF StartSend
    <3>5. QED BY <1>1, <3>1, <3>3, <3>4, PutNode DEF EspInv
  <2>3. QED BY <2>1, <2>2
<1>5. Start(b, "app", to, frame, NoFrame)
  BY <1>2 DEF StartSend
<1> HIDE DEF frame
<1>6. /\ TasksType' /\ pc'[b]["app"] = "encode"
      /\ job'[b]["app"].to = to /\ job'[b]["app"].frame = frame
      /\ \A c \in Boards, u \in Tasks : c # b \/ u # "app" => Same(c, u)
  <2>1. TasksType /\ "app" \in Tasks /\ NoFrame \in Frame /\ frame \in Frame
    BY <1>3, FrameFacts DEF EspInv, Tasks
  <2>2. QED BY <1>5, <2>1, StartStep
<1>7. AppWell(b)'
  BY <1>3, <1>6 DEF AppWell
<1>8. JobsWell'
  BY <1>1, <1>4, <1>6, <1>7, AppJobs DEF EspInv
<1>9. QED BY <1>4, <1>6, <1>8

LEMMA BeaconInv ==
  ASSUME EspInv, NEW b \in Boards, NEW type \in {"DISCOVERY", "HEARTBEAT"}, Beacon(b, type)
  PROVE  EspInv'
<1>1. UNCHANGED <<events, txBuffer, air, heard, acked>>
  BY DEF Beacon
<1>2. PICK length \in Lengths : StartSend(b, NoBoard, type, FALSE, length)
  BY DEF Beacon, Lengths
<1>3. NodesWell' /\ TasksType' /\ JobsWell'
  BY <1>1, <1>2, StartSendStep DEF Types
<1>4. QED BY <1>1, <1>3, Rest DEF EspInv

LEMMA SendCommandInv ==
  ASSUME EspInv, NEW b \in Boards, NEW p \in Peers(b), SendCommand(b, p) PROVE EspInv'
<1>1. UNCHANGED <<events, txBuffer, air, heard, acked>> /\ StartSend(b, p, "COMMAND", TRUE, "data")
  BY DEF SendCommand
<1>2. p \in Boards /\ "COMMAND" \in Types /\ "data" \in Lengths
  BY DEF Peers, Types, Lengths
<1>3. NodesWell' /\ TasksType' /\ JobsWell'
  BY <1>1, <1>2, StartSendStep
<1>4. QED BY <1>1, <1>3, Rest DEF EspInv

LEMMA HandleEventInv == ASSUME EspInv, NEW b \in Boards, HandleEvent(b) PROVE EspInv'
<1>1. UNCHANGED <<txBuffer, air, heard, acked>>
  BY DEF HandleEvent
<1>2. PICK event : event = Head(events[b])
  OBVIOUS
<1>3. event \in Events /\ EventsWell'
  <2>1. /\ events[b] \in Seq(Events) /\ events[b] # <<>> /\ Len(events[b]) <= EventCap
    BY DEF HandleEvent, EspInv, EventsWell
  <2>2. Tail(events[b]) \in Seq(Events) /\ event \in Events /\ Len(Tail(events[b])) <= EventCap
    BY <1>2, <2>1, LinkAssumption
  <2>3. events' = [events EXCEPT ![b] = Tail(events[b])]
    BY DEF HandleEvent
  <2>4. QED BY <2>2, <2>3 DEF EspInv, EventsWell
<1>4. NodesWell' /\ TasksType' /\ JobsWell'
  <2>1. CASE StartSend(b, event.from, "COMMAND_RESULT", TRUE, event.length)
    <3>1. event.from \in Boards /\ event.length \in Lengths /\ "COMMAND_RESULT" \in Types
      BY <1>3 DEF Events, Types
    <3>2. QED BY <1>1, <2>1, <3>1, StartSendStep
  <2>2. CASE UNCHANGED <<node, tasks>>
    <3>1. \A c, p \in Boards : EntryKept(node[c][p], node'[c][p])
      BY <2>2 DEF EntryKept
    <3>2. QED BY <1>1, <2>2, <3>1, Rest, SameTasks, SameJobs DEF EspInv
  <2>3. QED BY <1>2, <2>1, <2>2 DEF HandleEvent
<1>5. QED BY <1>1, <1>3, <1>4, Rest DEF EspInv

LEMMA NodeTimeoutInv ==
  ASSUME EspInv, NEW b \in Boards, NEW p \in Peers(b), NodeTimeout(b, p) PROVE EspInv'
<1>1. UNCHANGED <<events, txBuffer, tasks, air, heard, acked>> /\ p \in Boards
  BY DEF NodeTimeout, Peers
<1>2. PICK late \in {"STALE", "OFFLINE"} : node' = [node EXCEPT ![b][p].state = late]
  BY DEF NodeTimeout
<1>3. PICK new : new = [node[b][p] EXCEPT !.state = late]
  OBVIOUS
<1>4. EntryWell(b, node[b][p]) /\ node \in [Boards -> [Boards -> Entries]] /\ Grows
  BY <1>1, Rest DEF EspInv, NodesWell
<1>5. EntryWell(b, new) /\ EntryKept(node[b][p], new)
  BY <1>3, <1>4, StatedKept DEF NodeStates
<1>6. node' = [node EXCEPT ![b][p] = new]
  BY <1>1, <1>2, <1>3, <1>4
<1>7. /\ NodesWell' /\ node'[b][p] = new
      /\ \A c, q \in Boards : c # b \/ q # p => node'[c][q] = node[c][q]
  BY <1>1, <1>4, <1>5, <1>6, PutNode DEF EspInv
<1>8. \A c, q \in Boards : EntryKept(node[c][q], node'[c][q])
  BY <1>5, <1>7 DEF EntryKept
<1>9. QED BY <1>1, <1>4, <1>7, <1>8, Rest, SameTasks, SameJobs DEF EspInv

LEMMA FailsInv ==
  ASSUME EspInv, NEW b \in Boards, SendFails(b) \/ ResendFails(b) PROVE EspInv'
<1>1. UNCHANGED <<node, events, txBuffer, air, heard, acked>> /\ Finish(b, "app")
  BY DEF SendFails, ResendFails
<1>2. TasksType' /\ JobsWell'
  BY <1>1, AppDone
<1>3. QED BY <1>1, <1>2, Rest DEF EspInv

LEMMA RetryDueInv ==
  ASSUME EspInv, NEW b \in Boards, NEW p \in Peers(b), RetryDue(b, p) PROVE EspInv'
<1>1. UNCHANGED <<node, events, txBuffer, air, heard, acked>> /\ p \in Boards
  BY DEF RetryDue, Peers
<1>2. PICK step \in {"giveUp", "resend"} :
        /\ pc' = [pc EXCEPT ![b]["app"] = step]
        /\ step = "resend" => ~(node[b][p].retryCount >= MaxRetries)
  BY DEF RetryDue
<1> DEFINE new == [NoJob EXCEPT !.to = p]
<1>3. new \in Jobs /\ new.to = p /\ new.frame = NoFrame
  BY <1>1, FrameFacts DEF Jobs
<1>4. job' = [job EXCEPT ![b]["app"] = new] /\ step \in Steps /\ "app" \in Tasks
  BY <1>2 DEF RetryDue, Steps, Tasks
<1> HIDE DEF new
<1>5. /\ TasksType' /\ pc'[b]["app"] = step /\ job'[b]["app"] = new
      /\ \A c \in Boards, u \in Tasks : c # b \/ u # "app" => Same(c, u)
  BY <1>2, <1>3, <1>4, SetTask DEF EspInv
<1>6. step = "resend" => node'[b][p].retryCount < MaxRetries
  BY <1>1, <1>2, LinkAssumption DEF EspInv, NodesWell, Entries
<1>7. AppWell(b)'
  BY <1>1, <1>3, <1>5, <1>6, FrameFacts, SendableFacts, SameGrows DEF AppWell
<1>8. JobsWell'
  BY <1>1, <1>5, <1>7, Rest, AppJobs DEF EspInv
<1>9. QED BY <1>1, <1>5, <1>8, Rest DEF EspInv

\* The application task changes the entry of the board it has sent to.
LEMMA PutAndFinish ==
  ASSUME EspInv, NEW b \in Boards, NEW p \in Boards, NEW new, EntryWell(b, new),
         node' = [node EXCEPT ![b][p] = new], Finish(b, "app"), UNCHANGED heard
  PROVE  NodesWell' /\ TasksType' /\ JobsWell'
<1>1. NodesWell' /\ \A c, q \in Boards : c # b \/ q # p => node'[c][q] = node[c][q]
  BY PutNode, Rest DEF EspInv
<1>2. TasksType' /\ JobsWell'
  BY <1>1, AppDone
<1>3. QED BY <1>1, <1>2

LEMMA GiveUpInv == ASSUME EspInv, NEW b \in Boards, GiveUp(b) PROVE EspInv'
<1>1. UNCHANGED <<events, txBuffer, air, heard, acked>> /\ Finish(b, "app")
  BY DEF GiveUp
<1>2. PICK p \in Boards : p = job[b]["app"].to
  BY DEF GiveUp, EspInv, JobsWell, AppWell
<1>3. PICK new : new = [node[b][p] EXCEPT !.pendingAckSeq = 0, !.retryCount = 0,
                                          !.lastTxPacket = NoFrame, !.state = "ERROR"]
  OBVIOUS
<1>4. EntryWell(b, new)
  <2>1. EntryWell(b, node[b][p]) /\ "ERROR" \in NodeStates
    BY DEF EspInv, NodesWell, NodeStates
  <2>2. QED BY <1>3, <2>1, ClearedKept
<1>5. node' = [node EXCEPT ![b][p] = new]
  BY <1>2, <1>3 DEF GiveUp, EspInv, NodesWell
<1>6. QED BY <1>1, <1>4, <1>5, PutAndFinish, Rest DEF EspInv

LEMMA ResendInv == ASSUME EspInv, NEW b \in Boards, Resend(b) PROVE EspInv'
<1>1. UNCHANGED <<events, txBuffer, heard, acked>> /\ Finish(b, "app")
  BY DEF Resend
<1>2. PICK p \in Boards : p = job[b]["app"].to
  BY DEF Resend, EspInv, JobsWell, AppWell
<1>3. PICK old : old = node[b][p]
  OBVIOUS
<1>4. EntryWell(b, old) /\ node \in [Boards -> [Boards -> Entries]]
  BY <1>3 DEF EspInv, NodesWell
<1>5. CASE old.lastTxPacket = NoFrame
  <2>1. UNCHANGED <<air, node>>
    BY <1>2, <1>3, <1>5 DEF Resend
  <2>2. TasksType' /\ JobsWell'
    BY <1>1, <2>1, AppDone
  <2>3. QED BY <1>1, <2>1, <2>2, Rest DEF EspInv
<1>6. CASE old.lastTxPacket # NoFrame
  <2>1. /\ Transmit(b, {p}, old.lastTxPacket)
        /\ node' = [node EXCEPT ![b][p].retryCount = @ + 1]
    BY <1>2, <1>3, <1>6 DEF Resend
  <2>2. AirWell'
    BY <1>1, <1>4, <2>1, TransmitAir DEF EspInv, EntryWell
  <2>3. old.retryCount < MaxRetries
    BY <1>2, <1>3, <1>6 DEF Resend, EspInv, JobsWell, AppWell
  <2>4. PICK new : new = [old EXCEPT !.retryCount = @ + 1]
    OBVIOUS
  <2>5. EntryWell(b, new)
    <3>1. old \in Entries /\ old.lastTxPacket \in Sendable(b) \union {Garbled}
      BY <1>4 DEF EntryWell
    <3>2. old.retryCount + 1 \in 0..MaxRetries
      BY <2>3, <3>1, LinkAssumption DEF Entries
    <3>3. new \in Entries /\ new.lastTxPacket = old.lastTxPacket
      BY <2>4, <3>1, <3>2 DEF Entries
    <3>4. QED BY <3>1, <3>3 DEF EntryWell
  <2>6. node' = [node EXCEPT ![b][p] = new]
    BY <1>3, <1>4, <2>1, <2>4
  <2>7. QED BY <1>1, <2>2, <2>5, <2>6, PutAndFinish, Rest DEF EspInv
<1>7. QED BY <1>5, <1>6

LEMMA SendInv == ASSUME EspInv, NEW b \in Boards, Send(b) PROVE EspInv'
<1>1. UNCHANGED <<node, events, txBuffer, heard, acked>>
  BY DEF Send
<1>2. PICK packet \in Readings(b, "app") :
        Transmit(b, IF job[b]["app"].to = NoBoard THEN Peers(b) ELSE {job[b]["app"].to}, packet)
  BY DEF Send
<1>3. PICK targets : targets = IF job[b]["app"].to = NoBoard THEN Peers(b) ELSE {job[b]["app"].to}
  OBVIOUS
<1>4. AirWell'
  <2>1. packet \in Sendable(b) \union {Garbled}
    BY ReadingFacts DEF EspInv
  <2>2. QED BY <1>1, <1>2, <1>3, <2>1, TransmitAir DEF EspInv
<1>5. TasksType' /\ JobsWell'
  <2>1. CASE Finish(b, "app")
    BY <1>1, <2>1, AppDone
  <2>2. CASE /\ job[b]["app"].frame.need
             /\ pc' = [pc EXCEPT ![b]["app"] = "record"] /\ UNCHANGED job
    <3>1. /\ TasksType' /\ pc'[b]["app"] = "record" /\ job'[b]["app"] = job[b]["app"]
          /\ \A c \in Boards, u \in Tasks : c # b \/ u # "app" => Same(c, u)
      <4>1. /\ pc' \in [Boards -> [Tasks -> Steps]] /\ pc'[b]["app"] = "record"
            /\ \A c \in Boards, u \in Tasks : c # b \/ u # "app" => pc'[c][u] = pc[c][u]
        BY <2>2, Put DEF EspInv, TasksType, Tasks, Steps
      <4>2. QED BY <2>2, <4>1 DEF EspInv, TasksType, Same
    <3>2. AppWell(b)'
      BY <2>2, <3>1, <1>1, SameGrows DEF EspInv, JobsWell, AppWell
    <3>3. QED BY <1>1, <3>1, <3>2, Rest, AppJobs DEF EspInv
  <2>3. QED BY <2>1, <2>2 DEF Send
<1>6. QED BY <1>1, <1>4, <1>5, Rest DEF EspInv

LEMMA RecordInv == ASSUME EspInv, NEW b \in Boards, Record(b) PROVE EspInv'
<1>1. UNCHANGED <<events, txBuffer, air, heard, acked>> /\ Finish(b, "app")
  BY DEF Record
<1>2. PICK p \in Boards : p = job[b]["app"].to
  BY DEF Record, EspInv, JobsWell, AppWell
<1>3. PICK seq \in Nat : seq = job[b]["app"].frame.seq
  BY DEF EspInv, JobsWell, AppWell, Sendable, Frame
<1>4. PICK packet \in Readings(b, "app") :
        node' = [node EXCEPT ![b][p] =
          [@ EXCEPT !.pendingAckSeq = seq, !.retryCount = 0, !.lastTxPacket = packet]]
  BY <1>2, <1>3 DEF Record
<1>5. PICK new : new = [node[b][p] EXCEPT !.pendingAckSeq = seq, !.retryCount = 0,
                                          !.lastTxPacket = packet]
  OBVIOUS
<1>6. EntryWell(b, new)
  <2>1. packet \in Sendable(b) \union {Garbled} /\ packet \in Kept
    BY ReadingFacts, SendableFacts DEF EspInv, Kept
  <2>2. node[b][p] \in Entries /\ 0 \in 0..MaxRetries
    BY LinkAssumption DEF EspInv, NodesWell
  <2>3. QED BY <1>5, <2>1, <2>2 DEF EntryWell, Entries
<1>7. node' = [node EXCEPT ![b][p] = new]
  BY <1>4, <1>5 DEF EspInv, NodesWell
<1>8. QED BY <1>1, <1>6, <1>7, PutAndFinish, Rest DEF EspInv

-----------------------------------------------------------------------------
(* Either task: the buffer is written, with parts of both packets. *)

LEMMA EncodeInv ==
  ASSUME EspInv, NEW b \in Boards, NEW t \in Tasks, Encode(b, t) PROVE EspInv'
<1> DEFINE own == job[b][t]  other == job[b][Other(t)]
<1>1. UNCHANGED <<node, events, air, heard, acked>> /\ Other(t) \in Tasks /\ Other(t) # t
  BY DEF Encode, Other, Tasks
<1>2. PICK last, over, sound :
        /\ last \in other.written..NumFields /\ sound \in BOOLEAN
        /\ txBuffer' = [txBuffer EXCEPT ![b] =
             [frame |-> Overlaid(Overlaid(@.frame, own.frame, (own.written + 1)..NumFields),
                                 other.frame, over),
              sound |-> sound]]
        /\ job' = [job EXCEPT ![b][t].written = NumFields, ![b][Other(t)].written = last]
  <2>1. other \in Jobs /\ own \in Jobs
    BY <1>1 DEF EspInv, TasksType
  <2>2. other.written \in 0..NumFields
    BY <2>1 DEF Jobs
  <2>3. other.written \in other.written..NumFields
    BY <2>2 DEF NumFields
  <2>4. \A last \in other.written..(IF pc[b][Other(t)] = "encode" THEN NumFields ELSE other.written) :
          last \in other.written..NumFields
    BY <2>3 DEF NumFields
  <2>5. PICK last \in other.written..NumFields :
          \E over \in SUBSET ((other.written + 1)..last),
             sound \in IF (own.written + 1)..NumFields = {} THEN BOOLEAN ELSE {TRUE} :
            /\ txBuffer' = [txBuffer EXCEPT ![b] =
                 [frame |-> Overlaid(Overlaid(@.frame, own.frame, (own.written + 1)..NumFields),
                                     other.frame, over),
                  sound |-> sound]]
            /\ job' = [job EXCEPT ![b][t].written = NumFields, ![b][Other(t)].written = last]
    BY <2>4 DEF Encode
  <2>6. PICK over \in SUBSET ((other.written + 1)..last),
          sound \in IF (own.written + 1)..NumFields = {} THEN BOOLEAN ELSE {TRUE} :
          /\ txBuffer' = [txBuffer EXCEPT ![b] =
               [frame |-> Overlaid(Overlaid(@.frame, own.frame, (own.written + 1)..NumFields),
                                   other.frame, over),
                sound |-> sound]]
          /\ job' = [job EXCEPT ![b][t].written = NumFields, ![b][Other(t)].written = last]
    BY <2>5
  <2>7. sound \in BOOLEAN
    OBVIOUS
  <2>8. QED BY <2>6, <2>7
<1>3. BuffersWell'
  <2>1. /\ txBuffer[b].frame \in Sendable(b) /\ own.frame \in Sendable(b)
        /\ other.frame \in Sendable(b)
    BY <1>1 DEF EspInv, BuffersWell, JobsWell, AppWell, WifiWell, Tasks
  <2>2. PICK first : first = Overlaid(txBuffer[b].frame, own.frame, (own.written + 1)..NumFields)
    OBVIOUS
  <2>3. first \in Sendable(b)
    BY <2>1, <2>2, OverlaidFacts
  <2>4. PICK mixed : mixed = Overlaid(first, other.frame, over)
    OBVIOUS
  <2>5. mixed \in Sendable(b) /\ mixed \in Frame
    BY <2>1, <2>3, <2>4, OverlaidFacts, SendableFacts
  <2>6. txBuffer' = [txBuffer EXCEPT ![b] = [frame |-> mixed, sound |-> sound]]
    BY <1>2, <2>2, <2>4 DEF EspInv, BuffersWell
  <2>7. [frame |-> mixed, sound |-> sound] \in [frame: Frame, sound: BOOLEAN]
    BY <1>2, <2>5
  <2>8. /\ txBuffer' \in [Boards -> [frame: Frame, sound: BOOLEAN]] /\ txBuffer'[b].frame = mixed
        /\ \A c \in Boards : c # b => txBuffer'[c] = txBuffer[c]
    BY <2>6, <2>7, SetAt DEF EspInv, BuffersWell
  <2>9. QED BY <1>1, <2>5, <2>8, SameGrows DEF EspInv, BuffersWell
<1>4. /\ pc' \in [Boards -> [Tasks -> Steps]] /\ pc[b][t] = "encode" /\ pc'[b][t] = "send"
      /\ \A c \in Boards, u \in Tasks : c # b \/ u # t => pc'[c][u] = pc[c][u]
  BY Put DEF Encode, EspInv, TasksType, Steps
<1>5. /\ job' \in [Boards -> [Tasks -> Jobs]]
      /\ \A c \in Boards, u \in Tasks :
           /\ job'[c][u].frame = job[c][u].frame /\ job'[c][u].to = job[c][u].to
           /\ job'[c][u].handling = job[c][u].handling
  <2>1. own \in Jobs /\ other \in Jobs /\ other.written \in 0..NumFields
    BY <1>1 DEF EspInv, TasksType, Jobs
  <2>2. last \in 0..NumFields /\ NumFields \in 0..NumFields
    BY <1>2, <2>1 DEF NumFields
  <2>3. PICK mine, theirs : /\ mine = [own EXCEPT !.written = NumFields]
                            /\ theirs = [other EXCEPT !.written = last]
    OBVIOUS
  <2>4. /\ mine \in Jobs /\ mine.frame = own.frame /\ mine.to = own.to /\ mine.handling = own.handling
        /\ theirs \in Jobs /\ theirs.frame = other.frame /\ theirs.to = other.to
        /\ theirs.handling = other.handling
    BY <2>1, <2>2, <2>3 DEF Jobs
  <2>5. PICK half : half = [job EXCEPT ![b][t] = mine]
    OBVIOUS
  <2>6. /\ half \in [Boards -> [Tasks -> Jobs]] /\ half[b][t] = mine
        /\ \A c \in Boards, u \in Tasks : c # b \/ u # t => half[c][u] = job[c][u]
    BY <2>4, <2>5, Put DEF EspInv, TasksType
  <2>7. job' = [half EXCEPT ![b][Other(t)] = theirs]
    BY <1>1, <1>2, <2>3, <2>5 DEF EspInv, TasksType
  <2>8. /\ job' \in [Boards -> [Tasks -> Jobs]] /\ job'[b][Other(t)] = theirs
        /\ \A c \in Boards, u \in Tasks : c # b \/ u # Other(t) => job'[c][u] = half[c][u]
    BY <1>1, <2>4, <2>6, <2>7, Put
  <2>9. QED BY <1>1, <2>4, <2>6, <2>8
<1> HIDE DEF own, other
<1>6. JobsWell'
  <2>1. ASSUME NEW c \in Boards PROVE AppWell(c)' /\ WifiWell(c)'
    <3>1. AppWell(c) /\ WifiWell(c) /\ \A d \in Boards : Sendable(d)' = Sendable(d)
      BY <1>1, SameGrows DEF EspInv, JobsWell
    <3>2. \A u \in Tasks :
            /\ pc'[c][u] = pc[c][u] \/ (pc[c][u] = "encode" /\ pc'[c][u] = "send")
            /\ job'[c][u].frame = job[c][u].frame /\ job'[c][u].to = job[c][u].to
            /\ job'[c][u].handling = job[c][u].handling
      BY <1>4, <1>5
    <3>3. AppWell(c)'
      BY <1>1, <3>1, <3>2 DEF AppWell, Tasks
    <3>4. WifiWell(c)'
      BY <3>1, <3>2 DEF WifiWell, Tasks
    <3>5. QED BY <3>3, <3>4
  <2>2. QED BY <2>1 DEF JobsWell
<1>7. TasksType'
  BY <1>4, <1>5 DEF TasksType
<1>8. QED BY <1>1, <1>3, <1>6, <1>7, Rest DEF EspInv

LEMMA LoseInv ==
  ASSUME EspInv, NEW b \in Boards, NEW p \in Peers(b), Lose(b, p) PROVE EspInv'
<1>1. /\ UNCHANGED <<node, events, txBuffer, tasks, heard, acked>> /\ p \in Boards
      /\ air[b][p] # <<>> /\ air' = [air EXCEPT ![b][p] = Tail(@)]
  BY DEF Lose, Peers
<1>2. AirWell'
  BY <1>1, Rest, TakeAir DEF EspInv
<1>3. \A c, q \in Boards : EntryKept(node[c][q], node'[c][q])
  BY <1>1 DEF EntryKept
<1>4. QED BY <1>1, <1>2, <1>3, Rest, SameTasks, SameJobs DEF EspInv

LEMMA StutterInv == EspInv /\ UNCHANGED vars => EspInv'
<1> SUFFICES ASSUME EspInv, UNCHANGED vars PROVE EspInv'
  OBVIOUS
<1>1. UNCHANGED <<node, events, txBuffer, tasks, air, heard, acked>>
  BY DEF vars
<1>2. \A c, q \in Boards : EntryKept(node[c][q], node'[c][q])
  BY <1>1 DEF EntryKept
<1>3. QED BY <1>1, <1>2, Rest, SameTasks, SameJobs DEF EspInv

-----------------------------------------------------------------------------
(* The WiFi task. *)

LEMMA NoteTypes ==
  ASSUME EventsWell, NodesWell, NEW b \in Boards, NEW p \in Boards, NEW frame \in Frame,
         Note(b, p, frame)
  PROVE  EventsWell'
<1> DEFINE kept  == IF Len(events[b]) < EventCap THEN events[b] ELSE Tail(events[b])
           event == [type |-> frame.type, from |-> p, named |-> node[b][p].named,
                     length |-> frame.length]
           new   == IF frame.type \in {"COMMAND", "COMMAND_RESULT"} THEN Append(kept, event)
                    ELSE events[b]
<1>1. events[b] \in Seq(Events) /\ Len(events[b]) <= EventCap /\ EventCap \in Nat \ {0}
  BY LinkAssumption DEF EventsWell
<1>2. events' = [events EXCEPT ![b] = new]
  BY DEF Note, EventsWell
<1>3. frame.type \in {"COMMAND", "COMMAND_RESULT"} => event \in Events
  BY DEF Events, NodesWell, Entries, Frame
<1>4. kept \in Seq(Events) /\ Len(kept) < EventCap
  BY <1>1
<1> HIDE DEF kept, event
<1>5. frame.type \in {"COMMAND", "COMMAND_RESULT"} =>
        Append(kept, event) \in Seq(Events) /\ Len(Append(kept, event)) <= EventCap
  BY <1>1, <1>3, <1>4
<1>6. new \in Seq(Events) /\ Len(new) <= EventCap
  BY <1>1, <1>5
<1> HIDE DEF new
<1>7. /\ events' \in [Boards -> Seq(Events)] /\ events'[b] = new
      /\ \A c \in Boards : c # b => events'[c] = events[c]
  BY <1>2, <1>6 DEF EventsWell
<1>8. QED BY <1>6, <1>7 DEF EventsWell

\* The WiFi task puts an entry that keeps what it waits for.
LEMMA PutKept ==
  ASSUME EspInv, Grows, NEW b \in Boards, NEW p \in Boards, NEW old, old = node[b][p],
         NEW new, EntryWell(b, new), EntryKept(old, new), node' = [node EXCEPT ![b][p] = new]
  PROVE  NodesWell' /\ \A c, q \in Boards : EntryKept(node[c][q], node'[c][q])
<1>1. /\ NodesWell' /\ node'[b][p] = new
      /\ \A c, q \in Boards : c # b \/ q # p => node'[c][q] = node[c][q]
  BY PutNode DEF EspInv
<1>2. QED BY <1>1 DEF EntryKept

LEMMA KeptTransitive ==
  ASSUME NEW a, NEW b, NEW c, EntryKept(a, b), EntryKept(b, c)
  PROVE  EntryKept(a, c)
BY DEF EntryKept

LEMMA HandleStep ==
  ASSUME EspInv, UNCHANGED heard, NEW b \in Boards, NEW p \in Boards,
         NEW entry, EntryWell(b, entry), NEW old, old = node[b][p], EntryKept(old, entry),
         NEW frame \in Sendable(p), Handle(b, p, entry, frame)
  PROVE  /\ NodesWell' /\ EventsWell' /\ TasksType' /\ JobsWell'
         /\ acked' \in [Boards -> [Boards -> SUBSET Nat]] /\ AckedWell'
<1>1. frame \in Frame /\ Grows
  BY SendableFacts, Rest
<1>2. EventsWell'
  BY <1>1, NoteTypes DEF Handle, EspInv
<1>3. acked' \in [Boards -> [Boards -> SUBSET Nat]] /\ AckedWell'
  <2>1. CASE UNCHANGED acked
    BY <2>1, Rest
  <2>2. CASE /\ AckedBy(entry, frame)
             /\ acked' = [acked EXCEPT ![b][p] = @ \union {entry.pendingAckSeq}]
    <3>1. entry.pendingAckSeq \in HeardBy(p) /\ entry.pendingAckSeq \in Nat
      BY <2>2 DEF AckedBy, Sendable, EntryWell, Entries
    <3>2. acked[b][p] \in SUBSET Nat /\ acked[b][p] \subseteq HeardBy(p)
      BY <1>1 DEF EspInv, AckedWell
    <3>3. PICK new : new = acked[b][p] \union {entry.pendingAckSeq}
      OBVIOUS
    <3>4. new \in SUBSET Nat /\ new \subseteq HeardBy(p)
      BY <3>1, <3>2, <3>3
    <3>5. acked' = [acked EXCEPT ![b][p] = new]
      BY <1>1, <2>2, <3>3 DEF EspInv
    <3>6. /\ acked' \in [Boards -> [Boards -> SUBSET Nat]] /\ acked'[b][p] = new
          /\ \A c \in Boards, q \in Boards : c # b \/ q # p => acked'[c][q] = acked[c][q]
      BY <1>1, <3>4, <3>5, Put DEF EspInv
    <3>7. QED BY <3>4, <3>6, SameGrows DEF EspInv, AckedWell
  <2>3. QED BY <2>1, <2>2 DEF Handle
<1>4. PICK new : new = Handled(entry, frame)
  OBVIOUS
<1>5. EntryWell(b, new) /\ EntryKept(old, new)
  BY <1>4, HandledKept, KeptTransitive
<1>6. CASE node' = [node EXCEPT ![b][p] = new] /\ Finish(b, "wifi")
  <2>1. NodesWell' /\ \A c, q \in Boards : EntryKept(node[c][q], node'[c][q])
    BY <1>1, <1>5, <1>6, PutKept
  <2>2. TasksType' /\ JobsWell'
    BY <1>6, <2>1, WifiDone
  <2>3. QED BY <1>2, <1>3, <2>1, <2>2
<1>7. CASE /\ node' = [node EXCEPT ![b][p] = Numbered(new)]
           /\ Start(b, "wifi", p, [type |-> "NODE_INFO", need |-> FALSE, seq |-> new.nextTxSeq,
                                   ackSeq |-> 0, length |-> "info"], NoFrame)
  <2>1. EntryWell(b, Numbered(new)) /\ EntryKept(old, Numbered(new))
    BY <1>5, NumberedKept, KeptTransitive
  <2>2. NodesWell' /\ \A c, q \in Boards : EntryKept(node[c][q], node'[c][q])
    BY <1>1, <1>7, <2>1, PutKept
  <2>3. PICK info : info = [type |-> "NODE_INFO", need |-> FALSE, seq |-> new.nextTxSeq,
                            ackSeq |-> 0, length |-> "info"]
    OBVIOUS
  <2>4. info \in Frame /\ info.ackSeq = 0
    BY <1>5, <2>3 DEF EntryWell, Entries, Frame, Types, Lengths
  <2>5. Start(b, "wifi", p, info, NoFrame)
    BY <1>7, <2>3
  <2>6. /\ TasksType' /\ job'[b]["wifi"].to = p /\ job'[b]["wifi"].frame = info
        /\ job'[b]["wifi"].handling = NoFrame
        /\ \A c \in Boards, u \in Tasks : c # b \/ u # "wifi" => Same(c, u)
    <3>1. TasksType /\ "wifi" \in Tasks /\ NoFrame \in Frame
      BY FrameFacts DEF EspInv, Tasks
    <3>2. QED BY <1>1, <2>4, <2>5, <3>1, StartStep
  <2>7. WifiWell(b)'
    <3>1. info \in Sendable(b) /\ NoFrame \in Sendable(p)
      BY <2>4, SendableFacts DEF Sendable
    <3>2. QED BY <1>1, <2>6, <3>1, SameGrows DEF WifiWell
  <2>8. JobsWell'
    BY <1>1, <2>2, <2>6, <2>7, WifiJobs DEF EspInv
  <2>9. QED BY <1>2, <1>3, <2>2, <2>6, <2>8
<1>8. QED BY <1>4, <1>6, <1>7 DEF Handle

LEMMA ReceivePlainInv ==
  ASSUME EspInv, NEW b \in Boards, NEW p \in Peers(b), ReceivePlain(b, p) PROVE EspInv'
<1>1. UNCHANGED <<txBuffer, heard>> /\ p \in Boards /\ Grows
  BY Rest DEF ReceivePlain, Peers
<1>2. PICK frame, entry, old :
        /\ frame = Head(air[p][b]) /\ entry = Seen(node[b][p]) /\ old = node[b][p]
  OBVIOUS
<1>3. AirWell' /\ frame \in Sendable(p)
  BY <1>1, <1>2, TakeAir DEF ReceivePlain, Take, EspInv
<1>4. EntryWell(b, entry) /\ EntryKept(old, entry)
  BY <1>1, <1>2, SeenKept DEF EspInv, NodesWell
<1>5. Handle(b, p, entry, frame)
  BY <1>2 DEF ReceivePlain
<1>6. /\ NodesWell' /\ EventsWell' /\ TasksType' /\ JobsWell'
      /\ acked' \in [Boards -> [Boards -> SUBSET Nat]] /\ AckedWell'
  BY <1>1, <1>2, <1>3, <1>4, <1>5, HandleStep
<1>7. QED BY <1>1, <1>3, <1>6, Rest DEF EspInv

LEMMA ReceiveCommandInv ==
  ASSUME EspInv, NEW b \in Boards, NEW p \in Peers(b), ReceiveCommand(b, p) PROVE EspInv'
<1>1. UNCHANGED <<events, txBuffer, acked>> /\ p \in Boards /\ b # p
  BY DEF ReceiveCommand, Peers
<1>2. PICK frame, entry, old :
        /\ frame = Head(air[p][b]) /\ entry = Seen(node[b][p]) /\ old = node[b][p]
  OBVIOUS
<1>3. frame \in Frame
  BY <1>1, <1>2 DEF ReceiveCommand, EspInv, AirWell
<1>4. PICK bag : bag = heard[b][p] (+) SetToBag({frame.seq})
  OBVIOUS
<1>5. /\ IsABag(bag) /\ BagToSet(bag) \subseteq Nat
      /\ BagToSet(bag) = BagToSet(heard[b][p]) \union {frame.seq}
  <2>1. frame.seq \in Nat /\ IsABag(heard[b][p]) /\ BagToSet(heard[b][p]) \subseteq Nat
    BY <1>1, <1>3 DEF Frame, EspInv, HeardWell
  <2>2. QED BY <1>4, <2>1, BagGrows
<1>6. /\ heard' = [c \in Boards |-> [q \in Boards |-> IF c = b /\ q = p THEN bag ELSE heard[c][q]]]
      /\ \A c, q \in Boards : heard'[c][q] = IF c = b /\ q = p THEN bag ELSE heard[c][q]
  <2>1. heard' = [heard EXCEPT ![b][p] = bag]
    BY <1>2, <1>4 DEF ReceiveCommand, EspInv, HeardWell
  <2>2. heard = [c \in Boards |-> [q \in Boards |-> heard[c][q]]]
    BY DEF EspInv, HeardWell
  <2>3. heard' = [c \in Boards |-> [q \in Boards |-> IF c = b /\ q = p THEN bag ELSE heard[c][q]]]
    BY <1>1, <2>1, <2>2
  <2>4. QED BY <2>3
<1>7. HeardWell'
  BY <1>5, <1>6 DEF EspInv, HeardWell
<1>8. Grows /\ frame.seq \in HeardBy(b)'
  <2>1. \A c, q \in Boards : BagToSet(heard[c][q]) \subseteq BagToSet(heard'[c][q])
    BY <1>5, <1>6
  <2>2. p \in Peers(b) /\ \A c \in Boards : Peers(c) \subseteq Boards
    BY DEF Peers
  <2>3. \A c \in Boards : HeardBy(c) \subseteq HeardBy(c)'
    BY <2>1, <2>2 DEF HeardBy
  <2>4. frame.seq \in HeardBy(b)'
    <3>1. frame.seq \in BagToSet(heard'[b][p])
      BY <1>1, <1>5, <1>6
    <3>2. QED BY <2>2, <3>1 DEF HeardBy
  <2>5. QED BY <2>3, <2>4 DEF Grows, Sendable
<1>9. AirWell' /\ frame \in Sendable(p)
  BY <1>1, <1>2, <1>8, TakeAir DEF ReceiveCommand, Take, EspInv
<1>10. EntryWell(b, entry) /\ EntryKept(old, entry)
  BY <1>1, <1>2, SeenKept DEF EspInv, NodesWell
<1>11. PICK new : new = Numbered(entry)
  OBVIOUS
<1>12. EntryWell(b, new) /\ EntryKept(old, new)
  BY <1>10, <1>11, NumberedKept, KeptTransitive
<1>13. NodesWell' /\ \A c, q \in Boards : EntryKept(node[c][q], node'[c][q])
  <2>1. node' = [node EXCEPT ![b][p] = new]
    BY <1>2, <1>11 DEF ReceiveCommand
  <2>2. QED BY <1>1, <1>2, <1>8, <1>12, <2>1, PutKept
<1>14. PICK ack : ack = [type |-> "ACK", need |-> FALSE, seq |-> entry.nextTxSeq,
                         ackSeq |-> frame.seq, length |-> "empty"]
  OBVIOUS
<1>15. ack \in Frame /\ ack \in Sendable(b)'
  <2>1. ack \in Frame /\ ack.ackSeq = frame.seq
    BY <1>3, <1>10, <1>14 DEF EntryWell, Entries, Frame, Types, Lengths
  <2>2. QED BY <1>8, <2>1 DEF Sendable
<1>16. Start(b, "wifi", p, ack, frame)
  BY <1>2, <1>14 DEF ReceiveCommand
<1>17. /\ TasksType' /\ job'[b]["wifi"].to = p /\ job'[b]["wifi"].frame = ack
       /\ job'[b]["wifi"].handling = frame
       /\ \A c \in Boards, u \in Tasks : c # b \/ u # "wifi" => Same(c, u)
  <2>1. TasksType /\ "wifi" \in Tasks
    BY DEF EspInv, Tasks
  <2>2. QED BY <1>1, <1>3, <1>15, <1>16, <2>1, StartStep
<1>18. WifiWell(b)'
  BY <1>1, <1>8, <1>9, <1>15, <1>17 DEF WifiWell, Grows
<1>19. JobsWell'
  BY <1>8, <1>13, <1>17, <1>18, WifiJobs DEF EspInv
<1>20. EventsWell' /\ BuffersWell' /\ AckedWell' /\ acked' \in [Boards -> [Boards -> SUBSET Nat]]
  BY <1>1, <1>8, SameEvents, SameBuffers, SameAcked DEF EspInv
<1>21. QED BY <1>7, <1>9, <1>13, <1>17, <1>19, <1>20 DEF EspInv

\* What the WiFi task of b puts into the air.
LEMMA WifiSends ==
  ASSUME EspInv, UNCHANGED heard, NEW b \in Boards, NEW p, NEW packet \in Readings(b, "wifi"),
         Transmit(b, {p}, packet)
  PROVE  AirWell'
<1>1. packet \in Sendable(b) \union {Garbled}
  BY ReadingFacts DEF EspInv
<1>2. QED BY <1>1, TransmitAir DEF EspInv

LEMMA SendAckInv == ASSUME EspInv, NEW b \in Boards, SendAck(b) PROVE EspInv'
<1>1. UNCHANGED <<txBuffer, heard>> /\ pc[b]["wifi"] = "send"
  BY DEF SendAck
<1>2. PICK p, frame, old :
        p = job[b]["wifi"].to /\ frame = job[b]["wifi"].handling /\ old = node[b][p]
  OBVIOUS
<1>3. p \in Boards /\ frame \in Sendable(p) /\ EntryWell(b, old)
  BY <1>1, <1>2 DEF EspInv, JobsWell, WifiWell, NodesWell
<1>4. AirWell'
  <2>1. PICK packet \in Readings(b, "wifi") : Transmit(b, {p}, packet)
    BY <1>2 DEF SendAck
  <2>2. QED BY <1>1, <2>1, WifiSends
<1>5. Handle(b, p, old, frame)
  BY <1>2 DEF SendAck
<1>6. /\ NodesWell' /\ EventsWell' /\ TasksType' /\ JobsWell'
      /\ acked' \in [Boards -> [Boards -> SUBSET Nat]] /\ AckedWell'
  <2>1. EntryKept(old, old)
    BY DEF EntryKept
  <2>2. QED BY <1>1, <1>2, <1>3, <1>5, <2>1, HandleStep
<1>7. QED BY <1>1, <1>4, <1>6, Rest DEF EspInv

LEMMA SendNodeInfoInv == ASSUME EspInv, NEW b \in Boards, SendNodeInfo(b) PROVE EspInv'
<1>1. UNCHANGED <<node, events, txBuffer, heard, acked>> /\ Finish(b, "wifi")
  BY DEF SendNodeInfo
<1>2. PICK p : p = job[b]["wifi"].to
  OBVIOUS
<1>3. AirWell'
  <2>1. PICK packet \in Readings(b, "wifi") : Transmit(b, {p}, packet)
    BY <1>2 DEF SendNodeInfo
  <2>2. QED BY <1>1, <2>1, WifiSends
<1>4. TasksType' /\ JobsWell'
  <2>1. \A c, q \in Boards : EntryKept(node[c][q], node'[c][q])
    BY <1>1 DEF EntryKept
  <2>2. QED BY <1>1, <2>1, WifiDone
<1>5. QED BY <1>1, <1>3, <1>4, Rest DEF EspInv

-----------------------------------------------------------------------------
(* The theorems. *)

LEMMA EspInit == Init => EspInv
<1> SUFFICES ASSUME Init PROVE EspInv
  OBVIOUS
<1>1. \A b, p \in Boards : /\ node[b][p] = NewNode /\ air[b][p] = <<>> /\ acked[b][p] = {}
                           /\ heard[b][p] = EmptyBag
  BY DEF Init
<1>2. \A b \in Boards :
        /\ events[b] = <<>> /\ txBuffer[b] = [frame |-> NoFrame, sound |-> FALSE]
        /\ \A t \in Tasks : pc[b][t] = "idle" /\ job[b][t] = NoJob
  BY DEF Init
<1>3. NodesWell
  <2>1. NewNode \in Entries /\ NewNode.lastTxPacket = NoFrame
    BY LinkAssumption, FrameFacts DEF NewNode, Entries, NodeStates, Kept
  <2>2. \A b \in Boards : EntryWell(b, NewNode)
    BY <2>1, SendableFacts DEF EntryWell
  <2>3. QED BY <1>1, <2>1, <2>2 DEF Init, NodesWell
<1>4. EventsWell /\ AirWell
  BY <1>1, <1>2, LinkAssumption DEF Init, EventsWell, AirWell
<1>5. BuffersWell
  BY <1>2, FrameFacts, SendableFacts DEF Init, BuffersWell
<1>6. HeardWell /\ acked \in [Boards -> [Boards -> SUBSET Nat]] /\ AckedWell
  <2>1. IsABag(EmptyBag) /\ BagToSet(EmptyBag) = {}
    BY DEF EmptyBag, SetToBag, IsABag, BagToSet
  <2>2. QED BY <1>1, <2>1 DEF Init, HeardWell, AckedWell
<1>7. TasksType
  BY FrameFacts DEF Init, TasksType, Steps
<1>8. JobsWell
  BY <1>2, FrameFacts, SendableFacts DEF JobsWell, AppWell, WifiWell, Tasks
<1>9. QED BY <1>3, <1>4, <1>5, <1>6, <1>7, <1>8 DEF EspInv

LEMMA EspNext == EspInv /\ [Next]_vars => EspInv'
<1> SUFFICES ASSUME EspInv, [Next]_vars PROVE EspInv'
  OBVIOUS
<1>1. CASE UNCHANGED vars
  BY <1>1, StutterInv
<1>2. ASSUME NEW b \in Boards, AppStep(b) PROVE EspInv'
  BY <1>2, BeaconInv, NodeTimeoutInv, SendCommandInv, FailsInv DEF AppStep
<1>3. ASSUME NEW b \in Boards, AppWork(b) PROVE EspInv'
  BY <1>3, RetryDueInv, GiveUpInv, ResendInv, HandleEventInv, EncodeInv, SendInv, RecordInv
     DEF AppWork, Tasks
<1>4. ASSUME NEW b \in Boards, WifiWork(b) PROVE EspInv'
  BY <1>4, ReceivePlainInv, ReceiveCommandInv, EncodeInv, SendAckInv, SendNodeInfoInv
     DEF WifiWork, Tasks
<1>5. QED BY <1>1, <1>2, <1>3, <1>4, LoseInv DEF Next

LEMMA EspCorrect == Spec => []EspInv
<1>1. Init => EspInv
  BY EspInit
<1>2. EspInv /\ [Next]_vars => EspInv'
  BY EspNext
<1>3. QED BY <1>1, <1>2, PTL DEF Spec

\* Rings, buffers, jobs and entries keep their types, no ring or queue grows
\* beyond its capacity and no packet is retried more than MaxRetries times,
\* whatever the two tasks of a board encode at once.
THEOREM LinkTypeCorrect == Spec => []LinkTypeOK
<1>1. EspInv => LinkTypeOK
  BY DEF EspInv, LinkTypeOK, NodesWell, EventsWell, BuffersWell, AirWell, HeardWell, TasksType, Steps
<1>2. QED BY <1>1, EspCorrect, PTL

\* In a network of any size, a number a board takes for acknowledged is one the
\* other board was asked to acknowledge, by it or by somebody else: a mixture of
\* two packets, however well its checksum fits, has no other number to give.
THEOREM AcksAnswerSomebody == Spec => []AckedWell
<1>1. EspInv => AckedWell
  BY DEF EspInv
<1>2. QED BY <1>1, EspCorrect, PTL

\* Between two boards, a number counts as acknowledged only if a packet with it
\* that asked for an acknowledgement has reached the other one.
THEOREM AcksOfTwoAreHonest ==
  ASSUME \A p \in Boards : \A b, c \in Peers(p) : b = c
  PROVE  Spec => []AcksAreHonest
<1>1. EspInv => AcksAreHonest
  <2> SUFFICES ASSUME EspInv, NEW b \in Boards, NEW p \in Peers(b)
               PROVE  acked[b][p] \subseteq BagToSet(heard[p][b])
    BY DEF AcksAreHonest
  <2>1. p \in Boards /\ b \in Peers(p)
    BY DEF Peers
  <2>2. HeardBy(p) = BagToSet(heard[p][b])
    BY <2>1 DEF HeardBy
  <2>3. QED BY <2>1, <2>2 DEF EspInv, AckedWell
<1>2. QED BY <1>1, EspCorrect, PTL

=============================================================================
