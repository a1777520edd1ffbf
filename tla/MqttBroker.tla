----------------------------- MODULE MqttBroker -----------------------------
(***************************************************************************)
(* What MqttServer promises to the connections it serves: a published      *)
(* message goes, once, to every connection that holds a matching filter,   *)
(* and to no other; a connection starts with no filters and takes none     *)
(* along when it ends.                                                     *)
(***************************************************************************)
EXTENDS Naturals, FiniteSets

CONSTANTS Conns, Filters, Topics, Matching, MaxClients, MaxSubs

VARIABLES
  session,   \* none, tcp, mqtt, over
  filters,   \* the filters a connection holds
  reachable, \* connections whose peer can be reached
  published, \* how often a message of each topic was published
  outbox     \* how often each topic was sent to each connection

traffic == <<published, outbox>>
vars == <<session, filters, reachable, traffic>>

Served == {c \in Conns : session[c] \in {"tcp", "mqtt"}}
Held   == {pair \in Conns \X Filters : pair[2] \in filters[pair[1]]}

Init ==
  /\ session = [c \in Conns |-> "none"]
  /\ filters = [c \in Conns |-> {}]
  /\ reachable = {}
  /\ published = [t \in Topics |-> 0]
  /\ outbox = [c \in Conns |-> [t \in Topics |-> 0]]

Open(c) ==
  /\ session[c] = "none"
  /\ IF Cardinality(Served) < MaxClients
     THEN session' = [session EXCEPT ![c] = "tcp"] /\ reachable' = reachable \union {c}
     ELSE session' = [session EXCEPT ![c] = "over"] /\ UNCHANGED reachable
  /\ UNCHANGED <<filters, traffic>>

Greet(c) ==
  /\ session[c] \in {"tcp", "mqtt"}
  /\ session' = [session EXCEPT ![c] = "mqtt"]
  /\ UNCHANGED <<filters, reachable, traffic>>

\* Only a full table refuses a filter.
Subscribe(c, f) ==
  /\ session[c] = "mqtt"
  /\ Cardinality(Held) < MaxSubs
  /\ filters' = [filters EXCEPT ![c] = @ \union {f}]
  /\ UNCHANGED <<session, reachable, traffic>>

Receivers(t) == {c \in reachable : session[c] = "mqtt" /\ \E f \in filters[c] : <<f, t>> \in Matching}

Publish(t) ==
  /\ published' = [published EXCEPT ![t] = @ + 1]
  /\ outbox' = [c \in Conns |->
                 IF c \in Receivers(t) THEN [outbox[c] EXCEPT ![t] = @ + 1] ELSE outbox[c]]
  /\ UNCHANGED <<session, filters, reachable>>

Break(c) ==
  /\ reachable' = reachable \ {c}
  /\ UNCHANGED <<session, filters, traffic>>

Close(cs) ==
  /\ cs \subseteq Served
  /\ session' = [c \in Conns |-> IF c \in cs THEN "over" ELSE session[c]]
  /\ filters' = [c \in Conns |-> IF c \in cs THEN {} ELSE filters[c]]
  /\ reachable' = reachable \ cs
  /\ UNCHANGED traffic

Next ==
  \/ \E c \in Conns : Open(c) \/ Greet(c) \/ Break(c)
  \/ \E c \in Conns, f \in Filters : Subscribe(c, f)
  \/ \E t \in Topics : Publish(t)
  \/ \E cs \in SUBSET Conns : Close(cs)

Spec == Init /\ [][Next]_vars
=============================================================================
