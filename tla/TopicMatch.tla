----------------------------- MODULE TopicMatch -----------------------------
(***************************************************************************)
(* topicMatches of MqttServer: a filter and a topic walked through side by *)
(* side.  Texts are sequences of symbols.                                  *)
(***************************************************************************)
EXTENDS Naturals, Sequences

CONSTANTS
  Letters,      \* what levels are made of, besides the separator
  MaxFilter,    \* bound: length of a filter that is checked
  MaxTopic      \* bound: length of a topic that is checked

ASSUME TopicAssumption ==
  Letters \intersect {"/", "+", "#"} = {} /\ MaxFilter \in Nat /\ MaxTopic \in Nat

\* The symbol at a place; behind the end there is the terminator.
At(text, i) == IF i <= Len(text) THEN text[i] ELSE "end"

\* Where the level of the topic ends that t is in.
LevelEnd(topic, t) ==
  CHOOSE e \in t..(Len(topic) + 1) :
    At(topic, e) \in {"/", "end"} /\ \A i \in t..(e - 1) : At(topic, i) \notin {"/", "end"}

\* What the loop returns from where the two cursors are.
Matches(filter, topic) ==
  LET walk[f \in 1..(Len(filter) + 1), t \in 1..(Len(topic) + 1)] ==
        LET end == LevelEnd(topic, t) IN
        CASE At(filter, f) = "end" -> At(topic, t) = "end"
          [] At(filter, f) = "#"   -> f = Len(filter)
          [] At(filter, f) = "+"   ->
               IF At(filter, f + 1) = "/" /\ At(topic, end) = "/"
               THEN walk[f + 2, end + 1] ELSE walk[f + 1, end]
          [] OTHER -> At(filter, f) = At(topic, t) /\ walk[f + 1, t + 1]
  IN  walk[1, 1]

-----------------------------------------------------------------------------
(* The reference. *)

Texts(symbols, n) == UNION {[1..k -> symbols] : k \in 1..n}

\* A wildcard is a level of its own, and `#` the last.
WellFormed(filter) ==
  \A i \in 1..Len(filter) :
    filter[i] \in {"+", "#"} =>
      /\ i > 1 => filter[i - 1] = "/"
      /\ IF filter[i] = "#" THEN i = Len(filter)
         ELSE i < Len(filter) => filter[i + 1] = "/"

\* The topic can be cut so that each symbol of the filter stands for its piece.
\* (MQTT also lets `a/#` match `a`; this function never did.)
Stands(symbol, piece) ==
  CASE symbol = "+" -> \A i \in 1..Len(piece) : piece[i] # "/"
    [] symbol = "#" -> TRUE
    [] OTHER        -> piece = <<symbol>>

Denotes(filter, topic) ==
  \E cut \in [0..Len(filter) -> 0..Len(topic)] :
    /\ cut[0] = 0 /\ cut[Len(filter)] = Len(topic)
    /\ \A i \in 1..Len(filter) :
         cut[i - 1] <= cut[i] /\ Stands(filter[i], SubSeq(topic, cut[i - 1] + 1, cut[i]))

\* The greedy walk finds a match exactly when there is one, in the two texts as
\* a whole: no level is skipped, merged or left over.
MatchIsRight ==
  \A filter \in Texts(Letters \union {"/", "+", "#"}, MaxFilter),
     topic \in Texts(Letters \union {"/"}, MaxTopic) :
    WellFormed(filter) => (Matches(filter, topic) <=> Denotes(filter, topic))
=============================================================================
