---------------------------- MODULE MCMqttServer ----------------------------
(* Instances of MqttServer for TLC: the first filter matches both topics,  *)
(* the second the first of them only.  The client of c3 asks for no         *)
(* keep-alive, the others do.                                              *)
EXTENDS MqttServer

MCFilters == {<<"+", "/", "b">>, <<"a", "/", "#">>}
MCTopics  == {<<"a", "/", "b">>, <<"b", "/", "b">>}

CONSTANT c3

MCWishes  == [c \in Conns |-> {c # c3}]

\* Evaluated for every filter and topic up to the bounds.
ASSUME MatchAssumption == MatchIsRight
=============================================================================
