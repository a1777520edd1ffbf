--------------------------- MODULE MCAgentDaemon ---------------------------
(* Instances of AgentDaemon for TLC. *)
EXTENDS AgentDaemon

CONSTANTS TIdle, TWorking, Working

MCDisplayText == [state \in States |-> IF state = Idle THEN TIdle ELSE TWorking]

\* Keys are the sessions they belong to.
MCKeyOf == [s \in Sessions |-> s]
=============================================================================
