------------------------------ MODULE MCOutputs ------------------------------
(***************************************************************************)
(* The two outputs of the agent panel for TLC, each driven by any events   *)
(* its interface allows.  They share nothing, so a behaviour is followed   *)
(* on one of them while the other stands still.                            *)
(***************************************************************************)
EXTENDS DisplayService, Ws2812Service

VARIABLE followed   \* "display" or "leds"

outputsVars == <<followed, vars, ledVars>>

OnDisplay == followed = "display"
OnLeds    == followed = "leds"

MCInit == followed \in {"display", "leds"} /\ Init /\ InitLeds

MCNext ==
  \/ OnDisplay /\ Next /\ UNCHANGED <<followed, ledVars>>
  \/ OnLeds /\ LedNext /\ UNCHANGED <<followed, vars>>

\* The tasks run; an LCD that is tried again and again draws some day.
DisplayFairness ==
  /\ \A c \in Callers : WF_vars(OnDisplay /\ Tell(c))
  /\ WF_vars(OnDisplay /\ Task)
  /\ SF_vars(OnDisplay /\ DrawRow)

\* The task runs, and a wait that ends again and again has some day lasted a
\* blink period.
LedFairness ==
  /\ WF_ledVars(OnLeds /\ LedTask)
  /\ SF_ledVars(OnLeds /\ Flip)

MCSpec == MCInit /\ [][MCNext]_outputsVars /\ DisplayFairness /\ LedFairness

\* The type invariants of the two outputs.
OutputsTypeOK == TypeOK /\ LedTypeOK
=============================================================================
