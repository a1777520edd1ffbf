---------------------------- MODULE DaemonStart ----------------------------
(***************************************************************************)
(* How the background daemon of the host client comes to run: a hook that  *)
(* cannot reach one spawns one and tries again; a daemon takes over the    *)
(* socket path and serves.  Hooks and daemons are processes of their own,  *)
(* every system call on the path is a step of its own, and any daemon can  *)
(* be killed.                                                              *)
(*                                                                         *)
(* A socket is named after the daemon that has bound it; its file stays    *)
(* when the daemon ends, and its daemon goes on listening when the file is *)
(* removed.                                                                *)
(***************************************************************************)
EXTENDS Naturals, FiniteSets

CONSTANTS
  Hooks,      \* calls of codex-hook
  Daemons,    \* the processes that may be spawned
  MaxTries,   \* how often a hook tries again after spawning (50)
  NoSocket    \* the path does not exist; not one of Daemons

VARIABLES
  hookPc,     \* per hook: send, spawn, retry, sent, failed
  tries,      \* per hook: attempts left after spawning
  daemonPc,   \* per daemon, see DaemonPcs
  path        \* the socket the path names

hookVars  == <<hookPc, tries>>
startVars == <<hookVars, daemonPc, path>>

\* bound: the path is there, and refuses connections until listen; listening:
\* connections are queued, the mode of the socket is not set yet.
DaemonPcs ==
  {"new", "look", "probe", "remove", "bind", "bound", "listening", "serving", "ended"}

StartInit ==
  /\ hookPc = [h \in Hooks |-> "send"]
  /\ tries = [h \in Hooks |-> MaxTries]
  /\ daemonPc = [d \in Daemons |-> "new"]
  /\ path = NoSocket

Reachable == path # NoSocket /\ daemonPc[path] \in {"listening", "serving"}

-----------------------------------------------------------------------------
(* forward *)

HookSend(h) ==
  /\ hookPc[h] = "send"
  /\ hookPc' = [hookPc EXCEPT ![h] = IF Reachable THEN "sent" ELSE "spawn"]
  /\ UNCHANGED <<tries, daemonPc, path>>

SpawnDaemon(h) ==
  /\ hookPc[h] = "spawn"
  /\ \E d \in Daemons :
       /\ daemonPc[d] = "new"
       /\ daemonPc' = [daemonPc EXCEPT ![d] = "look"]
  /\ hookPc' = [hookPc EXCEPT ![h] = "retry"]
  /\ UNCHANGED <<tries, path>>

HookRetry(h) ==
  /\ hookPc[h] = "retry"
  /\ IF tries[h] = 0
     THEN hookPc' = [hookPc EXCEPT ![h] = "failed"] /\ UNCHANGED tries
     ELSE /\ hookPc' = [hookPc EXCEPT ![h] = IF Reachable THEN "sent" ELSE "retry"]
          /\ tries' = [tries EXCEPT ![h] = @ - 1]
  /\ UNCHANGED <<daemonPc, path>>

-----------------------------------------------------------------------------
(* prepare_socket and the start of run *)

Goes(d, from, to) ==
  /\ daemonPc[d] = from
  /\ daemonPc' = [daemonPc EXCEPT ![d] = to]
  /\ UNCHANGED hookVars

\* socket.exists()
Look(d) ==
  /\ Goes(d, "look", IF path = NoSocket THEN "bind" ELSE "probe")
  /\ UNCHANGED path

\* UnixStream::connect: somebody answers, or the socket is called stale.
Probe(d) ==
  /\ Goes(d, "probe", IF Reachable THEN "ended" ELSE "remove")
  /\ UNCHANGED path

\* remove_file fails when the file is gone.
RemoveFile(d) ==
  /\ Goes(d, "remove", IF path = NoSocket THEN "ended" ELSE "bind")
  /\ path' = NoSocket

\* bind(2) fails when the file is there; listen(2) follows.
Bind(d) ==
  IF path = NoSocket
  THEN Goes(d, "bind", "bound") /\ path' = d
  ELSE Goes(d, "bind", "ended") /\ UNCHANGED path

Listen(d) ==
  /\ Goes(d, "bound", "listening")
  /\ UNCHANGED path

\* set_permissions fails when the file is gone, and takes another daemon's for
\* this one's.
Secure(d) ==
  /\ Goes(d, "listening", IF path = NoSocket THEN "ended" ELSE "serving")
  /\ UNCHANGED path

\* The process is killed, or ends with an error; it removes nothing.
Die(d) ==
  /\ daemonPc[d] \notin {"new", "ended"}
  /\ daemonPc' = [daemonPc EXCEPT ![d] = "ended"]
  /\ UNCHANGED <<hookVars, path>>

StartNext ==
  \/ \E h \in Hooks : HookSend(h) \/ SpawnDaemon(h) \/ HookRetry(h)
  \/ \E d \in Daemons : Look(d) \/ Probe(d) \/ RemoveFile(d) \/ Bind(d) \/ Listen(d) \/ Secure(d)
                     \/ Die(d)

StartSpec == StartInit /\ [][StartNext]_startVars

-----------------------------------------------------------------------------
(* Properties. *)

\* The client's README has one background process to which all later hooks
\* send, and a second serve ends with "already running".
OneDaemon ==
  \A d, e \in Daemons : (daemonPc[d] = "serving" /\ daemonPc[e] = "serving") => d = e
=============================================================================
