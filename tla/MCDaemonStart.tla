---------------------------- MODULE MCDaemonStart ----------------------------
(* Instances of DaemonStart for TLC. *)
EXTENDS DaemonStart
=============================================================================
