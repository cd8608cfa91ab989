------------------------------- MODULE MCDaemon -------------------------------
(***************************************************************************)
(* Small instances of Daemon.  Only constants are defined here.            *)
(***************************************************************************)
EXTENDS Daemon

CONSTANTS c1, c2, c3

MCConns == {c1, c2, c3}
=============================================================================
