--------------------------- MODULE MCDaemonLaunch ---------------------------
(***************************************************************************)
(* DaemonLaunch with a few processes.                                      *)
(***************************************************************************)
EXTENDS DaemonLaunch
=============================================================================
