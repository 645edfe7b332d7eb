------------------------------ MODULE MCServer ------------------------------
(***************************************************************************)
(* Server with a bounded number of connections.                            *)
(***************************************************************************)
EXTENDS Server
=============================================================================
