---------------------------- MODULE MCRPCChannel ----------------------------
(***************************************************************************)
(* RPCChannel with a bounded number of calls.                              *)
(***************************************************************************)
EXTENDS RPCChannel
=============================================================================
