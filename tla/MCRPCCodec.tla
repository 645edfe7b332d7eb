----------------------------- MODULE MCRPCCodec -----------------------------
(***************************************************************************)
(* RPCCodec with texts around the limits of both kinds of char.            *)
(***************************************************************************)
EXTENDS RPCCodec
=============================================================================
