--------------------------- MODULE MCHandlerImpl ---------------------------
(***************************************************************************)
(* HandlerImpl with two connections, one for each of two clients.          *)
(***************************************************************************)
EXTENDS HandlerImpl, TLC

CONSTANTS t1, t2, c1, c2

MCPeer == t1 :> c1 @@ t2 :> c2
=============================================================================
