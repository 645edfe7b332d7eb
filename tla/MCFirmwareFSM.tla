--------------------------- MODULE MCFirmwareFSM ---------------------------
(***************************************************************************)
(* FirmwareFSM on small sets of threads and process ids.                   *)
(***************************************************************************)
EXTENDS FirmwareFSM
=============================================================================
