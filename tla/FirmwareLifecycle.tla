------------------------- MODULE FirmwareLifecycle -------------------------
(***************************************************************************)
(* What the daemon promises about the firmware of the motherboard, as a    *)
(* client of GetStatus sees it: one status word that is either a resting   *)
(* state (Boot, Running, Fault) or the name of the single routine that is  *)
(* changing the hardware at that moment.  The README calls this the        *)
(* "State machine": an operation requested from an illegal state is        *)
(* rejected, so it is not an edge of this graph at all.                    *)
(***************************************************************************)

VARIABLE status

Routines == {"Chip reset", "Firmware flashing", "Firmware starting"}
Resting  == {"Boot", "Running", "Fault"}

Init == status = "Boot"

\* A reset is the way out of every resting state.
BeginReset == status \in Resting /\ status' = "Chip reset"

\* Flashing and starting need the chip in its bootloader.
BeginFlash == status = "Boot" /\ status' = "Firmware flashing"
BeginStart == status = "Boot" /\ status' = "Firmware starting"

\* A routine that succeeds leads to its own resting state ...
Succeed == \/ status \in {"Chip reset", "Firmware flashing"} /\ status' = "Boot"
           \/ status = "Firmware starting" /\ status' = "Running"

\* ... and one that fails, for whatever reason, to Fault.
Fail == status \in Routines /\ status' = "Fault"

Next == BeginReset \/ BeginFlash \/ BeginStart \/ Succeed \/ Fail

Spec == Init /\ [][Next]_status
=============================================================================
