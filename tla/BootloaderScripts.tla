------------------------- MODULE BootloaderScripts -------------------------
(***************************************************************************)
(* The four Python scripts that touch the hardware (Scripts/Impls), run    *)
(* one at a time by HwUtils::Execute, and what FirmwareFSM makes of their  *)
(* exit codes.  The constructor of FirmwareFSM runs reset and find; then   *)
(* reset, flash and start follow as the state machine admits them.         *)
(*                                                                         *)
(* The motherboard ("mb") answers the flash script's commands through a    *)
(* queue in each direction, so its answers can be late: readline() then    *)
(* returns "" and the line is read by a later readline().  All that is     *)
(* known of the boards is how the scripts use them.                        *)
(***************************************************************************)
EXTENDS Naturals, Sequences

CONSTANTS
  PortLists,   \* what serial_ports() may return: paths, each with the device behind it
  FileSizes,   \* sizes of the firmware files, in bytes
  PageSize,    \* bytes in one WRITE command (1024), a multiple of 4
  Sector_Num   \* sectors of the chip (11)

ASSUME PortsAssumption ==
  PortLists \subseteq Seq([path : STRING, device : {"mb", "bc", "other"}])

ASSUME ScriptsAssumption ==
  /\ FileSizes \subseteq Nat /\ \E m \in FileSizes : \A s \in FileSizes : s <= m
  /\ PageSize \in Nat \ {0} /\ PageSize % 4 = 0
  /\ Sector_Num \in Nat

VARIABLES
  State,     \* FirmwareFSM::State
  MbPort,    \* FirmwareFSM::MbPort: a path, "" or, before find, "none"
  script,    \* the current or last script: its name, where it is, its loop's counter, the boards found
  COM_List,  \* the ports a search goes through
  board,     \* a board is in its bootloader ("boot") or has left it for its firmware ("left")
  bin_SIZE,  \* size of the file being flashed
  memory,    \* the motherboard's flash memory
  requests,  \* commands on their way to the motherboard
  replies,   \* its lines on their way back
  missed     \* the flash script gave up waiting for an answer it does not check

scriptVars == <<State, MbPort, script, COM_List, board, bin_SIZE, memory, requests, replies, missed>>
serialVars == <<bin_SIZE, memory, requests, replies, missed>>

Paths == UNION {{list[i].path : i \in DOMAIN list} : list \in PortLists}
Ended == {"ok", "quit", "failed"}

(***************************************************************************)
(* Memory holds byte "at" of the file of size "of"; 0xFF, as erased and as *)
(* padded; or what was there before.                                       *)
(***************************************************************************)
FF  == [of |-> 0, at |-> 0]
Old == [of |-> 0, at |-> 1]
Addresses == 0 .. PageSize + CHOOSE m \in FileSizes : \A s \in FileSizes : s <= m

ScriptsTypeOK ==
  /\ State \in {"Boot", "Running", "Transition", "Fault"}
  /\ MbPort \in Paths \cup {"none", ""}
  /\ script.name \in {"reset", "find", "flash", "start"}
  /\ script.at \in Ended \cup {"begin", "search", "mb", "bc", "hello", "erase", "size", "write", "last"}
  /\ script.index \in Nat /\ script.found \subseteq {"mb", "bc"}
  /\ COM_List \in PortLists
  /\ board \in [{"mb", "bc"} -> {"boot", "left"}]
  /\ bin_SIZE \in FileSizes
  /\ \A a \in Addresses : \/ memory[a] \in {FF, Old}
                          \/ memory[a].of \in FileSizes /\ memory[a].at < memory[a].of
  /\ requests \in Seq([cmd : {"restart", "erase", "size", "write"}, page : Nat])
  /\ replies \in Seq({"hello", "sector", "erased", "OK", "error", "size", "update"})
  /\ missed \in BOOLEAN

ScriptsInit ==
  /\ State = "Transition"
  /\ MbPort = "none"
  /\ script = [name |-> "reset", at |-> "begin", index |-> 0, found |-> {}]
  /\ COM_List \in PortLists
  /\ board \in [{"mb", "bc"} -> {"boot", "left"}]
  /\ bin_SIZE \in FileSizes
  /\ memory = [a \in Addresses |-> Old]
  /\ requests = <<>> /\ replies = <<>>
  /\ missed = FALSE

-----------------------------------------------------------------------------
(***************************************************************************)
(* FirmwareFSM around the scripts                                          *)
(***************************************************************************)
At(names, place) == script.name \in names /\ script.at = place
Goto(place, index) == script' = [script EXCEPT !.at = place, !.index = index]

\* The state machine admits a script, or its constructor goes on to find.
Begin(name) ==
  /\ script.at \in Ended
  /\ CASE name = "find"  -> MbPort = "none" /\ script.name = "reset" /\ State = "Boot"
       [] name = "reset" -> MbPort # "none"
       [] OTHER          -> MbPort # "none" /\ State = "Boot"
  /\ State' = IF name = "find" THEN "Boot" ELSE "Transition"
  /\ script' = [name |-> name, at |-> "begin", index |-> 0, found |-> {}]
  /\ UNCHANGED <<MbPort, COM_List, board, serialVars>>

\* The script exits with 0 ("ok", or "quit" by quit()) or not, and DoTransition ends.
Ends(how) ==
  /\ script' = [script EXCEPT !.at = how]
  /\ State' = CASE script.name = "find"                      -> State
                [] script.name # "find" /\ how = "failed"   -> "Fault"
                [] script.name = "start" /\ how # "failed"  -> "Running"
                [] OTHER                                    -> "Boot"

-----------------------------------------------------------------------------
(***************************************************************************)
(* Reset, and the first lines of every script                              *)
(***************************************************************************)
Pulse(boards) == board' = [b \in DOMAIN board |-> IF b \in boards THEN "boot" ELSE board[b]]

\* The pins can be set, or the script raises; flash also checks its argument.
Setup ==
  /\ script.at = "begin"
  /\ \/ Ends("failed") /\ UNCHANGED <<COM_List, board, bin_SIZE, requests, replies, missed>>
     \/ /\ Pulse(IF script.name = "start" THEN {"mb", "bc"} ELSE {"mb"})
        /\ requests' = <<>> /\ replies' = <<>>
        /\ missed' = FALSE
        /\ \/ script.name = "reset" /\ Ends("ok") /\ UNCHANGED <<COM_List, bin_SIZE>>
           \/ script.name = "flash" /\ Ends("failed") /\ UNCHANGED <<COM_List, bin_SIZE>>
           \/ /\ script.name # "reset" /\ Goto("search", 1)
              /\ UNCHANGED State
              /\ COM_List' \in PortLists
              /\ IF script.name = "flash" THEN bin_SIZE' \in FileSizes ELSE UNCHANGED bin_SIZE
  /\ UNCHANGED <<MbPort, memory>>

-----------------------------------------------------------------------------
(***************************************************************************)
(* Searching the ports                                                     *)
(***************************************************************************)
Device == COM_List[script.index].device

\* A port that cannot be opened again, in find and flash: nothing catches it.
OpenRaises ==
  /\ At({"find", "flash"}, "search") /\ script.index <= Len(COM_List)
  /\ Ends("failed")
  /\ UNCHANGED <<MbPort, COM_List, board, serialVars>>

\* write() or readline() raises: on to the next port.
PortRaises ==
  /\ script.at = "search" /\ script.index <= Len(COM_List)
  /\ Goto("search", script.index + 1)
  /\ UNCHANGED <<State, MbPort, COM_List, board, serialVars>>

\* Nothing, or the name of another board; find and flash give up at the last port.
WrongReply ==
  /\ script.at = "search" /\ script.index <= Len(COM_List)
  /\ IF script.name # "start" /\ script.index = Len(COM_List)
     THEN Ends("failed")
     ELSE Goto("search", script.index + 1) /\ UNCHANGED State
  /\ UNCHANGED <<MbPort, COM_List, board, serialVars>>

\* The motherboard says its name to find, which prints the port.
FindAnswered ==
  /\ At({"find"}, "search") /\ script.index <= Len(COM_List)
  /\ Device = "mb" /\ board["mb"] = "boot"
  /\ MbPort' = COM_List[script.index].path
  /\ Ends("ok")
  /\ UNCHANGED <<COM_List, board, serialVars>>

Send(cmd, page) == requests' = Append(requests, [cmd |-> cmd, page |-> page])

\* ... and to flash, which opens the port once more and restarts the chip.
FlashAnswered ==
  /\ At({"flash"}, "search") /\ script.index <= Len(COM_List)
  /\ Device = "mb" /\ board["mb"] = "boot"
  /\ \/ Ends("failed") /\ UNCHANGED requests
     \/ Goto("hello", 0) /\ Send("restart", 0) /\ UNCHANGED State
  /\ UNCHANGED <<MbPort, COM_List, board, bin_SIZE, memory, replies, missed>>

\* A board says its name to start, which opens its port once more.
StartAnswered(b) ==
  /\ At({"start"}, "search") /\ script.index <= Len(COM_List)
  /\ Device = b /\ board[b] = "boot"
  /\ \/ Ends("failed")
     \/ script' = [script EXCEPT !.index = @ + 1, !.found = @ \cup {b}] /\ UNCHANGED State
  /\ UNCHANGED <<MbPort, COM_List, board, serialVars>>

\* No port, or the last one raised: find exits with 0 and has printed nothing.
FindExhausted ==
  /\ At({"find"}, "search") /\ script.index > Len(COM_List)
  /\ MbPort' = ""
  /\ Ends("ok")
  /\ UNCHANGED <<COM_List, board, serialVars>>

\* The same in flash: COM_Motherboard is not defined.
FlashExhausted ==
  /\ At({"flash"}, "search") /\ script.index > Len(COM_List)
  /\ Ends("failed")
  /\ UNCHANGED <<MbPort, COM_List, board, serialVars>>

\* Mutant of StartExhausted: every pass looks for both boards anew.
StartExhaustedForgets ==
  /\ At({"start"}, "search") /\ script.index > Len(COM_List)
  /\ IF script.found = {"mb", "bc"}
     THEN Goto("mb", 0)
     ELSE script' = [script EXCEPT !.index = 1, !.found = {}]
  /\ UNCHANGED <<State, MbPort, COM_List, board, serialVars>>

\* while (COM_Motherboard is None or COM_BlueCoin is None)
StartExhausted ==
  /\ At({"start"}, "search") /\ script.index > Len(COM_List)
  /\ IF script.found = {"mb", "bc"} THEN Goto("mb", 0) ELSE Goto("search", 1)
  /\ UNCHANGED <<State, MbPort, COM_List, board, serialVars>>

-----------------------------------------------------------------------------
(***************************************************************************)
(* Starting the boards                                                     *)
(***************************************************************************)
Leaves(b) == board' = [board EXCEPT ![b] = "left"]

(***************************************************************************)
(* A board obeys START_FW or not: its answers are read and only printed, a *)
(* missing or negative one too.  An exception on the motherboard's port is *)
(* not caught.                                                             *)
(***************************************************************************)
StartMotherboard ==
  /\ At({"start"}, "mb")
  /\ Leaves("mb") \/ UNCHANGED board
  /\ \/ Goto("bc", 0) /\ UNCHANGED State
     \/ Ends("failed")
  /\ UNCHANGED <<MbPort, COM_List, serialVars>>

(***************************************************************************)
(* An exception of the BlueCoin's port ends in quit(), that is with exit   *)
(* code 0; one of the log file's is not caught.                            *)
(***************************************************************************)
StartBlueCoin ==
  /\ At({"start"}, "bc")
  /\ Leaves("bc") \/ UNCHANGED board
  /\ Ends("ok") \/ Ends("quit") \/ Ends("failed")
  /\ UNCHANGED <<MbPort, COM_List, serialVars>>

-----------------------------------------------------------------------------
(***************************************************************************)
(* Flashing                                                                *)
(***************************************************************************)
num_parts == bin_SIZE \div PageSize + (IF bin_SIZE % PageSize > 0 THEN 1 ELSE 0)

\* curr_offset when page i begins: each page steps back by one at its end.
curr_offset[i \in Nat] == IF i = 0 THEN 0 ELSE curr_offset[i - 1] + PageSize - 1

\* Mutant of Word: curr_offset does not step back.
WordDrifts(i, q) ==
  [k \in 0 .. 3 |->
     LET index == i + PageSize * i + 4 * q + (4 - (k + 1))
     IN  IF index >= bin_SIZE THEN FF ELSE [of |-> bin_SIZE, at |-> index]]

\* Mutant of Word: no padding behind the end of the file.
WordUnpadded(i, q) ==
  [k \in 0 .. 3 |-> [of |-> bin_SIZE, at |-> i + curr_offset[i] + 4 * q + (4 - (k + 1))]]

\* Word q of page i, its most significant byte first.
Word(i, q) ==
  [k \in 0 .. 3 |->
     LET index == i + curr_offset[i] + 4 * q + (4 - (k + 1))
     IN  IF index >= bin_SIZE THEN FF ELSE [of |-> bin_SIZE, at |-> index]]

\* The line a readline() returns, and whether it is still to be read.
Reads(line) ==
  \/ replies # <<>> /\ line = Head(replies) /\ replies' = Tail(replies)
  \/ replies = <<>> /\ line = "" /\ UNCHANGED replies

Lines == {"", "hello", "sector", "erased", "OK", "error", "size", "update"}

\* The answers to RESTART, ERASE and SET_SIZE are read and not checked.
FlashPrepares(line) ==
  /\ \/ At({"flash"}, "hello") /\ Goto("erase", 0) /\ Send("erase", 0)
     \/ /\ At({"flash"}, "erase")
        /\ IF line = "erased" \/ script.index = Sector_Num
           THEN Goto("size", 0) /\ Send("size", 0)
           ELSE Goto("erase", script.index + 1) /\ UNCHANGED requests
     \/ /\ At({"flash"}, "size")
        /\ IF num_parts = 0
           THEN Goto("last", 0) /\ UNCHANGED requests
           ELSE Goto("write", 0) /\ Send("write", 0)
  /\ Reads(line)
  /\ missed' = (missed \/ line = "")
  /\ UNCHANGED <<State, MbPort, COM_List, board, bin_SIZE, memory>>

\* Every page has to be acknowledged before the next one is sent.
FlashWrites(line) ==
  /\ At({"flash"}, "write")
  /\ Reads(line)
  /\ IF line # "OK"
     THEN Ends("failed") /\ Send("restart", 0)
     ELSE /\ UNCHANGED State
          /\ IF script.index + 1 = num_parts
             THEN Goto("last", 0) /\ UNCHANGED requests
             ELSE Goto("write", script.index + 1) /\ Send("write", script.index + 1)
  /\ UNCHANGED <<MbPort, COM_List, board, bin_SIZE, memory, missed>>

\* Mutant of FlashEnds: the chip is not reset behind the update.
FlashEndsNoReset(line) ==
  /\ At({"flash"}, "last")
  /\ Reads(line)
  /\ Ends("ok")
  /\ UNCHANGED <<MbPort, COM_List, board, bin_SIZE, memory, requests, missed>>

FlashEnds(line) ==
  /\ At({"flash"}, "last")
  /\ Reads(line)
  /\ Pulse({"mb"})
  /\ requests' = <<>>
  /\ Ends("ok")
  /\ UNCHANGED <<MbPort, COM_List, bin_SIZE, memory, missed>>

\* The port fails or a line does not decode.
FlashRaises ==
  /\ script.name = "flash" /\ script.at \in {"hello", "erase", "size", "write", "last"}
  /\ Ends("failed")
  /\ UNCHANGED <<MbPort, COM_List, board, serialVars>>

(***************************************************************************)
(* The motherboard's bootloader, as the flash script expects it: a page it *)
(* acknowledges is stored, each word with its least significant byte       *)
(* first, and the last page makes it start the new firmware.               *)
(***************************************************************************)
Answers(lines) == replies' = replies \o lines

BoardAnswers ==
  LET req     == Head(requests)
      Sectors == [i \in 1 .. Sector_Num |-> "sector"]
      Stored  == [a \in Addresses |->
                    IF a \div PageSize = req.page
                    THEN Word(req.page, (a % PageSize) \div 4)[3 - (a % 4)]
                    ELSE memory[a]]
  IN  /\ requests # <<>> /\ board["mb"] = "boot"
      /\ requests' = Tail(requests)
      /\ \/ req.cmd = "restart" /\ Answers(<<"hello">>) /\ UNCHANGED <<memory, board>>
         \/ /\ req.cmd = "erase" /\ Answers(Append(Sectors, "erased"))
            /\ memory' = [a \in Addresses |-> FF]
            /\ UNCHANGED board
         \/ /\ req.cmd = "size" /\ (Answers(<<"OK">>) \/ Answers(<<"size">>))
            /\ UNCHANGED <<memory, board>>
         \/ /\ req.cmd = "write" /\ Answers(<<"error">>) /\ UNCHANGED <<memory, board>>
         \/ /\ req.cmd = "write" /\ memory' = Stored
            /\ IF req.page + 1 = num_parts
               THEN Answers(<<"OK", "update">>) /\ Leaves("mb")
               ELSE Answers(<<"OK">>) /\ UNCHANGED board
      /\ UNCHANGED <<State, MbPort, script, COM_List, bin_SIZE, missed>>

-----------------------------------------------------------------------------
FlashStep == FlashRaises \/ \E line \in Lines : FlashPrepares(line) \/ FlashWrites(line) \/ FlashEnds(line)

ScriptStep ==
  \/ Setup \/ OpenRaises \/ PortRaises \/ WrongReply
  \/ FindAnswered \/ FlashAnswered \/ (\E b \in {"mb", "bc"} : StartAnswered(b))
  \/ FindExhausted \/ FlashExhausted \/ StartExhausted
  \/ StartMotherboard \/ StartBlueCoin \/ FlashStep

ScriptsNext ==
  \/ \E name \in {"find", "reset", "flash", "start"} : Begin(name)
  \/ ScriptStep \/ BoardAnswers

ScriptsSpec == ScriptsInit /\ [][ScriptsNext]_scriptVars

(***************************************************************************)
(* Processes run, and a board in its bootloader that is asked for its name *)
(* again and again says it some time.                                      *)
(***************************************************************************)
ScriptsFairSpec ==
  /\ ScriptsSpec
  /\ WF_scriptVars(ScriptStep)
  /\ \A b \in {"mb", "bc"} : SF_scriptVars(StartAnswered(b))

-----------------------------------------------------------------------------
(***************************************************************************)
(* FlashedIsFile: when flash succeeds and no unchecked answer was late,    *)
(* the chip holds the file, byte by byte, padded with 0xFF to a page.      *)
(***************************************************************************)
FlashedIsFile ==
  At({"flash"}, "ok") /\ ~missed =>
    \A a \in 0 .. num_parts * PageSize - 1 :
      memory[a] = IF a < bin_SIZE THEN [of |-> bin_SIZE, at |-> a] ELSE FF

(***************************************************************************)
(* StatusTrue: in state Boot the motherboard is in its bootloader, also    *)
(* after an update that started the new firmware and with whatever answers *)
(* came late; in state Running the last script was a start that both       *)
(* boards had said their name to.  That they obeyed START_FW is more than  *)
(* the code knows, which does not look at their answers.                   *)
(***************************************************************************)
StatusTrue ==
  /\ State = "Boot" => board["mb"] = "boot"
  /\ State = "Running" => script.name = "start" /\ script.found = {"mb", "bc"}

(***************************************************************************)
(* ScriptEnds: a script that was begun ends, so that Transition does; only *)
(* start searches for ever, and only if a board is not among the ports.    *)
(***************************************************************************)
Present(b) == \E i \in DOMAIN COM_List : COM_List[i].device = b

ScriptEnds ==
  script.at \notin Ended ~>
    \/ script.at \in Ended
    \/ At({"start"}, "search") /\ ~(Present("mb") /\ Present("bc"))
=============================================================================
