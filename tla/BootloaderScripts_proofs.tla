---------------------- MODULE BootloaderScripts_proofs ----------------------
(***************************************************************************)
(* Proofs about BootloaderScripts, for any ports, any size of the pages    *)
(* that is a multiple of 4, any number of sectors and files of any size.   *)
(***************************************************************************)
EXTENDS BootloaderScripts, SequenceTheorems, WellFoundedInduction, TLAPS

-----------------------------------------------------------------------------
(***************************************************************************)
(* Pages and words                                                         *)
(***************************************************************************)

\* What memory holds at address a when the file has been flashed.
FileByte(a) == IF a >= bin_SIZE THEN FF ELSE [of |-> bin_SIZE, at |-> a]

(***************************************************************************)
(* The equation that defines curr_offset has a solution, so curr_offset    *)
(* solves it.                                                              *)
(***************************************************************************)
LEMMA OffsetUnfolds ==
  curr_offset = [i \in Nat |-> IF i = 0 THEN 0 ELSE curr_offset[i - 1] + PageSize - 1]
<1> DEFINE g == [i \in Nat |-> i * (PageSize - 1)]
           F(f) == [i \in Nat |-> IF i = 0 THEN 0 ELSE f[i - 1] + PageSize - 1]
<1>1. g = F(g)
  <2>1. ASSUME NEW i \in Nat PROVE g[i] = F(g)[i]
    <3>1. CASE i = 0
      BY <3>1, ScriptsAssumption
    <3>2. CASE i # 0
      <4>1. i - 1 \in Nat /\ g[i - 1] = (i - 1) * (PageSize - 1)
        BY <3>2
      <4>2. i * (PageSize - 1) = (i - 1) * (PageSize - 1) + PageSize - 1
        BY ScriptsAssumption
      <4> QED
        BY <3>2, <4>1, <4>2
    <3> QED
      BY <3>1, <3>2
  <2> QED
    BY <2>1
<1> HIDE DEF g
<1>2. \E f : f = F(f)
  BY <1>1
<1> QED
  BY <1>2 DEF curr_offset

(***************************************************************************)
(* A set of natural numbers has a least one: induction without a formula.  *)
(***************************************************************************)
LEMMA NatLeast ==
  ASSUME NEW S, S \subseteq Nat, S # {} PROVE \E x \in S : \A y \in S : ~(y < x)
<1>1. \E x \in S : \A y \in S : <<y, x>> \notin OpToRel(<, Nat)
  BY NatLessThanWellFounded, WFMin
<1>2. \A x, y \in S : y < x => <<y, x>> \in OpToRel(<, Nat)
  BY DEF OpToRel
<1> QED
  BY <1>1, <1>2

(***************************************************************************)
(* Where page i begins, however many pages there are: the step back by one *)
(* at the end of each page is made good by adding the number of the page.  *)
(***************************************************************************)
LEMMA Offset == ASSUME NEW i \in Nat PROVE curr_offset[i] = i * (PageSize - 1)
<1> DEFINE S == {k \in Nat : curr_offset[k] # k * (PageSize - 1)}
<1> SUFFICES ASSUME S # {} PROVE FALSE
  OBVIOUS
<1>1. PICK m \in S : \A k \in S : ~(k < m)
  BY NatLeast
<1>2. CASE m = 0
  <2>1. curr_offset[0] = 0 /\ 0 * (PageSize - 1) = 0
    BY OffsetUnfolds, ScriptsAssumption
  <2> QED
    BY <1>2, <2>1
<1>3. CASE m # 0
  <2>1. m - 1 \in Nat /\ m - 1 \notin S
    BY <1>1, <1>3
  <2>2. curr_offset[m - 1] = (m - 1) * (PageSize - 1)
    BY <2>1
  <2>3. curr_offset[m] = curr_offset[m - 1] + PageSize - 1
    BY <1>3, OffsetUnfolds
  <2>4. m * (PageSize - 1) = (m - 1) * (PageSize - 1) + PageSize - 1
    BY ScriptsAssumption
  <2> QED
    BY <2>2, <2>3, <2>4
<1> QED
  BY <1>2, <1>3

(***************************************************************************)
(* Division with remainder.                                                *)
(***************************************************************************)
LEMMA Division ==
  ASSUME NEW a \in Nat, NEW p \in Nat \ {0}
  PROVE  /\ a \div p \in Nat /\ a % p \in 0 .. p - 1
         /\ a = p * (a \div p) + (a % p)
OBVIOUS

(***************************************************************************)
(* The words of a page reach the memory turned around twice, by the script *)
(* and by the board: address a gets byte a of the file, or the padding.    *)
(***************************************************************************)
LEMMA WordAt ==
  ASSUME NEW a \in Nat, bin_SIZE \in Nat
  PROVE  Word(a \div PageSize, (a % PageSize) \div 4)[3 - (a % 4)] = FileByte(a)
<1> DEFINE i == a \div PageSize
           r == a % PageSize
           q == r \div 4
           k == 3 - (a % 4)
           index == i + curr_offset[i] + 4 * q + (4 - (k + 1))
<1>0. PageSize \in Nat \ {0}
  BY ScriptsAssumption
<1>1. i \in Nat /\ r \in Nat /\ a = PageSize * i + r
  BY <1>0, Division
<1>2. q \in Nat /\ r = 4 * q + (r % 4) /\ r % 4 \in 0 .. 3
  BY <1>1
<1>3. a % 4 = r % 4
  <2>1. PICK m \in Nat : PageSize = 4 * m
    <3>1. PageSize = 4 * (PageSize \div 4) /\ PageSize \div 4 \in Nat
      BY ScriptsAssumption
    <3> QED
      BY <3>1
  <2>2. m * i \in Nat /\ PageSize * i = 4 * (m * i)
    <3>1. \A x, y \in Nat : x * y \in Nat /\ (4 * x) * y = 4 * (x * y)
      OBVIOUS
    <3> HIDE DEF i
    <3> QED
      BY <1>1, <2>1, <3>1
  <2>3. \A t, s \in Nat : (4 * t + s) % 4 = s % 4
    OBVIOUS
  <2>4. a = 4 * (m * i) + r
    BY <1>1, <2>2
  <2> HIDE DEF i, r
  <2> QED
    BY <1>1, <2>2, <2>3, <2>4
<1>4. k \in 0 .. 3 /\ 4 - (k + 1) = r % 4
  BY <1>2, <1>3
<1>5. i + curr_offset[i] = PageSize * i
  <2>1. i + i * (PageSize - 1) = PageSize * i
    BY <1>1, ScriptsAssumption
  <2> QED
    BY <1>1, <2>1, Offset
<1>6. index = a
  <2>1. PageSize * i \in Nat /\ r % 4 \in Nat
    BY <1>1, <1>2, ScriptsAssumption
  <2> QED
    BY <1>1, <1>2, <1>4, <1>5, <2>1
<1>7. Word(i, q)[k] = IF index >= bin_SIZE THEN FF ELSE [of |-> bin_SIZE, at |-> index]
  BY <1>4 DEF Word
<1> QED
  BY <1>6, <1>7 DEF FileByte

(***************************************************************************)
(* An address below the end of page i is in page i or below its beginning. *)
(***************************************************************************)
LEMMA PageBelow ==
  ASSUME NEW i \in Nat, NEW a \in 0 .. (i + 1) * PageSize - 1, a \div PageSize # i
  PROVE  a \in 0 .. i * PageSize - 1
<1> DEFINE d == a \div PageSize
<1>0. PageSize \in Nat \ {0} /\ a \in Nat
  BY ScriptsAssumption
<1>1. d \in Nat /\ a = PageSize * d + (a % PageSize) /\ a % PageSize \in 0 .. PageSize - 1
  BY <1>0, Division
<1> HIDE DEF d
<1>2. PageSize * d < PageSize * (i + 1)
  BY <1>0, <1>1
<1>3. d < i + 1
  BY <1>1, <1>2, ScriptsAssumption
<1>4. d <= i - 1
  BY <1>0, <1>1, <1>3 DEF d
<1>5. PageSize * d <= PageSize * (i - 1)
  BY <1>1, <1>4, ScriptsAssumption
<1> QED
  BY <1>0, <1>1, <1>5

(***************************************************************************)
(* The pages of the file fit into the memory.                              *)
(***************************************************************************)
LEMMA PagesFit ==
  ASSUME bin_SIZE \in FileSizes
  PROVE  num_parts \in Nat /\ 0 .. num_parts * PageSize - 1 \subseteq Addresses
<1> DEFINE m == CHOOSE m \in FileSizes : \A s \in FileSizes : s <= m
<1>1. m \in FileSizes /\ \A s \in FileSizes : s <= m
  BY ScriptsAssumption
<1> HIDE DEF m
<1> DEFINE d == bin_SIZE \div PageSize
<1>2. /\ bin_SIZE \in Nat /\ m \in Nat /\ bin_SIZE <= m
      /\ d \in Nat /\ bin_SIZE = PageSize * d + (bin_SIZE % PageSize)
      /\ bin_SIZE % PageSize \in 0 .. PageSize - 1
  BY <1>1, Division, ScriptsAssumption
<1>3. num_parts = d \/ (num_parts = d + 1 /\ bin_SIZE % PageSize > 0)
  BY <1>2 DEF num_parts
<1> HIDE DEF d
<1>4. num_parts * PageSize <= PageSize + m
  <2>1. CASE num_parts = d
    BY <1>2, <2>1, ScriptsAssumption
  <2>2. CASE num_parts = d + 1 /\ bin_SIZE % PageSize > 0
    <3>1. (d + 1) * PageSize = PageSize * d + PageSize
      BY <1>2, ScriptsAssumption
    <3> QED
      BY <1>2, <2>2, <3>1, ScriptsAssumption
  <2> QED
    BY <1>3, <2>1, <2>2
<1>5. num_parts \in Nat
  BY <1>2, <1>3
<1>6. num_parts * PageSize \in Nat /\ Addresses = 0 .. PageSize + m
  BY <1>5, ScriptsAssumption DEF Addresses, m
<1> QED
  BY <1>2, <1>4, <1>5, <1>6, ScriptsAssumption

-----------------------------------------------------------------------------
(***************************************************************************)
(* The inductive invariant                                                 *)
(***************************************************************************)
Places == Ended \cup {"begin", "search", "mb", "bc", "hello", "erase", "size", "write", "last"}

ScriptRecordOK ==
  script \in [name : {"reset", "find", "flash", "start"}, at : Places, index : Nat,
              found : SUBSET {"mb", "bc"}]

(***************************************************************************)
(* A script runs in Transition, but find in Boot.  In Boot nothing that    *)
(* was sent to the motherboard can still make it leave its bootloader.     *)
(* What start does behind its search it does with both boards found.       *)
(***************************************************************************)
StateInv ==
  /\ script.at \notin Ended => State = IF script.name = "find" THEN "Boot" ELSE "Transition"
  /\ State = "Boot" => board["mb"] = "boot" /\ requests = <<>>
  /\ script.at = "search" => script.index > 0
  /\ At({"start"}, "mb") \/ At({"start"}, "bc") => script.found = {"mb", "bc"}
  /\ State = "Running" => script.name = "start" /\ script.found = {"mb", "bc"}

\* One command is on its way, and every answer has been read.
Asked(cmd, page) == requests = <<[cmd |-> cmd, page |-> page]>> /\ replies = <<>>

\* The memory holds the first k pages of the file.
Written(k) == \A a \in 0 .. k * PageSize - 1 : memory[a] = FileByte(a)

\* The board has answered, and the answers are all there is to read.
Answered(count) == requests = <<>> /\ Len(replies) = count

(***************************************************************************)
(* As long as no unchecked answer was late, the flash script and the board *)
(* keep in step: the line the script reads next answers the command it     *)
(* sent last.  So an "OK" is about the page in question.                   *)
(***************************************************************************)
FlashInv ==
  script.name = "flash" /\ ~missed =>
    /\ script.at = "search" => Answered(0)
    /\ script.at = "hello" => Asked("restart", 0) \/ Answered(1)
    /\ script.at = "erase" =>
         \/ script.index = 0 /\ Asked("erase", 0)
         \/ /\ script.index <= Sector_Num /\ Answered(Sector_Num + 1 - script.index)
            /\ \A i \in 1 .. Sector_Num - script.index : replies[i] # "erased"
    /\ script.at = "size" => Asked("size", 0) \/ Answered(1)
    /\ script.at = "write" =>
         /\ script.index < num_parts /\ Written(script.index)
         /\ \/ Asked("write", script.index)
            \/ Answered(1) /\ replies[1] = "error"
            \/ /\ requests = <<>> /\ replies # <<>> /\ Written(script.index + 1)
               /\ script.index + 1 # num_parts => Len(replies) = 1
    /\ script.at \in {"last", "ok"} => requests = <<>> /\ Written(num_parts)

ScriptsInv == ScriptsTypeOK /\ ScriptRecordOK /\ StateInv /\ FlashInv

(***************************************************************************)
(* A script moves on, or ends.                                             *)
(***************************************************************************)
LEMMA GotoFacts ==
  ASSUME ScriptRecordOK, NEW place \in Places, NEW i \in Nat, Goto(place, i)
  PROVE  /\ ScriptRecordOK' /\ script'.name = script.name /\ script'.at = place
         /\ script'.index = i /\ script'.found = script.found
BY DEF ScriptRecordOK, Goto

(***************************************************************************)
(* Ends: the exit code, by way of Execute and DoTransition, is the State.  *)
(***************************************************************************)
LEMMA EndsFacts ==
  ASSUME ScriptRecordOK, NEW how \in Ended, Ends(how)
  PROVE  /\ ScriptRecordOK' /\ script'.name = script.name /\ script'.at = how
         /\ script'.index = script.index /\ script'.found = script.found
         /\ script.name = "find" => State' = State
         /\ script.name # "find" =>
              State' = IF how = "failed" THEN "Fault"
                       ELSE IF script.name = "start" THEN "Running" ELSE "Boot"
<1>1. ScriptRecordOK' /\ script'.name = script.name /\ script'.at = how
      /\ script'.index = script.index /\ script'.found = script.found
  BY DEF ScriptRecordOK, Ends, Places
<1> QED
  BY <1>1 DEF Ends

(***************************************************************************)
(* What the type invariant asks of script follows from its record.         *)
(***************************************************************************)
LEMMA TypesOfRest ==
  ASSUME ScriptsTypeOK, ScriptRecordOK',
         State' \in {"Boot", "Running", "Transition", "Fault"},
         MbPort' \in Paths \cup {"none", ""},
         COM_List' \in PortLists, board' \in [{"mb", "bc"} -> {"boot", "left"}],
         UNCHANGED serialVars
  PROVE  ScriptsTypeOK'
BY DEF ScriptsTypeOK, ScriptRecordOK, serialVars, Places

(***************************************************************************)
(* A script begins.                                                        *)
(***************************************************************************)
LEMMA BeginInv ==
  ASSUME NEW name \in {"find", "reset", "flash", "start"}, ScriptsInv, Begin(name)
  PROVE  ScriptsInv'
<1> USE DEF ScriptsInv
<1>1. /\ script' = [name |-> name, at |-> "begin", index |-> 0, found |-> {}]
      /\ UNCHANGED <<MbPort, COM_List, board, serialVars>>
      /\ State' = (IF name = "find" THEN "Boot" ELSE "Transition")
      /\ name = "find" => State = "Boot"
  BY DEF Begin
<1>2. ScriptRecordOK'
  BY <1>1 DEF ScriptRecordOK, Places
<1>3. ScriptsTypeOK'
  BY <1>1, <1>2, TypesOfRest DEF ScriptsTypeOK
<1>4. StateInv'
  BY <1>1 DEF StateInv, At, Ended, serialVars
<1>5. FlashInv'
  BY <1>1 DEF FlashInv
<1> QED
  BY <1>2, <1>3, <1>4, <1>5

(***************************************************************************)
(* The steps of a search that find nothing.                                *)
(***************************************************************************)
LEMMA SearchInv ==
  ASSUME ScriptsInv, OpenRaises \/ PortRaises \/ WrongReply \/ FlashExhausted \/ FindExhausted
  PROVE  ScriptsInv'
<1> USE DEF ScriptsInv
<1>1. /\ script.at = "search" /\ UNCHANGED <<COM_List, board, serialVars>>
      /\ MbPort' \in {MbPort, ""} /\ script.index \in Nat
      /\ \/ Goto("search", script.index + 1) /\ State' = State
         \/ Ends("failed")
         \/ script.name = "find" /\ Ends("ok")
  BY DEF OpenRaises, PortRaises, WrongReply, FlashExhausted, FindExhausted, At, ScriptRecordOK
<1>2. /\ ScriptRecordOK' /\ script'.name = script.name /\ script'.found = script.found
      /\ \/ script'.at = "search" /\ State' = State /\ script'.index > 0
         \/ script'.at \in {"failed", "ok"} /\ script.name = "find" /\ State' = State
         \/ script'.at = "failed" /\ script.name # "find" /\ State' = "Fault"
  <2>1. CASE Goto("search", script.index + 1) /\ State' = State
    <3>1. "search" \in Places
      BY DEF Places
    <3>2. \A i \in Nat : i + 1 \in Nat /\ i + 1 > 0
      OBVIOUS
    <3>3. script.index + 1 \in Nat /\ script.index + 1 > 0
      BY <1>1, <3>2, Zenon
    <3> QED
      BY <2>1, <3>1, <3>3, GotoFacts
  <2>2. CASE Ends("failed")
    BY <1>1, <2>2, EndsFacts DEF Ended
  <2>3. CASE script.name = "find" /\ Ends("ok")
    BY <1>1, <2>3, EndsFacts DEF Ended
  <2> QED
    BY <1>1, <2>1, <2>2, <2>3
<1>3. ScriptsTypeOK'
  BY <1>1, <1>2, TypesOfRest DEF ScriptsTypeOK
<1>4. StateInv'
  BY <1>1, <1>2 DEF StateInv, At, Ended, serialVars
<1>5. FlashInv'
  BY <1>1, <1>2 DEF FlashInv, Answered, serialVars
<1> QED
  BY <1>2, <1>3, <1>4, <1>5

(***************************************************************************)
(* find and start find a board, or start looks again.                      *)
(***************************************************************************)
LEMMA FoundInv ==
  ASSUME ScriptsInv, FindAnswered \/ StartExhausted \/ \E b \in {"mb", "bc"} : StartAnswered(b)
  PROVE  ScriptsInv'
<1> USE DEF ScriptsInv
<1>1. /\ script.at = "search" /\ UNCHANGED <<COM_List, board, serialVars>>
      /\ MbPort' \in Paths \cup {"none", ""}
      /\ ScriptRecordOK' /\ script'.name = script.name
      /\ \/ script.name = "find" /\ script'.at = "ok" /\ State' = State
         \/ /\ script.name = "start" /\ State' = State
            /\ \/ script'.at = "search" /\ script'.index > 0
               \/ script'.at = "mb" /\ script'.found = {"mb", "bc"}
         \/ script.name = "start" /\ script'.at = "failed" /\ State' = "Fault"
  <2>0. MbPort \in Paths \cup {"none", ""}
    BY DEF ScriptsTypeOK
  <2>1. CASE FindAnswered
    <3>1. script.index \in DOMAIN COM_List /\ COM_List \in PortLists
      <4>1. COM_List \in PortLists /\ script.index \in Nat /\ script.index > 0
        BY <2>1 DEF FindAnswered, At, StateInv, ScriptsTypeOK
      <4>2. DOMAIN COM_List = 1 .. Len(COM_List) /\ Len(COM_List) \in Nat
        BY <4>1, PortsAssumption
      <4> QED
        BY <2>1, <4>1, <4>2 DEF FindAnswered
    <3>2. COM_List[script.index].path \in Paths
      BY <3>1 DEF Paths
    <3> QED
      BY <2>1, <3>2, EndsFacts DEF FindAnswered, At, Ended
  <2>2. CASE StartExhausted
    <3>1. "search" \in Places /\ "mb" \in Places /\ 0 \in Nat /\ 1 \in Nat /\ 1 > 0
      BY DEF Places
    <3>2. CASE script.found = {"mb", "bc"}
      BY <2>0, <2>2, <3>1, <3>2, GotoFacts DEF StartExhausted, At
    <3>3. CASE script.found # {"mb", "bc"}
      BY <2>0, <2>2, <3>1, <3>3, GotoFacts DEF StartExhausted, At
    <3> QED
      BY <3>2, <3>3
  <2>3. ASSUME NEW b \in {"mb", "bc"}, StartAnswered(b)
        PROVE  /\ At({"start"}, "search") /\ ScriptRecordOK' /\ script'.name = script.name
               /\ \/ script'.at = "search" /\ script'.index > 0 /\ State' = State
                  \/ script'.at = "failed" /\ State' = "Fault"
               /\ UNCHANGED <<MbPort, COM_List, board, serialVars>>
    <3>1. CASE Ends("failed")
      BY <2>3, <3>1, EndsFacts DEF StartAnswered, At, Ended
    <3>2. CASE script' = [script EXCEPT !.index = @ + 1, !.found = @ \cup {b}] /\ UNCHANGED State
      <4>1. script.index + 1 \in Nat /\ script.index + 1 > 0
            /\ script.found \cup {b} \in SUBSET {"mb", "bc"}
        BY DEF ScriptRecordOK
      <4>2. /\ ScriptRecordOK' /\ script'.name = script.name /\ script'.at = script.at
            /\ script'.index > 0
        BY <3>2, <4>1 DEF ScriptRecordOK
      <4> QED
        BY <2>3, <3>2, <4>2 DEF StartAnswered, At
    <3> QED
      BY <2>3, <3>1, <3>2 DEF StartAnswered
  <2> QED
    BY <2>0, <2>1, <2>2, <2>3 DEF At
<1>3. ScriptsTypeOK'
  BY <1>1, TypesOfRest DEF ScriptsTypeOK
<1>4. StateInv'
  BY <1>1 DEF StateInv, At, Ended, serialVars
<1>5. FlashInv'
  BY <1>1 DEF FlashInv
<1> QED
  BY <1>1, <1>3, <1>4, <1>5

(***************************************************************************)
(* The boards are started.                                                 *)
(***************************************************************************)
LEMMA StartInv == ASSUME ScriptsInv, StartMotherboard \/ StartBlueCoin PROVE ScriptsInv'
<1> USE DEF ScriptsInv
<1>1. /\ script.name = "start" /\ script.at \in {"mb", "bc"} /\ State = "Transition"
      /\ script.found = {"mb", "bc"}
      /\ UNCHANGED <<MbPort, COM_List, serialVars>>
      /\ board \in [{"mb", "bc"} -> {"boot", "left"}]
  BY DEF StartMotherboard, StartBlueCoin, At, StateInv, Ended, ScriptsTypeOK
<1>2. /\ ScriptRecordOK' /\ script'.name = "start" /\ script'.found = {"mb", "bc"}
      /\ board' \in [{"mb", "bc"} -> {"boot", "left"}]
      /\ \/ script'.at = "bc" /\ State' = "Transition"
         \/ script'.at = "failed" /\ State' = "Fault"
         \/ script'.at \in {"ok", "quit"} /\ State' = "Running"
  <2>1. CASE StartMotherboard
    BY <1>1, <2>1, GotoFacts, EndsFacts DEF StartMotherboard, At, Places, Ended, Leaves
  <2>2. CASE StartBlueCoin
    BY <1>1, <2>2, EndsFacts DEF StartBlueCoin, At, Ended, Leaves
  <2> QED
    BY <2>1, <2>2
<1>3. ScriptsTypeOK'
  BY <1>1, <1>2, TypesOfRest DEF ScriptsTypeOK
<1>4. StateInv'
  BY <1>2 DEF StateInv, At, Ended
<1>5. FlashInv'
  BY <1>1, <1>2 DEF FlashInv
<1> QED
  BY <1>2, <1>3, <1>4, <1>5

(***************************************************************************)
(* The pins are set, and with that the boards begin anew.                  *)
(***************************************************************************)
LEMMA PulseFacts ==
  ASSUME ScriptsTypeOK, NEW boards \in SUBSET {"mb", "bc"}, "mb" \in boards, Pulse(boards)
  PROVE  board' \in [{"mb", "bc"} -> {"boot", "left"}] /\ board'["mb"] = "boot"
BY DEF ScriptsTypeOK, Pulse

(***************************************************************************)
(* The setup lines of each script keep the invariant.                      *)
(***************************************************************************)
LEMMA SetupInv == ASSUME ScriptsInv, Setup PROVE ScriptsInv'
<1> USE DEF ScriptsInv
<1>1. script.at = "begin" /\ MbPort' = MbPort /\ memory' = memory
  BY DEF Setup
<1>2. script.name = "find" => State = "Boot"
  BY <1>1 DEF StateInv, Ended
<1>3. CASE Ends("failed") /\ UNCHANGED <<COM_List, board, bin_SIZE, requests, replies, missed>>
  <2>1. /\ ScriptRecordOK' /\ script'.name = script.name /\ script'.at = "failed"
        /\ State' = IF script.name = "find" THEN "Boot" ELSE "Fault"
    BY <1>2, <1>3, EndsFacts DEF Ended
  <2>2. ScriptsTypeOK'
    BY <1>1, <1>3, <2>1, TypesOfRest DEF ScriptsTypeOK, serialVars
  <2>3. StateInv'
    BY <1>2, <1>3, <2>1 DEF StateInv, At, Ended
  <2>4. FlashInv'
    BY <1>1, <2>1 DEF FlashInv
  <2> QED
    BY <2>1, <2>2, <2>3, <2>4
<1>4. CASE ~(Ends("failed") /\ UNCHANGED <<COM_List, board, bin_SIZE, requests, replies, missed>>)
  <2>1. /\ Pulse(IF script.name = "start" THEN {"mb", "bc"} ELSE {"mb"})
        /\ requests' = <<>> /\ replies' = <<>> /\ missed' = FALSE
        /\ \/ script.name = "reset" /\ Ends("ok") /\ UNCHANGED <<COM_List, bin_SIZE>>
           \/ script.name = "flash" /\ Ends("failed") /\ UNCHANGED <<COM_List, bin_SIZE>>
           \/ /\ script.name # "reset" /\ Goto("search", 1)
              /\ UNCHANGED State /\ COM_List' \in PortLists
              /\ IF script.name = "flash" THEN bin_SIZE' \in FileSizes ELSE UNCHANGED bin_SIZE
    BY <1>4, Zenon DEF Setup
  <2>2. board' \in [{"mb", "bc"} -> {"boot", "left"}] /\ board'["mb"] = "boot"
    <3>1. {"mb", "bc"} \in SUBSET {"mb", "bc"} /\ {"mb"} \in SUBSET {"mb", "bc"}
      OBVIOUS
    <3> QED
      BY <2>1, <3>1, PulseFacts
  <2>3. /\ ScriptRecordOK' /\ script'.name = script.name
        /\ COM_List' \in PortLists /\ bin_SIZE' \in FileSizes
        /\ \/ script.name = "reset" /\ script'.at = "ok" /\ State' = "Boot"
           \/ script.name = "flash" /\ script'.at = "failed" /\ State' = "Fault"
           \/ script.name # "reset" /\ script'.at = "search" /\ State' = State /\ script'.index > 0
    <3>1. COM_List \in PortLists /\ bin_SIZE \in FileSizes
      BY DEF ScriptsTypeOK
    <3>2. "search" \in Places /\ 1 \in Nat /\ 1 > 0 /\ "ok" \in Ended /\ "failed" \in Ended
      BY DEF Places, Ended
    <3>3. CASE script.name = "reset" /\ Ends("ok") /\ UNCHANGED <<COM_List, bin_SIZE>>
      BY <3>1, <3>2, <3>3, EndsFacts
    <3>4. CASE script.name = "flash" /\ Ends("failed") /\ UNCHANGED <<COM_List, bin_SIZE>>
      BY <3>1, <3>2, <3>4, EndsFacts
    <3>5. CASE /\ script.name # "reset" /\ Goto("search", 1)
               /\ UNCHANGED State /\ COM_List' \in PortLists
               /\ IF script.name = "flash" THEN bin_SIZE' \in FileSizes ELSE UNCHANGED bin_SIZE
      BY <3>1, <3>2, <3>5, GotoFacts
    <3> QED
      BY <2>1, <3>3, <3>4, <3>5
  <2>4. ScriptsTypeOK'
    <3>1. requests' \in Seq([cmd : {"restart", "erase", "size", "write"}, page : Nat])
      BY <2>1
    <3>2. replies' \in Seq({"hello", "sector", "erased", "OK", "error", "size", "update"})
      BY <2>1
    <3>3. script'.index \in Nat /\ script'.found \subseteq {"mb", "bc"}
          /\ script'.name \in {"reset", "find", "flash", "start"} /\ script'.at \in Places
      BY <2>3 DEF ScriptRecordOK
    <3>4. State' \in {"Boot", "Running", "Transition", "Fault"}
      BY <2>3 DEF ScriptsTypeOK
    <3> QED
      BY <1>1, <2>1, <2>2, <2>3, <3>1, <3>2, <3>3, <3>4 DEF ScriptsTypeOK, Places
  <2>5. StateInv'
    BY <1>1, <2>1, <2>2, <2>3 DEF StateInv, At, Ended
  <2>6. FlashInv'
    <3>1. Answered(0)'
      BY <2>1 DEF Answered
    <3> QED
      BY <2>3, <3>1 DEF FlashInv
  <2> QED
    BY <1>1, <2>3, <2>4, <2>5, <2>6
<1> QED
  BY <1>3, <1>4

(***************************************************************************)
(* A command joins the queue.                                              *)
(***************************************************************************)
Commands == {"restart", "erase", "size", "write"}

(***************************************************************************)
(* serial.write puts one command of the four behind those under way.       *)
(***************************************************************************)
LEMMA SendFacts ==
  ASSUME ScriptsTypeOK, NEW c \in Commands, NEW page \in Nat, Send(c, page)
  PROVE  /\ requests' \in Seq([cmd : Commands, page : Nat])
         /\ requests = <<>> => requests' = <<[cmd |-> c, page |-> page]>>
<1>1. [cmd |-> c, page |-> page] \in [cmd : Commands, page : Nat]
  OBVIOUS
<1>2. requests \in Seq([cmd : Commands, page : Nat])
  BY DEF ScriptsTypeOK, Commands
<1>3. requests' \in Seq([cmd : Commands, page : Nat])
  BY <1>1, <1>2 DEF Send
<1>4. ASSUME NEW r PROVE Append(<<>>, r) = <<r>>
  OBVIOUS
<1> QED
  BY <1>3, <1>4 DEF Send

(***************************************************************************)
(* A line is read, if there is one.                                        *)
(***************************************************************************)
Replies == {"hello", "sector", "erased", "OK", "error", "size", "update"}

(***************************************************************************)
(* readline() takes the oldest answer, or times out if there is none.      *)
(***************************************************************************)
LEMMA ReadsFacts ==
  ASSUME ScriptsTypeOK, NEW line, Reads(line)
  PROVE  /\ replies' \in Seq(Replies)
         /\ \/ replies = <<>> /\ line = "" /\ replies' = <<>>
            \/ /\ Len(replies) \in Nat \ {0} /\ line = replies[1] /\ line \in Replies
               /\ Len(replies') = Len(replies) - 1
               /\ \A i \in 1 .. Len(replies) - 1 : replies'[i] = replies[i + 1]
<1>1. replies \in Seq(Replies)
  BY DEF ScriptsTypeOK, Replies
<1>2. CASE replies = <<>>
  BY <1>1, <1>2 DEF Reads
<1>3. CASE replies # <<>>
  <2>1. line = Head(replies) /\ replies' = Tail(replies)
    BY <1>3 DEF Reads
  <2>2. Len(replies) \in Nat \ {0} /\ Head(replies) = replies[1] /\ replies[1] \in Replies
    BY <1>1, <1>3, EmptySeq, LenProperties, HeadTailProperties
  <2>3. /\ Tail(replies) \in Seq(Replies) /\ Len(Tail(replies)) = Len(replies) - 1
        /\ \A i \in 1 .. Len(replies) - 1 : Tail(replies)[i] = replies[i + 1]
    BY <1>1, <1>3, HeadTailProperties
  <2> QED
    BY <2>1, <2>2, <2>3
<1> QED
  BY <1>2, <1>3

(***************************************************************************)
(* What the type invariant asks of a step of the flash script.             *)
(***************************************************************************)
LEMMA TypesOfFlash ==
  ASSUME ScriptsTypeOK, ScriptRecordOK',
         State' \in {"Boot", "Running", "Transition", "Fault"},
         board' \in [{"mb", "bc"} -> {"boot", "left"}], missed' \in BOOLEAN,
         requests' \in Seq([cmd : Commands, page : Nat]), replies' \in Seq(Replies),
         UNCHANGED <<MbPort, COM_List, bin_SIZE, memory>>
  PROVE  ScriptsTypeOK'
BY DEF ScriptsTypeOK, ScriptRecordOK, Places, Commands, Replies

(***************************************************************************)
(* The board that flash looks for answers.                                 *)
(***************************************************************************)
LEMMA FlashAnsweredInv == ASSUME ScriptsInv, FlashAnswered PROVE ScriptsInv'
<1> USE DEF ScriptsInv
<1>1. /\ script.name = "flash" /\ script.at = "search" /\ State = "Transition"
      /\ UNCHANGED <<MbPort, COM_List, board, bin_SIZE, memory, replies, missed>>
  BY DEF FlashAnswered, At, StateInv, Ended
<1>2. replies \in Seq(Replies) /\ requests \in Seq([cmd : Commands, page : Nat])
      /\ board \in [{"mb", "bc"} -> {"boot", "left"}] /\ missed \in BOOLEAN
  BY DEF ScriptsTypeOK, Replies, Commands
<1>3. CASE Ends("failed") /\ UNCHANGED requests
  <2>1. ScriptRecordOK' /\ script'.name = "flash" /\ script'.at = "failed" /\ State' = "Fault"
    BY <1>1, <1>3, EndsFacts DEF Ended
  <2>2. ScriptsTypeOK'
    BY <1>1, <1>2, <1>3, <2>1, TypesOfFlash
  <2>3. StateInv' /\ FlashInv'
    BY <1>1, <2>1 DEF StateInv, At, Ended, FlashInv
  <2> QED
    BY <2>1, <2>2, <2>3
<1>4. CASE Goto("hello", 0) /\ Send("restart", 0) /\ UNCHANGED State
  <2>1. "hello" \in Places /\ 0 \in Nat /\ "restart" \in Commands
    BY DEF Places, Commands
  <2>2. ScriptRecordOK' /\ script'.name = "flash" /\ script'.at = "hello"
    BY <1>1, <1>4, <2>1, GotoFacts
  <2>3. /\ requests' \in Seq([cmd : Commands, page : Nat])
        /\ requests = <<>> => requests' = <<[cmd |-> "restart", page |-> 0]>>
    BY <1>4, <2>1, SendFacts
  <2>4. ScriptsTypeOK'
    BY <1>1, <1>2, <1>4, <2>2, <2>3, TypesOfFlash
  <2>5. ~missed => replies = <<>> /\ requests = <<>>
    BY <1>1, <1>2, EmptySeq DEF FlashInv, Answered
  <2>6. FlashInv'
    BY <1>1, <2>2, <2>3, <2>5 DEF FlashInv, Asked
  <2>7. StateInv'
    BY <1>1, <1>4, <2>2 DEF StateInv, At, Ended
  <2> QED
    BY <2>2, <2>4, <2>6, <2>7
<1> QED
  BY <1>3, <1>4 DEF FlashAnswered

(***************************************************************************)
(* The unchecked answers.                                                  *)
(***************************************************************************)
LEMMA FlashPreparesInv ==
  ASSUME ScriptsInv, NEW line \in Lines, FlashPrepares(line) PROVE ScriptsInv'
<1> USE DEF ScriptsInv
<1>1. /\ script.name = "flash" /\ script.at \in {"hello", "erase", "size"} /\ State = "Transition"
      /\ UNCHANGED <<State, MbPort, COM_List, board, bin_SIZE, memory>>
      /\ Reads(line) /\ missed' = (missed \/ line = "") /\ script.index \in Nat
  BY DEF FlashPrepares, At, StateInv, Ended, ScriptRecordOK
<1>2. /\ replies' \in Seq(Replies)
      /\ \/ replies = <<>> /\ line = "" /\ replies' = <<>>
         \/ /\ Len(replies) \in Nat \ {0} /\ line = replies[1] /\ line \in Replies
            /\ Len(replies') = Len(replies) - 1
            /\ \A i \in 1 .. Len(replies) - 1 : replies'[i] = replies[i + 1]
  BY <1>1, ReadsFacts
<1>3. /\ replies \in Seq(Replies) /\ requests \in Seq([cmd : Commands, page : Nat])
      /\ board \in [{"mb", "bc"} -> {"boot", "left"}] /\ missed' \in BOOLEAN
      /\ bin_SIZE \in FileSizes
  BY <1>1 DEF ScriptsTypeOK, Replies, Commands
<1>4. ~missed' => /\ ~missed /\ Len(replies) \in Nat \ {0} /\ line = replies[1]
                  /\ Len(replies') = Len(replies) - 1
                  /\ \A i \in 1 .. Len(replies) - 1 : replies'[i] = replies[i + 1]
                  /\ Len(replies) = 1 => replies' = <<>>
  <2>1. ~missed' => ~missed /\ line # ""
    BY <1>1, Zenon
  <2>2. Len(replies) = 1 => Len(replies) - 1 = 0
    OBVIOUS
  <2>3. Len(replies') = 0 => replies' = <<>>
    BY <1>2, EmptySeq
  <2>4. line # "" => /\ Len(replies) \in Nat \ {0} /\ line = replies[1]
                     /\ Len(replies') = Len(replies) - 1
                     /\ \A i \in 1 .. Len(replies) - 1 : replies'[i] = replies[i + 1]
    BY <1>2, Zenon
  <2> QED
    BY <2>1, <2>2, <2>3, <2>4, Zenon
<1>5. Sector_Num \in Nat /\ num_parts' = num_parts /\ num_parts \in Nat
  BY <1>1, <1>3, ScriptsAssumption, PagesFit DEF num_parts
<1>6. /\ ScriptRecordOK' /\ script'.name = "flash" /\ requests' \in Seq([cmd : Commands, page : Nat])
      /\ script'.at \in {"erase", "size", "write", "last"} /\ FlashInv'
  <2>1. {"hello", "erase", "size", "write", "last"} \subseteq Places /\ 0 \in Nat
        /\ {"restart", "erase", "size", "write"} \subseteq Commands
    BY DEF Places, Commands
  <2>2. CASE At({"flash"}, "hello") /\ Goto("erase", 0) /\ Send("erase", 0)
    <3>1. ScriptRecordOK' /\ script'.name = "flash" /\ script'.at = "erase" /\ script'.index = 0
      BY <1>1, <2>1, <2>2, GotoFacts
    <3>2. /\ requests' \in Seq([cmd : Commands, page : Nat])
          /\ requests = <<>> => requests' = <<[cmd |-> "erase", page |-> 0]>>
      BY <2>1, <2>2, SendFacts
    <3>3. ~missed' => requests = <<>> /\ replies' = <<>>
      <4>1. ~missed' => Answered(1)
        BY <1>1, <1>4, <2>2, EmptySeq DEF FlashInv, At, Asked
      <4> QED
        BY <1>4, <4>1 DEF Answered
    <3> QED
      BY <3>1, <3>2, <3>3 DEF FlashInv, Asked
  <2>3. CASE /\ At({"flash"}, "erase")
             /\ IF line = "erased" \/ script.index = Sector_Num
                THEN Goto("size", 0) /\ Send("size", 0)
                ELSE Goto("erase", script.index + 1) /\ UNCHANGED requests
    <3>0. PICK k \in Nat : k = script.index
      BY <1>1
    <3>1. ~missed' => /\ k <= Sector_Num /\ requests = <<>> /\ Len(replies) = Sector_Num + 1 - k
                      /\ \A i \in 1 .. Sector_Num - k : replies[i] # "erased"
      BY <1>1, <1>4, <2>3, <3>0, EmptySeq DEF FlashInv, At, Asked, Answered
    <3>2. CASE line = "erased" \/ k = Sector_Num
      <4>1. ScriptRecordOK' /\ script'.name = "flash" /\ script'.at = "size"
        BY <1>1, <2>1, <2>3, <3>0, <3>2, GotoFacts
      <4>2. /\ requests' \in Seq([cmd : Commands, page : Nat])
            /\ requests = <<>> => requests' = <<[cmd |-> "size", page |-> 0]>>
        BY <2>1, <2>3, <3>0, <3>2, SendFacts
      <4>3. ~missed' => k = Sector_Num
        BY <1>4, <1>5, <3>1, <3>2
      <4>4. ~missed' => Len(replies) = 1
        BY <1>4, <1>5, <3>1, <4>3
      <4> QED
        BY <1>4, <3>1, <4>1, <4>2, <4>4 DEF FlashInv, Asked
    <3>3. CASE ~(line = "erased" \/ k = Sector_Num)
      <4>1. k + 1 \in Nat
        OBVIOUS
      <4>2. /\ ScriptRecordOK' /\ script'.name = "flash" /\ script'.at = "erase"
            /\ script'.index = k + 1 /\ requests' = requests
        BY <1>1, <2>1, <2>3, <3>0, <3>3, <4>1, GotoFacts
      <4>3. ~missed' => /\ k + 1 <= Sector_Num /\ requests' = <<>>
                        /\ Len(replies') = Sector_Num + 1 - (k + 1)
        BY <1>4, <1>5, <3>1, <3>3, <4>2
      <4>4. ASSUME ~missed', NEW i \in 1 .. Sector_Num - (k + 1) PROVE replies'[i] # "erased"
        <5>1. i \in 1 .. Len(replies) - 1 /\ i + 1 \in 1 .. Sector_Num - k
          BY <1>4, <1>5, <3>1, <4>4
        <5> QED
          BY <1>4, <3>1, <4>4, <5>1
      <4> QED
        BY <1>3, <4>2, <4>3, <4>4 DEF FlashInv, Answered
    <3> QED
      BY <3>2, <3>3
  <2>4. CASE /\ At({"flash"}, "size")
             /\ IF num_parts = 0
                THEN Goto("last", 0) /\ UNCHANGED requests
                ELSE Goto("write", 0) /\ Send("write", 0)
    <3>1. ~missed' => requests = <<>> /\ replies' = <<>>
      <4>1. ~missed' => Answered(1)
        BY <1>1, <1>4, <2>4, EmptySeq DEF FlashInv, At, Asked
      <4> QED
        BY <1>4, <4>1 DEF Answered
    <3>2. Written(0)'
      <4>1. 0 * PageSize = 0
        BY ScriptsAssumption
      <4> QED
        BY <4>1 DEF Written
    <3>3. CASE num_parts = 0
      <4>1. /\ ScriptRecordOK' /\ script'.name = "flash" /\ script'.at = "last"
            /\ requests' = requests
        BY <1>1, <2>1, <2>4, <3>3, GotoFacts
      <4> QED
        BY <1>3, <1>5, <3>1, <3>2, <3>3, <4>1 DEF FlashInv
    <3>4. CASE num_parts # 0
      <4>1. /\ ScriptRecordOK' /\ script'.name = "flash" /\ script'.at = "write"
            /\ script'.index = 0
        BY <1>1, <2>1, <2>4, <3>4, GotoFacts
      <4>2. /\ requests' \in Seq([cmd : Commands, page : Nat])
            /\ requests = <<>> => requests' = <<[cmd |-> "write", page |-> 0]>>
        BY <2>1, <2>4, <3>4, SendFacts
      <4>3. 0 < num_parts'
        BY <1>5, <3>4
      <4> QED
        BY <3>1, <3>2, <4>1, <4>2, <4>3 DEF FlashInv, Asked
    <3> QED
      BY <3>3, <3>4
  <2> QED
    BY <2>2, <2>3, <2>4 DEF FlashPrepares
<1>7. ScriptsTypeOK'
  BY <1>1, <1>2, <1>3, <1>6, TypesOfFlash
<1>8. StateInv'
  BY <1>1, <1>6 DEF StateInv, At, Ended
<1> QED
  BY <1>6, <1>7, <1>8

(***************************************************************************)
(* A page is acknowledged, or flash gives up.                              *)
(***************************************************************************)
LEMMA FlashWritesInv ==
  ASSUME ScriptsInv, NEW line \in Lines, FlashWrites(line) PROVE ScriptsInv'
<1> USE DEF ScriptsInv
<1>1. /\ script.name = "flash" /\ script.at = "write" /\ State = "Transition"
      /\ UNCHANGED <<MbPort, COM_List, board, bin_SIZE, memory, missed>>
      /\ Reads(line)
  BY DEF FlashWrites, At, StateInv, Ended
<1>2. /\ replies' \in Seq(Replies)
      /\ \/ replies = <<>> /\ line = "" /\ replies' = <<>>
         \/ /\ Len(replies) \in Nat \ {0} /\ line = replies[1]
            /\ Len(replies') = Len(replies) - 1
  BY <1>1, ReadsFacts
<1>3. /\ replies \in Seq(Replies) /\ requests \in Seq([cmd : Commands, page : Nat])
      /\ board \in [{"mb", "bc"} -> {"boot", "left"}] /\ missed \in BOOLEAN
      /\ bin_SIZE \in FileSizes /\ script.index \in Nat
  BY DEF ScriptsTypeOK, Replies, Commands
<1>4. PICK k \in Nat : k = script.index
  BY <1>3
<1>5. {"write", "last"} \subseteq Places /\ "failed" \in Ended /\ 0 \in Nat /\ k + 1 \in Nat
      /\ {"restart", "write"} \subseteq Commands
  BY DEF Places, Ended, Commands
<1>6. /\ num_parts' = num_parts /\ num_parts \in Nat
      /\ \A j : Written(j)' <=> Written(j)
  BY <1>1, <1>3, PagesFit DEF num_parts, Written, FileByte
<1>7. CASE line # "OK"
  <2>1. ScriptRecordOK' /\ script'.name = "flash" /\ script'.at = "failed" /\ State' = "Fault"
    BY <1>1, <1>5, <1>7, EndsFacts DEF FlashWrites
  <2>2. requests' \in Seq([cmd : Commands, page : Nat])
    BY <1>5, <1>7, SendFacts DEF FlashWrites
  <2>3. ScriptsTypeOK'
    BY <1>1, <1>2, <1>3, <2>1, <2>2, TypesOfFlash
  <2>4. StateInv' /\ FlashInv'
    BY <2>1 DEF StateInv, At, Ended, FlashInv
  <2> QED
    BY <2>1, <2>3, <2>4
<1>8. CASE line = "OK"
  <2>1. ~missed => /\ requests = <<>> /\ Written(k + 1) /\ k < num_parts
                   /\ k + 1 # num_parts => replies' = <<>>
    <3>1. replies # <<>> /\ replies[1] = "OK" /\ Len(replies') = Len(replies) - 1
      BY <1>2, <1>8
    <3>2. ~missed => /\ requests = <<>> /\ Written(k + 1) /\ k < num_parts
                     /\ k + 1 # num_parts => Len(replies) = 1
      BY <1>1, <1>4, <3>1 DEF FlashInv, Asked
    <3>3. Len(replies) = 1 => replies' = <<>>
      <4>1. Len(replies) = 1 => Len(replies') = 0
        BY <3>1
      <4> QED
        BY <1>2, <4>1, EmptySeq
    <3> QED
      BY <3>2, <3>3
  <2>2. CASE k + 1 = num_parts
    <3>1. /\ ScriptRecordOK' /\ script'.name = "flash" /\ script'.at = "last"
          /\ requests' = requests /\ State' = State
      BY <1>1, <1>4, <1>5, <1>8, <2>2, GotoFacts DEF FlashWrites
    <3>2. ScriptsTypeOK'
      BY <1>1, <1>2, <1>3, <3>1, TypesOfFlash
    <3>3. FlashInv'
      BY <1>1, <1>6, <2>1, <2>2, <3>1 DEF FlashInv
    <3>4. StateInv'
      BY <1>1, <3>1 DEF StateInv, At, Ended
    <3> QED
      BY <3>1, <3>2, <3>3, <3>4
  <2>3. CASE k + 1 # num_parts
    <3>1. /\ ScriptRecordOK' /\ script'.name = "flash" /\ script'.at = "write"
          /\ script'.index = k + 1 /\ State' = State
      BY <1>1, <1>4, <1>5, <1>8, <2>3, GotoFacts DEF FlashWrites
    <3>2. /\ requests' \in Seq([cmd : Commands, page : Nat])
          /\ requests = <<>> => requests' = <<[cmd |-> "write", page |-> k + 1]>>
      BY <1>4, <1>5, <1>8, <2>3, SendFacts DEF FlashWrites
    <3>3. ScriptsTypeOK'
      BY <1>1, <1>2, <1>3, <3>1, <3>2, TypesOfFlash
    <3>4. FlashInv'
      <4>1. ~missed => k + 1 < num_parts
        BY <1>6, <2>1, <2>3
      <4> QED
        BY <1>1, <1>6, <2>1, <2>3, <3>1, <3>2, <4>1 DEF FlashInv, Asked
    <3>5. StateInv'
      BY <1>1, <3>1 DEF StateInv, At, Ended
    <3> QED
      BY <3>1, <3>3, <3>4, <3>5
  <2> QED
    BY <2>2, <2>3
<1> QED
  BY <1>7, <1>8

(***************************************************************************)
(* The file is written and the chip is reset, or flash raises.             *)
(***************************************************************************)
LEMMA FlashEndsInv ==
  ASSUME ScriptsInv, FlashRaises \/ \E line \in Lines : FlashEnds(line) PROVE ScriptsInv'
<1> USE DEF ScriptsInv
<1>1. /\ replies \in Seq(Replies) /\ requests \in Seq([cmd : Commands, page : Nat])
      /\ board \in [{"mb", "bc"} -> {"boot", "left"}] /\ missed \in BOOLEAN
  BY DEF ScriptsTypeOK, Replies, Commands
<1>2. CASE FlashRaises
  <2>1. /\ ScriptRecordOK' /\ script'.name = "flash" /\ script'.at = "failed" /\ State' = "Fault"
        /\ UNCHANGED <<MbPort, COM_List, board, serialVars>>
    BY <1>2, EndsFacts DEF FlashRaises, Ended
  <2>2. ScriptsTypeOK'
    BY <2>1, TypesOfRest DEF ScriptsTypeOK
  <2>3. StateInv' /\ FlashInv'
    BY <2>1 DEF StateInv, At, Ended, FlashInv
  <2> QED
    BY <2>1, <2>2, <2>3
<1>3. ASSUME NEW line \in Lines, FlashEnds(line) PROVE ScriptsInv'
  <2>1. /\ script.name = "flash" /\ script.at = "last" /\ Ends("ok") /\ requests' = <<>>
        /\ UNCHANGED <<MbPort, COM_List, bin_SIZE, memory, missed>>
        /\ Pulse({"mb"}) /\ Reads(line)
    BY <1>3 DEF FlashEnds, At
  <2>2. ScriptRecordOK' /\ script'.name = "flash" /\ script'.at = "ok" /\ State' = "Boot"
    BY <2>1, EndsFacts DEF Ended
  <2>3. board' \in [{"mb", "bc"} -> {"boot", "left"}] /\ board'["mb"] = "boot"
    <3>1. {"mb"} \in SUBSET {"mb", "bc"}
      OBVIOUS
    <3> QED
      BY <2>1, <3>1, PulseFacts
  <2>4. replies' \in Seq(Replies)
    BY <2>1, ReadsFacts
  <2>5. ScriptsTypeOK'
    <3>1. requests' \in Seq([cmd : Commands, page : Nat])
      BY <2>1
    <3> QED
      BY <1>1, <2>1, <2>2, <2>3, <2>4, <3>1, TypesOfFlash
  <2>6. StateInv'
    BY <2>1, <2>2, <2>3 DEF StateInv, At, Ended
  <2>7. FlashInv'
    <3>1. num_parts' = num_parts /\ (Written(num_parts) => Written(num_parts)')
      BY <2>1 DEF num_parts, Written, FileByte
    <3> QED
      BY <2>1, <2>2, <3>1 DEF FlashInv
  <2> QED
    BY <2>2, <2>5, <2>6, <2>7
<1> QED
  BY <1>2, <1>3

(***************************************************************************)
(* The board stores a page: whatever page it is, every byte the board      *)
(* stores is the file's, and a page that follows the pages written is      *)
(* written.                                                                *)
(***************************************************************************)
LEMMA StoredPage ==
  ASSUME ScriptsTypeOK, NEW page \in Nat, UNCHANGED bin_SIZE,
         memory' = [a \in Addresses |->
                      IF a \div PageSize = page
                      THEN Word(page, (a % PageSize) \div 4)[3 - (a % 4)]
                      ELSE memory[a]]
  PROVE  /\ \A a \in Addresses : memory'[a] \in {memory[a], FileByte(a)}
         /\ page < num_parts /\ Written(page) => Written(page + 1)'
<1>1. bin_SIZE \in FileSizes /\ bin_SIZE \in Nat /\ Addresses \subseteq Nat
  <2>1. Addresses \subseteq Nat
    BY DEF Addresses
  <2> QED
    BY <2>1, ScriptsAssumption DEF ScriptsTypeOK
<1>2. ASSUME NEW a \in Addresses
      PROVE  memory'[a] = IF a \div PageSize = page THEN FileByte(a) ELSE memory[a]
  BY <1>1, WordAt
<1>3. ASSUME page < num_parts, Written(page),
             NEW a \in 0 .. (page + 1) * PageSize - 1
      PROVE  memory'[a] = FileByte(a)
  <2>1. a \in Addresses
    <3>1. num_parts \in Nat /\ 0 .. num_parts * PageSize - 1 \subseteq Addresses
      BY <1>1, PagesFit
    <3>2. (page + 1) * PageSize <= num_parts * PageSize
      BY <1>3, <3>1, ScriptsAssumption
    <3>3. a \in 0 .. num_parts * PageSize - 1
      BY <1>3, <3>1, <3>2, ScriptsAssumption
    <3> QED
      BY <3>1, <3>3
  <2>2. CASE a \div PageSize = page
    BY <1>2, <2>1, <2>2
  <2>3. CASE a \div PageSize # page
    <3>1. a \in 0 .. page * PageSize - 1
      BY <2>3, PageBelow
    <3> QED
      BY <1>2, <1>3, <2>1, <2>3, <3>1 DEF Written
  <2> QED
    BY <2>2, <2>3
<1>4. \A a : FileByte(a)' = FileByte(a)
  BY DEF FileByte
<1> QED
  BY <1>2, <1>3, <1>4 DEF Written

(***************************************************************************)
(* The board answers the next command.                                     *)
(***************************************************************************)
LEMMA BoardAnswersInv == ASSUME ScriptsInv, BoardAnswers PROVE ScriptsInv'
<1> USE DEF ScriptsInv
<1> DEFINE req == Head(requests)
           Sectors == [i \in 1 .. Sector_Num |-> "sector"]
<1>1. /\ requests # <<>> /\ board["mb"] = "boot" /\ requests' = Tail(requests)
      /\ UNCHANGED <<State, MbPort, script, COM_List, bin_SIZE, missed>>
      /\ requests \in Seq([cmd : Commands, page : Nat]) /\ replies \in Seq(Replies)
      /\ board \in [{"mb", "bc"} -> {"boot", "left"}] /\ Sector_Num \in Nat
      /\ bin_SIZE \in FileSizes /\ bin_SIZE \in Nat
  BY ScriptsAssumption DEF BoardAnswers, ScriptsTypeOK, Commands, Replies
<1>2. /\ requests' \in Seq([cmd : Commands, page : Nat]) /\ req \in [cmd : Commands, page : Nat]
      /\ \A r : requests = <<r>> => requests' = <<>> /\ req = r
  <2>1. requests' \in Seq([cmd : Commands, page : Nat]) /\ req \in [cmd : Commands, page : Nat]
    BY <1>1, HeadTailProperties
  <2>2. ASSUME NEW r PROVE Head(<<r>>) = r /\ Tail(<<r>>) = <<>>
    OBVIOUS
  <2> QED
    BY <1>1, <2>1, <2>2
<1>3. \/ memory' = memory
      \/ memory' = [a \in Addresses |-> FF]
      \/ memory' = [a \in Addresses |->
                      IF a \div PageSize = req.page
                      THEN Word(req.page, (a % PageSize) \div 4)[3 - (a % 4)]
                      ELSE memory[a]]
  BY DEF BoardAnswers
<1>4. board' = board \/ board' = [board EXCEPT !["mb"] = "left"]
  BY DEF BoardAnswers, Leaves
<1>5. /\ Append(Sectors, "erased") \in Seq(Replies) /\ Len(Append(Sectors, "erased")) = Sector_Num + 1
      /\ \A i \in 1 .. Sector_Num : Append(Sectors, "erased")[i] = "sector"
  <2>1. Sectors \in Seq(Replies) /\ Len(Sectors) = Sector_Num
    BY <1>1 DEF Replies
  <2> QED
    BY <1>1, <2>1 DEF Replies
<1> HIDE DEF Sectors
<1>6. PICK lines \in Seq(Replies) :
        /\ replies' = replies \o lines
        /\ \/ req.cmd = "restart" /\ Len(lines) = 1 /\ memory' = memory
           \/ req.cmd = "erase" /\ lines = Append(Sectors, "erased")
           \/ req.cmd = "size" /\ Len(lines) = 1 /\ memory' = memory
           \/ req.cmd = "write" /\ lines = <<"error">> /\ memory' = memory
           \/ /\ req.cmd = "write"
              /\ memory' = [a \in Addresses |->
                              IF a \div PageSize = req.page
                              THEN Word(req.page, (a % PageSize) \div 4)[3 - (a % 4)]
                              ELSE memory[a]]
              /\ lines # <<>>
              /\ req.page + 1 # num_parts => Len(lines) = 1
  <2>1. /\ \A l \in Replies : <<l>> \in Seq(Replies) /\ Len(<<l>>) = 1 /\ <<l>> # <<>>
        /\ <<"OK", "update">> \in Seq(Replies) /\ <<"OK", "update">> # <<>>
        /\ {"hello", "OK", "size", "error"} \subseteq Replies
    BY DEF Replies
  <2>2. CASE req.cmd = "restart" /\ Answers(<<"hello">>) /\ UNCHANGED <<memory, board>>
    BY <2>1, <2>2 DEF Answers
  <2>3. CASE req.cmd = "erase" /\ Answers(Append(Sectors, "erased"))
    BY <1>5, <2>3 DEF Answers
  <2>4. CASE req.cmd = "size" /\ (Answers(<<"OK">>) \/ Answers(<<"size">>)) /\ UNCHANGED <<memory, board>>
    BY <2>1, <2>4 DEF Answers
  <2>5. CASE req.cmd = "write" /\ Answers(<<"error">>) /\ UNCHANGED <<memory, board>>
    BY <2>1, <2>5 DEF Answers
  <2>6. CASE /\ req.cmd = "write"
             /\ memory' = [a \in Addresses |->
                             IF a \div PageSize = req.page
                             THEN Word(req.page, (a % PageSize) \div 4)[3 - (a % 4)]
                             ELSE memory[a]]
             /\ IF req.page + 1 = num_parts
                THEN Answers(<<"OK", "update">>) /\ Leaves("mb")
                ELSE Answers(<<"OK">>) /\ UNCHANGED board
    <3>1. CASE req.page + 1 = num_parts
      BY <2>1, <2>6, <3>1 DEF Answers
    <3>2. CASE req.page + 1 # num_parts
      BY <2>1, <2>6, <3>2 DEF Answers
    <3> QED
      BY <3>1, <3>2
  <2> QED
    BY <2>2, <2>3, <2>4, <2>5, <2>6 DEF BoardAnswers, Sectors
<1>7. ScriptsTypeOK'
  <2>1. replies' \in Seq(Replies)
    BY <1>1, <1>6, ConcatProperties
  <2>2. ASSUME NEW a \in Addresses
        PROVE  \/ memory'[a] \in {FF, Old}
               \/ memory'[a].of \in FileSizes /\ memory'[a].at < memory'[a].of
    <3>1. memory'[a] \in {memory[a], FF, FileByte(a)}
      BY <1>1, <1>2, <1>3, StoredPage
    <3>2. a \in Nat
      BY DEF Addresses
    <3>3. FileByte(a) = FF \/ (FileByte(a).of \in FileSizes /\ FileByte(a).at < FileByte(a).of)
      BY <1>1, <3>2 DEF FileByte
    <3> QED
      BY <3>1, <3>3 DEF ScriptsTypeOK
  <2> QED
    <3>1. requests' \in Seq([cmd : {"restart", "erase", "size", "write"}, page : Nat])
      BY <1>1, <1>2 DEF ScriptsTypeOK, Commands
    <3>2. board' \in [{"mb", "bc"} -> {"boot", "left"}]
      BY <1>4 DEF ScriptsTypeOK
    <3>3. /\ State' \in {"Boot", "Running", "Transition", "Fault"}
          /\ MbPort' \in Paths \cup {"none", ""}
          /\ script'.name \in {"reset", "find", "flash", "start"}
          /\ script'.at \in Ended \cup {"begin", "search", "mb", "bc", "hello", "erase", "size",
                                       "write", "last"}
          /\ script'.index \in Nat /\ script'.found \subseteq {"mb", "bc"}
          /\ COM_List' \in PortLists /\ bin_SIZE' \in FileSizes /\ missed' \in BOOLEAN
      BY <1>1 DEF ScriptsTypeOK
    <3> QED
      BY <2>1, <2>2, <3>1, <3>2, <3>3 DEF ScriptsTypeOK, Replies
<1>8. StateInv'
  BY <1>1, <1>4 DEF StateInv, At
<1>9. FlashInv'
  <2> SUFFICES ASSUME script.name = "flash", ~missed PROVE FlashInv'
    BY <1>1 DEF FlashInv
  <2>1. replies = <<>> => replies' = lines
    BY <1>6
  <2>2. num_parts' = num_parts /\ num_parts \in Nat
    BY <1>1, PagesFit DEF num_parts
  <2>3. script.at \notin {"search", "last", "ok"}
    BY <1>1 DEF FlashInv, Answered
  <2>4. CASE script.at = "hello"
    <3>1. Asked("restart", 0)
      BY <1>1, <2>4 DEF FlashInv, Answered
    <3>2. req.cmd = "restart" /\ requests' = <<>> /\ replies' = lines
      BY <1>2, <2>1, <3>1 DEF Asked
    <3> QED
      BY <1>1, <1>6, <2>4, <3>2 DEF FlashInv, Answered
  <2>5. CASE script.at = "size"
    <3>1. Asked("size", 0)
      BY <1>1, <2>5 DEF FlashInv, Answered
    <3>2. req.cmd = "size" /\ requests' = <<>> /\ replies' = lines
      BY <1>2, <2>1, <3>1 DEF Asked
    <3> QED
      BY <1>1, <1>6, <2>5, <3>2 DEF FlashInv, Answered
  <2>6. CASE script.at = "erase"
    <3>1. script.index = 0 /\ Asked("erase", 0)
      BY <1>1, <2>6 DEF FlashInv, Answered
    <3>2. req.cmd = "erase" /\ requests' = <<>> /\ replies' = Append(Sectors, "erased")
      BY <1>2, <1>6, <2>1, <3>1 DEF Asked
    <3>3. /\ 0 <= Sector_Num /\ Len(replies') = Sector_Num + 1 - 0
          /\ \A i \in 1 .. Sector_Num - 0 : replies'[i] # "erased"
      BY <1>1, <1>5, <3>2
    <3> QED
      BY <1>1, <2>6, <3>1, <3>2, <3>3 DEF FlashInv, Answered
  <2>7. CASE script.at = "write"
    <3>1. PICK k \in Nat : k = script.index
      BY DEF ScriptsTypeOK
    <3>2. Asked("write", k) \/ requests = <<>>
      BY <2>7, <3>1 DEF FlashInv, Answered
    <3>3. Asked("write", k) /\ Written(k) /\ k < num_parts
      BY <1>1, <2>7, <3>1, <3>2 DEF FlashInv
    <3>4. req.cmd = "write" /\ req.page = k /\ requests' = <<>> /\ replies' = lines
      BY <1>2, <2>1, <3>3 DEF Asked
    <3>5. CASE lines = <<"error">> /\ memory' = memory
      <4>1. Written(k)'
        BY <1>1, <3>3, <3>5 DEF Written, FileByte
      <4>2. Len(replies') = 1 /\ replies'[1] = "error"
        BY <3>4, <3>5
      <4> QED
        BY <1>1, <2>2, <2>7, <3>1, <3>3, <3>4, <4>1, <4>2 DEF FlashInv, Answered
    <3>6. CASE /\ memory' = [a \in Addresses |->
                               IF a \div PageSize = req.page
                               THEN Word(req.page, (a % PageSize) \div 4)[3 - (a % 4)]
                               ELSE memory[a]]
               /\ lines # <<>> /\ (req.page + 1 # num_parts => Len(lines) = 1)
      <4>1. Written(k + 1)'
        <5> HIDE DEF req
        <5> QED
          BY <1>1, <3>3, <3>4, <3>6, StoredPage
      <4>2. Written(k)'
        <5>1. k * PageSize <= (k + 1) * PageSize /\ k * PageSize \in Nat /\ (k + 1) * PageSize \in Nat
          BY ScriptsAssumption
        <5>2. 0 .. k * PageSize - 1 \subseteq 0 .. (k + 1) * PageSize - 1
          BY <5>1
        <5> QED
          BY <4>1, <5>2 DEF Written
      <4> QED
        BY <1>1, <2>2, <2>7, <3>1, <3>3, <3>4, <3>6, <4>1, <4>2 DEF FlashInv
    <3> QED
      BY <1>6, <3>4, <3>5, <3>6
  <2>8. CASE script.at \notin {"search", "hello", "erase", "size", "write", "last", "ok"}
    BY <1>1, <2>8 DEF FlashInv
  <2> QED
    BY <2>3, <2>4, <2>5, <2>6, <2>7, <2>8
<1>10. ScriptRecordOK'
  BY <1>1 DEF ScriptRecordOK
<1> QED
  BY <1>7, <1>8, <1>9, <1>10

-----------------------------------------------------------------------------
(***************************************************************************)
(* Theorems                                                                *)
(***************************************************************************)

(***************************************************************************)
(* The inductive invariant holds in every reachable state.                 *)
(***************************************************************************)
THEOREM ScriptsInvariant == ScriptsSpec => []ScriptsInv
<1>1. ScriptsInit => ScriptsInv
  <2> SUFFICES ASSUME ScriptsInit PROVE ScriptsInv
    OBVIOUS
  <2>1. ScriptRecordOK
    BY DEF ScriptsInit, ScriptRecordOK, Places
  <2>2. ScriptsTypeOK
    <3>1. script.name = "reset" /\ script.at = "begin" /\ script.index = 0 /\ script.found = {}
      BY DEF ScriptsInit
    <3>2. \A a \in Addresses : memory[a] = Old
      BY DEF ScriptsInit
    <3>3. /\ requests \in Seq([cmd : {"restart", "erase", "size", "write"}, page : Nat])
          /\ replies \in Seq({"hello", "sector", "erased", "OK", "error", "size", "update"})
      BY DEF ScriptsInit
    <3> QED
      BY <3>1, <3>2, <3>3 DEF ScriptsInit, ScriptsTypeOK
  <2>3. StateInv /\ FlashInv
    BY DEF ScriptsInit, StateInv, At, Ended, FlashInv
  <2> QED
    BY <2>1, <2>2, <2>3 DEF ScriptsInv
<1>2. ScriptsInv /\ [ScriptsNext]_scriptVars => ScriptsInv'
  <2> SUFFICES ASSUME ScriptsInv, [ScriptsNext]_scriptVars PROVE ScriptsInv'
    OBVIOUS
  <2>1. CASE UNCHANGED scriptVars
    <3>1. UNCHANGED <<State, MbPort, script, COM_List, board, bin_SIZE, memory, requests, replies, missed>>
      BY <2>1 DEF scriptVars
    <3>2. ScriptRecordOK'
      BY <3>1 DEF ScriptsInv, ScriptRecordOK
    <3>3. ScriptsTypeOK'
      BY <3>1, <3>2, TypesOfRest DEF ScriptsInv, ScriptsTypeOK, serialVars
    <3>4. StateInv'
      BY <3>1 DEF ScriptsInv, StateInv, At
    <3>5. FlashInv'
      BY <3>1 DEF ScriptsInv, FlashInv, Asked, Answered, Written, FileByte, num_parts
    <3> QED
      BY <3>2, <3>3, <3>4, <3>5 DEF ScriptsInv
  <2>2. CASE \E name \in {"find", "reset", "flash", "start"} : Begin(name)
    BY <2>2, BeginInv
  <2>3. CASE BoardAnswers
    BY <2>3, BoardAnswersInv
  <2>4. CASE ScriptStep
    <3>1. CASE FlashStep
      BY <3>1, FlashPreparesInv, FlashWritesInv, FlashEndsInv DEF FlashStep
    <3> QED
      BY <2>4, <3>1, SetupInv, SearchInv, FoundInv, StartInv, FlashAnsweredInv DEF ScriptStep
  <2> QED
    BY <2>1, <2>2, <2>3, <2>4 DEF ScriptsNext
<1> QED
  BY <1>1, <1>2, PTL DEF ScriptsSpec

(***************************************************************************)
(* The scripts, the boards and the lines between them keep their types.    *)
(***************************************************************************)
THEOREM ScriptsTypeCorrect == ScriptsSpec => []ScriptsTypeOK
<1>1. ScriptsInv => ScriptsTypeOK
  BY DEF ScriptsInv
<1> QED
  BY <1>1, ScriptsInvariant, PTL

(***************************************************************************)
(* For a file of any size and pages of any size, a flash script that ends  *)
(* with success, and missed none of the answers it does not check, has put *)
(* the file on the chip byte by byte.                                      *)
(***************************************************************************)
THEOREM FlashIsFaithful == ScriptsSpec => []FlashedIsFile
<1>1. ScriptsInv => FlashedIsFile
  <2> SUFFICES ASSUME ScriptsInv, At({"flash"}, "ok"), ~missed,
                      NEW a \in 0 .. num_parts * PageSize - 1
               PROVE  memory[a] = IF a < bin_SIZE THEN [of |-> bin_SIZE, at |-> a] ELSE FF
    BY DEF FlashedIsFile
  <2>1. memory[a] = FileByte(a)
    BY DEF ScriptsInv, FlashInv, At, Written
  <2>2. bin_SIZE \in FileSizes
    BY DEF ScriptsInv, ScriptsTypeOK
  <2>3. bin_SIZE \in Nat
    BY <2>2, ScriptsAssumption
  <2> QED
    BY <2>1, <2>3 DEF FileByte
<1> QED
  BY <1>1, ScriptsInvariant, PTL

(***************************************************************************)
(* Boot is true of the motherboard, for every order of scripts, however    *)
(* they fail and however late the board answers; and Running is reported   *)
(* only after a start that both boards had answered.                       *)
(***************************************************************************)
THEOREM StatusIsTrue == ScriptsSpec => []StatusTrue
<1>1. ScriptsInv => StatusTrue
  BY DEF ScriptsInv, StateInv, StatusTrue
<1> QED
  BY <1>1, ScriptsInvariant, PTL
=============================================================================
