----------------------------- MODULE CLI_proofs -----------------------------
(***************************************************************************)
(* Proofs about CLI, for any command lines, any number of words in them    *)
(* and any connection.                                                     *)
(***************************************************************************)
EXTENDS CLI, RPCChannel_proofs

-----------------------------------------------------------------------------
(***************************************************************************)
(* Run and the help text                                                   *)
(***************************************************************************)

\* The words read so far are the first ones of the line.
Prefix(c, line) ==
  /\ c \in Seq(STRING) /\ line \in Seq(STRING) /\ Len(c) < Len(line)
  /\ \A i \in 1 .. Len(c) : c[i] = line[i + 1]

\* Run has read c: everything but its last word was waiting for more.
Reached(c) ==
  \/ Len(c) = 1
  \/ Len(c) = 2 /\ c[1] \in {"chip", "daemon", "debug"}
  \/ Len(c) = 3 /\ c[1] = "chip" /\ c[2] = "flash"

(***************************************************************************)
(* The groups of commands.                                                 *)
(***************************************************************************)
LEMMA Groups ==
  /\ DOMAIN Subcommands = {"chip", "daemon", "debug"}
  /\ Subcommands["chip"] = {"start", "stop", "flash", "status"}
  /\ Subcommands["daemon"] = {"start", "stop", "status", "kill", "logs"}
  /\ Subcommands["debug"] = {"start", "throw", "block", "connect", "disconnect"}
BY DEF Subcommands

(***************************************************************************)
(* The help text, line by line: its words are Run's branches.              *)
(***************************************************************************)
LEMMA HelpLines ==
  ASSUME NEW h \in HelpText
  PROVE  /\ Len(h) \in 1 .. 3 /\ DOMAIN h = 1 .. Len(h)
         /\ h[1] \in {"help", "chip", "daemon", "debug"}
         /\ h[1] = "help" <=> Len(h) = 1
         /\ Len(h) >= 2 => h[2] \in Subcommands[h[1]]
         /\ Len(h) = 3 <=> Len(h) >= 2 /\ h[1] = "chip" /\ h[2] = "flash"
<1>1. CASE h = <<"help">>
  BY <1>1
<1>2. CASE h = <<"chip", "flash", "<PATH>">>
  BY <1>2, Groups
<1>3. ASSUME NEW group \in {"chip", "daemon", "debug"}, NEW word \in Subcommands[group],
             h = <<group, word>>, group = "chip" => word # "flash"
      PROVE  /\ Len(h) = 2 /\ DOMAIN h = 1 .. 2 /\ h[1] = group /\ h[2] = word
             /\ ~(h[1] = "chip" /\ h[2] = "flash") /\ h[1] # "help"
  BY <1>3
<1>4. CASE h \in {<<"chip", "start">>, <<"chip", "stop">>, <<"chip", "status">>}
  <2>1. \E word \in Subcommands["chip"] : h = <<"chip", word>> /\ word # "flash"
    BY <1>4, Groups
  <2> QED
    BY <1>3, <2>1
<1>5. CASE h \in {<<"daemon", "start">>, <<"daemon", "stop">>, <<"daemon", "status">>,
                  <<"daemon", "logs">>, <<"daemon", "kill">>}
  <2>1. \E word \in Subcommands["daemon"] : h = <<"daemon", word>>
    BY <1>5, Groups
  <2> QED
    BY <1>3, <2>1
<1>6. CASE h \in {<<"debug", "start">>, <<"debug", "block">>, <<"debug", "throw">>,
                  <<"debug", "connect">>, <<"debug", "disconnect">>}
  <2>1. \E word \in Subcommands["debug"] : h = <<"debug", word>>
    BY <1>6, Groups
  <2> QED
    BY <1>3, <2>1
<1> QED
  BY <1>1, <1>2, <1>4, <1>5, <1>6, Zenon DEF HelpText

(***************************************************************************)
(* Run accepts only what the help text lists.                              *)
(***************************************************************************)
LEMMA MatchedIsDocumented ==
  ASSUME NEW c, NEW line, Prefix(c, line), Reached(c), Matches(c) PROVE Documented(line)
<1> USE DEF Prefix
<1>1. CASE Len(c) = 1
  <2>1. c = <<"help">>
    BY <1>1 DEF Matches
  <2>2. <<"help">> \in HelpText
    BY DEF HelpText
  <2> QED
    BY <2>1, <2>2 DEF Documented
<1>2. CASE Len(c) = 2
  <2>1. /\ c[1] \in {"chip", "daemon", "debug"} /\ c[2] \in Subcommands[c[1]]
        /\ c = <<c[1], c[2]>> /\ c # <<"chip", "flash">>
    BY <1>2, Groups DEF Matches, Unfinished
  <2>2. ~(c[1] = "chip" /\ c[2] = "flash")
    BY <2>1
  <2>3. <<c[1], c[2]>> \in HelpText
    BY <2>1, <2>2, Groups DEF HelpText
  <2>4. DOMAIN c = 1 .. 2
    BY <1>2
  <2> QED
    BY <1>2, <2>1, <2>3, <2>4 DEF Documented
<1>3. CASE Len(c) = 3
  <2>1. c[1] = line[2] /\ c[2] = line[3] /\ c[1] = "chip" /\ c[2] = "flash" /\ 3 < Len(line)
    BY <1>3 DEF Reached
  <2> DEFINE h == <<"chip", "flash", "<PATH>">>
  <2>2. h \in HelpText /\ DOMAIN h = 1 .. 3 /\ Len(h) = 3
    BY DEF HelpText
  <2>3. \A i \in DOMAIN h : h[i] \in {line[i + 1], "<PATH>"}
    <3>1. h[1] = line[1 + 1] /\ h[2] = line[2 + 1] /\ h[3] = "<PATH>"
      <4>1. 1 + 1 = 2 /\ 2 + 1 = 3
        OBVIOUS
      <4> QED
        BY <2>1, <4>1
    <3>2. \A i \in DOMAIN h : i = 1 \/ i = 2 \/ i = 3
      BY <2>2
    <3> QED
      BY <3>1, <3>2
  <2> QED
    BY <2>1, <2>2, <2>3 DEF Documented
<1> QED
  BY <1>1, <1>2, <1>3 DEF Reached

(***************************************************************************)
(* What Run has read leads into the help text up to its last word.         *)
(***************************************************************************)
LEMMA ReachedLeads ==
  ASSUME NEW c, NEW line, Prefix(c, line), Reached(c) PROVE Leads(line, Len(c) - 1)
<1> USE DEF Prefix
<1>1. CASE Len(c) = 1
  <2>1. <<"help">> \in HelpText /\ Len(<<"help">>) >= 0
    BY DEF HelpText
  <2> QED
    BY <1>1, <2>1 DEF Leads
<1>2. CASE Len(c) = 2
  <2>1. <<c[1], "start">> \in HelpText /\ Len(<<c[1], "start">>) = 2
    BY <1>2 DEF Reached, HelpText
  <2> QED
    BY <1>2, <2>1 DEF Leads
<1>3. CASE Len(c) = 3
  <2> DEFINE h == <<"chip", "flash", "<PATH>">>
  <2>1. h \in HelpText /\ Len(h) = 3
    BY DEF HelpText
  <2>2. h[1] = line[1 + 1] /\ h[2] = line[2 + 1]
    BY <1>3 DEF Reached
  <2>3. \A i \in 1 .. 2 : i = 1 \/ i = 2
    OBVIOUS
  <2>4. \A i \in 1 .. 2 : h[i] \in {line[i + 1], "<PATH>"}
    BY <2>2, <2>3
  <2> HIDE DEF h
  <2> QED
    BY <1>3, <2>1, <2>4 DEF Leads
<1> QED
  BY <1>1, <1>2, <1>3 DEF Reached

(***************************************************************************)
(* A word Run does not know leads nowhere in the help text.                *)
(***************************************************************************)
LEMMA UnknownIsUndocumented ==
  ASSUME NEW c, NEW line, Prefix(c, line), Reached(c), ~Unfinished(c), ~Matches(c)
  PROVE  ~Documented(line) /\ ~Leads(line, Len(c))
<1> USE DEF Prefix
<1>1. ASSUME NEW h \in HelpText,
             \/ Len(h) < Len(line) /\ \A i \in DOMAIN h : h[i] \in {line[i + 1], "<PATH>"}
             \/ Len(h) >= Len(c) /\ \A i \in 1 .. Len(c) : h[i] \in {line[i + 1], "<PATH>"}
      PROVE  FALSE
  <2>1. c[1] = line[2] /\ h[1] = c[1]
    <3>1. Len(c) \in Nat \ {0} /\ c[1] = line[2]
      BY DEF Reached
    <3>2. /\ Len(h) \in 1 .. 3 /\ DOMAIN h = 1 .. Len(h)
          /\ h[1] \in {"help", "chip", "daemon", "debug"}
      BY HelpLines
    <3>3. h[1] \in {line[2], "<PATH>"}
      BY <1>1, <3>1, <3>2
    <3> QED
      BY <3>1, <3>2, <3>3
  <2>2. CASE Len(c) = 1
    <3>1. c = <<c[1]>>
      BY <2>2
    <3>2. c[1] \notin {"help", "chip", "daemon", "debug"}
      BY <3>1 DEF Matches, Unfinished
    <3> QED
      BY <2>1, <3>2, HelpLines
  <2>3. CASE Len(c) = 2
    <3>1. c = <<c[1], c[2]>> /\ c[2] = line[3] /\ c[1] \in {"chip", "daemon", "debug"}
      BY <2>3 DEF Reached
    <3>2. c[2] \notin Subcommands[c[1]]
      BY <2>3, <3>1, Groups DEF Matches, Unfinished
    <3>3. Len(h) \in 2 .. 3 /\ h[2] \in Subcommands[c[1]] /\ DOMAIN h = 1 .. Len(h)
      BY <2>1, <3>1, HelpLines
    <3>5. h[2] # "<PATH>" /\ 2 \in DOMAIN h
      BY <3>1, <3>3, Groups
    <3>4. h[2] = line[3]
      BY <1>1, <2>3, <3>3, <3>5
    <3> QED
      BY <3>1, <3>2, <3>3, <3>4
  <2>4. Len(c) # 3
    BY DEF Matches
  <2> QED
    BY <2>2, <2>3, <2>4 DEF Reached
<1> QED
  BY <1>1 DEF Documented, Leads

(***************************************************************************)
(* A line that stops while Run waits for a word is in no line of the help  *)
(* text.                                                                   *)
(***************************************************************************)
LEMMA UnfinishedIsUndocumented ==
  ASSUME NEW c, NEW line, Prefix(c, line), Unfinished(c), Len(line) = Len(c) + 1
  PROVE  ~Documented(line)
<1> USE DEF Prefix
<1>1. ASSUME NEW h \in HelpText, Len(h) < Len(line),
             \A i \in DOMAIN h : h[i] \in {line[i + 1], "<PATH>"}
      PROVE  FALSE
  <2>1. /\ \/ Len(c) = 1 /\ c[1] \in {"chip", "daemon", "debug"}
           \/ Len(c) = 2 /\ c[1] = "chip" /\ c[2] = "flash"
        /\ c[1] = line[2]
    <3>1. CASE c = <<"chip">> \/ c = <<"daemon">> \/ c = <<"debug">>
      BY <3>1
    <3>2. CASE c = <<"chip", "flash">>
      BY <3>2
    <3> QED
      BY <3>1, <3>2 DEF Unfinished
  <2>2. h[1] = c[1] /\ Len(h) >= 2
    BY <1>1, <2>1, HelpLines
  <2>3. Len(c) = 2 /\ Len(h) = 2
    BY <1>1, <2>1, <2>2, HelpLines
  <2>4. h[2] \in Subcommands["chip"] /\ h[1] = "chip" /\ 2 \in DOMAIN h /\ h[2] # "flash"
    <3>1. h[1] = "chip"
      BY <2>1, <2>2, <2>3
    <3>2. h[2] \in Subcommands[h[1]] /\ DOMAIN h = 1 .. 2
      BY <2>3, HelpLines
    <3>3. ~(h[1] = "chip" /\ h[2] = "flash")
      <4>1. Len(h) >= 2 /\ h[1] = "chip" /\ h[2] = "flash" => Len(h) = 3
        BY HelpLines
      <4> QED
        BY <2>3, <4>1
    <3> QED
      BY <3>1, <3>2, <3>3
  <2>5. h[2] \in {line[3], "<PATH>"} /\ line[3] = "flash"
    BY <1>1, <2>1, <2>3, <2>4
  <2> QED
    BY <2>4, <2>5, Groups
<1> QED
  BY <1>1 DEF Documented

-----------------------------------------------------------------------------
(***************************************************************************)
(* The connection of a command                                             *)
(***************************************************************************)

(***************************************************************************)
(* Whatever the command, its client makes the calls of a Client and the    *)
(* daemon has a procedure for them: a connection of the CLI is a           *)
(* connection of RPCChannel.                                               *)
(***************************************************************************)
LEMMA CLIChannelStep == [CLINext]_allVars => [ChannelNext]_channelVars
<1> SUFFICES ASSUME CLINext, ~UNCHANGED channelVars PROVE ChannelNext
  BY DEF allVars
<1>1. ASSUME MakeCall PROVE ChannelNext
  <2>1. ProcOf(cmd) \in {Flash, Start, Connect, Disconnect, Reset, GetStatus, Shutdown, Ping,
                         DebugThrow, DebugBlock}
    BY DEF ProcOf
  <2> QED
    BY <1>1, <2>1, CLIAssumption DEF MakeCall, ChannelNext
<1>2. ASSUME Waiting \/ SayGoodbye \/ ReportError \/ Interrupted PROVE ChannelNext
  BY <1>2 DEF Waiting, SayGoodbye, ReportError, Interrupted, ChannelNext
<1>3. ASSUME LibraryStep PROVE ChannelNext
  BY <1>3, CLIAssumption DEF LibraryStep, ChannelNext
<1>4. ASSUME DaemonStep PROVE ChannelNext
  BY <1>4 DEF ChannelNext
<1> QED
  BY <1>1, <1>2, <1>3, <1>4
     DEF CLINext, CLIStep, EmptyCall, SkipName, MatchWord, UnexpectedEnd, MakeClientFails, ReportLoss

(***************************************************************************)
(* So what is proved of a connection holds for every command and every     *)
(* program that uses Client.                                               *)
(***************************************************************************)
THEOREM CLIUsesChannel == CLISpec => ChannelSpec
<1>1. CLIInit => ChannelInit
  BY DEF CLIInit
<1> QED
  BY <1>1, CLIChannelStep, PTL DEF CLISpec, ChannelSpec

-----------------------------------------------------------------------------
(***************************************************************************)
(* Reading the command line                                                *)
(***************************************************************************)
LineTypeOK ==
  /\ Tokens \in CommandLines \cup {<<>>}
  /\ CurrentToken \in 0 .. Len(Tokens)
  /\ PrevToken \in 0 .. Len(Tokens)
  /\ cli \in {"run", "connect", "call", "end"}
  /\ says \in {"nothing", "done", "error", "syntax", "killed"}
  /\ says = "nothing" <=> cli # "end"

\* Run holds the words it has read, and reads on only where a word is due.
ReadInv ==
  /\ cmd \in Seq(STRING) /\ Len(cmd) <= 3
  /\ CurrentToken = 0 => PrevToken = 0 /\ cmd = <<>>
  /\ CurrentToken > 0 =>
       /\ Len(Tokens) > 1 /\ PrevToken = CurrentToken - 1 /\ Len(cmd) = CurrentToken - 1
       /\ Prefix(cmd, Tokens)
  /\ cli = "run" => cmd = <<>> \/ Unfinished(cmd)
  /\ cli \in {"connect", "call"} => Documented(Tokens)

LineInv == LineTypeOK /\ ReadInv /\ ParsesAsHelp

(***************************************************************************)
(* One more word of the line.                                              *)
(***************************************************************************)
LEMMA MatchWordInv == LineInv /\ MatchWord => LineInv'
<1> SUFFICES ASSUME LineInv, MatchWord PROVE LineInv'
  OBVIOUS
<1> USE DEF LineInv
<1>1. /\ Tokens \in Seq(STRING) /\ Len(Tokens) \in Nat /\ CurrentToken \in 1 .. Len(Tokens) - 1
      /\ PrevToken' = CurrentToken /\ CurrentToken' = CurrentToken + 1 /\ Tokens' = Tokens
      /\ cmd' = Append(cmd, Tokens[CurrentToken + 1]) /\ CurrentToken \in Int
  BY CLIAssumption DEF LineTypeOK, MatchWord, GetNextToken
<1>2. /\ cmd \in Seq(STRING) /\ Len(cmd) = CurrentToken - 1 /\ Tokens[CurrentToken + 1] \in STRING
      /\ \A i \in 1 .. Len(cmd) : cmd[i] = Tokens[i + 1]
      /\ cmd = <<>> \/ Unfinished(cmd)
  BY <1>1 DEF ReadInv, Prefix, MatchWord
<1>3. /\ cmd' \in Seq(STRING) /\ Len(cmd') = CurrentToken
      /\ \A i \in 1 .. Len(cmd) : cmd'[i] = cmd[i]
      /\ cmd'[CurrentToken] = Tokens[CurrentToken + 1]
  BY <1>1, <1>2
<1>4. Prefix(cmd', Tokens)
  BY <1>1, <1>2, <1>3 DEF Prefix
<1>5. Reached(cmd')
  <2>1. CASE cmd = <<>>
    BY <1>1, <1>2, <1>3, <2>1 DEF Reached
  <2>2. CASE cmd = <<"chip">> \/ cmd = <<"daemon">> \/ cmd = <<"debug">>
    <3>1. Len(cmd) = 1 /\ cmd[1] \in {"chip", "daemon", "debug"}
      BY <2>2
    <3>2. cmd'[1] = cmd[1]
      BY <1>3, <3>1
    <3>3. Len(cmd') = 2
      <4>1. CurrentToken \in Int /\ CurrentToken - 1 = 1
        BY <1>1, <1>2, <3>1, Zenon
      <4>2. CurrentToken = 2
        BY <4>1
      <4> QED
        BY <1>3, <4>2
    <3> QED
      BY <3>1, <3>2, <3>3 DEF Reached
  <2>3. CASE cmd = <<"chip", "flash">>
    <3>1. Len(cmd) = 2 /\ cmd[1] = "chip" /\ cmd[2] = "flash"
      BY <2>3
    <3>2. cmd'[1] = cmd[1] /\ cmd'[2] = cmd[2]
      BY <1>3, <3>1
    <3>3. Len(cmd') = 3
      <4>1. CurrentToken \in Int /\ CurrentToken - 1 = 2
        BY <1>1, <1>2, <3>1, Zenon
      <4>2. CurrentToken = 3
        BY <4>1
      <4> QED
        BY <1>3, <4>2
    <3> QED
      BY <3>1, <3>2, <3>3 DEF Reached
  <2> QED
    BY <1>2, <2>1, <2>2, <2>3 DEF Unfinished
<1>6. Matches(cmd') => Documented(Tokens)
  BY <1>4, <1>5, MatchedIsDocumented
<1>7. ~Unfinished(cmd') /\ ~Matches(cmd') =>
        ~Documented(Tokens) /\ ~Leads(Tokens, Len(cmd')) /\ Leads(Tokens, Len(cmd') - 1)
  BY <1>4, <1>5, UnknownIsUndocumented, ReachedLeads
<1>8. /\ cli = "run" /\ says = "nothing"
      /\ \/ cli' = "run" /\ says' = says /\ Unfinished(cmd')
         \/ cli' = "connect" /\ says' = says /\ Matches(cmd')
         \/ cli' = "end" /\ says' \in {"done", "error"} /\ Matches(cmd')
         \/ cli' = "end" /\ says' = "syntax" /\ ~Unfinished(cmd') /\ ~Matches(cmd')
  BY DEF MatchWord, DoLocally, DoDaemonStatus, UnknownToken, Ends, LineTypeOK
<1>9. LineTypeOK'
  BY <1>1, <1>8 DEF LineTypeOK
<1>10. ReadInv'
  <2>1. Len(cmd') <= 3
    <3>1. Len(cmd') = 1 \/ Len(cmd') = 2 \/ Len(cmd') = 3
      BY <1>5, Zenon DEF Reached
    <3>2. \A k \in Int : k = 1 \/ k = 2 \/ k = 3 => k <= 3
      OBVIOUS
    <3>3. Len(cmd') \in Int
      BY <1>3, LenProperties
    <3> QED
      BY <3>1, <3>2, <3>3, Zenon
  <2> QED
    BY <1>1, <1>3, <1>4, <1>6, <1>8, <2>1 DEF ReadInv
<1>11. ParsesAsHelp'
  <2>1. Leads(Tokens, PrevToken' - 1) <=> Leads(Tokens, Len(cmd') - 1)
    BY <1>1, <1>3
  <2>2. Leads(Tokens, PrevToken') <=> Leads(Tokens, Len(cmd'))
    BY <1>1, <1>3
  <2> QED
    BY <1>1, <1>6, <1>7, <1>8, <2>1, <2>2 DEF ParsesAsHelp
<1> QED
  BY <1>9, <1>10, <1>11

(***************************************************************************)
(* The line ends while a word is due.                                      *)
(***************************************************************************)
LEMMA UnexpectedEndInv == LineInv /\ UnexpectedEnd => LineInv'
<1> SUFFICES ASSUME LineInv, UnexpectedEnd PROVE LineInv'
  OBVIOUS
<1> USE DEF LineInv
<1>1. /\ cli = "run" /\ cli' = "end" /\ says' = "syntax"
      /\ CurrentToken > 0 /\ CurrentToken = Len(Tokens) /\ Len(Tokens) \in Nat
      /\ UNCHANGED <<Tokens, CurrentToken, PrevToken, cmd>>
  BY DEF UnexpectedEnd, Ends, LineTypeOK
<1>2. /\ Len(cmd) = Len(Tokens) - 1 /\ Len(Tokens) > 1 /\ PrevToken = Len(Tokens) - 1
      /\ Prefix(cmd, Tokens) /\ Unfinished(cmd)
  BY <1>1 DEF ReadInv
<1>3. ~Documented(Tokens)
  BY <1>1, <1>2, UnfinishedIsUndocumented
<1>4. Reached(cmd)
  <2>1. CASE cmd = <<"chip">> \/ cmd = <<"daemon">> \/ cmd = <<"debug">>
    BY <2>1 DEF Reached
  <2>2. CASE cmd = <<"chip", "flash">>
    BY <2>2 DEF Reached
  <2> QED
    BY <1>2, <2>1, <2>2 DEF Unfinished
<1>5. Leads(Tokens, Len(cmd) - 1)
  BY <1>2, <1>4, ReachedLeads
<1>6. ParsesAsHelp'
  BY <1>1, <1>2, <1>3, <1>5 DEF ParsesAsHelp
<1>7. LineTypeOK' /\ ReadInv'
  BY <1>1 DEF LineTypeOK, ReadInv
<1> QED
  BY <1>6, <1>7

(***************************************************************************)
(* The steps that read no word.                                            *)
(***************************************************************************)
LEMMA NoWordInv ==
  ASSUME LineInv, UNCHANGED <<Tokens, CurrentToken, PrevToken, cmd>>,
         \/ UNCHANGED <<cli, says>>
         \/ cli = "connect" /\ cli' = "call" /\ says' = says
         \/ cli \in {"connect", "call"} /\ cli' = "end" /\ says' \in {"done", "error"}
         \/ Len(Tokens) = 1 /\ cli' = "end" /\ says' = "done"
         \/ cli' = "end" /\ says' = "killed"
  PROVE  LineInv'
<1>1. LineTypeOK'
  BY DEF LineInv, LineTypeOK
<1>2. ReadInv'
  BY DEF LineInv, ReadInv
<1>3. ParsesAsHelp'
  BY DEF LineInv, ReadInv, ParsesAsHelp
<1> QED
  BY <1>1, <1>2, <1>3 DEF LineInv

(***************************************************************************)
(* Every step of the CLI keeps the invariant of its command line.          *)
(***************************************************************************)
LEMMA LineStepInv == LineInv /\ [CLINext]_allVars => LineInv'
<1> SUFFICES ASSUME LineInv, [CLINext]_allVars PROVE LineInv'
  OBVIOUS
<1>1. CASE MatchWord
  BY <1>1, MatchWordInv
<1>2. CASE UnexpectedEnd
  BY <1>2, UnexpectedEndInv
<1>3. CASE SkipName
  <2>1. /\ CurrentToken = 0 /\ Len(Tokens) > 1 /\ PrevToken' = 0 /\ CurrentToken' = 1
        /\ UNCHANGED <<Tokens, cmd, cli, says>> /\ Tokens \in Seq(STRING) /\ cmd = <<>>
    BY <1>3, CLIAssumption DEF SkipName, GetNextToken, LineInv, LineTypeOK, ReadInv
  <2>2. Len(cmd) = 0 /\ cmd \in Seq(STRING) /\ Len(Tokens) \in Nat
    BY <2>1
  <2>3. LineTypeOK'
    BY <2>1, <2>2 DEF LineInv, LineTypeOK
  <2>4. ReadInv'
    BY <2>1, <2>2 DEF LineInv, ReadInv, Prefix
  <2>5. ParsesAsHelp'
    <3>1. says = "nothing"
      BY <1>3 DEF SkipName, LineInv, LineTypeOK
    <3> QED
      BY <2>1, <3>1 DEF ParsesAsHelp
  <2> QED
    BY <2>3, <2>4, <2>5 DEF LineInv
<1>4. CASE EmptyCall
  BY <1>4, NoWordInv DEF EmptyCall, Ends
<1>5. CASE MakeClientFails \/ MakeCall \/ Waiting \/ SayGoodbye \/ ReportError \/ ReportLoss
  BY <1>5, NoWordInv DEF MakeClientFails, MakeCall, Waiting, SayGoodbye, ReportError, ReportLoss,
                         Answered, Ends, cliVars
<1>6. CASE Interrupted
  BY <1>6, NoWordInv DEF Interrupted, Ends
<1>7. CASE UNCHANGED cliVars
  BY <1>7, NoWordInv DEF cliVars
<1> QED
  BY <1>1, <1>2, <1>3, <1>4, <1>5, <1>6, <1>7 DEF CLINext, CLIStep, LibraryStep, allVars

(***************************************************************************)
(* A command line is read from its start.                                  *)
(***************************************************************************)
LEMMA LineInitInv == CLIInit => LineInv
<1> SUFFICES ASSUME CLIInit PROVE LineInv
  OBVIOUS
<1>1. /\ Tokens \in CommandLines \cup {<<>>} /\ CurrentToken = 0 /\ PrevToken = 0 /\ cmd = <<>>
      /\ cli = "run" /\ says = "nothing" /\ Len(Tokens) \in Nat
  BY CLIAssumption DEF CLIInit
<1>2. cmd \in Seq(STRING) /\ Len(cmd) = 0
  BY <1>1
<1>3. LineTypeOK /\ ParsesAsHelp
  BY <1>1 DEF LineTypeOK, ParsesAsHelp
<1>4. ReadInv
  BY <1>1, <1>2 DEF ReadInv
<1> QED
  BY <1>3, <1>4 DEF LineInv

-----------------------------------------------------------------------------
(***************************************************************************)
(* The session of a command                                                *)
(***************************************************************************)
IsThrow == Words(cmd) = <<"debug", "throw">>

\* All that is asked of the daemon is DebugThrow, and that does not return.
Throwing ==
  /\ \A i \in DOMAIN toServer : toServer[i].code \in Procs => toServer[i].code = DebugThrow
  /\ server = "dispatch" /\ header.code \in Procs => header.code = DebugThrow
  /\ \A c \in Calls : did[c] # "ok"

(***************************************************************************)
(* A command connects once and calls once.  Its call ends with the answer, *)
(* or with the news that the daemon is gone.                               *)
(***************************************************************************)
SessionInv ==
  Tokens # <<>> =>
    /\ cli \in {"run", "connect"} => n = 0 /\ client = "idle"
    /\ cli = "call" => n = 1
    /\ n \in {0, 1}
    /\ cli = "call" /\ client = "left" => Gone
    /\ n = 1 /\ IsThrow => Throwing
    /\ n = 1 /\ says = "done" => did[1] = (IF IsThrow THEN "error" ELSE "ok")
    /\ n = 1 /\ says = "error" => did[1] = "error" \/ Gone

CLIInv == ChannelInv /\ LineInv /\ SessionInv

(***************************************************************************)
(* The daemon neither takes back what it did nor comes back.               *)
(***************************************************************************)
LEMMA DaemonKeeps ==
  ASSUME ChannelInv, DaemonStep
  PROVE  /\ client' = client /\ n' = n
         /\ Gone => Gone'
         /\ \A c \in Calls : did[c] # "nothing" => did'[c] = did[c]
<1>1. client' = client /\ n' = n /\ (Gone => Gone')
  BY DEF DaemonStep, ServerStep, RecvPackage, ProcedureReturns, ProcedureThrows, UnknownProcedure,
         SendPackage, PackError, ServerClosed, DaemonEnds, ServerMoves, Gone
<1>2. \/ did' = did
      \/ /\ server = "dispatch" /\ header.code \in Procs
         /\ did' = [did EXCEPT ![header.of] = "ok"] \/ did' = [did EXCEPT ![header.of] = "error"]
  BY DEF DaemonStep, ServerStep, RecvPackage, ProcedureReturns, ProcedureThrows, UnknownProcedure,
         SendPackage, PackError, ServerClosed, DaemonEnds, ServerMoves
<1>3. \A c \in Calls : did[c] # "nothing" => did'[c] = did[c]
  BY <1>2 DEF ChannelInv, ChannelTypeOK, RequestInv
<1> QED
  BY <1>1, <1>3

(***************************************************************************)
(* A daemon that is asked for DebugThrow alone answers with errors alone.  *)
(***************************************************************************)
LEMMA DaemonThrows == ASSUME ChannelInv, Throwing, DaemonStep PROVE Throwing'
<1>1. CASE RecvPackage
  <2>1. /\ did' = did
        /\ \/ toServer # <<>> /\ header' = Head(toServer) /\ toServer' = Tail(toServer)
           \/ server' = "exit" /\ UNCHANGED <<header, toServer>>
    BY <1>1 DEF RecvPackage, ServerMoves
  <2>2. CASE toServer # <<>> /\ header' = Head(toServer) /\ toServer' = Tail(toServer)
    <3>1. toServer \in Seq(Package)
      BY DEF ChannelInv, ChannelTypeOK
    <3>2. /\ header' = toServer[1] /\ 1 \in DOMAIN toServer
          /\ \A i \in DOMAIN toServer' : i + 1 \in DOMAIN toServer /\ toServer'[i] = toServer[i + 1]
      BY <2>2, <3>1
    <3> QED
      BY <2>1, <3>2 DEF Throwing
  <2>3. CASE server' = "exit" /\ UNCHANGED <<header, toServer>>
    BY <2>1, <2>3 DEF Throwing
  <2> QED
    BY <2>1, <2>2, <2>3
<1>2. CASE ProcedureReturns
  BY <1>2 DEF ProcedureReturns, ServerMoves, Throwing
<1>3. CASE ProcedureThrows \/ ServerClosed
  <2>1. /\ toServer' = toServer /\ header' = header /\ server' \in {"error", "exit"}
        /\ did' = [did EXCEPT ![header.of] = "error"]
    BY <1>3 DEF ProcedureThrows, ServerClosed, ServerMoves
  <2>2. \A c \in Calls : did'[c] \in {did[c], "error"}
    BY <2>1 DEF ChannelInv, ChannelTypeOK
  <2> QED
    BY <2>1, <2>2 DEF Throwing
<1>4. CASE UnknownProcedure
  BY <1>4 DEF UnknownProcedure, ServerMoves, Throwing
<1>5. CASE SendPackage \/ PackError \/ DaemonEnds
  <2>1. UNCHANGED <<toServer, header, did>> /\ server' # "dispatch"
    BY <1>5 DEF SendPackage, PackError, DaemonEnds, ServerMoves
  <2> QED
    BY <2>1 DEF Throwing
<1> QED
  BY <1>1, <1>2, <1>3, <1>4, <1>5 DEF DaemonStep, ServerStep

(***************************************************************************)
(* Before its first call a client has asked for nothing.                   *)
(***************************************************************************)
LEMMA FirstCallThrows ==
  ASSUME ChannelInv, n = 0, Call(DebugThrow) PROVE Throwing'
<1>1. /\ \A i \in DOMAIN toServer : toServer[i].code \notin Procs
      /\ server = "dispatch" => header.code \notin Procs
      /\ \A c \in Calls : did[c] = "nothing"
  BY DEF ChannelInv, RequestInv, Calls
<1>2. /\ toServer \in Seq(Package) /\ UNCHANGED <<server, header, did>>
      /\ toServer' = Append(toServer, [code |-> DebugThrow, of |-> n'])
  BY DEF ChannelInv, ChannelTypeOK, Call
<1>3. \A i \in DOMAIN toServer' :
        \/ i \in DOMAIN toServer /\ toServer'[i] = toServer[i]
        \/ toServer'[i] = [code |-> DebugThrow, of |-> n']
  BY <1>2
<1>4. \A i \in DOMAIN toServer' : toServer'[i].code \in Procs => toServer'[i].code = DebugThrow
  BY <1>1, <1>3
<1> QED
  BY <1>1, <1>2, <1>4 DEF Throwing

(***************************************************************************)
(* When the command's call has returned, its answer is the daemon's.       *)
(***************************************************************************)
LEMMA AnswerTrue ==
  ASSUME ChannelInv, client = "idle", n = 1
  PROVE  1 \in Calls /\ did[1] \in {"ok", "error"} /\ (Failed <=> did[1] = "error")
<1>1. 1 \in Calls /\ told[1].of # 0
  BY DEF ChannelInv, ChannelTypeOK, ShapeInv, Calls, Calling
<1>2. \A e \in Errors : 1 <= e
  BY DEF Errors, Calls
<1>3. did[1] # "nothing" /\ (told[1].code = Error <=> did[1] = "error")
  BY <1>1, <1>2 DEF ChannelInv, TruthInv, Truth
<1> QED
  BY <1>1, <1>3 DEF ChannelInv, ChannelTypeOK, Failed

(***************************************************************************)
(* Every step of the CLI keeps the invariant of its session.               *)
(***************************************************************************)
LEMMA SessionStepInv == CLIInv /\ [CLINext]_allVars => SessionInv'
<1> SUFFICES ASSUME CLIInv, [CLINext]_allVars, Tokens # <<>> PROVE SessionInv'
  <2>1. [CLINext]_allVars => Tokens' = Tokens
    BY DEF CLINext, CLIStep, LibraryStep, Interrupted, EmptyCall, SkipName, MatchWord, UnexpectedEnd,
           MakeClientFails, MakeCall, Waiting, SayGoodbye, ReportError, ReportLoss, allVars, cliVars
  <2> QED
    BY <2>1 DEF SessionInv
<1> USE DEF CLIInv
<1>0. cli \in {"run", "connect", "call", "end"} /\ (says = "nothing" <=> cli # "end")
  BY DEF LineInv, LineTypeOK
<1>1. CASE EmptyCall \/ SkipName \/ MatchWord \/ UnexpectedEnd \/ MakeClientFails
  <2>1. /\ UNCHANGED channelVars /\ cli \in {"run", "connect"}
        /\ cli' \in {"run", "connect", "end"}
    BY <1>1 DEF EmptyCall, SkipName, MatchWord, UnexpectedEnd, MakeClientFails, Ends, UnknownToken,
                DoLocally, DoDaemonStatus
  <2>2. n' = 0 /\ client' = "idle"
    BY <2>1 DEF SessionInv, channelVars
  <2> QED
    BY <2>1, <2>2 DEF SessionInv
<1>2. CASE MakeCall
  <2>1. /\ cli' = "call" /\ says' = "nothing" /\ cmd' = cmd /\ n = 0 /\ n' = 1 /\ client' = "calling"
    BY <1>0, <1>2 DEF MakeCall, Call, SessionInv
  <2>2. IsThrow => Throwing'
    <3>1. IsThrow => ProcOf(cmd) = DebugThrow
      BY DEF IsThrow, ProcOf
    <3> QED
      BY <1>2, <2>1, <3>1, FirstCallThrows DEF MakeCall
  <2> QED
    BY <2>1, <2>2 DEF SessionInv, IsThrow
<1>3. CASE Waiting
  BY <1>3 DEF Waiting, CallEnds, CallBreaks, SessionInv, cliVars, IsThrow, Throwing, Gone
<1>4. CASE SayGoodbye \/ ReportError
  <2>1. /\ cli = "call" /\ client = "idle" /\ n = 1 /\ UNCHANGED <<cmd, server, n, did, header>>
        /\ cli' = "end" /\ client' = "left"
        /\ toServer' \in {toServer, toServer \o <<NoPackage, NoPackage>>}
        /\ \/ says' = "done" /\ (Failed => IsThrow)
           \/ says' = "error" /\ Gone
           \/ says' = "error" /\ Failed
    BY <1>4 DEF SayGoodbye, ReportError, Answered, SoftDisconnect, ClientDies, Ends, SessionInv,
                Gone, IsThrow
  <2>2. did[1] \in {"ok", "error"} /\ (Failed <=> did[1] = "error") /\ 1 \in Calls
    BY <2>1, AnswerTrue
  <2>3. IsThrow => Throwing /\ did[1] = "error"
    BY <2>1, <2>2 DEF SessionInv, Throwing
  <2>4. Throwing => Throwing'
    <3>1. NoPackage \in Package /\ NoPackage.code \notin Procs /\ toServer \in Seq(Package)
      BY ChannelAssumption DEF NoPackage, Package, Error, ChannelInv, ChannelTypeOK
    <3>2. \A i \in DOMAIN toServer' :
            \/ i \in DOMAIN toServer /\ toServer'[i] = toServer[i]
            \/ toServer'[i] = NoPackage
      BY <2>1, <3>1, SentTwice
    <3> QED
      BY <2>1, <3>1, <3>2 DEF Throwing
  <2> QED
    BY <2>1, <2>2, <2>3, <2>4 DEF SessionInv, IsThrow, Gone
<1>5. CASE ReportLoss
  BY <1>5 DEF ReportLoss, Ends, SessionInv, channelVars, IsThrow, Throwing, Gone
<1>6. CASE Interrupted
  <2>1. cli' = "end" /\ says' = "killed" /\ UNCHANGED <<cmd, server, n, did, header, toServer>>
    BY <1>6 DEF Interrupted, Ends, ClientDies, channelVars
  <2> QED
    BY <1>0, <2>1 DEF SessionInv, IsThrow, Throwing
<1>7. CASE DaemonStep /\ UNCHANGED cliVars
  <2>1. /\ UNCHANGED <<client, n, cli, says, cmd>> /\ (Gone => Gone')
        /\ \A c \in Calls : did[c] # "nothing" => did'[c] = did[c]
    BY <1>7, DaemonKeeps DEF cliVars
  <2>2. n = 1 => 1 \in Calls
    BY DEF ChannelInv, ChannelTypeOK, Calls
  <2>3. Throwing => Throwing'
    BY <1>7, DaemonThrows
  <2> QED
    BY <2>1, <2>2, <2>3 DEF SessionInv, IsThrow
<1>8. CASE UNCHANGED allVars
  BY <1>8 DEF allVars, channelVars, cliVars, SessionInv, IsThrow, Throwing, Gone
<1> QED
  BY <1>1, <1>2, <1>3, <1>4, <1>5, <1>6, <1>7, <1>8 DEF CLINext, CLIStep

(***************************************************************************)
(* The invariant holds in every state of a run of the CLI.                 *)
(***************************************************************************)
THEOREM CLIInvariant == CLISpec => []CLIInv
<1>1. CLIInit => CLIInv
  <2>1. CLIInit => ChannelInit /\ n = 0 /\ client = "idle" /\ cli = "run" /\ says = "nothing"
    BY DEF CLIInit, ChannelInit
  <2>2. CLIInit => SessionInv
    BY <2>1 DEF SessionInv
  <2> QED
    BY <2>1, <2>2, ChannelInitInv, LineInitInv DEF CLIInv
<1>2. CLIInv /\ [CLINext]_allVars => CLIInv'
  BY SessionStepInv, LineStepInv, CLIChannelStep, ChannelStepInv DEF CLIInv
<1> QED
  BY <1>1, <1>2, PTL DEF CLISpec

(***************************************************************************)
(* The command line, the session and its connection keep their types.      *)
(***************************************************************************)
THEOREM CLITypeCorrect == CLISpec => []CLITypeOK
<1>1. CLIInv => CLITypeOK
  BY DEF CLIInv, ChannelInv, LineInv, LineTypeOK, ReadInv, CLITypeOK
<1> QED
  BY <1>1, CLIInvariant, PTL

(***************************************************************************)
(* Whatever the user types, Run accepts it exactly if DoHelp lists it, and *)
(* otherwise marks the word where it leaves the help text.                 *)
(***************************************************************************)
THEOREM RunParsesHelp == CLISpec => []ParsesAsHelp
<1>1. CLIInv => ParsesAsHelp
  BY DEF CLIInv, LineInv
<1> QED
  BY <1>1, CLIInvariant, PTL

(***************************************************************************)
(* Whatever the daemon does meanwhile, a command reports what its call did *)
(* there.                                                                  *)
(***************************************************************************)
THEOREM CommandTellsTruth == CLISpec => []VerdictTrue
<1>1. CLIInv => VerdictTrue
  <2> SUFFICES ASSUME CLIInv, n > 0, Tokens # <<>> PROVE VerdictTrue
    BY DEF VerdictTrue
  <2>1. n = 1
    BY DEF CLIInv, SessionInv
  <2> QED
    BY <2>1 DEF CLIInv, SessionInv, IsThrow, Gone, VerdictTrue
<1> QED
  BY <1>1, CLIInvariant, PTL

(***************************************************************************)
(* The results about a connection, for the CLI and for any program that    *)
(* uses Client.                                                            *)
(***************************************************************************)
THEOREM ConnectionResults == CLISpec => [](TruthUntilError /\ Backlog)
<1>1. CLIInv => TruthUntilError /\ Backlog
  BY ChannelInvImplies DEF CLIInv
<1> QED
  BY <1>1, CLIInvariant, PTL
=============================================================================
