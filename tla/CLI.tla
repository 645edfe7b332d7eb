-------------------------------- MODULE CLI --------------------------------
(***************************************************************************)
(* The command line client (Src/CLI.cpp): how a command line becomes a     *)
(* command, and the session of a command that needs the daemon, on the     *)
(* connection of RPCChannel.  With no tokens at all the client is not the  *)
(* CLI but any program that uses Client: it calls what it likes.           *)
(***************************************************************************)
EXTENDS RPCChannel

CONSTANTS
  CommandLines,  \* the command lines to run: argv[0] and the words behind it
  LibraryProcs   \* what a program that uses Client calls

\* Dispatch has a case for every procedure a command calls.
ASSUME CLIAssumption ==
  /\ CommandLines \subseteq Seq(STRING) \ {<<>>}
  /\ LibraryProcs \subseteq Procs
  /\ {Flash, Start, Connect, Disconnect, Reset, GetStatus, Shutdown, Ping, DebugThrow, DebugBlock}
       \subseteq Procs

VARIABLES
  Tokens,        \* argv
  CurrentToken,  \* tokens read
  PrevToken,     \* index of the token read last, from 0
  cmd,           \* the words Run has matched so far
  cli,           \* "run" reading tokens, "connect", "call" or "end"
  says           \* how it ended: "done", "error", "syntax" or "killed"

cliVars == <<Tokens, CurrentToken, PrevToken, cmd, cli, says>>
allVars == <<channelVars, cliVars>>

CLITypeOK ==
  /\ ChannelTypeOK
  /\ Tokens \in CommandLines \cup {<<>>}
  /\ CurrentToken \in 0 .. Len(Tokens)
  /\ PrevToken \in 0 .. Len(Tokens)
  /\ Len(cmd) <= 3
  /\ cli \in {"run", "connect", "call", "end"}
  /\ says \in {"nothing", "done", "error", "syntax", "killed"}
  /\ says = "nothing" <=> cli # "end"

CLIInit ==
  /\ ChannelInit
  /\ Tokens \in CommandLines \cup {<<>>}
  /\ CurrentToken = 0 /\ PrevToken = 0
  /\ cmd = <<>>
  /\ cli = "run"
  /\ says = "nothing"

-----------------------------------------------------------------------------
(***************************************************************************)
(* Commands                                                                *)
(***************************************************************************)

\* The branches of Run.
Subcommands ==
  [chip   |-> {"start", "stop", "flash", "status"},
   daemon |-> {"start", "stop", "status", "kill", "logs"},
   debug  |-> {"start", "throw", "block", "connect", "disconnect"}]

\* Run goes on to GetNextToken.
Unfinished(c) == c \in {<<"chip">>, <<"daemon">>, <<"debug">>, <<"chip", "flash">>}

\* Run calls a Do... function.
Matches(c) ==
  \/ c = <<"help">>
  \/ Len(c) = 2 /\ c[1] \in DOMAIN Subcommands /\ c[2] \in Subcommands[c[1]] /\ ~Unfinished(c)
  \/ Len(c) = 3

\* The one procedure a command calls.
Remote == {<<"chip", "start">>, <<"chip", "stop">>, <<"chip", "flash">>, <<"chip", "status">>,
           <<"daemon", "stop">>, <<"daemon", "status">>, <<"debug", "block">>,
           <<"debug", "throw">>, <<"debug", "connect">>, <<"debug", "disconnect">>}

Words(c) == SubSeq(c, 1, IF Len(c) < 2 THEN Len(c) ELSE 2)

ProcOf(c) ==
  CASE Words(c) = <<"chip", "start">>   -> Start
    [] Words(c) = <<"chip", "stop">>    -> Reset
    [] Words(c) = <<"chip", "flash">>   -> Flash
    [] Words(c) = <<"chip", "status">>  -> GetStatus
    [] Words(c) = <<"daemon", "stop">>  -> Shutdown
    [] Words(c) = <<"daemon", "status">> -> Ping
    [] Words(c) = <<"debug", "block">>  -> DebugBlock
    [] Words(c) = <<"debug", "throw">>  -> DebugThrow
    [] Words(c) = <<"debug", "connect">> -> Connect
    [] OTHER                            -> Disconnect

\* What DoHelp prints.
HelpText ==
  {<<"daemon", "start">>, <<"daemon", "stop">>, <<"daemon", "status">>, <<"daemon", "logs">>,
   <<"daemon", "kill">>, <<"chip", "start">>, <<"chip", "stop">>, <<"chip", "flash", "<PATH>">>,
   <<"chip", "status">>, <<"help">>, <<"debug", "start">>, <<"debug", "block">>,
   <<"debug", "throw">>, <<"debug", "connect">>, <<"debug", "disconnect">>}

-----------------------------------------------------------------------------
(***************************************************************************)
(* Execute and Run                                                         *)
(***************************************************************************)
Ends(how) == cli' = "end" /\ says' = how

\* Mutant of GetNextToken: PrevToken is the token that comes next.
GetNextTokenAhead ==
  /\ CurrentToken < Len(Tokens)
  /\ PrevToken' = CurrentToken + 1
  /\ CurrentToken' = CurrentToken + 1

GetNextToken ==
  /\ CurrentToken < Len(Tokens)
  /\ PrevToken' = CurrentToken
  /\ CurrentToken' = CurrentToken + 1

\* Empty call, print help.
EmptyCall ==
  /\ cli = "run" /\ Len(Tokens) = 1
  /\ Ends("done")
  /\ UNCHANGED <<channelVars, Tokens, CurrentToken, PrevToken, cmd>>

SkipName ==
  /\ cli = "run" /\ Len(Tokens) > 1 /\ CurrentToken = 0
  /\ GetNextToken
  /\ UNCHANGED <<channelVars, Tokens, cmd, cli, says>>

UnknownToken == ~Unfinished(cmd') /\ ~Matches(cmd') /\ Ends("syntax")

\* Commands that call nothing on a daemon: they do their work or throw.
DoLocally == Words(cmd') \notin Remote /\ (Ends("done") \/ Ends("error"))

\* IsRunning says no, or throws; otherwise a Ping follows.
DoDaemonStatus == Words(cmd') = <<"daemon", "status">> /\ (Ends("done") \/ Ends("error"))

MatchWord ==
  /\ cli = "run" /\ CurrentToken > 0
  /\ GetNextToken
  /\ cmd' = Append(cmd, Tokens[CurrentToken + 1])
  /\ \/ Unfinished(cmd') /\ UNCHANGED <<cli, says>>
     \/ /\ Matches(cmd')
        /\ \/ Words(cmd') \in Remote /\ cli' = "connect" /\ UNCHANGED says
           \/ DoLocally \/ DoDaemonStatus
     \/ UnknownToken
  /\ UNCHANGED <<channelVars, Tokens>>

UnexpectedEnd ==
  /\ cli = "run" /\ CurrentToken > 0 /\ CurrentToken = Len(Tokens)
  /\ Ends("syntax")
  /\ UNCHANGED <<channelVars, Tokens, CurrentToken, PrevToken, cmd>>

-----------------------------------------------------------------------------
(***************************************************************************)
(* The session of a command                                                *)
(***************************************************************************)
MakeClientFails ==
  /\ cli = "connect"
  /\ Ends("error")
  /\ UNCHANGED <<channelVars, Tokens, CurrentToken, PrevToken, cmd>>

\* MakeClient, and the command's call.
MakeCall ==
  /\ cli = "connect" /\ server = "recv"
  /\ cli' = "call"
  /\ Call(ProcOf(cmd))
  /\ UNCHANGED <<Tokens, CurrentToken, PrevToken, cmd, says>>

Waiting == cli = "call" /\ (CallEnds \/ CallBreaks) /\ UNCHANGED cliVars

Answered == cli = "call" /\ client = "idle"
Failed   == told[1].code = Error

\* Mutant of SayGoodbye: every command swallows the daemon's errors.
SayGoodbyeAlways ==
  /\ Answered
  /\ SoftDisconnect
  /\ Ends("done") \/ (server \in {"exit", "dead"} /\ Ends("error"))
  /\ UNCHANGED <<Tokens, CurrentToken, PrevToken, cmd>>

\* The answer is printed, SoftDisconnect; DoDaemonDebugThrow catches its error.
SayGoodbye ==
  /\ Answered /\ (Failed => Words(cmd) = <<"debug", "throw">>)
  /\ SoftDisconnect
  /\ Ends("done") \/ (server \in {"exit", "dead"} /\ Ends("error"))
  /\ UNCHANGED <<Tokens, CurrentToken, PrevToken, cmd>>

\* ProcException leaves the command, and ~Client closes the connection.
ReportError ==
  /\ Answered /\ Failed /\ Words(cmd) # <<"debug", "throw">>
  /\ ClientDies
  /\ Ends("error")
  /\ UNCHANGED <<Tokens, CurrentToken, PrevToken, cmd>>

\* RecvPackage threw: "Connection closed".
ReportLoss ==
  /\ cli = "call" /\ client = "left"
  /\ Ends("error")
  /\ UNCHANGED <<channelVars, Tokens, CurrentToken, PrevToken, cmd>>

\* The user interrupts the CLI.
Interrupted ==
  /\ cli # "end" /\ Ends("killed")
  /\ IF cli = "call" /\ client # "left" THEN ClientDies ELSE UNCHANGED channelVars
  /\ UNCHANGED <<Tokens, CurrentToken, PrevToken, cmd>>

CLIStep ==
  \/ EmptyCall \/ SkipName \/ MatchWord \/ UnexpectedEnd
  \/ MakeClientFails \/ MakeCall \/ Waiting \/ SayGoodbye \/ ReportError \/ ReportLoss

-----------------------------------------------------------------------------
LibraryStep ==
  /\ \/ \E proc \in LibraryProcs : Call(proc)
     \/ CallEnds \/ CallBreaks \/ SoftDisconnect \/ ClientDies
  /\ UNCHANGED cliVars

CLINext ==
  \/ Tokens = <<>> /\ LibraryStep
  \/ Tokens # <<>> /\ (CLIStep \/ Interrupted)
  \/ DaemonStep /\ UNCHANGED cliVars

CLISpec == CLIInit /\ [][CLINext]_allVars

\* The handler thread runs and its procedures end; so does a client in a call.
CLIFairSpec ==
  /\ CLISpec
  /\ WF_allVars(ServerStep /\ UNCHANGED cliVars)
  /\ WF_allVars((CallEnds \/ CallBreaks) /\ UNCHANGED cliVars)

-----------------------------------------------------------------------------
\* The line begins with a command of the help text.
Documented(line) ==
  \E h \in HelpText : /\ Len(h) < Len(line)
                      /\ \A i \in DOMAIN h : h[i] \in {line[i + 1], "<PATH>"}

\* The words of the line up to token k begin a command of the help text.
Leads(line, k) ==
  \E h \in HelpText : Len(h) >= k /\ \A i \in 1 .. k : h[i] \in {line[i + 1], "<PATH>"}

(***************************************************************************)
(* ParsesAsHelp: Run accepts exactly the command lines that DoHelp lists;  *)
(* of any other line it marks the first word that leaves every command, or *)
(* the last one if the line only ends too early.                           *)
(***************************************************************************)
ParsesAsHelp ==
  /\ says \in {"done", "error"} => Len(Tokens) = 1 \/ Documented(Tokens)
  /\ says = "syntax" =>
       /\ ~Documented(Tokens)
       /\ Leads(Tokens, PrevToken - 1)
       /\ Leads(Tokens, PrevToken) => PrevToken = Len(Tokens) - 1

(***************************************************************************)
(* VerdictTrue: a command that ends without an error message did on the    *)
(* daemon's side what it says, once, and "debug throw" failed there; one   *)
(* that reports an error after its call did not succeed there, unless the  *)
(* daemon went away in the meantime.                                       *)
(***************************************************************************)
VerdictTrue ==
  n > 0 /\ Tokens # <<>> =>
    /\ n = 1
    /\ says = "done" => did[1] = (IF Words(cmd) = <<"debug", "throw">> THEN "error" ELSE "ok")
    /\ says = "error" => did[1] # "ok" \/ server \in {"exit", "dead"}

(***************************************************************************)
(* SessionEnds: however a command ends, by a goodbye, by an exception that *)
(* skips it or by an interrupt, the handler thread that served it leaves   *)
(* its loop.                                                               *)
(***************************************************************************)
SessionEnds == cli = "end" /\ n > 0 ~> server \in {"exit", "dead"}
=============================================================================
