----------------------------- MODULE RPCChannel -----------------------------
(***************************************************************************)
(* One client and its handler thread on one TCP connection: Client::Call   *)
(* and SoftDisconnect (Inc/Client.hpp, Src/Client.cpp), RPCProvider        *)
(* (Src/RPC.cpp) and the request loop of Server::HandlerRoutine.           *)
(*                                                                         *)
(* RecvToBuffer and SendFromBuffer move whole packages, so the stream is a *)
(* sequence of packages in each direction.  A package has the byte the     *)
(* receiver compares with its ErrCode; "of" is the number of the call that *)
(* caused it, which is not on the wire.                                    *)
(***************************************************************************)
EXTENDS Naturals, Sequences, FiniteSets

CONSTANTS
  Procs,       \* ids of the procedures the client calls
  MaxCalls,    \* bound: calls on one connection
  ErrorSizes   \* lengths of the texts of the exceptions the procedures throw

\* RPCDefs::ProcIDs
Error      == 0
Flash      == 1
Start      == 2
Connect    == 3
Disconnect == 4
Reset      == 5
GetStatus  == 8
Shutdown   == 9
Ping       == 10
DebugThrow == 11
DebugBlock == 12

BufSize  == 256  \* RPCProvider::BufSize
MaxError == 255  \* the limit PackError checks

\* A byte of an error text: no procedure id, and not Error.
TextByte == 97

ASSUME ChannelAssumption ==
  /\ Procs \subseteq 1 .. 12
  /\ MaxCalls \in Nat
  /\ ErrorSizes \subseteq Nat

Calls == 1 .. MaxCalls

VARIABLES
  client,     \* the client: "idle", "calling" or "left"
  server,     \* the handler: "recv", "dispatch", "reply", "error", "exit" or "dead"
  n,          \* calls the client has made
  header,     \* the package the handler works on
  toServer,   \* packages on their way to the handler
  toClient,   \* packages on their way to the client
  ErrCode,    \* the handler's RPCProvider::ErrCode
  errorSize,  \* length of the text in e.what()
  did,        \* what the procedure did, by call
  told        \* what Call returned or threw, by call: a package or "none"

channelVars == <<client, server, n, header, toServer, toClient, ErrCode, errorSize, did, told>>

Package == [code : 0 .. 255, of : 0 .. MaxCalls]
NoPackage == [code |-> Error, of |-> 0]

ChannelTypeOK ==
  /\ client \in {"idle", "calling", "left"}
  /\ server \in {"recv", "dispatch", "reply", "error", "exit", "dead"}
  /\ n \in 0 .. MaxCalls
  /\ header \in Package
  /\ toServer \in Seq(Package)
  /\ toClient \in Seq(Package)
  /\ ErrCode \in 0 .. 255
  /\ errorSize \in ErrorSizes \cup {0}
  /\ did \in [Calls -> {"nothing", "ok", "error"}]
  /\ told \in [Calls -> Package]

ChannelInit ==
  /\ client = "idle"
  /\ server = "recv"
  /\ n = 0
  /\ header = NoPackage
  /\ toServer = <<>>
  /\ toClient = <<>>
  /\ ErrCode = Error
  /\ errorSize = 0
  /\ did = [c \in Calls |-> "nothing"]
  /\ told = [c \in Calls |-> NoPackage]

-----------------------------------------------------------------------------
(***************************************************************************)
(* The client                                                              *)
(***************************************************************************)

\* Call: PackMsg and SendPackage, then RecvPackage.
Call(proc) ==
  /\ client = "idle" /\ n < MaxCalls
  /\ client' = "calling"
  /\ n' = n + 1
  /\ toServer' = Append(toServer, [code |-> proc, of |-> n'])
  /\ UNCHANGED <<server, header, toClient, ErrCode, errorSize, did, told>>

\* Call returns or throws ProcException, by the next package there is.
CallEnds ==
  /\ client = "calling" /\ toClient # <<>>
  /\ client' = "idle"
  /\ told' = [told EXCEPT ![n] = Head(toClient)]
  /\ toClient' = Tail(toClient)
  /\ UNCHANGED <<server, n, header, toServer, ErrCode, errorSize, did>>

\* RecvPackage throws: the daemon's side of the connection is closed.
CallBreaks ==
  /\ client = "calling" /\ toClient = <<>> /\ server \in {"exit", "dead"}
  /\ client' = "left"
  /\ UNCHANGED <<server, n, header, toServer, toClient, ErrCode, errorSize, did, told>>

\* SoftDisconnect: PackError sends and SendPackage sends again; then it closes.
SoftDisconnect ==
  /\ client = "idle"
  /\ client' = "left"
  /\ toServer' = toServer \o <<NoPackage, NoPackage>>
  /\ UNCHANGED <<server, n, header, toClient, ErrCode, errorSize, did, told>>

\* The client process ends without a word, possibly in the middle of a call.
ClientDies ==
  /\ client # "left"
  /\ client' = "left"
  /\ UNCHANGED <<server, n, header, toServer, toClient, ErrCode, errorSize, did, told>>

-----------------------------------------------------------------------------
(***************************************************************************)
(* The handler                                                             *)
(***************************************************************************)
ServerMoves(from, to) == server = from /\ server' = to

\* Mutant of RecvPackage: recv's 0 is taken for "nothing yet", and the loop goes on.
RecvPackageNoEnd ==
  /\ toServer # <<>>
  /\ ServerMoves("recv", IF Head(toServer).code = ErrCode THEN "exit" ELSE "dispatch")
  /\ header' = Head(toServer)
  /\ toServer' = Tail(toServer)
  /\ UNCHANGED <<client, n, toClient, ErrCode, errorSize, did, told>>

\* RecvPackage: a request, the client's goodbye, or the end of the stream.
RecvPackage ==
  /\ \/ /\ toServer # <<>>
        /\ ServerMoves("recv", IF Head(toServer).code = ErrCode THEN "exit" ELSE "dispatch")
        /\ header' = Head(toServer)
        /\ toServer' = Tail(toServer)
     \/ /\ toServer = <<>> /\ client = "left"
        /\ ServerMoves("recv", "exit")
        /\ UNCHANGED <<header, toServer>>
  /\ UNCHANGED <<client, n, toClient, ErrCode, errorSize, did, told>>

\* DispatchPackage: the procedure returns and PackMsg fills the buffer.
ProcedureReturns ==
  /\ header.code \in Procs \ {DebugThrow}
  /\ ServerMoves("dispatch", "reply")
  /\ did' = [did EXCEPT ![header.of] = "ok"]
  /\ UNCHANGED <<client, n, header, toServer, toClient, ErrCode, errorSize, told>>

ProcedureThrows ==
  /\ header.code \in Procs \ {Shutdown, Ping, DebugBlock}
  /\ ServerMoves("dispatch", "error")
  /\ did' = [did EXCEPT ![header.of] = "error"]
  /\ errorSize' \in ErrorSizes
  /\ UNCHANGED <<client, n, header, toServer, toClient, ErrCode, told>>

\* No case for this id: what RecvPackage left in the buffer is sent back.
UnknownProcedure ==
  /\ header.code \notin Procs
  /\ ServerMoves("dispatch", "reply")
  /\ header' = [header EXCEPT !.code = TextByte]
  /\ UNCHANGED <<client, n, toServer, toClient, ErrCode, errorSize, did, told>>

\* SendPackage; to a client that is gone it may throw, and the loop is left.
SendPackage ==
  /\ \/ ServerMoves("reply", "recv") /\ toClient' = Append(toClient, header)
     \/ client = "left" /\ ServerMoves("reply", "exit") /\ UNCHANGED toClient
  /\ UNCHANGED <<client, n, header, toServer, ErrCode, errorSize, did, told>>

ErrorPackage == [code |-> ErrCode, of |-> header.of]

\* Mutant of PackError: the package is sent a third time.
PackErrorThrice ==
  /\ errorSize <= MaxError
  /\ ServerMoves("error", "recv")
  /\ toClient' = toClient \o <<ErrorPackage, ErrorPackage, ErrorPackage>>
  /\ UNCHANGED <<client, n, header, toServer, ErrCode, errorSize, did, told>>

\* Mutant of PackError: the answer's buffer is sent, with the procedure's id.
PackErrorAsAnswer ==
  /\ errorSize <= MaxError
  /\ ServerMoves("error", "recv")
  /\ toClient' = toClient \o <<header, header>>
  /\ UNCHANGED <<client, n, header, toServer, ErrCode, errorSize, did, told>>

\* Mutant of PackError: the size, not cut to a byte, ends up in ErrCode.
PackErrorWide ==
  /\ errorSize <= MaxError
  /\ ServerMoves("error", "recv")
  /\ ErrCode' = errorSize + 2
  /\ toClient' = toClient \o <<ErrorPackage, ErrorPackage>>
  /\ UNCHANGED <<client, n, header, toServer, errorSize, did, told>>

\* Mutant of PackError: nothing is sent.
PackErrorSilent ==
  /\ ServerMoves("error", "recv")
  /\ UNCHANGED <<client, n, header, toServer, toClient, ErrCode, errorSize, did, told>>

(***************************************************************************)
(* catch (std::exception&): PackError fills the buffer and sends it, and   *)
(* SendPackage sends it once more.  A text of more than MaxError bytes     *)
(* makes PackError throw, and so may a client that is gone; nothing        *)
(* catches that.  The text starts at byte 2 of the buffer, and ErrCode is  *)
(* the member behind the buffer.                                           *)
(***************************************************************************)
PackError ==
  /\ \/ /\ errorSize <= MaxError
        /\ ServerMoves("error", "recv")
        /\ ErrCode' = IF errorSize + 2 > BufSize THEN TextByte ELSE ErrCode
        /\ toClient' = toClient \o <<ErrorPackage, ErrorPackage>>
     \/ /\ errorSize > MaxError \/ client = "left"
        /\ ServerMoves("error", "dead")
        /\ UNCHANGED <<ErrCode, toClient>>
  /\ UNCHANGED <<client, n, header, toServer, errorSize, did, told>>

\* The daemon ends, by a signal or another thread; what it has sent may be lost.
DaemonEnds ==
  /\ server \notin {"exit", "dead"}
  /\ server' = "dead"
  /\ toClient' \in {toClient, <<>>}
  /\ UNCHANGED <<client, n, header, toServer, ErrCode, errorSize, did, told>>

\* catch (ForcedUnwind&): cancelled in a procedure, the handler says "Server closed".
ServerClosed ==
  /\ header.code \in Procs
  /\ ServerMoves("dispatch", "exit")
  /\ did' = [did EXCEPT ![header.of] = "error"]
  /\ toClient' = toClient \o <<ErrorPackage, ErrorPackage>>
  /\ UNCHANGED <<client, n, header, toServer, ErrCode, errorSize, told>>

ServerStep == \/ RecvPackage \/ ProcedureReturns \/ ProcedureThrows \/ UnknownProcedure
              \/ SendPackage \/ PackError

\* The daemon's side of the connection.
DaemonStep == ServerStep \/ ServerClosed \/ DaemonEnds

ChannelNext == \/ (\E proc \in Procs : Call(proc)) \/ CallEnds \/ CallBreaks
               \/ SoftDisconnect \/ ClientDies \/ DaemonStep

ChannelSpec == ChannelInit /\ [][ChannelNext]_channelVars

-----------------------------------------------------------------------------
\* The errors among the calls answered so far.
Errors == {c \in Calls : did[c] = "error"}

(***************************************************************************)
(* TruthUntilError: up to and including the first call that fails, Call    *)
(* returns exactly what the procedure did on the daemon's side.            *)
(***************************************************************************)
TruthUntilError ==
  \A c \in Calls :
    told[c].of # 0 /\ (\A e \in Errors : c <= e) =>
      told[c].of = c /\ (told[c].code = Error <=> did[c] = "error")

(***************************************************************************)
(* Backlog: when the daemon has served all calls and the client waits for  *)
(* none, the client's socket holds exactly one surplus package for every   *)
(* call that failed: nothing is lost, and nothing but errors is doubled.   *)
(***************************************************************************)
Backlog ==
  client = "idle" /\ server = "recv" /\ toServer = <<>> =>
    Len(toClient) = Cardinality(Errors)

(***************************************************************************)
(* CallReturns: a call comes back, with an answer, an error or the news    *)
(* that the daemon is gone.  It rests on procedures that end: Start with a *)
(* board missing does not (RoutineEnds, AdmittedRequestEnds), and the      *)
(* client, having no timeout, waits with it.                               *)
(***************************************************************************)
CallReturns == client = "calling" ~> client # "calling"

(***************************************************************************)
(* OwnAnswer: as long as the daemon serves the connection, what Call n     *)
(* returns or throws is the outcome of call n.                             *)
(***************************************************************************)
OwnAnswer ==
  server \notin {"exit", "dead"} => \A c \in Calls : told[c].of # 0 => told[c].of = c
=============================================================================
