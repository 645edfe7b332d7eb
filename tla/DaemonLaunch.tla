---------------------------- MODULE DaemonLaunch ----------------------------
(***************************************************************************)
(* DaemonTools (Src/DaemonTools.cpp) and the commands of the CLI that use  *)
(* it: several processes start, look for, reach and kill the daemon, and   *)
(* the only thing they share is the TCP port.  A process runs one command. *)
(* server[p] is the server process that p makes: the double-forked child   *)
(* of Launch, or p itself in RunHere.                                      *)
(*                                                                         *)
(* IsRunning binds the port and lets it go: two steps, between which the   *)
(* port is busy for everybody else.                                        *)
(***************************************************************************)
EXTENDS Naturals, FiniteSets

CONSTANTS
  Procs,             \* processes of the CLI
  Commands,          \* the commands they may run
  ConnAttemptCount,  \* Params::ConnAttemptCount
  SyscallsMayFail    \* IsRunning's socket, fork, log file, daemon() and scripts may fail

ASSUME LaunchAssumption ==
  /\ Procs # {}
  /\ Commands \subseteq {"launch", "debug", "status", "connect", "kill"}
  /\ ConnAttemptCount \in Nat
  /\ SyscallsMayFail \in BOOLEAN

VARIABLES
  at,       \* where the process is in its command
  cmd,      \* the command
  attempt,  \* i in Connect
  server,   \* where the server process is in LaunchAt or RunHere
  pipe,     \* what the child has written for the parent
  port,     \* who has the port bound
  pending   \* processes with a connection to the listening socket

vars == <<at, cmd, attempt, server, pipe, port, pending>>

Points == {"idle", "isRunning", "probe", "fork", "read", "serving", "attempt", "hello",
           "dial", "launched", "done", "refused", "failed", "killed"}
Final == {"launched", "done", "refused", "failed", "killed"}
ServerPoints == {"none", "log", "daemonize", "make", "bind", "ack", "run", "ended", "failed",
                 "broken"}

DaemonTypeOK ==
  /\ at \in [Procs -> Points]
  /\ cmd \in [Procs -> Commands \cup {"none", "connect"}]
  /\ attempt \in [Procs -> 0 .. ConnAttemptCount]
  /\ server \in [Procs -> ServerPoints]
  /\ pipe \in [Procs -> {"empty", "ack", "error"}]
  /\ port \in {"free", "probe", "daemon", "script"}
  /\ pending \in SUBSET Procs

DaemonInit ==
  /\ at = [p \in Procs |-> "idle"]
  /\ cmd = [p \in Procs |-> "none"]
  /\ attempt = [p \in Procs |-> 0]
  /\ server = [p \in Procs |-> "none"]
  /\ pipe = [p \in Procs |-> "empty"]
  /\ port = "free"
  /\ pending = {}

Goto(p, from, to) == at[p] = from /\ at' = [at EXCEPT ![p] = to]

\* The listening socket is closed: connections that wait on it are reset.
ClosePort == port' = "free" /\ pending' = {}

-----------------------------------------------------------------------------
(***************************************************************************)
(* IsRunning and the commands                                              *)
(***************************************************************************)
Execute(p) ==
  /\ \E c \in Commands \ {"kill"} : cmd' = [cmd EXCEPT ![p] = c]
  /\ Goto(p, "idle", "isRunning")
  /\ UNCHANGED <<attempt, server, pipe, port, pending>>

\* bind() fails with EADDRINUSE: IsRunning returns true.
PortBusy(p) ==
  /\ port # "free"
  /\ \/ /\ cmd[p] \in {"launch", "debug"}
        /\ Goto(p, "isRunning", "refused")
        /\ UNCHANGED cmd
     \/ /\ cmd[p] = "status"    \* DoDaemonStatus goes on to MakeClient
        /\ at[p] = "isRunning"
        /\ cmd' = [cmd EXCEPT ![p] = "connect"]
        /\ UNCHANGED at
     \/ /\ cmd[p] = "connect"
        /\ Goto(p, "isRunning", "attempt")
        /\ UNCHANGED cmd
  /\ UNCHANGED <<attempt, server, pipe, port, pending>>

\* The dummy socket fails for any other reason: IsRunning throws, and the command with it.
ProbeFails(p) ==
  /\ SyscallsMayFail
  /\ Goto(p, "isRunning", "failed")
  /\ UNCHANGED <<cmd, attempt, server, pipe, port, pending>>

\* The dummy socket is bound and listens.
Probe(p) ==
  /\ port = "free"
  /\ Goto(p, "isRunning", "probe")
  /\ port' = "probe"
  /\ UNCHANGED <<cmd, attempt, server, pipe, pending>>

NotRunning(p) ==
  /\ \/ cmd[p] = "launch" /\ Goto(p, "probe", "fork") /\ UNCHANGED server
     \/ /\ cmd[p] = "debug"
        /\ Goto(p, "probe", "serving")
        /\ server' = [server EXCEPT ![p] = "make"]
     \/ cmd[p] = "status" /\ Goto(p, "probe", "done") /\ UNCHANGED server
     \/ cmd[p] = "connect" /\ Goto(p, "probe", "failed") /\ UNCHANGED server
  /\ UNCHANGED <<cmd, attempt, pipe>>

\* Mutant of ProbeEnds: the dummy socket outlives IsRunning.
ProbeLeaks(p) == NotRunning(p) /\ UNCHANGED <<port, pending>>

\* ~ServerSocket of the dummy; IsRunning returns false.
ProbeEnds(p) == NotRunning(p) /\ ClosePort

(***************************************************************************)
(* "sudo fuser -k <port>/tcp" kills whoever has the port, a process that   *)
(* only probes it included.                                                *)
(***************************************************************************)
Kill(k) ==
  /\ "kill" \in Commands
  /\ at[k] = "idle"
  /\ at' = [p \in Procs |->
             IF p = k THEN "done"
             ELSE IF at[p] = "probe" \/ (at[p] = "serving" /\ server[p] \in {"ack", "run"})
             THEN "killed" ELSE at[p]]
  /\ cmd' = [cmd EXCEPT ![k] = "kill"]
  /\ server' = [p \in Procs |-> IF server[p] \in {"ack", "run"} THEN "ended" ELSE server[p]]
  /\ ClosePort
  /\ UNCHANGED <<attempt, pipe>>

-----------------------------------------------------------------------------
(***************************************************************************)
(* LaunchAt and RunHere                                                    *)
(***************************************************************************)
Fork(p) ==
  /\ \/ /\ Goto(p, "fork", "read")
        /\ server' = [server EXCEPT ![p] = "log"]
     \/ SyscallsMayFail /\ Goto(p, "fork", "failed") /\ UNCHANGED server
  /\ UNCHANGED <<cmd, attempt, pipe, port, pending>>

ServerMoves(p, from, to) == server[p] = from /\ server' = [server EXCEPT ![p] = to]

(***************************************************************************)
(* The child tells its parent and runs on into the CLI's error path;       *)
(* RunHere throws.  "failed": the port was taken; "broken": anything else. *)
(***************************************************************************)
ServerFails(p, from, to) ==
  /\ ServerMoves(p, from, to)
  /\ IF cmd[p] = "launch"
     THEN pipe' = [pipe EXCEPT ![p] = "error"] /\ UNCHANGED at
     ELSE Goto(p, "serving", "failed") /\ UNCHANGED pipe
  /\ UNCHANGED <<cmd, attempt, port, pending>>

OpenLog(p) ==
  \/ /\ ServerMoves(p, "log", "daemonize")
     /\ UNCHANGED <<at, cmd, attempt, pipe, port, pending>>
  \/ SyscallsMayFail /\ ServerFails(p, "log", "broken")

\* Mutant of Daemonize: the failure is not reported.
DaemonizeSilent(p) ==
  /\ \/ ServerMoves(p, "daemonize", "make")
     \/ SyscallsMayFail /\ ServerMoves(p, "daemonize", "broken")
  /\ UNCHANGED <<at, cmd, attempt, pipe, port, pending>>

Daemonize(p) ==
  \/ /\ ServerMoves(p, "daemonize", "make")
     /\ UNCHANGED <<at, cmd, attempt, pipe, port, pending>>
  \/ SyscallsMayFail /\ ServerFails(p, "daemonize", "broken")

\* MakeHandler: FirmwareFSM's constructor resets the chip and looks for its port.
MakeHandler(p) ==
  \/ /\ ServerMoves(p, "make", "bind")
     /\ UNCHANGED <<at, cmd, attempt, pipe, port, pending>>
  \/ SyscallsMayFail /\ ServerFails(p, "make", "broken")

\* Mutant of Bind: the socket shares the port.
BindShared(p) ==
  /\ ServerMoves(p, "bind", "ack")
  /\ port' = "daemon"
  /\ UNCHANGED <<at, cmd, attempt, pipe, pending>>

\* Mutant of Bind: the parent hears of success before the port is bound.
BindAcked(p) ==
  \/ /\ ServerMoves(p, "bind", "ack")
     /\ port = "free" /\ port' = "daemon"
     /\ pipe' = [pipe EXCEPT ![p] = "ack"]
     /\ UNCHANGED <<at, cmd, attempt, pending>>
  \/ /\ port # "free"
     /\ ServerMoves(p, "bind", "failed")
     /\ pipe' = [pipe EXCEPT ![p] = "ack"]
     /\ UNCHANGED <<at, cmd, attempt, port, pending>>

\* Server's constructor, once MakeHandler has returned.
Bind(p) ==
  \/ /\ ServerMoves(p, "bind", "ack")
     /\ port = "free" /\ port' = "daemon"
     /\ UNCHANGED <<at, cmd, attempt, pipe, pending>>
  \/ port # "free" /\ ServerFails(p, "bind", "failed")

\* RunHere has nobody to tell.
PutAck(p) ==
  /\ ServerMoves(p, "ack", "run")
  /\ pipe' = [pipe EXCEPT ![p] = IF cmd[p] = "launch" THEN "ack" ELSE @]
  /\ UNCHANGED <<at, cmd, attempt, port, pending>>

\* read() returns 0 or blocks while there is nothing: ReadToBuf goes round again.
ReadResult(p) ==
  /\ pipe[p] # "empty"
  /\ Goto(p, "read", IF pipe[p] = "ack" THEN "launched" ELSE "failed")
  /\ UNCHANGED <<cmd, attempt, server, pipe, port, pending>>

(***************************************************************************)
(* Run returns, and the process with it.  A script that is still running   *)
(* has inherited the listening socket.                                     *)
(***************************************************************************)
ServerEnds(p) ==
  /\ ServerMoves(p, "run", "ended")
  /\ at' = [at EXCEPT ![p] = IF @ = "serving" THEN "done" ELSE @]
  /\ \/ ClosePort
     \/ port' = "script" /\ UNCHANGED pending
  /\ UNCHANGED <<cmd, attempt, pipe>>

ScriptEnds ==
  /\ port = "script"
  /\ ClosePort
  /\ UNCHANGED <<at, cmd, attempt, server, pipe>>

-----------------------------------------------------------------------------
(***************************************************************************)
(* Connect                                                                 *)
(***************************************************************************)
\* Mutant of Retry: the last attempt is not counted.
RetryOnceMore(p) ==
  IF attempt[p] > ConnAttemptCount
  THEN at' = [at EXCEPT ![p] = "failed"] /\ UNCHANGED attempt
  ELSE /\ at' = [at EXCEPT ![p] = "attempt"]
       /\ attempt' = [attempt EXCEPT ![p] = @ + 1]

\* Mutant of Retry: the attempts are not counted.
RetryForever(p) == at' = [at EXCEPT ![p] = "attempt"] /\ UNCHANGED attempt

\* The catch block of Connect.
Retry(p) ==
  IF attempt[p] >= ConnAttemptCount
  THEN at' = [at EXCEPT ![p] = "failed"] /\ UNCHANGED attempt
  ELSE /\ at' = [at EXCEPT ![p] = "attempt"]
       /\ attempt' = [attempt EXCEPT ![p] = @ + 1]

\* connect() to the daemon's port: any listening socket will do.
Dial(p) ==
  /\ at[p] = "attempt"
  /\ \/ /\ port # "free"
        /\ Goto(p, "attempt", "hello")
        /\ pending' = pending \cup {p}
        /\ UNCHANGED attempt
     \/ port = "free" /\ Retry(p) /\ UNCHANGED pending
  /\ UNCHANGED <<cmd, server, pipe, port>>

\* The dispatch thread says hello.
Hello(p) ==
  /\ p \in pending /\ \E d \in Procs : server[d] = "run"
  /\ Goto(p, "hello", "dial")
  /\ UNCHANGED <<cmd, attempt, server, pipe, port, pending>>

\* Recv, or the second connect(), throws: the server is gone.
ConnectionLost(p) ==
  /\ at[p] \in {"hello", "dial"} /\ p \notin pending
  /\ Retry(p)
  /\ UNCHANGED <<cmd, server, pipe, port, pending>>

\* The second connect(), to the handler's port: a client is made.
Connected(p) ==
  /\ p \in pending
  /\ Goto(p, "dial", "done")
  /\ UNCHANGED <<cmd, attempt, server, pipe, port, pending>>

-----------------------------------------------------------------------------
ServerSteps(p) ==
  OpenLog(p) \/ Daemonize(p) \/ MakeHandler(p) \/ Bind(p) \/ PutAck(p)

ProcSteps(p) ==
  \/ PortBusy(p) \/ ProbeFails(p) \/ Probe(p) \/ ProbeEnds(p) \/ Fork(p) \/ ReadResult(p)
  \/ Dial(p) \/ ConnectionLost(p) \/ Connected(p)

DaemonNext ==
  \/ \E p \in Procs : \/ Execute(p) \/ Kill(p) \/ ProcSteps(p) \/ ServerSteps(p)
                      \/ ServerEnds(p) \/ Hello(p)
  \/ ScriptEnds

DaemonSpec == DaemonInit /\ [][DaemonNext]_vars

(***************************************************************************)
(* Processes are scheduled and their scripts end.  Nothing obliges a       *)
(* server to stop or to say hello.                                         *)
(***************************************************************************)
DaemonFairness ==
  \A p \in Procs : WF_vars(ProcSteps(p)) /\ WF_vars(ServerSteps(p))

DaemonFairSpec == DaemonSpec /\ DaemonFairness

-----------------------------------------------------------------------------
(***************************************************************************)
(* Properties                                                              *)
(***************************************************************************)
Servers == {p \in Procs : server[p] \in {"ack", "run"}}
Probers == {p \in Procs : at[p] = "probe"}

(***************************************************************************)
(* The port arbitrates: of all the processes that launch, probe and kill,  *)
(* at most one has it, so at most one daemon ever accepts clients, and a   *)
(* port that nobody has is free for the next launch.                       *)
(***************************************************************************)
PortOwner ==
  /\ Cardinality(Servers) = IF port = "daemon" THEN 1 ELSE 0
  /\ Cardinality(Probers) = IF port = "probe" THEN 1 ELSE 0

(***************************************************************************)
(* What Launch tells the user is what became of the daemon: "launched      *)
(* successfully" only of a server that had the port, and a failure read    *)
(* from the pipe only of one that never had it.                            *)
(***************************************************************************)
LaunchVerdict ==
  \A p \in Procs :
    /\ at[p] = "launched" => server[p] \in {"run", "ended"}
    /\ at[p] = "failed" /\ cmd[p] = "launch" => server[p] \in {"none", "failed", "broken"}

(***************************************************************************)
(* Several launches at once refuse or break each other, through the port   *)
(* and through IsRunning's own probe, but not all of them: when every      *)
(* process has tried to start the daemon, and none broke for a reason of   *)
(* its own, one of them has started it.                                    *)
(***************************************************************************)
Broke(p) == server[p] = "broken" \/ (at[p] = "failed" /\ server[p] = "none")

RaceHasWinner ==
  (\A p \in Procs : at[p] \in Final /\ cmd[p] \in {"launch", "debug"} /\ ~Broke(p))
    => \E p \in Procs : server[p] \in {"run", "ended"}

(***************************************************************************)
(* Launch returns once the child has said how it went.  The exception is a *)
(* child killed between bind and PutAck: the parent has the pipe's write   *)
(* end open itself, and waits for good.                                    *)
(***************************************************************************)
LaunchReturns ==
  \A p \in Procs :
    at[p] = "read" ~> (at[p] \in Final \/ (server[p] = "ended" /\ pipe[p] = "empty"))

(***************************************************************************)
(* Connect gives up after its attempts however the daemon comes and goes,  *)
(* unless it is left waiting for good for a hello message: that of a       *)
(* listening socket nobody serves, a probe's or an orphaned script's, or   *)
(* of a server that never gets round to it.                                *)
(***************************************************************************)
ConnectEnds ==
  \A p \in Procs : at[p] = "attempt" ~> (at[p] \in Final \/ [](at[p] = "hello"))

(***************************************************************************)
(* Claim of the README, "one authority: all hardware operations go through *)
(* it": nobody else drives the chip while a daemon serves.                 *)
(***************************************************************************)
OneAuthority ==
  \A p, q \in Procs : server[p] = "make" => server[q] # "run"
=============================================================================
