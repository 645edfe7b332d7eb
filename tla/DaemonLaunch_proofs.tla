------------------------ MODULE DaemonLaunch_proofs ------------------------
(***************************************************************************)
(* Proofs about DaemonLaunch, for any number of processes, any commands    *)
(* and any number of attempts to connect.                                  *)
(***************************************************************************)
EXTENDS DaemonLaunch, FiniteSetTheorems, TLAPS

USE LaunchAssumption

Before == {"idle", "isRunning", "probe", "fork", "refused", "attempt", "hello", "dial"}
Early  == {"log", "daemonize", "make", "bind"}

(***************************************************************************)
(* How a command, the process that runs it, the server process it makes    *)
(* and the pipe between the two go together.                               *)
(***************************************************************************)
CommandInv ==
  \A p \in Procs :
    /\ at[p] = "idle" => cmd[p] = "none"
    /\ at[p] = "fork" => cmd[p] = "launch"
    /\ at[p] \in {"attempt", "hello", "dial"} => cmd[p] = "connect"
    /\ at[p] = "serving" => cmd[p] = "debug" /\ server[p] \in {"make", "bind", "ack", "run"}
    /\ at[p] \in {"read", "launched"} => cmd[p] = "launch"
    /\ at[p] \in Before => server[p] = "none"
    /\ server[p] \in Early \cup {"ack"} =>
         \/ cmd[p] = "launch" /\ at[p] = "read"
         \/ cmd[p] = "debug" /\ at[p] = "serving"

PipeInv ==
  \A p \in Procs :
    /\ server[p] \in {"none", "ack"} \cup Early => pipe[p] = "empty"
    /\ pipe[p] = "ack" => server[p] \in {"run", "ended"}
    /\ pipe[p] = "error" => server[p] \in {"failed", "broken"}
    /\ at[p] = "launched" => pipe[p] = "ack"

EndInv ==
  \A p \in Procs :
    /\ at[p] = "failed" /\ cmd[p] \in {"launch", "debug"} =>
         server[p] \in {"none", "failed", "broken"}
    /\ at[p] = "done" /\ cmd[p] \in {"launch", "debug"} => server[p] = "ended"
    /\ at[p] = "killed" => \E k \in Procs : cmd[k] = "kill"

\* Whoever has the port is the only one, and the port knows.
PortInv ==
  /\ \A p, q \in Procs : p \in Servers /\ q \in Servers => p = q
  /\ \A p, q \in Procs : p \in Probers /\ q \in Probers => p = q
  /\ port = "daemon" <=> \E p \in Procs : p \in Servers
  /\ port = "probe" <=> \E p \in Procs : p \in Probers
  /\ port = "script" => \E p \in Procs : server[p] = "ended"

(***************************************************************************)
(* While nobody but launches is about, somebody who lost lost to somebody: *)
(* to one who has the port or had it, who is still on the way to it, or    *)
(* who broke on the way.                                                   *)
(***************************************************************************)
OnlyLaunches == \A p \in Procs : cmd[p] \in {"none", "launch", "debug"}
Lost(p)      == at[p] = "refused" \/ server[p] = "failed"
Started(p)   == server[p] \in {"ack", "run", "ended"}
Contends(p)  == at[p] \in {"probe", "fork"} \/ server[p] \in Early

RaceInv ==
  OnlyLaunches /\ (\E p \in Procs : Lost(p)) =>
    \E p \in Procs : Started(p) \/ Contends(p) \/ Broke(p)

DaemonInv == DaemonTypeOK /\ CommandInv /\ PipeInv /\ EndInv /\ PortInv /\ RaceInv

(***************************************************************************)
(* At the start nobody has done anything.                                  *)
(***************************************************************************)
LEMMA DaemonInitInv == DaemonInit => DaemonInv
BY DEF DaemonInit, DaemonInv, DaemonTypeOK, CommandInv, PipeInv, EndInv, PortInv, RaceInv, Lost,
       Servers, Probers, Early, Before, Points, ServerPoints

(***************************************************************************)
(* A command begins.                                                       *)
(***************************************************************************)
LEMMA ExecuteInv == ASSUME NEW p \in Procs, DaemonInv, Execute(p) PROVE DaemonInv'
<1> USE DEF DaemonInv, DaemonTypeOK, Execute, Goto
<1>1. DaemonTypeOK'
  BY DEF Points, ServerPoints, Final
<1>2. CommandInv'
  BY DEF CommandInv, Before, Early
<1>3. PipeInv'
  BY DEF PipeInv, CommandInv, Before, Early
<1>4. EndInv'
  BY DEF EndInv, CommandInv, PipeInv, Before, Early
<1>5. PortInv'
  BY DEF PortInv, CommandInv, Servers, Probers, Before, Early
<1>6. RaceInv'
  BY DEF RaceInv, OnlyLaunches, Lost, Started, Contends, Broke, CommandInv, PortInv, Servers,
         Probers, Before, Early
<1> QED
  BY <1>1, <1>2, <1>3, <1>4, <1>5, <1>6

(***************************************************************************)
(* A launch is refused, which somebody who has the port is the cause of.   *)
(***************************************************************************)
LEMMA PortBusyInv == ASSUME NEW p \in Procs, DaemonInv, PortBusy(p) PROVE DaemonInv'
<1> USE DEF DaemonInv, DaemonTypeOK, PortBusy, Goto
<1>1. DaemonTypeOK'
  BY DEF Points, ServerPoints, Final
<1>2. CommandInv'
  BY DEF CommandInv, Before, Early
<1>3. PipeInv'
  BY DEF PipeInv, CommandInv, Before, Early
<1>4. EndInv'
  BY DEF EndInv, CommandInv, PipeInv, Before, Early
<1>5. PortInv'
  BY DEF PortInv, CommandInv, Servers, Probers, Before, Early
<1>6. RaceInv'
  BY DEF RaceInv, OnlyLaunches, Lost, Started, Contends, Broke, CommandInv, PortInv, Servers,
         Probers, Before, Early
<1> QED
  BY <1>1, <1>2, <1>3, <1>4, <1>5, <1>6

(***************************************************************************)
(* IsRunning throws before it has the port.                                *)
(***************************************************************************)
LEMMA ProbeFailsInv == ASSUME NEW p \in Procs, DaemonInv, ProbeFails(p) PROVE DaemonInv'
<1> USE DEF DaemonInv, DaemonTypeOK, ProbeFails, Goto
<1>1. DaemonTypeOK'
  BY DEF Points, ServerPoints, Final
<1>2. CommandInv'
  BY DEF CommandInv, Before, Early
<1>3. PipeInv'
  BY DEF PipeInv, CommandInv, Before, Early
<1>4. EndInv'
  BY DEF EndInv, CommandInv, PipeInv, Before, Early
<1>5. PortInv'
  BY DEF PortInv, CommandInv, Servers, Probers, Before, Early
<1>6. RaceInv'
  BY DEF RaceInv, OnlyLaunches, Lost, Started, Contends, Broke, CommandInv, PortInv, Servers,
         Probers, Before, Early
<1> QED
  BY <1>1, <1>2, <1>3, <1>4, <1>5, <1>6

(***************************************************************************)
(* IsRunning takes the port if it is free.                                 *)
(***************************************************************************)
LEMMA ProbeInv == ASSUME NEW p \in Procs, DaemonInv, Probe(p) PROVE DaemonInv'
<1> USE DEF DaemonInv, DaemonTypeOK, Probe, Goto
<1>1. DaemonTypeOK'
  BY DEF Points, ServerPoints, Final
<1>2. CommandInv'
  BY DEF CommandInv, Before, Early
<1>3. PipeInv'
  BY DEF PipeInv, CommandInv, Before, Early
<1>4. EndInv'
  BY DEF EndInv, CommandInv, PipeInv, Before, Early
<1>5. PortInv'
  BY DEF PortInv, CommandInv, Servers, Probers, Before, Early
<1>6. RaceInv'
  BY DEF RaceInv, OnlyLaunches, Lost, Started, Contends, Broke, CommandInv, PortInv, Servers,
         Probers, Before, Early
<1> QED
  BY <1>1, <1>2, <1>3, <1>4, <1>5, <1>6

(***************************************************************************)
(* IsRunning gives the port back; a launch goes on to make its server.     *)
(***************************************************************************)
LEMMA ProbeEndsInv == ASSUME NEW p \in Procs, DaemonInv, ProbeEnds(p) PROVE DaemonInv'
<1> USE DEF DaemonInv, DaemonTypeOK, ProbeEnds, NotRunning, ClosePort, Goto
<1>1. DaemonTypeOK'
  BY DEF Points, ServerPoints, Final
<1>2. CommandInv'
  BY DEF CommandInv, Before, Early
<1>3. PipeInv'
  BY DEF PipeInv, CommandInv, Before, Early
<1>4. EndInv'
  BY DEF EndInv, CommandInv, PipeInv, Before, Early
<1>5. PortInv'
  BY DEF PortInv, CommandInv, Servers, Probers, Before, Early
<1>6. RaceInv'
  BY DEF RaceInv, OnlyLaunches, Lost, Started, Contends, Broke, CommandInv, PortInv, Servers,
         Probers, Before, Early
<1> QED
  BY <1>1, <1>2, <1>3, <1>4, <1>5, <1>6

(***************************************************************************)
(* Whoever has the port is killed.                                         *)
(***************************************************************************)
LEMMA KillInv == ASSUME NEW p \in Procs, DaemonInv, Kill(p) PROVE DaemonInv'
<1> USE DEF DaemonInv, DaemonTypeOK, Kill, ClosePort
<1>1. DaemonTypeOK'
  BY DEF Points, ServerPoints, Final
<1>2. CommandInv'
  BY DEF CommandInv, Before, Early
<1>3. PipeInv'
  BY DEF PipeInv, CommandInv, Before, Early
<1>4. EndInv'
  BY DEF EndInv, CommandInv, PipeInv, Before, Early
<1>5. PortInv'
  BY DEF PortInv, CommandInv, Servers, Probers, Before, Early
<1>6. RaceInv'
  BY DEF RaceInv, OnlyLaunches, Lost, Started, Contends, Broke, CommandInv, PortInv, Servers,
         Probers, Before, Early
<1> QED
  BY <1>1, <1>2, <1>3, <1>4, <1>5, <1>6

(***************************************************************************)
(* A launch makes its server process.                                      *)
(***************************************************************************)
LEMMA ForkInv == ASSUME NEW p \in Procs, DaemonInv, Fork(p) PROVE DaemonInv'
<1> USE DEF DaemonInv, DaemonTypeOK, Fork, Goto
<1>1. DaemonTypeOK'
  BY DEF Points, ServerPoints, Final
<1>2. CommandInv'
  BY DEF CommandInv, Before, Early
<1>3. PipeInv'
  BY DEF PipeInv, CommandInv, Before, Early
<1>4. EndInv'
  BY DEF EndInv, CommandInv, PipeInv, Before, Early
<1>5. PortInv'
  BY DEF PortInv, CommandInv, Servers, Probers, Before, Early
<1>6. RaceInv'
  BY DEF RaceInv, OnlyLaunches, Lost, Started, Contends, Broke, CommandInv, PortInv, Servers,
         Probers, Before, Early
<1> QED
  BY <1>1, <1>2, <1>3, <1>4, <1>5, <1>6

(***************************************************************************)
(* The server process gets ready for its port, or breaks.                  *)
(***************************************************************************)
LEMMA PrepareInv ==
  ASSUME NEW p \in Procs, DaemonInv, OpenLog(p) \/ Daemonize(p) \/ MakeHandler(p)
  PROVE  DaemonInv'
<1> USE DEF DaemonInv, DaemonTypeOK, OpenLog, Daemonize, MakeHandler, ServerMoves, ServerFails, Goto
<1>1. DaemonTypeOK'
  BY DEF Points, ServerPoints, Final
<1>2. CommandInv'
  BY DEF CommandInv, Before, Early
<1>3. PipeInv'
  BY DEF PipeInv, CommandInv, Before, Early
<1>4. EndInv'
  BY DEF EndInv, CommandInv, PipeInv, Before, Early
<1>5. PortInv'
  BY DEF PortInv, CommandInv, Servers, Probers, Before, Early
<1>6. RaceInv'
  BY DEF RaceInv, OnlyLaunches, Lost, Started, Contends, Broke, CommandInv, PortInv, Servers,
         Probers, Before, Early
<1> QED
  BY <1>1, <1>2, <1>3, <1>4, <1>5, <1>6

(***************************************************************************)
(* The server takes the port if it is free; else it has lost to another one.*)
(***************************************************************************)
LEMMA BindInv == ASSUME NEW p \in Procs, DaemonInv, Bind(p) PROVE DaemonInv'
<1> USE DEF DaemonInv, DaemonTypeOK, Bind, ServerMoves, ServerFails, Goto
<1>1. DaemonTypeOK'
  BY DEF Points, ServerPoints, Final
<1>2. CommandInv'
  BY DEF CommandInv, Before, Early
<1>3. PipeInv'
  BY DEF PipeInv, CommandInv, Before, Early
<1>4. EndInv'
  BY DEF EndInv, CommandInv, PipeInv, Before, Early
<1>5. PortInv'
  BY DEF PortInv, CommandInv, Servers, Probers, Before, Early
<1>6. RaceInv'
  BY DEF RaceInv, OnlyLaunches, Lost, Started, Contends, Broke, CommandInv, PortInv, Servers,
         Probers, Before, Early
<1> QED
  BY <1>1, <1>2, <1>3, <1>4, <1>5, <1>6

(***************************************************************************)
(* The server tells its parent.                                            *)
(***************************************************************************)
LEMMA PutAckInv == ASSUME NEW p \in Procs, DaemonInv, PutAck(p) PROVE DaemonInv'
<1> USE DEF DaemonInv, DaemonTypeOK, PutAck, ServerMoves
<1>1. DaemonTypeOK'
  BY DEF Points, ServerPoints, Final
<1>2. CommandInv'
  BY DEF CommandInv, Before, Early
<1>3. PipeInv'
  BY DEF PipeInv, CommandInv, Before, Early
<1>4. EndInv'
  BY DEF EndInv, CommandInv, PipeInv, Before, Early
<1>5. PortInv'
  BY DEF PortInv, CommandInv, Servers, Probers, Before, Early
<1>6. RaceInv'
  BY DEF RaceInv, OnlyLaunches, Lost, Started, Contends, Broke, CommandInv, PortInv, Servers,
         Probers, Before, Early
<1> QED
  BY <1>1, <1>2, <1>3, <1>4, <1>5, <1>6

(***************************************************************************)
(* Launch returns.                                                         *)
(***************************************************************************)
LEMMA ReadResultInv == ASSUME NEW p \in Procs, DaemonInv, ReadResult(p) PROVE DaemonInv'
<1> USE DEF DaemonInv, DaemonTypeOK, ReadResult, Goto
<1>1. DaemonTypeOK'
  BY DEF Points, ServerPoints, Final
<1>2. CommandInv'
  BY DEF CommandInv, PipeInv, Before, Early
<1>3. PipeInv'
  BY DEF PipeInv, CommandInv, Before, Early
<1>4. EndInv'
  BY DEF EndInv, CommandInv, PipeInv, Before, Early
<1>5. PortInv'
  BY DEF PortInv, CommandInv, Servers, Probers, Before, Early
<1>6. RaceInv'
  BY DEF RaceInv, OnlyLaunches, Lost, Started, Contends, Broke, CommandInv, PortInv, Servers,
         Probers, Before, Early
<1> QED
  BY <1>1, <1>2, <1>3, <1>4, <1>5, <1>6

(***************************************************************************)
(* The daemon ends; a script may keep its port.                            *)
(***************************************************************************)
LEMMA ServerEndsInv == ASSUME NEW p \in Procs, DaemonInv, ServerEnds(p) PROVE DaemonInv'
<1> USE DEF DaemonInv, DaemonTypeOK, ServerEnds, ServerMoves, ClosePort
<1>1. DaemonTypeOK'
  BY DEF Points, ServerPoints, Final
<1>2. CommandInv'
  BY DEF CommandInv, Before, Early
<1>3. PipeInv'
  BY DEF PipeInv, CommandInv, Before, Early
<1>4. EndInv'
  BY DEF EndInv, CommandInv, PipeInv, Before, Early
<1>5. PortInv'
  BY DEF PortInv, CommandInv, Servers, Probers, Before, Early
<1>6. RaceInv'
  BY DEF RaceInv, OnlyLaunches, Lost, Started, Contends, Broke, CommandInv, PortInv, Servers,
         Probers, Before, Early
<1> QED
  BY <1>1, <1>2, <1>3, <1>4, <1>5, <1>6

(***************************************************************************)
(* Connect's attempts.                                                     *)
(***************************************************************************)
LEMMA ConnectInv ==
  ASSUME NEW p \in Procs, DaemonInv,
         Dial(p) \/ Hello(p) \/ ConnectionLost(p) \/ Connected(p)
  PROVE  DaemonInv'
<1> USE DEF DaemonInv, DaemonTypeOK, Dial, Hello, ConnectionLost, Connected, Retry, Goto
<1>1. DaemonTypeOK'
  BY DEF Points, ServerPoints, Final
<1>2. CommandInv'
  BY DEF CommandInv, Before, Early
<1>3. PipeInv'
  BY DEF PipeInv, CommandInv, Before, Early
<1>4. EndInv'
  BY DEF EndInv, CommandInv, PipeInv, Before, Early
<1>5. PortInv'
  BY DEF PortInv, CommandInv, Servers, Probers, Before, Early
<1>6. RaceInv'
  BY DEF RaceInv, OnlyLaunches, Lost, Started, Contends, Broke, CommandInv, PortInv, Servers,
         Probers, Before, Early
<1> QED
  BY <1>1, <1>2, <1>3, <1>4, <1>5, <1>6

(***************************************************************************)
(* The script that had inherited the port ends.                            *)
(***************************************************************************)
LEMMA ScriptEndsInv == DaemonInv /\ ScriptEnds => DaemonInv'
BY DEF DaemonInv, DaemonTypeOK, CommandInv, PipeInv, EndInv, PortInv, RaceInv, OnlyLaunches, Lost,
       Started, Contends, Broke, Servers, Probers, ScriptEnds, ClosePort

(***************************************************************************)
(* The invariant holds whatever the processes run and in whatever order.   *)
(***************************************************************************)
THEOREM DaemonInvariant == DaemonSpec => []DaemonInv
<1>1. DaemonInv /\ [DaemonNext]_vars => DaemonInv'
  <2> SUFFICES ASSUME DaemonInv, [DaemonNext]_vars PROVE DaemonInv'
    OBVIOUS
  <2>1. CASE UNCHANGED vars
    BY <2>1 DEF vars, DaemonInv, DaemonTypeOK, CommandInv, PipeInv, EndInv, PortInv, RaceInv,
                OnlyLaunches, Lost, Started, Contends, Broke, Servers, Probers
  <2>2. ASSUME NEW p \in Procs, ProcSteps(p) PROVE DaemonInv'
    BY <2>2, PortBusyInv, ProbeFailsInv, ProbeInv, ProbeEndsInv, ForkInv, ReadResultInv, ConnectInv
    DEF ProcSteps
  <2>3. ASSUME NEW p \in Procs, ServerSteps(p) PROVE DaemonInv'
    BY <2>3, PrepareInv, BindInv, PutAckInv DEF ServerSteps
  <2> QED
    BY <2>1, <2>2, <2>3, ExecuteInv, KillInv, ServerEndsInv, ConnectInv, ScriptEndsInv
       DEF DaemonNext
<1> QED
  BY <1>1, DaemonInitInv, PTL DEF DaemonSpec

(***************************************************************************)
(* Every process is at a point of its command, and Connect never counts    *)
(* beyond ConnAttemptCount.                                                *)
(***************************************************************************)
THEOREM DaemonTypeCorrect == DaemonSpec => []DaemonTypeOK
BY DaemonInvariant, PTL DEF DaemonInv

(***************************************************************************)
(* A set with one element, or with none, as the port counts them.          *)
(***************************************************************************)
LEMMA AtMostOne ==
  ASSUME NEW S, \A p, q \in S : p = q
  PROVE  Cardinality(S) = IF S # {} THEN 1 ELSE 0
<1>1. CASE S = {}
  BY <1>1, FS_EmptySet
<1>2. CASE S # {}
  <2>1. PICK p \in S : TRUE
    BY <1>2
  <2>2. S = {p}
    BY <2>1
  <2> QED
    BY <1>2, <2>2, FS_Singleton
<1> QED
  BY <1>1, <1>2

(***************************************************************************)
(* Whatever is launched, probed and killed, at most one process has the    *)
(* port, and a port that no process and no script has is free.             *)
(***************************************************************************)
THEOREM OneOwner == DaemonSpec => []PortOwner
<1>1. DaemonInv => PortOwner
  <2> SUFFICES ASSUME DaemonInv PROVE PortOwner
    OBVIOUS
  <2>1. Cardinality(Servers) = IF Servers # {} THEN 1 ELSE 0
    BY AtMostOne DEF DaemonInv, PortInv, Servers
  <2>2. Cardinality(Probers) = IF Probers # {} THEN 1 ELSE 0
    BY AtMostOne DEF DaemonInv, PortInv, Probers
  <2>3. port = "daemon" <=> Servers # {}
    BY DEF DaemonInv, PortInv, Servers
  <2>4. port = "probe" <=> Probers # {}
    BY DEF DaemonInv, PortInv, Probers
  <2> QED
    BY <2>1, <2>2, <2>3, <2>4 DEF PortOwner
<1> QED
  BY <1>1, DaemonInvariant, PTL

(***************************************************************************)
(* "Launched successfully" is said only of a server that had the port, and *)
(* a failure read from the pipe only of one that never had it.             *)
(***************************************************************************)
THEOREM VerdictOfLaunch == DaemonSpec => []LaunchVerdict
<1>1. DaemonInv => LaunchVerdict
  BY DEF DaemonInv, PipeInv, EndInv, LaunchVerdict
<1> QED
  BY <1>1, DaemonInvariant, PTL

(***************************************************************************)
(* Any number of launches at once cannot all be refused: without a failure *)
(* of its own kind, one of them starts the daemon.                         *)
(***************************************************************************)
THEOREM SomeLaunchWins == DaemonSpec => []RaceHasWinner
<1>1. DaemonInv => RaceHasWinner
  <2> SUFFICES ASSUME DaemonInv, \A p \in Procs : at[p] \in Final /\ cmd[p] \in {"launch", "debug"} /\ ~Broke(p)
               PROVE  \E p \in Procs : server[p] \in {"run", "ended"}
    BY DEF RaceHasWinner
  <2>1. \A p \in Procs : ~Contends(p) /\ server[p] # "ack"
    BY DEF Contends, DaemonInv, CommandInv, Final, Early
  <2>2. CASE \E p \in Procs : Lost(p)
    BY <2>1, <2>2 DEF DaemonInv, RaceInv, OnlyLaunches, Started
  <2>3. CASE \A p \in Procs : ~Lost(p)
    <3>1. PICK p \in Procs : TRUE
      OBVIOUS
    <3>2. at[p] \notin {"refused", "killed"}
      BY <2>3 DEF Lost, DaemonInv, EndInv
    <3>3. CASE at[p] = "launched"
      BY <3>3 DEF DaemonInv, PipeInv
    <3>4. CASE at[p] = "failed"
      BY <2>3, <3>4 DEF DaemonInv, EndInv, Lost, Broke
    <3>5. CASE at[p] = "done"
      BY <3>5 DEF DaemonInv, EndInv
    <3> QED
      BY <3>2, <3>3, <3>4, <3>5 DEF Final
  <2> QED
    BY <2>2, <2>3
<1> QED
  BY <1>1, DaemonInvariant, PTL
=============================================================================
