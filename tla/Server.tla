------------------------------- MODULE Server -------------------------------
(***************************************************************************)
(* The threads of Server (Src/Server.cpp): the main thread in Run, the     *)
(* dispatch thread, the cleanup thread and one handler thread per client,  *)
(* from the first accept to the end of Run.  What a handler does with a    *)
(* request is the subject of HandlerImpl; here a session is one point,     *)
(* "serve".                                                                *)
(*                                                                         *)
(* A thread's step ends where another thread can get in: at a lock, a      *)
(* condition variable, a blocking call or a read of an unprotected field.  *)
(* A condition wait is two steps, since a notification that is not sent    *)
(* under the mutex can fall between the predicate and the sleep.           *)
(***************************************************************************)
EXTENDS Naturals, Sequences, FiniteSets

CONSTANTS
  MaxHandlers,      \* bound: connections accepted in one run of the daemon
  SyscallsMayFail,  \* accept(), thread creation and bind() may fail for lack of resources
  PortSpace,        \* number of TCP ports (65536)
  StartingPort,     \* Server::StartingPort (8080)
  DaemonPort        \* the port Socket listens on

ASSUME ServerAssumption ==
  /\ MaxHandlers \in Nat \ {0} /\ SyscallsMayFail \in BOOLEAN
  /\ PortSpace \in Nat \ {0}
  /\ StartingPort \in 0 .. PortSpace - 1 /\ DaemonPort \in 1 .. PortSpace - 1

Ids == 0 .. MaxHandlers - 1

VARIABLES
  main,        \* where the main thread is in Run
  dispatch,    \* where the dispatch thread is in DispatchRoutine
  cleanup,     \* where the cleanup thread is in CleanupRoutine
  handler,     \* where each handler thread is in HandlerRoutine
  DoShutdown,  \* Server::DoShutdown, written by the signal handler
  CurrentId,   \* Server::CurrentId
  ready,       \* the flag ready in the current iteration of DispatchRoutine
  Handlers,    \* keys of Server::Handlers
  Joinables,   \* Server::Joinables
  cancelled,   \* handlers pthread_cancel was called on
  CurrentPort, \* Server::CurrentPort, as htons() and PortType take it
  port         \* the port of each handler's socket, as GetPort() tells it

registry == <<Handlers, Joinables, cancelled>>
ports    == <<CurrentPort, port>>
vars     == <<main, dispatch, cleanup, handler, DoShutdown, CurrentId, ports, ready, registry>>

MainPoints == {"loop", "topause", "pause", "cancelDispatch", "joinDispatch", "iterate",
               "dangling", "notify", "joinCleanup", "done", "dead"}
DispatchPoints == {"top", "accept", "create", "insert", "predicate", "towait", "waiting",
                   "hello", "close", "broken", "ended", "dead"}
CleanupPoints == {"lock", "tosleep", "asleep", "test", "drain", "ended", "dead"}
HandlerPoints == {"none", "start", "notify", "accept", "serve", "leave", "defer", "ended",
                  "dead"}

\* The id of the connection the dispatch thread has in hand.
newId == CurrentId - 1

\* The locals readyCond and ready that handler i has references to still exist.
FrameAlive(i) ==
  i = newId /\ dispatch \in {"insert", "predicate", "towait", "waiting", "hello"}

\* The dispatch thread has been cancelled.
DispatchCancelled ==
  main \notin {"loop", "topause", "pause", "cancelDispatch"}

\* JoinablesMutex is held across steps by the cleanup thread only.
JoinablesMutexFree == cleanup \notin {"tosleep", "test", "drain"}

ServerTypeOK ==
  /\ main \in MainPoints
  /\ dispatch \in DispatchPoints
  /\ cleanup \in CleanupPoints
  /\ handler \in [Ids -> HandlerPoints]
  /\ DoShutdown \in BOOLEAN
  /\ CurrentId \in 0 .. MaxHandlers
  /\ ready \in BOOLEAN
  /\ Handlers \in SUBSET Ids
  /\ Joinables \in Seq(Ids)
  /\ cancelled \in SUBSET Ids
  /\ CurrentPort \in 0 .. PortSpace - 1
  /\ port \in [Ids -> 0 .. PortSpace - 1]

ServerInit ==
  /\ main = "loop"
  /\ dispatch = "top"
  /\ cleanup = "lock"
  /\ handler = [i \in Ids |-> "none"]
  /\ DoShutdown = FALSE
  /\ CurrentId = 0
  /\ ready = FALSE
  /\ Handlers = {}
  /\ Joinables = <<>>
  /\ cancelled = {}
  /\ CurrentPort = StartingPort
  /\ port = [i \in Ids |-> 0]

\* std::terminate, or a crash by undefined behaviour: all threads are gone.
Terminate ==
  /\ main' = "dead" /\ dispatch' = "dead" /\ cleanup' = "dead"
  /\ handler' = [i \in Ids |-> "dead"]
  /\ UNCHANGED <<DoShutdown, CurrentId, ports, ready, registry>>

-----------------------------------------------------------------------------
(***************************************************************************)
(* Run                                                                     *)
(***************************************************************************)
MainMoves(from, to) == main = from /\ main' = to

MainOnly ==
  UNCHANGED <<dispatch, cleanup, handler, DoShutdown, CurrentId, ports, ready, registry>>

\* SIGTERM or SIGINT, from outside or by the Shutdown procedure.
Signal ==
  /\ main \notin {"done", "dead"}
  /\ DoShutdown' = TRUE
  /\ main' = IF main = "pause" THEN "loop" ELSE main
  /\ UNCHANGED <<dispatch, cleanup, handler, CurrentId, ports, ready, registry>>

\* while (!DoShutdown) pause(): the test and the call are two steps.
MainLoop ==
  /\ \/ MainMoves("loop", IF DoShutdown THEN "cancelDispatch" ELSE "topause")
     \/ MainMoves("topause", "pause")
  /\ MainOnly

MainCancelDispatch ==
  /\ MainMoves("cancelDispatch", "joinDispatch")
  /\ MainOnly

MainJoinDispatch ==
  /\ dispatch = "ended"
  /\ MainMoves("joinDispatch", "iterate")
  /\ MainOnly

\* for (auto& pair : Handlers) pthread_cancel, without JoinablesMutex.
MainCancelHandler(i) ==
  /\ main = "iterate"
  /\ i \in Handlers \ cancelled
  /\ cancelled' = cancelled \cup {i}
  /\ UNCHANGED <<main, dispatch, cleanup, handler, DoShutdown, CurrentId, ports, ready,
                 Handlers, Joinables>>

MainIterationEnds ==
  /\ Handlers \subseteq cancelled
  /\ MainMoves("iterate", "notify")
  /\ MainOnly

(***************************************************************************)
(* An element was erased under the iteration.  If it was not the current   *)
(* one nothing happens; else the iterator dangles: it still leads on, it   *)
(* ends the loop too early, or the daemon crashes.                         *)
(***************************************************************************)
MainDangles ==
  \/ /\ \E next \in {"iterate", "notify"} : MainMoves("dangling", next)
     /\ MainOnly
  \/ main = "dangling" /\ Terminate

\* ReadyToJoin.notify_all() without JoinablesMutex.
MainNotify ==
  /\ MainMoves("notify", "joinCleanup")
  /\ cleanup' = IF cleanup = "asleep" THEN "lock" ELSE cleanup
  /\ UNCHANGED <<dispatch, handler, DoShutdown, CurrentId, ports, ready, registry>>

MainJoinCleanup ==
  /\ cleanup = "ended"
  /\ MainMoves("joinCleanup", "done")
  /\ MainOnly

MainStep == \/ MainLoop \/ MainCancelDispatch \/ MainJoinDispatch \/ MainIterationEnds
            \/ MainDangles \/ MainNotify \/ MainJoinCleanup
            \/ \E i \in Ids : MainCancelHandler(i)

-----------------------------------------------------------------------------
(***************************************************************************)
(* DispatchRoutine                                                         *)
(***************************************************************************)
DispatchMoves(from, to) == dispatch = from /\ dispatch' = to

DispatchOnly ==
  UNCHANGED <<main, cleanup, handler, DoShutdown, CurrentId, ports, ready, registry>>

DispatchTop ==
  /\ DispatchMoves("top", IF DoShutdown THEN "ended" ELSE "accept")
  /\ DispatchOnly

\* A client connects: the next id is taken.
DispatchAccept ==
  /\ ~DispatchCancelled
  /\ CurrentId < MaxHandlers
  /\ DispatchMoves("accept", "create")
  /\ CurrentId' = CurrentId + 1
  /\ UNCHANGED <<main, cleanup, handler, DoShutdown, ports, ready, registry>>

\* Handlers whose listening socket is open.
Listening == {i \in Ids : handler[i] \in {"start", "notify", "accept", "serve", "leave"}}

NextPort == (CurrentPort + 1) % PortSpace

\* bind() refuses a port in use; 0 is none: the kernel then binds to one of its choice.
Busy(p) == p # 0 /\ (p = DaemonPort \/ \E i \in Listening : port[i] = p)

\* CreateHandlerSocket fails on one port and goes on to the next.
PortTaken ==
  /\ dispatch = "create"
  /\ Busy(NextPort) \/ SyscallsMayFail
  /\ CurrentPort' = NextPort
  /\ UNCHANGED <<main, dispatch, cleanup, handler, DoShutdown, CurrentId, port, ready, registry>>

\* CreateHandlerSocket has its port, and the handler's thread starts.
DispatchCreate ==
  /\ DispatchMoves("create", "insert")
  /\ ~Busy(NextPort)
  /\ CurrentPort' = NextPort
  /\ port' = [port EXCEPT ![newId] = NextPort]
  /\ ready' = FALSE
  /\ handler' = [handler EXCEPT ![newId] = "start"]
  /\ UNCHANGED <<main, cleanup, DoShutdown, CurrentId, registry>>

\* Any exception ends the thread, and with it the acceptance of clients.
DispatchFails ==
  /\ SyscallsMayFail
  /\ \E from \in {"accept", "create"} : DispatchMoves(from, "ended")
  /\ DispatchOnly

\* Mutant of DispatchInsert: the id is read from CurrentId, which has moved on.
DispatchInsertNext ==
  /\ JoinablesMutexFree
  /\ DispatchMoves("insert", "predicate")
  /\ Handlers' = Handlers \cup {CurrentId}
  /\ UNCHANGED <<main, cleanup, handler, DoShutdown, CurrentId, ports, ready, Joinables, cancelled>>

\* Mutant of DispatchInsert: a thread started during a shutdown is not registered.
DispatchInsertNotAtShutdown ==
  /\ JoinablesMutexFree
  /\ DispatchMoves("insert", "predicate")
  /\ Handlers' = IF DoShutdown THEN Handlers ELSE Handlers \cup {newId}
  /\ UNCHANGED <<main, cleanup, handler, DoShutdown, CurrentId, ports, ready, Joinables, cancelled>>

\* The new thread is registered under JoinablesMutex.
DispatchInsert ==
  /\ JoinablesMutexFree
  /\ DispatchMoves("insert", "predicate")
  /\ Handlers' = Handlers \cup {newId}
  /\ UNCHANGED <<main, cleanup, handler, DoShutdown, CurrentId, ports, ready, Joinables, cancelled>>

\* readyCond.wait(lock, ready): look, and go to sleep in a second step.
DispatchWait ==
  /\ \/ DispatchMoves("predicate", IF ready THEN "hello" ELSE "towait")
     \/ DispatchMoves("towait", "waiting") /\ ~DispatchCancelled
  /\ DispatchOnly

\* hello.Send(): the client may be gone already.  Then the locals are destroyed.
DispatchHello ==
  /\ \/ \E to \in {"close", "broken"} : DispatchMoves("hello", to) /\ ~DispatchCancelled
     \/ DispatchMoves("close", "top") /\ ~DispatchCancelled
     \/ DispatchMoves("broken", "ended") /\ ~DispatchCancelled
  /\ DispatchOnly

\* pthread_cancel is acted on in accept(), sleep(), send() and the condition wait ...
DispatchUnwinds ==
  /\ DispatchCancelled
  /\ \E from \in {"accept", "create", "towait", "waiting", "hello"} : DispatchMoves(from, "ended")
  /\ DispatchOnly

(***************************************************************************)
(* ... but also in the close() of a destructor, which is noexcept: of the  *)
(* client's socket, or in "create" of a ServerSocket whose bind() failed;  *)
(* and in a condition_variable::wait that is noexcept, as in older         *)
(* libstdc++.                                                              *)
(***************************************************************************)
DispatchTerminates ==
  /\ DispatchCancelled
  /\ dispatch \in {"create", "close", "broken", "towait", "waiting"}
  /\ Terminate

DispatchStep == \/ DispatchTop \/ PortTaken \/ DispatchCreate \/ DispatchInsert \/ DispatchWait
                \/ DispatchHello \/ DispatchUnwinds \/ DispatchTerminates

-----------------------------------------------------------------------------
(***************************************************************************)
(* HandlerRoutine                                                          *)
(***************************************************************************)
HandlerMoves(i, from, to) == handler[i] = from /\ handler' = [handler EXCEPT ![i] = to]

HandlerOnly ==
  UNCHANGED <<main, dispatch, cleanup, DoShutdown, CurrentId, ports, ready, registry>>

\* ready = true, through a reference and without readyMutex.
HandlerReady(i) ==
  /\ FrameAlive(i)
  /\ HandlerMoves(i, "start", "notify")
  /\ ready' = TRUE
  /\ UNCHANGED <<main, dispatch, cleanup, DoShutdown, CurrentId, ports, registry>>

\* readyCond.notify_all(), without readyMutex.
HandlerNotify(i) ==
  /\ FrameAlive(i)
  /\ HandlerMoves(i, "notify", "accept")
  /\ dispatch' = IF dispatch = "waiting" THEN "predicate" ELSE dispatch
  /\ UNCHANGED <<main, cleanup, DoShutdown, CurrentId, ports, ready, registry>>

(***************************************************************************)
(* The dispatch thread has left the block that ready and readyCond live    *)
(* in: the handler writes to a dead stack frame, which goes unnoticed or   *)
(* crashes the daemon.                                                     *)
(***************************************************************************)
HandlerDanglingFrame(i) ==
  /\ ~FrameAlive(i)
  /\ \/ HandlerMoves(i, "start", "notify") /\ HandlerOnly
     \/ HandlerMoves(i, "notify", "accept") /\ HandlerOnly
     \/ handler[i] \in {"start", "notify"} /\ Terminate

\* The client has the hello message and connects; to port 0 it cannot.
HandlerAccept(i) ==
  /\ i \notin cancelled /\ ~FrameAlive(i) /\ port[i] # 0
  /\ HandlerMoves(i, "accept", "serve")
  /\ HandlerOnly

HandlerAcceptFails(i) ==
  /\ SyscallsMayFail /\ i \notin cancelled
  /\ HandlerMoves(i, "accept", "leave")
  /\ HandlerOnly

\* The session is over: HandlerImpl's "exit".  Or it ended in std::terminate.
HandlerSessionEnds(i) ==
  /\ i \notin cancelled
  /\ \/ HandlerMoves(i, "serve", "leave") /\ HandlerOnly
     \/ handler[i] = "serve" /\ Terminate

\* Mutant of HandlerUnwinds: cancellation is disabled until a client connects.
HandlerUnwindsInSession(i) ==
  /\ i \in cancelled
  /\ HandlerMoves(i, "serve", "defer")
  /\ HandlerOnly

\* Forced unwinding; the session may fail to say "Server closed".
HandlerUnwinds(i) ==
  /\ i \in cancelled
  /\ \/ \E from \in {"start", "accept", "serve"} : HandlerMoves(i, from, "defer") /\ HandlerOnly
     \/ handler[i] = "serve" /\ Terminate

\* The locals are destroyed; close() is a cancellation point in a destructor.
HandlerLeaves(i) ==
  \/ i \notin cancelled /\ HandlerMoves(i, "leave", "defer") /\ HandlerOnly
  \/ i \in cancelled /\ handler[i] = "leave" /\ Terminate

\* Mutant of HandlerDefer: nobody is told.
HandlerDeferSilent(i) ==
  /\ JoinablesMutexFree
  /\ HandlerMoves(i, "defer", "ended")
  /\ Joinables' = Append(Joinables, i)
  /\ UNCHANGED <<main, dispatch, cleanup, DoShutdown, CurrentId, ports, ready, Handlers, cancelled>>

\* Mutant of HandlerDefer: the id is pushed by the loop's exit and by the Defer.
HandlerDeferTwice(i) ==
  /\ JoinablesMutexFree
  /\ HandlerMoves(i, "defer", "ended")
  /\ Joinables' = Joinables \o <<i, i>>
  /\ cleanup' = IF cleanup = "asleep" THEN "lock" ELSE cleanup
  /\ UNCHANGED <<main, dispatch, DoShutdown, CurrentId, ports, ready, Handlers, cancelled>>

\* The Defer: lock, push, notify_all, unlock; then the thread is finished.
HandlerDefer(i) ==
  /\ JoinablesMutexFree
  /\ HandlerMoves(i, "defer", "ended")
  /\ Joinables' = Append(Joinables, i)
  /\ cleanup' = IF cleanup = "asleep" THEN "lock" ELSE cleanup
  /\ UNCHANGED <<main, dispatch, DoShutdown, CurrentId, ports, ready, Handlers, cancelled>>

HandlerStep(i) == \/ HandlerReady(i) \/ HandlerNotify(i) \/ HandlerDanglingFrame(i)
                  \/ HandlerUnwinds(i) \/ HandlerLeaves(i)

-----------------------------------------------------------------------------
(***************************************************************************)
(* CleanupRoutine                                                          *)
(***************************************************************************)
CleanupMoves(from, to) == cleanup = from /\ cleanup' = to

CleanupOnly ==
  UNCHANGED <<main, dispatch, handler, DoShutdown, CurrentId, ports, ready, registry>>

\* ReadyToJoin.wait: take JoinablesMutex and look; sleep in a second step.
CleanupWait ==
  /\ \/ CleanupMoves("lock", IF Joinables # <<>> \/ DoShutdown THEN "test" ELSE "tosleep")
     \/ CleanupMoves("tosleep", "asleep")
  /\ CleanupOnly

\* Mutant of CleanupTest: a shutdown ends the thread, whoever is still registered.
CleanupTestEarly ==
  /\ CleanupMoves("test", IF DoShutdown THEN "ended" ELSE "drain")
  /\ CleanupOnly

CleanupTest ==
  /\ CleanupMoves("test", IF DoShutdown /\ Handlers = {} THEN "ended" ELSE "drain")
  /\ CleanupOnly

(***************************************************************************)
(* Join the first of Joinables, with JoinablesMutex held, and erase it;    *)
(* Handlers.at() throws out of the thread if the id is not there.          *)
(***************************************************************************)
CleanupJoin ==
  /\ cleanup = "drain" /\ Joinables # <<>>
  /\ LET id == Head(Joinables) IN
       \/ /\ id \in Handlers /\ handler[id] = "ended"
          /\ Handlers' = Handlers \ {id}
          /\ Joinables' = Tail(Joinables)
          /\ main' = IF main = "iterate" THEN "dangling" ELSE main
          /\ UNCHANGED <<dispatch, cleanup, handler, DoShutdown, CurrentId, ports, ready, cancelled>>
       \/ id \notin Handlers /\ Terminate

CleanupDrained ==
  /\ Joinables = <<>>
  /\ CleanupMoves("drain", "lock")
  /\ CleanupOnly

CleanupStep == CleanupWait \/ CleanupTest \/ CleanupJoin \/ CleanupDrained

\* A condition variable may wake up for no reason.
SpuriousWakeup ==
  \/ DispatchMoves("waiting", "predicate") /\ DispatchOnly
  \/ CleanupMoves("asleep", "lock") /\ CleanupOnly

-----------------------------------------------------------------------------
ServerNext ==
  \/ Signal \/ MainStep
  \/ DispatchAccept \/ DispatchFails \/ DispatchStep
  \/ CleanupStep \/ SpuriousWakeup
  \/ \E i \in Ids : \/ HandlerAccept(i) \/ HandlerAcceptFails(i) \/ HandlerSessionEnds(i)
                    \/ HandlerStep(i) \/ HandlerDefer(i)

ServerSpec == ServerInit /\ [][ServerNext]_vars

(***************************************************************************)
(* Every thread that can run runs.  JoinablesMutex goes to a waiting       *)
(* handler sooner or later although the cleanup thread, which polls while  *)
(* it waits for the last sessions, takes it again and again: hence SF.     *)
(* Clients, signals, failures and spurious wakeups are free to come or     *)
(* not.                                                                    *)
(***************************************************************************)
ServerFairness ==
  /\ WF_vars(MainStep)
  /\ WF_vars(DispatchStep)
  /\ SF_vars(DispatchInsert)
  /\ WF_vars(CleanupStep)
  /\ \A i \in Ids : WF_vars(HandlerStep(i)) /\ SF_vars(HandlerDefer(i))

ServerFairSpec == ServerSpec /\ ServerFairness

-----------------------------------------------------------------------------
(***************************************************************************)
(* JoinOnce: the cleanup thread joins with JoinablesMutex held, so a       *)
(* thread in Joinables must be past its own use of that mutex, and it must *)
(* be there once: through normal exit, exceptions and forced unwinding     *)
(* alike, Defer pushes every id exactly one time and as the last thing.    *)
(***************************************************************************)
JoinOnce ==
  /\ \A j, k \in DOMAIN Joinables : Joinables[j] = Joinables[k] => j = k
  /\ \A j \in DOMAIN Joinables : handler[Joinables[j]] \in {"ended", "dead"}

(***************************************************************************)
(* Registered: a handler thread that exists is in Handlers, is about to be *)
(* inserted, or has been joined, so that Run can cancel and join it; and   *)
(* an id in Joinables is in Handlers, where the cleanup thread looks it up *)
(* with at(), except in the one window before the insertion.               *)
(***************************************************************************)
NoThreadLost ==
  \A i \in Ids : handler[i] \notin {"none", "dead"} =>
    \/ i \in Handlers
    \/ i = newId /\ dispatch = "insert"
    \/ handler[i] = "ended" /\ \A j \in DOMAIN Joinables : Joinables[j] # i

JoinableIsKnown ==
  \A j \in DOMAIN Joinables :
    Joinables[j] \in Handlers \/ (Joinables[j] = newId /\ dispatch \in {"insert", "dead"})

Registered == NoThreadLost /\ JoinableIsKnown

(***************************************************************************)
(* LastOneAtMost: when Run returns, every handler thread has ended and was *)
(* joined, but for one at most: that of the client accepted last, which    *)
(* the dispatch thread registered when the cleanup thread had already seen *)
(* no handlers and ended.  Run has cancelled that one; nobody joins it.    *)
(***************************************************************************)
LastOneAtMost ==
  main = "done" =>
    /\ Handlers \subseteq {newId} \cap cancelled
    /\ \A i \in Ids \ Handlers : handler[i] \in {"none", "ended"}

(***************************************************************************)
(* EndedHandlerReaped: while the daemon runs, a handler thread that has    *)
(* ended is joined and erased; its notification is never lost, because it  *)
(* is sent under JoinablesMutex.                                           *)
(***************************************************************************)
EndedHandlerReaped ==
  \A i \in Ids : handler[i] = "ended" /\ i \in Handlers ~>
                   i \notin Handlers \/ DoShutdown \/ main = "dead"

(***************************************************************************)
(* CancelledHandlerEnds: wherever pthread_cancel finds a handler, blocked  *)
(* in accept or recv or waiting for a script, it gets to its Defer and     *)
(* ends, although the cleanup thread competes for JoinablesMutex.          *)
(***************************************************************************)
CancelledHandlerEnds ==
  \A i \in Ids : i \in cancelled ~> handler[i] \in {"ended", "dead"}

(***************************************************************************)
(* ShutdownWithClients: if Run waits for the cleanup thread while some     *)
(* handlers are still there, all of them cancelled, then Run returns: the  *)
(* handlers' own notifications make up for a lost one of Run.              *)
(***************************************************************************)
ShutdownWithClients ==
  main = "joinCleanup" /\ cleanup # "ended" /\ Handlers # {} /\ Handlers \subseteq cancelled
    ~> main \in {"done", "dead"}

(***************************************************************************)
(* CleanupFinishes: Run's wait for the cleanup thread ends.                *)
(***************************************************************************)
CleanupFinishes == main = "joinCleanup" ~> main \in {"done", "dead"}

(***************************************************************************)
(* HelloFollowsReady: the dispatch thread waits for the handler it started *)
(* only until that handler is ready.                                       *)
(***************************************************************************)
HelloFollowsReady == dispatch = "waiting" /\ ready ~> dispatch # "waiting"
=============================================================================
