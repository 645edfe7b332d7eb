--------------------------- MODULE Server_proofs ---------------------------
(***************************************************************************)
(* Proofs about Server, for any number of connections, any port numbers    *)
(* and with or without failing system calls.                               *)
(***************************************************************************)
EXTENDS Server, SequenceTheorems, TLAPS

USE ServerAssumption

(***************************************************************************)
(* The threads of one process die together; an id has no thread before the *)
(* dispatch thread has made one of it.                                     *)
(***************************************************************************)
ThreadsInv ==
  /\ \A i \in Ids : handler[i] = "dead" <=> dispatch = "dead"
  /\ \A i \in Ids : i >= CurrentId \/ (i = newId /\ dispatch = "create")
                      => handler[i] \in {"none", "dead"}
  /\ dispatch \in {"create", "insert"} => CurrentId > 0

\* The inductive invariant of the server.
ServerInv == ServerTypeOK /\ ThreadsInv /\ JoinOnce /\ Registered

(***************************************************************************)
(* What Append and Tail do to the elements of Joinables.                   *)
(***************************************************************************)
LEMMA AppendElements ==
  ASSUME NEW S, NEW s \in Seq(S), NEW e \in S
  PROVE  /\ Append(s, e) \in Seq(S)
         /\ DOMAIN Append(s, e) = 1 .. Len(s) + 1 /\ DOMAIN s = 1 .. Len(s) /\ Len(s) \in Nat
         /\ \A k \in 1 .. Len(s) : Append(s, e)[k] = s[k]
         /\ Append(s, e)[Len(s) + 1] = e
BY AppendProperties

(***************************************************************************)
(* Tail takes the first of Joinables away and keeps the order of the rest. *)
(***************************************************************************)
LEMMA TailElements ==
  ASSUME NEW S, NEW s \in Seq(S), s # <<>>
  PROVE  /\ Tail(s) \in Seq(S)
         /\ DOMAIN Tail(s) = 1 .. Len(s) - 1 /\ DOMAIN s = 1 .. Len(s) /\ Len(s) \in Nat \ {0}
         /\ Head(s) = s[1] /\ Head(s) \in S
         /\ \A k \in 1 .. Len(s) - 1 : Tail(s)[k] = s[k + 1]
BY HeadTailProperties, EmptySeq, LenProperties

(***************************************************************************)
(* A crash leaves nobody to lose a thread.                                 *)
(***************************************************************************)
LEMMA TerminateInv == ServerInv /\ Terminate => ServerInv'
<1> SUFFICES ASSUME ServerInv, Terminate PROVE ServerInv'
  OBVIOUS
<1> USE DEF ServerInv, Terminate, newId, registry, ports
<1>1. ServerTypeOK'
  BY DEF ServerTypeOK, MainPoints, DispatchPoints, CleanupPoints, HandlerPoints
<1>2. ThreadsInv'
  BY DEF ThreadsInv
<1>3. JoinOnce'
  BY DEF JoinOnce, ServerTypeOK
<1>4. Registered'
  BY DEF Registered, NoThreadLost, JoinableIsKnown
<1> QED
  BY <1>1, <1>2, <1>3, <1>4

(***************************************************************************)
(* A handler thread goes on to its next point without touching anything    *)
(* that threads share; it keeps its socket or closes it for good.          *)
(***************************************************************************)
Onward == {<<"start", "notify">>, <<"notify", "accept">>, <<"accept", "serve">>,
           <<"accept", "leave">>, <<"serve", "leave">>, <<"start", "defer">>,
           <<"accept", "defer">>, <<"serve", "defer">>, <<"leave", "defer">>}

(***************************************************************************)
(* Such a step keeps the invariant.                                        *)
(***************************************************************************)
LEMMA OnwardInv ==
  ASSUME NEW i \in Ids, ServerInv,
         <<handler[i], handler'[i]>> \in Onward, handler' = [handler EXCEPT ![i] = handler'[i]],
         UNCHANGED <<CurrentId, ports, registry>>, main' \in MainPoints, cleanup' \in CleanupPoints,
         DoShutdown' \in BOOLEAN, ready' \in BOOLEAN,
         \/ UNCHANGED dispatch
         \/ dispatch = "waiting" /\ dispatch' = "predicate"
  PROVE  ServerInv'
<1> USE DEF ServerInv, newId, registry, ports
<1>1. /\ handler[i] \in {"start", "notify", "accept", "serve", "leave"}
      /\ handler'[i] \in {"notify", "accept", "serve", "leave", "defer"}
      /\ \A k \in Ids \ {i} : handler'[k] = handler[k]
      /\ handler' \in [Ids -> HandlerPoints]
  BY DEF Onward, ServerTypeOK, HandlerPoints
<1>2. ServerTypeOK'
  BY <1>1 DEF ServerTypeOK, DispatchPoints
<1>3. ThreadsInv'
  BY <1>1 DEF ThreadsInv, ServerTypeOK
<1>4. JoinOnce'
  <2>1. \A j \in DOMAIN Joinables : Joinables[j] \in Ids /\ Joinables[j] # i
    BY <1>1 DEF JoinOnce, ServerTypeOK
  <2>2. \A j \in DOMAIN Joinables : handler'[Joinables[j]] \in {"ended", "dead"}
    BY <1>1, <2>1 DEF JoinOnce
  <2> QED
    BY <2>2 DEF JoinOnce
<1>5. Registered'
  <2>1. NoThreadLost'
    BY <1>1 DEF Registered, NoThreadLost, ServerTypeOK
  <2>2. JoinableIsKnown'
    BY <1>1 DEF Registered, JoinableIsKnown, ServerTypeOK
  <2> QED
    BY <2>1, <2>2 DEF Registered
<1> QED
  BY <1>2, <1>3, <1>4, <1>5

(***************************************************************************)
(* The steps that move no handler and neither take an id nor touch the     *)
(* registry; the dispatch thread is not about to register anything.        *)
(***************************************************************************)
LEMMA ElsewhereInv ==
  ASSUME ServerInv, UNCHANGED <<handler, CurrentId, port, Handlers, Joinables>>,
         main' \in MainPoints, cleanup' \in CleanupPoints, dispatch' \in DispatchPoints,
         DoShutdown' \in BOOLEAN, ready' \in BOOLEAN, cancelled' \in SUBSET Ids,
         CurrentPort' \in 0 .. PortSpace - 1,
         \/ UNCHANGED dispatch
         \/ dispatch \notin {"insert", "dead"} /\ dispatch' \notin {"create", "insert", "dead"}
  PROVE  ServerInv'
<1> USE DEF ServerInv, newId
<1>1. ServerTypeOK'
  BY DEF ServerTypeOK
<1>2. ThreadsInv'
  BY DEF ThreadsInv
<1>3. JoinOnce'
  BY DEF JoinOnce
<1>4. Registered'
  BY DEF Registered, NoThreadLost, JoinableIsKnown
<1> QED
  BY <1>1, <1>2, <1>3, <1>4

(***************************************************************************)
(* The steps of the main thread and of signals.                            *)
(***************************************************************************)
LEMMA MainInv == ServerInv /\ (Signal \/ MainStep) => ServerInv'
<1> SUFFICES ASSUME ServerInv, Signal \/ MainStep, ~Terminate PROVE ServerInv'
  BY TerminateInv
<1>1. ServerTypeOK
  BY DEF ServerInv
<1> USE DEF ServerTypeOK, MainMoves, MainOnly, MainPoints, CleanupPoints, registry, ports
<1>2. UNCHANGED <<dispatch, handler, CurrentId, CurrentPort, port, Handlers, Joinables, ready>>
  BY DEF Signal, MainStep, MainLoop, MainCancelDispatch, MainJoinDispatch, MainIterationEnds,
         MainDangles, MainNotify, MainJoinCleanup, MainCancelHandler
<1>3. main' \in MainPoints /\ DoShutdown' \in BOOLEAN
  BY <1>1 DEF Signal, MainStep, MainLoop, MainCancelDispatch, MainJoinDispatch, MainIterationEnds,
         MainDangles, MainNotify, MainJoinCleanup, MainCancelHandler
<1>4. cleanup' \in CleanupPoints /\ cancelled' \in SUBSET Ids
  BY <1>1 DEF Signal, MainStep, MainLoop, MainCancelDispatch, MainJoinDispatch, MainIterationEnds,
         MainDangles, MainNotify, MainJoinCleanup, MainCancelHandler
<1> QED
  BY <1>1, <1>2, <1>3, <1>4, ElsewhereInv

(***************************************************************************)
(* A new connection: it gets an id no thread has had.                      *)
(***************************************************************************)
LEMMA AcceptInv == ServerInv /\ DispatchAccept => ServerInv'
<1> SUFFICES ASSUME ServerInv, DispatchAccept PROVE ServerInv'
  OBVIOUS
<1> USE DEF ServerInv, DispatchAccept, DispatchMoves, registry, ports
<1>1. ServerTypeOK'
  BY DEF ServerTypeOK, DispatchPoints
<1>2. ThreadsInv'
  BY DEF ThreadsInv, ServerTypeOK, newId, Ids
<1>3. JoinOnce'
  BY DEF JoinOnce
<1>4. Registered'
  BY DEF Registered, NoThreadLost, JoinableIsKnown
<1> QED
  BY <1>1, <1>2, <1>3, <1>4

(***************************************************************************)
(* A new thread, whose id nobody has seen.                                 *)
(***************************************************************************)
LEMMA CreateInv == ServerInv /\ DispatchCreate => ServerInv'
<1> SUFFICES ASSUME ServerInv, DispatchCreate PROVE ServerInv'
  OBVIOUS
<1> USE DEF ServerInv, DispatchCreate, DispatchMoves, registry, ports
<1>1. /\ newId \in Ids /\ newId' = newId /\ handler[newId] = "none"
      /\ NextPort \in 0 .. PortSpace - 1
  BY DEF ServerTypeOK, ThreadsInv, newId, Ids, NextPort
<1>2. /\ handler' \in [Ids -> HandlerPoints] /\ handler'[newId] = "start"
      /\ \A i \in Ids \ {newId} : handler'[i] = handler[i]
  BY <1>1 DEF ServerTypeOK, HandlerPoints
<1>3. /\ port' \in [Ids -> 0 .. PortSpace - 1] /\ port'[newId] = NextPort
      /\ \A i \in Ids \ {newId} : port'[i] = port[i]
  BY <1>1 DEF ServerTypeOK
<1>4. ServerTypeOK'
  BY <1>1, <1>2, <1>3 DEF ServerTypeOK, DispatchPoints
<1>5. ThreadsInv'
  BY <1>1, <1>2 DEF ThreadsInv, ServerTypeOK, newId, Ids
<1>6. JoinOnce'
  <2>1. \A j \in DOMAIN Joinables : Joinables[j] \in Ids
    BY DEF ServerTypeOK
  <2> QED
    BY <1>1, <1>2, <2>1 DEF JoinOnce
<1>7. Registered'
  BY <1>1, <1>2 DEF Registered, NoThreadLost, JoinableIsKnown
<1> QED
  BY <1>4, <1>5, <1>6, <1>7

(***************************************************************************)
(* The registration closes the window in which an ended thread is unknown. *)
(***************************************************************************)
LEMMA InsertInv == ServerInv /\ DispatchInsert => ServerInv'
<1> SUFFICES ASSUME ServerInv, DispatchInsert PROVE ServerInv'
  OBVIOUS
<1> USE DEF ServerInv, DispatchInsert, DispatchMoves, registry, ports, newId
<1>1. newId \in Ids
  BY DEF ServerTypeOK, ThreadsInv, Ids
<1>2. ServerTypeOK'
  BY <1>1 DEF ServerTypeOK, DispatchPoints
<1>3. ThreadsInv'
  BY DEF ThreadsInv
<1>4. JoinOnce'
  BY DEF JoinOnce
<1>5. Registered'
  BY DEF Registered, NoThreadLost, JoinableIsKnown
<1> QED
  BY <1>2, <1>3, <1>4, <1>5

(***************************************************************************)
(* All steps of the dispatch thread.                                       *)
(***************************************************************************)
LEMMA DispatchInv ==
  ASSUME ServerInv, DispatchAccept \/ DispatchFails \/ DispatchStep
  PROVE  ServerInv'
<1>1. ServerTypeOK
  BY DEF ServerInv
<1>2. CASE DispatchAccept
  BY <1>2, AcceptInv
<1>3. CASE DispatchCreate
  BY <1>3, CreateInv
<1>4. CASE DispatchInsert
  BY <1>4, InsertInv
<1>5. CASE DispatchTerminates
  BY <1>5, TerminateInv DEF DispatchTerminates
<1>6. CASE PortTaken
  <2>1. CurrentPort' \in 0 .. PortSpace - 1
    BY <1>1, <1>6 DEF PortTaken, NextPort, ServerTypeOK
  <2> QED
    BY <1>1, <1>6, <2>1, ElsewhereInv DEF PortTaken, ServerTypeOK, registry
<1>7. CASE DispatchTop \/ DispatchFails \/ DispatchWait \/ DispatchHello \/ DispatchUnwinds
  <2>1. DispatchOnly
    BY <1>7 DEF DispatchTop, DispatchFails, DispatchWait, DispatchHello, DispatchUnwinds
  <2>2. /\ dispatch' \in DispatchPoints
        /\ dispatch \notin {"insert", "dead"} /\ dispatch' \notin {"create", "insert", "dead"}
    BY <1>7 DEF DispatchTop, DispatchFails, DispatchWait, DispatchHello, DispatchUnwinds,
                DispatchMoves, DispatchPoints
  <2> QED
    BY <1>1, <2>1, <2>2, ElsewhereInv DEF DispatchOnly, ServerTypeOK, registry, ports
<1> QED
  BY <1>2, <1>3, <1>4, <1>5, <1>6, <1>7 DEF DispatchStep

(***************************************************************************)
(* The last thing a handler does: nobody has pushed its id before.         *)
(***************************************************************************)
LEMMA DeferInv ==
  ASSUME NEW i \in Ids, ServerInv, HandlerDefer(i) PROVE ServerInv'
<1> USE DEF ServerInv, HandlerDefer, HandlerMoves, registry, ports
<1>1. /\ handler' \in [Ids -> HandlerPoints] /\ handler[i] = "defer" /\ handler'[i] = "ended"
      /\ \A k \in Ids \ {i} : handler'[k] = handler[k]
  BY DEF ServerTypeOK, HandlerPoints
<1>2. /\ Joinables' \in Seq(Ids) /\ Len(Joinables) \in Nat
      /\ DOMAIN Joinables' = 1 .. Len(Joinables) + 1 /\ DOMAIN Joinables = 1 .. Len(Joinables)
      /\ \A k \in 1 .. Len(Joinables) : Joinables'[k] = Joinables[k]
      /\ Joinables'[Len(Joinables) + 1] = i
  BY AppendElements DEF ServerTypeOK
<1>3. \A j \in DOMAIN Joinables : Joinables[j] \in Ids \ {i}
  BY <1>1 DEF ServerTypeOK, JoinOnce
<1>4. ServerTypeOK'
  BY <1>1, <1>2 DEF ServerTypeOK, CleanupPoints
<1>5. ThreadsInv'
  BY <1>1 DEF ThreadsInv, newId
<1>6. JoinOnce'
  BY <1>1, <1>2, <1>3 DEF JoinOnce
<1>7. NoThreadLost'
  <2>1. i \in Handlers \/ (i = newId /\ dispatch = "insert")
    BY <1>1 DEF Registered, NoThreadLost
  <2> QED
    BY <1>1, <1>2, <2>1 DEF Registered, NoThreadLost, newId
<1>8. JoinableIsKnown'
  <2>1. i \in Handlers \/ (i = newId /\ dispatch = "insert")
    BY <1>1 DEF Registered, NoThreadLost
  <2> QED
    BY <1>2, <2>1 DEF Registered, JoinableIsKnown, newId
<1> QED
  BY <1>4, <1>5, <1>6, <1>7, <1>8 DEF Registered

(***************************************************************************)
(* All steps of a handler thread.                                          *)
(***************************************************************************)
LEMMA HandlerInv ==
  ASSUME NEW i \in Ids, ServerInv,
         \/ HandlerAccept(i) \/ HandlerAcceptFails(i) \/ HandlerSessionEnds(i)
         \/ HandlerStep(i) \/ HandlerDefer(i)
  PROVE  ServerInv'
<1>1. ServerTypeOK
  BY DEF ServerInv
<1>2. CASE HandlerDefer(i)
  BY <1>2, DeferInv
<1>3. CASE Terminate
  BY <1>3, TerminateInv
<1> USE DEF ServerTypeOK, HandlerMoves, HandlerOnly, Onward
<1>4. CASE HandlerReady(i) \/ HandlerNotify(i)
  BY <1>1, <1>4, OnwardInv DEF HandlerReady, HandlerNotify
<1>5. CASE HandlerOnly /\ (HandlerAccept(i) \/ HandlerAcceptFails(i) \/ HandlerSessionEnds(i)
                           \/ HandlerDanglingFrame(i) \/ HandlerUnwinds(i) \/ HandlerLeaves(i))
           /\ ~Terminate
  <2>1. <<handler[i], handler'[i]>> \in Onward /\ handler' = [handler EXCEPT ![i] = handler'[i]]
    BY <1>1, <1>5 DEF HandlerAccept, HandlerAcceptFails, HandlerSessionEnds, HandlerDanglingFrame,
                HandlerUnwinds, HandlerLeaves
  <2> QED
    BY <1>1, <1>5, <2>1, OnwardInv
<1> QED
  BY <1>2, <1>3, <1>4, <1>5 DEF HandlerStep, HandlerAccept, HandlerAcceptFails, HandlerSessionEnds,
       HandlerDanglingFrame, HandlerUnwinds, HandlerLeaves

(***************************************************************************)
(* A thread is joined: it is in Joinables once, so both lists forget it.   *)
(***************************************************************************)
LEMMA JoinInv == ServerInv /\ CleanupJoin => ServerInv'
<1> SUFFICES ASSUME ServerInv, CleanupJoin, ~Terminate PROVE ServerInv'
  BY TerminateInv
<1> DEFINE id == Head(Joinables)
<1> USE DEF ServerInv, CleanupJoin, registry, ports
<1>1. /\ Handlers' = Handlers \ {id} /\ Joinables' = Tail(Joinables) /\ Joinables # <<>>
      /\ main' = (IF main = "iterate" THEN "dangling" ELSE main) /\ handler[id] = "ended"
      /\ UNCHANGED <<dispatch, cleanup, handler, DoShutdown, CurrentId, ports, ready, cancelled>>
  OBVIOUS
<1>2. /\ Joinables' \in Seq(Ids) /\ Len(Joinables) \in Nat \ {0}
      /\ DOMAIN Joinables' = 1 .. Len(Joinables) - 1 /\ DOMAIN Joinables = 1 .. Len(Joinables)
      /\ \A k \in 1 .. Len(Joinables) - 1 : Joinables'[k] = Joinables[k + 1]
      /\ id = Joinables[1] /\ id \in Ids
  BY <1>1, TailElements DEF ServerTypeOK
<1> HIDE DEF id, CleanupJoin
<1>3. \A j \in DOMAIN Joinables' : Joinables'[j] # id
  BY <1>2 DEF JoinOnce
<1>4. ServerTypeOK'
  BY <1>1, <1>2 DEF ServerTypeOK, MainPoints
<1>5. ThreadsInv'
  BY <1>1 DEF ThreadsInv, newId
<1>6. JoinOnce'
  BY <1>1, <1>2 DEF JoinOnce
<1>7. NoThreadLost'
  <2> SUFFICES ASSUME NEW i \in Ids, handler[i] \notin {"none", "dead"}
               PROVE  \/ i \in Handlers' \/ (i = newId /\ dispatch = "insert")
                      \/ handler[i] = "ended" /\ \A j \in DOMAIN Joinables' : Joinables'[j] # i
    BY <1>1 DEF NoThreadLost, newId
  <2>1. CASE i = id
    BY <1>1, <1>3, <2>1
  <2>2. CASE i # id
    BY <1>1, <1>2, <2>2 DEF Registered, NoThreadLost
  <2> QED
    BY <2>1, <2>2
<1>8. JoinableIsKnown'
  BY <1>1, <1>2, <1>3 DEF Registered, JoinableIsKnown, newId
<1> QED
  BY <1>4, <1>5, <1>6, <1>7, <1>8 DEF Registered

(***************************************************************************)
(* All steps of the cleanup thread, and wakeups for no reason.             *)
(***************************************************************************)
LEMMA CleanupInv == ServerInv /\ (CleanupStep \/ SpuriousWakeup) => ServerInv'
<1> SUFFICES ASSUME ServerInv, CleanupStep \/ SpuriousWakeup PROVE ServerInv'
  OBVIOUS
<1>1. ServerTypeOK
  BY DEF ServerInv
<1>2. CASE CleanupJoin
  BY <1>2, JoinInv
<1>3. CASE CleanupWait \/ CleanupTest \/ CleanupDrained \/ SpuriousWakeup
  <2>1. /\ UNCHANGED <<main, handler, DoShutdown, CurrentId, ports, ready, registry>>
        /\ dispatch' = dispatch \/ (dispatch = "waiting" /\ dispatch' = "predicate")
        /\ cleanup' \in CleanupPoints
    BY <1>1, <1>3 DEF CleanupWait, CleanupTest, CleanupDrained, SpuriousWakeup, CleanupMoves, CleanupOnly,
                DispatchMoves, DispatchOnly, CleanupPoints, ServerTypeOK
  <2> QED
    BY <1>1, <2>1, ElsewhereInv DEF ServerTypeOK, DispatchPoints, registry, ports
<1> QED
  BY <1>2, <1>3 DEF CleanupStep

(***************************************************************************)
(* The invariant holds for every order the threads can run in.             *)
(***************************************************************************)
THEOREM ServerInvariant == ServerSpec => []ServerInv
<1>1. ServerInit => ServerInv
  <2> SUFFICES ASSUME ServerInit PROVE ServerInv
    OBVIOUS
  <2>1. ServerTypeOK
    <3>1. handler \in [Ids -> HandlerPoints] /\ port \in [Ids -> 0 .. PortSpace - 1]
      BY DEF ServerInit, HandlerPoints
    <3>2. Joinables \in Seq(Ids)
      BY EmptySeq DEF ServerInit
    <3>3. CurrentId \in 0 .. MaxHandlers /\ CurrentPort \in 0 .. PortSpace - 1
      BY DEF ServerInit
    <3>4. DoShutdown \in BOOLEAN /\ ready \in BOOLEAN
      BY Zenon DEF ServerInit
    <3> QED
      BY <3>1, <3>2, <3>3, <3>4 DEF ServerInit, ServerTypeOK, MainPoints, DispatchPoints, CleanupPoints
  <2>2. ThreadsInv
    BY DEF ServerInit, ThreadsInv
  <2>3. JoinOnce /\ Registered
    BY DEF ServerInit, JoinOnce, Registered, NoThreadLost, JoinableIsKnown
  <2> QED
    BY <2>1, <2>2, <2>3 DEF ServerInv
<1>2. ServerInv /\ [ServerNext]_vars => ServerInv'
  <2> SUFFICES ASSUME ServerInv, [ServerNext]_vars PROVE ServerInv'
    OBVIOUS
  <2>1. CASE UNCHANGED vars
    BY <2>1, ElsewhereInv DEF vars, ServerInv, ServerTypeOK, registry, ports
  <2> QED
    BY <2>1, MainInv, DispatchInv, CleanupInv, HandlerInv DEF ServerNext
<1> QED
  BY <1>1, <1>2, PTL DEF ServerSpec

(***************************************************************************)
(* Every thread is at a point of its routine, and ids and ports stay in    *)
(* range although CurrentPort wraps round.                                 *)
(***************************************************************************)
THEOREM ServerTypeCorrect == ServerSpec => []ServerTypeOK
BY ServerInvariant, PTL DEF ServerInv

(***************************************************************************)
(* The cleanup thread never joins a thread twice, or one that has still to *)
(* take the mutex the cleanup thread holds.                                *)
(***************************************************************************)
THEOREM JoinSafe == ServerSpec => []JoinOnce
BY ServerInvariant, PTL DEF ServerInv

(***************************************************************************)
(* No handler thread is out of Run's reach, and at() finds every id but in *)
(* the window before the insertion.                                        *)
(***************************************************************************)
THEOREM NobodyLost == ServerSpec => []Registered
BY ServerInvariant, PTL DEF ServerInv

-----------------------------------------------------------------------------
(***************************************************************************)
(* The order of a shutdown.  Once the cleanup thread has ended, the        *)
(* registry is empty or holds the one handler the dispatch thread had in   *)
(* hand, since at its loop's top the dispatch thread now ends as well; and *)
(* Run looks at Handlers only when there is no dispatch thread any more.   *)
(***************************************************************************)
AfterDispatch == {"iterate", "dangling", "notify", "joinCleanup", "done"}

ShutdownInv ==
  /\ main \in AfterDispatch => dispatch = "ended"
  /\ main = "done" => cleanup = "ended"
  /\ cleanup = "ended" =>
       /\ DoShutdown
       /\ Handlers \subseteq {newId}
       /\ dispatch \in {"accept", "create", "insert"} => Handlers = {}
       /\ main = "dangling" => Handlers = {}
       /\ main \in {"notify", "joinCleanup", "done"} => Handlers \subseteq cancelled

(***************************************************************************)
(* A process that is gone has no shutdown any more.                        *)
(***************************************************************************)
LEMMA TerminateShutdown == Terminate => ShutdownInv'
BY DEF Terminate, ShutdownInv, AfterDispatch

(***************************************************************************)
(* Run goes through its shutdown in order.                                 *)
(***************************************************************************)
LEMMA MainShutdown ==
  ASSUME ServerTypeOK, ShutdownInv, Signal \/ MainStep PROVE ShutdownInv'
<1> USE DEF ShutdownInv, AfterDispatch, newId, registry, ports
<1>1. CASE Signal
  BY <1>1 DEF Signal
<1>2. CASE MainLoop \/ MainCancelDispatch \/ MainJoinDispatch
  BY <1>2 DEF MainLoop, MainCancelDispatch, MainJoinDispatch, MainMoves, MainOnly
<1>3. CASE MainIterationEnds
  BY <1>3 DEF MainIterationEnds, MainMoves, MainOnly
<1>4. CASE MainDangles
  BY <1>4, TerminateShutdown DEF MainDangles, MainMoves, MainOnly
<1>5. CASE MainNotify \/ MainJoinCleanup
  BY <1>5 DEF MainNotify, MainJoinCleanup, MainMoves, MainOnly
<1>6. CASE \E i \in Ids : MainCancelHandler(i)
  BY <1>6 DEF MainCancelHandler
<1> QED
  BY <1>1, <1>2, <1>3, <1>4, <1>5, <1>6 DEF MainStep

(***************************************************************************)
(* With the shutdown under way the dispatch thread registers the handler   *)
(* it has in hand, and no other.                                           *)
(***************************************************************************)
LEMMA DispatchShutdown ==
  ASSUME ServerTypeOK, ShutdownInv, DispatchAccept \/ DispatchFails \/ DispatchStep
  PROVE  ShutdownInv'
<1> USE DEF ShutdownInv, AfterDispatch, newId, registry, ports
<1>1. CASE DispatchAccept
  BY <1>1 DEF DispatchAccept, DispatchMoves
<1>2. CASE DispatchTop
  BY <1>2 DEF DispatchTop, DispatchMoves, DispatchOnly
<1>3. CASE DispatchCreate \/ PortTaken
  BY <1>3 DEF DispatchCreate, PortTaken, DispatchMoves
<1>4. CASE DispatchInsert
  BY <1>4 DEF DispatchInsert, DispatchMoves
<1>5. CASE DispatchFails \/ DispatchWait \/ DispatchHello \/ DispatchUnwinds
  <2>1. DispatchOnly /\ dispatch \notin {"ended", "insert"}
        /\ dispatch' \notin {"accept", "create", "insert"}
    BY <1>5 DEF DispatchFails, DispatchWait, DispatchHello, DispatchUnwinds, DispatchMoves
  <2> QED
    BY <2>1 DEF DispatchOnly
<1>6. CASE DispatchTerminates
  BY <1>6, TerminateShutdown DEF DispatchTerminates
<1> QED
  BY <1>1, <1>2, <1>3, <1>4, <1>5, <1>6 DEF DispatchStep

(***************************************************************************)
(* The cleanup thread ends only when it has seen an empty registry.        *)
(***************************************************************************)
LEMMA CleanupShutdown ==
  ASSUME ServerTypeOK, ShutdownInv, CleanupStep \/ SpuriousWakeup PROVE ShutdownInv'
<1> USE DEF ShutdownInv, AfterDispatch, newId, registry, ports
<1>1. CASE CleanupWait \/ CleanupDrained
  BY <1>1 DEF CleanupWait, CleanupDrained, CleanupMoves, CleanupOnly
<1>2. CASE CleanupTest
  BY <1>2 DEF CleanupTest, CleanupMoves, CleanupOnly
<1>3. CASE CleanupJoin
  BY <1>3, TerminateShutdown DEF CleanupJoin
<1>4. CASE SpuriousWakeup
  BY <1>4 DEF SpuriousWakeup, CleanupMoves, CleanupOnly, DispatchMoves, DispatchOnly
<1> QED
  BY <1>1, <1>2, <1>3, <1>4 DEF CleanupStep

(***************************************************************************)
(* Handlers have no part in it, but to wake the others up.                 *)
(***************************************************************************)
LEMMA HandlerShutdown ==
  ASSUME NEW i \in Ids, ShutdownInv,
         \/ HandlerAccept(i) \/ HandlerAcceptFails(i) \/ HandlerSessionEnds(i)
         \/ HandlerStep(i) \/ HandlerDefer(i)
  PROVE  ShutdownInv'
<1> USE DEF registry, ports
<1>1. CASE Terminate
  BY <1>1, TerminateShutdown
<1>2. CASE ~Terminate
  <2>1. /\ UNCHANGED <<main, DoShutdown, CurrentId, Handlers, cancelled>>
        /\ dispatch' = dispatch \/ (dispatch = "waiting" /\ dispatch' = "predicate")
        /\ cleanup' = cleanup \/ (cleanup = "asleep" /\ cleanup' = "lock")
    <3>1. CASE HandlerAccept(i) \/ HandlerAcceptFails(i) \/ HandlerSessionEnds(i)
      BY <1>2, <3>1 DEF HandlerAccept, HandlerAcceptFails, HandlerSessionEnds, HandlerOnly
    <3>2. CASE HandlerReady(i) \/ HandlerNotify(i) \/ HandlerDefer(i)
      BY <3>2 DEF HandlerReady, HandlerNotify, HandlerDefer
    <3>3. CASE HandlerDanglingFrame(i) \/ HandlerUnwinds(i) \/ HandlerLeaves(i)
      BY <1>2, <3>3 DEF HandlerDanglingFrame, HandlerUnwinds, HandlerLeaves, HandlerOnly
    <3> QED
      BY <3>1, <3>2, <3>3 DEF HandlerStep
  <2> QED
    BY <2>1 DEF ShutdownInv, AfterDispatch, newId
<1> QED
  BY <1>1, <1>2

(***************************************************************************)
(* The shutdown keeps its order whatever the threads do meanwhile.         *)
(***************************************************************************)
THEOREM ShutdownInOrder == ServerSpec => []ShutdownInv
<1>1. ServerInit => ShutdownInv
  BY DEF ServerInit, ShutdownInv, AfterDispatch
<1>2. ServerTypeOK /\ ShutdownInv /\ [ServerNext]_vars => ShutdownInv'
  <2> SUFFICES ASSUME ServerTypeOK, ShutdownInv, [ServerNext]_vars PROVE ShutdownInv'
    OBVIOUS
  <2>1. CASE UNCHANGED vars
    BY <2>1 DEF vars, registry, ShutdownInv, AfterDispatch, newId
  <2> QED
    BY <2>1, MainShutdown, DispatchShutdown, CleanupShutdown, HandlerShutdown DEF ServerNext
<1> QED
  BY <1>1, <1>2, ServerTypeCorrect, PTL DEF ServerSpec

(***************************************************************************)
(* Run leaves at most one handler thread unjoined, the last one made, and  *)
(* that one is cancelled.                                                  *)
(***************************************************************************)
THEOREM RunLeavesLastAtMost == ServerSpec => []LastOneAtMost
<1>1. ServerInv /\ ShutdownInv => LastOneAtMost
  <2> SUFFICES ASSUME ServerInv, ShutdownInv, main = "done" PROVE LastOneAtMost
    BY DEF LastOneAtMost
  <2>1. cleanup = "ended" /\ dispatch = "ended" /\ Handlers \subseteq {newId} \cap cancelled
    BY DEF ShutdownInv, AfterDispatch
  <2>2. ASSUME NEW i \in Ids \ Handlers PROVE handler[i] \in {"none", "ended"}
    <3>1. handler[i] # "dead"
      BY <2>1 DEF ServerInv, ThreadsInv
    <3> QED
      BY <2>1, <3>1 DEF ServerInv, Registered, NoThreadLost
  <2> QED
    BY <2>1, <2>2 DEF LastOneAtMost
<1> QED
  BY <1>1, ServerInvariant, ShutdownInOrder, PTL
=============================================================================
