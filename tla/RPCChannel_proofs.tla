------------------------- MODULE RPCChannel_proofs -------------------------
(***************************************************************************)
(* Proofs about RPCChannel, for any procedures, any number of calls and    *)
(* error texts of any lengths.                                             *)
(***************************************************************************)
EXTENDS RPCChannel, FiniteSetTheorems, SequenceTheorems, TLAPS

USE ChannelAssumption

Gone    == server \in {"exit", "dead"}
Calling == IF client = "calling" THEN 1 ELSE 0

\* Packages the handler owes the client for the request it works on.
Owed == IF server = "error" THEN 2 ELSE IF server \in {"dispatch", "reply"} THEN 1 ELSE 0

(***************************************************************************)
(* A request on its way, or about to be executed, is a call of its own     *)
(* that has had no effect yet; requests are executed in the order of the   *)
(* calls.                                                                  *)
(***************************************************************************)
RequestInv ==
  /\ \A c \in Calls : c > n => did[c] = "nothing"
  /\ \A i \in DOMAIN toServer : toServer[i].code \in Procs =>
       toServer[i].of \in 1 .. n /\ did[toServer[i].of] = "nothing"
  /\ \A i, j \in DOMAIN toServer :
       i < j /\ toServer[i].code \in Procs /\ toServer[j].code \in Procs =>
         toServer[i].of < toServer[j].of
  /\ server = "dispatch" /\ header.code \in Procs =>
       /\ header.of \in 1 .. n /\ did[header.of] = "nothing"
       /\ \A i \in DOMAIN toServer : toServer[i].code \in Procs => header.of < toServer[i].of
  /\ server = "reply" /\ header.code \in Procs => header.of \in 1 .. n /\ did[header.of] = "ok"
  /\ server = "error" => header.of \in Errors

\* While the client is there, the requests are its last calls without a gap.
ShapeInv ==
  client # "left" =>
    /\ \A i \in DOMAIN toServer :
         toServer[i].code \in Procs /\ toServer[i].of = n - Len(toServer) + i
    /\ server \in {"dispatch", "reply", "error"} =>
         header.code \in Procs /\ header.of = n - Len(toServer)
    /\ \A e \in Errors : e <= n - Len(toServer)
    /\ Len(toServer) <= n
    /\ \A i \in DOMAIN toClient : toClient[i].of # 0
    /\ \A c \in Calls : c <= n - Calling => told[c].of # 0

(***************************************************************************)
(* The account of packages: what has been sent and not been read is one    *)
(* for the call that waits, and one more for every error.                  *)
(***************************************************************************)
AccountInv ==
  client # "left" /\ ~Gone =>
    Len(toClient) + Len(toServer) + Owed = Cardinality(Errors) + Calling

\* Only an error text can have overwritten ErrCode, and it has been sent.
ErrCodeInv ==
  ErrCode # Error => \E e \in Errors : server = "error" => e # header.of

\* pkg tells call c, if that is not behind the first error, what became of it.
Truth(c, pkg) ==
  (\A e \in Errors : c <= e) =>
    /\ c \in Calls /\ pkg.of = c
    /\ did[c] # "nothing"
    /\ pkg.code = Error <=> did[c] = "error"

(***************************************************************************)
(* The packages the client has not read will be told to the calls that     *)
(* follow the ones already answered, in this order.                        *)
(***************************************************************************)
TruthInv ==
  /\ \A c \in Calls : told[c].of # 0 => Truth(c, told[c])
  /\ client # "left" => \A i \in DOMAIN toClient : Truth(n - Calling + i, toClient[i])
  /\ client = "calling" => n > 0

ChannelInv ==
  ChannelTypeOK /\ RequestInv /\ ShapeInv /\ AccountInv /\ ErrCodeInv /\ TruthInv

(***************************************************************************)
(* There are finitely many errors, and one more when a call fails.         *)
(***************************************************************************)
LEMMA ErrorsCount ==
  /\ IsFiniteSet(Errors) /\ Cardinality(Errors) \in Nat
  /\ Cardinality(Errors) = 0 <=> Errors = {}
<1>1. IsFiniteSet(1 .. MaxCalls)
  BY FS_Interval
<1>2. Errors \subseteq 1 .. MaxCalls
  BY DEF Errors, Calls
<1> QED
  BY <1>1, <1>2, FS_Subset, FS_CardinalityType, FS_EmptySet

(***************************************************************************)
(* What is sent twice stands twice at the end of the stream.               *)
(***************************************************************************)
LEMMA SentTwice ==
  ASSUME NEW S, NEW s \in Seq(S), NEW pkg \in S
  PROVE  /\ s \o <<pkg, pkg>> \in Seq(S) /\ Len(s) \in Nat /\ Len(s \o <<pkg, pkg>>) = Len(s) + 2
         /\ DOMAIN s = 1 .. Len(s) /\ DOMAIN (s \o <<pkg, pkg>>) = 1 .. Len(s) + 2
         /\ \A i \in 1 .. Len(s) : (s \o <<pkg, pkg>>)[i] = s[i]
         /\ (s \o <<pkg, pkg>>)[Len(s) + 1] = pkg /\ (s \o <<pkg, pkg>>)[Len(s) + 2] = pkg
<1>1. <<pkg, pkg>> \in Seq(S) /\ Len(<<pkg, pkg>>) = 2
  OBVIOUS
<1> QED
  BY <1>1, ConcatProperties, LenProperties

(***************************************************************************)
(* When a call takes effect, what has been told of other calls stays true. *)
(***************************************************************************)
LEMMA EffectKeepsTruth ==
  ASSUME ChannelTypeOK, NEW h \in Calls, did[h] = "nothing",
         NEW v \in {"ok", "error"}, did' = [did EXCEPT ![h] = v]
  PROVE  /\ Errors' = (IF v = "error" THEN Errors \cup {h} ELSE Errors) /\ h \notin Errors
         /\ Cardinality(Errors') = Cardinality(Errors) + (IF v = "error" THEN 1 ELSE 0)
         /\ did' \in [Calls -> {"nothing", "ok", "error"}]
         /\ \A c, pkg : Truth(c, pkg) => Truth(c, pkg)'
<1>1. /\ did' \in [Calls -> {"nothing", "ok", "error"}] /\ did'[h] = v
      /\ \A c \in Calls \ {h} : did'[c] = did[c]
  BY DEF ChannelTypeOK
<1>2. Errors' = (IF v = "error" THEN Errors \cup {h} ELSE Errors) /\ h \notin Errors
  BY <1>1 DEF Errors
<1>3. Cardinality(Errors') = Cardinality(Errors) + (IF v = "error" THEN 1 ELSE 0)
  <2>1. Cardinality(Errors \cup {h}) = Cardinality(Errors) + 1
    BY <1>2, ErrorsCount, FS_AddElement
  <2> QED
    BY <1>2, <2>1, ErrorsCount
<1>4. ASSUME NEW c, NEW pkg, Truth(c, pkg) PROVE Truth(c, pkg)'
  BY <1>1, <1>2, <1>4 DEF Truth
<1> QED
  BY <1>1, <1>2, <1>3, <1>4

(***************************************************************************)
(* The client's steps that only end the connection.                        *)
(***************************************************************************)
LEMMA LeavingInv == ChannelInv /\ (CallBreaks \/ SoftDisconnect \/ ClientDies) => ChannelInv'
<1> SUFFICES ASSUME ChannelInv, CallBreaks \/ SoftDisconnect \/ ClientDies PROVE ChannelInv'
  OBVIOUS
<1>1. /\ client' = "left" /\ toServer' \in {toServer, toServer \o <<NoPackage, NoPackage>>}
      /\ UNCHANGED <<server, n, header, toClient, ErrCode, errorSize, did, told>>
  BY DEF CallBreaks, SoftDisconnect, ClientDies
<1>2. NoPackage \in Package /\ NoPackage.code \notin Procs
  BY DEF NoPackage, Package, Error
<1>3. /\ toServer' \in Seq(Package) /\ DOMAIN toServer \subseteq DOMAIN toServer'
      /\ \A i \in DOMAIN toServer : toServer'[i] = toServer[i]
      /\ \A i \in DOMAIN toServer' \ DOMAIN toServer : toServer'[i] = NoPackage
  <2>1. CASE toServer' = toServer
    BY <2>1 DEF ChannelInv, ChannelTypeOK
  <2>2. CASE toServer' = toServer \o <<NoPackage, NoPackage>>
    <3>1. toServer \in Seq(Package)
      BY DEF ChannelInv, ChannelTypeOK
    <3> DEFINE t == toServer \o <<NoPackage, NoPackage>>
    <3>2. /\ t \in Seq(Package) /\ Len(toServer) \in Nat
          /\ DOMAIN toServer = 1 .. Len(toServer) /\ DOMAIN t = 1 .. Len(toServer) + 2
          /\ \A i \in 1 .. Len(toServer) : t[i] = toServer[i]
          /\ t[Len(toServer) + 1] = NoPackage /\ t[Len(toServer) + 2] = NoPackage
      BY <1>2, <3>1, SentTwice
    <3>3. toServer' = t
      BY <2>2
    <3> HIDE DEF t
    <3> QED
      BY <3>2, <3>3
  <2> QED
    BY <1>1, <2>1, <2>2
<1>4. ChannelTypeOK'
  BY <1>1, <1>3 DEF ChannelInv, ChannelTypeOK
<1>5. RequestInv'
  BY <1>1, <1>2, <1>3 DEF ChannelInv, RequestInv, Errors
<1>6. ShapeInv' /\ AccountInv' /\ ErrCodeInv' /\ TruthInv'
  BY <1>1 DEF ChannelInv, ShapeInv, AccountInv, ErrCodeInv, TruthInv, Truth, Errors
<1> QED
  BY <1>4, <1>5, <1>6 DEF ChannelInv

(***************************************************************************)
(* A call: its request is the last one in the queue.                       *)
(***************************************************************************)
LEMMA CallInv == ASSUME NEW proc \in Procs, ChannelInv, Call(proc) PROVE ChannelInv'
<1> USE DEF ChannelInv, Call
<1> DEFINE pkg == [code |-> proc, of |-> n + 1]
<1>1. /\ n \in Nat /\ n + 1 \in Calls /\ n' = n + 1 /\ pkg \in Package /\ toServer \in Seq(Package)
      /\ client = "idle" /\ client' = "calling" /\ toServer' = Append(toServer, pkg)
      /\ UNCHANGED <<server, header, toClient, ErrCode, errorSize, did, told>>
  BY DEF ChannelTypeOK, Package, Calls
<1>2. /\ toServer' \in Seq(Package) /\ Len(toServer) \in Nat /\ Len(toServer') = Len(toServer) + 1
      /\ DOMAIN toServer = 1 .. Len(toServer) /\ DOMAIN toServer' = 1 .. Len(toServer) + 1
      /\ \A i \in DOMAIN toServer : toServer'[i] = toServer[i]
      /\ toServer'[Len(toServer) + 1] = pkg
  BY <1>1
<1> HIDE DEF Call
<1>3. ChannelTypeOK'
  BY <1>1, <1>2 DEF ChannelTypeOK, Calls
<1>4. Errors' = Errors /\ Errors \subseteq Calls
  BY <1>1 DEF Errors
<1>5. RequestInv'
  <2>1. \A i \in DOMAIN toServer' : toServer'[i].code \in Procs =>
          toServer'[i].of \in 1 .. n + 1 /\ did[toServer'[i].of] = "nothing"
    BY <1>1, <1>2 DEF RequestInv
  <2>2. \A i, j \in DOMAIN toServer' :
          i < j /\ toServer'[i].code \in Procs /\ toServer'[j].code \in Procs =>
            toServer'[i].of < toServer'[j].of
    BY <1>1, <1>2 DEF RequestInv
  <2>3. server = "dispatch" /\ header.code \in Procs =>
          /\ header.of \in 1 .. n /\ did[header.of] = "nothing"
          /\ \A i \in DOMAIN toServer' : toServer'[i].code \in Procs => header.of < toServer'[i].of
    BY <1>1, <1>2 DEF RequestInv
  <2> QED
    BY <1>1, <1>4, <2>1, <2>2, <2>3 DEF RequestInv, Calls
<1>6. ShapeInv'
  <2>1. /\ \A i \in DOMAIN toServer : toServer[i].code \in Procs /\ toServer[i].of = n - Len(toServer) + i
        /\ server \in {"dispatch", "reply", "error"} =>
             header.code \in Procs /\ header.of = n - Len(toServer)
        /\ \A e \in Errors : e <= n - Len(toServer)
        /\ Len(toServer) <= n
        /\ \A i \in DOMAIN toClient : toClient[i].of # 0
        /\ \A c \in Calls : c <= n => told[c].of # 0
    BY <1>1 DEF ShapeInv, Calling
  <2>2. \A i \in DOMAIN toServer' : toServer'[i].code \in Procs /\ toServer'[i].of = n' - Len(toServer') + i
    BY <1>1, <1>2, <2>1
  <2>3. n' - Len(toServer') = n - Len(toServer) /\ n' - Calling' = n
    BY <1>1, <1>2 DEF Calling
  <2> QED
    BY <1>1, <1>2, <1>4, <2>1, <2>2, <2>3 DEF ShapeInv
<1>7. AccountInv'
  BY <1>1, <1>2, <1>4, ErrorsCount DEF AccountInv, Gone, Owed, Calling, ChannelTypeOK
<1>8. ErrCodeInv'
  BY <1>1, <1>4 DEF ErrCodeInv
<1>9. TruthInv'
  BY <1>1, <1>4 DEF TruthInv, Truth, Calling, ChannelTypeOK
<1> QED
  BY <1>3, <1>5, <1>6, <1>7, <1>8, <1>9

(***************************************************************************)
(* Call returns: the package is the one this call was due.                 *)
(***************************************************************************)
LEMMA CallEndsInv == ChannelInv /\ CallEnds => ChannelInv'
<1> SUFFICES ASSUME ChannelInv, CallEnds PROVE ChannelInv'
  OBVIOUS
<1> USE DEF ChannelInv, CallEnds
<1>1. /\ n \in Nat /\ n \in Calls /\ toClient \in Seq(Package) /\ toClient # <<>>
      /\ client = "calling" /\ client' = "idle" /\ told' = [told EXCEPT ![n] = Head(toClient)]
      /\ UNCHANGED <<server, n, header, toServer, ErrCode, errorSize, did>>
  BY DEF ChannelTypeOK, TruthInv, Calls
<1>2. /\ toClient' \in Seq(Package) /\ Len(toClient) \in Nat \ {0}
      /\ Len(toClient') = Len(toClient) - 1
      /\ DOMAIN toClient = 1 .. Len(toClient) /\ DOMAIN toClient' = 1 .. Len(toClient) - 1
      /\ \A i \in DOMAIN toClient' : toClient'[i] = toClient[i + 1]
      /\ Head(toClient) = toClient[1] /\ toClient[1] \in Package
  BY <1>1
<1>3. told'[n] = toClient[1] /\ \A c \in Calls \ {n} : told'[c] = told[c]
  BY <1>1, <1>2 DEF ChannelTypeOK
<1> HIDE DEF CallEnds
<1>4. ChannelTypeOK'
  BY <1>1, <1>2 DEF ChannelTypeOK
<1>5. Errors' = Errors
  BY <1>1 DEF Errors
<1>6. RequestInv'
  BY <1>1, <1>5 DEF RequestInv
<1>7. ShapeInv'
  <2>1. \A i \in DOMAIN toClient' : toClient'[i].of # 0
    BY <1>1, <1>2 DEF ShapeInv
  <2>2. \A c \in Calls : c <= n => told'[c].of # 0
    <3>1. toClient[1].of # 0
      BY <1>1, <1>2 DEF ShapeInv
    <3>2. \A c \in Calls : c <= n - 1 => told[c].of # 0
      BY <1>1 DEF ShapeInv, Calling
    <3> QED
      BY <1>1, <1>3, <3>1, <3>2 DEF Calls
  <2> QED
    BY <1>1, <1>5, <2>1, <2>2 DEF ShapeInv, Calling
<1>8. AccountInv'
  BY <1>1, <1>2, <1>5, ErrorsCount DEF AccountInv, Gone, Owed, Calling, ChannelTypeOK
<1>9. ErrCodeInv'
  BY <1>1, <1>5 DEF ErrCodeInv
<1>10. TruthInv'
  <2>1. \A c \in Calls : told'[c].of # 0 => Truth(c, told'[c])
    BY <1>1, <1>2, <1>3 DEF TruthInv, Calling
  <2>2. \A i \in DOMAIN toClient' : Truth(n + i, toClient'[i])
    <3> SUFFICES ASSUME NEW i \in DOMAIN toClient' PROVE Truth(n + i, toClient'[i])
      OBVIOUS
    <3>1. i + 1 \in DOMAIN toClient /\ n - Calling + (i + 1) = n + i /\ toClient'[i] = toClient[i + 1]
      BY <1>1, <1>2 DEF Calling
    <3>2. Truth(n - Calling + (i + 1), toClient[i + 1])
      BY <1>1, <3>1 DEF TruthInv
    <3> QED
      BY <3>1, <3>2
  <2> QED
    BY <1>1, <1>5, <2>1, <2>2 DEF TruthInv, Truth, Calling
<1> QED
  BY <1>4, <1>6, <1>7, <1>8, <1>9, <1>10

(***************************************************************************)
(* The handler takes the next request, or leaves its loop.                 *)
(***************************************************************************)
LEMMA RecvInv == ChannelInv /\ RecvPackage => ChannelInv'
<1> SUFFICES ASSUME ChannelInv, RecvPackage PROVE ChannelInv'
  OBVIOUS
<1> USE DEF ChannelInv
<1>1. /\ server = "recv" /\ server' \in {"exit", "dispatch"}
      /\ UNCHANGED <<client, n, toClient, ErrCode, errorSize, did, told>>
  BY DEF RecvPackage, ServerMoves
<1>2. Errors' = Errors
  BY <1>1 DEF Errors
<1>3. ErrCodeInv' /\ TruthInv'
  BY <1>1, <1>2 DEF ErrCodeInv, TruthInv, Truth, Calling
<1>4. CASE toServer # <<>> /\ header' = Head(toServer) /\ toServer' = Tail(toServer)
  <2>1. /\ toServer' \in Seq(Package) /\ Len(toServer) \in Nat \ {0}
        /\ Len(toServer') = Len(toServer) - 1
        /\ DOMAIN toServer = 1 .. Len(toServer) /\ DOMAIN toServer' = 1 .. Len(toServer) - 1
        /\ \A i \in DOMAIN toServer' : toServer'[i] = toServer[i + 1]
        /\ header' = toServer[1] /\ toServer[1] \in Package
    BY <1>4 DEF ChannelTypeOK
  <2>2. ChannelTypeOK'
    BY <1>1, <2>1 DEF ChannelTypeOK
  <2>3. RequestInv'
    <3>1. \A i \in DOMAIN toServer' : i + 1 \in DOMAIN toServer
      BY <2>1
    <3>2. \A i \in DOMAIN toServer' : toServer'[i].code \in Procs =>
            toServer'[i].of \in 1 .. n /\ did[toServer'[i].of] = "nothing"
      BY <2>1, <3>1 DEF RequestInv
    <3>3. \A i, j \in DOMAIN toServer' :
            i < j /\ toServer'[i].code \in Procs /\ toServer'[j].code \in Procs =>
              toServer'[i].of < toServer'[j].of
      <4> SUFFICES ASSUME NEW i \in DOMAIN toServer', NEW j \in DOMAIN toServer', i < j,
                          toServer[i + 1].code \in Procs, toServer[j + 1].code \in Procs
                   PROVE  toServer[i + 1].of < toServer[j + 1].of
        BY <2>1
      <4>1. i + 1 < j + 1 /\ i + 1 \in DOMAIN toServer /\ j + 1 \in DOMAIN toServer
        BY <2>1, <3>1
      <4> QED
        BY <4>1 DEF RequestInv
    <3>4. header'.code \in Procs =>
            /\ header'.of \in 1 .. n /\ did[header'.of] = "nothing"
            /\ \A i \in DOMAIN toServer' : toServer'[i].code \in Procs => header'.of < toServer'[i].of
      BY <2>1, <3>1 DEF RequestInv
    <3> QED
      BY <1>1, <1>2, <3>2, <3>3, <3>4 DEF RequestInv
  <2>4. ShapeInv'
    <3> SUFFICES ASSUME client # "left" PROVE ShapeInv'
      BY <1>1 DEF ShapeInv
    <3>1. n \in Nat /\ \A e \in Errors : e \in Nat
      BY DEF ChannelTypeOK, Errors, Calls
    <3>2. \A i \in DOMAIN toServer' :
            toServer'[i].code \in Procs /\ toServer'[i].of = n - Len(toServer') + i
      <4> SUFFICES ASSUME NEW i \in DOMAIN toServer'
                   PROVE  toServer'[i].code \in Procs /\ toServer'[i].of = n - Len(toServer') + i
        OBVIOUS
      <4>1. i + 1 \in DOMAIN toServer /\ toServer'[i] = toServer[i + 1]
        BY <2>1
      <4>2. toServer[i + 1].code \in Procs /\ toServer[i + 1].of = n - Len(toServer) + (i + 1)
        BY <4>1 DEF ShapeInv
      <4> QED
        BY <2>1, <3>1, <4>1, <4>2
    <3>3. header'.code \in Procs /\ header'.of = n - Len(toServer')
      BY <2>1, <3>1 DEF ShapeInv
    <3>4. Len(toServer') <= n /\ \A e \in Errors : e <= n - Len(toServer')
      BY <2>1, <3>1 DEF ShapeInv
    <3> QED
      BY <1>1, <1>2, <3>2, <3>3, <3>4 DEF ShapeInv, Calling
  <2>5. AccountInv'
    <3> SUFFICES ASSUME client # "left", server' = "dispatch"
                 PROVE  Len(toClient) + Len(toServer') + 1 = Cardinality(Errors) + Calling
      BY <1>1, <1>2 DEF AccountInv, Gone, Owed, Calling
    <3>1. Len(toClient) + Len(toServer) + 0 = Cardinality(Errors) + Calling
      BY <1>1 DEF AccountInv, Gone, Owed
    <3>2. Len(toClient) \in Nat
      BY DEF ChannelTypeOK
    <3> QED
      BY <2>1, <3>1, <3>2
  <2> QED
    BY <1>3, <2>2, <2>3, <2>4, <2>5
<1>5. CASE toServer = <<>> /\ client = "left" /\ server' = "exit" /\ UNCHANGED <<header, toServer>>
  BY <1>1, <1>2, <1>3, <1>5 DEF ChannelTypeOK, RequestInv, ShapeInv, AccountInv, Gone
<1> QED
  BY <1>4, <1>5 DEF RecvPackage, ServerMoves

(***************************************************************************)
(* The procedure returns or throws.                                        *)
(***************************************************************************)
LEMMA ProcedureInv == ChannelInv /\ (ProcedureReturns \/ ProcedureThrows) => ChannelInv'
<1> SUFFICES ASSUME ChannelInv, ProcedureReturns \/ ProcedureThrows PROVE ChannelInv'
  OBVIOUS
<1> USE DEF ChannelInv
<1> DEFINE h == header.of
<1>1. /\ server = "dispatch" /\ header.code \in Procs
      /\ \/ server' = "reply" /\ did' = [did EXCEPT ![h] = "ok"] /\ errorSize' = errorSize
         \/ server' = "error" /\ did' = [did EXCEPT ![h] = "error"] /\ errorSize' \in ErrorSizes
      /\ UNCHANGED <<client, n, header, toServer, toClient, ErrCode, told>>
  BY DEF ProcedureReturns, ProcedureThrows, ServerMoves
<1>2. /\ h \in 1 .. n /\ h \in Calls /\ did[h] = "nothing"
      /\ \A i \in DOMAIN toServer : toServer[i].code \in Procs => toServer[i].of # h
  BY <1>1 DEF RequestInv, ChannelTypeOK, Calls, Package
<1>3. /\ server' = "error" => Errors' = Errors \cup {h}
      /\ server' = "reply" => Errors' = Errors
      /\ h \notin Errors
      /\ Cardinality(Errors') = Cardinality(Errors) + (IF server' = "error" THEN 1 ELSE 0)
      /\ did' \in [Calls -> {"nothing", "ok", "error"}]
      /\ \A c, pkg : Truth(c, pkg) => Truth(c, pkg)'
  BY <1>1, <1>2, EffectKeepsTruth
<1>4. \A c \in Calls \ {h} : did'[c] = did[c]
  BY <1>1 DEF ChannelTypeOK
<1> HIDE DEF h
<1>5. ChannelTypeOK'
  BY <1>1, <1>3 DEF ChannelTypeOK
<1>6. RequestInv'
  <2>1. \A i \in DOMAIN toServer : toServer[i].code \in Procs =>
          toServer[i].of \in 1 .. n /\ did'[toServer[i].of] = "nothing"
    BY <1>2, <1>4 DEF RequestInv, ChannelTypeOK, Calls
  <2> QED
    BY <1>1, <1>2, <1>3, <1>4, <2>1 DEF RequestInv, ChannelTypeOK, h
<1>7. ShapeInv'
  BY <1>1, <1>2, <1>3 DEF ShapeInv, Calling, h
<1>8. AccountInv'
  BY <1>1, <1>3, ErrorsCount DEF AccountInv, Gone, Owed, Calling, ChannelTypeOK
<1>9. ErrCodeInv'
  BY <1>1, <1>3 DEF ErrCodeInv, h
<1>10. TruthInv'
  BY <1>1, <1>3 DEF TruthInv, Truth, Calling
<1> QED
  BY <1>5, <1>6, <1>7, <1>8, <1>9, <1>10

(***************************************************************************)
(* A package without a procedure is only answered; it comes from a client  *)
(* that has left.                                                          *)
(***************************************************************************)
LEMMA UnknownInv == ChannelInv /\ UnknownProcedure => ChannelInv'
<1> SUFFICES ASSUME ChannelInv, UnknownProcedure PROVE ChannelInv'
  OBVIOUS
<1> USE DEF ChannelInv
<1>1. /\ server = "dispatch" /\ server' = "reply" /\ header.code \notin Procs
      /\ header' = [header EXCEPT !.code = TextByte]
      /\ UNCHANGED <<client, n, toServer, toClient, ErrCode, errorSize, did, told>>
  BY DEF UnknownProcedure, ServerMoves
<1>2. client = "left" /\ Errors' = Errors
  BY <1>1 DEF ShapeInv, Errors
<1>3. header' \in Package /\ header'.code \notin Procs
  <2>1. header \in [code : 0 .. 255, of : 0 .. MaxCalls]
    BY DEF ChannelTypeOK, Package
  <2>2. TextByte \in 0 .. 255 /\ TextByte \notin Procs
    BY DEF TextByte
  <2>3. header' \in [code : 0 .. 255, of : 0 .. MaxCalls] /\ header'.code = TextByte
    BY <1>1, <2>1, <2>2
  <2> QED
    BY <2>2, <2>3 DEF Package
<1>4. ChannelTypeOK'
  BY <1>1, <1>3 DEF ChannelTypeOK
<1>5. RequestInv'
  BY <1>1, <1>2, <1>3 DEF RequestInv
<1>6. ShapeInv' /\ AccountInv' /\ ErrCodeInv' /\ TruthInv'
  BY <1>1, <1>2 DEF ShapeInv, AccountInv, ErrCodeInv, TruthInv, Truth
<1> QED
  BY <1>4, <1>5, <1>6

(***************************************************************************)
(* The answer: without errors before it, it is the next one its client     *)
(* reads.                                                                  *)
(***************************************************************************)
LEMMA SendInv == ChannelInv /\ SendPackage => ChannelInv'
<1> SUFFICES ASSUME ChannelInv, SendPackage PROVE ChannelInv'
  OBVIOUS
<1> USE DEF ChannelInv
<1>1. /\ server = "reply" /\ server' \in {"recv", "exit"}
      /\ UNCHANGED <<client, n, header, toServer, ErrCode, errorSize, did, told>>
  BY DEF SendPackage, ServerMoves
<1>2. Errors' = Errors
  BY <1>1 DEF Errors
<1>3. RequestInv' /\ ErrCodeInv'
  BY <1>1, <1>2 DEF RequestInv, ErrCodeInv
<1>4. CASE client = "left"
  <2>1. toClient' \in Seq(Package)
    BY DEF SendPackage, ChannelTypeOK
  <2> QED
    BY <1>1, <1>2, <1>3, <1>4, <2>1
       DEF ChannelTypeOK, ShapeInv, AccountInv, TruthInv, Truth
<1>5. CASE client # "left"
  <2>1. server' = "recv" /\ toClient' = Append(toClient, header) /\ header \in Package
    BY <1>5 DEF SendPackage, ServerMoves, ChannelTypeOK
  <2>2. /\ toClient' \in Seq(Package) /\ Len(toClient) \in Nat /\ Len(toClient') = Len(toClient) + 1
        /\ DOMAIN toClient = 1 .. Len(toClient) /\ DOMAIN toClient' = 1 .. Len(toClient) + 1
        /\ \A i \in DOMAIN toClient : toClient'[i] = toClient[i]
        /\ toClient'[Len(toClient) + 1] = header
    BY <2>1 DEF ChannelTypeOK
  <2>3. ChannelTypeOK'
    BY <1>1, <2>1, <2>2 DEF ChannelTypeOK
  <2>4. /\ header.code \in Procs /\ header.of = n - Len(toServer) /\ header.code # Error
        /\ \A e \in Errors : e <= header.of
    BY <1>1, <1>5 DEF ShapeInv, Error
  <2>5. n \in Nat /\ Len(toServer) \in Nat /\ Calling \in Nat /\ Cardinality(Errors) \in Nat
    BY ErrorsCount DEF ChannelTypeOK, Calling
  <2>6. n - Calling + (Len(toClient) + 1) = header.of + Cardinality(Errors)
    BY <1>1, <1>5, <2>2, <2>4, <2>5 DEF AccountInv, Gone, Owed
  <2>7. header.of \in Calls /\ did[header.of] # "nothing"
    BY <1>1, <2>4 DEF RequestInv, ChannelTypeOK, Calls
  <2>8. Truth(n - Calling + (Len(toClient) + 1), header)
    <3>1. CASE Errors = {}
      BY <2>4, <2>5, <2>6, <2>7, <3>1, ErrorsCount DEF Truth, Errors
    <3>2. CASE Errors # {}
      <4>1. PICK e \in Errors : TRUE
        BY <3>2
      <4>2. Cardinality(Errors) > 0 /\ header.of \in Nat /\ e \in Nat /\ e <= header.of
        <5>1. header.of \in Nat
          BY <2>4, <2>5 DEF ChannelTypeOK, Package
        <5>2. e \in Nat
          BY <4>1 DEF Errors, Calls
        <5> QED
          BY <2>4, <2>5, <3>2, <5>1, <5>2, ErrorsCount
      <4>3. ~(header.of + Cardinality(Errors) <= e)
        BY <2>5, <4>2
      <4> QED
        BY <2>6, <4>1, <4>3 DEF Truth
    <3> QED
      BY <3>1, <3>2
  <2>9. TruthInv'
    <3>1. \A i \in DOMAIN toClient' : Truth(n - Calling + i, toClient'[i])
      BY <1>5, <2>2, <2>8 DEF TruthInv
    <3> QED
      BY <1>1, <1>2, <3>1 DEF TruthInv, Truth, Calling
  <2>10. ShapeInv'
    <3>1. \A i \in DOMAIN toClient' : toClient'[i].of # 0
      BY <1>5, <2>2, <2>7 DEF ShapeInv, Calls
    <3> QED
      BY <1>1, <1>2, <1>5, <3>1 DEF ShapeInv, Calling
  <2>11. AccountInv'
    BY <1>1, <1>2, <1>5, <2>1, <2>2, <2>5 DEF AccountInv, Gone, Owed, Calling
  <2> QED
    BY <1>3, <2>3, <2>9, <2>10, <2>11
<1> QED
  BY <1>4, <1>5

(***************************************************************************)
(* What both ways of sending an error twice come to: the first package is  *)
(* due to the call that failed, if no other failed before, and the second  *)
(* one is behind the first error.                                          *)
(***************************************************************************)
LEMMA ErrorSlots ==
  ASSUME NEW E, NEW h \in E, NEW slot, E \subseteq Calls,
         Cardinality(E) \in Nat \ {0}, Cardinality(E) = 1 => E = {h}, slot = h + Cardinality(E) - 1
  PROVE  /\ (\A e \in E : slot <= e) => slot = h /\ E = {h}
         /\ ~ \A e \in E : slot + 1 <= e
<1>1. h \in Nat
  BY DEF Calls
<1>2. ASSUME \A e \in E : slot <= e PROVE slot = h /\ E = {h}
  <2>1. slot <= h
    BY <1>2
  <2> QED
    BY <1>1, <2>1
<1>3. ~(slot + 1 <= h)
  BY <1>1
<1> QED
  BY <1>2, <1>3

(***************************************************************************)
(* A set with one element in it has no other if it counts one.             *)
(***************************************************************************)
LEMMA OnlyError ==
  ASSUME NEW h \in Errors
  PROVE  Cardinality(Errors) > 0 /\ (Cardinality(Errors) = 1 => Errors = {h})
<1>1. IsFiniteSet(Errors \ {h}) /\ Cardinality(Errors \ {h}) = Cardinality(Errors) - 1
  BY ErrorsCount, FS_RemoveElement
<1>2. Cardinality(Errors \ {h}) = 0 => Errors \ {h} = {}
  BY <1>1, FS_EmptySet
<1> QED
  BY <1>1, <1>2, ErrorsCount

(***************************************************************************)
(* PackError: the error is sent twice, or the daemon is dead.              *)
(***************************************************************************)
LEMMA PackErrorInv == ChannelInv /\ PackError => ChannelInv'
<1> SUFFICES ASSUME ChannelInv, PackError PROVE ChannelInv'
  OBVIOUS
<1> USE DEF ChannelInv
<1> DEFINE h == header.of
<1>1. /\ server = "error" /\ server' \in {"recv", "dead"}
      /\ UNCHANGED <<client, n, header, toServer, errorSize, did, told>>
  BY DEF PackError, ServerMoves
<1>2. Errors' = Errors /\ h \in Errors /\ h \in Calls /\ did[h] = "error" /\ Errors \subseteq Calls
  BY <1>1 DEF Errors, RequestInv
<1>3. RequestInv'
  BY <1>1, <1>2 DEF RequestInv
<1>4. ErrorPackage \in Package /\ ErrorPackage.of = h /\ ErrorPackage.code = ErrCode
  BY DEF ErrorPackage, ChannelTypeOK, Package
<1>5. CASE server' = "dead" /\ UNCHANGED <<ErrCode, toClient>>
  BY <1>1, <1>2, <1>3, <1>5
     DEF ChannelTypeOK, ShapeInv, AccountInv, Gone, ErrCodeInv, TruthInv, Truth, Calling
<1>6. CASE /\ server' = "recv" /\ ErrCode' \in {ErrCode, TextByte}
           /\ toClient' = toClient \o <<ErrorPackage, ErrorPackage>>
  <2>1. /\ toClient' \in Seq(Package) /\ Len(toClient) \in Nat /\ Len(toClient') = Len(toClient) + 2
        /\ DOMAIN toClient = 1 .. Len(toClient) /\ DOMAIN toClient' = 1 .. Len(toClient) + 2
        /\ \A i \in 1 .. Len(toClient) : toClient'[i] = toClient[i]
        /\ toClient'[Len(toClient) + 1] = ErrorPackage /\ toClient'[Len(toClient) + 2] = ErrorPackage
    BY <1>4, <1>6, SentTwice DEF ChannelTypeOK
  <2>2. ChannelTypeOK'
    <3>1. ErrCode' \in 0 .. 255
      BY <1>6 DEF ChannelTypeOK, TextByte
    <3> QED
      BY <1>1, <1>6, <2>1, <3>1 DEF ChannelTypeOK
  <2>3. ErrCodeInv'
    BY <1>2, <1>6 DEF ErrCodeInv
  <2>4. CASE client = "left"
    BY <1>1, <1>2, <1>3, <2>2, <2>3, <2>4 DEF ShapeInv, AccountInv, TruthInv, Truth
  <2>5. CASE client # "left"
    <3>1. h = n - Len(toServer)
      BY <1>1, <2>5 DEF ShapeInv
    <3>2. n \in Nat /\ Len(toServer) \in Nat /\ Calling \in Nat /\ Cardinality(Errors) \in Nat
      BY ErrorsCount DEF ChannelTypeOK, Calling
    <3>3. n - Calling + (Len(toClient) + 1) = h + Cardinality(Errors) - 1
      <4>1. Len(toClient) + Len(toServer) + 2 = Cardinality(Errors) + Calling
        BY <1>1, <2>5 DEF AccountInv, Gone, Owed
      <4>2. \A x, y, z, u, v \in Nat : y + z + 2 = u + v => x - v + (y + 1) = (x - z) + u - 1
        OBVIOUS
      <4>3. Len(toClient) \in Nat
        BY <2>1
      <4>4. n - Calling + (Len(toClient) + 1) = (n - Len(toServer)) + Cardinality(Errors) - 1
        BY <3>2, <4>1, <4>2, <4>3
      <4> QED
        BY <3>1, <4>4
    <3>4. Errors = {h} => ErrorPackage.code = Error
      BY <1>1, <1>4 DEF ErrCodeInv
    <3>5. /\ Truth(n - Calling + (Len(toClient) + 1), ErrorPackage)
          /\ Truth(n - Calling + (Len(toClient) + 2), ErrorPackage)
      <4> DEFINE slot == n - Calling + (Len(toClient) + 1)
      <4>1. slot \in Int /\ n - Calling + (Len(toClient) + 2) = slot + 1
        BY <2>1, <3>2
      <4>2. Cardinality(Errors) > 0 /\ (Cardinality(Errors) = 1 => Errors = {h})
        BY <1>2, OnlyError
      <4>3. slot = h + Cardinality(Errors) - 1
        BY <3>3
      <4> HIDE DEF slot, h
      <4>4. /\ (\A e \in Errors : slot <= e) => slot = h /\ Errors = {h}
            /\ ~ \A e \in Errors : slot + 1 <= e
        BY <1>2, <3>2, <4>2, <4>3, ErrorSlots
      <4> QED
        BY <1>2, <1>4, <3>4, <4>1, <4>4 DEF Truth, slot
    <3>6. TruthInv'
      <4>1. \A i \in DOMAIN toClient' : Truth(n - Calling + i, toClient'[i])
        BY <2>1, <2>5, <3>5 DEF TruthInv
      <4> QED
        BY <1>1, <1>2, <4>1 DEF TruthInv, Truth, Calling
    <3>7. ShapeInv'
      <4>1. \A i \in DOMAIN toClient' : toClient'[i].of # 0
        BY <1>2, <1>4, <2>1, <2>5 DEF ShapeInv, Calls
      <4> QED
        BY <1>1, <1>2, <1>6, <2>5, <4>1 DEF ShapeInv, Calling
    <3>8. AccountInv'
      BY <1>1, <1>2, <1>6, <2>1, <2>5, <3>2 DEF AccountInv, Gone, Owed, Calling
    <3> QED
      BY <1>3, <2>2, <2>3, <3>6, <3>7, <3>8
  <2> QED
    BY <2>4, <2>5
<1> QED
  BY <1>5, <1>6 DEF PackError, ServerMoves

(***************************************************************************)
(* A cancelled handler reports the call it was in as an error.             *)
(***************************************************************************)
LEMMA ServerClosedInv == ChannelInv /\ ServerClosed => ChannelInv'
<1> SUFFICES ASSUME ChannelInv, ServerClosed PROVE ChannelInv'
  OBVIOUS
<1> USE DEF ChannelInv
<1> DEFINE h == header.of
<1>1. /\ server = "dispatch" /\ server' = "exit" /\ header.code \in Procs
      /\ did' = [did EXCEPT ![h] = "error"]
      /\ toClient' = toClient \o <<ErrorPackage, ErrorPackage>>
      /\ UNCHANGED <<client, n, header, toServer, ErrCode, errorSize, told>>
  BY DEF ServerClosed, ServerMoves
<1>2. /\ h \in 1 .. n /\ h \in Calls /\ did[h] = "nothing"
      /\ \A i \in DOMAIN toServer : toServer[i].code \in Procs => toServer[i].of # h
  <2>1. h \in 1 .. n /\ did[h] = "nothing"
    BY <1>1 DEF RequestInv
  <2>2. n \in 0 .. MaxCalls
    BY DEF ChannelTypeOK
  <2>3. h \in Calls
    BY <2>1, <2>2 DEF Calls
  <2>4. \A i \in DOMAIN toServer : toServer[i].code \in Procs => h < toServer[i].of
    BY <1>1 DEF RequestInv
  <2> HIDE DEF h
  <2> QED
    BY <2>1, <2>2, <2>3, <2>4
<1>3. /\ Errors' = Errors \cup {h} /\ h \notin Errors /\ Errors' \subseteq Calls
      /\ Cardinality(Errors') = Cardinality(Errors) + 1
      /\ did' \in [Calls -> {"nothing", "ok", "error"}]
      /\ \A c, pkg : Truth(c, pkg) => Truth(c, pkg)'
  BY <1>1, <1>2, EffectKeepsTruth DEF Errors
<1>4. did'[h] = "error" /\ \A c \in Calls \ {h} : did'[c] = did[c]
  BY <1>1, <1>2 DEF ChannelTypeOK
<1>5. ErrorPackage \in Package /\ ErrorPackage.of = h /\ ErrorPackage.code = ErrCode
  BY DEF ErrorPackage, ChannelTypeOK, Package
<1>6. /\ toClient' \in Seq(Package) /\ Len(toClient) \in Nat /\ Len(toClient') = Len(toClient) + 2
      /\ DOMAIN toClient = 1 .. Len(toClient) /\ DOMAIN toClient' = 1 .. Len(toClient) + 2
      /\ \A i \in 1 .. Len(toClient) : toClient'[i] = toClient[i]
      /\ toClient'[Len(toClient) + 1] = ErrorPackage /\ toClient'[Len(toClient) + 2] = ErrorPackage
  BY <1>1, <1>5, SentTwice DEF ChannelTypeOK
<1> HIDE DEF h
<1>7. ChannelTypeOK'
  BY <1>1, <1>3, <1>6 DEF ChannelTypeOK
<1>8. RequestInv'
  <2>1. \A i \in DOMAIN toServer : toServer[i].code \in Procs =>
          toServer[i].of \in 1 .. n /\ did'[toServer[i].of] = "nothing"
    BY <1>2, <1>4 DEF RequestInv, ChannelTypeOK, Calls
  <2> QED
    BY <1>1, <1>2, <1>4, <2>1 DEF RequestInv, ChannelTypeOK
<1>9. AccountInv'
  BY <1>1 DEF AccountInv, Gone
<1>10. ErrCodeInv'
  BY <1>1, <1>3 DEF ErrCodeInv
<1>11. CASE client = "left"
  BY <1>1, <1>3, <1>7, <1>8, <1>9, <1>10, <1>11 DEF ShapeInv, TruthInv, Truth
<1>12. CASE client # "left"
  <2>1. h = n - Len(toServer)
    BY <1>1, <1>12 DEF ShapeInv, h
  <2>2. n \in Nat /\ Len(toServer) \in Nat /\ Calling \in Nat /\ Cardinality(Errors) \in Nat
    BY ErrorsCount DEF ChannelTypeOK, Calling
  <2> DEFINE slot == n - Calling + (Len(toClient) + 1)
  <2>3. slot = h + Cardinality(Errors') - 1
    BY <1>1, <1>3, <1>6, <1>12, <2>1, <2>2 DEF AccountInv, Gone, Owed
  <2>4. n - Calling + (Len(toClient) + 2) = slot + 1
    BY <1>6, <2>2
  <2>5. Cardinality(Errors') \in Nat \ {0} /\ (Cardinality(Errors') = 1 => Errors' = {h})
    BY <1>3, <2>2, ErrorsCount
  <2>6. Errors' = {h} => ErrorPackage.code = Error
    BY <1>1, <1>3, <1>5 DEF ErrCodeInv
  <2> HIDE DEF slot
  <2>7. /\ (\A e \in Errors' : slot <= e) => slot = h /\ Errors' = {h}
        /\ ~ \A e \in Errors' : slot + 1 <= e
    BY <1>3, <2>3, <2>5, ErrorSlots
  <2>8. \A i \in DOMAIN toClient' : (\A e \in Errors' : n - Calling + i <= e) =>
          LET c == n - Calling + i IN
            /\ c \in Calls /\ toClient'[i].of = c
            /\ did'[c] # "nothing"
            /\ toClient'[i].code = Error <=> did'[c] = "error"
    <3> SUFFICES ASSUME NEW i \in DOMAIN toClient', \A e \in Errors' : n - Calling + i <= e
                 PROVE  LET c == n - Calling + i IN
                          /\ c \in Calls /\ toClient'[i].of = c
                          /\ did'[c] # "nothing"
                          /\ toClient'[i].code = Error <=> did'[c] = "error"
      OBVIOUS
    <3>1. CASE i \in 1 .. Len(toClient)
      <4>1. Truth(n - Calling + i, toClient[i])
        BY <1>6, <1>12, <3>1 DEF TruthInv
      <4> QED
        BY <1>3, <1>6, <3>1, <4>1 DEF Truth
    <3>2. CASE i = Len(toClient) + 1
      BY <1>2, <1>4, <1>5, <1>6, <2>6, <2>7, <3>2 DEF slot
    <3>3. CASE i = Len(toClient) + 2
      BY <2>4, <2>7, <3>3
    <3> QED
      BY <1>6, <3>1, <3>2, <3>3
  <2>9. TruthInv'
    <3>1. \A c \in Calls : told[c].of # 0 => Truth(c, told[c])'
      BY <1>1, <1>3 DEF TruthInv
    <3>2. \A i \in DOMAIN toClient' : Truth(n - Calling + i, toClient[i])'
      BY <1>1, <2>8 DEF Truth, Calling
    <3>3. client' = "calling" => n' > 0
      BY <1>1 DEF TruthInv
    <3> QED
      BY <1>1, <3>1, <3>2, <3>3 DEF TruthInv
  <2>10. ShapeInv'
    <3>1. \A i \in DOMAIN toClient' : toClient'[i].of # 0
      <4>1. \A i \in 1 .. Len(toClient) : toClient'[i].of # 0
        BY <1>6, <1>12 DEF ShapeInv
      <4>2. h # 0
        BY <1>2
      <4>3. /\ toClient'[Len(toClient) + 1].of # 0
            /\ toClient'[Len(toClient) + 2].of # 0
        BY <1>5, <1>6, <4>2
      <4>4. \A i \in DOMAIN toClient' :
              i \in 1 .. Len(toClient) \/ i = Len(toClient) + 1 \/ i = Len(toClient) + 2
        BY <1>6
      <4> QED
        BY <4>1, <4>3, <4>4
    <3>2. \A e \in Errors' : e <= n - Len(toServer)
      BY <1>3, <1>12, <2>1, <2>2 DEF ShapeInv
    <3> QED
      BY <1>1, <1>12, <3>1, <3>2 DEF ShapeInv, Calling
  <2> QED
    BY <1>7, <1>8, <1>9, <1>10, <2>9, <2>10
<1> QED
  BY <1>11, <1>12

(***************************************************************************)
(* The daemon dies; what it has sent arrives or is lost.                   *)
(***************************************************************************)
LEMMA DaemonEndsInv == ChannelInv /\ DaemonEnds => ChannelInv'
<1> SUFFICES ASSUME ChannelInv, DaemonEnds PROVE ChannelInv'
  OBVIOUS
<1>1. /\ server' = "dead" /\ toClient' \in {toClient, <<>>}
      /\ UNCHANGED <<client, n, header, toServer, ErrCode, errorSize, did, told>>
  BY DEF DaemonEnds
<1>2. Errors' = Errors
  BY <1>1 DEF Errors
<1>3. /\ toClient' \in Seq(Package) /\ DOMAIN toClient' \subseteq DOMAIN toClient
      /\ \A i \in DOMAIN toClient' : toClient'[i] = toClient[i]
  <2>1. toClient \in Seq(Package)
    BY DEF ChannelInv, ChannelTypeOK
  <2>2. CASE toClient' = <<>>
    BY <2>2, EmptySeq
  <2>3. CASE toClient' = toClient
    BY <2>1, <2>3
  <2> QED
    BY <1>1, <2>2, <2>3
<1>4. ChannelTypeOK'
  BY <1>1, <1>3 DEF ChannelInv, ChannelTypeOK
<1>5. RequestInv' /\ AccountInv' /\ ErrCodeInv'
  BY <1>1, <1>2 DEF ChannelInv, RequestInv, AccountInv, Gone, ErrCodeInv
<1>6. ShapeInv'
  BY <1>1, <1>2, <1>3 DEF ChannelInv, ShapeInv, Calling
<1>7. TruthInv'
  BY <1>1, <1>2, <1>3 DEF ChannelInv, TruthInv, Truth, Calling
<1> QED
  BY <1>4, <1>5, <1>6, <1>7 DEF ChannelInv

(***************************************************************************)
(* Every step of either side keeps the invariant.                          *)
(***************************************************************************)
LEMMA ChannelStepInv == ChannelInv /\ [ChannelNext]_channelVars => ChannelInv'
<1> SUFFICES ASSUME ChannelInv, [ChannelNext]_channelVars PROVE ChannelInv'
  OBVIOUS
<1>1. CASE UNCHANGED channelVars
  BY <1>1 DEF channelVars, ChannelInv, ChannelTypeOK, RequestInv, ShapeInv, AccountInv, Gone, Owed,
              Calling, ErrCodeInv, TruthInv, Truth, Errors
<1> QED
  BY <1>1, CallInv, CallEndsInv, LeavingInv, RecvInv, ProcedureInv, UnknownInv, SendInv,
     PackErrorInv, ServerClosedInv, DaemonEndsInv DEF ChannelNext, DaemonStep, ServerStep

(***************************************************************************)
(* A new connection.                                                       *)
(***************************************************************************)
LEMMA ChannelInitInv == ChannelInit => ChannelInv
<1> SUFFICES ASSUME ChannelInit PROVE ChannelInv
  OBVIOUS
<1>1. NoPackage \in Package
  BY DEF NoPackage, Package, Error
<1>2. toServer \in Seq(Package) /\ toClient \in Seq(Package) /\ Len(toServer) = 0 /\ Len(toClient) = 0
  BY DEF ChannelInit
<1>3. Errors = {} /\ Cardinality(Errors) = 0
  BY FS_EmptySet DEF ChannelInit, Errors
<1>4. \A c \in Calls : told[c].of = 0
  BY DEF ChannelInit, NoPackage
<1>5. ChannelTypeOK
  BY <1>1, <1>2 DEF ChannelInit, ChannelTypeOK, Error
<1>6. RequestInv /\ ErrCodeInv
  BY <1>2 DEF ChannelInit, RequestInv, ErrCodeInv
<1>7. ShapeInv
  BY <1>2, <1>3 DEF ChannelInit, ShapeInv, Calling, Calls
<1>8. AccountInv
  BY <1>2, <1>3 DEF ChannelInit, AccountInv, Owed, Calling
<1>9. TruthInv
  BY <1>2, <1>4 DEF ChannelInit, TruthInv
<1> QED
  BY <1>5, <1>6, <1>7, <1>8, <1>9 DEF ChannelInv

(***************************************************************************)
(* What the invariant is for.                                              *)
(***************************************************************************)
LEMMA ChannelInvImplies == ChannelInv => ChannelTypeOK /\ TruthUntilError /\ Backlog
<1> SUFFICES ASSUME ChannelInv PROVE ChannelTypeOK /\ TruthUntilError /\ Backlog
  OBVIOUS
<1>1. TruthUntilError
  BY DEF ChannelInv, TruthInv, Truth, TruthUntilError
<1>2. Backlog
  <2> SUFFICES ASSUME client = "idle", server = "recv", toServer = <<>>
               PROVE  Len(toClient) = Cardinality(Errors)
    BY DEF Backlog
  <2>1. Len(toServer) = 0 /\ Len(toClient) \in Nat
    BY DEF ChannelInv, ChannelTypeOK
  <2> QED
    BY <2>1, ErrorsCount DEF ChannelInv, AccountInv, Gone, Owed, Calling
<1> QED
  BY <1>1, <1>2 DEF ChannelInv

(***************************************************************************)
(* The invariant holds on every connection.                                *)
(***************************************************************************)
THEOREM ChannelInvariant == ChannelSpec => []ChannelInv
BY ChannelInitInv, ChannelStepInv, PTL DEF ChannelSpec

(***************************************************************************)
(* Up to and including the first call that fails, Call returns what the    *)
(* procedure did, whenever the daemon or the client dies.                  *)
(***************************************************************************)
THEOREM TrueUntilError == ChannelSpec => []TruthUntilError
BY ChannelInvariant, ChannelInvImplies, PTL

(***************************************************************************)
(* Once everything is served, exactly one surplus package for every error  *)
(* is left in the client's socket.                                         *)
(***************************************************************************)
THEOREM SurplusCounted == ChannelSpec => []Backlog
BY ChannelInvariant, ChannelInvImplies, PTL
=============================================================================
