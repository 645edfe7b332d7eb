------------------------------ MODULE RPCCodec ------------------------------
(***************************************************************************)
(* The messages of the RPC protocol as bytes: RPCDefs::Messages            *)
(* (Src/RPCDefs.cpp), PackMsg, SendPackage and PackError (RPC.hpp,         *)
(* RPC.cpp), with the procedures of HandlerImpl that put texts of any      *)
(* length into them, and the error text a failed launch sends through its  *)
(* pipe (DaemonTools.cpp).                                                 *)
(*                                                                         *)
(* A text is its length: the only thing the code does to one is to cut it. *)
(* Byte is char, whose sign is the compiler's choice.  A package is the    *)
(* sequence of the writes Serialize makes, each an offset into the         *)
(* payload, a length and a value.                                          *)
(***************************************************************************)
EXTENDS Integers, Sequences, FiniteSets

CONSTANTS
  Names,      \* lengths of the names the clients give in Connect
  Paths,      \* lengths of the paths given to Flash
  Pids,       \* process ids of the clients
  Reasons,    \* lengths of the error texts of a failed launch
  MbPortSize  \* length of the motherboard port's path

Payload    == 254   \* BufSize less the two bytes of the header
PidSize    == 4     \* sizeof(pid_t)
MaxError   == 255   \* the limit PackError checks
BufferSize == 256   \* DaemonTools::BufferSize
MaxPid     == 4194304   \* the largest pid Linux gives
Garbage    == -2    \* what a read at the wrong place gives

\* GetStateDescription: Boot, Fault, Running and the names of the routines.
Descriptions == {4, 5, 7, 10, 17}

ASSUME CodecAssumption ==
  /\ Names \subseteq Nat /\ Paths \subseteq Nat /\ Pids \subseteq 1 .. MaxPid
  /\ Reasons \subseteq 0 .. BufferSize + 1
  /\ MbPortSize \in 0 .. 64

VARIABLES
  CharIsSigned,  \* whether the compiler's char is signed
  Acquired,      \* HandlerImpl::Acquired, as the byte of a bool
  User,          \* HandlerImpl::UserName (its length) and UserPid
  daemon,        \* "up", "terminated" or, past a buffer's end, "undefined"
  call           \* the last message: the values put in and those taken out

codecVars == <<CharIsSigned, Acquired, User, daemon, call>>

CodecTypeOK ==
  /\ CharIsSigned \in BOOLEAN
  /\ Acquired \in {0, 1}
  /\ User \in [Name : 0 .. 255, PID : Pids \cup {-1}]
  /\ daemon \in {"up", "terminated", "undefined"}
  /\ call.sent \in Seq(Nat \cup {-1}) /\ call.got \in Seq(Nat \cup {-1, Garbage})

CodecInit ==
  /\ CharIsSigned \in BOOLEAN
  /\ Acquired = 0
  /\ User = [Name |-> 0, PID |-> -1]
  /\ daemon = "up"
  /\ call = [sent |-> <<>>, got |-> <<>>]

-----------------------------------------------------------------------------
(***************************************************************************)
(* Messages                                                                *)
(***************************************************************************)
Byte(x) == x % 256
Promoted(b) == IF CharIsSigned /\ b > 127 THEN b - 256 ELSE b

Cell(ptr, len, val) == [at |-> ptr, len |-> len, val |-> val]

\* Size = str.size(): the length of the text, cut to a byte.
Text(n) == [Data |-> n, Size |-> Byte(n)]

\* Mutant of StringPackedSize: the byte of the size is forgotten.
StringPackedSizeBare(s) == s.Size

StringPackedSize(s) == Byte(s.Size + 1)

StringSerialize(s, ptr) ==
  <<Cell(ptr, 1, s.Size), Cell(ptr + 1, Promoted(s.Size), s.Data)>>

UserDataPackedSize(u) == Byte(StringPackedSize(u.Name) + PidSize)

UserDataSerialize(u, ptr) ==
  StringSerialize(u.Name, ptr) \o <<Cell(ptr + Promoted(StringPackedSize(u.Name)), PidSize, u.PID)>>

ChipStatusPackedSize(c) ==
  Byte(StringPackedSize(c.Description) + 1 + UserDataPackedSize(c.User))

ChipStatusSerialize(c, ptr) ==
  LET flag == ptr + Promoted(StringPackedSize(c.Description))
  IN  StringSerialize(c.Description, ptr) \o <<Cell(flag, 1, c.Acquired)>>
        \o UserDataSerialize(c.User, flag + 1)

\* What is read at ptr: the value written there, if no later write hit it.
Read(cells, ptr, len) ==
  LET Hit(i)     == cells[i].at = ptr /\ cells[i].len = len
      Spared(i)  == \A j \in i + 1 .. Len(cells) :
                      cells[j].at >= ptr + len \/ cells[j].at + cells[j].len <= ptr
      found      == {i \in DOMAIN cells : Hit(i) /\ Spared(i)}
  IN  IF found = {} THEN Garbage ELSE cells[CHOOSE i \in found : TRUE].val

StringDeserialize(cells, ptr) ==
  LET size == Read(cells, ptr, 1)
  IN  [Size |-> size, Data |-> Read(cells, ptr + 1, Promoted(size))]

\* Size bytes of Data: the length of the text that comes out.
ToCxxStr(s) == IF s.Data = Garbage THEN Garbage ELSE s.Size

UserDataDeserialize(cells, ptr) ==
  LET name == StringDeserialize(cells, ptr)
  IN  [Name |-> name, PID |-> Read(cells, ptr + Promoted(StringPackedSize(name)), PidSize)]

ChipStatusDeserialize(cells, ptr) ==
  LET description == StringDeserialize(cells, ptr)
      flag        == ptr + Promoted(StringPackedSize(description))
  IN  [Description |-> description, Acquired |-> Read(cells, flag, 1),
       User |-> UserDataDeserialize(cells, flag + 1)]

-----------------------------------------------------------------------------
(***************************************************************************)
(* Packages                                                                *)
(***************************************************************************)
PackMsg(size, cells) == [size |-> size, cells |-> cells]

(***************************************************************************)
(* Otherwise memcpy or SendPackage is given a negative char as a size, or  *)
(* Serialize writes past the buffer (String's own assert is a part of      *)
(* this): the sender's behaviour is undefined from there on.               *)
(***************************************************************************)
Transmits(msg) ==
  /\ Promoted(msg.size) >= 0
  /\ \A i \in DOMAIN msg.cells :
       msg.cells[i].len >= 0 /\ msg.cells[i].at + msg.cells[i].len <= Payload

\* SendPackage and RecvPackage: "size" bytes of the payload arrive.
Arrives(msg) ==
  [i \in DOMAIN msg.cells |->
     LET c == msg.cells[i]
     IN  Cell(c.at, c.len, IF c.at + c.len <= msg.size THEN c.val ELSE Garbage)]

Sends(msg) == daemon' = IF Transmits(msg) THEN "up" ELSE "undefined"

\* The values of a message's fields before and behind the wire, if it got there.
Delivered(sent, got) ==
  call' = IF daemon' = "up" THEN [sent |-> sent, got |-> got] ELSE call

\* PackError, and SendPackage once more; the receiver takes Size bytes.
PackError(text) ==
  LET msg == PackMsg(Byte(text), <<Cell(0, text, text)>>)
  IN  /\ IF text > MaxError THEN daemon' = "terminated" ELSE Sends(msg)
      /\ Delivered(<<text>>, <<Read(Arrives(msg), 0, msg.size)>>)

-----------------------------------------------------------------------------
(***************************************************************************)
(* Procedures.  A request that its client cannot send never gets here.     *)
(***************************************************************************)
\* Where a number gets one more digit.
Tens == <<10, 100, 1000, 10000, 100000, 1000000, 10000000, 100000000, 1000000000>>

Digits(p) == 1 + Cardinality({k \in DOMAIN Tens : Tens[k] <= p})

\* Mutant of Refusal: the text also tells who asks.
RefusalToUser(procName) == 39 + procName + User.Name + Digits(User.PID) + 12

\* "Can't do <procName>: Port is acquired by <UserName> at PID <UserPid>"
Refusal(procName) == 39 + procName + User.Name + Digits(User.PID)

EnsureNotAcquired(procName) ==
  /\ Acquired = 1
  /\ PackError(Refusal(procName))
  /\ UNCHANGED <<CharIsSigned, Acquired, User>>

Connect(n, pid) ==
  LET user    == [Name |-> Text(n), PID |-> pid]
      request == PackMsg(UserDataPackedSize(user), UserDataSerialize(user, 0))
      got     == UserDataDeserialize(Arrives(request), 0)
      answer  == PackMsg(StringPackedSize(Text(MbPortSize)), StringSerialize(Text(MbPortSize), 0))
      port    == StringDeserialize(Arrives(answer), 0)
  IN  /\ daemon = "up" /\ Transmits(request)
      /\ \/ EnsureNotAcquired(7)
         \/ /\ Acquired = 0
            /\ Acquired' = 1
            /\ User' = [Name |-> ToCxxStr(got.Name), PID |-> got.PID]
            /\ Sends(answer)
            /\ Delivered(<<n, pid, MbPortSize>>, <<User'.Name, User'.PID, ToCxxStr(port)>>)
            /\ UNCHANGED CharIsSigned

Flash(n) ==
  LET request == PackMsg(StringPackedSize(Text(n)), StringSerialize(Text(n), 0))
      path    == StringDeserialize(Arrives(request), 0)
  IN  /\ daemon = "up" /\ Transmits(request)
      /\ \/ EnsureNotAcquired(5)
         \/ /\ Acquired = 0
            /\ UNCHANGED <<CharIsSigned, Acquired, User, daemon>>
            /\ Delivered(<<n>>, <<ToCxxStr(path)>>)

Reset == daemon = "up" /\ EnsureNotAcquired(5)

\* Mutant of Disconnect: the user's pid is wiped out.
DisconnectWipes ==
  /\ daemon = "up" /\ Acquired = 1
  /\ Acquired' = 0
  /\ User' = [User EXCEPT !.PID = 0]
  /\ UNCHANGED <<CharIsSigned, daemon, call>>

\* UserName and UserPid stay, and stay part of the status.
Disconnect ==
  /\ daemon = "up" /\ Acquired = 1
  /\ Acquired' = 0
  /\ UNCHANGED <<CharIsSigned, User, daemon, call>>

GetStatus(description) ==
  LET user   == [Name |-> Text(User.Name), PID |-> User.PID]
      status == [Description |-> Text(description), Acquired |-> Acquired, User |-> user]
      answer == PackMsg(ChipStatusPackedSize(status), ChipStatusSerialize(status, 0))
      got    == ChipStatusDeserialize(Arrives(answer), 0)
  IN  /\ daemon = "up"
      /\ Sends(answer)
      /\ Delivered(<<description, Acquired, User.Name, User.PID>>,
                   <<ToCxxStr(got.Description), got.Acquired, ToCxxStr(got.User.Name), got.User.PID>>)
      /\ UNCHANGED <<CharIsSigned, Acquired, User>>

-----------------------------------------------------------------------------
\* The byte PutError writes behind ~ACK, and the text ReadResult makes of it.
LaunchFails(reason) ==
  LET size == Byte(IF reason < BufferSize THEN reason ELSE BufferSize)
  IN  /\ UNCHANGED <<CharIsSigned, Acquired, User, daemon>>
      /\ Delivered(<<reason>>, <<size>>)

CodecNext ==
  \/ \E n \in Names, pid \in Pids : Connect(n, pid)
  \/ \E n \in Paths : Flash(n)
  \/ \E d \in Descriptions : GetStatus(d)
  \/ \E r \in Reasons : LaunchFails(r)
  \/ Reset \/ Disconnect

CodecSpec == CodecInit /\ [][CodecNext]_codecVars

-----------------------------------------------------------------------------
(***************************************************************************)
(* Exact: no field of any message (user name, pid, status, path, port,     *)
(* error text, launch error) arrives changed, in either build; the one     *)
(* damage possible is that a text of more than 255 bytes arrives as a      *)
(* shorter prefix of itself.                                               *)
(***************************************************************************)
Exact ==
  /\ Len(call.got) = Len(call.sent)
  /\ \A i \in DOMAIN call.sent :
       call.got[i] # call.sent[i] => call.sent[i] > 255 /\ call.got[i] \in 0 .. 254

\* The longest name that fits every text and status it becomes a part of.
NameLimit == IF CharIsSigned THEN 74 ELSE 201

(***************************************************************************)
(* AnswersFit: a client may give any name of up to NameLimit bytes and any *)
(* pid, and go or stay; whatever is asked of the daemon afterwards, its    *)
(* answers and refusals fit into a package.                                *)
(***************************************************************************)
AnswersFit == daemon # "up" => User.Name > NameLimit
=============================================================================
