# A TLA+ model of roki-mb-daemon

roki-mb-daemon runs on a robot's Raspberry Pi and is the one process that may
touch the motherboard's controllers: it starts, flashes and resets their
firmware by running Python scripts, and it lends their serial port to one client
at a time. This directory models the daemon, its client library, the command line
tool and the scripts, checks the models with TLC on small instances, and proves every
invariant with TLAPS, for every number of threads, clients, processes and calls and
for files and texts of every length.

## The system

| Part | State | Operations | Hard because |
|---|---|---|---|
| `FirmwareFSM` (`Src/FirmwareFSM.cpp`) | `State`, `RoutineName`, `Mutex` | `ResetChip`, `FlashBootlader`, `StartFirmware`, all through `DoTransition`; `GetState`, `GetStateDescription` | the lock is released while a script runs; a `Defer` sets the final state on every way out |
| `HwUtils` (`Src/HwUtils.cpp`) | the daemon's child processes | `Execute`: fork, exec, `wait()` | `wait()` takes any child; it is a cancellation point |
| `HandlerImpl` (`Src/HandlerImpl.cpp`) | `Acquired`, `UserName`, `UserPid`, `Mutex` | `Flash`, `Start`, `Reset`, `Connect`, `Disconnect`, `GetStatus` | two locks, check and action apart, a blocking read with the lock held |
| `Server` (`Src/Server.cpp`) | `Handlers`, `Joinables`, `DoShutdown`, `CurrentId`, `CurrentPort` | `Run`, `DispatchRoutine`, `CleanupRoutine`, `HandlerRoutine` | four kinds of threads, two condition variables, a signal handler, `pthread_cancel` |
| `RPCProvider`, `Client` (`Src/RPC.cpp`, `Src/Client.cpp`) | one buffer, one connection per client | `Call`, `SoftDisconnect`, `RecvPackage`, `SendPackage`, `PackError` | answers are matched to calls by order only |
| `DaemonTools` (`Src/DaemonTools.cpp`) | the TCP port, a pipe between parent and child | `IsRunning`, `Launch`, `RunHere`, `Connect` | several processes, and a probe that disturbs what it measures |
| `RPCDefs` (`Src/RPCDefs.cpp`) | none | `GetPackedSize`, `Serialize`, `Deserialize` | one-byte sizes of a type whose sign is the compiler's choice |
| `DaemonCLI` (`Src/CLI.cpp`) | `Tokens`, `CurrentToken`, `PrevToken` | `Execute`, `Run`, one `Do...` per command | an exception on any line of a session; the daemon can go in between |
| scripts (`Scripts/Impls`) | the chip, the serial line | reset, find, flash, start | answers that are late, missing or not checked; exit codes |

How they meet: a CLI process parses its command line, finds or launches the daemon through the port
(`DaemonTools`). The dispatch thread accepts it, makes a handler thread with a
port of its own and says so in a hello message. The client then calls procedures
over an `RPCProvider`; the handler thread runs them in `HandlerImpl`, which runs
the firmware routines in `FirmwareFSM`, which forks scripts through `HwUtils`. At
shutdown the main thread cancels the dispatch thread and all handlers, and the
cleanup thread joins them.

## The modules

| Module | Models | Proofs |
|---|---|---|
| `FirmwareLifecycle` | what `GetStatus` promises: one status word and its graph | |
| `FirmwareFSM` | `FirmwareFSM` with `HwUtils::Execute` | `FirmwareFSM_proofs` |
| `HandlerImpl` | extends `FirmwareFSM`: the procedures and the request loop around them | `HandlerImpl_proofs` |
| `Server` | the threads of `Server::Run` and the ports they listen on | `Server_proofs` |
| `RPCChannel` | one client and its handler on one connection | `RPCChannel_proofs` |
| `CLI` | extends `RPCChannel`: the command line tool as the client | `CLI_proofs` |
| `RPCCodec` | the bytes of the messages, and what puts texts into them | `RPCCodec_proofs` |
| `BootloaderScripts` | the four scripts, the boards, and `FirmwareFSM`'s view of both | `BootloaderScripts_proofs` |
| `DaemonLaunch` | processes that launch, probe, reach and kill the daemon | `DaemonLaunch_proofs` |

The `MC*` modules instantiate them for TLC. `PROJECT.json` maps every definition
to the lines it stands for. A definition whose comment says *Mutant of X* is a
plausible bug; TLC must find a violation when it is put in the place of X, which
shows that the property looks at that code.

### FirmwareFSM and FirmwareLifecycle

A step is what a thread does between two points where another can interfere: a
critical section, a system call, an unlocked read. `Claim` is the first critical
section of `DoTransition`, `Fork` and `Reap` are the two halves of `Execute`,
`SetState` is the `Defer`. The kernel's process table is `script`; `Reap` takes
any ended child, as `wait()` does. `Cancel` is `pthread_cancel`, and only `wait()`
acts on it (`UnwindWait`): the script then runs on without a parent that waits.
`ownPid` is a history variable and guards nothing. `Init` is the state after the
constructor, whose reset runs before any thread exists. A script's end is an action
of its own (`ScriptExit`): the start script need not have one, since it searches
until both boards have answered.

`FirmwareLifecycle` is the abstract specification: a status that is a resting
state or the name of the one routine at work. `ImplementsLifecycle` is the
refinement, with `GetStateDescription` as the mapping.

### HandlerImpl

The request loop of `HandlerRoutine` (`at`) around the procedures. A procedure
that takes the lock and does not block is one step; `Connect` is two, because
`ClearPort` reads from the port with the lock held. `Flash` and `Reset` are
`EnsureNotAcquired`, then `CallFirmware`, with the lock free in between. The
catch clauses are steps of their own (`ReplyError`, `ReplyServerClosed`): a send
that throws in there ends the process (`Terminate`). `granted` is the clients'
view: who was told that the port is his and has not sent `Disconnect` since.
`OnlyHolderDisconnects` restricts the clients, not the daemon.

### Server

The main thread, the dispatch thread, the cleanup thread and the handlers, each
with its program point. A condition wait is a look at the predicate and a sleep,
two steps, since neither of the notifications in `Run` and `HandlerRoutine` is
sent under the mutex; `SpuriousWakeup` is allowed. Undefined behaviour is a
choice: an iterator into `Handlers` that is erased (`MainDangles`), a handler that
writes to the dispatch thread's stack frame after it is gone
(`HandlerDanglingFrame`). A session is one point here; `HandlerImpl` is its
inside. `PortTaken` and `DispatchCreate` are the loop of `CreateHandlerSocket`, with
port numbers modulo `PortSpace` as `htons` takes them; port 0 is the kernel's choice,
and a client told to connect to port 0 never arrives. Cancellation inside a
`noexcept` destructor or wait terminates the process.

### RPCChannel

Packages are units: `RecvToBuffer` and `SendFromBuffer` loop until they have moved
all bytes. The byte that tells an error from an answer, the length of an error's
text and the handler's `ErrCode`, which lies right behind the buffer, are kept,
because one text length overwrites it. `char` is unsigned, as on the ARM target;
`RPCCodec` has both signs. `ServerClosed` is the catch clause of a cancelled
handler, `DaemonEnds` the end of the process, with which sent packages may be lost.

### CLI

`Run` reads token by token; `cmd` holds the words matched so far. A command that
needs the daemon then has one session on `RPCChannel`: `MakeCall`, its answer, and
`SayGoodbye`, or `ReportError` when the `ProcException` leaves the command before
`SoftDisconnect`. How `MakeClient` finds the daemon is `DaemonLaunch`'s subject; here
it works or throws. The empty token list stands for a program that is linked with
`Client` and makes several calls on one connection, which the CLI never does.

### RPCCodec

A text is its length, for the code only ever cuts texts. `Serialize` is the sequence
of its writes (offset, length, value) and `Deserialize` reads them back: a read finds
a value only if it looks where it was written, nothing has overwritten it, and it is
within the bytes that were sent. The initial states choose whether `char` is signed.
A negative size or a write past the buffer makes the daemon `undefined`; a text that
`PackError` refuses inside a catch clause makes it `terminated`. The procedures are
here only as what puts names of any length into the messages; a request that cannot
be packed on the client's side never arrives.

### BootloaderScripts

`Begin` and `Ends` are `FirmwareFSM` and `Execute` reduced to one caller: which
script may run in which state, and what its exit code means. Each script is then
followed line by line; loops over ports, sectors and pages have their counter in
`script.index`. A port is a path and the device behind it; each script takes its own
list (`COM_List`), so that a path can have changed devices since `find` stored one in
`MbPort`. `start` does not look at the answers to START_FW: `StartMotherboard` and
`StartBlueCoin` go on whether the board obeys or not. `requests` and `replies` are the two directions of the serial line, so
an answer can come after the `readline()` that waited for it. `missed` is a history
variable: an answer that the script reads and does not check was not there. The page
arithmetic (`curr_offset`, `Word`) is the script's, with `PageSize` for 1024. The
boards (`BoardAnswers`) are external: a page that is acknowledged is stored, the last
page starts the new firmware, a reset pulse brings a board into its bootloader and
empties the line.

### DaemonLaunch

Processes that run one CLI command each. `IsRunning` is `Probe` and `ProbeEnds`:
in between the dummy socket has the port; `PortBusy` and `ProbeFails` are its other
outcomes, "running" and an exception. A launch forks; its child opens the
log, daemonizes, makes the handler (which resets the chip), binds and answers
through the pipe. `Kill` is `fuser -k` on the port. A script that outlives the
daemon keeps the listening socket it inherited (`ServerEnds`, `ScriptEnds`).

## What is checked

Passing runs:

| Run | Instance | Shows |
|---|---|---|
| `fsm` | 3 threads, 3 pids | `SingleOwner`, `ScriptExclusion`, `WaitHasChild`, `VerdictIsOwn`, the refinement of `FirmwareLifecycle`; Transition is left unless an uncancelled start searches for ever (`RoutineEnds`) |
| `handler` | 2 threads, 2 clients, 2 pids | `ExclusiveHolder`, `LockDiscipline`, the handlers call `FirmwareFSM` only as it expects (`UsesFirmwareFSM`), a request past the lock ends, but for an endless start and a silent port (`AdmittedRequestEnds`) |
| `server` | 2 connections, 3 ports, failing system calls | `JoinOnce`, `Registered` (no thread is lost, and what is to be joined is known), `LastOneAtMost` (when `Run` returns all handlers are joined but one at most, the last, which is cancelled); `EndedHandlerReaped`, `CancelledHandlerEnds`, `ShutdownWithClients` |
| `cli` | 38 command lines, or a program with 4 calls; texts of 20, 255 and 256 bytes | `TruthUntilError`, `Backlog`, `ParsesAsHelp`, `VerdictTrue`; `CallReturns`, `SessionEnds` |
| `codec` | lengths around 74, 127, 201 and 255, both signs of `char` | `Exact`: no field is changed on its way but for texts cut to a prefix; `AnswersFit`: the longest name that never breaks an answer is 201 bytes, 74 where `char` is signed |
| `scripts` | lists of ports whose paths change devices, files of up to 3 pages | `FlashedIsFile`, `StatusTrue` (Boot: the motherboard is in its bootloader; Running: both boards answered the start); `ScriptEnds` |
| `launch` | 3 processes, all commands, one retry | `PortOwner`, `LaunchVerdict`, `RaceHasWinner`; `LaunchReturns`, `ConnectEnds` |

Each of them checks its module's type invariant, too.

Runs that end in a counterexample, because the code does not do what a message,
a comment or the README says (`findings` in `PROJECT.json` quotes the lines):

| Run | The code |
|---|---|
| `handler_running` | resets the chip of a client that has just acquired the port |
| `server_cleanup` | can wait for the cleanup thread for ever (lost notification) |
| `server_hello` | can leave the dispatch thread asleep (lost notification) |
| `channel_own` | sends every error twice, and the copy answers the next call |
| `launch_authority` | resets the chip before it knows that it may be the daemon |

Further weak spots that the models contain and that have no run of their own: the state named in an `FSMException` may not be the one
that was refused, a signal before `pause()` is not noticed, one exception ends the
dispatch thread, a handler that ends at once is looked up before it is
registered (the window `JoinableIsKnown` names), the cleanup thread can end
before the last handler is registered (the exception in `LastOneAtMost`), an error text of 255 bytes runs over the
buffer, and a probe of the port is taken for a running daemon. `Disconnect` is
accepted from anybody and a script outlives its cancelled handler: that is why
`ExclusiveHolder` needs `OnlyHolderDisconnects` and `ScriptExclusion` a run without a
cancellation. `FlashedIsFile` needs `~missed`: a late answer to `SET_SIZE` is taken
for the acknowledgement of the first page, and from there on the script is one
answer behind the chip. Running does not mean that the boards obeyed START_FW
(`BootloaderStart.py:91`, whose answers are only printed), and the path in `MbPort`,
found once, may have another device behind it by the time `Connect` hands it out. Two waits have no limit: the search of the start script
(`BootloaderStart.py:67`) and the read of `ClearPort` (`Helpers.cpp:72`), which holds
the lock that all other procedures need. `RoutineEnds`, `AdmittedRequestEnds` and
`ScriptEnds` name them as exceptions (`Searching`, `Draining`), and show that a
cancellation ends both and that there is no third.

### Bounds

Two or three threads are enough for every pair of critical sections to overlap
with a third party in between; as many pids as threads, so that each cancelled
thread can leave an orphan while another forks. `MaxHandlers` is 2: a thread that
has ended or runs, and one being made; the threads of `Run` meet handlers one at a
time. `PortSpace` is 3 with the daemon on port 1, so that the counter wraps past 0 and
meets the daemon's port and a handler that still listens; the two violation runs of
`Server` are not about ports and have 8. `MaxCalls` is 4: two errors, and the calls that meet their copies.
`ErrorSizes` has a short text, the longest that is accepted and the shortest that
is refused. The command lines of `cli` are all pairs of the three groups and nine
words, lines that stop after each word, and lines with a word too many. `Names`,
`Paths` and `Reasons` of `codec` have both sides of every limit in the code: the sign of a
byte, the buffer's payload, a byte's range. A page of `scripts` has 8 bytes, two words,
so that a word, a page and a file all have an inside and a border; the files are
empty, part of a word, one page, and two pages and half a word. Its lists of ports have
from none to three paths, with a board missing or both there, and the first two paths
have different devices behind them in different lists. `ConnAttemptCount` is 1, so that there is an attempt that is retried
and one that is not. With three launches one can be refused by a probe and one
broken by the next probe before the third succeeds. No symmetry is used, because
every passing run checks liveness.

### Fairness

A thread or process that can take a step by itself takes it (weak fairness):
nothing in the code changes priorities. The scripts of reset and flash end: their
loops are bounded and their reads have timeouts (`scripts` checks it). Nothing is
assumed of a start script, of an orphaned script or of `ClearPort`'s read. In `Server` the two steps that wait for
`JoinablesMutex` have strong fairness: during a shutdown the cleanup thread polls
and takes the mutex again and again, and the kernel's scheduler, not the code,
lets the others in. In `CLI` the handler thread and a client inside a call go on, and
procedures end: `CallReturns` and `SessionEnds` do not speak of a call of Start whose
board is missing, which waits as long as the script does.
In `BootloaderScripts` the script goes on, and a board in its bootloader that is
asked for its name over and over answers some time (strong fairness): that is all
the start script relies on, having no limit of its own. No fairness is assumed for clients, signals, failures,
spurious wakeups, a server's end or its hello, and none for the lock of
`HandlerImpl`.

## What is proved

Every invariant that a run checks, the one action property (`VerdictIsOwn`) and the
refinements are theorems. `theorems` in `PROJECT.json` lists them. They hold for
all values of the constants that satisfy the assumptions:

| Module | Assumed |
|---|---|
| `FirmwareFSM`, `HandlerImpl` | `NoPid` is not a pid, `NoThread` not a thread, `Peer` maps threads to clients |
| `Server` | there is a port number besides 0, and the daemon's is one; at least one connection |
| `RPCChannel` | procedure codes are 1 to 12, as in `RPCDefs`; lengths and the number of calls are natural numbers |
| `CLI` | a command line has its program's name; every procedure a command calls is a procedure |
| `RPCCodec` | lengths are natural numbers, pids those of Linux, the port's path has at most 64 bytes, a launch error at most 257 (see *Not modelled*) |
| `BootloaderScripts` | a port is a path and one of three kinds of device; a page is a whole number of words, and there is a largest file |
| `DaemonLaunch` | there is a process |

The last two are not about the code. Without a process nobody can win a race; and
the model's `memory` is a function on the addresses of the largest file.

**FirmwareFSM** (`FSMInv`: `TypeOK`, `SingleOwner`, `WaitHasChild`, `OutcomeOK`,
`ChildrenOwned`). `SingleOwner` needs `OutcomeOK`, the type of the local `newState`:
it is never Transition, so that `SetState` really gives the hardware up.
`WaitHasChild` needs `SingleOwner`: the one thread in `wait()` that takes a child,
its own or an orphan, leaves `wait()` with it, so nobody else is left there without
one. `ScriptExclusion` and `VerdictIsOwn` need `ChildrenOwned` (without a
cancellation every child's parent is in `wait()`): `SingleOwner` says who may act, not
whose child is alive. *Implementation*: the initial states agree with
`FirmwareLifecycle`'s, and each action is an edge or a stutter (`LifecycleStep`). A
claim is a `Begin` edge because the expected states are those of the routine; a
`SetState` is `Succeed` or `Fail` because `RoutineName` is the owner's routine.

**HandlerImpl** (`LoopInv`: `HandlerTypeOK`, `LockDiscipline`, `RequestOK`).
`HandlerTypeOK` ties a thread's place in the request loop to its place in the state
machine, `RequestOK` says which request it can have where. *HandlerUsesFirmware*,
*StatusLifecycle*: every step of the handlers is a step of `FirmwareFSM` or leaves
its variables alone, so its results hold of the composed system, the refinement
included. *Arbitration*: with `OnlyHolderDisconnects`, `ExclusiveHolder` holds. It is
not inductive: between `Acquired = true` and the answer, and between a `Disconnect`
on the wire and its execution, nobody holds the port although it is acquired.
`TokenInv` treats the right to the port as a token that is with the client, with the
thread whose answer is under way or with the thread that has the `Disconnect` in
hand; there is one at most, and `Acquired` is set while there is one.

**Server** (`ServerInv`: `ServerTypeOK`, `ThreadsInv`, `JoinOnce`, `Registered`). The missing part is `ThreadsInv`: an id has no thread before the dispatch
thread has made one of it, so a new thread's id is in neither `Joinables` nor
`Handlers`, and the threads of a process die together. The nine ways in which a
handler goes on without touching what threads share are one lemma (`OnwardInv`).
`LastOneAtMost` needs the order of a shutdown (`ShutdownInv`, on top of `ServerInv`): once
the cleanup thread has ended, the registry is empty or holds the one handler the
dispatch thread had in hand, because at its loop's top that thread ends as well; and
`Run` goes through `Handlers` only when there is no dispatch thread left to insert.

**RPCChannel** (`ChannelInv`). `Backlog` looks at a quiet moment only. `AccountInv`
is the same count at every moment: requests and packages under way, and what the
handler still owes (two packages for an error), are one for the call that waits and
one for every error. `TruthUntilError` needs to know what the packages that nobody
has read will be taken for: `TruthInv` says of the i-th of them what `TruthUntilError`
says of the call it will answer. That rests on the order of requests (`RequestInv`,
`ShapeInv`: the requests under way are the last calls, without a gap) and on
`ErrCodeInv`: the byte that marks an error is damaged by an error text only.

**CLI** (`CLIInv`: `ChannelInv`, `LineInv`, `SessionInv`). *CLIUsesChannel*: every step
is a step of the channel or leaves it alone, so `ChannelInv` comes for free
(*ConnectionResults*). `RunParsesHelp` is about what `Run` has read: everything but the
last word is a prefix that waited for more (`ReadInv`), and the lines of the help
text are exactly the ways to go on (`HelpLines`). `CommandTellsTruth` follows from
`TruthUntilError` for call 1, since a command makes one call (`SessionInv`).

**RPCCodec** (`CodecInv`: the types, `Exact` and `AnswersFit`, which are inductive
together: the name in a status is one that `Connect` has cut to a byte). The work is in
the lemmas about messages. `ReadBack`: if writes follow each other without an overlap
(`Tiled`), each of them is read back. `StringArrives`, `UserDataArrives`, `StatusArrives`: if
a message can be sent at all, then no size in it was cut or negative, its writes are
tiled and covered by its size, and so all of it arrives. `StatusFits`, `ErrorFits`: up to
`NameLimit` it can be sent; a refusal is at most 53 bytes longer than the name
(`PidDigits`).

**BootloaderScripts** (`ScriptsInv`: the types, `StateInv`, `FlashInv`). `FlashInv` is the flash protocol: as long as no unchecked answer was
late, script and board keep in step, i.e. the next line read answers the last command
sent, and before page k the first k pages are in the chip (`Written`). The page
arithmetic is proved on the way: `curr_offset[i]` is `i * (PageSize - 1)` (`Offset`, by
the least counterexample, for which the library's well-founded minimum is enough),
from which each byte of a page is the byte of the file (`WordAt`, `StoredPage`). `StateInv`
adds to `StatusTrue` that in Boot no command is under way that could make the board
leave its bootloader, and that start has found both boards when it is behind its search.

**DaemonLaunch** (`DaemonInv`). `CommandInv`, `PipeInv` and `EndInv` say how a command,
its server process and the pipe between them go together; `VerdictOfLaunch` follows.
`PortInv` is `PortOwner` without cardinalities. `RaceHasWinner` is about the end of a
race; `RaceInv` is its version for every moment: while only launches are about, if
somebody has lost, then somebody has the port or had it, is still on the way to it
or broke for a reason of its own.

The proofs changed the models in three places. Two `CASE`s had overlapping arms
(`FirmwareReturns` of `HandlerImpl`, `Ends` of `BootloaderScripts`), whose value TLA+
leaves open and TLC happens to choose as meant; they are exclusive now. In `RPCCodec`
a cell that is not sent arrives as `Garbage` instead of not at all, which says the same
of every read, and the digits of a pid are counted with a table of powers of ten.

Left to TLC: all liveness (`RoutineEnds`, `AdmittedRequestEnds`, `EndedHandlerReaped`,
`CancelledHandlerEnds`, `ShutdownWithClients`, `CallReturns`, `SessionEnds`,
`LaunchReturns`, `ConnectEnds`, `ScriptEnds`), which is outside of the prover's reach.

## Not modelled

* The text form of the scripts' commands, pin numbers and timings; what the boards do
  beyond answering.
* What is printed and logged, but for the token that a syntax error marks;
  environment variables; `CLIMain`'s exit status, which is always 0.
* `FillStringFromFd` for more than one chunk: find prints one device path.
* `DaemonTools`' error texts of more than 257 bytes, where `memcpy` is out of bounds.
* `CheckFile`, `ShutdownRoutine`, `SetSigMask` and other declarations without a caller.
* Mocks and build checks: nothing in them changes state.
* What a compiler may do with the unsynchronised `DoShutdown`; the models read and
  write it as one value. The null pointer that `Shutdown`, `Ping` and `DebugBlock`
  return is dereferenced, but no member is read.
* A holder that dies: no code gives the port back, so there is no step to model.

## Plan

Done: the inventory; all modules; proofs of every invariant, action property and
refinement.

Next, in this order:

1. The safety half of the liveness results, as theorems: that a thread or process in
   a waiting place has somebody to wake it (for `EndedHandlerReaped`, that a cleanup
   thread asleep with work in `Joinables` has a notification under way; for
   `CallReturns`, that a waiting call has a request or an answer under way or a daemon
   that is gone).
2. `FirmwareFSM`'s results carried over to the handlers one by one, as the refinement
   is already (`StatusLifecycle`): `HandlerSpec` implies each of them.
