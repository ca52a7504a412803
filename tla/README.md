# A verification project for WarheadFix

WarheadFix is a small FIX 5.0 server: a listening socket, a pool of network
threads built on Boost.Asio, and one session per client that reads FIX messages
and checks logons and orders.  This directory holds TLA+ models of it, the TLC
configurations that check them on small instances, and TLAPS proofs of the
properties that matter most for every instance.  Paths below are relative to
the repository.

## The system

| Part | State | Operations | Talks to |
| --- | --- | --- | --- |
| `Socket<T>` (`src/shared/Network/Socket.h`) | write queue, `_isWritingAsync`, `_closing`, `_closed`, read buffer, outstanding reads and writes | `AsyncRead`, `QueuePacket`, `Update`, `HandleQueue`, `CloseSocket`, `DelayedCloseSocket`, completion handlers | kernel and peer; its network thread |
| `NetworkThread<T>` (`src/shared/Network/NetworkThread.h`) | `_newSockets` under a lock, `_sockets`, the atomic `_connections`, `_stopped`, the timer, the `std::thread` | `Start`, `AddSocket`, `Stop`, `Wait`, destructor; `Run`, `Update`, `AddNewSockets` on the thread | sessions; the manager |
| `SocketMgr`, `AuthSocketMgr`, `AsyncAcceptor` (`src/shared/Network`, `src/app/Server`) | `_threads`, one `_acceptSocket` per thread, the armed accept, `_closed` | `StartNetwork`, accept handler, `SelectThreadWithMinConnections`, `OnSocketOpen`, `StopNetwork` | network threads; clients; `main` |
| `AuthSession` (`src/app/Server/AuthSession.cpp`) with `FixMessage` | `_status`, the read buffer it inherits | `ReadHandler`, `HandleLogonMessage`, `HandleNewOrderSingleMessage`, `SendPacket` | `Socket` |
| queues (`src/common/Threading`) | lock-free and locked queues | enqueue, dequeue, wait, cancel | not used by the server at this commit |
| `Config`, `main` (`src/common/Configuration`, `src/app/Main.cpp`) | the merged options | `LoadInitial`, `LoadAdditionalFile`, `LoadAppConfigs`, `GetOption` | `Log`, the network |
| `Log` (`src/common/Logging`) | sinks waiting for a logger, loggers, the lowest level | `LoadFromConfig`, `ShouldLog` | everything |
| `MessageBuffer`, `ByteBuffer` (`src/common/Utilities`, `src/shared/Packets`) | storage, read and write position | write, read, normalise, grow, move; append, read, resize | sockets and sessions |
| `Timer`, `Tokenize`, `StringConvert` (`src/common/Utilities`) | counters; none | timers, time texts, local time; splitting; conversion | `Log` and `Config`; the timers are not used by the server at this commit |
| crash reports (`src/common/Debugging`) | `alreadyCrashed` under a lock, the report file, the symbols dumped so far, the stack of details | `Assert`, `Fatal`, `Error`, `Abort`; the exception filter, the walk over all stacks, `DumpTypeIndex` | the operating system; all threads of the process |
| Git revision, Asio aliases | none | - | - |

What is hard: a session is constructed by the main thread but all its handlers
run on a network thread, and the first of them may run before the session is in
any container; the delayed close is a flag set from anywhere; writes are partial
and fail at any byte; the network threads are stopped while they may be anywhere
in `Update`; the accept handler has many ways out, all of which must arm the next
accept; and TCP does not deliver messages but bytes, while `ReadHandler` takes
each read for one message.  A crash report is written while the other threads
go on, change the memory it reads and crash themselves.  `PROJECT.json` lists these hazards at their lines.

## The modules

`Session` is the abstract specification of a session as its network thread sees
it: open, perhaps closing, closed, never back; one read at most, armed or being
handled, and only its handler starts the next one, while the session is open.
`Socket` and `AuthSession` are each shown to implement it, and the sessions that
`NetworkThread` handles behave so, so the three can be reasoned about
separately.

`Socket` models one `Socket<T>`.  `UseIOCP` selects the build.  A packet is a
size and a read position; a byte is a pair of packet and position, and the
history `wire` is what the kernel took.  `HandleQueue` runs on one thread, so it
is cut into steps only where the store of `DelayedCloseSocket` can fall between
them: before the write, and between the pop and the test of `_closing`.  A read
is two steps, its completion and `ReadHandler`, for the same reason: the flag may
be set before `AsyncRead` asks for it.  What a subclass does in `ReadHandler` is
left open (close, give up reading, read on, answer first).  The
kernel has a send buffer of `SndBuf` bytes and may take fewer bytes than there
is room for; a write on a shut-down or reset connection fails, and with
`TransientErrors` a write may fail on a healthy one too (`ENOBUFS`, for example).
`closed` and `shut` are set together: `CloseSocket` shuts the sending side down
the first time and does nothing after that.  `held` says whether the network
thread's containers still have the session; the references that keep it are
`held`, the outstanding operations and a handler in progress.

`NetworkThread` models any number of threads, each with its io_context, and an
owner that starts, feeds and stops them.  Each critical section and each turn of
a loop is a step.  `remove_if` is modelled as erasing in place; nobody else
looks at `_sockets` meanwhile.  Sessions are reduced to the state of `Session`.

`Server` puts a whole `Socket` in the place of such a session: it instantiates
`NetworkThread` and `Socket` (of the reactor build) over one set of variables, maps the socket's flags to
the state that the thread sees and the thread's containers to the `held` that the
socket sees, and makes each action of the one happen only where the other lets
it: handlers of the socket when the thread dispatches, `Socket::Update` when the
cursor of `NetworkThread::Update` has come to it, with all the steps of
`HandleQueue` inside that one turn.  `stop()` may fall between any two of these
steps; a handler that has begun is then still finished.

`SocketMgr` composes `NetworkThread` (through `INSTANCE`) with the main thread:
`StartNetwork`, the chain of accepts, and `StopNetwork`.  The loop of
`SelectThreadWithMinConnections` loads two counters for each comparison, in
either order; each load is a step (`LoadCount`, `SelectThread`), and the threads
change the counters in between.  An exception in the accept handler is a step of its own for each
place that can throw.  At this commit nothing in the program stops the
io_context of `main`, and `AuthSocketMgr::CreateThreads` always allocates one
thread; the model keeps `StopNetwork` and any `ThreadCount`, which is what the
class offers.

`AuthSession` models one session and its client.  A message is a row of cells:
two for the "8=" that nothing looks at, `ProtocolCells` for the seven bytes
"FIX.5.0", BodyLength, MsgType, and the body with the CheckSum last.  A read
delivers any number of cells into a buffer whose old contents stay.  The protocol
check of `ReadHandler` compares bytes 2 to 8 of the buffer (`SupportedProtocol`),
and `message_reader::init` of `hffix` starts behind them, so a read of one or two
bytes leaves the protocol string, and with it the whole message, of an earlier
read in place: it is handled again.  What the reader decides from the cells is
`Commands`: it goes by BodyLength to the place where the CheckSum should end, and
when a byte of another message is there the outcome is left open.  A message put
together from two may be accepted or refused.  When a write fails in the IOCP
build (`UseIOCP`), `WriteHandler` closes the session while a read is armed; that
read is still handled, and is the last.  Clients are taken to send well-formed
ASCII FIX messages; nobody calls `DelayedCloseSocket` on these sessions at this
commit.

`LogonAnswer` is the other half of `HandleLogonMessage`: the bytes it queues.
The `ByteBuffer` starts as a copy of the whole read buffer, `resize` moves the
write position behind it, and what follows the two messages in the local array
up to the first zero is whatever the stack holds.

`MPSCQueueNonIntrusive` and `MPSCQueueIntrusive` model the lock-free queues one
atomic access per step; `Fifo` is what they promise and `ImplementsFifo` (in
`MCQueues`) that they keep it.  The allocator gives a deleted node's address out again at once,
and elements of the intrusive queue are enqueued again as soon as they are out.
Memory is sequentially consistent in the model: the release and acquire orders
in the code are what makes each pointer's target visible, and no argument here
is about weaker ones.  `ProducerConsumerQueue` has each critical section as a
step, with spurious wake-ups and waiters that are overtaken; `LockedQueue` has
the lock that `peek` takes and only `unlock` or `pop_front` gives back.

`Config` reads the two files line by line into a temporary map and adds its
entries in any order, as an `unordered_map` is iterated; a file may be missing,
break off or hold nothing.  `LoadInitial` clears the options before it reads, so
one that fails leaves none; `LoadAdditionalFile` does not.  `Main` extends it with the steps of `main()` up to
`StartNetwork`.
`Log` makes the sinks and loggers of a configuration in any
order, twice, and answers `ShouldLog` for message types that have prefixes; the
sinks that a logger lists are a set, since their order decides nothing.  That
`LoadFromConfig` raises `lowestLogLevel` and that it drops the loggers are two
steps: a message that another thread logs between them is judged by the old
loggers and the new level.

`MessageBuffer` has two buffers of cells with a history of what was written;
`ByteBuffer` has bytes of a small base, so that packed GUIDs and wide numbers
have carries to get wrong.  Its positions go wherever the caller sets them, also
behind the end, up to `MaxSize`: positions near the range of `size_t`, where the
sums in the code wrap, are left out.  `Timer` has a clock of a few ticks per wrap,
ticks of any length below its range, and the trackers and timers that count it; a
tick from half the range on is a negative int32 to two of them.
`TimeString`, `Tokenize` and `StringConvert` run one algorithm on every input of
a bounded set and compare with a definition of the result; `LocalTime` lets a
clock run while fields are read, of a given time or of time 0, which stands for
now, in zones that change their offset, and has the packed times of `ByteBuffer`,
which are local times without their offset.

`SymbolDump` models the recursive `DumpTypeIndex` of the crash report with an
explicit stack of activations, one step from each call to the next.  The types
are a constant (`Info`): what `SymGetTypeInfo` answers of each.  Every pointer is
read as any of a few addresses, each time anew, because the other threads are not
suspended.  Of a detail only whether it has a value or children, and whether it
was printed, is kept; of `FormatOutputValue` only that it makes a value.  Two
variables the code reads uninitialised, the number of elements of an array
without a known one and the data kind of a child that is no data, are choices.
`CrashReport` extends it with the process around it: threads that crash at once or
after the ten seconds of `Fatal` and `Error`, the filter under its lock, two passes
over the stacks of all threads, and the exceptions that the two `__try` blocks
catch.  It is the Windows build; elsewhere a crash ends the process at once.

The modules `*_proofs` hold the proofs, each about the modules it extends; see
below.  `MCLog` and
`MCCrashReport` give values to constants for TLC.  `MCQueues` and `MCUtilities` check several
components that share nothing in one run: the initial state selects the
component, only its actions are enabled from then on, and its variables are
instantiated by `v1`, `v2`, ... or `u1`, `u2`, ..., which all components of the
module share.  The bounds of the components proved about are constants of
`MCUtilities`, which `Utilities.cfg` gives values; those of the four others are fixed
where they are instantiated.  `Main` extends `Config` and serves for both.
Their properties (`LockedInOrder`, `UnreadKept`, ...) say which definitions of
the component's own module they ask for.  Operators introduced by a comment
"Mutant of ..." are wrong versions of a definition, kept to show that the
properties notice them; `PROJECT.json` says which property notices which.

## The runs

| Run | Bounds | Shows |
| --- | --- | --- |
| `SocketReactor` | 3 packets of 0 or 3 bytes, send buffer of 3 | the stream is in order and no packet is popped half sent unless its write failed, nothing vanishes, no write after close, no lost wake-up, delayed close with packets queued, refinement of `Session` |
| `SocketIOCP` | the same | the overlapped build: in-order stream, one write at a time with a packet behind it, no lost wake-up |
| `SocketDelayedClose` | 1 packet of 1 byte | violation: `DelayedCloseSocket` on an empty queue is never honoured |
| `NetworkThread` | 1 thread, 3 sessions | exact counter, no open session lost, removal of closed sessions, nothing left that uses a destroyed io_context, for every moment at which sessions close |
| `SocketMgr` | 2 threads, 2 clients | a stale choice of thread, made from counters loaded one by one, never overloads one, clients get in after every kind of failure, `StopNetwork` ends |
| `Server` | 1 thread with 1 session, 2 packets of 2 bytes, send buffer of 2 | the composition refines `NetworkThread`: none of the socket's steps does to the session what the thread does not expect; what is queued is written although the thread decides when; a session that is done is released by the thread, the io_context and the owner |
| `AuthSession` | 4 messages, a protocol string of 1 cell, buffer of 8 cells, IOCP build (the other one never takes the step that closes) | authentication only by a whole first Logon; a read that brings a header hands on its message and that once; a message is passed over only behind another in a read or when a read cuts its header; refinement of `Session` |
| `LogonAnswerPrefix` | read buffer of 3 cells | violation: the answer begins with the client's own bytes |
| `Queues` | 3 producers, 3 items, 4 nodes, 4 enqueues; 4 items in the locked and the blocking queue, 3 consumers | first in, first out; no use of a deleted node or of an element handed over; nothing left behind; what `peek` saw stays the front and `readd` keeps the order; no lost wake-up, only what was pushed after `Cancel` is stranded, `Cancel` releases everybody |
| `Utilities` | see `MCUtilities` | the layers of the two configuration files; a failed `LoadAdditionalFile` changes nothing, a failed `LoadInitial` leaves nothing (2 options, 4 values, 2 lines); a server that starts listens where the files say, else at `main`'s default (values: no number, 0, a port, too large); the most specific logger judges, but for one moment of a reload, and no sink is lost (3 loggers, 2 sinks, 2 loads); exactly the unread bytes are kept (2 buffers of up to 3 cells); what was written is read back and no read moves behind the end (base 4, 4 bytes); no timer drifts and trackers pass at their time (a clock of 3 bits over 3 wraps, ticks of up to 7); durations are never overstated (a 10-bit word, 6 units, 3 formats); the next local hour, fields read while the clock runs, and packed times (days of 3 hours of 4 ticks, 3 offsets, a change at any moment); tokens join back (all strings up to 6 characters); only whole numerals in range are accepted (all texts up to 4 characters, 8-bit types) |
| `CrashReport` | 2 threads, 1 frame with 6 symbols, nesting limit 4, arrays of 3 elements, 3 addresses | the process never ends with half a report however many threads crash, and it does end; the depth of the dump is bounded whatever pointers hold; a line is written before those of its parts |
| `LogSharedSink` | 3 loggers, 2 sinks | violation: a sink that two loggers list is linked to one of them |

Why the bounds are enough.  Packets of 3 bytes with a buffer of 3 give one or
two partial writes, would_block and whole writes; three packets let one be sent, one be
dropped in the middle and one follow.  A network thread treats other threads'
sessions not at all, so one thread is enough for it, and three sessions let one
be adopted, one wait and one close at the same time.  Two clients suffice for an
accept after each failure, and for one to be given to a thread by counters read
before the other was counted.  A buffer of 8 cells holds a Logon of 6 and the
header of the next message, in whole or in part, and is shorter than a "long"
one; four messages let reads that are too short follow accepted messages and be
followed by more.  One cell for the protocol string is enough to tell a version,
and whether a read ends before it or behind it; the proofs are for any number.

Three producers let two stall inside `Enqueue` while a third finishes; two
loads of the log let loggers be made twice, and be dropped late; a word of ten bits with radixes of 2
and 3 gives every pattern of zero parts and runs over.

In `Server` two packets let the second be queued while the first waits for room
in the send buffer, and one session is what a socket sees of its thread.  In
`CrashReport` the program of `MCCrashReport` has each kind of type the switch of
`DumpTypeIndex` tells apart, a class that points to itself through a base of a
base, and arrays of arrays and of pointers; with a nesting limit of 4 the limit is
reached inside it.  Each frame is treated alike, so one is enough.

Deadlock checking is off, since all these systems may rightly stop: a socket
whose peer is gone, a stopped server, a session that no longer reads, a program
that has started or given up, algorithms that end, bounded histories that are
used up.  That nothing stops too early is what the liveness properties say.

### Fairness

A handler that has begun ends, so the steps inside one are weakly fair.  What
waits to be dispatched, the completions and the 1 ms timer that calls `Update`
for ever, is strongly fair in `Socket`: a ready handler keeps its place in the
io_context's first-in first-out queue while another runs.
That the peer goes on reading is assumed for `PacketsFlushed` and
`DrainThenClose`, which are false without it.  The main thread finishes the call
it is in, and an armed accept gets a waiting client eventually if accepts are
armed again and again.  `Server` takes its fairness from the two modules: the
thread ends what it has begun, completions and the timer get their turn.  In
`CrashReport` a thread that has crashed goes on, and gets the lock when it is free;
no thread has to crash.  In `ProducerConsumerQueue` a woken waiter gets the lock;
nobody has to push or cancel.  No client has to send, close or arrive, and nobody
has to call `Stop` or `DelayedCloseSocket`.

### Disagreements with comments and documents

* `Socket.h:131` says of `DelayedCloseSocket` "Marks the socket for closing after
  write buffer becomes empty".  When the buffer is empty already, `Update` enters
  `HandleQueue`, which returns at its first line, on every tick and for ever;
  only a failing read closes the socket.  Run `SocketDelayedClose` shows it under
  `FairSpec`.
* `FixMessage.cpp:167` and `:221` say that the Logon message and after it the New
  Order message are put in the buffer; they end up behind 4096 bytes of the
  client's read buffer (`LogonAnswerPrefix`).
* The configuration file says that a logger's channels are linked to it; a sink
  that two loggers list is linked to one only (`LogSharedSink`).

Met while modelling, and without a run of their own:

* `Main.cpp:68` gives the allowed range of ports as 1 to 65535, but 0 is accepted;
  and the default is 5001 (`Main.cpp:65`), where `WarheadFix.conf.dist:32` says
  3724.  `PortAsConfigured` states the code's range and default.
* `hffix.hpp:2476` says that the first field of a valid message is BeginString;
  `init()` does not look at it, and `ReadHandler` at bytes 2 to 8 only.  A read
  of a byte or two after an accepted message has that message handled again
  (a second NewOrderSingle accepted, a second Logon refused).  `AcceptedOnce` is
  therefore about the reads that bring a header.
* A `LoadInitial` that fails has cleared the options of before (`Config.cpp:205`).
* Between `Log.cpp:87` and `:89` of a reload the loggers of the last load are silent
  below Critical; `MessagesJudged` excepts this moment.
* An empty Option2 of a file sink, for which the configuration file gives a
  default, ends the process in `StringTo<bool>`.
* `EnsureFreeSpace` of `MessageBuffer.h:83` gives no free space to a full buffer of
  no byte or one.
* `Timer.h:27` shows texts of five parts, and `ToTimeString` stops after three; and
  a numeric text does not tell 1 h 5 s from 1 min 5 ms: both are `1:05`.
* `GetLocalHourTimestamp` is off by the change where the offset changes between the
  time asked about and the hour, and with time 0 compares with 0 and not with now.
  The getters, with time 0, read the clock once for each field.

## The proofs

`NetworkThread_proofs`, from `ThreadAssumption` (`Threads` is not empty) alone,
for any sets of threads and sessions:

* `TypeCorrect`: `TypeOK` is inductive as it is.  It and `NoEarlyExit` are proved
  only; the runs spend their time on what is not.
* `CounterCorrect`: `CounterExact` needs to know that a thread is inside `Update`
  only while it runs and that the loop of `AddNewSockets` stops at the end of the
  vector (`CounterInv`).  `CounterShift` does the arithmetic once: whatever a
  step adds to the counter it adds to the vectors, less what the cursor moves.
* `NoEarlyExitCorrect`: a running thread has its timer armed or is stopped
  (`ExitInv`).
* `OpenTrackedCorrect`: sessions are in the containers of their own thread only,
  and the open sessions that `AddNewSockets` has been over are in `_sockets`
  (`TrackInv`), so that clearing `_newSockets` loses none.
* `ReleaseCorrect`: once stopped, no session of the thread is in the owner's
  hands, so cleared containers stay empty (`ReleaseInv`).

`SocketMgr_proofs`, from `MgrAssumption` (there is a thread) alone, for any number
of threads and clients, also infinitely many:

* `BalancedCorrect` (`MgrInv`): a counter is at most the number of sessions ever
  added to its thread (`Counted`), and every thread that the loop has looked at
  has had as many sessions as the chosen one has now (`Scanned`, and `Chosen` once
  the accept is armed), and those of the thread loaded first stand for as many as
  were loaded (`Loaded`); counters fall meanwhile, but what a thread has had does
  not.  So when a session is added to a thread with v of them, all threads have had
  v, which are v times `ThreadCount` different ones (lemma `Shares`).
* `ThreadsCorrect`: the server is a refinement of `NetworkThread`, its main thread
  being one of the owners that module allows; `SessionsCorrect` carries the
  theorems of `NetworkThread_proofs` over to the server, through an `INSTANCE`.

`Socket_proofs`, from `SocketAssumption` (sizes are natural numbers, the send
buffer is not empty) alone, for both builds, any packets and any buffer:

* `TypeCorrect` and `SingleWriteCorrect` are proved together (`SocketInv`): the
  completion handler of the IOCP build uses the front of the queue, which is a
  packet only because a write is outstanding only for one.  `LoopAlone` says that
  `HandleQueue` runs only while no write is outstanding, so that arming one makes
  it the only one.
* `QuietCorrect`: a closed socket has its sending side shut down (`ClosedShut`),
  so no write of a late handler is taken.
* `SessionCorrect`: every step of the socket is a step of `Session` or a stutter;
  `OneRead` (the read being handled is not outstanding) makes the mapping exact.
* `StreamCorrect` and `NothingVanishesCorrect` (`StreamInv`): the queue holds the
  youngest packets with their sizes, and all but its front are unread
  (`QueueShape`); every byte on the wire is of a packet that was queued
  (`WireIds`); and the end of the wire is where the front packet's read position
  says (`WireEnd`).  Neither property says where the wire ends, so neither is
  inductive.  `StreamTaken`, `StreamAdvanced` and `StreamPopped` are the three
  things a write can do to the stream, each proved once for both builds.

`AuthSession_proofs`, from `AuthAssumption` (a protocol string of one cell at
least, and a read buffer that holds a message with a body), for both builds, any
messages and any cuts:

* `TypeCorrect`, `AuthedCorrect`, `OnceCorrect` and `LossCorrect` share `AuthInv`.
  It says that the cells of the last read followed by those not yet read are an
  uncut piece of what the client sent (`Run`), that stale cells behind them are of
  earlier messages (`Stale`), what the session has met before its next header is
  handled (`Reading`), and what the handlers were given (`AcceptedCells`).  A relation
  between adjacent cells would be enough for TLC; it is stated for all pairs of
  cells, because going from the one to the other is an induction.
* `SessionCorrect`: the refinement of `Session`.  A closed session may still have a
  read armed, in the IOCP build; the handler of it ends without another one
  (`HandlerEnds`).

`Common_proofs` holds the proofs about the crash report and about the queues.
The crash report, from `InfoAssumption` (what `SymGetTypeInfo` may answer, and
a limit of two levels at least) and `CrashAssumption` (threads are finitely many), for any number of threads, any types and
any memory:

* `ReportCorrect`: one thread at most is in the filter, and only there is the file
  open (`ReportInv`).
* `NestingCorrect` and `ParentsCorrect` (`DumpInv`): the number of details is the
  number of activations on the stack that have pushed one, plus one (`Level`); an
  activation that shows an array has marked its line as one with children
  (`ArrayOpen`), so that the line is printed before an element is pushed; and a
  class reached through a pointer or a member was opened below the limit
  (`ClassOpen`).  `NestingBounded` says that no class is
  opened at the limit and that details are deeper only by what belongs to the
  class opened last; with debug information that nests classes in classes a
  bound on the details alone would be false, since the limit is tested where a
  pointer or a member is followed and not for nested classes.

`MPSCQueueNonIntrusive_proofs` and `MPSCQueueIntrusive_proofs`, from the
assumption that the null pointer is no node (and that the dummy is no item and
the consumer no producer), for any number of producers, items, nodes and calls.
What makes these queues hard is that the list is not in memory: while a producer
is between its exchange and its store, the list is broken at that place.  The
invariant (`Inv`) therefore says that there *is* a sequence c of different nodes
from `_tail` to `_head`, that each but the last leads to the next or some producer
is about to link exactly the two (`Linked`, `Linking`), that what a producer has
not exchanged yet is in no list (`Private`), and that the items on c are those
enqueued and not yet dequeued, in the order of the exchanges (`Contents`).  In the
non-intrusive queue `Memory` adds that the allocated nodes are those on c and the
private ones, and one the consumer has still to delete; in the intrusive queue k
is the dummy's place on c, or 0.  Each step gives the next sequence: the exchange
appends, moving `_tail` drops the first, everything else leaves c alone.  The
modules prove that the invariant holds at the start and after every step, that it
implies the safety of the queue, and that the steps are those of `Fifo`.

`Common_proofs` brings them together, from `QueuesAssumption`, through `INSTANCE`s
of these two modules, with the two other queues:

* `NothingStaleCorrect`: `NothingStaleOrLeft`, and `FifoCorrect`: `ImplementsFifo`.
* `LockedCorrect`: what waits to be readded is older than all in the queue, and
  each is ascending (`LockedOrder`).
* `WakeUpCorrect`: while somebody sleeps there are as many woken waiters as items,
  and nobody has cancelled (`Woken`).

`Composed_proofs`, about `Server` and `MCUtilities`.

`ServerCorrect`, for any packets, any send buffer and with or without transient
errors: a thread with a whole socket in it is the thread of `NetworkThread` with a
session.  The step of the refinement (`ServerRefines`) needs to know that a handler
of the socket runs only while the thread is dispatching, that `HandleQueue` called
by `Update` finds the cursor still at the socket and the socket still open, whatever
came between its steps (`Inside`), and that nobody holds a session before it is
constructed (`Unopened`); together `ServerInv`.  The socket steps that change what
the thread sees are few: `HandleQueue` when it closes, which is `UpdateOne` or
`WriteHandler`, depending on its caller; the read handler; a failed read;
`DelayedCloseSocket` of an open session.  All others stutter.  With it the theorems of
`NetworkThread_proofs`, which hold for any threads and sessions, hold for
`Server` with one of each.

The sequential components, from `UtilitiesAssumption`, which collects the
assumptions of their modules, each with an invariant of its own (`UtilitiesInv`
selects the one of the component that runs):

* `ConfigCorrect` (`ConfigInv`): while a file is read the temporary map holds exactly
  the entries read so far and no option has changed, since `LoadInitial` cleared them or
  at all (`Reading`); then the options
  have changed by exactly the keys no longer waiting (`Adding`), so that the order in
  which a map gives them out does not show; and `LoadAppConfigs` reads the second
  file over the whole first one (`AppLoad`).  Of entries with one name the first
  counts, in the map and in `ValueIn`.
* `PortCorrect` (`MainInv`): the same, along the steps of `main`, which goes on only
  after a load that succeeded and converts the port that it left; `PortRange` keeps it
  in 0 to 65535.
* `LoggersCorrect` and `SinksCorrect` (`LogInv`): no logger is below
  `lowestLogLevel`, unless the loggers are about to be dropped (`Lowest`), a sink is in `_sinkList` until a logger that names it
  takes it (`SinksWait`, `SinksGiven`).  That `GetLoggerByType`, which is recursive, finds the longest
  prefix needs an induction over the length of types.  It is done by a
  smallest counterexample (`LeastNat`, from the well-foundedness of `<`), twice: to
  show that an answer exists for every type (`AnswerExists`), so that the recursive
  equation has a solution (`SearchSolved`), and that any solution gives it
  (`Searched`).
* `BuffersCorrect` (`BufferInv`): the positions are in order and inside the storage, and
  the history of unread bytes is what is between them (`Fits`); each operation is a
  lemma about one buffer.
* `TimersCorrect`, for the timers (`TimerInv`): the elapsed time is the real time less
  the number of wraps.  From `TimerAssumption` ticks are shorter than the range of
  the clock and periods shorter than half of it; an `IntervalTimer` and a
  `TimeTracker` are exact for all of these, the two that count in int32 as long as
  no tick was half the range or longer (`TrackersRun`, `PeriodicRuns`).  For the
  local time (`LocalInv`): what was found is of the moment asked about (`Moments`,
  `Asks`), each field is of some moment since the first was read (`FieldsRead`), and
  a moment is its day, hour and rest, in one way only (`MomentFacts`), from which the
  next hour, the fields and the packed time are computed.  `DivMod`, `DivUnique` and
  `DivModTwice` are the arithmetic.

TLC has checked `ServerInv` and `UtilitiesInv` as invariants on the instances of the
runs before they were proved, the latter but for `FieldsRead`, which quantifies over
all integers.

Out of the prover's reach, and left to TLC: liveness under fairness
(`PacketsFlushed`, `DrainThenClose`, `ClosedRemoved`, `ClientAccepted`, `StopEnds`,
`AnswersFlushed`, `SessionReleased`, `CancelReleases`, `CrashEnds`), and the two
invariants that rest on what folds and sorting compute for every input, which is
an induction over data: `BytesComeBack` (the mark of a packed GUID is a sum of
powers over a sorted sequence) and `TextExact` (tokens, numerals and parts of a
duration are folds).

## Not modelled, and the plan

Modelled: the network core with its proofs and its composition, the queues,
`Config` and the start of `main`, `Log`, the two buffers, the timers, the text
algorithms, and the crash report.  Every safety property of the passing runs is proved, but
for the two named above.

Not modelled, and why:

* the system calls of `AsyncAcceptor::Bind`, one after the other: each failure
  has the same outcome, which `SocketMgr` has as one step;
* the reading and writing of single FIX fields in `FixMessage`, which `hffix`
  does; the model decides by whole messages;
* packed coordinates, floats and the printing of `ByteBuffer`, conversions of bool
  and of floating point, trimming and formatting: stateless, and a test of each
  input class decides them;
* in the crash report, what it says of the machine and of modules, the text of
  values, and exceptions raised outside the two `__try` blocks, which the system
  does not bring before the filter again; that `main` returns while a report is
  being written, which ends the process from outside;
* `StopWatch` and `ByteConverter`, one expression each, the Git revision and the
  Asio aliases, which have no state or no decisions.
