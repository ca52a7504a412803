------------------------------- MODULE Socket -------------------------------
(***************************************************************************)
(* One Socket<T> (shared/Network/Socket.h): its write queue, its two ways  *)
(* of closing, the asynchronous operations it has outstanding, and the     *)
(* part of the kernel and of the peer that decides how they complete.      *)
(*                                                                         *)
(* All handlers of a socket run on the one network thread whose io_context *)
(* owns it; only DelayedCloseSocket, an atomic store, may come from        *)
(* elsewhere.  HandleQueue is therefore cut where that store matters:      *)
(* between popping the front packet and reading _closing.  A read handler  *)
(* may find the flag set although the read was started without it.         *)
(*                                                                         *)
(* UseIOCP selects the build: the readiness-based write path (FALSE) or    *)
(* the overlapped one of WH_SOCKET_USE_IOCP (TRUE).                        *)
(***************************************************************************)
EXTENDS Integers, Sequences, FiniteSets

CONSTANTS
    UseIOCP,         \* BOOLEAN: is WH_SOCKET_USE_IOCP defined?
    MaxPackets,      \* bound: packets queued over the socket's life
    PacketSizes,     \* the sizes, in bytes, of the packets that get queued
    SndBuf,          \* bytes the kernel's send buffer holds
    TransientErrors  \* BOOLEAN: may a write fail on a healthy connection?

ASSUME SocketAssumption ==
    /\ UseIOCP \in BOOLEAN
    /\ MaxPackets \in Nat
    /\ PacketSizes \subseteq Nat
    /\ SndBuf \in Nat \ {0}
    /\ TransientErrors \in BOOLEAN

VARIABLES
    writeQueue,      \* _writeQueue: the packets, each with its read position
    isWritingAsync,  \* _isWritingAsync
    closing,         \* _closing
    closed,          \* _closed
    readOp,          \* an async_read_some is outstanding
    writeOp,         \* number of async_write_some outstanding
    pc,              \* where the network thread is inside a handler
    caller,          \* who called HandleQueue
    held,            \* is the session in the network thread's containers?
    shut,            \* the sending side of _socket is shut down
    room,            \* free bytes of the kernel's send buffer
    peer,            \* "open", "fin" (it closed its side), "reset"
    sizes,           \* history: the size of each packet, in queueing order
    wire,            \* history: the bytes the kernel took, in order
    lost             \* history: packets a failed write removed

code    == <<writeQueue, isWritingAsync, closing, closed, readOp, writeOp,
             pc, caller, held>>
kernel  == <<shut, room, peer>>
history == <<sizes, wire, lost>>
vars    == <<code, kernel, history>>

-----------------------------------------------------------------------------
(* State                                                                   *)

PacketIds == 1 .. MaxPackets
Packet    == [id : PacketIds, size : PacketSizes, rpos : Nat]
Byte      == [id : PacketIds, at : Nat \ {0}]
Places    == {"idle", "ReadHandler", "HandleQueue", "sent", "dropped"}
Callers   == {"Update", "WriteHandlerWrapper"}

TypeOK ==
    /\ writeQueue \in Seq(Packet)
    /\ isWritingAsync \in BOOLEAN
    /\ closing \in BOOLEAN
    /\ closed \in BOOLEAN
    /\ readOp \in BOOLEAN
    /\ writeOp \in Nat
    /\ pc \in Places
    /\ caller \in Callers
    /\ held \in BOOLEAN
    /\ shut \in BOOLEAN
    /\ room \in 0 .. SndBuf
    /\ peer \in {"open", "fin", "reset"}
    /\ sizes \in Seq(PacketSizes)
    /\ Len(sizes) <= MaxPackets
    /\ wire \in Seq(Byte)
    /\ lost \in SUBSET PacketIds

\* A session that was constructed and started: Start() has armed the read.
Started ==
    /\ writeQueue = <<>>
    /\ isWritingAsync = FALSE
    /\ closing = FALSE
    /\ closed = FALSE
    /\ readOp = TRUE
    /\ writeOp = 0
    /\ pc = "idle"
    /\ caller = "Update"
    /\ shut = FALSE
    /\ room = SndBuf
    /\ peer = "open"
    /\ sizes = <<>>
    /\ wire = <<>>
    /\ lost = {}

\* A session that NetworkThread has taken over.
Init == Started /\ held = TRUE

-----------------------------------------------------------------------------
(* Helpers                                                                 *)

IsOpen == ~closed /\ ~closing

Front == Head(writeQueue)

\* GetActiveSize() of the front packet.
BytesToSend == Front.size - Front.rpos

\* The shared_ptr references that keep the session, and so its descriptor.
Referenced == held \/ readOp \/ writeOp > 0 \/ pc # "idle"

\* Writes on this connection can only fail.
Broken == shut \/ peer = "reset"

\* Mutant of CloseSocket: the sending side is not shut down.
CloseSocketNoShutdown ==
    /\ closed' = TRUE
    /\ shut' = shut

\* The effect of CloseSocket on _closed and on the connection.
CloseSocket ==
    /\ closed' = TRUE
    /\ shut' = TRUE

StayOpen == UNCHANGED <<closed, shut>>

\* The bytes the kernel takes of the front packet when it takes n of them.
Taken(n) == [k \in 1 .. n |-> [id |-> Front.id, at |-> Front.rpos + k]]

\* Mutant of Advanced: ReadCompleted is forgotten.
AdvancedNot(n) == writeQueue

\* The queue after ReadCompleted(n) on the front packet.
Advanced(n) == <<[Front EXCEPT !.rpos = @ + n]>> \o Tail(writeQueue)

\* Mutant of WouldBlock: every error is waited out.
AnyErrorWaits == BytesToSend > 0 /\ (Broken \/ room = 0)

WouldBlock == ~Broken /\ room = 0 /\ BytesToSend > 0

WriteFails == BytesToSend > 0 /\ (Broken \/ TransientErrors)

\* The kernel takes n bytes; it need not take all it has room for.
WriteTakes(n) ==
    /\ ~Broken
    /\ n \in 1 .. BytesToSend
    /\ n <= room
    /\ wire' = wire \o Taken(n)
    /\ room' = room - n

\* Mutant of AsyncProcessQueue: an outstanding write is not looked for.
AsyncProcessQueueAgain ==
    /\ isWritingAsync' = TRUE
    /\ writeOp' = writeOp + 1

\* Mutant of AsyncProcessQueue: the operation is never started.
AsyncProcessQueueFlagOnly ==
    /\ isWritingAsync' = TRUE
    /\ writeOp' = writeOp

\* AsyncProcessQueue: at most one write operation at a time.
AsyncProcessQueue ==
    /\ isWritingAsync' = TRUE
    /\ writeOp' = IF isWritingAsync THEN writeOp ELSE writeOp + 1

-----------------------------------------------------------------------------
(* The network thread: reading                                             *)

Handling == pc # "idle"

\* Mutant of AsyncRead: IsOpen() is not asked.
AsyncReadAlways == readOp' = TRUE

\* AsyncRead starts a read only on an open socket.
AsyncRead == readOp' = IsOpen

\* QueuePacket: the packet goes to the end of the queue; the IOCP build
\* starts writing at once.
QueuePacket(n) ==
    /\ Len(sizes) < MaxPackets
    /\ sizes' = Append(sizes, n)
    /\ writeQueue' = Append(writeQueue, [id |-> Len(sizes) + 1, size |-> n, rpos |-> 0])
    /\ IF UseIOCP
       THEN AsyncProcessQueue
       ELSE UNCHANGED <<isWritingAsync, writeOp>>

\* ReadHandlerInternal with an error: end of stream or a reset.
ReadError ==
    /\ readOp /\ ~Handling
    /\ peer # "open"
    /\ readOp' = FALSE
    /\ CloseSocket
    /\ UNCHANGED <<writeQueue, isWritingAsync, closing, writeOp, pc, caller,
                   held, room, peer, history>>

\* ReadHandlerInternal with bytes: it calls the subclass's ReadHandler().
ReadHandlerInternal ==
    /\ readOp /\ ~Handling
    /\ peer = "open"
    /\ readOp' = FALSE
    /\ pc' = "ReadHandler"
    /\ UNCHANGED <<writeQueue, isWritingAsync, closing, closed, writeOp, caller,
                   held, kernel, history>>

\* ReadHandler() of the subclass closes, returns without reading again, or
\* reads again, having sent an answer if the socket was open or not.
ReadHandler ==
    /\ pc = "ReadHandler"
    /\ pc' = "idle"
    /\ \/ /\ CloseSocket
          /\ UNCHANGED <<writeQueue, isWritingAsync, readOp, writeOp, sizes>>
       \/ /\ StayOpen
          /\ UNCHANGED <<writeQueue, isWritingAsync, readOp, writeOp, sizes>>
       \/ /\ AsyncRead
          /\ StayOpen
          /\ UNCHANGED <<writeQueue, isWritingAsync, writeOp, sizes>>
       \/ /\ IsOpen
          /\ \E n \in PacketSizes : QueuePacket(n)
          /\ AsyncRead
          /\ StayOpen
    /\ UNCHANGED <<closing, caller, held, room, peer, wire, lost>>

\* DelayedCloseSocket, from any thread at any moment.
DelayedCloseSocket ==
    /\ held /\ ~closing
    /\ closing' = TRUE
    /\ UNCHANGED <<writeQueue, isWritingAsync, closed, readOp, writeOp, pc,
                   caller, held, kernel, history>>

-----------------------------------------------------------------------------
(* The network thread: writing                                             *)

\* Update() of a closed socket returns false and NetworkThread erases it.
UpdateClosed ==
    /\ held /\ ~Handling /\ closed
    /\ held' = FALSE
    /\ UNCHANGED <<writeQueue, isWritingAsync, closing, closed, readOp,
                   writeOp, pc, caller, kernel, history>>

\* Update() of an open socket enters the HandleQueue loop, unless a write is
\* outstanding or there is nothing to do.  The IOCP build has no loop.
Update ==
    /\ held /\ ~Handling /\ ~closed
    /\ ~UseIOCP
    /\ ~isWritingAsync
    /\ writeQueue # <<>> \/ closing
    /\ pc' = "HandleQueue"
    /\ caller' = "Update"
    /\ UNCHANGED <<writeQueue, isWritingAsync, closing, closed, readOp,
                   writeOp, held, kernel, history>>

\* Mutant of WriteHandlerWrapper: _isWritingAsync is not reset.
WriteHandlerWrapperNoReset ==
    /\ ~UseIOCP
    /\ writeOp > 0 /\ ~Handling
    /\ room > 0 \/ Broken
    /\ writeOp' = writeOp - 1
    /\ pc' = "HandleQueue"
    /\ caller' = "WriteHandlerWrapper"
    /\ UNCHANGED <<writeQueue, isWritingAsync, closing, closed, readOp, held,
                   kernel, history>>

\* The reactor reports the connection writable, or broken.
WriteHandlerWrapper ==
    /\ ~UseIOCP
    /\ writeOp > 0 /\ ~Handling
    /\ room > 0 \/ Broken
    /\ writeOp' = writeOp - 1
    /\ isWritingAsync' = FALSE
    /\ pc' = "HandleQueue"
    /\ caller' = "WriteHandlerWrapper"
    /\ UNCHANGED <<writeQueue, closing, closed, readOp, held, kernel, history>>

\* HandleQueue, lines before the first write: nothing queued.
HandleQueueEmpty ==
    /\ pc = "HandleQueue"
    /\ writeQueue = <<>>
    /\ pc' = "idle"
    /\ UNCHANGED <<writeQueue, isWritingAsync, closing, closed, readOp,
                   writeOp, caller, held, kernel, history>>

\* write_some would block: wait for room and leave the loop.
HandleQueueBlocked ==
    /\ pc = "HandleQueue"
    /\ writeQueue # <<>>
    /\ WouldBlock
    /\ AsyncProcessQueue
    /\ pc' = "idle"
    /\ UNCHANGED <<writeQueue, closing, closed, readOp, caller, held, kernel,
                   history>>

\* write_some fails, or has nothing to write: the packet is dropped.
HandleQueueDropped ==
    /\ pc = "HandleQueue"
    /\ writeQueue # <<>>
    /\ BytesToSend = 0 \/ WriteFails
    /\ writeQueue' = Tail(writeQueue)
    /\ lost' = IF BytesToSend = 0 THEN lost ELSE lost \cup {Front.id}
    /\ pc' = "dropped"
    /\ UNCHANGED <<isWritingAsync, closing, closed, readOp, writeOp, caller,
                   held, kernel, sizes, wire>>

\* Mutant of HandleQueuePartial: the packet is popped as if it were sent.
HandleQueuePartialPops ==
    /\ pc = "HandleQueue"
    /\ writeQueue # <<>>
    /\ \E n \in 1 .. BytesToSend - 1 : WriteTakes(n)
    /\ writeQueue' = Tail(writeQueue)
    /\ pc' = "sent"
    /\ UNCHANGED <<isWritingAsync, closing, closed, readOp, writeOp, caller,
                   held, shut, peer, sizes, lost>>

\* write_some takes some of the packet: wait for room and leave the loop.
HandleQueuePartial ==
    /\ pc = "HandleQueue"
    /\ writeQueue # <<>>
    /\ \E n \in 1 .. BytesToSend - 1 :
          /\ WriteTakes(n)
          /\ writeQueue' = Advanced(n)
    /\ AsyncProcessQueue
    /\ pc' = "idle"
    /\ UNCHANGED <<closing, closed, readOp, caller, held, shut, peer, sizes,
                   lost>>

\* write_some takes all of the packet.
HandleQueueSent ==
    /\ pc = "HandleQueue"
    /\ writeQueue # <<>>
    /\ BytesToSend > 0
    /\ WriteTakes(BytesToSend)
    /\ writeQueue' = Tail(writeQueue)
    /\ pc' = "sent"
    /\ UNCHANGED <<isWritingAsync, closing, closed, readOp, writeOp, caller,
                   held, shut, peer, sizes, lost>>

\* Mutant of HandleQueuePopped: a dropped packet does not close.
HandleQueuePoppedForgets ==
    /\ pc \in {"sent", "dropped"}
    /\ IF pc = "sent" /\ closing /\ writeQueue = <<>> THEN CloseSocket ELSE StayOpen
    /\ pc' = IF pc = "sent" /\ writeQueue # <<>> /\ caller = "Update"
             THEN "HandleQueue" ELSE "idle"
    /\ UNCHANGED <<writeQueue, isWritingAsync, closing, readOp, writeOp,
                   caller, held, room, peer, history>>

\* Mutant of HandleQueuePopped: _closing is not looked at.
HandleQueuePoppedCloses ==
    /\ pc \in {"sent", "dropped"}
    /\ IF writeQueue = <<>> THEN CloseSocket ELSE StayOpen
    /\ pc' = IF pc = "sent" /\ writeQueue # <<>> /\ caller = "Update"
             THEN "HandleQueue" ELSE "idle"
    /\ UNCHANGED <<writeQueue, isWritingAsync, closing, readOp, writeOp,
                   caller, held, room, peer, history>>

\* After the pop: a delayed close is carried out if the queue is empty, and
\* the loop of Update goes round again if a sent packet left others behind.
HandleQueuePopped ==
    /\ pc \in {"sent", "dropped"}
    /\ IF closing /\ writeQueue = <<>> THEN CloseSocket ELSE StayOpen
    /\ pc' = IF pc = "sent" /\ writeQueue # <<>> /\ caller = "Update"
             THEN "HandleQueue" ELSE "idle"
    /\ UNCHANGED <<writeQueue, isWritingAsync, closing, readOp, writeOp,
                   caller, held, room, peer, history>>

\* WriteHandler's queue after n bytes: ReadCompleted, and a pop at the end.
Transferred(n) == IF n = BytesToSend THEN Tail(writeQueue) ELSE Advanced(n)

\* Mutant of WriteOn: the rest of the queue is not written.
WriteOnStops ==
    /\ isWritingAsync' = FALSE
    /\ writeOp' = writeOp - 1
    /\ IF writeQueue' = <<>> /\ closing THEN CloseSocket ELSE StayOpen

\* The end of WriteHandler: the next write, or the delayed close.
WriteOn ==
    /\ isWritingAsync' = (writeQueue' # <<>>)
    /\ writeOp' = IF writeQueue' # <<>> THEN writeOp ELSE writeOp - 1
    /\ IF writeQueue' = <<>> /\ closing THEN CloseSocket ELSE StayOpen

\* WriteHandler of the IOCP build: the overlapped write took n bytes.
WriteHandler ==
    /\ UseIOCP
    /\ writeOp > 0 /\ ~Handling
    /\ \E n \in 0 .. BytesToSend :
          /\ IF n = 0
             THEN BytesToSend = 0 /\ UNCHANGED <<wire, room>>
             ELSE WriteTakes(n)
          /\ writeQueue' = Transferred(n)
    /\ WriteOn
    /\ UNCHANGED <<closing, readOp, pc, caller, held, peer, sizes, lost>>

\* WriteHandler of the IOCP build: the overlapped write failed.
WriteHandlerError ==
    /\ UseIOCP
    /\ writeOp > 0 /\ ~Handling
    /\ WriteFails
    /\ writeOp' = writeOp - 1
    /\ CloseSocket
    /\ UNCHANGED <<writeQueue, isWritingAsync, closing, readOp, pc, caller,
                   held, room, peer, history>>

-----------------------------------------------------------------------------
(* The kernel and the peer                                                 *)

\* The peer reads: a byte of the send buffer becomes free.
PeerReads ==
    /\ peer # "reset"
    /\ room < SndBuf
    /\ room' = room + 1
    /\ UNCHANGED <<code, shut, peer, history>>

\* The peer closes its side, or the connection is reset.
PeerCloses(how) ==
    /\ \/ peer = "open" /\ how = "fin"
       \/ peer # "reset" /\ how = "reset"
    /\ peer' = how
    /\ UNCHANGED <<code, shut, room, history>>

-----------------------------------------------------------------------------

HandleQueue ==
    \/ HandleQueueEmpty
    \/ HandleQueueBlocked
    \/ HandleQueueDropped
    \/ HandleQueuePartial
    \/ HandleQueueSent
    \/ HandleQueuePopped

Next ==
    \/ ReadError
    \/ ReadHandlerInternal
    \/ ReadHandler
    \/ DelayedCloseSocket
    \/ UpdateClosed
    \/ Update
    \/ WriteHandlerWrapper
    \/ HandleQueue
    \/ WriteHandler
    \/ WriteHandlerError
    \/ PeerReads
    \/ \E how \in {"fin", "reset"} : PeerCloses(how)

Spec == Init /\ [][Next]_vars

(***************************************************************************)
(* Fairness.  A handler that has begun runs to its end.  Whatever waits to *)
(* be dispatched is strongly fair: the timer that calls Update each        *)
(* millisecond and the completions wait in the io_context's first-in       *)
(* first-out queue of ready handlers while the thread is inside another    *)
(* handler.  That the peer reads what it is sent, the one assumption on    *)
(* the other side, is needed for anything about flushing.                  *)
(* Nothing is assumed of when bytes arrive or of whether the peer closes.  *)
(***************************************************************************)
Fairness ==
    /\ SF_vars(ReadError)
    /\ WF_vars(ReadHandler)
    /\ SF_vars(UpdateClosed)
    /\ SF_vars(Update)
    /\ WF_vars(HandleQueue)
    /\ SF_vars(WriteHandlerWrapper)
    /\ SF_vars(WriteHandler \/ WriteHandlerError)
    /\ WF_vars(PeerReads)

FairSpec == Spec /\ Fairness

-----------------------------------------------------------------------------
(* Properties                                                              *)

\* The packets that have left the write queue: it is first in, first out.
Left == 1 .. Len(sizes) - Len(writeQueue)

\* Packet k contributes no further byte: a failed write removed it, or it
\* never had one.
Skipped(k) == k \in lost \/ sizes[k] = 0

\* HandleQueue keeps the stream in order across partial writes, waits and
\* drops: each byte on the wire continues the packet of the byte before it,
\* or is the first byte of a later packet, where the packet before it is
\* complete or was dropped by a failed write and every packet in between was
\* dropped or empty.
StreamIntact ==
    \A j \in 1 .. Len(wire) :
        LET b    == wire[j]
            prev == IF j = 1 THEN 0 ELSE wire[j - 1].id
        IN  \/ /\ prev = b.id
               /\ b.at = wire[j - 1].at + 1
            \/ /\ prev < b.id
               /\ b.at = 1
               /\ j = 1 \/ prev \in lost \/ wire[j - 1].at = sizes[prev]
               /\ \A k \in prev + 1 .. b.id - 1 : Skipped(k)

\* A packet that HandleQueue or WriteHandler popped without a failed write
\* has its last byte on the wire: none is popped half sent.
NothingVanishes ==
    \A k \in Left :
        \/ Skipped(k)
        \/ \E j \in 1 .. Len(wire) : wire[j] = [id |-> k, at |-> sizes[k]]

\* AsyncProcessQueue and its two completion handlers keep _isWritingAsync and
\* the outstanding operation in step: never two writes at once, never a write
\* with nothing to send, and no open socket that believes in a write that
\* nobody will complete.
SingleWrite ==
    /\ writeOp <= 1
    /\ writeOp = 1 => isWritingAsync /\ writeQueue # <<>>
    /\ isWritingAsync /\ ~closed => writeOp = 1

\* CloseSocket shuts the sending side down: a write handler that completes
\* after it puts nothing more on the wire.
QuietAfterClose == [][closed => wire' = wire]_vars

\* Every queued packet leaves the queue, written or dropped, unless the
\* socket is closed first: no lost wake-up between Update, would_block and
\* the write handler.
PacketsFlushed ==
    \A k \in PacketIds : (k <= Len(sizes)) ~> (closed \/ k \in Left)

\* DelayedCloseSocket with packets still queued closes the socket once they
\* are gone, wherever the store falls between the steps of HandleQueue.
DrainThenClose == (closing /\ writeQueue # <<>>) ~> closed

\* The abstract session this socket is.
Abstract == INSTANCE Session WITH
    state   <- IF closed THEN "closed" ELSE IF closing THEN "closing" ELSE "open",
    reading <- IF readOp THEN "armed" ELSE IF pc = "ReadHandler" THEN "handling" ELSE "no"

\* Seen by its network thread the socket is a Session: with all its writing it
\* never becomes open again, has one read at most and starts none once it is
\* closing or closed, also when DelayedCloseSocket comes during ReadHandler.
ImplementsSession == Abstract!Spec

\* What the comment on DelayedCloseSocket says, "Marks the socket for closing
\* after write buffer becomes empty": the socket does get closed.
DelayedCloseHonoured == closing ~> closed
=============================================================================
