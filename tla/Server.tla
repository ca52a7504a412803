-------------------------------- MODULE Server --------------------------------
(***************************************************************************)
(* A network thread and the socket of a session it owns, put together: the *)
(* life of the thread is that of module NetworkThread, the socket does all *)
(* its writing as in module Socket, in the reactor build, whose writing is *)
(* driven by Update.  What each of the two leaves open, the other decides: *)
(* the thread, when the socket's handlers run, when its                    *)
(* Update is called and who holds it; the socket, when the session closes  *)
(* and whether it reads.                                                   *)
(*                                                                         *)
(* The thread is inside a handler of the socket, or inside its Update, as  *)
(* long as pc is not "idle".                                               *)
(***************************************************************************)
EXTENDS Integers, Sequences, FiniteSets

CONSTANTS MaxPackets, PacketSizes, SndBuf, TransientErrors

\* The socket.
VARIABLES writeQueue, isWritingAsync, closing, closed, readOp, writeOp, pc, caller,
          shut, room, peer, sizes, wire, lost

\* The thread, and the session's constructor has run.
VARIABLES home, hand, connections, newSockets, sockets, locked, stopped, ioStopped,
          timer, run, at, cursor, opened

socketVars == <<writeQueue, isWritingAsync, closing, closed, readOp, writeOp, pc, caller,
                shut, room, peer, sizes, wire, lost>>
listVars   == <<home, hand, connections, newSockets, sockets, locked>>
threadVars == <<listVars, stopped, ioStopped, timer, run, at, cursor>>
vars       == <<socketVars, threadVars, opened>>

T == "thread"
C == "session"

\* The session as its thread sees it.
state ==
    [c \in {C} |-> CASE ~opened -> "none"
                     [] opened /\ closed -> "closed"
                     [] opened /\ ~closed /\ closing -> "closing"
                     [] OTHER -> "open"]
reading == [c \in {C} |-> opened /\ (readOp \/ pc = "ReadHandler")]

Thread == INSTANCE NetworkThread WITH Threads <- {T}, Sessions <- {C}

\* The thread as the session sees it.
Held == C \in hand \cup Thread!Contained(T)

Socket == INSTANCE Socket WITH UseIOCP <- FALSE, held <- Held

Init ==
    /\ opened = FALSE
    /\ Socket!Started
    /\ Thread!Init

-----------------------------------------------------------------------------
(* The owner                                                               *)

Open ==
    /\ opened' = TRUE
    /\ UNCHANGED socketVars
    /\ Thread!Open(T, C)

\* The owner starts the thread, and stops it one day.
Owner ==
    /\ UNCHANGED <<socketVars, opened>>
    /\ Thread!Start(T) \/ Thread!Stop(T)

\* It ends the call it is in.
OwnerGoesOn ==
    /\ UNCHANGED <<socketVars, opened>>
    /\ Thread!AddSocket(T, C) \/ Thread!StopIo(T) \/ Thread!Wait(T)

\* With the io_context go the operations of the socket it keeps.
Delete ==
    /\ readOp' = FALSE /\ writeOp' = 0
    /\ UNCHANGED <<writeQueue, isWritingAsync, closing, closed, pc, caller, shut, room, peer,
                   sizes, wire, lost, opened>>
    /\ Thread!Delete(T)

-----------------------------------------------------------------------------
(* The network thread                                                      *)

\* Steps that touch no socket.  An outstanding write is work for run(), too.
Loop ==
    /\ pc = "idle"
    /\ UNCHANGED <<socketVars, opened>>
    /\ \/ Thread!RunBegin(T)
       \/ (ioStopped[T] \/ writeOp = 0) /\ Thread!RunEnd(T)
       \/ Thread!AddNewSockets(T) \/ Thread!AddOne(T) \/ Thread!AddDone(T)
       \/ Thread!UpdateDone(T)

TimerExpires ==
    /\ pc = "idle"
    /\ UNCHANGED <<socketVars, opened>>
    /\ Thread!UpdateBegin(T)

\* Update has come to the socket.
Updating == pc = "idle" /\ at[T] = "updating" /\ cursor[T] <= Len(sockets[T])

\* Update() returns false, and the socket is erased.
UpdateClosed ==
    /\ Updating
    /\ UNCHANGED <<socketVars, opened>>
    /\ Thread!UpdateOne(T)
    /\ Socket!UpdateClosed

\* Update() returns true at once.
UpdateNothing ==
    /\ Updating
    /\ ~closed /\ (isWritingAsync \/ (writeQueue = <<>> /\ ~closing))
    /\ UNCHANGED <<socketVars, opened>>
    /\ Thread!UpdateOne(T)

UpdateQueue ==
    /\ Updating
    /\ UNCHANGED <<threadVars, opened>>
    /\ Socket!Update

\* HandleQueue, called by Update or by the write handler; when it gives up,
\* Update() returns true and goes on to the next socket.
HandleQueue ==
    /\ UNCHANGED <<listVars, stopped, ioStopped, timer, run, at, opened>>
    /\ Socket!HandleQueue
    /\ cursor' = [cursor EXCEPT ![T] = IF caller = "Update" /\ pc' = "idle" THEN @ + 1 ELSE @]

ReadHandler == UNCHANGED <<threadVars, opened>> /\ Socket!ReadHandler

\* The io_context calls a handler of the socket.
Dispatch(handler) ==
    /\ opened /\ Thread!Dispatching(T)
    /\ UNCHANGED <<threadVars, opened>>
    /\ handler

ReadCompletes   == Dispatch(Socket!ReadHandlerInternal)
ReadFails       == Dispatch(Socket!ReadError)
WriteReady      == Dispatch(Socket!WriteHandlerWrapper)

-----------------------------------------------------------------------------
(* Everybody else                                                          *)

DelayedCloseSocket == opened /\ UNCHANGED <<threadVars, opened>> /\ Socket!DelayedCloseSocket

PeerReads  == opened /\ UNCHANGED <<threadVars, opened>> /\ Socket!PeerReads

PeerCloses ==
    /\ opened /\ UNCHANGED <<threadVars, opened>>
    /\ \E how \in {"fin", "reset"} : Socket!PeerCloses(how)

-----------------------------------------------------------------------------

Update == UpdateClosed \/ UpdateNothing \/ UpdateQueue

Next ==
    \/ Open \/ Owner \/ OwnerGoesOn \/ Delete
    \/ Loop \/ TimerExpires \/ Update \/ HandleQueue \/ ReadHandler
    \/ ReadCompletes \/ ReadFails \/ WriteReady
    \/ DelayedCloseSocket \/ PeerReads \/ PeerCloses

Spec == Init /\ [][Next]_vars

(***************************************************************************)
(* Fairness, as in the two modules.  The thread is scheduled and ends what *)
(* it has begun; the completions and the timer wait in the queue of the    *)
(* io_context, so each gets its turn; the peer reads what it is sent; the  *)
(* owner ends the call it is in.                                           *)
(***************************************************************************)
FairSpec ==
    /\ Spec
    /\ WF_vars(OwnerGoesOn) /\ WF_vars(Delete)
    /\ WF_vars(Loop \/ Update \/ HandleQueue \/ ReadHandler)
    /\ SF_vars(TimerExpires)
    /\ SF_vars(ReadFails) /\ SF_vars(WriteReady)
    /\ WF_vars(PeerReads)

-----------------------------------------------------------------------------
(* Properties                                                              *)

\* Put together, the two are what NetworkThread says of a thread and its
\* session: none of the socket's many steps does to the session what the
\* thread does not expect, also when stop() comes in the middle of a handler.
ImplementsNetworkThread == Thread!Spec

\* The thread has left its loop, or been told to.
Stopping == stopped[T]

\* An answer that was queued is written or dropped by a failed write, unless
\* the socket is closed or the thread stopped first, or the session was marked
\* by DelayedCloseSocket before AddNewSockets came to it, and let go.
AnswersFlushed ==
    \A k \in 1 .. MaxPackets :
        (k <= Len(sizes)) ~> (closed \/ k \in Socket!Left \/ Stopping \/ ~Held)

\* A session whose peer has gone while it reads, or that has closed and reads no
\* more, is let go by the thread, the io_context and the owner: its destructor
\* closes the descriptor, whether the session was adopted yet or not and also
\* if the thread is stopped meanwhile.
SessionReleased ==
    (opened /\ ((readOp /\ peer # "open") \/ (closed /\ ~readOp))) ~> (opened /\ ~Socket!Referenced)
=============================================================================
