------------------------------ MODULE SocketMgr ------------------------------
(***************************************************************************)
(* The server's main thread: SocketMgr (shared/Network/SocketMgr.h) with   *)
(* AuthSocketMgr, and the AsyncAcceptor it owns, composed with the network *)
(* threads of module NetworkThread.  The main thread starts the network,   *)
(* runs the accept handlers, hands each new session to a network thread,   *)
(* and takes the network down again.                                       *)
(*                                                                         *)
(* Thread i of _threads is number i + 1.  An accept is armed on the        *)
(* _acceptSocket of one thread, chosen when it is armed and not when a     *)
(* client arrives.                                                         *)
(***************************************************************************)
EXTENDS Integers, Sequences, FiniteSets

CONSTANTS
    ThreadCount,       \* _threadCount
    Clients,           \* bound: the clients that ever connect
    NonBlockingFails   \* BOOLEAN: may socket->non_blocking(true) throw?

ASSUME MgrAssumption ==
    /\ ThreadCount \in Nat \ {0}
    /\ NonBlockingFails \in BOOLEAN

VARIABLES
    state, reading, home, hand,
    connections, newSockets, sockets, locked,
    stopped, ioStopped, timer, run, at, cursor,  \* as in NetworkThread
    pc,              \* where the main thread is
    index,           \* position of the loop over _threads it is in
    chosen,          \* the thread SelectThreadWithMinConnections has so far
    loaded,          \* the counter it has loaded for a comparison, with its thread, or none
    accepting,       \* the thread the accept is armed on, 0 if none is
    acceptorClosed,  \* AsyncAcceptor::_closed
    acceptSocket,    \* each thread's _acceptSocket: "closed" or "open"
    client           \* "away", "waiting", "accepted" or "dropped"

Threads == 1 .. ThreadCount

Thread == INSTANCE NetworkThread WITH Sessions <- Clients

threadVars   == <<state, reading, home, hand, connections, newSockets, sockets,
                  locked, stopped, ioStopped, timer, run, at, cursor>>
acceptorVars == <<accepting, acceptorClosed, acceptSocket, client>>
mainVars     == <<pc, index, chosen, loaded>>
vars         == <<threadVars, mainVars, acceptorVars>>

-----------------------------------------------------------------------------
(* State                                                                   *)

Places == {"off", "failed", "StartThreads", "select", "run", "accepted",
           "AddSocket", "Stop", "StopIo", "Wait", "delete", "stopped"}

TypeOK ==
    /\ Thread!TypeOK
    /\ pc \in Places
    /\ index \in 1 .. ThreadCount + 1
    /\ chosen \in Threads
    /\ loaded = <<>> \/ loaded \in Threads \X Int
    /\ accepting \in Threads \cup {0}
    /\ acceptorClosed \in BOOLEAN
    /\ acceptSocket \in [Threads -> {"closed", "open"}]
    /\ client \in [Clients -> {"away", "waiting", "accepted", "dropped"}]

Init ==
    /\ Thread!Init
    /\ pc = "off"
    /\ index = 1
    /\ chosen = 1
    /\ loaded = <<>>
    /\ accepting = 0
    /\ acceptorClosed = FALSE
    /\ acceptSocket = [t \in Threads |-> "closed"]
    /\ client = [c \in Clients |-> "away"]

-----------------------------------------------------------------------------
(* StartNetwork                                                            *)

\* The acceptor cannot be constructed or bound: main() returns 1.
StartNetworkFails ==
    /\ pc = "off"
    /\ pc' = "failed"
    /\ UNCHANGED <<threadVars, index, chosen, loaded, acceptorVars>>

StartNetwork ==
    /\ pc = "off"
    /\ pc' = "StartThreads"
    /\ UNCHANGED <<threadVars, index, chosen, loaded, acceptorVars>>

\* _threads[i].Start() for each i; AuthSocketMgr then arms the first accept.
StartThread ==
    /\ pc = "StartThreads"
    /\ Thread!Start(index)
    /\ IF index < ThreadCount
       THEN pc' = pc /\ index' = index + 1
       ELSE pc' = "select" /\ index' = 1
    /\ UNCHANGED <<chosen, loaded, acceptorVars>>

-----------------------------------------------------------------------------
(* The accept handler                                                      *)

\* In SelectThreadWithMinConnections the counters of thread index and of the one
\* chosen so far are loaded in either order, while the threads go on changing
\* them.  This is the first load.
LoadCount ==
    /\ pc = "select"
    /\ index \in 2 .. ThreadCount /\ loaded = <<>>
    /\ \E t \in {index, chosen} : loaded' = <<t, connections[t]>>
    /\ UNCHANGED <<threadVars, pc, index, chosen, acceptorVars>>

\* What was loaded first, and for the other thread the counter as it is now.
Count(t) == IF loaded[1] = t THEN loaded[2] ELSE connections[t]

\* Mutant of SelectThread: the busiest thread is chosen.
SelectThreadMax ==
    /\ pc = "select"
    /\ index <= ThreadCount /\ (index = 1 \/ loaded # <<>>)
    /\ chosen' = IF index = 1 \/ Count(index) > Count(chosen) THEN index ELSE chosen
    /\ index' = index + 1
    /\ loaded' = <<>>
    /\ UNCHANGED <<threadVars, pc, acceptorVars>>

\* The second load, and the rest of a turn of the loop.  It begins with thread 1
\* chosen.
SelectThread ==
    /\ pc = "select"
    /\ index <= ThreadCount /\ (index = 1 \/ loaded # <<>>)
    /\ chosen' = IF index = 1 \/ Count(index) < Count(chosen) THEN index ELSE chosen
    /\ index' = index + 1
    /\ loaded' = <<>>
    /\ UNCHANGED <<threadVars, pc, acceptorVars>>

\* async_accept on the chosen thread's _acceptSocket.
AsyncAccept ==
    /\ pc = "select"
    /\ index = ThreadCount + 1
    /\ accepting' = chosen
    /\ pc' = "run"
    /\ index' = 1
    /\ UNCHANGED <<threadVars, chosen, loaded, acceptorClosed, acceptSocket, client>>

\* A client is accepted into the _acceptSocket, which must not be open.
Accepted(c) ==
    /\ pc = "run"
    /\ accepting # 0 /\ acceptSocket[accepting] = "closed"
    /\ client[c] = "waiting"
    /\ client' = [client EXCEPT ![c] = "accepted"]
    /\ acceptSocket' = [acceptSocket EXCEPT ![accepting] = "open"]
    /\ pc' = "accepted"
    /\ UNCHANGED <<threadVars, index, chosen, loaded, accepting, acceptorClosed>>

\* The accept fails: descriptors have run out, the client has gone, or the
\* _acceptSocket is open already.  The handler only arms the next accept.
AcceptError ==
    /\ pc = "run"
    /\ accepting # 0
    /\ accepting' = 0
    /\ pc' = "select"
    /\ UNCHANGED <<threadVars, index, chosen, loaded, acceptorClosed, acceptSocket, client>>

\* The client whose accept handler is running.
Current(c) == client[c] = "accepted" /\ state[c] = "none"

\* non_blocking(true) throws: the _acceptSocket stays as it is, open.
NonBlockingThrows(c) ==
    /\ NonBlockingFails
    /\ pc = "accepted" /\ Current(c)
    /\ client' = [client EXCEPT ![c] = "dropped"]
    /\ accepting' = 0
    /\ pc' = "select"
    /\ UNCHANGED <<threadVars, index, chosen, loaded, acceptorClosed, acceptSocket>>

\* Mutant of RemoteEndpointThrows: the exception ends the handler early.
RemoteEndpointUncaught(c) ==
    /\ pc = "accepted" /\ Current(c)
    /\ client' = [client EXCEPT ![c] = "dropped"]
    /\ acceptSocket' = [acceptSocket EXCEPT ![accepting] = "closed"]
    /\ accepting' = 0
    /\ pc' = "run"
    /\ UNCHANGED <<threadVars, index, chosen, loaded, acceptorClosed>>

\* OnSocketOpen: the session's constructor, which has taken the socket over,
\* throws in remote_endpoint(), and its member closes the socket.
RemoteEndpointThrows(c) ==
    /\ pc = "accepted" /\ Current(c)
    /\ client' = [client EXCEPT ![c] = "dropped"]
    /\ acceptSocket' = [acceptSocket EXCEPT ![accepting] = "closed"]
    /\ accepting' = 0
    /\ pc' = "select"
    /\ UNCHANGED <<threadVars, index, chosen, loaded, acceptorClosed>>

\* OnSocketOpen: the session is constructed and started.
OnSocketOpen(c) ==
    /\ pc = "accepted" /\ Current(c)
    /\ Thread!Open(accepting, c)
    /\ acceptSocket' = [acceptSocket EXCEPT ![accepting] = "closed"]
    /\ pc' = "AddSocket"
    /\ UNCHANGED <<index, chosen, loaded, accepting, acceptorClosed, client>>

\* OnSocketOpen: it is added to the thread, and the next accept is armed.
AddSocket(c) ==
    /\ pc = "AddSocket"
    /\ Thread!AddSocket(accepting, c)
    /\ accepting' = 0
    /\ pc' = "select"
    /\ UNCHANGED <<index, chosen, loaded, acceptorClosed, acceptSocket, client>>

-----------------------------------------------------------------------------
(* StopNetwork                                                             *)

\* io_context::run has returned in main(): StopNetwork closes the acceptor.
\* The accept that was armed is cancelled; no handler runs any more.
StopNetwork ==
    /\ pc = "run"
    /\ acceptorClosed' = TRUE
    /\ accepting' = 0
    /\ pc' = "Stop"
    /\ UNCHANGED <<threadVars, index, chosen, loaded, acceptSocket, client>>

\* Mutant of StopThread: only the first thread is stopped.
StopFirstThread ==
    \/ /\ pc = "Stop"
       /\ Thread!Stop(index)
       /\ pc' = "StopIo"
       /\ UNCHANGED <<index, chosen, loaded, acceptorVars>>
    \/ /\ pc = "StopIo"
       /\ Thread!StopIo(index)
       /\ pc' = "Wait" /\ index' = 1
       /\ UNCHANGED <<chosen, loaded, acceptorVars>>

\* _threads[i].Stop() for each i.
StopThread ==
    \/ /\ pc = "Stop"
       /\ Thread!Stop(index)
       /\ pc' = "StopIo"
       /\ UNCHANGED <<index, chosen, loaded, acceptorVars>>
    \/ /\ pc = "StopIo"
       /\ Thread!StopIo(index)
       /\ IF index < ThreadCount
          THEN pc' = "Stop" /\ index' = index + 1
          ELSE pc' = "Wait" /\ index' = 1
       /\ UNCHANGED <<chosen, loaded, acceptorVars>>

\* _threads[i].Wait() for each i.
WaitThread ==
    /\ pc = "Wait"
    /\ Thread!Wait(index)
    /\ IF index < ThreadCount
       THEN pc' = pc /\ index' = index + 1
       ELSE pc' = "delete" /\ index' = ThreadCount
    /\ UNCHANGED <<chosen, loaded, acceptorVars>>

\* delete[] _threads destroys the last element first.
DeleteThread ==
    /\ pc = "delete"
    /\ Thread!Delete(index)
    /\ IF index > 1
       THEN pc' = pc /\ index' = index - 1
       ELSE pc' = "stopped" /\ index' = 1
    /\ UNCHANGED <<chosen, loaded, acceptorVars>>

-----------------------------------------------------------------------------
(* Clients                                                                 *)

\* A client connects to the listening socket.  One that goes away again shows
\* as an AcceptError or in RemoteEndpointThrows.
ClientArrives(c) ==
    /\ pc \notin {"off", "failed"} /\ ~acceptorClosed
    /\ client[c] = "away"
    /\ client' = [client EXCEPT ![c] = "waiting"]
    /\ UNCHANGED <<threadVars, mainVars, accepting, acceptorClosed, acceptSocket>>

-----------------------------------------------------------------------------

Accept ==
    \/ LoadCount
    \/ SelectThread
    \/ AsyncAccept
    \/ \E c \in Clients :
        \/ NonBlockingThrows(c)
        \/ RemoteEndpointThrows(c)
        \/ OnSocketOpen(c)
        \/ AddSocket(c)

Shutdown == StopThread \/ WaitThread \/ DeleteThread

\* Steps of the network threads and of the sessions leave the main thread and the acceptor alone.
NetworkThreads ==
    /\ Thread!AnyoneNext \/ \E t \in Threads : Thread!ThreadNext(t)
    /\ UNCHANGED <<mainVars, acceptorVars>>

Next ==
    \/ StartNetworkFails
    \/ StartNetwork
    \/ StartThread
    \/ Accept
    \/ \E c \in Clients : Accepted(c)
    \/ AcceptError
    \/ StopNetwork
    \/ Shutdown
    \/ NetworkThreads
    \/ \E c \in Clients : ClientArrives(c)

Spec == Init /\ [][Next]_vars

(***************************************************************************)
(* Fairness.  The main thread finishes the call it is in.  The network     *)
(* threads are as in NetworkThread.  A waiting client is accepted if       *)
(* accepts are armed for it again and again: failed accepts may come       *)
(* between, but not for ever.  Nobody has to stop the server.              *)
(***************************************************************************)
Fairness ==
    /\ WF_vars(StartThread)
    /\ WF_vars(Accept)
    /\ WF_vars(Shutdown)
    /\ \A c \in Clients : SF_vars(Accepted(c))
    /\ \A t \in Threads :
        /\ WF_vars(Thread!RunBegin(t) /\ UNCHANGED <<mainVars, acceptorVars>>)
        /\ WF_vars(Thread!RunEnd(t) /\ UNCHANGED <<mainVars, acceptorVars>>)
        /\ WF_vars(Thread!UpdateBegin(t) /\ UNCHANGED <<mainVars, acceptorVars>>)
        /\ WF_vars(Thread!Update(t) /\ UNCHANGED <<mainVars, acceptorVars>>)

FairSpec == Spec /\ Fairness

-----------------------------------------------------------------------------
(* Properties                                                              *)

\* The sessions constructed so far.
Opened == {c \in Clients : state[c] # "none"}

\* SelectThreadWithMinConnections spreads the sessions although it reads the
\* counters one by one and its choice may be old when a client arrives: no
\* thread ever has more than its share of all sessions constructed so far,
\* rounded up, because counters only fall between the choice and its use.
Balanced ==
    \A t \in Threads :
        (connections[t] - 1) * ThreadCount < Cardinality(Opened)

\* A waiting client is accepted, failed accepts and failed sessions before it
\* notwithstanding, unless the server stops or an earlier client's
\* non_blocking(true) failed and left an _acceptSocket open.
ClientAccepted ==
    \A c \in Clients :
        (client[c] = "waiting") ~>
            \/ client[c] # "waiting"
            \/ acceptorClosed
            \/ \E t \in Threads : acceptSocket[t] = "open"

\* StopNetwork ends: the threads are stopped, joined and destroyed in turn and
\* none of them waits for another.
StopEnds == (pc = "Stop") ~> (pc = "stopped")

=============================================================================
