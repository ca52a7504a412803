---------------------------- MODULE NetworkThread ----------------------------
(***************************************************************************)
(* The network threads (shared/Network/NetworkThread.h) and the sessions   *)
(* they own.  Each thread runs one io_context: it dispatches, one at a     *)
(* time, the read handlers of its sessions and the timer handler Update.   *)
(* Another thread (the owner, which runs the acceptor) constructs sessions *)
(* and hands them over through _newSockets under _newSocketsLock, and      *)
(* stops and joins the threads.                                            *)
(*                                                                         *)
(* A session is reduced to what NetworkThread sees of it: IsOpen, whether  *)
(* it has been closed, and whether a read is outstanding.  The read is     *)
(* armed by Start() before AddSocket, so its handler may run, and may close*)
(* the session, before the session is in any container.  The steps of a    *)
(* session are those of module Session, a completed read and its handler   *)
(* taken as one.                                                           *)
(***************************************************************************)
EXTENDS Integers, Sequences, FiniteSets, SequencesExt

CONSTANTS
    Threads,   \* the network threads
    Sessions   \* bound: the sessions ever constructed

ASSUME ThreadAssumption == Threads # {}

VARIABLES
    state,        \* of a session: "none", "open", "closing" or "closed"
    reading,      \* a read of the session is outstanding
    home,         \* the thread whose io_context the session's socket uses
    hand,         \* sessions constructed and started, not yet added
    connections,  \* _connections
    newSockets,   \* _newSockets
    sockets,      \* _sockets
    locked,       \* the network thread holds _newSocketsLock
    stopped,      \* _stopped
    ioStopped,    \* _ioContext.stop() was called
    timer,        \* _updateTimer is armed
    run,          \* life of the std::thread
    at,           \* where the thread is: in io_context, or inside Update
    cursor        \* position of the loop Update is in

sessionVars == <<state, reading, home, hand>>
listVars    == <<connections, newSockets, sockets, locked>>
stopVars    == <<stopped, ioStopped>>
runVars     == <<timer, run, at, cursor>>
vars        == <<sessionVars, listVars, stopVars, runVars>>

-----------------------------------------------------------------------------
(* State                                                                   *)

States == {"none", "open", "closing", "closed"}
Lives  == {"created", "started", "running", "exited", "joined", "deleted"}
Places == {"idle", "AddNewSockets", "adding", "updating"}

TypeOK ==
    /\ state \in [Sessions -> States]
    /\ reading \in [Sessions -> BOOLEAN]
    /\ home \in [Sessions -> Threads]
    /\ hand \in SUBSET Sessions
    /\ connections \in [Threads -> Int]
    /\ newSockets \in [Threads -> Seq(Sessions)]
    /\ sockets \in [Threads -> Seq(Sessions)]
    /\ locked \in [Threads -> BOOLEAN]
    /\ stopped \in [Threads -> BOOLEAN]
    /\ ioStopped \in [Threads -> BOOLEAN]
    /\ timer \in [Threads -> BOOLEAN]
    /\ run \in [Threads -> Lives]
    /\ at \in [Threads -> Places]
    /\ cursor \in [Threads -> Nat \ {0}]

Init ==
    /\ state = [c \in Sessions |-> "none"]
    /\ reading = [c \in Sessions |-> FALSE]
    /\ home = [c \in Sessions |-> CHOOSE t \in Threads : TRUE]
    /\ hand = {}
    /\ connections = [t \in Threads |-> 0]
    /\ newSockets = [t \in Threads |-> <<>>]
    /\ sockets = [t \in Threads |-> <<>>]
    /\ locked = [t \in Threads |-> FALSE]
    /\ stopped = [t \in Threads |-> FALSE]
    /\ ioStopped = [t \in Threads |-> FALSE]
    /\ timer = [t \in Threads |-> FALSE]
    /\ run = [t \in Threads |-> "created"]
    /\ at = [t \in Threads |-> "idle"]
    /\ cursor = [t \in Threads |-> 1]

-----------------------------------------------------------------------------
(* Helpers                                                                 *)

IsOpen(c) == state[c] = "open"

\* The thread can dispatch a handler.
Dispatching(t) == run[t] = "running" /\ at[t] = "idle" /\ ~ioStopped[t]

\* The thread ends a handler; one it had begun ends also after stop().
EndsHandler(t) == run[t] = "running" /\ at[t] = "idle"

\* Sessions the thread holds a reference to through its containers.
Contained(t) == Range(newSockets[t]) \cup Range(sockets[t])

\* The shared_ptr references that keep a session, and so its descriptor.
Referenced(c) == c \in hand \/ reading[c] \/ \E t \in Threads : c \in Contained(t)

\* Work that keeps run() from returning by itself.
HasWork(t) == timer[t] \/ \E c \in Sessions : reading[c] /\ home[c] = t

-----------------------------------------------------------------------------
(* Calls of the owner                                                      *)

Start(t) ==
    /\ run[t] = "created"
    /\ run' = [run EXCEPT ![t] = "started"]
    /\ UNCHANGED <<sessionVars, listVars, stopVars, timer, at, cursor>>

\* Construct a session on the thread's io_context and Start() it.
Open(t, c) ==
    /\ state[c] = "none"
    /\ run[t] \in {"started", "running"}
    /\ ~stopped[t]
    /\ state' = [state EXCEPT ![c] = "open"]
    /\ reading' = [reading EXCEPT ![c] = TRUE]
    /\ home' = [home EXCEPT ![c] = t]
    /\ hand' = hand \cup {c}
    /\ UNCHANGED <<listVars, stopVars, runVars>>

\* One critical section.
AddSocket(t, c) ==
    /\ c \in hand /\ home[c] = t
    /\ ~locked[t]
    /\ connections' = [connections EXCEPT ![t] = @ + 1]
    /\ newSockets' = [newSockets EXCEPT ![t] = Append(@, c)]
    /\ hand' = hand \ {c}
    /\ UNCHANGED <<state, reading, home, sockets, locked, stopVars, runVars>>

\* Stop(), first statement.  The owner adds no session once it stops a thread.
Stop(t) ==
    /\ ~stopped[t]
    /\ run[t] # "created"
    /\ hand = {}
    /\ stopped' = [stopped EXCEPT ![t] = TRUE]
    /\ UNCHANGED <<sessionVars, listVars, ioStopped, runVars>>

\* Stop(), second statement.
StopIo(t) ==
    /\ stopped[t] /\ ~ioStopped[t]
    /\ ioStopped' = [ioStopped EXCEPT ![t] = TRUE]
    /\ UNCHANGED <<sessionVars, listVars, stopped, runVars>>

Wait(t) ==
    /\ stopped[t]
    /\ run[t] = "exited"
    /\ run' = [run EXCEPT ![t] = "joined"]
    /\ UNCHANGED <<sessionVars, listVars, stopVars, timer, at, cursor>>

\* ~NetworkThread: the io_context goes, and with it the handlers it keeps.
Delete(t) ==
    /\ run[t] = "joined"
    /\ run' = [run EXCEPT ![t] = "deleted"]
    /\ reading' = [c \in Sessions |-> reading[c] /\ home[c] # t]
    /\ UNCHANGED <<state, home, hand, listVars, stopVars, timer, at, cursor>>

-----------------------------------------------------------------------------
(* The network thread                                                      *)

\* Run(), up to _ioContext.run().
RunBegin(t) ==
    /\ run[t] = "started"
    /\ run' = [run EXCEPT ![t] = "running"]
    /\ timer' = [timer EXCEPT ![t] = TRUE]
    /\ UNCHANGED <<sessionVars, listVars, stopVars, at, cursor>>

\* Mutant of RunEnd: sessions not yet adopted are not released.
RunEndKeepsNew(t) ==
    /\ run[t] = "running"
    /\ at[t] = "idle"
    /\ ioStopped[t] \/ ~HasWork(t)
    /\ run' = [run EXCEPT ![t] = "exited"]
    /\ sockets' = [sockets EXCEPT ![t] = <<>>]
    /\ UNCHANGED <<sessionVars, newSockets, connections, locked, stopVars, timer,
                   at, cursor>>

\* Run(), after _ioContext.run(): both containers are cleared.
RunEnd(t) ==
    /\ run[t] = "running"
    /\ at[t] = "idle"
    /\ ioStopped[t] \/ ~HasWork(t)
    /\ run' = [run EXCEPT ![t] = "exited"]
    /\ newSockets' = [newSockets EXCEPT ![t] = <<>>]
    /\ sockets' = [sockets EXCEPT ![t] = <<>>]
    /\ UNCHANGED <<sessionVars, connections, locked, stopVars, timer, at, cursor>>

\* A read completes: the session closes, stops reading, or reads again, which
\* only an open session can.
ReadHandler(t, c) ==
    /\ EndsHandler(t)
    /\ reading[c] /\ home[c] = t
    /\ \/ /\ state' = [state EXCEPT ![c] = "closed"]
          /\ reading' = [reading EXCEPT ![c] = FALSE]
       \/ /\ state' = state
          /\ reading' = [reading EXCEPT ![c] = FALSE]
       \/ /\ state' = state
          /\ reading' = [reading EXCEPT ![c] = IsOpen(c)]
    /\ UNCHANGED <<home, hand, listVars, stopVars, runVars>>

\* A write completes and closes the session: its queue has drained after
\* DelayedCloseSocket or, in the IOCP build, the write failed.
WriteHandler(t, c) ==
    /\ EndsHandler(t)
    /\ home[c] = t
    /\ state[c] \in {"open", "closing"}
    /\ state' = [state EXCEPT ![c] = "closed"]
    /\ UNCHANGED <<reading, home, hand, listVars, stopVars, runVars>>

\* DelayedCloseSocket, an atomic store, from any thread.
DelayedCloseSocket(c) ==
    /\ IsOpen(c)
    /\ state' = [state EXCEPT ![c] = "closing"]
    /\ UNCHANGED <<reading, home, hand, listVars, stopVars, runVars>>

\* Update(): nothing more once stopped, otherwise the timer is armed again.
UpdateBegin(t) ==
    /\ Dispatching(t)
    /\ timer[t]
    /\ IF stopped[t]
       THEN /\ timer' = [timer EXCEPT ![t] = FALSE]
            /\ at' = at
       ELSE /\ timer' = [timer EXCEPT ![t] = TRUE]
            /\ at' = [at EXCEPT ![t] = "AddNewSockets"]
    /\ UNCHANGED <<sessionVars, listVars, stopVars, run, cursor>>

\* AddNewSockets() takes the lock; Update goes on if there is nothing to add.
AddNewSockets(t) ==
    /\ at[t] = "AddNewSockets"
    /\ ~locked[t]
    /\ locked' = [locked EXCEPT ![t] = newSockets[t] # <<>>]
    /\ at' = [at EXCEPT ![t] = IF newSockets[t] = <<>> THEN "updating" ELSE "adding"]
    /\ cursor' = [cursor EXCEPT ![t] = 1]
    /\ UNCHANGED <<sessionVars, connections, newSockets, sockets, stopVars, timer, run>>

\* Mutant of AddOne: a closed session is left out but stays counted.
AddOneNoDecrement(t) ==
    /\ at[t] = "adding"
    /\ cursor[t] <= Len(newSockets[t])
    /\ LET c == newSockets[t][cursor[t]]
       IN  sockets' = IF IsOpen(c)
                      THEN [sockets EXCEPT ![t] = Append(@, c)] ELSE sockets
    /\ cursor' = [cursor EXCEPT ![t] = @ + 1]
    /\ UNCHANGED <<sessionVars, connections, newSockets, locked, stopVars, timer,
                   run, at>>

\* Mutant of AddOne: the test of IsOpen() is the wrong way round.
AddOneInverted(t) ==
    /\ at[t] = "adding"
    /\ cursor[t] <= Len(newSockets[t])
    /\ LET c == newSockets[t][cursor[t]]
       IN  IF ~IsOpen(c)
           THEN /\ sockets' = [sockets EXCEPT ![t] = Append(@, c)]
                /\ connections' = connections
           ELSE /\ sockets' = sockets
                /\ connections' = [connections EXCEPT ![t] = @ - 1]
    /\ cursor' = [cursor EXCEPT ![t] = @ + 1]
    /\ UNCHANGED <<sessionVars, newSockets, locked, stopVars, timer, run, at>>

\* One turn of its loop.
AddOne(t) ==
    /\ at[t] = "adding"
    /\ cursor[t] <= Len(newSockets[t])
    /\ LET c == newSockets[t][cursor[t]]
       IN  IF IsOpen(c)
           THEN /\ sockets' = [sockets EXCEPT ![t] = Append(@, c)]
                /\ connections' = connections
           ELSE /\ sockets' = sockets
                /\ connections' = [connections EXCEPT ![t] = @ - 1]
    /\ cursor' = [cursor EXCEPT ![t] = @ + 1]
    /\ UNCHANGED <<sessionVars, newSockets, locked, stopVars, timer, run, at>>

\* _newSockets.clear(), and the lock is released.
AddDone(t) ==
    /\ at[t] = "adding"
    /\ cursor[t] > Len(newSockets[t])
    /\ newSockets' = [newSockets EXCEPT ![t] = <<>>]
    /\ locked' = [locked EXCEPT ![t] = FALSE]
    /\ at' = [at EXCEPT ![t] = "updating"]
    /\ cursor' = [cursor EXCEPT ![t] = 1]
    /\ UNCHANGED <<sessionVars, connections, sockets, stopVars, timer, run>>

\* Mutant of UpdateOne: what Update() returns is not looked at.
UpdateOneKeeps(t) ==
    /\ at[t] = "updating"
    /\ cursor[t] <= Len(sockets[t])
    /\ cursor' = [cursor EXCEPT ![t] = @ + 1]
    /\ UNCHANGED <<sessionVars, listVars, stopVars, timer, run, at>>

\* One turn of remove_if: a closed session is erased; the Update() of any
\* other one returns true, and may have closed a session marked for it.
UpdateOne(t) ==
    /\ at[t] = "updating"
    /\ cursor[t] <= Len(sockets[t])
    /\ LET c == sockets[t][cursor[t]]
       IN  IF state[c] = "closed"
           THEN /\ sockets' = [sockets EXCEPT ![t] = RemoveAt(@, cursor[t])]
                /\ connections' = [connections EXCEPT ![t] = @ - 1]
                /\ UNCHANGED <<state, cursor>>
           ELSE /\ \/ state' = state
                   \/ /\ state[c] = "closing"
                      /\ state' = [state EXCEPT ![c] = "closed"]
                /\ cursor' = [cursor EXCEPT ![t] = @ + 1]
                /\ UNCHANGED <<sockets, connections>>
    /\ UNCHANGED <<reading, home, hand, newSockets, locked, stopVars, timer, run, at>>

UpdateDone(t) ==
    /\ at[t] = "updating"
    /\ cursor[t] > Len(sockets[t])
    /\ at' = [at EXCEPT ![t] = "idle"]
    /\ UNCHANGED <<sessionVars, listVars, stopVars, timer, run, cursor>>

Update(t) ==
    \/ AddNewSockets(t)
    \/ AddOne(t)
    \/ AddDone(t)
    \/ UpdateOne(t)
    \/ UpdateDone(t)

-----------------------------------------------------------------------------

ThreadNext(t) ==
    \/ RunBegin(t)
    \/ RunEnd(t)
    \/ \E c \in Sessions : ReadHandler(t, c) \/ WriteHandler(t, c)
    \/ UpdateBegin(t)
    \/ Update(t)

OwnerNext(t) ==
    \/ Start(t)
    \/ \E c \in Sessions : Open(t, c)
    \/ \E c \in Sessions : AddSocket(t, c)
    \/ Stop(t)
    \/ StopIo(t)
    \/ Wait(t)
    \/ Delete(t)

AnyoneNext == \E c \in Sessions : DelayedCloseSocket(c)

Next ==
    \/ \E t \in Threads : ThreadNext(t) \/ OwnerNext(t)
    \/ AnyoneNext

Spec == Init /\ [][Next]_vars

(***************************************************************************)
(* Fairness.  A network thread is scheduled, its timer expires, and a      *)
(* handler it has begun runs to its end.  The owner finishes the call it   *)
(* is in: it adds the session it constructed, and Stop, Wait and the       *)
(* destructor follow each other.  No session ever has to close, be read    *)
(* from, or arrive, and nobody has to call Stop.                           *)
(***************************************************************************)
Fairness ==
    \A t \in Threads :
        /\ WF_vars(RunBegin(t))
        /\ WF_vars(RunEnd(t))
        /\ WF_vars(UpdateBegin(t))
        /\ WF_vars(Update(t))
        /\ WF_vars(\E c \in Sessions : AddSocket(t, c))
        /\ WF_vars(StopIo(t))
        /\ WF_vars(Wait(t))
        /\ WF_vars(Delete(t))

FairSpec == Spec /\ Fairness

-----------------------------------------------------------------------------
(* Properties                                                              *)

\* The thread has not left Run() yet.
Live(t) == run[t] \in {"created", "started", "running"}

\* How many of _newSockets the loop of AddNewSockets has been over.
Adopted(t) == IF at[t] = "adding" THEN cursor[t] - 1 ELSE 0

\* _connections, which SelectThreadWithMinConnections reads without the lock
\* at any moment, counts the sessions the thread has in its two containers,
\* those AddNewSockets has already dealt with counted once; so it is never
\* negative and never drifts, whoever closes a session and when.
CounterExact ==
    \A t \in Threads :
        Live(t) => connections[t] = Len(sockets[t]) + Len(newSockets[t]) - Adopted(t)

\* An open session is always where Update will find it: in a container of its
\* thread, or in the hands of the owner about to add it.  Nothing else would
\* notice when it closes.
OpenTracked ==
    \A c \in Sessions :
        IsOpen(c) /\ Live(home[c]) => c \in hand \cup Contained(home[c])

\* Run() returns only after Stop(): the timer, armed again at the start of
\* each Update, keeps io_context::run from running out of work even when
\* every session has gone.
NoEarlyExit == \A t \in Threads : ~Live(t) => stopped[t]

\* When ~NetworkThread destroys the io_context no session of the thread is
\* left that refers to it: Run cleared the containers on its way out, and the
\* handlers that still held sessions went with the io_context.
NoSessionOutlivesContext ==
    \A t \in Threads : run[t] = "deleted" =>
        \A c \in Sessions : home[c] = t => ~Referenced(c)

\* A closed session is eventually out of every container, also when it was
\* closed before AddSocket, between AddSocket and AddNewSockets, or while the
\* thread is being stopped.
ClosedRemoved ==
    \A c \in Sessions : (state[c] = "closed") ~> (state[c] = "closed" /\
        c \notin hand /\ \A t \in Threads : c \notin Contained(t))
=============================================================================
