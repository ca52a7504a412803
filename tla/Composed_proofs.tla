---------------------------- MODULE Composed_proofs ----------------------------
(***************************************************************************)
(* Proofs about two modules that put others together: a network thread     *)
(* with the socket of a session (Server), and the sequential components    *)
(* (MCUtilities).                                                          *)
(***************************************************************************)
EXTENDS Server, MCUtilities, SequenceTheorems, WellFoundedInduction, TLAPS

-----------------------------------------------------------------------------
(* Server.                                                                 *)

\* The thread and its containers.
Shape ==
    /\ home \in [{C} -> {T}] /\ hand \in SUBSET {C}
    /\ newSockets \in [{T} -> Seq({C})] /\ sockets \in [{T} -> Seq({C})]
    /\ cursor \in [{T} -> Nat \ {0}]
    /\ at \in [{T} -> Thread!Places] /\ run \in [{T} -> Thread!Lives]

SocketShape ==
    /\ opened \in BOOLEAN /\ closing \in BOOLEAN /\ closed \in BOOLEAN /\ readOp \in BOOLEAN
    /\ pc \in Socket!Places /\ caller \in Socket!Callers

\* Before the session is constructed nobody has it.
Unopened == ~opened => hand = {} /\ newSockets[T] = <<>> /\ sockets[T] = <<>>

\* The thread is inside a handler of the socket, or inside its Update.
Inside ==
    /\ at[T] # "idle" => run[T] = "running"
    /\ pc # "idle" => opened /\ run[T] = "running"
    /\ pc = "ReadHandler" => at[T] = "idle" /\ ~readOp
    /\ pc \in {"HandleQueue", "sent", "dropped"} =>
         IF caller = "Update"
         THEN at[T] = "updating" /\ cursor[T] <= Len(sockets[T]) /\ ~closed
         ELSE at[T] = "idle"

ServerInv == Shape /\ SocketShape /\ Unopened /\ Inside

LEMMA ServerBegins == Init => ServerInv
<1> SUFFICES ASSUME Init PROVE ServerInv
  OBVIOUS
<1>1. (CHOOSE t \in {T} : TRUE) = T
  OBVIOUS
<1>2. Shape
  BY <1>1 DEF Init, Thread!Init, Shape, Thread!Places, Thread!Lives
<1>3. SocketShape /\ Unopened /\ Inside
  BY DEF Init, Thread!Init, Socket!Started, SocketShape, Unopened, Inside, Socket!Places, Socket!Callers
<1> QED
  BY <1>2, <1>3 DEF ServerInv

\* The session, as its thread sees it, while a step leaves these alone.
LEMMA SameState ==
    /\ UNCHANGED <<opened, closed, closing>> => state' = state
    /\ UNCHANGED <<opened, readOp>> /\ (pc' = "ReadHandler" <=> pc = "ReadHandler") => reading' = reading
BY DEF state, reading

LEMMA ThreadSame ==
    UNCHANGED threadVars /\ state' = state /\ reading' = reading => UNCHANGED Thread!vars
BY DEF threadVars, listVars, Thread!vars, Thread!sessionVars, Thread!listVars, Thread!stopVars, Thread!runVars

LEMMA StateIs ==
    /\ state = [c \in {C} |-> state[C]] /\ reading = [c \in {C} |-> reading[C]]
    /\ state[C] = IF ~opened THEN "none" ELSE IF closed THEN "closed" ELSE IF closing THEN "closing" ELSE "open"
    /\ reading[C] = (opened /\ (readOp \/ pc = "ReadHandler"))
BY DEF state, reading

LEMMA ReadHandlerRefines == ServerInv /\ ReadHandler => [Thread!Next]_(Thread!vars)
<1> SUFFICES ASSUME ServerInv, ReadHandler PROVE Thread!Next
  OBVIOUS
<1>1. /\ UNCHANGED <<threadVars, opened, closing>> /\ pc = "ReadHandler" /\ pc' = "idle"
      /\ \/ closed' = TRUE /\ readOp' = readOp
         \/ closed' = closed /\ readOp' = readOp
         \/ closed' = closed /\ readOp' = (~closed /\ ~closing)
  BY DEF ReadHandler, Socket!ReadHandler, Socket!CloseSocket, Socket!StayOpen, Socket!AsyncRead, Socket!IsOpen
<1>2. opened /\ run[T] = "running" /\ at[T] = "idle" /\ ~readOp /\ closed \in BOOLEAN /\ closing \in BOOLEAN
  BY <1>1 DEF ServerInv, Inside, SocketShape
<1>3. Thread!EndsHandler(T) /\ reading[C] /\ home[C] = T
  BY <1>1, <1>2, StateIs DEF ServerInv, Shape, Thread!EndsHandler
<1>4. \/ state' = [state EXCEPT ![C] = "closed"] /\ reading' = [reading EXCEPT ![C] = FALSE]
      \/ state' = state /\ reading' = [reading EXCEPT ![C] = FALSE]
      \/ state' = state /\ reading' = [reading EXCEPT ![C] = Thread!IsOpen(C)]
  <2>1. CASE closed' = TRUE /\ readOp' = readOp
    <3>1. state' = [state EXCEPT ![C] = "closed"]
      BY <1>1, <1>2, <2>1 DEF state
    <3>2. reading' = [reading EXCEPT ![C] = FALSE]
      BY <1>1, <1>2, <2>1 DEF reading
    <3> QED
      BY <3>1, <3>2
  <2>2. CASE closed' = closed /\ readOp' = readOp
    <3>1. state' = state
      BY <1>1, <2>2, SameState
    <3>2. reading' = [reading EXCEPT ![C] = FALSE]
      BY <1>1, <1>2, <2>2 DEF reading
    <3> QED
      BY <3>1, <3>2
  <2>3. CASE closed' = closed /\ readOp' = (~closed /\ ~closing)
    <3>1. state' = state
      BY <1>1, <2>3, SameState
    <3>2. Thread!IsOpen(C) = (~closed /\ ~closing)
      BY <1>2, StateIs DEF Thread!IsOpen
    <3>3. reading' = [reading EXCEPT ![C] = (~closed /\ ~closing)]
      BY <1>1, <1>2, <2>3 DEF reading
    <3> QED
      BY <3>1, <3>2, <3>3
  <2> QED
    BY <1>1, <2>1, <2>2, <2>3
<1>5. Thread!ReadHandler(T, C)
  BY <1>1, <1>3, <1>4 DEF Thread!ReadHandler, threadVars, listVars, Thread!listVars, Thread!stopVars, Thread!runVars
<1> QED
  BY <1>5 DEF Thread!Next, Thread!ThreadNext

LEMMA ReadFailsRefines == ServerInv /\ ReadFails => [Thread!Next]_(Thread!vars)
<1> SUFFICES ASSUME ServerInv, ReadFails PROVE Thread!Next
  OBVIOUS
<1>1. /\ UNCHANGED <<threadVars, opened, closing, pc>> /\ readOp /\ pc = "idle"
      /\ closed' = TRUE /\ readOp' = FALSE /\ opened /\ Thread!Dispatching(T)
  BY DEF ReadFails, Dispatch, Socket!ReadError, Socket!CloseSocket, Socket!Handling
<1>2. Thread!EndsHandler(T) /\ reading[C] /\ home[C] = T
  BY <1>1, StateIs DEF ServerInv, Shape, Thread!EndsHandler, Thread!Dispatching
<1>3. state' = [state EXCEPT ![C] = "closed"] /\ reading' = [reading EXCEPT ![C] = FALSE]
  BY <1>1 DEF state, reading
<1>4. Thread!ReadHandler(T, C)
  BY <1>1, <1>2, <1>3 DEF Thread!ReadHandler, threadVars, listVars, Thread!listVars, Thread!stopVars, Thread!runVars
<1> QED
  BY <1>4 DEF Thread!Next, Thread!ThreadNext

LEMMA DelayedCloseRefines == ServerInv /\ DelayedCloseSocket => [Thread!Next]_(Thread!vars)
<1> SUFFICES ASSUME ServerInv, DelayedCloseSocket PROVE [Thread!Next]_(Thread!vars)
  OBVIOUS
<1>1. /\ UNCHANGED <<threadVars, opened, closed, readOp, pc>>
      /\ opened /\ ~closing /\ closing' = TRUE
  BY DEF DelayedCloseSocket, Socket!DelayedCloseSocket
<1>2. reading' = reading
  BY <1>1, SameState
<1>3. CASE closed
  <2>1. state' = state
    BY <1>1, <1>3 DEF state
  <2> QED
    BY <1>1, <1>2, <2>1, ThreadSame
<1>4. CASE ~closed
  <2>1. Thread!IsOpen(C)
    BY <1>1, <1>4, StateIs DEF Thread!IsOpen
  <2>2. state' = [state EXCEPT ![C] = "closing"]
    BY <1>1, <1>4 DEF state
  <2>3. Thread!DelayedCloseSocket(C)
    BY <1>1, <1>2, <2>1, <2>2
    DEF Thread!DelayedCloseSocket, threadVars, listVars, Thread!listVars, Thread!stopVars, Thread!runVars
  <2> QED
    BY <2>3 DEF Thread!Next, Thread!AnyoneNext
<1> QED
  BY <1>3, <1>4

\* HandleQueue changes of the session at most that it closes.
LEMMA HandleQueueFacts ==
    ASSUME Socket!HandleQueue
    PROVE  /\ pc \in {"HandleQueue", "sent", "dropped"}
           /\ pc' \in {"idle", "HandleQueue", "sent", "dropped"}
           /\ UNCHANGED <<closing, readOp, caller>>
           /\ \/ closed' = closed
              \/ closing /\ closed' = TRUE /\ pc' = "idle"
<1>1. CASE \/ Socket!HandleQueueEmpty \/ Socket!HandleQueueBlocked \/ Socket!HandleQueueDropped
           \/ Socket!HandleQueuePartial \/ Socket!HandleQueueSent
  BY <1>1 DEF Socket!HandleQueueEmpty, Socket!HandleQueueBlocked, Socket!HandleQueueDropped,
              Socket!HandleQueuePartial, Socket!HandleQueueSent
<1>2. CASE Socket!HandleQueuePopped
  BY <1>2 DEF Socket!HandleQueuePopped, Socket!CloseSocket, Socket!StayOpen
<1> QED
  BY <1>1, <1>2 DEF Socket!HandleQueue

LEMMA HandleQueueRefines == ServerInv /\ HandleQueue => [Thread!Next]_(Thread!vars)
<1> SUFFICES ASSUME ServerInv, HandleQueue PROVE [Thread!Next]_(Thread!vars)
  OBVIOUS
<1>1. /\ UNCHANGED <<listVars, stopped, ioStopped, timer, run, at, opened>>
      /\ cursor' = [cursor EXCEPT ![T] = IF caller = "Update" /\ pc' = "idle" THEN @ + 1 ELSE @]
      /\ pc \in {"HandleQueue", "sent", "dropped"} /\ pc' \in {"idle", "HandleQueue", "sent", "dropped"}
      /\ UNCHANGED <<closing, readOp, caller>>
      /\ closed' = closed \/ (closing /\ closed' = TRUE /\ pc' = "idle")
  BY HandleQueueFacts DEF HandleQueue
<1>2. /\ opened /\ run[T] = "running" /\ cursor \in [{T} -> Nat \ {0}] /\ home[C] = T
      /\ IF caller = "Update"
         THEN at[T] = "updating" /\ cursor[T] <= Len(sockets[T]) /\ ~closed ELSE at[T] = "idle"
  BY <1>1 DEF ServerInv, Inside, Shape
<1>3. reading' = reading
  BY <1>1, SameState
<1>4. closed' = closed => state' = state
  BY <1>1, SameState
<1>5. ~closed /\ closed' = TRUE /\ closing => state[C] = "closing" /\ state' = [state EXCEPT ![C] = "closed"]
  BY <1>1, <1>2 DEF state
<1>6. CASE caller = "Update" /\ pc' = "idle"
  <2>1. at[T] = "updating" /\ cursor[T] <= Len(sockets[T]) /\ ~closed
    BY <1>2, <1>6
  <2>2. sockets[T][cursor[T]] = C
    <3>1. sockets[T] \in Seq({C}) /\ cursor[T] \in Nat \ {0}
      BY DEF ServerInv, Shape
    <3>2. cursor[T] \in 1 .. Len(sockets[T])
      BY <2>1, <3>1
    <3>3. sockets[T][cursor[T]] \in {C}
      BY <3>1, <3>2
    <3> QED
      BY <3>3
  <2>3. state[C] # "closed"
    BY <1>2, <2>1, StateIs
  <2>4. state' = state \/ (state[C] = "closing" /\ state' = [state EXCEPT ![C] = "closed"])
    BY <1>1, <1>4, <1>5, <2>1
  <2>5. cursor' = [cursor EXCEPT ![T] = @ + 1]
    BY <1>1, <1>6
  <2>6. Thread!UpdateOne(T)
    BY <1>1, <1>3, <2>1, <2>2, <2>3, <2>4, <2>5
    DEF Thread!UpdateOne, listVars, Thread!stopVars
  <2> QED
    BY <2>6 DEF Thread!Next, Thread!ThreadNext, Thread!Update
<1>7. CASE ~(caller = "Update" /\ pc' = "idle")
  <2>1. cursor' = cursor
    BY <1>1, <1>2, <1>7
  <2>2. UNCHANGED threadVars
    BY <1>1, <2>1 DEF threadVars
  <2>3. CASE closed' = closed \/ closed
    <3>1. state' = state
      BY <1>1, <1>2, <1>4, <2>3 DEF state
    <3> QED
      BY <1>3, <2>2, <3>1, ThreadSame
  <2>4. CASE ~(closed' = closed \/ closed)
    <3>1. closing /\ closed' = TRUE /\ pc' = "idle" /\ ~closed /\ caller # "Update"
      BY <1>1, <1>7, <2>4
    <3>2. Thread!EndsHandler(T)
      BY <1>2, <3>1 DEF Thread!EndsHandler
    <3>3. Thread!WriteHandler(T, C)
      BY <1>2, <1>3, <1>5, <2>2, <3>1, <3>2
      DEF Thread!WriteHandler, threadVars, listVars, Thread!listVars, Thread!stopVars, Thread!runVars
    <3> QED
      BY <3>3 DEF Thread!Next, Thread!ThreadNext
  <2> QED
    BY <2>3, <2>4
<1> QED
  BY <1>6, <1>7

\* Every step of the server is one of the thread, or none.
LEMMA ServerRefines == ServerInv /\ [Next]_vars => [Thread!Next]_(Thread!vars)
<1> SUFFICES ASSUME ServerInv, [Next]_vars PROVE [Thread!Next]_(Thread!vars)
  OBVIOUS
<1>1. CASE Open \/ Owner \/ OwnerGoesOn \/ Delete
  <2>1. Thread!OwnerNext(T)
    BY <1>1 DEF Open, Owner, OwnerGoesOn, Delete, Thread!OwnerNext
  <2> QED
    BY <2>1 DEF Thread!Next
<1>2. CASE Loop \/ TimerExpires \/ UpdateClosed \/ UpdateNothing
  <2>1. Thread!ThreadNext(T)
    BY <1>2 DEF Loop, TimerExpires, UpdateClosed, UpdateNothing, Thread!ThreadNext, Thread!Update
  <2> QED
    BY <2>1 DEF Thread!Next
<1>3. CASE UpdateQueue
  <2>1. UNCHANGED <<threadVars, opened, closed, closing, readOp>> /\ pc = "idle" /\ pc' = "HandleQueue"
    BY <1>3 DEF UpdateQueue, Updating, Socket!Update
  <2> QED
    BY <2>1, SameState, ThreadSame
<1>4. CASE ReadCompletes
  <2>1. /\ UNCHANGED <<threadVars, opened, closed, closing>> /\ readOp
        /\ readOp' = FALSE /\ pc' = "ReadHandler"
    BY <1>4 DEF ReadCompletes, Dispatch, Socket!ReadHandlerInternal, Socket!kernel
  <2>2. state' = state /\ reading' = reading
    BY <2>1 DEF state, reading
  <2> QED
    BY <2>1, <2>2, ThreadSame
<1>5. CASE WriteReady
  <2>1. UNCHANGED <<threadVars, opened, closed, closing, readOp>> /\ pc = "idle" /\ pc' = "HandleQueue"
    BY <1>5 DEF WriteReady, Dispatch, Socket!WriteHandlerWrapper, Socket!Handling
  <2> QED
    BY <2>1, SameState, ThreadSame
<1>6. CASE PeerReads \/ PeerCloses
  <2>1. UNCHANGED <<threadVars, opened, closed, closing, readOp, pc>>
    BY <1>6 DEF PeerReads, PeerCloses, Socket!PeerReads, Socket!PeerCloses, Socket!code
  <2> QED
    BY <2>1, SameState, ThreadSame
<1>7. CASE UNCHANGED vars
  <2>1. UNCHANGED <<threadVars, opened, closed, closing, readOp, pc>>
    BY <1>7 DEF vars, socketVars
  <2> QED
    BY <2>1, SameState, ThreadSame
<1> QED
  BY <1>1, <1>2, <1>3, <1>4, <1>5, <1>6, <1>7, ReadHandlerRefines, ReadFailsRefines,
     DelayedCloseRefines, HandleQueueRefines DEF Next, Update

\* Erasing an element.
LEMMA RemoveAtSeq ==
    ASSUME NEW S, NEW s \in Seq(S), NEW i \in 1 .. Len(s)
    PROVE  Thread!RemoveAt(s, i) \in Seq(S)
<1>1. SubSeq(s, 1, i - 1) \in Seq(S) /\ SubSeq(s, i + 1, Len(s)) \in Seq(S)
  OBVIOUS
<1> QED
  BY <1>1, ConcatProperties DEF Thread!RemoveAt

LEMMA ShapeStep == Shape /\ [Thread!Next]_(Thread!vars) => Shape'
<1> SUFFICES ASSUME Shape, [Thread!Next]_(Thread!vars) PROVE Shape'
  OBVIOUS
<1> USE DEF Thread!sessionVars, Thread!listVars, Thread!stopVars, Thread!runVars
<1>1. CASE UNCHANGED Thread!vars
  BY <1>1 DEF Shape, Thread!vars
<1>2. CASE Thread!OwnerNext(T)
  <2>1. CASE Thread!Start(T) \/ Thread!Stop(T) \/ Thread!StopIo(T) \/ Thread!Wait(T) \/ Thread!Delete(T)
    BY <2>1 DEF Shape, Thread!Lives, Thread!Start, Thread!Stop, Thread!StopIo, Thread!Wait, Thread!Delete
  <2>2. CASE Thread!Open(T, C)
    BY <2>2 DEF Shape, Thread!Open
  <2>3. CASE Thread!AddSocket(T, C)
    <3>1. Append(newSockets[T], C) \in Seq({C})
      BY DEF Shape
    <3> QED
      BY <2>3, <3>1 DEF Shape, Thread!AddSocket
  <2> QED
    BY <1>2, <2>1, <2>2, <2>3 DEF Thread!OwnerNext
<1>3. CASE Thread!ThreadNext(T)
  <2>1. CASE Thread!RunBegin(T) \/ Thread!ReadHandler(T, C) \/ Thread!WriteHandler(T, C) \/ Thread!UpdateBegin(T)
    BY <2>1 DEF Shape, Thread!Lives, Thread!Places, Thread!RunBegin, Thread!ReadHandler,
                Thread!WriteHandler, Thread!UpdateBegin
  <2>2. CASE Thread!RunEnd(T)
    BY <2>2 DEF Shape, Thread!Lives, Thread!RunEnd
  <2>3. CASE Thread!AddNewSockets(T)
    <3>1. UNCHANGED <<home, hand, newSockets, sockets, run>> /\ cursor' = [cursor EXCEPT ![T] = 1]
      BY <2>3 DEF Thread!AddNewSockets
    <3>2. at' = [at EXCEPT ![T] = "updating"] \/ at' = [at EXCEPT ![T] = "adding"]
      BY <2>3 DEF Thread!AddNewSockets
    <3>3. cursor' \in [{T} -> Nat \ {0}]
      BY <3>1 DEF Shape
    <3>4. at' \in [{T} -> Thread!Places]
      BY <3>2 DEF Shape, Thread!Places
    <3> QED
      BY <3>1, <3>3, <3>4 DEF Shape
  <2>6. CASE Thread!AddDone(T)
    <3>1. newSockets' \in [{T} -> Seq({C})] /\ cursor' \in [{T} -> Nat \ {0}]
      BY <2>6 DEF Shape, Thread!AddDone
    <3>2. at' \in [{T} -> Thread!Places]
      BY <2>6 DEF Shape, Thread!Places, Thread!AddDone
    <3> QED
      BY <2>6, <3>1, <3>2 DEF Shape, Thread!AddDone
  <2>7. CASE Thread!UpdateDone(T)
    BY <2>7 DEF Shape, Thread!Places, Thread!UpdateDone
  <2>4. CASE Thread!AddOne(T)
    <3>1. /\ cursor[T] \in Nat \ {0} /\ newSockets[T] \in Seq({C}) /\ cursor[T] <= Len(newSockets[T])
          /\ sockets[T] \in Seq({C})
      BY <2>4 DEF Shape, Thread!AddOne
    <3>2. cursor[T] \in 1 .. Len(newSockets[T])
      BY <3>1
    <3>3. newSockets[T][cursor[T]] \in {C}
      BY <3>1, <3>2
    <3>4. Append(sockets[T], newSockets[T][cursor[T]]) \in Seq({C})
      BY <3>1, <3>3
    <3>5. sockets' \in [{T} -> Seq({C})]
      BY <2>4, <3>4 DEF Shape, Thread!AddOne
    <3> QED
      BY <2>4, <3>1, <3>5 DEF Shape, Thread!AddOne
  <2>5. CASE Thread!UpdateOne(T)
    <3>1. cursor[T] \in Nat \ {0} /\ sockets[T] \in Seq({C}) /\ cursor[T] <= Len(sockets[T])
      BY <2>5 DEF Shape, Thread!UpdateOne
    <3>2. cursor[T] \in 1 .. Len(sockets[T])
      BY <3>1
    <3>3. Thread!RemoveAt(sockets[T], cursor[T]) \in Seq({C})
      BY <3>1, <3>2, RemoveAtSeq
    <3>4. sockets' \in [{T} -> Seq({C})] /\ cursor' \in [{T} -> Nat \ {0}]
      BY <2>5, <3>1, <3>3 DEF Shape, Thread!UpdateOne
    <3> QED
      BY <2>5, <3>4 DEF Shape, Thread!UpdateOne
  <2> QED
    BY <1>3, <2>1, <2>2, <2>3, <2>4, <2>5, <2>6, <2>7 DEF Thread!ThreadNext, Thread!Update
<1>4. CASE Thread!DelayedCloseSocket(C)
  BY <1>4 DEF Shape, Thread!DelayedCloseSocket
<1> QED
  BY <1>1, <1>2, <1>3, <1>4 DEF Thread!Next, Thread!AnyoneNext

\* The socket's own steps, which leave the thread alone.
LEMMA SocketKeeps ==
    ASSUME ServerInv, UNCHANGED <<threadVars, opened>>, opened,
           \/ ReadHandler \/ ReadCompletes \/ ReadFails \/ WriteReady \/ UpdateQueue
           \/ DelayedCloseSocket \/ PeerReads \/ PeerCloses
    PROVE  SocketShape' /\ Unopened' /\ Inside'
<1> USE DEF ServerInv, SocketShape, Socket!Places, Socket!Callers
<1>1. UNCHANGED <<hand, newSockets, sockets, cursor, at, run, opened>>
  BY DEF threadVars, listVars
<1>2. Unopened'
  BY <1>1 DEF Unopened
<1>3. CASE ReadHandler
  <2>1. /\ UNCHANGED <<closing, caller>> /\ pc' = "idle"
        /\ closed' \in {TRUE, closed} /\ readOp' \in {readOp, (~closed /\ ~closing)}
    BY <1>3 DEF ReadHandler, Socket!ReadHandler, Socket!CloseSocket, Socket!StayOpen, Socket!AsyncRead, Socket!IsOpen
  <2>2. closed' \in BOOLEAN /\ readOp' \in BOOLEAN /\ closing' \in BOOLEAN
    BY <2>1
  <2>3. SocketShape'
    BY <1>1, <2>1, <2>2
  <2>4. Inside'
    BY <1>1, <2>1 DEF Inside
  <2> QED
    BY <1>2, <2>3, <2>4
<1>4. CASE ReadCompletes
  <2>1. /\ UNCHANGED <<closing, closed, caller>> /\ pc' = "ReadHandler" /\ readOp' = FALSE
        /\ run[T] = "running" /\ at[T] = "idle"
    BY <1>4 DEF ReadCompletes, Dispatch, Thread!Dispatching, Socket!ReadHandlerInternal
  <2>2. SocketShape'
    BY <1>1, <2>1
  <2>3. Inside'
    <3>1. pc' # "idle" => opened' /\ run'[T] = "running"
      BY <1>1, <2>1
    <3>2. at'[T] = "idle" /\ ~readOp'
      BY <1>1, <2>1
    <3>3. pc' \notin {"HandleQueue", "sent", "dropped"}
      BY <2>1
    <3> QED
      BY <3>1, <3>2, <3>3 DEF Inside
  <2> QED
    BY <1>2, <2>2, <2>3
<1>5. CASE ReadFails
  <2>1. /\ UNCHANGED <<closing, caller>> /\ pc' = "idle" /\ closed' = TRUE /\ readOp' = FALSE
    BY <1>5 DEF ReadFails, Dispatch, Socket!ReadError, Socket!CloseSocket, Socket!Handling
  <2> QED
    BY <1>1, <1>2, <2>1 DEF Inside
<1>6. CASE WriteReady
  <2>1. /\ UNCHANGED <<closing, closed, readOp>> /\ pc' = "HandleQueue" /\ caller' = "WriteHandlerWrapper"
        /\ run[T] = "running" /\ at[T] = "idle"
    BY <1>6 DEF WriteReady, Dispatch, Thread!Dispatching, Socket!WriteHandlerWrapper
  <2> QED
    BY <1>1, <1>2, <2>1 DEF Inside
<1>7. CASE UpdateQueue
  <2>1. /\ UNCHANGED <<closing, closed, readOp>> /\ pc' = "HandleQueue" /\ caller' = "Update" /\ ~closed
        /\ at[T] = "updating" /\ cursor[T] <= Len(sockets[T]) /\ Socket!Update
    BY <1>7 DEF UpdateQueue, Updating, Socket!Update
  <2>2. run[T] = "running"
    BY <2>1 DEF Inside
  <2> QED
    BY <1>1, <1>2, <2>1, <2>2 DEF Inside
<1>8. CASE DelayedCloseSocket
  <2>1. UNCHANGED <<closed, readOp, pc, caller>> /\ closing' = TRUE
    BY <1>8 DEF DelayedCloseSocket, Socket!DelayedCloseSocket
  <2> QED
    BY <1>1, <1>2, <2>1 DEF Inside
<1>9. CASE PeerReads \/ PeerCloses
  <2>1. UNCHANGED <<closing, closed, readOp, pc, caller>>
    BY <1>9 DEF PeerReads, PeerCloses, Socket!PeerReads, Socket!PeerCloses, Socket!code
  <2> QED
    BY <1>1, <1>2, <2>1 DEF Inside
<1> QED
  BY <1>3, <1>4, <1>5, <1>6, <1>7, <1>8, <1>9

\* The owner's steps, which come at any moment, leave alone what the thread is
\* working on.
LEMMA OwnerKeeps ==
    ASSUME ServerInv, Open \/ Owner \/ OwnerGoesOn \/ Delete
    PROVE  SocketShape' /\ Unopened' /\ Inside'
<1>1. /\ UNCHANGED <<pc, caller, closed, closing, sockets, cursor, at>>
      /\ readOp' \in {readOp, FALSE} /\ (opened' = TRUE \/ opened' = opened)
  BY DEF Open, Owner, OwnerGoesOn, Delete, socketVars, Thread!Open, Thread!Start, Thread!Stop,
         Thread!AddSocket, Thread!StopIo, Thread!Wait, Thread!Delete, Thread!listVars, Thread!runVars
<1>2. run[T] = "running" => run'[T] = "running"
  BY DEF Open, Owner, OwnerGoesOn, Delete, Thread!Open, Thread!Start, Thread!Stop,
         Thread!AddSocket, Thread!StopIo, Thread!Wait, Thread!Delete, Thread!runVars
<1>3. ~opened' => UNCHANGED <<hand, newSockets>>
  <2>1. CASE Open
    BY <2>1 DEF Open
  <2>2. CASE Owner \/ Delete
    BY <2>2 DEF Owner, Delete, Thread!Start, Thread!Stop, Thread!Delete, Thread!listVars, Thread!sessionVars
  <2>3. CASE OwnerGoesOn
    BY <2>3 DEF OwnerGoesOn, Thread!AddSocket, Thread!StopIo, Thread!Wait, Thread!listVars,
                Thread!sessionVars, ServerInv, Unopened
  <2> QED
    BY <2>1, <2>2, <2>3
<1>4. SocketShape'
  BY <1>1 DEF ServerInv, SocketShape
<1>5. Unopened'
  BY <1>1, <1>3 DEF ServerInv, Unopened
<1>6. Inside'
  <2>1. ~readOp => ~readOp'
    BY <1>1
  <2>2. opened => opened'
    BY <1>1
  <2> QED
    BY <1>1, <1>2, <2>1, <2>2 DEF ServerInv, Inside
<1> QED
  BY <1>4, <1>5, <1>6

\* The thread's steps between its calls of the socket.
LEMMA LoopKeeps ==
    ASSUME ServerInv, Loop \/ TimerExpires \/ UpdateClosed \/ UpdateNothing
    PROVE  SocketShape' /\ Unopened' /\ Inside'
<1>1. pc = "idle" /\ UNCHANGED <<socketVars, opened>>
  BY DEF Loop, TimerExpires, UpdateClosed, UpdateNothing, Updating
<1>2. UNCHANGED <<pc, caller, closed, closing, readOp, opened>>
  BY <1>1 DEF socketVars
<1>3. at \in [{T} -> Thread!Places] /\ run \in [{T} -> Thread!Lives] /\ (at[T] # "idle" => run[T] = "running")
  BY DEF ServerInv, Shape, Inside
<1>4. at'[T] # "idle" => run'[T] = "running"
  <2>1. CASE Loop
    BY <1>3, <2>1 DEF Loop, Thread!RunBegin, Thread!RunEnd, Thread!AddNewSockets, Thread!AddOne, Thread!AddDone,
              Thread!UpdateDone
  <2>2. CASE TimerExpires
    BY <1>3, <2>2 DEF TimerExpires, Thread!UpdateBegin, Thread!Dispatching
  <2>3. CASE UpdateClosed \/ UpdateNothing
    BY <1>3, <2>3 DEF UpdateClosed, UpdateNothing, Thread!UpdateOne
  <2> QED
    BY <2>1, <2>2, <2>3
<1>5. ASSUME ~opened PROVE hand' = {} /\ newSockets'[T] = <<>> /\ sockets'[T] = <<>>
  <2>1. /\ hand = {} /\ newSockets[T] = <<>> /\ sockets[T] = <<>> /\ cursor[T] \in Nat \ {0}
        /\ newSockets \in [{T} -> Seq({C})] /\ sockets \in [{T} -> Seq({C})]
    BY <1>5 DEF ServerInv, Unopened, Shape
  <2>2. ~(cursor[T] <= Len(newSockets[T])) /\ ~(cursor[T] <= Len(sockets[T]))
    BY <2>1
  <2>3. CASE Loop
    <3>1. ~Thread!AddOne(T)
      BY <2>2 DEF Thread!AddOne
    <3> QED
      BY <2>1, <2>3, <3>1 DEF Loop, Thread!RunBegin, Thread!RunEnd, Thread!AddNewSockets,
         Thread!AddDone, Thread!UpdateDone, Thread!sessionVars, Thread!listVars
  <2>4. CASE TimerExpires
    BY <2>1, <2>4 DEF TimerExpires, Thread!UpdateBegin, Thread!sessionVars, Thread!listVars
  <2>5. CASE UpdateClosed \/ UpdateNothing
    BY <2>2, <2>5 DEF UpdateClosed, UpdateNothing, Thread!UpdateOne
  <2> QED
    BY <2>3, <2>4, <2>5
<1>6. SocketShape'
  BY <1>2 DEF ServerInv, SocketShape
<1>7. Unopened'
  BY <1>2, <1>5 DEF Unopened
<1>8. Inside'
  BY <1>1, <1>2, <1>4 DEF Inside
<1> QED
  BY <1>6, <1>7, <1>8

LEMMA HandleQueueKeeps == ASSUME ServerInv, HandleQueue PROVE SocketShape' /\ Unopened' /\ Inside'
<1>1. /\ UNCHANGED <<listVars, run, at, opened>>
      /\ cursor' = [cursor EXCEPT ![T] = IF caller = "Update" /\ pc' = "idle" THEN @ + 1 ELSE @]
      /\ pc \in {"HandleQueue", "sent", "dropped"} /\ pc' \in {"idle", "HandleQueue", "sent", "dropped"}
      /\ UNCHANGED <<closing, readOp, caller>>
      /\ closed' = closed \/ (closing /\ closed' = TRUE /\ pc' = "idle")
  BY HandleQueueFacts DEF HandleQueue
<1>2. UNCHANGED <<hand, newSockets, sockets>>
  BY <1>1 DEF listVars
<1>3. SocketShape'
  <2>1. closed' \in BOOLEAN
    BY <1>1 DEF ServerInv, SocketShape
  <2>2. pc' \in Socket!Places
    BY <1>1 DEF Socket!Places
  <2> QED
    BY <1>1, <2>1, <2>2 DEF ServerInv, SocketShape
<1>4. Unopened'
  BY <1>1, <1>2 DEF ServerInv, Unopened
<1>5. Inside'
  <2>1. CASE pc' = "idle"
    BY <1>1, <2>1 DEF ServerInv, Inside
  <2>2. CASE pc' # "idle"
    <3>1. cursor' = cursor /\ closed' = closed
      BY <1>1, <2>2 DEF ServerInv, Shape
    <3> QED
      BY <1>1, <1>2, <3>1 DEF ServerInv, Inside
  <2> QED
    BY <2>1, <2>2
<1> QED
  BY <1>3, <1>4, <1>5

LEMMA ServerKeeps == ServerInv /\ [Next]_vars => ServerInv'
<1> SUFFICES ASSUME ServerInv, [Next]_vars PROVE ServerInv'
  OBVIOUS
<1>1. Shape'
  BY ServerRefines, ShapeStep DEF ServerInv
<1>2. CASE Open \/ Owner \/ OwnerGoesOn \/ Delete
  BY <1>1, <1>2, OwnerKeeps DEF ServerInv
<1>3. CASE Loop \/ TimerExpires \/ UpdateClosed \/ UpdateNothing
  BY <1>1, <1>3, LoopKeeps DEF ServerInv
<1>4. CASE HandleQueue
  BY <1>1, <1>4, HandleQueueKeeps DEF ServerInv
<1>5. CASE \/ ReadHandler \/ ReadCompletes \/ ReadFails \/ WriteReady \/ UpdateQueue
           \/ DelayedCloseSocket \/ PeerReads \/ PeerCloses
  <2>1. UNCHANGED <<threadVars, opened>>
    BY <1>5 DEF ReadHandler, ReadCompletes, ReadFails, WriteReady, Dispatch, UpdateQueue,
                DelayedCloseSocket, PeerReads, PeerCloses
  <2>2. opened
    <3>1. CASE ReadHandler
      BY <3>1 DEF ReadHandler, Socket!ReadHandler, ServerInv, Inside
    <3>2. CASE UpdateQueue
      <4>1. cursor[T] \in Nat \ {0} /\ cursor[T] <= Len(sockets[T]) /\ sockets[T] \in Seq({C})
        BY <3>2 DEF UpdateQueue, Updating, ServerInv, Shape
      <4>2. sockets[T] # <<>>
        BY <4>1
      <4> QED
        BY <4>2 DEF ServerInv, Unopened
    <3> QED
      BY <1>5, <3>1, <3>2 DEF ReadCompletes, ReadFails, WriteReady, Dispatch, DelayedCloseSocket,
                              PeerReads, PeerCloses
  <2> QED
    BY <1>1, <1>5, <2>1, <2>2, SocketKeeps DEF ServerInv
<1>6. CASE UNCHANGED vars
  <2>1. UNCHANGED <<pc, caller, closed, closing, readOp, opened, hand, newSockets, sockets, cursor, at, run>>
    BY <1>6 DEF vars, socketVars, threadVars, listVars
  <2> QED
    BY <1>1, <2>1 DEF ServerInv, SocketShape, Unopened, Inside
<1> QED
  BY <1>2, <1>3, <1>4, <1>5, <1>6 DEF Next, Update

\* Every behaviour of a thread and the socket of its session put together is one
\* that NetworkThread allows a thread and its session, with the session's state
\* and its reading computed from the socket's own variables.
THEOREM ServerCorrect == Spec => ImplementsNetworkThread
<1>1. Init => Thread!Init
  BY DEF Init
<1>2. ServerInv /\ [Next]_vars => [Thread!Next]_(Thread!vars)
  BY ServerRefines
<1> QED
  BY <1>1, <1>2, ServerBegins, ServerKeeps, PTL DEF Spec, ImplementsNetworkThread, Thread!Spec

-----------------------------------------------------------------------------
(* Numbers.                                                                *)

\* A set of numbers has a least one: what takes the place of induction where a
\* smallest counterexample is looked at.
LEMMA LeastNat == ASSUME NEW Set, Set \subseteq Nat, Set # {} PROVE \E x \in Set : \A y \in Set : x <= y
<1>1. PICK R : R = OpToRel(<, Nat)
  OBVIOUS
<1>2. IsWellFoundedOn(R, Nat)
  BY <1>1, NatLessThanWellFounded
<1>3. PICK x \in Set : \A y \in Set : ~ (<<y, x>> \in R)
  BY <1>2, WFMin
<1>4. \A y \in Set : y < x => <<y, x>> \in R
  BY <1>1, Zenon DEF OpToRel
<1>5. \A y \in Set : ~(y < x)
  BY <1>3, <1>4, Zenon
<1>6. \A y \in Set : x <= y
  BY <1>5
<1> QED
  BY <1>6

-----------------------------------------------------------------------------
(* Config and Main.  Their variables are u1: configOptions,                *)
(* u2: usingDistConfig, u3: load, u4: outcome, u5: text, u6: before,       *)
(* u7: pc, u8: port.                                                       *)

\* The options that a text has, with their values.
Named(lines) == {n \in Names : Main!EntriesOf(lines, n) # {}}
Said(lines) == [n \in Named(lines) |-> Main!ValueIn(lines, n)]

\* The i-th line is the first one with option n.
FirstAt(lines, n, i) ==
    i \in Main!EntriesOf(lines, n) /\ \A j \in Main!EntriesOf(lines, n) : i <= j

LEMMA LinesApart ==
    /\ Main!Unreadable \notin Main!Entries /\ Main!Skipped \notin Main!Entries
    /\ Main!Skipped # Main!Unreadable
    /\ \A line \in Main!Lines : line # [kind |-> "missing"]
<1>1. \A line \in Main!Entries : line.kind = "option"
  BY DEF Main!Entries
<1>2. Main!Unreadable.kind = "unreadable" /\ Main!Skipped.kind = "skipped"
  BY DEF Main!Unreadable, Main!Skipped
<1>3. [kind |-> "missing"].kind = "missing"
  OBVIOUS
<1> QED
  BY <1>1, <1>2, <1>3 DEF Main!Lines

LEMMA EntriesFacts ==
    ASSUME NEW lines \in Seq(Main!Lines), NEW n
    PROVE  /\ Main!EntriesOf(lines, n) \subseteq 1 .. Len(lines)
           /\ \A i \in Main!EntriesOf(lines, n) : lines[i] \in Main!Entries /\ lines[i].name = n
           /\ Main!EntriesOf(lines, n) # {} => \E i : FirstAt(lines, n, i)
           /\ \A i : FirstAt(lines, n, i) => Main!ValueIn(lines, n) = lines[i].value
<1>1. PICK E : E = Main!EntriesOf(lines, n)
  OBVIOUS
<1>2. E = {i \in 1 .. Len(lines) : lines[i] \in Main!Entries /\ lines[i].name = n}
  BY <1>1 DEF Main!EntriesOf
<1>3. E \subseteq Nat
  BY <1>2
<1>4. E # {} => \E i \in E : \A j \in E : i <= j
  BY <1>3, LeastNat
<1>5. ASSUME NEW i, FirstAt(lines, n, i) PROVE Main!ValueIn(lines, n) = lines[i].value
  <2>1. i \in E /\ \A j \in E : i <= j
    BY <1>1, <1>5 DEF FirstAt
  <2>2. PICK k : k = CHOOSE l \in E : \A j \in E : l <= j
    OBVIOUS
  <2>3. k \in E /\ \A j \in E : k <= j
    BY <2>1, <2>2
  <2>4. k = i
    BY <1>3, <2>1, <2>3
  <2> QED
    BY <1>1, <2>2, <2>4 DEF Main!ValueIn
<1> QED
  BY <1>1, <1>2, <1>4, <1>5 DEF FirstAt

LEMMA SaidFacts ==
    ASSUME NEW lines \in Seq(Main!Lines)
    PROVE  /\ Said(lines) \in [Named(lines) -> Values]
           /\ DOMAIN Said(lines) = Named(lines)
           /\ \A n \in Named(lines) : Said(lines)[n] = Main!ValueIn(lines, n)
<1>1. ASSUME NEW n \in Named(lines) PROVE Main!ValueIn(lines, n) \in Values
  <2>1. PICK i : FirstAt(lines, n, i)
    BY EntriesFacts DEF Named
  <2>2. Main!ValueIn(lines, n) = lines[i].value /\ lines[i] \in Main!Entries
    BY <2>1, EntriesFacts DEF FirstAt
  <2> QED
    BY <2>2 DEF Main!Entries
<1> QED
  BY <1>1 DEF Said

LEMMA SaidNothing == Said(<<>>) = Main!NoOptions /\ Named(<<>>) = {}
<1>1. \A n : Main!EntriesOf(<<>>, n) = {}
  BY DEF Main!EntriesOf
<1>2. Named(<<>>) = {}
  BY <1>1 DEF Named
<1> QED
  BY <1>2 DEF Said, Main!NoOptions

\* One more line adds its option, unless the option was there before.
LEMMA SaidAppend ==
    ASSUME NEW lines \in Seq(Main!Lines), NEW line \in Main!Lines
    PROVE  Said(Append(lines, line)) =
             IF line \in Main!Entries /\ line.name \notin DOMAIN Said(lines)
             THEN Main!WithEntry(Said(lines), line.name, line.value) ELSE Said(lines)
<1>1. PICK more : more = Append(lines, line)
  OBVIOUS
<1>2. PICK len \in Nat : len = Len(lines)
  OBVIOUS
<1>3. /\ more \in Seq(Main!Lines) /\ Len(more) = len + 1
      /\ \A i \in 1 .. len : more[i] = lines[i]
      /\ more[len + 1] = line
  BY <1>1, <1>2
<1>4. ASSUME NEW n
      PROVE  Main!EntriesOf(more, n) =
               Main!EntriesOf(lines, n) \cup
                 (IF line \in Main!Entries /\ line.name = n THEN {len + 1} ELSE {})
  <2>1. Main!EntriesOf(more, n) = {i \in 1 .. len + 1 : more[i] \in Main!Entries /\ more[i].name = n}
    BY <1>3 DEF Main!EntriesOf
  <2>2. Main!EntriesOf(lines, n) = {i \in 1 .. len : lines[i] \in Main!Entries /\ lines[i].name = n}
    BY <1>2 DEF Main!EntriesOf
  <2> QED
    BY <1>2, <1>3, <2>1, <2>2
<1>5. Named(more) = Named(lines) \cup (IF line \in Main!Entries THEN {line.name} ELSE {})
  <2>1. line \in Main!Entries => line.name \in Names
    BY DEF Main!Entries
  <2> QED
    BY <1>4, <2>1 DEF Named
<1>6. ASSUME NEW n \in Named(lines) PROVE Main!ValueIn(more, n) = Main!ValueIn(lines, n)
  <2>1. PICK i : FirstAt(lines, n, i)
    BY EntriesFacts DEF Named
  <2>2. i \in 1 .. len
    BY <1>2, <2>1, EntriesFacts DEF FirstAt
  <2>3. FirstAt(more, n, i)
    <3>1. i \in Main!EntriesOf(more, n)
      BY <1>4, <2>1 DEF FirstAt
    <3>2. \A j \in Main!EntriesOf(more, n) : i <= j
      BY <1>4, <2>1, <2>2 DEF FirstAt
    <3> QED
      BY <3>1, <3>2 DEF FirstAt
  <2>4. more[i] = lines[i]
    BY <1>3, <2>2
  <2> QED
    BY <1>3, <2>1, <2>3, <2>4, EntriesFacts
<1>7. ASSUME line \in Main!Entries, line.name \notin Named(lines)
      PROVE  Main!ValueIn(more, line.name) = line.value
  <2>1. Main!EntriesOf(lines, line.name) = {}
    BY <1>7 DEF Named, Main!Entries
  <2>2. Main!EntriesOf(more, line.name) = {len + 1}
    BY <1>4, <1>7, <2>1
  <2>3. FirstAt(more, line.name, len + 1)
    BY <2>2 DEF FirstAt
  <2> QED
    BY <1>3, <2>3, EntriesFacts
<1>8. DOMAIN Said(lines) = Named(lines)
  BY DEF Said
<1>9. CASE line \in Main!Entries /\ line.name \notin Named(lines)
  <2>1. Said(more) = Main!WithEntry(Said(lines), line.name, line.value)
    BY <1>5, <1>6, <1>7, <1>8, <1>9 DEF Said, Main!WithEntry
  <2> QED
    BY <1>1, <1>8, <1>9, <2>1
<1>10. CASE ~(line \in Main!Entries /\ line.name \notin Named(lines))
  <2>1. Named(more) = Named(lines)
    BY <1>5, <1>10
  <2>2. Said(more) = Said(lines)
    BY <1>6, <2>1 DEF Said
  <2> QED
    BY <1>1, <1>8, <1>10, <2>2
<1> QED
  BY <1>9, <1>10

\* A text that was read without an error so far, and one that was read to its end.
Readable(lines) == lines \in Seq(Main!Lines) /\ \A i \in DOMAIN lines : lines[i] # Main!Unreadable

\* The options after those of done have been added to base, where strict says
\* that only known options and those of the logging system are accepted.
Overlaid(base, said, done, strict) ==
    [n \in DOMAIN base \cup {m \in done : ~strict \/ m \in DOMAIN base \cup LoggingNames} |->
        IF n \in done THEN said[n] ELSE base[n]]

\* The options when the file in progress was opened: LoadInitial has cleared
\* them, and LoadAppConfigs goes on with the .conf file over those of the .dist
\* file.
Base ==
    IF u3.call = "additional" THEN u6
    ELSE IF u3.file = Main!Dist THEN Main!NoOptions ELSE Said(u5[Main!Dist])

Reading ==
    /\ u1 = Base
    /\ Readable(u5[u3.file])
    /\ u3.fileConfigs = Said(u5[u3.file])

Adding ==
    /\ Readable(u5[u3.file]) /\ Named(u5[u3.file]) # {}
    /\ DOMAIN u3.fileConfigs \subseteq Named(u5[u3.file])
    /\ u3.fileConfigs = [n \in DOMAIN u3.fileConfigs |-> Said(u5[u3.file])[n]]
    /\ u1 = Overlaid(Base, Said(u5[u3.file]), Named(u5[u3.file]) \ DOMAIN u3.fileConfigs,
                    u3.isOptional /\ ~u3.isReload)

\* LoadInitial is called for the .dist file; only LoadAppConfigs goes on with
\* the .conf file.
Called ==
    u3.call # "additional" =>
        IF u3.file = Main!Dist THEN ~u3.isOptional
        ELSE /\ u3.call = "app" /\ u3.isOptional /\ ~u3.isReload
             /\ Readable(u5[Main!Dist]) /\ Named(u5[Main!Dist]) # {}

Loading ==
    /\ u3 \in Main!Loads
    /\ u4 = "none"
    /\ u3.phase = "reading" => Reading
    /\ u3.phase = "adding" => Adding
    /\ Called

Loaded ==
    /\ u4 = "appConfigs" => Main!Usable(u5[Main!Dist]) /\ u5[Main!Dist] \in Seq(Main!Lines)
    /\ u4 = "appConfigs" => u5[Main!Conf] = Main!Missing \/ u5[Main!Conf] \in Seq(Main!Lines)
    /\ Main!Layered
    /\ Main!AllOrNothing

IsFunction(f) == f = [n \in DOMAIN f |-> f[n]]

ConfigInv ==
    /\ IsFunction(u1) /\ IsFunction(u6)
    /\ DOMAIN u5 = {Main!Dist, Main!Conf}
    /\ IF u3 = Main!Idle THEN Loaded ELSE Loading

LEMMA IdleApart == \A x \in Main!Loads : x # Main!Idle
<1>1. \A x \in Main!Loads : x.phase \in {"reading", "adding"}
  BY DEF Main!Loads, Main!Phases
<1>2. Main!Idle.phase = "idle"
  BY DEF Main!Idle
<1> QED
  BY <1>1, <1>2

LEMMA UsableFacts ==
    ASSUME NEW lines
    PROVE  /\ Readable(lines) /\ Named(lines) # {} => Main!Usable(lines)
           /\ Main!Usable(lines) => Named(lines) # {}
           /\ lines = Main!Missing => ~Main!Usable(lines)
           /\ (\E i \in DOMAIN lines : lines[i] = Main!Unreadable) => ~Main!Usable(lines)
           /\ Named(lines) = {} => ~Main!Usable(lines)
<1>1. ASSUME lines \in Seq(Main!Lines) PROVE lines # Main!Missing
  <2> SUFFICES ASSUME lines = Main!Missing PROVE FALSE
    OBVIOUS
  <2>1. Len(lines) = 1 /\ lines[1] = [kind |-> "missing"]
    BY DEF Main!Missing
  <2>2. lines[1] \in Main!Lines
    BY <1>1, <2>1
  <2> QED
    BY <2>1, <2>2, LinesApart
<1> QED
  BY <1>1 DEF Readable, Named, Main!Usable

LEMMA ConfigInit == Main!Init => ConfigInv
BY DEF Main!Init, ConfigInv, IsFunction, Main!NoOptions, Loaded, Main!Layered, Main!AllOrNothing, Main!NotRead, Main!Dist, Main!Conf

\* What Layered says of the texts d and c.
Layers(d, c) ==
    [n \in {m \in Names : Main!Defines(d, m)} \cup {m \in LoggingNames : Main!Defines(c, m)} |->
        IF Main!Defines(c, n) THEN Main!ValueIn(c, n) ELSE Main!ValueIn(d, n)]

LEMMA LayeredIs == Main!Layered <=> (u4 = "appConfigs" => u1 = Layers(u5[Main!Dist], u5[Main!Conf]))
BY DEF Main!Layered, Layers

\* An unusable .conf file leaves the options of the .dist file.
LEMMA LayersWithout ==
    ASSUME NEW d, NEW c, Main!Usable(d), ~Main!Usable(c)
    PROVE  Layers(d, c) = Said(d)
<1>1. \A n : ~Main!Defines(c, n)
  BY DEF Main!Defines
<1>2. {n \in Names : Main!Defines(d, n)} = Named(d)
  BY DEF Main!Defines, Named
<1>3. {n \in LoggingNames : Main!Defines(c, n)} = {}
  BY <1>1
<1> QED
  BY <1>1, <1>2, <1>3 DEF Layers, Said

LEMMA LayersWith ==
    ASSUME NEW d, NEW c, Main!Usable(d), Main!Usable(c)
    PROVE  Layers(d, c) = Overlaid(Said(d), Said(c), Named(c), TRUE)
<1>2. {n \in Names : Main!Defines(d, n)} = Named(d)
  BY DEF Main!Defines, Named
<1>3. LoggingNames \subseteq Names
  BY UtilitiesAssumption DEF Main!MainAssumption, Main!ConfigAssumption
<1>4. {n \in LoggingNames : Main!Defines(c, n)} = LoggingNames \cap Named(c)
  BY <1>3 DEF Main!Defines, Named
<1>5. \A n \in Names : Main!Defines(c, n) <=> n \in Named(c)
  BY DEF Main!Defines, Named
<1>6. DOMAIN Said(d) = Named(d) /\ Named(d) \subseteq Names /\ Named(c) \subseteq Names
  BY DEF Said, Named
<1>7. Named(d) \cup {m \in Named(c) : ~TRUE \/ m \in Named(d) \cup LoggingNames} =
        Named(d) \cup (LoggingNames \cap Named(c))
  OBVIOUS
<1>8. ASSUME NEW n \in Named(d) \cup (LoggingNames \cap Named(c))
      PROVE  (IF n \in Named(c) THEN Said(c)[n] ELSE Said(d)[n]) =
             (IF Main!Defines(c, n) THEN Main!ValueIn(c, n) ELSE Main!ValueIn(d, n))
  <2>1. n \in Names
    BY <1>6
  <2>2. CASE n \in Named(c)
    BY <1>5, <2>1, <2>2 DEF Said
  <2>3. CASE n \notin Named(c)
    BY <1>5, <2>1, <2>3 DEF Said
  <2> QED
    BY <2>2, <2>3
<1>9. Overlaid(Said(d), Said(c), Named(c), TRUE) =
        [n \in Named(d) \cup (LoggingNames \cap Named(c)) |->
              IF n \in Named(c) THEN Said(c)[n] ELSE Said(d)[n]]
  BY <1>6, <1>7 DEF Overlaid
<1> QED
  BY <1>2, <1>4, <1>8, <1>9 DEF Layers

\* What a load begins with.
LEMMA OpenReads ==
    ASSUME NEW call \in Main!Calls, NEW file \in {Main!Dist, Main!Conf}, NEW o \in BOOLEAN, NEW r \in BOOLEAN,
           u3' = [phase |-> "reading", call |-> call, file |-> file, isOptional |-> o,
                  isReload |-> r, fileConfigs |-> Main!NoOptions],
           u4' = "none", IsFunction(u1'), IsFunction(u6'), u5'[file] = <<>>,
           DOMAIN u5' = {Main!Dist, Main!Conf},
           call = "additional" => u1' = u6',
           call # "additional" /\ file = Main!Dist => u1' = Main!NoOptions /\ ~o,
           call # "additional" /\ file # Main!Dist =>
             /\ call = "app" /\ o /\ ~r /\ Readable(u5'[Main!Dist]) /\ Named(u5'[Main!Dist]) # {}
             /\ u1' = Said(u5'[Main!Dist])
    PROVE  ConfigInv'
<1>1. Main!NoOptions \in Main!Options
  <2>1. Main!NoOptions \in [{} -> Values]
    BY DEF Main!NoOptions
  <2> QED
    BY <2>1 DEF Main!Options
<1>2. u3' \in Main!Loads
  BY <1>1 DEF Main!Loads, Main!Phases
<1>3. u3' # Main!Idle
  BY <1>2, IdleApart
<1>4. /\ u3'.phase = "reading" /\ u3'.call = call /\ u3'.file = file /\ u3'.isOptional = o
      /\ u3'.isReload = r /\ u3'.fileConfigs = Main!NoOptions
  OBVIOUS
<1>5. Reading'
  <2>1. u5'[u3'.file] = <<>>
    BY <1>4
  <2>2. Readable(<<>>)
    BY DEF Readable
  <2>3. u1' = Base'
    BY <1>4 DEF Base
  <2> QED
    BY <1>4, <2>1, <2>2, <2>3, SaidNothing DEF Reading
<1>6. Called'
  BY <1>4 DEF Called
<1> QED
  BY <1>2, <1>3, <1>4, <1>5, <1>6 DEF ConfigInv, Loading, IsFunction

\* A load that fails.
LEMMA FailKeeps ==
    ASSUME NEW call \in Main!Calls, NEW file \in {Main!Dist, Main!Conf},
           Main!LoadFailed(call, file), IsFunction(u1'), IsFunction(u6'),
           DOMAIN u5' = {Main!Dist, Main!Conf},
           call = "additional" => u1' = u6',
           call # "additional" /\ file = Main!Dist => u1' = Main!NoOptions,
           call # "additional" /\ file # Main!Dist =>
             /\ call = "app" /\ Readable(u5'[Main!Dist]) /\ Named(u5'[Main!Dist]) # {}
             /\ u1' = Said(u5'[Main!Dist])
             /\ ~Main!Usable(u5'[Main!Conf])
             /\ u5'[Main!Conf] = Main!Missing \/ u5'[Main!Conf] \in Seq(Main!Lines)
    PROVE  ConfigInv'
<1>1. u3' = Main!Idle /\ Main!Dist # Main!Conf
  BY DEF Main!LoadFailed, Main!Dist, Main!Conf
<1>2. CASE call # "additional" /\ file # Main!Dist
  <2>1. Main!Usable(u5'[Main!Dist]) /\ u5'[Main!Dist] \in Seq(Main!Lines)
    BY <1>2, UsableFacts DEF Readable
  <2>2. Layers(u5'[Main!Dist], u5'[Main!Conf]) = Said(u5'[Main!Dist])
    BY <1>2, <2>1, LayersWithout
  <2>3. Main!Layered'
    BY <1>2, <2>2 DEF Main!Layered, Layers
  <2>4. u4' = "appConfigs"
    BY <1>1, <1>2 DEF Main!LoadFailed
  <2> QED
    BY <1>1, <1>2, <2>1, <2>3, <2>4 DEF ConfigInv, IsFunction, Loaded, Main!AllOrNothing
<1>3. CASE call # "additional" /\ file = Main!Dist
  <2>1. u4' = "wiped"
    BY <1>1, <1>3 DEF Main!LoadFailed, Main!Calls
  <2> QED
    BY <1>1, <1>3, <2>1 DEF ConfigInv, IsFunction, Loaded, Main!AllOrNothing, Main!Layered
<1>4. CASE call = "additional"
  <2>1. u4' = "failed"
    BY <1>1, <1>4 DEF Main!LoadFailed
  <2> QED
    BY <1>1, <1>4, <2>1 DEF ConfigInv, IsFunction, Loaded, Main!AllOrNothing, Main!Layered
<1> QED
  BY <1>2, <1>3, <1>4

LEMMA ConfigUnchanged ==
    ConfigInv /\ UNCHANGED <<u1, u3, u4, u5, u6>> => ConfigInv'
BY DEF ConfigInv, IsFunction, Loaded, Loading, Reading, Adding, Base, Called, Main!Layered, Main!AllOrNothing

LEMMA LoadInitialKeeps ==
    ASSUME ConfigInv, NEW call \in {"app", "initial"}, NEW r \in BOOLEAN, Main!LoadInitial(call, r)
    PROVE  ConfigInv'
<1>1. /\ u1' = Main!NoOptions /\ u6' = u1 /\ IsFunction(u1') /\ IsFunction(u6')
      /\ Main!LoadFile(call, Main!Dist, FALSE, r, Main!NotRead)
  BY DEF Main!LoadInitial, Main!NoOptions, IsFunction, ConfigInv
<1>2. Main!Dist # Main!Conf /\ DOMAIN Main!NotRead = {Main!Dist, Main!Conf} /\ call \in Main!Calls
  BY DEF Main!Dist, Main!Conf, Main!NotRead, Main!Calls
<1>3. CASE /\ u3' = [phase |-> "reading", call |-> call, file |-> Main!Dist, isOptional |-> FALSE,
                      isReload |-> r, fileConfigs |-> Main!NoOptions]
           /\ u4' = "none"
           /\ u5' = [Main!NotRead EXCEPT ![Main!Dist] = <<>>]
  <2>1. u5'[Main!Dist] = <<>> /\ DOMAIN u5' = {Main!Dist, Main!Conf}
    BY <1>2, <1>3
  <2> QED
    BY <1>1, <1>2, <1>3, <2>1, OpenReads
<1>4. CASE /\ Main!LoadFailed(call, Main!Dist)
           /\ u5' = [Main!NotRead EXCEPT ![Main!Dist] = Main!Missing]
  <2>1. DOMAIN u5' = {Main!Dist, Main!Conf}
    BY <1>2, <1>4
  <2> QED
    BY <1>1, <1>2, <1>4, <2>1, FailKeeps
<1> QED
  BY <1>1, <1>3, <1>4 DEF Main!LoadFile

LEMMA LoadAdditionalKeeps ==
    ASSUME ConfigInv, NEW file \in {Main!Dist, Main!Conf}, NEW o \in BOOLEAN, NEW r \in BOOLEAN,
           Main!LoadAdditionalFile(file, o, r)
    PROVE  ConfigInv'
<1>1. /\ u1' = u1 /\ u6' = u1 /\ IsFunction(u1') /\ IsFunction(u6')
      /\ Main!LoadFile("additional", file, o, r, Main!NotRead)
  BY DEF Main!LoadAdditionalFile, ConfigInv, IsFunction
<1>2. DOMAIN Main!NotRead = {Main!Dist, Main!Conf} /\ "additional" \in Main!Calls
  BY DEF Main!NotRead, Main!Calls
<1>3. CASE /\ u3' = [phase |-> "reading", call |-> "additional", file |-> file, isOptional |-> o,
                      isReload |-> r, fileConfigs |-> Main!NoOptions]
           /\ u4' = "none"
           /\ u5' = [Main!NotRead EXCEPT ![file] = <<>>]
  <2>1. u5'[file] = <<>> /\ DOMAIN u5' = {Main!Dist, Main!Conf}
    BY <1>2, <1>3
  <2> QED
    BY <1>1, <1>2, <1>3, <2>1, OpenReads
<1>4. CASE /\ Main!LoadFailed("additional", file)
           /\ u5' = [Main!NotRead EXCEPT ![file] = Main!Missing]
  <2>1. DOMAIN u5' = {Main!Dist, Main!Conf}
    BY <1>2, <1>4
  <2> QED
    BY <1>1, <1>2, <1>4, <2>1, FailKeeps
<1> QED
  BY <1>1, <1>3, <1>4 DEF Main!LoadFile

\* The load in progress.
LEMMA LoadingFacts ==
    ASSUME ConfigInv, u3.phase \in {"reading", "adding"}
    PROVE  /\ u3 # Main!Idle /\ Loading /\ u3 \in Main!Loads
           /\ u3.call \in Main!Calls /\ u3.file \in {Main!Dist, Main!Conf}
           /\ u3.isOptional \in BOOLEAN /\ u3.isReload \in BOOLEAN
           /\ DOMAIN u5 = {Main!Dist, Main!Conf} /\ Main!Dist # Main!Conf
<1>1. u3 # Main!Idle
  BY DEF Main!Idle
<1>2. Loading /\ u3 \in Main!Loads /\ DOMAIN u5 = {Main!Dist, Main!Conf}
  BY <1>1 DEF ConfigInv, Loading
<1> QED
  BY <1>1, <1>2 DEF Main!Loads, Main!Dist, Main!Conf

LEMMA ReadLineKeeps == ConfigInv /\ Main!ReadLine => ConfigInv'
<1> SUFFICES ASSUME ConfigInv, Main!ReadLine PROVE ConfigInv'
  OBVIOUS
<1>1. PICK line \in Main!Lines \ {Main!Unreadable} :
        /\ u5' = [u5 EXCEPT ![u3.file] = Append(@, line)]
        /\ u3' = [u3 EXCEPT !.fileConfigs = Main!AddLine(line)]
  BY DEF Main!ReadLine
<1>2. u3.phase = "reading" /\ UNCHANGED <<u1, u4, u6>>
  BY DEF Main!ReadLine
<1>3. /\ Loading /\ u3 \in Main!Loads /\ u3.file \in {Main!Dist, Main!Conf}
      /\ DOMAIN u5 = {Main!Dist, Main!Conf} /\ Main!Dist # Main!Conf
  BY <1>2, LoadingFacts
<1>4. Reading /\ u4 = "none" /\ Called
  BY <1>2, <1>3 DEF Loading
<1>5. PICK file, lines, more : file = u3.file /\ lines = u5[file] /\ more = Append(lines, line)
  OBVIOUS
<1>6. lines \in Seq(Main!Lines) /\ \A i \in DOMAIN lines : lines[i] # Main!Unreadable
  BY <1>4, <1>5 DEF Reading, Readable
<1>7. Readable(more)
  <2>1. PICK len \in Nat : len = Len(lines)
    BY <1>6
  <2>2. /\ more \in Seq(Main!Lines) /\ DOMAIN more = 1 .. len + 1 /\ DOMAIN lines = 1 .. len
        /\ \A i \in 1 .. len : more[i] = lines[i]
        /\ more[len + 1] = line
    BY <1>5, <1>6, <2>1
  <2> QED
    BY <1>6, <2>1, <2>2 DEF Readable
<1>8. u3.fileConfigs = Said(lines)
  BY <1>4, <1>5 DEF Reading
<1>9. Main!AddLine(line) = Said(more)
  BY <1>5, <1>6, <1>8, SaidAppend DEF Main!AddLine
<1>10. Said(more) \in Main!Options
  <2>1. Said(more) \in [Named(more) -> Values] /\ Named(more) \subseteq Names
    BY <1>7, SaidFacts DEF Readable, Named
  <2> QED
    BY <2>1 DEF Main!Options
<1>11. /\ u3' \in Main!Loads /\ u3'.phase = "reading" /\ u3'.file = file /\ u3'.call = u3.call
       /\ u3'.isOptional = u3.isOptional /\ u3'.isReload = u3.isReload /\ u3'.fileConfigs = Said(more)
  BY <1>1, <1>2, <1>3, <1>5, <1>9, <1>10 DEF Main!Loads
<1>12. /\ DOMAIN u5' = {Main!Dist, Main!Conf} /\ u5'[file] = more
       /\ file = Main!Conf => u5'[Main!Dist] = u5[Main!Dist]
  BY <1>1, <1>3, <1>5
<1>13. Reading'
  <2>1. Base' = Base
    BY <1>2, <1>3, <1>5, <1>11, <1>12 DEF Base
  <2> QED
    BY <1>2, <1>4, <1>7, <1>11, <1>12, <2>1 DEF Reading
<1>14. Called'
  BY <1>2, <1>3, <1>4, <1>5, <1>11, <1>12 DEF Called
<1>15. u3' # Main!Idle
  BY <1>11, IdleApart
<1> QED
  BY <1>2, <1>4, <1>11, <1>12, <1>13, <1>14, <1>15 DEF ConfigInv, IsFunction, Loading

LEMMA ReadBreaksKeeps == ConfigInv /\ Main!ReadBreaks => ConfigInv'
<1> SUFFICES ASSUME ConfigInv, Main!ReadBreaks PROVE ConfigInv'
  OBVIOUS
<1>1. /\ u5' = [u5 EXCEPT ![u3.file] = Append(@, Main!Unreadable)]
      /\ Main!LoadFailed(u3.call, u3.file)
      /\ u3.phase = "reading" /\ UNCHANGED <<u1, u6>>
  BY DEF Main!ReadBreaks
<1>2. /\ Loading /\ u3.call \in Main!Calls /\ u3.file \in {Main!Dist, Main!Conf}
      /\ DOMAIN u5 = {Main!Dist, Main!Conf} /\ Main!Dist # Main!Conf
  BY <1>1, LoadingFacts
<1>3. Reading /\ Called
  BY <1>1, <1>2 DEF Loading
<1>4. PICK call, file, lines, more :
        call = u3.call /\ file = u3.file /\ lines = u5[file] /\ more = Append(lines, Main!Unreadable)
  OBVIOUS
<1>5. lines \in Seq(Main!Lines)
  BY <1>3, <1>4 DEF Reading, Readable
<1>6. more \in Seq(Main!Lines) /\ ~Main!Usable(more)
  <2>1. PICK len \in Nat : len = Len(lines)
    BY <1>5
  <2>2. Main!Unreadable \in Main!Lines
    BY DEF Main!Lines
  <2>3. more \in Seq(Main!Lines) /\ len + 1 \in DOMAIN more /\ more[len + 1] = Main!Unreadable
    BY <1>4, <1>5, <2>1, <2>2
  <2> QED
    BY <2>3, UsableFacts
<1>7. /\ DOMAIN u5' = {Main!Dist, Main!Conf} /\ u5'[file] = more
      /\ file = Main!Conf => u5'[Main!Dist] = u5[Main!Dist]
  BY <1>1, <1>2, <1>4
<1>8. /\ IsFunction(u1') /\ IsFunction(u6')
      /\ call = "additional" => u1' = u6'
      /\ call # "additional" /\ file = Main!Dist => u1' = Main!NoOptions
  BY <1>1, <1>3, <1>4 DEF Reading, Base, ConfigInv, IsFunction
<1>9. call # "additional" /\ file # Main!Dist =>
        /\ call = "app"
        /\ Readable(u5'[Main!Dist]) /\ Named(u5'[Main!Dist]) # {} /\ u1' = Said(u5'[Main!Dist])
        /\ ~Main!Usable(u5'[Main!Conf])
        /\ u5'[Main!Conf] = Main!Missing \/ u5'[Main!Conf] \in Seq(Main!Lines)
  BY <1>1, <1>2, <1>3, <1>4, <1>6, <1>7 DEF Reading, Base, Called
<1>10. Main!LoadFailed(call, file) /\ call \in Main!Calls /\ file \in {Main!Dist, Main!Conf}
  BY <1>1, <1>2, <1>4
<1> QED
  BY <1>7, <1>8, <1>9, <1>10, FailKeeps

LEMMA ReadNothingKeeps == ConfigInv /\ Main!ReadNothing => ConfigInv'
<1> SUFFICES ASSUME ConfigInv, Main!ReadNothing PROVE ConfigInv'
  OBVIOUS
<1>1. /\ Main!LoadFailed(u3.call, u3.file) /\ u3.fileConfigs = Main!NoOptions
      /\ u3.phase = "reading" /\ UNCHANGED <<u1, u5, u6>>
  BY DEF Main!ReadNothing
<1>2. /\ Loading /\ u3.call \in Main!Calls /\ u3.file \in {Main!Dist, Main!Conf}
      /\ DOMAIN u5 = {Main!Dist, Main!Conf} /\ Main!Dist # Main!Conf
  BY <1>1, LoadingFacts
<1>3. Reading /\ Called
  BY <1>1, <1>2 DEF Loading
<1>4. PICK call, file, lines : call = u3.call /\ file = u3.file /\ lines = u5[file]
  OBVIOUS
<1>5. lines \in Seq(Main!Lines) /\ Said(lines) = Main!NoOptions
  BY <1>1, <1>3, <1>4 DEF Reading, Readable
<1>6. Named(lines) = {}
  BY <1>5, SaidFacts DEF Main!NoOptions
<1>7. ~Main!Usable(lines)
  BY <1>6, UsableFacts
<1>8. /\ IsFunction(u1') /\ IsFunction(u6') /\ DOMAIN u5' = {Main!Dist, Main!Conf}
      /\ call = "additional" => u1' = u6'
      /\ call # "additional" /\ file = Main!Dist => u1' = Main!NoOptions
  BY <1>1, <1>2, <1>3, <1>4 DEF Reading, Base, ConfigInv, IsFunction
<1>9. call # "additional" /\ file # Main!Dist =>
        /\ call = "app"
        /\ Readable(u5'[Main!Dist]) /\ Named(u5'[Main!Dist]) # {} /\ u1' = Said(u5'[Main!Dist])
        /\ ~Main!Usable(u5'[Main!Conf])
        /\ u5'[Main!Conf] = Main!Missing \/ u5'[Main!Conf] \in Seq(Main!Lines)
  BY <1>1, <1>2, <1>3, <1>4, <1>5, <1>7 DEF Reading, Base, Called
<1>10. Main!LoadFailed(call, file) /\ call \in Main!Calls /\ file \in {Main!Dist, Main!Conf}
  BY <1>1, <1>2, <1>4
<1> QED
  BY <1>8, <1>9, <1>10, FailKeeps

LEMMA OverlaidFacts ==
    ASSUME NEW base, NEW said, NEW done, NEW strict \in BOOLEAN, NEW f,
           f = Overlaid(base, said, done, strict)
    PROVE  /\ IsFunction(f)
           /\ DOMAIN f = DOMAIN base \cup {m \in done : ~strict \/ m \in DOMAIN base \cup LoggingNames}
           /\ \A n \in DOMAIN f : f[n] = IF n \in done THEN said[n] ELSE base[n]
BY DEF Overlaid, IsFunction

LEMMA OverlaidNothing ==
    ASSUME NEW base, NEW said, NEW strict \in BOOLEAN, IsFunction(base)
    PROVE  Overlaid(base, said, {}, strict) = base
<1>1. DOMAIN base \cup {m \in {} : ~strict \/ m \in DOMAIN base \cup LoggingNames} = DOMAIN base
  OBVIOUS
<1>2. Overlaid(base, said, {}, strict) = [n \in DOMAIN base |-> base[n]]
  BY <1>1 DEF Overlaid
<1> QED
  BY <1>2 DEF IsFunction

\* AddKey adds one more option of the file.
LEMMA OverlaidOne ==
    ASSUME NEW base, NEW said, NEW done, NEW strict \in BOOLEAN, NEW name, name \notin done, NEW f,
           f = Overlaid(base, said, done, strict)
    PROVE  Overlaid(base, said, done \cup {name}, strict) =
             IF strict /\ name \notin DOMAIN f /\ name \notin LoggingNames
             THEN f ELSE Main!WithEntry(f, name, said[name])
<1>1. /\ IsFunction(f)
      /\ DOMAIN f = DOMAIN base \cup {m \in done : ~strict \/ m \in DOMAIN base \cup LoggingNames}
      /\ \A n \in DOMAIN f : f[n] = IF n \in done THEN said[n] ELSE base[n]
  BY OverlaidFacts
<1>2. PICK g : g = Overlaid(base, said, done \cup {name}, strict)
  OBVIOUS
<1>3. /\ IsFunction(g)
      /\ DOMAIN g = DOMAIN base \cup {m \in done \cup {name} : ~strict \/ m \in DOMAIN base \cup LoggingNames}
      /\ \A n \in DOMAIN g : g[n] = IF n \in done \cup {name} THEN said[n] ELSE base[n]
  BY <1>2, OverlaidFacts
<1>4. name \in DOMAIN f <=> name \in DOMAIN base
  BY <1>1
<1>5. CASE strict /\ name \notin DOMAIN f /\ name \notin LoggingNames
  <2>1. DOMAIN g = DOMAIN f
    BY <1>1, <1>3, <1>4, <1>5
  <2>2. \A n \in DOMAIN f : g[n] = f[n]
    BY <1>1, <1>3, <1>5, <2>1
  <2>3. g = f
    BY <1>1, <1>3, <2>1, <2>2 DEF IsFunction
  <2> QED
    BY <1>2, <1>5, <2>3
<1>6. CASE ~(strict /\ name \notin DOMAIN f /\ name \notin LoggingNames)
  <2>1. DOMAIN g = DOMAIN f \cup {name}
    BY <1>1, <1>3, <1>4, <1>6
  <2>2. \A n \in DOMAIN g : g[n] = IF n = name THEN said[name] ELSE f[n]
    BY <1>1, <1>3, <2>1
  <2>3. g = [n \in DOMAIN f \cup {name} |-> IF n = name THEN said[name] ELSE f[n]]
    BY <1>3, <2>1, <2>2 DEF IsFunction
  <2> QED
    BY <1>2, <1>6, <2>3 DEF Main!WithEntry
<1> QED
  BY <1>5, <1>6

LEMMA ReadEndsKeeps == ConfigInv /\ Main!ReadEnds => ConfigInv'
<1> SUFFICES ASSUME ConfigInv, Main!ReadEnds PROVE ConfigInv'
  OBVIOUS
<1>1. /\ u3' = [u3 EXCEPT !.phase = "adding"] /\ u3.fileConfigs # Main!NoOptions
      /\ u3.phase = "reading" /\ UNCHANGED <<u1, u4, u5, u6>>
  BY DEF Main!ReadEnds
<1>2. /\ Loading /\ u3 \in Main!Loads /\ u3.isOptional \in BOOLEAN /\ u3.isReload \in BOOLEAN
      /\ DOMAIN u5 = {Main!Dist, Main!Conf}
  BY <1>1, LoadingFacts
<1>3. Reading /\ u4 = "none" /\ Called
  BY <1>1, <1>2 DEF Loading
<1>4. PICK lines : lines = u5[u3.file]
  OBVIOUS
<1>5. Readable(lines) /\ lines \in Seq(Main!Lines) /\ u3.fileConfigs = Said(lines) /\ u1 = Base /\ IsFunction(Base)
  BY <1>3, <1>4 DEF Reading, Readable, ConfigInv, IsFunction
<1>6. Named(lines) # {}
  BY <1>1, <1>5 DEF Said, Main!NoOptions
<1>7. DOMAIN Said(lines) = Named(lines) /\ Said(lines) = [n \in Named(lines) |-> Said(lines)[n]]
  BY DEF Said
<1>8. /\ u3' \in Main!Loads /\ u3'.phase = "adding" /\ u3'.file = u3.file /\ u3'.call = u3.call
      /\ u3'.isOptional = u3.isOptional /\ u3'.isReload = u3.isReload
      /\ u3'.fileConfigs = u3.fileConfigs
  BY <1>1, <1>2 DEF Main!Loads, Main!Phases
<1>9. Overlaid(Base, Said(lines), {}, u3.isOptional /\ ~u3.isReload) = Base
  BY <1>2, <1>5, OverlaidNothing
<1>10. Adding'
  <2>1. u3'.fileConfigs = Said(lines) /\ DOMAIN u3'.fileConfigs = Named(lines)
    BY <1>5, <1>7, <1>8
  <2>2. u5'[u3'.file] = lines
    BY <1>1, <1>4, <1>8
  <2>3. Named(lines) \ DOMAIN u3'.fileConfigs = {}
    BY <2>1
  <2>4. Base' = Base
    BY <1>1, <1>8 DEF Base
  <2>5. u1' = Overlaid(Base', Said(lines), Named(lines) \ DOMAIN u3'.fileConfigs,
                      u3'.isOptional /\ ~u3'.isReload)
    BY <1>1, <1>5, <1>8, <1>9, <2>3, <2>4
  <2>6. u3'.fileConfigs = [n \in DOMAIN u3'.fileConfigs |-> Said(lines)[n]]
    BY <1>7, <2>1
  <2> QED
    BY <1>5, <1>6, <2>1, <2>2, <2>5, <2>6 DEF Adding
<1>11. Called'
  BY <1>1, <1>3, <1>8 DEF Called
<1>12. u3' # Main!Idle
  BY <1>8, IdleApart
<1> QED
  BY <1>1, <1>2, <1>3, <1>8, <1>10, <1>11, <1>12 DEF ConfigInv, IsFunction, Loading

LEMMA AddEntryKeeps == ConfigInv /\ Main!AddEntry => ConfigInv'
<1> SUFFICES ASSUME ConfigInv, Main!AddEntry PROVE ConfigInv'
  OBVIOUS
<1>1. PICK name \in DOMAIN u3.fileConfigs :
        /\ u1' = Main!AddKey(name)
        /\ u3' = [u3 EXCEPT !.fileConfigs =
                    [n \in DOMAIN u3.fileConfigs \ {name} |-> u3.fileConfigs[n]]]
  BY DEF Main!AddEntry
<1>2. u3.phase = "adding" /\ UNCHANGED <<u4, u5, u6>>
  BY DEF Main!AddEntry
<1>3. /\ Loading /\ u3 \in Main!Loads /\ u3.isOptional \in BOOLEAN /\ u3.isReload \in BOOLEAN
      /\ DOMAIN u5 = {Main!Dist, Main!Conf}
  BY <1>2, LoadingFacts
<1>4. Adding /\ u4 = "none" /\ Called
  BY <1>2, <1>3 DEF Loading
<1>5. PICK lines, rest, less, strict :
        /\ lines = u5[u3.file] /\ rest = DOMAIN u3.fileConfigs
        /\ less = [n \in rest \ {name} |-> u3.fileConfigs[n]]
        /\ strict = (u3.isOptional /\ ~u3.isReload)
  OBVIOUS
<1>6. /\ Readable(lines) /\ lines \in Seq(Main!Lines) /\ Named(lines) # {}
      /\ rest \subseteq Named(lines) /\ name \in rest /\ strict \in BOOLEAN
      /\ u3.fileConfigs = [n \in rest |-> Said(lines)[n]]
      /\ u1 = Overlaid(Base, Said(lines), Named(lines) \ rest, strict)
  BY <1>3, <1>4, <1>5 DEF Adding, Readable
<1>7. DOMAIN less = rest \ {name} /\ less = [n \in rest \ {name} |-> Said(lines)[n]]
  BY <1>5, <1>6
<1>8. less \in Main!Options
  <2>1. \A n \in rest : Said(lines)[n] \in Values
    BY <1>6, SaidFacts
  <2>2. less \in [rest \ {name} -> Values] /\ rest \ {name} \subseteq Names
    BY <1>6, <1>7, <2>1 DEF Named
  <2> QED
    BY <2>2 DEF Main!Options
<1>9. /\ u3' \in Main!Loads /\ u3'.phase = "adding" /\ u3'.file = u3.file /\ u3'.call = u3.call
      /\ u3'.isOptional = u3.isOptional /\ u3'.isReload = u3.isReload /\ u3'.fileConfigs = less
  BY <1>1, <1>2, <1>3, <1>5, <1>8 DEF Main!Loads
<1>10. u1' = IF strict /\ name \notin DOMAIN u1 /\ name \notin LoggingNames
             THEN u1 ELSE Main!WithEntry(u1, name, Said(lines)[name])
  <2>1. u3.fileConfigs[name] = Said(lines)[name]
    BY <1>6
  <2> QED
    BY <1>1, <1>5, <2>1 DEF Main!AddKey, Main!IsLoggingSystemOptions
<1>11. (Named(lines) \ rest) \cup {name} = Named(lines) \ (rest \ {name})
  BY <1>6
<1>12. u1' = Overlaid(Base, Said(lines), Named(lines) \ (rest \ {name}), strict)
  <2>1. PICK done : done = Named(lines) \ rest
    OBVIOUS
  <2>2. name \notin done /\ u1 = Overlaid(Base, Said(lines), done, strict)
    BY <1>6, <2>1
  <2>3. u1' = Overlaid(Base, Said(lines), done \cup {name}, strict)
    BY <1>6, <1>10, <2>2, OverlaidOne
  <2> QED
    BY <1>11, <2>1, <2>3
<1>13. IsFunction(u1')
  <2>1. PICK f : f = Overlaid(Base, Said(lines), Named(lines) \ (rest \ {name}), strict)
    OBVIOUS
  <2>2. IsFunction(f)
    BY <2>1 DEF Overlaid, IsFunction
  <2>3. u1' = f
    BY <1>12, <2>1
  <2> QED
    BY <2>2, <2>3 DEF IsFunction
<1>14. Adding'
  <2>1. Base' = Base
    BY <1>2, <1>9 DEF Base
  <2> QED
    BY <1>2, <1>5, <1>6, <1>7, <1>9, <1>12, <2>1 DEF Adding
<1>15. Called'
  BY <1>2, <1>4, <1>9 DEF Called
<1>16. u3' # Main!Idle
  BY <1>9, IdleApart
<1> QED
  BY <1>2, <1>3, <1>4, <1>9, <1>13, <1>14, <1>15, <1>16 DEF ConfigInv, IsFunction, Loading

LEMMA LoadEndsKeeps == ConfigInv /\ Main!LoadEnds => ConfigInv'
<1> SUFFICES ASSUME ConfigInv, Main!LoadEnds PROVE ConfigInv'
  OBVIOUS
<1>1. /\ u3.phase = "adding" /\ u3.fileConfigs = Main!NoOptions /\ u1' = u1
      /\ IF u3.call = "app" /\ u3.file = Main!Dist
         THEN Main!LoadFile("app", Main!Conf, TRUE, FALSE, u5)
         ELSE /\ u3' = Main!Idle /\ u4' = IF u3.call = "app" THEN "appConfigs" ELSE "loaded"
              /\ UNCHANGED u5
      /\ u6' = u6
  BY DEF Main!LoadEnds
<1>2. /\ Loading /\ u3.call \in Main!Calls /\ u3.file \in {Main!Dist, Main!Conf}
      /\ u3.isOptional \in BOOLEAN /\ u3.isReload \in BOOLEAN
      /\ DOMAIN u5 = {Main!Dist, Main!Conf} /\ Main!Dist # Main!Conf
  BY <1>1, LoadingFacts
<1>3. Adding /\ Called
  BY <1>1, <1>2 DEF Loading
<1>4. PICK lines : lines = u5[u3.file]
  OBVIOUS
<1>5. DOMAIN u3.fileConfigs = {}
  BY <1>1 DEF Main!NoOptions
<1>6. /\ Readable(lines) /\ lines \in Seq(Main!Lines) /\ Named(lines) # {}
      /\ u1 = Overlaid(Base, Said(lines), Named(lines), u3.isOptional /\ ~u3.isReload)
  BY <1>3, <1>4, <1>5 DEF Adding, Readable
<1>7. IsFunction(u1) /\ IsFunction(u1') /\ IsFunction(u6')
  BY <1>1 DEF ConfigInv, IsFunction
<1>8. CASE u3.call = "app" /\ u3.file = Main!Dist
  <2>1. Base = Main!NoOptions /\ ~u3.isOptional
    BY <1>3, <1>8 DEF Base, Called
  <2>2. u1 = Said(lines)
    <3>1. PICK none, strict : none = Main!NoOptions /\ strict = FALSE
      OBVIOUS
    <3>2. DOMAIN none = {} /\ u1 = Overlaid(none, Said(lines), Named(lines), strict)
      BY <1>2, <1>6, <2>1, <3>1 DEF Main!NoOptions
    <3>3. DOMAIN u1 = Named(lines) /\ \A n \in Named(lines) : u1[n] = Said(lines)[n]
      <4>1. strict \in BOOLEAN /\ strict = FALSE
        BY <3>1
      <4>2. /\ DOMAIN u1 = DOMAIN none \cup
                            {m \in Named(lines) : ~strict \/ m \in DOMAIN none \cup LoggingNames}
            /\ \A n \in DOMAIN u1 : u1[n] = IF n \in Named(lines) THEN Said(lines)[n] ELSE none[n]
        BY <3>2, <4>1 DEF Overlaid
      <4> QED
        BY <3>2, <4>1, <4>2
    <3>4. DOMAIN Said(lines) = Named(lines) /\ Said(lines) = [n \in Named(lines) |-> Said(lines)[n]]
      BY DEF Said
    <3> QED
      BY <1>7, <3>3, <3>4 DEF IsFunction
  <2>3. /\ Readable(u5[Main!Dist]) /\ Named(u5[Main!Dist]) # {}
        /\ u1' = Said(u5[Main!Dist])
    BY <1>1, <1>4, <1>6, <1>8, <2>2
  <2>4. CASE /\ u3' = [phase |-> "reading", call |-> "app", file |-> Main!Conf, isOptional |-> TRUE,
                        isReload |-> FALSE, fileConfigs |-> Main!NoOptions]
             /\ u4' = "none"
             /\ u5' = [u5 EXCEPT ![Main!Conf] = <<>>]
    <3>1. u5'[Main!Conf] = <<>> /\ u5'[Main!Dist] = u5[Main!Dist] /\ DOMAIN u5' = {Main!Dist, Main!Conf}
      BY <1>2, <2>4
    <3> QED
      BY <1>2, <1>7, <1>8, <2>3, <2>4, <3>1, OpenReads
  <2>5. CASE /\ Main!LoadFailed("app", Main!Conf)
             /\ u5' = [u5 EXCEPT ![Main!Conf] = Main!Missing]
    <3>1. /\ u5'[Main!Conf] = Main!Missing /\ u5'[Main!Dist] = u5[Main!Dist]
          /\ DOMAIN u5' = {Main!Dist, Main!Conf}
      BY <1>2, <2>5
    <3>2. ~Main!Usable(u5'[Main!Conf])
      BY <3>1, UsableFacts
    <3> QED
      BY <1>2, <1>7, <1>8, <2>3, <2>5, <3>1, <3>2, FailKeeps
  <2> QED
    BY <1>1, <1>8, <2>4, <2>5 DEF Main!LoadFile
<1>9. CASE ~(u3.call = "app" /\ u3.file = Main!Dist)
  <2>1. u3' = Main!Idle /\ u4' = (IF u3.call = "app" THEN "appConfigs" ELSE "loaded") /\ UNCHANGED <<u5, u6>>
    BY <1>1, <1>9
  <2>2. CASE u3.call # "app"
    <3>1. u4' = "loaded"
      BY <2>1, <2>2
    <3> QED
      BY <1>1, <1>2, <2>1, <3>1
      DEF ConfigInv, IsFunction, Loaded, Main!Layered, Main!AllOrNothing
  <2>3. CASE u3.call = "app"
    <3>1. u3.file = Main!Conf /\ u4' = "appConfigs"
      BY <1>2, <1>9, <2>1, <2>3
    <3>2. PICK d : d = u5[Main!Dist]
      OBVIOUS
    <3>3. u3.isOptional /\ ~u3.isReload /\ Readable(d) /\ Named(d) # {} /\ Base = Said(d)
      BY <1>2, <1>3, <2>3, <3>1, <3>2 DEF Base, Called
    <3>4. Main!Usable(d) /\ Main!Usable(lines) /\ d \in Seq(Main!Lines)
      BY <1>6, <3>3, UsableFacts DEF Readable
    <3>5. u1 = Overlaid(Said(d), Said(lines), Named(lines), TRUE)
      BY <1>2, <1>6, <3>3
    <3>6. u1' = Layers(u5'[Main!Dist], u5'[Main!Conf])
      BY <1>1, <1>4, <2>1, <3>1, <3>2, <3>4, <3>5, LayersWith
    <3>7. Main!Layered'
      BY <3>6 DEF Main!Layered, Layers
    <3> QED
      BY <1>1, <1>2, <1>4, <1>6, <2>1, <3>1, <3>2, <3>4, <3>7
      DEF ConfigInv, IsFunction, Loaded, Main!AllOrNothing
  <2> QED
    BY <1>2, <2>2, <2>3
<1> QED
  BY <1>8, <1>9

LEMMA ConfigNext ==
    ASSUME ConfigInv, [Main!Next]_<<u1, u2, u3, u4, u5, u6>>
    PROVE  ConfigInv'
<1>1. CASE Main!LoadAppConfigs
  BY <1>1, LoadInitialKeeps DEF Main!LoadAppConfigs
<1>2. CASE \E r \in BOOLEAN : Main!LoadInitial("initial", r)
  BY <1>2, LoadInitialKeeps
<1>3. CASE \E f \in {Main!Dist, Main!Conf}, o, r \in BOOLEAN : Main!LoadAdditionalFile(f, o, r)
  BY <1>3, LoadAdditionalKeeps
<1>4. CASE \/ Main!ReadLine \/ Main!ReadBreaks \/ Main!ReadNothing
           \/ Main!ReadEnds \/ Main!AddEntry \/ Main!LoadEnds
  BY <1>4, ReadLineKeeps, ReadBreaksKeeps, ReadNothingKeeps, ReadEndsKeeps, AddEntryKeeps, LoadEndsKeeps
<1>5. CASE UNCHANGED <<u1, u2, u3, u4, u5, u6>>
  BY <1>5, ConfigUnchanged
<1> QED
  BY <1>1, <1>2, <1>3, <1>4, <1>5 DEF Main!Next

LEMMA ConfigImplies == ConfigInv => Main!Layered /\ Main!AllOrNothing
<1>1. CASE ConfigInv /\ u3 = Main!Idle
  BY <1>1 DEF ConfigInv, Loaded
<1>2. CASE ConfigInv /\ u3 # Main!Idle
  BY <1>2 DEF ConfigInv, Loading, Main!Layered, Main!AllOrNothing
<1> QED
  BY <1>1, <1>2

\* main() waits for LoadAppConfigs, goes on only when that has succeeded, and
\* has the port from the options it left.
MainInv ==
    /\ ConfigInv
    /\ u3 # Main!Idle => u7 = "configuration" /\ u3.call = "app"
    /\ u7 \in {"logging", "options", "range", "network", "running"} => u4 = "appConfigs"
    /\ u7 \in {"range", "network", "running"} => u8 = Main!GetOption("ServerPort", Main!DefaultPort)
    /\ u7 \in {"network", "running"} => u8 \in 0 .. Main!MaxPort

LEMMA MainBegins == Main!MainInit => MainInv
<1> SUFFICES ASSUME Main!MainInit PROVE MainInv
  OBVIOUS
<1>1. Main!Init /\ u7 = "arguments" /\ u3 = Main!Idle
  BY DEF Main!MainInit, Main!Init
<1> QED
  BY <1>1, ConfigInit DEF MainInv

LEMMA LoadStepApp ==
    ASSUME ConfigInv, u3 # Main!Idle => u3.call = "app",
           \/ Main!ReadLine \/ Main!ReadBreaks \/ Main!ReadNothing
           \/ Main!ReadEnds \/ Main!AddEntry \/ Main!LoadEnds
    PROVE  u3' # Main!Idle => u3'.call = "app"
<1>1. u3.phase \in {"reading", "adding"}
  BY DEF Main!ReadLine, Main!ReadBreaks, Main!ReadNothing, Main!ReadEnds, Main!AddEntry, Main!LoadEnds
<1>2. u3 \in Main!Loads /\ u3.call = "app"
  BY <1>1, LoadingFacts
<1>3. CASE Main!ReadLine
  <2>1. PICK configs : u3' = [u3 EXCEPT !.fileConfigs = configs]
    BY <1>3 DEF Main!ReadLine
  <2> QED
    BY <1>2, <2>1 DEF Main!Loads
<1>4. CASE Main!ReadBreaks \/ Main!ReadNothing
  BY <1>4 DEF Main!ReadBreaks, Main!ReadNothing, Main!LoadFailed
<1>5. CASE Main!ReadEnds
  BY <1>2, <1>5 DEF Main!ReadEnds, Main!Loads
<1>6. CASE Main!AddEntry
  <2>1. PICK configs : u3' = [u3 EXCEPT !.fileConfigs = configs]
    BY <1>6 DEF Main!AddEntry
  <2> QED
    BY <1>2, <2>1 DEF Main!Loads
<1>7. CASE Main!LoadEnds
  BY <1>7 DEF Main!LoadEnds, Main!LoadFile, Main!LoadFailed
<1> QED
  BY <1>3, <1>4, <1>5, <1>6, <1>7

LEMMA MainStays ==
    ASSUME MainInv, UNCHANGED <<u1, u2, u3, u4, u5, u6>>,
           u7' # "configuration" => u3 = Main!Idle,
           u7' \in {"logging", "options", "range", "network", "running"} => u4 = "appConfigs",
           u7' \in {"range", "network", "running"} => u8' = Main!GetOption("ServerPort", Main!DefaultPort),
           u7' \in {"network", "running"} => u8' \in 0 .. Main!MaxPort
    PROVE  MainInv'
<1>1. ConfigInv'
  BY ConfigUnchanged DEF MainInv
<1>2. u3' # Main!Idle => u7' = "configuration" /\ u3'.call = "app"
  BY DEF MainInv
<1>3. u7' \in {"range", "network", "running"} => (u8 = Main!GetOption("ServerPort", Main!DefaultPort))'
  BY DEF Main!GetOption
<1> QED
  BY <1>1, <1>2, <1>3 DEF MainInv

\* The port that main() takes from the options is a number, and the one the
\* files ask for.
Wanted ==
    LET source == IF Main!Defines(u5[Main!Conf], "ServerPort") THEN Main!Conf ELSE Main!Dist
    IN  IF Main!Defines(u5[Main!Dist], "ServerPort")
        THEN IntOf[Main!ValueIn(u5[source], "ServerPort")] ELSE {}

LEMMA PortTaken ==
    ASSUME MainInv, u7 \in {"range", "network", "running"}
    PROVE  /\ Main!Usable(u5[Main!Dist])
           /\ Wanted \in {{}, {u8}} /\ (Wanted = {} => u8 = Main!DefaultPort)
           /\ u8 \in Int
<1>1. u3 = Main!Idle /\ u4 = "appConfigs" /\ u8 = Main!GetOption("ServerPort", Main!DefaultPort)
  BY DEF MainInv
<1>2. Loaded
  BY <1>1 DEF MainInv, ConfigInv
<1>3. PICK d, c, opt : d = u5[Main!Dist] /\ c = u5[Main!Conf] /\ opt = "ServerPort"
  OBVIOUS
<1>4. /\ Main!Usable(d) /\ d \in Seq(Main!Lines)
      /\ c = Main!Missing \/ c \in Seq(Main!Lines)
      /\ u1 = Layers(d, c)
  BY <1>1, <1>2, <1>3, LayeredIs DEF Loaded
<1>5. opt \in Names \ LoggingNames
  BY <1>3, UtilitiesAssumption DEF Main!MainAssumption
<1>6. opt \in DOMAIN u1 <=> Main!Defines(d, opt)
  BY <1>4, <1>5 DEF Layers
<1>7. PICK value : value = IF Main!Defines(c, opt) THEN Main!ValueIn(c, opt) ELSE Main!ValueIn(d, opt)
  OBVIOUS
<1>8. Main!Defines(d, opt) => u1[opt] = value
  BY <1>4, <1>5, <1>7 DEF Layers
<1>9. Main!Defines(d, opt) => value \in Values
  <2>1. Main!Defines(c, opt) => c \in Seq(Main!Lines)
    BY <1>4, UsableFacts DEF Main!Defines
  <2>2. Main!Defines(c, opt) => opt \in Named(c)
    BY <1>5 DEF Main!Defines, Named
  <2>3. Main!Defines(d, opt) => opt \in Named(d)
    BY <1>5 DEF Main!Defines, Named
  <2>4. Main!Defines(c, opt) => Main!ValueIn(c, opt) \in Values
    BY <2>1, <2>2, SaidFacts
  <2>5. Main!Defines(d, opt) => Main!ValueIn(d, opt) \in Values
    BY <1>4, <2>3, SaidFacts
  <2> QED
    BY <1>7, <2>4, <2>5
<1>10. Main!Defines(d, opt) => \A i, j \in IntOf[value] : i = j
  BY <1>9, UtilitiesAssumption DEF Main!MainAssumption
<1>11. PICK wanted : wanted = IF Main!Defines(d, opt) THEN IntOf[value] ELSE {}
  OBVIOUS
<1>12. wanted \in {{}, {u8}} /\ (wanted = {} => u8 = Main!DefaultPort)
  <2>1. CASE ~Main!Defines(d, opt)
    BY <1>1, <1>3, <1>6, <1>11, <2>1 DEF Main!GetOption
  <2>2. CASE Main!Defines(d, opt)
    <3>1. wanted = IntOf[value] /\ u8 = Main!ValueOr(wanted, Main!DefaultPort)
      BY <1>1, <1>3, <1>6, <1>8, <1>11, <2>2 DEF Main!GetOption
    <3>2. CASE wanted = {}
      BY <3>1, <3>2 DEF Main!ValueOr
    <3>3. CASE wanted # {}
      <4>1. u8 = CHOOSE v \in wanted : TRUE
        BY <3>1, <3>3 DEF Main!ValueOr
      <4>2. u8 \in wanted
        BY <3>3, <4>1
      <4>3. wanted = {u8}
        BY <1>10, <2>2, <3>1, <4>2
      <4> QED
        BY <4>3
    <3> QED
      BY <3>2, <3>3
  <2> QED
    BY <2>1, <2>2
<1>13. Wanted = wanted
  BY <1>3, <1>7, <1>11 DEF Wanted
<1>14. u8 \in Int
  <2>1. wanted \subseteq Int
    BY <1>9, <1>11, UtilitiesAssumption DEF Main!MainAssumption
  <2> QED
    BY <1>12, <2>1 DEF Main!DefaultPort
<1> QED
  BY <1>3, <1>4, <1>12, <1>13, <1>14

LEMMA MainNext == MainInv /\ [Main!MainNext]_<<u1, u2, u3, u4, u5, u6, u7, u8>> => MainInv'
<1> SUFFICES ASSUME MainInv, [Main!MainNext]_<<u1, u2, u3, u4, u5, u6, u7, u8>> PROVE MainInv'
  OBVIOUS
<1> USE DEF Main!vars, Main!mainVars, Main!Continue, Main!Return1
<1>1. CASE Main!Arguments
  <2>1. CASE u7' = "returned" /\ UNCHANGED <<u1, u2, u3, u4, u5, u6>>
    <3>1. u3 = Main!Idle
      BY <1>1 DEF MainInv, Main!Arguments
    <3> QED
      BY <2>1, <3>1, MainStays
  <2>2. CASE u7' = "configuration" /\ Main!LoadAppConfigs
    <3>1. ConfigInv'
      BY <2>2, LoadInitialKeeps DEF Main!LoadAppConfigs, MainInv
    <3>2. u3' # Main!Idle => u3'.call = "app"
      BY <2>2 DEF Main!LoadAppConfigs, Main!LoadInitial, Main!LoadFile, Main!LoadFailed
    <3> QED
      BY <2>2, <3>1, <3>2 DEF MainInv
  <2> QED
    BY <1>1, <2>1, <2>2 DEF Main!Arguments
<1>2. CASE Main!LoadStep
  <2>1. /\ u7 = "configuration" /\ u7' = u7
        /\ \/ Main!ReadLine \/ Main!ReadBreaks \/ Main!ReadNothing
           \/ Main!ReadEnds \/ Main!AddEntry \/ Main!LoadEnds
    BY <1>2 DEF Main!LoadStep
  <2>2. ConfigInv'
    BY <2>1, ReadLineKeeps, ReadBreaksKeeps, ReadNothingKeeps, ReadEndsKeeps, AddEntryKeeps, LoadEndsKeeps
    DEF MainInv
  <2>3. u3' # Main!Idle => u3'.call = "app"
    BY <2>1, LoadStepApp DEF MainInv
  <2> QED
    BY <2>1, <2>2, <2>3 DEF MainInv
<1>3. CASE Main!Configured
  BY <1>3, MainStays DEF Main!Configured
<1>4. CASE Main!Logging
  BY <1>4, MainStays DEF Main!Logging, MainInv
<1>5. CASE Main!GetPort
  BY <1>5, MainStays DEF Main!GetPort, MainInv
<1>6. CASE Main!PortRange
  <2>1. u7 = "range" /\ u8 \in Int /\ Main!MaxPort \in Int
    BY <1>6, PortTaken DEF Main!PortRange, Main!MaxPort
  <2> QED
    BY <1>6, <2>1, MainStays DEF Main!PortRange, MainInv
<1>7. CASE Main!StartNetwork
  BY <1>7, MainStays DEF Main!StartNetwork, MainInv
<1>8. CASE UNCHANGED <<u1, u2, u3, u4, u5, u6, u7, u8>>
  BY <1>8, MainStays DEF MainInv
<1> QED
  BY <1>1, <1>2, <1>3, <1>4, <1>5, <1>6, <1>7, <1>8 DEF Main!MainNext


LEMMA MainImplies == MainInv => Main!PortAsConfigured
<1> SUFFICES ASSUME MainInv, u7 = "running" PROVE Main!PortAsConfigured
  BY DEF Main!PortAsConfigured
<1>1. u8 \in 0 .. Main!MaxPort
  BY DEF MainInv
<1> QED
  BY <1>1, PortTaken DEF Main!PortAsConfigured, Wanted

-----------------------------------------------------------------------------
(* Log.  Its variables are u1: loggers, u2: sinkList, u3: lowestLogLevel,  *)
(* u4: pc, u5: keys, u6: loads, u7: named, u8: made.                       *)

\* The sinks that were made have different names, and none is a null pointer.
Made == /\ u6 \in Nat /\ (u4 # "idle" => u6 > 0)
        /\ \A s \in u8 : s = [name |-> s.name, load |-> u6] /\ s # Log!Null

\* No logger of the registry has a level below lowestLogLevel, unless they are
\* about to be dropped.
Lowest == /\ u3 \in 0 .. Log!Critical
          /\ DOMAIN u1 \subseteq LoggerNames
          /\ \A l \in DOMAIN u1 : u1[l].level \in Int /\ (u4 # "clear" => u3 <= u1[l].level)

\* While sinks are made, _sinkList has them all, and no logger exists yet.
SinksWait ==
    /\ DOMAIN u1 = {}
    /\ u5 \cap DOMAIN u2 = {}
    /\ \A s \in u8 : s.name \in DOMAIN u2 /\ u2[s.name] = s

\* While loggers are made, a sink is still in _sinkList if no logger names it,
\* and else with a logger that does.
SinksGiven ==
    /\ u5 \subseteq LoggerNames /\ u5 \cap DOMAIN u1 = {}
    /\ \A s \in u8 :
         IF \E l \in DOMAIN u1 : s.name \in u7[l]
         THEN \E l \in DOMAIN u1 : s.name \in u7[l] /\ s \in u1[l].sinks
         ELSE s.name \in DOMAIN u2 /\ u2[s.name] = s

LogInv ==
    /\ Made /\ Lowest
    /\ DOMAIN u7 = DOMAIN u1
    /\ u4 = "clear" => u8 = {}
    /\ u4 = "sinks" => SinksWait
    /\ u4 = "loggers" => SinksGiven
    /\ Log!SinkServed

LEMMA LogAssumed == /\ Levels \subseteq 0 .. 7 /\ MaxLoads \in Nat
BY UtilitiesAssumption DEF Log!LogAssumption

LEMMA LogInit == Log!Init => LogInv
BY DEF Log!Init, LogInv, Made, Lowest, Log!SinkServed, Log!Nothing, Log!Critical

LEMMA LogNext == LogInv /\ [Log!Next]_<<u1, u2, u3, u4, u5, u6, u7, u8>> => LogInv'
<1> SUFFICES ASSUME LogInv, [Log!Next]_<<u1, u2, u3, u4, u5, u6, u7, u8>>
             PROVE  LogInv'
  OBVIOUS
<1>1. CASE UNCHANGED <<u1, u2, u3, u4, u5, u6, u7, u8>>
  BY <1>1 DEF LogInv, Made, Lowest, SinksWait, SinksGiven, Log!SinkServed
<1>2. CASE Log!LoadFromConfig
  <2>1. /\ UNCHANGED <<u1, u7>> /\ u8' = {} /\ u3' = Log!Critical /\ u4' = "clear" /\ u6' = u6 + 1
    BY <1>2 DEF Log!LoadFromConfig
  <2> QED
    BY <2>1 DEF LogInv, Made, Lowest, Log!SinkServed, Log!Critical
<1>7. CASE Log!Clear
  <2>1. /\ DOMAIN u1' = {} /\ DOMAIN u2' = {} /\ DOMAIN u7' = {}
        /\ u4 = "clear" /\ u4' = "sinks" /\ UNCHANGED <<u3, u6, u8>>
    BY <1>7 DEF Log!Clear, Log!Nothing
  <2>2. u8 = {}
    BY <2>1 DEF LogInv
  <2> QED
    BY <2>1, <2>2 DEF LogInv, Made, Lowest, SinksWait, Log!SinkServed
<1>3. CASE Log!CreateSinksFromConfig
  <2>1. PICK name \in u5, option \in Log!SinkOptions, opens \in BOOLEAN :
          LET sink == [name |-> name, load |-> u6] IN
          /\ u5' = u5 \ {name}
          /\ IF option \in {"console", "file"} /\ opens
             THEN Log!AddSink(name, sink) /\ u8' = u8 \cup {sink}
             ELSE UNCHANGED <<u2, u8>>
          /\ IF option \in {"no rotate", "bad file"} THEN u4' = "aborted" ELSE UNCHANGED u4
    BY <1>3 DEF Log!CreateSinksFromConfig
  <2>2. u4 = "sinks" /\ UNCHANGED <<u1, u3, u6, u7>>
    BY <1>3 DEF Log!CreateSinksFromConfig
  <2>3. u4' \in {"sinks", "aborted"} /\ u5' = u5 \ {name}
    BY <2>1, <2>2
  <2>4. PICK sink : sink = [name |-> name, load |-> u6]
    OBVIOUS
  <2>5. sink.name = name /\ sink # Log!Null /\ name \notin DOMAIN u2
    <3>1. sink.name = name /\ sink.load = u6 /\ Log!Null.load = 0
      BY <2>4 DEF Log!Null
    <3>2. u6 > 0 /\ u6 \in Nat /\ name \notin DOMAIN u2
      BY <2>2 DEF LogInv, Made, SinksWait
    <3> QED
      BY <3>1, <3>2
  <2>6. Made' /\ SinksWait'
    <3>1. CASE UNCHANGED <<u2, u8>>
      BY <2>2, <2>3, <3>1 DEF LogInv, Made, SinksWait
    <3>2. CASE Log!AddSink(name, sink) /\ u8' = u8 \cup {sink}
      <4>1. u2' = [s \in DOMAIN u2 \cup {name} |-> IF s = name THEN sink ELSE u2[s]]
        BY <2>5, <3>2 DEF Log!AddSink
      <4>2. \A s \in u8 : s.name # name
        BY <2>2, <2>5 DEF LogInv, SinksWait
      <4>3. SinksWait'
        BY <2>2, <2>3, <2>5, <3>2, <4>1, <4>2 DEF LogInv, SinksWait
      <4>4. Made'
        BY <2>2, <2>3, <2>4, <2>5, <3>2 DEF LogInv, Made
      <4> QED
        BY <4>3, <4>4
    <3> QED
      BY <2>1, <2>4, <3>1, <3>2
  <2>7. Lowest' /\ DOMAIN u7' = DOMAIN u1'
    BY <2>2 DEF LogInv, Lowest
  <2> QED
    BY <2>3, <2>6, <2>7 DEF LogInv, Log!SinkServed
<1>4. CASE Log!ReadSinksEnds
  <2>1. u4 = "sinks" /\ u4' = "loggers" /\ u5' \subseteq LoggerNames /\ UNCHANGED <<u1, u2, u3, u6, u7, u8>>
    BY <1>4 DEF Log!ReadSinksEnds
  <2>2. SinksGiven'
    BY <2>1 DEF LogInv, SinksWait, SinksGiven
  <2> QED
    BY <2>1, <2>2 DEF LogInv, Made, Lowest, Log!SinkServed
<1>5. CASE Log!CreateLoggerFromConfig
  <2>1. PICK name \in u5, level \in Levels, list \in SUBSET SinkNames :
          /\ u5' = u5 \ {name}
          /\ IF level < Log!LevelMax
             THEN /\ u3' = Log!Lower(level)
                  /\ u1' = Log!Registered(name, [level |-> level, sinks |-> Log!Taken(list)])
                  /\ u7' = [l \in DOMAIN u7 \cup {name} |-> IF l = name THEN list ELSE u7[l]]
                  /\ u2' = Log!SinksTaken(list)
             ELSE UNCHANGED <<u3, u1, u7, u2>>
    BY <1>5 DEF Log!CreateLoggerFromConfig
  <2>2. u4 = "loggers" /\ UNCHANGED <<u4, u6, u8>>
    BY <1>5 DEF Log!CreateLoggerFromConfig
  <2>3. CASE ~(level < Log!LevelMax)
    BY <2>1, <2>2, <2>3 DEF LogInv, Made, Lowest, SinksGiven, Log!SinkServed
  <2>4. CASE level < Log!LevelMax
    <3>1. PICK taken : taken = Log!Taken(list)
      OBVIOUS
    <3>2. /\ u1' = [l \in DOMAIN u1 \cup {name} |->
                     IF l = name THEN [level |-> level, sinks |-> taken] ELSE u1[l]]
          /\ u7' = [l \in DOMAIN u1 \cup {name} |-> IF l = name THEN list ELSE u7[l]]
          /\ u2' = [s \in DOMAIN u2 |-> IF s \in list THEN Log!Null ELSE u2[s]]
      BY <2>1, <2>4, <3>1 DEF LogInv, Log!Registered, Log!SinksTaken
    <3>3. name \notin DOMAIN u1
      BY <2>2 DEF LogInv, SinksGiven
    <3>4. level \in Int /\ u3' \in 0 .. Log!Critical /\ u3' <= u3 /\ u3' <= level
      BY <2>1, <2>4, LogAssumed DEF LogInv, Lowest, Log!Lower, Log!Critical
    <3>5. Lowest'
      <4>1. name \in LoggerNames
        BY <2>2 DEF LogInv, SinksGiven
      <4> QED
        BY <2>2, <3>2, <3>4, <4>1 DEF LogInv, Lowest, Log!Critical
    <3>6. SinksGiven'
      <4>1. u5' \subseteq LoggerNames /\ u5' \cap DOMAIN u1' = {}
        BY <2>1, <2>2, <3>2 DEF LogInv, SinksGiven
      <4>2. ASSUME NEW s \in u8
            PROVE  IF \E l \in DOMAIN u1' : s.name \in u7'[l]
                   THEN \E l \in DOMAIN u1' : s.name \in u7'[l] /\ s \in u1'[l].sinks
                   ELSE s.name \in DOMAIN u2' /\ u2'[s.name] = s
        <5>1. CASE \E l \in DOMAIN u1 : s.name \in u7[l]
          <6>1. PICK l \in DOMAIN u1 : s.name \in u7[l] /\ s \in u1[l].sinks
            BY <2>2, <5>1 DEF LogInv, SinksGiven
          <6>2. l \in DOMAIN u1' /\ u7'[l] = u7[l] /\ u1'[l] = u1[l]
            BY <3>2, <3>3
          <6> QED
            BY <6>1, <6>2
        <5>2. CASE ~\E l \in DOMAIN u1 : s.name \in u7[l]
          <6>1. s.name \in DOMAIN u2 /\ u2[s.name] = s /\ s # Log!Null
            BY <2>2, <5>2 DEF LogInv, SinksGiven, Made
          <6>2. CASE s.name \in list
            <7>1. s \in taken
              BY <3>1, <6>1, <6>2 DEF Log!Taken, Log!GetSink
            <7>2. name \in DOMAIN u1' /\ u7'[name] = list /\ u1'[name].sinks = taken
              BY <3>2
            <7> QED
              BY <6>2, <7>1, <7>2
          <6>3. CASE s.name \notin list
            <7>1. \A l \in DOMAIN u1' : s.name \notin u7'[l]
              BY <3>2, <5>2, <6>3
            <7>2. s.name \in DOMAIN u2' /\ u2'[s.name] = s
              BY <3>2, <6>1, <6>3
            <7> QED
              BY <7>1, <7>2
          <6> QED
            BY <6>2, <6>3
        <5> QED
          BY <5>1, <5>2
      <4> QED
        BY <2>2, <4>1, <4>2 DEF SinksGiven
    <3>7. DOMAIN u7' = DOMAIN u1' /\ Made'
      BY <2>2, <3>2 DEF LogInv, Made
    <3> QED
      BY <2>2, <3>5, <3>6, <3>7 DEF LogInv, Log!SinkServed
  <2> QED
    BY <2>3, <2>4
<1>6. CASE Log!LoadEnds
  <2>1. u4 = "loggers" /\ u4' = "idle" /\ UNCHANGED <<u1, u3, u6, u7, u8>>
    BY <1>6 DEF Log!LoadEnds
  <2>2. Log!SinkServed'
    BY <2>1 DEF LogInv, SinksGiven, Log!SinkServed
  <2> QED
    BY <2>1, <2>2 DEF LogInv, Made, Lowest
<1> QED
  BY <1>1, <1>2, <1>3, <1>4, <1>5, <1>6, <1>7 DEF Log!Next
\* GetLoggerByType finds a.
Answer(t, a) ==
    \/ /\ a \in DOMAIN u1 /\ Log!IsPrefix(a, t)
       /\ \A l \in DOMAIN u1 : Log!IsPrefix(l, t) => Len(l) <= Len(a)
    \/ /\ \A l \in DOMAIN u1 : ~Log!IsPrefix(l, t)
       /\ a = IF Log!Root \in DOMAIN u1 THEN Log!Root ELSE Log!None

LEMMA TypesAssumed ==
    /\ Types \subseteq Seq(STRING) /\ <<>> \notin Types /\ Log!Root \in Types
    /\ \A t \in Types : Len(t) > 1 => Log!Front(t) \in Types
    /\ LoggerNames \subseteq Seq(STRING) /\ <<>> \notin LoggerNames
BY UtilitiesAssumption DEF Log!LogAssumption

LEMMA PrefixFacts ==
    ASSUME NEW S, NEW s \in Seq(S), NEW t \in Seq(S)
    PROVE  Log!IsPrefix(s, t) <=> Len(s) <= Len(t) /\ \A i \in 1 .. Len(s) : s[i] = t[i]
<1>1. ASSUME Len(s) <= Len(t)
      PROVE  SubSeq(s, 1, Len(s)) = SubSeq(t, 1, Len(s)) <=> \A i \in 1 .. Len(s) : s[i] = t[i]
  <2>1. PICK n \in Nat : n = Len(s)
    OBVIOUS
  <2>2. PICK a, b : a = SubSeq(s, 1, n) /\ b = SubSeq(t, 1, n)
    OBVIOUS
  <2>3. /\ a \in Seq(S) /\ Len(a) = n /\ \A i \in 1 .. n : a[i] = s[i]
        /\ b \in Seq(S) /\ Len(b) = n /\ \A i \in 1 .. n : b[i] = t[i]
    BY <1>1, <2>1, <2>2
  <2>4. a = b <=> \A i \in 1 .. n : a[i] = b[i]
    BY <2>3, SeqEqual
  <2> QED
    BY <2>1, <2>2, <2>3, <2>4
<1> QED
  BY <1>1 DEF Log!IsPrefix

LEMMA PrefixLen == \A s, t : Log!IsPrefix(s, t) => Len(s) <= Len(t)
BY DEF Log!IsPrefix

LEMMA SamePrefix ==
    ASSUME NEW S, NEW s \in Seq(S), NEW r \in Seq(S), NEW t \in Seq(S),
           Log!IsPrefix(s, t), Log!IsPrefix(r, t), Len(s) = Len(r)
    PROVE  s = r
BY PrefixFacts, SeqEqual

\* What GetLoggerByType finds is unique.
LEMMA AnswerUnique ==
    ASSUME Lowest, NEW t \in Types, NEW a, NEW b, Answer(t, a), Answer(t, b)
    PROVE  a = b
<1>1. t \in Seq(STRING) /\ DOMAIN u1 \subseteq Seq(STRING)
  BY TypesAssumed DEF Lowest
<1>2. CASE \A l \in DOMAIN u1 : ~Log!IsPrefix(l, t)
  BY <1>2 DEF Answer
<1>3. CASE \E l \in DOMAIN u1 : Log!IsPrefix(l, t)
  <2>1. /\ a \in DOMAIN u1 /\ b \in DOMAIN u1 /\ Log!IsPrefix(a, t) /\ Log!IsPrefix(b, t)
        /\ Len(a) <= Len(b) /\ Len(b) <= Len(a)
    BY <1>3 DEF Answer
  <2>2. a \in Seq(STRING) /\ b \in Seq(STRING) /\ Len(a) \in Nat /\ Len(b) \in Nat
    BY <1>1, <2>1
  <2>3. Len(a) = Len(b)
    BY <2>1, <2>2
  <2> QED
    BY <1>1, <2>1, <2>2, <2>3, SamePrefix
<1> QED
  BY <1>2, <1>3

\* One step of its search.
LEMMA AnswerStep ==
    ASSUME Lowest, NEW t \in Types
    PROVE  /\ t \in DOMAIN u1 => Answer(t, t)
           /\ t \notin DOMAIN u1 /\ t = Log!Root => Answer(t, Log!None)
           /\ t \notin DOMAIN u1 /\ Len(t) > 1 => \A a : Answer(Log!Front(t), a) => Answer(t, a)
           /\ t \notin DOMAIN u1 /\ ~(Len(t) > 1) => \A a : Answer(Log!Root, a) => Answer(t, a)
<1>1. /\ t \in Seq(STRING) /\ t # <<>> /\ Len(t) \in Nat /\ Len(t) > 0
      /\ DOMAIN u1 \subseteq Seq(STRING) /\ <<>> \notin DOMAIN u1
  BY TypesAssumed DEF Lowest
<1>2. \A l \in DOMAIN u1 : l \in Seq(STRING) /\ Len(l) \in Nat /\ Len(l) > 0
  BY <1>1
<1>3. \A l \in DOMAIN u1 : Log!IsPrefix(l, t) /\ Len(l) = Len(t) => l = t
  <2>1. Log!IsPrefix(t, t)
    BY <1>1, PrefixFacts
  <2> QED
    BY <1>1, <1>2, <2>1, SamePrefix
<1>4. ASSUME t \in DOMAIN u1 PROVE Answer(t, t)
  <2>1. Log!IsPrefix(t, t)
    BY <1>1, PrefixFacts
  <2>2. \A l \in DOMAIN u1 : Log!IsPrefix(l, t) => Len(l) <= Len(t)
    BY DEF Log!IsPrefix
  <2> QED
    BY <1>4, <2>1, <2>2 DEF Answer
<1>5. ASSUME t \notin DOMAIN u1, ~(Len(t) > 1)
      PROVE  \A l \in DOMAIN u1 : ~Log!IsPrefix(l, t)
  <2>1. \A l \in DOMAIN u1 : Log!IsPrefix(l, t) => Len(l) = Len(t)
    BY <1>1, <1>2, <1>5 DEF Log!IsPrefix
  <2> QED
    BY <1>3, <1>5, <2>1
<1>6. Len(Log!Root) = 1
  BY DEF Log!Root
<1>7. ASSUME t \notin DOMAIN u1, t = Log!Root PROVE Answer(t, Log!None)
  BY <1>5, <1>6, <1>7 DEF Answer
<1>8. ASSUME t \notin DOMAIN u1, ~(Len(t) > 1), NEW a, Answer(Log!Root, a)
      PROVE  Answer(t, a)
  <2>1. a = IF Log!Root \in DOMAIN u1 THEN Log!Root ELSE Log!None
    <3>1. Log!Root \in Seq(STRING) /\ Log!Root # <<>>
      BY TypesAssumed
    <3>2. CASE Log!Root \notin DOMAIN u1
      <4>1. \A l \in DOMAIN u1 : Log!IsPrefix(l, Log!Root) => FALSE
        <5>1. Log!IsPrefix(Log!Root, Log!Root)
          BY <3>1, PrefixFacts
        <5>2. \A l \in DOMAIN u1 : Log!IsPrefix(l, Log!Root) => Len(l) = Len(Log!Root)
          BY <1>2, <1>6, PrefixLen
        <5> QED
          BY <1>2, <3>1, <3>2, <5>1, <5>2, SamePrefix
      <4> QED
        BY <1>8, <4>1 DEF Answer
    <3>3. CASE Log!Root \in DOMAIN u1
      <4>1. Log!IsPrefix(Log!Root, Log!Root)
        BY <3>1, PrefixFacts
      <4>2. a \in DOMAIN u1 /\ Log!IsPrefix(a, Log!Root) /\ Len(Log!Root) <= Len(a)
        BY <1>8, <3>3, <4>1 DEF Answer
      <4>3. Len(a) = Len(Log!Root)
        <5>1. Len(a) \in Nat /\ Len(a) > 0 /\ Len(a) <= Len(Log!Root)
          BY <1>2, <4>2, PrefixLen
        <5>2. PICK n \in Nat : n = Len(a)
          BY <5>1
        <5>3. n > 0 /\ n <= 1
          BY <1>6, <5>1, <5>2
        <5> QED
          BY <1>6, <5>2, <5>3
      <4> QED
        BY <1>2, <3>1, <3>3, <4>1, <4>2, <4>3, SamePrefix
    <3> QED
      BY <3>2, <3>3
  <2> QED
    BY <1>5, <1>8, <2>1 DEF Answer
<1>9. ASSUME t \notin DOMAIN u1, Len(t) > 1, NEW a, Answer(Log!Front(t), a)
      PROVE  Answer(t, a)
  <2>1. PICK f : f = Log!Front(t)
    OBVIOUS
  <2>2. PICK n \in Nat : n = Len(t) - 1
    BY <1>1
  <2>0. f \in Seq(STRING) /\ Len(f) = n /\ \A i \in 1 .. n : f[i] = t[i]
    <3>1. f = SubSeq(t, 1, n) /\ n <= Len(t)
      BY <1>1, <2>1, <2>2 DEF Log!Front
    <3> QED
      BY <1>1, <3>1
  <2>3. ASSUME NEW l \in DOMAIN u1 PROVE Log!IsPrefix(l, t) <=> Log!IsPrefix(l, f)
    <3>1. Log!IsPrefix(l, t) <=> Len(l) <= Len(t) /\ \A i \in 1 .. Len(l) : l[i] = t[i]
      BY <1>1, <1>2, PrefixFacts
    <3>2. Log!IsPrefix(l, f) <=> Len(l) <= Len(f) /\ \A i \in 1 .. Len(l) : l[i] = f[i]
      BY <1>2, <2>0, PrefixFacts
    <3>3. Log!IsPrefix(l, t) => Len(l) # Len(t)
      BY <1>3, <1>9
    <3>4. Len(l) \in Nat /\ (Len(l) <= Len(t) /\ Len(l) # Len(t) <=> Len(l) <= n)
      BY <1>1, <1>2, <2>2
    <3>5. Len(l) <= n => \A i \in 1 .. Len(l) : f[i] = t[i]
      BY <2>0, <3>4
    <3> QED
      BY <2>0, <3>1, <3>2, <3>3, <3>4, <3>5
  <2> QED
    BY <1>9, <2>1, <2>3 DEF Answer
<1> QED
  BY <1>4, <1>7, <1>8, <1>9

LEMMA FrontShorter ==
    ASSUME NEW t \in Types, Len(t) > 1
    PROVE  /\ Log!Front(t) \in Types /\ Len(Log!Front(t)) \in Nat /\ Len(t) \in Nat
           /\ Len(Log!Front(t)) < Len(t)
<1>1. t \in Seq(STRING) /\ Len(t) \in Nat
  BY TypesAssumed
<1>2. PICK k \in Nat : k = Len(t) - 1
  BY <1>1
<1>3. Log!Front(t) = SubSeq(t, 1, k) /\ k <= Len(t) /\ k < Len(t)
  BY <1>1, <1>2 DEF Log!Front
<1>4. Len(Log!Front(t)) = k
  BY <1>1, <1>3
<1> QED
  BY <1>1, <1>3, <1>4, TypesAssumed

LEMMA AnswerExists ==
    ASSUME Lowest
    PROVE  \A t \in Types : \E a : Answer(t, a)
<1> DEFINE Missed == {n \in Nat : \E t \in Types : Len(t) = n /\ ~\E a : Answer(t, a)}
<1>1. \A t \in Types : Len(t) \in Nat
  BY TypesAssumed
<1>2. Missed = {}
  <2> SUFFICES ASSUME Missed # {} PROVE FALSE
    OBVIOUS
  <2>1. PICK n \in Missed : \A m \in Missed : n <= m
    <3>1. Missed \subseteq Nat
      OBVIOUS
    <3> HIDE DEF Missed
    <3> QED
      BY <3>1, LeastNat
  <2>2. PICK t \in Types : Len(t) = n /\ ~\E a : Answer(t, a)
    OBVIOUS
  <2>3. t \notin DOMAIN u1 /\ t # Log!Root
    BY <2>2, AnswerStep
  <2>4. CASE Len(t) > 1
    <3>1. PICK f : f = Log!Front(t)
      OBVIOUS
    <3>2. f \in Types /\ Len(f) < n /\ Len(f) \in Nat /\ n \in Nat
      BY <2>2, <2>4, <3>1, FrontShorter
    <3>3. Len(f) \notin Missed
      BY <2>1, <3>2
    <3>4. \E a : Answer(f, a)
      BY <3>2, <3>3
    <3> QED
      BY <2>2, <2>3, <2>4, <3>1, <3>4, AnswerStep
  <2>5. CASE ~(Len(t) > 1)
    <3>1. \E a : Answer(Log!Root, a)
      BY AnswerStep, TypesAssumed
    <3> QED
      BY <2>2, <2>3, <2>5, <3>1, AnswerStep
  <2> QED
    BY <2>4, <2>5
<1> QED
  BY <1>1, <1>2

\* The equation of the recursion in GetLoggerByType.
Search(g) ==
    [t \in Types |->
        IF t \in DOMAIN u1 THEN t
        ELSE IF t = Log!Root THEN Log!None
        ELSE IF Len(t) > 1 THEN g[Log!Front(t)] ELSE g[Log!Root]]

LEMMA SearchDef ==
    \A type : Log!GetLoggerByType(type) = (CHOOSE g : g = Search(g))[type]
BY DEF Log!GetLoggerByType, Search

LEMMA SearchSolved == Lowest => \E g : g = Search(g)
<1> SUFFICES ASSUME Lowest PROVE \E g : g = Search(g)
  OBVIOUS
<1>1. PICK g : g = [t \in Types |-> CHOOSE a : Answer(t, a)]
  OBVIOUS
<1>2. \A t \in Types : Answer(t, g[t])
  <2> SUFFICES ASSUME NEW t \in Types PROVE Answer(t, g[t])
    OBVIOUS
  <2>1. g[t] = CHOOSE a : Answer(t, a)
    BY <1>1
  <2>2. \E a : Answer(t, a)
    BY AnswerExists
  <2> QED
    BY <2>1, <2>2, Zenon
<1>3. PICK h : h = Search(g)
  OBVIOUS
<1>4. ASSUME NEW t \in Types PROVE h[t] = g[t]
  <2>1. h[t] = IF t \in DOMAIN u1 THEN t
               ELSE IF t = Log!Root THEN Log!None
               ELSE IF Len(t) > 1 THEN g[Log!Front(t)] ELSE g[Log!Root]
    BY <1>3 DEF Search
  <2>2. Answer(t, h[t])
    BY <1>2, <2>1, AnswerStep, TypesAssumed
  <2> QED
    BY <1>2, <2>2, AnswerUnique
<1>5. h = g
  BY <1>1, <1>3, <1>4 DEF Search
<1> QED
  BY <1>3, <1>5

LEMMA Searched == Lowest => \A t \in Types : Answer(t, Log!GetLoggerByType(t))
<1> SUFFICES ASSUME Lowest PROVE \A t \in Types : Answer(t, Log!GetLoggerByType(t))
  OBVIOUS
<1>1. PICK g : g = CHOOSE f : f = Search(f)
  OBVIOUS
<1>2. g = Search(g)
  BY <1>1, SearchSolved, Zenon
<1>3. ASSUME NEW t \in Types
      PROVE  g[t] = IF t \in DOMAIN u1 THEN t
                    ELSE IF t = Log!Root THEN Log!None
                    ELSE IF Len(t) > 1 THEN g[Log!Front(t)] ELSE g[Log!Root]
  BY <1>2 DEF Search
<1> DEFINE Missed == {n \in Nat : \E t \in Types : Len(t) = n /\ ~Answer(t, g[t])}
<1>4. Missed = {}
  <2> SUFFICES ASSUME Missed # {} PROVE FALSE
    OBVIOUS
  <2>1. PICK n \in Missed : \A m \in Missed : n <= m
    <3>1. Missed \subseteq Nat
      OBVIOUS
    <3> HIDE DEF Missed
    <3> QED
      BY <3>1, LeastNat
  <2>2. PICK t \in Types : Len(t) = n /\ ~Answer(t, g[t])
    OBVIOUS
  <2>3. t \notin DOMAIN u1 /\ t # Log!Root
    BY <1>3, <2>2, AnswerStep
  <2>4. CASE Len(t) > 1
    <3>1. PICK f : f = Log!Front(t)
      OBVIOUS
    <3>2. f \in Types /\ Len(f) < n /\ Len(f) \in Nat /\ n \in Nat
      BY <2>2, <2>4, <3>1, FrontShorter
    <3>3. Len(f) \notin Missed
      BY <2>1, <3>2
    <3>4. Answer(f, g[f])
      BY <3>2, <3>3
    <3> QED
      BY <1>3, <2>2, <2>3, <2>4, <3>1, <3>4, AnswerStep
  <2>5. CASE ~(Len(t) > 1)
    <3>1. Answer(Log!Root, g[Log!Root])
      BY <1>3, AnswerStep, TypesAssumed
    <3> QED
      BY <1>3, <2>2, <2>3, <2>5, <3>1, AnswerStep
  <2> QED
    BY <2>4, <2>5
<1>5. \A t \in Types : Len(t) \in Nat
  BY TypesAssumed
<1>6. \A t \in Types : Answer(t, g[t])
  BY <1>4, <1>5
<1> QED
  BY <1>1, <1>6, SearchDef

LEMMA LogImplies == LogInv => Log!MostSpecificLogger /\ Log!ShortcutSound /\ Log!SinkServed
<1> SUFFICES ASSUME LogInv PROVE Log!MostSpecificLogger /\ Log!ShortcutSound /\ Log!SinkServed
  OBVIOUS
<1>1. Lowest
  BY DEF LogInv
<1>2. \A t \in Types : Answer(t, Log!GetLoggerByType(t))
  BY <1>1, Searched
<1>3. Log!MostSpecificLogger
  <2> SUFFICES ASSUME NEW type \in Types
               PROVE  LET prefixes == {l \in DOMAIN u1 : Log!IsPrefix(l, type)}
                          logger == Log!GetLoggerByType(type)
                      IN IF prefixes # {} THEN /\ logger \in prefixes
                                               /\ \A l \in prefixes : Len(l) <= Len(logger)
                         ELSE logger = IF Log!Root \in DOMAIN u1 THEN Log!Root ELSE Log!None
    BY DEF Log!MostSpecificLogger
  <2>1. PICK logger : logger = Log!GetLoggerByType(type)
    OBVIOUS
  <2>2. Answer(type, logger)
    BY <1>2, <2>1
  <2> QED
    BY <2>1, <2>2 DEF Answer
<1>4. Log!ShortcutSound
  <2> SUFFICES ASSUME NEW type \in Types, NEW level \in Log!Trace .. Log!Critical,
                      Log!Enabled(Log!GetLoggerByType(type), level), u4 # "clear"
               PROVE  Log!ShouldLog(type, level)
    BY DEF Log!ShortcutSound
  <2>1. PICK logger : logger = Log!GetLoggerByType(type)
    OBVIOUS
  <2>2. logger # Log!None /\ u1[logger].level <= level
    BY <2>1 DEF Log!Enabled
  <2>3. logger \in DOMAIN u1
    BY <1>2, <2>1, <2>2 DEF Answer
  <2>4. level >= u3
    BY <1>1, <2>2, <2>3 DEF Lowest, Log!Trace, Log!Critical
  <2> QED
    BY <2>1, <2>4 DEF Log!ShouldLog
<1> QED
  BY <1>3, <1>4 DEF LogInv

-----------------------------------------------------------------------------
(* MessageBuffer.  Its variables are u1: buffer, u2: unread.               *)

Content == Bytes \cup {MessageBuffer!Zero}

Positioned == [storage : MessageBuffer!Contents, wpos : 0 .. MaxSize, rpos : 0 .. MaxSize]

\* The positions are in order and in the storage, and s is what is between them.
Fits(storage, wpos, rpos, s) ==
    /\ storage \in Seq(Content) /\ Len(storage) <= MaxSize
    /\ wpos \in Nat /\ rpos \in Nat /\ rpos <= wpos /\ wpos <= Len(storage)
    /\ s \in Seq(Content) /\ Len(s) = wpos - rpos
    /\ \A i \in 1 .. wpos - rpos : s[i] = storage[rpos + i]

BufferInv ==
    /\ u1 \in [Buffers -> Positioned]
    /\ u2 \in [Buffers -> Seq(Content)]
    /\ \A b \in Buffers : Fits(u1[b].storage, u1[b].wpos, u1[b].rpos, u2[b])

LEMMA ConcatFacts ==
    ASSUME NEW S, NEW s \in Seq(S), NEW t \in Seq(S)
    PROVE  /\ s \o t \in Seq(S) /\ Len(s \o t) = Len(s) + Len(t)
           /\ \A i \in 1 .. Len(s) : (s \o t)[i] = s[i]
           /\ \A i \in Len(s) + 1 .. Len(s) + Len(t) : (s \o t)[i] = t[i - Len(s)]
OBVIOUS

LEMMA BufferAssumed == MaxSize \in Nat
BY UtilitiesAssumption DEF MessageBuffer!BufferAssumption

LEMMA ContentsFacts ==
    \A s : s \in MessageBuffer!Contents <=> s \in Seq(Content) /\ Len(s) <= MaxSize
<1>1. ASSUME NEW s, s \in MessageBuffer!Contents
      PROVE  s \in Seq(Content) /\ Len(s) <= MaxSize
  <2>1. PICK n \in 0 .. MaxSize : s \in [1 .. n -> Content]
    BY <1>1 DEF MessageBuffer!Contents, Content, MessageBuffer!Zero
  <2> QED
    BY <2>1, BufferAssumed
<1>2. ASSUME NEW s \in Seq(Content), Len(s) <= MaxSize
      PROVE  s \in MessageBuffer!Contents
  <2>1. Len(s) \in 0 .. MaxSize /\ s \in [1 .. Len(s) -> Content]
    BY <1>2, BufferAssumed
  <2> QED
    BY <2>1 DEF MessageBuffer!Contents, Content, MessageBuffer!Zero
<1> QED
  BY <1>1, <1>2

LEMMA Between ==
    ASSUME NEW S, NEW s \in Seq(S), NEW m \in Nat, NEW n \in Nat, m <= n, n <= Len(s)
    PROVE  /\ SubSeq(s, m + 1, n) \in Seq(S)
           /\ Len(SubSeq(s, m + 1, n)) = n - m
           /\ \A i \in 1 .. n - m : SubSeq(s, m + 1, n)[i] = s[m + i]
OBVIOUS

LEMMA SameBetween ==
    ASSUME NEW S, NEW s \in Seq(S), NEW t \in Seq(S), NEW m \in Nat, NEW n \in Nat,
           m <= n, n <= Len(s), Len(t) = n - m, \A i \in 1 .. n - m : t[i] = s[m + i]
    PROVE  t = SubSeq(s, m + 1, n)
<1>1. PICK w : w = SubSeq(s, m + 1, n)
  OBVIOUS
<1>2. w \in Seq(S) /\ Len(w) = Len(t) /\ \A i \in 1 .. Len(t) : w[i] = t[i]
  BY <1>1, Between
<1> QED
  BY <1>1, <1>2, SeqEqual

LEMMA FitsRange ==
    ASSUME NEW storage, NEW wpos, NEW rpos, NEW s, Fits(storage, wpos, rpos, s)
    PROVE  /\ storage \in MessageBuffer!Contents /\ wpos \in 0 .. MaxSize /\ rpos \in 0 .. MaxSize
           /\ s \in Seq(Content)
BY ContentsFacts, BufferAssumed DEF Fits

LEMMA ResizedFacts ==
    ASSUME NEW s \in Seq(Content), NEW n \in Nat
    PROVE  /\ MessageBuffer!Resized(s, n) \in Seq(Content) /\ Len(MessageBuffer!Resized(s, n)) = n
           /\ \A i \in 1 .. n : i <= Len(s) => MessageBuffer!Resized(s, n)[i] = s[i]
BY DEF MessageBuffer!Resized, Content

LEMMA NothingFits ==
    ASSUME NEW storage \in Seq(Content), Len(storage) <= MaxSize
    PROVE  Fits(storage, 0, 0, <<>>)
BY DEF Fits

LEMMA NewFits ==
    \A n \in 0 .. MaxSize :
        /\ MessageBuffer!New(n) \in Positioned
        /\ Fits(MessageBuffer!New(n).storage, MessageBuffer!New(n).wpos, MessageBuffer!New(n).rpos, <<>>)
<1> SUFFICES ASSUME NEW n \in 0 .. MaxSize
             PROVE  /\ MessageBuffer!New(n) \in Positioned
                    /\ Fits(MessageBuffer!New(n).storage, MessageBuffer!New(n).wpos, MessageBuffer!New(n).rpos, <<>>)
  OBVIOUS
<1>1. n \in Nat /\ n <= MaxSize /\ <<>> \in Seq(Content)
  BY BufferAssumed
<1>2. PICK t : t = MessageBuffer!Resized(<<>>, n)
  OBVIOUS
<1>3. t \in Seq(Content) /\ Len(t) = n
  BY <1>1, <1>2, ResizedFacts
<1>4. Fits(t, 0, 0, <<>>)
  BY <1>1, <1>3, NothingFits
<1>5. t \in MessageBuffer!Contents /\ 0 \in 0 .. MaxSize
  BY <1>4, FitsRange
<1> QED
  BY <1>2, <1>4, <1>5 DEF MessageBuffer!New, Positioned

LEMMA BufferInit == MessageBuffer!Init => BufferInv
<1> SUFFICES ASSUME MessageBuffer!Init PROVE BufferInv
  OBVIOUS
<1>1. /\ u1 \in [Buffers -> {MessageBuffer!New(n) : n \in 0 .. MaxSize}]
      /\ u2 = [b \in Buffers |-> <<>>]
  BY DEF MessageBuffer!Init
<1>2. ASSUME NEW b \in Buffers
      PROVE  u1[b] \in Positioned /\ Fits(u1[b].storage, u1[b].wpos, u1[b].rpos, u2[b])
  <2>1. PICK n \in 0 .. MaxSize : u1[b] = MessageBuffer!New(n)
    BY <1>1
  <2>2. u2[b] = <<>>
    BY <1>1
  <2> QED
    BY <2>1, <2>2, NewFits
<1>3. u1 \in [Buffers -> Positioned] /\ u2 \in [Buffers -> Seq(Content)]
  BY <1>1, <1>2
<1> QED
  BY <1>2, <1>3 DEF BufferInv

\* One buffer is changed, and then holds storage and the two positions.
BufferBecomes(b, storage, wpos, rpos) ==
    /\ u1' \in [Buffers -> Positioned]
    /\ u1'[b].storage = storage /\ u1'[b].wpos = wpos /\ u1'[b].rpos = rpos
    /\ \A c \in Buffers : c # b => u1'[c] = u1[c]

LEMMA OneChanges ==
    ASSUME BufferInv, NEW b \in Buffers, NEW storage, NEW wpos, NEW rpos, NEW s,
           Fits(storage, wpos, rpos, s), BufferBecomes(b, storage, wpos, rpos),
           u2' = [u2 EXCEPT ![b] = s]
    PROVE  BufferInv'
<1>1. u1 \in [Buffers -> Positioned] /\ u2 \in [Buffers -> Seq(Content)]
  BY DEF BufferInv
<1>2. u1' \in [Buffers -> Positioned] /\ u2' \in [Buffers -> Seq(Content)]
  BY <1>1, FitsRange DEF BufferBecomes
<1>3. ASSUME NEW c \in Buffers PROVE Fits(u1'[c].storage, u1'[c].wpos, u1'[c].rpos, u2'[c])
  <2>1. CASE c = b
    BY <1>1, <2>1 DEF BufferBecomes
  <2>2. CASE c # b
    BY <1>1, <2>2 DEF BufferBecomes, BufferInv
  <2> QED
    BY <2>1, <2>2
<1> QED
  BY <1>2, <1>3 DEF BufferInv, Fits

LEMMA BufferNext ==
    BufferInv /\ [MessageBuffer!Next]_<<u1, u2>> => BufferInv'
<1> SUFFICES ASSUME BufferInv, [MessageBuffer!Next]_<<u1, u2>>
             PROVE  BufferInv'
  OBVIOUS
<1>0. CASE UNCHANGED <<u1, u2>>
  BY <1>0 DEF BufferInv, Fits
<1>1. SUFFICES ASSUME MessageBuffer!Next PROVE BufferInv'
  BY <1>0
<1>2. PICK b \in Buffers :
        \/ MessageBuffer!EnsureFreeSpace(b) \/ MessageBuffer!Reset(b)
        \/ MessageBuffer!Normalize(b) \/ MessageBuffer!Move(b)
        \/ \E n \in 0 .. MaxSize : \/ MessageBuffer!Resize(b, n) \/ MessageBuffer!Construct(b, n)
                                   \/ MessageBuffer!ReadCompleted(b, n)
        \/ \E n \in 1 .. MaxSize : \E data \in [1 .. n -> Bytes] : MessageBuffer!Write(b, data)
        \/ \E c \in Buffers : MessageBuffer!CopyAssign(b, c) \/ MessageBuffer!MoveAssign(b, c)
  BY <1>1 DEF MessageBuffer!Next
<1>3. /\ u1 \in [Buffers -> Positioned] /\ u2 \in [Buffers -> Seq(Content)]
      /\ \A c \in Buffers : Fits(u1[c].storage, u1[c].wpos, u1[c].rpos, u2[c])
  BY DEF BufferInv
<1>4. PICK storage, wpos, rpos, s :
        storage = u1[b].storage /\ wpos = u1[b].wpos /\ rpos = u1[b].rpos /\ s = u2[b]
  OBVIOUS
<1>5. PICK len : len = Len(storage)
  OBVIOUS
<1>6. /\ storage \in Seq(Content) /\ wpos \in Nat /\ rpos \in Nat /\ s \in Seq(Content)
      /\ len \in Nat /\ len <= MaxSize /\ rpos <= wpos /\ wpos <= len
      /\ Len(s) = wpos - rpos
      /\ \A i \in 1 .. wpos - rpos : s[i] = storage[rpos + i]
  BY <1>3, <1>4, <1>5 DEF Fits
<1>7. DOMAIN storage = 1 .. len
  BY <1>5, <1>6
<1>8. PICK size \in Nat : size = wpos - rpos
  BY <1>6
<1>9. Fits(storage, wpos, rpos, s)
  BY <1>3, <1>4
<1>e. CASE MessageBuffer!EnsureFreeSpace(b)
  <2>1. CASE MessageBuffer!GetRemainingSpace(b) # 0
    BY <1>e, <2>1, <1>0 DEF MessageBuffer!EnsureFreeSpace
  <2>2. CASE MessageBuffer!GetRemainingSpace(b) = 0
    <3>1. PICK n : n = MessageBuffer!Grown(len)
      OBVIOUS
    <3>2. n \in Nat /\ n >= len
      BY <3>1, <1>6 DEF MessageBuffer!Grown
    <3>3. n <= MaxSize
      BY <3>1, <1>e, <1>4, <1>5 DEF MessageBuffer!EnsureFreeSpace
    <3>4. PICK t : t = MessageBuffer!Resized(storage, n)
      OBVIOUS
    <3>5. t \in Seq(Content) /\ Len(t) = n /\ \A i \in 1 .. n : i <= len => t[i] = storage[i]
      BY <1>5, <1>6, <3>2, <3>4, ResizedFacts
    <3>6. Fits(t, wpos, rpos, s)
      <4>1. wpos <= n
        BY <1>6, <3>2
      <4>2. \A i \in 1 .. wpos - rpos : rpos + i \in 1 .. n /\ rpos + i <= len
        BY <1>6, <3>2, <4>1
      <4>3. \A i \in 1 .. wpos - rpos : s[i] = t[rpos + i]
        BY <1>6, <3>5, <4>2
      <4> QED
        BY <1>6, <3>3, <3>5, <4>1, <4>3 DEF Fits
    <3>7. t \in MessageBuffer!Contents
      BY <3>6, FitsRange
    <3>8. u1' = [u1 EXCEPT ![b].storage = t]
      BY <1>e, <1>3, <1>4, <1>5, <2>2, <3>1, <3>4 DEF MessageBuffer!EnsureFreeSpace
    <3>9. BufferBecomes(b, t, wpos, rpos)
      BY <1>3, <1>4, <3>7, <3>8 DEF BufferBecomes, Positioned
    <3>10. u2' = [u2 EXCEPT ![b] = s]
      BY <1>3, <1>4, <1>e DEF MessageBuffer!EnsureFreeSpace
    <3> QED
      BY <3>6, <3>9, <3>10, OneChanges
  <2> QED
    BY <2>1, <2>2
<1>r. CASE MessageBuffer!Reset(b)
  <2>1. Fits(storage, 0, 0, <<>>)
    BY <1>5, <1>6, NothingFits
  <2>2. BufferBecomes(b, storage, 0, 0)
    <3>1. u1' = [u1 EXCEPT ![b].wpos = 0, ![b].rpos = 0] /\ 0 \in 0 .. MaxSize
      BY <1>r, BufferAssumed DEF MessageBuffer!Reset
    <3>2. PICK r : r = [[u1[b] EXCEPT !.wpos = 0] EXCEPT !.rpos = 0]
      OBVIOUS
    <3>3. r \in Positioned /\ r.storage = storage /\ r.wpos = 0 /\ r.rpos = 0
      BY <1>3, <1>4, <3>1, <3>2 DEF Positioned
    <3>4. u1' = [u1 EXCEPT ![b] = r]
      BY <1>3, <3>1, <3>2
    <3> QED
      BY <1>3, <3>3, <3>4 DEF BufferBecomes
  <2> QED
    BY <1>r, <2>1, <2>2, OneChanges DEF MessageBuffer!Reset
<1>n. CASE MessageBuffer!Normalize(b)
  <2>1. size + rpos = wpos /\ size <= len
    BY <1>6, <1>8
  <2>2. PICK t : t = [i \in DOMAIN storage |-> IF i <= size THEN storage[i + rpos] ELSE storage[i]]
    OBVIOUS
  <2>3. t \in Seq(Content) /\ Len(t) = len /\ \A i \in 1 .. size : t[i] = storage[rpos + i]
    BY <1>5, <1>6, <1>7, <2>1, <2>2
  <2>4. Fits(t, size, 0, s)
    BY <1>6, <1>8, <2>1, <2>3 DEF Fits
  <2>5. t \in MessageBuffer!Contents /\ size \in 0 .. MaxSize /\ 0 \in 0 .. MaxSize
    BY <2>4, FitsRange
  <2>6. u1' = [u1 EXCEPT ![b].storage = t, ![b].wpos = size, ![b].rpos = 0]
    BY <1>3, <1>4, <1>8, <1>n, <2>2 DEF MessageBuffer!Normalize, MessageBuffer!GetActiveSize
  <2>7. BufferBecomes(b, t, size, 0)
    BY <1>3, <2>5, <2>6 DEF BufferBecomes, Positioned
  <2>8. u2' = [u2 EXCEPT ![b] = s]
    BY <1>3, <1>4, <1>n DEF MessageBuffer!Normalize
  <2> QED
    BY <2>4, <2>7, <2>8, OneChanges
<1>m. CASE MessageBuffer!Move(b)
  <2>1. PICK x : x = MessageBuffer!New(0)
    OBVIOUS
  <2>2. x \in Positioned /\ Fits(x.storage, x.wpos, x.rpos, <<>>)
    BY <2>1, NewFits, BufferAssumed
  <2>3. BufferBecomes(b, x.storage, x.wpos, x.rpos)
    BY <1>3, <1>m, <2>1, <2>2 DEF BufferBecomes, MessageBuffer!Move
  <2> QED
    BY <1>m, <2>2, <2>3, OneChanges DEF MessageBuffer!Move
<1>z. ASSUME NEW n \in 0 .. MaxSize, MessageBuffer!Resize(b, n)
      PROVE  BufferInv'
  <2>1. n \in Nat /\ n <= MaxSize /\ wpos <= n
    BY <1>4, <1>6, <1>z, BufferAssumed DEF MessageBuffer!Resize
  <2>2. PICK t : t = MessageBuffer!Resized(storage, n)
    OBVIOUS
  <2>3. t \in Seq(Content) /\ Len(t) = n /\ \A i \in 1 .. n : i <= len => t[i] = storage[i]
    BY <1>5, <1>6, <2>1, <2>2, ResizedFacts
  <2>4. Fits(t, wpos, rpos, s)
    BY <1>6, <2>1, <2>3, SMTT(60) DEF Fits
  <2>5. t \in MessageBuffer!Contents
    BY <2>4, FitsRange
  <2>6. BufferBecomes(b, t, wpos, rpos)
    BY <1>3, <1>4, <1>z, <2>2, <2>5 DEF MessageBuffer!Resize, BufferBecomes, Positioned
  <2>7. u2' = [u2 EXCEPT ![b] = s]
    BY <1>3, <1>4, <1>z DEF MessageBuffer!Resize
  <2> QED
    BY <2>4, <2>6, <2>7, OneChanges
<1>c. ASSUME NEW n \in 0 .. MaxSize, MessageBuffer!Construct(b, n)
      PROVE  BufferInv'
  <2>1. PICK x : x = MessageBuffer!New(n)
    OBVIOUS
  <2>2. x \in Positioned /\ Fits(x.storage, x.wpos, x.rpos, <<>>)
    BY <2>1, NewFits
  <2>3. BufferBecomes(b, x.storage, x.wpos, x.rpos)
    BY <1>3, <1>c, <2>1, <2>2 DEF BufferBecomes, MessageBuffer!Construct
  <2> QED
    BY <1>c, <2>2, <2>3, OneChanges DEF MessageBuffer!Construct
<1>d. ASSUME NEW n \in 0 .. MaxSize, MessageBuffer!ReadCompleted(b, n)
      PROVE  BufferInv'
  <2>1. n \in Nat /\ n <= size
    BY <1>4, <1>8, <1>d, BufferAssumed DEF MessageBuffer!ReadCompleted, MessageBuffer!GetActiveSize
  <2>2. PICK t : t = SubSeq(s, n + 1, size)
    OBVIOUS
  <2>3. t \in Seq(Content) /\ Len(t) = size - n /\ \A i \in 1 .. size - n : t[i] = s[n + i]
    BY <1>6, <1>8, <2>1, <2>2, Between
  <2>4. PICK m \in Nat : m = rpos + n
    BY <1>6, <2>1
  <2>5. m <= wpos /\ size - n = wpos - m
    BY <1>6, <1>8, <2>1, <2>4
  <2>6. ASSUME NEW i \in 1 .. wpos - m PROVE t[i] = storage[m + i]
    <3>1. i \in 1 .. size - n /\ n + i \in 1 .. wpos - rpos /\ rpos + (n + i) = m + i
      BY <1>6, <1>8, <2>1, <2>4, <2>5
    <3> QED
      BY <1>6, <2>3, <3>1
  <2>7. Fits(storage, wpos, m, t)
    BY <1>5, <1>6, <2>3, <2>5, <2>6 DEF Fits
  <2>8. m \in 0 .. MaxSize
    BY <2>7, FitsRange
  <2>9. BufferBecomes(b, storage, wpos, m)
    BY <1>3, <1>4, <1>d, <2>4, <2>8 DEF MessageBuffer!ReadCompleted, BufferBecomes, Positioned
  <2>10. u2' = [u2 EXCEPT ![b] = t]
    BY <1>3, <1>4, <1>6, <1>8, <1>d, <2>2 DEF MessageBuffer!ReadCompleted
  <2> QED
    BY <2>7, <2>9, <2>10, OneChanges
<1>w. ASSUME NEW k \in 1 .. MaxSize, NEW data \in [1 .. k -> Bytes], MessageBuffer!Write(b, data)
      PROVE  BufferInv'
  <2>1. k \in Nat /\ data \in Seq(Content) /\ Len(data) = k /\ DOMAIN data = 1 .. k
    BY BufferAssumed DEF Content
  <2>2. wpos + k <= len
    BY <1>4, <1>5, <1>6, <1>w, <2>1 DEF MessageBuffer!Write, MessageBuffer!GetRemainingSpace
  <2>3. PICK t : t = [i \in DOMAIN storage |->
                        LET j == i - wpos IN IF j \in DOMAIN data THEN data[j] ELSE storage[i]]
    OBVIOUS
  <2>4. /\ t \in Seq(Content) /\ Len(t) = len
        /\ \A i \in 1 .. wpos : t[i] = storage[i]
        /\ \A i \in wpos + 1 .. wpos + k : t[i] = data[i - wpos]
    BY <1>5, <1>6, <1>7, <2>1, <2>2, <2>3
  <2>5. PICK w : w = s \o data
    OBVIOUS
  <2>6. Len(s) = size
    BY <1>6, <1>8
  <2>7. /\ w \in Seq(Content) /\ Len(w) = size + k
        /\ \A i \in 1 .. size : w[i] = s[i]
        /\ \A i \in size + 1 .. size + k : w[i] = data[i - size]
    <3>1. s \in Seq(Content) /\ data \in Seq(Content)
      BY <1>6, <2>1
    <3>2. /\ s \o data \in Seq(Content) /\ Len(s \o data) = Len(s) + Len(data)
          /\ \A i \in 1 .. Len(s) : (s \o data)[i] = s[i]
          /\ \A i \in Len(s) + 1 .. Len(s) + Len(data) : (s \o data)[i] = data[i - Len(s)]
      BY <3>1, ConcatFacts
    <3> QED
      BY <2>1, <2>5, <2>6, <3>2
  <2>8. PICK m \in Nat : m = wpos + k
    BY <1>6, <2>1
  <2>9. m - rpos = size + k /\ rpos <= m /\ m <= len
    BY <1>6, <1>8, <2>1, <2>2, <2>8
  <2>10. ASSUME NEW i \in 1 .. m - rpos PROVE w[i] = t[rpos + i]
    <3>1. CASE i <= size
      <4>1. i \in 1 .. size /\ rpos + i \in 1 .. wpos
        BY <1>6, <1>8, <3>1
      <4> QED
        BY <1>6, <1>8, <2>4, <2>7, <4>1
    <3>2. CASE i > size
      <4>1. /\ i \in size + 1 .. size + k /\ rpos + i \in wpos + 1 .. wpos + k
            /\ i - size = (rpos + i) - wpos
        BY <1>6, <1>8, <2>1, <2>9, <3>2
      <4> QED
        BY <2>4, <2>7, <4>1
    <3> QED
      BY <3>1, <3>2, <1>8
  <2>11. Fits(t, m, rpos, w)
    BY <1>6, <2>4, <2>7, <2>9, <2>10 DEF Fits
  <2>12. t \in MessageBuffer!Contents /\ m \in 0 .. MaxSize
    BY <2>11, FitsRange
  <2>13. u1' = [u1 EXCEPT ![b].storage = t, ![b].wpos = m]
    BY <1>3, <1>4, <1>w, <2>1, <2>3, <2>8 DEF MessageBuffer!Write
  <2>14. BufferBecomes(b, t, m, rpos)
    BY <1>3, <1>4, <2>12, <2>13 DEF BufferBecomes, Positioned
  <2>15. u2' = [u2 EXCEPT ![b] = w]
    BY <1>3, <1>4, <1>w, <2>5 DEF MessageBuffer!Write
  <2> QED
    BY <2>11, <2>14, <2>15, OneChanges
<1>p. ASSUME NEW c \in Buffers, MessageBuffer!CopyAssign(b, c)
      PROVE  BufferInv'
  <2>1. PICK x, t : x = u1[c] /\ t = u2[c]
    OBVIOUS
  <2>2. x \in Positioned /\ Fits(x.storage, x.wpos, x.rpos, t)
    BY <1>3, <2>1
  <2>3. BufferBecomes(b, x.storage, x.wpos, x.rpos)
    BY <1>3, <1>p, <2>1, <2>2 DEF BufferBecomes, MessageBuffer!CopyAssign
  <2> QED
    BY <1>p, <2>1, <2>2, <2>3, OneChanges DEF MessageBuffer!CopyAssign
<1>a. ASSUME NEW c \in Buffers, MessageBuffer!MoveAssign(b, c)
      PROVE  BufferInv'
  <2>1. CASE b = c
    BY <1>a, <2>1, <1>0 DEF MessageBuffer!MoveAssign
  <2>2. CASE b # c
    <3>1. PICK x : x = MessageBuffer!New(0)
      OBVIOUS
    <3>2. x \in Positioned /\ Fits(x.storage, x.wpos, x.rpos, <<>>) /\ <<>> \in Seq(Content)
      BY <3>1, NewFits, BufferAssumed
    <3>3. /\ u1' = [u1 EXCEPT ![b] = u1[c], ![c] = x]
          /\ u2' = [u2 EXCEPT ![b] = u2[c], ![c] = <<>>]
      BY <1>a, <2>2, <3>1 DEF MessageBuffer!MoveAssign
    <3>4. u1' \in [Buffers -> Positioned] /\ u2' \in [Buffers -> Seq(Content)]
      BY <1>3, <3>2, <3>3
    <3>5. ASSUME NEW d \in Buffers PROVE Fits(u1'[d].storage, u1'[d].wpos, u1'[d].rpos, u2'[d])
      <4>1. CASE d = c
        BY <1>3, <3>2, <3>3, <4>1
      <4>2. CASE d = b
        BY <1>3, <2>2, <3>3, <4>2
      <4>3. CASE d # c /\ d # b
        BY <1>3, <3>3, <4>3
      <4> QED
        BY <4>1, <4>2, <4>3
    <3> QED
      BY <3>4, <3>5 DEF BufferInv, Fits
  <2> QED
    BY <2>1, <2>2
<1> QED
  BY <1>2, <1>e, <1>r, <1>n, <1>m, <1>z, <1>c, <1>d, <1>w, <1>p, <1>a

LEMMA BufferImplies == BufferInv => MessageBuffer!InBounds /\ MessageBuffer!UnreadIntact
<1> SUFFICES ASSUME BufferInv PROVE MessageBuffer!InBounds /\ MessageBuffer!UnreadIntact
  OBVIOUS
<1>1. ASSUME NEW b \in Buffers
      PROVE  u2[b] = SubSeq(u1[b].storage, u1[b].rpos + 1, u1[b].wpos)
  <2>1. PICK storage, wpos, rpos, s :
          storage = u1[b].storage /\ wpos = u1[b].wpos /\ rpos = u1[b].rpos /\ s = u2[b]
    OBVIOUS
  <2>2. Fits(storage, wpos, rpos, s)
    BY <2>1 DEF BufferInv
  <2>3. s = SubSeq(storage, rpos + 1, wpos)
    BY <2>2, SameBetween DEF Fits
  <2> QED
    BY <2>1, <2>3
<1>2. MessageBuffer!UnreadIntact
  BY <1>1 DEF MessageBuffer!UnreadIntact
<1>3. MessageBuffer!InBounds
  BY DEF BufferInv, Fits, Positioned, MessageBuffer!InBounds
<1> QED
  BY <1>2, <1>3

-----------------------------------------------------------------------------
(* Division with remainder.                                                *)

LEMMA DivMod ==
    ASSUME NEW a \in Int, NEW m \in Nat, m > 0
    PROVE  /\ a \div m \in Int /\ a % m \in Int /\ 0 <= a % m /\ a % m < m
           /\ a = (m * (a \div m)) + (a % m)
OBVIOUS

LEMMA MultipleBetween ==
    ASSUME NEW m \in Nat, m > 0, NEW p \in Int, -m < m * p, m * p < m
    PROVE  p = 0
<1>1. p >= 1 => m * p >= m
  OBVIOUS
<1>2. p <= -1 => m * p <= -m
  OBVIOUS
<1> QED
  BY <1>1, <1>2

LEMMA DivUnique ==
    ASSUME NEW a \in Int, NEW m \in Nat, m > 0, NEW q \in Int, NEW r \in Int,
           0 <= r, r < m, a = (m * q) + r
    PROVE  a \div m = q /\ a % m = r
<1>1. PICK d, e \in Int : d = a \div m /\ e = a % m /\ 0 <= e /\ e < m /\ a = (m * d) + e
  BY DivMod
<1>2. m * (d - q) = r - e
  BY <1>1
<1>3. d - q = 0
  BY <1>1, <1>2, MultipleBetween
<1> QED
  BY <1>1, <1>3

LEMMA ModPlus ==
    ASSUME NEW a \in Int, NEW b \in Int, NEW m \in Nat, m > 0
    PROVE  (a + b) % m = ((a % m) + b) % m
<1>1. PICK d, e \in Int : d = a \div m /\ e = a % m /\ a = (m * d) + e
  BY DivMod
<1>2. PICK q, r \in Int : q = (e + b) \div m /\ r = (e + b) % m /\ 0 <= r /\ r < m /\ e + b = (m * q) + r
  BY DivMod
<1>3. PICK sum, t \in Int : sum = a + b /\ t = d + q
  BY <1>1, <1>2
<1>4. sum = (m * t) + r
  BY <1>1, <1>2, <1>3
<1>5. sum % m = r
  BY <1>2, <1>4, DivUnique
<1> QED
  BY <1>1, <1>2, <1>3, <1>5

-----------------------------------------------------------------------------
(* Timer.  Its variables are u1: now, u2: last, u3: elapsed, u4: interval, *)
(* u5: small, u6: periodic, u7: start, u8: long, u9: wide.                 *)

IntervalRuns ==
    /\ u4 \in [interval : 1 .. MaxPeriod, current : Nat] /\ u7.current \in Nat
    /\ Timer!IntervalNoDrift

\* What is left of a tracker's period when time has elapsed.
Runs(t, time) ==
    /\ t \in [expiry : 1 .. MaxPeriod, period : 1 .. MaxPeriod, began : Int]
    /\ t.expiry = t.period - (time - t.began)

TrackersRun == Runs(u9, u3) /\ (~u8 => Runs(u5, u3))

PeriodicRuns ==
    /\ u7.expire \in 1 .. MaxPeriod
    /\ ~u8 => /\ u6 \in [period : 1 .. MaxPeriod, expire : 1 .. MaxPeriod]
              /\ u6.expire <= u6.period \/ u6.expire <= u7.expire

TimerInv ==
    /\ u1 \in Nat /\ u3 \in Nat /\ u8 \in BOOLEAN
    /\ u2 = Timer!getMSTime(u1)
    /\ Timer!OneLostPerWrap
    /\ IntervalRuns
    /\ TrackersRun
    /\ PeriodicRuns

LEMMA TimerConstants ==
    /\ Half \in Nat /\ MaxTick \in Nat /\ MaxPeriod \in Nat /\ MaxNow \in Nat
    /\ MaxTick < Timer!Modulus /\ MaxPeriod < Half
    /\ Timer!Modulus = 2 * Half /\ Timer!Modulus \in Nat /\ Timer!Modulus > 0
BY UtilitiesAssumption DEF Timer!TimerAssumption, Timer!Modulus

LEMMA TimerBegins == Timer!Init => TimerInv
<1> SUFFICES ASSUME Timer!Init PROVE TimerInv
  OBVIOUS
<1>1. /\ u1 = 0 /\ u2 = 0 /\ u3 = 0 /\ u8 = FALSE
      /\ u7 = [current |-> u4.current, expire |-> u6.expire]
  BY DEF Timer!Init
<1>2. PICK p \in 1 .. MaxPeriod, c \in 0 .. MaxPeriod - 1 :
        /\ c < p /\ u4 = [interval |-> p, current |-> c]
        /\ u5 = [expiry |-> p, period |-> p, began |-> 0] /\ u9 = u5
  BY DEF Timer!Init
<1>3. PICK q, s \in 1 .. MaxPeriod : u6 = [period |-> q, expire |-> s]
  BY DEF Timer!Init
<1>4. 0 \div Timer!Modulus = 0 /\ 0 % Timer!Modulus = 0
  BY TimerConstants, DivUnique
<1>5. IntervalRuns
  <2>1. c % p = c
    BY <1>2, TimerConstants, DivUnique
  <2>2. u4.interval = p /\ u4.current = c /\ u7.current = c /\ c \in Nat
    BY <1>1, <1>2, TimerConstants
  <2>3. (u7.current + u3) % u4.interval = c
    BY <1>1, <2>1, <2>2
  <2>4. u4 \in [interval : 1 .. MaxPeriod, current : Nat]
    BY <1>2, <2>2
  <2> QED
    BY <2>2, <2>3, <2>4 DEF IntervalRuns, Timer!IntervalNoDrift
<1>6. TrackersRun
  BY <1>1, <1>2, TimerConstants DEF TrackersRun, Runs
<1>7. PeriodicRuns
  BY <1>1, <1>3, TimerConstants DEF PeriodicRuns
<1>8. u1 \in Nat /\ u3 \in Nat /\ u2 = Timer!getMSTime(u1) /\ Timer!OneLostPerWrap
  BY <1>1, <1>4 DEF Timer!getMSTime, Timer!OneLostPerWrap
<1>9. u8 \in BOOLEAN
  BY <1>1
<1> QED
  BY <1>5, <1>6, <1>7, <1>8, <1>9 DEF TimerInv

\* A difference is the length of the tick, less one if the clock has wrapped.
LEMMA TickDiff ==
    ASSUME NEW t \in Nat, NEW d \in 0 .. MaxTick, NEW diff,
           diff = Timer!getMSTimeDiff(Timer!getMSTime(t), Timer!getMSTime(t + d))
    PROVE  /\ diff \in 0 .. MaxTick
           /\ diff = d - (((t + d) \div Timer!Modulus) - (t \div Timer!Modulus))
<1>1. PICK m \in Nat : m = Timer!Modulus /\ m > 0 /\ MaxTick < m /\ MaxTick \in Nat
  BY TimerConstants
<1>2. PICK q, r \in Int : q = t \div m /\ r = t % m /\ 0 <= r /\ r < m /\ t = (m * q) + r
  BY <1>1, DivMod
<1>3. d \in Nat /\ d < m
  BY <1>1
<1>4. CASE r + d < m
  <2>1. t + d = (m * q) + (r + d)
    BY <1>2, <1>3
  <2>2. (t + d) \div m = q /\ (t + d) % m = r + d
    BY <1>1, <1>2, <1>3, <1>4, <2>1, DivUnique
  <2>3. diff = d
    BY <1>1, <1>2, <1>3, <2>2 DEF Timer!getMSTimeDiff, Timer!getMSTime
  <2> QED
    BY <1>1, <1>2, <2>2, <2>3
<1>5. CASE r + d >= m
  <2>1. t + d = (m * (q + 1)) + (r + d - m)
    BY <1>2, <1>3
  <2>2. (t + d) \div m = q + 1 /\ (t + d) % m = r + d - m
    BY <1>1, <1>2, <1>3, <1>5, <2>1, DivUnique
  <2>3. diff = d - 1
    BY <1>1, <1>2, <1>3, <2>2 DEF Timer!getMSTimeDiff, Timer!getMSTime
  <2> QED
    BY <1>1, <1>2, <1>3, <1>5, <2>2, <2>3
<1> QED
  BY <1>2, <1>3, <1>4, <1>5

\* What fits an int32 is stored as it is.
LEMMA SignedSmall ==
    ASSUME NEW n \in Int, -Half <= n, n < Half
    PROVE  Timer!Signed(n) = n
<1>1. n + Half \in Int /\ 0 <= n + Half /\ n + Half < Timer!Modulus
  BY TimerConstants
<1>2. n + Half = (Timer!Modulus * 0) + (n + Half)
  BY TimerConstants
<1>3. (n + Half) % Timer!Modulus = n + Half
  BY <1>1, <1>2, TimerConstants, DivUnique
<1> QED
  BY <1>3, TimerConstants DEF Timer!Signed

LEMMA IntervalKept ==
    ASSUME IntervalRuns, u3 \in Nat, NEW diff \in Nat, u3' = u3 + diff, u7' = u7,
           u4' = Timer!IntervalReset(Timer!IntervalUpdate(u4, diff))
    PROVE  IntervalRuns'
<1>1. PICK p, c, f, e :
        p = u4.interval /\ c = u4.current /\ f = u7.current /\ e = u3
  OBVIOUS
<1>2. /\ p \in 1 .. MaxPeriod /\ c \in Nat /\ f \in Nat /\ e \in Nat
      /\ c = (f + e) % p /\ p \in Nat /\ p > 0
  BY <1>1, TimerConstants DEF IntervalRuns, Timer!IntervalNoDrift
<1>3. PICK updated : updated = Timer!IntervalUpdate(u4, diff)
  OBVIOUS
<1>4. /\ updated \in [interval : 1 .. MaxPeriod, current : Nat]
      /\ updated.interval = p /\ updated.current = c + diff
  <2>1. c + diff \in Nat /\ ~(c + diff < 0)
    BY <1>2
  <2>2. updated = [u4 EXCEPT !.current = c + diff]
    BY <1>1, <1>3, <2>1 DEF Timer!IntervalUpdate
  <2> QED
    BY <1>1, <2>1, <2>2 DEF IntervalRuns
<1>5. (c + diff) % p \in Nat /\ (c + diff < p => (c + diff) % p = c + diff)
  <2>1. c + diff < p => (c + diff) % p = c + diff
    BY <1>2, DivUnique
  <2> QED
    BY <1>2, <2>1, DivMod
<1>6. /\ u4' \in [interval : 1 .. MaxPeriod, current : Nat]
      /\ u4'.interval = p /\ u4'.current = (c + diff) % p
  <2>1. CASE c + diff >= p
    <3>1. u4' = [updated EXCEPT !.current = (c + diff) % p]
      BY <1>3, <1>4, <2>1 DEF Timer!IntervalReset
    <3> QED
      BY <1>4, <1>5, <3>1
  <2>2. CASE c + diff < p
    <3>1. u4' = updated
      BY <1>2, <1>3, <1>4, <2>2 DEF Timer!IntervalReset
    <3> QED
      BY <1>4, <1>5, <2>2, <3>1
  <2> QED
    BY <1>2, <2>1, <2>2
<1>7. (f + (e + diff)) % p = (c + diff) % p
  <2>1. ((f + e) + diff) % p = (((f + e) % p) + diff) % p
    BY <1>2, ModPlus
  <2>2. f + (e + diff) = (f + e) + diff
    BY <1>2
  <2> QED
    BY <1>2, <2>1, <2>2
<1>8. u7'.current = f /\ u3' = e + diff
  BY <1>1
<1> QED
  BY <1>2, <1>6, <1>7, <1>8 DEF IntervalRuns, Timer!IntervalNoDrift

\* A tracker that counts down without limit, and is reset when it has passed.
LEMMA TrackerKept ==
    ASSUME NEW time \in Nat, NEW diff \in Nat, NEW t, Runs(t, time), NEW shorter, NEW next,
           shorter = Timer!WideUpdate(t, diff),
           next = IF Timer!Passed(shorter) THEN Timer!Reset(shorter, time + diff) ELSE shorter
    PROVE  Runs(next, time + diff)
<1>1. PICK x, p, b : x = t.expiry /\ p = t.period /\ b = t.began
  OBVIOUS
<1>2. /\ x \in 1 .. MaxPeriod /\ p \in 1 .. MaxPeriod /\ b \in Int /\ x = p - (time - b)
      /\ MaxPeriod \in Nat
  BY <1>1, TimerConstants DEF Runs
<1>3. shorter = [expiry |-> x - diff, period |-> p, began |-> b]
  BY <1>1 DEF Timer!WideUpdate, Runs
<1>4. CASE x - diff <= 0
  <2>1. next = [expiry |-> p, period |-> p, began |-> time + diff]
    <3>1. shorter.expiry = x - diff /\ shorter.period = p
      BY <1>3
    <3>2. next = [[shorter EXCEPT !.expiry = shorter.period] EXCEPT !.began = time + diff]
      BY <1>4, <3>1 DEF Timer!Passed, Timer!Reset
    <3> QED
      BY <1>3, <3>1, <3>2
  <2>2. next.expiry = next.period - ((time + diff) - next.began)
    BY <1>2, <2>1
  <2> QED
    BY <1>2, <2>1, <2>2 DEF Runs
<1>5. CASE x - diff > 0
  <2>1. next = shorter
    BY <1>2, <1>3, <1>5 DEF Timer!Passed
  <2>2. x - diff \in 1 .. MaxPeriod
    BY <1>2, <1>5
  <2>3. x - diff = p - ((time + diff) - b)
    BY <1>2
  <2> QED
    BY <1>2, <1>3, <2>1, <2>2, <2>3 DEF Runs
<1> QED
  BY <1>2, <1>4, <1>5

\* An int32 is enough for a difference that fits one.
LEMMA SmallIsWide ==
    ASSUME NEW time, NEW diff \in Nat, diff < Half, NEW t, Runs(t, time)
    PROVE  Timer!SmallUpdate(t, diff) = Timer!WideUpdate(t, diff)
<1>1. PICK x : x = t.expiry
  OBVIOUS
<1>2. x \in Int /\ -Half <= x - diff /\ x - diff < Half
  BY <1>1, TimerConstants DEF Runs
<1>3. Timer!Signed(x - diff) = x - diff
  BY <1>2, SignedSmall
<1> QED
  BY <1>1, <1>3 DEF Timer!SmallUpdate, Timer!WideUpdate

LEMMA TrackersKept ==
    ASSUME TrackersRun, u3 \in Nat, u8 \in BOOLEAN, NEW diff \in Nat, u3' = u3 + diff,
           NEW shorter, NEW shorterWide,
           shorter = Timer!SmallUpdate(u5, diff), shorterWide = Timer!WideUpdate(u9, diff),
           u5' = IF Timer!Passed(shorter) THEN Timer!Reset(shorter, u3') ELSE shorter,
           u9' = IF Timer!Passed(shorterWide) THEN Timer!Reset(shorterWide, u3') ELSE shorterWide,
           u8' = (u8 \/ diff >= Half)
    PROVE  TrackersRun'
<1>1. Runs(u9', u3')
  BY TrackerKept DEF TrackersRun
<1>2. ASSUME ~u8' PROVE Runs(u5', u3')
  <2>1. ~u8 /\ diff < Half
    <3>1. ~u8 /\ ~(diff >= Half)
      BY <1>2
    <3> QED
      BY <3>1, TimerConstants
  <2>2. shorter = Timer!WideUpdate(u5, diff)
    BY <2>1, SmallIsWide DEF TrackersRun
  <2> QED
    BY <2>1, <2>2, TrackerKept DEF TrackersRun
<1> QED
  BY <1>1, <1>2 DEF TrackersRun, Runs

LEMMA PeriodicKept ==
    ASSUME PeriodicRuns, ~u8, NEW diff \in Nat, diff < Half, u7' = u7,
           u6' \in {Timer!PeriodicUpdate(u6, diff), Timer!AsTracker(u6, diff)}
    PROVE  PeriodicRuns'
<1>1. PICK x, p, first : x = u6.expire /\ p = u6.period /\ first = u7.expire
  OBVIOUS
<1>2. /\ x \in 1 .. MaxPeriod /\ p \in 1 .. MaxPeriod /\ first \in 1 .. MaxPeriod
      /\ x <= p \/ x <= first
  BY <1>1 DEF PeriodicRuns
<1>3. PICK next \in Int :
        next = x - diff + (IF x - diff <= 0 THEN IF p > diff THEN p ELSE diff ELSE 0)
  BY <1>2
<1>4. next \in 1 .. MaxPeriod /\ (next <= p \/ next <= first)
  BY <1>2, <1>3, TimerConstants
<1>5. /\ Timer!Signed(x - diff) = x - diff /\ Timer!Signed(diff) = diff /\ Timer!Signed(next) = next
  <2>1. /\ x - diff \in Int /\ -Half <= x - diff /\ x - diff < Half
        /\ diff \in Int /\ -Half <= diff /\ diff < Half
        /\ -Half <= next /\ next < Half
    BY <1>2, <1>4, TimerConstants
  <2> QED
    BY <2>1, SignedSmall
<1>6. Timer!PeriodicUpdate(u6, diff) = [u6 EXCEPT !.expire = next]
  <2>1. Timer!PeriodicPassed(u6, diff) <=> x - diff <= 0
    BY <1>1, <1>5 DEF Timer!PeriodicPassed
  <2>2. Timer!PeriodicStep(u6, diff) = IF p > diff THEN p ELSE diff
    BY <1>1, <1>5 DEF Timer!PeriodicStep
  <2>3. Timer!Signed(x - diff + (IF Timer!PeriodicPassed(u6, diff) THEN Timer!PeriodicStep(u6, diff) ELSE 0)) = next
    BY <1>3, <1>5, <2>1, <2>2
  <2> QED
    BY <1>1, <2>3 DEF Timer!PeriodicUpdate
<1>7. PICK ticked : ticked = Timer!TUpdate(u6, diff)
  OBVIOUS
<1>8. /\ ticked = [u6 EXCEPT !.expire = x - diff]
      /\ ticked.expire = x - diff /\ ticked.period = p
      /\ ticked \in [period : 1 .. MaxPeriod, expire : Int]
  BY <1>1, <1>2, <1>5, <1>7 DEF Timer!TUpdate, PeriodicRuns
<1>9. /\ Timer!AsTracker(u6, diff) \in [period : 1 .. MaxPeriod, expire : 1 .. MaxPeriod]
      /\ Timer!AsTracker(u6, diff).period = p /\ Timer!AsTracker(u6, diff).expire = next
  <2>1. CASE x - diff <= 0
    <3>1. Timer!AsTracker(u6, diff) = Timer!TReset(ticked, diff, p)
      BY <1>1, <1>7, <1>8, <2>1 DEF Timer!AsTracker, Timer!TPassed
    <3>2. next = x - diff + IF p > diff THEN p ELSE diff
      BY <1>3, <2>1
    <3>3. Timer!TReset(ticked, diff, p) = [ticked EXCEPT !.expire = next]
      BY <1>5, <1>8, <3>2 DEF Timer!TReset
    <3> QED
      BY <1>4, <1>8, <3>1, <3>3
  <2>2. CASE ~(x - diff <= 0)
    <3>1. Timer!AsTracker(u6, diff) = ticked
      BY <1>1, <1>7, <1>8, <2>2 DEF Timer!AsTracker, Timer!TPassed
    <3>2. next = x - diff
      BY <1>2, <1>3, <2>2
    <3>3. ticked \in [period : 1 .. MaxPeriod, expire : 1 .. MaxPeriod]
      BY <1>4, <1>8, <3>2
    <3> QED
      BY <1>8, <3>1, <3>2, <3>3
  <2> QED
    BY <2>1, <2>2
<1>10. /\ [u6 EXCEPT !.expire = next] \in [period : 1 .. MaxPeriod, expire : 1 .. MaxPeriod]
       /\ [u6 EXCEPT !.expire = next].period = p /\ [u6 EXCEPT !.expire = next].expire = next
  BY <1>1, <1>4 DEF PeriodicRuns
<1>11. /\ u6' \in [period : 1 .. MaxPeriod, expire : 1 .. MaxPeriod]
       /\ u6'.period = p /\ u6'.expire = next
  BY <1>6, <1>9, <1>10
<1> QED
  BY <1>1, <1>2, <1>4, <1>11 DEF PeriodicRuns

LEMMA TimerNext == TimerInv /\ [Timer!Tick]_<<u1, u2, u3, u4, u5, u6, u7, u8, u9>> => TimerInv'
<1> SUFFICES ASSUME TimerInv, [Timer!Tick]_<<u1, u2, u3, u4, u5, u6, u7, u8, u9>> PROVE TimerInv'
  OBVIOUS
<1>1. CASE UNCHANGED <<u1, u2, u3, u4, u5, u6, u7, u8, u9>>
  BY <1>1 DEF TimerInv, IntervalRuns, TrackersRun, Runs, PeriodicRuns, Timer!OneLostPerWrap, Timer!IntervalNoDrift
<1>2. CASE Timer!Tick
  <2>1. PICK d, t, diff, shorter, shorterWide :
          /\ d \in 0 .. MaxTick /\ t = Timer!getMSTime(u1 + d) /\ diff = Timer!getMSTimeDiff(u2, t)
          /\ shorter = Timer!SmallUpdate(u5, diff) /\ shorterWide = Timer!WideUpdate(u9, diff)
          /\ u1' = u1 + d /\ u2' = t /\ u3' = u3 + diff
          /\ u4' = Timer!IntervalReset(Timer!IntervalUpdate(u4, diff))
          /\ u5' = IF Timer!Passed(shorter) THEN Timer!Reset(shorter, u3') ELSE shorter
          /\ u9' = IF Timer!Passed(shorterWide) THEN Timer!Reset(shorterWide, u3') ELSE shorterWide
          /\ u8' = (u8 \/ diff >= Half)
          /\ u6' \in {Timer!PeriodicUpdate(u6, diff), Timer!AsTracker(u6, diff)}
          /\ u7' = u7
    BY <1>2 DEF Timer!Tick
  <2>2. /\ diff \in 0 .. MaxTick
        /\ diff = d - (((u1 + d) \div Timer!Modulus) - (u1 \div Timer!Modulus))
    BY <2>1, TickDiff DEF TimerInv
  <2>3. u1' \in Nat /\ u3' \in Nat /\ diff \in Nat
    BY <2>1, <2>2, TimerConstants DEF TimerInv
  <2>4. Timer!OneLostPerWrap'
    <3>1. PICK q, r \in Int : q = u1 \div Timer!Modulus /\ r = (u1 + d) \div Timer!Modulus
      BY <2>1, TimerConstants, DivMod DEF TimerInv
    <3>2. u3 = u1 - q /\ diff = d - (r - q) /\ u1 \in Int /\ d \in Int
      BY <2>1, <2>2, <3>1, TimerConstants DEF TimerInv, Timer!OneLostPerWrap
    <3>3. u3' = u1' - r
      BY <2>1, <3>1, <3>2
    <3> QED
      BY <2>1, <3>1, <3>3 DEF Timer!OneLostPerWrap
  <2>5. IntervalRuns'
    BY <2>1, <2>3, IntervalKept DEF TimerInv
  <2>6. TrackersRun'
    BY <2>1, <2>3, TrackersKept DEF TimerInv
  <2>7. PeriodicRuns'
    <3>1. CASE ~u8 /\ diff < Half
      BY <2>1, <2>3, <3>1, PeriodicKept DEF TimerInv
    <3>2. CASE u8 \/ diff >= Half
      BY <2>1, <3>2 DEF TimerInv, PeriodicRuns
    <3> QED
      BY <2>3, <3>1, <3>2, TimerConstants
  <2>8. u8' \in BOOLEAN
    BY <2>1
  <2> QED
    BY <2>1, <2>8, <2>3, <2>4, <2>5, <2>6, <2>7 DEF TimerInv, Timer!getMSTime
<1> QED
  BY <1>1, <1>2

LEMMA TimerImplies ==
    TimerInv => /\ Timer!OneLostPerWrap /\ Timer!IntervalNoDrift
                /\ Timer!TrackersExact /\ Timer!PeriodicDue
<1> SUFFICES ASSUME TimerInv
             PROVE  /\ Timer!OneLostPerWrap /\ Timer!IntervalNoDrift
                    /\ Timer!TrackersExact /\ Timer!PeriodicDue
  OBVIOUS
<1>1. Timer!TrackersExact
  BY TimerConstants DEF TimerInv, TrackersRun, Runs, Timer!TrackersExact, Timer!Exact
<1>2. Timer!PeriodicDue
  BY TimerConstants DEF TimerInv, PeriodicRuns, Timer!PeriodicDue
<1> QED
  BY <1>1, <1>2 DEF TimerInv, IntervalRuns

\* The remainder of a remainder, and the quotient of a quotient.
LEMMA DivModTwice ==
    ASSUME NEW a \in Int, NEW k \in Nat, NEW m \in Nat, k > 0, m > 0
    PROVE  /\ k * m \in Nat /\ k * m > 0
           /\ (a % (k * m)) % m = a % m
           /\ (a % (k * m)) \div m = (a \div m) % k
           /\ (a \div m) \div k = a \div (k * m)
<1>1. PICK q, s \in Int : q = a \div m /\ s = a % m /\ 0 <= s /\ s < m /\ a = (m * q) + s
  BY DivMod
<1>2. PICK p, r \in Int : p = q \div k /\ r = q % k /\ 0 <= r /\ r < k /\ q = (k * p) + r
  BY DivMod
<1>3. PICK km, rest \in Int : km = k * m /\ rest = (m * r) + s
  BY <1>1, <1>2
<1>4. km \in Nat /\ km > 0
  BY <1>3
<1>5. 0 <= rest /\ rest < km
  <2>1. m * r >= 0 /\ m * r <= m * (k - 1)
    BY <1>2
  <2>2. m * (k - 1) = km - m
    BY <1>3
  <2> QED
    BY <1>1, <1>2, <1>3, <1>4, <2>1, <2>2
<1>6. a = (km * p) + rest
  <2>1. a = (m * ((k * p) + r)) + s
    BY <1>1, <1>2
  <2>2. m * ((k * p) + r) = ((k * m) * p) + (m * r)
    BY <1>2
  <2> QED
    BY <1>3, <2>1, <2>2
<1>7. a \div km = p /\ a % km = rest
  BY <1>4, <1>5, <1>6, DivUnique
<1>8. rest % m = s /\ rest \div m = r
  BY <1>1, <1>2, <1>3, DivUnique
<1> QED
  BY <1>1, <1>2, <1>3, <1>4, <1>7, <1>8

-----------------------------------------------------------------------------
(* LocalTime.  Its variables are u1: now, u2: zone, u3: time, u4: read,    *)
(* u5: call, u6: stamp, u7: packed, u8: unpacked, u9: moment.              *)

LEMMA LocalConstants ==
    /\ Minute \in Nat /\ Hour \in Nat /\ Hours \in Nat /\ PackedDays \in Nat
    /\ Minute > 0 /\ Hour > 0 /\ Hours > 0 /\ PackedDays > 0 /\ Offsets \subseteq Int
    /\ MaxTime \in Nat /\ MaxClock \in Nat
    /\ LocalTime!Day = Hours * Hour /\ LocalTime!Day \in Nat /\ LocalTime!Day > 0
<1>1. /\ Minute \in Nat /\ Hour \in Nat /\ Hours \in Nat /\ PackedDays \in Nat
      /\ Minute > 0 /\ Hour > 0 /\ Hours > 0 /\ PackedDays > 0 /\ Offsets \subseteq Int
      /\ MaxTime \in Nat /\ MaxClock \in Nat
  BY UtilitiesAssumption DEF LocalTime!LocalTimeAssumption
<1>2. Hours * Hour \in Nat /\ Hours * Hour > 0
  BY <1>1
<1> QED
  BY <1>1, <1>2 DEF LocalTime!Day

LocalTypes ==
    /\ u1 \in Int /\ LocalTime!Day <= u1
    /\ u2.switch \in Int /\ u2.before \in Int /\ u2.from \in Int
    /\ u3 \in Int
    /\ u5.of = "hour" => u5.hour \in Int /\ 0 <= u5.hour /\ u5.hour < Hours

\* A day is Hours times an hour.
LEMMA DayFacts ==
    ASSUME NEW local \in Int
    PROVE  /\ (local % LocalTime!Day) % Hour = local % Hour
           /\ (local % LocalTime!Day) \div Hour = (local \div Hour) % Hours
           /\ local \div LocalTime!Day = (local \div Hour) \div Hours
<1>1. Hours \in Nat /\ Hour \in Nat /\ Hours > 0 /\ Hour > 0 /\ LocalTime!Day = Hours * Hour
  BY LocalConstants
<1>2. /\ (local % (Hours * Hour)) % Hour = local % Hour
      /\ (local % (Hours * Hour)) \div Hour = (local \div Hour) % Hours
      /\ (local \div Hour) \div Hours = local \div (Hours * Hour)
  BY <1>1, DivModTwice, ZenonT(60)
<1> QED
  BY <1>1, <1>2, Zenon

\* The fields of a moment, and the moment again.
LEMMA MomentFacts ==
    ASSUME NEW local \in Int
    PROVE  /\ local \div LocalTime!Day \in Int
           /\ (local % LocalTime!Day) \div Hour \in Int
           /\ local % Hour \in Int
           /\ local = ((local \div LocalTime!Day) * LocalTime!Day)
                      + (((local % LocalTime!Day) \div Hour) * Hour) + (local % Hour)
<1>1. PICK day, rest \in Int :
        /\ day = local \div LocalTime!Day /\ rest = local % LocalTime!Day
        /\ local = (LocalTime!Day * day) + rest
  BY LocalConstants, DivMod
<1>2. PICK hour, tick \in Int :
        /\ hour = rest \div Hour /\ tick = rest % Hour /\ rest = (Hour * hour) + tick
  BY <1>1, LocalConstants, DivMod
<1>3. local % Hour = tick
  BY <1>1, <1>2, DayFacts
<1>4. PICK x, y \in Int : x = day * LocalTime!Day /\ y = hour * Hour
  BY <1>1, <1>2, LocalConstants
<1>5. LocalTime!Day * day = x /\ Hour * hour = y
  BY <1>1, <1>2, <1>4, LocalConstants
<1>6. local = x + y + tick
  BY <1>1, <1>2, <1>5
<1> QED
  BY <1>1, <1>2, <1>3, <1>4, <1>6

\* Moments of one hour have its day and its hour.
LEMMA HourFacts ==
    ASSUME NEW s \in Int, NEW t \in Int, s \div Hour = t \div Hour
    PROVE  /\ s \div LocalTime!Day = t \div LocalTime!Day
           /\ (s % LocalTime!Day) \div Hour = (t % LocalTime!Day) \div Hour
BY DayFacts, Zenon

\* No hour begins between two moments of one.
LEMMA HourBetween ==
    ASSUME NEW s \in Int, NEW m \in Int, NEW t \in Int, s <= m, m <= t, s \div Hour = t \div Hour
    PROVE  m \div Hour = s \div Hour
<1>1. PICK hour, r \in Int : hour = s \div Hour /\ 0 <= r /\ s = (Hour * hour) + r
  BY LocalConstants, DivMod
<1>2. PICK q \in Int : q < Hour /\ t = (Hour * hour) + q
  BY <1>1, LocalConstants, DivMod
<1>3. PICK x \in Int : x = Hour * hour
  BY <1>1, LocalConstants
<1>4. PICK rest \in Int : rest = m - x /\ 0 <= rest /\ rest < Hour
  <2>1. s = x + r /\ t = x + q
    BY <1>1, <1>2, <1>3
  <2>2. 0 <= m - x /\ m - x < Hour
    BY <1>1, <1>2, <1>3, <2>1, LocalConstants
  <2> QED
    BY <1>3, <2>2
<1>5. m = (Hour * hour) + rest
  BY <1>3, <1>4
<1> QED
  BY <1>1, <1>4, <1>5, LocalConstants, DivUnique

\* GetLocalHourTimestamp, of a time with offset off.
Midnight(t, off) == (((t + off) \div LocalTime!Day) * LocalTime!Day) - off
HourStamp(t, off, hour, after) ==
    IF after /\ Midnight(t, off) + (hour * Hour) <= t
    THEN Midnight(t, off) + (hour * Hour) + LocalTime!Day ELSE Midnight(t, off) + (hour * Hour)

IsNextHour(stamp, t, off, hour, after) ==
    /\ stamp \in Int
    /\ IF after THEN stamp > t /\ stamp - t <= LocalTime!Day
       ELSE stamp > t - LocalTime!Day /\ stamp < t + LocalTime!Day
    /\ (stamp + off) % LocalTime!Day = hour * Hour

LEMMA NextHourFacts ==
    ASSUME NEW t \in Int, NEW off \in Int, NEW hour \in Int, 0 <= hour, hour < Hours, NEW after \in BOOLEAN,
           NEW stamp, stamp = HourStamp(t, off, hour, after)
    PROVE  /\ IsNextHour(stamp, t, off, hour, after)
           /\ Midnight(t, off) + (hour * Hour) > t - LocalTime!Day
<1> PICK midnight, hourLocal : midnight = Midnight(t, off) /\ hourLocal = midnight + (hour * Hour)
  OBVIOUS
<1>0. stamp = IF after /\ hourLocal <= t THEN hourLocal + LocalTime!Day ELSE hourLocal
  BY DEF HourStamp
<1>1. PICK len \in Nat : len = LocalTime!Day /\ len > 0
  BY LocalConstants
<1>2. PICK day, rest \in Int :
        /\ day = (t + off) \div len /\ rest = (t + off) % len
        /\ 0 <= rest /\ rest < len /\ t + off = (len * day) + rest
  BY <1>1, DivMod
<1>3. PICK x, h \in Int : x = day * len /\ h = hour * Hour
  BY <1>1, <1>2, LocalConstants
<1>4. 0 <= h /\ h < len
  <2>1. hour * Hour >= 0 /\ hour * Hour <= (Hours - 1) * Hour
    BY LocalConstants
  <2>2. (Hours - 1) * Hour = (Hours * Hour) - Hour
    BY LocalConstants
  <2>3. len = Hours * Hour
    BY <1>1, LocalConstants
  <2> QED
    BY <1>1, <1>3, <2>1, <2>2, <2>3, LocalConstants
<1>5. /\ midnight = x - off /\ hourLocal = x - off + h /\ t + off = x + rest
      /\ midnight \in Int /\ hourLocal \in Int
  <2>1. len * day = x
    BY <1>1, <1>2, <1>3
  <2> QED
    BY <1>1, <1>2, <1>3, <2>1 DEF Midnight
<1>6. /\ stamp \in Int /\ hourLocal > t - len
      /\ IF after THEN stamp > t /\ stamp - t <= len ELSE stamp > t - len /\ stamp < t + len
  BY <1>0, <1>1, <1>2, <1>3, <1>4, <1>5
<1>7. (stamp + off) % len = h
  <2>1. CASE stamp = hourLocal
    <3>1. PICK sum \in Int : sum = stamp + off
      BY <1>6
    <3>2. len * day = x
      BY <1>1, <1>2, <1>3
    <3>3. sum = (len * day) + h
      BY <1>3, <1>5, <2>1, <3>1, <3>2
    <3>4. sum % len = h
      BY <1>1, <1>2, <1>3, <1>4, <3>3, DivUnique
    <3> QED
      BY <3>1, <3>4
  <2>2. CASE stamp = hourLocal + len
    <3>1. PICK next \in Int : next = day + 1
      BY <1>2
    <3>2. len * next = x + len
      BY <1>1, <1>2, <1>3, <3>1
    <3>3. stamp + off = (len * next) + h /\ stamp + off \in Int
      BY <1>1, <1>3, <1>5, <2>2, <3>1, <3>2
    <3> QED
      BY <1>1, <1>3, <1>4, <3>1, <3>3, DivUnique
  <2> QED
    BY <1>0, <1>1, <2>1, <2>2
<1> QED
  BY <1>1, <1>3, <1>6, <1>7 DEF IsNextHour

\* What the clock shows, when the offset has changed to other.
LEMMA OtherOffset ==
    ASSUME NEW stamp \in Int, NEW off \in Int, NEW other \in Int
    PROVE  (stamp + other) % LocalTime!Day = (((stamp + off) % LocalTime!Day) + other - off) % LocalTime!Day
<1> PICK h \in Int : h = (stamp + off) % LocalTime!Day
  BY LocalConstants
<1>1. PICK a, b \in Int : a = stamp + off /\ b = other - off
  OBVIOUS
<1>2. (a + b) % LocalTime!Day = ((a % LocalTime!Day) + b) % LocalTime!Day
  BY <1>1, LocalConstants, ModPlus
<1>3. a + b = stamp + other /\ h + b = h + other - off
  BY <1>1
<1> QED
  BY <1>1, <1>2, <1>3

\* AppendPackedTime and ReadPackedTime.
Unpacked(local, winter) ==
    (((local \div LocalTime!Day) % PackedDays) * LocalTime!Day)
    + (((local % LocalTime!Day) \div Hour) * Hour)
    + (((local % Hour) \div Minute) * Minute) - winter

Due(t, off, local, winter) ==
    t - ((local % Hour) % Minute) + (off - winter)
      - ((local \div (PackedDays * LocalTime!Day)) * PackedDays * LocalTime!Day)

LEMMA PackedFacts ==
    ASSUME NEW t \in Int, NEW off \in Int, NEW winter \in Int, NEW local, local = t + off,
           NEW back, back = Unpacked(local, winter)
    PROVE  back = Due(t, off, local, winter)
<1>1. PICK len \in Nat : len = LocalTime!Day /\ len > 0
  BY LocalConstants
<1>2. PICK day, hour, tick \in Int :
        /\ day = local \div len /\ hour = (local % len) \div Hour /\ tick = local % Hour
        /\ local = (day * len) + (hour * Hour) + tick
  BY <1>1, MomentFacts
<1>3. PICK minute, over \in Int :
        minute = tick \div Minute /\ over = tick % Minute /\ tick = (Minute * minute) + over
  BY <1>2, LocalConstants, DivMod
<1>4. PICK cycle, left \in Int :
        cycle = day \div PackedDays /\ left = day % PackedDays /\ day = (PackedDays * cycle) + left
  <2>1. PackedDays \in Nat /\ PackedDays > 0 /\ day \in Int
    BY <1>2, LocalConstants
  <2> QED
    BY <2>1, DivMod
<1>5. local \div (PackedDays * len) = cycle
  BY <1>1, <1>2, <1>4, LocalConstants, DivModTwice
<1>6. PICK x, y, z, w \in Int : x = hour * Hour /\ y = minute * Minute /\ z = left * len /\ w = cycle * PackedDays * len
  BY <1>1, <1>2, <1>3, <1>4, LocalConstants
<1>7. day * len = w + z
  <2>1. PICK whole \in Int : whole = cycle * PackedDays /\ day = whole + left
    BY <1>4, LocalConstants
  <2>2. (whole + left) * len = (whole * len) + (left * len)
    BY <1>1, <1>4, <2>1
  <2> QED
    BY <1>6, <2>1, <2>2
<1>8. Minute * minute = y
  BY <1>3, <1>6, LocalConstants
<1>9. back = z + x + y - winter
  BY <1>1, <1>2, <1>3, <1>4, <1>6 DEF Unpacked
<1>10. t + off = w + z + x + y + over
  BY <1>2, <1>3, <1>6, <1>7, <1>8
<1>11. back = t - over + (off - winter) - w
  <2>1. w \in Int /\ x \in Int /\ y \in Int /\ z \in Int /\ over \in Int
    BY <1>3, <1>6
  <2> QED
    BY <1>9, <1>10, <2>1
<1> QED
  BY <1>1, <1>2, <1>3, <1>5, <1>6, <1>11 DEF Due

\* What has been found is of the moment asked about; each of the fields, when
\* that is now, of one since the first was read.
Moments ==
    u9 # <<>> =>
        /\ u9[1] \in Int
        /\ IF u3 # 0 THEN u9[1] = u3 ELSE LocalTime!Day <= u9[1] /\ u9[1] <= u1
Asks ==
    /\ u6 # <<>> \/ u7 # <<>> \/ u8 # <<>> \/ DOMAIN u4 # {} => u9 # <<>>
    /\ u6 # <<>> => u5.of = "hour"
    /\ u5.of = "hour" /\ u6 = <<>> => u9 = <<>>
    /\ u5.of = "packed" /\ u7 = <<>> => u9 = <<>>
FieldsRead ==
    \A f \in DOMAIN u4 :
        \E m \in Int : /\ u4[f] = LocalTime!localtime(m)[f]
                       /\ IF u3 # 0 THEN m = u9[1] ELSE u9[1] <= m /\ m <= u1
Packed ==
    u7 # <<>> => u7[1] = [day |-> LocalTime!localtime(u9[1]).day, hour |-> LocalTime!localtime(u9[1]).hour,
                          minute |-> LocalTime!localtime(u9[1]).tick \div Minute]

LocalInv ==
    /\ LocalTypes /\ Moments /\ Asks
    /\ FieldsRead /\ Packed
    /\ LocalTime!NextHour
    /\ LocalTime!HourSharp
    /\ LocalTime!PackedTimeBack

LEMMA LocalBegins == LocalTime!Init => LocalInv
<1> SUFFICES ASSUME LocalTime!Init PROVE LocalInv
  OBVIOUS
<1>1. /\ u1 = LocalTime!Day /\ u3 \in 0 .. MaxTime
      /\ u2 \in [switch : 1 .. MaxClock, before : Offsets, from : Offsets]
      /\ u5 \in LocalTime!Calls
      /\ DOMAIN u4 = {} /\ u6 = <<>> /\ u7 = <<>> /\ u8 = <<>> /\ u9 = <<>>
  BY DEF LocalTime!Init
<1>2. LocalTypes
  <2>1. u2.switch \in 1 .. MaxClock /\ u2.before \in Offsets /\ u2.from \in Offsets
    BY <1>1
  <2>2. u2.before \in Int /\ u2.from \in Int
    BY <2>1, LocalConstants
  <2>3. u2.switch \in Int
    BY <2>1, LocalConstants
  <2>4. u1 \in Int /\ LocalTime!Day <= u1 /\ u3 \in Int
    BY <1>1, LocalConstants
  <2>5. u5.of = "hour" => u5.hour \in 0 .. Hours - 1
    BY <1>1 DEF LocalTime!Calls
  <2>6. u5.of = "hour" => u5.hour \in Int /\ 0 <= u5.hour /\ u5.hour < Hours
    BY <2>5, LocalConstants
  <2> QED
    BY <2>2, <2>3, <2>4, <2>6 DEF LocalTypes
<1> QED
  BY <1>1, <1>2
  DEF LocalInv, Moments, Asks, FieldsRead, Packed,
      LocalTime!NextHour, LocalTime!HourSharp, LocalTime!PackedTimeBack

LEMMA OffsetInt == ASSUME LocalTypes, NEW m PROVE LocalTime!Offset(m) \in Int
BY DEF LocalTypes, LocalTime!Offset

LEMMA LocalTimeFacts ==
    ASSUME LocalTypes, NEW m \in Int, NEW off, off = LocalTime!Offset(m), NEW local, local = m + off,
           NEW tm, tm = LocalTime!localtime(m)
    PROVE  /\ off \in Int /\ local \in Int
           /\ tm.day = local \div LocalTime!Day /\ tm.hour = (local % LocalTime!Day) \div Hour
           /\ tm.tick = local % Hour /\ tm.offset = off
           /\ tm = [day |-> local \div LocalTime!Day, hour |-> (local % LocalTime!Day) \div Hour,
                    tick |-> local % Hour, offset |-> off]
<1>1. off \in Int
  BY OffsetInt
<1>2. tm = [day |-> local \div LocalTime!Day, hour |-> (local % LocalTime!Day) \div Hour,
            tick |-> local % Hour, offset |-> off]
  BY DEF LocalTime!localtime
<1> QED
  BY <1>1, <1>2

\* What does not change, and what hangs on it.
LEMMA LocalStays ==
    ASSUME LocalInv, UNCHANGED <<u2, u3, u5>>, u1' \in Int, u1 <= u1', u9 # <<>> => u9' = u9
    PROVE  /\ LocalTypes'
           /\ u9' = u9 => Moments'
           /\ \A m : LocalTime!localtime(m)' = LocalTime!localtime(m)
           /\ \A m : LocalTime!Offset(m)' = LocalTime!Offset(m)
           /\ LocalTime!Winter' = LocalTime!Winter
           /\ u4' = u4 => FieldsRead'
           /\ u6' = u6 => LocalTime!NextHour' /\ LocalTime!HourSharp'
           /\ u7' = u7 => Packed'
           /\ u8' = u8 => LocalTime!PackedTimeBack'
<1>1. LocalTypes'
  BY LocalConstants DEF LocalInv, LocalTypes
<1>2. /\ \A m : LocalTime!localtime(m)' = LocalTime!localtime(m)
      /\ \A m : LocalTime!Offset(m)' = LocalTime!Offset(m)
      /\ LocalTime!Winter' = LocalTime!Winter
  BY DEF LocalTime!localtime, LocalTime!Offset, LocalTime!Winter
<1>3. u9' = u9 => Moments'
  BY LocalConstants DEF LocalInv, LocalTypes, Moments
<1>4. ASSUME u4' = u4 PROVE FieldsRead'
  <2> SUFFICES ASSUME NEW f \in DOMAIN u4
               PROVE  \E m \in Int : /\ u4[f] = LocalTime!localtime(m)'[f]
                                     /\ IF u3 # 0 THEN m = u9'[1] ELSE u9'[1] <= m /\ m <= u1'
    BY <1>4 DEF FieldsRead
  <2>1. u9 # <<>> /\ u9' = u9 /\ u9[1] \in Int /\ u1 \in Int
    BY DEF LocalInv, Asks, Moments, LocalTypes
  <2>2. PICK m \in Int : /\ u4[f] = LocalTime!localtime(m)[f]
                         /\ IF u3 # 0 THEN m = u9[1] ELSE u9[1] <= m /\ m <= u1
    BY DEF LocalInv, FieldsRead
  <2>3. IF u3 # 0 THEN m = u9'[1] ELSE u9'[1] <= m /\ m <= u1'
    BY <2>1, <2>2
  <2> QED
    BY <1>2, <2>2, <2>3
<1>5. ASSUME u6' = u6 PROVE LocalTime!NextHour' /\ LocalTime!HourSharp'
  <2>1. u6 # <<>> => u9' = u9
    BY DEF LocalInv, Asks
  <2>2. LocalTime!NextHour'
    BY <1>5, <2>1 DEF LocalInv, LocalTime!NextHour
  <2>3. LocalTime!HourSharp'
    BY <1>5, <2>1, Zenon DEF LocalInv, LocalTime!HourSharp, LocalTime!Offset
  <2> QED
    BY <2>2, <2>3
<1>6. ASSUME u7' = u7 PROVE Packed'
  <2>1. u7 # <<>> => u9' = u9
    BY DEF LocalInv, Asks
  <2>2. u7 # <<>> => LocalTime!localtime(u9[1])' = LocalTime!localtime(u9[1])
    BY <2>1 DEF LocalTime!localtime, LocalTime!Offset
  <2> QED
    BY <1>6, <2>1, <2>2 DEF LocalInv, Packed
<1>7. ASSUME u8' = u8 PROVE LocalTime!PackedTimeBack'
  <2>1. u8 # <<>> => u9' = u9
    BY DEF LocalInv, Asks
  <2>2. u8 # <<>> => LocalTime!Offset(u9[1])' = LocalTime!Offset(u9[1])
    BY <2>1 DEF LocalTime!Offset
  <2> QED
    BY <1>2, <1>7, <2>1, <2>2 DEF LocalInv, LocalTime!PackedTimeBack
<1> QED
  BY <1>1, <1>2, <1>3, <1>4, <1>5, <1>6, <1>7

\* Asking fixes the moment, or leaves it.
LEMMA MomentAsked ==
    ASSUME LocalInv, LocalTime!Asked, UNCHANGED <<u1, u3>>
    PROVE  /\ u9 # <<>> => u9' = u9
           /\ u9 = <<>> => u9'[1] = IF u3 = 0 THEN u1 ELSE u3
           /\ u9' # <<>> /\ Moments' /\ u9'[1] \in Int
<1>1. u1 \in Int /\ u3 \in Int /\ LocalTime!Day <= u1
  BY DEF LocalInv, LocalTypes
<1>2. CASE u9 # <<>>
  BY <1>1, <1>2 DEF LocalTime!Asked, LocalInv, Moments
<1>3. CASE u9 = <<>>
  <2>1. u9' = <<IF u3 = 0 THEN u1 ELSE u3>>
    BY <1>3 DEF LocalTime!Asked
  <2>2. u9' # <<>> /\ u9'[1] = IF u3 = 0 THEN u1 ELSE u3
    BY <2>1
  <2> QED
    BY <1>1, <1>3, <2>2, LocalConstants DEF Moments
<1> QED
  BY <1>2, <1>3

LEMMA GetFieldKeeps ==
    ASSUME LocalInv, NEW f, LocalTime!GetField(f)
    PROVE  LocalInv'
<1>1. /\ UNCHANGED <<u1, u2, u3, u5, u6, u7, u8>> /\ LocalTime!Asked /\ u5.of = "fields"
      /\ u4' = [g \in DOMAIN u4 \cup {f} |->
                  IF g = f THEN LocalTime!TimeBreakdown(IF u3 = 0 THEN u1 ELSE u3)[f] ELSE u4[g]]
  BY DEF LocalTime!GetField
<1>2. u1 \in Int /\ u3 \in Int /\ u1 > 0
  BY LocalConstants DEF LocalInv, LocalTypes
<1>3. PICK now \in Int : /\ now = IF u3 = 0 THEN u1 ELSE u3
                         /\ LocalTime!TimeBreakdown(now) = LocalTime!localtime(now)
  BY <1>2 DEF LocalTime!TimeBreakdown
<1>4. /\ u9 # <<>> => u9' = u9
      /\ u9 = <<>> => u9'[1] = now
      /\ u9' # <<>> /\ Moments' /\ u9'[1] \in Int
  BY <1>1, <1>3, MomentAsked
<1>5. /\ \A m : LocalTime!localtime(m)' = LocalTime!localtime(m)
      /\ LocalTypes' /\ Packed' /\ LocalTime!NextHour' /\ LocalTime!HourSharp' /\ LocalTime!PackedTimeBack'
  <2>1. u1' \in Int /\ u1 <= u1'
    BY <1>1, <1>2
  <2> QED
    BY <1>1, <1>4, <2>1, LocalStays
<1>6. Asks'
  BY <1>1, <1>4 DEF LocalInv, Asks
<1>7. FieldsRead'
  <2> SUFFICES ASSUME NEW g \in DOMAIN u4'
               PROVE  \E m \in Int : /\ u4'[g] = LocalTime!localtime(m)[g]
                                     /\ IF u3 # 0 THEN m = u9'[1] ELSE u9'[1] <= m /\ m <= u1
    BY <1>1, <1>5 DEF FieldsRead
  <2>1. CASE g = f
    <3>1. u4'[g] = LocalTime!localtime(now)[g]
      BY <1>1, <1>3, <2>1
    <3>2. IF u3 # 0 THEN now = u9'[1] ELSE u9'[1] <= now /\ now <= u1
      BY <1>1, <1>2, <1>3, <1>4 DEF Moments
    <3> QED
      BY <3>1, <3>2
  <2>2. CASE g # f
    <3>1. g \in DOMAIN u4 /\ u4'[g] = u4[g]
      BY <1>1, <2>2
    <3>2. u9' = u9
      BY <1>4, <3>1 DEF LocalInv, Asks
    <3> QED
      BY <3>1, <3>2 DEF LocalInv, FieldsRead
  <2> QED
    BY <2>1, <2>2
<1> QED
  BY <1>4, <1>5, <1>6, <1>7 DEF LocalInv

LEMMA HourKeeps ==
    ASSUME LocalInv, LocalTime!GetLocalHourTimestamp
    PROVE  LocalInv'
<1>1. /\ UNCHANGED <<u1, u2, u3, u4, u5, u7, u8>> /\ LocalTime!Asked /\ u5.of = "hour" /\ u6 = <<>>
      /\ u9 = <<>>
  BY DEF LocalTime!GetLocalHourTimestamp, LocalInv, Asks
<1>2. u1 \in Int /\ u3 \in Int /\ u1 > 0 /\ LocalTime!Day <= u1
  BY LocalConstants DEF LocalInv, LocalTypes
<1>3. PICK t \in Int : /\ t = IF u3 = 0 THEN u1 ELSE u3
                       /\ LocalTime!TimeBreakdown(u3) = LocalTime!localtime(t)
  BY <1>2 DEF LocalTime!TimeBreakdown
<1>4. u9' # <<>> /\ Moments' /\ u9'[1] = t
  BY <1>1, <1>3, MomentAsked
<1>5. /\ \A m : LocalTime!Offset(m)' = LocalTime!Offset(m)
      /\ LocalTypes' /\ FieldsRead' /\ Packed' /\ LocalTime!PackedTimeBack'
  <2>1. u1' \in Int /\ u1 <= u1'
    BY <1>1, <1>2
  <2> QED
    BY <1>1, <2>1, LocalStays
<1>6. PICK midnight, hourLocal, stamp, hour, after :
        /\ midnight = LocalTime!mktime([LocalTime!TimeBreakdown(u3) EXCEPT !.hour = 0, !.tick = 0])
        /\ hourLocal = midnight + (hour * Hour)
        /\ stamp = IF u5.onlyAfterTime /\ hourLocal <= u3 THEN hourLocal + LocalTime!Day ELSE hourLocal
        /\ u6' = <<stamp>> /\ hour = u5.hour /\ after = (u5.onlyAfterTime /\ u3 # 0)
  BY DEF LocalTime!GetLocalHourTimestamp
<1>7. hour \in Int /\ 0 <= hour /\ hour < Hours /\ after \in BOOLEAN
  BY <1>1, <1>6 DEF LocalInv, LocalTypes
<1>8. PICK off, local, tm :
        off = LocalTime!Offset(t) /\ local = t + off /\ tm = LocalTime!localtime(t)
  OBVIOUS
<1>9. off \in Int /\ local \in Int /\ tm.day = local \div LocalTime!Day /\ tm.offset = off
      /\ tm = [day |-> local \div LocalTime!Day, hour |-> (local % LocalTime!Day) \div Hour,
               tick |-> local % Hour, offset |-> off]
  BY <1>8, LocalTimeFacts DEF LocalInv
<1>10. midnight = Midnight(t, off)
  <2>1. PICK start : start = [tm EXCEPT !.hour = 0, !.tick = 0]
    OBVIOUS
  <2>2. start.day = tm.day /\ start.offset = off /\ start.hour = 0 /\ start.tick = 0
    BY <1>9, <2>1
  <2>3. midnight = LocalTime!mktime(start)
    BY <1>3, <1>6, <1>8, <2>1
  <2>4. midnight = ((local \div LocalTime!Day) * LocalTime!Day) + (0 * Hour) + 0 - off
    BY <1>9, <2>2, <2>3 DEF LocalTime!mktime
  <2>5. PICK x \in Int : x = (local \div LocalTime!Day) * LocalTime!Day
    BY <1>9, MomentFacts, LocalConstants
  <2> QED
    BY <1>8, <1>9, <2>4, <2>5, LocalConstants DEF Midnight
\* For time 0, today's hour is behind 0, whatever it is.
<1>11. stamp = HourStamp(t, off, hour, after)
  <2>1. hourLocal > t - LocalTime!Day
    <3>1. PICK other : other = HourStamp(t, off, hour, after)
      OBVIOUS
    <3> QED
      BY <1>6, <1>7, <1>9, <1>10, <3>1, NextHourFacts
  <2>2. hourLocal \in Int
    <3>1. PICK x, y \in Int : x = (local \div LocalTime!Day) * LocalTime!Day /\ y = hour * Hour
      BY <1>7, <1>9, MomentFacts, LocalConstants
    <3> QED
      BY <1>6, <1>8, <1>9, <1>10, <3>1 DEF Midnight
  <2>3. u3 = 0 => ~(hourLocal <= u3)
    BY <1>2, <1>3, <2>1, <2>2, LocalConstants
  <2>4. u3 # 0 => t = u3
    BY <1>3
  <2>5. stamp = IF after /\ hourLocal <= t THEN hourLocal + LocalTime!Day ELSE hourLocal
    BY <1>6, <2>3, <2>4
  <2> QED
    BY <1>6, <1>10, <2>5 DEF HourStamp
<1>12. IsNextHour(stamp, t, off, hour, after)
  BY <1>7, <1>9, <1>11, NextHourFacts
<1>13. u6' # <<>> /\ u6'[1] = stamp
  BY <1>6
<1>14. LocalTime!NextHour'
  <2>1. IF u5.onlyAfterTime /\ u3 # 0 THEN stamp > t /\ stamp - t <= LocalTime!Day
        ELSE stamp > t - LocalTime!Day /\ stamp < t + LocalTime!Day
    BY <1>6, <1>12 DEF IsNextHour
  <2>2. u3 # 0 => t = u3
    BY <1>3
  <2> QED
    BY <1>1, <1>4, <1>13, <2>1, <2>2 DEF LocalTime!NextHour
<1>15. LocalTime!HourSharp'
  <2>1. PICK other, h : other = LocalTime!Offset(stamp) /\ h = hour * Hour
    OBVIOUS
  <2>2. other \in Int
    BY <2>1, OffsetInt DEF LocalInv
  <2>3. h \in Int
    BY <1>7, <2>1, LocalConstants
  <2>4. (stamp + other) % LocalTime!Day = (h + other - off) % LocalTime!Day
    <3>1. stamp \in Int /\ (stamp + off) % LocalTime!Day = h
      BY <1>12, <2>1 DEF IsNextHour
    <3>2. off \in Int
      BY <1>9
    <3>3. (stamp + other) % LocalTime!Day
              = (((stamp + off) % LocalTime!Day) + other - off) % LocalTime!Day
      BY <2>2, <3>1, <3>2, OtherOffset
    <3> QED
      BY <3>1, <3>3, Zenon
  <2>5. LocalTime!Offset(stamp)' = other /\ LocalTime!Offset(t)' = off
    BY <1>5, <1>8, <2>1
  <2> QED
    BY <1>1, <1>4, <1>6, <1>13, <2>1, <2>4, <2>5 DEF LocalTime!HourSharp
<1>16. Asks'
  BY <1>1, <1>4, <1>13 DEF LocalInv, Asks
<1> QED
  BY <1>4, <1>5, <1>14, <1>15, <1>16 DEF LocalInv

LEMMA AppendKeeps ==
    ASSUME LocalInv, LocalTime!AppendPackedTime
    PROVE  LocalInv'
<1>1. /\ UNCHANGED <<u1, u2, u3, u4, u5, u6, u8>> /\ LocalTime!Asked /\ u5.of = "packed" /\ u9 = <<>>
  BY DEF LocalTime!AppendPackedTime, LocalInv, Asks
<1>2. u1 \in Int /\ u3 \in Int
  BY DEF LocalInv, LocalTypes
<1>3. PICK t \in Int : /\ t = IF u3 = 0 THEN u1 ELSE u3
                       /\ LocalTime!TimeBreakdown(u3) = LocalTime!localtime(t)
  BY <1>2 DEF LocalTime!TimeBreakdown
<1>4. u9' # <<>> /\ Moments' /\ u9'[1] = t
  BY <1>1, <1>3, MomentAsked
<1>5. /\ \A m : LocalTime!localtime(m)' = LocalTime!localtime(m)
      /\ LocalTypes' /\ FieldsRead' /\ LocalTime!NextHour' /\ LocalTime!HourSharp' /\ LocalTime!PackedTimeBack'
  <2>1. u1' \in Int /\ u1 <= u1'
    BY <1>1, <1>2
  <2> QED
    BY <1>1, <2>1, LocalStays
<1>6. PICK tm : tm = LocalTime!localtime(t)
  OBVIOUS
<1>7. u7' = <<[day |-> tm.day, hour |-> tm.hour, minute |-> tm.tick \div Minute]>>
  BY <1>3, <1>6 DEF LocalTime!AppendPackedTime
<1>8. u7' # <<>> /\ u7'[1] = [day |-> tm.day, hour |-> tm.hour, minute |-> tm.tick \div Minute]
  BY <1>7
<1>9. tm = LocalTime!localtime(u9[1])'
  BY <1>1, <1>4, <1>6 DEF LocalTime!localtime, LocalTime!Offset
<1>10. Packed'
  BY <1>8, <1>9 DEF Packed
<1>11. Asks'
  BY <1>1, <1>4, <1>8 DEF LocalInv, Asks
<1> QED
  BY <1>4, <1>5, <1>10, <1>11 DEF LocalInv

LEMMA ReadPackedKeeps ==
    ASSUME LocalInv, LocalTime!ReadPackedTime
    PROVE  LocalInv'
<1>1. /\ UNCHANGED <<u1, u2, u3, u4, u5, u6, u7, u9>> /\ u7 # <<>>
  BY DEF LocalTime!ReadPackedTime
<1>2. /\ \A m : LocalTime!Offset(m)' = LocalTime!Offset(m)
      /\ LocalTime!Winter' = LocalTime!Winter
      /\ LocalTypes' /\ Moments' /\ FieldsRead' /\ Packed' /\ LocalTime!NextHour' /\ LocalTime!HourSharp'
  <2>1. u1' \in Int /\ u1 <= u1'
    BY <1>1 DEF LocalInv, LocalTypes
  <2> QED
    BY <1>1, <2>1, LocalStays
<1>3. u9 # <<>> /\ u9[1] \in Int
  BY <1>1 DEF LocalInv, Asks, Moments
<1>4. PICK t \in Int : t = u9[1]
  BY <1>3
<1> PICK off, local, tm, winter :
        /\ off = LocalTime!Offset(t) /\ local = t + off
        /\ tm = LocalTime!localtime(t) /\ winter = LocalTime!Winter
  OBVIOUS
<1>5. /\ off \in Int /\ local \in Int
      /\ tm.day = local \div LocalTime!Day /\ tm.hour = (local % LocalTime!Day) \div Hour
      /\ tm.tick = local % Hour
  <2>1. LocalTypes
    BY DEF LocalInv
  <2> QED
    BY <2>1, LocalTimeFacts
<1>6. PICK lt : /\ lt = [day |-> u7[1].day % PackedDays, hour |-> u7[1].hour,
                         tick |-> u7[1].minute * Minute, offset |-> winter]
                /\ u8' = <<LocalTime!mktime(lt)>>
  BY <1>4 DEF LocalTime!ReadPackedTime
<1>7. u7[1] = [day |-> tm.day, hour |-> tm.hour, minute |-> tm.tick \div Minute]
  BY <1>1, <1>4 DEF LocalInv, Packed
<1>8. /\ lt.day = tm.day % PackedDays /\ lt.hour = tm.hour
      /\ lt.tick = (tm.tick \div Minute) * Minute /\ lt.offset = winter
  BY <1>6, <1>7
<1>9. LocalTime!mktime(lt) = Unpacked(local, winter)
  BY <1>5, <1>8 DEF LocalTime!mktime, Unpacked
<1>10. winter \in Int
  BY <1>4 DEF LocalInv, LocalTypes, LocalTime!Winter
<1>11. PICK back : back = LocalTime!mktime(lt)
  OBVIOUS
<1>12. back = Due(t, off, local, winter)
  <2>1. off \in Int /\ back = Unpacked(local, winter) /\ local = t + off
    BY <1>5, <1>9, <1>11
  <2> QED
    BY <1>10, <2>1, PackedFacts
<1>13. u8'[1] = back
  BY <1>6, <1>11
<1>14. LocalTime!PackedTimeBack'
  BY <1>1, <1>2, <1>4, <1>12, <1>13 DEF LocalTime!PackedTimeBack, Due
<1>15. Asks'
  BY <1>1, <1>3 DEF LocalInv, Asks
<1> QED
  BY <1>2, <1>14, <1>15 DEF LocalInv

LEMMA LocalNext == LocalInv /\ [LocalTime!Next]_<<u1, u2, u3, u4, u5, u6, u7, u8, u9>> => LocalInv'
<1> SUFFICES ASSUME LocalInv, [LocalTime!Next]_<<u1, u2, u3, u4, u5, u6, u7, u8, u9>> PROVE LocalInv'
  OBVIOUS
<1>1. CASE \E f \in LocalTime!Fields : LocalTime!GetField(f)
  BY <1>1, GetFieldKeeps
<1>2. CASE LocalTime!GetLocalHourTimestamp
  BY <1>2, HourKeeps
<1>3. CASE LocalTime!AppendPackedTime
  BY <1>3, AppendKeeps
<1>4. CASE LocalTime!ReadPackedTime
  BY <1>4, ReadPackedKeeps
<1>5. CASE LocalTime!ClockTicks \/ UNCHANGED <<u1, u2, u3, u4, u5, u6, u7, u8, u9>>
  <2>1. UNCHANGED <<u2, u3, u4, u5, u6, u7, u8, u9>> /\ u1' \in Int /\ u1 <= u1'
    BY <1>5 DEF LocalTime!ClockTicks, LocalInv, LocalTypes
  <2>2. Asks'
    BY <2>1 DEF LocalInv, Asks
  <2> QED
    BY <2>1, <2>2, LocalStays DEF LocalInv
<1> QED
  BY <1>1, <1>2, <1>3, <1>4, <1>5 DEF LocalTime!Next

LEMMA LocalImplies ==
    LocalInv => /\ LocalTime!NextHour /\ LocalTime!HourSharp
                /\ LocalTime!FieldsOfOneMoment /\ LocalTime!PackedTimeBack
<1> SUFFICES ASSUME LocalInv, DOMAIN u4 = LocalTime!Fields,
                    u3 = 0 => LocalTime!SameHour(u9[1], u1)
             PROVE  LET together == LocalTime!mktime(
                                [day |-> u4["day"], hour |-> u4["hour"], tick |-> u4["tick"],
                                 offset |-> LocalTime!Offset(u9[1])])
                    IN  IF u3 # 0 THEN together = u3 ELSE u9[1] <= together /\ together <= u1
  BY DEF LocalInv, LocalTime!FieldsOfOneMoment
<1>1. u9 # <<>> /\ u9[1] \in Int /\ u1 \in Int /\ u3 \in Int
  BY DEF LocalInv, LocalTypes, Asks, Moments, LocalTime!Fields
<1>2. PICK since, off \in Int : since = u9[1] /\ off = LocalTime!Offset(since)
  BY <1>1, OffsetInt DEF LocalInv
\* A moment of which a field may have been read has the day and the hour of the first.
<1>3. ASSUME NEW m \in Int, IF u3 # 0 THEN m = since ELSE since <= m /\ m <= u1
      PROVE  LocalTime!Offset(m) = off /\ (m + off) \div Hour = (since + off) \div Hour
  <2>1. CASE u3 # 0
    BY <1>2, <1>3, <2>1
  <2>2. CASE u3 = 0
    <3>1. /\ LocalTime!Offset(u1) = off
          /\ (since + off) \div Hour = (u1 + off) \div Hour
      BY <1>2, <2>2 DEF LocalTime!SameHour
    <3>2. LocalTime!Offset(m) = off
      BY <1>1, <1>2, <1>3, <2>2, <3>1 DEF LocalTime!Offset, LocalInv, LocalTypes
    <3>3. PICK s, n, e \in Int : s = since + off /\ n = m + off /\ e = u1 + off
      BY <1>1, <1>2
    <3>4. s <= n /\ n <= e /\ s \div Hour = e \div Hour
      BY <1>1, <1>2, <1>3, <2>2, <3>1, <3>3
    <3>5. n \div Hour = s \div Hour
      BY <3>4, HourBetween
    <3> QED
      BY <3>2, <3>3, <3>5
  <2> QED
    BY <2>1, <2>2
<1>4. \A f \in LocalTime!Fields :
        \E m \in Int : /\ u4[f] = LocalTime!localtime(m)[f]
                       /\ IF u3 # 0 THEN m = since ELSE since <= m /\ m <= u1
  BY <1>2 DEF LocalInv, FieldsRead
<1>5. PICK d \in Int : /\ u4["day"] = LocalTime!localtime(d).day
                       /\ IF u3 # 0 THEN d = since ELSE since <= d /\ d <= u1
  BY <1>4 DEF LocalTime!Fields
<1>6. PICK h \in Int : /\ u4["hour"] = LocalTime!localtime(h).hour
                       /\ IF u3 # 0 THEN h = since ELSE since <= h /\ h <= u1
  BY <1>4 DEF LocalTime!Fields
<1>7. PICK m \in Int : /\ u4["tick"] = LocalTime!localtime(m).tick
                       /\ IF u3 # 0 THEN m = since ELSE since <= m /\ m <= u1
  BY <1>4 DEF LocalTime!Fields
<1>8. PICK first, second, local \in Int : first = d + off /\ second = h + off /\ local = m + off
  BY <1>2
<1>9. /\ u4["day"] = first \div LocalTime!Day
      /\ u4["hour"] = (second % LocalTime!Day) \div Hour
      /\ u4["tick"] = local % Hour
  <2>1. LocalTime!Offset(d) = off /\ LocalTime!Offset(h) = off /\ LocalTime!Offset(m) = off
    BY <1>3, <1>5, <1>6, <1>7
  <2> QED
    BY <1>5, <1>6, <1>7, <1>8, <2>1, LocalTimeFacts DEF LocalInv
<1>10. first \div Hour = local \div Hour /\ second \div Hour = local \div Hour
  BY <1>3, <1>5, <1>6, <1>7, <1>8
<1>11. /\ u4["day"] = local \div LocalTime!Day
       /\ u4["hour"] = (local % LocalTime!Day) \div Hour
  BY <1>9, <1>10, HourFacts
<1>12. PICK x, y, z \in Int : /\ x = u4["day"] * LocalTime!Day /\ y = u4["hour"] * Hour /\ z = u4["tick"]
                              /\ local = x + y + z
  BY <1>9, <1>11, MomentFacts, LocalConstants
<1>13. PICK together : together = LocalTime!mktime([day |-> u4["day"], hour |-> u4["hour"],
                                                    tick |-> u4["tick"], offset |-> off])
  OBVIOUS
<1>14. together = m
  <2>1. together = x + y + z - off
    BY <1>12, <1>13 DEF LocalTime!mktime
  <2> QED
    BY <1>2, <1>8, <1>12, <2>1
<1>15. u3 # 0 => since = u3
  BY <1>1, <1>2 DEF LocalInv, Moments
<1> QED
  BY <1>2, <1>7, <1>13, <1>14, <1>15

-----------------------------------------------------------------------------
(* The sequential components together.  Each has its own invariant; the    *)
(* component that runs never changes.                                      *)

UtilitiesInv ==
    /\ part = "Config" => ConfigInv
    /\ part = "Main" => MainInv
    /\ part = "Log" => LogInv
    /\ part = "MessageBuffer" => BufferInv
    /\ part = "Timer" => TimerInv
    /\ part = "LocalTime" => LocalInv

LEMMA UtilitiesBegin == UtilitiesInit => UtilitiesInv
<1> SUFFICES ASSUME UtilitiesInit PROVE UtilitiesInv
  OBVIOUS
<1>1. /\ part = "Config" => Main!Init
      /\ part = "Main" => Main!MainInit
      /\ part = "Log" => Log!Init
      /\ part = "MessageBuffer" => MessageBuffer!Init
      /\ part = "Timer" => Timer!Init
      /\ part = "LocalTime" => LocalTime!Init
  BY DEF UtilitiesInit
<1> QED
  BY <1>1, ConfigInit, MainBegins, LogInit, BufferInit, TimerBegins, LocalBegins DEF UtilitiesInv

\* A step is one of the component that runs.
LEMMA OnePart ==
    ASSUME [UtilitiesNext]_utilitiesVars
    PROVE  /\ part' = part
           /\ part = "Config" => [Main!Next]_<<u1, u2, u3, u4, u5, u6>>
           /\ part = "Main" => [Main!MainNext]_<<u1, u2, u3, u4, u5, u6, u7, u8>>
           /\ part = "Log" => [Log!Next]_<<u1, u2, u3, u4, u5, u6, u7, u8>>
           /\ part = "MessageBuffer" => [MessageBuffer!Next]_<<u1, u2>>
           /\ part = "Timer" => [Timer!Tick]_<<u1, u2, u3, u4, u5, u6, u7, u8, u9>>
           /\ part = "LocalTime" => [LocalTime!Next]_<<u1, u2, u3, u4, u5, u6, u7, u8, u9>>
<1>1. CASE UtilitiesNext
  BY <1>1 DEF UtilitiesNext
<1>2. CASE UNCHANGED utilitiesVars
  BY <1>2 DEF utilitiesVars
<1> QED
  BY <1>1, <1>2

LEMMA UtilitiesKeep == UtilitiesInv /\ [UtilitiesNext]_utilitiesVars => UtilitiesInv'
<1> SUFFICES ASSUME UtilitiesInv, [UtilitiesNext]_utilitiesVars PROVE UtilitiesInv'
  OBVIOUS
<1>1. CASE part = "Config"
  BY <1>1, OnePart, ConfigNext DEF UtilitiesInv
<1>2. CASE part = "Main"
  BY <1>2, OnePart, MainNext DEF UtilitiesInv
<1>3. CASE part = "Log"
  BY <1>3, OnePart, LogNext DEF UtilitiesInv
<1>4. CASE part = "MessageBuffer"
  BY <1>4, OnePart, BufferNext DEF UtilitiesInv
<1>5. CASE part = "Timer"
  BY <1>5, OnePart, TimerNext DEF UtilitiesInv
<1>6. CASE part = "LocalTime"
  BY <1>6, OnePart, LocalNext DEF UtilitiesInv
<1>7. CASE part \notin {"Config", "Main", "Log", "MessageBuffer", "Timer", "LocalTime"}
  BY <1>7, OnePart DEF UtilitiesInv
<1> QED
  BY <1>1, <1>2, <1>3, <1>4, <1>5, <1>6, <1>7

LEMMA UtilitiesInvariant == UtilitiesSpec => []UtilitiesInv
BY UtilitiesBegin, UtilitiesKeep, PTL DEF UtilitiesSpec

\* Whatever files there are and whatever their lines, also unreadable ones, in
\* whatever order the entries of a map come out: after LoadAppConfigs the
\* options are the layers of the files; a LoadAdditionalFile that fails has
\* changed none, a LoadInitial that fails leaves none.
THEOREM ConfigCorrect == UtilitiesSpec => []ConfigLayered
<1>1. UtilitiesInv => ConfigLayered
  BY ConfigImplies DEF UtilitiesInv, ConfigLayered
<1> QED
  BY <1>1, UtilitiesInvariant, PTL

\* The server listens only after a .dist file was read to its end, and on the
\* port that the files ask for, 0 to 65535, or on main()'s default, however
\* GetOption's conversion turns out.
THEOREM PortCorrect == UtilitiesSpec => []PortAsConfigured
<1>1. UtilitiesInv => PortAsConfigured
  BY MainImplies DEF UtilitiesInv, PortAsConfigured
<1> QED
  BY <1>1, UtilitiesInvariant, PTL

\* For any loggers, types and levels, at any moment of a load or a reload:
\* GetLoggerByType finds the most specific logger there is; and ShouldLog's
\* shortcut by the lowest level turns away no message that it would pass, but
\* between the lines of LoadFromConfig that set the level and clear the loggers.
THEOREM LoggersCorrect == UtilitiesSpec => []MessagesJudged
<1>1. UtilitiesInv => MessagesJudged
  BY LogImplies DEF UtilitiesInv, MessagesJudged
<1> QED
  BY <1>1, UtilitiesInvariant, PTL

\* Whatever the order in which loggers take their sinks, a sink that some logger
\* names is with one of them once the configuration is read.
THEOREM SinksCorrect == UtilitiesSpec => []SinksServed
<1>1. UtilitiesInv => SinksServed
  BY LogImplies DEF UtilitiesInv, SinksServed
<1> QED
  BY <1>1, UtilitiesInvariant, PTL

\* For any number of MessageBuffers of any size: no sequence of writes, reads,
\* normalisations, growths, resets and moves brings a position out of the
\* storage, or loses, repeats or changes an unread byte.
THEOREM BuffersCorrect == UtilitiesSpec => []UnreadKept
<1>1. UtilitiesInv => UnreadKept
  BY BufferImplies DEF UtilitiesInv, UnreadKept
<1> QED
  BY <1>1, UtilitiesInvariant, PTL

\* For a clock word of any width, ticks shorter than its range, and a day, hour
\* and minute of any length: timers lose one millisecond a wrap and no more,
\* interval timers do not drift, trackers pass at their time and periodic timers
\* once, where they count in int32 as long as each tick fits in half the range;
\* the next local hour is within a day and sharp, but for a change of the offset
\* on the way; the fields of a time, and of now within an hour, are of one
\* moment; and a packed time comes back as its minute, but for summer time and
\* the 32 years.
THEOREM TimersCorrect == UtilitiesSpec => []TimersExact
<1>1. UtilitiesInv => TimersExact
  BY TimerImplies, LocalImplies DEF UtilitiesInv, TimersExact
<1> QED
  BY <1>1, UtilitiesInvariant, PTL
=============================================================================
