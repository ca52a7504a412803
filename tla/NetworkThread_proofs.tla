------------------------ MODULE NetworkThread_proofs ------------------------
(***************************************************************************)
(* Proofs about NetworkThread, for any number of threads and of sessions.  *)
(***************************************************************************)
EXTENDS NetworkThread, SequenceTheorems, TLAPS

\* Erasing one position of a vector: what Update does with a closed session.
LEMMA RemoveAtFacts ==
    ASSUME NEW S, NEW s \in Seq(S), NEW i \in 1 .. Len(s)
    PROVE  /\ RemoveAt(s, i) \in Seq(S)
           /\ Len(RemoveAt(s, i)) = Len(s) - 1
           /\ \A x \in Range(s) : x # s[i] => x \in Range(RemoveAt(s, i))
           /\ Range(RemoveAt(s, i)) \subseteq Range(s)
<1> DEFINE a == SubSeq(s, 1, i - 1)
           b == SubSeq(s, i + 1, Len(s))
           r == a \o b
<1>1. a \in Seq(S) /\ Len(a) = i - 1 /\ \A k \in 1 .. i - 1 : a[k] = s[k]
  OBVIOUS
<1>2. b \in Seq(S) /\ Len(b) = Len(s) - i /\ \A k \in 1 .. Len(s) - i : b[k] = s[k + i]
  OBVIOUS
<1> HIDE DEF a, b
<1>3. r \in Seq(S) /\ Len(r) = Len(s) - 1
  <2>1. r \in Seq(S) /\ Len(r) = Len(a) + Len(b)
    BY <1>1, <1>2, ConcatProperties
  <2>2. Len(s) \in Nat
    OBVIOUS
  <2> QED
    BY <1>1, <1>2, <2>1, <2>2
<1>4. /\ \A k \in 1 .. i - 1 : r[k] = s[k]
      /\ \A k \in i .. Len(s) - 1 : r[k] = s[k + 1]
  BY <1>1, <1>2
<1> HIDE DEF r
<1>5. ASSUME NEW x \in Range(s), x # s[i]
      PROVE  x \in Range(r)
  <2>1. PICK k \in 1 .. Len(s) : s[k] = x
    BY DEF Range
  <2>2. CASE k < i
    BY <2>1, <2>2, <1>3, <1>4 DEF Range
  <2>3. CASE k > i
    <3>1. k - 1 \in i .. Len(s) - 1 /\ r[k - 1] = x
      BY <2>1, <2>3, <1>4
    <3> QED
      BY <3>1, <1>3 DEF Range
  <2> QED
    BY <1>5, <2>1, <2>2, <2>3
<1>6. Range(r) \subseteq Range(s)
  BY <1>3, <1>4, SMTT(60) DEF Range
<1> QED
  BY <1>3, <1>5, <1>6 DEF RemoveAt, a, b, r

-----------------------------------------------------------------------------

\* Every step of the threads and of their owner keeps the types.
LEMMA TypeStep == TypeOK /\ [Next]_vars => TypeOK'
<1> SUFFICES ASSUME TypeOK, [Next]_vars
             PROVE  TypeOK'
  OBVIOUS
<1> USE DEF TypeOK, States, Lives, Places, sessionVars, listVars, stopVars, runVars
<1>1. ASSUME NEW t \in Threads, Start(t) PROVE TypeOK'
  BY <1>1 DEF Start
<1>2. ASSUME NEW t \in Threads, NEW c \in Sessions, Open(t, c) PROVE TypeOK'
  BY <1>2 DEF Open
<1>3. ASSUME NEW t \in Threads, NEW c \in Sessions, AddSocket(t, c) PROVE TypeOK'
  BY <1>3 DEF AddSocket
<1>4. ASSUME NEW t \in Threads, Stop(t) PROVE TypeOK'
  BY <1>4 DEF Stop
<1>5. ASSUME NEW t \in Threads, StopIo(t) PROVE TypeOK'
  BY <1>5 DEF StopIo
<1>6. ASSUME NEW t \in Threads, Wait(t) PROVE TypeOK'
  BY <1>6 DEF Wait
<1>7. ASSUME NEW t \in Threads, Delete(t) PROVE TypeOK'
  BY <1>7 DEF Delete
<1>8. ASSUME NEW t \in Threads, RunBegin(t) PROVE TypeOK'
  BY <1>8 DEF RunBegin
<1>9. ASSUME NEW t \in Threads, RunEnd(t) PROVE TypeOK'
  BY <1>9 DEF RunEnd
<1>10. ASSUME NEW t \in Threads, NEW c \in Sessions, ReadHandler(t, c) PROVE TypeOK'
  BY <1>10 DEF ReadHandler, IsOpen
<1>11. ASSUME NEW t \in Threads, NEW c \in Sessions, WriteHandler(t, c) PROVE TypeOK'
  BY <1>11 DEF WriteHandler
<1>12. ASSUME NEW c \in Sessions, DelayedCloseSocket(c) PROVE TypeOK'
  BY <1>12 DEF DelayedCloseSocket
<1>13. ASSUME NEW t \in Threads, UpdateBegin(t) PROVE TypeOK'
  BY <1>13 DEF UpdateBegin
<1>14. ASSUME NEW t \in Threads, AddNewSockets(t) PROVE TypeOK'
  BY <1>14 DEF AddNewSockets
<1>15. ASSUME NEW t \in Threads, AddOne(t) PROVE TypeOK'
  <2> DEFINE c == newSockets[t][cursor[t]]
  <2>1. c \in Sessions
    BY <1>15 DEF AddOne
  <2>2. sockets' \in [Threads -> Seq(Sessions)] /\ connections' \in [Threads -> Int]
    <3> HIDE DEF c
    <3>1. CASE IsOpen(c)
      <4>1. sockets' = [sockets EXCEPT ![t] = Append(@, c)] /\ connections' = connections
        BY <1>15, <3>1 DEF AddOne, c
      <4> QED
        BY <4>1, <2>1
    <3>2. CASE ~IsOpen(c)
      <4>1. sockets' = sockets /\ connections' = [connections EXCEPT ![t] = @ - 1]
        BY <1>15, <3>2 DEF AddOne, c
      <4> QED
        BY <4>1
    <3> QED
      BY <3>1, <3>2
  <2>3. cursor' \in [Threads -> Nat \ {0}]
    <3>1. cursor' = [cursor EXCEPT ![t] = @ + 1]
      BY <1>15 DEF AddOne
    <3> QED
      BY <3>1
  <2> QED
    BY <1>15, <2>2, <2>3 DEF AddOne
<1>16. ASSUME NEW t \in Threads, AddDone(t) PROVE TypeOK'
  BY <1>16 DEF AddDone
<1>17. ASSUME NEW t \in Threads, UpdateOne(t) PROVE TypeOK'
  <2>1. cursor[t] \in 1 .. Len(sockets[t]) /\ sockets[t] \in Seq(Sessions)
    BY <1>17 DEF UpdateOne
  <2>2. RemoveAt(sockets[t], cursor[t]) \in Seq(Sessions)
    BY <2>1, RemoveAtFacts
  <2> DEFINE c == sockets[t][cursor[t]]
  <2>3. c \in Sessions
    BY <2>1
  <2>4. CASE state[c] = "closed"
    <3>1. /\ sockets' = [sockets EXCEPT ![t] = RemoveAt(@, cursor[t])]
          /\ connections' = [connections EXCEPT ![t] = @ - 1]
          /\ UNCHANGED <<state, cursor>>
      BY <1>17, <2>4 DEF UpdateOne
    <3>2. sockets' \in [Threads -> Seq(Sessions)] /\ connections' \in [Threads -> Int]
      BY <2>2, <3>1
    <3> QED
      BY <1>17, <3>1, <3>2 DEF UpdateOne
  <2>5. CASE state[c] # "closed"
    <3>1. /\ state' = state \/ state' = [state EXCEPT ![c] = "closed"]
          /\ cursor' = [cursor EXCEPT ![t] = @ + 1]
          /\ UNCHANGED <<sockets, connections>>
      BY <1>17, <2>5 DEF UpdateOne
    <3> HIDE DEF c
    <3>2. state' \in [Sessions -> States] /\ cursor' \in [Threads -> Nat \ {0}]
      BY <2>3, <3>1
    <3> QED
      BY <1>17, <3>1, <3>2 DEF UpdateOne
  <2> QED
    BY <2>4, <2>5
<1>18. ASSUME NEW t \in Threads, UpdateDone(t) PROVE TypeOK'
  BY <1>18 DEF UpdateDone
<1>19. CASE UNCHANGED vars
  BY <1>19 DEF vars
<1> QED
  BY <1>1, <1>2, <1>3, <1>4, <1>5, <1>6, <1>7, <1>8, <1>9, <1>10, <1>11, <1>12,
     <1>13, <1>14, <1>15, <1>16, <1>17, <1>18, <1>19
     DEF Next, ThreadNext, OwnerNext, AnyoneNext, Update

LEMMA TypeInit == Init => TypeOK
<1>1. (CHOOSE t \in Threads : TRUE) \in Threads
  BY ThreadAssumption
<1> QED
  BY <1>1 DEF Init, TypeOK, States, Lives, Places

\* The variables of the threads, their sessions and their owner keep their
\* types in every behaviour.
THEOREM TypeCorrect == Spec => []TypeOK
BY TypeInit, TypeStep, PTL DEF Spec

-----------------------------------------------------------------------------
(***************************************************************************)
(* CounterExact.  It is inductive once it is known that a thread is inside *)
(* Update only while it runs, and that the loop of AddNewSockets stops at  *)
(* the end of the vector.                                                  *)
(***************************************************************************)
CounterOf(t) ==
    /\ at[t] # "idle" => run[t] = "running"
    /\ at[t] = "adding" => cursor[t] <= Len(newSockets[t]) + 1
    /\ Live(t) => connections[t] = Len(sockets[t]) + Len(newSockets[t]) - Adopted(t)

CounterInv == \A t \in Threads : CounterOf(t)

\* The changes x, p, q and k that a turn of a loop makes to the counter, the
\* two vectors and the cursor of a thread, which goes on with the same loop.
Shift(t, x, p, q, k) ==
    /\ at'[t] = at[t] /\ run'[t] = run[t]
    /\ connections'[t] = connections[t] + x
    /\ Len(sockets'[t]) = Len(sockets[t]) + p
    /\ Len(newSockets'[t]) = Len(newSockets[t]) + q
    /\ at[t] # "adding" => k = 0
    /\ at[t] = "adding" => /\ cursor'[t] = cursor[t] + k
                           /\ cursor'[t] <= Len(newSockets'[t]) + 1

\* The four changes must balance for the counter to stay exact.
LEMMA CounterShift ==
    ASSUME TypeOK, NEW t \in Threads, CounterOf(t),
           NEW x \in Int, NEW p \in Int, NEW q \in Int, NEW k \in Int,
           x = p + q - k, Shift(t, x, p, q, k)
    PROVE  CounterOf(t)'
<1> USE DEF Shift
<1>1. PICK a \in Int, b \in Int, c \in Int, d \in Int :
          /\ a = connections[t] /\ b = Len(sockets[t])
          /\ c = Len(newSockets[t]) /\ d = Adopted(t)
  BY SMTT(60) DEF TypeOK, Adopted
<1>2. Live(t) => a = b + c - d
  BY <1>1 DEF CounterOf
<1>3. Live(t) => a + x = (b + p) + (c + q) - (d + k)
  BY <1>2
<1>4. Adopted(t)' = d + k
  <2>1. CASE at[t] = "adding"
    <3>1. PICK e \in Int : e = cursor[t]
      BY DEF TypeOK
    <3>2. d = e - 1
      BY <1>1, <2>1, <3>1 DEF Adopted
    <3>3. cursor'[t] = e + k
      BY <2>1, <3>1
    <3>4. Adopted(t)' = (e + k) - 1
      BY <2>1, <3>3 DEF Adopted
    <3>5. (e + k) - 1 = d + k
      BY <3>2
    <3> QED
      BY <3>4, <3>5
  <2>2. CASE at[t] # "adding"
    BY <1>1, <2>2 DEF Adopted
  <2> QED
    BY <2>1, <2>2
<1>5. Live(t)' => connections'[t] = Len(sockets'[t]) + Len(newSockets'[t]) - Adopted(t)'
  BY <1>1, <1>3, <1>4 DEF Live
<1> QED
  BY <1>5 DEF CounterOf

\* Only Run and Update touch what the counter is compared with.
LEMMA CounterStep == TypeOK /\ CounterInv /\ [Next]_vars => CounterInv'
<1> SUFFICES ASSUME TypeOK, CounterInv, [Next]_vars
             PROVE  CounterInv'
  OBVIOUS
<1> USE DEF TypeOK, States, Lives, Places, sessionVars, listVars, stopVars, runVars,
            CounterInv, CounterOf, Live, Adopted
<1>0. ASSUME NEW u \in Threads,
             /\ connections'[u] = connections[u] /\ newSockets'[u] = newSockets[u]
             /\ sockets'[u] = sockets[u] /\ run'[u] = run[u]
             /\ at'[u] = at[u] /\ cursor'[u] = cursor[u]
      PROVE  CounterOf(u)'
  BY <1>0
<1>1. ASSUME UNCHANGED <<connections, newSockets, sockets, run, at, cursor>>
      PROVE  CounterInv'
  BY <1>1
<1>2. ASSUME NEW t \in Threads, Start(t) PROVE CounterInv'
  BY <1>2 DEF Start
<1>3. ASSUME NEW t \in Threads, NEW c \in Sessions, AddSocket(t, c) PROVE CounterInv'
  <2>1. /\ connections'[t] = connections[t] + 1
        /\ UNCHANGED <<sockets, run, at, cursor>>
    BY <1>3 DEF AddSocket
  <2>2. Len(newSockets'[t]) = Len(newSockets[t]) + 1
    BY <1>3 DEF AddSocket
  <2>3. Len(newSockets[t]) \in Nat /\ Len(sockets[t]) \in Nat
    OBVIOUS
  <2>4. CounterOf(t)'
    <3>1. Len(sockets'[t]) = Len(sockets[t]) + 0
      BY <2>1, <2>3
    <3>2. at[t] = "adding" => /\ cursor'[t] = cursor[t] + 0
                              /\ cursor'[t] <= Len(newSockets'[t]) + 1
      BY <2>1, <2>2, <2>3
    <3>3. Shift(t, 1, 0, 1, 0)
      BY <2>1, <2>2, <3>1, <3>2 DEF Shift
    <3> QED
      BY <3>3, CounterShift, SMTT(60)
  <2>5. ASSUME NEW u \in Threads \ {t} PROVE CounterOf(u)'
    <3>1. connections'[u] = connections[u] /\ newSockets'[u] = newSockets[u]
      BY <1>3 DEF AddSocket
    <3> QED
      BY <1>0, <2>1, <3>1
  <2> QED
    BY <2>4, <2>5
<1>4. ASSUME NEW t \in Threads, Wait(t) PROVE CounterInv'
  BY <1>4 DEF Wait
<1>5. ASSUME NEW t \in Threads, Delete(t) PROVE CounterInv'
  BY <1>5 DEF Delete
<1>6. ASSUME NEW t \in Threads, RunBegin(t) PROVE CounterInv'
  BY <1>6 DEF RunBegin
<1>7. ASSUME NEW t \in Threads, RunEnd(t) PROVE CounterInv'
  BY <1>7 DEF RunEnd
<1>8. ASSUME NEW t \in Threads, UpdateBegin(t) PROVE CounterInv'
  BY <1>8 DEF UpdateBegin, Dispatching
<1>9. ASSUME NEW t \in Threads, AddNewSockets(t) PROVE CounterInv'
  BY <1>9 DEF AddNewSockets
<1>10. ASSUME NEW t \in Threads, AddOne(t) PROVE CounterInv'
  <2> DEFINE c == newSockets[t][cursor[t]]
  <2>1. c \in Sessions
    BY <1>10 DEF AddOne
  <2>2. /\ at[t] = "adding" /\ cursor[t] <= Len(newSockets[t])
        /\ cursor'[t] = cursor[t] + 1
        /\ UNCHANGED <<newSockets, run, at>>
    BY <1>10 DEF AddOne
  <2>3. Len(newSockets[t]) \in Nat /\ Len(sockets[t]) \in Nat
    OBVIOUS
  <2>4. IsOpen(c) => Len(sockets'[t]) = Len(sockets[t]) + 1 /\ connections' = connections
    <3> SUFFICES ASSUME IsOpen(c)
                 PROVE  Len(sockets'[t]) = Len(sockets[t]) + 1 /\ connections' = connections
      OBVIOUS
    <3>1. sockets' = [sockets EXCEPT ![t] = Append(@, c)] /\ connections' = connections
      BY <1>10 DEF AddOne
    <3> HIDE DEF c
    <3> QED
      BY <2>1, <3>1
  <2>5. ~IsOpen(c) => sockets' = sockets /\ connections'[t] = connections[t] - 1
    BY <1>10 DEF AddOne
  <2>6. CounterOf(t)'
    <3>1. Len(newSockets'[t]) = Len(newSockets[t]) + 0
      BY <2>2, <2>3
    <3>2. cursor'[t] <= Len(newSockets'[t]) + 1
      BY <2>2, <2>3
    <3>3. CASE IsOpen(c)
      <4>1. connections'[t] = connections[t] + 0
        BY <2>4, <3>3
      <4>2. Shift(t, 0, 1, 0, 1)
        BY <2>2, <2>4, <3>1, <3>2, <3>3, <4>1 DEF Shift
      <4> QED
        BY <4>2, CounterShift
    <3>4. CASE ~IsOpen(c)
      <4>1. Len(sockets'[t]) = Len(sockets[t]) + 0
        BY <2>3, <2>5, <3>4
      <4>2. connections'[t] = connections[t] + (-1)
        BY <2>5, <3>4
      <4>3. Shift(t, -1, 0, 0, 1)
        BY <2>2, <3>1, <3>2, <4>1, <4>2 DEF Shift
      <4> QED
        BY <4>3, CounterShift
    <3> QED
      BY <3>3, <3>4
  <2>7. ASSUME NEW u \in Threads \ {t} PROVE CounterOf(u)'
    <3>1. /\ connections'[u] = connections[u] /\ sockets'[u] = sockets[u]
          /\ cursor'[u] = cursor[u]
      BY <1>10 DEF AddOne
    <3> QED
      BY <1>0, <2>2, <3>1
  <2> QED
    BY <2>6, <2>7
<1>11. ASSUME NEW t \in Threads, AddDone(t) PROVE CounterInv'
  <2>1. /\ at[t] = "adding" /\ cursor[t] > Len(newSockets[t])
        /\ newSockets'[t] = <<>> /\ at'[t] = "updating"
        /\ UNCHANGED <<sockets, run, connections>>
    BY <1>11 DEF AddDone
  <2>2. Len(newSockets[t]) \in Nat /\ Len(sockets[t]) \in Nat /\ Len(newSockets'[t]) = 0
    BY <2>1
  <2>3. CounterOf(t)'
    BY <2>1, <2>2
  <2>4. ASSUME NEW u \in Threads \ {t} PROVE CounterOf(u)'
    <3>1. /\ newSockets'[u] = newSockets[u] /\ at'[u] = at[u]
          /\ cursor'[u] = cursor[u]
      BY <1>11 DEF AddDone
    <3> QED
      BY <1>0, <2>1, <3>1
  <2> QED
    BY <2>3, <2>4
<1>12. ASSUME NEW t \in Threads, UpdateOne(t) PROVE CounterInv'
  <2> DEFINE c == sockets[t][cursor[t]]
  <2>1. at[t] = "updating" /\ UNCHANGED <<newSockets, run, at>>
    BY <1>12 DEF UpdateOne
  <2>2. Len(newSockets[t]) \in Nat /\ Len(sockets[t]) \in Nat
    OBVIOUS
  <2>3. state[c] = "closed" =>
            Len(sockets'[t]) = Len(sockets[t]) - 1 /\ connections'[t] = connections[t] - 1
    <3> SUFFICES ASSUME state[c] = "closed"
                 PROVE  /\ Len(sockets'[t]) = Len(sockets[t]) - 1
                        /\ connections'[t] = connections[t] - 1
      OBVIOUS
    <3>1. /\ sockets' = [sockets EXCEPT ![t] = RemoveAt(@, cursor[t])]
          /\ connections' = [connections EXCEPT ![t] = @ - 1]
      BY <1>12 DEF UpdateOne
    <3>2. cursor[t] \in 1 .. Len(sockets[t]) /\ sockets[t] \in Seq(Sessions)
      BY <1>12 DEF UpdateOne
    <3>3. Len(RemoveAt(sockets[t], cursor[t])) = Len(sockets[t]) - 1
      BY <3>2, RemoveAtFacts
    <3> QED
      BY <3>1, <3>3
  <2>4. state[c] # "closed" => UNCHANGED <<sockets, connections>>
    BY <1>12 DEF UpdateOne
  <2>5. CounterOf(t)'
    <3>1. Len(newSockets'[t]) = Len(newSockets[t]) + 0
      BY <2>1, <2>2
    <3>2. CASE state[c] = "closed"
      <4>1. /\ Len(sockets'[t]) = Len(sockets[t]) + (-1)
            /\ connections'[t] = connections[t] + (-1)
        BY <2>2, <2>3, <3>2
      <4>2. Shift(t, -1, -1, 0, 0)
        BY <2>1, <3>1, <4>1 DEF Shift
      <4>3. CounterOf(t) /\ -1 \in Int /\ 0 \in Int /\ -1 = -1 + 0 - 0
        OBVIOUS
      <4> HIDE DEF CounterInv, CounterOf, TypeOK
      <4> QED
        BY <4>2, <4>3, CounterShift
    <3>3. CASE state[c] # "closed"
      <4>1. /\ Len(sockets'[t]) = Len(sockets[t]) + 0
            /\ connections'[t] = connections[t] + 0
        BY <2>2, <2>4, <3>3
      <4>2. Shift(t, 0, 0, 0, 0)
        BY <2>1, <3>1, <4>1 DEF Shift
      <4> QED
        BY <4>2, CounterShift
    <3> QED
      BY <3>2, <3>3
  <2>6. ASSUME NEW u \in Threads \ {t} PROVE CounterOf(u)'
    <3>1. /\ connections'[u] = connections[u] /\ sockets'[u] = sockets[u]
          /\ cursor'[u] = cursor[u]
      BY <1>12 DEF UpdateOne
    <3> QED
      BY <1>0, <2>1, <3>1
  <2> QED
    BY <2>5, <2>6
<1>13. ASSUME NEW t \in Threads, UpdateDone(t) PROVE CounterInv'
  BY <1>13 DEF UpdateDone
<1>14. ASSUME NEW t \in Threads, Stop(t) \/ StopIo(t) PROVE CounterInv'
  BY <1>1, <1>14 DEF Stop, StopIo
<1>15. ASSUME NEW t \in Threads, NEW c \in Sessions,
              Open(t, c) \/ ReadHandler(t, c) \/ WriteHandler(t, c)
       PROVE  CounterInv'
  BY <1>1, <1>15 DEF Open, ReadHandler, WriteHandler
<1>16. ASSUME NEW c \in Sessions, DelayedCloseSocket(c) PROVE CounterInv'
  BY <1>1, <1>16 DEF DelayedCloseSocket
<1>17. CASE UNCHANGED vars
  BY <1>1, <1>17 DEF vars
<1> QED
  BY <1>2, <1>3, <1>4, <1>5, <1>6, <1>7, <1>8, <1>9, <1>10, <1>11, <1>12, <1>13,
     <1>14, <1>15, <1>16, <1>17
     DEF Next, ThreadNext, OwnerNext, AnyoneNext, Update

LEMMA CounterInit == Init => CounterInv
BY DEF Init, CounterInv, CounterOf, Live, Adopted

\* _connections is exact for any number of threads and sessions, at every
\* step between AddSocket, AddNewSockets, the read handlers and Update.
THEOREM CounterCorrect == Spec => []CounterExact
<1>1. Init => TypeOK /\ CounterInv
  BY TypeInit, CounterInit
<1>2. TypeOK /\ CounterInv /\ [Next]_vars => TypeOK' /\ CounterInv'
  BY TypeStep, CounterStep
<1>3. CounterInv => CounterExact
  BY DEF CounterInv, CounterOf, CounterExact
<1> QED
  BY <1>1, <1>2, <1>3, PTL DEF Spec

-----------------------------------------------------------------------------
(***************************************************************************)
(* NoEarlyExit.  io_context::run returns when it is stopped or has no work;*)
(* the armed timer is work, and Update fails to arm it only once stopped.  *)
(***************************************************************************)
ExitOf(t) ==
    /\ ioStopped[t] => stopped[t]
    /\ run[t] = "running" => timer[t] \/ stopped[t]
    /\ ~Live(t) => stopped[t]

ExitInv == \A t \in Threads : ExitOf(t)

\* Every step of the threads and of their owner keeps ExitInv.
LEMMA ExitStep == TypeOK /\ ExitInv /\ [Next]_vars => ExitInv'
<1> SUFFICES ASSUME TypeOK, ExitInv, [Next]_vars
             PROVE  ExitInv'
  OBVIOUS
<1> USE DEF TypeOK, States, Lives, sessionVars, listVars, stopVars, runVars,
            ExitInv, ExitOf, Live
<1>1. ASSUME UNCHANGED <<stopped, ioStopped, run, timer>> PROVE ExitInv'
  BY <1>1
<1>2. ASSUME NEW t \in Threads,
             Start(t) \/ Stop(t) \/ StopIo(t) \/ Wait(t) \/ Delete(t)
      PROVE  ExitInv'
  <2>1. CASE Start(t)
    BY <2>1 DEF Start
  <2>2. CASE Stop(t)
    BY <2>2 DEF Stop
  <2>3. CASE StopIo(t)
    BY <2>3 DEF StopIo
  <2>4. CASE Wait(t)
    BY <2>4 DEF Wait
  <2>5. CASE Delete(t)
    BY <2>5 DEF Delete
  <2> QED
    BY <1>2, <2>1, <2>2, <2>3, <2>4, <2>5
<1>3. ASSUME NEW t \in Threads, RunBegin(t) PROVE ExitInv'
  BY <1>3 DEF RunBegin
<1>4. ASSUME NEW t \in Threads, RunEnd(t) PROVE ExitInv'
  BY <1>4 DEF RunEnd, HasWork
<1>5. ASSUME NEW t \in Threads, UpdateBegin(t) PROVE ExitInv'
  <2>1. UNCHANGED <<stopped, ioStopped, run>>
    BY <1>5 DEF UpdateBegin
  <2>2. ASSUME NEW u \in Threads PROVE timer[u] => timer'[u] \/ stopped[u]
    <3>1. CASE stopped[t]
      <4>1. timer' = [timer EXCEPT ![t] = FALSE]
        BY <1>5, <3>1 DEF UpdateBegin
      <4> QED
        BY <3>1, <4>1
    <3>2. CASE ~stopped[t]
      <4>1. timer' = [timer EXCEPT ![t] = TRUE]
        BY <1>5, <3>2 DEF UpdateBegin
      <4> QED
        BY <4>1
    <3> QED
      BY <3>1, <3>2
  <2> QED
    BY <2>1, <2>2
<1>6. ASSUME NEW t \in Threads, Update(t) PROVE ExitInv'
  <2>1. UNCHANGED <<stopped, ioStopped, run, timer>>
    <3> HIDE DEF TypeOK, ExitInv
    <3> QED
      BY <1>6, Zenon DEF Update, AddNewSockets, AddOne, AddDone, UpdateOne, UpdateDone
  <2> QED
    BY <1>1, <2>1
<1>7. ASSUME NEW t \in Threads, NEW c \in Sessions,
             \/ Open(t, c) \/ AddSocket(t, c)
             \/ ReadHandler(t, c) \/ WriteHandler(t, c)
      PROVE  ExitInv'
  <2>1. UNCHANGED <<stopped, ioStopped, run, timer>>
    <3> HIDE DEF TypeOK, ExitInv
    <3> QED
      BY <1>7, Zenon DEF Open, AddSocket, ReadHandler, WriteHandler
  <2> QED
    BY <1>1, <2>1
<1>8. ASSUME NEW c \in Sessions, DelayedCloseSocket(c) PROVE ExitInv'
  BY <1>1, <1>8 DEF DelayedCloseSocket
<1>9. CASE UNCHANGED vars
  BY <1>1, <1>9 DEF vars
<1> QED
  BY <1>2, <1>3, <1>4, <1>5, <1>6, <1>7, <1>8, <1>9
     DEF Next, ThreadNext, OwnerNext, AnyoneNext

LEMMA ExitInit == Init => ExitInv
BY DEF Init, ExitInv, ExitOf, Live

\* No network thread leaves Run() unless Stop() was called on it.
THEOREM NoEarlyExitCorrect == Spec => []NoEarlyExit
<1>1. Init => TypeOK /\ ExitInv
  BY TypeInit, ExitInit
<1>2. TypeOK /\ ExitInv /\ [Next]_vars => TypeOK' /\ ExitInv'
  BY TypeStep, ExitStep
<1>3. ExitInv => NoEarlyExit
  BY DEF ExitInv, ExitOf, NoEarlyExit
<1> QED
  BY <1>1, <1>2, <1>3, PTL DEF Spec

-----------------------------------------------------------------------------
(***************************************************************************)
(* OpenTracked.  A session lives in the containers of its own thread only, *)
(* and while AddNewSockets is at work the open sessions it has been over   *)
(* are in _sockets, so that clearing _newSockets loses none of them.       *)
(***************************************************************************)
Member(t, c) == home[c] = t /\ state[c] # "none"

Dealt(t) ==
    at[t] = "adding" =>
        \A i \in 1 .. Len(newSockets[t]) :
            i < cursor[t] /\ IsOpen(newSockets[t][i]) => newSockets[t][i] \in Range(sockets[t])

TrackInv ==
    /\ \A c \in hand : state[c] # "none"
    /\ \A t \in Threads : \A c \in Contained(t) : Member(t, c)
    /\ \A t \in Threads : Dealt(t)
    /\ OpenTracked

\* push_back adds the session to what the vector holds.
LEMMA RangeAppend ==
    ASSUME NEW S, NEW s \in Seq(S), NEW x \in S
    PROVE  Range(Append(s, x)) = Range(s) \cup {x}
<1>1. /\ Len(Append(s, x)) = Len(s) + 1 /\ Append(s, x)[Len(s) + 1] = x
      /\ \A i \in 1 .. Len(s) : Append(s, x)[i] = s[i]
      /\ DOMAIN s = 1 .. Len(s) /\ DOMAIN Append(s, x) = 1 .. Len(s) + 1
      /\ Len(s) \in Nat
  OBVIOUS
<1> DEFINE a == Append(s, x)
<1> HIDE DEF a
<1>2. Range(s) \cup {x} \subseteq Range(a)
  BY <1>1 DEF Range, a
<1>3. Range(a) \subseteq Range(s) \cup {x}
  <2> SUFFICES ASSUME NEW i \in 1 .. Len(s) + 1 PROVE a[i] \in Range(s) \cup {x}
    BY <1>1 DEF Range, a
  <2>1. CASE i = Len(s) + 1
    BY <1>1, <2>1 DEF a
  <2>2. CASE i # Len(s) + 1
    <3>1. i \in 1 .. Len(s) /\ a[i] = s[i]
      BY <1>1, <2>2 DEF a
    <3> QED
      BY <1>1, <3>1 DEF Range
  <2> QED
    BY <2>1, <2>2
<1> QED
  BY <1>2, <1>3 DEF a

\* A step that leaves the containers alone and opens no session keeps
\* TrackInv, unless it moves the loop of AddNewSockets.
LEMMA TrackPersists ==
    ASSUME TypeOK, TrackInv,
           UNCHANGED <<hand, home, newSockets, sockets>>,
           \A t \in Threads : Live(t)' => Live(t),
           \A c \in Sessions : state[c] # "none" => state'[c] # "none",
           \A c \in Sessions : state'[c] = "open" => state[c] = "open",
           \A t \in Threads : at'[t] = "adding" =>
               cursor'[t] = 1 \/ (at[t] = "adding" /\ cursor'[t] = cursor[t])
    PROVE  TrackInv'
<1>1. \A t \in Threads : Contained(t)' = Contained(t) /\ Contained(t) \subseteq Sessions
  BY DEF Contained, Range, TypeOK
<1>2. \A c \in hand' : state'[c] # "none"
  BY DEF TrackInv, TypeOK
<1>3. ASSUME NEW t \in Threads, NEW c \in Contained(t)' PROVE Member(t, c)'
  BY <1>1 DEF TrackInv, Member
<1>4. ASSUME NEW t \in Threads PROVE Dealt(t)'
  <2> SUFFICES ASSUME at'[t] = "adding",
                      NEW i \in 1 .. Len(newSockets[t]),
                      i < cursor'[t], IsOpen(newSockets[t][i])'
               PROVE  newSockets[t][i] \in Range(sockets[t])
    BY DEF Dealt
  <2>1. newSockets[t][i] \in Sessions
    BY DEF TypeOK
  <2>2. IsOpen(newSockets[t][i])
    BY <2>1 DEF IsOpen
  <2>3. at[t] = "adding" /\ cursor'[t] = cursor[t]
    OBVIOUS
  <2> QED
    BY <2>2, <2>3 DEF TrackInv, Dealt
<1>5. OpenTracked'
  <2> SUFFICES ASSUME NEW c \in Sessions, IsOpen(c)', Live(home[c])'
               PROVE  c \in hand \cup Contained(home[c])
    BY <1>1 DEF OpenTracked, TypeOK
  <2> QED
    BY DEF TrackInv, OpenTracked, IsOpen, TypeOK
<1> QED
  BY <1>2, <1>3, <1>4, <1>5 DEF TrackInv

\* Every step of the threads and of their owner keeps TrackInv.
LEMMA TrackStep == TypeOK /\ CounterInv /\ TrackInv /\ [Next]_vars => TrackInv'
<1> SUFFICES ASSUME TypeOK, CounterInv, TrackInv, [Next]_vars
             PROVE  TrackInv'
  OBVIOUS
<1> USE DEF sessionVars, listVars, stopVars, runVars
<1>0. \A t \in Threads : Contained(t) \subseteq Sessions
  BY DEF TypeOK, Contained, Range
<1>1. ASSUME NEW t \in Threads,
             Start(t) \/ Stop(t) \/ StopIo(t) \/ Wait(t) \/ Delete(t) \/ RunBegin(t)
      PROVE  TrackInv'
  <2>1. /\ UNCHANGED <<hand, home, newSockets, sockets, state, at, cursor>>
        /\ \A u \in Threads : Live(u)' => Live(u)
    BY <1>1 DEF TypeOK, Lives, Live, Start, Stop, StopIo, Wait, Delete, RunBegin
  <2> QED
    BY <2>1, TrackPersists
<1>2. ASSUME NEW t \in Threads, NEW c \in Sessions, ReadHandler(t, c) PROVE TrackInv'
  <2>1. UNCHANGED <<hand, home, newSockets, sockets, run, at, cursor>>
    BY <1>2 DEF ReadHandler
  <2>2. \/ state' = state
        \/ state' = [state EXCEPT ![c] = "closed"]
        \/ state' = [state EXCEPT ![c] = "closing"]
    BY <1>2 DEF ReadHandler
  <2>3. /\ \A d \in Sessions : state[d] # "none" => state'[d] # "none"
        /\ \A d \in Sessions : state'[d] = "open" => state[d] = "open"
    BY <2>2 DEF TypeOK
  <2> QED
    BY <2>1, <2>3, TrackPersists DEF Live
<1>3. ASSUME NEW c \in Sessions,
             DelayedCloseSocket(c) \/ \E t \in Threads : WriteHandler(t, c)
      PROVE  TrackInv'
  <2>1. /\ UNCHANGED <<hand, home, newSockets, sockets, run, at, cursor>>
        /\ \A d \in Sessions : state[d] # "none" => state'[d] # "none"
        /\ \A d \in Sessions : state'[d] = "open" => state[d] = "open"
    BY <1>3 DEF TypeOK, DelayedCloseSocket, WriteHandler
  <2> QED
    BY <2>1, TrackPersists DEF Live
<1>4. ASSUME NEW t \in Threads, UpdateBegin(t) \/ AddNewSockets(t) \/ UpdateDone(t)
      PROVE  TrackInv'
  <2>1. UNCHANGED <<hand, home, newSockets, sockets, state, run>>
    BY <1>4 DEF UpdateBegin, AddNewSockets, UpdateDone
  <2>2. \A u \in Threads : at'[u] = "adding" =>
            cursor'[u] = 1 \/ (at[u] = "adding" /\ cursor'[u] = cursor[u])
    BY <1>4 DEF TypeOK, UpdateBegin, AddNewSockets, UpdateDone
  <2> QED
    BY <2>1, <2>2, TrackPersists DEF Live
<1>5. ASSUME NEW t \in Threads, NEW c \in Sessions, Open(t, c) PROVE TrackInv'
  <2>1. /\ state[c] = "none" /\ state' = [state EXCEPT ![c] = "open"]
        /\ home' = [home EXCEPT ![c] = t] /\ hand' = hand \cup {c}
        /\ UNCHANGED <<newSockets, sockets, run, at, cursor>>
    BY <1>5 DEF Open
  <2>2. \A u \in Threads : c \notin Contained(u) /\ Contained(u)' = Contained(u)
    BY <2>1 DEF TrackInv, Member, Contained
  <2>3. \A d \in hand' : state'[d] # "none"
    BY <2>1 DEF TrackInv, TypeOK
  <2>4. ASSUME NEW u \in Threads, NEW d \in Contained(u)' PROVE Member(u, d)'
    BY <1>0, <2>1, <2>2 DEF TrackInv, Member, TypeOK
  <2>5. ASSUME NEW u \in Threads PROVE Dealt(u)'
    <3> SUFFICES ASSUME at[u] = "adding", NEW i \in 1 .. Len(newSockets[u]),
                        i < cursor[u], IsOpen(newSockets[u][i])'
                 PROVE  newSockets[u][i] \in Range(sockets[u])
      BY <2>1 DEF Dealt
    <3>1. newSockets[u][i] \in Contained(u)
      BY SMTT(60) DEF Contained, Range, TypeOK
    <3>2. IsOpen(newSockets[u][i])
      BY <1>0, <2>1, <2>2, <3>1 DEF IsOpen, TypeOK
    <3> QED
      BY <3>2 DEF TrackInv, Dealt
  <2>6. OpenTracked'
    <3> SUFFICES ASSUME NEW d \in Sessions, IsOpen(d)', Live(home[d])', d # c
                 PROVE  d \in hand \cup Contained(home[d])
      BY <2>1, <2>2 DEF OpenTracked, TypeOK
    <3> QED
      BY <2>1 DEF TrackInv, OpenTracked, IsOpen, TypeOK, Live
  <2> QED
    BY <2>3, <2>4, <2>5, <2>6 DEF TrackInv
<1>6. ASSUME NEW t \in Threads, RunEnd(t) PROVE TrackInv'
  <2>1. /\ newSockets' = [newSockets EXCEPT ![t] = <<>>]
        /\ sockets' = [sockets EXCEPT ![t] = <<>>]
        /\ run' = [run EXCEPT ![t] = "exited"]
        /\ UNCHANGED <<state, home, hand, at, cursor>>
    BY <1>6 DEF RunEnd
  <2>2. Contained(t)' = {} /\ \A u \in Threads \ {t} : Contained(u)' = Contained(u)
    BY <2>1 DEF Contained, Range, TypeOK
  <2>3. ASSUME NEW u \in Threads PROVE Dealt(u)'
    <3>1. CASE u = t
      <4>1. newSockets'[t] = <<>>
        BY <2>1 DEF TypeOK
      <4> QED
        BY <3>1, <4>1 DEF Dealt
    <3>2. CASE u # t
      <4>1. newSockets'[u] = newSockets[u] /\ sockets'[u] = sockets[u]
        BY <2>1, <3>2 DEF TypeOK
      <4> QED
        BY <2>1, <4>1 DEF TrackInv, Dealt, IsOpen
    <3> QED
      BY <3>1, <3>2
  <2>4. OpenTracked'
    BY <2>1, <2>2 DEF TrackInv, OpenTracked, IsOpen, Live, TypeOK
  <2>5. \A u \in Threads : \A d \in Contained(u)' : Member(u, d)'
    BY <2>1, <2>2 DEF TrackInv, Member
  <2> QED
    BY <2>1, <2>3, <2>4, <2>5 DEF TrackInv
<1>7. ASSUME NEW t \in Threads, NEW c \in Sessions, AddSocket(t, c) PROVE TrackInv'
  <2>1. /\ c \in hand /\ home[c] = t /\ hand' = hand \ {c}
        /\ newSockets' = [newSockets EXCEPT ![t] = Append(@, c)]
        /\ UNCHANGED <<state, home, sockets, run, at, cursor>>
    BY <1>7 DEF AddSocket
  <2>2. /\ newSockets[t] \in Seq(Sessions) /\ newSockets'[t] = Append(newSockets[t], c)
        /\ \A u \in Threads \ {t} : newSockets'[u] = newSockets[u]
    BY <2>1 DEF TypeOK
  <2>3. Range(newSockets'[t]) = Range(newSockets[t]) \cup {c}
    BY <2>2, RangeAppend
  <2>4. /\ Contained(t)' = Contained(t) \cup {c}
        /\ \A u \in Threads \ {t} : Contained(u)' = Contained(u)
    BY <2>1, <2>2, <2>3 DEF Contained
  <2>5. \A d \in hand' : state'[d] # "none"
    BY <2>1 DEF TrackInv
  <2>6. ASSUME NEW u \in Threads, NEW d \in Contained(u)' PROVE Member(u, d)'
    BY <2>1, <2>4 DEF TrackInv, Member
  <2>7. ASSUME NEW u \in Threads PROVE Dealt(u)'
    <3>1. CASE u = t
      <4> SUFFICES ASSUME at[t] = "adding", NEW i \in 1 .. Len(newSockets'[t]),
                          i < cursor[t], IsOpen(newSockets'[t][i])
                   PROVE  newSockets'[t][i] \in Range(sockets[t])
        BY <2>1, <3>1 DEF Dealt, IsOpen
      <4>1. cursor[t] \in Nat /\ cursor[t] <= Len(newSockets[t]) + 1
        BY DEF CounterInv, CounterOf, TypeOK
      <4>2. i \in 1 .. Len(newSockets[t]) /\ newSockets'[t][i] = newSockets[t][i]
        BY <2>2, <4>1
      <4> QED
        BY <4>2 DEF TrackInv, Dealt, IsOpen
    <3>2. CASE u # t
      BY <2>1, <2>2, <3>2 DEF TrackInv, Dealt, IsOpen
    <3> QED
      BY <3>1, <3>2
  <2>8. OpenTracked'
    <3> SUFFICES ASSUME NEW d \in Sessions, NEW u \in Threads, u = home[d],
                        IsOpen(d), Live(u)
                 PROVE  d \in hand' \cup Contained(u)'
      BY <2>1 DEF OpenTracked, IsOpen, Live, Contained, TypeOK
    <3>1. d \in hand \cup Contained(u)
      BY DEF TrackInv, OpenTracked
    <3> QED
      BY <2>1, <2>4, <3>1
  <2> QED
    BY <2>5, <2>6, <2>7, <2>8 DEF TrackInv
<1>8. ASSUME NEW t \in Threads, AddOne(t) PROVE TrackInv'
  <2> DEFINE c == newSockets[t][cursor[t]]
  <2>1. /\ at[t] = "adding" /\ cursor[t] \in 1 .. Len(newSockets[t])
        /\ cursor' = [cursor EXCEPT ![t] = @ + 1]
        /\ UNCHANGED <<state, home, hand, newSockets, run, at>>
    BY <1>8 DEF AddOne, TypeOK
  <2>2. c \in Sessions /\ c \in Range(newSockets[t])
    BY <2>1, SMTT(60) DEF TypeOK, Range
  <2>3. /\ sockets' = IF IsOpen(c) THEN [sockets EXCEPT ![t] = Append(@, c)] ELSE sockets
    BY <1>8 DEF AddOne
  <2> HIDE DEF c
  <2>4. sockets[t] \in Seq(Sessions) /\ \A u \in Threads \ {t} : sockets'[u] = sockets[u]
    BY <2>3 DEF TypeOK
  <2>5. Range(sockets'[t]) = Range(sockets[t]) \cup IF IsOpen(c) THEN {c} ELSE {}
    <3>1. CASE IsOpen(c)
      <4>1. sockets'[t] = Append(sockets[t], c)
        BY <2>3, <3>1 DEF TypeOK
      <4> QED
        BY <2>2, <2>4, <3>1, <4>1, RangeAppend
    <3>2. CASE ~IsOpen(c)
      BY <2>3, <3>2
    <3> QED
      BY <3>1, <3>2
  <2>6. \A u \in Threads : Contained(u)' = Contained(u)
    BY <2>1, <2>2, <2>4, <2>5 DEF Contained
  <2>7. ASSUME NEW u \in Threads PROVE Dealt(u)'
    <3>1. CASE u = t
      <4> SUFFICES ASSUME NEW i \in 1 .. Len(newSockets[t]),
                          i < cursor'[t], IsOpen(newSockets[t][i])
                   PROVE  newSockets[t][i] \in Range(sockets'[t])
        BY <2>1, <3>1 DEF Dealt, IsOpen
      <4>1. CASE i = cursor[t]
        BY <2>5, <4>1 DEF c
      <4>2. CASE i # cursor[t]
        <5>1. cursor'[t] = cursor[t] + 1 /\ cursor[t] \in Nat
          BY <2>1 DEF TypeOK
        <5>2. i < cursor[t]
          BY <4>2, <5>1
        <5>3. newSockets[t][i] \in Range(sockets[t])
          BY <2>1, <5>2 DEF TrackInv, Dealt
        <5> QED
          BY <2>5, <5>3
      <4> QED
        BY <4>1, <4>2
    <3>2. CASE u # t
      <4>1. cursor'[u] = cursor[u]
        BY <2>1, <3>2 DEF TypeOK
      <4> QED
        BY <2>1, <2>4, <3>2, <4>1 DEF TrackInv, Dealt, IsOpen
    <3> QED
      BY <3>1, <3>2
  <2>8. OpenTracked'
    BY <2>1, <2>6 DEF TrackInv, OpenTracked, IsOpen, Live, TypeOK
  <2>9. /\ \A d \in hand' : state'[d] # "none"
        /\ \A u \in Threads : \A d \in Contained(u)' : Member(u, d)'
    BY <2>1, <2>6 DEF TrackInv, Member
  <2> QED
    BY <2>7, <2>8, <2>9 DEF TrackInv
<1>9. ASSUME NEW t \in Threads, AddDone(t) PROVE TrackInv'
  <2>1. /\ at[t] = "adding" /\ cursor[t] > Len(newSockets[t])
        /\ newSockets' = [newSockets EXCEPT ![t] = <<>>]
        /\ at' = [at EXCEPT ![t] = "updating"]
        /\ cursor' = [cursor EXCEPT ![t] = 1]
        /\ UNCHANGED <<state, home, hand, sockets, run>>
    BY <1>9 DEF AddDone
  <2>2. newSockets'[t] = <<>> /\ \A u \in Threads \ {t} : newSockets'[u] = newSockets[u]
    BY <2>1 DEF TypeOK
  <2>3. /\ Contained(t)' = Range(sockets[t])
        /\ \A u \in Threads \ {t} : Contained(u)' = Contained(u)
    BY <2>1, <2>2 DEF Contained, Range
  <2>4. ASSUME NEW u \in Threads PROVE Dealt(u)'
    <3>1. CASE u = t
      BY <2>1, <3>1 DEF Dealt, TypeOK
    <3>2. CASE u # t
      <4>1. at'[u] = at[u] /\ cursor'[u] = cursor[u]
        BY <2>1, <3>2 DEF TypeOK
      <4> QED
        BY <2>1, <2>2, <3>2, <4>1 DEF TrackInv, Dealt, IsOpen
    <3> QED
      BY <3>1, <3>2
  <2>5. ASSUME NEW d \in Range(newSockets[t]), IsOpen(d) PROVE d \in Range(sockets[t])
    <3>1. PICK i \in 1 .. Len(newSockets[t]) : newSockets[t][i] = d
      BY DEF Range, TypeOK
    <3>2. i < cursor[t]
      BY <2>1 DEF TypeOK
    <3> QED
      BY <2>1, <2>5, <3>1, <3>2 DEF TrackInv, Dealt
  <2>6. OpenTracked'
    <3> SUFFICES ASSUME NEW d \in Sessions, NEW u \in Threads, u = home[d],
                        IsOpen(d), Live(u), d \notin hand
                 PROVE  d \in Contained(u)'
      BY <2>1 DEF OpenTracked, IsOpen, Live, Contained, TypeOK
    <3>1. d \in Contained(u)
      BY DEF TrackInv, OpenTracked
    <3>2. CASE u = t
      BY <2>3, <2>5, <3>1, <3>2 DEF Contained
    <3>3. CASE u # t
      BY <2>3, <3>1, <3>3
    <3> QED
      BY <3>2, <3>3
  <2>7. /\ \A d \in hand' : state'[d] # "none"
        /\ \A u \in Threads : \A d \in Contained(u)' : Member(u, d)'
    BY <2>1, <2>3 DEF TrackInv, Member, Contained
  <2> QED
    BY <2>4, <2>6, <2>7 DEF TrackInv
<1>10. ASSUME NEW t \in Threads, UpdateOne(t) PROVE TrackInv'
  <2> DEFINE c == sockets[t][cursor[t]]
  <2>1. /\ at[t] = "updating" /\ cursor[t] \in 1 .. Len(sockets[t])
        /\ UNCHANGED <<home, hand, newSockets, run, at>>
    BY <1>10 DEF UpdateOne, TypeOK
  <2>2. c \in Sessions /\ sockets[t] \in Seq(Sessions)
    BY <2>1 DEF TypeOK
  <2>3. CASE state[c] # "closed"
    <3>1. /\ state' = state \/ state' = [state EXCEPT ![c] = "closed"]
          /\ cursor' = [cursor EXCEPT ![t] = @ + 1] /\ sockets' = sockets
      BY <1>10, <2>3 DEF UpdateOne
    <3> HIDE DEF c
    <3>2. /\ \A d \in Sessions : state[d] # "none" => state'[d] # "none"
          /\ \A d \in Sessions : state'[d] = "open" => state[d] = "open"
      BY <2>2, <3>1 DEF TypeOK
    <3>3. \A u \in Threads : at'[u] = "adding" =>
              at[u] = "adding" /\ cursor'[u] = cursor[u]
      BY <2>1, <3>1 DEF TypeOK
    <3> QED
      BY <2>1, <3>1, <3>2, <3>3, TrackPersists DEF Live
  <2>4. CASE state[c] = "closed"
    <3>1. /\ sockets' = [sockets EXCEPT ![t] = RemoveAt(@, cursor[t])]
          /\ UNCHANGED <<state, cursor>>
      BY <1>10, <2>4 DEF UpdateOne
    <3>2. /\ sockets'[t] = RemoveAt(sockets[t], cursor[t])
          /\ \A u \in Threads \ {t} : sockets'[u] = sockets[u]
      BY <3>1 DEF TypeOK
    <3>3. /\ \A d \in Range(sockets[t]) : d # c => d \in Range(sockets'[t])
          /\ Range(sockets'[t]) \subseteq Range(sockets[t])
      BY <2>1, <2>2, <3>2, RemoveAtFacts
    <3> HIDE DEF c
    <3>4. /\ Contained(t) \ {c} \subseteq Contained(t)'
          /\ Contained(t)' \subseteq Contained(t)
          /\ \A u \in Threads \ {t} : Contained(u)' = Contained(u)
      BY <2>1, <3>2, <3>3 DEF Contained
    <3>5. ASSUME NEW u \in Threads PROVE Dealt(u)'
      <4>1. CASE u = t
        BY <2>1, <4>1 DEF Dealt
      <4>2. CASE u # t
        BY <2>1, <3>1, <3>2, <4>2 DEF TrackInv, Dealt, IsOpen
      <4> QED
        BY <4>1, <4>2
    <3>6. OpenTracked'
      <4> SUFFICES ASSUME NEW d \in Sessions, NEW u \in Threads, u = home[d],
                          IsOpen(d), Live(u), d \notin hand
                   PROVE  d \in Contained(u)'
        BY <2>1, <3>1 DEF OpenTracked, IsOpen, Live, Contained, TypeOK
      <4>1. d \in Contained(u) /\ d # c
        BY <2>4 DEF TrackInv, OpenTracked, IsOpen
      <4>2. CASE u = t
        BY <3>4, <4>1, <4>2
      <4>3. CASE u # t
        BY <3>4, <4>1, <4>3
      <4> QED
        BY <4>2, <4>3
    <3>7. /\ \A d \in hand' : state'[d] # "none"
          /\ \A u \in Threads : \A d \in Contained(u)' : Member(u, d)'
      BY <2>1, <3>1, <3>4 DEF TrackInv, Member
    <3> QED
      BY <3>5, <3>6, <3>7 DEF TrackInv
  <2> QED
    BY <2>3, <2>4
<1>11. CASE UNCHANGED vars
  <2>1. UNCHANGED <<hand, home, newSockets, sockets, state, run, at, cursor>>
    BY <1>11 DEF vars
  <2> QED
    BY <2>1, TrackPersists DEF Live
<1> QED
  BY <1>1, <1>2, <1>3, <1>4, <1>5, <1>6, <1>7, <1>8, <1>9, <1>10, <1>11
     DEF Next, ThreadNext, OwnerNext, AnyoneNext, Update

LEMMA TrackInit == Init => TrackInv
<1> SUFFICES ASSUME Init PROVE TrackInv
  OBVIOUS
<1>1. \A t \in Threads : Contained(t) = {}
  BY DEF Init, Contained, Range
<1> QED
  BY <1>1 DEF Init, TrackInv, Dealt, OpenTracked, IsOpen

\* No interleaving of AddSocket, AddNewSockets, the handlers and Update leaves
\* an open session where nothing would find it.
THEOREM OpenTrackedCorrect == Spec => []OpenTracked
<1>1. Init => TypeOK /\ CounterInv /\ TrackInv
  BY TypeInit, CounterInit, TrackInit
<1>2. TypeOK /\ CounterInv /\ TrackInv /\ [Next]_vars
      => TypeOK' /\ CounterInv' /\ TrackInv'
  BY TypeStep, CounterStep, TrackStep
<1>3. TrackInv => OpenTracked
  BY DEF TrackInv
<1> QED
  BY <1>1, <1>2, <1>3, PTL DEF Spec

-----------------------------------------------------------------------------
(***************************************************************************)
(* NoSessionOutlivesContext.  After Stop() no session of the thread is in  *)
(* the owner's hands, so the containers that Run() clears stay empty.      *)
(***************************************************************************)
ReleaseOf(t) ==
    /\ stopped[t] => \A c \in hand : home[c] # t
    /\ ~Live(t) => newSockets[t] = <<>> /\ sockets[t] = <<>>
    /\ run[t] = "deleted" => \A c \in Sessions : reading[c] => home[c] # t

ReleaseInv == \A t \in Threads : ReleaseOf(t)

\* Every step of the threads and of their owner keeps ReleaseInv.
LEMMA ReleaseStep ==
    TypeOK /\ CounterInv /\ ExitInv /\ ReleaseInv /\ [Next]_vars => ReleaseInv'
<1> SUFFICES ASSUME TypeOK, CounterInv, ExitInv, ReleaseInv, [Next]_vars
             PROVE  ReleaseInv'
  OBVIOUS
<1> USE DEF TypeOK, Lives, sessionVars, listVars, stopVars, runVars, Live,
            ReleaseInv, ReleaseOf
<1>0. \A t \in Threads : at[t] # "idle" => run[t] = "running"
  BY DEF CounterInv, CounterOf
<1>1. ASSUME UNCHANGED <<home, hand, newSockets, sockets, stopped, run>>,
             \A c \in Sessions : reading'[c] => reading[c]
      PROVE  ReleaseInv'
  BY <1>1
<1>2. ASSUME NEW t \in Threads, Start(t) PROVE ReleaseInv'
  BY <1>2 DEF Start
<1>3. ASSUME NEW t \in Threads, NEW c \in Sessions, Open(t, c) PROVE ReleaseInv'
  <2>1. /\ ~stopped[t] /\ run[t] \in {"started", "running"}
        /\ home' = [home EXCEPT ![c] = t] /\ hand' = hand \cup {c}
        /\ reading' = [reading EXCEPT ![c] = TRUE]
        /\ UNCHANGED <<newSockets, sockets, stopped, run>>
    BY <1>3 DEF Open
  <2> SUFFICES ASSUME NEW u \in Threads PROVE ReleaseOf(u)'
    OBVIOUS
  <2>2. stopped[u] => \A d \in hand' : home'[d] # u
    BY <2>1
  <2>3. run[u] = "deleted" => \A d \in Sessions : reading'[d] => home'[d] # u
    <3> SUFFICES ASSUME run[u] = "deleted", NEW d \in Sessions, reading'[d]
                 PROVE  home'[d] # u
      OBVIOUS
    <3>1. CASE d = c
      BY <2>1, <3>1
    <3>2. CASE d # c
      <4>1. reading[d] /\ home'[d] = home[d]
        BY <2>1, <3>2
      <4> QED
        BY <4>1
    <3> QED
      BY <3>1, <3>2
  <2> QED
    BY <2>1, <2>2, <2>3
<1>4. ASSUME NEW t \in Threads, NEW c \in Sessions, AddSocket(t, c) PROVE ReleaseInv'
  <2>1. /\ c \in hand /\ home[c] = t /\ hand' = hand \ {c}
        /\ newSockets' = [newSockets EXCEPT ![t] = Append(@, c)]
        /\ UNCHANGED <<home, reading, sockets, stopped, run>>
    BY <1>4 DEF AddSocket
  <2>2. Live(t)
    BY <2>1 DEF ExitInv, ExitOf
  <2> QED
    BY <2>1, <2>2
<1>5. ASSUME NEW t \in Threads, Stop(t) PROVE ReleaseInv'
  BY <1>5 DEF Stop
<1>6. ASSUME NEW t \in Threads, Wait(t) PROVE ReleaseInv'
  BY <1>6 DEF Wait
<1>7. ASSUME NEW t \in Threads, Delete(t) PROVE ReleaseInv'
  BY <1>7 DEF Delete
<1>8. ASSUME NEW t \in Threads, RunBegin(t) PROVE ReleaseInv'
  BY <1>8 DEF RunBegin
<1>9. ASSUME NEW t \in Threads, RunEnd(t) PROVE ReleaseInv'
  BY <1>9 DEF RunEnd
<1>10. ASSUME NEW t \in Threads, NEW c \in Sessions, ReadHandler(t, c)
       PROVE  ReleaseInv'
  <2>1. \A d \in Sessions : reading'[d] => reading[d]
    BY <1>10 DEF ReadHandler, IsOpen
  <2> QED
    BY <1>1, <1>10, <2>1 DEF ReadHandler
<1>11. ASSUME NEW t \in Threads, NEW c \in Sessions,
              WriteHandler(t, c) \/ DelayedCloseSocket(c)
       PROVE  ReleaseInv'
  BY <1>1, <1>11 DEF WriteHandler, DelayedCloseSocket
<1>12. ASSUME NEW t \in Threads,
              StopIo(t) \/ UpdateBegin(t) \/ AddNewSockets(t) \/ UpdateDone(t)
       PROVE  ReleaseInv'
  BY <1>1, <1>12 DEF StopIo, UpdateBegin, AddNewSockets, UpdateDone
<1>13. ASSUME NEW t \in Threads, AddOne(t) \/ AddDone(t) \/ UpdateOne(t)
       PROVE  ReleaseInv'
  <2>1. Live(t) /\ UNCHANGED <<home, hand, reading, stopped, run>>
    BY <1>0, <1>13 DEF AddOne, AddDone, UpdateOne
  <2>2. \A u \in Threads \ {t} : newSockets'[u] = newSockets[u] /\ sockets'[u] = sockets[u]
    BY <1>13 DEF AddOne, AddDone, UpdateOne
  <2> QED
    BY <2>1, <2>2
<1>14. CASE UNCHANGED vars
  BY <1>1, <1>14 DEF vars
<1> QED
  BY <1>2, <1>3, <1>4, <1>5, <1>6, <1>7, <1>8, <1>9, <1>10, <1>11, <1>12, <1>13,
     <1>14, ThreadAssumption
     DEF Next, ThreadNext, OwnerNext, AnyoneNext, Update

LEMMA ReleaseInit == Init => ReleaseInv
BY DEF Init, ReleaseInv, ReleaseOf, Live

\* Destroying a NetworkThread, after Stop() and Wait(), leaves no session that
\* still uses its io_context.
THEOREM ReleaseCorrect == Spec => []NoSessionOutlivesContext
<1> DEFINE Inv == TypeOK /\ CounterInv /\ ExitInv /\ TrackInv /\ ReleaseInv
<1>1. Init => Inv
  BY TypeInit, CounterInit, ExitInit, TrackInit, ReleaseInit
<1>2. Inv /\ [Next]_vars => Inv'
  BY TypeStep, CounterStep, ExitStep, TrackStep, ReleaseStep
<1>3. Inv => NoSessionOutlivesContext
  <2> SUFFICES ASSUME Inv, NEW t \in Threads, run[t] = "deleted",
                      NEW c \in Sessions, home[c] = t
               PROVE  ~Referenced(c)
    BY DEF NoSessionOutlivesContext
  <2>1. /\ stopped[t] /\ Contained(t) = {}
    BY DEF ExitInv, ExitOf, ReleaseInv, ReleaseOf, Live, Contained, Range
  <2>2. c \notin hand /\ ~reading[c]
    BY <2>1 DEF ReleaseInv, ReleaseOf
  <2>3. \A u \in Threads : c \notin Contained(u)
    BY <2>1 DEF TrackInv, Member
  <2> QED
    BY <2>2, <2>3 DEF Referenced
<1> QED
  BY <1>1, <1>2, <1>3, PTL DEF Spec
=============================================================================
