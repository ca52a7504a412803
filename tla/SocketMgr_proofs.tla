--------------------------- MODULE SocketMgr_proofs ---------------------------
(***************************************************************************)
(* Proofs about SocketMgr, for any number of threads and clients.          *)
(***************************************************************************)
EXTENDS SocketMgr, FiniteSetTheorems, TLAPS

-----------------------------------------------------------------------------
(* The inductive invariant                                                 *)

\* The types of what the choice of a thread depends on.
Typed ==
    /\ state \in [Clients -> {"none", "open", "closing", "closed"}]
    /\ reading \in [Clients -> BOOLEAN]
    /\ home \in [Clients -> Threads]
    /\ hand \in SUBSET Clients
    /\ connections \in [Threads -> Int]
    /\ pc \in Places
    /\ index \in 1 .. ThreadCount + 1
    /\ chosen \in Threads
    /\ accepting \in Threads \cup {0}

\* What the owner holds, and what has a read outstanding, is a session.
Constructed == \A c \in Clients : c \in hand \/ reading[c] => state[c] # "none"

\* The sessions that were ever added to the thread.
Added(t) == {c \in Opened : home[c] = t /\ c \notin hand}

\* A thread has had all the sessions it counts, and perhaps more.
Counted == \A t \in Threads : connections[t] <= Cardinality(Added(t))

\* The loop of SelectThreadWithMinConnections: every thread it has looked at has
\* had as many sessions as the chosen one has now.
Scanned ==
    /\ pc = "select" /\ index > 1 =>
          /\ chosen < index
          /\ \A t \in 1 .. index - 1 : connections[chosen] <= Cardinality(Added(t))
    /\ pc \in {"run", "accepted", "AddSocket"} => index = 1

\* The counter loaded first has only fallen since: the thread has no more
\* sessions than that now, and as many have been added to each thread that it
\* stands for.
StandsFor(t) == IF t = index THEN {index} ELSE 1 .. index - 1
Loaded ==
    loaded # <<>> =>
        /\ pc = "select" /\ index \in 2 .. ThreadCount
        /\ loaded[1] \in {index, chosen} /\ loaded[2] \in Int
        /\ connections[loaded[1]] <= loaded[2]
        /\ \A t \in StandsFor(loaded[1]) : loaded[2] <= Cardinality(Added(t))

\* The same holds for all threads as long as the accept is armed on the thread,
\* and until the session it brings is added.
Chosen ==
    accepting # 0 => \A t \in Threads : connections[accepting] <= Cardinality(Added(t))

\* The other loops over _threads are at one of the threads, and the handler of
\* an accept runs for the thread it was armed on.
Placed ==
    /\ pc \in {"StartThreads", "Stop", "StopIo", "Wait", "delete"} => index \in Threads
    /\ pc = "off" => index = 1
    /\ pc = "accepted" => accepting # 0

(***************************************************************************)
(* Balanced compares a counter with the number of all sessions; when a     *)
(* session is added it has to be known that every thread has had as many   *)
(* sessions as the one that gets it, which were counted at different times *)
(* (Scanned, Chosen).  That these are different sessions, and so at least  *)
(* ThreadCount times as many, is lemma Shares.                             *)
(***************************************************************************)
MgrInv ==
    /\ Typed /\ Constructed /\ IsFiniteSet(Opened)
    /\ Counted /\ Scanned /\ Loaded /\ Chosen /\ Placed /\ Balanced

-----------------------------------------------------------------------------
(* Lemmas about sets and numbers                                           *)

\* A set whose elements are dealt to n owners, v or more to each of them, has
\* at least v times n elements.
LEMMA Shares ==
    ASSUME NEW S, IsFiniteSet(S), NEW n \in Nat, NEW v \in Nat, NEW f \in [S -> 1 .. n],
           \A t \in 1 .. n : v <= Cardinality({c \in S : f[c] = t})
    PROVE  v * n <= Cardinality(S)
<1> DEFINE Of(t) == {c \in S : f[c] = t}
           G == [t \in 1 .. n |-> CHOOSE g \in [1 .. v -> Of(t)] :
                                      \A i, j \in 1 .. v : g[i] = g[j] => i = j]
           P == (1 .. n) \X (1 .. v)
           h == [p \in P |-> G[p[1]][p[2]]]
<1>1. ASSUME NEW t \in 1 .. n
      PROVE  \E g \in [1 .. v -> Of(t)] : \A i, j \in 1 .. v : g[i] = g[j] => i = j
  <2> DEFINE k == Cardinality(Of(t))
  <2>1. Of(t) \in SUBSET S /\ v <= k
    BY <1>1
  <2>2. IsFiniteSet(Of(t))
    BY <2>1, FS_Subset
  <2>3. k \in Nat /\ ExistsBijection(1 .. k, Of(t))
    BY <2>2, FS_CardinalityType
  <2> HIDE DEF k, Of
  <2>4. PICK b \in [1 .. k -> Of(t)] : \A i, j \in 1 .. k : b[i] = b[j] => i = j
    BY <2>3 DEF ExistsBijection, Bijection, Injection, IsInjective
  <2>5. \A i \in 1 .. v : i \in 1 .. k
    BY <2>1, <2>3
  <2> DEFINE g == [i \in 1 .. v |-> b[i]]
  <2>6. g \in [1 .. v -> Of(t)] /\ \A i, j \in 1 .. v : g[i] = g[j] => i = j
    BY <2>4, <2>5
  <2> QED
    BY <2>6
<1>2. ASSUME NEW t \in 1 .. n
      PROVE  G[t] \in [1 .. v -> Of(t)] /\ \A i, j \in 1 .. v : G[t][i] = G[t][j] => i = j
  BY <1>1, <1>2
<1>3. \A p \in P : p = <<p[1], p[2]>> /\ p[1] \in 1 .. n /\ p[2] \in 1 .. v
  OBVIOUS
<1> HIDE DEF G
<1>4. \A p \in P : h[p] \in Of(p[1])
  BY <1>2, <1>3
<1>5. h \in [P -> S]
  BY <1>4
<1>6. ASSUME NEW p \in P, NEW q \in P, h[p] = h[q] PROVE p = q
  <2>1. p[1] = q[1]
    BY <1>4, <1>6
  <2>2. G[p[1]][p[2]] = G[p[1]][q[2]]
    BY <1>6, <2>1
  <2>3. p[2] = q[2]
    BY <1>2, <1>3, <2>2
  <2> QED
    BY <1>3, <2>1, <2>3
<1>7. h \in Injection(P, S)
  BY <1>5, <1>6 DEF Injection, IsInjective
<1>8. Cardinality(P) <= Cardinality(S)
  BY <1>7, FS_Injection
<1>9. /\ IsFiniteSet(1 .. n) /\ Cardinality(1 .. n) = n
      /\ IsFiniteSet(1 .. v) /\ Cardinality(1 .. v) = v
  BY FS_Interval
<1>10. Cardinality(P) = Cardinality(1 .. n) * Cardinality(1 .. v)
  BY <1>9, FS_Product, Zenon
<1> QED
  BY <1>8, <1>9, <1>10

\* Multiplication keeps the order.
LEMMA Times ==
    ASSUME NEW a \in Int, NEW b \in Int, a <= b, NEW n \in Nat
    PROVE  a * n <= b * n
<1>1. PICK d \in Nat : b = a + d
  <2>1. b - a \in Nat /\ b = a + (b - a)
    OBVIOUS
  <2> QED
    BY <2>1
<1>2. d * n \in Nat /\ b * n = a * n + d * n
  BY <1>1
<1> QED
  BY <1>2

-----------------------------------------------------------------------------
(* Balanced                                                                *)

\* A step that adds no session to a thread: no counter rises, no session is
\* forgotten or moved, and only new sessions come into the owner's hands.
Mild ==
    /\ \A t \in Threads : connections'[t] <= connections[t]
    /\ \A c \in Clients : state[c] # "none" => state'[c] # "none" /\ home'[c] = home[c]
    /\ \A c \in hand' : c \in hand \/ state[c] = "none"
    /\ Constructed' /\ IsFiniteSet(Opened')

\* Nothing happens to the sessions' existence, their threads and the counters.
LEMMA MildSteps ==
    ASSUME MgrInv,
           \A t \in Threads : connections'[t] <= connections[t],
           \A c \in Clients : (state'[c] = "none") <=> (state[c] = "none"),
           \A c \in Clients : reading'[c] => reading[c],
           UNCHANGED <<home, hand>>
    PROVE  Mild
<1>1. Opened' = Opened
  BY DEF Opened
<1> QED
  BY <1>1 DEF Mild, MgrInv, Typed, Constructed

\* After such a step every thread has had at least the sessions it had before.
LEMMA MildFacts ==
    ASSUME MgrInv, Typed', Mild
    PROVE  /\ Cardinality(Opened) \in Nat /\ Cardinality(Opened') \in Nat
           /\ Cardinality(Opened) <= Cardinality(Opened')
           /\ \A t \in Threads :
                 /\ Cardinality(Added(t)) \in Nat /\ Cardinality(Added(t)') \in Nat
                 /\ Cardinality(Added(t)) <= Cardinality(Added(t)')
<1>1. Opened \in SUBSET Opened' /\ IsFiniteSet(Opened) /\ IsFiniteSet(Opened')
  BY DEF MgrInv, Mild, Opened
<1>2. /\ Cardinality(Opened) \in Nat /\ Cardinality(Opened') \in Nat
      /\ Cardinality(Opened) <= Cardinality(Opened')
  BY <1>1, FS_Subset, FS_CardinalityType
<1>3. ASSUME NEW t \in Threads
      PROVE  /\ Cardinality(Added(t)) \in Nat /\ Cardinality(Added(t)') \in Nat
             /\ Cardinality(Added(t)) <= Cardinality(Added(t)')
  <2>1. Added(t) \in SUBSET Added(t)'
    BY DEF MgrInv, Typed, Mild, Added, Opened
  <2>2. Added(t)' \in SUBSET Opened'
    BY DEF Added
  <2>3. IsFiniteSet(Added(t)')
    BY <1>1, <2>2, FS_Subset
  <2>4. IsFiniteSet(Added(t))
    BY <2>1, <2>3, FS_Subset
  <2> QED
    BY <2>1, <2>3, <2>4, FS_Subset, FS_CardinalityType
<1> QED
  BY <1>2, <1>3

\* Such a step keeps the counters within bounds, and the shares.
LEMMA MildKeeps ==
    ASSUME MgrInv, Typed', Mild
    PROVE  Counted' /\ Balanced'
<1>1. ASSUME NEW t \in Threads
      PROVE  /\ connections'[t] <= Cardinality(Added(t)')
             /\ (connections'[t] - 1) * ThreadCount < Cardinality(Opened')
  <2>1. /\ connections[t] \in Int /\ connections'[t] \in Int /\ ThreadCount \in Nat
        /\ connections'[t] <= connections[t]
    BY MgrAssumption DEF MgrInv, Typed, Mild
  <2>2. connections[t] <= Cardinality(Added(t))
    BY DEF MgrInv, Counted
  <2>3. (connections[t] - 1) * ThreadCount < Cardinality(Opened)
    BY DEF MgrInv, Balanced
  <2>4. PICK a \in Int, b \in Int : a = connections'[t] - 1 /\ b = connections[t] - 1
    BY <2>1
  <2>5. a * ThreadCount <= b * ThreadCount
    BY <2>1, <2>4, Times
  <2>6. a * ThreadCount \in Int /\ b * ThreadCount \in Int
    BY <2>1
  <2>7. a * ThreadCount < Cardinality(Opened')
    BY <2>3, <2>4, <2>5, <2>6, MildFacts
  <2> QED
    BY <2>1, <2>2, <2>4, <2>7, MildFacts
<1> QED
  BY <1>1 DEF Counted, Balanced

\* What a loaded counter stands for outlasts a step of somebody else.
LEMMA LoadedStays ==
    ASSUME MgrInv, Typed', Mild, UNCHANGED <<pc, index, chosen, loaded>>
    PROVE  Loaded'
<1> SUFFICES ASSUME loaded # <<>> PROVE Loaded'
  BY DEF Loaded
<1>1. PICK s, v : s = loaded[1] /\ v = loaded[2]
  OBVIOUS
<1>2. /\ pc = "select" /\ index \in 2 .. ThreadCount /\ s \in {index, chosen} /\ v \in Int
      /\ connections[s] <= v /\ \A t \in StandsFor(s) : v <= Cardinality(Added(t))
  BY <1>1 DEF MgrInv, Loaded
<1>3. s \in Threads /\ connections[s] \in Int /\ connections'[s] \in Int
  BY <1>2, MgrAssumption DEF MgrInv, Typed, Threads
<1>4. connections'[s] <= v
  BY <1>2, <1>3 DEF Mild
<1>5. ASSUME NEW t \in StandsFor(s) PROVE v <= Cardinality(Added(t)')
  <2>1. t \in Threads
    BY <1>2, MgrAssumption DEF StandsFor, Threads
  <2> QED
    BY <1>2, <2>1, MildFacts
<1>6. StandsFor(s)' = StandsFor(s)
  BY DEF StandsFor
<1> QED
  BY <1>1, <1>2, <1>4, <1>5, <1>6 DEF Loaded, StandsFor

\* A step of somebody else: the main thread and its accept stay as they are.
LEMMA OthersKeep ==
    ASSUME MgrInv, Typed', Mild, UNCHANGED <<pc, index, chosen, loaded, accepting>>
    PROVE  MgrInv'
<1>1. Scanned'
  <2>1. ASSUME pc = "select", index > 1, NEW t \in 1 .. index - 1
        PROVE  chosen < index /\ connections'[chosen] <= Cardinality(Added(t)')
    <3>1. t \in Threads /\ connections[chosen] \in Int /\ connections'[chosen] \in Int
      BY MgrAssumption DEF MgrInv, Typed, Threads
    <3>2. /\ chosen < index /\ connections[chosen] <= Cardinality(Added(t))
          /\ connections'[chosen] <= connections[chosen]
      BY <2>1 DEF MgrInv, Scanned, Mild, Typed
    <3> QED
      BY <3>1, <3>2, MildFacts
  <2>2. pc = "select" /\ index > 1 => chosen < index
    BY DEF MgrInv, Scanned
  <2> QED
    BY <2>1, <2>2 DEF Scanned, MgrInv
<1>2. Chosen'
  <2>1. ASSUME accepting # 0, NEW t \in Threads
        PROVE  connections'[accepting] <= Cardinality(Added(t)')
    <3>1. connections[accepting] \in Int /\ connections'[accepting] \in Int
      BY <2>1 DEF MgrInv, Typed
    <3>2. /\ connections[accepting] <= Cardinality(Added(t))
          /\ connections'[accepting] <= connections[accepting]
      BY <2>1 DEF MgrInv, Chosen, Mild, Typed
    <3> QED
      BY <3>1, <3>2, MildFacts
  <2> QED
    BY <2>1 DEF Chosen
<1>3. Placed'
  BY DEF MgrInv, Placed
<1>4. Loaded'
  BY LoadedStays
<1> QED
  BY <1>1, <1>2, <1>3, <1>4, MildKeeps DEF MgrInv, Mild

\* What the threads and the sessions do adds no session to a thread.
LEMMA ThreadsMild ==
    ASSUME MgrInv, NetworkThreads
    PROVE  Mild /\ Typed' /\ UNCHANGED <<pc, index, chosen, loaded, accepting>>
<1> USE DEF Thread!sessionVars, Thread!listVars, Thread!stopVars, Thread!runVars
<1> DEFINE States == {"none", "open", "closing", "closed"}
<1>1. UNCHANGED <<pc, index, chosen, loaded, accepting>>
  BY DEF NetworkThreads, mainVars, acceptorVars
<1>2. /\ state \in [Clients -> States] /\ reading \in [Clients -> BOOLEAN]
      /\ connections \in [Threads -> Int]
      /\ \A t \in Threads : connections[t] \in Int /\ connections[t] <= connections[t]
      /\ \A t \in Threads : connections[t] - 1 \in Int /\ connections[t] - 1 <= connections[t]
  BY DEF MgrInv, Typed
<1> DEFINE Small == /\ state' \in [Clients -> States] /\ reading' \in [Clients -> BOOLEAN]
                    /\ connections' \in [Threads -> Int]
                    /\ \A t \in Threads : connections'[t] <= connections[t]
                    /\ \A c \in Clients : (state'[c] = "none") <=> (state[c] = "none")
                    /\ \A c \in Clients : reading'[c] => reading[c]
                    /\ UNCHANGED <<home, hand>>
<1>3. ASSUME Thread!AnyoneNext PROVE Small
  <2>1. PICK c \in Clients : Thread!DelayedCloseSocket(c)
    BY <1>3 DEF Thread!AnyoneNext
  <2> QED
    BY <1>2, <2>1 DEF Thread!DelayedCloseSocket, Thread!IsOpen
<1>4. ASSUME NEW t \in Threads, Thread!ThreadNext(t) PROVE Small
  <2>1. CASE Thread!RunBegin(t)
    BY <1>2, <2>1 DEF Thread!RunBegin
  <2>2. CASE Thread!RunEnd(t)
    BY <1>2, <2>2 DEF Thread!RunEnd
  <2>3. CASE \E c \in Clients : Thread!ReadHandler(t, c) \/ Thread!WriteHandler(t, c)
    <3>1. PICK c \in Clients : Thread!ReadHandler(t, c) \/ Thread!WriteHandler(t, c)
      BY <2>3
    <3>2. CASE Thread!WriteHandler(t, c)
      BY <1>2, <3>2 DEF Thread!WriteHandler
    <3>3. CASE Thread!ReadHandler(t, c)
      <4>1. reading[c] /\ state[c] # "none"
        BY <3>3 DEF Thread!ReadHandler, MgrInv, Constructed
      <4> QED
        BY <1>2, <3>3, <4>1 DEF Thread!ReadHandler, Thread!IsOpen
    <3> QED
      BY <3>1, <3>2, <3>3
  <2>4. CASE Thread!UpdateBegin(t)
    BY <1>2, <2>4 DEF Thread!UpdateBegin
  <2>5. CASE Thread!Update(t)
    <3>1. CASE Thread!AddNewSockets(t)
      BY <1>2, <3>1 DEF Thread!AddNewSockets
    <3>2. CASE Thread!AddOne(t)
      BY <1>2, <3>2 DEF Thread!AddOne
    <3>3. CASE Thread!AddDone(t)
      BY <1>2, <3>3 DEF Thread!AddDone
    <3>4. CASE Thread!UpdateOne(t)
      BY <1>2, <3>4 DEF Thread!UpdateOne
    <3>5. CASE Thread!UpdateDone(t)
      BY <1>2, <3>5 DEF Thread!UpdateDone
    <3> QED
      BY <2>5, <3>1, <3>2, <3>3, <3>4, <3>5 DEF Thread!Update
  <2> QED
    BY <1>4, <2>1, <2>2, <2>3, <2>4, <2>5 DEF Thread!ThreadNext
<1>5. Small
  BY <1>3, <1>4 DEF NetworkThreads
<1>6. Typed'
  BY <1>1, <1>5 DEF MgrInv, Typed
<1>7. Mild
  BY <1>5, MildSteps
<1> QED
  BY <1>1, <1>6, <1>7

\* AddSocket gives one more session to the thread that was chosen.
LEMMA AddSocketKeeps ==
    ASSUME MgrInv, NEW c \in Clients, AddSocket(c)
    PROVE  MgrInv'
<1> USE DEF Thread!sessionVars, Thread!listVars, Thread!stopVars, Thread!runVars
<1>0. PICK a \in Threads : a = accepting /\ home[c] = a
  BY DEF AddSocket, Thread!AddSocket, MgrInv, Typed
<1> DEFINE v == connections[a]
<1>1. /\ c \in hand /\ home[c] = a /\ pc = "AddSocket" /\ pc' = "select"
      /\ connections' = [connections EXCEPT ![a] = @ + 1] /\ hand' = hand \ {c}
      /\ UNCHANGED <<state, reading, home, index, chosen, loaded>> /\ accepting' = 0
  BY <1>0 DEF AddSocket, Thread!AddSocket
<1>2. a # 0 /\ v \in Int /\ ThreadCount \in Nat \ {0} /\ index = 1
  BY <1>1, MgrAssumption DEF MgrInv, Typed, Scanned, Threads
<1>3. Typed' /\ Constructed'
  BY <1>1, <1>2 DEF MgrInv, Typed, Constructed, Places
<1>4. Opened' = Opened /\ IsFiniteSet(Opened) /\ c \in Opened
  BY <1>1 DEF Opened, MgrInv, Constructed
<1>5. Cardinality(Opened) \in Nat /\ \A t \in Threads : Cardinality(Added(t)) \in Nat
  <2>1. \A t \in Threads : Added(t) \in SUBSET Opened
    BY DEF Added
  <2> QED
    BY <1>4, <2>1, FS_Subset, FS_CardinalityType
<1>6. \A t \in Threads : connections'[t] = IF t = a THEN v + 1 ELSE connections[t]
  BY <1>1, <1>2 DEF MgrInv, Typed
<1>7. Counted'
  <2>1. ASSUME NEW t \in Threads, t # a PROVE Added(t)' = Added(t)
    BY <1>1, <1>4, <2>1 DEF Added
  <2>2. Added(a) \in SUBSET Opened
    BY DEF Added
  <2>3. Added(a)' = Added(a) \cup {c} /\ c \notin Added(a)
    BY <1>1, <1>4 DEF Added
  <2>4. IsFiniteSet(Added(a))
    BY <1>4, <2>2, FS_Subset
  <2>5. Cardinality(Added(a) \cup {c}) = Cardinality(Added(a)) + 1
    BY <2>3, <2>4, FS_AddElement
  <2>6. Cardinality(Added(a)') = Cardinality(Added(a)) + 1
    BY <2>3, <2>5
  <2>7. v <= Cardinality(Added(a))
    BY <1>2 DEF MgrInv, Counted
  <2> HIDE DEF v
  <2>8. ASSUME NEW t \in Threads PROVE connections'[t] <= Cardinality(Added(t))'
    <3>1. CASE t = a
      BY <1>2, <1>5, <1>6, <2>6, <2>7, <3>1
    <3>2. CASE t # a
      BY <1>6, <2>1, <3>2 DEF MgrInv, Counted
    <3> QED
      BY <3>1, <3>2
  <2> QED
    BY <2>8 DEF Counted
<1>8. v * ThreadCount < Cardinality(Opened)
  <2>1. CASE v >= 0
    <3> DEFINE S == Opened \ {c}
               f == [d \in S |-> home[d]]
    <3>1. IsFiniteSet(S) /\ Cardinality(S) = Cardinality(Opened) - 1
      BY <1>4, FS_RemoveElement
    <3>2. f \in [S -> 1 .. ThreadCount]
      BY DEF MgrInv, Typed, Opened, Threads
    <3>3. ASSUME NEW t \in 1 .. ThreadCount PROVE v <= Cardinality({d \in S : f[d] = t})
      <4>1. t \in Threads
        BY DEF Threads
      <4>2. Added(t) \in SUBSET {d \in S : f[d] = t}
        BY <1>1 DEF Added
      <4>3. {d \in S : f[d] = t} \in SUBSET S
        OBVIOUS
      <4>4. IsFiniteSet({d \in S : f[d] = t})
        BY <3>1, <4>3, FS_Subset
      <4>5. Cardinality(Added(t)) <= Cardinality({d \in S : f[d] = t})
        BY <4>2, <4>4, FS_Subset
      <4>6. v <= Cardinality(Added(t))
        BY <1>0, <1>2, <4>1 DEF MgrInv, Chosen
      <4>7. Cardinality({d \in S : f[d] = t}) \in Nat
        BY <4>4, FS_CardinalityType
      <4> HIDE DEF v, f, S
      <4> QED
        BY <1>2, <1>5, <4>1, <4>5, <4>6, <4>7
    <3>4. v \in Nat
      BY <1>2, <2>1
    <3> HIDE DEF S, f, v
    <3>5. v * ThreadCount <= Cardinality(S)
      BY <1>2, <3>1, <3>2, <3>3, <3>4, Shares
    <3>6. v * ThreadCount \in Int
      BY <1>2
    <3> QED
      BY <1>5, <3>1, <3>5, <3>6
  <2>2. CASE v < 0
    <3> HIDE DEF v
    <3>1. v * ThreadCount <= (0 - 1) * ThreadCount
      BY <1>2, <2>2, Times
    <3>2. v * ThreadCount \in Int
      BY <1>2
    <3> QED
      BY <1>2, <1>5, <3>1, <3>2
  <2> QED
    BY <1>2, <2>1, <2>2
<1>9. Balanced'
  <2> HIDE DEF v
  <2>1. ASSUME NEW t \in Threads
        PROVE  (connections'[t] - 1) * ThreadCount < Cardinality(Opened)
    <3>1. CASE t = a
      <4>1. connections'[t] - 1 = v
        BY <1>2, <1>6, <3>1
      <4> QED
        BY <1>8, <4>1
    <3>2. CASE t # a
      BY <1>6, <3>2 DEF MgrInv, Balanced
    <3> QED
      BY <3>1, <3>2
  <2> QED
    BY <1>4, <2>1 DEF Balanced
<1>10. Scanned' /\ Loaded' /\ Chosen' /\ Placed'
  BY <1>1, <1>2 DEF MgrInv, Scanned, Loaded, Chosen, Placed
<1> QED
  BY <1>3, <1>4, <1>7, <1>9, <1>10 DEF MgrInv

\* A step of the main thread that adds no session has to keep what is known of
\* the thread that it is choosing or has chosen.
LEMMA MainKeeps ==
    ASSUME MgrInv, Mild, Typed', Scanned', Loaded', Chosen', Placed'
    PROVE  MgrInv'
BY MildKeeps DEF MgrInv, Mild

\* A step that leaves the sessions and the counters alone.
LEMMA Untouched ==
    ASSUME MgrInv, UNCHANGED <<state, reading, home, hand, connections>>
    PROVE  /\ Mild
           /\ \A t \in Threads : Added(t)' = Added(t) /\ connections'[t] = connections[t]
<1>1. \A t \in Threads : connections'[t] <= connections[t]
  BY DEF MgrInv, Typed
<1>2. Mild
  BY <1>1, MildSteps
<1> QED
  BY <1>2 DEF Added, Opened

\* The first of the two counters that are compared.
LEMMA LoadKeeps ==
    ASSUME MgrInv, LoadCount
    PROVE  MgrInv'
<1>1. UNCHANGED <<state, reading, home, hand, connections, pc, index, chosen, accepting>>
  BY DEF LoadCount, threadVars, acceptorVars
<1>2. /\ pc = "select" /\ index \in 2 .. ThreadCount /\ index \in Threads /\ chosen \in Threads
      /\ ThreadCount \in Nat /\ index > 1
  BY MgrAssumption DEF LoadCount, MgrInv, Typed, Threads
<1>3. PICK s \in {index, chosen} : loaded' = <<s, connections[s]>>
  BY DEF LoadCount
<1>4. s \in Threads /\ connections[s] \in Int
  BY <1>2, <1>3 DEF MgrInv, Typed
<1>5. \A t \in Threads : Added(t)' = Added(t)
  BY <1>1, Untouched
<1>6. ASSUME NEW t \in StandsFor(s) PROVE t \in Threads /\ connections[s] <= Cardinality(Added(t))
  <2>1. t \in Threads
    BY <1>2, <1>6 DEF StandsFor, Threads
  <2>2. CASE s = index
    BY <1>6, <2>1, <2>2 DEF StandsFor, MgrInv, Counted
  <2>3. CASE s # index
    BY <1>2, <1>3, <1>6, <2>1, <2>3 DEF StandsFor, MgrInv, Scanned
  <2> QED
    BY <2>2, <2>3
<1>7. Loaded'
  <2>1. loaded'[1] = s /\ loaded'[2] = connections[s]
    BY <1>3
  <2>2. connections[s] <= connections[s]
    BY <1>4
  <2>3. StandsFor(s)' = StandsFor(s)
    BY <1>1 DEF StandsFor
  <2>4. \A t \in StandsFor(s) : connections[s] <= Cardinality(Added(t)')
    BY <1>5, <1>6
  <2> QED
    BY <1>1, <1>2, <1>3, <1>4, <2>1, <2>2, <2>3, <2>4 DEF Loaded, StandsFor
<1>8. Typed' /\ Placed'
  BY <1>1 DEF MgrInv, Typed, Placed
<1>9. Scanned' /\ Chosen'
  <2>1. pc = "select" /\ index > 1 =>
            chosen < index /\ \A t \in 1 .. index - 1 : t \in Threads /\ connections[chosen] <= Cardinality(Added(t))
    BY <1>2 DEF MgrInv, Scanned, Threads
  <2>2. Scanned'
    BY <1>1, <1>2, <1>5, <2>1 DEF Scanned
  <2>3. Chosen'
    BY <1>1, <1>5 DEF MgrInv, Chosen
  <2> QED
    BY <2>2, <2>3
<1> QED
  BY <1>1, <1>7, <1>8, <1>9, Untouched, MainKeeps

\* The choice between the two, one of whose counters may be old.
LEMMA SelectKeeps ==
    ASSUME MgrInv, SelectThread
    PROVE  MgrInv'
<1>1. UNCHANGED <<state, reading, home, hand, connections, pc, accepting>> /\ loaded' = <<>>
  BY DEF SelectThread, threadVars, acceptorVars
<1>2. /\ pc = "select" /\ index \in Threads /\ index \in Int /\ chosen \in Threads
      /\ chosen \in Int /\ index' = index + 1 /\ (index = 1 \/ loaded # <<>>)
      /\ connections[index] \in Int /\ connections[chosen] \in Int
      /\ chosen' = IF index = 1 \/ Count(index) < Count(chosen) THEN index ELSE chosen
  BY MgrAssumption DEF SelectThread, MgrInv, Typed, Threads
<1>3. Typed'
  BY <1>1, <1>2, MgrAssumption DEF MgrInv, Typed, Threads
<1>4. \A t \in Threads : Cardinality(Added(t)) \in Nat
  BY <1>1, <1>3, Untouched, MildFacts
<1>5. Scanned'
  <2>1. chosen' < index'
    BY <1>2 DEF MgrInv, Scanned, Typed
  <2>2. connections[chosen'] \in Int
    BY <1>2
  <2>3. ASSUME NEW t \in 1 .. index PROVE connections[chosen'] <= Cardinality(Added(t))
    <3>1. t \in Threads /\ Cardinality(Added(t)) \in Nat
      BY <1>2, <1>4, MgrAssumption DEF Threads
    <3>2. connections[index] <= Cardinality(Added(index))
      BY <1>2 DEF MgrInv, Counted
    <3>3. CASE index = 1
      BY <1>2, <3>2, <3>3
    <3>4. CASE index # 1
      <4>1. PICK s, v : s = loaded[1] /\ v = loaded[2]
        OBVIOUS
      <4>2. /\ s \in {index, chosen} /\ v \in Int /\ connections[s] <= v
            /\ \A u \in StandsFor(s) : v <= Cardinality(Added(u))
        BY <1>2, <3>4, <4>1 DEF MgrInv, Loaded
      <4>3. /\ index > 1 /\ chosen < index
            /\ \A u \in 1 .. index - 1 : connections[chosen] <= Cardinality(Added(u))
        BY <1>2, <3>4 DEF MgrInv, Scanned, Threads
      <4>4. /\ Count(index) = IF s = index THEN v ELSE connections[index]
            /\ Count(chosen) = IF s = chosen THEN v ELSE connections[chosen]
        BY <4>1 DEF Count
      <4>5. CASE s = index
        <5>1. v <= Cardinality(Added(index))
          BY <4>2, <4>5 DEF StandsFor
        <5>2. chosen' = IF v < connections[chosen] THEN index ELSE chosen
          BY <1>2, <3>4, <4>3, <4>4, <4>5
        <5>3. CASE t = index
          BY <1>2, <3>1, <3>2, <4>2, <5>1, <5>2, <5>3
        <5>4. CASE t # index
          <6>1. t \in 1 .. index - 1
            BY <1>2, <5>4
          <6>2. connections[chosen] <= Cardinality(Added(t))
            BY <4>3, <6>1
          <6> QED
            BY <1>2, <3>1, <4>2, <4>5, <5>2, <6>2
        <5> QED
          BY <5>3, <5>4
      <4>6. CASE s # index
        <5>1. s = chosen /\ \A u \in 1 .. index - 1 : v <= Cardinality(Added(u))
          BY <4>2, <4>6 DEF StandsFor
        <5>2. chosen' = IF connections[index] < v THEN index ELSE chosen
          BY <1>2, <3>4, <4>4, <4>6, <5>1
        <5>3. CASE t = index
          BY <1>2, <3>1, <3>2, <4>2, <5>1, <5>2, <5>3
        <5>4. CASE t # index
          <6>1. t \in 1 .. index - 1
            BY <1>2, <5>4
          <6>2. v <= Cardinality(Added(t))
            BY <5>1, <6>1
          <6> QED
            BY <1>2, <3>1, <4>2, <5>1, <5>2, <6>2
        <5> QED
          BY <5>3, <5>4
      <4> QED
        BY <4>5, <4>6
    <3> QED
      BY <3>3, <3>4
  <2>4. ASSUME NEW t \in 1 .. index' - 1
        PROVE  connections'[chosen'] <= Cardinality(Added(t)')
    <3>1. t \in 1 .. index /\ t \in Threads
      BY <1>2, MgrAssumption DEF Threads
    <3>2. Added(t)' = Added(t)
      BY <1>1, <3>1, Untouched
    <3> QED
      BY <1>1, <2>3, <3>1, <3>2
  <2> QED
    BY <1>1, <1>2, <2>1, <2>4 DEF Scanned
<1>6. Loaded' /\ Chosen' /\ Placed'
  BY <1>1, <1>2, Untouched DEF MgrInv, Loaded, Chosen, Placed, Typed
<1> QED
  BY <1>1, <1>3, <1>5, <1>6, Untouched, MainKeeps

\* The session is constructed, and is in the owner's hands.
LEMMA OpenKeeps ==
    ASSUME MgrInv, NEW c \in Clients, OnSocketOpen(c)
    PROVE  MgrInv'
<1> USE DEF Thread!sessionVars, Thread!listVars, Thread!stopVars, Thread!runVars
<1>1. /\ pc = "accepted" /\ pc' = "AddSocket" /\ state[c] = "none"
      /\ state' = [state EXCEPT ![c] = "open"] /\ reading' = [reading EXCEPT ![c] = TRUE]
      /\ home' = [home EXCEPT ![c] = accepting] /\ hand' = hand \cup {c}
      /\ UNCHANGED <<connections, index, chosen, loaded, accepting>>
  BY DEF OnSocketOpen, Thread!Open
<1>2. accepting \in Threads /\ index = 1
  BY <1>1 DEF MgrInv, Placed, Typed, Scanned
<1>3. Typed'
  BY <1>1, <1>2 DEF MgrInv, Typed, Places
<1>4. Opened' = Opened \cup {c}
  BY <1>1 DEF Opened, MgrInv, Typed
<1>5. IsFiniteSet(Opened \cup {c})
  BY FS_AddElement DEF MgrInv
<1>6. \A t \in Threads : connections'[t] <= connections[t]
  BY <1>1 DEF MgrInv, Typed
<1>7. Constructed'
  BY <1>1 DEF MgrInv, Constructed, Typed
<1>8. Mild
  BY <1>1, <1>4, <1>5, <1>6, <1>7 DEF Mild, MgrInv, Typed
<1>9. Scanned' /\ Loaded' /\ Placed'
  BY <1>1, <1>2 DEF MgrInv, Scanned, Loaded, Placed
<1>10. Chosen'
  <2>1. ASSUME NEW t \in Threads PROVE connections[accepting] <= Cardinality(Added(t)')
    <3>1. connections[accepting] \in Int /\ connections[accepting] <= Cardinality(Added(t))
      BY <1>2 DEF MgrInv, Typed, Chosen, Threads
    <3> QED
      BY <1>3, <1>8, <3>1, MildFacts
  <2> QED
    BY <1>1, <2>1 DEF Chosen
<1> QED
  BY <1>3, <1>8, <1>9, <1>10, MainKeeps

\* The other steps of the main thread touch no session and no counter, except
\* that the destructor takes the handlers away.
LEMMA OtherMainKeeps ==
    ASSUME MgrInv,
           \/ StartNetworkFails \/ StartNetwork \/ StartThread \/ AsyncAccept \/ AcceptError
           \/ StopNetwork \/ StopThread \/ WaitThread \/ DeleteThread
           \/ \E c \in Clients : NonBlockingThrows(c) \/ RemoteEndpointThrows(c) \/ Accepted(c)
    PROVE  MgrInv'
<1> USE DEF threadVars, acceptorVars, Thread!sessionVars, Thread!listVars, Thread!stopVars,
            Thread!runVars
<1> DEFINE Same == UNCHANGED <<state, home, hand, connections>>
           Fewer == /\ reading' \in [Clients -> BOOLEAN]
                    /\ \A c \in Clients : reading'[c] => reading[c]
<1>0. /\ ThreadCount \in Nat /\ ThreadCount > 0 /\ Threads = 1 .. ThreadCount
      /\ index \in 1 .. ThreadCount + 1 /\ chosen \in Threads /\ accepting \in Threads \cup {0}
      /\ pc \in Places /\ reading \in [Clients -> BOOLEAN]
      /\ pc # "select" \/ index = ThreadCount + 1 => loaded = <<>>
  BY MgrAssumption DEF MgrInv, Typed, Threads, Loaded
<1> DEFINE Moved == /\ pc' \in Places /\ index' \in 1 .. ThreadCount + 1
                    /\ chosen' = chosen /\ loaded' = <<>> /\ accepting' \in {accepting, 0}
                    /\ pc' \in {"select", "run", "accepted", "AddSocket"} => index' = 1
                    /\ Placed'
<1>1. CASE AsyncAccept
  <2>1. /\ UNCHANGED <<state, reading, home, hand, connections, chosen>>
        /\ pc = "select" /\ pc' = "run" /\ index = ThreadCount + 1 /\ index' = 1
        /\ accepting' = chosen /\ loaded' = loaded
    BY <1>1 DEF AsyncAccept
  <2>2. Typed' /\ Scanned' /\ Loaded' /\ Placed'
    BY <1>0, <2>1 DEF MgrInv, Typed, Scanned, Loaded, Placed, Places
  <2>3. Chosen'
    BY <1>0, <2>1, Untouched DEF MgrInv, Scanned, Chosen
  <2> QED
    BY <2>1, <2>2, <2>3, Untouched, MainKeeps
<1>2. ASSUME Same, Fewer, Moved PROVE MgrInv'
  <2>1. Mild
    <3>1. \A t \in Threads : connections'[t] <= connections[t]
      BY <1>2 DEF MgrInv, Typed
    <3> QED
      BY <1>2, <3>1, MildSteps
  <2>2. Typed'
    BY <1>0, <1>2 DEF MgrInv, Typed
  <2>3. Scanned'
    <3>1. pc' = "select" => index' = 1 /\ ~(index' > 1)
      BY <1>2
    <3>2. pc' \in {"run", "accepted", "AddSocket"} => index' = 1
      BY <1>2
    <3> QED
      BY <3>1, <3>2 DEF Scanned
  <2>4. Chosen'
    <3>1. \A t \in Threads : Added(t)' = Added(t)
      BY <1>2 DEF Added, Opened
    <3> QED
      BY <1>2, <3>1 DEF MgrInv, Chosen
  <2>5. Loaded'
    BY <1>2 DEF Loaded
  <2> QED
    BY <1>2, <2>1, <2>2, <2>3, <2>4, <2>5, MainKeeps
<1>3. CASE StartNetworkFails \/ StartNetwork
  <2>1. Same /\ Fewer /\ Moved
    BY <1>0, <1>3 DEF StartNetworkFails, StartNetwork, MgrInv, Placed, Places
  <2> QED
    BY <1>2, <2>1
<1>4. CASE StartThread
  <2>1. Same /\ Fewer /\ Moved
    BY <1>0, <1>4 DEF StartThread, Thread!Start, MgrInv, Placed, Places
  <2> QED
    BY <1>2, <2>1
<1>5. CASE AcceptError \/ StopNetwork
  <2>1. Same /\ Fewer /\ Moved
    BY <1>0, <1>5 DEF AcceptError, StopNetwork, MgrInv, Placed, Places, Scanned
  <2> QED
    BY <1>2, <2>1
<1>6. CASE StopThread
  <2>1. Same /\ Fewer /\ Moved
    BY <1>0, <1>6 DEF StopThread, Thread!Stop, Thread!StopIo, MgrInv, Placed, Places
  <2> QED
    BY <1>2, <2>1
<1>7. CASE WaitThread
  <2>1. Same /\ Fewer /\ Moved
    BY <1>0, <1>7 DEF WaitThread, Thread!Wait, MgrInv, Placed, Places
  <2> QED
    BY <1>2, <2>1
<1>8. CASE DeleteThread
  <2>1. Same /\ Fewer /\ Moved
    BY <1>0, <1>8 DEF DeleteThread, Thread!Delete, MgrInv, Placed, Places
  <2> QED
    BY <1>2, <2>1
<1>9. CASE \E c \in Clients : NonBlockingThrows(c) \/ RemoteEndpointThrows(c)
  <2>1. Same /\ Fewer /\ Moved
    BY <1>0, <1>9 DEF NonBlockingThrows, RemoteEndpointThrows, MgrInv, Placed, Places, Scanned
  <2> QED
    BY <1>2, <2>1
<1>10. CASE \E c \in Clients : Accepted(c)
  <2>1. Same /\ Fewer /\ Moved
    BY <1>0, <1>10 DEF Accepted, MgrInv, Placed, Places, Scanned
  <2> QED
    BY <1>2, <2>1
<1> QED
  BY <1>1, <1>3, <1>4, <1>5, <1>6, <1>7, <1>8, <1>9, <1>10

\* Every step of the server keeps MgrInv.
LEMMA MgrStep == MgrInv /\ [Next]_vars => MgrInv'
<1> SUFFICES ASSUME MgrInv, [Next]_vars PROVE MgrInv'
  OBVIOUS
<1>1. CASE NetworkThreads
  BY <1>1, ThreadsMild, OthersKeep
<1>2. CASE LoadCount \/ SelectThread
  BY <1>2, LoadKeeps, SelectKeeps
<1>3. ASSUME NEW c \in Clients, OnSocketOpen(c) \/ AddSocket(c) PROVE MgrInv'
  BY <1>3, OpenKeeps, AddSocketKeeps
<1>4. ASSUME UNCHANGED threadVars, UNCHANGED mainVars, UNCHANGED accepting PROVE MgrInv'
  <2>1. /\ UNCHANGED <<state, reading, home, hand, connections>>
        /\ UNCHANGED <<pc, index, chosen, loaded, accepting>>
    BY <1>4 DEF threadVars, mainVars
  <2>2. Typed'
    BY <2>1 DEF MgrInv, Typed
  <2> QED
    BY <2>1, <2>2, Untouched, OthersKeep
<1>5. CASE \E c \in Clients : ClientArrives(c)
  BY <1>4, <1>5 DEF ClientArrives
<1>6. CASE UNCHANGED vars
  BY <1>4, <1>6 DEF vars, acceptorVars
<1> QED
  BY <1>1, <1>2, <1>3, <1>5, <1>6, OtherMainKeeps DEF Next, Accept, Shutdown

LEMMA MgrInit == Init => MgrInv
<1> SUFFICES ASSUME Init PROVE MgrInv
  OBVIOUS
<1> USE DEF Init, Thread!Init
<1>1. ThreadCount \in Nat /\ ThreadCount > 0 /\ 1 \in Threads
  BY MgrAssumption DEF Threads
<1>2. (CHOOSE t \in Threads : TRUE) \in Threads
  BY <1>1
<1>3. Typed /\ Constructed /\ Scanned /\ Loaded /\ Chosen /\ Placed
  BY <1>1, <1>2 DEF Typed, Constructed, Scanned, Loaded, Chosen, Placed, Places, Threads
<1>4. Opened = {} /\ \A t \in Threads : Added(t) = {} /\ connections[t] = 0
  BY DEF Opened, Added
<1>5. IsFiniteSet({}) /\ Cardinality({}) = 0
  BY FS_EmptySet
<1>6. (0 - 1) * ThreadCount < 0
  BY <1>1
<1>7. \A t \in Threads : connections[t] <= 0 /\ connections[t] - 1 = 0 - 1
  BY <1>4
<1>8. Counted
  BY <1>4, <1>5, <1>7 DEF Counted
<1>9. Balanced
  BY <1>4, <1>5, <1>6, <1>7 DEF Balanced
<1> QED
  BY <1>3, <1>4, <1>5, <1>8, <1>9 DEF MgrInv

\* Although SelectThreadWithMinConnections reads the counters one by one, and a
\* client comes long after, no thread ever has more than its share of the
\* sessions constructed, rounded up, for any number of threads and clients.
THEOREM BalancedCorrect == Spec => []Balanced
<1>1. MgrInv => Balanced
  BY DEF MgrInv
<1> QED
  BY <1>1, MgrInit, MgrStep, PTL DEF Spec

-----------------------------------------------------------------------------
(* The main thread uses the network threads as module NetworkThread says   *)
(* their owner does, so what is proved there holds in the server.          *)

LEMMA ThreadStep == MgrInv /\ [Next]_vars => [Thread!Next]_(Thread!vars)
<1> SUFFICES ASSUME MgrInv, [Next]_vars PROVE [Thread!Next]_(Thread!vars)
  OBVIOUS
<1>1. ASSUME NEW t \in Threads, Thread!OwnerNext(t) \/ Thread!ThreadNext(t) PROVE Thread!Next
  BY <1>1 DEF Thread!Next
<1>2. ASSUME UNCHANGED threadVars PROVE UNCHANGED Thread!vars
  BY <1>2 DEF threadVars, Thread!vars, Thread!sessionVars, Thread!listVars, Thread!stopVars,
              Thread!runVars
<1>3. CASE StartThread \/ Shutdown
  <2>1. index \in Threads
    BY <1>3 DEF MgrInv, Placed, StartThread, Shutdown, StopThread, WaitThread, DeleteThread
  <2>2. Thread!OwnerNext(index)
    BY <1>3 DEF StartThread, Shutdown, StopThread, WaitThread, DeleteThread, Thread!OwnerNext
  <2> QED
    BY <1>1, <2>1, <2>2
<1>4. ASSUME NEW c \in Clients, OnSocketOpen(c) \/ AddSocket(c) PROVE Thread!Next
  <2>1. accepting \in Threads
    BY <1>4 DEF MgrInv, Placed, Typed, OnSocketOpen, AddSocket, Thread!AddSocket
  <2>2. Thread!OwnerNext(accepting)
    BY <1>4 DEF OnSocketOpen, AddSocket, Thread!OwnerNext
  <2> QED
    BY <1>1, <2>1, <2>2
<1>5. CASE NetworkThreads
  BY <1>1, <1>5 DEF NetworkThreads, Thread!Next
<1>6. CASE \/ StartNetworkFails \/ StartNetwork \/ LoadCount \/ SelectThread \/ AsyncAccept \/ AcceptError
           \/ StopNetwork
  BY <1>2, <1>6 DEF StartNetworkFails, StartNetwork, LoadCount, SelectThread, AsyncAccept, AcceptError,
                    StopNetwork
<1>7. CASE \E c \in Clients : \/ NonBlockingThrows(c) \/ RemoteEndpointThrows(c) \/ Accepted(c)
                              \/ ClientArrives(c)
  BY <1>2, <1>7 DEF NonBlockingThrows, RemoteEndpointThrows, Accepted, ClientArrives
<1>8. CASE UNCHANGED vars
  BY <1>2, <1>8 DEF vars
<1> QED
  BY <1>3, <1>4, <1>5, <1>6, <1>7, <1>8 DEF Next, Accept

\* StartNetwork, the accept handlers and StopNetwork call the network threads
\* only as their owner may: every behaviour of the server is one of its threads.
THEOREM ThreadsCorrect == Spec => Thread!Spec
<1>1. Init => Thread!Init
  BY DEF Init
<1> QED
  BY <1>1, MgrInit, MgrStep, ThreadStep, PTL DEF Spec, Thread!Spec

Owned == INSTANCE NetworkThread_proofs WITH Sessions <- Clients

\* Owned is NetworkThread with its theorems.
LEMMA OwnedSame ==
    /\ Thread!Init => Owned!Init
    /\ [Thread!Next]_(Thread!vars) => [Owned!Next]_(Owned!vars)
<1> USE DEF Thread!sessionVars, Thread!listVars, Thread!stopVars, Thread!runVars,
            Owned!sessionVars, Owned!listVars, Owned!stopVars, Owned!runVars
<1>1. Thread!Init => Owned!Init
  BY DEF Thread!Init, Owned!Init
<1>2. ASSUME NEW t \in Threads, Thread!OwnerNext(t) PROVE Owned!OwnerNext(t)
  BY <1>2 DEF Thread!OwnerNext, Thread!Start, Thread!Open, Thread!AddSocket, Thread!Stop,
              Thread!StopIo, Thread!Wait, Thread!Delete,
              Owned!OwnerNext, Owned!Start, Owned!Open, Owned!AddSocket, Owned!Stop,
              Owned!StopIo, Owned!Wait, Owned!Delete
<1>3. ASSUME NEW t \in Threads, Thread!Update(t) PROVE Owned!Update(t)
  BY <1>3 DEF Thread!Update, Thread!AddNewSockets, Thread!AddOne, Thread!AddDone,
              Thread!UpdateOne, Thread!UpdateDone, Thread!IsOpen, Thread!RemoveAt,
              Owned!Update, Owned!AddNewSockets, Owned!AddOne, Owned!AddDone,
              Owned!UpdateOne, Owned!UpdateDone, Owned!IsOpen, Owned!RemoveAt
<1>4. ASSUME NEW t \in Threads, Thread!ThreadNext(t) PROVE Owned!ThreadNext(t)
  BY <1>3, <1>4 DEF Thread!ThreadNext, Thread!RunBegin, Thread!RunEnd, Thread!ReadHandler,
              Thread!WriteHandler, Thread!UpdateBegin, Thread!IsOpen, Thread!Dispatching,
              Thread!EndsHandler, Thread!HasWork,
              Owned!ThreadNext, Owned!RunBegin, Owned!RunEnd, Owned!ReadHandler,
              Owned!WriteHandler, Owned!UpdateBegin, Owned!IsOpen, Owned!Dispatching,
              Owned!EndsHandler, Owned!HasWork
<1>5. Thread!AnyoneNext => Owned!AnyoneNext
  BY DEF Thread!AnyoneNext, Thread!DelayedCloseSocket, Thread!IsOpen,
         Owned!AnyoneNext, Owned!DelayedCloseSocket, Owned!IsOpen
<1>6. Thread!Next => Owned!Next
  BY <1>2, <1>4, <1>5 DEF Thread!Next, Owned!Next
<1>7. UNCHANGED Thread!vars => UNCHANGED Owned!vars
  BY DEF Thread!vars, Owned!vars
<1> QED
  BY <1>1, <1>6, <1>7

\* In the server, with its acceptor and its way of stopping, the counters are
\* exact, no open session is lost, and none uses a destroyed io_context.
THEOREM SessionsCorrect ==
    Spec => [](Thread!CounterExact /\ Thread!OpenTracked /\ Thread!NoSessionOutlivesContext)
<1>0. Threads # {}
  BY MgrAssumption DEF Threads
<1>1. Thread!Spec => Owned!Spec
  BY OwnedSame, PTL DEF Thread!Spec, Owned!Spec
<1>2. Owned!Spec => []Owned!CounterExact
  BY <1>0, Owned!CounterCorrect, PTL
<1>3. Owned!Spec => []Owned!OpenTracked
  BY <1>0, Owned!OpenTrackedCorrect, PTL
<1>4. Owned!Spec => []Owned!NoSessionOutlivesContext
  BY <1>0, Owned!ReleaseCorrect, PTL
<1> USE DEF Owned!Live, Thread!Live, Owned!Contained, Thread!Contained, Owned!Range, Thread!Range
<1>5. Owned!CounterExact => Thread!CounterExact
  BY DEF Owned!CounterExact, Thread!CounterExact, Owned!Adopted, Thread!Adopted
<1>6. Owned!OpenTracked => Thread!OpenTracked
  BY DEF Owned!OpenTracked, Thread!OpenTracked, Owned!IsOpen, Thread!IsOpen
<1>7. Owned!NoSessionOutlivesContext => Thread!NoSessionOutlivesContext
  BY DEF Owned!NoSessionOutlivesContext, Thread!NoSessionOutlivesContext,
         Owned!Referenced, Thread!Referenced
<1> QED
  BY ThreadsCorrect, <1>1, <1>2, <1>3, <1>4, <1>5, <1>6, <1>7, PTL
=============================================================================
