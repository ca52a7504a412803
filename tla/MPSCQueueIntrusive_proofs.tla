---------------------- MODULE MPSCQueueIntrusive_proofs ----------------------
(***************************************************************************)
(* Proofs about MPSCQueueIntrusive, for any number of producers, elements  *)
(* and calls: an element that has come out is no longer known to the       *)
(* queue, the destructor leaves nothing behind, and every step is one of   *)
(* the abstract queue of module Fifo or leaves that queue alone.           *)
(***************************************************************************)
EXTENDS MPSCQueueIntrusive, SequenceTheorems, TLAPS

-----------------------------------------------------------------------------
(* The inductive invariant speaks of the sequence c of the elements from   *)
(* _tail to _head, which no variable of the code holds, and of the place k *)
(* of the dummy in it, 0 if the dummy is not there.                        *)

Typed ==
    /\ head \in Elements /\ tail \in Elements
    /\ link \in [Elements -> Elements \cup {Null}]
    /\ at \in [Threads -> {"idle", "clear", "exchange", "link"}]
    /\ input \in [Threads -> Elements \cup {Null}]
    /\ prevHead \in [Threads -> Elements \cup {Null}]
    /\ consumer \in {"idle", "skipped", "head", "enqueue"}
    /\ mode \in {"open", "destroying", "destroyed"}
    /\ order \in Seq(Items) /\ taken \in Seq(Items)

List(c, k) ==
    /\ c \in Seq(Elements) /\ Len(c) > 0
    /\ c[1] = tail /\ c[Len(c)] = head
    /\ \A i, j \in 1 .. Len(c) : c[i] = c[j] => i = j
    /\ k \in 0 .. Len(c)
    /\ \A i \in 1 .. Len(c) : (c[i] = Dummy) <=> (i = k)

\* The place in the history of the i-th element: the dummy has none.
Place(k, i) == Len(taken) + (IF 0 < k /\ k < i THEN i - 1 ELSE i)

Contents(c, k) ==
    /\ Len(order) = Len(taken) + (IF k = 0 THEN Len(c) ELSE Len(c) - 1)
    /\ \A i \in 1 .. Len(c) : i # k => c[i] = order[Place(k, i)]

\* An element leads to the one behind it, or else a thread is about to link them.
Linked(c) ==
    /\ link[c[Len(c)]] = Null
    /\ \A i \in 1 .. Len(c) - 1 :
          \/ link[c[i]] = c[i + 1]
          \/ link[c[i]] = Null /\ \E t \in Threads : at[t] = "link" /\ prevHead[t] = c[i]

Linking(c) ==
    /\ \A t \in Threads : at[t] = "link" =>
          \E i \in 1 .. Len(c) - 1 : prevHead[t] = c[i] /\ input[t] = c[i + 1] /\ link[c[i]] = Null
    /\ \A t \in Threads : at[t] # "link" => prevHead[t] = Null
    /\ \A t, u \in Threads : at[t] = "link" /\ at[u] = "link" /\ prevHead[t] = prevHead[u] => t = u

\* An element on its way in belongs to one thread.
Private(c) ==
    /\ \A t \in Threads : at[t] \in {"clear", "exchange"} =>
          /\ input[t] \in Elements
          /\ (input[t] = Dummy) <=> (t = Consumer)
          /\ \A i \in 1 .. Len(c) : c[i] # input[t]
          /\ at[t] = "exchange" => link[input[t]] = Null
    /\ \A t, u \in Threads :
          at[t] \in {"clear", "exchange"} /\ at[u] \in {"clear", "exchange"} /\ input[t] = input[u] => t = u

\* The consumer puts the dummy behind the last element when it is not in the list.
Dequeueing(c, k) ==
    /\ at[Consumer] # "idle" => consumer = "enqueue"
    /\ at[Consumer] \in {"clear", "exchange"} => k = 0
    /\ consumer # "idle" => tail # Dummy
    /\ consumer = "enqueue" /\ at[Consumer] \in {"idle", "link"} => Len(c) > 1

Closing(c, k) ==
    /\ mode # "open" => \A p \in Producers : at[p] = "idle"
    /\ mode # "open" /\ consumer = "head" => Len(c) = 1
    /\ mode = "destroyed" => consumer = "idle" /\ Len(c) = 1 /\ k = 1

\* What has come out is what went in first.
History ==
    /\ Len(taken) <= Len(order)
    /\ \A i \in 1 .. Len(taken) : taken[i] = order[i]

Shape(c, k) ==
    /\ List(c, k) /\ Contents(c, k) /\ Linked(c) /\ Linking(c) /\ Private(c)
    /\ Dequeueing(c, k) /\ Closing(c, k)

Inv == Typed /\ History /\ \E c \in Seq(Elements), k \in Nat : Shape(c, k)

\* Pointers, elements and threads are told apart.
Distinct == Null \notin Elements /\ Dummy \notin Items /\ Consumer \notin Producers

LEMMA AppendFacts ==
    ASSUME NEW S, NEW s \in Seq(S), NEW e \in S
    PROVE  /\ Append(s, e) \in Seq(S) /\ Len(Append(s, e)) = Len(s) + 1 /\ Len(s) \in Nat
           /\ \A i \in 1 .. Len(s) : Append(s, e)[i] = s[i]
           /\ Append(s, e)[Len(s) + 1] = e
OBVIOUS

LEMMA TailFacts ==
    ASSUME NEW S, NEW s \in Seq(S), s # <<>>
    PROVE  /\ Tail(s) \in Seq(S) /\ Len(s) \in Nat \ {0} /\ Len(Tail(s)) = Len(s) - 1
           /\ \A i \in 1 .. Len(s) - 1 : Tail(s)[i] = s[i + 1]
           /\ Head(s) \in S /\ Head(s) = s[1]
OBVIOUS

LEMMA TwoPlaces ==
    ASSUME NEW n \in Nat \ {0}, n # 1
    PROVE  1 \in 1 .. n - 1 /\ 1 + 1 \in 1 .. n /\ n > 1
OBVIOUS

\* The list: its length is a number, its elements are elements.
LEMMA ListFacts ==
    ASSUME NEW c, NEW k, List(c, k)
    PROVE  /\ c \in Seq(Elements) /\ Len(c) \in Nat \ {0} /\ k \in Nat /\ k <= Len(c)
           /\ \A i \in 1 .. Len(c) : c[i] \in Elements
           /\ c[1] = tail /\ c[Len(c)] = head
           /\ \A i, j \in 1 .. Len(c) : c[i] = c[j] => i = j
           /\ \A i \in 1 .. Len(c) : (c[i] = Dummy) <=> (i = k)
<1>1. c \in Seq(Elements) /\ Len(c) > 0 /\ Len(c) \in Nat
  BY DEF List
<1> QED
  BY <1>1 DEF List

\* Without the dummy, the list holds what is queued.
LEMMA ListIsQueued ==
    ASSUME Typed, NEW c, NEW k, Shape(c, k)
    PROVE  /\ \A i \in 1 .. Len(c) : c[i] # Dummy => c[i] \in ToSet(Queued)
           /\ \A y \in ToSet(Queued) : \E i \in 1 .. Len(c) : c[i] = y
<1>1. List(c, k) /\ Contents(c, k)
  BY DEF Shape
<1>2. /\ Len(c) \in Nat \ {0} /\ k \in Nat /\ k <= Len(c)
      /\ \A i \in 1 .. Len(c) : (c[i] = Dummy) <=> (i = k)
  BY <1>1, ListFacts
<1>3. PICK n \in Nat, m \in Nat, l \in Nat \ {0} : n = Len(taken) /\ m = Len(order) /\ l = Len(c)
  BY <1>2 DEF Typed
<1>4. m = n + (IF k = 0 THEN l ELSE l - 1)
  BY <1>1, <1>3 DEF Contents
<1>5. PICK q : q = Queued
  OBVIOUS
<1>6. q = SubSeq(order, n + 1, m) /\ order \in Seq(Items)
  BY <1>3, <1>5 DEF Queued, Typed
<1>7. q \in Seq(Items) /\ Len(q) = m - n /\ \A j \in 1 .. m - n : q[j] = order[n + j]
  <2>1. n <= m
    BY <1>2, <1>3, <1>4
  <2> QED
    BY <1>3, <1>6, <2>1
<1>8. DOMAIN q = 1 .. m - n
  BY <1>7
<1>9. ASSUME NEW i \in 1 .. Len(c), c[i] # Dummy
      PROVE  c[i] \in ToSet(Queued)
  <2>1. i # k
    BY <1>2, <1>9
  <2>2. PICK j : j = IF 0 < k /\ k < i THEN i - 1 ELSE i
    OBVIOUS
  <2>3. j \in 1 .. m - n
    BY <1>2, <1>3, <1>4, <2>1, <2>2
  <2>4. c[i] = order[n + j]
    BY <1>1, <1>3, <2>1, <2>2 DEF Contents, Place
  <2>5. c[i] = q[j] /\ j \in DOMAIN q
    BY <1>7, <1>8, <2>3, <2>4
  <2> QED
    BY <1>5, <2>5 DEF ToSet
<1>10. ASSUME NEW y \in ToSet(Queued)
       PROVE  \E i \in 1 .. Len(c) : c[i] = y
  <2>1. PICK j \in 1 .. m - n : y = q[j]
    BY <1>5, <1>8 DEF ToSet
  <2>2. PICK i : i = IF 0 < k /\ k <= j THEN j + 1 ELSE j
    OBVIOUS
  <2>3. i \in 1 .. l /\ i # k /\ j = IF 0 < k /\ k < i THEN i - 1 ELSE i
    BY <1>2, <1>3, <1>4, <2>2
  <2>4. c[i] = order[n + j]
    BY <1>1, <1>3, <2>3 DEF Contents, Place
  <2> QED
    BY <1>3, <1>7, <2>1, <2>3, <2>4
<1> QED
  BY <1>9, <1>10

-----------------------------------------------------------------------------
(* Enqueue                                                                 *)

\* A call with an element that nobody uses.
LEMMA CallShape ==
    ASSUME Distinct, Typed, NEW c, NEW k, Shape(c, k),
           NEW t \in Threads, NEW x \in Elements, Call(t, x),
           (x = Dummy) <=> (t = Consumer),
           \A i \in 1 .. Len(c) : c[i] # x,
           \A u \in Threads : at[u] \in {"clear", "exchange"} => input[u] # x,
           \/ t # Consumer /\ mode = "open" /\ consumer' = consumer
           \/ t = Consumer /\ consumer = "head" /\ consumer' = "enqueue" /\ k = 0
    PROVE  Typed' /\ Shape(c, k)'
<1>1. /\ at[t] = "idle" /\ at' = [at EXCEPT ![t] = "clear"] /\ input' = [input EXCEPT ![t] = x]
      /\ UNCHANGED <<head, tail, link, prevHead, mode, order, taken>>
  BY DEF Call
<1>2. /\ List(c, k) /\ Contents(c, k) /\ Linked(c) /\ Linking(c) /\ Private(c)
      /\ Dequeueing(c, k) /\ Closing(c, k)
  BY DEF Shape
<1>3. /\ \A u \in Threads : u # t => at'[u] = at[u] /\ input'[u] = input[u]
      /\ at'[t] = "clear" /\ input'[t] = x
  BY <1>1 DEF Typed
<1>4. consumer' \in {"idle", "skipped", "head", "enqueue"}
  BY DEF Typed
<1>5. Typed'
  BY <1>1, <1>4 DEF Typed
<1>6. List(c, k)' /\ Contents(c, k)'
  BY <1>1, <1>2 DEF List, Contents, Place
<1>7. \A u \in Threads : (at'[u] = "link") <=> (at[u] = "link")
  BY <1>1, <1>3
<1>8. Linked(c)'
  BY <1>1, <1>2, <1>7 DEF Linked
<1>9. Linking(c)'
  <2>1. \A u \in Threads : at[u] = "link" => u # t /\ input'[u] = input[u]
    BY <1>1, <1>3
  <2> QED
    BY <1>1, <1>2, <1>7, <2>1 DEF Linking
<1>10. Private(c)'
  <2>1. ASSUME NEW u \in Threads, at'[u] \in {"clear", "exchange"}
        PROVE  /\ input'[u] \in Elements
               /\ (input'[u] = Dummy) <=> (u = Consumer)
               /\ \A i \in 1 .. Len(c) : c[i] # input'[u]
               /\ at'[u] = "exchange" => link'[input'[u]] = Null
    <3>1. CASE u = t
      BY <1>3, <3>1
    <3>2. CASE u # t
      BY <1>1, <1>2, <1>3, <2>1, <3>2 DEF Private
    <3> QED
      BY <3>1, <3>2
  <2>2. ASSUME NEW u \in Threads, NEW w \in Threads,
               at'[u] \in {"clear", "exchange"}, at'[w] \in {"clear", "exchange"}, input'[u] = input'[w]
        PROVE  u = w
    BY <1>2, <1>3, <2>2 DEF Private
  <2> QED
    BY <2>1, <2>2 DEF Private
<1>11. Dequeueing(c, k)'
  <2>1. Consumer \in Threads
    BY DEF Threads
  <2>2. CASE t = Consumer
    BY <1>1, <1>2, <1>3, <2>2 DEF Dequeueing
  <2>3. CASE t # Consumer
    BY <1>1, <1>2, <1>3, <2>1, <2>3 DEF Dequeueing
  <2> QED
    BY <2>2, <2>3
<1>12. Closing(c, k)'
  <2>1. CASE t = Consumer
    <3>1. \A p \in Producers : at[p] = "idle" => at'[p] = "idle"
      BY <1>3, <2>1 DEF Threads, Distinct
    <3> QED
      BY <1>1, <1>2, <2>1, <3>1 DEF Closing
  <2>2. CASE t # Consumer
    BY <1>1, <2>2 DEF Closing
  <2> QED
    BY <2>1, <2>2
<1> QED
  BY <1>5, <1>6, <1>8, <1>9, <1>10, <1>11, <1>12 DEF Shape

LEMMA EnqueueShape ==
    ASSUME Distinct, Typed, NEW c, NEW k, Shape(c, k),
           NEW t \in Producers, NEW x \in Items, Enqueue(t, x)
    PROVE  Typed' /\ Shape(c, k)'
<1>1. mode = "open" /\ x \in Free /\ Call(t, x) /\ consumer' = consumer
  BY DEF Enqueue
<1>2. t \in Threads /\ t # Consumer /\ x \in Elements /\ x # Dummy
  BY DEF Threads, Elements, Distinct
<1>3. x \notin ToSet(Queued) /\ \A u \in Busy : input[u] # x
  BY <1>1 DEF Free
<1>4. \A i \in 1 .. Len(c) : c[i] # x
  BY <1>2, <1>3, ListIsQueued
<1>5. ASSUME NEW u \in Threads, at[u] \in {"clear", "exchange"}
      PROVE  input[u] # x
  <2>1. CASE u = Consumer
    BY <1>2, <1>5, <2>1 DEF Shape, Private
  <2>2. CASE u # Consumer
    BY <1>3, <1>5, <2>2 DEF Busy, Threads
  <2> QED
    BY <2>1, <2>2
<1> QED
  BY <1>1, <1>2, <1>4, <1>5, CallShape

\* The consumer's own call: the list holds one element, which is not the dummy.
LEMMA EnqueueDummyShape ==
    ASSUME Distinct, Typed, NEW c, NEW k, Shape(c, k), EnqueueDummy
    PROVE  Typed' /\ Shape(c, k)'
<1>1. consumer = "head" /\ head = tail /\ Call(Consumer, Dummy) /\ consumer' = "enqueue"
  BY DEF EnqueueDummy
<1>2. List(c, k) /\ Private(c) /\ Dequeueing(c, k)
  BY DEF Shape
<1>3. /\ Len(c) \in Nat \ {0} /\ k \in Nat /\ k <= Len(c) /\ c[1] = tail /\ c[Len(c)] = head
      /\ \A i, j \in 1 .. Len(c) : c[i] = c[j] => i = j
      /\ \A i \in 1 .. Len(c) : (c[i] = Dummy) <=> (i = k)
  BY <1>2, ListFacts
<1>4. Len(c) = 1 /\ c[1] # Dummy
  <2>1. 1 \in 1 .. Len(c) /\ Len(c) \in 1 .. Len(c)
    BY <1>3
  <2> QED
    BY <1>1, <1>2, <1>3, <2>1 DEF Dequeueing
<1>5. k = 0 /\ \A i \in 1 .. Len(c) : c[i] # Dummy
  BY <1>3, <1>4
<1>6. Consumer \in Threads /\ Dummy \in Elements /\ at[Consumer] = "idle"
  BY <1>1 DEF Threads, Elements, Call
<1>7. \A u \in Threads : at[u] \in {"clear", "exchange"} => input[u] # Dummy
  BY <1>2, <1>6 DEF Private
<1> QED
  BY <1>1, <1>5, <1>6, <1>7, CallShape

\* The link that is cleared belongs to no element of the list.
LEMMA ClearLinkShape ==
    ASSUME Distinct, Typed, NEW c, NEW k, Shape(c, k), NEW t \in Threads, ClearLink(t)
    PROVE  Typed' /\ Shape(c, k)'
<1>1. /\ at[t] = "clear" /\ link' = [link EXCEPT ![input[t]] = Null]
      /\ at' = [at EXCEPT ![t] = "exchange"]
      /\ UNCHANGED <<head, tail, input, prevHead, consumer, mode, order, taken>>
  BY DEF ClearLink
<1>2. /\ List(c, k) /\ Contents(c, k) /\ Linked(c) /\ Linking(c) /\ Private(c)
      /\ Dequeueing(c, k) /\ Closing(c, k)
  BY DEF Shape
<1>3. Len(c) \in Nat \ {0} /\ \A i \in 1 .. Len(c) : c[i] \in Elements
  BY <1>2, ListFacts
<1>4. input[t] \in Elements /\ \A i \in 1 .. Len(c) : c[i] # input[t]
  BY <1>1, <1>2 DEF Private
<1>5. /\ link'[input[t]] = Null
      /\ \A x \in Elements : x # input[t] => link'[x] = link[x]
  BY <1>1, <1>4 DEF Typed
<1>6. \A i \in 1 .. Len(c) : link'[c[i]] = link[c[i]]
  BY <1>3, <1>4, <1>5
<1>7. /\ \A u \in Threads : u # t => at'[u] = at[u]
      /\ at'[t] = "exchange"
  BY <1>1 DEF Typed
<1>8. \A u \in Threads : /\ (at'[u] = "link") <=> (at[u] = "link")
                         /\ (at'[u] \in {"clear", "exchange"}) <=> (at[u] \in {"clear", "exchange"})
  BY <1>1, <1>7
<1>9. Typed'
  BY <1>1, <1>4 DEF Typed
<1>10. List(c, k)' /\ Contents(c, k)'
  BY <1>1, <1>2 DEF List, Contents, Place
<1>11. Linked(c)'
  <2>1. link'[c[Len(c)]] = Null
    BY <1>2, <1>3, <1>6 DEF Linked
  <2>2. ASSUME NEW i \in 1 .. Len(c) - 1
        PROVE  \/ link'[c[i]] = c[i + 1]
               \/ link'[c[i]] = Null /\ \E u \in Threads : at'[u] = "link" /\ prevHead'[u] = c[i]
    <3>1. link'[c[i]] = link[c[i]]
      BY <1>3, <1>6
    <3> QED
      BY <1>1, <1>2, <1>8, <3>1 DEF Linked
  <2> QED
    BY <2>1, <2>2 DEF Linked
<1>12. Linking(c)'
  <2>1. \A i \in 1 .. Len(c) - 1 : link'[c[i]] = link[c[i]]
    BY <1>3, <1>6
  <2> QED
    BY <1>1, <1>2, <1>8, <2>1 DEF Linking
<1>13. Private(c)'
  <2>1. ASSUME NEW u \in Threads, at'[u] = "exchange"
        PROVE  link'[input'[u]] = Null
    <3>1. CASE u = t
      BY <1>1, <1>5, <3>1
    <3>2. CASE u # t
      BY <1>1, <1>2, <1>5, <1>7, <2>1, <3>2 DEF Private
    <3> QED
      BY <3>1, <3>2
  <2> QED
    BY <1>1, <1>2, <1>8, <2>1 DEF Private
<1>14. Dequeueing(c, k)'
  <2>1. Consumer \in Threads
    BY DEF Threads
  <2>2. CASE t = Consumer
    BY <1>1, <1>2, <1>7, <2>2 DEF Dequeueing
  <2>3. CASE t # Consumer
    BY <1>1, <1>2, <1>7, <2>1, <2>3 DEF Dequeueing
  <2> QED
    BY <2>2, <2>3
<1>15. Closing(c, k)'
  <2>1. \A p \in Producers : at[p] = "idle" => at'[p] = "idle"
    BY <1>1, <1>7 DEF Threads
  <2> QED
    BY <1>1, <1>2, <2>1 DEF Closing
<1> QED
  BY <1>9, <1>10, <1>11, <1>12, <1>13, <1>14, <1>15 DEF Shape

\* The exchange puts the element at the end of the list.
LEMMA ExchangeShape ==
    ASSUME Distinct, Typed, History, NEW c, NEW k, Shape(c, k), NEW t \in Threads, Exchange(t),
           NEW d, d = Append(c, input[t]), NEW h, h = IF input[t] = Dummy THEN Len(c) + 1 ELSE k
    PROVE  /\ Typed' /\ History' /\ input[t] \in Elements
           /\ d \in Seq(Elements) /\ h \in Nat /\ Shape(d, h)'
<1>1. /\ at[t] = "exchange" /\ prevHead' = [prevHead EXCEPT ![t] = head] /\ head' = input[t]
      /\ order' = IF input[t] = Dummy THEN order ELSE Append(order, input[t])
      /\ at' = [at EXCEPT ![t] = "link"]
      /\ UNCHANGED <<tail, link, input, consumer, mode, taken>>
  BY DEF Exchange
<1>2. /\ List(c, k) /\ Contents(c, k) /\ Linked(c) /\ Linking(c) /\ Private(c)
      /\ Dequeueing(c, k) /\ Closing(c, k)
  BY DEF Shape
<1>3. /\ c \in Seq(Elements) /\ Len(c) \in Nat \ {0} /\ k \in Nat /\ k <= Len(c)
      /\ \A i \in 1 .. Len(c) : c[i] \in Elements
      /\ c[1] = tail /\ c[Len(c)] = head
      /\ \A i, j \in 1 .. Len(c) : c[i] = c[j] => i = j
      /\ \A i \in 1 .. Len(c) : (c[i] = Dummy) <=> (i = k)
  BY <1>2, ListFacts
<1>4. /\ input[t] \in Elements /\ link[input[t]] = Null
      /\ (input[t] = Dummy) <=> (t = Consumer)
      /\ \A i \in 1 .. Len(c) : c[i] # input[t]
  BY <1>1, <1>2 DEF Private
<1>5. /\ d \in Seq(Elements) /\ Len(d) = Len(c) + 1 /\ d[Len(c) + 1] = input[t]
      /\ \A i \in 1 .. Len(c) : d[i] = c[i]
  BY <1>3, <1>4, AppendFacts
<1>6. \A i \in 1 .. Len(d) : i \in 1 .. Len(c) \/ i = Len(c) + 1
  BY <1>3, <1>5
<1>7. input[t] = Dummy => k = 0
  BY <1>1, <1>2, <1>4 DEF Dequeueing
<1>8. h \in Nat /\ h <= Len(c) + 1
  BY <1>3
<1>9. input[t] # Dummy => input[t] \in Items
  BY <1>4 DEF Elements
<1>10. PICK n \in Nat, m \in Nat, l \in Nat \ {0} : n = Len(taken) /\ m = Len(order) /\ l = Len(c)
  BY <1>3 DEF Typed
<1>11. taken' = taken /\ Len(taken') = n /\ n <= m /\ order \in Seq(Items)
  BY <1>1, <1>10 DEF Typed, History
<1>12. /\ order' \in Seq(Items) /\ \A i \in 1 .. m : order'[i] = order[i]
       /\ input[t] = Dummy => order' = order
       /\ input[t] # Dummy => Len(order') = m + 1 /\ order'[m + 1] = input[t]
  <2>1. CASE input[t] = Dummy
    BY <1>1, <1>11, <2>1
  <2>2. CASE input[t] # Dummy
    <3>1. order' = Append(order, input[t]) /\ input[t] \in Items
      BY <1>1, <1>9, <2>2
    <3> QED
      BY <1>10, <1>11, <2>2, <3>1, AppendFacts
  <2> QED
    BY <2>1, <2>2
<1>13. Typed'
  BY <1>1, <1>3, <1>4, <1>12 DEF Typed
<1>14. History'
  <2>1. Len(order') >= m
    BY <1>10, <1>12
  <2> QED
    BY <1>10, <1>11, <1>12, <2>1 DEF History
<1>15. /\ \A u \in Threads : u # t => at'[u] = at[u] /\ prevHead'[u] = prevHead[u]
       /\ at'[t] = "link" /\ prevHead'[t] = head
  BY <1>1 DEF Typed
<1>16. List(d, h)'
  <2>1. \A i, j \in 1 .. Len(d) : d[i] = d[j] => i = j
    BY <1>3, <1>4, <1>5, <1>6
  <2>2. d[1] = tail' /\ d[Len(d)] = head' /\ Len(d) > 0
    BY <1>1, <1>3, <1>5
  <2>3. h \in 0 .. Len(d)
    BY <1>3, <1>5, <1>8
  <2>4. ASSUME NEW i \in 1 .. Len(d)
        PROVE  (d[i] = Dummy) <=> (i = h)
    <3>1. CASE input[t] = Dummy
      <4>1. h = Len(c) + 1
        BY <3>1
      <4>2. CASE i = Len(c) + 1
        BY <1>5, <3>1, <4>1, <4>2
      <4>3. CASE i \in 1 .. Len(c)
        BY <1>3, <1>4, <1>5, <3>1, <4>1, <4>3
      <4> QED
        BY <1>6, <4>2, <4>3
    <3>2. CASE input[t] # Dummy
      <4>1. h = k
        BY <3>2
      <4>2. CASE i = Len(c) + 1
        BY <1>3, <1>5, <3>2, <4>1, <4>2
      <4>3. CASE i \in 1 .. Len(c)
        BY <1>3, <1>5, <4>1, <4>3
      <4> QED
        BY <1>6, <4>2, <4>3
    <3> QED
      BY <3>1, <3>2
  <2> QED
    BY <1>5, <2>1, <2>2, <2>3, <2>4 DEF List
<1>17. Contents(d, h)'
  <2>1. m = n + (IF k = 0 THEN l ELSE l - 1)
    BY <1>2, <1>10 DEF Contents
  <2>2. ASSUME NEW i \in 1 .. l, i # k
        PROVE  /\ c[i] = order[n + (IF 0 < k /\ k < i THEN i - 1 ELSE i)]
               /\ n + (IF 0 < k /\ k < i THEN i - 1 ELSE i) \in 1 .. m
    <3>1. c[i] = order[n + (IF 0 < k /\ k < i THEN i - 1 ELSE i)]
      BY <1>2, <1>10, <2>2 DEF Contents, Place
    <3> QED
      BY <1>3, <1>10, <2>1, <2>2, <3>1
  <2>3. CASE input[t] = Dummy
    <3>1. k = 0 /\ h = l + 1 /\ order' = order /\ Len(order') = m /\ Len(d) = l + 1
      BY <1>5, <1>7, <1>10, <1>12, <2>3
    <3>2. Len(order') = Len(taken') + (IF h = 0 THEN Len(d) ELSE Len(d) - 1)
      BY <1>10, <1>11, <2>1, <3>1
    <3>3. ASSUME NEW i \in 1 .. Len(d), i # h
          PROVE  d[i] = order'[Len(taken') + (IF 0 < h /\ h < i THEN i - 1 ELSE i)]
      <4>1. i \in 1 .. l /\ ~(h < i) /\ d[i] = c[i] /\ i # k
        BY <1>5, <1>10, <3>1, <3>3
      <4>2. c[i] = order[n + i]
        BY <1>10, <2>2, <3>1, <4>1
      <4> QED
        BY <1>11, <3>1, <4>1, <4>2
    <3> QED
      BY <3>2, <3>3 DEF Contents, Place
  <2>4. CASE input[t] # Dummy
    <3>1. h = k /\ Len(order') = m + 1 /\ order'[m + 1] = input[t] /\ Len(d) = l + 1
      BY <1>5, <1>10, <1>12, <2>4
    <3>2. Len(order') = Len(taken') + (IF h = 0 THEN Len(d) ELSE Len(d) - 1)
      BY <1>10, <1>11, <2>1, <3>1
    <3>3. ASSUME NEW i \in 1 .. Len(d), i # h
          PROVE  d[i] = order'[Len(taken') + (IF 0 < h /\ h < i THEN i - 1 ELSE i)]
      <4>1. CASE i = l + 1
        <5>1. n + (IF 0 < k /\ k < i THEN i - 1 ELSE i) = m + 1
          BY <1>3, <1>10, <2>1, <4>1
        <5> QED
          BY <1>5, <1>10, <1>11, <3>1, <4>1, <5>1
      <4>2. CASE i # l + 1
        <5>1. i \in 1 .. l /\ d[i] = c[i] /\ i # k
          BY <1>5, <1>10, <3>1, <3>3, <4>2
        <5>2. PICK j : j = n + (IF 0 < k /\ k < i THEN i - 1 ELSE i)
          OBVIOUS
        <5>3. c[i] = order[j] /\ j \in 1 .. m
          BY <2>2, <5>1, <5>2
        <5>4. order'[j] = order[j]
          BY <1>12, <5>3
        <5> QED
          BY <1>11, <3>1, <5>1, <5>2, <5>3, <5>4
      <4> QED
        BY <4>1, <4>2
    <3> QED
      BY <3>2, <3>3 DEF Contents, Place
  <2> QED
    BY <2>3, <2>4
<1>18. Linked(d)'
  <2>1. link'[d[Len(d)]] = Null
    BY <1>1, <1>3, <1>4, <1>5
  <2>2. ASSUME NEW i \in 1 .. Len(d) - 1
        PROVE  \/ link'[d[i]] = d[i + 1]
               \/ link'[d[i]] = Null /\ \E u \in Threads : at'[u] = "link" /\ prevHead'[u] = d[i]
    <3>1. CASE i = Len(c)
      <4>1. d[i] = head /\ link[head] = Null
        BY <1>2, <1>3, <1>5, <3>1 DEF Linked
      <4> QED
        BY <1>1, <1>15, <4>1
    <3>2. CASE i # Len(c)
      <4>1. i \in 1 .. Len(c) - 1 /\ d[i] = c[i] /\ d[i + 1] = c[i + 1]
        BY <1>3, <1>5, <3>2
      <4>2. \A u \in Threads : at[u] = "link" => at'[u] = "link" /\ prevHead'[u] = prevHead[u]
        BY <1>1, <1>15
      <4> QED
        BY <1>1, <1>2, <4>1, <4>2 DEF Linked
    <3> QED
      BY <3>1, <3>2
  <2> QED
    BY <2>1, <2>2 DEF Linked
<1>19. Linking(d)'
  <2>1. ASSUME NEW u \in Threads, u # t, at'[u] = "link"
        PROVE  \E i \in 1 .. Len(c) - 1 : prevHead'[u] = c[i] /\ input'[u] = c[i + 1] /\ link[c[i]] = Null
    BY <1>1, <1>2, <1>15, <2>1 DEF Linking
  <2>2. ASSUME NEW u \in Threads, at'[u] = "link"
        PROVE  \E i \in 1 .. Len(d) - 1 : prevHead'[u] = d[i] /\ input'[u] = d[i + 1] /\ link'[d[i]] = Null
    <3>1. CASE u = t
      <4>1. Len(c) \in 1 .. Len(d) - 1 /\ d[Len(c)] = head /\ d[Len(c) + 1] = input[t] /\ link[head] = Null
        BY <1>2, <1>3, <1>5 DEF Linked
      <4> QED
        BY <1>1, <1>15, <3>1, <4>1
    <3>2. CASE u # t
      <4>1. PICK i \in 1 .. Len(c) - 1 : prevHead'[u] = c[i] /\ input'[u] = c[i + 1] /\ link[c[i]] = Null
        BY <2>1, <2>2, <3>2
      <4>2. i \in 1 .. Len(d) - 1 /\ d[i] = c[i] /\ d[i + 1] = c[i + 1]
        BY <1>3, <1>5
      <4> QED
        BY <1>1, <4>1, <4>2
    <3> QED
      BY <3>1, <3>2
  <2>3. ASSUME NEW u \in Threads, u # t, at'[u] = "link"
        PROVE  prevHead'[u] # prevHead'[t]
    <3>1. PICK i \in 1 .. Len(c) - 1 : prevHead'[u] = c[i]
      BY <2>1, <2>3
    <3>2. c[i] # c[Len(c)]
      BY <1>3
    <3> QED
      BY <1>3, <1>15, <3>1, <3>2
  <2>4. ASSUME NEW u \in Threads, NEW w \in Threads, at'[u] = "link", at'[w] = "link",
               prevHead'[u] = prevHead'[w]
        PROVE  u = w
    BY <1>2, <1>15, <2>3, <2>4 DEF Linking
  <2>5. \A u \in Threads : at'[u] # "link" => prevHead'[u] = Null
    BY <1>2, <1>15 DEF Linking
  <2> QED
    BY <2>2, <2>4, <2>5 DEF Linking
<1>20. Private(d)'
  <2>1. \A u \in Threads : at'[u] \in {"clear", "exchange"} => u # t /\ at'[u] = at[u]
    BY <1>15
  <2>2. ASSUME NEW u \in Threads, at'[u] \in {"clear", "exchange"}
        PROVE  \A i \in 1 .. Len(d) : d[i] # input[u]
    <3>1. input[u] # input[t]
      BY <1>1, <1>2, <2>1, <2>2 DEF Private
    <3> QED
      BY <1>2, <1>5, <1>6, <2>1, <2>2, <3>1 DEF Private
  <2> QED
    BY <1>1, <1>2, <2>1, <2>2 DEF Private
<1>21. Dequeueing(d, h)'
  <2>1. Consumer \in Threads
    BY DEF Threads
  <2>2. Len(d) > 1
    BY <1>3, <1>5
  <2>3. CASE t = Consumer
    BY <1>1, <1>2, <1>15, <2>2, <2>3 DEF Dequeueing
  <2>4. CASE t # Consumer
    <3>1. h = k /\ at'[Consumer] = at[Consumer]
      BY <1>4, <1>15, <2>1, <2>4
    <3> QED
      BY <1>1, <1>2, <2>2, <3>1 DEF Dequeueing
  <2> QED
    BY <2>3, <2>4
<1>22. Closing(d, h)'
  <2>1. t # Consumer => mode = "open"
    BY <1>1, <1>2 DEF Closing, Threads
  <2>2. t = Consumer => consumer = "enqueue" /\ \A p \in Producers : p # t
    BY <1>1, <1>2 DEF Dequeueing, Distinct
  <2>3. \A p \in Producers : p # t => at'[p] = at[p]
    BY <1>15 DEF Threads
  <2> QED
    BY <1>1, <1>2, <2>1, <2>2, <2>3 DEF Closing
<1> QED
  BY <1>4, <1>5, <1>8, <1>13, <1>14, <1>16, <1>17, <1>18, <1>19, <1>20, <1>21, <1>22 DEF Shape

\* The link is stored: the list is what it was.
LEMMA LinkShape ==
    ASSUME Distinct, Typed, NEW c, NEW k, Shape(c, k), NEW t \in Threads, Link(t)
    PROVE  Typed' /\ Shape(c, k)'
<1>1. /\ at[t] = "link" /\ link' = [link EXCEPT ![prevHead[t]] = input[t]]
      /\ at' = [at EXCEPT ![t] = "idle"] /\ input' = [input EXCEPT ![t] = Null]
      /\ prevHead' = [prevHead EXCEPT ![t] = Null]
      /\ UNCHANGED <<head, tail, consumer, mode, order, taken>>
  BY DEF Link
<1>2. /\ List(c, k) /\ Contents(c, k) /\ Linked(c) /\ Linking(c) /\ Private(c)
      /\ Dequeueing(c, k) /\ Closing(c, k)
  BY DEF Shape
<1>3. /\ Len(c) \in Nat \ {0}
      /\ \A i \in 1 .. Len(c) : c[i] \in Elements
      /\ \A i, j \in 1 .. Len(c) : c[i] = c[j] => i = j
  BY <1>2, ListFacts
<1>4. PICK b \in 1 .. Len(c) - 1 : prevHead[t] = c[b] /\ input[t] = c[b + 1] /\ link[c[b]] = Null
  BY <1>1, <1>2 DEF Linking
<1>5. b \in 1 .. Len(c) /\ b + 1 \in 1 .. Len(c) /\ c[b] \in Elements /\ c[b + 1] \in Elements
  BY <1>3
<1>6. /\ link'[c[b]] = c[b + 1]
      /\ \A x \in Elements : x # c[b] => link'[x] = link[x]
  BY <1>1, <1>4, <1>5 DEF Typed
<1>7. Typed'
  BY <1>1, <1>4, <1>5 DEF Typed
<1>8. /\ \A u \in Threads : u # t => at'[u] = at[u] /\ input'[u] = input[u] /\ prevHead'[u] = prevHead[u]
      /\ at'[t] = "idle" /\ prevHead'[t] = Null
  BY <1>1 DEF Typed
<1>9. List(c, k)' /\ Contents(c, k)'
  BY <1>1, <1>2 DEF List, Contents, Place
<1>10. Linked(c)'
  <2>1. link'[c[Len(c)]] = Null
    <3>1. c[Len(c)] # c[b] /\ c[Len(c)] \in Elements
      BY <1>3, <1>5
    <3> QED
      BY <1>2, <1>6, <3>1 DEF Linked
  <2>2. ASSUME NEW i \in 1 .. Len(c) - 1
        PROVE  \/ link'[c[i]] = c[i + 1]
               \/ link'[c[i]] = Null /\ \E u \in Threads : at'[u] = "link" /\ prevHead'[u] = c[i]
    <3>1. CASE i = b
      BY <1>6, <3>1
    <3>2. CASE i # b
      <4>1. c[i] # c[b] /\ c[i] \in Elements
        BY <1>3, <1>5, <3>2
      <4>2. link'[c[i]] = link[c[i]]
        BY <1>6, <4>1
      <4>3. \A u \in Threads : at[u] = "link" /\ prevHead[u] = c[i] =>
               at'[u] = "link" /\ prevHead'[u] = c[i]
        BY <1>4, <1>8, <4>1
      <4> QED
        BY <1>2, <4>2, <4>3 DEF Linked
    <3> QED
      BY <3>1, <3>2
  <2> QED
    BY <2>1, <2>2 DEF Linked
<1>11. Linking(c)'
  <2>1. \A u \in Threads : at'[u] = "link" =>
           at[u] = "link" /\ u # t /\ input'[u] = input[u] /\ prevHead'[u] = prevHead[u]
    BY <1>8
  <2>2. ASSUME NEW u \in Threads, at'[u] = "link"
        PROVE  \E i \in 1 .. Len(c) - 1 : prevHead'[u] = c[i] /\ input'[u] = c[i + 1] /\ link'[c[i]] = Null
    <3>1. PICK i \in 1 .. Len(c) - 1 : prevHead[u] = c[i] /\ input[u] = c[i + 1] /\ link[c[i]] = Null
      BY <1>2, <2>1, <2>2 DEF Linking
    <3>2. c[i] # c[b] /\ c[i] \in Elements
      BY <1>1, <1>2, <1>3, <1>4, <2>1, <2>2, <3>1 DEF Linking
    <3> QED
      BY <1>6, <2>1, <2>2, <3>1, <3>2
  <2>3. \A u \in Threads : at'[u] # "link" => prevHead'[u] = Null
    BY <1>2, <1>8 DEF Linking
  <2> QED
    BY <1>2, <2>1, <2>2, <2>3 DEF Linking
<1>12. Private(c)'
  <2>1. \A u \in Threads : at'[u] \in {"clear", "exchange"} =>
           u # t /\ at'[u] = at[u] /\ input'[u] = input[u]
    BY <1>8
  <2>2. ASSUME NEW u \in Threads, at'[u] = "exchange"
        PROVE  link'[input'[u]] = Null
    <3>1. input[u] \in Elements /\ input[u] # c[b] /\ link[input[u]] = Null
      BY <1>2, <1>5, <2>1, <2>2 DEF Private
    <3> QED
      BY <1>6, <2>1, <2>2, <3>1
  <2> QED
    BY <1>2, <2>1, <2>2 DEF Private
<1>13. Dequeueing(c, k)'
  <2>1. Consumer \in Threads
    BY DEF Threads
  <2>2. CASE t = Consumer
    BY <1>1, <1>2, <1>8, <2>2 DEF Dequeueing
  <2>3. CASE t # Consumer
    BY <1>1, <1>2, <1>8, <2>1, <2>3 DEF Dequeueing
  <2> QED
    BY <2>2, <2>3
<1>14. Closing(c, k)'
  <2>1. \A p \in Producers : at[p] = "idle" => at'[p] = "idle"
    BY <1>8 DEF Threads
  <2> QED
    BY <1>1, <1>2, <2>1 DEF Closing
<1> QED
  BY <1>7, <1>9, <1>10, <1>11, <1>12, <1>13, <1>14 DEF Shape

-----------------------------------------------------------------------------
(* Dequeue and the destructor                                              *)

\* Where a thread is inside Dequeue changes, or the destructor begins.
LEMMA SeeShape ==
    ASSUME Distinct, Typed, NEW c, NEW k, Shape(c, k), SeeNoNext \/ Destroy
    PROVE  Typed' /\ Shape(c, k)'
<1>1. /\ List(c, k) /\ Contents(c, k) /\ Linked(c) /\ Linking(c) /\ Private(c)
      /\ Dequeueing(c, k) /\ Closing(c, k)
  BY DEF Shape
<1>2. /\ consumer \in {"idle", "skipped"} /\ mode # "destroyed"
      /\ UNCHANGED <<head, tail, link, at, input, prevHead, order, taken>>
      /\ \/ consumer' = "head" /\ UNCHANGED mode /\ tail # Dummy /\ link[tail] = Null
         \/ /\ UNCHANGED consumer /\ consumer = "idle" /\ mode' = "destroying" /\ Busy = {}
  BY DEF SeeNoNext, AtElement, Destroy, enqueue
<1>3. Typed' /\ List(c, k)' /\ Contents(c, k)' /\ Linked(c)' /\ Linking(c)' /\ Private(c)'
  BY <1>1, <1>2 DEF Typed, List, Contents, Place, Linked, Linking, Private
<1>4. Dequeueing(c, k)'
  BY <1>1, <1>2 DEF Dequeueing
<1>5. Closing(c, k)'
  <2>1. Busy = {} => \A p \in Producers : at[p] = "idle"
    BY DEF Busy
  <2>2. ASSUME mode # "open", consumer' = "head", link[tail] = Null
        PROVE  Len(c) = 1
    <3>1. \A t \in Threads : at[t] # "link"
      BY <1>1, <1>2, <2>2 DEF Closing, Dequeueing, Threads
    <3>2. /\ Len(c) \in Nat \ {0} /\ \A i \in 1 .. Len(c) : c[i] \in Elements
          /\ c[1] = tail
      BY <1>1, ListFacts
    <3>3. CASE Len(c) # 1
      <4>1. 1 \in 1 .. Len(c) - 1 /\ 1 + 1 \in 1 .. Len(c)
        BY <3>2, <3>3, TwoPlaces
      <4>2. link[c[1]] = c[1 + 1]
        BY <1>1, <3>1, <4>1 DEF Linked
      <4> QED
        BY <2>2, <3>2, <4>1, <4>2 DEF Distinct
    <3> QED
      BY <3>3
  <2> QED
    BY <1>1, <1>2, <2>1, <2>2 DEF Closing
<1> QED
  BY <1>3, <1>4, <1>5 DEF Shape

\* Dequeue returns false: in the destructor only with the dummy alone.
LEMMA ReturnFalseShape ==
    ASSUME Distinct, Typed, NEW c, NEW k, Shape(c, k), DequeueEmpty \/ LoadHeadOther \/ TakeLastFails
    PROVE  Typed' /\ Shape(c, k)'
<1>1. /\ List(c, k) /\ Contents(c, k) /\ Linked(c) /\ Linking(c) /\ Private(c)
      /\ Dequeueing(c, k) /\ Closing(c, k)
  BY DEF Shape
<1>2. /\ consumer' = "idle" /\ mode' = IF mode = "destroying" THEN "destroyed" ELSE mode
      /\ UNCHANGED <<head, tail, link, at, input, prevHead, order, taken>>
  BY DEF DequeueEmpty, LoadHeadOther, TakeLastFails, ReturnFalse, enqueue
<1>3. at[Consumer] = "idle"
  BY <1>1 DEF DequeueEmpty, LoadHeadOther, TakeLastFails, Dequeueing
<1>4. /\ Len(c) \in Nat \ {0} /\ \A i \in 1 .. Len(c) : c[i] \in Elements
      /\ c[1] = tail /\ c[Len(c)] = head
      /\ \A i \in 1 .. Len(c) : (c[i] = Dummy) <=> (i = k)
  BY <1>1, ListFacts
<1>5. Typed' /\ List(c, k)' /\ Contents(c, k)' /\ Linked(c)' /\ Linking(c)' /\ Private(c)'
  BY <1>1, <1>2 DEF Typed, List, Contents, Place, Linked, Linking, Private
<1>6. Dequeueing(c, k)'
  BY <1>1, <1>2, <1>3 DEF Dequeueing
<1>7. ASSUME mode # "open"
      PROVE  Len(c) = 1 /\ k = 1
  <2>1. \A t \in Threads : at[t] # "link"
    BY <1>1, <1>3, <1>7 DEF Closing, Threads
  <2>2. ASSUME Len(c) # 1, link[tail] = Null
        PROVE  FALSE
    <3>1. 1 \in 1 .. Len(c) - 1 /\ 1 + 1 \in 1 .. Len(c)
      BY <1>4, <2>2, TwoPlaces
    <3>2. link[c[1]] = c[1 + 1]
      BY <1>1, <2>1, <3>1 DEF Linked
    <3> QED
      BY <1>4, <2>2, <3>1, <3>2 DEF Distinct
  <2>3. CASE DequeueEmpty
    BY <1>4, <2>2, <2>3 DEF DequeueEmpty
  <2>4. CASE LoadHeadOther
    <3>1. Len(c) = 1
      BY <1>1, <1>7, <2>4 DEF LoadHeadOther, Closing
    <3> QED
      BY <1>4, <2>4, <3>1 DEF LoadHeadOther
  <2>5. CASE TakeLastFails
    <3>1. Len(c) > 1 /\ link[tail] = Null
      BY <1>1, <2>5 DEF TakeLastFails, Dequeueing
    <3> QED
      BY <1>4, <2>2, <3>1
  <2> QED
    BY <2>3, <2>4, <2>5
<1>8. Closing(c, k)'
  BY <1>1, <1>2, <1>7 DEF Closing
<1> QED
  BY <1>5, <1>6, <1>8 DEF Shape

\* _tail moves to the next element, and d is what the list is then.
Advance ==
    /\ link[tail] # Null /\ tail' = link[tail]
    /\ UNCHANGED <<head, link, at, input, prevHead, order>>

Advanced(c, d) ==
    /\ d \in Seq(Elements) /\ Len(c) > 1 /\ Len(d) = Len(c) - 1
    /\ \A i \in 1 .. Len(d) : i + 1 \in 1 .. Len(c) /\ d[i] = c[i + 1]
    /\ d[1] = tail' /\ d[Len(d)] = head' /\ tail' \in Elements
    /\ \A i, j \in 1 .. Len(d) : d[i] = d[j] => i = j
    /\ Linked(d)' /\ Linking(d)' /\ Private(d)'

\* The first element leaves the list: nobody is about to store its link.
LEMMA AdvanceShape ==
    ASSUME Distinct, Typed, NEW c, NEW k, Shape(c, k), Advance, NEW d, d = Tail(c)
    PROVE  Advanced(c, d)
<1> USE DEF Advance
<1>1. /\ List(c, k) /\ Linked(c) /\ Linking(c) /\ Private(c)
  BY DEF Shape
<1>2. /\ c \in Seq(Elements) /\ Len(c) \in Nat \ {0} /\ c[1] = tail /\ c[Len(c)] = head
      /\ \A i \in 1 .. Len(c) : c[i] \in Elements
      /\ \A i, j \in 1 .. Len(c) : c[i] = c[j] => i = j
  BY <1>1, ListFacts
<1>3. Len(c) > 1 /\ link[c[1]] = c[2] /\ link[c[1]] # Null
  <2>1. Len(c) # 1
    BY <1>1, <1>2 DEF Linked
  <2>2. 1 \in 1 .. Len(c) - 1 /\ Len(c) > 1
    BY <1>2, <2>1, TwoPlaces
  <2>3. link[c[1]] = c[1 + 1] /\ link[c[1]] # Null
    BY <1>1, <1>2, <2>2 DEF Linked
  <2> QED
    BY <2>2, <2>3
<1>4. c # <<>>
  BY <1>2
<1>5. /\ d \in Seq(Elements) /\ Len(d) = Len(c) - 1
      /\ \A i \in 1 .. Len(c) - 1 : d[i] = c[i + 1]
  BY <1>2, <1>4, TailFacts
<1>6. \A i \in 1 .. Len(d) : i + 1 \in 1 .. Len(c) /\ i + 1 # 1 /\ d[i] = c[i + 1]
  BY <1>2, <1>5
<1>7. \A i, j \in 1 .. Len(d) : d[i] = d[j] => i = j
  <2> TAKE i, j \in 1 .. Len(d)
  <2> HAVE d[i] = d[j]
  <2>1. i + 1 = j + 1
    BY <1>2, <1>6
  <2> QED
    BY <2>1
<1>8. tail' = c[2] /\ c[2] \in Elements /\ d[1] = c[2] /\ d[Len(d)] = head
  BY <1>2, <1>3, <1>5
<1>9. Linked(d)'
  <2>1. link'[d[Len(d)]] = Null
    BY <1>1, <1>2, <1>8 DEF Linked
  <2>2. ASSUME NEW i \in 1 .. Len(d) - 1
        PROVE  \/ link'[d[i]] = d[i + 1]
               \/ link'[d[i]] = Null /\ \E t \in Threads : at'[t] = "link" /\ prevHead'[t] = d[i]
    <3>1. i + 1 \in 1 .. Len(c) - 1 /\ d[i] = c[i + 1] /\ d[i + 1] = c[(i + 1) + 1]
      BY <1>2, <1>5
    <3> QED
      BY <1>1, <3>1 DEF Linked
  <2> QED
    BY <2>1, <2>2 DEF Linked
<1>10. Linking(d)'
  <2>1. ASSUME NEW t \in Threads, at'[t] = "link"
        PROVE  \E i \in 1 .. Len(d) - 1 : prevHead'[t] = d[i] /\ input'[t] = d[i + 1] /\ link'[d[i]] = Null
    <3>1. PICK i \in 1 .. Len(c) - 1 : prevHead[t] = c[i] /\ input[t] = c[i + 1] /\ link[c[i]] = Null
      BY <1>1, <2>1 DEF Linking
    <3>2. i # 1
      BY <1>3, <3>1
    <3>3. i - 1 \in 1 .. Len(d) - 1 /\ d[i - 1] = c[i] /\ d[(i - 1) + 1] = c[i + 1]
      BY <1>2, <1>5, <3>2
    <3> QED
      BY <3>1, <3>3
  <2> QED
    BY <1>1, <2>1 DEF Linking
<1>11. Private(d)'
  <2>1. ASSUME NEW t \in Threads, at[t] \in {"clear", "exchange"}
        PROVE  \A i \in 1 .. Len(d) : d[i] # input[t]
    BY <1>1, <1>6, <2>1 DEF Private
  <2> QED
    BY <1>1, <2>1 DEF Private
<1> QED
  BY <1>3, <1>5, <1>6, <1>7, <1>8, <1>9, <1>10, <1>11 DEF Advanced

\* The dummy leaves the list.
LEMMA SkipShape ==
    ASSUME Distinct, Typed, NEW c, NEW k, Shape(c, k), SkipDummy, NEW d, d = Tail(c)
    PROVE  Typed' /\ d \in Seq(Elements) /\ Shape(d, 0)'
<1>1. /\ mode # "destroyed" /\ consumer = "idle" /\ tail = Dummy /\ link[tail] # Null
      /\ tail' = link[tail] /\ consumer' = "skipped"
      /\ UNCHANGED <<head, link, at, input, prevHead, mode, order, taken>>
  BY DEF SkipDummy, enqueue
<1>2. List(c, k) /\ Contents(c, k) /\ Dequeueing(c, k) /\ Closing(c, k)
  BY DEF Shape
<1>3. /\ d \in Seq(Elements) /\ Len(c) > 1 /\ Len(d) = Len(c) - 1
      /\ \A i \in 1 .. Len(d) : i + 1 \in 1 .. Len(c) /\ d[i] = c[i + 1]
      /\ d[1] = tail' /\ d[Len(d)] = head' /\ tail' \in Elements
      /\ \A i, j \in 1 .. Len(d) : d[i] = d[j] => i = j
      /\ Linked(d)' /\ Linking(d)' /\ Private(d)'
  <2>1. Advance
    BY <1>1 DEF Advance
  <2>2. Advanced(c, d)
    BY <2>1, AdvanceShape
  <2> QED
    BY <2>2 DEF Advanced
<1>4. /\ Len(c) \in Nat \ {0} /\ c[1] = tail
      /\ \A i \in 1 .. Len(c) : (c[i] = Dummy) <=> (i = k)
  BY <1>2, ListFacts
<1>5. k = 1
  <2>1. 1 \in 1 .. Len(c)
    BY <1>4
  <2> QED
    BY <1>1, <1>4, <2>1
<1>6. \A i \in 1 .. Len(d) : i # 0 /\ d[i] # Dummy
  <2> TAKE i \in 1 .. Len(d)
  <2>1. i + 1 # 1 /\ i # 0
    BY <1>3
  <2> QED
    BY <1>3, <1>4, <1>5, <2>1
<1>7. List(d, 0)'
  <2>1. Len(d) > 0 /\ 0 \in 0 .. Len(d)
    BY <1>3, <1>4
  <2> QED
    BY <1>3, <1>6, <2>1 DEF List
<1>8. Contents(d, 0)'
  <2>1. PICK n \in Nat, m \in Nat, l \in Nat \ {0} : n = Len(taken) /\ m = Len(order) /\ l = Len(c)
    BY <1>4 DEF Typed
  <2>2. Len(taken') = n /\ Len(order') = m /\ order' = order /\ Len(d) = l - 1 /\ m = n + (l - 1)
    BY <1>1, <1>2, <1>3, <1>5, <2>1 DEF Contents
  <2>3. ASSUME NEW i \in 1 .. Len(d)
        PROVE  d[i] = order'[Len(taken') + i]
    <3>1. i + 1 \in 1 .. Len(c) /\ i + 1 # k /\ d[i] = c[i + 1] /\ 0 < k /\ k < i + 1 /\ (i + 1) - 1 = i
      BY <1>3, <1>5
    <3>2. c[i + 1] = order[n + ((i + 1) - 1)]
      BY <1>2, <2>1, <3>1 DEF Contents, Place
    <3> QED
      BY <2>2, <3>1, <3>2
  <2> QED
    BY <2>2, <2>3 DEF Contents, Place
<1>9. Typed'
  BY <1>1, <1>3 DEF Typed
<1>10. Dequeueing(d, 0)'
  <2>1. tail' # Dummy
    BY <1>3, <1>4, <1>6
  <2> QED
    BY <1>1, <1>2, <2>1 DEF Dequeueing
<1>11. Closing(d, 0)'
  BY <1>1, <1>2 DEF Closing
<1> QED
  BY <1>3, <1>7, <1>8, <1>9, <1>10, <1>11 DEF Shape

\* An element comes out: the one that has been longest in the queue.
LEMMA ReturnTailShape ==
    ASSUME Distinct, Typed, History, NEW c, NEW k, Shape(c, k), TakeTail \/ TakeLast,
           NEW d, d = Tail(c), NEW h, h = IF k = 0 THEN 0 ELSE k - 1
    PROVE  /\ Typed' /\ History' /\ d \in Seq(Elements) /\ h \in Nat /\ Shape(d, h)'
           /\ Len(taken) < Len(order) /\ taken' = Append(taken, order[Len(taken) + 1])
<1>1. List(c, k) /\ Contents(c, k) /\ Dequeueing(c, k) /\ Closing(c, k)
  BY DEF Shape
<1>2. /\ mode # "destroyed" /\ tail # Dummy /\ link[tail] # Null /\ at[Consumer] = "idle"
      /\ tail' = link[tail] /\ taken' = Append(taken, tail) /\ consumer' = "idle"
      /\ UNCHANGED <<head, link, at, input, prevHead, mode, order>>
  BY <1>1 DEF TakeTail, TakeLast, AtElement, ReturnTail, enqueue, Dequeueing, Closing
<1>3. /\ d \in Seq(Elements) /\ Len(c) > 1 /\ Len(d) = Len(c) - 1
      /\ \A i \in 1 .. Len(d) : i + 1 \in 1 .. Len(c) /\ d[i] = c[i + 1]
      /\ d[1] = tail' /\ d[Len(d)] = head' /\ tail' \in Elements
      /\ \A i, j \in 1 .. Len(d) : d[i] = d[j] => i = j
      /\ Linked(d)' /\ Linking(d)' /\ Private(d)'
  <2>1. Advance
    BY <1>2 DEF Advance
  <2>2. Advanced(c, d)
    BY <2>1, AdvanceShape
  <2> QED
    BY <2>2 DEF Advanced
<1>4. /\ Len(c) \in Nat \ {0} /\ c[1] = tail /\ k \in Nat /\ k <= Len(c)
      /\ \A i \in 1 .. Len(c) : (c[i] = Dummy) <=> (i = k)
  BY <1>1, ListFacts
<1>5. 1 \in 1 .. Len(c) /\ k # 1
  BY <1>2, <1>4
<1>6. h \in Nat /\ h <= Len(c) - 1
  BY <1>4, <1>5
<1>7. PICK n \in Nat, m \in Nat, l \in Nat \ {0} : n = Len(taken) /\ m = Len(order) /\ l = Len(c)
  BY <1>4 DEF Typed
<1>8. order \in Seq(Items) /\ taken \in Seq(Items) /\ l > 1 /\ Len(d) = l - 1
  BY <1>3, <1>7 DEF Typed
<1>9. m = n + (IF k = 0 THEN l ELSE l - 1) /\ c[1] = order[n + 1]
  <2>1. m = n + (IF k = 0 THEN l ELSE l - 1)
    BY <1>1, <1>7 DEF Contents
  <2>2. ~(0 < k /\ k < 1) /\ 1 # k
    BY <1>4, <1>5
  <2>3. c[1] = order[n + 1]
    BY <1>1, <1>5, <1>7, <2>2 DEF Contents, Place
  <2> QED
    BY <2>1, <2>3
<1>10. n < m /\ n + 1 \in 1 .. m /\ order[n + 1] \in Items
  <2>1. n < m /\ n + 1 \in 1 .. m
    BY <1>4, <1>8, <1>9
  <2> QED
    BY <1>7, <1>8, <2>1
<1>11. taken' = Append(taken, order[n + 1])
  BY <1>2, <1>4, <1>9
<1>12. /\ taken' \in Seq(Items) /\ Len(taken') = n + 1 /\ taken'[n + 1] = order[n + 1]
       /\ \A i \in 1 .. n : taken'[i] = taken[i]
  BY <1>7, <1>8, <1>10, <1>11, AppendFacts
<1>13. Typed'
  BY <1>2, <1>3, <1>12 DEF Typed
<1>14. History'
  <2>1. \A i \in 1 .. n + 1 : i \in 1 .. n \/ i = n + 1
    BY <1>7
  <2>2. \A i \in 1 .. n : taken[i] = order[i]
    BY <1>7 DEF History
  <2>3. Len(taken') <= Len(order') /\ Len(taken') = n + 1
    BY <1>2, <1>7, <1>10, <1>12
  <2> QED
    BY <1>2, <1>12, <2>1, <2>2, <2>3 DEF History
<1>15. List(d, h)'
  <2>1. Len(d) > 0 /\ h \in 0 .. Len(d)
    BY <1>3, <1>4, <1>6
  <2>2. ASSUME NEW i \in 1 .. Len(d)
        PROVE  (d[i] = Dummy) <=> (i = h)
    <3>1. (d[i] = Dummy) <=> (i + 1 = k)
      BY <1>3, <1>4
    <3>2. (i + 1 = k) <=> (i = h)
      BY <1>4, <1>5
    <3> QED
      BY <3>1, <3>2
  <2> QED
    BY <1>3, <2>1, <2>2 DEF List
<1>16. Contents(d, h)'
  <2>1. Len(order') = Len(taken') + (IF h = 0 THEN Len(d) ELSE Len(d) - 1)
    <3>1. Len(order') = m /\ Len(taken') = n + 1 /\ Len(d) = l - 1
      BY <1>2, <1>7, <1>8, <1>12
    <3>2. CASE k = 0
      BY <1>7, <1>9, <3>1, <3>2
    <3>3. CASE k # 0
      <4>1. h # 0 /\ m = n + (l - 1)
        BY <1>4, <1>5, <1>9, <3>3
      <4> QED
        BY <1>7, <3>1, <4>1
    <3> QED
      BY <3>2, <3>3
  <2>2. ASSUME NEW i \in 1 .. Len(d), i # h
        PROVE  d[i] = order'[Len(taken') + (IF 0 < h /\ h < i THEN i - 1 ELSE i)]
    <3>1. i + 1 \in 1 .. Len(c) /\ d[i] = c[i + 1]
      BY <1>3
    <3>2. i + 1 # k
      BY <1>4, <1>5, <2>2
    <3>3. PICK j : j = n + (IF 0 < k /\ k < i + 1 THEN (i + 1) - 1 ELSE i + 1)
      OBVIOUS
    <3>4. c[i + 1] = order[j]
      BY <1>1, <1>7, <3>1, <3>2, <3>3 DEF Contents, Place
    <3>5. j = (n + 1) + (IF 0 < h /\ h < i THEN i - 1 ELSE i)
      BY <1>4, <1>5, <1>7, <2>2, <3>2, <3>3, SMTT(60)
    <3> QED
      BY <1>2, <1>12, <3>1, <3>4, <3>5
  <2> QED
    BY <2>1, <2>2 DEF Contents, Place
<1>17. Dequeueing(d, h)' /\ Closing(d, h)'
  BY <1>1, <1>2 DEF Dequeueing, Closing
<1> QED
  BY <1>3, <1>6, <1>7, <1>10, <1>11, <1>13, <1>14, <1>15, <1>16, <1>17 DEF Shape

-----------------------------------------------------------------------------
(* The specification                                                       *)

LEMMA InitInv ==
    ASSUME Distinct, Init
    PROVE  Inv
<1>1. Typed
  BY DEF Init, Typed, Elements
<1>2. Len(taken) = 0 /\ Len(order) = 0
  BY DEF Init
<1>3. PICK c : c = <<Dummy>>
  OBVIOUS
<1>4. Dummy \in Elements /\ Consumer \in Threads
  BY DEF Elements, Threads
<1>5. c \in Seq(Elements) /\ Len(c) = 1 /\ c[1] = Dummy /\ 1 \in Nat
  BY <1>3, <1>4
<1>6. \A i \in 1 .. Len(c) : i = 1 /\ c[i] = Dummy
  BY <1>5
<1>7. List(c, 1) /\ Contents(c, 1) /\ Linked(c)
  BY <1>2, <1>4, <1>5, <1>6 DEF Init, List, Contents, Linked
<1>8. Linking(c) /\ Private(c) /\ Dequeueing(c, 1) /\ Closing(c, 1)
  BY <1>4 DEF Init, Linking, Private, Dequeueing, Closing
<1>9. History
  BY <1>2 DEF History
<1> QED
  BY <1>1, <1>5, <1>7, <1>8, <1>9 DEF Inv, Shape

\* The inductive invariant is kept by every step.
LEMMA NextInv ==
    ASSUME Distinct, Inv, [Next]_vars
    PROVE  Inv'
<1>1. Typed /\ History
  BY DEF Inv
<1>2. PICK c \in Seq(Elements), k \in Nat : Shape(c, k)
  BY DEF Inv
<1>3. ASSUME Typed' /\ Shape(c, k)', UNCHANGED <<order, taken>>
      PROVE  Inv'
  <2>1. History'
    BY <1>1, <1>3 DEF History
  <2> QED
    BY <1>3, <2>1 DEF Inv
<1>4. ASSUME NEW t \in Producers, NEW x \in Items, Enqueue(t, x)
      PROVE  Inv'
  <2>1. UNCHANGED <<order, taken>>
    BY <1>4 DEF Enqueue, Call
  <2> QED
    BY <1>1, <1>2, <1>3, <1>4, <2>1, EnqueueShape
<1>5. ASSUME NEW t \in Threads, ClearLink(t)
      PROVE  Inv'
  <2>1. UNCHANGED <<order, taken>>
    BY <1>5 DEF ClearLink
  <2> QED
    BY <1>1, <1>2, <1>3, <1>5, <2>1, ClearLinkShape
<1>6. ASSUME NEW t \in Threads, Exchange(t)
      PROVE  Inv'
  <2>1. PICK d : d = Append(c, input[t])
    OBVIOUS
  <2>2. PICK h : h = IF input[t] = Dummy THEN Len(c) + 1 ELSE k
    OBVIOUS
  <2>3. Typed' /\ History' /\ d \in Seq(Elements) /\ h \in Nat /\ Shape(d, h)'
    BY <1>1, <1>2, <1>6, <2>1, <2>2, ExchangeShape
  <2> QED
    BY <2>3 DEF Inv
<1>7. ASSUME NEW t \in Threads, Link(t)
      PROVE  Inv'
  <2>1. UNCHANGED <<order, taken>>
    BY <1>7 DEF Link
  <2> QED
    BY <1>1, <1>2, <1>3, <1>7, <2>1, LinkShape
<1>8. CASE DequeueEmpty \/ LoadHeadOther \/ TakeLastFails
  <2>1. UNCHANGED <<order, taken>>
    BY <1>8 DEF DequeueEmpty, LoadHeadOther, TakeLastFails, ReturnFalse
  <2> QED
    BY <1>1, <1>2, <1>3, <1>8, <2>1, ReturnFalseShape
<1>9. CASE SkipDummy
  <2>1. PICK d : d = Tail(c)
    OBVIOUS
  <2>2. Typed' /\ d \in Seq(Elements) /\ Shape(d, 0)' /\ 0 \in Nat
    BY <1>1, <1>2, <1>9, <2>1, SkipShape
  <2>3. History'
    BY <1>1, <1>9 DEF SkipDummy, History
  <2> QED
    BY <2>2, <2>3 DEF Inv
<1>10. CASE TakeTail \/ TakeLast
  <2>1. PICK d : d = Tail(c)
    OBVIOUS
  <2>2. PICK h : h = IF k = 0 THEN 0 ELSE k - 1
    OBVIOUS
  <2>3. Typed' /\ History' /\ d \in Seq(Elements) /\ h \in Nat /\ Shape(d, h)'
    BY <1>1, <1>2, <1>10, <2>1, <2>2, ReturnTailShape
  <2> QED
    BY <2>3 DEF Inv
<1>11. CASE SeeNoNext \/ Destroy
  <2>1. UNCHANGED <<order, taken>>
    BY <1>11 DEF SeeNoNext, Destroy
  <2> QED
    BY <1>1, <1>2, <1>3, <1>11, <2>1, SeeShape
<1>12. CASE EnqueueDummy
  <2>1. UNCHANGED <<order, taken>>
    BY <1>12 DEF EnqueueDummy, Call
  <2> QED
    BY <1>1, <1>2, <1>3, <1>12, <2>1, EnqueueDummyShape
<1>13. CASE UNCHANGED vars
  <2>1. Typed' /\ Shape(c, k)' /\ UNCHANGED <<order, taken>>
    BY <1>1, <1>2, <1>13 DEF vars, enqueue, Typed, Shape, List, Contents, Place, Linked, Linking,
       Private, Dequeueing, Closing
  <2> QED
    BY <1>3, <2>1
<1> QED
  BY <1>4, <1>5, <1>6, <1>7, <1>8, <1>9, <1>10, <1>11, <1>12, <1>13 DEF Next, EnqueueStep, Dequeue

\* What the invariant is for.
LEMMA InvSafe ==
    ASSUME Distinct, Inv
    PROVE  HandedOver /\ NothingLeft
<1>1. Typed /\ History
  BY DEF Inv
<1>2. PICK c \in Seq(Elements), k \in Nat : Shape(c, k)
  BY DEF Inv
<1>3. /\ List(c, k) /\ Contents(c, k) /\ Linked(c) /\ Linking(c) /\ Private(c)
      /\ Dequeueing(c, k) /\ Closing(c, k)
  BY <1>2 DEF Shape
<1>4. /\ Len(c) \in Nat \ {0} /\ c[1] = tail /\ c[Len(c)] = head
      /\ k <= Len(c)
      /\ \A i \in 1 .. Len(c) : c[i] \in Elements
      /\ \A i \in 1 .. Len(c) : (c[i] = Dummy) <=> (i = k)
  BY <1>3, ListFacts
<1>5. 1 \in 1 .. Len(c) /\ Len(c) \in 1 .. Len(c)
  BY <1>4
<1>6. HandedOver
  <2> SUFFICES ASSUME NEW x \in Free
               PROVE  /\ x \notin {head, tail}
                      /\ \A t \in Threads : prevHead[t] # x
                      /\ \A y \in ToSet(Queued) \cup {Dummy} :
                            link[y] = x => y = Dummy /\ Dummy \notin {head, tail}
    BY DEF HandedOver
  <2>1. x # Dummy /\ x # Null /\ x \notin ToSet(Queued)
    BY DEF Free, Distinct, Elements
  <2>2. \A i \in 1 .. Len(c) : c[i] # x
    BY <1>1, <1>2, <2>1, ListIsQueued
  <2>3. x \notin {head, tail}
    BY <1>4, <1>5, <2>2
  <2>4. ASSUME NEW t \in Threads
        PROVE  prevHead[t] # x
    <3>1. CASE at[t] = "link"
      <4>1. PICK i \in 1 .. Len(c) - 1 : prevHead[t] = c[i]
        BY <1>3, <3>1 DEF Linking
      <4>2. i \in 1 .. Len(c)
        BY <1>4
      <4> QED
        BY <2>2, <4>1, <4>2
    <3>2. CASE at[t] # "link"
      BY <1>3, <2>1, <3>2 DEF Linking
    <3> QED
      BY <3>1, <3>2
  <2>5. ASSUME NEW i \in 1 .. Len(c)
        PROVE  link[c[i]] # x
    <3>1. CASE i = Len(c)
      BY <1>3, <2>1, <3>1 DEF Linked
    <3>2. CASE i # Len(c)
      <4>1. i \in 1 .. Len(c) - 1 /\ i + 1 \in 1 .. Len(c)
        BY <1>4, <3>2
      <4> QED
        BY <1>3, <2>1, <2>2, <4>1 DEF Linked
    <3> QED
      BY <3>1, <3>2
  <2>6. ASSUME NEW y \in ToSet(Queued) \cup {Dummy}, link[y] = x
        PROVE  y = Dummy /\ Dummy \notin {head, tail}
    <3>1. \A i \in 1 .. Len(c) : c[i] # y
      BY <2>5, <2>6
    <3>2. y \notin ToSet(Queued)
      BY <1>1, <1>2, <3>1, ListIsQueued
    <3> QED
      BY <1>4, <1>5, <3>1, <3>2
  <2> QED
    BY <2>3, <2>4, <2>6
<1>7. NothingLeft
  <2> SUFFICES ASSUME mode = "destroyed"
               PROVE  taken = order
    BY DEF NothingLeft
  <2>1. PICK n \in Nat, m \in Nat : n = Len(taken) /\ m = Len(order)
    BY <1>1 DEF Typed
  <2>2. Len(c) = 1 /\ k = 1
    BY <1>3 DEF Closing
  <2>3. n = m
    BY <1>3, <2>1, <2>2 DEF Contents
  <2>4. taken \in Seq(Items) /\ order \in Seq(Items) /\ \A i \in 1 .. Len(taken) : taken[i] = order[i]
    BY <1>1 DEF Typed, History
  <2> QED
    BY <2>1, <2>3, <2>4, SeqEqual
<1> QED
  BY <1>6, <1>7

-----------------------------------------------------------------------------
(* Every step is one of the abstract queue, or none at all.                *)

LEMMA EnqueuedAtEnd ==
    ASSUME NEW S, NEW s \in Seq(S), NEW n \in Nat, n <= Len(s), NEW e \in S
    PROVE  SubSeq(Append(s, e), n + 1, Len(Append(s, e))) = Append(SubSeq(s, n + 1, Len(s)), e)
<1>1. PICK m \in Nat : m = Len(s)
  OBVIOUS
<1>2. PICK t : t = Append(s, e)
  OBVIOUS
<1>3. /\ t \in Seq(S) /\ Len(t) = m + 1 /\ t[m + 1] = e
      /\ \A i \in 1 .. m : t[i] = s[i]
  BY <1>1, <1>2, AppendFacts
<1>4. PICK a : a = SubSeq(t, n + 1, m + 1)
  OBVIOUS
<1>5. PICK b : b = SubSeq(s, n + 1, m)
  OBVIOUS
<1>6. a \in Seq(S) /\ Len(a) = m + 1 - n /\ \A i \in 1 .. m + 1 - n : a[i] = t[n + i]
  BY <1>1, <1>3, <1>4
<1>7. b \in Seq(S) /\ Len(b) = m - n /\ \A i \in 1 .. m - n : b[i] = s[n + i]
  BY <1>1, <1>5
<1>8. PICK d : d = Append(b, e)
  OBVIOUS
<1>9. /\ d \in Seq(S) /\ Len(d) = m - n + 1 /\ d[m - n + 1] = e
      /\ \A i \in 1 .. m - n : d[i] = b[i]
  BY <1>7, <1>8, AppendFacts
<1>10. ASSUME NEW i \in 1 .. Len(a)
       PROVE  a[i] = d[i]
  <2>1. CASE i = m - n + 1
    <3>1. a[i] = t[n + i] /\ n + i = m + 1
      BY <1>1, <1>6, <2>1
    <3> QED
      BY <1>3, <1>9, <2>1, <3>1
  <2>2. CASE i # m - n + 1
    <3>1. i \in 1 .. m - n /\ n + i \in 1 .. m
      BY <1>1, <1>6, <2>2
    <3>2. a[i] = t[n + i]
      BY <1>1, <1>6
    <3> QED
      BY <1>3, <1>7, <1>9, <3>1, <3>2
  <2> QED
    BY <2>1, <2>2
<1>11. Len(a) = Len(d)
  BY <1>1, <1>6, <1>9
<1>12. a = d
  BY <1>6, <1>9, <1>10, <1>11, SeqEqual
<1> QED
  BY <1>1, <1>2, <1>3, <1>4, <1>5, <1>8, <1>12

LEMMA DequeuedAtFront ==
    ASSUME NEW S, NEW s \in Seq(S), NEW n \in Nat, n < Len(s)
    PROVE  /\ SubSeq(s, n + 1, Len(s)) # <<>>
           /\ Head(SubSeq(s, n + 1, Len(s))) = s[n + 1]
           /\ Tail(SubSeq(s, n + 1, Len(s))) = SubSeq(s, (n + 1) + 1, Len(s))
<1>1. PICK m \in Nat : m = Len(s)
  OBVIOUS
<1>2. PICK a : a = SubSeq(s, n + 1, m)
  OBVIOUS
<1>3. PICK b : b = SubSeq(s, (n + 1) + 1, m)
  OBVIOUS
<1>4. a \in Seq(S) /\ Len(a) = m - n /\ \A i \in 1 .. m - n : a[i] = s[n + i]
  BY <1>1, <1>2, SMTT(60)
<1>5. b \in Seq(S) /\ Len(b) = m - n - 1 /\ \A i \in 1 .. m - n - 1 : b[i] = s[(n + 1) + i]
  BY <1>1, <1>3
<1>6. a # <<>>
  BY <1>1, <1>4
<1>7. Head(a) = a[1] /\ a[1] = s[n + 1]
  BY <1>1, <1>4, <1>6, TailFacts
<1>8. PICK d : d = Tail(a)
  OBVIOUS
<1>9. d \in Seq(S) /\ Len(d) = m - n - 1 /\ \A i \in 1 .. m - n - 1 : d[i] = a[i + 1]
  BY <1>1, <1>4, <1>6, <1>8, TailFacts
<1>10. ASSUME NEW i \in 1 .. m - n - 1
       PROVE  d[i] = b[i]
  <2>1. i + 1 \in 1 .. m - n /\ n + (i + 1) = (n + 1) + i
    BY <1>1
  <2>2. a[i + 1] = s[n + (i + 1)]
    BY <1>4, <2>1
  <2> QED
    BY <1>5, <1>9, <2>1, <2>2
<1>11. d = b
  BY <1>1, <1>5, <1>9, <1>10, SeqEqual
<1> QED
  BY <1>1, <1>2, <1>3, <1>6, <1>7, <1>8, <1>11

LEMMA InitFifo ==
    ASSUME Init
    PROVE  Queued = <<>> /\ taken = <<>>
<1>1. order = <<>> /\ taken = <<>>
  BY DEF Init
<1>2. Len(order) = 0 /\ Len(taken) = 0
  BY <1>1
<1> QED
  BY <1>1, <1>2 DEF Queued

\* An exchange of a producer appends, Dequeue takes from the front, and no
\* other step, the exchange of the dummy included, is seen.
LEMMA NextFifo ==
    ASSUME Distinct, Inv, [Next]_vars
    PROVE  \/ \E x \in Items : Queued' = Append(Queued, x) /\ taken' = taken
           \/ /\ Queued # <<>> /\ taken' = Append(taken, Head(Queued))
              /\ Queued' = Tail(Queued)
           \/ UNCHANGED <<Queued, taken>>
<1>1. Typed /\ History
  BY DEF Inv
<1>2. PICK c \in Seq(Elements), k \in Nat : Shape(c, k)
  BY DEF Inv
<1>3. Len(taken) \in Nat /\ Len(order) \in Nat /\ taken \in Seq(Items) /\ order \in Seq(Items)
  BY <1>1 DEF Typed
<1>4. ASSUME UNCHANGED <<order, taken>>
      PROVE  UNCHANGED <<Queued, taken>>
  BY <1>4 DEF Queued
<1>5. ASSUME NEW t \in Threads, Exchange(t), input[t] # Dummy
      PROVE  \E x \in Items : Queued' = Append(Queued, x) /\ taken' = taken
  <2>1. PICK x : x = input[t]
    OBVIOUS
  <2>2. x \in Items
    BY <1>2, <1>5, <2>1 DEF Exchange, Shape, Private, Elements
  <2>3. order' = Append(order, x) /\ taken' = taken
    BY <1>5, <2>1 DEF Exchange
  <2>4. Len(taken) <= Len(order)
    BY <1>1 DEF History
  <2>5. SubSeq(Append(order, x), Len(taken) + 1, Len(Append(order, x)))
          = Append(SubSeq(order, Len(taken) + 1, Len(order)), x)
    BY <1>3, <2>2, <2>4, EnqueuedAtEnd, ZenonT(60)
  <2>6. Queued' = Append(Queued, x)
    BY <2>3, <2>5 DEF Queued
  <2> QED
    BY <2>2, <2>3, <2>6
<1>6. ASSUME TakeTail \/ TakeLast
      PROVE  /\ Queued # <<>> /\ taken' = Append(taken, Head(Queued))
             /\ Queued' = Tail(Queued)
  <2>1. order' = order
    BY <1>6 DEF TakeTail, TakeLast, ReturnTail
  <2>2. PICK d : d = Tail(c)
    OBVIOUS
  <2>3. PICK h : h = IF k = 0 THEN 0 ELSE k - 1
    OBVIOUS
  <2>4. Len(taken) < Len(order) /\ taken' = Append(taken, order[Len(taken) + 1])
    BY <1>1, <1>2, <1>6, <2>2, <2>3, ReturnTailShape
  <2>5. /\ SubSeq(order, Len(taken) + 1, Len(order)) # <<>>
        /\ Head(SubSeq(order, Len(taken) + 1, Len(order))) = order[Len(taken) + 1]
        /\ Tail(SubSeq(order, Len(taken) + 1, Len(order)))
              = SubSeq(order, (Len(taken) + 1) + 1, Len(order))
    BY <1>3, <2>4, DequeuedAtFront
  <2>6. order[Len(taken) + 1] \in Items
    BY <1>3, <2>4
  <2>7. Len(taken') = Len(taken) + 1
    BY <1>3, <2>4, <2>6, AppendFacts
  <2> QED
    BY <2>1, <2>4, <2>5, <2>7 DEF Queued
<1>7. ASSUME NEW t \in Threads, EnqueueStep(t)
      PROVE  (Exchange(t) /\ input[t] # Dummy) \/ UNCHANGED <<order, taken>>
  BY <1>7 DEF EnqueueStep, ClearLink, Exchange, Link
<1> QED
  <2>1. \/ \E t \in Threads : EnqueueStep(t)
        \/ TakeTail \/ TakeLast
        \/ UNCHANGED <<order, taken>>
    BY DEF Next, Dequeue, Enqueue, Call, DequeueEmpty, SkipDummy, SeeNoNext, LoadHeadOther, EnqueueDummy,
           TakeLastFails, ReturnFalse, Destroy, vars
  <2> QED
    BY <1>4, <1>5, <1>6, <1>7, <2>1
=============================================================================
