--------------------- MODULE MPSCQueueNonIntrusive_proofs ---------------------
(***************************************************************************)
(* Proofs about MPSCQueueNonIntrusive, for any number of producers, items  *)
(* and nodes: no step follows a pointer to a deleted node, the destructor  *)
(* leaves nothing behind, and every step is one of the abstract queue of   *)
(* module Fifo or leaves that queue alone.                                 *)
(***************************************************************************)
EXTENDS MPSCQueueNonIntrusive, SequenceTheorems, TLAPS

-----------------------------------------------------------------------------
(* The inductive invariant speaks of the sequence c of the nodes from      *)
(* _tail to _head, which no variable of the code holds: some of its links  *)
(* are still to be stored by producers that have done their exchange.      *)

List(c) ==
    /\ c \in Seq(Nodes) /\ Len(c) > 0
    /\ c[1] = tail /\ c[Len(c)] = head
    /\ \A i, j \in 1 .. Len(c) : c[i] = c[j] => i = j

\* Every node but the first carries the item that the exchange gave that place.
Contents(c) ==
    /\ Len(order) = Len(taken) + Len(c) - 1
    /\ \A i \in 2 .. Len(c) : data[c[i]] = order[Len(taken) + i - 1]

\* A node leads to the one behind it, or else a producer is about to link them.
Linked(c) ==
    /\ next[c[Len(c)]] = Null
    /\ \A i \in 1 .. Len(c) - 1 :
          \/ next[c[i]] = c[i + 1]
          \/ next[c[i]] = Null /\ \E p \in Producers : at[p] = "link" /\ prevHead[p] = c[i]

Linking(c) ==
    /\ \A p \in Producers : at[p] = "link" =>
          \E i \in 1 .. Len(c) - 1 : prevHead[p] = c[i] /\ node[p] = c[i + 1] /\ next[c[i]] = Null
    /\ \A p, q \in Producers : at[p] = "link" /\ at[q] = "link" /\ prevHead[p] = prevHead[q] => p = q

\* A node outside the list belongs to one producer, or is about to be deleted.
Private(c) ==
    /\ \A p \in Producers : at[p] = "exchange" =>
          /\ node[p] \in Nodes /\ next[node[p]] = Null /\ data[node[p]] \in Items
          /\ \A i \in 1 .. Len(c) : c[i] # node[p]
          /\ consumer = "moved" => node[p] # old
    /\ \A p, q \in Producers : at[p] = "exchange" /\ at[q] = "exchange" /\ node[p] = node[q] => p = q
    /\ consumer = "moved" => old \in Nodes /\ \A i \in 1 .. Len(c) : c[i] # old

\* There are no other nodes.
Live(c, n) ==
    /\ mode # "destroyed"
    /\ \/ \E i \in 1 .. Len(c) : c[i] = n
       \/ \E p \in Producers : at[p] = "exchange" /\ node[p] = n
       \/ consumer = "moved" /\ n = old

Memory(c) == \A n \in Nodes : n \in allocated <=> Live(c, n)

Finds(c) == consumer = "found" => next[c[1]] # Null

Closing(c) ==
    /\ mode # "open" => \A p \in Producers : at[p] = "idle"
    /\ mode = "destroyed" => consumer = "idle" /\ Len(c) = 1

\* What has come out is what went in first.
History ==
    /\ Len(taken) <= Len(order)
    /\ \A i \in 1 .. Len(taken) : taken[i] = order[i]

Shape(c) ==
    /\ List(c) /\ Contents(c) /\ Linked(c) /\ Linking(c) /\ Private(c)
    /\ Memory(c) /\ Finds(c) /\ Closing(c)

Inv == TypeOK /\ History /\ \E c \in Seq(Nodes) : Shape(c)

LEMMA AppendFacts ==
    ASSUME NEW S, NEW s \in Seq(S), NEW e \in S
    PROVE  /\ Append(s, e) \in Seq(S) /\ Len(Append(s, e)) = Len(s) + 1 /\ Len(s) \in Nat
           /\ \A i \in 1 .. Len(s) : Append(s, e)[i] = s[i]
           /\ Append(s, e)[Len(s) + 1] = e
OBVIOUS

LEMMA TailFacts ==
    ASSUME NEW S, NEW s \in Seq(S), s # <<>>
    PROVE  /\ Tail(s) \in Seq(S) /\ Len(s) \in Nat \ {0} /\ Len(Tail(s)) = Len(s) - 1
           /\ \A i \in 1 .. Len(s) - 1 : Tail(s)[i] = s[i + 1]
           /\ Head(s) \in S /\ Head(s) = s[1]
OBVIOUS

\* The list: its length is a number, its nodes are nodes.
LEMMA ListFacts ==
    ASSUME NEW c, List(c)
    PROVE  /\ c \in Seq(Nodes) /\ Len(c) \in Nat \ {0}
           /\ \A i \in 1 .. Len(c) : c[i] \in Nodes
           /\ c[1] = tail /\ c[Len(c)] = head
           /\ \A i, j \in 1 .. Len(c) : c[i] = c[j] => i = j
<1>1. c \in Seq(Nodes) /\ Len(c) > 0 /\ Len(c) \in Nat
  BY DEF List
<1> QED
  BY <1>1 DEF List

-----------------------------------------------------------------------------
(* Enqueue                                                                 *)

LEMMA NewNodeShape ==
    ASSUME TypeOK, NEW c, Shape(c), Null \notin Nodes,
           NEW p \in Producers, NEW x \in Items, NewNode(p, x)
    PROVE  TypeOK' /\ Shape(c)'
<1>1. PICK n \in Nodes \ allocated :
         /\ allocated' = allocated \cup {n}
         /\ data' = [data EXCEPT ![n] = x]
         /\ next' = [next EXCEPT ![n] = Null]
         /\ node' = [node EXCEPT ![p] = n]
  BY DEF NewNode
<1>2. /\ mode = "open" /\ at[p] = "idle" /\ at' = [at EXCEPT ![p] = "exchange"]
      /\ UNCHANGED <<head, tail, prevHead, consumer, old, mode, order, taken>>
  BY DEF NewNode
<1>3. TypeOK'
  BY <1>1, <1>2 DEF TypeOK
<1>4. /\ List(c) /\ Contents(c) /\ Linked(c) /\ Linking(c) /\ Private(c)
      /\ Memory(c) /\ Finds(c) /\ Closing(c)
  BY DEF Shape
<1>5. /\ Len(c) \in Nat \ {0} /\ \A i \in 1 .. Len(c) : c[i] \in Nodes
  BY <1>4, ListFacts
\* The new node is none of those that are in use.
<1>6. \A i \in 1 .. Len(c) : c[i] # n
  BY <1>1, <1>2, <1>4, <1>5 DEF Memory, Live
<1>7. /\ \A q \in Producers : at[q] = "exchange" => node[q] # n
      /\ consumer = "moved" => old # n
  BY <1>1, <1>2, <1>4 DEF Memory, Live, Private
<1>8. \A i \in 1 .. Len(c) : next'[c[i]] = next[c[i]] /\ data'[c[i]] = data[c[i]]
  BY <1>1, <1>5, <1>6 DEF TypeOK
<1>9. \A q \in Producers : q # p => at'[q] = at[q] /\ node'[q] = node[q] /\ prevHead'[q] = prevHead[q]
  BY <1>1, <1>2 DEF TypeOK
<1>10. at'[p] = "exchange" /\ node'[p] = n /\ next'[n] = Null /\ data'[n] = x
  BY <1>1, <1>2 DEF TypeOK
<1>11. List(c)'
  BY <1>2, <1>4 DEF List
<1>12. Contents(c)'
  BY <1>2, <1>4, <1>5, <1>8 DEF Contents
<1>13. Linked(c)'
  <2>1. next'[c[Len(c)]] = Null
    BY <1>4, <1>5, <1>8 DEF Linked
  <2>2. ASSUME NEW i \in 1 .. Len(c) - 1
        PROVE  \/ next'[c[i]] = c[i + 1]
               \/ next'[c[i]] = Null /\ \E q \in Producers : at'[q] = "link" /\ prevHead'[q] = c[i]
    <3>1. next'[c[i]] = next[c[i]]
      BY <1>5, <1>8
    <3>2. \A q \in Producers : at[q] = "link" => at'[q] = "link" /\ prevHead'[q] = prevHead[q]
      BY <1>2, <1>9
    <3> QED
      BY <1>4, <3>1, <3>2 DEF Linked
  <2> QED
    BY <2>1, <2>2 DEF Linked
<1>14. Linking(c)'
  <2>1. \A q \in Producers : at'[q] = "link" => at[q] = "link" /\ q # p
    BY <1>9, <1>10
  <2>2. ASSUME NEW q \in Producers, at'[q] = "link"
        PROVE  \E i \in 1 .. Len(c) - 1 : prevHead'[q] = c[i] /\ node'[q] = c[i + 1] /\ next'[c[i]] = Null
    <3>1. PICK i \in 1 .. Len(c) - 1 : prevHead[q] = c[i] /\ node[q] = c[i + 1] /\ next[c[i]] = Null
      BY <1>4, <2>1, <2>2 DEF Linking
    <3>2. next'[c[i]] = next[c[i]]
      BY <1>5, <1>8
    <3> QED
      BY <1>9, <2>1, <2>2, <3>1, <3>2
  <2> QED
    BY <1>4, <1>9, <2>1, <2>2 DEF Linking
<1>15. Private(c)'
  <2>1. \A q \in Producers : q # p /\ at'[q] = "exchange" =>
           at[q] = "exchange" /\ node'[q] = node[q] /\ node[q] # n
    BY <1>7, <1>9
  <2>2. ASSUME NEW q \in Producers, at'[q] = "exchange"
        PROVE  /\ node'[q] \in Nodes /\ next'[node'[q]] = Null /\ data'[node'[q]] \in Items
               /\ \A i \in 1 .. Len(c) : c[i] # node'[q]
               /\ consumer' = "moved" => node'[q] # old'
    <3>1. CASE q = p
      BY <1>1, <1>2, <1>6, <1>7, <1>10, <3>1
    <3>2. CASE q # p
      <4>1. at[q] = "exchange" /\ node'[q] = node[q] /\ node[q] # n /\ node[q] \in Nodes
        BY <1>4, <2>1, <2>2, <3>2 DEF Private
      <4>2. next'[node[q]] = next[node[q]] /\ data'[node[q]] = data[node[q]]
        BY <1>1, <4>1 DEF TypeOK
      <4> QED
        BY <1>2, <1>4, <4>1, <4>2 DEF Private
    <3> QED
      BY <3>1, <3>2
  <2>3. \A q, r \in Producers : at'[q] = "exchange" /\ at'[r] = "exchange" /\ node'[q] = node'[r] => q = r
    BY <1>4, <1>10, <2>1 DEF Private
  <2>4. consumer' = "moved" => old' \in Nodes /\ \A i \in 1 .. Len(c) : c[i] # old'
    BY <1>2, <1>4 DEF Private
  <2> QED
    BY <2>2, <2>3, <2>4 DEF Private
<1>16. Memory(c)'
  <2>1. ASSUME NEW m \in Nodes
        PROVE  Live(c, m)' <=> Live(c, m) \/ m = n
    <3>1. (\E q \in Producers : at'[q] = "exchange" /\ node'[q] = m)
          <=> (\E q \in Producers : at[q] = "exchange" /\ node[q] = m) \/ m = n
      BY <1>2, <1>9, <1>10
    <3> QED
      BY <1>2, <3>1 DEF Live
  <2> QED
    BY <1>1, <1>4, <2>1 DEF Memory
<1>17. Finds(c)' /\ Closing(c)'
  BY <1>2, <1>4, <1>5, <1>8 DEF Finds, Closing
<1> QED
  BY <1>3, <1>11, <1>12, <1>13, <1>14, <1>15, <1>16, <1>17 DEF Shape

\* The exchange puts the node at the end of the list.
LEMMA ExchangeShape ==
    ASSUME TypeOK, History, NEW c, Shape(c), Null \notin Nodes,
           NEW p \in Producers, Exchange(p), NEW d, d = Append(c, node[p])
    PROVE  /\ TypeOK' /\ History'
           /\ data[node[p]] \in Items
           /\ d \in Seq(Nodes) /\ Shape(d)'
<1>1. /\ at[p] = "exchange" /\ prevHead' = [prevHead EXCEPT ![p] = head] /\ head' = node[p]
      /\ order' = Append(order, data[node[p]]) /\ at' = [at EXCEPT ![p] = "link"]
      /\ UNCHANGED <<tail, next, data, allocated, node, consumer, old, mode, taken>>
  BY DEF Exchange
<1>2. /\ List(c) /\ Contents(c) /\ Linked(c) /\ Linking(c) /\ Private(c)
      /\ Memory(c) /\ Finds(c) /\ Closing(c)
  BY DEF Shape
<1>3. /\ c \in Seq(Nodes) /\ Len(c) \in Nat \ {0} /\ c[1] = tail /\ c[Len(c)] = head
      /\ \A i \in 1 .. Len(c) : c[i] \in Nodes
      /\ \A i, j \in 1 .. Len(c) : c[i] = c[j] => i = j
  BY <1>2, ListFacts
<1>4. /\ node[p] \in Nodes /\ next[node[p]] = Null /\ data[node[p]] \in Items
      /\ \A i \in 1 .. Len(c) : c[i] # node[p]
      /\ consumer = "moved" => node[p] # old
  BY <1>1, <1>2 DEF Private
<1>6. /\ d \in Seq(Nodes) /\ Len(d) = Len(c) + 1 /\ d[Len(c) + 1] = node[p]
      /\ \A i \in 1 .. Len(c) : d[i] = c[i]
  BY <1>3, <1>4, AppendFacts
<1>7. \A i \in 1 .. Len(d) : i \in 1 .. Len(c) \/ i = Len(c) + 1
  BY <1>3, <1>6
<1>8. /\ order \in Seq(Items) /\ order' \in Seq(Items) /\ Len(order) \in Nat /\ Len(order') = Len(order) + 1
      /\ order'[Len(order) + 1] = data[node[p]]
      /\ \A i \in 1 .. Len(order) : order'[i] = order[i]
  BY <1>1, <1>4, AppendFacts DEF TypeOK
<1>9. Len(taken) \in Nat /\ Len(taken') = Len(taken) /\ Len(taken) <= Len(order)
  BY <1>1 DEF TypeOK, History
<1>10. TypeOK'
  BY <1>1, <1>3, <1>4, <1>8 DEF TypeOK
<1>11. History'
  BY <1>1, <1>8, <1>9 DEF History
<1>12. mode = "open"
  BY <1>1, <1>2 DEF Closing, TypeOK
<1>13. /\ \A q \in Producers : q # p => at'[q] = at[q] /\ node'[q] = node[q] /\ prevHead'[q] = prevHead[q]
       /\ at'[p] = "link" /\ node'[p] = node[p] /\ prevHead'[p] = head
  BY <1>1 DEF TypeOK
<1>14. List(d)'
  <2>1. \A i, j \in 1 .. Len(d) : d[i] = d[j] => i = j
    BY <1>3, <1>4, <1>6, <1>7
  <2>2. d[1] = tail' /\ d[Len(d)] = head' /\ Len(d) > 0
    BY <1>1, <1>3, <1>6
  <2> QED
    BY <1>6, <2>1, <2>2 DEF List
<1>15. Contents(d)'
  <2>1. Len(order') = Len(taken') + Len(d) - 1
    BY <1>2, <1>3, <1>6, <1>8, <1>9 DEF Contents
  <2>2. ASSUME NEW i \in 2 .. Len(d)
        PROVE  data'[d[i]] = order'[Len(taken') + i - 1]
    <3>1. CASE i = Len(c) + 1
      <4>1. Len(taken) + i - 1 = Len(order) + 1
        BY <1>2, <1>3, <1>8, <1>9, <3>1 DEF Contents
      <4> QED
        BY <1>1, <1>6, <1>8, <1>9, <3>1, <4>1
    <3>2. CASE i \in 2 .. Len(c)
      <4>1. Len(taken) + i - 1 \in 1 .. Len(order)
        BY <1>2, <1>3, <1>8, <1>9, <3>2 DEF Contents
      <4>2. data[c[i]] = order[Len(taken) + i - 1] /\ d[i] = c[i]
        BY <1>2, <1>3, <1>6, <3>2 DEF Contents
      <4> QED
        BY <1>1, <1>8, <1>9, <4>1, <4>2
    <3> QED
      BY <1>3, <1>6, <3>1, <3>2
  <2> QED
    BY <2>1, <2>2 DEF Contents
<1>16. Linked(d)'
  <2>1. next'[d[Len(d)]] = Null
    BY <1>1, <1>3, <1>4, <1>6
  <2>2. ASSUME NEW i \in 1 .. Len(d) - 1
        PROVE  \/ next'[d[i]] = d[i + 1]
               \/ next'[d[i]] = Null /\ \E q \in Producers : at'[q] = "link" /\ prevHead'[q] = d[i]
    <3>1. CASE i = Len(c)
      <4>1. d[i] = head /\ next[head] = Null
        BY <1>2, <1>3, <1>6, <3>1 DEF Linked
      <4> QED
        BY <1>1, <1>13, <4>1
    <3>2. CASE i # Len(c)
      <4>1. i \in 1 .. Len(c) - 1 /\ d[i] = c[i] /\ d[i + 1] = c[i + 1]
        BY <1>3, <1>6, <3>2
      <4>2. \A q \in Producers : at[q] = "link" => at'[q] = "link" /\ prevHead'[q] = prevHead[q]
        BY <1>1, <1>13
      <4> QED
        BY <1>1, <1>2, <4>1, <4>2 DEF Linked
    <3> QED
      BY <3>1, <3>2
  <2> QED
    BY <2>1, <2>2 DEF Linked
<1>17. Linking(d)'
  <2>1. ASSUME NEW q \in Producers, q # p, at'[q] = "link"
        PROVE  \E i \in 1 .. Len(c) - 1 : prevHead'[q] = c[i] /\ node'[q] = c[i + 1] /\ next[c[i]] = Null
    BY <1>2, <1>13, <2>1 DEF Linking
  <2>2. ASSUME NEW q \in Producers, at'[q] = "link"
        PROVE  \E i \in 1 .. Len(d) - 1 : prevHead'[q] = d[i] /\ node'[q] = d[i + 1] /\ next'[d[i]] = Null
    <3>1. CASE q = p
      <4>1. Len(c) \in 1 .. Len(d) - 1 /\ d[Len(c)] = head /\ d[Len(c) + 1] = node[p] /\ next[head] = Null
        BY <1>2, <1>3, <1>6 DEF Linked
      <4> QED
        BY <1>1, <1>13, <3>1, <4>1
    <3>2. CASE q # p
      <4>1. PICK i \in 1 .. Len(c) - 1 : prevHead'[q] = c[i] /\ node'[q] = c[i + 1] /\ next[c[i]] = Null
        BY <2>1, <2>2, <3>2
      <4>2. i \in 1 .. Len(d) - 1 /\ d[i] = c[i] /\ d[i + 1] = c[i + 1]
        BY <1>3, <1>6
      <4> QED
        BY <1>1, <4>1, <4>2
    <3> QED
      BY <3>1, <3>2
  <2>3. ASSUME NEW q \in Producers, q # p, at'[q] = "link"
        PROVE  prevHead'[q] # prevHead'[p]
    <3>1. PICK i \in 1 .. Len(c) - 1 : prevHead'[q] = c[i]
      BY <2>1, <2>3
    <3>2. c[i] # c[Len(c)]
      BY <1>3
    <3> QED
      BY <1>3, <1>13, <3>1, <3>2
  <2>4. ASSUME NEW q \in Producers, NEW r \in Producers, at'[q] = "link", at'[r] = "link",
               prevHead'[q] = prevHead'[r]
        PROVE  q = r
    BY <1>2, <1>13, <2>3, <2>4 DEF Linking
  <2> QED
    BY <2>2, <2>4 DEF Linking
<1>18. Private(d)'
  <2>1. \A q \in Producers : at'[q] = "exchange" => at[q] = "exchange" /\ q # p /\ node'[q] = node[q]
    BY <1>13
  <2>2. ASSUME NEW q \in Producers, at'[q] = "exchange"
        PROVE  /\ node'[q] \in Nodes /\ next'[node'[q]] = Null /\ data'[node'[q]] \in Items
               /\ \A i \in 1 .. Len(d) : d[i] # node'[q]
               /\ consumer' = "moved" => node'[q] # old'
    <3>1. node[q] # node[p]
      BY <1>1, <1>2, <2>1, <2>2 DEF Private
    <3>2. \A i \in 1 .. Len(d) : d[i] # node[q]
      BY <1>2, <1>6, <1>7, <2>1, <2>2, <3>1 DEF Private
    <3> QED
      BY <1>1, <1>2, <2>1, <2>2, <3>2 DEF Private
  <2>3. consumer' = "moved" => old' \in Nodes /\ \A i \in 1 .. Len(d) : d[i] # old'
    BY <1>1, <1>2, <1>4, <1>6, <1>7 DEF Private
  <2> QED
    BY <1>2, <2>1, <2>2, <2>3 DEF Private
<1>19. Memory(d)'
  <2>1. ASSUME NEW m \in Nodes
        PROVE  Live(d, m)' <=> Live(c, m)
    <3>1. (\E i \in 1 .. Len(d) : d[i] = m) <=> (\E i \in 1 .. Len(c) : c[i] = m) \/ m = node[p]
      <4>1. ASSUME NEW i \in 1 .. Len(d), d[i] = m
            PROVE  (\E j \in 1 .. Len(c) : c[j] = m) \/ m = node[p]
        BY <1>6, <1>7, <4>1
      <4>2. ASSUME NEW i \in 1 .. Len(c), c[i] = m
            PROVE  \E j \in 1 .. Len(d) : d[j] = m
        BY <1>3, <1>6, <4>2
      <4>3. m = node[p] => \E j \in 1 .. Len(d) : d[j] = m
        BY <1>3, <1>6
      <4> QED
        BY <4>1, <4>2, <4>3
    <3>2. (\E q \in Producers : at[q] = "exchange" /\ node[q] = m)
          <=> (\E q \in Producers : at'[q] = "exchange" /\ node'[q] = m) \/ m = node[p]
      BY <1>1, <1>13
    <3> QED
      BY <1>1, <3>1, <3>2 DEF Live
  <2> QED
    BY <1>1, <1>2, <2>1 DEF Memory
<1>20. Finds(d)' /\ Closing(d)'
  BY <1>1, <1>2, <1>3, <1>6, <1>12 DEF Finds, Closing
<1> QED
  BY <1>4, <1>6, <1>10, <1>11, <1>14, <1>15, <1>16, <1>17, <1>18, <1>19, <1>20 DEF Shape

\* The link is stored: the list is what it was.
LEMMA LinkShape ==
    ASSUME TypeOK, NEW c, Shape(c), Null \notin Nodes,
           NEW p \in Producers, Link(p)
    PROVE  TypeOK' /\ Shape(c)'
<1>1. /\ at[p] = "link" /\ next' = [next EXCEPT ![prevHead[p]] = node[p]]
      /\ at' = [at EXCEPT ![p] = "idle"] /\ node' = [node EXCEPT ![p] = Null]
      /\ prevHead' = [prevHead EXCEPT ![p] = Null]
      /\ UNCHANGED <<head, tail, data, allocated, consumer, old, mode, order, taken>>
  BY DEF Link
<1>2. /\ List(c) /\ Contents(c) /\ Linked(c) /\ Linking(c) /\ Private(c)
      /\ Memory(c) /\ Finds(c) /\ Closing(c)
  BY DEF Shape
<1>3. /\ c \in Seq(Nodes) /\ Len(c) \in Nat \ {0} /\ c[1] = tail /\ c[Len(c)] = head
      /\ \A i \in 1 .. Len(c) : c[i] \in Nodes
      /\ \A i, j \in 1 .. Len(c) : c[i] = c[j] => i = j
  BY <1>2, ListFacts
<1>4. PICK k \in 1 .. Len(c) - 1 : prevHead[p] = c[k] /\ node[p] = c[k + 1] /\ next[c[k]] = Null
  BY <1>1, <1>2 DEF Linking
<1>5. k \in 1 .. Len(c) /\ k + 1 \in 1 .. Len(c) /\ c[k] \in Nodes /\ c[k + 1] \in Nodes /\ c[k + 1] # Null
  BY <1>3
<1>6. /\ next'[c[k]] = c[k + 1]
      /\ \A n \in Nodes : n # c[k] => next'[n] = next[n]
  BY <1>1, <1>4, <1>5 DEF TypeOK
<1>7. TypeOK'
  BY <1>1, <1>4, <1>5 DEF TypeOK
<1>8. /\ \A q \in Producers : q # p => at'[q] = at[q] /\ node'[q] = node[q] /\ prevHead'[q] = prevHead[q]
      /\ at'[p] = "idle"
  BY <1>1 DEF TypeOK
<1>9. List(c)' /\ Contents(c)'
  BY <1>1, <1>2 DEF List, Contents
<1>10. Linked(c)'
  <2>1. next'[c[Len(c)]] = Null
    <3>1. c[Len(c)] # c[k] /\ c[Len(c)] \in Nodes
      BY <1>3, <1>5
    <3> QED
      BY <1>2, <1>6, <3>1 DEF Linked
  <2>2. ASSUME NEW i \in 1 .. Len(c) - 1
        PROVE  \/ next'[c[i]] = c[i + 1]
               \/ next'[c[i]] = Null /\ \E q \in Producers : at'[q] = "link" /\ prevHead'[q] = c[i]
    <3>1. CASE i = k
      BY <1>6, <3>1
    <3>2. CASE i # k
      <4>1. c[i] # c[k] /\ c[i] \in Nodes
        BY <1>3, <1>5, <3>2
      <4>2. next'[c[i]] = next[c[i]]
        BY <1>6, <4>1
      <4>3. \A q \in Producers : at[q] = "link" /\ prevHead[q] = c[i] =>
               at'[q] = "link" /\ prevHead'[q] = c[i]
        BY <1>4, <1>8, <4>1
      <4> QED
        BY <1>2, <4>2, <4>3 DEF Linked
    <3> QED
      BY <3>1, <3>2
  <2> QED
    BY <2>1, <2>2 DEF Linked
<1>11. Linking(c)'
  <2>1. \A q \in Producers : at'[q] = "link" =>
           at[q] = "link" /\ q # p /\ node'[q] = node[q] /\ prevHead'[q] = prevHead[q]
    BY <1>8
  <2>2. ASSUME NEW q \in Producers, at'[q] = "link"
        PROVE  \E i \in 1 .. Len(c) - 1 : prevHead'[q] = c[i] /\ node'[q] = c[i + 1] /\ next'[c[i]] = Null
    <3>1. PICK i \in 1 .. Len(c) - 1 : prevHead[q] = c[i] /\ node[q] = c[i + 1] /\ next[c[i]] = Null
      BY <1>2, <2>1, <2>2 DEF Linking
    <3>2. c[i] # c[k] /\ c[i] \in Nodes
      BY <1>1, <1>2, <1>3, <1>4, <2>1, <2>2, <3>1 DEF Linking
    <3> QED
      BY <1>6, <2>1, <2>2, <3>1, <3>2
  <2> QED
    BY <1>2, <2>1, <2>2 DEF Linking
<1>12. Private(c)'
  <2>1. \A q \in Producers : at'[q] = "exchange" => at[q] = "exchange" /\ q # p /\ node'[q] = node[q]
    BY <1>8
  <2>2. ASSUME NEW q \in Producers, at'[q] = "exchange"
        PROVE  next'[node'[q]] = Null
    <3>1. node[q] \in Nodes /\ node[q] # c[k] /\ next[node[q]] = Null
      BY <1>2, <1>5, <2>1, <2>2 DEF Private
    <3> QED
      BY <1>6, <2>1, <2>2, <3>1
  <2> QED
    BY <1>1, <1>2, <2>1, <2>2 DEF Private
<1>13. Memory(c)'
  <2>1. ASSUME NEW m \in Nodes
        PROVE  Live(c, m)' <=> Live(c, m)
    <3>1. (\E q \in Producers : at'[q] = "exchange" /\ node'[q] = m)
          <=> (\E q \in Producers : at[q] = "exchange" /\ node[q] = m)
      BY <1>1, <1>8
    <3> QED
      BY <1>1, <3>1 DEF Live
  <2> QED
    BY <1>1, <1>2, <2>1 DEF Memory
<1>14. Finds(c)'
  <2>1. CASE k = 1
    BY <1>5, <1>6, <2>1 DEF Finds
  <2>2. CASE k # 1
    <3>1. c[1] # c[k] /\ c[1] \in Nodes
      BY <1>3, <1>5, <2>2
    <3> QED
      BY <1>1, <1>2, <1>6, <3>1 DEF Finds
  <2> QED
    BY <2>1, <2>2
<1>15. Closing(c)'
  BY <1>1, <1>2, <1>8 DEF Closing
<1> QED
  BY <1>7, <1>9, <1>10, <1>11, <1>12, <1>13, <1>14, <1>15 DEF Shape

-----------------------------------------------------------------------------
(* Dequeue and the destructor                                              *)

LEMMA FindNextShape ==
    ASSUME TypeOK, NEW c, Shape(c), FindNext \/ Destroy
    PROVE  TypeOK' /\ Shape(c)'
<1>1. /\ List(c) /\ Contents(c) /\ Linked(c) /\ Linking(c) /\ Private(c)
      /\ Memory(c) /\ Finds(c) /\ Closing(c)
  BY DEF Shape
<1>2. /\ consumer = "idle" /\ mode # "destroyed"
      /\ UNCHANGED <<head, tail, next, data, allocated, at, node, prevHead, old, order, taken>>
      /\ \/ consumer' = "found" /\ UNCHANGED mode /\ next[tail] # Null
         \/ /\ UNCHANGED consumer /\ mode' = "destroying"
            /\ \A p \in Producers : at[p] = "idle"
  BY DEF FindNext, Destroy, producer
<1>3. TypeOK' /\ List(c)' /\ Contents(c)' /\ Linked(c)' /\ Linking(c)'
  BY <1>1, <1>2 DEF TypeOK, List, Contents, Linked, Linking
<1>4. Private(c)'
  BY <1>1, <1>2 DEF Private
<1>5. Memory(c)'
  BY <1>1, <1>2 DEF Memory, Live
<1>6. Finds(c)' /\ Closing(c)'
  BY <1>1, <1>2 DEF Finds, Closing, List
<1> QED
  BY <1>3, <1>4, <1>5, <1>6 DEF Shape

\* The first node leaves the list: nobody is about to store its link.
LEMMA MoveTailShape ==
    ASSUME TypeOK, History, NEW c, Shape(c), Null \notin Nodes, MoveTail
    PROVE  /\ TypeOK' /\ History'
           /\ Tail(c) \in Seq(Nodes) /\ Shape(Tail(c))'
           /\ Len(taken) < Len(order) /\ taken' = Append(taken, order[Len(taken) + 1])
<1>1. /\ consumer = "found" /\ taken' = Append(taken, data[next[tail]]) /\ tail' = next[tail] /\ old' = tail
      /\ consumer' = "moved"
      /\ UNCHANGED <<head, next, data, allocated, at, node, prevHead, mode, order>>
  BY DEF MoveTail, producer
<1>2. /\ List(c) /\ Contents(c) /\ Linked(c) /\ Linking(c) /\ Private(c)
      /\ Memory(c) /\ Finds(c) /\ Closing(c)
  BY DEF Shape
<1>3. /\ c \in Seq(Nodes) /\ Len(c) \in Nat \ {0} /\ c[1] = tail /\ c[Len(c)] = head
      /\ \A i \in 1 .. Len(c) : c[i] \in Nodes
      /\ \A i, j \in 1 .. Len(c) : c[i] = c[j] => i = j
  BY <1>2, ListFacts
<1>4. next[c[1]] # Null /\ Len(c) > 1 /\ next[c[1]] = c[2]
  <2>1. next[c[1]] # Null
    BY <1>1, <1>2 DEF Finds
  <2>2. Len(c) # 1
    BY <1>2, <2>1 DEF Linked
  <2> QED
    BY <1>2, <1>3, <2>1, <2>2 DEF Linked
<1>5. PICK d : d = Tail(c)
  OBVIOUS
<1>6. /\ d \in Seq(Nodes) /\ Len(d) = Len(c) - 1
      /\ \A i \in 1 .. Len(c) - 1 : d[i] = c[i + 1]
  BY <1>3, <1>5, TailFacts
<1>7. \A i \in 1 .. Len(d) : i + 1 \in 1 .. Len(c) /\ i + 1 # 1 /\ d[i] = c[i + 1]
  BY <1>3, <1>6
<1>8. Len(taken) \in Nat /\ Len(order) \in Nat /\ taken \in Seq(Items) /\ order \in Seq(Items)
  BY DEF TypeOK
<1>9. Len(taken) < Len(order) /\ data[c[2]] = order[Len(taken) + 1]
  <2>1. Len(order) = Len(taken) + Len(c) - 1 /\ data[c[2]] = order[Len(taken) + 2 - 1]
    BY <1>2, <1>3, <1>4 DEF Contents
  <2> QED
    BY <1>3, <1>4, <1>8, <2>1
<1>10. taken' = Append(taken, order[Len(taken) + 1]) /\ order[Len(taken) + 1] \in Items
  BY <1>1, <1>3, <1>4, <1>8, <1>9
<1>11. /\ taken' \in Seq(Items) /\ Len(taken') = Len(taken) + 1
       /\ taken'[Len(taken) + 1] = order[Len(taken) + 1]
       /\ \A i \in 1 .. Len(taken) : taken'[i] = taken[i]
  BY <1>8, <1>10, AppendFacts
<1>12. tail' = c[2] /\ c[2] \in Nodes /\ old' = c[1] /\ c[1] \in Nodes
  BY <1>1, <1>3, <1>4
<1>13. TypeOK'
  BY <1>1, <1>11, <1>12 DEF TypeOK
<1>14. History'
  <2>1. \A i \in 1 .. Len(taken') : i \in 1 .. Len(taken) \/ i = Len(taken) + 1
    BY <1>8, <1>11
  <2> QED
    BY <1>1, <1>8, <1>9, <1>11, <2>1 DEF History
<1>15. List(d)'
  <2>1. \A i, j \in 1 .. Len(d) : d[i] = d[j] => i = j
    <3> TAKE i, j \in 1 .. Len(d)
    <3> HAVE d[i] = d[j]
    <3>1. i + 1 = j + 1
      BY <1>3, <1>7
    <3> QED
      BY <3>1
  <2>2. d[1] = tail' /\ d[Len(d)] = head' /\ Len(d) > 0
    BY <1>1, <1>3, <1>4, <1>6, <1>12
  <2> QED
    BY <1>6, <2>1, <2>2 DEF List
<1>16. Contents(d)'
  <2>1. Len(order') = Len(taken') + Len(d) - 1
    BY <1>1, <1>2, <1>3, <1>6, <1>8, <1>11 DEF Contents
  <2>2. ASSUME NEW i \in 2 .. Len(d)
        PROVE  data'[d[i]] = order'[Len(taken') + i - 1]
    <3>1. i + 1 \in 2 .. Len(c) /\ d[i] = c[i + 1] /\ Len(taken) + (i + 1) - 1 = Len(taken') + i - 1
      BY <1>3, <1>6, <1>8, <1>11
    <3>2. data[c[i + 1]] = order[Len(taken) + (i + 1) - 1]
      BY <1>2, <3>1 DEF Contents
    <3> QED
      BY <1>1, <3>1, <3>2
  <2> QED
    BY <2>1, <2>2 DEF Contents
<1>17. Linked(d)'
  <2>1. next'[d[Len(d)]] = Null
    BY <1>1, <1>2, <1>3, <1>4, <1>6 DEF Linked
  <2>2. ASSUME NEW i \in 1 .. Len(d) - 1
        PROVE  \/ next'[d[i]] = d[i + 1]
               \/ next'[d[i]] = Null /\ \E q \in Producers : at'[q] = "link" /\ prevHead'[q] = d[i]
    <3>1. i + 1 \in 1 .. Len(c) - 1 /\ d[i] = c[i + 1] /\ d[i + 1] = c[(i + 1) + 1]
      BY <1>3, <1>6
    <3> QED
      BY <1>1, <1>2, <3>1 DEF Linked
  <2> QED
    BY <2>1, <2>2 DEF Linked
<1>18. Linking(d)'
  <2>1. ASSUME NEW q \in Producers, at'[q] = "link"
        PROVE  \E i \in 1 .. Len(d) - 1 : prevHead'[q] = d[i] /\ node'[q] = d[i + 1] /\ next'[d[i]] = Null
    <3>1. PICK i \in 1 .. Len(c) - 1 : prevHead[q] = c[i] /\ node[q] = c[i + 1] /\ next[c[i]] = Null
      BY <1>1, <1>2, <2>1 DEF Linking
    <3>2. i # 1
      BY <1>4, <3>1
    <3>3. i - 1 \in 1 .. Len(d) - 1 /\ d[i - 1] = c[i] /\ d[(i - 1) + 1] = c[i + 1]
      BY <1>3, <1>6, <3>2
    <3> QED
      BY <1>1, <3>1, <3>3
  <2> QED
    BY <1>1, <1>2, <2>1 DEF Linking
<1>19. Private(d)'
  <2>1. ASSUME NEW q \in Producers, at[q] = "exchange"
        PROVE  node[q] # c[1] /\ \A i \in 1 .. Len(d) : d[i] # node[q]
    BY <1>2, <1>3, <1>7, <2>1 DEF Private
  <2>2. \A i \in 1 .. Len(d) : d[i] # c[1]
    <3> TAKE i \in 1 .. Len(d)
    <3> QED
      BY <1>3, <1>7
  <2> QED
    BY <1>1, <1>2, <1>12, <2>1, <2>2 DEF Private
<1>20. Memory(d)'
  <2>1. ASSUME NEW m \in Nodes
        PROVE  Live(d, m)' <=> Live(c, m)
    <3>1. (\E i \in 1 .. Len(c) : c[i] = m) <=> (\E i \in 1 .. Len(d) : d[i] = m) \/ m = c[1]
      <4>1. ASSUME NEW i \in 1 .. Len(c), c[i] = m
            PROVE  (\E j \in 1 .. Len(d) : d[j] = m) \/ m = c[1]
        <5>1. CASE i = 1
          BY <4>1, <5>1
        <5>2. CASE i # 1
          <6>1. i - 1 \in 1 .. Len(d) /\ d[i - 1] = c[(i - 1) + 1] /\ (i - 1) + 1 = i
            BY <1>3, <1>6, <5>2
          <6> QED
            BY <4>1, <6>1
        <5> QED
          BY <5>1, <5>2
      <4>2. ASSUME NEW i \in 1 .. Len(d), d[i] = m
            PROVE  \E j \in 1 .. Len(c) : c[j] = m
        BY <1>7, <4>2
      <4>3. m = c[1] => \E j \in 1 .. Len(c) : c[j] = m
        BY <1>3
      <4> QED
        BY <4>1, <4>2, <4>3
    <3> QED
      BY <1>1, <1>12, <3>1 DEF Live
  <2> QED
    BY <1>1, <1>2, <2>1 DEF Memory
<1>21. Finds(d)' /\ Closing(d)'
  BY <1>1, <1>2 DEF Finds, Closing
<1> QED
  BY <1>5, <1>6, <1>9, <1>10, <1>13, <1>14, <1>15, <1>16, <1>17, <1>18, <1>19, <1>20, <1>21 DEF Shape

LEMMA DeleteTailShape ==
    ASSUME TypeOK, NEW c, Shape(c), DeleteTail
    PROVE  TypeOK' /\ Shape(c)'
<1>1. /\ consumer = "moved" /\ allocated' = allocated \ {old} /\ consumer' = "idle" /\ old' = Null
      /\ UNCHANGED <<head, tail, next, data, at, node, prevHead, mode, order, taken>>
  BY DEF DeleteTail, producer
<1>2. /\ List(c) /\ Contents(c) /\ Linked(c) /\ Linking(c) /\ Private(c)
      /\ Memory(c) /\ Finds(c) /\ Closing(c)
  BY DEF Shape
<1>3. TypeOK' /\ List(c)' /\ Contents(c)' /\ Linked(c)' /\ Linking(c)'
  BY <1>1, <1>2 DEF TypeOK, List, Contents, Linked, Linking
<1>4. Private(c)'
  BY <1>1, <1>2 DEF Private
<1>5. Memory(c)'
  <2>1. ASSUME NEW m \in Nodes
        PROVE  Live(c, m)' <=> Live(c, m) /\ m # old
    BY <1>1, <1>2 DEF Live, Private
  <2> QED
    BY <1>1, <1>2, <2>1 DEF Memory
<1>6. Finds(c)' /\ Closing(c)'
  BY <1>1, <1>2 DEF Finds, Closing
<1> QED
  BY <1>3, <1>4, <1>5, <1>6 DEF Shape

\* With no producer about, Dequeue has returned false for an empty list.
LEMMA DeleteFrontShape ==
    ASSUME TypeOK, NEW c, Shape(c), Null \notin Nodes, DeleteFront
    PROVE  TypeOK' /\ Shape(c)'
<1>1. /\ mode = "destroying" /\ consumer = "idle" /\ next[tail] = Null
      /\ allocated' = allocated \ {head} /\ mode' = "destroyed"
      /\ UNCHANGED <<head, tail, next, data, at, node, prevHead, consumer, old, order, taken>>
  BY DEF DeleteFront, producer
<1>2. /\ List(c) /\ Contents(c) /\ Linked(c) /\ Linking(c) /\ Private(c)
      /\ Memory(c) /\ Finds(c) /\ Closing(c)
  BY DEF Shape
<1>3. /\ Len(c) \in Nat \ {0} /\ c[1] = tail /\ c[Len(c)] = head
      /\ \A i \in 1 .. Len(c) : c[i] \in Nodes
      /\ \A i, j \in 1 .. Len(c) : c[i] = c[j] => i = j
  BY <1>2, ListFacts
<1>4. \A p \in Producers : at[p] = "idle"
  BY <1>1, <1>2 DEF Closing
<1>5. Len(c) = 1
  <2>1. CASE Len(c) # 1
    <3>1. 1 \in 1 .. Len(c) - 1 /\ 1 + 1 \in 1 .. Len(c)
      BY <1>3, <2>1
    <3>2. next[c[1]] = c[1 + 1]
      BY <1>2, <1>4, <3>1 DEF Linked
    <3>3. c[1 + 1] \in Nodes /\ next[c[1]] = Null
      BY <1>1, <1>3, <3>1
    <3> QED
      BY <3>2, <3>3
  <2> QED
    BY <2>1
<1>6. TypeOK' /\ List(c)' /\ Contents(c)' /\ Linked(c)' /\ Linking(c)'
  BY <1>1, <1>2 DEF TypeOK, List, Contents, Linked, Linking
<1>7. Private(c)'
  BY <1>1, <1>2 DEF Private
<1>8. Memory(c)'
  <2>1. ASSUME NEW m \in Nodes, m \in allocated
        PROVE  m = head
    BY <1>1, <1>2, <1>3, <1>4, <1>5, <2>1 DEF Memory, Live
  <2> QED
    BY <1>1, <2>1 DEF Memory, Live
<1>9. Finds(c)' /\ Closing(c)'
  BY <1>1, <1>2, <1>4, <1>5 DEF Finds, Closing
<1> QED
  BY <1>6, <1>7, <1>8, <1>9 DEF Shape
-----------------------------------------------------------------------------
(* The specification                                                       *)

LEMMA InitInv ==
    ASSUME Init
    PROVE  Inv
<1>1. PICK n \in Nodes :
        /\ head = n /\ tail = n /\ allocated = {n}
        /\ next = [m \in Nodes |-> Null] /\ data = [m \in Nodes |-> Garbage]
        /\ at = [p \in Producers |-> "idle"]
        /\ node = [p \in Producers |-> Null] /\ prevHead = [p \in Producers |-> Null]
        /\ consumer = "idle" /\ old = Null /\ mode = "open" /\ order = <<>> /\ taken = <<>>
  BY DEF Init
<1>2. TypeOK
  BY <1>1 DEF TypeOK
<1>3. Len(taken) = 0 /\ Len(order) = 0
  BY <1>1
<1>4. PICK c : c = <<n>>
  OBVIOUS
<1>5. c \in Seq(Nodes) /\ Len(c) = 1 /\ c[1] = n
  BY <1>4
<1>6. \A i \in 1 .. Len(c) : i = 1 /\ c[i] = n
  BY <1>5
<1>7. List(c) /\ Contents(c) /\ Linked(c) /\ Linking(c)
  BY <1>1, <1>3, <1>5, <1>6 DEF List, Contents, Linked, Linking
<1>8. Private(c) /\ Memory(c) /\ Finds(c) /\ Closing(c)
  BY <1>1, <1>5, <1>6 DEF Private, Memory, Live, Finds, Closing
<1>9. History
  BY <1>3 DEF History
<1> QED
  BY <1>2, <1>5, <1>7, <1>8, <1>9 DEF Inv, Shape

\* The inductive invariant is kept by every step.
LEMMA NextInv ==
    ASSUME Null \notin Nodes, Inv, [Next]_vars
    PROVE  Inv'
<1>1. TypeOK /\ History
  BY DEF Inv
<1>2. PICK c \in Seq(Nodes) : Shape(c)
  BY DEF Inv
<1>3. ASSUME TypeOK' /\ Shape(c)', UNCHANGED <<order, taken>>
      PROVE  Inv'
  <2>1. History'
    BY <1>1, <1>3 DEF History
  <2> QED
    BY <1>3, <2>1 DEF Inv
<1>4. ASSUME NEW p \in Producers, NEW x \in Items, NewNode(p, x)
      PROVE  Inv'
  <2>1. UNCHANGED <<order, taken>>
    BY <1>4 DEF NewNode
  <2> QED
    BY <1>1, <1>2, <1>3, <1>4, <2>1, NewNodeShape
<1>5. ASSUME NEW p \in Producers, Exchange(p)
      PROVE  Inv'
  <2>1. PICK d : d = Append(c, node[p])
    OBVIOUS
  <2>2. TypeOK' /\ History' /\ d \in Seq(Nodes) /\ Shape(d)'
    BY <1>1, <1>2, <1>5, <2>1, ExchangeShape
  <2> QED
    BY <2>2 DEF Inv
<1>6. ASSUME NEW p \in Producers, Link(p)
      PROVE  Inv'
  <2>1. UNCHANGED <<order, taken>>
    BY <1>6 DEF Link
  <2> QED
    BY <1>1, <1>2, <1>3, <1>6, <2>1, LinkShape
<1>7. CASE FindNext \/ Destroy
  <2>1. UNCHANGED <<order, taken>>
    BY <1>7 DEF FindNext, Destroy
  <2> QED
    BY <1>1, <1>2, <1>3, <1>7, <2>1, FindNextShape
<1>8. CASE MoveTail
  BY <1>1, <1>2, <1>8, MoveTailShape DEF Inv
<1>9. CASE DeleteTail
  <2>1. UNCHANGED <<order, taken>>
    BY <1>9 DEF DeleteTail
  <2> QED
    BY <1>1, <1>2, <1>3, <1>9, <2>1, DeleteTailShape
<1>10. CASE DeleteFront
  <2>1. UNCHANGED <<order, taken>>
    BY <1>10 DEF DeleteFront
  <2> QED
    BY <1>1, <1>2, <1>3, <1>10, <2>1, DeleteFrontShape
<1>11. CASE UNCHANGED vars
  <2>1. TypeOK' /\ Shape(c)' /\ UNCHANGED <<order, taken>>
    BY <1>1, <1>2, <1>11 DEF vars, producer, TypeOK, Shape, List, Contents, Linked, Linking,
       Private, Memory, Live, Finds, Closing
  <2> QED
    BY <1>3, <2>1
<1> QED
  BY <1>4, <1>5, <1>6, <1>7, <1>8, <1>9, <1>10, <1>11 DEF Next, Enqueue, Dequeue

\* What the invariant is for.
LEMMA InvSafe ==
    ASSUME Inv
    PROVE  NoUseAfterFree /\ NothingLeaked
<1>1. TypeOK /\ History
  BY DEF Inv
<1>2. PICK c \in Seq(Nodes) : Shape(c)
  BY DEF Inv
<1>3. /\ List(c) /\ Contents(c) /\ Linked(c) /\ Linking(c) /\ Private(c)
      /\ Memory(c) /\ Finds(c) /\ Closing(c)
  BY <1>2 DEF Shape
<1>4. /\ Len(c) \in Nat \ {0} /\ c[1] = tail /\ c[Len(c)] = head
      /\ \A i \in 1 .. Len(c) : c[i] \in Nodes
  BY <1>3, ListFacts
<1>5. ASSUME mode # "destroyed", NEW i \in 1 .. Len(c)
      PROVE  c[i] \in allocated
  BY <1>3, <1>4, <1>5 DEF Memory, Live
<1>6. mode = "destroyed" => \A p \in Producers : at[p] = "idle"
  BY <1>3 DEF Closing
<1>7. NoUseAfterFree
  <2>1. mode # "destroyed" => {head, tail} \subseteq allocated
    <3>1. 1 \in 1 .. Len(c) /\ Len(c) \in 1 .. Len(c)
      BY <1>4
    <3> QED
      BY <1>4, <1>5, <3>1
  <2>2. ASSUME NEW p \in Producers, at[p] = "link"
        PROVE  prevHead[p] \in allocated /\ node[p] \in allocated
    <3>1. PICK i \in 1 .. Len(c) - 1 : prevHead[p] = c[i] /\ node[p] = c[i + 1]
      BY <1>3, <2>2 DEF Linking
    <3>2. i \in 1 .. Len(c) /\ i + 1 \in 1 .. Len(c)
      BY <1>4
    <3> QED
      BY <1>5, <1>6, <2>2, <3>1, <3>2
  <2>3. ASSUME NEW p \in Producers, at[p] = "exchange"
        PROVE  node[p] \in allocated
    BY <1>3, <1>6, <2>3 DEF Private, Memory, Live
  <2>4. consumer = "found" => next[tail] \in allocated
    <3> HAVE consumer = "found"
    <3>1. next[c[1]] # Null
      BY <1>3 DEF Finds
    <3>2. Len(c) # 1
      BY <1>3, <3>1 DEF Linked
    <3>3. 1 \in 1 .. Len(c) - 1 /\ 1 + 1 \in 1 .. Len(c)
      <4>1. PICK n \in Nat \ {0} : n = Len(c)
        BY <1>4
      <4>2. n > 1
        BY <3>2, <4>1
      <4> QED
        BY <4>1, <4>2
    <3>4. next[c[1]] = c[1 + 1]
      BY <1>3, <3>1, <3>3 DEF Linked
    <3>5. mode # "destroyed"
      BY <1>3 DEF Closing
    <3> QED
      BY <1>4, <1>5, <3>3, <3>4, <3>5
  <2>5. \A p \in Producers : at[p] \in {"idle", "exchange", "link"}
    BY <1>1 DEF TypeOK
  <2> QED
    BY <2>1, <2>2, <2>3, <2>4, <2>5 DEF NoUseAfterFree
<1>8. NothingLeaked
  <2> SUFFICES ASSUME mode = "destroyed"
               PROVE  allocated = {} /\ taken = order
    BY DEF NothingLeaked
  <2>1. allocated = {}
    BY <1>1, <1>3 DEF Memory, Live, TypeOK
  <2>2. Len(taken) \in Nat /\ Len(order) \in Nat /\ taken \in Seq(Items) /\ order \in Seq(Items)
    BY <1>1 DEF TypeOK
  <2>3. Len(c) = 1
    BY <1>3 DEF Closing
  <2>4. Len(taken) = Len(order)
    BY <1>3, <2>2, <2>3 DEF Contents
  <2>5. \A i \in 1 .. Len(taken) : taken[i] = order[i]
    BY <1>1 DEF History
  <2> QED
    BY <2>1, <2>2, <2>4, <2>5, SeqEqual
<1> QED
  BY <1>7, <1>8

-----------------------------------------------------------------------------
(* Every step is one of the abstract queue, or none at all.                *)

LEMMA EnqueuedAtEnd ==
    ASSUME NEW S, NEW s \in Seq(S), NEW n \in Nat, n <= Len(s), NEW e \in S
    PROVE  SubSeq(Append(s, e), n + 1, Len(Append(s, e))) = Append(SubSeq(s, n + 1, Len(s)), e)
<1>1. PICK m \in Nat : m = Len(s)
  OBVIOUS
<1>2. PICK t : t = Append(s, e)
  OBVIOUS
<1>3. /\ t \in Seq(S) /\ Len(t) = m + 1 /\ t[m + 1] = e
      /\ \A i \in 1 .. m : t[i] = s[i]
  BY <1>1, <1>2, AppendFacts
<1>4. PICK a : a = SubSeq(t, n + 1, m + 1)
  OBVIOUS
<1>5. PICK b : b = SubSeq(s, n + 1, m)
  OBVIOUS
<1>6. a \in Seq(S) /\ Len(a) = m + 1 - n /\ \A i \in 1 .. m + 1 - n : a[i] = t[n + i]
  BY <1>1, <1>3, <1>4
<1>7. b \in Seq(S) /\ Len(b) = m - n /\ \A i \in 1 .. m - n : b[i] = s[n + i]
  BY <1>1, <1>5
<1>8. PICK d : d = Append(b, e)
  OBVIOUS
<1>9. /\ d \in Seq(S) /\ Len(d) = m - n + 1 /\ d[m - n + 1] = e
      /\ \A i \in 1 .. m - n : d[i] = b[i]
  BY <1>7, <1>8, AppendFacts
<1>10. ASSUME NEW i \in 1 .. Len(a)
       PROVE  a[i] = d[i]
  <2>1. CASE i = m - n + 1
    <3>1. a[i] = t[n + i] /\ n + i = m + 1
      BY <1>1, <1>6, <2>1
    <3> QED
      BY <1>3, <1>9, <2>1, <3>1
  <2>2. CASE i # m - n + 1
    <3>1. i \in 1 .. m - n /\ n + i \in 1 .. m
      BY <1>1, <1>6, <2>2
    <3>2. a[i] = t[n + i]
      BY <1>1, <1>6
    <3> QED
      BY <1>3, <1>7, <1>9, <3>1, <3>2
  <2> QED
    BY <2>1, <2>2
<1>11. Len(a) = Len(d)
  BY <1>1, <1>6, <1>9
<1>12. a = d
  BY <1>6, <1>9, <1>10, <1>11, SeqEqual
<1> QED
  BY <1>1, <1>2, <1>3, <1>4, <1>5, <1>8, <1>12

LEMMA DequeuedAtFront ==
    ASSUME NEW S, NEW s \in Seq(S), NEW n \in Nat, n < Len(s)
    PROVE  /\ SubSeq(s, n + 1, Len(s)) # <<>>
           /\ Head(SubSeq(s, n + 1, Len(s))) = s[n + 1]
           /\ Tail(SubSeq(s, n + 1, Len(s))) = SubSeq(s, (n + 1) + 1, Len(s))
<1>1. PICK m \in Nat : m = Len(s)
  OBVIOUS
<1>2. PICK a : a = SubSeq(s, n + 1, m)
  OBVIOUS
<1>3. PICK b : b = SubSeq(s, (n + 1) + 1, m)
  OBVIOUS
<1>4. a \in Seq(S) /\ Len(a) = m - n /\ \A i \in 1 .. m - n : a[i] = s[n + i]
  BY <1>1, <1>2, SMTT(60)
<1>5. b \in Seq(S) /\ Len(b) = m - n - 1 /\ \A i \in 1 .. m - n - 1 : b[i] = s[(n + 1) + i]
  BY <1>1, <1>3
<1>6. a # <<>>
  BY <1>1, <1>4
<1>7. Head(a) = a[1] /\ a[1] = s[n + 1]
  BY <1>1, <1>4, <1>6, TailFacts
<1>8. PICK d : d = Tail(a)
  OBVIOUS
<1>9. d \in Seq(S) /\ Len(d) = m - n - 1 /\ \A i \in 1 .. m - n - 1 : d[i] = a[i + 1]
  BY <1>1, <1>4, <1>6, <1>8, TailFacts
<1>10. ASSUME NEW i \in 1 .. m - n - 1
       PROVE  d[i] = b[i]
  <2>1. i + 1 \in 1 .. m - n /\ n + (i + 1) = (n + 1) + i
    BY <1>1
  <2>2. a[i + 1] = s[n + (i + 1)]
    BY <1>4, <2>1
  <2> QED
    BY <1>5, <1>9, <2>1, <2>2
<1>11. d = b
  BY <1>1, <1>5, <1>9, <1>10, SeqEqual
<1> QED
  BY <1>1, <1>2, <1>3, <1>6, <1>7, <1>8, <1>11

LEMMA InitFifo ==
    ASSUME Init
    PROVE  Queued = <<>> /\ taken = <<>>
<1>1. order = <<>> /\ taken = <<>>
  BY DEF Init
<1>2. Len(order) = 0 /\ Len(taken) = 0
  BY <1>1
<1> QED
  BY <1>1, <1>2 DEF Queued

\* An exchange appends, the move of _tail takes from the front, and no other
\* step is seen.
LEMMA NextFifo ==
    ASSUME Null \notin Nodes, Inv, [Next]_vars
    PROVE  \/ \E x \in Items : Queued' = Append(Queued, x) /\ taken' = taken
           \/ /\ Queued # <<>> /\ taken' = Append(taken, Head(Queued))
              /\ Queued' = Tail(Queued)
           \/ UNCHANGED <<Queued, taken>>
<1>1. TypeOK /\ History
  BY DEF Inv
<1>2. PICK c \in Seq(Nodes) : Shape(c)
  BY DEF Inv
<1>3. Len(taken) \in Nat /\ Len(order) \in Nat /\ taken \in Seq(Items) /\ order \in Seq(Items)
  BY <1>1 DEF TypeOK
<1>4. ASSUME UNCHANGED <<order, taken>>
      PROVE  UNCHANGED <<Queued, taken>>
  BY <1>4 DEF Queued
<1>5. ASSUME NEW p \in Producers, Exchange(p)
      PROVE  \E x \in Items : Queued' = Append(Queued, x) /\ taken' = taken
  <2>1. PICK x : x = data[node[p]]
    OBVIOUS
  <2>2. x \in Items
    BY <1>2, <1>5, <2>1 DEF Exchange, Shape, Private
  <2>3. order' = Append(order, x) /\ taken' = taken
    BY <1>5, <2>1 DEF Exchange
  <2>4. Len(taken) <= Len(order)
    BY <1>1 DEF History
  <2>5. SubSeq(Append(order, x), Len(taken) + 1, Len(Append(order, x)))
          = Append(SubSeq(order, Len(taken) + 1, Len(order)), x)
    BY <1>3, <2>2, <2>4, EnqueuedAtEnd
  <2>6. Queued' = Append(Queued, x)
    BY <2>3, <2>5 DEF Queued
  <2> QED
    BY <2>2, <2>3, <2>6
<1>6. ASSUME MoveTail
      PROVE  /\ Queued # <<>> /\ taken' = Append(taken, Head(Queued))
             /\ Queued' = Tail(Queued)
  <2>1. /\ Len(taken) < Len(order) /\ taken' = Append(taken, order[Len(taken) + 1])
        /\ order' = order
    BY <1>1, <1>2, <1>6, MoveTailShape DEF MoveTail
  <2>2. /\ SubSeq(order, Len(taken) + 1, Len(order)) # <<>>
        /\ Head(SubSeq(order, Len(taken) + 1, Len(order))) = order[Len(taken) + 1]
        /\ Tail(SubSeq(order, Len(taken) + 1, Len(order)))
              = SubSeq(order, (Len(taken) + 1) + 1, Len(order))
    BY <1>3, <2>1, DequeuedAtFront
  <2>3. order[Len(taken) + 1] \in Items
    BY <1>3, <2>1
  <2>4. Len(taken') = Len(taken) + 1
    BY <1>3, <2>1, <2>3, AppendFacts
  <2> QED
    BY <2>1, <2>2, <2>4 DEF Queued
<1> QED
  <2>1. (\E p \in Producers : Exchange(p)) \/ MoveTail \/ UNCHANGED <<order, taken>>
    BY DEF Next, Enqueue, Dequeue, NewNode, Link, FindNext, DeleteTail, Destroy, DeleteFront, vars
  <2> QED
    BY <1>4, <1>5, <1>6, <2>1
=============================================================================
