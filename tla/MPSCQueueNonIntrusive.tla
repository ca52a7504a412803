------------------------ MODULE MPSCQueueNonIntrusive ------------------------
(***************************************************************************)
(* The lock-free queue of common/Threading/MPSCQueue.h that allocates its  *)
(* nodes: any number of producers, one consumer, a step for each access to *)
(* shared memory.  The address of a deleted node may be given out again by *)
(* the next new, so a pointer kept too long would be seen to go astray.    *)
(*                                                                         *)
(* Every load and store that hands a node over is acquire or release and   *)
(* the exchange is both, so steps are taken one after the other.           *)
(***************************************************************************)
EXTENDS Integers, Sequences, FiniteSets, SequencesExt

CONSTANTS
    Producers,   \* threads that call Enqueue
    Items,       \* what they enqueue, each item once
    Nodes,       \* bound: addresses the allocator hands out
    Null,        \* nullptr
    Garbage      \* Data of a node that never got any

VARIABLES
    head,        \* _head
    tail,        \* _tail, which only the consumer uses
    next,        \* Next of each node
    data,        \* Data of each node
    allocated,   \* addresses of live nodes
    at,          \* where each producer is inside Enqueue
    node,        \* its local node
    prevHead,    \* its local prevHead
    consumer,    \* where the consumer is inside Dequeue
    old,         \* its local tail, once _tail has moved on
    mode,        \* "open", "destroying" (in the destructor) or "destroyed"
    order,       \* history: the items in the order of the exchanges
    taken        \* history: the items Dequeue returned

producer == <<at, node, prevHead>>
vars == <<head, tail, next, data, allocated, producer, consumer, old, mode,
          order, taken>>

TypeOK ==
    /\ head \in Nodes /\ tail \in Nodes
    /\ next \in [Nodes -> Nodes \cup {Null}]
    /\ data \in [Nodes -> Items \cup {Garbage}]
    /\ allocated \subseteq Nodes
    /\ at \in [Producers -> {"idle", "exchange", "link"}]
    /\ node \in [Producers -> Nodes \cup {Null}]
    /\ prevHead \in [Producers -> Nodes \cup {Null}]
    /\ consumer \in {"idle", "found", "moved"}
    /\ old \in Nodes \cup {Null}
    /\ mode \in {"open", "destroying", "destroyed"}
    /\ order \in Seq(Items)
    /\ taken \in Seq(Items)

\* The constructor: one node, without data and without a next.
Init ==
    \E n \in Nodes :
        /\ head = n /\ tail = n
        /\ next = [m \in Nodes |-> Null]
        /\ data = [m \in Nodes |-> Garbage]
        /\ allocated = {n}
        /\ at = [p \in Producers |-> "idle"]
        /\ node = [p \in Producers |-> Null]
        /\ prevHead = [p \in Producers |-> Null]
        /\ consumer = "idle"
        /\ old = Null
        /\ mode = "open"
        /\ order = <<>>
        /\ taken = <<>>

-----------------------------------------------------------------------------
(* Enqueue                                                                 *)

\* Items in the queue, on their way in or out of it.
Used == ToSet(order) \cup {data[node[p]] : p \in {q \in Producers : at[q] # "idle"}}

\* Enqueue(x) begins: new Node(input), not yet visible to anybody else.
NewNode(p, x) ==
    /\ mode = "open"
    /\ at[p] = "idle"
    /\ x \notin Used
    /\ \E n \in Nodes \ allocated :
          /\ allocated' = allocated \cup {n}
          /\ data' = [data EXCEPT ![n] = x]
          /\ next' = [next EXCEPT ![n] = Null]
          /\ node' = [node EXCEPT ![p] = n]
    /\ at' = [at EXCEPT ![p] = "exchange"]
    /\ UNCHANGED <<head, tail, prevHead, consumer, old, mode, order, taken>>

\* _head.exchange: from here on the item has its place in the order.
Exchange(p) ==
    /\ at[p] = "exchange"
    /\ prevHead' = [prevHead EXCEPT ![p] = head]
    /\ head' = node[p]
    /\ order' = Append(order, data[node[p]])
    /\ at' = [at EXCEPT ![p] = "link"]
    /\ UNCHANGED <<tail, next, data, allocated, node, consumer, old, mode, taken>>

\* prevHead->Next.store: the item becomes reachable.
Link(p) ==
    /\ at[p] = "link"
    /\ next' = [next EXCEPT ![prevHead[p]] = node[p]]
    /\ at' = [at EXCEPT ![p] = "idle"]
    /\ node' = [node EXCEPT ![p] = Null]
    /\ prevHead' = [prevHead EXCEPT ![p] = Null]
    /\ UNCHANGED <<head, tail, data, allocated, consumer, old, mode, order, taken>>

-----------------------------------------------------------------------------
(* Dequeue, and the destructor, which calls it until it returns false      *)

\* The consumer finds a successor of _tail; if there is none it returns false.
FindNext ==
    /\ mode # "destroyed"
    /\ consumer = "idle"
    /\ next[tail] # Null
    /\ consumer' = "found"
    /\ UNCHANGED <<head, tail, next, data, allocated, producer, old, mode,
                   order, taken>>

\* The result is read from the successor, which becomes _tail.
MoveTail ==
    /\ consumer = "found"
    /\ taken' = Append(taken, data[next[tail]])
    /\ tail' = next[tail]
    /\ old' = tail
    /\ consumer' = "moved"
    /\ UNCHANGED <<head, next, data, allocated, producer, mode, order>>

\* The old tail is deleted and Dequeue returns true.
DeleteTail ==
    /\ consumer = "moved"
    /\ allocated' = allocated \ {old}
    /\ consumer' = "idle"
    /\ old' = Null
    /\ UNCHANGED <<head, tail, next, data, producer, mode, order, taken>>

\* The destructor begins, as in C++ only when nobody uses the queue any more.
Destroy ==
    /\ mode = "open"
    /\ consumer = "idle"
    /\ \A p \in Producers : at[p] = "idle"
    /\ mode' = "destroying"
    /\ UNCHANGED <<head, tail, next, data, allocated, producer, consumer, old,
                   order, taken>>

\* Dequeue has returned false: the node _head points to is deleted.
DeleteFront ==
    /\ mode = "destroying"
    /\ consumer = "idle"
    /\ next[tail] = Null
    /\ allocated' = allocated \ {head}
    /\ mode' = "destroyed"
    /\ UNCHANGED <<head, tail, next, data, producer, consumer, old, order, taken>>

Enqueue(p) == Exchange(p) \/ Link(p)

Dequeue == FindNext \/ MoveTail \/ DeleteTail

Next ==
    \/ \E p \in Producers : \/ \E x \in Items : NewNode(p, x)
                            \/ Enqueue(p)
    \/ Dequeue
    \/ Destroy
    \/ DeleteFront

Spec == Init /\ [][Next]_vars

-----------------------------------------------------------------------------
(* Properties                                                              *)

\* The items that have their place in the queue and have not come out.
Queued == SubSeq(order, Len(taken) + 1, Len(order))

\* No pointer that a step is about to follow leads to a deleted node: a
\* stalled producer's prevHead stays alive until it has been linked, whatever
\* the consumer deletes meanwhile.
NoUseAfterFree ==
    /\ mode # "destroyed" => {head, tail} \subseteq allocated
    /\ \A p \in Producers : at[p] # "idle" => node[p] \in allocated
    /\ \A p \in Producers : at[p] = "link" => prevHead[p] \in allocated
    /\ consumer = "found" => next[tail] \in allocated

\* The destructor deletes every node and finds every item left in the queue.
NothingLeaked == mode = "destroyed" => allocated = {} /\ taken = order

=============================================================================
