------------------------- MODULE MPSCQueueIntrusive -------------------------
(***************************************************************************)
(* The lock-free queue of common/Threading/MPSCQueue.h whose elements      *)
(* carry the link themselves: a step for each access to shared memory.     *)
(* The consumer keeps the list from running empty by enqueueing its one    *)
(* dummy element again, through the same Enqueue as the producers.  An     *)
(* element that has come out belongs to the consumer and may be enqueued   *)
(* again at once, so any later use of its link by the queue would show.    *)
(***************************************************************************)
EXTENDS Integers, Sequences, FiniteSets, SequencesExt

CONSTANTS
    Producers,    \* threads that call Enqueue
    Consumer,     \* the thread that calls Dequeue
    Items,        \* elements
    Dummy,        \* _dummyPtr
    Null,         \* nullptr
    MaxEnqueues   \* bound: calls of Enqueue by producers

VARIABLES
    head,        \* _head
    tail,        \* _tail, which only the consumer uses
    link,        \* IntrusiveLink of each element
    at,          \* where each thread is inside Enqueue
    input,       \* the element it enqueues
    prevHead,    \* its local prevHead
    consumer,    \* where the consumer is inside Dequeue
    mode,        \* "open", "destroying" (in the destructor) or "destroyed"
    order,       \* history: the elements in the order of the exchanges
    taken        \* history: the elements Dequeue returned

enqueue == <<at, input, prevHead>>
vars == <<head, tail, link, enqueue, consumer, mode, order, taken>>

Threads  == Producers \cup {Consumer}
Elements == Items \cup {Dummy}

TypeOK ==
    /\ head \in Elements /\ tail \in Elements
    /\ link \in [Elements -> Elements \cup {Null}]
    /\ at \in [Threads -> {"idle", "clear", "exchange", "link"}]
    /\ input \in [Threads -> Elements \cup {Null}]
    /\ prevHead \in [Threads -> Elements \cup {Null}]
    /\ consumer \in {"idle", "skipped", "head", "enqueue"}
    /\ mode \in {"open", "destroying", "destroyed"}
    /\ order \in Seq(Items) /\ Len(order) <= MaxEnqueues
    /\ taken \in Seq(Items)

\* The constructor: the dummy alone, with no successor.
Init ==
    /\ head = Dummy /\ tail = Dummy
    /\ link = [n \in Elements |-> Null]
    /\ at = [t \in Threads |-> "idle"]
    /\ input = [t \in Threads |-> Null]
    /\ prevHead = [t \in Threads |-> Null]
    /\ consumer = "idle"
    /\ mode = "open"
    /\ order = <<>>
    /\ taken = <<>>

-----------------------------------------------------------------------------
(* Enqueue                                                                 *)

\* The elements that have their place in the queue.
Queued == SubSeq(order, Len(taken) + 1, Len(order))

Busy == {t \in Producers : at[t] # "idle"}

\* Elements nobody has put into the queue, or that have come out again.
Free == Items \ (ToSet(Queued) \cup {input[t] : t \in Busy})

\* Thread t calls Enqueue(x).
Call(t, x) ==
    /\ at[t] = "idle"
    /\ at' = [at EXCEPT ![t] = "clear"]
    /\ input' = [input EXCEPT ![t] = x]
    /\ UNCHANGED <<head, tail, link, prevHead, mode, order, taken>>

\* A producer calls Enqueue with an element of its own.
Enqueue(t, x) ==
    /\ mode = "open"
    /\ t \in Producers /\ x \in Free
    /\ Len(order) + Cardinality({p \in Busy : at[p] # "link"}) < MaxEnqueues
    /\ Call(t, x)
    /\ consumer' = consumer

\* Mutant of ClearLink: the link keeps what it was.
ClearLinkMissing(t) ==
    /\ at[t] = "clear"
    /\ at' = [at EXCEPT ![t] = "exchange"]
    /\ UNCHANGED <<head, tail, link, input, prevHead, consumer, mode, order, taken>>

\* The link of the new element is set to nullptr.
ClearLink(t) ==
    /\ at[t] = "clear"
    /\ link' = [link EXCEPT ![input[t]] = Null]
    /\ at' = [at EXCEPT ![t] = "exchange"]
    /\ UNCHANGED <<head, tail, input, prevHead, consumer, mode, order, taken>>

\* _head.exchange: from here on the element has its place in the order.
Exchange(t) ==
    /\ at[t] = "exchange"
    /\ prevHead' = [prevHead EXCEPT ![t] = head]
    /\ head' = input[t]
    /\ order' = IF input[t] = Dummy THEN order ELSE Append(order, input[t])
    /\ at' = [at EXCEPT ![t] = "link"]
    /\ UNCHANGED <<tail, link, input, consumer, mode, taken>>

\* The link of the element before is stored: the new one becomes reachable.
Link(t) ==
    /\ at[t] = "link"
    /\ link' = [link EXCEPT ![prevHead[t]] = input[t]]
    /\ at' = [at EXCEPT ![t] = "idle"]
    /\ input' = [input EXCEPT ![t] = Null]
    /\ prevHead' = [prevHead EXCEPT ![t] = Null]
    /\ UNCHANGED <<head, tail, consumer, mode, order, taken>>

-----------------------------------------------------------------------------
(* Dequeue, and the destructor, which calls it until it returns false      *)

\* Dequeue returns false, which ends the destructor's loop.
ReturnFalse ==
    /\ consumer' = "idle"
    /\ mode' = IF mode = "destroying" THEN "destroyed" ELSE mode
    /\ UNCHANGED <<head, tail, link, enqueue, order, taken>>

\* The next element becomes _tail and the old one is the result.
ReturnTail ==
    /\ tail' = link[tail]
    /\ taken' = Append(taken, tail)
    /\ consumer' = "idle"
    /\ UNCHANGED <<head, link, enqueue, mode, order>>

\* Only the dummy is there.
DequeueEmpty ==
    /\ mode # "destroyed"
    /\ consumer = "idle"
    /\ tail = Dummy /\ link[Dummy] = Null
    /\ ReturnFalse

\* The dummy is in front of an element: step over it.
SkipDummy ==
    /\ mode # "destroyed"
    /\ consumer = "idle"
    /\ tail = Dummy /\ link[Dummy] # Null
    /\ tail' = link[Dummy]
    /\ consumer' = "skipped"
    /\ UNCHANGED <<head, link, enqueue, mode, order, taken>>

AtElement ==
    /\ mode # "destroyed"
    /\ consumer \in {"idle", "skipped"}
    /\ tail # Dummy

\* The element has a successor.
TakeTail ==
    /\ AtElement
    /\ link[tail] # Null
    /\ ReturnTail

\* It has none: is it the last one?
SeeNoNext ==
    /\ AtElement
    /\ link[tail] = Null
    /\ consumer' = "head"
    /\ UNCHANGED <<head, tail, link, enqueue, mode, order, taken>>

\* _head is another element, on its way in.
LoadHeadOther ==
    /\ consumer = "head"
    /\ head # tail
    /\ ReturnFalse

\* Mutant of EnqueueDummy: the last element is left in the list.
EnqueueDummyMissing ==
    /\ consumer = "head"
    /\ head = tail
    /\ ReturnFalse

\* The element is the last: put the dummy behind it.
EnqueueDummy ==
    /\ consumer = "head"
    /\ head = tail
    /\ Call(Consumer, Dummy)
    /\ consumer' = "enqueue"

\* Now it has a successor, the dummy or an element that came before it.
TakeLast ==
    /\ consumer = "enqueue" /\ at[Consumer] = "idle"
    /\ link[tail] # Null
    /\ ReturnTail

\* A producer got in between and has not linked its element yet.
TakeLastFails ==
    /\ consumer = "enqueue" /\ at[Consumer] = "idle"
    /\ link[tail] = Null
    /\ ReturnFalse

\* The destructor begins, as in C++ only when nobody uses the queue any more.
Destroy ==
    /\ mode = "open"
    /\ consumer = "idle"
    /\ Busy = {}
    /\ mode' = "destroying"
    /\ UNCHANGED <<head, tail, link, enqueue, consumer, order, taken>>

EnqueueStep(t) == ClearLink(t) \/ Exchange(t) \/ Link(t)

Dequeue ==
    \/ DequeueEmpty
    \/ SkipDummy
    \/ TakeTail
    \/ SeeNoNext
    \/ LoadHeadOther
    \/ EnqueueDummy
    \/ TakeLast
    \/ TakeLastFails

Next ==
    \/ \E t \in Producers, x \in Items : Enqueue(t, x)
    \/ \E t \in Threads : EnqueueStep(t)
    \/ Dequeue
    \/ Destroy

Spec == Init /\ [][Next]_vars

-----------------------------------------------------------------------------
(* Properties                                                              *)

\* An element that Dequeue has returned is the consumer's alone: the queue
\* keeps no pointer through which it or a stalled producer could still use
\* the link, so the element may be deleted or enqueued again.
HandedOver ==
    \A x \in Free :
        /\ x \notin {head, tail}
        /\ \A t \in Threads : prevHead[t] # x
        /\ \A y \in ToSet(Queued) \cup {Dummy} :
              link[y] = x => y = Dummy /\ Dummy \notin {head, tail}

\* With no producer about, Dequeue returns false only when the queue is empty:
\* the destructor's loop deletes every element.
NothingLeft == mode = "destroyed" => taken = order

=============================================================================
