---------------------------- MODULE LockedQueue ----------------------------
(***************************************************************************)
(* The queue of common/Threading/LockedQueue.h, with producers that add    *)
(* and one consumer, which is how peek and pop_front can be used: what     *)
(* empty() and peek() said is used after the lock was given up.            *)
(* peek keeps the lock for its caller unless told otherwise, so who holds  *)
(* it is state; the other operations are one step while nobody does.       *)
(***************************************************************************)
EXTENDS Integers, Sequences, FiniteSets

CONSTANT MaxItems   \* bound: calls of add

VARIABLES
    queue,      \* _queue; an item is the number of the add that added it
    canceled,   \* _canceled
    locked,     \* does the consumer hold _lock, after peek()?
    consumer,   \* "idle", "checked" (not empty), "peeked"
    peeked,     \* what peek returned
    deferred,   \* items taken with next that the consumer will readd
    added,      \* history: number of items added
    done        \* history: items taken for good, in order

vars == <<queue, canceled, locked, consumer, peeked, deferred, added, done>>

Numbers == 1 .. MaxItems

TypeOK ==
    /\ queue \in Seq(Numbers)
    /\ canceled \in BOOLEAN
    /\ locked \in BOOLEAN
    /\ consumer \in {"idle", "checked", "peeked"}
    /\ peeked \in Numbers \cup {0}
    /\ deferred \in Seq(Numbers)
    /\ added \in 0 .. MaxItems
    /\ done \in Seq(Numbers)

Init ==
    /\ queue = <<>>
    /\ canceled = FALSE
    /\ locked = FALSE
    /\ consumer = "idle"
    /\ peeked = 0
    /\ deferred = <<>>
    /\ added = 0
    /\ done = <<>>

-----------------------------------------------------------------------------

\* push_back.
Pushed(item) == Append(queue, item)

\* A producer calls add.
add ==
    /\ ~locked
    /\ added < MaxItems
    /\ queue' = Pushed(added + 1)
    /\ added' = added + 1
    /\ UNCHANGED <<canceled, locked, consumer, peeked, deferred, done>>

\* Any thread cancels the queue; nothing else looks at the flag.
cancel ==
    /\ ~locked /\ ~canceled
    /\ canceled' = TRUE
    /\ UNCHANGED <<queue, locked, consumer, peeked, deferred, added, done>>

\* The consumer takes the front, for good or to readd it later.
next ==
    /\ ~locked
    /\ consumer = "idle"
    /\ queue # <<>>
    /\ queue' = Tail(queue)
    /\ \/ done' = Append(done, Head(queue)) /\ deferred' = deferred
       \/ deferred' = Append(deferred, Head(queue)) /\ done' = done
    /\ UNCHANGED <<canceled, locked, consumer, peeked, added>>

\* next with a checker: the front stays if Process(result) refuses it.
nextChecked ==
    /\ ~locked
    /\ consumer = "idle"
    /\ queue # <<>>
    /\ \E accepted \in BOOLEAN :
          /\ queue' = IF accepted THEN Tail(queue) ELSE queue
          /\ done' = IF accepted THEN Append(done, Head(queue)) ELSE done
    /\ UNCHANGED <<canceled, locked, consumer, peeked, deferred, added>>

\* Mutant of Readded: the items go to the end of the queue.
ReaddedBack == queue \o deferred

\* insert at begin().
Readded == deferred \o queue

\* The consumer puts back what it took, in front of what came meanwhile.
readd ==
    /\ ~locked
    /\ consumer = "idle"
    /\ deferred # <<>>
    /\ queue' = Readded
    /\ deferred' = <<>>
    /\ UNCHANGED <<canceled, locked, consumer, peeked, added, done>>

\* empty() returns false.
empty ==
    /\ ~locked
    /\ consumer = "idle"
    /\ queue # <<>>
    /\ consumer' = "checked"
    /\ UNCHANGED <<queue, canceled, locked, peeked, deferred, added, done>>

\* peek: the front, with the lock kept unless autoUnlock is set.
peek(autoUnlock) ==
    /\ ~locked
    /\ consumer = "checked"
    /\ peeked' = Head(queue)
    /\ locked' = ~autoUnlock
    /\ consumer' = "peeked"
    /\ UNCHANGED <<queue, canceled, deferred, added, done>>

\* The caller of peek gives the lock back.
unlock ==
    /\ locked
    /\ locked' = FALSE
    /\ UNCHANGED <<queue, canceled, consumer, peeked, deferred, added, done>>

\* pop_front, which takes the lock itself.
pop_front ==
    /\ ~locked
    /\ consumer = "peeked"
    /\ done' = Append(done, Head(queue))
    /\ queue' = Tail(queue)
    /\ peeked' = 0
    /\ consumer' = "idle"
    /\ UNCHANGED <<canceled, locked, deferred, added>>

Next ==
    \/ add
    \/ cancel
    \/ next
    \/ nextChecked
    \/ readd
    \/ empty
    \/ \E autoUnlock \in BOOLEAN : peek(autoUnlock)
    \/ unlock
    \/ pop_front

Spec == Init /\ [][Next]_vars

-----------------------------------------------------------------------------
(* Properties                                                              *)

\* What the consumer learnt from empty() and peek() is still so when it uses
\* it after the lock was free: the front is there, and it is the peeked one.
FrontStable ==
    /\ consumer # "idle" => queue # <<>>
    /\ consumer = "peeked" => peeked = Head(queue)

\* The items not yet taken for good are in the order in which they were added,
\* those to be readded first, however next, readd and add are mixed.
OrderKept ==
    LET waiting == deferred \o queue
    IN  \A i, j \in 1 .. Len(waiting) : i < j => waiting[i] < waiting[j]

=============================================================================
