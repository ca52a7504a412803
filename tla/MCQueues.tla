------------------------------- MODULE MCQueues -------------------------------
(***************************************************************************)
(* The two lock-free queues, the locked and the blocking one in one model  *)
(* for TLC.  They share nothing: the initial state selects one of them,    *)
(* the others do not run, and so the same variables serve all four.        *)
(***************************************************************************)
EXTENDS Integers, Sequences, FiniteSets

CONSTANTS Producers, Consumer, Items, Nodes, Dummy, Null, Garbage, MaxEnqueues, MaxItems, Consumers

ASSUME QueuesAssumption ==
    /\ Null \notin Nodes \cup Items \cup {Dummy} /\ Dummy \notin Items
    /\ Consumer \notin Producers
    /\ IsFiniteSet(Consumers)

VARIABLES kind, v1, v2, v3, v4, v5, v6, v7, v8, v9, v10, v11, v12, v13

queuesVars == <<kind, v1, v2, v3, v4, v5, v6, v7, v8, v9, v10, v11, v12, v13>>

NonIntrusive == INSTANCE MPSCQueueNonIntrusive WITH
    head <- v1, tail <- v2, next <- v3, data <- v4, allocated <- v5, at <- v6, node <- v7,
    prevHead <- v8, consumer <- v9, old <- v10, mode <- v11, order <- v12, taken <- v13

Intrusive == INSTANCE MPSCQueueIntrusive WITH
    head <- v1, tail <- v2, link <- v3, at <- v4, input <- v5, prevHead <- v6, consumer <- v7,
    mode <- v8, order <- v12, taken <- v13

Locked == INSTANCE LockedQueue WITH
    queue <- v1, canceled <- v2, locked <- v3, consumer <- v4, peeked <- v5, deferred <- v6,
    added <- v7, done <- v8

Blocking == INSTANCE ProducerConsumerQueue WITH
    queue <- v1, shutdown <- v2, state <- v3, pushed <- v4, cancelled <- v5

Unused == <<>>

QueuesInit ==
    \/ kind = "non-intrusive" /\ NonIntrusive!Init
    \/ /\ kind = "intrusive" /\ Intrusive!Init
       /\ v9 = Unused /\ v10 = Unused /\ v11 = Unused
    \/ /\ kind = "locked" /\ Locked!Init
       /\ v9 = Unused /\ v10 = Unused /\ v11 = Unused /\ v12 = Unused /\ v13 = Unused
    \/ /\ kind = "blocking" /\ Blocking!Init
       /\ v6 = Unused /\ v7 = Unused /\ v8 = Unused /\ v9 = Unused /\ v10 = Unused /\ v11 = Unused
       /\ v12 = Unused /\ v13 = Unused

QueuesNext ==
    \/ kind = "non-intrusive" /\ NonIntrusive!Next /\ UNCHANGED kind
    \/ kind = "intrusive" /\ Intrusive!Next /\ UNCHANGED <<kind, v9, v10, v11>>
    \/ kind = "locked" /\ Locked!Next /\ UNCHANGED <<kind, v9, v10, v11, v12, v13>>
    \/ kind = "blocking" /\ Blocking!Next /\ UNCHANGED <<kind, v6, v7, v8, v9, v10, v11, v12, v13>>

QueuesSpec == QueuesInit /\ [][QueuesNext]_queuesVars

\* A waiter of the blocking queue that was woken gets the lock in the end.
QueuesFairSpec ==
    /\ QueuesSpec
    /\ \A c \in Consumers :
          SF_queuesVars(kind = "blocking" /\ Blocking!Woken(c) /\ UNCHANGED <<kind, v6, v7, v8, v9, v10, v11, v12, v13>>)

-----------------------------------------------------------------------------
Abstract == INSTANCE Fifo WITH
    queue <- CASE kind = "non-intrusive" -> NonIntrusive!Queued
               [] kind = "intrusive" -> Intrusive!Queued
               [] OTHER -> <<>>,
    taken <- v13

\* Seen from the exchange of each Enqueue on, both lists are first-in first-out
\* queues: gaps that stalled producers leave in them hide nothing for good and
\* reorder nothing, a node's address used again brings nothing back, and the
\* dummy of the intrusive one never comes out.
ImplementsFifo == Abstract!Spec

\* No step of either list follows a pointer to a node that was deleted, or to
\* an element that Dequeue has handed over and that may be enqueued again, and
\* a destructor, which finds no producer about, leaves no item and no node.
NothingStaleOrLeft ==
    /\ kind = "non-intrusive" => NonIntrusive!NoUseAfterFree /\ NonIntrusive!NothingLeaked
    /\ kind = "intrusive" => Intrusive!HandedOver /\ Intrusive!NothingLeft

\* What empty() and peek() of the locked queue told the consumer still holds
\* when it acts on it, although producers add in between, and items put back
\* with readd come out before later ones, in their old order.
LockedInOrder == kind = "locked" => Locked!FrontStable /\ Locked!OrderKept

\* The blocking queue loses no wake-up, however waiters overtake each other or
\* wake for nothing, and nothing but a later Push leaves an item behind Cancel.
NoLostWakeUp == kind = "blocking" => Blocking!WakeUps /\ Blocking!StrandedByPushOnly

\* After Cancel every WaitAndPop returns.
CancelReleases ==
    \A c \in Consumers :
        (kind = "blocking" /\ Blocking!HeldBack(c)) ~> (kind = "blocking" /\ ~Blocking!HeldBack(c))
=============================================================================
