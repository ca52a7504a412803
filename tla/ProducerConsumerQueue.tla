----------------------- MODULE ProducerConsumerQueue -----------------------
(***************************************************************************)
(* The blocking queue of common/Threading/PCQueue.h.  Every operation      *)
(* holds _queueLock from its first line to its last, except that           *)
(* WaitAndPop gives it up while it waits, so an operation is one step and  *)
(* WaitAndPop one step for each time it has the lock.  A wait may end      *)
(* without a notification, and a waiter that was notified may find that    *)
(* another thread has been quicker.                                        *)
(***************************************************************************)
EXTENDS Integers, Sequences, FiniteSets

CONSTANTS
    Consumers,   \* threads that call Pop and WaitAndPop
    MaxItems     \* bound: calls of Push

VARIABLES
    queue,      \* _queue
    shutdown,   \* _shutdown
    state,      \* of each consumer: "idle", "asleep" or "woken" in WaitAndPop
    pushed,     \* history: number of items pushed; an item is its number
    cancelled   \* history: the items pushed before the last Cancel

vars == <<queue, shutdown, state, pushed, cancelled>>

TypeOK ==
    /\ queue \in Seq(1 .. MaxItems)
    /\ shutdown \in BOOLEAN
    /\ state \in [Consumers -> {"idle", "asleep", "woken"}]
    /\ pushed \in 0 .. MaxItems
    /\ cancelled \in 0 .. MaxItems

Init ==
    /\ queue = <<>>
    /\ shutdown = FALSE
    /\ state = [c \in Consumers |-> "idle"]
    /\ pushed = 0
    /\ cancelled = 0

Asleep == {c \in Consumers : state[c] = "asleep"}
Awake  == {c \in Consumers : state[c] = "woken"}

\* _condition.notify_one: one of the sleepers, if there is one.
NotifyOne ==
    IF Asleep = {}
    THEN state' = state
    ELSE \E c \in Asleep : state' = [state EXCEPT ![c] = "woken"]

\* Mutant of Push: nobody is notified.
PushSilently ==
    /\ pushed < MaxItems
    /\ queue' = Append(queue, pushed + 1)
    /\ pushed' = pushed + 1
    /\ UNCHANGED <<shutdown, state, cancelled>>

\* Push, which also works on a queue that was cancelled.
Push ==
    /\ pushed < MaxItems
    /\ queue' = Append(queue, pushed + 1)
    /\ pushed' = pushed + 1
    /\ NotifyOne
    /\ UNCHANGED <<shutdown, cancelled>>

\* The front of the queue is copied to the caller and popped.
TakeFront == queue' = Tail(queue)

\* Pop returns true.
Pop(c) ==
    /\ state[c] = "idle"
    /\ queue # <<>> /\ ~shutdown
    /\ TakeFront
    /\ UNCHANGED <<shutdown, state, pushed, cancelled>>

\* WaitAndPop goes to sleep, for the first time or again.
Wait(c) ==
    /\ state[c] \in {"idle", "woken"}
    /\ queue = <<>> /\ ~shutdown
    /\ state' = [state EXCEPT ![c] = "asleep"]
    /\ UNCHANGED <<queue, shutdown, pushed, cancelled>>

\* WaitAndPop returns, with an item or, after Cancel, without one.
Return(c) ==
    /\ state[c] \in {"idle", "woken"}
    /\ queue # <<>> \/ shutdown
    /\ IF shutdown THEN UNCHANGED queue ELSE TakeFront
    /\ state' = [state EXCEPT ![c] = "idle"]
    /\ UNCHANGED <<shutdown, pushed, cancelled>>

\* The wait ends by itself, as condition variables may.
SpuriousWakeUp(c) ==
    /\ state[c] = "asleep"
    /\ state' = [state EXCEPT ![c] = "woken"]
    /\ UNCHANGED <<queue, shutdown, pushed, cancelled>>

\* Mutant of Cancel: only one waiter is notified.
CancelNotifiesOne ==
    /\ queue' = <<>>
    /\ cancelled' = pushed
    /\ shutdown' = TRUE
    /\ NotifyOne
    /\ UNCHANGED pushed

\* Cancel: the items are deleted and everybody is woken.
Cancel ==
    /\ queue' = <<>>
    /\ cancelled' = pushed
    /\ shutdown' = TRUE
    /\ state' = [c \in Consumers |-> IF state[c] = "asleep" THEN "woken" ELSE state[c]]
    /\ UNCHANGED pushed

WaitAndPop(c) == Wait(c) \/ Return(c)

Next ==
    \/ Push
    \/ \E c \in Consumers : Pop(c) \/ WaitAndPop(c) \/ SpuriousWakeUp(c)
    \/ Cancel

Spec == Init /\ [][Next]_vars

\* The step of a waiter that was woken: it gets the lock in the end.  Nobody
\* has to call anything, and nothing wakes a waiter that is not notified.
Woken(c) == state[c] = "woken" /\ WaitAndPop(c)

-----------------------------------------------------------------------------
(* Properties                                                              *)

\* No wake-up is lost: while somebody sleeps, there is a woken waiter for each
\* item in the queue, although woken waiters may find their item gone and
\* sleep again, and after Cancel nobody sleeps.
WakeUps ==
    Asleep # {} => Len(queue) <= Cardinality(Awake) /\ ~shutdown

\* Pop and WaitAndPop give up after Cancel and Push does not: what is stranded
\* in the queue is what was pushed after the last Cancel, and nothing else.
StrandedByPushOnly == shutdown => queue = [i \in 1 .. pushed - cancelled |-> cancelled + i]

\* A consumer is in WaitAndPop although Cancel was called.
HeldBack(c) == shutdown /\ state[c] # "idle"
=============================================================================
