-------------------------------- MODULE Fifo --------------------------------
(***************************************************************************)
(* What the queues of common/Threading promise: elements come out in the   *)
(* order in which they went in, each once and none from nowhere.           *)
(***************************************************************************)
EXTENDS Sequences

CONSTANT Items   \* what may be put into the queue

VARIABLES
    queue,    \* the elements in the queue
    taken     \* the elements that have come out, in order

vars == <<queue, taken>>

Init == queue = <<>> /\ taken = <<>>

Enqueue(x) ==
    /\ queue' = Append(queue, x)
    /\ taken' = taken

Dequeue ==
    /\ queue # <<>>
    /\ taken' = Append(taken, Head(queue))
    /\ queue' = Tail(queue)

Next == Dequeue \/ \E x \in Items : Enqueue(x)

Spec == Init /\ [][Next]_vars
=============================================================================
