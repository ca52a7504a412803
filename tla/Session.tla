------------------------------- MODULE Session -------------------------------
(***************************************************************************)
(* What a session promises to the network thread that owns it, whatever it *)
(* does with the bytes it reads: the abstract specification that Socket    *)
(* and AuthSession implement, and the sessions NetworkThread deals with.   *)
(*                                                                         *)
(* A session goes from open to closed, perhaps through "closing"           *)
(* (DelayedCloseSocket), and never back.  It has at most one read          *)
(* outstanding, and only its read handler starts another, if the session   *)
(* is open: once it is closing or closed at most one more handler runs.    *)
(***************************************************************************)

VARIABLES
    state,    \* "open", "closing" or "closed"
    reading   \* "armed", "handling" its completion, or "no"

vars == <<state, reading>>

\* Start() has armed the first read.
Init == state = "open" /\ reading = "armed"

\* A read completes, with bytes to handle or with an error that closes.
ReadCompletes ==
    /\ reading = "armed"
    /\ \/ reading' = "handling" /\ state' = state
       \/ reading' = "no" /\ state' = "closed"

\* The read handler closes the session or not, and reads on only if it is open.
ReadHandler ==
    /\ reading = "handling"
    /\ \/ reading' = "no" /\ state' \in {state, "closed"}
       \/ reading' = "armed" /\ state = "open" /\ state' = "open"

\* DelayedCloseSocket, from anywhere.
DelayedClose ==
    /\ state = "open"
    /\ state' = "closing"
    /\ reading' = reading

\* The write path closes it: the queue has drained, or a write failed.
Close ==
    /\ state \in {"open", "closing"}
    /\ reading # "handling"
    /\ state' = "closed"
    /\ reading' = reading

Next == ReadCompletes \/ ReadHandler \/ DelayedClose \/ Close

Spec == Init /\ [][Next]_vars
=============================================================================
