---------------------------- MODULE MessageBuffer ----------------------------
(***************************************************************************)
(* MessageBuffer: a byte vector with a write and a read position.  Several *)
(* buffers, so that they can be copied and moved from one to another.  The *)
(* class checks nothing; the guards of Write, WriteCompleted,              *)
(* ReadCompleted and Resize are what its callers in Socket and AuthSession *)
(* keep to: not more than the free space, not more than the unread bytes,  *)
(* no resizing below the write position.                                   *)
(***************************************************************************)
EXTENDS Naturals, Sequences

CONSTANTS
    Buffers,        \* the buffers
    Bytes,          \* the values of bytes that are written
    MaxSize         \* bound on the size of a buffer

BufferAssumption == MaxSize \in Nat

VARIABLES
    buffer,         \* _storage, _wpos and _rpos of each buffer
    unread          \* history: the bytes written to each buffer and not read yet

vars == <<buffer, unread>>

Zero == 0           \* what resize() fills new bytes with
Contents == UNION {[1..n -> Bytes \cup {Zero}] : n \in 0..MaxSize}

InBounds ==
    /\ buffer \in [Buffers -> [storage : Contents, wpos : 0..MaxSize, rpos : 0..MaxSize]]
    /\ \A b \in Buffers : /\ buffer[b].rpos <= buffer[b].wpos
                          /\ buffer[b].wpos <= Len(buffer[b].storage)

Resized(storage, size) ==
    [i \in 1..size |-> IF i <= Len(storage) THEN storage[i] ELSE Zero]

New(size) == [storage |-> Resized(<<>>, size), wpos |-> 0, rpos |-> 0]

Init ==
    /\ buffer \in [Buffers -> {New(n) : n \in 0..MaxSize}]
    /\ unread = [b \in Buffers |-> <<>>]

GetActiveSize(b) == buffer[b].wpos - buffer[b].rpos
GetRemainingSpace(b) == Len(buffer[b].storage) - buffer[b].wpos

-----------------------------------------------------------------------------
Reset(b) ==
    /\ buffer' = [buffer EXCEPT ![b].wpos = 0, ![b].rpos = 0]
    /\ unread' = [unread EXCEPT ![b] = <<>>]

Resize(b, size) ==
    /\ size >= buffer[b].wpos
    /\ buffer' = [buffer EXCEPT ![b].storage = Resized(@, size)]
    /\ UNCHANGED unread

ReadCompleted(b, count) ==
    /\ count <= GetActiveSize(b)
    /\ buffer' = [buffer EXCEPT ![b].rpos = @ + count]
    /\ unread' = [unread EXCEPT ![b] = SubSeq(@, count + 1, Len(@))]

(* Bytes arrive at the write pointer, by Write or by a read of the socket  *)
(* that WriteCompleted reports.                                            *)
Write(b, data) ==
    /\ Len(data) <= GetRemainingSpace(b)
    /\ buffer' = [buffer EXCEPT
            ![b].storage = [i \in DOMAIN @ |->
                LET k == i - buffer[b].wpos IN IF k \in DOMAIN data THEN data[k] ELSE @[i]],
            ![b].wpos = @ + Len(data)]
    /\ unread' = [unread EXCEPT ![b] = @ \o data]

\* Mutant of Normalize: the positions are moved before the bytes.
NormalizeLate(b) ==
    /\ buffer' = [buffer EXCEPT ![b].wpos = @ - buffer[b].rpos, ![b].rpos = 0]
    /\ UNCHANGED unread

(* memmove of the unread bytes to the front; the bytes behind them stay.   *)
Normalize(b) ==
    /\ buffer' = [buffer EXCEPT
            ![b].storage = [i \in DOMAIN @ |->
                IF i <= GetActiveSize(b) THEN @[i + buffer[b].rpos] ELSE @[i]],
            ![b].wpos = @ - buffer[b].rpos,
            ![b].rpos = 0]
    /\ UNCHANGED unread

Grown(size) == (size * 3) \div 2

EnsureFreeSpace(b) ==
    /\ Grown(Len(buffer[b].storage)) <= MaxSize
    /\ buffer' = IF GetRemainingSpace(b) = 0
                 THEN [buffer EXCEPT ![b].storage = Resized(@, Grown(Len(@)))]
                 ELSE buffer
    /\ UNCHANGED unread

-----------------------------------------------------------------------------
(* Move() gives the storage away; what is left is an empty vector.  A      *)
(* buffer assigned to itself stays as it is.                               *)

Move(b) ==
    /\ buffer' = [buffer EXCEPT ![b] = New(0)]
    /\ unread' = [unread EXCEPT ![b] = <<>>]

CopyAssign(a, b) ==
    /\ buffer' = [buffer EXCEPT ![a] = buffer[b]]
    /\ unread' = [unread EXCEPT ![a] = unread[b]]

MoveAssign(a, b) ==
    /\ buffer' = IF a = b THEN buffer ELSE [buffer EXCEPT ![a] = buffer[b], ![b] = New(0)]
    /\ unread' = IF a = b THEN unread ELSE [unread EXCEPT ![a] = unread[b], ![b] = <<>>]

Construct(b, size) ==
    /\ buffer' = [buffer EXCEPT ![b] = New(size)]
    /\ unread' = [unread EXCEPT ![b] = <<>>]

Next ==
    \E b \in Buffers :
        \/ EnsureFreeSpace(b)
        \/ Reset(b)
        \/ Normalize(b)
        \/ Move(b)
        \/ \E n \in 0..MaxSize : Resize(b, n) \/ Construct(b, n) \/ ReadCompleted(b, n)
        \/ \E n \in 1..MaxSize : \E data \in [1..n -> Bytes] : Write(b, data)
        \/ \E c \in Buffers : CopyAssign(b, c) \/ MoveAssign(b, c)

Spec == Init /\ [][Next]_vars

-----------------------------------------------------------------------------
(* Between the read and the write position are exactly the bytes that were *)
(* written and not read, in their order, however the buffer was moved,     *)
(* copied, grown and normalised in between.                                *)
UnreadIntact ==
    \A b \in Buffers :
        SubSeq(buffer[b].storage, buffer[b].rpos + 1, buffer[b].wpos) = unread[b]

=============================================================================
