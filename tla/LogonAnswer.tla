----------------------------- MODULE LogonAnswer -----------------------------
(***************************************************************************)
(* The bytes of the answer to a Logon: HandleLogonMessage copies the read  *)
(* buffer into a ByteBuffer, reads the Logon from it, has                  *)
(* PrepareTestMessage write two messages into the same ByteBuffer, and     *)
(* queues all of it.  Whether a Logon is accepted, and in which state of   *)
(* the session, is module AuthSession; this module is about the buffers.   *)
(*                                                                         *)
(* A cell stands for a run of bytes.  The read buffer has Block cells, the *)
(* 4096 bytes that PrepareTestMessage resizes the packet to as well.  The  *)
(* two messages are a cell each.  The local array they are written to is   *)
(* not initialised and the writer adds no terminator, so what operator<<   *)
(* finds behind them before the first zero is a choice of the stack.       *)
(***************************************************************************)
EXTENDS Naturals, SequencesExt

CONSTANTS
    Block,          \* cells of the read buffer
    Received,       \* cells that clients send
    MaxGarbage      \* bound on the cells behind the messages on the stack

VARIABLES
    open,           \* IsOpen()
    packet,         \* the ByteBuffer: storage and write position
    step,           \* where HandleLogonMessage is
    writeQueue      \* the packets queued

vars == <<open, packet, step, writeQueue>>

Zero == "zero"
Logon == "test logon"
NewOrder == "test order"
Garbage == "garbage"
TestMessage == <<Logon, NewOrder>>
NoPacket == [storage |-> <<>>, wpos |-> 0]
Cells == Received \cup {Zero, Logon, NewOrder, Garbage}

TypeOK ==
    /\ open \in BOOLEAN
    /\ packet.storage \in Seq(Cells) /\ packet.wpos \in 0..Len(packet.storage)
    /\ step \in {"idle", "reading", "preparing", "sending", "done"}
    /\ \A i \in DOMAIN writeQueue : writeQueue[i] \in Seq(Cells) \ {<<>>}

Init ==
    /\ open = TRUE
    /\ packet = NoPacket
    /\ step = "idle"
    /\ writeQueue = <<>>

Resized(storage, size) ==
    [i \in 1..size |-> IF i <= Len(storage) THEN storage[i] ELSE Zero]

(* The handler copies the whole storage of the read buffer, zeros behind   *)
(* what was received: it is the first read of the session that asks for a  *)
(* logon, for later ones the status is wrong.                              *)
CopyReadBuffer ==
    /\ step = "idle"
    /\ \E n \in 1..Block : \E data \in [1..n -> Received] :
         packet' = [storage |-> Resized(data, Block), wpos |-> 0]
    /\ step' = "reading"
    /\ UNCHANGED <<open, writeQueue>>

IsReadLogonMessage ==
    /\ step = "reading"
    /\ \/ step' = "preparing" /\ UNCHANGED packet
       \/ step' = "done" /\ packet' = NoPacket
    /\ UNCHANGED <<open, writeQueue>>

(* append() at the write position; resize() has put it at the end.         *)
Appended(storage, wpos, cells) ==
    [i \in 1..wpos + Len(cells) |-> IF i <= wpos THEN storage[i] ELSE cells[i - wpos]]

PrepareTestMessage ==
    /\ step = "preparing"
    /\ \E k \in 0..MaxGarbage :
         LET cells == TestMessage \o [i \in 1..k |-> Garbage] \o <<Zero>>
             storage == Resized(packet.storage, Block)
         IN packet' = [storage |-> Appended(storage, Block, cells), wpos |-> Block + Len(cells)]
    /\ step' = "sending"
    /\ UNCHANGED <<open, writeQueue>>

(* SendPacket queues the whole storage, unless the session is no longer    *)
(* open; the local ByteBuffer ends with the handler.                       *)
SendPacket ==
    /\ step = "sending"
    /\ writeQueue' = IF open /\ packet.storage # <<>> THEN Append(writeQueue, packet.storage)
                     ELSE writeQueue
    /\ packet' = NoPacket
    /\ step' = "done"
    /\ UNCHANGED open

(* DelayedCloseSocket, from anywhere: IsOpen() is false from then on.      *)
Closes ==
    /\ open
    /\ open' = FALSE
    /\ UNCHANGED <<packet, step, writeQueue>>

Next == CopyReadBuffer \/ IsReadLogonMessage \/ PrepareTestMessage \/ SendPacket \/ Closes

Spec == Init /\ [][Next]_vars

-----------------------------------------------------------------------------
(* PrepareTestMessage says that its buffer holds a Logon message and after *)
(* it a New Order message: an answer begins with these.                    *)
AnswerIsTestMessage ==
    \A i \in DOMAIN writeQueue : IsPrefix(TestMessage, writeQueue[i])

=============================================================================
