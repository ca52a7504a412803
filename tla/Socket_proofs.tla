---------------------------- MODULE Socket_proofs ----------------------------
(***************************************************************************)
(* Proofs about Socket, for both builds, any packets and any send buffer.  *)
(***************************************************************************)
EXTENDS Socket, TLAPS

\* HandleQueue runs only while no write is outstanding: Update asks for it and
\* WriteHandlerWrapper is the completion of the only one there was.
LoopAlone ==
    pc \in {"HandleQueue", "sent", "dropped"} => ~isWritingAsync /\ writeOp = 0

\* The completed read is not outstanding any more while it is handled.
OneRead == pc = "ReadHandler" => ~readOp

\* CloseSocket sets _closed and shuts the sending side down.
ClosedShut == closed => shut

(***************************************************************************)
(* TypeOK and SingleWrite need each other: the completion handler of the   *)
(* IOCP build uses the front of the queue, which is there because a write  *)
(* is outstanding only for a packet.                                       *)
(***************************************************************************)
SocketInv == TypeOK /\ SingleWrite /\ LoopAlone /\ OneRead /\ ClosedShut

LEMMA SocketInit == Init => SocketInv
<1> SUFFICES ASSUME Init PROVE SocketInv
  OBVIOUS
<1>1. TypeOK
  <2>1. /\ writeQueue \in Seq(Packet) /\ sizes \in Seq(PacketSizes) /\ wire \in Seq(Byte)
        /\ Len(sizes) <= MaxPackets
    BY SocketAssumption DEF Init, Started
  <2>2. room \in 0 .. SndBuf /\ writeOp \in Nat
    BY SocketAssumption DEF Init, Started
  <2> QED
    BY <2>1, <2>2 DEF Init, Started, TypeOK, Places, Callers
<1>2. SingleWrite /\ LoopAlone /\ OneRead /\ ClosedShut
  BY DEF Init, Started, SingleWrite, LoopAlone, OneRead, ClosedShut
<1> QED
  BY <1>1, <1>2 DEF SocketInv

\* What the front packet is, when there is one.
LEMMA FrontFacts ==
    ASSUME TypeOK, writeQueue # <<>>
    PROVE  /\ Front \in Packet
           /\ BytesToSend \in Int
           /\ Front.id \in PacketIds /\ Front.rpos \in Nat
           /\ Tail(writeQueue) \in Seq(Packet)
<1>1. Front \in Packet /\ Tail(writeQueue) \in Seq(Packet)
  BY DEF TypeOK, Front
<1>2. Front.id \in PacketIds /\ Front.rpos \in Nat /\ Front.size \in Nat
  BY <1>1, SocketAssumption DEF Packet
<1> QED
  BY <1>1, <1>2 DEF BytesToSend

\* ReadCompleted keeps the packet in the queue.
LEMMA AdvancedFacts ==
    ASSUME TypeOK, writeQueue # <<>>, NEW n \in Nat
    PROVE  Advanced(n) \in Seq(Packet) /\ Advanced(n) # <<>>
<1>1. Front \in Packet /\ Front.rpos \in Nat /\ Tail(writeQueue) \in Seq(Packet)
  BY FrontFacts
<1> DEFINE p == [Front EXCEPT !.rpos = @ + n]
<1>2. p \in Packet
  BY <1>1 DEF Packet
<1> HIDE DEF p
<1>3. <<p>> \o Tail(writeQueue) \in Seq(Packet) /\ Len(<<p>> \o Tail(writeQueue)) > 0
  BY <1>1, <1>2
<1> QED
  BY <1>3 DEF Advanced, p

\* A write the kernel takes keeps the types of the wire and of the buffer.
LEMMA WriteFacts ==
    ASSUME TypeOK, writeQueue # <<>>, NEW n \in Int, WriteTakes(n)
    PROVE  /\ wire' \in Seq(Byte) /\ room' \in 0 .. SndBuf
           /\ n \in Nat /\ ~shut
<1>1. /\ n \in 1 .. BytesToSend /\ n <= room /\ ~Broken
      /\ wire' = wire \o Taken(n) /\ room' = room - n
  BY DEF WriteTakes
<1>2. BytesToSend \in Int /\ Front.id \in PacketIds /\ Front.rpos \in Nat
  BY FrontFacts
<1>3. n \in Nat /\ n > 0
  BY <1>1, <1>2
<1>4. room' \in 0 .. SndBuf
  BY <1>1, <1>3, SocketAssumption DEF TypeOK
<1>5. Taken(n) \in Seq(Byte)
  <2>1. \A k \in 1 .. n : [id |-> Front.id, at |-> Front.rpos + k] \in Byte
    BY <1>2, <1>3 DEF Byte
  <2> QED
    BY <1>3, <2>1 DEF Taken
<1>6. wire' \in Seq(Byte)
  BY <1>1, <1>5 DEF TypeOK
<1> QED
  BY <1>1, <1>3, <1>4, <1>6 DEF Broken

\* Whether a step closes the socket or leaves it as it is, a closed socket
\* stays closed and has its sending side shut down.
LEMMA CloseFacts ==
    ASSUME TypeOK, ClosedShut, CloseSocket \/ StayOpen
    PROVE  /\ closed' \in BOOLEAN /\ shut' \in BOOLEAN
           /\ closed => closed'
           /\ closed' => shut'
<1>1. CASE CloseSocket
  BY <1>1 DEF CloseSocket
<1>2. CASE StayOpen
  <2>1. closed' = closed /\ shut' = shut
    BY <1>2 DEF StayOpen
  <2> QED
    BY <2>1, Zenon DEF TypeOK, ClosedShut
<1> QED
  BY <1>1, <1>2

\* Every step keeps SocketInv.
LEMMA SocketStep == SocketInv /\ [Next]_vars => SocketInv'
<1> SUFFICES ASSUME SocketInv, [Next]_vars
             PROVE  SocketInv'
  OBVIOUS
<1> USE SocketAssumption DEF code, kernel, history
<1>0. TypeOK /\ SingleWrite /\ LoopAlone /\ OneRead /\ ClosedShut
  BY DEF SocketInv
<1>1. CASE ReadError
  BY <1>0, <1>1 DEF ReadError, CloseSocket, SocketInv, TypeOK, SingleWrite, LoopAlone,
     OneRead, ClosedShut
<1>2. CASE ReadHandler
  <2>1. /\ UNCHANGED <<closing, caller, held, room, peer, wire, lost>>
        /\ pc' = "idle" /\ pc' \in Places
    BY <1>2 DEF ReadHandler, Places
  <2>2. CASE /\ UNCHANGED <<writeQueue, isWritingAsync, writeOp, sizes>>
             /\ readOp' \in BOOLEAN
             /\ CloseSocket \/ StayOpen
    <3>1. /\ closed' \in BOOLEAN /\ shut' \in BOOLEAN
          /\ closed => closed'
          /\ closed' => shut'
      BY <1>0, <2>2, CloseFacts
    <3>2. TypeOK'
      BY <1>0, <2>1, <2>2, <3>1 DEF TypeOK
    <3>3. SingleWrite' /\ LoopAlone' /\ OneRead' /\ ClosedShut'
      BY <1>0, <2>1, <2>2, <3>1 DEF SingleWrite, LoopAlone, OneRead, ClosedShut
    <3> QED
      BY <3>2, <3>3 DEF SocketInv
  <2>3. CASE /\ IsOpen /\ \E n \in PacketSizes : QueuePacket(n)
             /\ AsyncRead /\ StayOpen
    <3>1. PICK n \in PacketSizes : QueuePacket(n)
      BY <2>3
    <3> DEFINE p == [id |-> Len(sizes) + 1, size |-> n, rpos |-> 0]
    <3>2. p \in Packet
      BY <1>0, <3>1 DEF QueuePacket, TypeOK, Packet, PacketIds
    <3>3. writeQueue' = Append(writeQueue, p) /\ sizes' = Append(sizes, n)
      BY <3>1 DEF QueuePacket
    <3> HIDE DEF p
    <3>4. writeQueue' \in Seq(Packet) /\ writeQueue' # <<>>
      BY <1>0, <3>2, <3>3 DEF TypeOK
    <3>5. sizes' \in Seq(PacketSizes) /\ Len(sizes') <= MaxPackets
      BY <1>0, <3>1, <3>3 DEF TypeOK, QueuePacket
    <3>6. closed' = closed /\ shut' = shut /\ readOp' \in BOOLEAN /\ ~closed
      BY <2>3 DEF StayOpen, AsyncRead, IsOpen
    <3>7. /\ isWritingAsync' \in BOOLEAN /\ writeOp' \in Nat
          /\ writeOp' <= 1
          /\ writeOp' = 1 => isWritingAsync'
          /\ isWritingAsync' => writeOp' = 1
      <4>1. /\ writeOp \in Nat /\ writeOp <= 1 /\ isWritingAsync \in BOOLEAN
            /\ writeOp = 1 <=> isWritingAsync
        BY <1>0, <3>6 DEF TypeOK, SingleWrite
      <4>2. CASE UseIOCP
        <5>1. /\ isWritingAsync' = TRUE
              /\ writeOp' = IF isWritingAsync THEN writeOp ELSE writeOp + 1
          BY <3>1, <4>2 DEF QueuePacket, AsyncProcessQueue
        <5>2. writeOp' = 1
          BY <4>1, <5>1
        <5> QED
          BY <5>1, <5>2
      <4>3. CASE ~UseIOCP
        BY <3>1, <4>1, <4>3 DEF QueuePacket
      <4> QED
        BY <4>2, <4>3
    <3>8. TypeOK'
      BY <1>0, <2>1, <3>4, <3>5, <3>6, <3>7 DEF TypeOK
    <3>9. SingleWrite' /\ LoopAlone' /\ OneRead' /\ ClosedShut'
      BY <2>1, <3>4, <3>6, <3>7 DEF SingleWrite, LoopAlone, OneRead, ClosedShut
    <3> QED
      BY <3>8, <3>9 DEF SocketInv
  <2> QED
    BY <1>0, <1>2, <2>2, <2>3 DEF TypeOK, ReadHandler, AsyncRead, IsOpen
<1>3. CASE DelayedCloseSocket
  BY <1>0, <1>3 DEF DelayedCloseSocket, SocketInv, TypeOK, SingleWrite, LoopAlone,
     OneRead, ClosedShut
<1>4. CASE UpdateClosed
  BY <1>0, <1>4 DEF UpdateClosed, SocketInv, TypeOK, SingleWrite, LoopAlone, OneRead, ClosedShut
<1>5. CASE Update
  BY <1>0, <1>5 DEF Update, SocketInv, TypeOK, SingleWrite, LoopAlone, OneRead, ClosedShut,
     Places, Callers
<1>6. CASE WriteHandlerWrapper
  <2>1. /\ writeOp > 0 /\ writeOp' = writeOp - 1 /\ isWritingAsync' = FALSE
        /\ pc' = "HandleQueue" /\ caller' = "WriteHandlerWrapper"
        /\ UNCHANGED <<writeQueue, closing, closed, readOp, held, shut, room, peer,
                       sizes, wire, lost>>
    BY <1>6 DEF WriteHandlerWrapper
  <2>2. writeOp' = 0
    BY <1>0, <2>1 DEF TypeOK, SingleWrite
  <2>3. ~isWritingAsync' /\ isWritingAsync' \in BOOLEAN /\ writeOp' \in Nat
    <3>1. ~isWritingAsync' /\ isWritingAsync' \in BOOLEAN
      BY <2>1, Zenon
    <3> QED
      BY <2>2, <3>1
  <2>4. TypeOK'
    <3>1. pc' \in Places /\ caller' \in Callers
      BY <2>1 DEF Places, Callers
    <3> QED
      BY <1>0, <2>1, <2>3, <3>1 DEF TypeOK
  <2>5. SingleWrite' /\ LoopAlone' /\ OneRead' /\ ClosedShut'
    <3>1. ClosedShut' /\ OneRead'
      BY <1>0, <2>1 DEF ClosedShut, OneRead
    <3> QED
      BY <2>2, <2>3, <3>1 DEF SingleWrite, LoopAlone
  <2> QED
    BY <2>4, <2>5 DEF SocketInv
<1>7. ASSUME HandleQueueBlocked \/ HandleQueuePartial PROVE SocketInv'
  <2>1. /\ AsyncProcessQueue /\ pc = "HandleQueue" /\ pc' = "idle" /\ writeQueue # <<>>
        /\ UNCHANGED <<closing, closed, readOp, caller, held, shut, peer, sizes, lost>>
    BY <1>7 DEF HandleQueueBlocked, HandleQueuePartial
  <2>2. /\ writeQueue' \in Seq(Packet) /\ writeQueue' # <<>>
        /\ wire' \in Seq(Byte) /\ room' \in 0 .. SndBuf
    <3>1. CASE HandleQueueBlocked
      BY <1>0, <2>1, <3>1 DEF HandleQueueBlocked, TypeOK
    <3>2. CASE HandleQueuePartial
      <4>1. PICK n \in 1 .. BytesToSend - 1 : WriteTakes(n) /\ writeQueue' = Advanced(n)
        BY <3>2 DEF HandleQueuePartial
      <4>2. n \in Int
        BY <4>1
      <4>3. wire' \in Seq(Byte) /\ room' \in 0 .. SndBuf /\ n \in Nat
        BY <1>0, <2>1, <4>1, <4>2, WriteFacts
      <4> QED
        BY <1>0, <2>1, <4>1, <4>3, AdvancedFacts
    <3> QED
      BY <1>7, <3>1, <3>2
  <2>3. isWritingAsync' = TRUE /\ writeOp' = 1
    BY <1>0, <2>1 DEF AsyncProcessQueue, LoopAlone
  <2>4. TypeOK'
    BY <1>0, <2>1, <2>2, <2>3 DEF TypeOK, Places
  <2>5. SingleWrite' /\ LoopAlone' /\ OneRead' /\ ClosedShut'
    BY <1>0, <2>1, <2>2, <2>3 DEF SingleWrite, LoopAlone, OneRead, ClosedShut
  <2> QED
    BY <2>4, <2>5 DEF SocketInv
<1>8. ASSUME HandleQueueDropped \/ HandleQueueSent PROVE SocketInv'
  <2>1. /\ pc = "HandleQueue" /\ pc' \in {"sent", "dropped"}
        /\ writeQueue # <<>> /\ writeQueue' = Tail(writeQueue)
        /\ UNCHANGED <<isWritingAsync, closing, closed, readOp, writeOp, caller, held,
                       shut, peer, sizes>>
    BY <1>8 DEF HandleQueueDropped, HandleQueueSent
  <2>2. writeQueue' \in Seq(Packet) /\ BytesToSend \in Int /\ Front.id \in PacketIds
    BY <1>0, <2>1, FrontFacts
  <2>3. wire' \in Seq(Byte) /\ room' \in 0 .. SndBuf /\ lost' \in SUBSET PacketIds
    <3>1. CASE HandleQueueDropped
      BY <1>0, <2>2, <3>1 DEF HandleQueueDropped, TypeOK
    <3>2. CASE HandleQueueSent
      <4>1. WriteTakes(BytesToSend) /\ lost' = lost
        BY <3>2 DEF HandleQueueSent
      <4>2. wire' \in Seq(Byte) /\ room' \in 0 .. SndBuf
        BY <1>0, <2>1, <2>2, <4>1, WriteFacts
      <4> QED
        BY <1>0, <4>1, <4>2 DEF TypeOK
    <3> QED
      BY <1>8, <3>1, <3>2
  <2>4. TypeOK'
    BY <1>0, <2>1, <2>2, <2>3 DEF TypeOK, Places
  <2>5. SingleWrite' /\ LoopAlone' /\ OneRead' /\ ClosedShut'
    BY <1>0, <2>1 DEF SingleWrite, LoopAlone, OneRead, ClosedShut
  <2> QED
    BY <2>4, <2>5 DEF SocketInv
<1>9. CASE HandleQueueEmpty
  BY <1>0, <1>9 DEF HandleQueueEmpty, SocketInv, TypeOK, SingleWrite, LoopAlone,
     OneRead, ClosedShut, Places
<1>10. CASE HandleQueuePopped
  <2>1. /\ pc \in {"sent", "dropped"} /\ pc' \in {"idle", "HandleQueue"}
        /\ UNCHANGED <<writeQueue, isWritingAsync, closing, readOp, writeOp, caller, held,
                       room, peer, history>>
        /\ CloseSocket \/ StayOpen
    BY <1>10 DEF HandleQueuePopped
  <2>2. /\ closed' \in BOOLEAN /\ shut' \in BOOLEAN
        /\ closed => closed'
        /\ closed' => shut'
    BY <1>0, <2>1, CloseFacts
  <2>3. TypeOK'
    BY <1>0, <2>1, <2>2 DEF TypeOK, Places
  <2>4. SingleWrite' /\ LoopAlone' /\ OneRead' /\ ClosedShut'
    BY <1>0, <2>1, <2>2 DEF SingleWrite, LoopAlone, OneRead, ClosedShut
  <2> QED
    BY <2>3, <2>4 DEF SocketInv
<1>11. CASE WriteHandler
  <2>1. /\ pc = "idle" /\ writeOp = 1 /\ writeQueue # <<>>
        /\ UNCHANGED <<closing, readOp, pc, caller, held, peer, sizes, lost>>
        /\ WriteOn
    BY <1>0, <1>11 DEF WriteHandler, Handling, SingleWrite, TypeOK
  <2>2. PICK n \in 0 .. BytesToSend :
            /\ IF n = 0 THEN BytesToSend = 0 /\ UNCHANGED <<wire, room>> ELSE WriteTakes(n)
            /\ writeQueue' = Transferred(n)
    BY <1>11 DEF WriteHandler
  <2>3. n \in Nat /\ BytesToSend \in Int
    BY <1>0, <2>1, <2>2, FrontFacts
  <2>4. wire' \in Seq(Byte) /\ room' \in 0 .. SndBuf
    <3>1. CASE n = 0
      BY <1>0, <2>2, <3>1 DEF TypeOK
    <3>2. CASE n # 0
      <4>1. WriteTakes(n)
        BY <2>2, <3>2
      <4> QED
        BY <1>0, <2>1, <2>3, <4>1, WriteFacts
    <3> QED
      BY <3>1, <3>2
  <2>5. writeQueue' \in Seq(Packet)
    BY <1>0, <2>1, <2>2, <2>3, FrontFacts, AdvancedFacts DEF Transferred
  <2>6. /\ isWritingAsync' = (writeQueue' # <<>>)
        /\ writeOp' = IF writeQueue' # <<>> THEN 1 ELSE 0
    BY <2>1 DEF WriteOn
  <2>7. /\ closed' \in BOOLEAN /\ shut' \in BOOLEAN
        /\ closed => closed'
        /\ closed' => shut'
    BY <1>0, <2>1, CloseFacts DEF WriteOn
  <2>8. TypeOK'
    BY <1>0, <2>1, <2>4, <2>5, <2>6, <2>7 DEF TypeOK
  <2>9. SingleWrite' /\ LoopAlone' /\ OneRead' /\ ClosedShut'
    <3>1. CASE writeQueue' # <<>>
      <4>1. isWritingAsync' /\ writeOp' = 1
        BY <2>6, <3>1
      <4> QED
        BY <2>1, <2>7, <3>1, <4>1 DEF SingleWrite, LoopAlone, OneRead, ClosedShut
    <3>2. CASE writeQueue' = <<>>
      <4>1. ~isWritingAsync' /\ writeOp' = 0
        BY <2>6, <3>2
      <4> QED
        BY <2>1, <2>7, <4>1 DEF SingleWrite, LoopAlone, OneRead, ClosedShut
    <3> QED
      BY <3>1, <3>2
  <2> QED
    BY <2>8, <2>9 DEF SocketInv
<1>12. CASE WriteHandlerError
  <2>1. /\ pc = "idle" /\ writeOp' = 0 /\ closed' = TRUE /\ shut' = TRUE
        /\ UNCHANGED <<writeQueue, isWritingAsync, closing, readOp, pc, caller, held, room,
                       peer, history>>
    BY <1>0, <1>12 DEF WriteHandlerError, Handling, CloseSocket, SingleWrite, TypeOK
  <2>2. TypeOK'
    BY <1>0, <2>1 DEF TypeOK
  <2>3. SingleWrite' /\ LoopAlone' /\ OneRead' /\ ClosedShut'
    BY <2>1 DEF SingleWrite, LoopAlone, OneRead, ClosedShut
  <2> QED
    BY <2>2, <2>3 DEF SocketInv
<1>13. CASE PeerReads
  BY <1>0, <1>13 DEF PeerReads, SocketInv, TypeOK, SingleWrite, LoopAlone, OneRead, ClosedShut
<1>14. ASSUME NEW how \in {"fin", "reset"}, PeerCloses(how) PROVE SocketInv'
  BY <1>0, <1>14 DEF PeerCloses, SocketInv, TypeOK, SingleWrite, LoopAlone, OneRead, ClosedShut
<1>15. CASE UNCHANGED vars
  BY <1>0, <1>15 DEF vars, SocketInv, TypeOK, SingleWrite, LoopAlone, OneRead, ClosedShut
<1>16. CASE ReadHandlerInternal
  <2>1. /\ pc' = "ReadHandler" /\ ~readOp' /\ readOp' \in BOOLEAN
        /\ UNCHANGED <<writeQueue, isWritingAsync, closing, closed, writeOp, caller,
                       held, shut, room, peer, sizes, wire, lost>>
    BY <1>16, Zenon DEF ReadHandlerInternal
  <2>2. TypeOK'
    BY <1>0, <2>1 DEF TypeOK, Places
  <2>3. SingleWrite' /\ LoopAlone' /\ OneRead' /\ ClosedShut'
    BY <1>0, <2>1 DEF SingleWrite, LoopAlone, OneRead, ClosedShut
  <2> QED
    BY <2>2, <2>3 DEF SocketInv
<1> QED
  BY <1>1, <1>2, <1>3, <1>4, <1>5, <1>6, <1>7, <1>8, <1>9, <1>10, <1>11, <1>12,
     <1>13, <1>14, <1>15, <1>16 DEF Next, HandleQueue

\* The variables of a socket, of its kernel buffer and of the histories keep
\* their types, in both builds and for any packets.
THEOREM TypeCorrect == Spec => []TypeOK
<1>1. SocketInv => TypeOK
  BY DEF SocketInv
<1> QED
  BY SocketInit, SocketStep, <1>1, PTL DEF Spec

\* _isWritingAsync and the outstanding write stay in step in both builds: never
\* two writes, never one without a packet, never a flag without an operation.
THEOREM SingleWriteCorrect == Spec => []SingleWrite
<1>1. SocketInv => SingleWrite
  BY DEF SocketInv
<1> QED
  BY SocketInit, SocketStep, <1>1, PTL DEF Spec

-----------------------------------------------------------------------------

\* No step of a closed socket writes: its sending side is shut down.
LEMMA QuietStep == SocketInv /\ [Next]_vars => (closed => wire' = wire)
<1> SUFFICES ASSUME SocketInv, [Next]_vars, closed
             PROVE  wire' = wire
  OBVIOUS
<1> USE DEF code, kernel, history
<1>1. ASSUME NEW n, WriteTakes(n) PROVE FALSE
  <2>1. ~shut
    BY <1>1 DEF WriteTakes, Broken
  <2>2. shut
    BY Zenon DEF SocketInv, ClosedShut
  <2> QED
    BY <2>1, <2>2
<1>2. CASE HandleQueue
  BY <1>1, <1>2 DEF HandleQueue, HandleQueueEmpty, HandleQueueBlocked, HandleQueueDropped,
     HandleQueuePartial, HandleQueueSent, HandleQueuePopped
<1>3. CASE WriteHandler
  BY <1>1, <1>3 DEF WriteHandler
<1>4. CASE \/ ReadError \/ ReadHandlerInternal \/ ReadHandler
           \/ DelayedCloseSocket \/ UpdateClosed \/ Update
  BY <1>4 DEF ReadError, ReadHandlerInternal, ReadHandler, DelayedCloseSocket, UpdateClosed, Update
<1>5. CASE WriteHandlerWrapper \/ WriteHandlerError \/ PeerReads
  BY <1>5 DEF WriteHandlerWrapper, WriteHandlerError, PeerReads
<1>6. CASE \E how \in {"fin", "reset"} : PeerCloses(how)
  BY <1>6 DEF PeerCloses
<1>7. CASE UNCHANGED vars
  BY <1>7 DEF vars
<1> QED
  BY <1>2, <1>3, <1>4, <1>5, <1>6, <1>7 DEF Next

\* Nothing goes on the wire after CloseSocket, whichever handlers still run.
THEOREM QuietCorrect == Spec => QuietAfterClose
<1>1. SocketInv /\ [Next]_vars => [closed => wire' = wire]_vars
  BY QuietStep
<1> QED
  BY SocketInit, SocketStep, <1>1, PTL DEF Spec, QuietAfterClose

-----------------------------------------------------------------------------
(* Socket implements Session.                                              *)

\* A step that touches neither the flags nor the read is a stutter.
LEMMA SessionStutters ==
    ASSUME UNCHANGED <<closed, closing, readOp>>,
           pc' = "ReadHandler" <=> pc = "ReadHandler"
    PROVE  UNCHANGED Abstract!vars
BY DEF Abstract!vars

\* Carrying out a close on the write path, or not, is Close or a stutter.
LEMMA SessionCloses ==
    ASSUME TypeOK, UNCHANGED <<closing, readOp>>, CloseSocket \/ StayOpen,
           pc # "ReadHandler", pc' # "ReadHandler"
    PROVE  [Abstract!Next]_(Abstract!vars)
<1>1. CASE StayOpen
  BY <1>1 DEF StayOpen, Abstract!vars
<1>2. CASE CloseSocket
  <2>1. closed' = TRUE
    BY <1>2 DEF CloseSocket
  <2>2. CASE closed
    BY <2>1, <2>2 DEF Abstract!vars
  <2>3. CASE ~closed
    BY <2>1, <2>3 DEF Abstract!Next, Abstract!Close
  <2> QED
    BY <2>2, <2>3
<1> QED
  BY <1>1, <1>2

\* Every step of the socket is a step of the session, or a stutter.
LEMMA SessionStep == SocketInv /\ [Next]_vars => [Abstract!Next]_(Abstract!vars)
<1> SUFFICES ASSUME SocketInv, [Next]_vars
             PROVE  [Abstract!Next]_(Abstract!vars)
  OBVIOUS
<1> USE DEF code, kernel, history
<1>0. TypeOK /\ OneRead
  BY DEF SocketInv
<1>1. CASE ReadError
  <2>1. /\ readOp /\ readOp' = FALSE /\ closed' = TRUE
        /\ pc' # "ReadHandler"
    BY <1>1 DEF ReadError, CloseSocket, Handling
  <2> QED
    BY <2>1 DEF Abstract!Next, Abstract!ReadCompletes
<1>2. CASE ReadHandlerInternal
  <2>1. /\ readOp /\ readOp' = FALSE /\ UNCHANGED <<closed, closing>>
        /\ pc' = "ReadHandler"
    BY <1>2 DEF ReadHandlerInternal
  <2> QED
    BY <2>1 DEF Abstract!Next, Abstract!ReadCompletes
<1>3. CASE ReadHandler
  <2>1. pc = "ReadHandler" /\ pc' # "ReadHandler" /\ ~readOp /\ closing' = closing
    BY <1>0, <1>3 DEF ReadHandler, OneRead
  <2>2. \/ closed' = TRUE /\ readOp' = readOp
        \/ closed' = closed /\ readOp' = readOp
        \/ closed' = closed /\ readOp' = (~closed /\ ~closing)
    BY <1>3 DEF ReadHandler, CloseSocket, StayOpen, AsyncRead, IsOpen
  <2>3. CASE ~readOp'
    BY <1>0, <2>1, <2>2, <2>3 DEF TypeOK, Abstract!Next, Abstract!ReadHandler
  <2>4. CASE readOp'
    <3>1. ~closed /\ ~closing /\ closed' = closed
      BY <2>1, <2>2, <2>4
    <3> QED
      BY <2>1, <2>4, <3>1 DEF Abstract!Next, Abstract!ReadHandler
  <2> QED
    BY <2>3, <2>4
<1>4. CASE DelayedCloseSocket
  <2>1. ~closing /\ closing' = TRUE /\ UNCHANGED <<closed, readOp, pc>>
    BY <1>4 DEF DelayedCloseSocket
  <2>2. CASE closed
    BY <2>1, <2>2 DEF Abstract!vars
  <2>3. CASE ~closed
    BY <2>1, <2>3 DEF Abstract!Next, Abstract!DelayedClose
  <2> QED
    BY <2>2, <2>3
<1>5. CASE UpdateClosed \/ Update \/ WriteHandlerWrapper \/ PeerReads
  BY <1>5, SessionStutters DEF UpdateClosed, Update, WriteHandlerWrapper, PeerReads, Handling
<1>6. CASE HandleQueue
  <2>1. CASE HandleQueuePopped
    <3>1. /\ UNCHANGED <<closing, readOp>> /\ (CloseSocket \/ StayOpen)
          /\ pc # "ReadHandler" /\ pc' # "ReadHandler"
      BY <2>1 DEF HandleQueuePopped
    <3> QED
      BY <1>0, <3>1, SessionCloses
  <2>2. CASE ~HandleQueuePopped
    BY <1>6, <2>2, SessionStutters DEF HandleQueue, HandleQueueEmpty, HandleQueueBlocked,
       HandleQueueDropped, HandleQueuePartial, HandleQueueSent
  <2> QED
    BY <2>1, <2>2
<1>7. CASE WriteHandler \/ WriteHandlerError
  <2>1. /\ UNCHANGED <<closing, readOp>> /\ (CloseSocket \/ StayOpen)
        /\ pc # "ReadHandler" /\ pc' # "ReadHandler"
    BY <1>7 DEF WriteHandler, WriteOn, WriteHandlerError, Handling
  <2> QED
    BY <1>0, <2>1, SessionCloses
<1>8. CASE \E how \in {"fin", "reset"} : PeerCloses(how)
  BY <1>8, SessionStutters DEF PeerCloses
<1>9. CASE UNCHANGED vars
  BY <1>9, SessionStutters DEF vars
<1> QED
  BY <1>1, <1>2, <1>3, <1>4, <1>5, <1>6, <1>7, <1>8, <1>9 DEF Next

\* A socket, with all its writing, both ways of closing and both builds, is a
\* Session: the interface NetworkThread rests on.
THEOREM SessionCorrect == Spec => ImplementsSession
<1>1. Init => Abstract!Init
  BY DEF Init, Started, Abstract!Init
<1> QED
  BY SocketInit, SocketStep, SessionStep, <1>1, PTL DEF Spec, ImplementsSession, Abstract!Spec

-----------------------------------------------------------------------------
(* What a Socket puts on the wire: the stream is in order and whole.       *)

\* The number of packets that have left the queue.
Gone == Len(sizes) - Len(writeQueue)

\* The bytes of the front packet that are on the wire.
Sent == IF writeQueue = <<>> THEN 0 ELSE Front.rpos

\* The packet of the last byte on the wire.
LastId == IF Len(wire) = 0 THEN 0 ELSE wire[Len(wire)].id

\* The queue holds the packets that have not left it, in queueing order; only
\* the front one may be partly sent.
QueueShape ==
    /\ Len(writeQueue) <= Len(sizes)
    /\ \A i \in 1 .. Len(writeQueue) :
          /\ writeQueue[i].id = Gone + i
          /\ writeQueue[i].size = sizes[Gone + i]
          /\ writeQueue[i].rpos <= writeQueue[i].size
          /\ i > 1 => writeQueue[i].rpos = 0

\* Every byte on the wire is of a packet that was queued.
WireIds == \A j \in 1 .. Len(wire) : wire[j].id \in 1 .. Len(sizes)

\* Where the wire ends: in the middle of the front packet, at the byte its read
\* position names, or behind a packet that is complete or dropped, with nothing
\* to send left of those behind it that have gone.
WireEnd ==
    IF Sent > 0
    THEN /\ Len(wire) > 0
         /\ wire[Len(wire)].id = Gone + 1
         /\ wire[Len(wire)].at = Sent
    ELSE /\ LastId <= Gone
         /\ \/ Len(wire) = 0
            \/ LastId \in lost
            \/ wire[Len(wire)].at = sizes[LastId]
         /\ \A k \in LastId + 1 .. Gone : Skipped(k)

(***************************************************************************)
(* StreamIntact speaks of the bytes, NothingVanishes of the packets that   *)
(* left; neither says where the next byte comes from.  WireEnd ties the    *)
(* end of the wire to the front of the queue, QueueShape the front of the  *)
(* queue to the order in which packets were queued.                        *)
(***************************************************************************)
StreamInv == QueueShape /\ WireIds /\ WireEnd /\ StreamIntact /\ NothingVanishes


LEMMA StreamInit == Init => StreamInv
BY DEF Init, Started, StreamInv, QueueShape, WireIds, WireEnd, StreamIntact, NothingVanishes,
   Gone, Sent, LastId, Left

\* The types, spelled out for the sequences.
LEMMA StreamTypes ==
    ASSUME TypeOK
    PROVE  /\ Len(sizes) \in Nat /\ Len(writeQueue) \in Nat /\ Len(wire) \in Nat
           /\ \A k \in 1 .. Len(sizes) : sizes[k] \in Nat
           /\ \A i \in 1 .. Len(writeQueue) :
                 /\ writeQueue[i].id \in Nat
                 /\ writeQueue[i].size \in Nat
                 /\ writeQueue[i].rpos \in Nat
           /\ \A j \in 1 .. Len(wire) : wire[j].id \in Nat \ {0} /\ wire[j].at \in Nat \ {0}
<1>1. \A k \in 1 .. Len(sizes) : sizes[k] \in Nat
  <2>1. \A k \in 1 .. Len(sizes) : sizes[k] \in PacketSizes
    BY DEF TypeOK
  <2> QED
    BY <2>1, SocketAssumption
<1>2. \A i \in 1 .. Len(writeQueue) : writeQueue[i] \in Packet
  BY DEF TypeOK
<1>3. \A j \in 1 .. Len(wire) : wire[j] \in Byte
  BY DEF TypeOK
<1>4. Len(sizes) \in Nat /\ Len(writeQueue) \in Nat /\ Len(wire) \in Nat
  BY DEF TypeOK
<1>5. ASSUME NEW p \in Packet PROVE p.id \in Nat /\ p.size \in Nat /\ p.rpos \in Nat
  <2>1. p.id \in PacketIds /\ p.size \in PacketSizes /\ p.rpos \in Nat
    BY DEF Packet
  <2>2. p.id \in Nat
    BY <2>1, SocketAssumption DEF PacketIds
  <2>3. p.size \in Nat
    BY <2>1, SocketAssumption, Zenon
  <2> QED
    BY <2>1, <2>2, <2>3
<1>6. ASSUME NEW b \in Byte PROVE b.id \in Nat \ {0} /\ b.at \in Nat \ {0}
  BY SocketAssumption DEF Byte, PacketIds
<1> QED
  BY <1>1, <1>2, <1>3, <1>4, <1>5, <1>6

\* The front packet is the first that has not left the queue.
LEMMA StreamFront ==
    ASSUME TypeOK, QueueShape, writeQueue # <<>>
    PROVE  /\ Len(writeQueue) > 0 /\ Gone \in Nat /\ Gone + 1 <= Len(sizes)
           /\ Front = writeQueue[1]
           /\ Front.id = Gone + 1
           /\ Front.size = sizes[Gone + 1] /\ Front.size \in Nat
           /\ Front.rpos \in Nat /\ Front.rpos <= Front.size
           /\ Sent = Front.rpos
           /\ Len(Tail(writeQueue)) = Len(writeQueue) - 1
           /\ \A i \in 1 .. Len(writeQueue) - 1 : Tail(writeQueue)[i] = writeQueue[i + 1]
<1>1. writeQueue \in Seq(Packet)
  BY DEF TypeOK
<1>2. Len(writeQueue) \in Nat \ {0} /\ Front = writeQueue[1]
  BY <1>1 DEF Front
<1>3. /\ Len(Tail(writeQueue)) = Len(writeQueue) - 1
      /\ \A i \in 1 .. Len(writeQueue) - 1 : Tail(writeQueue)[i] = writeQueue[i + 1]
  BY <1>1, <1>2
<1>4. Gone \in Nat /\ Gone + 1 <= Len(sizes)
  BY <1>2, StreamTypes DEF QueueShape, Gone
<1>5. 1 \in 1 .. Len(writeQueue)
  BY <1>2
<1>6. /\ Front.id = Gone + 1
      /\ Front.size = sizes[Gone + 1] /\ Front.rpos <= Front.size
  BY <1>2, <1>5 DEF QueueShape
<1>7. Front.rpos \in Nat /\ Front.size \in Nat
  BY <1>2, <1>5, StreamTypes
<1> QED
  BY <1>2, <1>3, <1>4, <1>6, <1>7 DEF Sent

\* What was skipped stays skipped: packets are only appended and lost.
LEMMA SkippedStays ==
    ASSUME lost \subseteq lost',
           NEW k \in 1 .. Len(sizes), sizes'[k] = sizes[k],
           Skipped(k)
    PROVE  Skipped(k)'
BY DEF Skipped

\* The bytes already on the wire stay in order when packets are queued, lost or
\* appended to the wire.
LEMMA StreamKept ==
    ASSUME TypeOK, WireIds, StreamIntact,
           lost \subseteq lost',
           \A k \in 1 .. Len(sizes) : sizes'[k] = sizes[k],
           \A j \in 1 .. Len(wire) : wire'[j] = wire[j],
           NEW j \in 1 .. Len(wire)
    PROVE  LET b    == wire'[j]
               prev == IF j = 1 THEN 0 ELSE wire'[j - 1].id
           IN  \/ /\ prev = b.id
                  /\ b.at = wire'[j - 1].at + 1
               \/ /\ prev < b.id
                  /\ b.at = 1
                  /\ j = 1 \/ prev \in lost' \/ wire'[j - 1].at = sizes'[prev]
                  /\ \A k \in prev + 1 .. b.id - 1 : Skipped(k)'
<1> DEFINE b    == wire[j]
           prev == IF j = 1 THEN 0 ELSE wire[j - 1].id
<1>1. wire'[j] = wire[j] /\ (j # 1 => wire'[j - 1] = wire[j - 1])
  BY StreamTypes, SMTT(60)
<1>2. \/ /\ prev = b.id
         /\ b.at = wire[j - 1].at + 1
      \/ /\ prev < b.id
         /\ b.at = 1
         /\ j = 1 \/ prev \in lost \/ wire[j - 1].at = sizes[prev]
         /\ \A k \in prev + 1 .. b.id - 1 : Skipped(k)
  BY DEF StreamIntact
<1>3. b.id \in 1 .. Len(sizes) /\ prev \in 0 .. Len(sizes) /\ (j # 1 => prev \in 1 .. Len(sizes))
  BY StreamTypes DEF WireIds
<1>4. j # 1 => sizes'[prev] = sizes[prev]
  BY <1>3
<1>5. \A k \in prev + 1 .. b.id - 1 : Skipped(k) => Skipped(k)'
  BY <1>3, SkippedStays, StreamTypes
<1>6. CASE j = 1
  <2>1. prev = 0 /\ b.id > 0 /\ wire'[j] = b
    BY <1>1, <1>3, <1>6
  <2>2. b.at = 1 /\ \A k \in 1 .. b.id - 1 : Skipped(k)'
    BY <1>2, <1>5, <2>1
  <2> QED
    BY <1>6, <2>1, <2>2
<1>7. CASE j # 1
  BY <1>1, <1>2, <1>4, <1>5, <1>7
<1> QED
  BY <1>6, <1>7

\* A step that leaves the queue and the histories alone keeps the stream.
LEMMA StreamUntouched ==
    ASSUME StreamInv, UNCHANGED <<writeQueue, sizes, wire, lost>>
    PROVE  StreamInv'
BY DEF StreamInv, QueueShape, WireIds, WireEnd, StreamIntact, NothingVanishes, Gone, Sent,
   Front, LastId, Left, Skipped

\* QueuePacket puts the new packet behind the others.
LEMMA StreamQueued ==
    ASSUME TypeOK, StreamInv, NEW n \in PacketSizes, QueuePacket(n), UNCHANGED <<wire, lost>>
    PROVE  StreamInv'
<1> DEFINE p == [id |-> Len(sizes) + 1, size |-> n, rpos |-> 0]
<1>0. QueueShape /\ WireIds /\ WireEnd /\ StreamIntact /\ NothingVanishes
  BY DEF StreamInv
<1>1. writeQueue' = Append(writeQueue, p) /\ sizes' = Append(sizes, n)
  BY DEF QueuePacket
<1>2. n \in Nat /\ p.id = Len(sizes) + 1 /\ p.size = n /\ p.rpos = 0
  BY SocketAssumption
<1> HIDE DEF p
<1>3. /\ Len(sizes') = Len(sizes) + 1 /\ sizes'[Len(sizes) + 1] = n
      /\ \A k \in 1 .. Len(sizes) : sizes'[k] = sizes[k]
      /\ Len(writeQueue') = Len(writeQueue) + 1 /\ writeQueue'[Len(writeQueue) + 1] = p
      /\ \A i \in 1 .. Len(writeQueue) : writeQueue'[i] = writeQueue[i]
      /\ writeQueue' # <<>>
  BY <1>1, SMTT(60) DEF TypeOK
<1>4. Gone' = Gone /\ Gone \in Nat /\ Gone + Len(writeQueue) = Len(sizes)
  BY <1>0, <1>3, StreamTypes DEF Gone, QueueShape
<1>5. Front' = writeQueue'[1]
  BY <1>1, <1>3 DEF TypeOK, Front
<1>6. Sent' = Sent
  <2>1. CASE writeQueue = <<>>
    <3>1. Len(writeQueue) = 0
      BY <2>1
    <3>2. writeQueue'[1] = p
      BY <1>3, <3>1
    <3> QED
      BY <1>2, <1>3, <1>5, <2>1, <3>2 DEF Sent
  <2>2. CASE writeQueue # <<>>
    BY <1>0, <1>3, <1>5, <2>2, StreamFront DEF Sent
  <2> QED
    BY <2>1, <2>2
<1>7. QueueShape'
  <2>1. Len(writeQueue') <= Len(sizes')
    BY <1>0, <1>3, StreamTypes DEF QueueShape
  <2>2. ASSUME NEW i \in 1 .. Len(writeQueue')
        PROVE  /\ writeQueue'[i].id = Gone' + i
               /\ writeQueue'[i].size = sizes'[Gone' + i]
               /\ writeQueue'[i].rpos <= writeQueue'[i].size
               /\ i > 1 => writeQueue'[i].rpos = 0
    <3>1. CASE i \in 1 .. Len(writeQueue)
      <4>1. Gone + i \in 1 .. Len(sizes) /\ writeQueue'[i] = writeQueue[i]
        BY <1>3, <1>4, <3>1, StreamTypes
      <4> QED
        BY <1>0, <1>3, <1>4, <3>1, <4>1 DEF QueueShape
    <3>2. CASE i = Len(writeQueue) + 1
      BY <1>2, <1>3, <1>4, <3>2, StreamTypes
    <3> QED
      BY <1>3, <3>1, <3>2, StreamTypes
  <2> QED
    BY <2>1, <2>2 DEF QueueShape
<1>8. WireIds'
  BY <1>0, <1>3, StreamTypes DEF WireIds
<1>9. \A k \in 1 .. Len(sizes) : Skipped(k) => Skipped(k)'
  BY <1>3, SkippedStays
<1>10. WireEnd'
  <2>1. LastId' = LastId /\ LastId \in 0 .. Len(sizes)
    BY <1>0, StreamTypes DEF LastId, WireIds
  <2>2. Len(wire) # 0 => sizes'[LastId] = sizes[LastId]
    BY <1>0, <1>3, StreamTypes DEF LastId, WireIds
  <2>3. \A k \in LastId + 1 .. Gone : Skipped(k) => Skipped(k)'
    BY <1>4, <1>9, <2>1, StreamTypes
  <2> QED
    BY <1>0, <1>4, <1>6, <2>1, <2>2, <2>3 DEF WireEnd
<1>11. StreamIntact'
  BY <1>0, <1>3, StreamKept DEF StreamIntact
<1>12. NothingVanishes'
  <2>1. Left' = Left /\ Left \subseteq 1 .. Len(sizes)
    BY <1>4 DEF Left, Gone
  <2> QED
    BY <1>0, <1>3, <1>9, <2>1 DEF NothingVanishes
<1> QED
  BY <1>7, <1>8, <1>10, <1>11, <1>12 DEF StreamInv

\* Where the elements of two sequences are in their concatenation.
LEMMA AppendedBytes ==
    ASSUME NEW s \in Seq(Byte), NEW t \in Seq(Byte)
    PROVE  /\ Len(s \o t) = Len(s) + Len(t)
           /\ \A j \in 1 .. Len(s) : (s \o t)[j] = s[j]
           /\ \A k \in 1 .. Len(t) : (s \o t)[Len(s) + k] = t[k]
OBVIOUS

\* The same for a queue whose front packet is replaced.
LEMMA AppendedPackets ==
    ASSUME NEW p \in Packet, NEW t \in Seq(Packet)
    PROVE  /\ Len(<<p>> \o t) = 1 + Len(t)
           /\ (<<p>> \o t)[1] = p
           /\ \A i \in 1 .. Len(t) : (<<p>> \o t)[1 + i] = t[i]
OBVIOUS

\* What write_some took continues the wire where it ended.
LEMMA StreamTaken ==
    ASSUME TypeOK, StreamInv, writeQueue # <<>>,
           NEW n \in Int, WriteTakes(n), UNCHANGED <<sizes, lost>>
    PROVE  /\ StreamIntact' /\ WireIds'
           /\ n \in Nat \ {0} /\ Len(wire') = Len(wire) + n
           /\ \A j \in 1 .. Len(wire) : wire'[j] = wire[j]
           /\ wire'[Len(wire')] = [id |-> Gone + 1, at |-> Front.rpos + n]
<1>0. QueueShape /\ WireIds /\ WireEnd /\ StreamIntact
  BY DEF StreamInv
<1>1. /\ Gone \in Nat /\ Gone + 1 <= Len(sizes) /\ Front.id = Gone + 1
      /\ Front.rpos \in Nat /\ Sent = Front.rpos /\ Front.size \in Nat
  BY <1>0, StreamFront
<1>2. n \in 1 .. BytesToSend /\ wire' = wire \o Taken(n)
  BY DEF WriteTakes
<1>3. n \in Nat \ {0}
  BY <1>1, <1>2 DEF BytesToSend
<1>4. /\ Taken(n) \in Seq(Byte) /\ Len(Taken(n)) = n
      /\ \A k \in 1 .. n : Taken(n)[k] = [id |-> Gone + 1, at |-> Front.rpos + k]
  <2>1. \A k \in 1 .. n : [id |-> Front.id, at |-> Front.rpos + k] \in Byte
    BY <1>1, <1>3, FrontFacts DEF Byte
  <2> QED
    BY <1>1, <1>3, <2>1 DEF Taken
<1> DEFINE L == Len(wire)
<1>5. /\ Len(wire') = L + n /\ L \in Nat
      /\ \A j \in 1 .. L : wire'[j] = wire[j]
      /\ \A k \in 1 .. n : wire'[L + k] = [id |-> Gone + 1, at |-> Front.rpos + k]
  <2>1. wire \in Seq(Byte) /\ L \in Nat
    BY DEF TypeOK
  <2>2. /\ Len(wire') = L + n
        /\ \A j \in 1 .. L : wire'[j] = wire[j]
        /\ \A k \in 1 .. n : wire'[L + k] = Taken(n)[k]
    BY <1>2, <1>4, <2>1, AppendedBytes, ZenonT(60)
  <2> QED
    BY <1>4, <2>1, <2>2
<1>6. ASSUME NEW j \in 1 .. Len(wire'), j > L
      PROVE  j - L \in 1 .. n /\ wire'[j].id = Gone + 1 /\ wire'[j].at = Front.rpos + (j - L)
  <2>1. j - L \in 1 .. n /\ L + (j - L) = j
    BY <1>3, <1>5, <1>6
  <2>2. wire'[j] = [id |-> Gone + 1, at |-> Front.rpos + (j - L)]
    BY <1>5, <2>1
  <2> QED
    BY <2>1, <2>2
<1>7. WireIds'
  BY <1>0, <1>1, <1>5, <1>6, StreamTypes, SMTT(60) DEF WireIds
<1>8. ASSUME NEW j \in 1 .. Len(wire')
      PROVE  LET b    == wire'[j]
                 prev == IF j = 1 THEN 0 ELSE wire'[j - 1].id
             IN  \/ /\ prev = b.id
                    /\ b.at = wire'[j - 1].at + 1
                 \/ /\ prev < b.id
                    /\ b.at = 1
                    /\ j = 1 \/ prev \in lost' \/ wire'[j - 1].at = sizes'[prev]
                    /\ \A k \in prev + 1 .. b.id - 1 : Skipped(k)'
  <2>1. CASE j <= L
    BY <1>0, <1>5, <2>1, StreamKept
  <2>2. CASE j > L + 1
    <3>1. wire'[j].id = Gone + 1 /\ wire'[j].at = Front.rpos + (j - L)
      BY <1>5, <1>6, <2>2
    <3>2. j - 1 \in 1 .. Len(wire') /\ j - 1 > L /\ j # 1
      BY <1>3, <1>5, <2>2
    <3>3. wire'[j - 1].id = Gone + 1 /\ wire'[j - 1].at = Front.rpos + (j - 1 - L)
      BY <1>6, <3>2
    <3> QED
      BY <1>1, <1>5, <3>1, <3>2, <3>3
  <2>3. CASE j = L + 1
    <3>1. wire'[j].id = Gone + 1 /\ wire'[j].at = Sent + 1
      BY <1>1, <1>5, <1>6, <2>3
    <3>2. j # 1 => wire'[j - 1] = wire[L] /\ L \in 1 .. L
      BY <1>5, <2>3
    <3>3. CASE Sent > 0
      BY <1>0, <1>1, <2>3, <3>1, <3>2, <3>3 DEF WireEnd
    <3>4. CASE Sent = 0
      <4>1. /\ LastId <= Gone /\ LastId \in Nat
            /\ L = 0 \/ LastId \in lost \/ wire[L].at = sizes[LastId]
            /\ \A k \in LastId + 1 .. Gone : Skipped(k)'
        BY <1>0, <1>5, <3>4, StreamTypes DEF WireEnd, LastId, Skipped
      <4>2. LastId = IF j = 1 THEN 0 ELSE wire'[j - 1].id
        BY <1>5, <2>3, <3>2 DEF LastId
      <4> QED
        BY <1>1, <2>3, <3>1, <3>2, <3>4, <4>1, <4>2
    <3> QED
      BY <1>1, <3>3, <3>4
  <2> QED
    BY <1>5, <2>1, <2>2, <2>3
<1>9. StreamIntact'
  BY <1>8 DEF StreamIntact
<1> QED
  BY <1>3, <1>5, <1>7, <1>9

\* A partial write moves the front packet's read position with the wire.
LEMMA StreamAdvanced ==
    ASSUME TypeOK, StreamInv, writeQueue # <<>>,
           NEW n \in Int, WriteTakes(n), UNCHANGED <<sizes, lost>>,
           writeQueue' = Advanced(n)
    PROVE  StreamInv'
<1> DEFINE p == [Front EXCEPT !.rpos = @ + n]
<1>0. QueueShape /\ NothingVanishes
  BY DEF StreamInv
<1>1. /\ StreamIntact' /\ WireIds' /\ n \in Nat \ {0} /\ Len(wire') = Len(wire) + n
      /\ \A j \in 1 .. Len(wire) : wire'[j] = wire[j]
      /\ wire'[Len(wire')] = [id |-> Gone + 1, at |-> Front.rpos + n]
  BY StreamTaken
<1>2. /\ Len(writeQueue) > 0 /\ Gone \in Nat /\ Gone + 1 <= Len(sizes)
      /\ Front = writeQueue[1] /\ Front.id = Gone + 1
      /\ Front.size = sizes[Gone + 1] /\ Front.size \in Nat
      /\ Front.rpos \in Nat /\ Front.rpos <= Front.size
      /\ Len(Tail(writeQueue)) = Len(writeQueue) - 1
      /\ \A i \in 1 .. Len(writeQueue) - 1 : Tail(writeQueue)[i] = writeQueue[i + 1]
  BY <1>0, StreamFront
<1>3. n <= Front.size - Front.rpos
  BY <1>2 DEF WriteTakes, BytesToSend
<1>4. p \in Packet /\ p.id = Front.id /\ p.size = Front.size /\ p.rpos = Front.rpos + n
  <2>1. Front \in Packet /\ Front.rpos + n \in Nat
    BY <1>1, <1>2, FrontFacts
  <2>2. p \in Packet
    BY <1>1, <1>2, <2>1 DEF Packet
  <2>3. p.id = Front.id /\ p.size = Front.size /\ p.rpos = Front.rpos + n
    BY <2>1 DEF Packet
  <2> QED
    BY <2>2, <2>3
<1> HIDE DEF p
<1>5. writeQueue' = <<p>> \o Tail(writeQueue)
  BY DEF Advanced, p
<1>6. /\ Len(writeQueue') = Len(writeQueue) /\ writeQueue'[1] = p
      /\ \A i \in 2 .. Len(writeQueue) : writeQueue'[i] = writeQueue[i]
      /\ writeQueue' # <<>>
  <2>1. Tail(writeQueue) \in Seq(Packet) /\ Len(writeQueue) \in Nat
    BY FrontFacts, StreamTypes
  <2>2. /\ Len(writeQueue') = 1 + Len(Tail(writeQueue)) /\ writeQueue'[1] = p
        /\ \A i \in 1 .. Len(Tail(writeQueue)) : writeQueue'[1 + i] = Tail(writeQueue)[i]
    BY <1>4, <1>5, <2>1, AppendedPackets
  <2>3. ASSUME NEW i \in 2 .. Len(writeQueue) PROVE writeQueue'[i] = writeQueue[i]
    <3>1. i - 1 \in 1 .. Len(writeQueue) - 1 /\ 1 + (i - 1) = i /\ (i - 1) + 1 = i
      BY <2>1
    <3> QED
      BY <1>2, <2>2, <3>1
  <2>4. writeQueue' # <<>>
    BY <1>2, <2>1, <2>2
  <2> QED
    BY <1>2, <2>1, <2>2, <2>3, <2>4
<1>7. Gone' = Gone
  BY <1>6 DEF Gone
<1>8. Sent' = Front.rpos + n
  <2>1. writeQueue' \in Seq(Packet)
    BY <1>1, AdvancedFacts
  <2>2. Front' = writeQueue'[1]
    BY <1>6, <2>1 DEF Front
  <2> QED
    BY <1>4, <1>6, <2>2 DEF Sent
<1>9. QueueShape'
  <2>1. ASSUME NEW i \in 1 .. Len(writeQueue')
        PROVE  /\ writeQueue'[i].id = Gone' + i
               /\ writeQueue'[i].size = sizes'[Gone' + i]
               /\ writeQueue'[i].rpos <= writeQueue'[i].size
               /\ i > 1 => writeQueue'[i].rpos = 0
    <3>1. CASE i = 1
      BY <1>1, <1>2, <1>3, <1>4, <1>6, <1>7, <3>1, SMTT(60)
    <3>2. CASE i \in 2 .. Len(writeQueue)
      BY <1>0, <1>6, <1>7, <3>2, StreamTypes DEF QueueShape
    <3> QED
      BY <1>6, <3>1, <3>2, StreamTypes
  <2> QED
    BY <1>0, <1>6, <2>1 DEF QueueShape
<1>10. WireEnd'
  BY <1>1, <1>2, <1>7, <1>8, StreamTypes, SMTT(60) DEF WireEnd
<1>11. NothingVanishes'
  <2>1. Left' = Left /\ \A k \in Left : Skipped(k) => Skipped(k)'
    BY <1>7 DEF Left, Gone, Skipped
  <2> QED
    BY <1>0, <1>1, <2>1, StreamTypes, SMTT(60) DEF NothingVanishes
<1> QED
  BY <1>1, <1>9, <1>10, <1>11 DEF StreamInv

\* Popping the front packet once it is complete on the wire, has nothing to
\* send or is lost keeps the stream.
LEMMA StreamPopped ==
    ASSUME TypeOK, QueueShape, NothingVanishes, StreamIntact', WireIds',
           writeQueue # <<>>, writeQueue' = Tail(writeQueue),
           sizes' = sizes, lost \subseteq lost',
           wire' \in Seq(Byte), Len(wire') >= Len(wire),
           \A j \in 1 .. Len(wire) : wire'[j] = wire[j],
           \/ /\ Len(wire') > 0
              /\ wire'[Len(wire')] = [id |-> Gone + 1, at |-> sizes[Gone + 1]]
           \/ /\ Len(wire') > 0 /\ wire'[Len(wire')].id = Gone + 1
              /\ Gone + 1 \in lost'
           \/ /\ wire' = wire /\ WireEnd /\ Sent = 0
              /\ Gone + 1 \in lost' \/ sizes[Gone + 1] = 0
    PROVE  StreamInv'
<1>1. /\ Len(writeQueue) > 0 /\ Gone \in Nat /\ Gone + 1 <= Len(sizes)
      /\ Len(Tail(writeQueue)) = Len(writeQueue) - 1
      /\ \A i \in 1 .. Len(writeQueue) - 1 : Tail(writeQueue)[i] = writeQueue[i + 1]
  BY StreamFront
<1>2. Len(writeQueue) \in Nat /\ Len(sizes) \in Nat /\ Len(wire) \in Nat
  BY StreamTypes
<1>3. Gone' = Gone + 1
  BY <1>1, <1>2 DEF Gone
<1>4. ASSUME NEW i \in 1 .. Len(writeQueue')
      PROVE  /\ writeQueue'[i].id = Gone' + i
             /\ writeQueue'[i].size = sizes'[Gone' + i]
             /\ writeQueue'[i].rpos = 0
             /\ writeQueue'[i].size \in Nat
  <2>1. i + 1 \in 1 .. Len(writeQueue) /\ i + 1 > 1 /\ writeQueue'[i] = writeQueue[i + 1]
    BY <1>1, <1>2
  <2>2. Gone + (i + 1) = Gone' + i
    BY <1>1, <1>3
  <2> QED
    BY <2>1, <2>2, StreamTypes DEF QueueShape
<1>5. QueueShape'
  <2>1. Len(writeQueue') <= Len(sizes')
    BY <1>1, <1>2 DEF QueueShape
  <2> QED
    BY <1>4, <2>1 DEF QueueShape
<1>6. Sent' = 0
  <2>1. CASE writeQueue' = <<>>
    BY <2>1 DEF Sent
  <2>2. CASE writeQueue' # <<>>
    <3>1. writeQueue' \in Seq(Packet)
      BY FrontFacts
    <3>2. Front' = writeQueue'[1] /\ 1 \in 1 .. Len(writeQueue')
      BY <2>2, <3>1 DEF Front
    <3> QED
      BY <1>4, <2>2, <3>2 DEF Sent
  <2> QED
    BY <2>1, <2>2
<1>7. \A k \in 1 .. Len(sizes) : Skipped(k) => Skipped(k)'
  BY SkippedStays
<1>8. WireEnd'
  <2>1. CASE Len(wire') > 0 /\ wire'[Len(wire')].id = Gone + 1
    <3>1. LastId' \in lost' \/ wire'[Len(wire')].at = sizes'[LastId']
      BY <1>1, <1>2, <1>3, <2>1 DEF LastId, WireEnd
    <3>2. LastId' = Gone'
      BY <1>3, <2>1 DEF LastId
    <3>3. LastId' + 1 .. Gone' = {}
      BY <1>1, <1>3, <3>2
    <3> QED
      BY <1>1, <1>3, <1>6, <3>1, <3>2, <3>3 DEF WireEnd
  <2>2. CASE /\ wire' = wire /\ WireEnd /\ Sent = 0
             /\ Gone + 1 \in lost' \/ sizes[Gone + 1] = 0
    <3>1. /\ LastId <= Gone /\ LastId \in Nat
          /\ Len(wire) = 0 \/ LastId \in lost \/ wire[Len(wire)].at = sizes[LastId]
          /\ \A k \in LastId + 1 .. Gone : Skipped(k)
      BY <2>2, StreamTypes DEF WireEnd, LastId
    <3>2. LastId' = LastId
      BY <2>2 DEF LastId
    <3>3. ASSUME NEW k \in LastId + 1 .. Gone + 1 PROVE Skipped(k)'
      <4>1. CASE k = Gone + 1
        BY <2>2, <4>1 DEF Skipped
      <4>2. CASE k # Gone + 1
        BY <1>1, <1>2, <1>7, <3>1, <4>2
      <4> QED
        BY <4>1, <4>2
    <3> QED
      BY <1>1, <1>3, <1>6, <2>2, <3>1, <3>2, <3>3 DEF WireEnd
  <2> QED
    BY <2>1, <2>2
<1>9. NothingVanishes'
  <2>1. Left' = 1 .. Gone + 1 /\ Left = 1 .. Gone
    BY <1>3 DEF Left, Gone
  <2>2. ASSUME NEW k \in 1 .. Gone
        PROVE  \/ Skipped(k)'
               \/ \E j \in 1 .. Len(wire') : wire'[j] = [id |-> k, at |-> sizes'[k]]
    <3>1. k \in 1 .. Len(sizes)
      BY <1>1, <1>2
    <3>2. \A j \in 1 .. Len(wire) : j \in 1 .. Len(wire') /\ wire'[j] = wire[j]
      BY <1>2
    <3> QED
      BY <1>7, <2>1, <3>1, <3>2 DEF NothingVanishes
  <2>3. ASSUME NEW k \in Nat, k = Gone + 1
        PROVE  \/ Skipped(k)'
               \/ \E j \in 1 .. Len(wire') : wire'[j] = [id |-> k, at |-> sizes'[k]]
    BY <1>2, <2>3 DEF Skipped
  <2> QED
    BY <1>1, <2>1, <2>2, <2>3 DEF NothingVanishes
<1> QED
  BY <1>5, <1>8, <1>9 DEF StreamInv

\* The front packet leaves once its last byte is on the wire.
LEMMA StreamSent ==
    ASSUME TypeOK, StreamInv, writeQueue # <<>>, WriteTakes(BytesToSend),
           UNCHANGED <<sizes, lost>>, writeQueue' = Tail(writeQueue)
    PROVE  StreamInv'
<1>0. QueueShape /\ NothingVanishes
  BY DEF StreamInv
<1>1. BytesToSend \in Int
  BY FrontFacts
<1>2. /\ StreamIntact' /\ WireIds' /\ BytesToSend \in Nat \ {0}
      /\ Len(wire') = Len(wire) + BytesToSend
      /\ \A j \in 1 .. Len(wire) : wire'[j] = wire[j]
      /\ wire'[Len(wire')] = [id |-> Gone + 1, at |-> Front.rpos + BytesToSend]
  BY <1>1, StreamTaken
<1>3. Front.rpos + BytesToSend = sizes[Gone + 1]
  BY <1>0, StreamFront DEF BytesToSend
<1>4. wire' \in Seq(Byte)
  BY <1>1, WriteFacts
<1>5. Len(wire') > 0 /\ Len(wire') >= Len(wire)
  BY <1>2, StreamTypes
<1> QED
  BY <1>0, <1>2, <1>3, <1>4, <1>5, StreamPopped

\* The front packet leaves because there is nothing left of it to send, or
\* because a write failed.
LEMMA StreamDropped ==
    ASSUME TypeOK, StreamInv, writeQueue # <<>>, UNCHANGED <<sizes, wire>>,
           lost \subseteq lost', BytesToSend = 0 \/ Front.id \in lost',
           writeQueue' = Tail(writeQueue)
    PROVE  StreamInv'
<1>0. QueueShape /\ WireIds /\ WireEnd /\ StreamIntact /\ NothingVanishes
  BY DEF StreamInv
<1>1. /\ Gone \in Nat /\ Front.id = Gone + 1 /\ Front.size = sizes[Gone + 1]
      /\ Front.rpos \in Nat /\ Front.size \in Nat /\ Sent = Front.rpos
  BY <1>0, StreamFront
<1>2. StreamIntact'
  BY <1>0, StreamKept DEF StreamIntact
<1>3. WireIds'
  BY <1>0 DEF WireIds
<1>4. wire \in Seq(Byte) /\ Len(wire) \in Nat
  BY DEF TypeOK
<1>5. CASE Sent = 0
  <2>1. Gone + 1 \in lost' \/ sizes[Gone + 1] = 0
    BY <1>1, <1>5 DEF BytesToSend
  <2> QED
    BY <1>0, <1>2, <1>3, <1>4, <1>5, <2>1, StreamPopped
<1>6. CASE Sent > 0
  <2>1. /\ Len(wire) > 0 /\ wire[Len(wire)].id = Gone + 1
        /\ wire[Len(wire)].at = Sent
    BY <1>0, <1>6 DEF WireEnd
  <2>2. CASE Gone + 1 \in lost'
    BY <1>0, <1>2, <1>3, <1>4, <2>1, <2>2, StreamPopped
  <2>3. CASE BytesToSend = 0
    <3>1. wire[Len(wire)] \in Byte
      BY <1>4, <2>1
    <3>2. wire[Len(wire)] = [id |-> Gone + 1, at |-> sizes[Gone + 1]]
      BY <1>1, <2>1, <2>3, <3>1 DEF Byte, BytesToSend
    <3> QED
      BY <1>0, <1>2, <1>3, <1>4, <2>1, <3>2, StreamPopped
  <2> QED
    BY <1>1, <2>2, <2>3
<1> QED
  BY <1>1, <1>5, <1>6

\* Every step keeps StreamInv.
LEMMA StreamStep == SocketInv /\ StreamInv /\ [Next]_vars => StreamInv'
<1> SUFFICES ASSUME SocketInv, StreamInv, [Next]_vars
             PROVE  StreamInv'
  OBVIOUS
<1> USE DEF code, kernel, history
<1>0. TypeOK /\ SingleWrite
  BY DEF SocketInv
<1>1. CASE UNCHANGED <<writeQueue, sizes, wire, lost>>
  BY <1>1, StreamUntouched
<1>2. CASE ReadHandler
  <2>1. wire' = wire /\ lost' = lost
    BY <1>2 DEF ReadHandler
  <2>2. CASE \E n \in PacketSizes : QueuePacket(n)
    BY <1>0, <2>1, <2>2, StreamQueued
  <2>3. CASE UNCHANGED <<writeQueue, sizes>>
    BY <1>1, <2>1, <2>3
  <2> QED
    BY <1>2, <2>2, <2>3 DEF ReadHandler
<1>3. CASE HandleQueuePartial
  <2>1. PICK n \in 1 .. BytesToSend - 1 : WriteTakes(n) /\ writeQueue' = Advanced(n)
    BY <1>3 DEF HandleQueuePartial
  <2>2. n \in Int /\ writeQueue # <<>> /\ UNCHANGED <<sizes, lost>>
    BY <1>3, <2>1 DEF HandleQueuePartial
  <2> QED
    BY <1>0, <2>1, <2>2, StreamAdvanced
<1>4. CASE HandleQueueSent
  BY <1>0, <1>4, StreamSent DEF HandleQueueSent
<1>5. CASE HandleQueueDropped
  <2>1. /\ writeQueue # <<>> /\ writeQueue' = Tail(writeQueue) /\ UNCHANGED <<sizes, wire>>
        /\ lost \subseteq lost' /\ (BytesToSend = 0 \/ Front.id \in lost')
    BY <1>5 DEF HandleQueueDropped
  <2> QED
    BY <1>0, <2>1, StreamDropped
<1>6. CASE WriteHandler
  <2>1. writeQueue # <<>> /\ UNCHANGED <<sizes, lost>>
    BY <1>0, <1>6 DEF WriteHandler, SingleWrite, TypeOK
  <2>2. PICK n \in 0 .. BytesToSend :
            /\ IF n = 0 THEN BytesToSend = 0 /\ UNCHANGED <<wire, room>> ELSE WriteTakes(n)
            /\ writeQueue' = Transferred(n)
    BY <1>6 DEF WriteHandler
  <2>3. CASE n = 0
    BY <1>0, <2>1, <2>2, <2>3, StreamDropped DEF Transferred
  <2>4. CASE n # 0 /\ n = BytesToSend
    BY <1>0, <2>1, <2>2, <2>4, StreamSent DEF Transferred
  <2>5. CASE n # 0 /\ n # BytesToSend
    BY <1>0, <2>1, <2>2, <2>5, StreamAdvanced DEF Transferred
  <2> QED
    BY <2>3, <2>4, <2>5
<1>7. CASE HandleQueueEmpty \/ HandleQueueBlocked \/ HandleQueuePopped
  BY <1>1, <1>7 DEF HandleQueueEmpty, HandleQueueBlocked, HandleQueuePopped
<1>8. CASE ReadError \/ ReadHandlerInternal \/ DelayedCloseSocket \/ UpdateClosed \/ Update
  BY <1>1, <1>8 DEF ReadError, ReadHandlerInternal, DelayedCloseSocket, UpdateClosed, Update
<1>9. CASE WriteHandlerWrapper \/ WriteHandlerError \/ PeerReads
  BY <1>1, <1>9 DEF WriteHandlerWrapper, WriteHandlerError, PeerReads
<1>10. CASE \E how \in {"fin", "reset"} : PeerCloses(how)
  BY <1>1, <1>10 DEF PeerCloses
<1>11. CASE UNCHANGED vars
  BY <1>1, <1>11 DEF vars
<1> QED
  BY <1>2, <1>3, <1>4, <1>5, <1>6, <1>7, <1>8, <1>9, <1>10, <1>11 DEF Next, HandleQueue

\* What the peer reads is the queued packets in order, byte by byte, with holes
\* only where a failed write dropped a packet: across partial writes, waits for
\* the reactor, drops and overlapped writes, in both builds.
THEOREM StreamCorrect == Spec => []StreamIntact
<1>1. StreamInv => StreamIntact
  BY DEF StreamInv
<1> QED
  BY SocketInit, SocketStep, StreamInit, StreamStep, <1>1, PTL DEF Spec

\* A packet is popped only when all of it is on the wire or a write of it
\* failed: none leaves the queue half sent.
THEOREM NothingVanishesCorrect == Spec => []NothingVanishes
<1>1. StreamInv => NothingVanishes
  BY DEF StreamInv
<1> QED
  BY SocketInit, SocketStep, StreamInit, StreamStep, <1>1, PTL DEF Spec
=============================================================================
