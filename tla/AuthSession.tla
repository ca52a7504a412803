----------------------------- MODULE AuthSession -----------------------------
(***************************************************************************)
(* One client session (app/Server/AuthSession.cpp) and the FIX messages it *)
(* reads (shared/FixMessage/FixMessage.cpp): the dispatch of what a read   *)
(* delivers, the authentication status, and the read buffer, whose old     *)
(* contents stay behind the bytes of the next read.                        *)
(*                                                                         *)
(* The session takes the bytes of one read for one message.  TCP promises  *)
(* no such thing, so a message is a row of cells and a read delivers any   *)
(* number of them:                                                         *)
(*     1, 2               "8=", which nothing looks at                     *)
(*     3 .. Protocol      the seven bytes "FIX.5.0"                        *)
(*     Protocol + 1       BodyLength                                       *)
(*     HeaderEnd          MsgType                                          *)
(*     HeaderEnd + 1 ..   the body, and in the last cell the CheckSum      *)
(* A cell is named by its message and its place there, so that a history   *)
(* can tell what an accepted message was made of.  Clients are taken to    *)
(* send well-formed ASCII FIX messages in which the whole of "FIX.5.0", of *)
(* BodyLength and of MsgType stands nowhere but at the beginning.          *)
(***************************************************************************)
EXTENDS Integers, Sequences, FiniteSets

CONSTANTS
    MaxMessages,     \* bound: messages the client sends
    ProtocolCells,   \* cells of the protocol string (7 bytes)
    BufferCells,     \* cells of the read buffer (READ_BLOCK_SIZE)
    UseIOCP          \* WH_SOCKET_USE_IOCP: a failed write closes the session

\* The last cells of the protocol string and of the header.
Protocol == 2 + ProtocolCells
HeaderEnd == Protocol + 2

ASSUME AuthAssumption ==
    /\ MaxMessages \in Nat
    /\ ProtocolCells \in Nat \ {0}
    /\ BufferCells \in Nat /\ BufferCells >= HeaderEnd + 2
    /\ UseIOCP \in BOOLEAN

VARIABLES
    sent,       \* the kinds of the messages the client has sent
    stream,     \* cells on their way to the session
    buffer,     \* _readBuffer's storage; a read always starts at its base
    status,     \* _status
    closed,     \* _closed
    got,        \* cells the last read delivered
    reading,    \* "armed", "handling" (inside ReadHandler) or "no"
    writing,    \* the answer to the Logon is still being written
    accepted,   \* history: what the handlers accepted
    swallowed   \* history: messages with cells read behind an accepted one

vars == <<sent, stream, buffer, got, status, closed, reading, writing,
          accepted, swallowed>>

-----------------------------------------------------------------------------
(* Messages                                                                *)

\* Logon, NewOrderSingle, any other FIX.5.0 message, one of another version
\* (which the last cell of the protocol string tells), and a NewOrderSingle
\* longer than the read buffer.
Kinds == {"A", "D", "other", "version", "long"}

Length(kind) ==
    CASE kind = "D"    -> HeaderEnd + 2
      [] kind = "long" -> BufferCells + 1
      [] OTHER         -> HeaderEnd + 1

MsgType(kind) == IF kind = "long" THEN "D" ELSE kind

Cell == [msg : 0 .. MaxMessages, pos : 0 .. BufferCells + 1]

\* The zeros the buffer starts with.
Zero == [msg |-> 0, pos |-> 0]

Cells(m, kind) == [k \in 1 .. Length(kind) |-> [msg |-> m, pos |-> k]]

\* Handlers, the status each command needs.
Handlers == [A |-> "NotAuthed", D |-> "Authed"]

\* The cells FixMessage took for one message, as the handler saw them, and
\* how many cells the last read had brought.
Acceptance == [kind : {"A", "D"}, cells : Seq(Cell), read : 0 .. BufferCells]

TypeOK ==
    /\ sent \in Seq(Kinds) /\ Len(sent) <= MaxMessages
    /\ stream \in Seq(Cell)
    /\ buffer \in [1 .. BufferCells -> Cell]
    /\ got \in 0 .. BufferCells
    /\ status \in {"NotAuthed", "Authed"}
    /\ closed \in BOOLEAN
    /\ reading \in {"armed", "handling", "no"}
    /\ writing \in BOOLEAN
    /\ accepted \in Seq(Acceptance)
    /\ swallowed \in SUBSET (1 .. MaxMessages)

\* Start() has armed the first read.
Init ==
    /\ sent = <<>>
    /\ stream = <<>>
    /\ buffer = [i \in 1 .. BufferCells |-> Zero]
    /\ got = 0
    /\ status = "NotAuthed"
    /\ closed = FALSE
    /\ reading = "armed"
    /\ writing = FALSE
    /\ accepted = <<>>
    /\ swallowed = {}

-----------------------------------------------------------------------------
(* What the session makes of the buffer                                    *)

\* Cell k of the buffer is cell k of a protocol string, of "FIX.5.0".
InPlace(k) ==
    buffer[k].pos = k /\ (k = Protocol => sent[buffer[k].msg] # "version")

\* A piece of another field may look like a piece of the protocol string.
LooksAlike(k) ==
    InPlace(k) \/ (buffer[k] # Zero /\ buffer[k].pos # k)

\* ReadHandler's protocol check, what it may find: bytes 2 to 8 of the buffer
\* and nothing else.  A read that covers them all shows "FIX.5.0" only if it
\* begins as a message does; one that ends before them, or inside, leaves the
\* rest of them as an earlier message had them.
SupportedProtocol ==
    LET exact == \A k \in 3 .. Protocol : InPlace(k)
        alike == got < Protocol /\ \A k \in 3 .. Protocol : LooksAlike(k)
    IN  IF exact THEN {TRUE} ELSE {FALSE, alike}

\* hffix::message_reader goes by BodyLength alone to find the CheckSum.
Declared == Length(sent[buffer[Protocol + 1].msg])

\* Where the CheckSum should end there is an SOH: certainly if the cell is
\* the end of a message, not if it is zero, perhaps if it is any other.
EndsThere ==
    LET c == buffer[Declared]
    IN  CASE c = Zero -> {FALSE}
          [] c # Zero /\ c.pos = Length(sent[c.msg]) -> {TRUE}
          [] OTHER -> BOOLEAN

\* GetCommand: MsgType, or "" if the reader finds no complete message.
Commands ==
    IF /\ buffer[Protocol + 1].pos = Protocol + 1
       /\ buffer[HeaderEnd].pos = HeaderEnd
       /\ Declared <= BufferCells
    THEN {IF ends THEN MsgType(sent[buffer[HeaderEnd].msg]) ELSE "" : ends \in EndsThere}
    ELSE {""}

-----------------------------------------------------------------------------
(* The session                                                             *)

\* ReadHandlerInternal: async_read_some has delivered n cells, and the rest
\* of the buffer is as it was.  The session may have closed meanwhile.
ReadHandlerInternal(n) ==
    /\ reading = "armed"
    /\ n <= Len(stream)
    /\ buffer' = [i \in 1 .. BufferCells |-> IF i <= n THEN stream[i] ELSE buffer[i]]
    /\ stream' = SubSeq(stream, n + 1, Len(stream))
    /\ got' = n
    /\ reading' = "handling"
    /\ UNCHANGED <<sent, status, closed, writing, accepted, swallowed>>

\* Mutant of AsyncRead: IsOpen() is not asked.
AsyncReadAlways == reading' = "armed"

\* AsyncRead arms a read if the session is open.
AsyncRead == reading' = IF closed THEN "no" ELSE "armed"

\* Only the socket's own state changes.
NothingHandled == UNCHANGED <<status, writing, accepted, swallowed>>

\* CloseSocket and return: this read is not followed by another.
CloseSocket ==
    /\ closed' = TRUE
    /\ reading' = "no"
    /\ NothingHandled

\* Another protocol version, or bytes from the middle of a message.
ReadUnsupported ==
    /\ FALSE \in SupportedProtocol
    /\ CloseSocket

\* Mutant of ReadUnknown: the message is passed over.
ReadUnknownReadsOn ==
    /\ TRUE \in SupportedProtocol
    /\ \E cmd \in Commands : cmd \notin DOMAIN Handlers
    /\ AsyncRead
    /\ closed' = closed
    /\ NothingHandled

\* No handler for the command: return, neither closing nor reading again.
ReadUnknown ==
    /\ TRUE \in SupportedProtocol
    /\ \E cmd \in Commands : cmd \notin DOMAIN Handlers
    /\ reading' = "no"
    /\ closed' = closed
    /\ NothingHandled

\* Mutant of ReadWrongStatus: the message is passed over.
ReadWrongStatusReadsOn ==
    /\ TRUE \in SupportedProtocol
    /\ \E cmd \in Commands \cap DOMAIN Handlers : Handlers[cmd] # status
    /\ AsyncRead
    /\ closed' = closed
    /\ NothingHandled

\* The handler is not for a session with this status.
ReadWrongStatus ==
    /\ TRUE \in SupportedProtocol
    /\ \E cmd \in Commands \cap DOMAIN Handlers : Handlers[cmd] # status
    /\ CloseSocket

\* What the handler for cmd is given.
Accepting(cmd) ==
    [kind |-> cmd, cells |-> SubSeq(buffer, 1, Declared), read |-> got]

\* From BodyLength on, where the reader looks, the message is put together
\* from two.
Torn == \E i \in Protocol + 1 .. Declared : buffer[i].msg # buffer[HeaderEnd].msg

\* The handler cannot read the fields of such a message.
ReadFailed ==
    /\ TRUE \in SupportedProtocol
    /\ \E cmd \in Commands \cap DOMAIN Handlers : Handlers[cmd] = status
    /\ Torn
    /\ CloseSocket

\* Mutant of Handled: what is behind the message is handled before the next
\* read, and the message has not been taken out of the buffer.
HandledTwice(cmd) ==
    /\ TRUE \in SupportedProtocol
    /\ cmd \in Commands
    /\ Handlers[cmd] = status
    /\ accepted' = Append(accepted, Accepting(cmd))
    /\ swallowed' = swallowed
    /\ IF got > Declared THEN reading' = "handling" ELSE AsyncRead
    /\ closed' = closed

\* The handler returns true: the buffer is reset, with whatever was behind
\* the message, and the next read is armed.
Handled(cmd) ==
    /\ TRUE \in SupportedProtocol
    /\ cmd \in Commands
    /\ Handlers[cmd] = status
    /\ accepted' = Append(accepted, Accepting(cmd))
    /\ swallowed' = swallowed \cup {buffer[i].msg : i \in Declared + 1 .. got}
    /\ AsyncRead
    /\ closed' = closed

\* The session is authenticated and, if it is open, the answer is queued.
HandleLogonMessage ==
    /\ Handled("A")
    /\ status' = "Authed"
    /\ writing' = (writing \/ ~closed)

HandleNewOrderSingleMessage ==
    /\ Handled("D")
    /\ UNCHANGED <<status, writing>>

\* ReadHandler, one call: no other handler of the session comes between.
ReadHandler ==
    /\ reading = "handling"
    /\ \/ ReadUnsupported
       \/ ReadUnknown
       \/ ReadWrongStatus
       \/ ReadFailed
       \/ HandleLogonMessage
       \/ HandleNewOrderSingleMessage
    /\ UNCHANGED <<sent, stream, buffer, got>>

\* The read fails, or the client has closed the connection.
ReadError ==
    /\ reading = "armed"
    /\ CloseSocket
    /\ UNCHANGED <<sent, stream, buffer, got>>

\* The last byte of the answer is written, or a write fails: in the IOCP build
\* that closes the session, and a read that is armed stays so.
WriteHandler ==
    /\ writing /\ reading # "handling"
    /\ writing' = FALSE
    /\ \/ closed' = closed
       \/ UseIOCP /\ closed' = TRUE
    /\ UNCHANGED <<sent, stream, buffer, got, status, reading, accepted, swallowed>>

-----------------------------------------------------------------------------

\* The client sends a message.
ClientSends(kind) ==
    /\ Len(sent) < MaxMessages
    /\ sent' = Append(sent, kind)
    /\ stream' = stream \o Cells(Len(sent) + 1, kind)
    /\ UNCHANGED <<buffer, got, status, closed, reading, writing, accepted,
                   swallowed>>

Next ==
    \/ \E kind \in Kinds : ClientSends(kind)
    \/ \E n \in 1 .. BufferCells : ReadHandlerInternal(n)
    \/ ReadHandler
    \/ ReadError
    \/ WriteHandler

Spec == Init /\ [][Next]_vars

-----------------------------------------------------------------------------
(* Properties                                                              *)

\* However the stream is cut, a session becomes authenticated only by the
\* complete first message of the client, a Logon: any other first read closes
\* or parks it, so no stale bytes can complete a Logon.
AuthedByFirstMessage ==
    status = "Authed" =>
        /\ Len(accepted) >= 1
        /\ accepted[1].kind = "A"
        /\ accepted[1].cells = Cells(1, sent[1])
        /\ sent[1] = "A"

\* ReadHandler looks for nothing but bytes 2 to 8 and a reader's message, so a
\* read that is shorter than a header has the message of an earlier read
\* handled again.  One that brings a header hands a handler the message it
\* begins with, as far as it brings it, and a message that no handler was
\* given any cell of before.
AcceptedOnce ==
    \A j \in 1 .. Len(accepted) : accepted[j].read >= HeaderEnd =>
        LET m == accepted[j].cells[HeaderEnd].msg
        IN  /\ \A k \in 1 .. Len(accepted[j].cells) :
                   k <= accepted[j].read => accepted[j].cells[k] = [msg |-> m, pos |-> k]
            /\ \A i \in 1 .. j - 1 : \A k \in 1 .. Len(accepted[i].cells) :
                   accepted[i].cells[k].msg < m

\* Message m was handed to a handler with its header, or came behind another
\* message in a read, or a read shorter than a header brought a piece of it.
Met(m) ==
    \/ m \in swallowed
    \/ \E i \in 1 .. Len(accepted) : \E k \in 1 .. Len(accepted[i].cells) :
          /\ k <= accepted[i].read
          /\ accepted[i].read >= HeaderEnd => k = HeaderEnd
          /\ accepted[i].cells[k].msg = m

\* A session that goes on has passed no message over but those that a read
\* brought behind another, or cut inside the header.
LossOnlyCut ==
    \A j \in 1 .. Len(accepted) : \A m \in 1 .. accepted[j].cells[1].msg - 1 : Met(m)

\* The abstract session this one is.
Abstract == INSTANCE Session WITH
    state <- IF closed THEN "closed" ELSE "open"

\* For its network thread an AuthSession is a Session: a read that completes
\* when a failed write has closed it may still be handled, and is the last.
ImplementsSession == Abstract!Spec

=============================================================================
