----------------------------- MODULE ByteBuffer -----------------------------
(***************************************************************************)
(* ByteBuffer: a growing byte vector with a read and a write position, and *)
(* the operators << and >> for numbers, zero-terminated strings and packed *)
(* GUIDs (a mark with a bit for each byte that is not zero, then these     *)
(* bytes).  A byte is a number below Base; a wide number has two of them,  *)
(* the low one first, whatever the endianness of the machine, and a GUID   *)
(* has GuidBytes instead of eight.                                         *)
(*                                                                         *)
(* stream holds while the buffer has only been written at its end and read *)
(* from its front since it was empty; values are then the values written   *)
(* and not read yet.                                                       *)
(*                                                                         *)
(* The caller may set both positions to any number, also behind the end;   *)
(* MaxSize bounds them here, so that the sums of a position and a length   *)
(* in the code, which are unsigned, do not wrap.                           *)
(***************************************************************************)
EXTENDS Naturals, SequencesExt

CONSTANTS
    Base,       \* the number of values of a byte
    GuidBytes,  \* the number of bytes of a GUID
    NotUtf8,    \* the bytes that make a string invalid
    MaxSize     \* bound on the size of the buffer, and on positions in it

VARIABLES
    storage,    \* _storage
    rpos,       \* _rpos
    wpos,       \* _wpos
    stream,     \* history: see above
    values,     \* history: the values written and not read yet, with their kinds
    result,     \* history: what the last read should return and what it returned
    placed      \* history: the read position is where the caller has set it

vars == <<storage, rpos, wpos, stream, values, result, placed>>

Byte == 0..Base - 1
Kinds == {"byte", "wide", "string", "guid"}
Throws == <<"exception">>
NoRead == [expected |-> <<>>, got |-> <<>>]

TypeOK ==
    /\ Len(storage) <= MaxSize /\ ToSet(storage) \subseteq Byte
    /\ rpos \in 0..MaxSize /\ wpos \in 0..MaxSize
    /\ stream \in BOOLEAN /\ placed \in BOOLEAN
    /\ \A i \in DOMAIN values : values[i].kind \in Kinds

Init ==
    /\ storage = <<>> /\ rpos = 0 /\ wpos = 0
    /\ stream = TRUE /\ values = <<>> /\ result = NoRead /\ placed = TRUE

-----------------------------------------------------------------------------
(* The bytes of a value.  A string has no zero inside.                     *)

WideBytes(n) == <<n % Base, n \div Base>>
StringBytes(s) == s \o <<0>>

NonZero(guid) == SetToSortSeq({i \in 1..GuidBytes : guid[i] # 0}, <)
Mark(guid) == FoldLeft(LAMBDA m, i : m + 2 ^ (i - 1), 0, NonZero(guid))

\* Mutant of GuidPacked: the bytes are taken from the high end.
GuidPackedShifted(guid) ==
    <<Mark(guid)>> \o [k \in DOMAIN NonZero(guid) |-> guid[GuidBytes + 1 - NonZero(guid)[k]]]

GuidPacked(guid) == <<Mark(guid)>> \o [k \in DOMAIN NonZero(guid) |-> guid[NonZero(guid)[k]]]

Encoded(v) ==
    CASE v.kind = "byte" -> v.value
      [] v.kind = "wide" -> WideBytes(v.value[1])
      [] v.kind = "string" -> StringBytes(v.value)
      [] v.kind = "guid" -> GuidPacked(v.value)

Value == [kind : {"byte"}, value : [1..1 -> Byte]]
         \cup [kind : {"wide"}, value : [1..1 -> 0..Base * Base - 1]]
         \cup [kind : {"string"}, value : UNION {[1..n -> Byte \ {0}] : n \in 0..2}]
         \cup [kind : {"guid"}, value : [1..GuidBytes -> Byte]]

-----------------------------------------------------------------------------
Resized(size) == [i \in 1..size |-> IF i <= Len(storage) THEN storage[i] ELSE 0]
Overwritten(bytes, at, src) ==
    [i \in DOMAIN bytes |-> IF i - at \in DOMAIN src THEN src[i - at] ELSE bytes[i]]
Larger(m, n) == IF m < n THEN n ELSE m

Appended(src) == Overwritten(Resized(Larger(Len(storage), wpos + Len(src))), wpos, src)

(* append(): at the write position, which may be inside the buffer.        *)
append(v) ==
    LET src == Encoded(v) IN
    /\ wpos + Len(src) <= MaxSize
    /\ storage' = Appended(src)
    /\ wpos' = wpos + Len(src)
    /\ values' = IF stream THEN Append(values, v) ELSE values
    /\ UNCHANGED <<rpos, stream, result, placed>>

(* put(): bytes that are there are replaced; others end the process.       *)
put(pos, src) ==
    /\ pos + Len(src) <= Len(storage)
    /\ storage' = Overwritten(storage, pos, src)
    /\ stream' = FALSE /\ values' = <<>> /\ result' = NoRead
    /\ UNCHANGED <<rpos, wpos, placed>>

-----------------------------------------------------------------------------
(* Reading.  Each reader says where the read position is afterwards and    *)
(* what it returns.                                                        *)

At(position, returned) == [rpos |-> position, value |-> returned]

Available(pos, count) == pos + count <= Len(storage)

ReadByte == IF Available(rpos, 1) THEN At(rpos + 1, <<storage[rpos + 1]>>) ELSE At(rpos, Throws)
ReadWide ==
    IF Available(rpos, 2)
    THEN At(rpos + 2, <<storage[rpos + 1] + Base * storage[rpos + 2]>>)
    ELSE At(rpos, Throws)

(* Up to the first zero or the end of the buffer, whichever comes first;   *)
(* only then the string is checked.                                        *)
ReadCString ==
    LET zeros == {i \in rpos + 1..Len(storage) : storage[i] = 0}
        end == IF zeros = {} THEN Len(storage) ELSE CHOOSE i \in zeros : \A j \in zeros : i <= j
        string == SubSeq(storage, rpos + 1, IF zeros = {} THEN end ELSE end - 1)
    IN At(Larger(rpos, end), IF ToSet(string) \cap NotUtf8 # {} THEN Throws ELSE string)

Bit(mark, i) == (mark \div 2 ^ (i - 1)) % 2 = 1

(* The mark, then a byte for each of its bits; when the buffer ends too    *)
(* early what was there has been consumed.                                 *)
readPackGUID ==
    IF ~Available(rpos, 1) THEN At(rpos, Throws)
    ELSE LET mark == storage[rpos + 1]
             bits == SetToSortSeq({i \in 1..GuidBytes : Bit(mark, i)}, <)
             Place(i) == CHOOSE k \in DOMAIN bits : bits[k] = i
             first == rpos + 1
         IN IF Available(first, Len(bits))
            THEN At(first + Len(bits),
                    [i \in 1..GuidBytes |-> IF Bit(mark, i) THEN storage[first + Place(i)] ELSE 0])
            ELSE At(Len(storage), Throws)

Reader(kind) ==
    CASE kind = "byte" -> ReadByte
      [] kind = "wide" -> ReadWide
      [] kind = "string" -> ReadCString
      [] kind = "guid" -> readPackGUID

(* A stream is read back with the types it was written with; when it is    *)
(* used up, a number or a GUID throws.  Otherwise anything may be read.    *)
Expected(v) ==
    IF v.kind = "string" /\ ToSet(v.value) \cap NotUtf8 # {} THEN Throws ELSE v.value

read(kind) ==
    LET r == Reader(kind) IN
    /\ stream /\ values # <<>> => kind = values[1].kind
    /\ rpos' = r.rpos
    /\ placed' = (placed /\ r.rpos = rpos)
    /\ values' = IF values = <<>> THEN values ELSE Tail(values)
    /\ result' = IF ~stream THEN NoRead
                 ELSE [got |-> r.value,
                       expected |-> IF values # <<>> THEN Expected(values[1])
                                    ELSE IF kind = "string" THEN <<>> ELSE Throws]
    /\ UNCHANGED <<storage, wpos, stream>>

-----------------------------------------------------------------------------
(* Positions and sizes set by the caller.                                  *)

Repositioned == stream' = FALSE /\ values' = <<>> /\ result' = NoRead

read_skip(skip) ==
    /\ rpos' = IF Available(rpos, skip) THEN rpos + skip ELSE rpos
    /\ placed' = (placed /\ rpos' = rpos)
    /\ Repositioned /\ UNCHANGED <<storage, wpos>>

SetRpos(pos) ==
    /\ rpos' = pos /\ placed' = TRUE
    /\ Repositioned /\ UNCHANGED <<storage, wpos>>

SetWpos(pos) ==
    /\ wpos' = pos
    /\ Repositioned /\ UNCHANGED <<storage, rpos, placed>>

rfinish ==
    /\ rpos' = wpos /\ placed' = TRUE
    /\ Repositioned /\ UNCHANGED <<storage, wpos>>

resize(size) ==
    /\ storage' = Resized(size)
    /\ rpos' = 0 /\ wpos' = size /\ placed' = TRUE
    /\ Repositioned

(* clear(), and what a buffer is after it was moved from.                  *)
clear ==
    /\ storage' = <<>> /\ rpos' = 0 /\ wpos' = 0
    /\ stream' = TRUE /\ values' = <<>> /\ result' = NoRead /\ placed' = TRUE

(* ByteBuffer(MessageBuffer&&): the whole storage of the message buffer,   *)
(* to be read from its beginning, and written over from its beginning.     *)
FromMessageBuffer(bytes) ==
    /\ storage' = bytes /\ rpos' = 0 /\ wpos' = 0 /\ placed' = TRUE
    /\ Repositioned

Next ==
    \/ \E v \in Value : append(v)
    \/ \E pos \in 0..MaxSize, b \in Byte : put(pos, <<b>>)
    \/ \E kind \in Kinds : read(kind)
    \/ \E n \in 0..MaxSize : read_skip(n) \/ SetRpos(n) \/ SetWpos(n) \/ resize(n)
    \/ rfinish
    \/ clear
    \/ \E n \in 1..MaxSize : FromMessageBuffer([i \in 1..n |-> 1])

Spec == Init /\ [][Next]_vars

-----------------------------------------------------------------------------
(* What was written with << is what >> returns, value by value: no kind    *)
(* reads into its neighbour, a GUID with zero bytes anywhere comes out     *)
(* whole, and reading on throws.                                           *)
RoundTrip == result.got = result.expected

(* No read, whether it returns or throws and whatever bytes it finds,      *)
(* moves the read position behind the end of the buffer: where it is       *)
(* there the caller has put it, and nothing has been read since.           *)
ReadsInside == rpos > Len(storage) => placed

=============================================================================
