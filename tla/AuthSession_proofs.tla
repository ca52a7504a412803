------------------------- MODULE AuthSession_proofs -------------------------
(***************************************************************************)
(* Proofs about AuthSession, for any number of messages, any read buffer   *)
(* that holds the longest message but the long one, and any way in which   *)
(* the stream is cut into reads.                                           *)
(***************************************************************************)
EXTENDS AuthSession, TLAPS

-----------------------------------------------------------------------------
(* The inductive invariant                                                 *)

\* The cells of the last read, followed by those not read yet: At(1), At(2),
\* ..., At(Total) is an uncut piece of what the client sent.
Total == got + Len(stream)

At(i) == IF i <= got THEN buffer[i] ELSE stream[i - got]

\* Cell a was sent before cell b.
Before(a, b) == a.msg < b.msg \/ (a.msg = b.msg /\ a.pos < b.pos)

\* A cell of a message that was sent.
Sent(c) == c.msg \in 1 .. Len(sent) /\ c.pos \in 1 .. Length(sent[c.msg])

\* Each message goes on to its end, and the next one follows, up to the last
\* one sent.  Stated for all pairs of places, which is what a proof can use of
\* a relation between adjacent ones.
RunSent == \A i \in 1 .. Total : Sent(At(i))

RunWhole ==
    \A i \in 1 .. Total : \A k \in 1 .. Length(sent[At(i).msg]) - At(i).pos :
        /\ i + k <= Total
        /\ At(i + k) = [msg |-> At(i).msg, pos |-> At(i).pos + k]

RunOrder ==
    \A i, j \in 1 .. Total : i < j =>
        /\ Before(At(i), At(j))
        /\ \A m \in At(i).msg + 1 .. At(j).msg :
              \E k \in i + 1 .. j : At(k) = [msg |-> m, pos |-> 1]

RunEnds ==
    /\ Total = 0 => Len(sent) = 0
    /\ Total > 0 => At(Total).msg = Len(sent)
    /\ got = 0 /\ Total > 0 => At(1) = [msg |-> 1, pos |-> 1]

Run == RunSent /\ RunWhole /\ RunOrder /\ RunEnds

\* What is left in the buffer behind the last read is older than that read.
Stale ==
    \A k \in got + 1 .. BufferCells :
        \/ buffer[k] = Zero
        \/ got > 0 /\ Sent(buffer[k]) /\ Before(buffer[k], buffer[1])

\* Before the first acceptance the session is in its first read, or stopped.
NotAuthedYet ==
    status = "NotAuthed" =>
        /\ Len(accepted) = 0
        /\ reading = "armed" => got = 0
        /\ reading = "handling" =>
              /\ buffer[1] = [msg |-> 1, pos |-> 1]
              /\ \A k \in got + 1 .. BufferCells : buffer[k] = Zero

\* A session that reads on after an acceptance has met all that it has read.
\* What it accepted before is older than what the next read brings.
Reading ==
    /\ reading = "armed" =>
          /\ \A i \in 1 .. Len(accepted) : \A k \in 1 .. Len(accepted[i].cells) :
                got > 0 /\ ~Before(buffer[got], accepted[i].cells[k])
          /\ got > 0 => \A m \in 1 .. buffer[got].msg : Met(m)
    /\ reading = "handling" =>
          /\ got > 0
          /\ \A i \in 1 .. Len(accepted) : \A k \in 1 .. Len(accepted[i].cells) :
                Before(accepted[i].cells[k], buffer[1])
          /\ \A m \in 1 .. buffer[1].msg - 1 : Met(m)

\* Accepted rows have a first cell, and consist of cells of messages and zeros.
AcceptedCells ==
    \A i \in 1 .. Len(accepted) :
        /\ Len(accepted[i].cells) \in Nat \ {0}
        /\ \A k \in 1 .. Len(accepted[i].cells) :
              /\ accepted[i].cells[k] \in Cell
              /\ accepted[i].cells[k].msg = 0 \/ accepted[i].cells[k].pos >= 1

\* An authenticated session has been sent a message.
AuthedSent == status = "Authed" => Len(sent) > 0

(***************************************************************************)
(* The three properties speak of what was accepted.  What the next read    *)
(* can deliver decides what can be accepted next: Run and Stale say what   *)
(* is in the buffer and behind it, NotAuthedYet and Reading how it stands  *)
(* to what was accepted before.                                            *)
(***************************************************************************)
AuthInv ==
    /\ TypeOK /\ Run /\ Stale /\ NotAuthedYet /\ Reading /\ AcceptedCells /\ AuthedSent
    /\ AuthedByFirstMessage /\ AcceptedOnce /\ LossOnlyCut

-----------------------------------------------------------------------------
(* Lemmas about messages, the buffer and the run                           *)

\* A message has a header and more, and is at most one longer than the buffer.
LEMMA LengthFacts ==
    ASSUME NEW kind
    PROVE  /\ Length(kind) \in Nat /\ 5 <= Length(kind) /\ Length(kind) <= BufferCells + 1
           /\ HeaderEnd + 1 <= Length(kind)
BY AuthAssumption DEF Length, HeaderEnd, Protocol

\* The places of the header.
LEMMA HeaderFacts ==
    /\ HeaderEnd \in Nat /\ HeaderEnd >= 5
    /\ Protocol \in Nat /\ Protocol + 1 = HeaderEnd - 1 /\ Protocol + 1 >= 2
BY AuthAssumption DEF HeaderEnd, Protocol

\* Only a Logon has the MsgType of one.
LEMMA MsgTypeFacts ==
    ASSUME NEW kind \in Kinds, MsgType(kind) = "A"
    PROVE  kind = "A"
BY DEF MsgType, Kinds

\* The cells of a message, as a sequence.
LEMMA CellsFacts ==
    ASSUME NEW m \in 1 .. MaxMessages, NEW kind
    PROVE  /\ Cells(m, kind) \in Seq(Cell) /\ Len(Cells(m, kind)) = Length(kind)
           /\ \A k \in 1 .. Length(kind) : Cells(m, kind)[k] = [msg |-> m, pos |-> k]
<1>1. Length(kind) \in Nat /\ Length(kind) <= BufferCells + 1
  BY LengthFacts
<1>2. \A k \in 1 .. Length(kind) : [msg |-> m, pos |-> k] \in Cell
  BY <1>1, AuthAssumption DEF Cell
<1> QED
  BY <1>1, <1>2 DEF Cells

\* The types, spelled out.
LEMMA AuthTypes ==
    ASSUME TypeOK
    PROVE  /\ Len(sent) \in Nat /\ Len(sent) <= MaxMessages
           /\ got \in Nat /\ got <= BufferCells /\ Len(stream) \in Nat /\ Total \in Nat
           /\ Len(accepted) \in Nat
           /\ \A i \in 1 .. BufferCells :
                 buffer[i] \in Cell /\ buffer[i].msg \in Nat /\ buffer[i].pos \in Nat
           /\ \A i \in 1 .. Len(stream) :
                 stream[i] \in Cell /\ stream[i].msg \in Nat /\ stream[i].pos \in Nat
           /\ \A i \in 1 .. Total :
                 At(i) \in Cell /\ At(i).msg \in Nat /\ At(i).pos \in Nat
<1>1. ASSUME NEW c \in Cell PROVE c.msg \in Nat /\ c.pos \in Nat
  BY AuthAssumption DEF Cell
<1>2. \A i \in 1 .. BufferCells : buffer[i] \in Cell
  BY DEF TypeOK
<1>3. \A i \in 1 .. Len(stream) : stream[i] \in Cell
  BY DEF TypeOK
<1>4. /\ Len(sent) \in Nat /\ Len(sent) <= MaxMessages /\ Len(accepted) \in Nat
      /\ got \in Nat /\ got <= BufferCells /\ Len(stream) \in Nat /\ Total \in Nat
  BY AuthAssumption DEF TypeOK, Total
<1>5. ASSUME NEW i \in 1 .. Total PROVE At(i) \in Cell
  <2>1. CASE i <= got
    BY <1>2, <1>4, <2>1, AuthAssumption DEF At
  <2>2. CASE i > got
    <3>1. i - got \in 1 .. Len(stream)
      BY <1>4, <2>2 DEF Total
    <3> QED
      BY <1>3, <1>4, <2>2, <3>1 DEF At
  <2> QED
    BY <1>4, <2>1, <2>2
<1> QED
  BY <1>1, <1>2, <1>3, <1>4, <1>5

\* The order in which cells were sent is transitive and irreflexive.
LEMMA BeforeFacts ==
    ASSUME NEW a \in Cell, NEW b \in Cell, NEW c \in Cell
    PROVE  /\ Before(a, b) /\ Before(b, c) => Before(a, c)
           /\ ~Before(b, a) /\ Before(b, c) => Before(a, c)
           /\ ~(Before(a, b) /\ Before(b, a))
<1>1. \A x \in Cell : x.msg \in Nat /\ x.pos \in Nat
  BY AuthAssumption DEF Cell
<1> QED
  BY <1>1 DEF Before

LEMMA AuthInit == Init => AuthInv
<1> SUFFICES ASSUME Init PROVE AuthInv
  OBVIOUS
<1>1. Zero \in Cell
  BY AuthAssumption DEF Zero, Cell
<1>2. TypeOK
  <2>1. sent \in Seq(Kinds) /\ Len(sent) <= MaxMessages /\ stream \in Seq(Cell)
    BY AuthAssumption DEF Init
  <2>2. buffer \in [1 .. BufferCells -> Cell] /\ got \in 0 .. BufferCells
    BY <1>1, AuthAssumption DEF Init
  <2>3. accepted \in Seq(Acceptance) /\ swallowed \in SUBSET (1 .. MaxMessages)
    BY DEF Init
  <2> QED
    BY <2>1, <2>2, <2>3 DEF Init, TypeOK
<1>3. Total = 0 /\ Len(sent) = 0 /\ Len(accepted) = 0 /\ got = 0
  BY DEF Init, Total
<1>4. Run /\ Stale
  BY <1>3 DEF Run, RunSent, RunWhole, RunOrder, RunEnds, Stale, Init
<1>5. NotAuthedYet /\ Reading /\ AcceptedCells /\ AuthedSent
  BY <1>3 DEF NotAuthedYet, Reading, AcceptedCells, AuthedSent, Init
<1>6. AuthedByFirstMessage /\ AcceptedOnce /\ LossOnlyCut
  BY <1>3 DEF AuthedByFirstMessage, AcceptedOnce, LossOnlyCut, Init
<1> QED
  BY <1>2, <1>4, <1>5, <1>6 DEF AuthInv

\* Appending to a sequence and concatenating two.
LEMMA AppendFacts ==
    ASSUME NEW S, NEW s \in Seq(S), NEW e \in S
    PROVE  /\ Append(s, e) \in Seq(S) /\ Len(Append(s, e)) = Len(s) + 1
           /\ \A i \in 1 .. Len(s) : Append(s, e)[i] = s[i]
           /\ Append(s, e)[Len(s) + 1] = e
OBVIOUS

LEMMA ConcatFacts ==
    ASSUME NEW S, NEW s \in Seq(S), NEW t \in Seq(S)
    PROVE  /\ s \o t \in Seq(S) /\ Len(s \o t) = Len(s) + Len(t)
           /\ \A i \in 1 .. Len(s) : (s \o t)[i] = s[i]
           /\ \A k \in 1 .. Len(t) : (s \o t)[Len(s) + k] = t[k]
OBVIOUS

\* Two sequences with the same elements are equal.
LEMMA SeqEqual ==
    ASSUME NEW S, NEW s \in Seq(S), NEW t \in Seq(S), Len(s) = Len(t),
           \A i \in 1 .. Len(s) : s[i] = t[i]
    PROVE  s = t
OBVIOUS

-----------------------------------------------------------------------------
(* The client                                                              *)

\* What a message that is sent does to the run: its cells come at the end.
LEMMA SendFacts ==
    ASSUME TypeOK, NEW kind \in Kinds, ClientSends(kind)
    PROVE  /\ Len(sent') = Len(sent) + 1 /\ sent'[Len(sent) + 1] = kind
           /\ \A m \in 1 .. Len(sent) : sent'[m] = sent[m]
           /\ Total' = Total + Length(kind)
           /\ \A i \in 1 .. Total : At(i)' = At(i)
           /\ \A i \in Total + 1 .. Total + Length(kind) :
                 At(i)' = [msg |-> Len(sent) + 1, pos |-> i - Total]
           /\ TypeOK'
<1> DEFINE cells == Cells(Len(sent) + 1, kind)
<1>0. got \in Nat /\ Len(stream) \in Nat /\ Total = got + Len(stream)
  BY AuthTypes DEF Total
<1>1. /\ sent' = Append(sent, kind) /\ stream' = stream \o cells
      /\ UNCHANGED <<buffer, got, status, closed, reading, writing, accepted, swallowed>>
      /\ Len(sent) < MaxMessages
  BY DEF ClientSends
<1>2. Len(sent) + 1 \in 1 .. MaxMessages /\ Length(kind) \in Nat
  BY <1>1, AuthTypes, AuthAssumption, LengthFacts
<1>3. /\ cells \in Seq(Cell) /\ Len(cells) = Length(kind)
      /\ \A k \in 1 .. Length(kind) : cells[k] = [msg |-> Len(sent) + 1, pos |-> k]
  BY <1>2, CellsFacts
<1> HIDE DEF cells
<1>4. sent \in Seq(Kinds) /\ stream \in Seq(Cell)
  BY DEF TypeOK
<1>5. /\ Len(sent') = Len(sent) + 1 /\ sent'[Len(sent) + 1] = kind /\ sent' \in Seq(Kinds)
      /\ \A m \in 1 .. Len(sent) : sent'[m] = sent[m]
  BY <1>1, <1>4, AppendFacts
<1>6. /\ Len(stream') = Len(stream) + Length(kind) /\ stream' \in Seq(Cell)
      /\ \A i \in 1 .. Len(stream) : stream'[i] = stream[i]
      /\ \A k \in 1 .. Length(kind) : stream'[Len(stream) + k] = cells[k]
  <2>1. cells \in Seq(Cell) /\ stream \in Seq(Cell)
    BY <1>3, <1>4
  <2>2. /\ stream \o cells \in Seq(Cell) /\ Len(stream \o cells) = Len(stream) + Len(cells)
        /\ \A i \in 1 .. Len(stream) : (stream \o cells)[i] = stream[i]
        /\ \A k \in 1 .. Len(cells) : (stream \o cells)[Len(stream) + k] = cells[k]
    BY <2>1, ConcatFacts
  <2>3. stream' = stream \o cells /\ Len(cells) = Length(kind)
    BY <1>1, <1>3
  <2> QED
    BY <2>2, <2>3
<1>7. Total' = Total + Length(kind)
  BY <1>1, <1>2, <1>6, AuthTypes DEF Total
<1>8. ASSUME NEW i \in 1 .. Total PROVE At(i)' = At(i)
  <2>1. CASE i <= got
    BY <1>1, <2>1 DEF At
  <2>2. CASE ~(i <= got)
    <3>1. i - got \in 1 .. Len(stream)
      BY <2>2, AuthTypes DEF Total
    <3> QED
      BY <1>1, <1>6, <2>2, <3>1 DEF At
  <2> QED
    BY <2>1, <2>2
<1>9. ASSUME NEW i \in Total + 1 .. Total + Length(kind)
      PROVE  At(i)' = [msg |-> Len(sent) + 1, pos |-> i - Total]
  <2> DEFINE k == i - Total
  <2>1. ~(i <= got) /\ i - got = Len(stream) + k /\ k \in 1 .. Length(kind)
    BY <1>0, <1>2
  <2> HIDE DEF k
  <2>2. stream'[i - got] = [msg |-> Len(sent) + 1, pos |-> k]
    BY <1>3, <1>6, <2>1
  <2> QED
    BY <1>1, <2>1, <2>2 DEF At, k
<1>10. TypeOK'
  BY <1>1, <1>2, <1>5, <1>6 DEF TypeOK
<1> QED
  BY <1>5, <1>7, <1>8, <1>9, <1>10

\* A message that is sent makes the run longer and touches nothing else.
LEMMA SendKeepsRun ==
    ASSUME TypeOK, Run, NEW kind \in Kinds, ClientSends(kind)
    PROVE  Run'
<1> DEFINE N == Len(sent)
           T == Total
           L == Length(kind)
<1>0. RunSent /\ RunWhole /\ RunOrder /\ RunEnds
  BY DEF Run
<1>1. /\ Len(sent') = N + 1 /\ sent'[N + 1] = kind
      /\ \A m \in 1 .. N : sent'[m] = sent[m]
      /\ Total' = T + L
      /\ \A i \in 1 .. T : At(i)' = At(i)
      /\ \A i \in T + 1 .. T + L : At(i)' = [msg |-> N + 1, pos |-> i - T]
  BY SendFacts
<1>2. N \in Nat /\ T \in Nat /\ L \in Nat /\ L >= 5
  BY AuthTypes, LengthFacts
<1>3. \A i \in 1 .. T : /\ At(i).msg \in 1 .. N /\ At(i).pos \in Nat /\ At(i).pos >= 1
                        /\ At(i).pos <= Length(sent[At(i).msg])
  BY <1>0, LengthFacts DEF RunSent, Sent
<1>4. got' = got
  BY DEF ClientSends
<1> HIDE DEF N, T, L
<1>5. ASSUME NEW i \in 1 .. T + L, i > T
      PROVE  /\ At(i)'.msg = N + 1 /\ At(i)'.pos = i - T
             /\ At(i)' = [msg |-> N + 1, pos |-> i - T]
  <2>1. i \in T + 1 .. T + L
    BY <1>2, <1>5
  <2> QED
    BY <1>1, <2>1
<1>6. RunSent'
  <2>1. ASSUME NEW i \in 1 .. T + L
        PROVE  At(i)'.msg \in 1 .. Len(sent') /\ At(i)'.pos \in 1 .. Length(sent'[At(i)'.msg])
    <3>1. CASE i \in 1 .. T
      <4>1. At(i)' = At(i) /\ sent'[At(i).msg] = sent[At(i).msg]
        BY <1>1, <1>3, <3>1
      <4>2. At(i).msg \in 1 .. N /\ At(i).pos \in 1 .. Length(sent[At(i).msg])
        BY <1>0, <3>1 DEF RunSent, Sent, N, T
      <4> QED
        BY <1>1, <1>2, <4>1, <4>2
    <3>2. CASE i > T
      <4>1. At(i)'.msg = N + 1 /\ At(i)'.pos = i - T
        BY <1>5, <3>2
      <4> QED
        BY <1>1, <1>2, <3>2, <4>1 DEF L
    <3> QED
      BY <1>2, <3>1, <3>2
  <2> QED
    BY <1>1, <2>1 DEF RunSent, Sent
<1>7. RunWhole'
  <2>1. ASSUME NEW i \in 1 .. T + L, NEW k \in 1 .. Length(sent'[At(i)'.msg]) - At(i)'.pos
        PROVE  /\ i + k <= T + L
               /\ At(i + k)' = [msg |-> At(i)'.msg, pos |-> At(i)'.pos + k]
    <3>1. CASE i \in 1 .. T
      <4>1. At(i)' = At(i) /\ sent'[At(i).msg] = sent[At(i).msg]
        BY <1>1, <1>3, <3>1
      <4>2. i + k <= T /\ At(i + k) = [msg |-> At(i).msg, pos |-> At(i).pos + k]
        BY <1>0, <3>1, <4>1 DEF RunWhole, T
      <4>3. k \in Nat /\ k > 0
        BY <2>1, LengthFacts
      <4>4. i + k \in 1 .. T
        BY <3>1, <4>2, <4>3
      <4>5. At(i + k)' = At(i + k)
        BY <1>1, <4>4
      <4> QED
        BY <1>2, <4>1, <4>2, <4>4, <4>5
    <3>2. CASE i > T
      <4>1. At(i)'.msg = N + 1 /\ At(i)'.pos = i - T
        BY <1>5, <3>2
      <4>2. k \in 1 .. L - (i - T)
        BY <1>1, <4>1 DEF L
      <4>3. i + k \in 1 .. T + L /\ i + k > T
        BY <1>2, <3>2, <4>2
      <4>4. At(i + k)' = [msg |-> N + 1, pos |-> (i + k) - T]
        BY <1>5, <4>3
      <4> QED
        BY <1>2, <4>1, <4>2, <4>3, <4>4
    <3> QED
      BY <1>2, <3>1, <3>2
  <2> QED
    BY <1>1, <2>1 DEF RunWhole
<1>8. RunOrder'
  <2>1. ASSUME NEW i \in 1 .. T + L, NEW j \in 1 .. T + L, i < j
        PROVE  /\ Before(At(i)', At(j)')
               /\ \A m \in At(i)'.msg + 1 .. At(j)'.msg :
                     \E k \in i + 1 .. j : At(k)' = [msg |-> m, pos |-> 1]
    <3>1. CASE j \in 1 .. T
      <4>1. i \in 1 .. T
        BY <1>2, <2>1, <3>1
      <4>2. At(i)' = At(i) /\ At(j)' = At(j) /\ \A k \in i + 1 .. j : At(k)' = At(k)
        BY <1>1, <1>2, <3>1, <4>1
      <4>3. /\ Before(At(i), At(j))
            /\ \A m \in At(i).msg + 1 .. At(j).msg :
                  \E k \in i + 1 .. j : At(k) = [msg |-> m, pos |-> 1]
        BY <1>0, <2>1, <3>1, <4>1 DEF RunOrder, T
      <4> QED
        BY <4>2, <4>3
    <3>2. CASE j > T /\ i > T
      <4>1. /\ At(i)'.msg = N + 1 /\ At(j)'.msg = N + 1
            /\ At(i)'.pos = i - T /\ At(j)'.pos = j - T
        BY <1>5, <3>2
      <4> QED
        BY <1>2, <2>1, <4>1 DEF Before
    <3>3. CASE j > T /\ i \in 1 .. T
      <4>1. At(i)' = At(i) /\ At(i).msg \in 1 .. N /\ At(j)'.msg = N + 1
        BY <1>1, <1>3, <1>5, <3>3
      <4>2. Before(At(i)', At(j)')
        BY <1>2, <4>1 DEF Before
      <4>3. ASSUME NEW m \in At(i)'.msg + 1 .. At(j)'.msg
            PROVE  \E k \in i + 1 .. j : At(k)' = [msg |-> m, pos |-> 1]
        <5>1. CASE m = N + 1
          <6>1. PICK k \in i + 1 .. j : k = T + 1
            BY <1>2, <3>3
          <6>2. k \in 1 .. T + L /\ k > T /\ k - T = 1
            BY <1>2, <6>1
          <6>3. At(k)' = [msg |-> m, pos |-> 1]
            BY <1>5, <5>1, <6>2
          <6> QED
            BY <6>3
        <5>2. CASE m # N + 1
          <6>1. m \in At(i).msg + 1 .. N
            BY <1>2, <4>1, <5>2
          <6>2. T > 0 /\ At(T).msg = N /\ T \in 1 .. T
            BY <1>0, <1>2, <3>3 DEF RunEnds, T, N
          <6>3. i < T
            BY <1>2, <3>3, <4>1, <6>1, <6>2
          <6>4. \E k \in i + 1 .. T : At(k) = [msg |-> m, pos |-> 1]
            BY <1>0, <3>3, <6>1, <6>2, <6>3 DEF RunOrder, T
          <6> QED
            BY <1>1, <1>2, <3>3, <6>4
        <5> QED
          BY <5>1, <5>2
      <4> QED
        BY <4>2, <4>3
    <3> QED
      BY <1>2, <2>1, <3>1, <3>2, <3>3
  <2> QED
    BY <1>1, <2>1 DEF RunOrder, Before
<1>9. RunEnds'
  <2>1. PICK t \in 1 .. T + L : t = T + L /\ t > T
    BY <1>2
  <2>2. At(t)'.msg = N + 1
    BY <1>5, <2>1
  <2>3. At(Total)'.msg = Len(sent') /\ Total' > 0
    BY <1>1, <2>1, <2>2
  <2>4. ASSUME got' = 0 PROVE At(1)' = [msg |-> 1, pos |-> 1]
    <3>1. CASE T = 0
      <4>1. N = 0
        BY <1>0, <3>1 DEF RunEnds, T, N
      <4>2. 1 \in 1 .. T + L /\ 1 > T /\ 1 - T = 1
        BY <1>2, <3>1
      <4> QED
        BY <1>5, <4>1, <4>2
    <3>2. CASE T > 0
      BY <1>0, <1>1, <1>2, <1>4, <2>4, <3>2 DEF RunEnds, T
    <3> QED
      BY <1>2, <3>1, <3>2
  <2> QED
    BY <1>1, <2>1, <2>3, <2>4 DEF RunEnds
<1> QED
  BY <1>6, <1>7, <1>8, <1>9 DEF Run

\* The cells of the last read are the first of the run.
LEMMA ReadCells ==
    ASSUME TypeOK, Run, NEW i \in 1 .. got
    PROVE  /\ i \in 1 .. Total /\ i \in 1 .. BufferCells /\ At(i) = buffer[i]
           /\ Sent(buffer[i]) /\ buffer[i].msg \in 1 .. Len(sent) /\ buffer[i].pos \in Nat \ {0}
<1>1. i \in 1 .. Total /\ i \in 1 .. BufferCells /\ At(i) = buffer[i]
  <2>1. got \in Nat /\ got <= BufferCells /\ Len(stream) \in Nat /\ BufferCells \in Nat
    BY AuthTypes, AuthAssumption
  <2> QED
    BY <2>1 DEF Total, At
<1>2. Sent(buffer[i])
  BY <1>1 DEF Run, RunSent
<1> QED
  BY <1>1, <1>2, LengthFacts DEF Sent

\* Sending keeps the invariant.
LEMMA SendKeeps ==
    ASSUME AuthInv, NEW kind \in Kinds, ClientSends(kind)
    PROVE  AuthInv'
<1>0. /\ TypeOK /\ Run /\ Stale /\ NotAuthedYet /\ Reading /\ AcceptedCells /\ AuthedSent
      /\ AuthedByFirstMessage /\ AcceptedOnce /\ LossOnlyCut
  BY DEF AuthInv
<1>1. UNCHANGED <<buffer, got, status, closed, reading, writing, accepted, swallowed>>
  BY DEF ClientSends
<1>2. TypeOK' /\ Run'
  BY <1>0, SendFacts, SendKeepsRun
<1>3. /\ Len(sent') = Len(sent) + 1 /\ Len(sent) \in Nat
      /\ \A m \in 1 .. Len(sent) : sent'[m] = sent[m]
  BY <1>0, SendFacts, AuthTypes
<1>5. Stale'
  <2>1. ASSUME NEW k \in got + 1 .. BufferCells
        PROVE  \/ buffer'[k] = Zero
               \/ got' > 0 /\ Sent(buffer[k])' /\ Before(buffer'[k], buffer'[1])
    <3>1. CASE buffer[k] = Zero
      BY <1>1, <3>1
    <3>2. CASE got > 0 /\ Sent(buffer[k]) /\ Before(buffer[k], buffer[1])
      <4>1. buffer[k].msg \in 1 .. Len(sent') /\ buffer[k].pos \in 1 .. Length(sent'[buffer[k].msg])
        BY <1>3, <3>2 DEF Sent
      <4> QED
        BY <1>1, <3>2, <4>1 DEF Sent
    <3> QED
      BY <1>0, <3>1, <3>2 DEF Stale
  <2> QED
    BY <1>1, <2>1 DEF Stale, Before
<1>6. NotAuthedYet'
  BY <1>0, <1>1 DEF NotAuthedYet
<1>8. Reading'
  <2>1. \A m : Met(m) => Met(m)'
    BY <1>1 DEF Met
  <2>4. CASE reading = "armed"
    <3>1. /\ \A i \in 1 .. Len(accepted) : \A k \in 1 .. Len(accepted[i].cells) :
                got > 0 /\ ~Before(buffer[got], accepted[i].cells[k])
          /\ got > 0 => \A m \in 1 .. buffer[got].msg : Met(m)
      BY <1>0, <2>4 DEF Reading
    <3>3. got' > 0 => \A m \in 1 .. buffer'[got'].msg : Met(m)'
      BY <1>1, <2>1, <3>1
    <3>4. \A i \in 1 .. Len(accepted') : \A k \in 1 .. Len(accepted'[i].cells) :
             got' > 0 /\ ~Before(buffer[got], accepted[i].cells[k])'
      BY <1>1, <3>1 DEF Before
    <3> QED
      BY <1>1, <2>4, <3>3, <3>4 DEF Reading
  <2>5. CASE reading = "handling"
    BY <1>0, <1>1, <2>5 DEF Reading, Before, Met
  <2>6. CASE reading = "no"
    BY <1>1, <2>6 DEF Reading
  <2> QED
    BY <1>0, <2>4, <2>5, <2>6 DEF TypeOK
<1>9. AcceptedCells' /\ AuthedSent'
  BY <1>0, <1>1, <1>3 DEF AcceptedCells, AuthedSent
<1>10. AuthedByFirstMessage'
  BY <1>0, <1>1, <1>3 DEF AuthedByFirstMessage, AuthedSent
<1>11. AcceptedOnce' /\ LossOnlyCut'
  BY <1>0, <1>1 DEF AcceptedOnce, LossOnlyCut, Met
<1> QED
  BY <1>2, <1>5, <1>6, <1>8, <1>9, <1>10, <1>11 DEF AuthInv

-----------------------------------------------------------------------------
(* A read                                                                  *)

\* What a read does to the run: the cells handled before drop out of it.
LEMMA ReadFacts ==
    ASSUME TypeOK, NEW n \in 1 .. BufferCells, ReadHandlerInternal(n)
    PROVE  /\ got' = n /\ n <= Len(stream) /\ Total = got + Len(stream)
           /\ Total' = Len(stream)
           /\ \A i \in 1 .. Len(stream) :
                 At(i)' = stream[i] /\ At(got + i) = stream[i] /\ got + i \in 1 .. Total
           /\ \A k \in 1 .. n : buffer'[k] = stream[k]
           /\ \A k \in n + 1 .. BufferCells : buffer'[k] = buffer[k]
           /\ TypeOK'
<1>0. /\ got \in Nat /\ Len(stream) \in Nat /\ stream \in Seq(Cell)
      /\ n \in Nat /\ n >= 1 /\ BufferCells \in Nat
      /\ \A i \in 1 .. BufferCells : buffer[i] \in Cell
      /\ \A i \in 1 .. Len(stream) : stream[i] \in Cell
  BY AuthTypes, AuthAssumption DEF TypeOK
<1>1. /\ n <= Len(stream) /\ got' = n /\ reading' = "handling"
      /\ buffer' = [i \in 1 .. BufferCells |-> IF i <= n THEN stream[i] ELSE buffer[i]]
      /\ stream' = SubSeq(stream, n + 1, Len(stream))
      /\ UNCHANGED <<sent, status, closed, writing, accepted, swallowed>>
  BY DEF ReadHandlerInternal
<1>2. /\ stream' \in Seq(Cell) /\ Len(stream') = Len(stream) - n
      /\ \A i \in 1 .. Len(stream) - n : stream'[i] = stream[n + i]
  BY <1>0, <1>1
<1>3. /\ \A k \in 1 .. n : buffer'[k] = stream[k]
      /\ \A k \in n + 1 .. BufferCells : buffer'[k] = buffer[k]
  BY <1>0, <1>1
<1>4. Total = got + Len(stream) /\ Total' = Len(stream)
  BY <1>0, <1>1, <1>2 DEF Total
<1>5. ASSUME NEW i \in 1 .. Len(stream)
      PROVE  At(i)' = stream[i] /\ At(got + i) = stream[i] /\ got + i \in 1 .. Total
  <2>1. CASE i <= n
    BY <1>0, <1>1, <1>3, <1>4, <2>1 DEF At
  <2>2. CASE ~(i <= n)
    <3>1. i - n \in 1 .. Len(stream) - n /\ n + (i - n) = i
      BY <1>0, <1>1, <2>2
    <3>2. At(i)' = stream[i]
      BY <1>1, <1>2, <2>2, <3>1 DEF At
    <3> QED
      BY <1>0, <1>4, <3>2 DEF At
  <2> QED
    BY <2>1, <2>2
<1>6. TypeOK'
  <2>1. buffer' \in [1 .. BufferCells -> Cell]
    <3>1. \A i \in 1 .. BufferCells : (IF i <= n THEN stream[i] ELSE buffer[i]) \in Cell
      BY <1>0, <1>1
    <3> QED
      BY <1>1, <3>1
  <2> QED
    BY <1>1, <1>2, <2>1 DEF TypeOK
<1> QED
  BY <1>1, <1>3, <1>4, <1>5, <1>6

\* The piece that is left of a run is a run.
LEMMA ReadKeepsRun ==
    ASSUME TypeOK, Run, NEW n \in 1 .. BufferCells, ReadHandlerInternal(n)
    PROVE  Run'
<1> DEFINE g == got
           T == Len(stream)
<1>0. RunSent /\ RunWhole /\ RunOrder /\ RunEnds
  BY DEF Run
<1>1. /\ Total = g + T /\ Total' = T /\ got' = n /\ n <= T
      /\ \A i \in 1 .. T : At(i)' = At(g + i) /\ g + i \in 1 .. Total
  BY ReadFacts
<1>2. g \in Nat /\ T \in Nat /\ n >= 1 /\ sent' = sent
  BY AuthTypes DEF ReadHandlerInternal
<1> HIDE DEF g, T
<1>3. RunSent'
  BY <1>0, <1>1, <1>2 DEF RunSent, Sent
<1>4. RunWhole'
  <2>1. ASSUME NEW i \in 1 .. T, NEW k \in 1 .. Length(sent[At(g + i).msg]) - At(g + i).pos
        PROVE  /\ i + k <= T
               /\ At(i + k)' = [msg |-> At(g + i).msg, pos |-> At(g + i).pos + k]
    <3>1. /\ (g + i) + k <= Total
          /\ At((g + i) + k) = [msg |-> At(g + i).msg, pos |-> At(g + i).pos + k]
      BY <1>0, <1>1, <2>1 DEF RunWhole
    <3>2. k \in Nat /\ k > 0
      BY LengthFacts
    <3>3. i + k \in 1 .. T /\ (g + i) + k = g + (i + k)
      BY <1>1, <1>2, <3>1, <3>2
    <3> QED
      BY <1>1, <3>1, <3>3
  <2> QED
    BY <1>1, <1>2, <2>1 DEF RunWhole
<1>5. RunOrder'
  <2>1. ASSUME NEW i \in 1 .. T, NEW j \in 1 .. T, i < j
        PROVE  /\ Before(At(i)', At(j)')
               /\ \A m \in At(i)'.msg + 1 .. At(j)'.msg :
                     \E k \in i + 1 .. j : At(k)' = [msg |-> m, pos |-> 1]
    <3>1. g + i < g + j /\ g + i \in 1 .. Total /\ g + j \in 1 .. Total
      BY <1>1, <1>2, <2>1
    <3>2. /\ Before(At(g + i), At(g + j))
          /\ \A m \in At(g + i).msg + 1 .. At(g + j).msg :
                \E k \in g + i + 1 .. g + j : At(k) = [msg |-> m, pos |-> 1]
      BY <1>0, <3>1 DEF RunOrder
    <3>3. At(i)' = At(g + i) /\ At(j)' = At(g + j)
      BY <1>1
    <3>4. ASSUME NEW m \in At(i)'.msg + 1 .. At(j)'.msg
          PROVE  \E k \in i + 1 .. j : At(k)' = [msg |-> m, pos |-> 1]
      <4>1. PICK k \in g + i + 1 .. g + j : At(k) = [msg |-> m, pos |-> 1]
        BY <3>2, <3>3
      <4>2. PICK h \in i + 1 .. j : k = g + h /\ h \in 1 .. T
        BY <1>2, <4>1
      <4>3. At(h)' = At(k)
        BY <1>1, <4>2
      <4> QED
        BY <4>1, <4>3
    <3> QED
      BY <3>2, <3>3, <3>4
  <2> QED
    BY <1>1, <2>1 DEF RunOrder, Before
<1>6. RunEnds'
  <2>1. PICK t \in 1 .. T : t = T
    BY <1>1, <1>2
  <2>2. At(t)' = At(Total) /\ Total > 0
    BY <1>1, <1>2, <2>1
  <2>3. At(Total)' = At(Total)
    BY <1>1, <2>1, <2>2
  <2> QED
    BY <1>0, <1>1, <1>2, <2>2, <2>3 DEF RunEnds
<1> QED
  BY <1>3, <1>4, <1>5, <1>6 DEF Run

\* A read keeps the invariant.
LEMMA ReadKeeps ==
    ASSUME AuthInv, NEW n \in 1 .. BufferCells, ReadHandlerInternal(n)
    PROVE  AuthInv'
<1>0. /\ TypeOK /\ Run /\ Stale /\ NotAuthedYet /\ Reading /\ AcceptedCells /\ AuthedSent
      /\ AuthedByFirstMessage /\ AcceptedOnce /\ LossOnlyCut
  BY DEF AuthInv
<1>1. /\ reading = "armed" /\ reading' = "handling" /\ got' = n /\ n >= 1
      /\ UNCHANGED <<sent, status, closed, writing, accepted, swallowed>>
  BY DEF ReadHandlerInternal
<1>2. TypeOK' /\ Run'
  BY <1>0, ReadFacts, ReadKeepsRun
<1>3. /\ got \in Nat /\ got <= BufferCells /\ BufferCells \in Nat /\ Len(stream) \in Nat
      /\ n <= Len(stream) /\ Total = got + Len(stream)
  BY <1>0, ReadFacts, AuthTypes, AuthAssumption
<1>4. /\ buffer'[1] = At(got + 1) /\ got + 1 \in 1 .. Total /\ Total > 0
      /\ buffer'[1] \in Cell
      /\ \A k \in n + 1 .. BufferCells : buffer'[k] = buffer[k]
  <2>1. 1 \in 1 .. Len(stream) /\ 1 \in 1 .. n
    BY <1>1, <1>3
  <2>2. buffer'[1] = stream[1] /\ At(got + 1) = stream[1] /\ got + 1 \in 1 .. Total
    BY <1>0, <2>1, ReadFacts
  <2>3. stream[1] \in Cell
    BY <1>0, <2>1, AuthTypes
  <2> QED
    BY <1>0, <1>3, <2>2, <2>3, ReadFacts
<1>5. ASSUME NEW k \in 1 .. got
      PROVE  Before(buffer[k], buffer'[1]) /\ Sent(buffer[k])
  <2>1. k \in 1 .. Total /\ At(k) = buffer[k] /\ Sent(buffer[k]) /\ k < got + 1
    BY <1>0, <1>3, ReadCells
  <2>2. Before(At(k), At(got + 1))
    BY <1>0, <1>4, <2>1 DEF Run, RunOrder
  <2> QED
    BY <1>4, <2>1, <2>2
<1>6. Stale'
  <2>1. ASSUME NEW k \in n + 1 .. BufferCells
        PROVE  buffer[k] = Zero \/ (Sent(buffer[k]) /\ Before(buffer[k], buffer'[1]))
    <3>1. CASE k <= got
      BY <1>1, <1>3, <1>5, <3>1
    <3>2. CASE k > got
      <4>1. k \in got + 1 .. BufferCells /\ k \in 1 .. BufferCells
        BY <1>1, <1>3, <3>2
      <4>2. CASE got > 0 /\ Sent(buffer[k]) /\ Before(buffer[k], buffer[1])
        <5>1. 1 \in 1 .. got /\ 1 \in 1 .. BufferCells
          BY <1>3, <4>2
        <5>2. buffer[k] \in Cell /\ buffer[1] \in Cell /\ Before(buffer[1], buffer'[1])
          BY <1>0, <1>5, <4>1, <5>1, AuthTypes
        <5> QED
          BY <1>4, <4>2, <5>2, BeforeFacts
      <4>3. \/ buffer[k] = Zero
            \/ got > 0 /\ Sent(buffer[k]) /\ Before(buffer[k], buffer[1])
        BY <1>0, <4>1 DEF Stale
      <4> QED
        BY <4>2, <4>3
    <3> QED
      BY <1>1, <1>3, <3>1, <3>2
  <2>2. ASSUME NEW k \in n + 1 .. BufferCells
        PROVE  \/ buffer'[k] = Zero
               \/ got' > 0 /\ Sent(buffer[k])' /\ Before(buffer'[k], buffer'[1])
    <3>1. buffer'[k] = buffer[k] /\ got' > 0
      BY <1>1, <1>4
    <3> QED
      BY <1>1, <2>1, <3>1 DEF Sent
  <2> QED
    BY <1>1, <2>2 DEF Stale, Before
<1>7. NotAuthedYet'
  <2> SUFFICES ASSUME status = "NotAuthed" PROVE NotAuthedYet'
    BY <1>1 DEF NotAuthedYet
  <2>1. got = 0 /\ Len(accepted) = 0
    BY <1>0, <1>1 DEF NotAuthedYet
  <2>2. buffer'[1] = [msg |-> 1, pos |-> 1]
    BY <1>0, <1>4, <2>1 DEF Run, RunEnds
  <2>3. \A k \in n + 1 .. BufferCells : buffer'[k] = Zero
    BY <1>0, <1>1, <1>3, <1>4, <2>1 DEF Stale
  <2> QED
    BY <1>1, <2>1, <2>2, <2>3 DEF NotAuthedYet
<1>8. Reading'
  <2>0. /\ \A i \in 1 .. Len(accepted) : \A k \in 1 .. Len(accepted[i].cells) :
              got > 0 /\ ~Before(buffer[got], accepted[i].cells[k])
        /\ got > 0 => \A m \in 1 .. buffer[got].msg : Met(m)
    BY <1>0, <1>1 DEF Reading
  <2>1. ASSUME NEW i \in 1 .. Len(accepted), NEW k \in 1 .. Len(accepted[i].cells)
        PROVE  Before(accepted[i].cells[k], buffer'[1])
    <3>1. got \in 1 .. got /\ got \in 1 .. BufferCells /\ ~Before(buffer[got], accepted[i].cells[k])
      BY <1>3, <2>0
    <3>2. Before(buffer[got], buffer'[1]) /\ buffer[got] \in Cell /\ accepted[i].cells[k] \in Cell
      BY <1>0, <1>5, <3>1, AuthTypes DEF AcceptedCells
    <3> QED
      BY <1>4, <3>1, <3>2, BeforeFacts
  <2>2. ASSUME NEW m \in 1 .. buffer'[1].msg - 1 PROVE Met(m)
    <3>1. buffer'[1].msg \in Nat
      BY <1>4, AuthAssumption DEF Cell
    <3>2. CASE got = 0
      <4>1. buffer'[1].msg = 1
        BY <1>0, <1>4, <3>2 DEF Run, RunEnds
      <4> QED
        BY <4>1
    <3>3. CASE got > 0
      <4>1. got \in 1 .. Total /\ got < got + 1 /\ At(got) = buffer[got] /\ buffer[got].msg \in Nat
        BY <1>0, <1>3, <3>3, ReadCells, AuthTypes
      <4>2. \A l \in buffer[got].msg + 1 .. buffer'[1].msg :
               \E k \in got + 1 .. got + 1 : At(k) = [msg |-> l, pos |-> 1]
        BY <1>0, <1>4, <4>1 DEF Run, RunOrder
      <4>3. \A l \in buffer[got].msg + 1 .. buffer'[1].msg : buffer'[1].msg = l
        <5>1. ASSUME NEW l \in buffer[got].msg + 1 .. buffer'[1].msg PROVE buffer'[1].msg = l
          <6>1. At(got + 1) = [msg |-> l, pos |-> 1]
            BY <1>3, <4>2
          <6> QED
            BY <1>4, <6>1
        <5> QED
          BY <5>1
      <4>4. buffer'[1].msg <= buffer[got].msg + 1
        BY <3>1, <4>1, <4>3
      <4>5. m \in 1 .. buffer[got].msg
        BY <3>1, <4>1, <4>4
      <4> QED
        BY <2>0, <3>3, <4>5
    <3> QED
      BY <1>3, <3>2, <3>3
  <2>4. \A m \in 1 .. buffer'[1].msg - 1 : Met(m)'
    BY <1>1, <2>2 DEF Met
  <2>5. \A i \in 1 .. Len(accepted') : \A k \in 1 .. Len(accepted'[i].cells) :
            Before(accepted[i].cells[k], buffer[1])'
    BY <1>1, <2>1 DEF Before
  <2> QED
    BY <1>1, <2>4, <2>5 DEF Reading
<1>9. AcceptedCells' /\ AuthedSent' /\ AuthedByFirstMessage'
  BY <1>0, <1>1 DEF AcceptedCells, AuthedSent, AuthedByFirstMessage
<1>10. AcceptedOnce' /\ LossOnlyCut'
  <2>1. \A m : Met(m) => Met(m)'
    BY <1>1 DEF Met
  <2>2. AcceptedOnce'
    BY <1>0, <1>1 DEF AcceptedOnce
  <2> QED
    BY <1>0, <1>1, <2>1, <2>2 DEF LossOnlyCut
<1> QED
  BY <1>2, <1>6, <1>7, <1>8, <1>9, <1>10 DEF AuthInv

-----------------------------------------------------------------------------
(* The read handler                                                        *)

\* A step that closes the session, stops its reading or ends its writing keeps
\* the invariant.
LEMMA StopKeeps ==
    ASSUME AuthInv, reading' \in {"no", reading}, closed' \in BOOLEAN, writing' \in BOOLEAN,
           UNCHANGED <<sent, stream, buffer, got, status, accepted, swallowed>>
    PROVE  AuthInv'
<1>1. /\ TypeOK /\ Run /\ Stale /\ NotAuthedYet /\ Reading /\ AcceptedCells /\ AuthedSent
      /\ AuthedByFirstMessage /\ AcceptedOnce /\ LossOnlyCut
  BY DEF AuthInv
<1>2. TypeOK'
  BY <1>1 DEF TypeOK
<1>3. Total' = Total /\ \A i : At(i)' = At(i)
  BY DEF Total, At
<1>4. Run'
  BY <1>1, <1>3 DEF Run, RunSent, RunWhole, RunOrder, RunEnds, Sent, Before
<1>5. Stale'
  BY <1>1 DEF Stale, Sent, Before
<1>6. NotAuthedYet' /\ Reading'
  BY <1>1 DEF NotAuthedYet, Reading, Before, Met
<1>7. AcceptedCells' /\ AuthedSent' /\ AuthedByFirstMessage'
  BY <1>1 DEF AcceptedCells, AuthedSent, AuthedByFirstMessage
<1>8. AcceptedOnce' /\ LossOnlyCut'
  BY <1>1 DEF AcceptedOnce, LossOnlyCut, Met
<1> QED
  BY <1>2, <1>4, <1>5, <1>6, <1>7, <1>8 DEF AuthInv

\* A read in which a cell stands where it does in its message, behind the first,
\* begins where that message begins.
LEMMA HeadFacts ==
    ASSUME TypeOK, Run, NEW c \in 1 .. got, c >= 2, c <= HeaderEnd, buffer[c].pos = c
    PROVE  /\ buffer[1].pos = 1
           /\ \A k \in 1 .. Length(sent[buffer[1].msg]) :
                 k <= got => buffer[k] = [msg |-> buffer[1].msg, pos |-> k]
<1> DEFINE m == At(1).msg
           p == At(1).pos
           L == Length(sent[m])
<1>0. /\ got \in Nat /\ c \in Nat /\ c \in 1 .. Total /\ 1 \in 1 .. Total /\ At(c).pos = c
      /\ At(1) = buffer[1] /\ Total \in Nat /\ buffer[1] \in Cell
      /\ 1 \in 1 .. got
  <2>1. 1 \in 1 .. got /\ got \in Nat /\ c \in Nat
    BY AuthTypes
  <2>2. 1 \in 1 .. BufferCells
    BY <2>1, ReadCells
  <2> QED
    BY <2>1, <2>2, ReadCells, AuthTypes
<1>1. /\ m \in Nat /\ p \in Nat /\ p >= 1 /\ L \in Nat /\ p <= L /\ L >= HeaderEnd + 1
      /\ HeaderEnd \in Nat /\ m \in 1 .. Len(sent)
  <2>1. Sent(At(1))
    BY <1>0 DEF Run, RunSent
  <2>2. L \in Nat /\ L >= HeaderEnd + 1 /\ HeaderEnd \in Nat
    BY LengthFacts, HeaderFacts
  <2>3. m \in Nat
    BY <1>0, AuthTypes
  <2> QED
    BY <2>1, <2>2, <2>3 DEF Sent
<1>2. \A k \in 1 .. L - p : 1 + k <= Total /\ At(1 + k) = [msg |-> m, pos |-> p + k]
  BY <1>0 DEF Run, RunWhole
<1> HIDE DEF m, p, L
<1>3. p = 1
  <2>1. CASE c - 1 <= L - p
    <3>1. c - 1 \in 1 .. L - p /\ 1 + (c - 1) = c
      BY <1>0, <1>1, <2>1
    <3>2. At(1 + (c - 1)) = [msg |-> m, pos |-> p + (c - 1)]
      BY <1>2, <3>1
    <3>3. p + (c - 1) = c
      BY <1>0, <3>1, <3>2
    <3> QED
      BY <1>0, <1>1, <3>3
  <2>2. CASE c - 1 > L - p
    <3> DEFINE e == 1 + (L - p)
    <3>1. e \in Nat /\ e >= 1 /\ e < c /\ e \in 1 .. Total /\ e + 1 \in 1 .. Total
      BY <1>0, <1>1, <2>2
    <3>2. At(e).msg = m /\ At(e).pos = L
      <4>1. CASE L - p = 0
        BY <1>1, <4>1 DEF m, p
      <4>2. CASE L - p # 0
        <5>1. L - p \in 1 .. L - p
          BY <1>1, <4>2
        <5>2. At(1 + (L - p)) = [msg |-> m, pos |-> p + (L - p)]
          BY <1>2, <5>1
        <5> QED
          BY <1>1, <5>2
      <4> QED
        BY <4>1, <4>2
    <3> HIDE DEF e
    <3> DEFINE q == At(e + 1).msg
    <3>3. /\ Before(At(e), At(e + 1))
          /\ \A h \in At(e).msg + 1 .. q :
                \E k \in e + 1 .. e + 1 : At(k) = [msg |-> h, pos |-> 1]
      BY <3>1 DEF Run, RunOrder
    <3>4. q \in Nat /\ At(e + 1).pos <= Length(sent[q]) /\ At(e + 1).pos \in Nat
      <4>1. Sent(At(e + 1))
        BY <3>1 DEF Run, RunSent
      <4>2. Length(sent[q]) \in Nat /\ q \in Nat
        BY <3>1, LengthFacts, AuthTypes
      <4> QED
        BY <4>1, <4>2 DEF Sent
    <3>5. q > m
      <4> SUFFICES ASSUME q <= m PROVE FALSE
        BY <1>1, <3>4
      <4>1. q = m /\ L < At(e + 1).pos
        BY <1>1, <3>2, <3>3, <3>4 DEF Before
      <4> QED
        BY <1>1, <3>4, <4>1 DEF L
    <3>6. At(e + 1) = [msg |-> q, pos |-> 1]
      <4>1. q \in At(e).msg + 1 .. q
        BY <1>1, <3>2, <3>4, <3>5
      <4>2. PICK k \in e + 1 .. e + 1 : At(k) = [msg |-> q, pos |-> 1]
        BY <3>3, <4>1
      <4>3. k = e + 1
        BY <3>1, <4>2
      <4> QED
        BY <4>2, <4>3
    <3>7. CASE c = e + 1
      BY <1>0, <3>1, <3>6, <3>7
    <3>8. CASE c > e + 1
      <4> DEFINE d == c - (e + 1)
      <4>1. Length(sent[q]) \in Nat /\ Length(sent[q]) >= HeaderEnd + 1
        BY LengthFacts
      <4>2. d \in 1 .. Length(sent[q]) - 1 /\ (e + 1) + d = c /\ 1 + d < c
        BY <1>0, <1>1, <3>1, <3>8, <4>1
      <4> HIDE DEF d
      <4>3. d \in 1 .. Length(sent[At(e + 1).msg]) - At(e + 1).pos
        BY <3>6, <4>2
      <4>4. At((e + 1) + d) = [msg |-> At(e + 1).msg, pos |-> At(e + 1).pos + d]
        BY <3>1, <4>3 DEF Run, RunWhole
      <4>5. At(c).pos = 1 + d
        BY <3>6, <4>2, <4>4
      <4> QED
        BY <1>0, <4>2, <4>5
    <3> QED
      BY <1>0, <3>1, <3>7, <3>8
  <2> QED
    BY <1>0, <1>1, <2>1, <2>2
<1>4. ASSUME NEW k \in 1 .. L, k <= got
      PROVE  buffer[k] = [msg |-> m, pos |-> k]
  <2>1. k \in 1 .. got /\ At(k) = buffer[k]
    BY <1>0, <1>1, <1>4, ReadCells
  <2>2. CASE k = 1
    <3>1. buffer[1] = [msg |-> m, pos |-> 1]
      BY <1>0, <1>3 DEF m, p, Cell
    <3> QED
      BY <2>2, <3>1
  <2>3. CASE k # 1
    <3>1. k - 1 \in 1 .. L - p /\ 1 + (k - 1) = k /\ p + (k - 1) = k
      BY <1>1, <1>3, <2>3
    <3>2. At(1 + (k - 1)) = [msg |-> m, pos |-> p + (k - 1)]
      BY <1>2, <3>1
    <3> QED
      BY <2>1, <3>1, <3>2
  <2> QED
    BY <2>2, <2>3
<1> QED
  BY <1>0, <1>3, <1>4 DEF m, p, L

\* What the session sees of a message it accepts, and what a read that brings
\* a header brings.
LEMMA AcceptedFacts ==
    ASSUME TypeOK, Run, got > 0, NEW cmd \in Commands, cmd \in {"A", "D"}
    PROVE  /\ Declared \in HeaderEnd + 1 .. BufferCells
           /\ MsgType(sent[buffer[HeaderEnd].msg]) = cmd
           /\ buffer[Declared] # Zero
           /\ buffer[Protocol + 1].pos = Protocol + 1
           /\ got >= Protocol + 1 => /\ buffer[1].pos = 1
                                     /\ Declared = Length(sent[buffer[1].msg])
                                     /\ \A k \in 1 .. Declared :
                                           k <= got => buffer[k] = [msg |-> buffer[1].msg, pos |-> k]
<1>0. /\ got \in Nat /\ BufferCells \in Nat /\ HeaderEnd \in Nat /\ HeaderEnd >= 5
      /\ Protocol + 1 = HeaderEnd - 1
  BY AuthTypes, AuthAssumption, HeaderFacts
<1>1. /\ Declared <= BufferCells /\ buffer[Protocol + 1].pos = Protocol + 1
      /\ cmd \in {IF ends THEN MsgType(sent[buffer[HeaderEnd].msg]) ELSE "" : ends \in EndsThere}
  BY DEF Commands
<1>2. Declared \in HeaderEnd + 1 .. BufferCells
  <2>1. Declared \in Nat /\ HeaderEnd + 1 <= Declared
    BY LengthFacts DEF Declared
  <2>2. Declared <= BufferCells
    BY <1>1
  <2> QED
    BY <1>0, <2>1, <2>2
<1>3. PICK ends \in EndsThere :
         cmd = IF ends THEN MsgType(sent[buffer[HeaderEnd].msg]) ELSE ""
  BY <1>1
<1>4. MsgType(sent[buffer[HeaderEnd].msg]) = cmd /\ ends
  BY <1>3
<1>5. buffer[Declared] # Zero
  BY <1>3, <1>4 DEF EndsThere
<1>6. ASSUME got >= Protocol + 1
      PROVE  /\ buffer[1].pos = 1 /\ Declared = Length(sent[buffer[1].msg])
             /\ \A k \in 1 .. Declared :
                   k <= got => buffer[k] = [msg |-> buffer[1].msg, pos |-> k]
  <2> DEFINE c == Protocol + 1
             L == Length(sent[buffer[1].msg])
  <2>1. c \in 1 .. got /\ c >= 2 /\ c <= HeaderEnd /\ buffer[c].pos = c
    <3>1. buffer[c].pos = c
      BY <1>1
    <3>2. c \in 1 .. got /\ c >= 2 /\ c <= HeaderEnd
      BY <1>0, <1>6
    <3> QED
      BY <3>1, <3>2
  <2> HIDE DEF c, L
  <2>2. buffer[1].pos = 1 /\ \A k \in 1 .. L : k <= got => buffer[k] = [msg |-> buffer[1].msg, pos |-> k]
    BY <2>1, HeadFacts DEF L
  <2>3. c \in 1 .. L /\ c <= got
    <3>1. L \in Nat /\ L >= HeaderEnd + 1
      BY LengthFacts DEF L
    <3> QED
      BY <1>0, <2>1, <3>1
  <2>4. buffer[c].msg = buffer[1].msg
    <3>1. buffer[c] = [msg |-> buffer[1].msg, pos |-> c]
      BY <2>2, <2>3
    <3> QED
      BY <3>1
  <2>5. Declared = L
    BY <2>4 DEF Declared, L, c
  <2> QED
    BY <2>2, <2>5 DEF L
<1> QED
  BY <1>1, <1>2, <1>4, <1>5, <1>6

\* The row of cells the handler is given.
LEMMA AcceptingFacts ==
    ASSUME TypeOK, NEW cmd \in {"A", "D"}, Declared \in 1 .. BufferCells
    PROVE  /\ Accepting(cmd) \in Acceptance /\ Accepting(cmd).kind = cmd
           /\ Accepting(cmd).read = got
           /\ Accepting(cmd).cells \in Seq(Cell) /\ Len(Accepting(cmd).cells) = Declared
           /\ \A i \in 1 .. Declared : Accepting(cmd).cells[i] = buffer[i]
<1> DEFINE d == Declared
<1>1. buffer \in Seq(Cell) /\ Len(buffer) = BufferCells /\ BufferCells \in Nat
  BY AuthAssumption DEF TypeOK
<1>2. d \in Nat /\ d <= Len(buffer) /\ d >= 1
  BY <1>1
<1> HIDE DEF d
<1>3. /\ SubSeq(buffer, 1, d) \in Seq(Cell) /\ Len(SubSeq(buffer, 1, d)) = d
      /\ \A i \in 1 .. d : SubSeq(buffer, 1, d)[i] = buffer[i]
  BY <1>1, <1>2
<1>4. Accepting(cmd) = [kind |-> cmd, cells |-> SubSeq(buffer, 1, d), read |-> got]
  BY DEF Accepting, d
<1>5. Accepting(cmd) \in Acceptance
  BY <1>3, <1>4 DEF Acceptance, TypeOK
<1> QED
  BY <1>3, <1>4, <1>5 DEF d

\* The last cell of a read is its newest.
LEMMA NewestFacts ==
    ASSUME TypeOK, Run, NEW k \in 1 .. got
    PROVE  ~Before(buffer[got], buffer[k])
<1>1. /\ got \in Nat /\ got \in 1 .. got
      /\ k \in 1 .. Total /\ got \in 1 .. Total /\ At(k) = buffer[k] /\ At(got) = buffer[got]
      /\ buffer[k] \in Cell /\ buffer[got] \in Cell
  <2>1. got \in Nat
    BY AuthTypes
  <2>2. got \in 1 .. got
    BY <2>1
  <2> QED
    BY <2>1, <2>2, ReadCells, AuthTypes
<1>2. CASE k = got
  BY <1>1, <1>2, BeforeFacts
<1>3. CASE k # got
  <2>1. Before(At(k), At(got))
    BY <1>1, <1>3 DEF Run, RunOrder
  <2> QED
    BY <1>1, <2>1, BeforeFacts
<1> QED
  BY <1>2, <1>3

\* Accepting a message keeps the invariant.
LEMMA AcceptKeeps ==
    ASSUME AuthInv, reading = "handling", NEW cmd \in {"A", "D"}, Handled(cmd),
           status' = "Authed", writing' \in BOOLEAN,
           UNCHANGED <<sent, stream, buffer, got>>
    PROVE  AuthInv'
<1> DEFINE a == Accepting(cmd)
           m == buffer[1].msg
           N == Len(accepted)
           D == Declared
<1>0. /\ TypeOK /\ Run /\ Stale /\ NotAuthedYet /\ Reading /\ AcceptedCells /\ AuthedSent
      /\ AuthedByFirstMessage /\ AcceptedOnce /\ LossOnlyCut
  BY DEF AuthInv
<1>1. /\ cmd \in Commands /\ Handlers[cmd] = status
      /\ accepted' = Append(accepted, a)
      /\ swallowed' = swallowed \cup {buffer[i].msg : i \in D + 1 .. got}
      /\ reading' \in {"armed", "no"} /\ closed' = closed
  BY DEF Handled, AsyncRead
<1>2. /\ got > 0
      /\ \A i \in 1 .. N : \A k \in 1 .. Len(accepted[i].cells) :
            Before(accepted[i].cells[k], buffer[1])
      /\ \A k \in 1 .. m - 1 : Met(k)
  BY <1>0 DEF Reading
<1>3. /\ D \in HeaderEnd + 1 .. BufferCells
      /\ MsgType(sent[buffer[HeaderEnd].msg]) = cmd
      /\ buffer[D] # Zero
      /\ buffer[Protocol + 1].pos = Protocol + 1
      /\ got >= Protocol + 1 => /\ buffer[1].pos = 1
                                /\ D = Length(sent[m])
                                /\ \A k \in 1 .. D :
                                      k <= got => buffer[k] = [msg |-> m, pos |-> k]
  BY <1>0, <1>1, <1>2, AcceptedFacts
<1>5. /\ got \in Nat /\ got <= BufferCells /\ N \in Nat /\ Len(sent) \in Nat /\ BufferCells \in Nat
      /\ HeaderEnd \in Nat /\ HeaderEnd >= 5 /\ Protocol + 1 = HeaderEnd - 1 /\ D \in Nat
      /\ D \in 1 .. BufferCells
  BY <1>0, <1>3, AuthTypes, AuthAssumption, HeaderFacts
<1>4. /\ a \in Acceptance /\ a.kind = cmd /\ a.read = got
      /\ a.cells \in Seq(Cell) /\ Len(a.cells) = D
      /\ \A i \in 1 .. D : a.cells[i] = buffer[i]
  BY <1>0, <1>5, AcceptingFacts
<1>6. /\ 1 \in 1 .. D /\ 1 \in 1 .. got /\ 1 \in 1 .. BufferCells /\ HeaderEnd \in 1 .. D
      /\ buffer[1] \in Cell /\ m \in Nat /\ a.cells[1] = buffer[1]
  <2>1. /\ 1 \in 1 .. D /\ 1 \in 1 .. got /\ 1 \in 1 .. BufferCells /\ HeaderEnd \in 1 .. D
    BY <1>2, <1>3, <1>5
  <2>2. buffer[1] \in Cell /\ m \in Nat
    BY <1>0, <2>1, AuthTypes
  <2> QED
    BY <1>4, <2>1, <2>2
<1> HIDE DEF a, m, N, D
<1>7. /\ accepted' \in Seq(Acceptance) /\ Len(accepted') = N + 1 /\ accepted'[N + 1] = a
      /\ \A i \in 1 .. N : accepted'[i] = accepted[i]
  <2>1. accepted \in Seq(Acceptance)
    BY <1>0 DEF TypeOK
  <2> QED
    BY <1>1, <1>4, <2>1, AppendFacts DEF N
<1>8. ASSUME got >= HeaderEnd
      PROVE  /\ buffer[1].pos = 1 /\ D = Length(sent[m])
             /\ \A k \in 1 .. D : k <= got => buffer[k] = [msg |-> m, pos |-> k]
             /\ buffer[HeaderEnd].msg = m
  <2>1. /\ buffer[1].pos = 1 /\ D = Length(sent[m])
        /\ \A k \in 1 .. D : k <= got => buffer[k] = [msg |-> m, pos |-> k]
    BY <1>3, <1>5, <1>8
  <2>2. buffer[HeaderEnd] = [msg |-> m, pos |-> HeaderEnd]
    BY <1>6, <1>8, <2>1
  <2> QED
    BY <2>1, <2>2
<1>9. TypeOK'
  <2>1. ASSUME NEW i \in D + 1 .. got PROVE buffer[i].msg \in 1 .. MaxMessages
    <3>1. i \in 1 .. got /\ Len(sent) <= MaxMessages
      BY <1>0, <1>5, AuthTypes
    <3>2. buffer[i].msg \in 1 .. Len(sent)
      BY <1>0, <3>1, ReadCells
    <3> QED
      BY <1>5, <3>1, <3>2, AuthAssumption
  <2>2. swallowed' \in SUBSET (1 .. MaxMessages)
    BY <1>0, <1>1, <2>1 DEF TypeOK
  <2> QED
    BY <1>0, <1>1, <1>7, <2>2 DEF TypeOK
<1>10. Run'
  <2>1. Total' = Total /\ \A i : At(i)' = At(i)
    BY DEF Total, At
  <2> QED
    BY <1>0, <2>1 DEF Run, RunSent, RunWhole, RunOrder, RunEnds, Sent, Before
<1>11. Stale'
  BY <1>0 DEF Stale, Sent, Before
<1>12. NotAuthedYet' /\ AuthedSent'
  <2>1. Len(sent) > 0
    <3>1. buffer[1].msg \in 1 .. Len(sent)
      BY <1>0, <1>6, ReadCells
    <3> QED
      BY <1>5, <3>1
  <2> QED
    BY <2>1 DEF NotAuthedYet, AuthedSent
<1>13. AcceptedCells'
  <2>1. ASSUME NEW k \in 1 .. D
        PROVE  a.cells[k] \in Cell /\ (a.cells[k].msg = 0 \/ a.cells[k].pos >= 1)
    <3>1. a.cells[k] = buffer[k] /\ k \in 1 .. BufferCells
      BY <1>4, <1>5
    <3>2. buffer[k] \in Cell
      BY <1>0, <3>1, AuthTypes
    <3>3. CASE k <= got
      <4>1. k \in 1 .. got
        BY <1>5, <3>3
      <4>2. buffer[k].pos \in Nat \ {0}
        BY <1>0, <4>1, ReadCells
      <4> QED
        BY <3>1, <3>2, <4>2
    <3>4. CASE k > got
      <4>1. k \in got + 1 .. BufferCells
        BY <1>5, <3>1, <3>4
      <4>2. buffer[k] = Zero \/ Sent(buffer[k])
        BY <1>0, <4>1 DEF Stale
      <4> QED
        BY <3>1, <3>2, <4>2, LengthFacts DEF Zero, Sent
    <3> QED
      BY <1>5, <3>3, <3>4
  <2>2. ASSUME NEW i \in 1 .. N + 1
        PROVE  /\ Len(accepted'[i].cells) \in Nat \ {0}
               /\ \A k \in 1 .. Len(accepted'[i].cells) :
                     /\ accepted'[i].cells[k] \in Cell
                     /\ accepted'[i].cells[k].msg = 0 \/ accepted'[i].cells[k].pos >= 1
    <3>1. CASE i \in 1 .. N
      BY <1>0, <1>7, <3>1 DEF AcceptedCells, N
    <3>2. CASE i = N + 1
      <4>1. accepted'[i] = a
        BY <1>7, <3>2
      <4> QED
        BY <1>4, <1>5, <2>1, <4>1
    <3> QED
      BY <1>5, <3>1, <3>2
  <2> QED
    BY <1>7, <2>2 DEF AcceptedCells
<1>14. \A k : Met(k) => Met(k)'
  <2>1. \A i \in 1 .. N : i \in 1 .. Len(accepted') /\ accepted'[i] = accepted[i]
    BY <1>5, <1>7
  <2> QED
    BY <1>1, <2>1 DEF Met, N
<1>15. ASSUME NEW k \in 1 .. buffer[got].msg PROVE Met(k)'
  <2>0. got \in 1 .. got /\ buffer[got].msg \in Nat
    BY <1>0, <1>2, <1>5, ReadCells
  <2>1. CASE k < m
    <3>1. k \in 1 .. m - 1
      BY <1>6, <2>0, <2>1
    <3> QED
      BY <1>2, <1>14, <3>1
  <2>2. CASE k >= m
    <3>1. \E i \in 1 .. got : buffer[i].msg = k /\ (k # m => buffer[i].pos = 1)
      <4>1. CASE k = m
        BY <1>6, <4>1 DEF m
      <4>2. CASE k # m
        <5>1. 1 \in 1 .. Total /\ got \in 1 .. Total /\ At(1) = buffer[1] /\ At(got) = buffer[got]
          BY <1>0, <1>6, <2>0, ReadCells
        <5>2. k \in At(1).msg + 1 .. At(got).msg
          BY <1>6, <2>0, <2>2, <4>2, <5>1 DEF m
        <5>3. 1 < got
          <6> SUFFICES ASSUME got = 1 PROVE FALSE
            BY <1>2, <1>5
          <6> QED
            BY <1>6, <2>0, <2>2, <4>2 DEF m
        <5>4. PICK j \in 1 + 1 .. got : At(j) = [msg |-> k, pos |-> 1]
          BY <1>0, <5>1, <5>2, <5>3 DEF Run, RunOrder
        <5>5. j \in 1 .. got
          BY <1>5
        <5>6. At(j) = buffer[j]
          BY <1>0, <5>5, ReadCells
        <5> QED
          BY <5>4, <5>5, <5>6
      <4> QED
        BY <4>1, <4>2
    <3>2. PICK i \in 1 .. got : buffer[i].msg = k /\ (k # m => buffer[i].pos = 1)
      BY <3>1
    <3>3. CASE got < HeaderEnd
      <4>1. i \in 1 .. D /\ i <= got
        BY <1>3, <1>5, <3>2, <3>3
      <4>2. N + 1 \in 1 .. Len(accepted') /\ accepted'[N + 1] = a
        BY <1>5, <1>7
      <4>3. a.cells[i].msg = k /\ ~(a.read >= HeaderEnd) /\ i <= a.read /\ i \in 1 .. Len(a.cells)
        BY <1>4, <1>5, <3>2, <3>3, <4>1
      <4> QED
        BY <4>2, <4>3 DEF Met
    <3>4. CASE got >= HeaderEnd /\ k = m
      <4>1. N + 1 \in 1 .. Len(accepted') /\ accepted'[N + 1] = a
        BY <1>5, <1>7
      <4>2. /\ HeaderEnd \in 1 .. Len(a.cells) /\ HeaderEnd <= a.read
            /\ a.cells[HeaderEnd].msg = k
        BY <1>4, <1>6, <1>8, <3>4
      <4> QED
        BY <4>1, <4>2 DEF Met
    <3>5. CASE got >= HeaderEnd /\ k # m
      <4>1. i > D
        <5> SUFFICES ASSUME i <= D PROVE FALSE
          BY <1>5
        <5>1. i \in 1 .. D /\ i <= got
          BY <1>5
        <5>2. buffer[i] = [msg |-> m, pos |-> i]
          BY <1>8, <3>5, <5>1
        <5> QED
          BY <3>2, <3>5, <5>2
      <4>2. i \in D + 1 .. got
        BY <1>5, <4>1
      <4> QED
        BY <1>1, <3>2, <4>2 DEF Met
    <3> QED
      BY <1>5, <3>3, <3>4, <3>5
  <2> QED
    BY <1>6, <2>0, <2>1, <2>2
<1>16. Reading'
  <2>1. ASSUME NEW i \in 1 .. N + 1, NEW k \in 1 .. Len(accepted'[i].cells)
        PROVE  ~Before(buffer[got], accepted'[i].cells[k])
    <3>0. /\ got \in 1 .. got /\ buffer[got] \in Cell
          /\ ~Before(buffer[got], buffer[1]) /\ accepted'[i].cells[k] \in Cell
      <4>1. got \in 1 .. got /\ got \in 1 .. BufferCells
        BY <1>2, <1>5
      <4>2. accepted'[i].cells[k] \in Cell
        BY <1>7, <1>13 DEF AcceptedCells
      <4> QED
        BY <1>0, <1>6, <4>1, <4>2, AuthTypes, NewestFacts
    <3>1. CASE Before(accepted'[i].cells[k], buffer[1])
      BY <1>6, <3>0, <3>1, BeforeFacts
    <3>2. CASE i = N + 1 /\ k <= got
      <4>1. accepted'[i].cells[k] = buffer[k] /\ k \in 1 .. got
        BY <1>4, <1>5, <1>7, <3>2
      <4> QED
        BY <1>0, <4>1, NewestFacts
    <3>3. CASE i = N + 1 /\ k > got
      <4>1. accepted'[i].cells[k] = buffer[k] /\ k \in got + 1 .. BufferCells
        BY <1>4, <1>5, <1>7, <3>3
      <4>2. buffer[k] = Zero \/ Before(buffer[k], buffer[1])
        BY <1>0, <4>1 DEF Stale
      <4>3. buffer[got].msg \in Nat \ {0} /\ buffer[got].pos \in Nat
        BY <1>0, <3>0, <1>5, ReadCells
      <4>4. CASE buffer[k] = Zero
        BY <4>1, <4>3, <4>4 DEF Before, Zero
      <4> QED
        BY <3>1, <4>1, <4>2, <4>4
    <3>4. CASE i \in 1 .. N
      <4>1. accepted'[i] = accepted[i]
        BY <1>7, <3>4
      <4> QED
        BY <1>2, <3>1, <3>4, <4>1
    <3> QED
      BY <1>4, <1>5, <1>7, <3>2, <3>3, <3>4
  <2>2. \A i \in 1 .. Len(accepted') : \A k \in 1 .. Len(accepted'[i].cells) :
           got' > 0 /\ ~Before(buffer[got], accepted[i].cells[k])'
    BY <1>2, <1>7, <2>1 DEF Before
  <2>3. \A k \in 1 .. buffer'[got'].msg : Met(k)'
    BY <1>15
  <2> QED
    BY <1>1, <2>2, <2>3 DEF Reading
<1>17. AcceptedOnce'
  <2>1. ASSUME NEW j \in 1 .. N + 1, accepted'[j].read >= HeaderEnd
        PROVE  LET h == accepted'[j].cells[HeaderEnd].msg
               IN  /\ \A k \in 1 .. Len(accepted'[j].cells) :
                          k <= accepted'[j].read =>
                              accepted'[j].cells[k] = [msg |-> h, pos |-> k]
                   /\ \A i \in 1 .. j - 1 : \A k \in 1 .. Len(accepted'[i].cells) :
                          accepted'[i].cells[k].msg < h
    <3>1. CASE j \in 1 .. N
      <4>1. accepted'[j] = accepted[j] /\ \A i \in 1 .. j - 1 : accepted'[i] = accepted[i]
        BY <1>5, <1>7, <3>1
      <4> QED
        BY <1>0, <2>1, <3>1, <4>1 DEF AcceptedOnce, N
    <3>2. CASE j = N + 1
      <4>1. accepted'[j] = a /\ got >= HeaderEnd
        BY <1>4, <1>7, <2>1, <3>2
      <4>2. a.cells[HeaderEnd].msg = m
        BY <1>4, <1>6, <1>8, <4>1
      <4>3. \A k \in 1 .. Len(a.cells) : k <= a.read => a.cells[k] = [msg |-> m, pos |-> k]
        BY <1>4, <1>8, <4>1
      <4>4. ASSUME NEW i \in 1 .. N, NEW k \in 1 .. Len(accepted[i].cells)
            PROVE  accepted[i].cells[k].msg < m
        <5>1. /\ Before(accepted[i].cells[k], buffer[1]) /\ accepted[i].cells[k] \in Cell
              /\ accepted[i].cells[k].msg = 0 \/ accepted[i].cells[k].pos >= 1
          BY <1>0, <1>2 DEF AcceptedCells, N
        <5>2. buffer[1].pos = 1 /\ m \in 1 .. Len(sent)
          BY <1>0, <1>6, <1>8, <4>1, ReadCells DEF m
        <5>3. accepted[i].cells[k].msg \in Nat /\ accepted[i].cells[k].pos \in Nat
          BY <5>1, AuthAssumption DEF Cell
        <5> QED
          BY <1>5, <5>1, <5>2, <5>3 DEF Before, m
      <4>5. \A i \in 1 .. j - 1 : i \in 1 .. N /\ accepted'[i] = accepted[i]
        BY <1>5, <1>7, <3>2
      <4> QED
        BY <4>1, <4>2, <4>3, <4>4, <4>5
    <3> QED
      BY <1>5, <3>1, <3>2
  <2> QED
    BY <1>7, <2>1 DEF AcceptedOnce
<1>18. LossOnlyCut'
  <2>1. ASSUME NEW j \in 1 .. N + 1, NEW k \in 1 .. accepted'[j].cells[1].msg - 1
        PROVE  Met(k)'
    <3>1. CASE j \in 1 .. N
      BY <1>0, <1>7, <1>14, <3>1 DEF LossOnlyCut, N
    <3>2. CASE j = N + 1
      BY <1>2, <1>6, <1>7, <1>14, <3>2 DEF m
    <3> QED
      BY <1>5, <3>1, <3>2
  <2> QED
    BY <1>7, <2>1 DEF LossOnlyCut
<1>19. AuthedByFirstMessage'
  <2>1. CASE status = "Authed"
    <3>1. /\ N >= 1 /\ accepted[1].kind = "A" /\ accepted[1].cells = Cells(1, sent[1])
          /\ sent[1] = "A"
      BY <1>0, <2>1 DEF AuthedByFirstMessage, N
    <3>2. accepted'[1] = accepted[1] /\ Len(accepted') >= 1
      BY <1>5, <1>7, <3>1
    <3> QED
      BY <3>1, <3>2 DEF AuthedByFirstMessage
  <2>2. CASE status = "NotAuthed"
    <3>1. /\ N = 0 /\ m = 1
          /\ \A k \in got + 1 .. BufferCells : buffer[k] = Zero
      BY <1>0, <2>2 DEF NotAuthedYet, N, m
    <3>2. got >= Protocol + 1 /\ D <= got
      <4>1. D <= got
        BY <1>3, <1>5, <3>1
      <4> QED
        BY <1>3, <1>5, <4>1
    <3>3. got >= HeaderEnd /\ D = Length(sent[1]) /\ \A k \in 1 .. D : buffer[k] = [msg |-> 1, pos |-> k]
      BY <1>3, <1>5, <3>1, <3>2
    <3>4. cmd = "A"
      BY <1>1, <2>2 DEF Handlers
    <3>5. 1 \in 1 .. Len(sent)
      BY <1>0, <1>6, <3>1, ReadCells DEF m
    <3>6. sent[1] = "A"
      <4>1. buffer[HeaderEnd].msg = 1
        BY <1>8, <3>1, <3>3
      <4>2. MsgType(sent[1]) = "A" /\ sent[1] \in Kinds
        BY <1>0, <1>3, <3>4, <3>5, <4>1 DEF TypeOK
      <4> QED
        BY <4>2, MsgTypeFacts
    <3>7. a.cells = Cells(1, sent[1])
      <4>1. 1 \in 1 .. MaxMessages
        BY <1>0, <3>5, AuthTypes, AuthAssumption
      <4>2. /\ Cells(1, sent[1]) \in Seq(Cell) /\ Len(Cells(1, sent[1])) = D
            /\ \A k \in 1 .. D : Cells(1, sent[1])[k] = [msg |-> 1, pos |-> k]
        BY <3>3, <4>1, CellsFacts
      <4>3. \A k \in 1 .. D : a.cells[k] = [msg |-> 1, pos |-> k]
        BY <1>4, <3>3
      <4> DEFINE s == a.cells
                 t == Cells(1, sent[1])
      <4>4. /\ s \in Seq(Cell) /\ t \in Seq(Cell) /\ Len(s) = Len(t)
            /\ \A k \in 1 .. Len(s) : s[k] = t[k]
        BY <1>4, <4>2, <4>3
      <4> HIDE DEF s, t
      <4>5. s = t
        BY <4>4, SeqEqual
      <4> QED
        BY <4>5 DEF s, t
    <3>8. accepted'[1] = a /\ Len(accepted') = 1
      BY <1>5, <1>7, <3>1
    <3> QED
      BY <1>4, <3>4, <3>6, <3>7, <3>8 DEF AuthedByFirstMessage
  <2> QED
    BY <1>0, <2>1, <2>2 DEF TypeOK
<1> QED
  BY <1>9, <1>10, <1>11, <1>12, <1>13, <1>16, <1>17, <1>18, <1>19 DEF AuthInv

-----------------------------------------------------------------------------
(* The theorems                                                            *)

\* Every step keeps AuthInv.
LEMMA AuthStep == AuthInv /\ [Next]_vars => AuthInv'
<1> SUFFICES ASSUME AuthInv, [Next]_vars
             PROVE  AuthInv'
  OBVIOUS
<1>0. TypeOK
  BY DEF AuthInv
<1>1. ASSUME NEW kind \in Kinds, ClientSends(kind) PROVE AuthInv'
  BY <1>1, SendKeeps
<1>2. ASSUME NEW n \in 1 .. BufferCells, ReadHandlerInternal(n) PROVE AuthInv'
  BY <1>2, ReadKeeps
<1>3. CASE ReadHandler
  <2>1. reading = "handling" /\ UNCHANGED <<sent, stream, buffer, got>>
    BY <1>3 DEF ReadHandler
  <2>2. CASE ReadUnsupported \/ ReadUnknown \/ ReadWrongStatus \/ ReadFailed
    <3>1. /\ reading' = "no" /\ closed' \in BOOLEAN /\ writing' \in BOOLEAN
          /\ UNCHANGED <<status, accepted, swallowed>>
      BY <1>0, <2>2 DEF ReadUnsupported, ReadUnknown, ReadWrongStatus, ReadFailed,
         CloseSocket, NothingHandled, TypeOK
    <3> QED
      BY <2>1, <3>1, StopKeeps
  <2>3. CASE HandleLogonMessage
    <3>1. Handled("A") /\ status' = "Authed" /\ writing' \in BOOLEAN
      BY <1>0, <2>3 DEF HandleLogonMessage, TypeOK
    <3> QED
      BY <2>1, <3>1, AcceptKeeps
  <2>4. CASE HandleNewOrderSingleMessage
    <3>1. Handled("D") /\ writing' \in BOOLEAN /\ status' = status
      BY <1>0, <2>4 DEF HandleNewOrderSingleMessage, TypeOK
    <3>2. status = "Authed"
      BY <3>1 DEF Handled, Handlers
    <3> QED
      BY <2>1, <3>1, <3>2, AcceptKeeps
  <2> QED
    BY <1>3, <2>2, <2>3, <2>4 DEF ReadHandler
<1>4. CASE ReadError
  <2>1. /\ reading' = "no" /\ closed' \in BOOLEAN /\ writing' \in BOOLEAN
        /\ UNCHANGED <<sent, stream, buffer, got, status, accepted, swallowed>>
    BY <1>0, <1>4 DEF ReadError, CloseSocket, NothingHandled, TypeOK
  <2> QED
    BY <2>1, StopKeeps
<1>5. CASE WriteHandler
  <2>1. /\ reading' = reading /\ closed' \in BOOLEAN /\ writing' \in BOOLEAN
        /\ UNCHANGED <<sent, stream, buffer, got, status, accepted, swallowed>>
    BY <1>0, <1>5 DEF WriteHandler, TypeOK
  <2> QED
    BY <2>1, StopKeeps
<1>6. CASE UNCHANGED vars
  <2>1. /\ reading' = reading /\ closed' \in BOOLEAN /\ writing' \in BOOLEAN
        /\ UNCHANGED <<sent, stream, buffer, got, status, accepted, swallowed>>
    BY <1>0, <1>6 DEF vars, TypeOK
  <2> QED
    BY <2>1, StopKeeps
<1> QED
  BY <1>1, <1>2, <1>3, <1>4, <1>5, <1>6 DEF Next

\* The variables of a session keep their types; in particular the handlers are
\* given rows of cells the client sent, never one that reaches past the buffer.
THEOREM TypeCorrect == Spec => []TypeOK
<1>1. AuthInv => TypeOK
  BY DEF AuthInv
<1> QED
  BY AuthInit, AuthStep, <1>1, PTL DEF Spec

\* However the stream is cut into reads, a session is authenticated only by the
\* complete first message of its client, which is a Logon.
THEOREM AuthedCorrect == Spec => []AuthedByFirstMessage
<1>1. AuthInv => AuthedByFirstMessage
  BY DEF AuthInv
<1> QED
  BY AuthInit, AuthStep, <1>1, PTL DEF Spec

\* A read that brings a header has one handler given the message it begins
\* with, and no handler was given a cell of that message before; what shorter
\* reads repeat is left out.
THEOREM OnceCorrect == Spec => []AcceptedOnce
<1>1. AuthInv => AcceptedOnce
  BY DEF AuthInv
<1> QED
  BY AuthInit, AuthStep, <1>1, PTL DEF Spec

\* A message that no handler was given came behind another in a read, or was
\* cut inside its header.
THEOREM LossCorrect == Spec => []LossOnlyCut
<1>1. AuthInv => LossOnlyCut
  BY DEF AuthInv
<1> QED
  BY AuthInit, AuthStep, <1>1, PTL DEF Spec

-----------------------------------------------------------------------------
(* AuthSession implements Session.                                         *)

\* The ways in which ReadHandler ends: a read is armed only if the session is
\* open, which a failed write may have changed before the handler ran.
LEMMA HandlerEnds ==
    ASSUME ReadHandler
    PROVE  /\ reading = "handling"
           /\ \/ closed' = TRUE /\ reading' = "no"
              \/ closed' = closed /\ reading' = "no"
              \/ closed' = closed /\ ~closed /\ reading' = "armed"
<1>1. reading = "handling"
  BY DEF ReadHandler
<1>2. CASE ReadUnsupported \/ ReadUnknown \/ ReadWrongStatus \/ ReadFailed
  BY <1>1, <1>2 DEF ReadUnsupported, ReadUnknown, ReadWrongStatus, ReadFailed, CloseSocket
<1>3. CASE HandleLogonMessage \/ HandleNewOrderSingleMessage
  BY <1>1, <1>3 DEF HandleLogonMessage, HandleNewOrderSingleMessage, Handled, AsyncRead
<1> QED
  BY <1>2, <1>3 DEF ReadHandler

\* Every step of the session is a step of Session, or a stutter.
LEMMA SessionStep == [Next]_vars => [Abstract!Next]_(Abstract!vars)
<1> SUFFICES ASSUME [Next]_vars
             PROVE  [Abstract!Next]_(Abstract!vars)
  OBVIOUS
<1>1. CASE UNCHANGED <<closed, reading>>
  BY <1>1 DEF Abstract!vars
<1>2. CASE \E n \in 1 .. BufferCells : ReadHandlerInternal(n)
  BY <1>2 DEF ReadHandlerInternal, Abstract!Next, Abstract!ReadCompletes
<1>3. CASE ReadHandler
  <2>1. /\ reading = "handling"
        /\ \/ closed' = TRUE /\ reading' = "no"
           \/ closed' = closed /\ reading' = "no"
           \/ closed' = closed /\ ~closed /\ reading' = "armed"
    BY <1>3, HandlerEnds
  <2>2. CASE closed' = TRUE /\ reading' = "no"
    BY <2>1, <2>2 DEF Abstract!Next, Abstract!ReadHandler
  <2>3. CASE closed' = closed /\ reading' = "no"
    BY <2>1, <2>3 DEF Abstract!Next, Abstract!ReadHandler
  <2>4. CASE closed' = closed /\ ~closed /\ reading' = "armed"
    BY <2>1, <2>4 DEF Abstract!Next, Abstract!ReadHandler
  <2> QED
    BY <2>1, <2>2, <2>3, <2>4
<1>4. CASE ReadError
  BY <1>4 DEF ReadError, CloseSocket, Abstract!Next, Abstract!ReadCompletes
<1>5. CASE WriteHandler
  <2>1. /\ reading # "handling" /\ reading' = reading
        /\ closed' = closed \/ closed' = TRUE
    BY <1>5 DEF WriteHandler
  <2>2. CASE closed' = closed
    BY <1>1, <2>1, <2>2
  <2>3. CASE closed' = TRUE /\ closed
    BY <2>1, <2>3 DEF Abstract!vars
  <2>4. CASE closed' = TRUE /\ ~closed
    BY <2>1, <2>4 DEF Abstract!Next, Abstract!Close
  <2> QED
    BY <2>1, <2>2, <2>3, <2>4
<1>6. CASE \E kind \in Kinds : ClientSends(kind)
  BY <1>1, <1>6 DEF ClientSends
<1>7. CASE UNCHANGED vars
  BY <1>1, <1>7 DEF vars
<1> QED
  BY <1>2, <1>3, <1>4, <1>5, <1>6, <1>7 DEF Next

\* An AuthSession, with all it makes of the bytes it reads and of a write that
\* fails, is a Session: what NetworkThread rests on.
THEOREM SessionCorrect == Spec => ImplementsSession
<1>1. Init => Abstract!Init
  BY DEF Init, Abstract!Init
<1> QED
  BY <1>1, SessionStep, PTL DEF Spec, ImplementsSession, Abstract!Spec
=============================================================================
