----------------------------- MODULE Common_proofs -----------------------------
(***************************************************************************)
(* Proofs about the queues of common/Threading as MCQueues puts them       *)
(* together, for any number of threads, items and operations, and about    *)
(* the crash report of common/Debugging (CrashReport and SymbolDump), for  *)
(* any number of threads, any types and symbols the debug information may  *)
(* hold, and any limits.                                                   *)
(***************************************************************************)
EXTENDS CrashReport, MCQueues, FiniteSetTheorems, SequenceTheorems, TLAPS

-----------------------------------------------------------------------------
(* The locked queue.  Its variables are v1: queue, v2: canceled,           *)
(* v3: locked, v4: consumer, v5: peeked, v6: deferred, v7: added, v8: done *)

Ascending(s) == \A i, j \in 1 .. Len(s) : i < j => s[i] < s[j]

\* What waits to be readded was added before everything in the queue, each of
\* the two is in the order of the adds, and nothing in them is newer than the
\* last add.
LockedOrder ==
    /\ v1 \in Seq(Nat) /\ v6 \in Seq(Nat) /\ v7 \in Nat
    /\ Ascending(v1) /\ Ascending(v6)
    /\ \A i \in 1 .. Len(v6), j \in 1 .. Len(v1) : v6[i] < v1[j]
    /\ \A i \in 1 .. Len(v1) : v1[i] <= v7
    /\ \A i \in 1 .. Len(v6) : v6[i] <= v7

LockedInv == LockedOrder /\ Locked!FrontStable

LEMMA AppendFacts ==
    ASSUME NEW S, NEW s \in Seq(S), NEW e \in S
    PROVE  /\ Append(s, e) \in Seq(S) /\ Len(Append(s, e)) = Len(s) + 1
           /\ \A i \in 1 .. Len(s) : Append(s, e)[i] = s[i]
           /\ Append(s, e)[Len(s) + 1] = e
           /\ Append(s, e) # <<>>
           /\ s # <<>> => Head(Append(s, e)) = Head(s)
<1>1. /\ Append(s, e) \in Seq(S) /\ Len(Append(s, e)) = Len(s) + 1
      /\ \A i \in 1 .. Len(s) : Append(s, e)[i] = s[i]
      /\ Append(s, e)[Len(s) + 1] = e
  OBVIOUS
<1>2. Append(s, e) # <<>> /\ Head(Append(s, e)) = Append(s, e)[1]
  BY <1>1
<1>3. s # <<>> => 1 \in 1 .. Len(s) /\ Head(s) = s[1]
  OBVIOUS
<1> QED
  BY <1>1, <1>2, <1>3

LEMMA TailFacts ==
    ASSUME NEW S, NEW s \in Seq(S), s # <<>>
    PROVE  /\ Tail(s) \in Seq(S) /\ Len(s) \in Nat \ {0} /\ Len(Tail(s)) = Len(s) - 1
           /\ \A i \in 1 .. Len(s) - 1 : Tail(s)[i] = s[i + 1]
           /\ Head(s) \in S /\ Head(s) = s[1]
OBVIOUS

LEMMA ConcatFacts ==
    ASSUME NEW S, NEW s \in Seq(S), NEW t \in Seq(S)
    PROVE  /\ s \o t \in Seq(S) /\ Len(s \o t) = Len(s) + Len(t)
           /\ \A i \in 1 .. Len(s) : (s \o t)[i] = s[i]
           /\ \A i \in Len(s) + 1 .. Len(s) + Len(t) : (s \o t)[i] = t[i - Len(s)]
OBVIOUS

LEMMA ConcatAscending ==
    ASSUME NEW s \in Seq(Nat), NEW t \in Seq(Nat), Ascending(s), Ascending(t),
           \A i \in 1 .. Len(s), j \in 1 .. Len(t) : s[i] < t[j]
    PROVE  Ascending(s \o t)
<1>1. PICK w : w = s \o t
  OBVIOUS
<1>2. /\ Len(w) = Len(s) + Len(t) /\ Len(s) \in Nat /\ Len(t) \in Nat
      /\ \A i \in 1 .. Len(s) : w[i] = s[i]
      /\ \A i \in Len(s) + 1 .. Len(s) + Len(t) : w[i] = t[i - Len(s)]
  BY <1>1, ConcatFacts
<1>3. ASSUME NEW i \in 1 .. Len(w), NEW j \in 1 .. Len(w), i < j
      PROVE  w[i] < w[j]
  <2>1. CASE j <= Len(s)
    BY <1>2, <1>3, <2>1 DEF Ascending
  <2>2. CASE i <= Len(s) /\ j > Len(s)
    <3>1. w[i] = s[i] /\ i \in 1 .. Len(s)
      BY <1>2, <1>3, <2>2
    <3>2. w[j] = t[j - Len(s)] /\ j - Len(s) \in 1 .. Len(t)
      BY <1>2, <1>3, <2>2
    <3> QED
      BY <3>1, <3>2
  <2>3. CASE i > Len(s)
    <3>1. /\ w[i] = t[i - Len(s)] /\ w[j] = t[j - Len(s)] /\ i - Len(s) < j - Len(s)
          /\ i - Len(s) \in 1 .. Len(t) /\ j - Len(s) \in 1 .. Len(t)
      BY <1>2, <1>3, <2>3
    <3> QED
      BY <3>1 DEF Ascending
  <2> QED
    BY <1>2, <1>3, <2>1, <2>2, <2>3
<1> QED
  BY <1>1, <1>3 DEF Ascending

LEMMA LockedInit == Locked!Init => LockedInv
BY DEF Locked!Init, LockedInv, LockedOrder, Locked!FrontStable, Ascending

LEMMA LockedNext ==
    ASSUME LockedInv, Locked!Next
    PROVE  LockedInv'
<1>1. /\ v1 \in Seq(Nat) /\ v6 \in Seq(Nat) /\ v7 \in Nat
      /\ Len(v1) \in Nat /\ Len(v6) \in Nat
      /\ Locked!FrontStable
      /\ LockedOrder
  BY DEF LockedInv, LockedOrder
\* Every item keeps its place among the waiting ones, or leaves from the front
\* of the queue.
<1>2. CASE Locked!add
  <2>1. v1' = Append(v1, v7 + 1) /\ v7' = v7 + 1 /\ UNCHANGED <<v4, v5, v6>>
    BY <1>2 DEF Locked!add, Locked!Pushed
  <2>2. /\ Append(v1, v7 + 1) \in Seq(Nat) /\ Len(Append(v1, v7 + 1)) = Len(v1) + 1
        /\ \A i \in 1 .. Len(v1) : Append(v1, v7 + 1)[i] = v1[i]
        /\ Append(v1, v7 + 1)[Len(v1) + 1] = v7 + 1
        /\ Append(v1, v7 + 1) # <<>>
        /\ v1 # <<>> => Head(Append(v1, v7 + 1)) = Head(v1)
    BY <1>1, AppendFacts, SMTT(60)
  <2>3. Locked!FrontStable'
    BY <1>1, <2>1, <2>2 DEF Locked!FrontStable
  <2>4. LockedOrder'
    <3>1. PICK q : q = Append(v1, v7 + 1)
      OBVIOUS
    <3>2. /\ q \in Seq(Nat) /\ Len(q) = Len(v1) + 1 /\ q[Len(v1) + 1] = v7 + 1
          /\ \A i \in 1 .. Len(v1) : q[i] = v1[i]
      BY <2>2, <3>1
    <3>3. v1' = q
      BY <2>1, <3>1
    <3>a. /\ \A i \in 1 .. Len(v1) : v1[i] \in Nat /\ v1[i] <= v7
          /\ \A i \in 1 .. Len(v6) : v6[i] \in Nat /\ v6[i] <= v7
      BY <1>1 DEF LockedOrder
    <3>b. \A i \in 1 .. Len(q) : i \in 1 .. Len(v1) \/ i = Len(v1) + 1
      BY <1>1, <3>2
    <3>4. \A i \in 1 .. Len(q) : q[i] <= v7 + 1 /\ \A j \in 1 .. Len(v6) : v6[j] < q[i]
      <4> TAKE i \in 1 .. Len(q)
      <4>1. CASE i \in 1 .. Len(v1)
        <5>1. q[i] = v1[i] /\ v1[i] \in Nat /\ v1[i] <= v7
          BY <3>a, <3>2, <4>1
        <5>2. q[i] <= v7 + 1
          BY <1>1, <5>1
        <5>3. \A j \in 1 .. Len(v6) : v6[j] < v1[i]
          BY <1>1, <4>1 DEF LockedOrder
        <5> QED
          BY <5>1, <5>2, <5>3
      <4>2. CASE i = Len(v1) + 1
        BY <1>1, <3>a, <3>2, <4>2
      <4> QED
        BY <3>b, <4>1, <4>2
    <3>5. \A i, j \in 1 .. Len(q) : i < j => q[i] < q[j]
      <4> TAKE i, j \in 1 .. Len(q)
      <4> HAVE i < j
      <4>1. i \in 1 .. Len(v1) /\ q[i] = v1[i]
        BY <1>1, <3>2, SMTT(60)
      <4>2. CASE j \in 1 .. Len(v1)
        BY <1>1, <3>2, <4>1, <4>2 DEF LockedOrder, Ascending
      <4>3. CASE j = Len(v1) + 1
        BY <1>1, <3>a, <3>2, <4>1, <4>3
      <4> QED
        BY <3>b, <4>2, <4>3
    <3>6. \A i \in 1 .. Len(v6) : v6[i] <= v7 + 1
      BY <1>1, <3>a
    <3> QED
      BY <1>1, <2>1, <3>2, <3>3, <3>4, <3>5, <3>6, SMTT(60) DEF LockedOrder, Ascending
  <2> QED
    BY <2>3, <2>4 DEF LockedInv
<1>3. ASSUME v1 # <<>>, v1' = Tail(v1), UNCHANGED <<v6, v7>>
      PROVE  LockedOrder'
  <2>1. /\ Tail(v1) \in Seq(Nat) /\ Len(Tail(v1)) = Len(v1) - 1
        /\ \A i \in 1 .. Len(v1) - 1 : Tail(v1)[i] = v1[i + 1]
    BY <1>1, <1>3, TailFacts
  <2> QED
    BY <1>1, <1>3, <2>1 DEF LockedOrder, Ascending
<1>4. ASSUME v1 # <<>>, v1' = Tail(v1), v6' = Append(v6, Head(v1)), UNCHANGED v7
      PROVE  LockedOrder'
  <2>1. /\ Tail(v1) \in Seq(Nat) /\ Len(v1) \in Nat \ {0} /\ Len(Tail(v1)) = Len(v1) - 1
        /\ \A i \in 1 .. Len(v1) - 1 : Tail(v1)[i] = v1[i + 1]
        /\ Head(v1) \in Nat /\ Head(v1) = v1[1]
    BY <1>1, <1>4, TailFacts
  <2>2. /\ Append(v6, Head(v1)) \in Seq(Nat) /\ Len(Append(v6, Head(v1))) = Len(v6) + 1
        /\ \A i \in 1 .. Len(v6) : Append(v6, Head(v1))[i] = v6[i]
        /\ Append(v6, Head(v1))[Len(v6) + 1] = Head(v1)
    BY <1>1, <2>1, AppendFacts
  <2> QED
    BY <1>1, <1>4, <2>1, <2>2, SMTT(60) DEF LockedOrder, Ascending
<1>5. CASE Locked!next
  <2>1. v4 = "idle" /\ v4' = v4 /\ v1 # <<>> /\ v1' = Tail(v1) /\ UNCHANGED v7
    BY <1>5 DEF Locked!next
  <2>2. UNCHANGED v6 \/ v6' = Append(v6, Head(v1))
    BY <1>5 DEF Locked!next
  <2>3. LockedOrder'
    BY <1>3, <1>4, <2>1, <2>2
  <2>4. Locked!FrontStable'
    BY <2>1 DEF Locked!FrontStable
  <2> QED
    BY <2>3, <2>4 DEF LockedInv
<1>6. CASE Locked!nextChecked
  <2>1. v4 = "idle" /\ v4' = v4 /\ v1 # <<>> /\ (v1' = Tail(v1) \/ v1' = v1) /\ UNCHANGED <<v6, v7>>
    BY <1>6 DEF Locked!nextChecked
  <2>2. LockedOrder'
    <3>1. CASE v1' = Tail(v1)
      BY <1>3, <2>1, <3>1
    <3>2. CASE v1' = v1
      BY <1>1, <2>1, <3>2 DEF LockedOrder, Ascending
    <3> QED
      BY <2>1, <3>1, <3>2
  <2>3. Locked!FrontStable'
    BY <2>1 DEF Locked!FrontStable
  <2> QED
    BY <2>2, <2>3 DEF LockedInv
<1>7. CASE Locked!readd
  <2>1. v4 = "idle" /\ v4' = v4 /\ v1' = v6 \o v1 /\ v6' = <<>> /\ UNCHANGED v7
    BY <1>7 DEF Locked!readd, Locked!Readded
  <2>2. /\ v6 \o v1 \in Seq(Nat) /\ Len(v6 \o v1) = Len(v6) + Len(v1)
        /\ \A i \in 1 .. Len(v6) : (v6 \o v1)[i] = v6[i]
        /\ \A i \in Len(v6) + 1 .. Len(v6) + Len(v1) : (v6 \o v1)[i] = v1[i - Len(v6)]
    BY <1>1, ConcatFacts
  <2>3. <<>> \in Seq(Nat) /\ Len(<<>>) = 0
    OBVIOUS
  <2>4. Ascending(v6 \o v1)
    BY <1>1, ConcatAscending DEF LockedOrder
  <2>5. \A i \in 1 .. Len(v6 \o v1) : (v6 \o v1)[i] <= v7
    <3> TAKE i \in 1 .. Len(v6 \o v1)
    <3>1. CASE i <= Len(v6)
      BY <1>1, <2>2, <3>1 DEF LockedOrder
    <3>2. CASE i > Len(v6)
      <4>1. (v6 \o v1)[i] = v1[i - Len(v6)] /\ i - Len(v6) \in 1 .. Len(v1)
        BY <1>1, <2>2, <3>2
      <4> QED
        BY <1>1, <4>1 DEF LockedOrder
    <3> QED
      BY <1>1, <3>1, <3>2
  <2>6. LockedOrder'
    BY <1>1, <2>1, <2>2, <2>3, <2>4, <2>5 DEF LockedOrder, Ascending
  <2>7. Locked!FrontStable'
    BY <2>1 DEF Locked!FrontStable
  <2> QED
    BY <2>6, <2>7 DEF LockedInv
<1>8. CASE Locked!empty
  <2>1. v1 # <<>> /\ v4' = "checked" /\ UNCHANGED <<v1, v6, v7>>
    BY <1>8 DEF Locked!empty
  <2> QED
    BY <1>1, <2>1 DEF LockedInv, LockedOrder, Ascending, Locked!FrontStable
<1>9. CASE \E autoUnlock \in BOOLEAN : Locked!peek(autoUnlock)
  <2>1. v4 = "checked" /\ v4' = "peeked" /\ v5' = Head(v1) /\ UNCHANGED <<v1, v6, v7>>
    BY <1>9 DEF Locked!peek
  <2> QED
    BY <1>1, <2>1 DEF LockedInv, LockedOrder, Ascending, Locked!FrontStable
<1>10. CASE Locked!pop_front
  <2>1. v4 = "peeked" /\ v4' = "idle" /\ v1' = Tail(v1) /\ UNCHANGED <<v6, v7>>
    BY <1>10 DEF Locked!pop_front
  <2>2. v1 # <<>>
    BY <1>1, <2>1 DEF Locked!FrontStable
  <2>3. LockedOrder'
    BY <1>3, <2>1, <2>2
  <2>4. Locked!FrontStable'
    BY <2>1 DEF Locked!FrontStable
  <2> QED
    BY <2>3, <2>4 DEF LockedInv
<1>11. CASE Locked!cancel \/ Locked!unlock
  <2>1. UNCHANGED <<v1, v4, v5, v6, v7>>
    BY <1>11 DEF Locked!cancel, Locked!unlock
  <2> QED
    BY <1>1, <2>1 DEF LockedInv, LockedOrder, Ascending, Locked!FrontStable
<1> QED
  BY <1>2, <1>5, <1>6, <1>7, <1>8, <1>9, <1>10, <1>11 DEF Locked!Next

LEMMA LockedImplies == LockedInv => Locked!FrontStable /\ Locked!OrderKept
<1> SUFFICES ASSUME LockedInv
             PROVE  Locked!FrontStable /\ Locked!OrderKept
  OBVIOUS
<1>1. v1 \in Seq(Nat) /\ v6 \in Seq(Nat) /\ Len(v1) \in Nat /\ Len(v6) \in Nat
  BY DEF LockedInv, LockedOrder
<1>2. Ascending(v6 \o v1)
  BY <1>1, ConcatAscending DEF LockedInv, LockedOrder
<1> QED
  BY <1>2 DEF LockedInv, Locked!OrderKept, Ascending

-----------------------------------------------------------------------------
(* The blocking queue.  Its variables are v1: queue, v2: shutdown,         *)
(* v3: state, v4: pushed, v5: cancelled                                    *)

BlockingType ==
    /\ v1 \in Seq(Nat)
    /\ v2 \in BOOLEAN
    /\ v3 \in [Consumers -> {"idle", "asleep", "woken"}]
    /\ v4 \in Nat /\ v5 \in Nat /\ v5 <= v4

\* Blocking!WakeUps, which is inductive as it is.
Woken == Blocking!Asleep # {} => Len(v1) <= Cardinality(Blocking!Awake) /\ ~v2

BlockingInv == BlockingType /\ Woken /\ Blocking!StrandedByPushOnly

\* What a change of one consumer's state does to the number of the woken ones.
LEMMA AwakeFacts ==
    ASSUME BlockingType, NEW c \in Consumers, NEW s \in {"idle", "asleep", "woken"},
           v3' = [v3 EXCEPT ![c] = s]
    PROVE  /\ Cardinality(Blocking!Awake) \in Nat
           /\ v3[c] # "woken" /\ s = "woken"
              => Cardinality(Blocking!Awake') = Cardinality(Blocking!Awake) + 1
           /\ v3[c] # "woken" /\ s # "woken"
              => Cardinality(Blocking!Awake') = Cardinality(Blocking!Awake)
           /\ v3[c] = "woken" /\ s # "woken"
              => Cardinality(Blocking!Awake') = Cardinality(Blocking!Awake) - 1
<1> DEFINE A == {d \in Consumers : v3[d] = "woken"}
           B == {d \in Consumers : v3'[d] = "woken"}
<1>1. Blocking!Awake = A /\ Blocking!Awake' = B
  BY DEF Blocking!Awake
<1>2. IsFiniteSet(A)
  BY FS_Subset, QueuesAssumption
<1>3. Cardinality(A) \in Nat
  BY <1>2, FS_CardinalityType
<1>4. ASSUME v3[c] # "woken", s = "woken"
      PROVE  Cardinality(B) = Cardinality(A) + 1
  <2>1. B = A \cup {c} /\ c \notin A
    BY <1>4 DEF BlockingType
  <2> QED
    BY <1>2, <2>1, FS_AddElement
<1>5. ASSUME v3[c] # "woken", s # "woken"
      PROVE  Cardinality(B) = Cardinality(A)
  <2>1. B = A
    BY <1>5 DEF BlockingType
  <2> QED
    BY <2>1
<1>6. ASSUME v3[c] = "woken", s # "woken"
      PROVE  Cardinality(B) = Cardinality(A) - 1
  <2>1. B = A \ {c} /\ c \in A
    BY <1>6 DEF BlockingType
  <2> QED
    BY <1>2, <2>1, FS_RemoveElement
<1> QED
  BY <1>1, <1>3, <1>4, <1>5, <1>6

LEMMA BlockingInit == Blocking!Init => BlockingInv
<1> SUFFICES ASSUME Blocking!Init PROVE BlockingInv
  OBVIOUS
<1>1. BlockingType
  <2>1. v1 = <<>> /\ v2 = FALSE /\ v3 = [c \in Consumers |-> "idle"] /\ v4 = 0 /\ v5 = 0
    BY DEF Blocking!Init
  <2>2. v3 \in [Consumers -> {"idle", "asleep", "woken"}]
    BY <2>1
  <2>3. v1 \in Seq(Nat) /\ v4 \in Nat /\ v5 \in Nat /\ v5 <= v4
    BY <2>1
  <2> QED
    BY <2>1, <2>2, <2>3 DEF BlockingType
<1>2. Blocking!Asleep = {} /\ v2 = FALSE
  BY DEF Blocking!Init, Blocking!Asleep
<1> QED
  BY <1>1, <1>2 DEF BlockingInv, Woken, Blocking!StrandedByPushOnly

LEMMA BlockingNext ==
    ASSUME BlockingInv, Blocking!Next
    PROVE  BlockingInv'
<1>1. /\ BlockingType /\ Woken /\ Blocking!StrandedByPushOnly
      /\ Len(v1) \in Nat
  BY DEF BlockingInv, BlockingType
\* Each item that is pushed wakes somebody if anybody sleeps.
<1>2. CASE Blocking!Push
  <2>1. v1' = Append(v1, v4 + 1) /\ v4' = v4 + 1 /\ UNCHANGED <<v2, v5>> /\ Blocking!NotifyOne
    BY <1>2 DEF Blocking!Push
  <2>2. /\ Append(v1, v4 + 1) \in Seq(Nat) /\ Len(Append(v1, v4 + 1)) = Len(v1) + 1
        /\ \A i \in 1 .. Len(v1) : Append(v1, v4 + 1)[i] = v1[i]
        /\ Append(v1, v4 + 1)[Len(v1) + 1] = v4 + 1
    BY <1>1, AppendFacts DEF BlockingType
  <2>3. Blocking!StrandedByPushOnly'
    <3>1. CASE v2
      <4>1. v1 = [i \in 1 .. v4 - v5 |-> v5 + i]
        BY <1>1, <3>1 DEF Blocking!StrandedByPushOnly
      <4>2. PICK q \in Seq(Nat) : q = Append(v1, v4 + 1)
        BY <2>2
      <4>3. Len(v1) = v4 - v5 /\ v4 - v5 \in Nat
        BY <1>1, <4>1 DEF BlockingType
      <4>4. /\ Len(q) = v4 + 1 - v5
            /\ \A i \in 1 .. v4 - v5 : q[i] = v1[i]
            /\ q[v4 - v5 + 1] = v4 + 1
        BY <1>1, <2>2, <4>2, <4>3 DEF BlockingType
      <4>5. PICK n, m : n = v4' /\ m = v5'
        OBVIOUS
      <4>6. n = v4 + 1 /\ m = v5 /\ v1' = q /\ n \in Nat /\ m \in Nat
        BY <1>1, <2>1, <4>2, <4>5 DEF BlockingType
      <4>7. q = [i \in 1 .. n - m |-> m + i]
        <5>1. DOMAIN q = 1 .. n - m /\ q = [i \in DOMAIN q |-> q[i]]
          <6>1. DOMAIN q = 1 .. Len(q) /\ q = [i \in DOMAIN q |-> q[i]]
            BY <4>2
          <6>2. Len(q) = n - m
            BY <1>1, <4>4, <4>6 DEF BlockingType
          <6> QED
            BY <6>1, <6>2
        <5>2. ASSUME NEW i \in 1 .. n - m
              PROVE  q[i] = m + i
          <6>1. CASE i \in 1 .. v4 - v5
            BY <4>1, <4>4, <4>6, <6>1
          <6>2. CASE i = v4 - v5 + 1
            BY <1>1, <4>4, <4>6, <6>2 DEF BlockingType
          <6> QED
            BY <1>1, <4>3, <4>6, <6>1, <6>2 DEF BlockingType
        <5> QED
          BY <5>1, <5>2
      <4> QED
        BY <4>5, <4>6, <4>7 DEF Blocking!StrandedByPushOnly
    <3>2. CASE ~v2
      BY <2>1, <3>2 DEF Blocking!StrandedByPushOnly
    <3> QED
      BY <3>1, <3>2
  <2>4. CASE Blocking!Asleep = {}
    <3>1. v3' = v3
      BY <2>1, <2>4 DEF Blocking!NotifyOne
    <3>2. Blocking!Asleep' = {}
      BY <2>4, <3>1 DEF Blocking!Asleep
    <3> QED
      BY <1>1, <2>1, <2>2, <2>3, <3>1, <3>2 DEF BlockingInv, BlockingType, Woken
  <2>5. CASE Blocking!Asleep # {}
    <3>1. PICK c \in Blocking!Asleep : v3' = [v3 EXCEPT ![c] = "woken"]
      BY <2>1, <2>5 DEF Blocking!NotifyOne
    <3>2. c \in Consumers /\ v3[c] = "asleep"
      BY <3>1 DEF Blocking!Asleep
    <3>3. /\ Cardinality(Blocking!Awake) \in Nat
          /\ Cardinality(Blocking!Awake') = Cardinality(Blocking!Awake) + 1
      BY <1>1, <3>1, <3>2, AwakeFacts
    <3>4. Len(v1) <= Cardinality(Blocking!Awake) /\ ~v2
      BY <1>1, <2>5 DEF Woken
    <3>5. Len(v1') <= Cardinality(Blocking!Awake') /\ ~v2'
      BY <1>1, <2>1, <2>2, <3>3, <3>4
    <3> QED
      BY <1>1, <2>1, <2>2, <2>3, <3>1, <3>2, <3>5 DEF BlockingInv, BlockingType, Woken
  <2> QED
    BY <2>4, <2>5
<1>3. ASSUME v1 # <<>>
      PROVE  Tail(v1) \in Seq(Nat) /\ Len(v1) \in Nat \ {0} /\ Len(Tail(v1)) = Len(v1) - 1
  BY <1>1, <1>3, TailFacts DEF BlockingType
<1>4. ASSUME NEW c \in Consumers, Blocking!Pop(c)
      PROVE  BlockingInv'
  <2>1. v1 # <<>> /\ ~v2 /\ v1' = Tail(v1) /\ UNCHANGED <<v2, v3, v4, v5>>
    BY <1>4 DEF Blocking!Pop, Blocking!TakeFront
  <2>2. Blocking!Asleep' = Blocking!Asleep /\ Blocking!Awake' = Blocking!Awake
    BY <2>1 DEF Blocking!Asleep, Blocking!Awake
  <2>3. Woken'
    <3>1. Cardinality(Blocking!Awake) \in Nat
      BY FS_Subset, FS_CardinalityType, QueuesAssumption DEF Blocking!Awake
    <3> QED
      BY <1>1, <1>3, <2>1, <2>2, <3>1 DEF Woken
  <2> QED
    BY <1>1, <1>3, <2>1, <2>3 DEF BlockingInv, BlockingType, Blocking!StrandedByPushOnly
\* Whoever goes to sleep has seen an empty queue that is not cancelled.
<1>5. ASSUME NEW c \in Consumers, Blocking!Wait(c)
      PROVE  BlockingInv'
  <2>1. v1 = <<>> /\ ~v2 /\ v3' = [v3 EXCEPT ![c] = "asleep"] /\ UNCHANGED <<v1, v2, v4, v5>>
    BY <1>5 DEF Blocking!Wait
  <2>2. BlockingType'
    BY <1>1, <2>1 DEF BlockingType
  <2>3. Cardinality(Blocking!Awake') \in Nat
    BY FS_Subset, FS_CardinalityType, QueuesAssumption DEF Blocking!Awake
  <2>4. Len(v1') = 0
    BY <2>1
  <2>5. Woken'
    BY <2>1, <2>3, <2>4 DEF Woken
  <2> QED
    BY <1>1, <2>1, <2>2, <2>5 DEF BlockingInv, Blocking!StrandedByPushOnly
\* Whoever takes an item has been woken for one, or was not waiting.
<1>6. ASSUME NEW c \in Consumers, Blocking!Return(c)
      PROVE  BlockingInv'
  <2>1. /\ v3[c] \in {"idle", "woken"} /\ v3' = [v3 EXCEPT ![c] = "idle"] /\ UNCHANGED <<v2, v4, v5>>
        /\ IF v2 THEN v1' = v1 ELSE v1 # <<>> /\ v1' = Tail(v1)
    BY <1>6 DEF Blocking!Return, Blocking!TakeFront
  <2>2. Blocking!Asleep' = Blocking!Asleep
    BY <1>1, <2>1 DEF Blocking!Asleep, BlockingType
  <2>3. BlockingType' /\ Blocking!StrandedByPushOnly'
    <3>1. CASE v2
      BY <1>1, <2>1, <3>1 DEF BlockingType, Blocking!StrandedByPushOnly
    <3>2. CASE ~v2
      BY <1>1, <1>3, <2>1, <3>2 DEF BlockingType, Blocking!StrandedByPushOnly
    <3> QED
      BY <3>1, <3>2
  <2>4. Woken'
    <3>1. CASE Blocking!Asleep = {}
      BY <2>2, <3>1 DEF Woken
    <3>2. CASE Blocking!Asleep # {}
      <4>1. Len(v1) <= Cardinality(Blocking!Awake) /\ ~v2
        BY <1>1, <3>2 DEF Woken
      <4>2. /\ Cardinality(Blocking!Awake) \in Nat
            /\ \/ Cardinality(Blocking!Awake') = Cardinality(Blocking!Awake)
               \/ Cardinality(Blocking!Awake') = Cardinality(Blocking!Awake) - 1
        BY <1>1, <2>1, AwakeFacts
      <4>3. Len(v1') = Len(v1) - 1
        BY <1>3, <2>1, <4>1
      <4>4. Len(v1') <= Cardinality(Blocking!Awake')
        BY <1>1, <4>1, <4>2, <4>3
      <4> QED
        BY <2>1, <4>1, <4>4 DEF Woken
    <3> QED
      BY <3>1, <3>2
  <2> QED
    BY <2>3, <2>4 DEF BlockingInv
<1>7. ASSUME NEW c \in Consumers, Blocking!SpuriousWakeUp(c)
      PROVE  BlockingInv'
  <2>1. v3[c] = "asleep" /\ v3' = [v3 EXCEPT ![c] = "woken"] /\ UNCHANGED <<v1, v2, v4, v5>>
    BY <1>7 DEF Blocking!SpuriousWakeUp
  <2>2. c \in Blocking!Asleep
    BY <2>1 DEF Blocking!Asleep
  <2>3. Len(v1) <= Cardinality(Blocking!Awake) /\ ~v2
    BY <1>1, <2>2 DEF Woken
  <2>4. /\ Cardinality(Blocking!Awake) \in Nat
        /\ Cardinality(Blocking!Awake') = Cardinality(Blocking!Awake) + 1
    BY <1>1, <2>1, AwakeFacts
  <2>5. Len(v1') <= Cardinality(Blocking!Awake') /\ ~v2'
    BY <1>1, <2>1, <2>3, <2>4
  <2> QED
    BY <1>1, <2>1, <2>5 DEF BlockingInv, BlockingType, Woken, Blocking!StrandedByPushOnly
\* Cancel leaves nobody asleep and nothing in the queue.
<1>8. CASE Blocking!Cancel
  <2>1. /\ v1' = <<>> /\ v5' = v4 /\ v2' = TRUE /\ UNCHANGED v4
        /\ v3' = [c \in Consumers |-> IF v3[c] = "asleep" THEN "woken" ELSE v3[c]]
    BY <1>8 DEF Blocking!Cancel
  <2>2. BlockingType'
    BY <1>1, <2>1 DEF BlockingType
  <2>3. Blocking!Asleep' = {}
    BY <2>1 DEF Blocking!Asleep
  <2>4. v4' - v5' = 0
    BY <1>1, <2>1 DEF BlockingType
  <2>5. [i \in 1 .. 0 |-> v5' + i] = <<>>
    OBVIOUS
  <2>6. Blocking!StrandedByPushOnly'
    BY <2>1, <2>4, <2>5 DEF Blocking!StrandedByPushOnly
  <2> QED
    BY <2>2, <2>3, <2>6 DEF BlockingInv, Woken
<1> QED
  BY <1>2, <1>4, <1>5, <1>6, <1>7, <1>8 DEF Blocking!Next, Blocking!WaitAndPop

LEMMA BlockingImplies == BlockingInv => Blocking!WakeUps /\ Blocking!StrandedByPushOnly
<1>1. Blocking!Cardinality(Blocking!Awake) = Cardinality(Blocking!Awake)
  BY DEF Blocking!Cardinality, Cardinality
<1> QED
  BY <1>1 DEF BlockingInv, Woken, Blocking!WakeUps

-----------------------------------------------------------------------------
(* The two lists: what their own proof modules show, of the same variables *)

ListOfNodes == INSTANCE MPSCQueueNonIntrusive_proofs WITH
    head <- v1, tail <- v2, next <- v3, data <- v4, allocated <- v5, at <- v6, node <- v7,
    prevHead <- v8, consumer <- v9, old <- v10, mode <- v11, order <- v12, taken <- v13

ListOfElements == INSTANCE MPSCQueueIntrusive_proofs WITH
    head <- v1, tail <- v2, link <- v3, at <- v4, input <- v5, prevHead <- v6, consumer <- v7,
    mode <- v8, order <- v12, taken <- v13

LEMMA NodesSame ==
    /\ NonIntrusive!Init => ListOfNodes!Init
    /\ NonIntrusive!Next => ListOfNodes!Next
    /\ ListOfNodes!NoUseAfterFree /\ ListOfNodes!NothingLeaked
          => NonIntrusive!NoUseAfterFree /\ NonIntrusive!NothingLeaked
    /\ NonIntrusive!Queued = ListOfNodes!Queued
<1>1. NonIntrusive!Init => ListOfNodes!Init
  BY DEF NonIntrusive!Init, ListOfNodes!Init
<1>2. NonIntrusive!Next => ListOfNodes!Next
  <2>1. NonIntrusive!Used = ListOfNodes!Used
    BY DEF NonIntrusive!Used, ListOfNodes!Used, NonIntrusive!ToSet, ListOfNodes!ToSet
  <2>2. ASSUME NEW p \in Producers, NEW x \in Items, NonIntrusive!NewNode(p, x)
        PROVE  ListOfNodes!NewNode(p, x)
    BY <2>1, <2>2 DEF NonIntrusive!NewNode, ListOfNodes!NewNode
  <2>3. ASSUME NEW p \in Producers, NonIntrusive!Enqueue(p)
        PROVE  ListOfNodes!Enqueue(p)
    BY <2>3 DEF NonIntrusive!Enqueue, ListOfNodes!Enqueue, NonIntrusive!Exchange, ListOfNodes!Exchange,
       NonIntrusive!Link, ListOfNodes!Link
  <2>4. NonIntrusive!Dequeue => ListOfNodes!Dequeue
    BY DEF NonIntrusive!Dequeue, ListOfNodes!Dequeue, NonIntrusive!FindNext, ListOfNodes!FindNext,
       NonIntrusive!MoveTail, ListOfNodes!MoveTail, NonIntrusive!DeleteTail, ListOfNodes!DeleteTail,
       NonIntrusive!producer, ListOfNodes!producer
  <2>5. /\ NonIntrusive!Destroy => ListOfNodes!Destroy
        /\ NonIntrusive!DeleteFront => ListOfNodes!DeleteFront
    BY DEF NonIntrusive!Destroy, ListOfNodes!Destroy, NonIntrusive!DeleteFront, ListOfNodes!DeleteFront,
       NonIntrusive!producer, ListOfNodes!producer
  <2> QED
    BY <2>2, <2>3, <2>4, <2>5 DEF NonIntrusive!Next, ListOfNodes!Next
<1>3. ListOfNodes!NoUseAfterFree /\ ListOfNodes!NothingLeaked
         => NonIntrusive!NoUseAfterFree /\ NonIntrusive!NothingLeaked
  BY DEF NonIntrusive!NoUseAfterFree, NonIntrusive!NothingLeaked,
         ListOfNodes!NoUseAfterFree, ListOfNodes!NothingLeaked
<1>4. NonIntrusive!Queued = ListOfNodes!Queued
  BY DEF NonIntrusive!Queued, ListOfNodes!Queued
<1> QED
  BY <1>1, <1>2, <1>3, <1>4

LEMMA ElementsSame ==
    /\ Intrusive!Init => ListOfElements!Init
    /\ Intrusive!Next => ListOfElements!Next
    /\ ListOfElements!HandedOver /\ ListOfElements!NothingLeft
          => Intrusive!HandedOver /\ Intrusive!NothingLeft
    /\ Intrusive!Queued = ListOfElements!Queued
<1>1. /\ Intrusive!Threads = ListOfElements!Threads /\ Intrusive!Elements = ListOfElements!Elements
      /\ Intrusive!Busy = ListOfElements!Busy
      /\ Intrusive!ToSet(Intrusive!Queued) = ListOfElements!ToSet(ListOfElements!Queued)
      /\ Intrusive!Free = ListOfElements!Free
  <2>1. /\ Intrusive!Threads = ListOfElements!Threads /\ Intrusive!Elements = ListOfElements!Elements
        /\ Intrusive!Busy = ListOfElements!Busy /\ Intrusive!Queued = ListOfElements!Queued
    BY DEF Intrusive!Threads, ListOfElements!Threads, Intrusive!Elements, ListOfElements!Elements,
       Intrusive!Busy, ListOfElements!Busy, Intrusive!Queued, ListOfElements!Queued
  <2>2. Intrusive!ToSet(Intrusive!Queued) = ListOfElements!ToSet(ListOfElements!Queued)
    BY <2>1 DEF Intrusive!ToSet, ListOfElements!ToSet
  <2> QED
    BY <2>1, <2>2 DEF Intrusive!Free, ListOfElements!Free
<1>2. Intrusive!Init => ListOfElements!Init
  BY DEF Intrusive!Init, ListOfElements!Init, Intrusive!Threads, ListOfElements!Threads,
     Intrusive!Elements, ListOfElements!Elements
<1>3. Intrusive!Next => ListOfElements!Next
  <2>1. ASSUME NEW t \in Producers, NEW x \in Items, Intrusive!Enqueue(t, x)
        PROVE  ListOfElements!Enqueue(t, x)
    BY <1>1, <2>1 DEF Intrusive!Enqueue, ListOfElements!Enqueue, Intrusive!Call, ListOfElements!Call,
       Intrusive!Cardinality, ListOfElements!Cardinality
  <2>2. ASSUME NEW t \in Intrusive!Threads, Intrusive!EnqueueStep(t)
        PROVE  ListOfElements!EnqueueStep(t)
    BY <2>2 DEF Intrusive!EnqueueStep, ListOfElements!EnqueueStep, Intrusive!ClearLink,
       ListOfElements!ClearLink, Intrusive!Exchange, ListOfElements!Exchange, Intrusive!Link,
       ListOfElements!Link
  <2>3. Intrusive!Dequeue => ListOfElements!Dequeue
    BY DEF Intrusive!Dequeue, ListOfElements!Dequeue, Intrusive!DequeueEmpty, ListOfElements!DequeueEmpty,
       Intrusive!SkipDummy, ListOfElements!SkipDummy, Intrusive!TakeTail, ListOfElements!TakeTail,
       Intrusive!SeeNoNext, ListOfElements!SeeNoNext, Intrusive!LoadHeadOther,
       ListOfElements!LoadHeadOther, Intrusive!EnqueueDummy, ListOfElements!EnqueueDummy,
       Intrusive!TakeLast, ListOfElements!TakeLast, Intrusive!TakeLastFails, ListOfElements!TakeLastFails,
       Intrusive!ReturnFalse, ListOfElements!ReturnFalse, Intrusive!ReturnTail, ListOfElements!ReturnTail,
       Intrusive!AtElement, ListOfElements!AtElement, Intrusive!Call, ListOfElements!Call,
       Intrusive!enqueue, ListOfElements!enqueue
  <2>4. Intrusive!Destroy => ListOfElements!Destroy
    BY <1>1 DEF Intrusive!Destroy, ListOfElements!Destroy, Intrusive!enqueue, ListOfElements!enqueue
  <2> QED
    BY <1>1, <2>1, <2>2, <2>3, <2>4 DEF Intrusive!Next, ListOfElements!Next
<1>5. ListOfElements!HandedOver /\ ListOfElements!NothingLeft
         => Intrusive!HandedOver /\ Intrusive!NothingLeft
  BY <1>1 DEF Intrusive!HandedOver, Intrusive!NothingLeft, ListOfElements!HandedOver,
     ListOfElements!NothingLeft
<1>4. Intrusive!Queued = ListOfElements!Queued
  BY DEF Intrusive!Queued, ListOfElements!Queued
<1> QED
  BY <1>2, <1>3, <1>4, <1>5

-----------------------------------------------------------------------------
(* The four queues together                                                *)

QueuesInv ==
    /\ kind = "non-intrusive" => ListOfNodes!Inv
    /\ kind = "intrusive" => ListOfElements!Inv
    /\ kind = "locked" => LockedInv
    /\ kind = "blocking" => BlockingInv

LEMMA Assumed == Null \notin Nodes /\ ListOfElements!Distinct
  BY QueuesAssumption DEF ListOfElements!Distinct, ListOfElements!Elements

LEMMA InitQueuesInv == QueuesInit => QueuesInv
<1>1. kind = "non-intrusive" /\ NonIntrusive!Init => ListOfNodes!Inv
  BY NodesSame, ListOfNodes!InitInv
<1>2. kind = "intrusive" /\ Intrusive!Init => ListOfElements!Inv
  BY Assumed, ElementsSame, ListOfElements!InitInv
<1> QED
  BY <1>1, <1>2, LockedInit, BlockingInit DEF QueuesInit, QueuesInv

\* A step of one queue, and of nothing else.
LEMMA NextKind ==
    ASSUME [QueuesNext]_queuesVars
    PROVE  /\ kind' = kind
           /\ kind = "non-intrusive" => [ListOfNodes!Next]_ListOfNodes!vars
           /\ kind = "intrusive" => [ListOfElements!Next]_ListOfElements!vars
           /\ kind = "locked" => Locked!Next \/ UNCHANGED queuesVars
           /\ kind = "blocking" => Blocking!Next \/ UNCHANGED queuesVars
           /\ kind \notin {"non-intrusive", "intrusive"} => v13' = v13
<1>1. CASE QueuesNext
  BY <1>1, NodesSame, ElementsSame DEF QueuesNext
<1>2. CASE UNCHANGED queuesVars
  BY <1>2 DEF queuesVars, ListOfNodes!vars, ListOfNodes!producer, ListOfElements!vars, ListOfElements!enqueue
<1> QED
  BY <1>1, <1>2

LEMMA NextQueuesInv == QueuesInv /\ [QueuesNext]_queuesVars => QueuesInv'
<1> SUFFICES ASSUME QueuesInv, [QueuesNext]_queuesVars PROVE QueuesInv'
  OBVIOUS
<1>1. kind' = kind
  BY NextKind
<1>2. kind = "non-intrusive" => ListOfNodes!Inv'
  BY Assumed, NextKind, ListOfNodes!NextInv DEF QueuesInv
<1>3. kind = "intrusive" => ListOfElements!Inv'
  BY Assumed, NextKind, ListOfElements!NextInv DEF QueuesInv
<1>4. UNCHANGED queuesVars => UNCHANGED <<kind, v1, v2, v3, v4, v5, v6, v7>>
  BY DEF queuesVars
<1>5. kind = "locked" => LockedInv'
  <2>1. UNCHANGED queuesVars /\ LockedInv => LockedInv'
    BY <1>4 DEF LockedInv, LockedOrder, Ascending, Locked!FrontStable
  <2> QED
    BY <2>1, NextKind, LockedNext DEF QueuesInv
<1>6. kind = "blocking" => BlockingInv'
  <2>1. UNCHANGED queuesVars /\ BlockingInv => BlockingInv'
    BY <1>4 DEF BlockingInv, BlockingType, Woken, Blocking!Asleep, Blocking!Awake,
       Blocking!StrandedByPushOnly
  <2> QED
    BY <2>1, NextKind, BlockingNext DEF QueuesInv
<1> QED
  BY <1>1, <1>2, <1>3, <1>5, <1>6 DEF QueuesInv

\* The inductive invariants of the four queues hold in every state.
THEOREM QueuesInvariant == QueuesSpec => []QueuesInv
<1> QED
  BY InitQueuesInv, NextQueuesInv, PTL DEF QueuesSpec

\* For any number of producers that stall anywhere inside Enqueue, Dequeue and
\* the destructor of MPSCQueueNonIntrusive follow no pointer to a deleted node
\* and leak none, and Dequeue of MPSCQueueIntrusive hands an element over for
\* good: nothing in the queue leads to it when it is enqueued again or deleted.
THEOREM NothingStaleCorrect == QueuesSpec => []NothingStaleOrLeft
<1>1. QueuesInv => NothingStaleOrLeft
  <2> SUFFICES ASSUME QueuesInv PROVE NothingStaleOrLeft
    OBVIOUS
  <2>1. kind = "non-intrusive" => NonIntrusive!NoUseAfterFree /\ NonIntrusive!NothingLeaked
    BY NodesSame, ListOfNodes!InvSafe DEF QueuesInv
  <2>2. kind = "intrusive" => Intrusive!HandedOver /\ Intrusive!NothingLeft
    BY Assumed, ElementsSame, ListOfElements!InvSafe DEF QueuesInv
  <2> QED
    BY <2>1, <2>2 DEF NothingStaleOrLeft
<1> QED
  BY <1>1, QueuesInvariant, PTL

\* Both lock-free lists implement a first-in first-out queue: the exchange of
\* _head in Enqueue puts an item in, Dequeue takes the oldest one out, and no
\* other access to memory changes what is queued.
THEOREM FifoCorrect == QueuesSpec => ImplementsFifo
<1>1. QueuesInit => Abstract!Init
  <2> SUFFICES ASSUME QueuesInit PROVE Abstract!Init
    OBVIOUS
  <2>1. CASE kind = "non-intrusive"
    <3>1. ListOfNodes!Init
      BY <2>1, NodesSame DEF QueuesInit
    <3>2. NonIntrusive!Queued = <<>> /\ v13 = <<>>
      BY <3>1, NodesSame, ListOfNodes!InitFifo
    <3> QED
      BY <2>1, <3>2 DEF Abstract!Init
  <2>2. CASE kind = "intrusive"
    <3>1. ListOfElements!Init
      BY <2>2, ElementsSame DEF QueuesInit
    <3>2. Intrusive!Queued = <<>> /\ v13 = <<>>
      BY <3>1, ElementsSame, ListOfElements!InitFifo
    <3> QED
      BY <2>2, <3>2 DEF Abstract!Init
  <2>3. CASE kind \notin {"non-intrusive", "intrusive"}
    BY <2>3 DEF QueuesInit, Unused, Abstract!Init
  <2> QED
    BY <2>1, <2>2, <2>3
<1>2. QueuesInv /\ [QueuesNext]_queuesVars => [Abstract!Next]_Abstract!vars
  <2> SUFFICES ASSUME QueuesInv, [QueuesNext]_queuesVars PROVE [Abstract!Next]_Abstract!vars
    OBVIOUS
  <2>1. kind' = kind
    BY NextKind
  <2>2. CASE kind = "non-intrusive"
    <3>1. PICK q, r : q = NonIntrusive!Queued /\ r = NonIntrusive!Queued'
      OBVIOUS
    <3>2. q = ListOfNodes!Queued /\ r = ListOfNodes!Queued'
      BY <3>1 DEF NonIntrusive!Queued, ListOfNodes!Queued
    <3>3. \/ \E x \in Items : ListOfNodes!Queued' = Append(ListOfNodes!Queued, x) /\ v13' = v13
          \/ /\ ListOfNodes!Queued # <<>> /\ v13' = Append(v13, Head(ListOfNodes!Queued))
             /\ ListOfNodes!Queued' = Tail(ListOfNodes!Queued)
          \/ UNCHANGED <<ListOfNodes!Queued, v13>>
      BY <2>2, Assumed, NextKind, ListOfNodes!NextFifo DEF QueuesInv
    <3>4. \/ \E x \in Items : r = Append(q, x) /\ v13' = v13
          \/ q # <<>> /\ v13' = Append(v13, Head(q)) /\ r = Tail(q)
          \/ r = q /\ v13' = v13
      BY <3>2, <3>3
    <3> QED
      BY <2>1, <2>2, <3>1, <3>4 DEF Abstract!Next, Abstract!Enqueue, Abstract!Dequeue, Abstract!vars
  <2>3. CASE kind = "intrusive"
    <3>1. PICK q, r : q = Intrusive!Queued /\ r = Intrusive!Queued'
      OBVIOUS
    <3>2. q = ListOfElements!Queued /\ r = ListOfElements!Queued'
      BY <3>1 DEF Intrusive!Queued, ListOfElements!Queued
    <3>3. \/ \E x \in Items : ListOfElements!Queued' = Append(ListOfElements!Queued, x) /\ v13' = v13
          \/ /\ ListOfElements!Queued # <<>> /\ v13' = Append(v13, Head(ListOfElements!Queued))
             /\ ListOfElements!Queued' = Tail(ListOfElements!Queued)
          \/ UNCHANGED <<ListOfElements!Queued, v13>>
      BY <2>3, Assumed, NextKind, ListOfElements!NextFifo DEF QueuesInv
    <3>4. \/ \E x \in Items : r = Append(q, x) /\ v13' = v13
          \/ q # <<>> /\ v13' = Append(v13, Head(q)) /\ r = Tail(q)
          \/ r = q /\ v13' = v13
      BY <3>2, <3>3
    <3> QED
      BY <2>1, <2>3, <3>1, <3>4 DEF Abstract!Next, Abstract!Enqueue, Abstract!Dequeue, Abstract!vars
  <2>4. CASE kind \notin {"non-intrusive", "intrusive"}
    BY <2>1, <2>4, NextKind DEF Abstract!vars
  <2> QED
    BY <2>2, <2>3, <2>4
<1> QED
  BY <1>1, <1>2, QueuesInvariant, PTL DEF QueuesSpec, ImplementsFifo, Abstract!Spec

\* However producers and the consumer mix add, next, readd, empty, peek and
\* pop_front, what empty() and peek() of LockedQueue said still holds when the
\* consumer acts on it, and the items come out in the order of the adds.
THEOREM LockedCorrect == QueuesSpec => []LockedInOrder
<1>1. QueuesInv => LockedInOrder
  BY LockedImplies DEF QueuesInv, LockedInOrder
<1> QED
  BY <1>1, QueuesInvariant, PTL

\* For any number of consumers, ProducerConsumerQueue has a woken waiter for
\* each item whenever somebody sleeps, leaves nobody asleep after Cancel, and
\* leaves in the queue what was pushed after the last Cancel and nothing else.
THEOREM WakeUpCorrect == QueuesSpec => []NoLostWakeUp
<1>1. QueuesInv => NoLostWakeUp
  BY BlockingImplies DEF QueuesInv, NoLostWakeUp
<1> QED
  BY <1>1, QueuesInvariant, PTL

-----------------------------------------------------------------------------
(* The inductive invariant of the dump                                     *)

Details == [value : BOOLEAN, hasChildren : BOOLEAN, logged : BOOLEAN]

Places == {"enter", "pointee", "children", "first", "elements", "element", "child"}

Activations ==
    [type : DOMAIN Info, addr : Int, logChildren : BOOLEAN, at : Places,
     index : Nat \ {0}, n : Int]

\* The activation has pushed a detail that it has not popped yet.
Pushes(c) == c.at \in {"child", "element"}

\* The activation is showing an array.
InArray(c) == c.at \in {"first", "elements", "element"}

\* The level of the details at which the activation after the i-th runs.
Level(cs, i) == 1 + Cardinality({j \in 1 .. i : Pushes(cs[j])})

\* Every detail but the last one is printed.
Parents(ds) == \A i \in 1 .. Len(ds) - 1 : ds[i].logged

\* An array has set HasChildren at its level, and has elements of a known type.
ArrayOpen(cs, ds, i) ==
    InArray(cs[i]) => Info[cs[i].type].inner # {} /\ ds[Level(cs, i - 1)].hasChildren

\* A class that was reached through a pointer or a data member is opened below
\* the limit only.
ClassOpen(cs, i) ==
    \/ i = 1
    \/ Info[cs[i].type].tag = "UDT" /\ cs[i].logChildren /\ cs[i - 1].at # "child"
       => Level(cs, i - 1) < MaxNesting

\* The details are as deep as the activations have pushed them.
Stack(cs, ds) ==
    /\ cs \in Seq(Activations) /\ ds \in Seq(Details)
    /\ Len(ds) = Level(cs, Len(cs))
    /\ \A i \in 1 .. Len(cs) : ArrayOpen(cs, ds, i) /\ ClassOpen(cs, i)

DumpInv ==
    /\ details \in Seq(Details)
    /\ Parents(details)
    /\ dumping \in BOOLEAN
    /\ IF dumping THEN Stack(calls, details) ELSE calls = <<>>

-----------------------------------------------------------------------------
(* The inductive invariant of the report                                   *)

Symbol == [type : DOMAIN Info, addr : Int, kind : {"function", "register", "variable"}]

Threaded ==
    /\ thread \in [Threads -> {"running", "sleeping", "raised", "filter", "returned"}]
    /\ alreadyCrashed \in BOOLEAN /\ ended \in BOOLEAN

\* One thread is ever in the filter to write the report, and while it is there
\* no thread has returned from the filter.
OneFilter ==
    \A t \in Threads : thread[t] = "filter" =>
        /\ alreadyCrashed
        /\ \A u \in Threads : thread[u] # "returned" /\ (thread[u] = "filter" => t = u)

\* The report file is open only while that thread is in the filter.
OpenInFilter ==
    /\ ~alreadyCrashed \/ step = "folder" => reportFile = "none"
    /\ reportFile = "open" => \E t \in Threads : thread[t] = "filter"

\* The process ends for a thread that has returned from the filter.
EndedByReturn ==
    /\ \A t \in Threads : thread[t] = "returned" => alreadyCrashed
    /\ ended => \E t \in Threads : thread[t] = "returned"

ReportInv == Threaded /\ OneFilter /\ OpenInFilter /\ EndedByReturn

Inv == DumpInv /\ unseen \in Seq(Symbol) /\ ReportInv

-----------------------------------------------------------------------------
(* Sequences                                                               *)

LEMMA FrontFacts ==
    ASSUME NEW S, NEW s \in Seq(S), s # <<>>
    PROVE  /\ Front(s) \in Seq(S) /\ Len(s) \in Nat \ {0} /\ Len(Front(s)) = Len(s) - 1
           /\ \A i \in 1 .. Len(s) - 1 : Front(s)[i] = s[i]
           /\ Last(s) = s[Len(s)] /\ Last(s) \in S
<1>1. Len(s) \in Nat \ {0} /\ s[Len(s)] \in S
  OBVIOUS
<1>2. PICK n \in Int : n = Len(s) - 1
  BY <1>1
<1>3. \A i \in 1 .. n : s[i] \in S
  BY <1>1, <1>2
<1>4. /\ SubSeq(s, 1, n) \in Seq(S)
      /\ Len(SubSeq(s, 1, n)) = IF 1 <= n THEN n - 1 + 1 ELSE 0
      /\ \A i \in 1 .. n - 1 + 1 : SubSeq(s, 1, n)[i] = s[1 + i - 1]
  BY <1>3, SubSeqProperties
<1>5. Front(s) = SubSeq(s, 1, n)
  BY <1>2 DEF Front
<1>6. Len(Front(s)) = n
  BY <1>1, <1>2, <1>4, <1>5
<1>7. \A i \in 1 .. n : Front(s)[i] = s[i]
  <2> TAKE i \in 1 .. n
  <2>1. i \in 1 .. n - 1 + 1 /\ 1 + i - 1 = i
    OBVIOUS
  <2> QED
    BY <2>1, <1>4, <1>5
<1> QED
  BY <1>1, <1>2, <1>4, <1>5, <1>6, <1>7 DEF Last

LEMMA ReplacedLast ==
    ASSUME NEW S, NEW s \in Seq(S), s # <<>>, NEW e \in S
    PROVE  LET r == [s EXCEPT ![Len(s)] = e]
           IN  /\ r \in Seq(S) /\ Len(r) = Len(s) /\ r[Len(s)] = e
               /\ \A i \in 1 .. Len(s) - 1 : r[i] = s[i]
<1>1. Len(s) \in Nat \ {0}
  OBVIOUS
<1> QED
  BY <1>1

-----------------------------------------------------------------------------
(* Levels                                                                  *)

LEMMA LevelType ==
    ASSUME NEW cs, NEW i \in Nat
    PROVE  /\ IsFiniteSet({j \in 1 .. i : Pushes(cs[j])})
           /\ Level(cs, i) \in Nat \ {0}
<1> DEFINE P == {j \in 1 .. i : Pushes(cs[j])}
<1>1. IsFiniteSet(1 .. i)
  BY FS_Interval
<1>2. IsFiniteSet(P)
  BY <1>1, FS_Subset
<1>3. Cardinality(P) \in Nat
  BY <1>2, FS_CardinalityType
<1> QED
  BY <1>2, <1>3 DEF Level

LEMMA LevelZero ==
    ASSUME NEW cs
    PROVE  Level(cs, 0) = 1
<1>1. {j \in 1 .. 0 : Pushes(cs[j])} = {}
  OBVIOUS
<1> QED
  BY <1>1, FS_EmptySet DEF Level

\* The level grows by one with each activation that has pushed a detail.
LEMMA LevelNext ==
    ASSUME NEW cs, NEW i \in Nat
    PROVE  Level(cs, i + 1) = Level(cs, i) + (IF Pushes(cs[i + 1]) THEN 1 ELSE 0)
<1> DEFINE P(k) == {j \in 1 .. k : Pushes(cs[j])}
<1>1. IsFiniteSet(P(i)) /\ i + 1 \notin P(i)
  BY LevelType
<1>2. CASE Pushes(cs[i + 1])
  <2>1. P(i + 1) = P(i) \cup {i + 1}
    BY <1>2
  <2>2. Cardinality(P(i + 1)) = Cardinality(P(i)) + 1
    BY <1>1, <2>1, FS_AddElement
  <2>3. Cardinality(P(i)) \in Nat
    BY <1>1, FS_CardinalityType
  <2> QED
    BY <1>2, <2>2, <2>3 DEF Level
<1>3. CASE ~Pushes(cs[i + 1])
  <2>1. P(i + 1) = P(i)
    BY <1>3
  <2>2. Cardinality(P(i)) \in Nat
    BY <1>1, FS_CardinalityType
  <2> QED
    BY <1>3, <2>1, <2>2 DEF Level
<1> QED
  BY <1>2, <1>3

\* It depends only on the activations up to there.
LEMMA LevelSame ==
    ASSUME NEW cs, NEW es, NEW i \in Nat, \A j \in 1 .. i : cs[j] = es[j]
    PROVE  Level(cs, i) = Level(es, i)
<1>1. {j \in 1 .. i : Pushes(cs[j])} = {j \in 1 .. i : Pushes(es[j])}
  OBVIOUS
<1> QED
  BY <1>1 DEF Level

LEMMA LevelMonotonic ==
    ASSUME NEW cs, NEW i \in Nat, NEW k \in Nat, i <= k
    PROVE  Level(cs, i) <= Level(cs, k)
<1> DEFINE P(m) == {j \in 1 .. m : Pushes(cs[j])}
<1>0. P(i) \subseteq P(k)
  OBVIOUS
<1>1. IsFiniteSet(P(k)) /\ P(i) \subseteq P(k)
  BY <1>0, LevelType
<1>2. IsFiniteSet(P(i)) /\ Cardinality(P(i)) <= Cardinality(P(k))
  BY <1>1, FS_Subset
<1>3. Cardinality(P(i)) \in Nat /\ Cardinality(P(k)) \in Nat
  BY <1>1, <1>2, FS_CardinalityType
<1> QED
  BY <1>2, <1>3 DEF Level

\* The level splits into what was pushed before an activation and since.
LEMMA LevelSplit ==
    ASSUME NEW cs, NEW i \in Nat \ {0}, NEW k \in Nat, i <= k
    PROVE  /\ Cardinality({j \in i .. k : Pushes(cs[j])}) \in Nat
           /\ Level(cs, k) = Level(cs, i - 1) + Cardinality({j \in i .. k : Pushes(cs[j])})
<1> DEFINE P(m) == {j \in 1 .. m : Pushes(cs[j])}
           Q == {j \in i .. k : Pushes(cs[j])}
<1>0. i - 1 \in Nat
  OBVIOUS
<1>1. IsFiniteSet(P(k)) /\ IsFiniteSet(P(i - 1))
  BY <1>0, LevelType, Zenon
<1>2. Q \subseteq P(k) /\ P(k) = P(i - 1) \cup Q /\ P(i - 1) \cap Q = {}
  OBVIOUS
<1>3. IsFiniteSet(Q)
  BY <1>1, <1>2, FS_Subset
<1>4. /\ Cardinality(P(k)) \in Nat /\ Cardinality(P(i - 1)) \in Nat /\ Cardinality(Q) \in Nat
      /\ Cardinality({}) = 0
  BY <1>1, <1>3, FS_CardinalityType, FS_EmptySet
<1>5. Cardinality(P(k)) = Cardinality(P(i - 1)) + Cardinality(Q) - Cardinality({})
  BY <1>1, <1>2, <1>3, FS_Union
<1> QED
  BY <1>4, <1>5 DEF Level

-----------------------------------------------------------------------------
(* Details                                                                 *)

\* What a detail has shown stays shown as long as the detail is there.
Keeps(ds, es) ==
    \A i \in 1 .. Len(ds) : i <= Len(es) =>
        /\ ds[i].hasChildren => es[i].hasChildren
        /\ ds[i].logged => es[i].logged

LEMMA WithValueFacts ==
    ASSUME NEW ds \in Seq(Details), ds # <<>>, Parents(ds)
    PROVE  /\ WithValue(ds) \in Seq(Details) /\ Len(WithValue(ds)) = Len(ds)
           /\ Keeps(ds, WithValue(ds)) /\ Parents(WithValue(ds))
           /\ ~empty(WithValue(ds)[Len(ds)])
<1> DEFINE d == [ds[Len(ds)] EXCEPT !.value = TRUE]
           r == [ds EXCEPT ![Len(ds)] = d]
<1>1. Len(ds) \in Nat \ {0} /\ ds[Len(ds)] \in Details
  OBVIOUS
<1>2. d \in Details /\ d.value = TRUE /\ d.hasChildren = ds[Len(ds)].hasChildren /\ d.logged = ds[Len(ds)].logged
  BY <1>1 DEF Details
<1>3. WithValue(ds) = r
  BY DEF WithValue
<1> HIDE DEF d
<1>4. /\ r \in Seq(Details) /\ Len(r) = Len(ds) /\ r[Len(ds)] = d
      /\ \A i \in 1 .. Len(ds) - 1 : r[i] = ds[i]
  BY <1>2, ReplacedLast
<1> HIDE DEF r
<1> QED
  BY <1>1, <1>2, <1>3, <1>4 DEF Keeps, Parents, empty

LEMMA WithChildrenFacts ==
    ASSUME NEW ds \in Seq(Details), ds # <<>>, Parents(ds)
    PROVE  /\ WithChildren(ds) \in Seq(Details) /\ Len(WithChildren(ds)) = Len(ds)
           /\ Keeps(ds, WithChildren(ds)) /\ Parents(WithChildren(ds))
           /\ WithChildren(ds)[Len(ds)].hasChildren
<1> DEFINE d == [ds[Len(ds)] EXCEPT !.hasChildren = TRUE]
           r == [ds EXCEPT ![Len(ds)] = d]
<1>1. Len(ds) \in Nat \ {0} /\ ds[Len(ds)] \in Details
  OBVIOUS
<1>2. d \in Details /\ d.hasChildren = TRUE /\ d.logged = ds[Len(ds)].logged
  BY <1>1 DEF Details
<1>3. WithChildren(ds) = r
  BY DEF WithChildren
<1> HIDE DEF d
<1>4. /\ r \in Seq(Details) /\ Len(r) = Len(ds) /\ r[Len(ds)] = d
      /\ \A i \in 1 .. Len(ds) - 1 : r[i] = ds[i]
  BY <1>2, ReplacedLast
<1> HIDE DEF r
<1> QED
  BY <1>1, <1>2, <1>3, <1>4 DEF Keeps, Parents, empty

Cleared(ds) == [ds EXCEPT ![Len(ds)].value = FALSE]

LEMMA ClearedFacts ==
    ASSUME NEW ds \in Seq(Details), ds # <<>>, Parents(ds)
    PROVE  /\ Cleared(ds) \in Seq(Details) /\ Len(Cleared(ds)) = Len(ds)
           /\ Keeps(ds, Cleared(ds)) /\ Parents(Cleared(ds))
<1> DEFINE d == [ds[Len(ds)] EXCEPT !.value = FALSE]
           r == [ds EXCEPT ![Len(ds)] = d]
<1>1. Len(ds) \in Nat \ {0} /\ ds[Len(ds)] \in Details
  OBVIOUS
<1>2. d \in Details /\ d.value = FALSE /\ d.hasChildren = ds[Len(ds)].hasChildren /\ d.logged = ds[Len(ds)].logged
  BY <1>1 DEF Details
<1>3. Cleared(ds) = r
  BY DEF Cleared
<1> HIDE DEF d
<1>4. /\ r \in Seq(Details) /\ Len(r) = Len(ds) /\ r[Len(ds)] = d
      /\ \A i \in 1 .. Len(ds) - 1 : r[i] = ds[i]
  BY <1>2, ReplacedLast
<1> HIDE DEF r
<1> QED
  BY <1>1, <1>2, <1>3, <1>4 DEF Keeps, Parents, empty

LEMMA PrintFacts ==
    ASSUME NEW ds \in Seq(Details), ds # <<>>, Parents(ds)
    PROVE  /\ PrintSymbolDetail(ds) \in Seq(Details) /\ Len(PrintSymbolDetail(ds)) = Len(ds)
           /\ Keeps(ds, PrintSymbolDetail(ds)) /\ Parents(PrintSymbolDetail(ds))
           /\ ~empty(ds[Len(ds)]) => PrintSymbolDetail(ds)[Len(ds)].logged
<1>1. CASE empty(Last(ds))
  BY <1>1 DEF PrintSymbolDetail, Keeps, Last
<1>2. CASE ~empty(Last(ds))
  <2> DEFINE d == [ds[Len(ds)] EXCEPT !.logged = TRUE]
             r == [ds EXCEPT ![Len(ds)] = d]
  <2>1. Len(ds) \in Nat \ {0} /\ ds[Len(ds)] \in Details
    OBVIOUS
  <2>2. d \in Details /\ d.logged = TRUE /\ d.hasChildren = ds[Len(ds)].hasChildren
    BY <2>1 DEF Details
  <2>3. PrintSymbolDetail(ds) = r
    BY <1>2 DEF PrintSymbolDetail
  <2> HIDE DEF d
  <2>4. /\ r \in Seq(Details) /\ Len(r) = Len(ds) /\ r[Len(ds)] = d
        /\ \A i \in 1 .. Len(ds) - 1 : r[i] = ds[i]
    BY <2>2, ReplacedLast
  <2> HIDE DEF r
  <2> QED
    BY <2>1, <2>2, <2>3, <2>4 DEF Keeps, Parents, empty
<1> QED
  BY <1>1, <1>2

\* What is printed before a detail is pushed is every detail.
LEMMA PushFacts ==
    ASSUME NEW ds \in Seq(Details), ds # <<>>, Parents(ds), ~empty(ds[Len(ds)])
    PROVE  /\ PushSymbolDetail(ds) \in Seq(Details) /\ Len(PushSymbolDetail(ds)) = Len(ds) + 1
           /\ Keeps(ds, PushSymbolDetail(ds)) /\ Parents(PushSymbolDetail(ds))
<1> DEFINE ps == PrintSymbolDetail(ds)
<1>1. /\ ps \in Seq(Details) /\ Len(ps) = Len(ds) /\ Keeps(ds, ps) /\ Parents(ps)
      /\ ps[Len(ds)].logged
  BY PrintFacts
<1>2. SymbolDetail \in Details
  BY DEF SymbolDetail, Details
<1> HIDE DEF ps
<1>3. /\ Append(ps, SymbolDetail) \in Seq(Details) /\ Len(Append(ps, SymbolDetail)) = Len(ds) + 1
      /\ \A i \in 1 .. Len(ds) : Append(ps, SymbolDetail)[i] = ps[i]
  BY <1>1, <1>2, AppendFacts
<1>4. PushSymbolDetail(ds) = Append(ps, SymbolDetail)
  BY DEF PushSymbolDetail, ps
<1>5. Len(ds) \in Nat
  OBVIOUS
<1> QED
  BY <1>1, <1>3, <1>4, <1>5 DEF Keeps, Parents

LEMMA PopFacts ==
    ASSUME NEW ds \in Seq(Details), ds # <<>>, Parents(ds)
    PROVE  /\ PopSymbolDetail(ds) \in Seq(Details) /\ Len(PopSymbolDetail(ds)) = Len(ds) - 1
           /\ Keeps(ds, PopSymbolDetail(ds)) /\ Parents(PopSymbolDetail(ds))
<1> DEFINE ps == PrintSymbolDetail(ds)
<1>1. ps \in Seq(Details) /\ Len(ps) = Len(ds) /\ Keeps(ds, ps) /\ Parents(ps)
  BY PrintFacts
<1> HIDE DEF ps
<1>2. ps # <<>>
  BY <1>1
<1>3. /\ Front(ps) \in Seq(Details) /\ Len(Front(ps)) = Len(ds) - 1
      /\ \A i \in 1 .. Len(ds) - 1 : Front(ps)[i] = ps[i]
  BY <1>1, <1>2, FrontFacts
<1>4. PopSymbolDetail(ds) = Front(ps)
  BY DEF PopSymbolDetail, ps
<1>5. Len(ds) \in Nat
  OBVIOUS
<1> QED
  BY <1>1, <1>3, <1>4, <1>5, SMTT(60) DEF Keeps, Parents

LEMMA KeepsBoth ==
    ASSUME NEW ds \in Seq(Details), NEW es \in Seq(Details), NEW fs \in Seq(Details),
           Keeps(ds, es), Keeps(es, fs), Len(fs) <= Len(es) \/ Len(ds) <= Len(es)
    PROVE  Keeps(ds, fs)
BY DEF Keeps

-----------------------------------------------------------------------------
(* The activations and the details together                                *)

LEMMA StackFacts ==
    ASSUME NEW cs, NEW ds, Stack(cs, ds)
    PROVE  /\ cs \in Seq(Activations) /\ ds \in Seq(Details)
           /\ Len(cs) \in Nat /\ Len(ds) \in Nat \ {0} /\ ds # <<>>
           /\ Len(ds) = Level(cs, Len(cs))
<1>1. cs \in Seq(Activations) /\ ds \in Seq(Details) /\ Len(ds) = Level(cs, Len(cs))
  BY DEF Stack
<1>2. Len(cs) \in Nat
  BY <1>1
<1>3. Level(cs, Len(cs)) \in Nat \ {0}
  BY <1>2, LevelType
<1> QED
  BY <1>1, <1>2, <1>3

\* Without the running activation: the one that called it goes on.
LEMMA Returned ==
    ASSUME NEW cs, NEW ds, Stack(cs, ds), cs # <<>>, ~Pushes(Last(cs)),
           NEW es \in Seq(Details), Len(es) = Len(ds), Keeps(ds, es)
    PROVE  Stack(Front(cs), es)
<1> DEFINE fs == Front(cs)
           n == Len(cs)
<1>1. cs \in Seq(Activations) /\ ds \in Seq(Details) /\ Len(ds) = Level(cs, n)
  BY DEF Stack
<1>2. /\ fs \in Seq(Activations) /\ n \in Nat \ {0} /\ Len(fs) = n - 1
      /\ \A i \in 1 .. n - 1 : fs[i] = cs[i]
      /\ Last(cs) = cs[n]
  BY <1>1, FrontFacts
<1> HIDE DEF fs, n
<1>3. PICK m \in Nat : n = m + 1
  BY <1>2
<1>4. Level(cs, n) = Level(cs, m) + (IF Pushes(cs[n]) THEN 1 ELSE 0)
  BY <1>3, LevelNext
<1>5. \A i \in 0 .. m : Level(fs, i) = Level(cs, i) /\ Level(cs, i) \in Nat \ {0} /\ Level(cs, i) <= Level(cs, n)
  <2> TAKE i \in 0 .. m
  <2>1. \A j \in 1 .. i : fs[j] = cs[j]
    BY <1>2, <1>3
  <2>2. i \in Nat /\ i <= n
    BY <1>3
  <2> QED
    BY <1>2, <2>1, <2>2, LevelSame, LevelType, LevelMonotonic
<1>6. Len(es) = Level(fs, Len(fs))
  BY <1>1, <1>2, <1>3, <1>4, <1>5
<1>7. ASSUME NEW i \in 1 .. m
      PROVE  ArrayOpen(fs, es, i) /\ ClassOpen(fs, i)
  <2>1. ArrayOpen(cs, ds, i) /\ ClassOpen(cs, i)
    BY <1>2, <1>3 DEF Stack, n
  <2>2. fs[i] = cs[i] /\ (i # 1 => fs[i - 1] = cs[i - 1]) /\ Level(fs, i - 1) = Level(cs, i - 1)
    BY <1>2, <1>3, <1>5
  <2>3. Level(cs, i - 1) \in 1 .. Len(ds)
    BY <1>1, <1>2, <1>5
  <2>4. ds[Level(cs, i - 1)].hasChildren => es[Level(cs, i - 1)].hasChildren
    BY <2>3 DEF Keeps
  <2> QED
    BY <2>1, <2>2, <2>4 DEF ArrayOpen, ClassOpen
<1>8. Len(fs) = m
  BY <1>2, <1>3
<1>9. Stack(fs, es)
  BY <1>2, <1>6, <1>7, <1>8 DEF Stack
<1> QED
  BY <1>9 DEF fs

\* With one activation more, which starts at the level the details have.
LEMMA Called ==
    ASSUME NEW cs, NEW ds, Stack(cs, ds), NEW c \in Activations,
           c.at = "enter",
           \/ cs = <<>>
           \/ Last(cs).at = "child"
           \/ (Info[c.type].tag = "UDT" /\ c.logChildren => Len(ds) < MaxNesting)
    PROVE  Stack(Append(cs, c), ds)
<1> DEFINE fs == Append(cs, c)
           n == Len(cs)
<1>1. /\ cs \in Seq(Activations) /\ ds \in Seq(Details) /\ Len(ds) = Level(cs, n)
      /\ n \in Nat
  BY StackFacts
<1>2. /\ fs \in Seq(Activations) /\ Len(fs) = n + 1
      /\ \A i \in 1 .. n : fs[i] = cs[i]
      /\ fs[n + 1] = c
  BY <1>1, AppendFacts
<1>3. cs = <<>> \/ (n # 0 /\ Last(cs) = cs[n])
  BY <1>1 DEF Last
<1> HIDE DEF fs
<1>4. \A i \in 0 .. n : Level(fs, i) = Level(cs, i) /\ Level(cs, i) \in Nat \ {0}
  <2> TAKE i \in 0 .. n
  <2>1. \A j \in 1 .. i : fs[j] = cs[j]
    BY <1>1, <1>2
  <2>2. i \in Nat
    BY <1>1
  <2>3. Level(fs, i) = Level(cs, i)
    BY <2>1, <2>2, LevelSame
  <2> QED
    BY <2>2, <2>3, LevelType
<1>5. Level(fs, n + 1) = Level(fs, n) + (IF Pushes(fs[n + 1]) THEN 1 ELSE 0)
  BY <1>1, LevelNext
<1>6. ~Pushes(c) /\ ~InArray(c)
  BY DEF Pushes, InArray
<1>7. Len(ds) = Level(fs, n + 1)
  BY <1>1, <1>2, <1>4, <1>5, <1>6
<1>8. ASSUME NEW i \in 1 .. n
      PROVE  ArrayOpen(fs, ds, i) /\ ClassOpen(fs, i)
  <2>1. ArrayOpen(cs, ds, i) /\ ClassOpen(cs, i)
    BY DEF Stack
  <2>2. fs[i] = cs[i] /\ (i # 1 => fs[i - 1] = cs[i - 1]) /\ Level(fs, i - 1) = Level(cs, i - 1)
    BY <1>1, <1>2, <1>4
  <2> QED
    BY <2>1, <2>2 DEF ArrayOpen, ClassOpen
<1>9. ArrayOpen(fs, ds, n + 1)
  BY <1>2, <1>6 DEF ArrayOpen
<1>10. ClassOpen(fs, n + 1)
  <2>1. CASE n = 0
    BY <2>1 DEF ClassOpen
  <2>2. CASE n # 0
    <3>1. n + 1 - 1 = n /\ fs[n] = cs[n] /\ Level(fs, n) = Len(ds)
      BY <1>1, <1>2, <1>4, <2>2
    <3>2. cs # <<>>
      BY <2>2, <1>1
    <3>3. \/ fs[n].at = "child"
          \/ (Info[c.type].tag = "UDT" /\ c.logChildren => Level(fs, n) < MaxNesting)
      BY <1>3, <3>1, <3>2
    <3> QED
      BY <1>2, <3>1, <3>3 DEF ClassOpen
  <2> QED
    BY <2>1, <2>2
<1>11. \A i \in 1 .. n + 1 : ArrayOpen(fs, ds, i) /\ ClassOpen(fs, i)
  BY <1>1, <1>8, <1>9, <1>10
<1>12. Stack(fs, ds)
  BY <1>1, <1>2, <1>7, <1>11 DEF Stack
<1> QED
  BY <1>12 DEF fs

\* With the running activation at another place: it has pushed a detail, or
\* popped it, or neither.
LEMMA WentOn ==
    ASSUME NEW cs, NEW ds, Stack(cs, ds), cs # <<>>, NEW c \in Activations,
           c.type = Last(cs).type, c.logChildren = Last(cs).logChildren,
           NEW es \in Seq(Details), Keeps(ds, es),
           NEW l \in Nat, l = Len(ds) - (IF Pushes(Last(cs)) THEN 1 ELSE 0),
           Len(es) = l + (IF Pushes(c) THEN 1 ELSE 0),
           InArray(c) => Info[c.type].inner # {} /\ es[l].hasChildren
    PROVE  Stack(Append(Front(cs), c), es)
<1> DEFINE n == Len(cs)
           fs == Append(Front(cs), c)
<1>1. cs \in Seq(Activations) /\ ds \in Seq(Details) /\ Len(ds) = Level(cs, n)
  BY DEF Stack
<1>2. /\ Front(cs) \in Seq(Activations) /\ n \in Nat \ {0} /\ Len(Front(cs)) = n - 1
      /\ \A i \in 1 .. n - 1 : Front(cs)[i] = cs[i]
      /\ Last(cs) = cs[n]
  BY <1>1, FrontFacts
<1>3. /\ fs \in Seq(Activations) /\ Len(fs) = n - 1 + 1
      /\ \A i \in 1 .. n - 1 : fs[i] = Front(cs)[i]
      /\ fs[n - 1 + 1] = c
  BY <1>2, AppendFacts
<1>4. Len(fs) = n /\ fs[n] = c /\ \A i \in 1 .. n - 1 : fs[i] = cs[i]
  BY <1>2, <1>3
<1> HIDE DEF fs
<1>5. \A i \in 0 .. n - 1 : Level(fs, i) = Level(cs, i) /\ Level(cs, i) \in Nat \ {0} /\ Level(cs, i) <= Level(cs, n - 1)
  <2> TAKE i \in 0 .. n - 1
  <2>1. \A j \in 1 .. i : fs[j] = cs[j]
    BY <1>2, <1>4
  <2>2. i \in Nat /\ n - 1 \in Nat /\ i <= n - 1
    BY <1>2
  <2>3. Level(fs, i) = Level(cs, i)
    BY <2>1, <2>2, LevelSame
  <2>4. Level(cs, i) <= Level(cs, n - 1)
    BY <2>2, LevelMonotonic
  <2> QED
    BY <2>2, <2>3, <2>4, LevelType
<1>6. PICK m \in Nat : n = m + 1
  BY <1>2
<1>7. /\ Level(cs, n) = Level(cs, m) + (IF Pushes(cs[n]) THEN 1 ELSE 0)
      /\ Level(fs, n) = Level(fs, m) + (IF Pushes(fs[n]) THEN 1 ELSE 0)
  BY <1>6, LevelNext
<1>8. Level(cs, m) = l /\ Level(fs, m) = l /\ Len(es) = Level(fs, n)
  BY <1>1, <1>2, <1>4, <1>5, <1>6, <1>7
<1>9. ASSUME NEW i \in 1 .. m
      PROVE  ArrayOpen(fs, es, i) /\ ClassOpen(fs, i)
  <2>1. ArrayOpen(cs, ds, i) /\ ClassOpen(cs, i)
    BY <1>6 DEF Stack
  <2>2. fs[i] = cs[i] /\ (i # 1 => fs[i - 1] = cs[i - 1]) /\ Level(fs, i - 1) = Level(cs, i - 1)
    BY <1>4, <1>5, <1>6
  <2>3. Level(cs, i - 1) \in 1 .. l
    BY <1>5, <1>6, <1>8
  <2>4. Level(cs, i - 1) \in 1 .. Len(ds) /\ Level(cs, i - 1) <= Len(es)
    BY <2>3, <1>1, <1>2, <1>6, <1>7, <1>8, LevelType
  <2>5. ds[Level(cs, i - 1)].hasChildren => es[Level(cs, i - 1)].hasChildren
    BY <2>4 DEF Keeps
  <2> QED
    BY <2>1, <2>2, <2>5 DEF ArrayOpen, ClassOpen
<1>10. ArrayOpen(fs, es, n)
  BY <1>4, <1>6, <1>8 DEF ArrayOpen
<1>11. ClassOpen(fs, n)
  <2>1. ClassOpen(cs, n)
    BY <1>2 DEF Stack
  <2>2. fs[n].type = cs[n].type /\ fs[n].logChildren = cs[n].logChildren
    BY <1>2, <1>4
  <2>3. (n # 1 => fs[n - 1] = cs[n - 1]) /\ Level(fs, n - 1) = Level(cs, n - 1)
    BY <1>2, <1>4, <1>5
  <2> QED
    BY <2>1, <2>2, <2>3 DEF ClassOpen
<1>12. \A i \in 1 .. n : ArrayOpen(fs, es, i) /\ ClassOpen(fs, i)
  BY <1>6, <1>9, <1>10, <1>11
<1>13. Stack(fs, es)
  BY <1>3, <1>4, <1>8, <1>12 DEF Stack
<1> QED
  BY <1>13 DEF fs

-----------------------------------------------------------------------------
(* DumpTypeIndex                                                           *)

LEMMA ActivationFacts ==
    ASSUME NEW t \in DOMAIN Info, NEW a \in Int, NEW b \in BOOLEAN
    PROVE  /\ Activation(t, a, b) \in Activations
           /\ Activation(t, a, b).at = "enter"
           /\ Activation(t, a, b).type = t
           /\ Activation(t, a, b).logChildren = b
BY DEF Activations, Places, Activation

\* The running activation at another place.
LEMMA PlacedFacts ==
    ASSUME NEW c \in Activations, NEW p \in Places
    PROVE  LET d == [c EXCEPT !.at = p]
           IN  d \in Activations /\ d.at = p /\ d.type = c.type /\ d.logChildren = c.logChildren
BY DEF Activations

\* What is known of the type of the running activation.
LEMMA TopFacts ==
    ASSUME Stack(calls, details), calls # <<>>
    PROVE  /\ Top \in Activations /\ Top.type \in DOMAIN Info /\ Top.addr \in Int
           /\ Top.index \in Nat \ {0} /\ Top.n \in Int /\ Top.logChildren \in BOOLEAN
           /\ Type.inner # {} => Inner \in Type.inner /\ Inner \in DOMAIN Info
           /\ Type.children \in Seq([type : DOMAIN Info, offset : Int])
           /\ Type.count \in Int
           /\ InArray(Top) => /\ Type.inner # {}
                              /\ details[Len(details) - (IF Pushes(Top) THEN 1 ELSE 0)].hasChildren
           /\ Len(details) - (IF Pushes(Top) THEN 1 ELSE 0) \in Nat \ {0}
<1>1. calls \in Seq(Activations) /\ Len(details) = Level(calls, Len(calls))
  BY StackFacts
<1>2. Top = calls[Len(calls)] /\ Top \in Activations /\ Len(calls) \in Nat \ {0}
  BY <1>1, FrontFacts DEF Top
<1>3. /\ Top.type \in DOMAIN Info /\ Top.addr \in Int /\ Top.index \in Nat \ {0} /\ Top.n \in Int
      /\ Top.logChildren \in BOOLEAN
  BY <1>2 DEF Activations
<1>4. /\ Type.inner \subseteq DOMAIN Info /\ Type.count \in Nat \cup {-1}
      /\ Type.children \in Seq([type : DOMAIN Info, offset : Int])
  BY <1>3, InfoAssumption DEF Type
<1>5. Type.inner # {} => Inner \in Type.inner
  BY DEF Inner
<1>6. PICK m \in Nat : Len(calls) = m + 1
  BY <1>2
<1>7. Level(calls, m + 1) = Level(calls, m) + (IF Pushes(calls[m + 1]) THEN 1 ELSE 0)
  BY LevelNext
<1>8. Level(calls, m) \in Nat \ {0}
  BY LevelType
<1>9. Level(calls, m) = Len(details) - (IF Pushes(Top) THEN 1 ELSE 0)
  BY <1>1, <1>2, <1>6, <1>7, <1>8
<1>10. ArrayOpen(calls, details, m + 1)
  BY <1>6 DEF Stack
<1>11. InArray(Top) => Type.inner # {} /\ details[Level(calls, m)].hasChildren
  <2>1. m + 1 - 1 = m
    OBVIOUS
  <2> QED
    BY <1>2, <1>6, <1>10, <2>1 DEF ArrayOpen, Type
<1> QED
  BY <1>2, <1>3, <1>4, <1>5, <1>8, <1>9, <1>11

LEMMA KeepsSame ==
    ASSUME NEW ds
    PROVE  Keeps(ds, ds)
BY DEF Keeps

\* The running activation goes on at another place, and perhaps calls.
LEMMA GoOnStep ==
    ASSUME Stack(calls, details), calls # <<>>, NEW c \in Activations,
           c.type = Top.type, c.logChildren = Top.logChildren,
           NEW es \in Seq(Details), Keeps(details, es),
           Len(es) = Len(details) - (IF Pushes(Top) THEN 1 ELSE 0) + (IF Pushes(c) THEN 1 ELSE 0),
           InArray(c) => \/ InArray(Top)
                         \/ Type.inner # {} /\ es[Len(details) - (IF Pushes(Top) THEN 1 ELSE 0)].hasChildren
    PROVE  Stack(Append(Front(calls), c), es)
<1> DEFINE l == Len(details) - (IF Pushes(Top) THEN 1 ELSE 0)
<1>1. l \in Nat \ {0} /\ (InArray(Top) => Type.inner # {} /\ details[l].hasChildren)
  BY TopFacts
<1>2. details \in Seq(Details) /\ Len(details) \in Nat
  BY StackFacts
<1>3. l <= Len(es) /\ l \in 1 .. Len(details)
  <2>1. Len(es) = l + (IF Pushes(c) THEN 1 ELSE 0) /\ l <= Len(details)
    BY <1>2
  <2> HIDE DEF l
  <2> QED
    BY <1>1, <1>2, <2>1
<1> HIDE DEF l
<1>4. details[l].hasChildren => es[l].hasChildren
  BY <1>3 DEF Keeps
<1>5. InArray(c) => Info[c.type].inner # {} /\ es[l].hasChildren
  BY <1>1, <1>4 DEF l, Type
<1>6. l = Len(details) - (IF Pushes(Last(calls)) THEN 1 ELSE 0) /\ Len(es) = l + (IF Pushes(c) THEN 1 ELSE 0)
  BY DEF l, Top
<1>7. c.type = Last(calls).type /\ c.logChildren = Last(calls).logChildren
  BY DEF Top
<1> QED
  BY <1>1, <1>5, <1>6, <1>7, WentOn

LEMMA CallStep ==
    ASSUME Stack(calls, details), calls # <<>>, NEW c \in Activations,
           c.type = Top.type, c.logChildren = Top.logChildren,
           NEW es \in Seq(Details), Keeps(details, es),
           Len(es) = Len(details) - (IF Pushes(Top) THEN 1 ELSE 0) + (IF Pushes(c) THEN 1 ELSE 0),
           InArray(c) => \/ InArray(Top)
                         \/ Type.inner # {} /\ es[Len(details) - (IF Pushes(Top) THEN 1 ELSE 0)].hasChildren,
           NEW t \in DOMAIN Info, NEW a \in Int, NEW b \in BOOLEAN,
           c.at = "child" \/ (Info[t].tag = "UDT" /\ b => Len(es) < MaxNesting)
    PROVE  Stack(Append(Append(Front(calls), c), Activation(t, a, b)), es)
<1> DEFINE fs == Append(Front(calls), c)
           d == Activation(t, a, b)
<1>1. Stack(fs, es)
  BY GoOnStep
<1>2. d \in Activations /\ d.at = "enter" /\ d.type = t /\ d.logChildren = b
  BY ActivationFacts
<1>3. Last(fs) = c
  <2>1. calls \in Seq(Activations)
    BY StackFacts
  <2>2. Front(calls) \in Seq(Activations)
    BY <2>1, FrontFacts
  <2> QED
    BY <2>2, AppendFacts DEF Last
<1> HIDE DEF fs, d
<1>4. \/ Last(fs).at = "child"
      \/ (Info[d.type].tag = "UDT" /\ d.logChildren => Len(es) < MaxNesting)
  BY <1>2, <1>3
<1>5. Stack(Append(fs, d), es)
  BY <1>1, <1>2, <1>4, Called
<1> QED
  BY <1>5 DEF fs, d

\* DumpTypeIndex, from one of its calls to the next.
LEMMA DumpTypeIndexInv ==
    ASSUME Stack(calls, details), Parents(details), DumpTypeIndex
    PROVE  Stack(calls', details') /\ Parents(details')
<1>1. /\ calls \in Seq(Activations) /\ details \in Seq(Details) /\ details # <<>>
      /\ Len(details) \in Nat \ {0}
  BY StackFacts
<1>2. calls # <<>>
  BY DEF DumpTypeIndex, Unknown, StdString, AlreadyStored, Pointer, PointerShown, Data, Array,
     ArrayCounted, ArrayElement, ArrayElementShown, ArrayShown, Enum, Other, NoChildren,
     SkipChild, DumpChild, ChildShown, ChildrenShown, Entered, At
<1>3. /\ Top \in Activations /\ Top.type \in DOMAIN Info /\ Top.addr \in Int
      /\ Top.index \in Nat \ {0} /\ Top.n \in Int /\ Top.logChildren \in BOOLEAN
      /\ Type.inner # {} => Inner \in DOMAIN Info
      /\ Type.children \in Seq([type : DOMAIN Info, offset : Int])
      /\ Type.count \in Int
      /\ InArray(Top) => /\ Type.inner # {}
                         /\ details[Len(details) - (IF Pushes(Top) THEN 1 ELSE 0)].hasChildren
      /\ Len(details) - (IF Pushes(Top) THEN 1 ELSE 0) \in Nat \ {0}
  BY <1>2, TopFacts
<1>4. Keeps(details, details)
  BY KeepsSame
<1>5. ASSUME NEW es \in Seq(Details), Len(es) = Len(details), Keeps(details, es), Parents(es),
             details' = es, calls' = Front(calls), ~Pushes(Top)
      PROVE  Stack(calls', details') /\ Parents(details')
  <2>1. Stack(Front(calls), es)
    BY <1>2, <1>5, Returned DEF Top
  <2> QED
    BY <1>5, <2>1
<1>6. ASSUME Unknown \/ AlreadyStored \/ Enum \/ NoChildren \/ ChildrenShown \/ ArrayShown
      PROVE  Stack(calls', details') /\ Parents(details')
  <2>1. Front(calls) = calls' /\ UNCHANGED details
    BY <1>6 DEF Unknown, AlreadyStored, Enum, NoChildren, ChildrenShown, ArrayShown, Return
  <2>2. Top.at \in {"enter", "children", "elements"}
    BY <1>6 DEF Unknown, AlreadyStored, Enum, NoChildren, ChildrenShown, ArrayShown, Entered, At
  <2> QED
    BY <1>1, <1>4, <1>5, <2>1, <2>2 DEF Pushes
<1>7. CASE StdString
  <2>1. Front(calls) = calls' /\ details' = WithValue(details) /\ ~Pushes(Top)
    BY <1>7 DEF StdString, Return, At, Pushes
  <2>2. /\ WithValue(details) \in Seq(Details) /\ Len(WithValue(details)) = Len(details)
        /\ Keeps(details, WithValue(details)) /\ Parents(WithValue(details))
    BY <1>1, WithValueFacts
  <2> QED
    BY <1>5, <2>1, <2>2
<1>8. CASE Pointer
  <2>1. PICK address \in Dereferenced(Top.addr) :
           Call([Top EXCEPT !.at = "pointee", !.n = address], Inner, address,
                Top.logChildren /\ MayNest /\ address \notin {NullPtr, Bad})
    BY <1>8 DEF Pointer
  <2>2. address \in Int
    BY <2>1, InfoAssumption DEF Dereferenced, NullPtr, Bad
  <2> DEFINE c == [Top EXCEPT !.at = "pointee", !.n = address]
             b == Top.logChildren /\ MayNest /\ address \notin {NullPtr, Bad}
             es == WithValue(details)
  <2>3. details' = es /\ Type.inner # {} /\ Top.at = "enter"
    BY <1>8 DEF Pointer, Entered, At
  <2>4. es \in Seq(Details) /\ Len(es) = Len(details) /\ Keeps(details, es) /\ Parents(es)
    BY <1>1, WithValueFacts
  <2>5. c \in Activations /\ c.at = "pointee" /\ c.type = Top.type /\ c.logChildren = Top.logChildren
    <3>1. "pointee" \in Places
      BY DEF Places
    <3> QED
      BY <1>3, <2>2, <3>1 DEF Activations
  <2>6. calls' = Append(Append(Front(calls), c), Activation(Inner, address, b))
    BY <2>1 DEF Call
  <2>7. b \in BOOLEAN /\ (b => Len(es) < MaxNesting)
    BY <1>3, <2>4 DEF MayNest
  <2>8. ~Pushes(c) /\ ~InArray(c) /\ ~Pushes(Top)
    BY <2>3, <2>5 DEF Pushes, InArray
  <2>9. Inner \in DOMAIN Info
    BY <1>3, <2>3
  <2> HIDE DEF c, b, es
  <2>10. Len(es) = Len(details) - (IF Pushes(Top) THEN 1 ELSE 0) + (IF Pushes(c) THEN 1 ELSE 0)
    BY <1>1, <2>4, <2>8
  <2>11. Stack(Append(Append(Front(calls), c), Activation(Inner, address, b)), es)
    BY <1>2, <2>2, <2>4, <2>5, <2>7, <2>8, <2>9, <2>10, CallStep
  <2> QED
    BY <2>3, <2>4, <2>6, <2>11
<1>9. CASE PointerShown
  <2> DEFINE es == IF ~handled \/ Top.n \in {NullPtr, Bad} THEN WithValue(details) ELSE details
             c == [Top EXCEPT !.at = "children"]
  <2>1. details' = es /\ (calls' = Front(calls) \/ calls' = Append(Front(calls), c)) /\ Top.at = "pointee"
    BY <1>9 DEF PointerShown, At, Return, GoOn
  <2>2. es \in Seq(Details) /\ Len(es) = Len(details) /\ Keeps(details, es) /\ Parents(es)
    BY <1>1, <1>4, WithValueFacts
  <2>3. c \in Activations /\ c.at = "children" /\ c.type = Top.type /\ c.logChildren = Top.logChildren
    <3>1. "children" \in Places
      BY DEF Places
    <3> QED
      BY <1>3, <3>1, PlacedFacts
  <2>4. ~Pushes(c) /\ ~InArray(c) /\ ~Pushes(Top)
    BY <2>1, <2>3 DEF Pushes, InArray
  <2> HIDE DEF c, es
  <2>5. CASE calls' = Front(calls)
    BY <1>5, <2>1, <2>2, <2>4, <2>5
  <2>6. CASE calls' = Append(Front(calls), c)
    <3>1. Len(es) = Len(details) - (IF Pushes(Top) THEN 1 ELSE 0) + (IF Pushes(c) THEN 1 ELSE 0)
      BY <1>1, <2>2, <2>4
    <3>2. Stack(Append(Front(calls), c), es)
      BY <1>2, <2>2, <2>3, <2>4, <3>1, GoOnStep
    <3> QED
      BY <2>1, <2>2, <2>6, <3>2
  <2> QED
    BY <2>1, <2>5, <2>6
<1>10. CASE Data
  <2> DEFINE c == [Top EXCEPT !.at = "children"]
             b == Top.logChildren /\ (Info[Inner].tag = "UDT" => MayNest)
  <2>1. /\ details' = details /\ Type.inner # {} /\ Top.at = "enter"
        /\ calls' = Append(Append(Front(calls), c), Activation(Inner, Top.addr, b))
    BY <1>10 DEF Data, Entered, At, Call
  <2>2. c \in Activations /\ c.at = "children" /\ c.type = Top.type /\ c.logChildren = Top.logChildren
    <3>1. "children" \in Places
      BY DEF Places
    <3> QED
      BY <1>3, <3>1, PlacedFacts
  <2>3. b \in BOOLEAN /\ (Info[Inner].tag = "UDT" /\ b => Len(details) < MaxNesting)
    BY <1>3 DEF MayNest
  <2>4. ~Pushes(c) /\ ~InArray(c) /\ ~Pushes(Top)
    BY <2>1, <2>2 DEF Pushes, InArray
  <2>5. Inner \in DOMAIN Info
    BY <1>3, <2>1
  <2> HIDE DEF c, b
  <2>6. Len(details) = Len(details) - (IF Pushes(Top) THEN 1 ELSE 0) + (IF Pushes(c) THEN 1 ELSE 0)
    BY <1>1, <2>4
  <2>7. Stack(Append(Append(Front(calls), c), Activation(Inner, Top.addr, b)), details)
    BY <1>1, <1>2, <1>3, <1>4, <2>2, <2>3, <2>4, <2>5, <2>6, CallStep
  <2> QED
    BY <2>1, <2>7
<1>11. CASE Array
  <2> DEFINE c == [Top EXCEPT !.at = "first"]
             es == WithChildren(details)
  <2>1. /\ details' = es /\ Type.inner # {} /\ Top.at = "enter"
        /\ calls' = Append(Append(Front(calls), c), Activation(Inner, Top.addr, FALSE))
    BY <1>11 DEF Array, Entered, At, Call
  <2>2. c \in Activations /\ c.at = "first" /\ c.type = Top.type /\ c.logChildren = Top.logChildren
    <3>1. "first" \in Places
      BY DEF Places
    <3> QED
      BY <1>3, <3>1, PlacedFacts
  <2>3. /\ es \in Seq(Details) /\ Len(es) = Len(details) /\ Keeps(details, es) /\ Parents(es)
        /\ es[Len(details)].hasChildren
    BY <1>1, WithChildrenFacts
  <2>4. ~Pushes(c) /\ ~Pushes(Top)
    BY <2>1, <2>2 DEF Pushes
  <2>5. Inner \in DOMAIN Info
    BY <1>3, <2>1
  <2> HIDE DEF c, es
  <2>6. Len(es) = Len(details) - (IF Pushes(Top) THEN 1 ELSE 0) + (IF Pushes(c) THEN 1 ELSE 0)
    BY <1>1, <2>3, <2>4
  <2>7. es[Len(details) - (IF Pushes(Top) THEN 1 ELSE 0)].hasChildren
    BY <1>1, <2>3, <2>4
  <2>8. Stack(Append(Append(Front(calls), c), Activation(Inner, Top.addr, FALSE)), es)
    BY <1>2, <1>3, <2>1, <2>2, <2>3, <2>5, <2>6, <2>7, CallStep
  <2> QED
    BY <2>1, <2>3, <2>8
<1>12. CASE ArrayCounted
  <2>1. /\ Cleared(details) \in Seq(Details) /\ Len(Cleared(details)) = Len(details)
        /\ Keeps(details, Cleared(details)) /\ Parents(Cleared(details))
    BY <1>1, ClearedFacts
  <2>2. Top.at = "first"
    BY <1>12 DEF ArrayCounted, At
  <2>3. ~Pushes(Top) /\ InArray(Top)
    BY <2>2 DEF Pushes, InArray
  <2>4. CASE details' = WithValue(Cleared(details)) /\ Return(TRUE)
    <3> DEFINE ds == Cleared(details)
               es == WithValue(ds)
    <3> HIDE DEF ds
    <3>1. ds \in Seq(Details) /\ Len(ds) = Len(details) /\ Keeps(details, ds) /\ Parents(ds) /\ ds # <<>>
      BY <1>1, <2>1 DEF ds
    <3>2. es \in Seq(Details) /\ Len(es) = Len(ds) /\ Keeps(ds, es) /\ Parents(es)
      BY <3>1, WithValueFacts
    <3> HIDE DEF es
    <3>3. Keeps(details, es)
      BY <1>1, <3>1, <3>2, KeepsBoth
    <3>4. details' = es /\ calls' = Front(calls)
      BY <2>4 DEF es, ds, Return
    <3> QED
      BY <1>5, <2>3, <3>1, <3>2, <3>3, <3>4
  <2>5. CASE /\ details' = Cleared(details)
             /\ \E count \in IF Type.count = -1 THEN 0 .. MaxElements ELSE {Type.count} :
                   GoOn([Top EXCEPT !.at = "elements", !.n = IF count < MaxElements THEN count ELSE MaxElements])
    <3>1. PICK count \in IF Type.count = -1 THEN 0 .. MaxElements ELSE {Type.count} :
             GoOn([Top EXCEPT !.at = "elements", !.n = IF count < MaxElements THEN count ELSE MaxElements])
      BY <2>5
    <3> DEFINE k == IF count < MaxElements THEN count ELSE MaxElements
               c == [Top EXCEPT !.at = "elements", !.n = k]
    <3>2. k \in Int
      BY <1>3, <3>1, InfoAssumption
    <3>3. calls' = Append(Front(calls), c)
      BY <3>1 DEF GoOn
    <3> HIDE DEF k
    <3>4. c \in Activations /\ c.at = "elements" /\ c.type = Top.type /\ c.logChildren = Top.logChildren
      <4>1. "elements" \in Places
        BY DEF Places
      <4> QED
        BY <1>3, <3>2, <4>1 DEF Activations
    <3>5. ~Pushes(c)
      BY <3>4 DEF Pushes
    <3> HIDE DEF c
    <3>6. Len(Cleared(details)) = Len(details) - (IF Pushes(Top) THEN 1 ELSE 0) + (IF Pushes(c) THEN 1 ELSE 0)
      BY <1>1, <2>1, <2>3, <3>5
    <3>7. Stack(Append(Front(calls), c), Cleared(details))
      BY <1>2, <2>1, <2>3, <3>4, <3>6, GoOnStep
    <3> QED
      BY <2>1, <2>5, <3>3, <3>7
  <2> QED
    BY <1>12, <2>4, <2>5 DEF ArrayCounted, Cleared
<1>13. CASE ArrayElement
  <2>1. Top.at = "elements"
    BY <1>13 DEF ArrayElement, At
  <2>2. ~Pushes(Top) /\ InArray(Top)
    BY <2>1 DEF Pushes, InArray
  <2>3. Type.inner # {} /\ details[Len(details)].hasChildren /\ Inner \in DOMAIN Info
    BY <1>1, <1>3, <2>2
  <2>4. ~empty(details[Len(details)])
    BY <2>3 DEF empty
  <2> DEFINE ps == PushSymbolDetail(details)
  <2>5. ps \in Seq(Details) /\ Len(ps) = Len(details) + 1 /\ Keeps(details, ps) /\ Parents(ps)
    BY <1>1, <2>4, PushFacts
  <2> HIDE DEF ps
  <2>6. CASE Top.index = 1
    <3> DEFINE vs == WithValue(ps)
               es == PopSymbolDetail(vs)
               c == [Top EXCEPT !.index = @ + 1]
    <3>1. details' = es /\ calls' = Append(Front(calls), c)
      BY <1>13, <2>6 DEF ArrayElement, GoOn, ps
    <3>2. vs \in Seq(Details) /\ Len(vs) = Len(ps) /\ Keeps(ps, vs) /\ Parents(vs)
      BY <1>1, <2>5, WithValueFacts
    <3> HIDE DEF vs
    <3>3. Keeps(details, vs) /\ vs # <<>>
      BY <1>1, <2>5, <3>2, KeepsBoth
    <3>4. es \in Seq(Details) /\ Len(es) = Len(vs) - 1 /\ Keeps(vs, es) /\ Parents(es)
      BY <3>2, <3>3, PopFacts
    <3> HIDE DEF es
    <3>5. Keeps(details, es) /\ Len(es) = Len(details)
      BY <1>1, <2>5, <3>2, <3>3, <3>4, KeepsBoth
    <3>6. c \in Activations /\ c.at = "elements" /\ c.type = Top.type /\ c.logChildren = Top.logChildren
      BY <1>3, <2>1 DEF Activations
    <3>7. ~Pushes(c)
      BY <3>6 DEF Pushes
    <3> HIDE DEF c
    <3>8. Len(es) = Len(details) - (IF Pushes(Top) THEN 1 ELSE 0) + (IF Pushes(c) THEN 1 ELSE 0)
      BY <1>1, <2>2, <3>5, <3>7
    <3>9. Stack(Append(Front(calls), c), es)
      BY <1>2, <2>2, <3>4, <3>5, <3>6, <3>8, GoOnStep
    <3> QED
      BY <3>1, <3>4, <3>9
  <2>7. CASE Top.index # 1
    <3> DEFINE c == [Top EXCEPT !.at = "element"]
               a == Top.addr + Info[Inner].size * (Top.index - 1)
    <3>1. details' = ps /\ calls' = Append(Append(Front(calls), c), Activation(Inner, a, FALSE))
      BY <1>13, <2>7 DEF ArrayElement, Call, ps
    <3>2. c \in Activations /\ c.at = "element" /\ c.type = Top.type /\ c.logChildren = Top.logChildren
      <4>1. "element" \in Places
        BY DEF Places
      <4> QED
        BY <1>3, <4>1, PlacedFacts
    <3>3. a \in Int
      <4>1. Info[Inner].size \in Int
        BY <2>3, InfoAssumption
      <4>2. Top.index - 1 \in Int
        BY <1>3
      <4>3. Info[Inner].size * (Top.index - 1) \in Int
        BY <4>1, <4>2
      <4> QED
        BY <1>3, <4>3
    <3>4. Pushes(c)
      BY <3>2 DEF Pushes
    <3> HIDE DEF c, a
    <3>5. Len(ps) = Len(details) - (IF Pushes(Top) THEN 1 ELSE 0) + (IF Pushes(c) THEN 1 ELSE 0)
      BY <1>1, <2>2, <2>5, <3>4
    <3>6. Stack(Append(Append(Front(calls), c), Activation(Inner, a, FALSE)), ps)
      BY <1>2, <2>2, <2>3, <2>5, <3>2, <3>3, <3>5, CallStep
    <3> QED
      BY <2>5, <3>1, <3>6
  <2> QED
    BY <2>6, <2>7
\* An element or a child is shown: its detail is popped.
<1>14. ASSUME NEW c \in Activations, c.type = Top.type, c.logChildren = Top.logChildren, Pushes(Top),
              c.at = "children" \/ (c.at = "elements" /\ InArray(Top)),
              details' = PopSymbolDetail(IF handled THEN details ELSE WithValue(details)),
              calls' = Append(Front(calls), c)
       PROVE  Stack(calls', details') /\ Parents(details')
  <2> DEFINE vs == IF handled THEN details ELSE WithValue(details)
             es == PopSymbolDetail(vs)
  <2>1. vs \in Seq(Details) /\ Len(vs) = Len(details) /\ Keeps(details, vs) /\ Parents(vs)
    BY <1>1, <1>4, WithValueFacts
  <2> HIDE DEF vs
  <2>2. vs # <<>>
    BY <1>1, <2>1
  <2>3. es \in Seq(Details) /\ Len(es) = Len(vs) - 1 /\ Keeps(vs, es) /\ Parents(es)
    BY <2>1, <2>2, PopFacts
  <2> HIDE DEF es
  <2>4. Keeps(details, es)
    BY <1>1, <2>1, <2>3, KeepsBoth
  <2>5. ~Pushes(c) /\ (InArray(c) => InArray(Top))
    BY <1>14 DEF Pushes, InArray
  <2>6. Len(es) = Len(details) - (IF Pushes(Top) THEN 1 ELSE 0) + (IF Pushes(c) THEN 1 ELSE 0)
    BY <1>1, <1>14, <2>1, <2>3, <2>5
  <2>7. Stack(Append(Front(calls), c), es)
    BY <1>2, <1>14, <2>3, <2>4, <2>5, <2>6, GoOnStep
  <2>8. details' = es
    BY <1>14 DEF es, vs
  <2> QED
    BY <1>14, <2>3, <2>7, <2>8
<1>15. CASE ArrayElementShown
  <2> DEFINE c == [Top EXCEPT !.at = "elements", !.index = @ + 1]
  <2>1. c \in Activations /\ c.at = "elements" /\ c.type = Top.type /\ c.logChildren = Top.logChildren
    <3>1. "elements" \in Places
      BY DEF Places
    <3>2. Top.index + 1 \in Nat \ {0}
      BY <1>3
    <3>3. c \in Activations
      BY <1>3, <3>1, <3>2 DEF Activations
    <3> QED
      BY <1>3, <3>3 DEF Activations
  <2>2. Pushes(Top) /\ InArray(Top)
    BY <1>15 DEF ArrayElementShown, At, Pushes, InArray
  <2>3. /\ details' = PopSymbolDetail(IF handled THEN details ELSE WithValue(details))
        /\ calls' = Append(Front(calls), c)
    BY <1>15 DEF ArrayElementShown, GoOn
  <2> HIDE DEF c
  <2> QED
    BY <1>14, <2>1, <2>2, <2>3
<1>16. CASE ChildShown
  <2> DEFINE c == [Top EXCEPT !.at = "children", !.index = @ + 1]
  <2>1. c \in Activations /\ c.at = "children" /\ c.type = Top.type /\ c.logChildren = Top.logChildren
    <3>1. "children" \in Places
      BY DEF Places
    <3>2. Top.index + 1 \in Nat \ {0}
      BY <1>3
    <3>3. c \in Activations
      BY <1>3, <3>1, <3>2 DEF Activations
    <3> QED
      BY <1>3, <3>3 DEF Activations
  <2>2. Pushes(Top)
    BY <1>16 DEF ChildShown, At, Pushes
  <2>3. /\ details' = PopSymbolDetail(IF handled THEN details ELSE WithValue(details))
        /\ calls' = Append(Front(calls), c)
    BY <1>16 DEF ChildShown, GoOn
  <2> HIDE DEF c
  <2> QED
    BY <1>14, <2>1, <2>2, <2>3
<1>17. ASSUME NEW c \in Activations, c.at = "children", c.type = Top.type, c.logChildren = Top.logChildren,
              ~Pushes(Top), UNCHANGED details, calls' = Append(Front(calls), c)
       PROVE  Stack(calls', details') /\ Parents(details')
  <2>1. ~Pushes(c) /\ ~InArray(c)
    BY <1>17 DEF Pushes, InArray
  <2>2. Len(details) = Len(details) - (IF Pushes(Top) THEN 1 ELSE 0) + (IF Pushes(c) THEN 1 ELSE 0)
    BY <1>1, <1>17, <2>1
  <2>3. Stack(Append(Front(calls), c), details)
    BY <1>1, <1>2, <1>4, <1>17, <2>1, <2>2, GoOnStep
  <2> QED
    BY <1>17, <2>3
<1>18. CASE Other
  <2> DEFINE c == [Top EXCEPT !.at = "children"]
  <2>1. c \in Activations /\ c.at = "children" /\ c.type = Top.type /\ c.logChildren = Top.logChildren
    <3>1. "children" \in Places
      BY DEF Places
    <3> QED
      BY <1>3, <3>1, PlacedFacts
  <2>2. ~Pushes(Top) /\ UNCHANGED details /\ calls' = Append(Front(calls), c)
    BY <1>18 DEF Other, Entered, At, GoOn, Pushes
  <2> HIDE DEF c
  <2> QED
    BY <1>17, <2>1, <2>2
<1>19. CASE SkipChild
  <2> DEFINE c == [Top EXCEPT !.index = @ + 1]
  <2>1. Top.at = "children" /\ UNCHANGED details /\ calls' = Append(Front(calls), c)
    BY <1>19 DEF SkipChild, At, GoOn
  <2>2. c \in Activations /\ c.at = "children" /\ c.type = Top.type /\ c.logChildren = Top.logChildren
    BY <1>3, <2>1 DEF Activations
  <2>3. ~Pushes(Top)
    BY <2>1 DEF Pushes
  <2> HIDE DEF c
  <2> QED
    BY <1>17, <2>1, <2>2, <2>3
<1>20. CASE DumpChild
  <2> DEFINE ws == WithChildren(details)
  <2>1. Top.at = "children" /\ Top.index <= Len(Type.children)
    BY <1>20 DEF DumpChild, At
  <2>2. ~Pushes(Top)
    BY <2>1 DEF Pushes
  <2>3. /\ ws \in Seq(Details) /\ Len(ws) = Len(details) /\ Keeps(details, ws) /\ Parents(ws)
        /\ ws[Len(details)].hasChildren
    BY <1>1, WithChildrenFacts
  <2>4. Child.type \in DOMAIN Info /\ Child.offset \in Int
    <3> DEFINE R == [type : DOMAIN Info, offset : Int]
    <3>1. PICK ch \in Seq(R) : ch = Type.children
      BY <1>3
    <3> HIDE DEF R
    <3>2. Top.index \in 1 .. Len(ch)
      BY <1>3, <2>1, <3>1
    <3>3. Child \in R
      BY <3>1, <3>2 DEF Child
    <3> QED
      BY <3>3 DEF R
  <2> HIDE DEF ws
  <2>5. CASE ~Top.logChildren
    <3>1. details' = ws /\ calls' = Front(calls)
      BY <1>20, <2>5 DEF DumpChild, Return, ws
    <3> QED
      BY <1>5, <2>2, <2>3, <3>1
  <2>6. CASE Top.logChildren
    <3> DEFINE ps == PushSymbolDetail(ws)
               c == [Top EXCEPT !.at = "child"]
               a == Top.addr + Child.offset
    <3>1. details' = ps /\ calls' = Append(Append(Front(calls), c), Activation(Child.type, a, TRUE))
      BY <1>20, <2>6 DEF DumpChild, Call, ws
    <3>2. ws # <<>> /\ ~empty(ws[Len(ws)])
      BY <1>1, <2>3 DEF empty
    <3>3. ps \in Seq(Details) /\ Len(ps) = Len(ws) + 1 /\ Keeps(ws, ps) /\ Parents(ps)
      BY <2>3, <3>2, PushFacts
    <3> HIDE DEF ps
    <3>4. Keeps(details, ps)
      BY <1>1, <2>3, <3>3, KeepsBoth
    <3>5. c \in Activations /\ c.at = "child" /\ c.type = Top.type /\ c.logChildren = Top.logChildren
      <4>1. "child" \in Places
        BY DEF Places
      <4> QED
        BY <1>3, <4>1, PlacedFacts
    <3>6. a \in Int
      BY <1>3, <2>4
    <3>7. Pushes(c) /\ ~InArray(c)
      BY <3>5 DEF Pushes, InArray
    <3> HIDE DEF c, a
    <3>8. Len(ps) = Len(details) - (IF Pushes(Top) THEN 1 ELSE 0) + (IF Pushes(c) THEN 1 ELSE 0)
      BY <1>1, <2>2, <2>3, <3>3, <3>7
    <3>9. Stack(Append(Append(Front(calls), c), Activation(Child.type, a, TRUE)), ps)
      BY <1>2, <2>4, <3>3, <3>4, <3>5, <3>6, <3>7, <3>8, CallStep
    <3> QED
      BY <3>1, <3>3, <3>9
  <2> QED
    BY <2>5, <2>6
<1> QED
  BY <1>6, <1>7, <1>8, <1>9, <1>10, <1>11, <1>12, <1>13, <1>15, <1>16, <1>18, <1>19, <1>20 DEF DumpTypeIndex

-----------------------------------------------------------------------------
(* The callback                                                            *)

LEMMA NoDetails == <<>> \in Seq(Details) /\ Parents(<<>>)
<1>1. Len(<<>>) = 0 /\ <<>> \in Seq(Details)
  OBVIOUS
<1>2. 1 .. 0 - 1 = {}
  OBVIOUS
<1> QED
  BY <1>1, <1>2 DEF Parents

LEMMA CallbackInv ==
    ASSUME NEW s \in Symbol, EnumerateSymbolsCallback(s)
    PROVE  DumpInv'
<1>1. s.type \in DOMAIN Info /\ s.addr \in Int
  BY DEF Symbol
<1>2. CASE s.kind = "variable"
  <2> DEFINE d == Activation(s.type, s.addr, TRUE)
  <2>1. d \in Activations /\ d.at = "enter"
    BY <1>1, ActivationFacts
  <2>2. dumping' = TRUE /\ details' = PushSymbolDetail(<<>>) /\ calls' = <<d>>
    BY <1>2 DEF EnumerateSymbolsCallback
  <2> HIDE DEF d
  <2>3. details' = <<SymbolDetail>> /\ SymbolDetail \in Details
    BY <2>2 DEF PushSymbolDetail, PrintSymbolDetail, SymbolDetail, Details
  <2>4. <<SymbolDetail>> \in Seq(Details) /\ Len(<<SymbolDetail>>) = 1
    BY <2>3
  <2>5. <<>> \in Seq(Activations) /\ Len(<<>>) = 0
    OBVIOUS
  <2>6. Stack(<<>>, <<SymbolDetail>>)
    BY <2>4, <2>5, LevelZero DEF Stack
  <2>7. Stack(Append(<<>>, d), <<SymbolDetail>>)
    BY <2>1, <2>6, Called
  <2>8. Append(<<>>, d) = <<d>>
    OBVIOUS
  <2>9. Parents(<<SymbolDetail>>)
    BY <2>4 DEF Parents
  <2> QED
    BY <2>2, <2>3, <2>4, <2>7, <2>8, <2>9 DEF DumpInv
<1>3. CASE s.kind # "variable"
  <2>1. dumping' = FALSE /\ details' = <<>> /\ calls' = <<>>
    BY <1>3 DEF EnumerateSymbolsCallback
  <2> QED
    BY <2>1, NoDetails DEF DumpInv
<1> QED
  BY <1>2, <1>3

LEMMA DumpStepInv ==
    ASSUME DumpInv, DumpStep
    PROVE  DumpInv'
<1>1. details \in Seq(Details) /\ Parents(details)
  BY DEF DumpInv
<1>2. CASE DumpTypeIndex
  <2>1. calls # <<>> /\ UNCHANGED dumping
    BY <1>2 DEF DumpTypeIndex, Unknown, StdString, AlreadyStored, Pointer, PointerShown, Data, Array,
       ArrayCounted, ArrayElement, ArrayElementShown, ArrayShown, Enum, Other, NoChildren,
       SkipChild, DumpChild, ChildShown, ChildrenShown, Entered, At
  <2>2. dumping = TRUE /\ Stack(calls, details)
    BY <2>1 DEF DumpInv
  <2>3. Stack(calls', details') /\ Parents(details')
    BY <1>1, <1>2, <2>2, DumpTypeIndexInv
  <2> QED
    BY <2>1, <2>2, <2>3 DEF DumpInv, Stack
<1>3. CASE FormatSymbolValueEnds
  <2>1. dumping /\ calls = <<>> /\ Stack(calls, details)
    BY <1>3 DEF FormatSymbolValueEnds, DumpInv
  <2>2. details # <<>>
    BY <2>1, StackFacts
  <2> DEFINE vs == IF handled THEN details ELSE WithValue(details)
  <2>3. vs \in Seq(Details) /\ Len(vs) = Len(details) /\ Parents(vs)
    BY <1>1, <2>2, WithValueFacts
  <2>4. dumping' = FALSE /\ details' = PopSymbolDetail(vs) /\ UNCHANGED calls
    BY <1>3 DEF FormatSymbolValueEnds
  <2> HIDE DEF vs
  <2>5. vs # <<>>
    BY <1>1, <2>2, <2>3
  <2>6. PopSymbolDetail(vs) \in Seq(Details) /\ Parents(PopSymbolDetail(vs))
    BY <2>3, <2>5, PopFacts
  <2> QED
    BY <2>1, <2>4, <2>6 DEF DumpInv
<1>4. CASE Punt
  BY <1>1, <1>4 DEF Punt, DumpInv
<1> QED
  BY <1>2, <1>3, <1>4 DEF DumpStep

-----------------------------------------------------------------------------
(* The report                                                              *)

LEMMA InitInv == Init => Inv
<1> SUFFICES ASSUME Init PROVE Inv
  OBVIOUS
<1>1. DumpInv
  BY NoDetails DEF Init, DumpInit, DumpInv
<1>2. ReportInv
  BY DEF Init, ReportInv, Threaded, OneFilter, OpenInFilter, EndedByReturn
<1> QED
  BY <1>1, <1>2 DEF Inv, Init

\* What a step does to the dump.
LEMMA NextDump ==
    ASSUME Inv, Next
    PROVE  DumpInv' /\ unseen' \in Seq(Symbol)
<1>1. DumpInv /\ unseen \in Seq(Symbol)
  BY DEF Inv
<1>2. Symbols \in Seq(Symbol)
  BY InfoAssumption DEF Symbol
<1>3. ASSUME UNCHANGED dumpVars
      PROVE  DumpInv'
  BY <1>1, <1>3 DEF dumpVars, DumpInv
<1>4. PICK t \in Threads : Raise(t) \/ Error(t) \/ Crash(t) \/ Filter(t) \/ Report(t) \/ EndProcess(t)
  BY DEF Next
<1>5. CASE Raise(t) \/ Error(t) \/ Crash(t) \/ Filter(t) \/ EndProcess(t)
  <2>1. UNCHANGED dumpVars /\ UNCHANGED unseen
    BY <1>5 DEF Raise, Error, Crash, Filter, EndProcess, reportVars
  <2> QED
    BY <1>1, <1>3, <2>1
<1>6. CASE Report(t)
  <2>1. CASE FolderFails(t) \/ Files(t) \/ Banner(t) \/ WalkEnds(t) \/ Snapshot(t) \/ NextStack(t)
             \/ StacksEnd(t) \/ BreakOff(t) \/ Close(t)
    <3>1. UNCHANGED dumpVars /\ UNCHANGED unseen
      BY <2>1 DEF FolderFails, Files, Banner, WalkEnds, Snapshot, NextStack, StacksEnd, BreakOff, Close
    <3> QED
      BY <1>1, <1>3, <3>1
  <2>2. CASE WalkFrame(t)
    <3>1. UNCHANGED dumpVars /\ (unseen' = unseen \/ unseen' = Symbols)
      BY <2>2 DEF WalkFrame
    <3> QED
      BY <1>1, <1>2, <1>3, <3>1
  <2>3. CASE Enumerate(t)
    <3>1. CASE unseen # <<>>
      <4>1. EnumerateSymbolsCallback(Head(unseen)) /\ unseen' = Tail(unseen)
        BY <2>3, <3>1 DEF Enumerate
      <4>2. Head(unseen) \in Symbol /\ Tail(unseen) \in Seq(Symbol)
        BY <1>1, <3>1, HeadTailProperties
      <4> QED
        BY <4>1, <4>2, CallbackInv
    <3>2. CASE unseen = <<>>
      <4>1. UNCHANGED dumpVars /\ UNCHANGED unseen
        BY <2>3, <3>2 DEF Enumerate
      <4> QED
        BY <1>1, <1>3, <4>1
    <3> QED
      BY <3>1, <3>2
  <2>4. CASE ShowSymbol(t)
    <3>1. DumpStep /\ UNCHANGED unseen
      BY <2>4 DEF ShowSymbol, reportVars
    <3> QED
      BY <1>1, <3>1, DumpStepInv
  <2> QED
    BY <1>6, <2>1, <2>2, <2>3, <2>4 DEF Report
<1> QED
  BY <1>4, <1>5, <1>6

\* What a step does to the report: the filter's lock keeps the others out.
LEMMA NextReport ==
    ASSUME ReportInv, Next
    PROVE  ReportInv'
<1> USE DEF Threaded, Becomes
<1>1. Threaded /\ OneFilter /\ OpenInFilter /\ EndedByReturn
  BY DEF ReportInv
<1>2. ~ended /\ \E t \in Threads : Raise(t) \/ Error(t) \/ Crash(t) \/ Filter(t) \/ Report(t) \/ EndProcess(t)
  BY DEF Next
<1>3. PICK t \in Threads : Raise(t) \/ Error(t) \/ Crash(t) \/ Filter(t) \/ Report(t) \/ EndProcess(t)
  BY <1>2
<1>4. CASE Raise(t) \/ Error(t) \/ Crash(t)
  <2>1. /\ thread[t] \in {"running", "sleeping"}
        /\ \E w \in {"raised", "sleeping"} : thread' = [thread EXCEPT ![t] = w]
        /\ UNCHANGED <<alreadyCrashed, reportFile, step, ended>>
    BY <1>4 DEF Raise, Error, Crash, reportVars
  <2>2. PICK w \in {"raised", "sleeping"} : thread' = [thread EXCEPT ![t] = w]
    BY <2>1
  <2>3. /\ Threaded'
        /\ \A u \in Threads : /\ thread'[u] = "filter" <=> thread[u] = "filter"
                              /\ thread'[u] = "returned" <=> thread[u] = "returned"
    BY <1>1, <2>1, <2>2
  <2> QED
    BY <1>1, <2>1, <2>3 DEF ReportInv, OneFilter, OpenInFilter, EndedByReturn
<1>5. CASE Filter(t)
  <2>1. /\ thread[t] = "raised" /\ \A u \in Threads : thread[u] # "filter"
        /\ alreadyCrashed' = TRUE /\ UNCHANGED <<reportFile, ended>>
    BY <1>5 DEF Filter, LockFree
  <2>2. CASE alreadyCrashed
    <3>1. thread' = [thread EXCEPT ![t] = "returned"] /\ UNCHANGED step
      BY <1>5, <2>2 DEF Filter
    <3> QED
      BY <1>1, <2>1, <2>2, <3>1 DEF ReportInv, OneFilter, OpenInFilter, EndedByReturn
  <2>3. CASE ~alreadyCrashed
    <3>1. thread' = [thread EXCEPT ![t] = "filter"] /\ step' = "folder"
      BY <1>5, <2>3 DEF Filter
    <3> QED
      BY <1>1, <2>1, <2>3, <3>1 DEF ReportInv, OneFilter, OpenInFilter, EndedByReturn
  <2> QED
    BY <2>2, <2>3
<1>6. CASE Report(t)
  <2>1. thread[t] = "filter" /\ alreadyCrashed /\ \A u \in Threads : thread[u] = "filter" => u = t
    BY <1>1, <1>6 DEF Report, OneFilter
  <2>2. CASE FolderFails(t) \/ Close(t)
    <3>1. /\ thread' = [thread EXCEPT ![t] = "returned"] /\ step' = "none"
          /\ UNCHANGED <<alreadyCrashed, ended>>
          /\ \/ step = "folder" /\ UNCHANGED reportFile
             \/ reportFile' = "closed"
      BY <2>2 DEF FolderFails, Close
    <3>2. reportFile' # "open"
      BY <1>1, <3>1 DEF OpenInFilter
    <3> QED
      BY <1>1, <1>2, <2>1, <3>1, <3>2 DEF ReportInv, OneFilter, OpenInFilter, EndedByReturn
  <2>3. CASE Files(t) \/ Banner(t) \/ WalkFrame(t) \/ WalkEnds(t) \/ Enumerate(t) \/ ShowSymbol(t)
             \/ Snapshot(t) \/ NextStack(t) \/ StacksEnd(t) \/ BreakOff(t)
    <3>1. /\ UNCHANGED <<thread, alreadyCrashed, ended>>
          /\ step' # "folder"
      BY <2>3 DEF Files, Banner, WalkFrame, WalkEnds, Enumerate, ShowSymbol, Snapshot, NextStack,
         StacksEnd, BreakOff, reportVars
    <3> QED
      BY <1>1, <2>1, <3>1 DEF ReportInv, OneFilter, OpenInFilter, EndedByReturn
  <2> QED
    BY <1>6, <2>2, <2>3 DEF Report
<1>7. CASE EndProcess(t)
  <2>1. thread[t] = "returned" /\ ended' = TRUE /\ UNCHANGED <<thread, alreadyCrashed, reportFile, step>>
    BY <1>7 DEF EndProcess, reportVars
  <2> QED
    BY <1>1, <2>1 DEF ReportInv, OneFilter, OpenInFilter, EndedByReturn
<1> QED
  BY <1>3, <1>4, <1>5, <1>6, <1>7

THEOREM Invariant == Spec => []Inv
<1>1. Inv /\ [Next]_vars => Inv'
  <2> SUFFICES ASSUME Inv, [Next]_vars PROVE Inv'
    OBVIOUS
  <2>1. CASE Next
    BY <2>1, NextDump, NextReport DEF Inv
  <2>2. CASE UNCHANGED vars
    BY <2>2 DEF vars, reportVars, dumpVars, Inv, DumpInv, ReportInv, Threaded, OneFilter, OpenInFilter,
       EndedByReturn
  <2> QED
    BY <2>1, <2>2
<1> QED
  BY InitInv, <1>1, PTL DEF Spec

-----------------------------------------------------------------------------
(* The properties                                                          *)

\* However many threads crash, and whatever they do while the report is being
\* written, the process never ends with the report file open: HandleException
\* keeps the lock from the first crash until the report is closed, and the
\* system ends the process only for a thread that the filter has let go.
THEOREM ReportCorrect == Spec => []ReportWhole
<1>1. Inv => ReportWhole
  BY DEF Inv, ReportInv, OneFilter, OpenInFilter, EndedByReturn, ReportWhole
<1> QED
  BY <1>1, Invariant, PTL

\* For whatever types, objects and pointers there are, DumpTypeIndex opens no
\* class at WER_MAX_NESTING_LEVEL, and symbolDetails is deeper only by what the
\* class opened last shows of itself.
THEOREM NestingCorrect == Spec => []NestingBounded
<1>1. Inv => NestingBounded
  <2> SUFFICES ASSUME Inv, dumping, NEW i \in DOMAIN calls, Limited(i)
               PROVE  Len(details) < MaxNesting + Cardinality(Pushing(i))
    BY DEF NestingBounded
  <2>1. Stack(calls, details)
    BY DEF Inv, DumpInv
  <2>2. calls \in Seq(Activations) /\ Len(details) = Level(calls, Len(calls)) /\ Len(calls) \in Nat
    BY <2>1, StackFacts
  <2>3. i \in Nat \ {0} /\ i <= Len(calls) /\ i \in 1 .. Len(calls)
    BY <2>2
  <2>4. Pushing(i) = {j \in i .. Len(calls) : Pushes(calls[j])}
    BY DEF Pushing, Pushes
  <2>5. /\ Cardinality(Pushing(i)) \in Nat
        /\ Len(details) = Level(calls, i - 1) + Cardinality(Pushing(i))
    BY <2>2, <2>3, <2>4, LevelSplit
  <2>6. Level(calls, i - 1) < MaxNesting
    <3>1. CASE i = 1
      BY <3>1, LevelZero, InfoAssumption
    <3>2. CASE i # 1
      <4>1. ClassOpen(calls, i)
        BY <2>1, <2>3 DEF Stack
      <4> QED
        BY <3>2, <4>1 DEF ClassOpen, Limited
    <3> QED
      BY <3>1, <3>2
  <2>7. Level(calls, i - 1) \in Nat
    <3>1. i - 1 \in Nat
      BY <2>3
    <3> QED
      BY <3>1, LevelType
  <2>8. MaxNesting \in Nat
    BY InfoAssumption
  <2> QED
    BY <2>5, <2>6, <2>7, <2>8
<1> QED
  BY <1>1, Invariant, PTL

\* PushSymbolDetail always finds a detail with a value or children: the line of
\* everything a member or an element is part of is written before its own, also
\* behind a dump that an exception broke off.
THEOREM ParentsCorrect == Spec => []ParentsFirst
<1>1. Inv => ParentsFirst
  BY DEF Inv, DumpInv, Parents, ParentsFirst
<1> QED
  BY <1>1, Invariant, PTL
=============================================================================
