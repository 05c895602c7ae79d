--------------------------- MODULE SendQueueProofs ---------------------------
(***************************************************************************)
(* What holds of SendQueue for any number of frames and any capacity, and  *)
(* that it implements FrameChannel.  The channel forgets order and partial *)
(* writes: a pop and a failed send are stutters, a push into a queue with  *)
(* room is an Accept, a whole write a Deliver.                             *)
(***************************************************************************)
EXTENDS SendQueue, SequenceTheorems, FiniteSetTheorems, TLAPS

-----------------------------------------------------------------------------
(* Sequences of one element. *)

LEMMA Singleton ==
    ASSUME NEW S, NEW s \in Seq(S), Len(s) <= 1, s # <<>>
    PROVE  /\ s[1] \in S
           /\ s = <<s[1]>>
           /\ Range(s) = {s[1]}
           /\ Len(s) = 1
<1>1. Len(s) = 1
  <2>1. Len(s) \in Nat
    BY LenProperties
  <2>2. Len(s) # 0
    BY EmptySeq
  <2> QED BY <2>1, <2>2
<1>2. s[1] \in S
  BY <1>1, ElementOfSeq
<1>3. s = <<s[1]>>
  BY <1>1, <1>2, SeqEqual
<1>4. Range(s) = {s[1]}
  BY <1>1, RangeEquality
<1> QED BY <1>1, <1>2, <1>3, <1>4

LEMMA RangeOfOne ==
    ASSUME NEW e
    PROVE  Range(<<e>>) = {e}
BY DEF Range

LEMMA RangeOfAppend ==
    ASSUME NEW S, NEW s \in Seq(S), NEW e \in S
    PROVE  Range(Append(s, e)) = Range(s) \cup {e}
<1>1. <<e>> \in Seq(S)
  OBVIOUS
<1>2. Append(s, e) = s \o <<e>>
  BY AppendIsConcat
<1>3. Range(s \o <<e>>) = Range(s) \cup Range(<<e>>)
  BY <1>1, RangeConcatenation
<1> QED BY <1>2, <1>3, RangeOfOne

LEMMA RangeOfTail ==
    ASSUME NEW S, NEW s \in Seq(S), s # <<>>
    PROVE  Range(s) = {Head(s)} \cup Range(Tail(s))
<1>1. s = <<Head(s)>> \o Tail(s)
  OBVIOUS
<1>2. <<Head(s)>> \in Seq(S) /\ Tail(s) \in Seq(S)
  BY HeadTailProperties
<1>3. Range(<<Head(s)>> \o Tail(s)) = Range(<<Head(s)>>) \cup Range(Tail(s))
  BY <1>2, RangeConcatenation
<1> QED BY <1>1, <1>3, RangeOfOne

LEMMA RangeOfEmpty == Range(<<>>) = {}
  BY DEF Range

-----------------------------------------------------------------------------
(* Types and the bound of the queue.  QueueBounded is not inductive alone: a  *)
(* failed item is pushed back without a test for room, which is safe because  *)
(* nobody else can have taken its place while the drain holds the mutex.      *)

MutexInv == ~locked => retries = 0 /\ inFlight = <<>>

Inv ==
    /\ TypeOK
    /\ QueueBounded
    /\ retries <= Len(sendQueue)
    /\ MutexInv

LEMMA InitInv == Init => Inv
<1>1. <<>> \in Seq(Items) /\ Len(<<>>) = 0
  BY EmptySeq
<1>2. Init => sendQueue = <<>> /\ Len(sendQueue) = 0 /\ inFlight = <<>> /\ Len(inFlight) = 0
  BY <1>1 DEF Init
<1>3. Init => TypeOK
  <2>1. Init => Len(inFlight) <= 1 /\ retries \in 0..MAX_SEND_QUEUE
    BY <1>1, CapacityAssumption DEF Init
  <2>2. Init => locked \in BOOLEAN /\ overtaken \in BOOLEAN /\ dropped \subseteq Items
                /\ torn \subseteq Items
    BY DEF Init
  <2> QED BY <1>1, <2>1, <2>2 DEF Init, TypeOK
<1> QED BY <1>2, <1>3, CapacityAssumption DEF Init, Inv, QueueBounded, MutexInv

LEMMA NextInv == Inv /\ [Next]_vars => Inv'
<1> SUFFICES ASSUME Inv, [Next]_vars PROVE Inv'
  OBVIOUS
<1> USE CapacityAssumption
<1>1. ASSUME NEW i \in Items, Push(i) PROVE Inv'
  <2>1. CASE HasRoom
    <3>1. sendQueue' = Append(sendQueue, i) /\ accepted' = Append(accepted, i)
          /\ UNCHANGED <<locked, retries, inFlight, dropped, sent, torn, overtaken>>
      BY <1>1, <2>1 DEF Push
    <3>2. inFlight = <<>> /\ Len(sendQueue) < MAX_SEND_QUEUE
      BY <1>1, <2>1 DEF Push, MayLock, HasRoom, Inv, MutexInv
    <3> QED BY <3>1, <3>2, AppendProperties
            DEF Inv, TypeOK, QueueBounded, MutexInv
  <2>2. CASE ~HasRoom
    <3>1. dropped' = dropped \cup {i}
          /\ UNCHANGED <<sendQueue, accepted, locked, retries, inFlight, sent, torn, overtaken>>
      BY <1>1, <2>2 DEF Push
    <3> QED BY <3>1 DEF Inv, TypeOK, QueueBounded, MutexInv
  <2> QED BY <2>1, <2>2
<1>2. CASE BeginDrain
  BY <1>2 DEF BeginDrain, history, Inv, TypeOK, QueueBounded, MutexInv
<1>3. CASE Pop
  <2>1. sendQueue # <<>> /\ retries < Len(sendQueue) /\ inFlight = <<>> /\ locked
    BY <1>3 DEF Pop, KeepDraining
  <2>2. sendQueue' = Tail(sendQueue) /\ inFlight' = <<Head(sendQueue)>>
        /\ UNCHANGED <<locked, retries, history, sent, torn, overtaken>>
    BY <1>3 DEF Pop
  <2>3. sendQueue' \in Seq(Items) /\ Len(sendQueue') = Len(sendQueue) - 1
        /\ inFlight' \in Seq(Items) /\ Len(inFlight') = 1 /\ Len(inFlight) = 0
        /\ Len(sendQueue) \in Nat
    BY <2>1, <2>2, HeadTailProperties DEF Inv, TypeOK
  <2> QED BY <2>1, <2>2, <2>3 DEF history, Inv, TypeOK, QueueBounded, MutexInv
<1>4. CASE SendWhole
  <2>1. sent \o inFlight \in Seq(Items) /\ Len(inFlight) \in Nat /\ Len(sendQueue) \in Nat
    BY ConcatProperties, LenProperties DEF Inv, TypeOK
  <2> QED BY <1>4, <2>1 DEF SendWhole, history, Inv, TypeOK, QueueBounded, MutexInv
<1>5. ASSUME NEW part \in BOOLEAN, SendShort(part) PROVE Inv'
  <2>1. inFlight[1] \in Items /\ Len(inFlight) = 1 /\ Range(inFlight) = {inFlight[1]}
    BY <1>5, Singleton DEF SendShort, Inv, TypeOK
  <2>2. Append(sendQueue, inFlight[1]) \in Seq(Items)
        /\ Len(Append(sendQueue, inFlight[1])) = Len(sendQueue) + 1
        /\ Len(sendQueue) \in Nat
    BY <2>1, AppendProperties DEF Inv, TypeOK
  <2>3. locked
    BY <1>5 DEF SendShort, Inv, MutexInv
  <2>4. /\ sendQueue' = Append(sendQueue, inFlight[1])
        /\ retries' = retries + 1
        /\ inFlight' = <<>>
        /\ UNCHANGED <<locked, accepted, dropped, sent, overtaken>>
    BY <1>5 DEF SendShort, Requeue, RetriesAfterFailure, history
  <2>5. torn' \subseteq Items
    BY <1>5, <2>1 DEF SendShort, Inv, TypeOK
  <2>6. <<>> \in Seq(Items) /\ Len(<<>>) = 0
    BY EmptySeq
  <2>7. TypeOK'
    BY <2>1, <2>2, <2>4, <2>5, <2>6 DEF Inv, TypeOK, QueueBounded
  <2>8. Len(inFlight') = 0 /\ Len(sendQueue') = Len(sendQueue) + 1
    BY <2>2, <2>4, <2>6
  <2>9. QueueBounded' /\ retries' <= Len(sendQueue')
    BY <2>1, <2>2, <2>4, <2>8 DEF Inv, TypeOK, QueueBounded
  <2>10. MutexInv'
    BY <2>3, <2>4 DEF MutexInv
  <2> QED BY <2>7, <2>9, <2>10 DEF Inv
<1>6. CASE EndDrain
  <2>1. /\ locked' = FALSE /\ retries' = 0 /\ inFlight = <<>>
        /\ UNCHANGED <<sendQueue, inFlight, accepted, dropped, sent, torn, overtaken>>
    BY <1>6 DEF EndDrain, history
  <2>2. Len(sendQueue) \in Nat
    BY LenProperties DEF Inv, TypeOK
  <2>3. locked' \in BOOLEAN
    BY <2>1
  <2>4. TypeOK'
    BY <2>1, <2>3, 0 \in 0..MAX_SEND_QUEUE DEF Inv, TypeOK
  <2> QED BY <2>1, <2>2, <2>4 DEF Inv, QueueBounded, MutexInv
<1>7. CASE UNCHANGED vars
  BY <1>7 DEF vars, history, Inv, TypeOK, QueueBounded, MutexInv
<1> QED BY <1>1, <1>2, <1>3, <1>4, <1>5, <1>6, <1>7 DEF Next, Drain

LEMMA SpecInv == Spec => []Inv
  BY InitInv, NextInv, PTL DEF Spec

\* Every variable keeps its type, for any capacity and any set of frames.
THEOREM TypeCorrect == Spec => []TypeOK
  BY SpecInv, PTL DEF Inv

\* sendQueue_ and the item drainSendQueue has popped never exceed MAX_SEND_QUEUE,
\* although a failed item is pushed back without a test for room.
THEOREM Bounded == Spec => []QueueBounded
  BY SpecInv, PTL DEF Inv

-----------------------------------------------------------------------------
(* Conservation of frames. *)

LEMMA InjectiveAppend ==
    ASSUME NEW S, NEW s \in Seq(S), NEW e \in S, IsInjective(s), e \notin Range(s)
    PROVE  IsInjective(Append(s, e))
<1>1. DOMAIN s = 1..Len(s) /\ Len(s) \in Nat
  BY LenProperties
<1>2. DOMAIN Append(s, e) = 1..(Len(s) + 1)
  BY AppendProperties, LenProperties
<1>3. \A j \in 1..Len(s) : Append(s, e)[j] = s[j] /\ s[j] # e
  BY <1>1, AppendProperties DEF Range
<1>4. Append(s, e)[Len(s) + 1] = e
  BY AppendProperties
<1>5. ASSUME NEW j \in 1..(Len(s) + 1), NEW k \in 1..(Len(s) + 1),
             Append(s, e)[j] = Append(s, e)[k]
      PROVE  j = k
  <2>1. CASE j \in 1..Len(s) /\ k \in 1..Len(s)
    BY <1>1, <1>3, <1>5, <2>1 DEF IsInjective
  <2>2. CASE j = Len(s) + 1 /\ k \in 1..Len(s)
    BY <1>3, <1>4, <1>5, <2>2
  <2>3. CASE k = Len(s) + 1 /\ j \in 1..Len(s)
    BY <1>3, <1>4, <1>5, <2>3
  <2>4. CASE j = Len(s) + 1 /\ k = Len(s) + 1
    BY <2>4
  <2> QED BY <1>1, <2>1, <2>2, <2>3, <2>4
<1> QED BY <1>2, <1>5 DEF IsInjective

LEMMA InitConserved == Init => Conserved
<1>1. Len(<<>>) = 0 /\ Range(<<>>) = {} /\ IsInjective(<<>>)
  BY RangeOfEmpty DEF IsInjective
<1> QED BY <1>1 DEF Init, Conserved

LEMMA NextConserved == Inv /\ Conserved /\ [Next]_vars => Conserved'
<1> SUFFICES ASSUME Inv, Conserved, [Next]_vars PROVE Conserved'
  OBVIOUS
<1> USE DEF Inv, TypeOK
<1>0. Len(sendQueue) \in Nat /\ Len(inFlight) \in Nat /\ Len(sent) \in Nat /\ Len(accepted) \in Nat
      /\ Len(<<>>) = 0
  BY LenProperties, EmptySeq
<1>1. ASSUME NEW i \in Items, Push(i) PROVE Conserved'
  <2>1. CASE HasRoom
    <3>1. /\ sendQueue' = Append(sendQueue, i) /\ accepted' = Append(accepted, i)
          /\ UNCHANGED <<inFlight, sent>>
          /\ i \notin Range(accepted)
      BY <1>1, <2>1 DEF Push
    <3>2. IsInjective(accepted')
      BY <3>1, InjectiveAppend DEF Conserved
    <3>3. Range(accepted') = Range(accepted) \cup {i} /\ Range(sendQueue') = Range(sendQueue) \cup {i}
      BY <3>1, RangeOfAppend
    <3>4. Len(accepted') = Len(accepted) + 1 /\ Len(sendQueue') = Len(sendQueue) + 1
      BY <3>1, AppendProperties
    <3>5. Range(accepted') = Range(sent') \cup Range(inFlight') \cup Range(sendQueue')
      BY <3>1, <3>3 DEF Conserved
    <3> QED BY <1>0, <3>1, <3>2, <3>4, <3>5 DEF Conserved
  <2>2. CASE ~HasRoom
    BY <1>1, <2>2 DEF Push, Conserved
  <2> QED BY <2>1, <2>2
<1>2. CASE BeginDrain \/ EndDrain
  BY <1>2 DEF BeginDrain, EndDrain, history, Conserved
<1>3. CASE Pop
  <2>1. /\ sendQueue # <<>> /\ inFlight = <<>>
        /\ sendQueue' = Tail(sendQueue) /\ inFlight' = <<Head(sendQueue)>>
        /\ UNCHANGED <<accepted, sent>>
    BY <1>3 DEF Pop, KeepDraining, history
  <2>2. Len(sendQueue') = Len(sendQueue) - 1 /\ Len(inFlight') = 1
    BY <2>1, HeadTailProperties
  <2>3. Range(inFlight') \cup Range(sendQueue') = Range(inFlight) \cup Range(sendQueue)
    BY <2>1, RangeOfEmpty, RangeOfOne, RangeOfTail
  <2>4. Len(accepted') = Len(sent') + Len(inFlight') + Len(sendQueue')
    <3>1. Len(inFlight) = 0 /\ Len(accepted') = Len(accepted) /\ Len(sent') = Len(sent)
      BY <1>0, <2>1
    <3> QED BY <1>0, <2>2, <3>1 DEF Conserved
  <2>5. Range(accepted') = Range(sent') \cup Range(inFlight') \cup Range(sendQueue')
    BY <2>1, <2>3 DEF Conserved
  <2> QED BY <2>1, <2>4, <2>5 DEF Conserved
<1>4. CASE SendWhole
  <2>1. sent' = sent \o inFlight /\ inFlight' = <<>> /\ UNCHANGED <<sendQueue, accepted>>
    BY <1>4 DEF SendWhole, history
  <2>2. Range(sent') = Range(sent) \cup Range(inFlight) /\ Len(sent') = Len(sent) + Len(inFlight)
    BY <2>1, RangeConcatenation, ConcatProperties
  <2>3. Range(inFlight') = {} /\ Len(inFlight') = 0
    BY <1>0, <2>1, RangeOfEmpty
  <2> QED BY <1>0, <2>1, <2>2, <2>3 DEF Conserved
<1>5. ASSUME NEW part \in BOOLEAN, SendShort(part) PROVE Conserved'
  <2>1. /\ inFlight # <<>> /\ sendQueue' = Append(sendQueue, inFlight[1]) /\ inFlight' = <<>>
        /\ UNCHANGED <<accepted, sent>>
    BY <1>5 DEF SendShort, Requeue, history
  <2>2. inFlight[1] \in Items /\ Range(inFlight) = {inFlight[1]} /\ Len(inFlight) = 1
    BY <2>1, Singleton
  <2>3. Range(sendQueue') = Range(sendQueue) \cup {inFlight[1]} /\ Len(sendQueue') = Len(sendQueue) + 1
    BY <2>1, <2>2, RangeOfAppend, AppendProperties
  <2>4. Range(inFlight') = {} /\ Len(inFlight') = 0
    BY <1>0, <2>1, RangeOfEmpty
  <2> QED BY <1>0, <2>1, <2>2, <2>3, <2>4 DEF Conserved
<1>6. CASE UNCHANGED vars
  BY <1>6 DEF vars, history, Conserved
<1> QED BY <1>1, <1>2, <1>3, <1>4, <1>5, <1>6 DEF Next, Drain

\* No frame is lost and none is sent twice, however often the socket refuses or
\* tears one.
THEOREM Conservation == Spec => []Conserved
<1>1. Init => Inv /\ Conserved
  BY InitInv, InitConserved
<1>2. (Inv /\ Conserved) /\ [Next]_vars => (Inv /\ Conserved)'
  BY NextInv, NextConserved
<1> QED BY <1>1, <1>2, PTL DEF Spec

-----------------------------------------------------------------------------
(* Order.  SubSeq written as the program moves items: what a rotation of the *)
(* queue by r items looks like, before and after each kind of step.          *)

Rotated(q, r, f) == SubSeq(q, Len(q) - r + 1, Len(q)) \o f \o SubSeq(q, 1, Len(q) - r)

LEMMA PartsAreSeqs ==
    ASSUME NEW S, NEW q \in Seq(S), NEW r \in 0..Len(q)
    PROVE  /\ SubSeq(q, Len(q) - r + 1, Len(q)) \in Seq(S)
           /\ SubSeq(q, 1, Len(q) - r) \in Seq(S)
<1>1. Len(q) \in Nat /\ \A j \in 1..Len(q) : q[j] \in S
  BY LenProperties, ElementOfSeq
<1>2. \A j \in (Len(q) - r + 1)..Len(q) : q[j] \in S
  BY <1>1
<1>3. \A j \in 1..(Len(q) - r) : q[j] \in S
  BY <1>1
<1>4. SubSeq(q, Len(q) - r + 1, Len(q)) \in Seq(S)
  BY <1>1, <1>2, SubSeqProperties
<1> QED BY <1>1, <1>3, <1>4, SubSeqProperties

\* Before the first failure and after the last one the queue is in order.
LEMMA NotRotated ==
    ASSUME NEW S, NEW q \in Seq(S), NEW f \in Seq(S)
    PROVE  /\ Rotated(q, 0, f) = f \o q
           /\ Rotated(q, Len(q), <<>>) = q
<1>1. Len(q) \in Nat /\ <<>> \in Seq(S)
  BY LenProperties, EmptySeq
<1>2. SubSeq(q, Len(q) + 1, Len(q)) = <<>> /\ SubSeq(q, 1, 0) = <<>> /\ SubSeq(q, 1, Len(q)) = q
  BY <1>1, SubSeqEmpty, SubSeqFull
<1>3. Rotated(q, 0, f) = (<<>> \o f) \o q
  BY <1>1, <1>2 DEF Rotated
<1>4. Rotated(q, Len(q), <<>>) = (q \o <<>>) \o <<>>
  BY <1>1, <1>2 DEF Rotated
<1>5. <<>> \o f = f /\ q \o <<>> = q
  BY ConcatEmptySeq
<1> QED BY <1>3, <1>4, <1>5

\* Popping the head of the fresh part puts it in flight.
LEMMA RotatedPop ==
    ASSUME NEW S, NEW q \in Seq(S), NEW r \in 0..Len(q), r < Len(q), q # <<>>
    PROVE  Rotated(Tail(q), r, <<Head(q)>>) = Rotated(q, r, <<>>)
<1> DEFINE n == Len(q)
           old == SubSeq(q, n - r + 1, n)
           t == Tail(q)
<1>1. n \in Nat /\ n >= 1 /\ n - r \in 1..n /\ t \in Seq(S) /\ Len(t) = n - 1 /\ Head(q) = q[1]
      /\ Head(q) \in S
  BY LenProperties, HeadTailProperties
<1>2. t = SubSeq(q, 2, n)
  BY TailIsSubSeq
<1>3. SubSeq(t, n - r, n - 1) = old
  <2>1. CASE r = 0
    BY <1>1, <2>1, SubSeqEmpty
  <2>2. CASE r > 0
    <3>1. 2 \in 1..n /\ n - r \in 1..(n - 1) /\ n - 1 \in 1..(n - 1)
      BY <1>1, <2>2
    <3>2. SubSeq(SubSeq(q, 2, n), n - r, n - 1) = SubSeq(q, 2 + (n - r) - 1, 2 + (n - 1) - 1)
      BY <1>1, <3>1, SubSeqOfSubSeq
    <3>3. 2 + (n - r) - 1 = n - r + 1 /\ 2 + (n - 1) - 1 = n
      BY <1>1
    <3> QED BY <1>2, <3>2, <3>3
  <2> QED BY <2>1, <2>2
<1>4. SubSeq(t, 1, n - 1 - r) = SubSeq(q, 2, n - r)
  <2>1. CASE r = n - 1
    BY <1>1, <2>1, SubSeqEmpty
  <2>2. CASE r < n - 1
    <3>1. 2 \in 1..n /\ 1 \in 1..(n - 1) /\ n - 1 - r \in 1..(n - 1)
      BY <1>1, <2>2
    <3>2. SubSeq(SubSeq(q, 2, n), 1, n - 1 - r) = SubSeq(q, 2 + 1 - 1, 2 + (n - 1 - r) - 1)
      BY <1>1, <3>1, SubSeqOfSubSeq
    <3>3. 2 + 1 - 1 = 2 /\ 2 + (n - 1 - r) - 1 = n - r
      BY <1>1
    <3> QED BY <1>2, <3>2, <3>3
  <2>3. r = n - 1 \/ r < n - 1
    <3>1. r \in Int /\ n \in Int /\ r < n
      BY <1>1
    <3> QED BY <3>1
  <2> QED BY <2>1, <2>2, <2>3
<1>5. SubSeq(q, 1, n - r) = <<Head(q)>> \o SubSeq(q, 2, n - r)
  <2>1. 1 \in 1..n /\ n - r \in 1..n /\ 1 + 1 = 2
    BY <1>1
  <2>2. SubSeq(q, 1, n - r) = <<q[1]>> \o SubSeq(q, 1 + 1, n - r)
    BY <2>1, SubSeqRecursiveFirst
  <2> QED BY <1>1, <2>1, <2>2
<1>6. Rotated(t, r, <<Head(q)>>) = (old \o <<Head(q)>>) \o SubSeq(q, 2, n - r)
  <2>1. Len(t) - r + 1 = n - r /\ Len(t) - r = n - 1 - r
    BY <1>1
  <2> QED BY <1>1, <1>3, <1>4, <2>1 DEF Rotated
<1>7. old \in Seq(S) /\ <<Head(q)>> \in Seq(S) /\ SubSeq(q, 2, n - r) \in Seq(S)
  <2>1. \A j \in 2..(n - r) : q[j] \in S
    BY <1>1, ElementOfSeq
  <2> QED BY <1>1, <2>1, PartsAreSeqs, SubSeqProperties
<1>8. Rotated(q, r, <<>>) = old \o SubSeq(q, 1, n - r)
  BY <1>7, ConcatEmptySeq DEF Rotated
<1>9. (old \o <<Head(q)>>) \o SubSeq(q, 2, n - r) = old \o (<<Head(q)>> \o SubSeq(q, 2, n - r))
  <2>1. \A a, b, c \in Seq(S) : (a \o b) \o c = a \o (b \o c)
    BY ConcatAssociative
  <2> HIDE DEF old
  <2> QED BY <1>7, <2>1, Zenon
<1>10. Rotated(q, r, <<>>) = old \o (<<Head(q)>> \o SubSeq(q, 2, n - r))
  BY <1>5, <1>8
<1> QED BY <1>6, <1>9, <1>10

\* A failed item appended behind the others keeps its place in the rotation.
LEMMA RotatedAppend ==
    ASSUME NEW S, NEW q \in Seq(S), NEW r \in 0..Len(q), NEW e \in S
    PROVE  Rotated(Append(q, e), r + 1, <<>>) = Rotated(q, r, <<e>>)
<1> DEFINE n == Len(q)
           a == Append(q, e)
           old == SubSeq(q, n - r + 1, n)
           fresh == SubSeq(q, 1, n - r)
<1>1. n \in Nat /\ a \in Seq(S) /\ Len(a) = n + 1 /\ a[n + 1] = e /\ a = q \o <<e>>
      /\ <<e>> \in Seq(S) /\ Len(<<e>>) = 1
  BY LenProperties, AppendProperties, AppendIsConcat
<1>2. SubSeq(a, n - r + 1, n + 1) = old \o <<e>>
  <2>1. n - r + 1 \in 1..(n + 1) /\ n + 1 \in (n - r + 1)..(n + 1)
    BY <1>1
  <2>2. SubSeq(a, n - r + 1, n + 1) = SubSeq(a, n - r + 1, n + 1 - 1) \o <<a[n + 1]>>
    BY <1>1, <2>1, SubSeqRecursiveSecond
  <2>3. n + 1 - 1 = n
    BY <1>1
  <2>4. SubSeq(a, n - r + 1, n) = old
    <3>1. CASE r = 0
      BY <1>1, <3>1, SubSeqEmpty
    <3>2. CASE r > 0
      <4>1. n - r + 1 \in 1..n /\ n \in 1..n
        BY <1>1, <3>2
      <4> QED BY <1>1, <4>1, SubSeqOfConcat1
    <3> QED BY <3>1, <3>2
  <2> QED BY <1>1, <2>2, <2>3, <2>4
<1>3. SubSeq(a, 1, n - r) = fresh
  <2>1. CASE r = n
    BY <1>1, <2>1, SubSeqEmpty
  <2>2. CASE r < n
    <3>1. 1 \in 1..n /\ n - r \in 1..n
      BY <1>1, <2>2
    <3> QED BY <1>1, <3>1, SubSeqOfConcat1
  <2> QED BY <1>1, <2>1, <2>2
<1>4. Rotated(a, r + 1, <<>>) = ((old \o <<e>>) \o <<>>) \o fresh
  <2>1. Len(a) - (r + 1) + 1 = n - r + 1 /\ Len(a) - (r + 1) = n - r
    BY <1>1
  <2> QED BY <1>1, <1>2, <1>3, <2>1 DEF Rotated
<1>5. old \o <<e>> \in Seq(S)
  BY <1>1, PartsAreSeqs, ConcatProperties
<1>6. (old \o <<e>>) \o <<>> = old \o <<e>>
  BY <1>5, ConcatEmptySeq
<1> QED BY <1>4, <1>6 DEF Rotated

LEMMA InOrderIsRotated == InOrder = Rotated(sendQueue, retries, inFlight)
  BY DEF InOrder, Rotated

LEMMA InOrderIsSeq == Inv => InOrder \in Seq(Items) /\ Rotated(sendQueue, retries, inFlight) \in Seq(Items)
<1> SUFFICES ASSUME Inv PROVE Rotated(sendQueue, retries, inFlight) \in Seq(Items)
  BY InOrderIsRotated
<1>1. sendQueue \in Seq(Items) /\ retries \in 0..Len(sendQueue) /\ inFlight \in Seq(Items)
  BY LenProperties DEF Inv, TypeOK
<1> QED BY <1>1, PartsAreSeqs, ConcatProperties DEF Rotated

LEMMA InitOrder == Init => OrderKept
<1>1. Rotated(<<>>, 0, <<>>) = <<>> \o <<>>
  BY NotRotated, EmptySeq
<1>2. <<>> \o <<>> = <<>>
  BY ConcatEmptySeq, EmptySeq
<1>3. Init => InOrder = <<>>
  BY <1>1, <1>2, InOrderIsRotated DEF Init
<1> QED BY <1>2, <1>3 DEF Init, OrderKept

LEMMA NextOrder == Inv /\ OrderKept /\ [Next]_vars => OrderKept'
<1> SUFFICES ASSUME Inv, OrderKept, [Next]_vars, ~overtaken' PROVE accepted' = sent' \o InOrder'
  BY DEF OrderKept
<1> DEFINE R == Rotated(sendQueue, retries, inFlight)
<1>0. /\ sendQueue \in Seq(Items) /\ inFlight \in Seq(Items) /\ sent \in Seq(Items)
      /\ accepted \in Seq(Items) /\ retries \in 0..Len(sendQueue) /\ Len(sendQueue) \in Nat
      /\ Len(<<>>) = 0 /\ <<>> \in Seq(Items)
  BY LenProperties, EmptySeq DEF Inv, TypeOK
<1>a. R \in Seq(Items) /\ InOrder' = Rotated(sendQueue', retries', inFlight')
  BY InOrderIsSeq DEF InOrder, Rotated
<1>b. ~overtaken => accepted = sent \o R
  BY InOrderIsRotated DEF OrderKept
<1> HIDE DEF R
<1>1. ASSUME NEW i \in Items, Push(i) PROVE accepted' = sent' \o InOrder'
  <2>1. CASE HasRoom
    <3>1. /\ sendQueue' = Append(sendQueue, i) /\ accepted' = Append(accepted, i)
          /\ UNCHANGED <<inFlight, sent, retries, overtaken>>
          /\ retries = 0 /\ inFlight = <<>>
      BY <1>1, <2>1 DEF Push, MayLock, Inv, MutexInv
    <3>2. R = sendQueue /\ InOrder' = Append(sendQueue, i)
      <4>1. Append(sendQueue, i) \in Seq(Items)
        BY <1>0, AppendProperties
      <4>2. R = <<>> \o sendQueue /\ InOrder' = <<>> \o Append(sendQueue, i)
        BY <1>0, <1>a, <3>1, <4>1, NotRotated DEF R
      <4> QED BY <1>0, <4>1, <4>2, ConcatEmptySeq
    <3>3. accepted' = (sent \o sendQueue) \o <<i>>
      BY <1>0, <1>b, <3>1, <3>2, AppendIsConcat
    <3>4. <<i>> \in Seq(Items)
      OBVIOUS
    <3>5. (sent \o sendQueue) \o <<i>> = sent \o (sendQueue \o <<i>>)
      <4>1. sent \in Seq(Items) /\ sendQueue \in Seq(Items)
        BY <1>0
      <4> QED BY <3>4, <4>1, ConcatAssociative
    <3>6. sendQueue \o <<i>> = Append(sendQueue, i)
      BY <1>0, AppendIsConcat
    <3> QED BY <3>1, <3>2, <3>3, <3>5, <3>6
  <2>2. CASE ~HasRoom
    <3>1. UNCHANGED <<sendQueue, accepted, inFlight, sent, retries, overtaken>>
      BY <1>1, <2>2 DEF Push
    <3> QED BY <1>a, <1>b, <3>1 DEF R
  <2> QED BY <2>1, <2>2
<1>2. CASE BeginDrain
  <2>1. UNCHANGED <<sendQueue, accepted, inFlight, sent, retries, overtaken>>
    BY <1>2 DEF BeginDrain, MayLock, history, Inv, MutexInv
  <2> QED BY <1>a, <1>b, <2>1 DEF R
<1>3. CASE Pop
  <2>1. /\ sendQueue # <<>> /\ retries < Len(sendQueue) /\ inFlight = <<>>
        /\ sendQueue' = Tail(sendQueue) /\ inFlight' = <<Head(sendQueue)>>
        /\ UNCHANGED <<accepted, sent, retries, overtaken>>
    BY <1>3 DEF Pop, KeepDraining, history
  <2>2. InOrder' = R
    BY <1>0, <1>a, <2>1, RotatedPop DEF R
  <2> QED BY <1>b, <2>1, <2>2
<1>4. CASE SendWhole
  <2>1. /\ sent' = sent \o inFlight /\ inFlight' = <<>> /\ retries' = 0 /\ ~overtaken /\ ~(retries > 0)
        /\ UNCHANGED <<sendQueue, accepted>>
    BY <1>4 DEF SendWhole, history
  <2>2. retries = 0
    BY <1>0, <2>1
  <2>3. R = inFlight \o sendQueue /\ InOrder' = <<>> \o sendQueue
    BY <1>0, <1>a, <2>1, <2>2, NotRotated DEF R
  <2>4. <<>> \o sendQueue = sendQueue
    BY <1>0, ConcatEmptySeq
  <2>5. (sent \o inFlight) \o sendQueue = sent \o (inFlight \o sendQueue)
    BY <1>0, ConcatAssociative
  <2> QED BY <1>b, <2>1, <2>3, <2>4, <2>5
<1>5. ASSUME NEW part \in BOOLEAN, SendShort(part) PROVE accepted' = sent' \o InOrder'
  <2>1. /\ inFlight # <<>> /\ sendQueue' = Append(sendQueue, inFlight[1]) /\ inFlight' = <<>>
        /\ retries' = retries + 1
        /\ UNCHANGED <<accepted, sent, overtaken>>
    BY <1>5 DEF SendShort, Requeue, RetriesAfterFailure, history
  <2>2. inFlight[1] \in Items /\ inFlight = <<inFlight[1]>>
    BY <2>1, Singleton DEF Inv, TypeOK
  <2>3. Rotated(Append(sendQueue, inFlight[1]), retries + 1, <<>>)
            = Rotated(sendQueue, retries, <<inFlight[1]>>)
    BY <1>0, <2>2, RotatedAppend
  <2>4. InOrder' = R
    BY <1>a, <2>1, <2>2, <2>3 DEF R
  <2> QED BY <1>b, <2>1, <2>4
<1>6. CASE EndDrain
  <2>1. /\ retries' = 0 /\ inFlight = <<>> /\ ~KeepDraining
        /\ UNCHANGED <<sendQueue, inFlight, accepted, sent, overtaken>>
    BY <1>6 DEF EndDrain, history
  <2>2. retries = Len(sendQueue)
    BY <1>0, <2>1 DEF KeepDraining
  <2>3. R = sendQueue /\ InOrder' = <<>> \o sendQueue
    BY <1>0, <1>a, <2>1, <2>2, NotRotated DEF R
  <2>4. <<>> \o sendQueue = sendQueue
    BY <1>0, ConcatEmptySeq
  <2> QED BY <1>b, <2>1, <2>3, <2>4
<1>7. CASE UNCHANGED vars
  <2>1. UNCHANGED <<sendQueue, accepted, inFlight, sent, retries, overtaken>>
    BY <1>7 DEF vars, history
  <2> QED BY <1>a, <1>b, <2>1 DEF R
<1> QED BY <1>1, <1>2, <1>3, <1>4, <1>5, <1>6, <1>7 DEF Next, Drain

\* A drain in which every send fails brings the queue round full circle: frames
\* leave in the order they were accepted as long as no drain sends one item after
\* failing to send another.
THEOREM Order == Spec => []OrderKept
<1>1. Init => Inv /\ OrderKept
  BY InitInv, InitOrder
<1>2. (Inv /\ OrderKept) /\ [Next]_vars => (Inv /\ OrderKept)'
  BY NextInv, NextOrder
<1> QED BY <1>1, <1>2, PTL DEF Spec

-----------------------------------------------------------------------------
(* A sequence without duplicates is as long as its range is large. *)

LEMMA RangeSize ==
    ASSUME NEW S, NEW s \in Seq(S)
    PROVE  /\ IsFiniteSet(Range(s))
           /\ Cardinality(Range(s)) <= Len(s)
           /\ Cardinality(Range(s)) = Len(s) <=> IsInjective(s)
<1>1. Len(s) \in Nat /\ s \in [1..Len(s) -> Range(s)] /\ DOMAIN s = 1..Len(s)
  BY LenProperties DEF Range
<1>2. s \in Surjection(1..Len(s), Range(s))
  BY <1>1 DEF Surjection, Range
<1>3. IsFiniteSet(1..Len(s)) /\ Cardinality(1..Len(s)) = Len(s)
  <2>1. 1 \in Int /\ Len(s) \in Int
    BY <1>1
  <2>2. Cardinality(1..Len(s)) = IF 1 > Len(s) THEN 0 ELSE Len(s) - 1 + 1
    BY <2>1, FS_Interval
  <2> QED
    BY <1>1, <2>1, <2>2, FS_Interval
<1>4. s \in Injection(1..Len(s), Range(s)) <=> IsInjective(s)
  BY <1>1 DEF Injection
<1> QED
  BY <1>2, <1>3, <1>4, FS_Surjection

\* Where the items of two sequences are in the sequence of both.
LEMMA Places ==
    ASSUME NEW S, NEW s \in Seq(S), NEW t \in Seq(S)
    PROVE  /\ s \o t \in Seq(S)
           /\ Len(s \o t) = Len(s) + Len(t)
           /\ DOMAIN (s \o t) = 1..(Len(s) + Len(t))
           /\ \A k \in 1..Len(s) : (s \o t)[k] = s[k]
           /\ \A k \in 1..Len(t) : (s \o t)[Len(s) + k] = t[k]
<1>1. Len(s) \in Nat /\ Len(t) \in Nat
  BY LenProperties
<1>2. /\ s \o t \in Seq(S)
      /\ Len(s \o t) = Len(s) + Len(t)
  BY ConcatProperties
<1>3. \A k \in 1..(Len(s) + Len(t)) :
          (s \o t)[k] = IF k <= Len(s) THEN s[k] ELSE t[k - Len(s)]
  BY ConcatProperties
<1>4. DOMAIN (s \o t) = 1..(Len(s) + Len(t))
  BY <1>2, LenProperties
<1>5. ASSUME NEW k \in 1..Len(t)
      PROVE  (s \o t)[Len(s) + k] = t[k]
  <2>1. Len(s) + k \in 1..(Len(s) + Len(t)) /\ ~(Len(s) + k <= Len(s)) /\ Len(s) + k - Len(s) = k
    BY <1>1
  <2> QED
    BY <1>3, <2>1
<1>6. \A k \in 1..Len(s) : (s \o t)[k] = s[k]
  BY <1>1, <1>3
<1> QED
  BY <1>2, <1>4, <1>5, <1>6

LEMMA SameCardinality == \A S : Channel!Cardinality(S) = Cardinality(S)
  BY DEF Channel!Cardinality, Cardinality

-----------------------------------------------------------------------------
(* Conserved counts: as many items as accepted, the same ones, hence each once. *)

Everywhere == sent \o (inFlight \o sendQueue)

LEMMA NoDuplicates ==
    ASSUME Inv, Conserved
    PROVE  IsInjective(Everywhere)
<1> USE DEF Inv, TypeOK
<1>0. sent \in Seq(Items)
  OBVIOUS
<1>1. inFlight \o sendQueue \in Seq(Items) /\ Everywhere \in Seq(Items)
  BY ConcatProperties DEF Everywhere
<1>2. Range(Everywhere) = Range(accepted)
  <2>1. Range(Everywhere) = Range(sent) \cup Range(inFlight \o sendQueue)
    <3> DEFINE rest == inFlight \o sendQueue
    <3>1. rest \in Seq(Items) /\ Everywhere = sent \o rest
      BY <1>1 DEF Everywhere
    <3> HIDE DEF rest
    <3>2. Range(sent \o rest) = Range(sent) \cup Range(rest)
      <4>1. sent \in Seq(Items) /\ rest \in Seq(Items)
        BY <3>1
      <4> QED
        BY ONLY <4>1, RangeConcatenation
    <3> QED
      BY ONLY <3>1, <3>2, Zenon DEF rest
  <2>2. Range(inFlight \o sendQueue) = Range(inFlight) \cup Range(sendQueue)
    BY RangeConcatenation
  <2> QED
    BY <2>1, <2>2 DEF Conserved
<1>3. Len(Everywhere) = Len(accepted)
  <2>1. Len(Everywhere) = Len(sent) + Len(inFlight \o sendQueue)
    BY ONLY <1>0, <1>1, Places DEF Everywhere
  <2>2. Len(inFlight \o sendQueue) = Len(inFlight) + Len(sendQueue)
    BY Places
  <2>3. Len(sent) \in Nat /\ Len(inFlight) \in Nat /\ Len(sendQueue) \in Nat
    BY LenProperties
  <2> QED
    BY <2>1, <2>2, <2>3 DEF Conserved
<1>4. Cardinality(Range(accepted)) = Len(accepted)
  BY RangeSize DEF Conserved
<1> QED
  BY <1>1, <1>2, <1>3, <1>4, RangeSize

\* The item in the drain's hands is not in the queue as well.
LEMMA InFlightIsGone ==
    ASSUME Inv, Conserved, inFlight # <<>>
    PROVE  inFlight[1] \notin Range(sendQueue)
<1> USE DEF Inv, TypeOK
<1>1. Len(inFlight) = 1 /\ Len(sent) \in Nat /\ Len(sendQueue) \in Nat
  BY Singleton, LenProperties
<1> DEFINE rest == inFlight \o sendQueue
<1>2. /\ rest \in Seq(Items)
      /\ Len(rest) = 1 + Len(sendQueue)
      /\ rest[1] = inFlight[1]
      /\ \A j \in 1..Len(sendQueue) : rest[j + 1] = sendQueue[j]
  <2>1. /\ rest \in Seq(Items) /\ Len(rest) = Len(inFlight) + Len(sendQueue)
        /\ \A k \in 1..Len(inFlight) : rest[k] = inFlight[k]
        /\ \A k \in 1..Len(sendQueue) : rest[Len(inFlight) + k] = sendQueue[k]
    <3>1. inFlight \in Seq(Items) /\ sendQueue \in Seq(Items)
      OBVIOUS
    <3> QED
      BY ONLY <3>1, Places
  <2> HIDE DEF rest
  <2> QED
    BY <1>1, <2>1
<1> HIDE DEF rest
<1>3. \A k \in 1..Len(rest) : Len(sent) + k \in DOMAIN Everywhere /\ Everywhere[Len(sent) + k] = rest[k]
  <2>1. Everywhere = sent \o rest
    BY DEF Everywhere, rest
  <2>2. /\ DOMAIN Everywhere = 1..(Len(sent) + Len(rest))
        /\ \A k \in 1..Len(rest) : Everywhere[Len(sent) + k] = rest[k]
    <3>1. sent \in Seq(Items) /\ rest \in Seq(Items)
      BY <1>2
    <3> QED
      BY ONLY <2>1, <3>1, Places
  <2> QED
    BY <1>1, <1>2, <2>2
<1>4. ASSUME NEW j \in 1..Len(sendQueue)
      PROVE  sendQueue[j] # inFlight[1]
  <2>1. 1 \in 1..Len(rest) /\ j + 1 \in 1..Len(rest) /\ Len(sent) + (j + 1) # Len(sent) + 1
    BY <1>1, <1>2
  <2>2. Everywhere[Len(sent) + (j + 1)] # Everywhere[Len(sent) + 1]
    BY <1>3, <2>1, NoDuplicates DEF IsInjective
  <2> QED
    BY <1>2, <1>3, <2>1, <2>2
<1> QED
  BY <1>4, RangeEquality

-----------------------------------------------------------------------------

queued == Range(sendQueue) \cup Range(inFlight)

LEMMA InitImplements == Init => Channel!ChanInit
BY RangeOfEmpty DEF Init, Channel!ChanInit

LEMMA StepImplements ==
    ASSUME Inv, Conserved, [Next]_vars
    PROVE  Channel!ChanNext \/ UNCHANGED <<queued, Range(sent)>>
<1> USE DEF Inv, TypeOK
<1>1. ASSUME NEW i \in Items, Push(i), HasRoom
      PROVE  Channel!Accept(i)
  <2>1. /\ sendQueue' = Append(sendQueue, i)
        /\ UNCHANGED <<inFlight, sent>>
        /\ i \notin Range(accepted)
    BY <1>1 DEF Push
  <2>2. inFlight = <<>> /\ Range(inFlight) = {}
    BY <1>1, RangeOfEmpty DEF Push, MayLock, MutexInv
  <2>3. Cardinality(Range(sendQueue)) < MAX_SEND_QUEUE
    <3>1. IsFiniteSet(Range(sendQueue)) /\ Cardinality(Range(sendQueue)) <= Len(sendQueue)
      BY RangeSize
    <3>2. Cardinality(Range(sendQueue)) \in Nat /\ Len(sendQueue) \in Nat
      BY <3>1, FS_CardinalityType, LenProperties
    <3> QED
      BY <1>1, <3>1, <3>2, CapacityAssumption DEF HasRoom
  <2>4. Range(sendQueue') = Range(sendQueue) \cup {i}
    BY <2>1, RangeOfAppend
  <2>5. Channel!HasRoom
    BY <2>2, <2>3, SameCardinality DEF Channel!HasRoom
  <2> QED
    BY <2>1, <2>2, <2>4, <2>5 DEF Channel!Accept, Conserved
<1>2. ASSUME NEW i \in Items, Push(i), ~HasRoom
      PROVE  UNCHANGED <<queued, Range(sent)>>
  BY <1>2 DEF Push, queued
<1>3. CASE Pop
  <2>1. /\ sendQueue # <<>> /\ inFlight = <<>>
        /\ sendQueue' = Tail(sendQueue) /\ inFlight' = <<Head(sendQueue)>> /\ sent' = sent
    BY <1>3 DEF Pop, KeepDraining
  <2> QED
    BY <2>1, RangeOfEmpty, RangeOfOne, RangeOfTail DEF queued
<1>4. CASE SendWhole
  <2>1. inFlight # <<>> /\ sent' = sent \o inFlight /\ inFlight' = <<>> /\ sendQueue' = sendQueue
    BY <1>4 DEF SendWhole
  <2>2. inFlight[1] \in Items /\ Range(inFlight) = {inFlight[1]} /\ Range(inFlight') = {}
    BY <2>1, Singleton, RangeOfEmpty
  <2>3. Range(sent') = Range(sent) \cup {inFlight[1]}
    BY <2>1, <2>2, RangeConcatenation
  <2>4. inFlight[1] \notin Range(sendQueue)
    BY <2>1, InFlightIsGone
  <2>5. Channel!Deliver(inFlight[1])
    BY <2>1, <2>2, <2>3, <2>4 DEF Channel!Deliver
  <2> QED
    BY <2>2, <2>5 DEF Channel!ChanNext
<1>5. ASSUME NEW part \in BOOLEAN, SendShort(part)
      PROVE  UNCHANGED <<queued, Range(sent)>>
  <2>1. /\ inFlight # <<>> /\ sendQueue' = Append(sendQueue, inFlight[1])
        /\ inFlight' = <<>> /\ sent' = sent
    BY <1>5 DEF SendShort, Requeue
  <2>2. inFlight[1] \in Items /\ Range(inFlight) = {inFlight[1]} /\ Range(inFlight') = {}
    BY <2>1, Singleton, RangeOfEmpty
  <2> QED
    BY <2>1, <2>2, RangeOfAppend DEF queued
<1>6. CASE BeginDrain \/ EndDrain \/ UNCHANGED vars
  BY <1>6 DEF BeginDrain, EndDrain, vars, queued
<1> QED
  BY <1>1, <1>2, <1>3, <1>4, <1>5, <1>6 DEF Next, Drain, Channel!ChanNext

\* Every behaviour of sendBinary, sendMessage and drainSendQueue, whatever the socket
\* does, is one of a bounded channel that delivers each accepted frame at most once.
THEOREM QueueIsChannel == Spec => ImplementsChannel
<1>1. Inv /\ Conserved /\ [Next]_vars => [Channel!ChanNext]_(Channel!chanVars)
  BY StepImplements DEF queued, Channel!chanVars
<1>2. Spec => [](Inv /\ Conserved)
  BY SpecInv, Conservation, PTL
<1> QED
  BY <1>1, <1>2, InitImplements, PTL DEF Spec, ImplementsChannel, Channel!ChanSpec
==============================================================================
