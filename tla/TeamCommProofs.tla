---------------------------- MODULE TeamCommProofs ----------------------------
(***************************************************************************)
(* Proofs about the receive path of the SPL team messages, for every       *)
(* queue size, socket capacity and number of arrivals.                     *)
(***************************************************************************)
EXTENDS TeamComm, SequenceTheorems, TLAPS

-----------------------------------------------------------------------------
\* What appending does to a sequence, element by element.
LEMMA AppendFacts ==
  ASSUME NEW S, NEW s \in Seq(S), NEW e \in S
  PROVE  /\ Append(s, e) \in Seq(S)
         /\ Append(s, e) # <<>>
         /\ Len(Append(s, e)) = Len(s) + 1
         /\ \A i \in 1..Len(s) : Append(s, e)[i] = s[i]
         /\ Append(s, e)[Len(s) + 1] = e
BY AppendProperties

\* What removing the front of a non-empty sequence does.
LEMMA TailFacts ==
  ASSUME NEW S, NEW s \in Seq(S), s # <<>>
  PROVE  /\ Tail(s) \in Seq(S)
         /\ Head(s) \in S
         /\ Head(s) = s[1]
         /\ Len(s) \in Nat \ {0}
         /\ Len(Tail(s)) = Len(s) - 1
         /\ \A i \in 1..Len(Tail(s)) : Tail(s)[i] = s[i + 1]
BY HeadTailProperties, EmptySeq

\* Trimming keeps a suffix: the same last element, no more than maxQueueSize.
LEMMA TrimmedFacts ==
  ASSUME NEW S, NEW q \in Seq(S)
  PROVE  /\ Trimmed(q) \in Seq(S)
         /\ Len(Trimmed(q)) <= Len(q)
         /\ Len(Trimmed(q)) <= maxQueueSize
         /\ q # <<>> => Trimmed(q) # <<>>
         /\ \A i \in 1..Len(Trimmed(q)) :
              Trimmed(q)[i] = q[Len(q) - Len(Trimmed(q)) + i]
<1> USE QueueAssumption
<1>1. CASE Len(q) <= maxQueueSize
  BY <1>1 DEF Trimmed
<1>2. CASE ~(Len(q) <= maxQueueSize)
  <2> DEFINE m == Len(q) - maxQueueSize + 1
  <2>1. m \in 1..Len(q) + 1 /\ Len(q) \in Nat
    BY <1>2
  <2>2. Trimmed(q) = SubSeq(q, m, Len(q))
    BY <1>2 DEF Trimmed
  <2>3. /\ SubSeq(q, m, Len(q)) \in Seq(S)
        /\ Len(SubSeq(q, m, Len(q))) = maxQueueSize
        /\ \A i \in 1..maxQueueSize : SubSeq(q, m, Len(q))[i] = q[m + i - 1]
    BY <1>2, <2>1, SubSeqProperties
  <2>4. Trimmed(q) # <<>>
    BY <2>2, <2>3, EmptySeq
  <2> QED
    BY <1>2, <2>1, <2>2, <2>3, <2>4
<1> QED
  BY <1>1, <1>2

-----------------------------------------------------------------------------
\* The inductive invariant.  NoGaps gives every queued message its number,
\* FrontMarked relates the numbers already handled to the front; InOrderOnce
\* alone is not inductive, because it does not mention the queue.
IInv == TypeOK /\ NoGaps /\ FrontMarked /\ InOrderOnce

LEMMA InitIInv == Init => IInv
<1> SUFFICES ASSUME Init PROVE IInv
  OBVIOUS
<1>1. <<>> \in Seq(Datagram) /\ <<>> \in Seq(Nat \ {0}) /\ Len(<<>>) = 0
  BY EmptySeq
<1>2. Len(socket) = 0 /\ Len(recvQueue) = 0 /\ Len(delivered) = 0
  BY <1>1 DEF Init
<1>3. TypeOK
  BY <1>1, <1>2, QueueAssumption DEF Init, TypeOK
<1>4. NoGaps /\ FrontMarked /\ InOrderOnce
  BY <1>2 DEF Init, NoGaps, FrontMarked, InOrderOnce, lastRead
<1> QED
  BY <1>3, <1>4 DEF IInv

LEMMA ArriveIInv == IInv /\ Arrive => IInv'
<1> SUFFICES ASSUME IInv, Arrive PROVE IInv'
  OBVIOUS
<1> USE DEF IInv
<1>1. PICK ok \in BOOLEAN : socket' = Append(socket, [n |-> arrived + 1, ok |-> ok])
  BY DEF Arrive
<1>2. /\ socket' \in Seq(Datagram)
      /\ Len(socket') = Len(socket) + 1
      /\ \A i \in 1..Len(socket) : socket'[i] = socket[i]
      /\ socket'[Len(socket) + 1].n = arrived + 1
  <2>1. [n |-> arrived + 1, ok |-> ok] \in Datagram
    BY DEF TypeOK, Datagram
  <2>2. [n |-> arrived + 1, ok |-> ok].n = arrived + 1
    OBVIOUS
  <2> QED
    BY <1>1, <2>1, <2>2, AppendFacts DEF TypeOK
<1>3. lastRead' = lastRead /\ lastRead \in Int /\ Len(socket) \in Nat /\ arrived \in Nat
  BY <1>2, LenProperties DEF Arrive, lastRead, TypeOK
<1>4. TypeOK'
  BY <1>2 DEF TypeOK, Arrive
<1>5. NoGaps'
  <2>1. arrived + 1 = lastRead + (Len(socket) + 1)
    BY <1>3 DEF lastRead
  <2>2. ASSUME NEW i \in 1..Len(socket') PROVE socket'[i].n = lastRead' + i
    <3>1. CASE i \in 1..Len(socket)
      BY <3>1, <1>2, <1>3 DEF NoGaps
    <3>2. CASE i = Len(socket) + 1
      BY <3>2, <1>2, <1>3, <2>1
    <3> QED
      BY <3>1, <3>2, <1>2, <1>3
  <2> QED
    BY <1>3, <2>2 DEF NoGaps, Arrive
<1>6. FrontMarked' /\ InOrderOnce'
  BY DEF FrontMarked, InOrderOnce, Arrive
<1> QED
  BY <1>4, <1>5, <1>6

LEMMA CallIInv == ASSUME IInv, NEW who \in Callers, Call(who) PROVE IInv'
BY CallersAssumption
   DEF IInv, Call, TypeOK, NoGaps, FrontMarked, InOrderOnce, lastRead

\* Reading moves the first datagram of the socket to the end of the queue; if
\* the front was handed over, the queue loses it at the same time.
LEMMA ReadDatagramIInv == IInv /\ ReadDatagram => IInv'
<1> SUFFICES ASSUME IInv, ReadDatagram PROVE IInv'
  OBVIOUS
<1> USE DEF IInv
<1> DEFINE popped == recvQueue # <<>> /\ parsed = 1
           kept == IF popped THEN Tail(recvQueue) ELSE recvQueue
<1>1. /\ socket' \in Seq(Datagram)
      /\ Head(socket) \in Datagram
      /\ Head(socket) = socket[1]
      /\ Len(socket) \in Nat \ {0}
      /\ Len(socket') = Len(socket) - 1
      /\ \A i \in 1..Len(socket') : socket'[i] = socket[i + 1]
  BY TailFacts DEF ReadDatagram, TypeOK
<1>2. /\ kept \in Seq(Datagram)
      /\ Len(kept) \in Nat
      /\ Len(kept) <= Len(recvQueue)
      /\ popped => Len(kept) = Len(recvQueue) - 1
      /\ ~popped => Len(kept) = Len(recvQueue)
      /\ \A i \in 1..Len(kept) :
           kept[i] = recvQueue[Len(recvQueue) - Len(kept) + i]
  <2>1. CASE popped
    BY <2>1, TailFacts, LenProperties DEF TypeOK
  <2>2. CASE ~popped
    <3>1. kept = recvQueue /\ Len(recvQueue) \in Nat
      BY <2>2, LenProperties DEF TypeOK
    <3>2. kept \in Seq(Datagram)
      BY <3>1 DEF TypeOK
    <3> HIDE DEF kept
    <3> QED
      BY <2>2, <3>1, <3>2
  <2> QED
    BY <2>1, <2>2
<1>3. /\ recvQueue' = Append(kept, Head(socket))
      /\ parsed' = 0
  <2>1. CASE popped
    BY <2>1 DEF ReadDatagram
  <2>2. CASE ~popped
    BY <2>2 DEF ReadDatagram, FrontMarked, TypeOK
  <2> QED
    BY <2>1, <2>2
<1> HIDE DEF kept
<1>4. /\ recvQueue' \in Seq(Datagram)
      /\ recvQueue' # <<>>
      /\ Len(recvQueue') = Len(kept) + 1
      /\ \A i \in 1..Len(kept) : recvQueue'[i] = kept[i]
      /\ recvQueue'[Len(kept) + 1] = socket[1]
  BY <1>1, <1>2, <1>3, AppendFacts
<1>5. lastRead' = lastRead + 1 /\ lastRead \in Int /\ Len(recvQueue) \in Nat
  BY <1>1, LenProperties DEF ReadDatagram, lastRead, TypeOK
<1>6. TypeOK'
  <2>1. /\ pc' = "reading" /\ nSPLMessageData' = nSPLMessageData + 1
        /\ UNCHANGED <<arrived, caller, delivered>>
    BY DEF ReadDatagram
  <2> QED
    BY <1>1, <1>3, <1>4, <2>1, QueueAssumption DEF TypeOK
<1>7. NoGaps'
  <2>1. Len(recvQueue') <= lastRead'
    BY <1>2, <1>4, <1>5 DEF NoGaps
  <2>2. \A i \in 1..Len(socket') : socket'[i].n = lastRead' + i
    BY <1>1, <1>5 DEF NoGaps
  <2>3. ASSUME NEW i \in 1..Len(recvQueue')
        PROVE  recvQueue'[i].n = lastRead' - Len(recvQueue') + i
    <3>1. CASE i \in 1..Len(kept)
      <4> DEFINE k == Len(recvQueue) - Len(kept) + i
      <4>1. k \in 1..Len(recvQueue) /\ recvQueue'[i] = recvQueue[k]
        BY <3>1, <1>2, <1>4, <1>5
      <4>2. recvQueue[k].n = lastRead - Len(recvQueue) + k
        BY <4>1 DEF NoGaps
      <4> QED
        BY <4>1, <4>2, <3>1, <1>2, <1>4, <1>5
    <3>2. CASE i = Len(kept) + 1
      <4>1. socket[1].n = lastRead + 1
        BY <1>1 DEF NoGaps
      <4> QED
        BY <3>2, <4>1, <1>2, <1>4, <1>5
    <3> QED
      BY <3>1, <3>2, <1>2, <1>4
  <2> QED
    BY <2>1, <2>2, <2>3 DEF NoGaps
<1>8. FrontMarked'
  <2>1. ASSUME NEW i \in 1..Len(delivered)
        PROVE  delivered[i] < recvQueue'[1].n
    <3>1. /\ recvQueue # <<>>
          /\ Len(recvQueue) \in Nat \ {0}
          /\ delivered[i] \in Nat
      BY <1>5, ElementOfSeq, EmptySeq DEF FrontMarked, TypeOK
    <3>2. /\ recvQueue[1].n = lastRead - Len(recvQueue) + 1
          /\ recvQueue'[1].n = lastRead' - Len(recvQueue') + 1
      BY <1>2, <1>4, <1>7, <3>1 DEF NoGaps
    <3>3. IF parsed = 1 THEN delivered[i] <= recvQueue[1].n ELSE delivered[i] < recvQueue[1].n
      BY <3>1 DEF FrontMarked
    <3>4. Len(recvQueue') = IF parsed = 1 THEN Len(recvQueue) ELSE Len(recvQueue) + 1
      BY <1>2, <1>4, <1>5, <3>1
    <3>5. Len(recvQueue') \in Nat /\ recvQueue'[1].n \in Int /\ recvQueue[1].n \in Int
      BY <1>2, <1>4, <1>5, <3>2
    <3>6. CASE parsed = 1
      BY <3>6, <1>5, <3>1, <3>2, <3>3, <3>4, <3>5
    <3>7. CASE parsed = 0
      BY <3>7, <1>5, <3>1, <3>2, <3>3, <3>4, <3>5
    <3> QED
      BY <3>6, <3>7 DEF TypeOK
  <2> QED
    BY <1>3, <1>4, <2>1 DEF FrontMarked, ReadDatagram
<1>9. InOrderOnce'
  BY DEF InOrderOnce, ReadDatagram
<1> QED
  BY <1>6, <1>7, <1>8, <1>9

\* Trimming, alone, preserves what the invariant says of the queue and does
\* not move its front backwards.
LEMMA TrimInv ==
  ASSUME IInv, recvQueue' = Trimmed(recvQueue), UNCHANGED <<arrived, socket>>
  PROVE  /\ recvQueue' \in Seq(Datagram)
         /\ Len(recvQueue') \in Nat
         /\ Len(recvQueue') <= maxQueueSize
         /\ recvQueue # <<>> <=> recvQueue' # <<>>
         /\ NoGaps'
         /\ recvQueue # <<>> =>
              /\ recvQueue[1].n \in Int
              /\ recvQueue'[1].n \in Int
              /\ recvQueue[1].n <= recvQueue'[1].n
              /\ recvQueue'[1].n = lastRead - Len(recvQueue') + 1
<1> USE DEF IInv
<1>1. /\ recvQueue' \in Seq(Datagram)
      /\ Len(recvQueue') <= Len(recvQueue)
      /\ Len(recvQueue') <= maxQueueSize
      /\ recvQueue # <<>> => recvQueue' # <<>>
      /\ \A i \in 1..Len(recvQueue') :
           recvQueue'[i] = recvQueue[Len(recvQueue) - Len(recvQueue') + i]
  BY TrimmedFacts DEF TypeOK
<1>2. /\ Len(recvQueue) \in Nat
      /\ Len(recvQueue') \in Nat
      /\ lastRead \in Int
      /\ lastRead' = lastRead
  BY <1>1, LenProperties DEF TypeOK, lastRead
<1>3. recvQueue # <<>> <=> recvQueue' # <<>>
  BY <1>1, <1>2, EmptySeq DEF TypeOK
<1>4. NoGaps'
  <2>1. ASSUME NEW i \in 1..Len(recvQueue')
        PROVE  recvQueue'[i].n = lastRead' - Len(recvQueue') + i
    <3> DEFINE k == Len(recvQueue) - Len(recvQueue') + i
    <3>1. k \in 1..Len(recvQueue) /\ recvQueue'[i] = recvQueue[k]
      BY <1>1, <1>2
    <3>2. recvQueue[k].n = lastRead - Len(recvQueue) + k
      BY <3>1 DEF NoGaps
    <3> QED
      BY <3>1, <3>2, <1>2
  <2>2. Len(recvQueue') <= lastRead'
    BY <1>1, <1>2 DEF NoGaps
  <2> QED
    BY <1>2, <2>1, <2>2 DEF NoGaps
<1>5. ASSUME recvQueue # <<>>
      PROVE  /\ recvQueue[1].n = lastRead - Len(recvQueue) + 1
             /\ recvQueue'[1].n = lastRead - Len(recvQueue') + 1
  <2>1. Len(recvQueue) \in Nat \ {0} /\ Len(recvQueue') \in Nat \ {0}
    BY <1>1, <1>2, <1>3, <1>5, EmptySeq DEF TypeOK
  <2> QED
    <3>1. 1 \in 1..Len(recvQueue) /\ 1 \in 1..Len(recvQueue')
      BY <2>1
    <3>2. /\ recvQueue[1].n = lastRead - Len(recvQueue) + 1
          /\ recvQueue'[1].n = lastRead' - Len(recvQueue') + 1
      BY <1>4, <3>1 DEF NoGaps
    <3> QED
      BY <1>2, <3>2
<1>6. ASSUME recvQueue # <<>>
      PROVE  /\ recvQueue[1].n \in Int
             /\ recvQueue'[1].n \in Int
             /\ recvQueue[1].n <= recvQueue'[1].n
  BY <1>1, <1>2, <1>5, <1>6
<1> QED
  BY <1>1, <1>2, <1>3, <1>4, <1>5, <1>6

LEMMA ReturnNothingIInv == IInv /\ ReturnNothing => IInv'
<1> SUFFICES ASSUME IInv, ReturnNothing PROVE IInv'
  OBVIOUS
<1>1. recvQueue' = Trimmed(recvQueue) /\ UNCHANGED <<arrived, socket>>
  BY DEF ReturnNothing
<1>2. TypeOK'
  BY <1>1, TrimInv DEF IInv, TypeOK, ReturnNothing
<1>3. FrontMarked'
  <2>1. ASSUME NEW i \in 1..Len(delivered) PROVE delivered[i] \in Nat
    BY ElementOfSeq DEF IInv, TypeOK
  <2> QED
    BY <1>1, <2>1, TrimInv DEF IInv, FrontMarked, ReturnNothing, TypeOK
<1>4. InOrderOnce'
  BY DEF IInv, InOrderOnce, ReturnNothing
<1> QED
  BY <1>1, <1>2, <1>3, <1>4, TrimInv DEF IInv

\* The message handed over is newer than all those handled before: it is the
\* front, and the front was not marked when it was reached.
LEMMA ReturnFrontIInv == IInv /\ ReturnFront => IInv'
<1> SUFFICES ASSUME IInv, ReturnFront PROVE IInv'
  OBVIOUS
<1>1. recvQueue' = Trimmed(recvQueue) /\ UNCHANGED <<arrived, socket>>
  BY DEF ReturnFront
<1>2. /\ recvQueue # <<>> /\ parsed = 0
      /\ recvQueue' # <<>> /\ recvQueue' \in Seq(Datagram)
      /\ Head(recvQueue') = recvQueue'[1]
      /\ recvQueue'[1].n \in Nat \ {0}
  <2>1. recvQueue # <<>> /\ parsed = 0
    BY DEF IInv, FrontMarked, ReturnFront
  <2>2. recvQueue' # <<>> /\ recvQueue' \in Seq(Datagram)
    BY <1>1, <2>1, TrimInv
  <2>3. Head(recvQueue') = recvQueue'[1] /\ Head(recvQueue') \in Datagram
    BY <2>2, TailFacts
  <2> QED
    BY <2>1, <2>2, <2>3 DEF Datagram
<1>3. ASSUME NEW i \in 1..Len(delivered)
      PROVE  delivered[i] \in Nat /\ delivered[i] < recvQueue'[1].n
  <2>1. delivered[i] \in Nat /\ delivered[i] < recvQueue[1].n
    BY <1>2, ElementOfSeq DEF IInv, TypeOK, FrontMarked
  <2> QED
    BY <1>1, <1>2, <2>1, TrimInv
<1>4. CASE delivered' = delivered
  <2>1. TypeOK'
    BY <1>1, <1>4, TrimInv DEF IInv, TypeOK, ReturnFront
  <2>2. FrontMarked'
    BY <1>2, <1>3, <1>4 DEF IInv, FrontMarked, ReturnFront
  <2>3. InOrderOnce'
    BY <1>4 DEF IInv, InOrderOnce
  <2> QED
    BY <1>1, <2>1, <2>2, <2>3, TrimInv DEF IInv
<1>5. CASE delivered' # delivered
  <2>1. delivered' = Append(delivered, recvQueue'[1].n) /\ nSPLMessageData' = 0 /\ pc' = pc
    BY <1>2, <1>5 DEF ReturnFront
  <2>2. /\ delivered' \in Seq(Nat \ {0})
        /\ Len(delivered) \in Nat
        /\ Len(delivered') = Len(delivered) + 1
        /\ \A i \in 1..Len(delivered) : delivered'[i] = delivered[i]
        /\ delivered'[Len(delivered) + 1] = recvQueue'[1].n
    BY <1>2, <2>1, AppendFacts, LenProperties DEF IInv, TypeOK
  <2>3. TypeOK'
    BY <1>1, <2>1, <2>2, TrimInv DEF IInv, TypeOK, ReturnFront
  <2>4. FrontMarked'
    <3>1. ASSUME NEW i \in 1..Len(delivered') PROVE delivered'[i] <= recvQueue'[1].n
      <4>1. CASE i \in 1..Len(delivered)
        BY <4>1, <1>2, <1>3, <2>2
      <4>2. CASE i = Len(delivered) + 1
        BY <4>2, <1>2, <2>2
      <4> QED
        BY <4>1, <4>2, <2>2
    <3> QED
      BY <1>2, <2>1, <3>1 DEF FrontMarked, ReturnFront
  <2>5. InOrderOnce'
    <3>1. ASSUME NEW i \in 1..Len(delivered'), NEW j \in 1..Len(delivered'), i < j
          PROVE  delivered'[i] < delivered'[j]
      <4>1. CASE j \in 1..Len(delivered)
        BY <3>1, <4>1, <2>2 DEF IInv, InOrderOnce
      <4>2. CASE j = Len(delivered) + 1
        BY <3>1, <4>2, <1>3, <2>2
      <4> QED
        BY <4>1, <4>2, <2>2
    <3> QED
      BY <3>1 DEF InOrderOnce
  <2> QED
    BY <1>1, <2>3, <2>4, <2>5, TrimInv DEF IInv
<1> QED
  BY <1>4, <1>5

LEMMA NextIInv == IInv /\ [Next]_vars => IInv'
<1> SUFFICES ASSUME IInv, [Next]_vars PROVE IInv'
  OBVIOUS
<1>1. CASE UNCHANGED vars
  BY <1>1 DEF vars, IInv, TypeOK, NoGaps, FrontMarked, InOrderOnce, lastRead
<1>2. CASE Next
  BY <1>2, ArriveIInv, CallIInv, ReadDatagramIInv, ReturnNothingIInv, ReturnFrontIInv
     DEF Next
<1> QED
  BY <1>1, <1>2

\* Every reachable state satisfies the inductive invariant.
THEOREM Invariance == Spec => []IInv
BY InitIInv, NextIInv, PTL DEF Spec

\* Types and the bound of the queue, for every size of the queue.
THEOREM TypeCorrect == Spec => []TypeOK
<1>1. IInv => TypeOK
  BY DEF IInv
<1> QED
  BY Invariance, <1>1, PTL

\* What is queued is a run of consecutive arrivals that ends with the newest
\* one read, whatever the two places that pop the queue do.
THEOREM QueueNumbered == Spec => []NoGaps
<1>1. IInv => NoGaps
  BY DEF IInv
<1> QED
  BY Invariance, <1>1, PTL

\* The flag parsed tells of the front of the queue, also after a trim.
THEOREM FlagTellsFront == Spec => []FrontMarked
<1>1. IInv => FrontMarked
  BY DEF IInv
<1> QED
  BY Invariance, <1>1, PTL

\* Messages reach the Lua code in order of arrival and at most once.
THEOREM OrderedDelivery == Spec => []InOrderOnce
<1>1. IInv => InOrderOnce
  BY DEF IInv
<1> QED
  BY Invariance, <1>1, PTL

-----------------------------------------------------------------------------
\* What is handed over is one of the maxQueueSize newest messages read.
LEMMA FreshStep ==
  ASSUME IInv, [Next]_vars, delivered' # delivered
  PROVE  lastRead - delivered'[Len(delivered')] < maxQueueSize
<1>1. ReturnFront
  BY DEF Next, vars, Arrive, Call, ReadDatagram, ReturnNothing
<1>2. recvQueue' = Trimmed(recvQueue) /\ UNCHANGED <<arrived, socket>>
  BY <1>1 DEF ReturnFront
<1>3. recvQueue # <<>> /\ recvQueue' # <<>> /\ recvQueue' \in Seq(Datagram)
  BY <1>1, <1>2, TrimInv DEF IInv, FrontMarked, ReturnFront
<1>4. delivered' = Append(delivered, recvQueue'[1].n) /\ recvQueue'[1].n \in Nat \ {0}
  <2>1. Head(recvQueue') = recvQueue'[1] /\ Head(recvQueue') \in Datagram
    BY <1>3, TailFacts
  <2>2. Head(recvQueue').ok
    BY <1>1 DEF ReturnFront
  <2> QED
    BY <1>1, <2>1, <2>2 DEF ReturnFront, Datagram
<1>5. delivered'[Len(delivered')] = recvQueue'[1].n
  BY <1>4, AppendFacts DEF IInv, TypeOK
<1>6. lastRead \in Int
  BY LenProperties DEF IInv, TypeOK, lastRead
<1> QED
  BY <1>2, <1>3, <1>5, <1>6, TrimInv, QueueAssumption

THEOREM Freshness == Spec => FreshEnough
<1>1. IInv /\ [Next]_vars =>
        [delivered' # delivered =>
           lastRead - delivered'[Len(delivered')] < maxQueueSize]_vars
  BY FreshStep
<1> QED
  BY Invariance, <1>1, PTL DEF Spec, FreshEnough

-----------------------------------------------------------------------------
\* Since the numbers are consecutive, what may still be handed over is an
\* interval that ends with the newest arrival.
firstPending == lastRead - Len(recvQueue) + IF parsed = 1 THEN 2 ELSE 1

LEMMA PendingInterval == IInv => Pending = firstPending..arrived /\ firstPending \in Int
<1> SUFFICES ASSUME IInv
             PROVE  Pending = firstPending..arrived /\ firstPending \in Int
  OBVIOUS
<1> USE DEF IInv
<1> DEFINE first == IF parsed = 1 THEN 2 ELSE 1
<1>1. /\ Len(socket) \in Nat /\ Len(recvQueue) \in Nat
      /\ arrived \in Nat /\ lastRead \in Int /\ arrived = lastRead + Len(socket)
  BY LenProperties DEF TypeOK, lastRead
<1>2. first \in 1..Len(recvQueue) + 1 /\ first \in Nat
  <2>1. parsed = 1 => Len(recvQueue) \in Nat \ {0}
    BY EmptySeq DEF TypeOK, FrontMarked
  <2> QED
    BY <1>1, <2>1
<1>3. firstPending = lastRead - Len(recvQueue) + first
  BY DEF firstPending
<1> HIDE DEF first
<1>4. Pending = {socket[i].n : i \in 1..Len(socket)} \union
                {recvQueue[i].n : i \in first..Len(recvQueue)}
  BY DEF Pending, first
<1>5. ASSUME NEW k \in Pending PROVE k \in firstPending..arrived
  <2>1. CASE \E i \in 1..Len(socket) : k = socket[i].n
    BY <2>1, <1>1, <1>2, <1>3 DEF NoGaps
  <2>2. CASE \E i \in first..Len(recvQueue) : k = recvQueue[i].n
    <3>1. PICK i \in first..Len(recvQueue) : k = recvQueue[i].n
      BY <2>2
    <3>2. k = lastRead - Len(recvQueue) + i
      BY <3>1, <1>2 DEF NoGaps
    <3> QED
      BY <3>2, <1>1, <1>2, <1>3
  <2> QED
    BY <1>4, <2>1, <2>2
<1>6. ASSUME NEW k \in firstPending..arrived PROVE k \in Pending
  <2>1. CASE k > lastRead
    <3>1. k - lastRead \in 1..Len(socket)
      BY <2>1, <1>1, <1>2, <1>3
    <3>2. socket[k - lastRead].n = k
      BY <3>1, <1>1, <1>2, <1>3 DEF NoGaps
    <3> QED
      BY <3>1, <3>2, <1>4
  <2>2. CASE ~(k > lastRead)
    <3> DEFINE i == k - lastRead + Len(recvQueue)
    <3>1. i \in first..Len(recvQueue)
      BY <2>2, <1>1, <1>2, <1>3
    <3>2. recvQueue[i].n = lastRead - Len(recvQueue) + i
      BY <3>1, <1>2 DEF NoGaps
    <3>3. recvQueue[i].n = k
      BY <3>2, <1>1, <1>2, <1>3
    <3> HIDE DEF i
    <3> QED
      BY <3>1, <3>3, <1>4
  <2> QED
    BY <2>1, <2>2
<1>7. firstPending \in Int
  BY <1>1, <1>2, <1>3
<1>8. Pending = firstPending..arrived
  BY <1>5, <1>6
<1> QED
  BY <1>7, <1>8

\* The same fact about the state after a step.
LEMMA PendingIntervalNext ==
  IInv' => Pending' = firstPending'..arrived' /\ firstPending' \in Int
<1>1. (IInv => Pending = firstPending..arrived /\ firstPending \in Int)'
  BY PendingInterval, PTL
<1> QED
  BY <1>1

LEMMA InitRefines == Init => Fifo!Init
<1> SUFFICES ASSUME Init PROVE Fifo!Init
  OBVIOUS
<1>1. Len(socket) = 0 /\ Len(recvQueue) = 0
  BY EmptySeq DEF Init
<1>2. Pending = {}
  BY <1>1 DEF Init, Pending
<1> QED
  BY <1>2 DEF Init, Fifo!Init

LEMMA ArriveRefines == IInv /\ Arrive => Fifo!Arrive
<1> SUFFICES ASSUME IInv, Arrive PROVE Fifo!Arrive
  OBVIOUS
<1>1. IInv'
  BY ArriveIInv
<1>2. /\ Pending = firstPending..arrived /\ firstPending \in Int
      /\ Pending' = firstPending'..arrived'
  BY <1>1, PendingInterval, PendingIntervalNext
<1>3. lastRead' = lastRead
  <2>1. /\ socket \in Seq(Datagram) /\ arrived \in Nat /\ arrived' = arrived + 1
    BY DEF IInv, TypeOK, Arrive
  <2>2. PICK ok \in BOOLEAN : socket' = Append(socket, [n |-> arrived + 1, ok |-> ok])
    BY DEF Arrive
  <2>3. [n |-> arrived + 1, ok |-> ok] \in Datagram
    BY <2>1 DEF Datagram
  <2>4. Len(socket') = Len(socket) + 1 /\ Len(socket) \in Nat
    BY <2>1, <2>2, <2>3, AppendFacts, LenProperties
  <2> QED
    BY <2>1, <2>4 DEF lastRead
<1>4. firstPending' = firstPending
  BY <1>3 DEF firstPending, Arrive
<1>5. firstPending <= arrived + 1
  <2>1. parsed = 1 => Len(recvQueue) \in Nat \ {0}
    BY EmptySeq DEF IInv, TypeOK, FrontMarked
  <2>2. Len(socket) \in Nat /\ Len(recvQueue) \in Nat
    BY LenProperties DEF IInv, TypeOK
  <2> QED
    BY <2>1, <2>2 DEF firstPending, lastRead, IInv, TypeOK
<1>6. Pending' = Pending \union {arrived'}
  <2>1. arrived' = arrived + 1 /\ arrived \in Nat
    BY DEF Arrive, IInv, TypeOK
  <2> QED
    BY <1>2, <1>4, <1>5, <2>1
<1> QED
  BY <1>6 DEF Arrive, Fifo!Arrive

LEMMA ReadRefines == IInv /\ ReadDatagram => UNCHANGED <<arrived, Pending, delivered>>
<1> SUFFICES ASSUME IInv, ReadDatagram PROVE UNCHANGED <<arrived, Pending, delivered>>
  OBVIOUS
<1>1. IInv'
  BY ReadDatagramIInv
<1>2. /\ Pending = firstPending..arrived
      /\ Pending' = firstPending'..arrived'
  BY <1>1, PendingInterval, PendingIntervalNext
<1>3. /\ Len(socket) \in Nat \ {0}
      /\ Len(socket') = Len(socket) - 1
      /\ Head(socket) \in Datagram
      /\ arrived \in Nat /\ arrived' = arrived /\ parsed \in {0, 1}
  BY TailFacts DEF ReadDatagram, IInv, TypeOK
<1>4. lastRead' = lastRead + 1 /\ lastRead \in Int
  BY <1>3 DEF lastRead
<1>5. CASE parsed = 1
  <2>1. recvQueue # <<>> /\ recvQueue \in Seq(Datagram)
    BY <1>5 DEF IInv, FrontMarked, TypeOK
  <2>2. /\ Tail(recvQueue) \in Seq(Datagram)
        /\ Len(Tail(recvQueue)) = Len(recvQueue) - 1
        /\ Len(recvQueue) \in Nat \ {0}
    BY <2>1, TailFacts
  <2>3. recvQueue' = Append(Tail(recvQueue), Head(socket)) /\ parsed' = 0
    BY <1>5, <2>1 DEF ReadDatagram
  <2>4. Len(recvQueue') = Len(recvQueue)
    BY <1>3, <2>2, <2>3, AppendFacts
  <2>5. firstPending' = firstPending
    BY <1>4, <1>5, <2>2, <2>3, <2>4 DEF firstPending
  <2> QED
    BY <1>2, <1>3, <2>5 DEF ReadDatagram
<1>6. CASE parsed = 0
  <2>1. recvQueue' = Append(recvQueue, Head(socket)) /\ parsed' = 0
    BY <1>6 DEF ReadDatagram
  <2>2. Len(recvQueue') = Len(recvQueue) + 1 /\ Len(recvQueue) \in Nat
    BY <1>3, <2>1, AppendFacts, LenProperties DEF IInv, TypeOK
  <2>3. firstPending' = firstPending
    BY <1>4, <1>6, <2>1, <2>2 DEF firstPending
  <2> QED
    BY <1>2, <1>3, <2>3 DEF ReadDatagram
<1> QED
  BY <1>3, <1>5, <1>6

LEMMA ReturnNothingRefines == IInv /\ ReturnNothing => Fifo!Lose
<1> SUFFICES ASSUME IInv, ReturnNothing PROVE Fifo!Lose
  OBVIOUS
<1>1. IInv'
  BY ReturnNothingIInv
<1>2. /\ Pending = firstPending..arrived /\ firstPending \in Int
      /\ Pending' = firstPending'..arrived' /\ firstPending' \in Int
  BY <1>1, PendingInterval, PendingIntervalNext
<1>3. Len(recvQueue') <= Len(recvQueue) /\ Len(recvQueue) \in Nat /\ Len(recvQueue') \in Nat
  BY <1>1, TrimmedFacts, LenProperties DEF ReturnNothing, IInv, TypeOK
<1>4. arrived \in Nat /\ lastRead \in Int /\ lastRead' = lastRead /\ parsed' = parsed
  BY LenProperties DEF ReturnNothing, IInv, TypeOK, lastRead
<1>5. firstPending <= firstPending'
  BY <1>3, <1>4 DEF firstPending
<1>6. Pending' \in SUBSET Pending
  BY <1>2, <1>4, <1>5 DEF ReturnNothing
<1> QED
  BY <1>6 DEF Fifo!Lose, ReturnNothing

LEMMA ReturnFrontRefines == IInv /\ ReturnFront => Fifo!Lose \/ Fifo!Deliver
<1> SUFFICES ASSUME IInv, ReturnFront PROVE Fifo!Lose \/ Fifo!Deliver
  OBVIOUS
<1>1. IInv'
  BY ReturnFrontIInv
<1>2. /\ Pending = firstPending..arrived /\ firstPending \in Int
      /\ Pending' = firstPending'..arrived' /\ firstPending' \in Int
  BY <1>1, PendingInterval, PendingIntervalNext
<1>3. recvQueue' = Trimmed(recvQueue) /\ UNCHANGED <<arrived, socket>>
  BY DEF ReturnFront
<1>4. /\ recvQueue # <<>> /\ parsed = 0 /\ parsed' = 1
      /\ recvQueue' # <<>>
      /\ recvQueue' \in Seq(Datagram)
      /\ recvQueue'[1].n = lastRead - Len(recvQueue') + 1
  BY <1>3, TrimInv DEF IInv, FrontMarked, ReturnFront
<1>5. /\ Len(recvQueue') \in Nat \ {0} /\ Len(recvQueue) \in Nat
      /\ Len(recvQueue') <= Len(recvQueue)
  BY <1>3, <1>4, TrimmedFacts, EmptySeq DEF IInv, TypeOK
<1>6. arrived \in Nat /\ lastRead \in Int /\ lastRead' = lastRead /\ lastRead = arrived
  BY <1>3, EmptySeq DEF ReturnFront, IInv, TypeOK, lastRead
<1>7. /\ firstPending = lastRead - Len(recvQueue) + 1
      /\ firstPending' = lastRead - Len(recvQueue') + 2
  BY <1>4, <1>6 DEF firstPending
<1>8. CASE delivered' = delivered
  <2>1. Pending' \in SUBSET Pending
    BY <1>2, <1>3, <1>5, <1>6, <1>7
  <2> QED
    BY <1>3, <1>8, <2>1 DEF Fifo!Lose
<1>9. CASE delivered' # delivered
  <2> DEFINE m == recvQueue'[1].n
  <2>1. m = firstPending' - 1
    BY <1>4, <1>6, <1>7, <1>5
  <2>2. m \in Pending
    BY <1>2, <1>5, <1>6, <1>7, <2>1
  <2>3. Pending' = {n \in Pending : n > m}
    BY <1>2, <1>3, <1>5, <1>6, <1>7, <2>1
  <2>4. delivered' = Append(delivered, m)
    BY <1>4, <1>9, TailFacts DEF ReturnFront
  <2> HIDE DEF m
  <2> QED
    BY <1>3, <2>2, <2>3, <2>4 DEF Fifo!Deliver
<1> QED
  BY <1>8, <1>9

LEMMA NextRefines == IInv /\ [Next]_vars => [Fifo!Next]_(Fifo!fifoVars)
<1> SUFFICES ASSUME IInv, [Next]_vars PROVE [Fifo!Next]_(Fifo!fifoVars)
  OBVIOUS
<1> USE DEF Fifo!fifoVars, Fifo!Next
<1>1. CASE UNCHANGED vars
  BY <1>1 DEF vars, Pending
<1>2. ASSUME NEW who \in Callers, Call(who) PROVE UNCHANGED Fifo!fifoVars
  BY <1>2 DEF Call, Pending
<1>3. CASE Next
  BY <1>2, <1>3, ArriveRefines, ReadRefines, ReturnNothingRefines, ReturnFrontRefines
     DEF Next
<1> QED
  BY <1>1, <1>3

\* The receive path implements the abstract lossy FIFO.
THEOREM Refinement == Spec => ImplementsFifo
BY InitRefines, NextRefines, Invariance, PTL DEF Spec, Fifo!Spec, ImplementsFifo
=============================================================================
