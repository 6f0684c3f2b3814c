---------------------------- MODULE LuaCommProofs ----------------------------
(***************************************************************************)
(* Proofs about the Lua string messages and the debug monitor, for every   *)
(* queue size, socket capacity, number of arrivals and of table parts.     *)
(***************************************************************************)
EXTENDS LuaComm, SequenceTheorems, TLAPS

Number == Nat \ {0}

\* What removing the front of a non-empty sequence does.
LEMMA TailFacts ==
  ASSUME NEW S, NEW s \in Seq(S), s # <<>>
  PROVE  /\ Tail(s) \in Seq(S)
         /\ Head(s) \in S /\ Head(s) = s[1]
         /\ Len(s) \in Nat \ {0}
         /\ Len(Tail(s)) = Len(s) - 1
         /\ \A i \in 1..Len(s) - 1 : Tail(s)[i] = s[i + 1]
BY HeadTailProperties, EmptySeq

\* s is the run of n numbers that ends with last.
Run(s, last) ==
  /\ Len(s) <= last
  /\ \A i \in 1..Len(s) : s[i] = last - Len(s) + i

\* Trimming keeps the end of a run.
LEMMA TrimmedRun ==
  ASSUME NEW q \in Seq(Number), NEW last \in Int, Run(q, last)
  PROVE  /\ Trimmed(q) \in Seq(Number)
         /\ Run(Trimmed(q), last)
         /\ Len(Trimmed(q)) <= Len(q) /\ Len(Trimmed(q)) <= maxQueueSize
         /\ q # <<>> => Trimmed(q) # <<>>
<1> USE QueueAssumption
<1>1. CASE Len(q) <= maxQueueSize
  BY <1>1, LenProperties DEF Trimmed
<1>2. CASE ~(Len(q) <= maxQueueSize)
  <2> DEFINE m == Len(q) - maxQueueSize + 1
  <2>1. m \in 1..Len(q) + 1 /\ Len(q) \in Nat
    BY <1>2, LenProperties
  <2>2. Trimmed(q) = SubSeq(q, m, Len(q))
    BY <1>2 DEF Trimmed
  <2>3. /\ SubSeq(q, m, Len(q)) \in Seq(Number)
        /\ Len(SubSeq(q, m, Len(q))) = maxQueueSize
        /\ \A i \in 1..maxQueueSize : SubSeq(q, m, Len(q))[i] = q[m + i - 1]
    BY <1>2, <2>1, SubSeqProperties
  <2>4. Trimmed(q) # <<>>
    BY <2>2, <2>3, EmptySeq
  <2>5. Run(Trimmed(q), last)
    <3> SUFFICES ASSUME NEW i \in 1..maxQueueSize
                 PROVE  q[m + i - 1] = last - maxQueueSize + i
      BY <1>2, <2>1, <2>2, <2>3 DEF Run
    <3>1. m + i - 1 \in 1..Len(q)
      BY <1>2, <2>1
    <3>2. q[m + i - 1] = last - Len(q) + (m + i - 1)
      BY <3>1 DEF Run
    <3> QED
      BY <2>1, <3>2
  <2> QED
    BY <1>2, <2>1, <2>2, <2>3, <2>4, <2>5
<1> QED
  BY <1>1, <1>2

\* The front of a run goes.
LEMMA TailRun ==
  ASSUME NEW q \in Seq(Number), NEW last \in Int, Run(q, last), q # <<>>
  PROVE  /\ Tail(q) \in Seq(Number)
         /\ Run(Tail(q), last)
         /\ Len(Tail(q)) = Len(q) - 1
         /\ Head(q) = last - Len(q) + 1 /\ Head(q) \in Number
<1>1. /\ Tail(q) \in Seq(Number) /\ Head(q) \in Number /\ Head(q) = q[1]
      /\ Len(q) \in Nat \ {0} /\ Len(Tail(q)) = Len(q) - 1
      /\ \A i \in 1..Len(q) - 1 : Tail(q)[i] = q[i + 1]
  BY TailFacts
<1>2. ASSUME NEW i \in 1..Len(q) - 1 PROVE Tail(q)[i] = last - Len(Tail(q)) + i
  <2>1. i + 1 \in 1..Len(q)
    BY <1>1
  <2>2. q[i + 1] = last - Len(q) + (i + 1)
    BY <2>1 DEF Run
  <2> QED
    BY <1>1, <2>2
<1> QED
  BY <1>1, <1>2 DEF Run

-----------------------------------------------------------------------------
\* The inductive invariant: what is queued and what is in the socket are the
\* two ends of one run of arrivals.
lastRead == arrived - Len(socket)

Numbered == Run(recvQueue, lastRead) /\ Run(socket, arrived)

IInv == TypeOK /\ Numbered

LEMMA InitIInv == Init => IInv
<1> SUFFICES ASSUME Init PROVE IInv
  OBVIOUS
<1>1. /\ arrived = 0 /\ socket = <<>> /\ recvQueue = <<>> /\ delivered = <<>>
      /\ pc = "idle" /\ parts = 0 /\ Len(socket) = 0 /\ Len(recvQueue) = 0
  BY DEF Init
<1> QED
  BY <1>1, QueueAssumption, LutAssumption DEF IInv, TypeOK, Numbered, Run, lastRead

LEMMA Facts ==
  IInv => /\ socket \in Seq(Number) /\ recvQueue \in Seq(Number) /\ delivered \in Seq(Number)
          /\ Len(socket) \in Nat /\ Len(recvQueue) \in Nat /\ arrived \in Nat
          /\ lastRead \in Int
BY LenProperties DEF IInv, TypeOK, lastRead, Number

LEMMA ArriveIInv == IInv /\ Arrive => IInv' /\ lastRead' = lastRead
<1> SUFFICES ASSUME IInv, Arrive PROVE IInv' /\ lastRead' = lastRead
  OBVIOUS
<1>1. /\ arrived' = arrived + 1 /\ socket' = Append(socket, arrived + 1)
      /\ UNCHANGED <<recvQueue, pc, parts, delivered>>
  BY DEF Arrive
<1>2. /\ socket' \in Seq(Number) /\ Len(socket') = Len(socket) + 1
      /\ \A i \in 1..Len(socket) : socket'[i] = socket[i]
      /\ socket'[Len(socket) + 1] = arrived + 1
  <2>1. arrived + 1 \in Number
    BY Facts DEF Number
  <2> QED
    BY <1>1, <2>1, Facts, AppendProperties
<1>3. lastRead' = lastRead
  BY <1>1, <1>2, Facts DEF lastRead
<1>4. Run(socket', arrived')
  BY <1>1, <1>2, Facts DEF Run, IInv, Numbered
<1>5. Numbered'
  BY <1>1, <1>3, <1>4 DEF IInv, Numbered, Run
<1>6. TypeOK'
  BY <1>1, <1>2, Facts DEF IInv, TypeOK, Number
<1> QED
  BY <1>3, <1>5, <1>6 DEF IInv

LEMMA ReadIInv ==
  IInv /\ ReadDatagram => /\ IInv'
                          /\ lastRead' = lastRead + 1
                          /\ Len(recvQueue') = Len(recvQueue) + 1
<1> SUFFICES ASSUME IInv, ReadDatagram
             PROVE  /\ IInv' /\ lastRead' = lastRead + 1
                    /\ Len(recvQueue') = Len(recvQueue) + 1
  OBVIOUS
<1>1. /\ socket # <<>> /\ socket' = Tail(socket) /\ pc \in {"receive", "send"}
      /\ recvQueue' = Append(recvQueue, Head(socket))
      /\ UNCHANGED <<arrived, pc, parts, delivered>>
  BY DEF ReadDatagram
<1>2. /\ socket' \in Seq(Number) /\ Run(socket', arrived)
      /\ Len(socket') = Len(socket) - 1
      /\ Head(socket) = arrived - Len(socket) + 1 /\ Head(socket) \in Number
  BY <1>1, Facts, TailRun DEF IInv, Numbered
<1>3. lastRead' = lastRead + 1
  BY <1>1, <1>2, Facts DEF lastRead
<1>4. /\ recvQueue' \in Seq(Number) /\ recvQueue' # <<>>
      /\ Len(recvQueue') = Len(recvQueue) + 1
      /\ \A i \in 1..Len(recvQueue) : recvQueue'[i] = recvQueue[i]
      /\ recvQueue'[Len(recvQueue) + 1] = Head(socket)
  BY <1>1, <1>2, Facts, AppendProperties
<1>5. Head(socket) = lastRead + 1
  BY <1>2 DEF lastRead
<1>6. Run(recvQueue', lastRead')
  <2>1. Len(recvQueue) <= lastRead
        /\ \A i \in 1..Len(recvQueue) : recvQueue[i] = lastRead - Len(recvQueue) + i
    BY DEF IInv, Numbered, Run
  <2>2. Len(recvQueue') <= lastRead'
    BY <1>3, <1>4, <2>1, Facts
  <2>3. ASSUME NEW i \in 1..Len(recvQueue')
        PROVE  recvQueue'[i] = lastRead' - Len(recvQueue') + i
    <3>1. /\ i \in Int /\ lastRead \in Int /\ Len(recvQueue) \in Nat
          /\ i \in 1..Len(recvQueue) \/ i = Len(recvQueue) + 1
      BY <1>4, Facts
    <3>2. lastRead' - Len(recvQueue') + i = lastRead - Len(recvQueue) + i
      BY <1>3, <1>4, <3>1
    <3>3. CASE i \in 1..Len(recvQueue)
      BY <1>4, <2>1, <3>2, <3>3
    <3>4. CASE i = Len(recvQueue) + 1
      BY <1>4, <1>5, <3>1, <3>2, <3>4
    <3> QED
      BY <3>1, <3>3, <3>4
  <2> QED
    BY <2>2, <2>3 DEF Run
<1>7. TypeOK'
  BY <1>1, <1>2, <1>4, Facts DEF IInv, TypeOK, Number
<1> QED
  BY <1>1, <1>2, <1>3, <1>4, <1>6, <1>7 DEF IInv, Numbered

LEMMA SendIInv ==
  IInv /\ Send => IInv' /\ Len(recvQueue') <= Len(recvQueue) /\ lastRead' = lastRead
<1> SUFFICES ASSUME IInv, Send
             PROVE  IInv' /\ Len(recvQueue') <= Len(recvQueue) /\ lastRead' = lastRead
  OBVIOUS
<1>1. /\ recvQueue' = Trimmed(recvQueue) /\ UNCHANGED <<arrived, socket, delivered>>
      /\ pc = "send" /\ pc' = "parts" /\ parts' = parts - 1
  BY DEF Send
<1>2. /\ recvQueue' \in Seq(Number) /\ Run(recvQueue', lastRead)
      /\ Len(recvQueue') <= Len(recvQueue) /\ Len(recvQueue') <= maxQueueSize
  BY <1>1, Facts, TrimmedRun DEF IInv, Numbered
<1>3. parts' \in 0..LutParts
  BY <1>1, LutAssumption DEF IInv, TypeOK
<1>4. lastRead' = lastRead
  BY <1>1 DEF lastRead
<1> QED
  BY <1>1, <1>2, <1>3, <1>4, Facts DEF IInv, TypeOK, Number, Numbered

\* The number handed over is that of the front of the trimmed queue.
LEMMA ReturnFrontIInv ==
  IInv /\ ReturnFront =>
    /\ IInv'
    /\ Len(recvQueue') < Len(recvQueue) /\ Len(recvQueue') < maxQueueSize
    /\ lastRead' = lastRead
    /\ delivered' = Append(delivered, lastRead - Len(recvQueue'))
<1> SUFFICES ASSUME IInv, ReturnFront
             PROVE  /\ IInv'
                    /\ Len(recvQueue') < Len(recvQueue) /\ Len(recvQueue') < maxQueueSize
                    /\ lastRead' = lastRead
                    /\ delivered' = Append(delivered, lastRead - Len(recvQueue'))
  OBVIOUS
<1> DEFINE q == Trimmed(recvQueue)
<1>1. /\ pc = "receive" /\ pc' = "lut" /\ recvQueue # <<>> /\ recvQueue' = Tail(q)
      /\ delivered' = Append(delivered, Head(q)) /\ UNCHANGED <<arrived, socket, parts>>
  BY DEF ReturnFront
<1>2. /\ q \in Seq(Number) /\ Run(q, lastRead) /\ q # <<>>
      /\ Len(q) <= Len(recvQueue) /\ Len(q) <= maxQueueSize
  BY <1>1, Facts, TrimmedRun DEF IInv, Numbered
<1> HIDE DEF q
<1>3. /\ recvQueue' \in Seq(Number) /\ Run(recvQueue', lastRead)
      /\ Len(recvQueue') = Len(q) - 1
      /\ Head(q) = lastRead - Len(q) + 1 /\ Head(q) \in Number
  BY <1>1, <1>2, Facts, TailRun
<1>4. Len(q) \in Nat
  BY <1>2, LenProperties
<1>5. Head(q) = lastRead - Len(recvQueue')
  BY <1>3, <1>4, Facts
<1>6. Len(recvQueue') < Len(recvQueue) /\ Len(recvQueue') < maxQueueSize
  BY <1>2, <1>3, <1>4, Facts, QueueAssumption
<1>7. delivered' \in Seq(Number)
  BY <1>1, <1>3, Facts, AppendProperties
<1>8. lastRead' = lastRead
  BY <1>1 DEF lastRead
<1>9. TypeOK'
  <2>1. Len(recvQueue') \in Nat
    BY <1>3, LenProperties
  <2> QED
    BY <1>1, <1>3, <1>6, <1>7, <2>1, QueueAssumption, Facts DEF IInv, TypeOK, Number
<1>10. Numbered'
  BY <1>1, <1>3, <1>8 DEF IInv, Numbered
<1> QED
  BY <1>1, <1>5, <1>6, <1>8, <1>9, <1>10 DEF IInv

\* The other steps move the monitor and leave the messages alone.
Elsewhere == StartTurn \/ ReturnNil \/ NextPart \/ \E changed \in BOOLEAN : SendLut(changed)

LEMMA ElsewhereIInv ==
  IInv /\ Elsewhere => IInv' /\ UNCHANGED <<arrived, socket, recvQueue, delivered>>
<1> SUFFICES ASSUME IInv, Elsewhere
             PROVE  IInv' /\ UNCHANGED <<arrived, socket, recvQueue, delivered>>
  OBVIOUS
<1>1. UNCHANGED <<arrived, socket, recvQueue, delivered>>
  BY DEF Elsewhere, StartTurn, ReturnNil, NextPart, SendLut
<1>2. Numbered'
  BY <1>1 DEF IInv, Numbered, Run, lastRead
<1>3. CASE ReturnNil
  <2>1. Len(recvQueue) = 0
    BY <1>3, EmptySeq DEF ReturnNil
  <2> QED
    BY <1>1, <1>2, <1>3, <2>1, QueueAssumption DEF IInv, TypeOK, ReturnNil
<1>4. CASE StartTurn \/ NextPart
  BY <1>1, <1>2, <1>4, LutAssumption DEF IInv, TypeOK, StartTurn, NextPart
<1>5. CASE \E changed \in BOOLEAN : SendLut(changed)
  BY <1>1, <1>2, <1>5, LutAssumption DEF IInv, TypeOK, SendLut
<1> QED
  BY <1>3, <1>4, <1>5 DEF Elsewhere

LEMMA NextIInv == IInv /\ [Next]_vars => IInv'
<1>1. IInv /\ UNCHANGED vars => IInv'
  BY DEF vars, IInv, TypeOK, Numbered, Run, lastRead
<1> QED
  BY <1>1, ArriveIInv, ReadIInv, SendIInv, ReturnFrontIInv, ElsewhereIInv
     DEF Next, Monitor, Elsewhere

\* Every reachable state satisfies the inductive invariant.
THEOREM Invariance == Spec => []IInv
BY InitIInv, NextIInv, PTL DEF Spec

\* Types, and outside receive() and send() the queue keeps its bound, for
\* every bound and however long the monitor only sends.
THEOREM TypeCorrect == Spec => []TypeOK
<1>1. IInv => TypeOK
  BY DEF IInv
<1> QED
  BY Invariance, <1>1, PTL

\* The monitor never shows a message that maxQueueSize newer ones overtook.
THEOREM Freshness == Spec => FreshEnough
<1> DEFINE Fresh == delivered' # delivered =>
                      delivered'[Len(delivered')] > arrived - maxQueueSize
<1>1. IInv /\ [Next]_vars => [Fresh]_vars
  <2> SUFFICES ASSUME IInv, [Next]_vars PROVE Fresh
    OBVIOUS
  <2>1. CASE ReturnFront
    <3> DEFINE m == lastRead - Len(recvQueue')
    <3>1. delivered' = Append(delivered, m) /\ Len(recvQueue') < maxQueueSize
      BY <2>1, ReturnFrontIInv
    <3>2. lastRead = arrived
      <4>1. Len(socket) = 0
        BY <2>1, EmptySeq DEF ReturnFront
      <4> QED
        BY <4>1, Facts DEF lastRead
    <3>3. recvQueue' \in Seq(Number) /\ delivered' \in Seq(Number)
      BY <2>1, ReturnFrontIInv DEF IInv, TypeOK, Number
    <3>4. m > arrived - maxQueueSize
      BY <3>1, <3>2, <3>3, LenProperties, Facts, QueueAssumption
    <3> HIDE DEF m
    <3>5. Len(delivered') = Len(delivered) + 1 /\ delivered'[Len(delivered) + 1] = m
      BY <3>1, Facts, AppendProperties
    <3> QED
      BY <3>4, <3>5
  <2>2. CASE Arrive \/ ReadDatagram \/ Send \/ Elsewhere \/ UNCHANGED vars
    BY <2>2, ElsewhereIInv DEF Arrive, ReadDatagram, Send, vars
  <2> QED
    BY <2>1, <2>2 DEF Next, Monitor, Elsewhere
<1> HIDE DEF Fresh
<1>2. Spec => [][Fresh]_vars
  BY <1>1, Invariance, PTL DEF Spec
<1> QED
  BY <1>2 DEF FreshEnough, Fresh

-----------------------------------------------------------------------------
\* What may still be handed over is an interval that ends with the newest
\* arrival.
firstPending == lastRead - Len(recvQueue) + 1

LEMMA PendingInterval == IInv => Pending = firstPending..arrived /\ firstPending \in Int
<1> SUFFICES ASSUME IInv PROVE Pending = firstPending..arrived /\ firstPending \in Int
  OBVIOUS
<1>1. firstPending \in Int /\ lastRead = arrived - Len(socket)
  BY Facts DEF firstPending, lastRead
<1>2. ASSUME NEW k \in Pending PROVE k \in firstPending..arrived
  <2>1. CASE \E i \in 1..Len(socket) : k = socket[i]
    BY <2>1, <1>1, Facts DEF IInv, Numbered, Run, firstPending
  <2>2. CASE \E i \in 1..Len(recvQueue) : k = recvQueue[i]
    BY <2>2, <1>1, Facts DEF IInv, Numbered, Run, firstPending
  <2> QED
    BY <2>1, <2>2 DEF Pending
<1>3. ASSUME NEW k \in firstPending..arrived PROVE k \in Pending
  <2>1. CASE k > lastRead
    <3>1. k - lastRead \in 1..Len(socket)
      BY <2>1, <1>1, Facts
    <3> DEFINE j == k - lastRead
    <3>2. socket[j] = arrived - Len(socket) + j
      BY <3>1 DEF IInv, Numbered, Run
    <3>3. socket[j] = k
      BY <3>2, <1>1, Facts
    <3> HIDE DEF j
    <3> QED
      BY <3>1, <3>3 DEF Pending, j
  <2>2. CASE ~(k > lastRead)
    <3> DEFINE i == k - lastRead + Len(recvQueue)
    <3>1. i \in 1..Len(recvQueue)
      BY <2>2, <1>1, Facts DEF firstPending
    <3>2. recvQueue[i] = lastRead - Len(recvQueue) + i
      BY <3>1 DEF IInv, Numbered, Run
    <3>3. recvQueue[i] = k
      BY <3>2, <1>1, Facts
    <3> HIDE DEF i
    <3> QED
      BY <3>1, <3>3 DEF Pending
  <2> QED
    BY <2>1, <2>2
<1>4. Pending = firstPending..arrived
  BY <1>2, <1>3
<1> QED
  BY <1>1, <1>4

\* The same fact about the state after a step.
LEMMA PendingIntervalNext ==
  IInv' => Pending' = firstPending'..arrived' /\ firstPending' \in Int
<1>1. (IInv => Pending = firstPending..arrived /\ firstPending \in Int)'
  BY PendingInterval, PTL
<1> QED
  BY <1>1

LEMMA InitRefines == Init => Fifo!Init
<1> SUFFICES ASSUME Init PROVE Fifo!Init
  OBVIOUS
<1>1. Len(socket) = 0 /\ Len(recvQueue) = 0
  BY EmptySeq DEF Init
<1>2. Pending = {}
  BY <1>1 DEF Pending
<1> QED
  BY <1>2 DEF Init, Fifo!Init

LEMMA NextRefines == IInv /\ [Next]_vars => [Fifo!Next]_(Fifo!fifoVars)
<1> SUFFICES ASSUME IInv, [Next]_vars PROVE [Fifo!Next]_(Fifo!fifoVars)
  OBVIOUS
<1> USE DEF Fifo!fifoVars, Fifo!Next
<1>1. /\ Pending = firstPending..arrived /\ firstPending \in Int
      /\ Pending' = firstPending'..arrived' /\ firstPending' \in Int
  BY NextIInv, PendingInterval, PendingIntervalNext
<1>2. firstPending = lastRead - Len(recvQueue) + 1 /\ firstPending' = lastRead' - Len(recvQueue') + 1
  BY DEF firstPending
<1>3. firstPending <= arrived + 1
  BY <1>2, Facts DEF lastRead
<1>4. CASE Arrive
  <2>1. arrived' = arrived + 1 /\ UNCHANGED <<recvQueue, delivered>> /\ lastRead' = lastRead
    BY <1>4, ArriveIInv DEF Arrive
  <2>2. Pending' = Pending \union {arrived'}
    BY <1>1, <1>2, <1>3, <2>1, Facts
  <2> QED
    BY <2>1, <2>2 DEF Fifo!Arrive
<1>5. CASE ReadDatagram
  <2>1. UNCHANGED <<arrived, delivered>> /\ firstPending' = firstPending
    BY <1>2, <1>5, ReadIInv, Facts DEF ReadDatagram
  <2> QED
    BY <1>1, <2>1
<1>6. CASE Send
  <2>1. UNCHANGED <<arrived, delivered>> /\ firstPending <= firstPending'
    <3>1. /\ UNCHANGED <<arrived, delivered>> /\ lastRead' = lastRead
          /\ Len(recvQueue') <= Len(recvQueue)
      BY <1>6, SendIInv DEF Send
    <3>2. Len(recvQueue') \in Nat
      BY <1>6, Facts, QueueAssumption, TrimmedRun, LenProperties
         DEF Send, IInv, Numbered
    <3> QED
      BY <1>2, <3>1, <3>2, Facts
  <2>2. Pending' \in SUBSET Pending
    BY <1>1, <2>1, Facts
  <2> QED
    BY <2>1, <2>2 DEF Fifo!Lose
<1>7. CASE ReturnFront
  <2> DEFINE m == lastRead - Len(recvQueue')
  <2>1. /\ UNCHANGED arrived /\ lastRead' = lastRead /\ delivered' = Append(delivered, m)
        /\ Len(recvQueue') < Len(recvQueue) /\ lastRead = arrived
    <3>1. Len(socket) = 0
      BY <1>7, EmptySeq DEF ReturnFront
    <3> QED
      BY <1>7, <3>1, ReturnFrontIInv, Facts DEF ReturnFront, lastRead
  <2>2. Len(recvQueue') \in Nat
    <3>1. recvQueue' \in Seq(Number)
      BY <1>7, ReturnFrontIInv DEF IInv, TypeOK, Number
    <3> QED
      BY <3>1, LenProperties
  <2>3. m \in Pending /\ firstPending' = m + 1
    BY <1>1, <1>2, <2>1, <2>2, Facts
  <2>4. Pending' = {n \in Pending : n > m}
    BY <1>1, <2>1, <2>2, <2>3, Facts
  <2> HIDE DEF m
  <2> QED
    BY <2>1, <2>3, <2>4 DEF Fifo!Deliver
<1>8. CASE Elsewhere \/ UNCHANGED vars
  BY <1>8, ElsewhereIInv DEF vars, Pending
<1> QED
  BY <1>4, <1>5, <1>6, <1>7, <1>8 DEF Next, Monitor, Elsewhere

\* The receive path implements the abstract lossy FIFO.
THEOREM Refinement == Spec => ImplementsFifo
BY InitRefines, NextRefines, Invariance, PTL DEF Spec, Fifo!Spec, ImplementsFifo
=============================================================================
