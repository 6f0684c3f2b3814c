---------------------------- MODULE GatewayProofs ----------------------------
(* Proofs about Gateway, for every number of servos, every set of lists    *)
(* the host may write and any number of calls.                             *)
EXTENDS Gateway, SequenceTheorems, TLAPS

-----------------------------------------------------------------------------
(* Sequences *)
LEMMA TailFacts ==
  ASSUME NEW S, NEW s \in Seq(S), s # <<>>
  PROVE  /\ Tail(s) \in Seq(S)
         /\ Head(s) \in S
         /\ Head(s) = s[1]
         /\ Len(s) \in Nat \ {0}
         /\ Len(Tail(s)) = Len(s) - 1
         /\ \A i \in 1 .. Len(Tail(s)) : Tail(s)[i] = s[i + 1]
BY HeadTailProperties, EmptySeq

(* A function on 1 .. n is a sequence *)
LEMMA SeqOf ==
  ASSUME NEW S, NEW n \in Nat, NEW f \in [1 .. n -> S]
  PROVE  f \in Seq(S)
BY SeqDef

(* Marking answers late changes nothing else in them *)
LEMMA LateFacts ==
  ASSUME NEW b \in Seq(BusAnswers)
  PROVE  /\ Late(b) \in Seq(BusAnswers)
         /\ DOMAIN Late(b) = DOMAIN b
         /\ \A k \in DOMAIN b : Late(b)[k].id = b[k].id
<1>1. /\ Len(b) \in Nat /\ DOMAIN b = 1 .. Len(b)
      /\ \A k \in DOMAIN b : b[k] \in BusAnswers
  BY LenProperties
<1>2. \A f \in BusAnswers : /\ [f EXCEPT !.late = TRUE] \in BusAnswers
                            /\ [f EXCEPT !.late = TRUE].id = f.id
  BY DEF BusAnswers
<1>3. Late(b) \in [1 .. Len(b) -> BusAnswers]
  BY <1>1, <1>2 DEF Late
<1> QED
  BY <1>1, <1>2, <1>3, SeqOf DEF Late

(* What the host may ask *)
LEMMA RequestFacts ==
  ASSUME NEW op, NEW arg, <<op, arg>> \in Requests
  PROVE  /\ op \in Operations /\ arg \in Arguments
         /\ op = "mode" => arg \in Modes
         /\ op = "ids" => arg \in Lists
<1>1. op \in Operations /\ arg \in Arguments
  BY DEF Operations, Arguments
<1>2. (op = "mode" => arg \in Modes) /\ (op = "ids" => arg \in Lists)
  BY GatewayAssumption
<1> QED
  BY <1>1, <1>2

(* Putting a request on the line adds its two fragments at the end *)
LEMMA PacketFacts ==
  ASSUME NEW s \in Seq(HostFragments), NEW k \in 1 .. MaxCalls,
         NEW op, NEW arg, <<op, arg>> \in Requests
  PROVE  /\ s \o Packet(k, op, arg) \in Seq(HostFragments)
         /\ Len(s \o Packet(k, op, arg)) = Len(s) + 2
         /\ \A i \in 1 .. Len(s) : (s \o Packet(k, op, arg))[i] = s[i]
         /\ \A h \in {1, 2} : (s \o Packet(k, op, arg))[Len(s) + h]
                                = [n |-> k, half |-> h, op |-> op, arg |-> arg]
<1>1. \A h \in {1, 2} : [n |-> k, half |-> h, op |-> op, arg |-> arg] \in HostFragments
  BY RequestFacts DEF HostFragments
<1>2. /\ Packet(k, op, arg) \in Seq(HostFragments)
      /\ Len(Packet(k, op, arg)) = 2
      /\ \A h \in {1, 2} : Packet(k, op, arg)[h]
                             = [n |-> k, half |-> h, op |-> op, arg |-> arg]
  BY <1>1 DEF Packet
<1>3. Len(s) \in Nat
  BY LenProperties
<1> DEFINE pkt == Packet(k, op, arg)
           res == s \o pkt
<1>4. /\ res \in Seq(HostFragments)
      /\ Len(res) = Len(s) + Len(pkt)
      /\ \A i \in 1 .. Len(s) + Len(pkt) : res[i] = IF i <= Len(s) THEN s[i] ELSE pkt[i - Len(s)]
  BY <1>2, ConcatProperties
<1>5. Len(pkt) = 2
  BY <1>2
<1> HIDE DEF res
<1>6. ASSUME NEW h \in {1, 2} PROVE res[Len(s) + h] = pkt[h]
  <2>1. Len(s) + h \in 1 .. Len(s) + 2 /\ ~(Len(s) + h <= Len(s)) /\ Len(s) + h - Len(s) = h
    BY <1>3
  <2> QED
    BY <2>1, <1>4, <1>5
<1>7. ASSUME NEW i \in 1 .. Len(s) PROVE res[i] = s[i]
  BY <1>3, <1>4, <1>5
<1> HIDE DEF pkt
<1>8. \A h \in {1, 2} : pkt[h] = [n |-> k, half |-> h, op |-> op, arg |-> arg]
  BY <1>2 DEF pkt
<1> QED
  BY <1>4, <1>5, <1>6, <1>7, <1>8 DEF pkt, res

(* What the line from the host carries was asked, and a request's first    *)
(* fragment stands before its second and only there.                       *)
Asked == \A i \in DOMAIN hostIn : /\ <<hostIn[i].op, hostIn[i].arg>> \in Requests
                                  /\ hostIn[i].n <= calls
CallAsked == call.n # 0 => <<call.op, call.arg>> \in Requests
InOrder == \A i, j \in DOMAIN hostIn :
              i < j /\ hostIn[i].n = hostIn[j].n
                 => hostIn[i].half = 1 /\ hostIn[j].half = 2

LEMMA ReqStep ==
  TypeOK /\ Asked /\ InOrder /\ CallAsked /\ [Next]_vars
    => Asked' /\ InOrder' /\ CallAsked' /\ hostIn' \in Seq(HostFragments)
<1> SUFFICES ASSUME TypeOK, Asked, InOrder, CallAsked, [Next]_vars
             PROVE  Asked' /\ InOrder' /\ CallAsked' /\ hostIn' \in Seq(HostFragments)
  OBVIOUS
<1>0. /\ hostIn \in Seq(HostFragments) /\ Len(hostIn) \in Nat
      /\ DOMAIN hostIn = 1 .. Len(hostIn) /\ calls \in 0 .. MaxCalls
      /\ \A i \in 1 .. Len(hostIn) : hostIn[i].n \in Int
  <2>1. \A f \in HostFragments : f.n \in Int
    BY GatewayAssumption DEF HostFragments
  <2>2. hostIn \in Seq(HostFragments) /\ calls \in 0 .. MaxCalls
    BY DEF TypeOK
  <2> QED
    BY <2>1, <2>2, LenProperties
<1>1. ASSUME NEW r \in Requests, Call(r[1], r[2]) \/ RawSyncWrite(r[1], r[2])
      PROVE  Asked' /\ InOrder' /\ CallAsked' /\ hostIn' \in Seq(HostFragments)
  <2> DEFINE k == calls + 1
  <2>1. r = <<r[1], r[2]>> /\ <<r[1], r[2]>> \in Requests
    BY <1>1, GatewayAssumption
  <2>2. calls' = k /\ k \in 1 .. MaxCalls /\ hostIn' = hostIn \o Packet(k, r[1], r[2])
    BY <1>0, <1>1, GatewayAssumption DEF Call, RawSyncWrite
  <2>3. call' = call \/ call' = [n |-> k, op |-> r[1], arg |-> r[2]]
    BY <1>1 DEF Call, RawSyncWrite
  <2> HIDE DEF k
  <2>4. /\ hostIn' \in Seq(HostFragments)
        /\ Len(hostIn') = Len(hostIn) + 2
        /\ \A i \in 1 .. Len(hostIn) : hostIn'[i] = hostIn[i]
        /\ \A h \in {1, 2} : hostIn'[Len(hostIn) + h]
                              = [n |-> k, half |-> h, op |-> r[1], arg |-> r[2]]
    BY <1>0, <2>1, <2>2, PacketFacts
  <2>5. DOMAIN hostIn' = 1 .. Len(hostIn) + 2
    BY <2>4, LenProperties
  <2>6. /\ hostIn'[Len(hostIn) + 1] = [n |-> k, half |-> 1, op |-> r[1], arg |-> r[2]]
        /\ hostIn'[Len(hostIn) + 2] = [n |-> k, half |-> 2, op |-> r[1], arg |-> r[2]]
    BY <2>4
  <2>7. k = calls + 1
    BY DEF k
  <2>8. Asked'
    <3> SUFFICES ASSUME NEW i \in 1 .. Len(hostIn) + 2
                 PROVE  <<hostIn'[i].op, hostIn'[i].arg>> \in Requests /\ hostIn'[i].n <= k
      BY <2>2, <2>5 DEF Asked
    <3>1. CASE i \in 1 .. Len(hostIn)
      <4>1. hostIn'[i] = hostIn[i] /\ i \in DOMAIN hostIn
        BY <1>0, <2>4, <3>1
      <4>2. hostIn[i].n <= calls /\ hostIn[i].n \in Int
        BY <1>0, <3>1, <4>1 DEF Asked
      <4> QED
        BY <1>0, <2>7, <4>1, <4>2 DEF Asked
    <3>2. CASE i = Len(hostIn) + 1 \/ i = Len(hostIn) + 2
      <4>1. hostIn'[i].op = r[1] /\ hostIn'[i].arg = r[2] /\ hostIn'[i].n = k
        BY <2>6, <3>2
      <4> QED
        BY <2>1, <2>2, <4>1
    <3> QED
      BY <1>0, <3>1, <3>2
  <2>9. InOrder'
    <3> SUFFICES ASSUME NEW i \in 1 .. Len(hostIn) + 2, NEW j \in 1 .. Len(hostIn) + 2,
                        i < j, hostIn'[i].n = hostIn'[j].n
                 PROVE  hostIn'[i].half = 1 /\ hostIn'[j].half = 2
      BY <2>5 DEF InOrder
    <3>1. CASE j \in 1 .. Len(hostIn)
      <4>1. i \in 1 .. Len(hostIn) /\ hostIn'[i] = hostIn[i] /\ hostIn'[j] = hostIn[j]
        BY <1>0, <2>4, <3>1
      <4> QED
        BY <1>0, <3>1, <4>1 DEF InOrder
    <3>2. CASE j \notin 1 .. Len(hostIn) /\ i \in 1 .. Len(hostIn)
      <4>1. hostIn'[j].n = k
        BY <1>0, <2>6, <3>2
      <4>2. hostIn'[i] = hostIn[i] /\ hostIn[i].n <= calls /\ hostIn[i].n \in Int
        BY <1>0, <2>4, <3>2 DEF Asked
      <4> QED
        BY <1>0, <2>7, <4>1, <4>2
    <3>3. CASE i = Len(hostIn) + 1 /\ j = Len(hostIn) + 2
      BY <2>6, <3>3
    <3> QED
      BY <1>0, <3>1, <3>2, <3>3
  <2>10. CallAsked'
    BY <2>1, <2>3 DEF CallAsked
  <2> QED
    BY <2>4, <2>8, <2>9, <2>10
<1>2. CASE HostChar
  <2>1. hostIn # <<>> /\ hostIn' = Tail(hostIn) /\ UNCHANGED <<call, calls>>
    BY <1>2 DEF HostChar
  <2>2. /\ hostIn' \in Seq(HostFragments) /\ Len(hostIn') = Len(hostIn) - 1
        /\ \A i \in 1 .. Len(hostIn') : hostIn'[i] = hostIn[i + 1]
    BY <1>0, <2>1, TailFacts
  <2>3. DOMAIN hostIn' = 1 .. Len(hostIn) - 1
    BY <2>2, LenProperties
  <2>4. Asked'
    <3> SUFFICES ASSUME NEW i \in 1 .. Len(hostIn) - 1
                 PROVE  <<hostIn'[i].op, hostIn'[i].arg>> \in Requests /\ hostIn'[i].n <= calls
      BY <2>1, <2>3 DEF Asked
    <3>1. hostIn'[i] = hostIn[i + 1] /\ i + 1 \in DOMAIN hostIn
      BY <1>0, <2>2
    <3> QED
      BY <3>1 DEF Asked
  <2>5. InOrder'
    <3> SUFFICES ASSUME NEW i \in 1 .. Len(hostIn) - 1, NEW j \in 1 .. Len(hostIn) - 1,
                        i < j, hostIn'[i].n = hostIn'[j].n
                 PROVE  hostIn'[i].half = 1 /\ hostIn'[j].half = 2
      BY <2>3 DEF InOrder
    <3>1. /\ hostIn'[i] = hostIn[i + 1] /\ i + 1 \in DOMAIN hostIn
          /\ hostIn'[j] = hostIn[j + 1] /\ j + 1 \in DOMAIN hostIn
          /\ i + 1 < j + 1
      BY <1>0, <2>2
    <3> QED
      BY <3>1 DEF InOrder
  <2> QED
    BY <2>1, <2>2, <2>4, <2>5 DEF CallAsked
<1>3. CASE UNCHANGED <<hostIn, calls>> /\ (call' = call \/ call' = NoCall)
  BY <1>0, <1>3 DEF Asked, InOrder, CallAsked, NoCall
<1>4. CASE Receive \/ GiveUp
  BY <1>3, <1>4 DEF Receive, GiveUp
<1>5. CASE HostDrained \/ BusChar \/ BusDrained \/ CheckTimeouts \/ Send
  BY <1>3, <1>5 DEF HostDrained, BusChar, BusDrained, CheckTimeouts, Send, host
<1>6. CASE BusTimeout \/ HostTimeout \/ \E i \in Ids : Rs485Rx(i)
  BY <1>3, <1>6 DEF BusTimeout, HostTimeout, Rs485Rx, host
<1>7. CASE UNCHANGED vars
  BY <1>3, <1>7 DEF vars, host
<1> QED
  BY <1>1, <1>2, <1>4, <1>5, <1>6, <1>7 DEF Next, MainLoop

-----------------------------------------------------------------------------
(* The type invariant, one group of variables at a time *)
ControlOK ==
  /\ pc \in {"host", "bus", "timeout", "send"}
  /\ mode \in Modes /\ state \in {"idle", "waiting", "pause"}
  /\ currServo \in 0 .. NumServos
TableOK ==
  /\ idMap \in [Slots -> Ids \cup {SKIP_ID}] /\ commanded \subseteq Ids
BusOK ==
  /\ busIn \in Seq(BusAnswers)
  /\ owing \subseteq Ids /\ fresh \in Ids \cup {SKIP_ID}
  /\ tardy \subseteq Ids /\ moved \in BOOLEAN
HostOK ==
  /\ hostPacketIn \in 0 .. MaxCalls
  /\ call.n \in 0 .. calls /\ calls \in 0 .. MaxCalls
  /\ downlink \in Seq(HostAnswers)
  /\ strays \in Nat /\ told \in Modes \cup {"none"}
FlagsOK ==
  /\ hostTimeout \in BOOLEAN /\ busTimeout \in BOOLEAN /\ hostHeard \in BOOLEAN

(* The request that the loop takes from the line *)
LEMMA HeadFacts ==
  ASSUME TypeOK, Asked, HostChar
  PROVE  LET c == Head(hostIn) IN
           /\ c \in HostFragments /\ c = hostIn[1] /\ 1 \in DOMAIN hostIn
           /\ <<c.op, c.arg>> \in Requests
           /\ c.op = "mode" => c.arg \in Modes
           /\ c.op = "ids" => c.arg \in Lists
<1>1. hostIn \in Seq(HostFragments) /\ hostIn # <<>>
  BY DEF TypeOK, HostChar
<1>2. Head(hostIn) \in HostFragments /\ Head(hostIn) = hostIn[1] /\ 1 \in DOMAIN hostIn
  BY <1>1, TailFacts, LenProperties
<1> QED
  BY <1>2, RequestFacts DEF Asked

LEMMA ControlStep == TypeOK /\ Asked /\ [Next]_vars => ControlOK'
<1> SUFFICES ASSUME TypeOK, Asked, [Next]_vars PROVE ControlOK'
  OBVIOUS
<1>0. ControlOK
  BY DEF TypeOK, ControlOK
<1> USE <1>0, GatewayAssumption DEF ControlOK, table
<1>1. ASSUME NEW r \in Requests, Call(r[1], r[2]) \/ RawSyncWrite(r[1], r[2])
      PROVE  ControlOK'
  BY <1>1 DEF Call, RawSyncWrite
<1>2. CASE HostChar
  <2> DEFINE c == Head(hostIn)
  <2>1. c.op = "mode" => c.arg \in Modes
    BY <1>2, HeadFacts
  <2>2. pc' \in {"host", "bus"} /\ UNCHANGED <<state, currServo>>
    BY <1>2 DEF HostChar
  <2>3. mode' = mode \/ (c.op = "mode" /\ mode' = c.arg)
    BY <1>2 DEF HostChar, ProcessHostPacket, Write
  <2> QED
    BY <2>1, <2>2, <2>3
<1>3. CASE HostDrained \/ BusDrained
  BY <1>3 DEF HostDrained, BusDrained
<1>4. CASE BusChar
  BY <1>4 DEF BusChar, ProcessBusPacket, NoPacket
<1>5. CASE CheckTimeouts
  BY <1>5 DEF CheckTimeouts, AfterTimeout
<1>6. CASE Send
  <2>1. Succ \in 0 .. NumServos
    BY DEF Succ
  <2> QED
    BY <1>6, <2>1 DEF Send, SendNothing, SyncWrite, Query
<1>7. CASE Receive \/ GiveUp \/ BusTimeout \/ HostTimeout
  BY <1>7 DEF Receive, GiveUp, BusTimeout, HostTimeout
<1>8. CASE \E i \in Ids : Rs485Rx(i)
  BY <1>8 DEF Rs485Rx
<1>9. CASE UNCHANGED vars
  BY <1>9 DEF vars
<1> QED
  BY <1>1, <1>2, <1>3, <1>4, <1>5, <1>6, <1>7, <1>8, <1>9 DEF Next, MainLoop

LEMMA TableStep == TypeOK /\ Asked /\ [Next]_vars => TableOK'
<1> SUFFICES ASSUME TypeOK, Asked, [Next]_vars PROVE TableOK'
  OBVIOUS
<1>0. TableOK
  BY DEF TypeOK, TableOK
<1> USE <1>0, GatewayAssumption DEF TableOK, table, bus
<1>1. ASSUME NEW r \in Requests, Call(r[1], r[2]) \/ RawSyncWrite(r[1], r[2])
      PROVE  TableOK'
  BY <1>1 DEF Call, RawSyncWrite
<1>2. CASE HostChar
  <2> DEFINE c == Head(hostIn)
  <2>1. c.op = "ids" => c.arg \in Lists
    BY <1>2, HeadFacts
  <2>2. idMap' = idMap \/ (c.op = "ids" /\ idMap' = IdList[c.arg])
    BY <1>2 DEF HostChar, ProcessHostPacket, Write
  <2>3. commanded' \in {commanded, {}}
    BY <1>2 DEF HostChar, ProcessHostPacket, Write, PassThrough
  <2> QED
    BY <2>1, <2>2, <2>3
<1>3. CASE HostDrained \/ BusDrained
  BY <1>3 DEF HostDrained, BusDrained
<1>4. CASE BusChar
  BY <1>4 DEF BusChar, ProcessBusPacket, NoPacket
<1>5. CASE CheckTimeouts
  BY <1>5 DEF CheckTimeouts
<1>6. CASE Send
  <2>1. commanded' = commanded \/ commanded' = commanded \cup Served
    BY <1>6 DEF Send, SendNothing, SyncWrite, Query
  <2>2. Served \subseteq Ids
    <3>1. \A k \in Written : k \in Slots /\ idMap[k] # SKIP_ID
      BY DEF Written, Slots
    <3> QED
      BY <3>1 DEF Served
  <2>3. UNCHANGED idMap
    BY <1>6 DEF Send
  <2> QED
    BY <2>1, <2>2, <2>3
<1>7. CASE Receive \/ GiveUp \/ BusTimeout \/ HostTimeout
  BY <1>7 DEF Receive, GiveUp, BusTimeout, HostTimeout
<1>8. CASE \E i \in Ids : Rs485Rx(i)
  BY <1>8 DEF Rs485Rx
<1>9. CASE UNCHANGED vars
  BY <1>9 DEF vars
<1> QED
  BY <1>1, <1>2, <1>3, <1>4, <1>5, <1>6, <1>7, <1>8, <1>9 DEF Next, MainLoop

LEMMA BusStep == TypeOK /\ [Next]_vars => BusOK'
<1> SUFFICES ASSUME TypeOK, [Next]_vars PROVE BusOK'
  OBVIOUS
<1>0. BusOK
  BY DEF TypeOK, BusOK
<1> USE <1>0, GatewayAssumption DEF BusOK, table, bus
<1>1. CASE \E r \in Requests : Call(r[1], r[2]) \/ RawSyncWrite(r[1], r[2])
  BY <1>1 DEF Call, RawSyncWrite
<1>2. CASE HostChar
  <2>1. UNCHANGED <<busIn, owing, fresh, tardy>>
    BY <1>2 DEF HostChar
  <2>2. UNCHANGED moved \/ moved' = (moved \/ state = "waiting")
    BY <1>2 DEF HostChar, ProcessHostPacket, Write
  <2> QED
    BY <2>1, <2>2
<1>3. CASE HostDrained \/ BusDrained
  BY <1>3 DEF HostDrained, BusDrained
<1>4. CASE BusChar
  <2>1. /\ busIn # <<>> /\ UNCHANGED <<owing, moved>>
        /\ busIn' \in {Tail(busIn), Late(Tail(busIn))}
        /\ fresh' \in {fresh, SKIP_ID}
        /\ tardy' \in {Abandoned(Tail(busIn)), StillTardy(Tail(busIn))}
    BY <1>4 DEF BusChar, ProcessBusPacket, NoPacket
  <2>2. Tail(busIn) \in Seq(BusAnswers)
    BY <2>1, TailFacts
  <2>3. busIn' \in Seq(BusAnswers)
    BY <2>1, <2>2, LateFacts
  <2>4. tardy' \subseteq Ids
    BY <2>1 DEF Abandoned, StillTardy
  <2> QED
    BY <2>1, <2>3, <2>4
<1>5. CASE CheckTimeouts
  <2>1. /\ UNCHANGED <<owing, moved>>
        /\ busIn' \in {busIn, Late(busIn)}
        /\ fresh' \in {fresh, SKIP_ID}
        /\ tardy' \in {tardy, Abandoned(busIn)}
    BY <1>5 DEF CheckTimeouts
  <2>2. busIn' \in Seq(BusAnswers)
    BY <2>1, LateFacts
  <2>3. tardy' \subseteq Ids
    BY <2>1 DEF Abandoned
  <2> QED
    BY <2>1, <2>2, <2>3
<1>6. CASE Send
  <2>1. UNCHANGED <<tardy, moved>> /\ busIn' \in {busIn, Late(busIn)}
    BY <1>6 DEF Send, SendNothing, SyncWrite, Query
  <2>2. \/ UNCHANGED <<owing, fresh>>
        \/ AskPosition(idMap[Succ])
    BY <1>6 DEF Send, SendNothing, SyncWrite, Query
  <2>3. owing' \subseteq Ids /\ fresh' \in Ids \cup {SKIP_ID}
    BY <2>2 DEF AskPosition
  <2> QED
    BY <2>1, <2>3, LateFacts
<1>7. CASE Receive \/ GiveUp \/ BusTimeout \/ HostTimeout
  BY <1>7 DEF Receive, GiveUp, BusTimeout, HostTimeout
<1>8. ASSUME NEW i \in Ids, Rs485Rx(i) PROVE BusOK'
  <2>1. /\ busIn' = Append(busIn, [id |-> i, late |-> fresh # i])
        /\ owing' = owing \ {i} /\ UNCHANGED <<fresh, tardy, moved>>
    BY <1>8 DEF Rs485Rx
  <2>2. [id |-> i, late |-> fresh # i] \in BusAnswers
    BY DEF BusAnswers
  <2>3. busIn' \in Seq(BusAnswers)
    BY <2>1, <2>2, AppendProperties
  <2> QED
    BY <2>1, <2>3
<1>9. CASE UNCHANGED vars
  BY <1>9 DEF vars
<1> QED
  BY <1>1, <1>2, <1>3, <1>4, <1>5, <1>6, <1>7, <1>8, <1>9 DEF Next, MainLoop

LEMMA HostStep == TypeOK /\ Asked /\ CallAsked /\ [Next]_vars => HostOK'
<1> SUFFICES ASSUME TypeOK, Asked, CallAsked, [Next]_vars PROVE HostOK'
  OBVIOUS
<1>0. HostOK
  BY DEF TypeOK, HostOK
<1> USE <1>0, GatewayAssumption DEF HostOK, host
<1>1. ASSUME NEW r \in Requests, Call(r[1], r[2]) \/ RawSyncWrite(r[1], r[2])
      PROVE  HostOK'
  BY <1>1 DEF Call, RawSyncWrite
<1>2. CASE HostChar
  <2> DEFINE c == Head(hostIn)
  <2>1. c.n \in 1 .. MaxCalls /\ c.half \in {1, 2}
    BY <1>2, HeadFacts DEF HostFragments
  <2>2. hostPacketIn' \in 0 .. MaxCalls
    BY <1>2, <2>1 DEF HostChar, Holds
  <2>3. UNCHANGED <<call, calls, told>>
    BY <1>2 DEF HostChar
  <2>4. strays' = strays \/ strays' = strays + 1
    BY <1>2 DEF HostChar, ProcessHostPacket, PassThrough
  <2>5. downlink' = downlink \/ \E b \in BOOLEAN : downlink' = Append(downlink, [n |-> c.n, ok |-> b])
    <3>1. (c.arg = "table") \in BOOLEAN
      OBVIOUS
    <3> QED
      BY <1>2, <3>1 DEF HostChar, ProcessHostPacket, PassThrough, Reply
  <2>6. downlink' \in Seq(HostAnswers)
    <3> HIDE DEF c
    <3>1. \A b \in BOOLEAN : [n |-> c.n, ok |-> b] \in HostAnswers
      BY <2>1 DEF HostAnswers
    <3>2. CASE downlink' = downlink
      BY <3>2
    <3>3. ASSUME NEW b \in BOOLEAN, downlink' = Append(downlink, [n |-> c.n, ok |-> b])
          PROVE  downlink' \in Seq(HostAnswers)
      <4>1. downlink \in Seq(HostAnswers) /\ [n |-> c.n, ok |-> b] \in HostAnswers
        BY <3>1
      <4> QED
        BY <3>3, <4>1, AppendProperties
    <3> QED
      BY <2>5, <3>2, <3>3
  <2> QED
    BY <2>2, <2>3, <2>4, <2>6
<1>3. CASE HostDrained \/ BusDrained \/ BusChar \/ Send
  BY <1>3 DEF HostDrained, BusDrained, BusChar, Send
<1>4. CASE CheckTimeouts
  BY <1>4 DEF CheckTimeouts
<1>5. CASE Receive
  <2>1. downlink' \in Seq(HostAnswers)
    BY <1>5, TailFacts DEF Receive
  <2>2. call.op = "mode" => call.arg \in Modes
    BY <1>5, RequestFacts DEF Receive, CallAsked
  <2>3. told' = told \/ (call.op = "mode" /\ told' = call.arg)
    BY <1>5 DEF Receive
  <2> QED
    BY <1>5, <2>1, <2>2, <2>3 DEF Receive, NoCall
<1>6. CASE GiveUp
  BY <1>6 DEF GiveUp, NoCall
<1>7. CASE BusTimeout \/ HostTimeout \/ \E i \in Ids : Rs485Rx(i)
  BY <1>7 DEF BusTimeout, HostTimeout, Rs485Rx
<1>8. CASE UNCHANGED vars
  BY <1>8 DEF vars
<1> QED
  BY <1>1, <1>2, <1>3, <1>4, <1>5, <1>6, <1>7, <1>8 DEF Next, MainLoop

LEMMA FlagsStep == TypeOK /\ [Next]_vars => FlagsOK'
<1> SUFFICES ASSUME TypeOK, [Next]_vars PROVE FlagsOK'
  OBVIOUS
<1>0. FlagsOK
  BY DEF TypeOK, FlagsOK
<1> USE <1>0 DEF FlagsOK, flags, bus
<1>1. CASE \E r \in Requests : Call(r[1], r[2]) \/ RawSyncWrite(r[1], r[2])
  BY <1>1 DEF Call, RawSyncWrite
<1>2. CASE HostChar
  BY <1>2 DEF HostChar
<1>3. CASE HostDrained \/ BusDrained
  BY <1>3 DEF HostDrained, BusDrained
<1>4. CASE BusChar
  BY <1>4 DEF BusChar
<1>5. CASE CheckTimeouts
  BY <1>5 DEF CheckTimeouts
<1>6. CASE Send
  BY <1>6 DEF Send
<1>7. CASE Receive \/ GiveUp
  BY <1>7 DEF Receive, GiveUp
<1>8. CASE BusTimeout \/ HostTimeout
  BY <1>8 DEF BusTimeout, HostTimeout
<1>9. CASE \E i \in Ids : Rs485Rx(i)
  BY <1>9 DEF Rs485Rx
<1>10. CASE UNCHANGED vars
  BY <1>10 DEF vars
<1> QED
  BY <1>1, <1>2, <1>3, <1>4, <1>5, <1>6, <1>7, <1>8, <1>9, <1>10 DEF Next, MainLoop

-----------------------------------------------------------------------------
(* While nothing went astray: what the host is waiting for is either still *)
(* on the line, and then nothing else that will be answered is, or its     *)
(* answer is all there is to read.  A confirmed mode is in force because   *)
(* the answer of SetMode is put in the input when the mode changes, and no *)
(* other change of mode can be on its way by then.                         *)
Paired ==
  /\ AnswersPaired
  /\ \A i \in DOMAIN hostIn :
        hostIn[i].op # "raw" =>
          /\ call.n # 0 /\ downlink = <<>>
          /\ hostIn[i].n = call.n /\ hostIn[i].op = call.op /\ hostIn[i].arg = call.arg
  /\ ConfirmedInForce
  /\ call.n # 0 /\ call.op = "mode" /\ downlink # <<>> => mode = call.arg

ToldNone == call.n # 0 /\ call.op = "mode" => told = "none"

PairedInv == ToldNone /\ (strays = 0 => Paired)

LEMMA PairedStep ==
  ASSUME TypeOK, Asked, InOrder, PairedInv, [Next]_vars
  PROVE  PairedInv'
<1>0. /\ hostIn \in Seq(HostFragments) /\ Len(hostIn) \in Nat
      /\ DOMAIN hostIn = 1 .. Len(hostIn)
      /\ downlink \in Seq(HostAnswers) /\ Len(downlink) \in Nat
      /\ DOMAIN downlink = 1 .. Len(downlink)
      /\ strays \in Nat /\ calls \in Nat /\ call.n \in Nat
  BY LenProperties DEF TypeOK
<1>1. (* the answer that arrived bears the number of a call *)
      strays = 0 /\ call.n = 0 => downlink = <<>>
  <2> SUFFICES ASSUME strays = 0, call.n = 0, downlink # <<>> PROVE FALSE
    OBVIOUS
  <2>1. 1 \in DOMAIN downlink /\ downlink[1] \in HostAnswers
    BY <1>0, EmptySeq
  <2>2. downlink[1].n = 0
    BY <2>1 DEF PairedInv, Paired, AnswersPaired
  <2> QED
    BY <2>1, <2>2 DEF HostAnswers
<1>2. ASSUME NEW op, NEW arg, <<op, arg>> \in Requests, Call(op, arg) PROVE PairedInv'
  <2>1. /\ call.n = 0 /\ call' = [n |-> calls + 1, op |-> op, arg |-> arg] /\ calls < MaxCalls
        /\ hostIn' = hostIn \o Packet(calls + 1, op, arg)
        /\ told' = (IF op = "mode" THEN "none" ELSE told)
        /\ UNCHANGED <<mode, downlink, strays>>
    BY <1>2 DEF Call, table
  <2>2. ToldNone'
    BY <2>1 DEF ToldNone
  <2>3. ASSUME strays = 0 PROVE Paired'
    <3>1. downlink = <<>> /\ \A i \in DOMAIN hostIn : hostIn[i].op = "raw"
      BY <1>1, <2>1, <2>3 DEF PairedInv, Paired
    <3>2. AnswersPaired' /\ ConfirmedInForce'
      BY <2>1, <2>3, <3>1 DEF AnswersPaired, ConfirmedInForce, PairedInv, Paired
    <3>3. /\ calls + 1 \in 1 .. MaxCalls
          /\ hostIn' \in Seq(HostFragments) /\ Len(hostIn') = Len(hostIn) + 2
          /\ \A i \in 1 .. Len(hostIn) : hostIn'[i] = hostIn[i]
          /\ \A h \in {1, 2} : hostIn'[Len(hostIn) + h]
                                = [n |-> calls + 1, half |-> h, op |-> op, arg |-> arg]
      <4> DEFINE k == calls + 1
      <4>1. k \in 1 .. MaxCalls
        BY <1>0, <2>1, GatewayAssumption
      <4>2. hostIn' = hostIn \o Packet(k, op, arg)
        BY <2>1
      <4> HIDE DEF k
      <4>3. /\ hostIn' \in Seq(HostFragments) /\ Len(hostIn') = Len(hostIn) + 2
            /\ \A i \in 1 .. Len(hostIn) : hostIn'[i] = hostIn[i]
            /\ \A h \in {1, 2} : hostIn'[Len(hostIn) + h]
                                  = [n |-> k, half |-> h, op |-> op, arg |-> arg]
        BY <1>0, <1>2, <4>1, <4>2, PacketFacts
      <4> QED
        BY <4>1, <4>3 DEF k
    <3>4. ASSUME NEW i \in DOMAIN hostIn', hostIn'[i].op # "raw"
          PROVE  /\ call'.n # 0 /\ hostIn'[i].n = call'.n
                 /\ hostIn'[i].op = call'.op /\ hostIn'[i].arg = call'.arg
      <4>1. i \in 1 .. Len(hostIn) + 2
        BY <3>3, <3>4, LenProperties
      <4>2. i \notin 1 .. Len(hostIn)
        BY <1>0, <3>1, <3>3, <3>4
      <4>3. i = Len(hostIn) + 1 \/ i = Len(hostIn) + 2
        BY <1>0, <4>1, <4>2
      <4>4. hostIn'[i].n = calls + 1 /\ hostIn'[i].op = op /\ hostIn'[i].arg = arg
        BY <3>3, <4>3
      <4> QED
        BY <1>0, <2>1, <4>4
    <3> QED
      BY <2>1, <3>1, <3>2, <3>4 DEF Paired
  <2> QED
    BY <2>1, <2>2, <2>3 DEF PairedInv
<1>3. ASSUME NEW op, NEW arg, <<op, arg>> \in Requests, RawSyncWrite(op, arg)
      PROVE  PairedInv'
  <2>1. /\ op = "raw" /\ calls < MaxCalls
        /\ hostIn' = hostIn \o Packet(calls + 1, op, arg)
        /\ UNCHANGED <<mode, call, downlink, strays, told>>
    BY <1>3 DEF RawSyncWrite, table
  <2>2. ToldNone'
    BY <2>1 DEF ToldNone, PairedInv
  <2>3. ASSUME strays = 0 PROVE Paired'
    <3> DEFINE k == calls + 1
    <3>1. k \in 1 .. MaxCalls /\ hostIn' = hostIn \o Packet(k, op, arg)
      BY <1>0, <2>1, GatewayAssumption
    <3> HIDE DEF k
    <3>2. /\ hostIn' \in Seq(HostFragments) /\ Len(hostIn') = Len(hostIn) + 2
          /\ \A i \in 1 .. Len(hostIn) : hostIn'[i] = hostIn[i]
          /\ \A h \in {1, 2} : hostIn'[Len(hostIn) + h].op = "raw"
      <4>1. /\ hostIn' \in Seq(HostFragments) /\ Len(hostIn') = Len(hostIn) + 2
            /\ \A i \in 1 .. Len(hostIn) : hostIn'[i] = hostIn[i]
            /\ \A h \in {1, 2} : hostIn'[Len(hostIn) + h]
                                  = [n |-> k, half |-> h, op |-> op, arg |-> arg]
        BY <1>0, <1>3, <3>1, PacketFacts
      <4> QED
        BY <2>1, <4>1
    <3>3. ASSUME NEW i \in DOMAIN hostIn', hostIn'[i].op # "raw"
          PROVE  i \in DOMAIN hostIn /\ hostIn'[i] = hostIn[i]
      <4>1. i \in 1 .. Len(hostIn) + 2
        BY <3>2, <3>3, LenProperties
      <4>2. i # Len(hostIn) + 1 /\ i # Len(hostIn) + 2
        BY <3>2, <3>3
      <4> QED
        BY <1>0, <3>2, <4>1, <4>2
    <3> QED
      BY <2>1, <2>3, <3>3 DEF PairedInv, Paired, AnswersPaired, ConfirmedInForce
  <2> QED
    BY <2>1, <2>2, <2>3 DEF PairedInv
<1>4. CASE Receive
  <2>1. /\ call.n # 0 /\ downlink # <<>> /\ downlink' = Tail(downlink) /\ call' = NoCall
        /\ told' = told \/ (call.op = "mode" /\ told' = call.arg)
        /\ UNCHANGED <<mode, hostIn, strays>>
    BY <1>4 DEF Receive, table
  <2>2. ToldNone'
    BY <2>1 DEF ToldNone, NoCall
  <2>3. ASSUME strays = 0 PROVE Paired'
    <3>1. downlink' = <<>>
      <4>1. Len(downlink) <= 1
        BY <2>3 DEF PairedInv, Paired, AnswersPaired
      <4>2. downlink' \in Seq(HostAnswers) /\ Len(downlink') = 0
        BY <1>0, <2>1, <4>1, TailFacts
      <4> QED
        BY <4>2, EmptySeq
    <3>2. \A i \in DOMAIN hostIn : hostIn[i].op = "raw"
      BY <2>1, <2>3 DEF PairedInv, Paired
    <3>3. ConfirmedInForce'
      BY <2>1, <2>3 DEF PairedInv, Paired, ConfirmedInForce
    <3>4. AnswersPaired'
      BY <3>1 DEF AnswersPaired
    <3> QED
      BY <2>1, <3>1, <3>2, <3>3, <3>4 DEF Paired, NoCall
  <2> QED
    BY <2>1, <2>2, <2>3 DEF PairedInv
<1>5. CASE GiveUp
  BY <1>0, <1>5 DEF GiveUp, PairedInv, ToldNone, NoCall
<1>6. CASE HostChar
  <2> DEFINE c == Head(hostIn)
  <2>1. /\ hostIn # <<>> /\ hostIn' = Tail(hostIn) /\ UNCHANGED <<call, told>>
        /\ \/ UNCHANGED <<mode, downlink, strays>>
           \/ c.half = 2 /\ ProcessHostPacket(c)
    BY <1>6 DEF HostChar, Completes
  <2>2. /\ Len(hostIn') = Len(hostIn) - 1 /\ c = hostIn[1] /\ 1 \in DOMAIN hostIn
        /\ DOMAIN hostIn' = 1 .. Len(hostIn')
        /\ \A i \in DOMAIN hostIn' : i + 1 \in DOMAIN hostIn /\ hostIn'[i] = hostIn[i + 1]
    <3>1. /\ hostIn' \in Seq(HostFragments) /\ Len(hostIn') = Len(hostIn) - 1
          /\ c = hostIn[1] /\ Len(hostIn) \in Nat \ {0}
          /\ \A i \in 1 .. Len(hostIn') : hostIn'[i] = hostIn[i + 1]
      BY <1>0, <2>1, TailFacts
    <3>2. DOMAIN hostIn' = 1 .. Len(hostIn')
      BY <3>1, LenProperties
    <3> QED
      BY <1>0, <3>1, <3>2
  <2> HIDE DEF c
  <2>3. ToldNone'
    BY <2>1 DEF PairedInv, ToldNone
  <2>4. CASE UNCHANGED <<mode, downlink, strays>>
    BY <2>1, <2>2, <2>3, <2>4 DEF PairedInv, Paired, AnswersPaired, ConfirmedInForce
  <2>5. CASE c.op = "raw" /\ c.half = 2 /\ ProcessHostPacket(c)
    <3>1. PassThrough(c) /\ mode' = mode
      BY <2>5 DEF ProcessHostPacket, Write
    <3>2. UNCHANGED <<mode, downlink, strays>> \/ strays' = strays + 1
      BY <3>1 DEF PassThrough
    <3> QED
      BY <1>0, <2>3, <2>4, <3>2 DEF PairedInv
  <2>6. CASE c.op # "raw" /\ c.half = 2 /\ ProcessHostPacket(c)
    <3>1. \E b : downlink' = Append(downlink, [n |-> c.n, ok |-> b])
      BY <2>6 DEF ProcessHostPacket, Reply
    <3>2. /\ strays' = strays
          /\ mode' = mode \/ (c.op = "mode" /\ mode' = c.arg)
          /\ c.op = "mode" => mode' = c.arg
      BY <2>6 DEF ProcessHostPacket, Write
    <3>3. ASSUME strays = 0 PROVE Paired'
      <4>1. /\ call.n # 0 /\ downlink = <<>> /\ c.n = call.n /\ c.op = call.op
            /\ c.arg = call.arg
        BY <2>2, <2>6, <3>3 DEF PairedInv, Paired
      <4>2. \A i \in DOMAIN hostIn' : hostIn'[i].op = "raw"
        <5> SUFFICES ASSUME NEW i \in DOMAIN hostIn', hostIn'[i].op # "raw" PROVE FALSE
          OBVIOUS
        <5>1. hostIn[i + 1].n = hostIn[1].n /\ i + 1 \in DOMAIN hostIn /\ 1 < i + 1
          BY <2>2, <3>3, <4>1 DEF PairedInv, Paired
        <5> QED
          BY <2>2, <2>6, <5>1 DEF InOrder
      <4>3. PICK b : downlink' = Append(<<>>, [n |-> call.n, ok |-> b])
        BY <3>1, <4>1
      <4>4. downlink' = << [n |-> call.n, ok |-> b] >>
        BY <4>3
      <4>5. Len(downlink') = 1 /\ \A i \in DOMAIN downlink' : downlink'[i].n = call.n
        BY <4>4
      <4>6. AnswersPaired'
        BY <2>1, <4>5 DEF AnswersPaired
      <4>7. call.op = "mode" => mode' = call.arg /\ told = "none"
        BY <3>2, <4>1 DEF PairedInv, ToldNone
      <4>8. ConfirmedInForce'
        BY <2>1, <3>2, <3>3, <4>1, <4>7 DEF ConfirmedInForce, PairedInv, Paired
      <4> QED
        BY <2>1, <4>2, <4>6, <4>7, <4>8 DEF Paired
    <3> QED
      BY <2>3, <3>2, <3>3 DEF PairedInv
  <2> QED
    BY <2>1, <2>4, <2>5, <2>6
<1>7. CASE UNCHANGED <<mode, hostIn, call, downlink, strays, told>>
  BY <1>7 DEF PairedInv, ToldNone, Paired, AnswersPaired, ConfirmedInForce
<1>8. CASE HostDrained \/ BusDrained \/ BusChar \/ CheckTimeouts \/ Send
  BY <1>7, <1>8 DEF HostDrained, BusDrained, BusChar, CheckTimeouts, Send, table, host
<1>9. CASE BusTimeout \/ HostTimeout \/ \E i \in Ids : Rs485Rx(i)
  BY <1>7, <1>9 DEF BusTimeout, HostTimeout, Rs485Rx, table, host
<1>10. CASE UNCHANGED vars
  BY <1>7, <1>10 DEF vars, table, host
<1>11. ASSUME NEW r \in Requests, Call(r[1], r[2]) \/ RawSyncWrite(r[1], r[2])
       PROVE  PairedInv'
  <2>1. <<r[1], r[2]>> \in Requests
    BY GatewayAssumption
  <2> QED
    BY <1>2, <1>3, <1>11, <2>1
<1> QED
  BY <1>4, <1>5, <1>6, <1>8, <1>9, <1>10, <1>11 DEF Next, MainLoop

-----------------------------------------------------------------------------
(* The feedback cycle.  As long as no list was written with a query        *)
(* unanswered, a servo that was not given up has an answer under way only  *)
(* if it is the one being asked, and then one answer; and whatever waits   *)
(* to be read and is late comes from a servo that was given up.            *)
Only(i) ==
  /\ state = "waiting" /\ fresh = i
  /\ currServo # NumServos /\ idMap[currServo] = i
  /\ \A j, k \in DOMAIN busIn : busIn[j].id = i /\ busIn[k].id = i => j = k
  /\ \A k \in DOMAIN busIn : busIn[k].id = i => i \notin owing
NoOneElse == \A i \in Ids : UnderWay(i, busIn) /\ i \notin tardy => Only(i)
LateIsTardy == \A k \in DOMAIN busIn : busIn[k].late => busIn[k].id \in tardy
CycleInv == ~moved => NoOneElse /\ LateIsTardy

LEMMA BusFacts ==
  ASSUME TypeOK
  PROVE  /\ busIn \in Seq(BusAnswers) /\ Len(busIn) \in Nat
         /\ DOMAIN busIn = 1 .. Len(busIn)
         /\ \A k \in DOMAIN busIn : busIn[k].id \in Ids
         /\ owing \subseteq Ids /\ tardy \subseteq Ids
         /\ SKIP_ID \notin Ids
<1>1. busIn \in Seq(BusAnswers)
  BY DEF TypeOK
<1>2. /\ Len(busIn) \in Nat /\ DOMAIN busIn = 1 .. Len(busIn)
      /\ \A k \in DOMAIN busIn : busIn[k] \in BusAnswers
  BY <1>1, LenProperties
<1>3. \A f \in BusAnswers : f.id \in Ids
  BY DEF BusAnswers
<1> QED
  BY <1>1, <1>2, <1>3, GatewayAssumption DEF TypeOK, SKIP_ID

(* What is left of the bus when its first answer has been taken            *)
LEMMA RestFacts ==
  ASSUME TypeOK, busIn # <<>>
  PROVE  LET rest == Tail(busIn) IN
           /\ rest \in Seq(BusAnswers) /\ 1 \in DOMAIN busIn /\ Head(busIn) = busIn[1]
           /\ \A k \in DOMAIN rest : /\ k \in Nat \ {0} /\ k + 1 \in DOMAIN busIn
                                     /\ rest[k] = busIn[k + 1]
           /\ \A i : UnderWay(i, rest) => UnderWay(i, busIn)
<1> DEFINE rest == Tail(busIn)
<1>1. /\ rest \in Seq(BusAnswers) /\ Len(rest) = Len(busIn) - 1 /\ Head(busIn) = busIn[1]
      /\ Len(busIn) \in Nat \ {0}
      /\ \A k \in 1 .. Len(rest) : rest[k] = busIn[k + 1]
  BY BusFacts, TailFacts
<1>2. DOMAIN rest = 1 .. Len(rest)
  BY <1>1, LenProperties
<1> HIDE DEF rest
<1>3. \A k \in DOMAIN rest : k \in Nat \ {0} /\ k + 1 \in DOMAIN busIn /\ rest[k] = busIn[k + 1]
  BY <1>1, <1>2, BusFacts
<1>4. \A i : UnderWay(i, rest) => UnderWay(i, busIn)
  BY <1>3 DEF UnderWay
<1> QED
  BY <1>1, <1>3, <1>4, BusFacts DEF rest

(* What a step leaves alone keeps the cycle.                               *)
LEMMA CycleSame ==
  ASSUME CycleInv, UNCHANGED <<state, currServo, idMap, busIn, owing, fresh, tardy, moved>>
  PROVE  CycleInv'
BY DEF CycleInv, NoOneElse, LateIsTardy, Only, UnderWay

(* A list is written during a query, or no one is under way but who is     *)
(* given up.                                                               *)
LEMMA CycleHost ==
  ASSUME TypeOK, CycleInv, HostChar
  PROVE  CycleInv'
<1>1. UNCHANGED <<state, currServo, busIn, owing, fresh, tardy>>
  BY DEF HostChar
<1>2. UNCHANGED <<idMap, moved>> \/ moved' = (moved \/ state = "waiting")
  BY DEF HostChar, ProcessHostPacket, Write
<1>3. CASE UNCHANGED <<idMap, moved>>
  BY <1>1, <1>3, CycleSame
<1>4. CASE moved' = (moved \/ state = "waiting")
  <2>1. ~moved' => ~moved /\ state # "waiting"
    BY <1>4
  <2> QED
    BY <1>1, <2>1 DEF CycleInv, NoOneElse, LateIsTardy, Only, UnderWay
<1> QED
  BY <1>2, <1>3, <1>4

LEMMA CycleServo ==
  ASSUME TypeOK, CycleInv, NEW i \in Ids, Rs485Rx(i)
  PROVE  CycleInv'
<1> DEFINE f == [id |-> i, late |-> fresh # i]
<1>1. /\ i \in owing /\ busIn' = Append(busIn, f) /\ owing' = owing \ {i}
      /\ UNCHANGED <<state, currServo, idMap, fresh, tardy, moved>>
  BY DEF Rs485Rx, table
<1>2. f.id = i /\ f.late = (fresh # i) /\ f \in BusAnswers
  BY DEF BusAnswers
<1> HIDE DEF f
<1>3. /\ Len(busIn') = Len(busIn) + 1 /\ DOMAIN busIn' = 1 .. Len(busIn) + 1
      /\ busIn'[Len(busIn) + 1] = f
      /\ \A k \in DOMAIN busIn : busIn'[k] = busIn[k]
  BY <1>1, <1>2, BusFacts, AppendProperties
<1>4. \A k \in DOMAIN busIn' : k \in DOMAIN busIn \/ k = Len(busIn) + 1
  BY <1>3, BusFacts
<1> SUFFICES ASSUME ~moved PROVE NoOneElse' /\ LateIsTardy'
  BY <1>1 DEF CycleInv
<1>5. NoOneElse /\ LateIsTardy
  BY DEF CycleInv
<1>6. i \notin tardy => Only(i) /\ \A k \in DOMAIN busIn : busIn[k].id # i
  BY <1>1, <1>5 DEF NoOneElse, UnderWay, Only
<1>7. LateIsTardy'
  BY <1>1, <1>2, <1>3, <1>4, <1>5, <1>6 DEF LateIsTardy, Only
<1>8. ASSUME NEW s \in Ids, UnderWay(s, busIn)', s \notin tardy PROVE Only(s)'
  <2>1. CASE s = i
    BY <1>1, <1>3, <1>4, <1>6, <1>8, <2>1 DEF Only
  <2>2. CASE s # i
    <3>1. UnderWay(s, busIn)
      BY <1>1, <1>2, <1>3, <1>4, <1>8, <2>2 DEF UnderWay
    <3>2. Only(s)
      BY <1>5, <1>8, <3>1 DEF NoOneElse
    <3> QED
      BY <1>1, <1>2, <1>3, <1>4, <2>2, <3>2 DEF Only
  <2> QED
    BY <2>1, <2>2
<1> QED
  BY <1>1, <1>7, <1>8 DEF NoOneElse

(* Whoever is abandoned with answers under way is given up, b being what   *)
(* waits to be read.                                                       *)
LEMMA CycleAbandon ==
  ASSUME TypeOK, NoOneElse, NEW b \in Seq(BusAnswers),
         \A i : UnderWay(i, b) => UnderWay(i, busIn),
         busIn' = Late(b), tardy' = Abandoned(b), UNCHANGED owing
  PROVE  NoOneElse' /\ LateIsTardy'
<1>1. /\ DOMAIN busIn' = DOMAIN b
      /\ \A k \in DOMAIN b : busIn'[k].id = b[k].id
  BY LateFacts
<1>2. \A i : UnderWay(i, busIn)' => UnderWay(i, b)
  BY <1>1 DEF UnderWay
<1>3. \A i \in Ids : UnderWay(i, b) => i \in tardy'
  BY DEF NoOneElse, Only, Abandoned
<1>4. \A k \in DOMAIN b : b[k].id \in Ids
  <2>1. \A k \in DOMAIN b : b[k] \in BusAnswers
    BY LenProperties
  <2> QED
    BY <2>1 DEF BusAnswers
<1>5. NoOneElse'
  BY <1>2, <1>3 DEF NoOneElse
<1>6. LateIsTardy'
  BY <1>1, <1>3, <1>4 DEF LateIsTardy, UnderWay
<1> QED
  BY <1>5, <1>6

(* What is left of the bus, nobody having been abandoned                   *)
LEMMA CycleRest ==
  ASSUME TypeOK, NoOneElse, LateIsTardy, busIn # <<>>,
         busIn' = Tail(busIn), tardy' = StillTardy(Tail(busIn)),
         UNCHANGED <<owing, currServo, idMap, fresh>>
  PROVE  /\ LateIsTardy'
         /\ \A i \in Ids : UnderWay(i, busIn)' /\ i \notin tardy'
              => /\ UnderWay(i, busIn) /\ i \notin tardy
                 /\ state' = "waiting" => Only(i)'
                 /\ i # Head(busIn).id
<1> DEFINE rest == Tail(busIn)
<1>1. /\ 1 \in DOMAIN busIn /\ Head(busIn) = busIn[1]
      /\ \A k \in DOMAIN rest : /\ k \in Nat \ {0} /\ k + 1 \in DOMAIN busIn
                                /\ rest[k] = busIn[k + 1]
      /\ \A i : UnderWay(i, rest) => UnderWay(i, busIn)
  BY RestFacts
<1>2. busIn' = rest /\ tardy' = StillTardy(rest)
  OBVIOUS
<1> HIDE DEF rest
<1>3. \A i : UnderWay(i, busIn)' <=> UnderWay(i, rest)
  BY <1>2 DEF UnderWay
<1>4. LateIsTardy'
  BY <1>1, <1>2 DEF LateIsTardy, StillTardy, UnderWay
<1>5. ASSUME NEW i \in Ids, UnderWay(i, rest), i \notin tardy'
      PROVE  /\ UnderWay(i, busIn) /\ i \notin tardy
             /\ state' = "waiting" => Only(i)'
             /\ i # Head(busIn).id
  <2>1. UnderWay(i, busIn) /\ i \notin tardy
    BY <1>1, <1>2, <1>5 DEF StillTardy
  <2>2. Only(i)
    BY <2>1 DEF NoOneElse
  <2>3. state' = "waiting" => Only(i)'
    <3>1. \A j, k \in DOMAIN rest : rest[j].id = i /\ rest[k].id = i => j = k
      <4> SUFFICES ASSUME NEW j \in DOMAIN rest, NEW k \in DOMAIN rest,
                          rest[j].id = i, rest[k].id = i
                   PROVE  j = k
        OBVIOUS
      <4>1. j + 1 = k + 1
        BY <1>1, <2>2 DEF Only
      <4> QED
        BY <1>1, <4>1
    <3>2. \A k \in DOMAIN rest : rest[k].id = i => i \notin owing
      BY <1>1, <2>2 DEF Only
    <3> QED
      BY <1>2, <2>2, <3>1, <3>2 DEF Only
  <2>4. i # Head(busIn).id
    <3> SUFFICES ASSUME i = busIn[1].id PROVE FALSE
      BY <1>1
    <3>1. i \notin owing
      BY <1>1, <2>2 DEF Only
    <3>2. PICK k \in DOMAIN rest : rest[k].id = i
      BY <1>5, <3>1 DEF UnderWay
    <3>3. k + 1 = 1
      BY <1>1, <2>2, <3>2 DEF Only
    <3> QED
      BY <1>1, <3>3
  <2> QED
    BY <2>1, <2>3, <2>4
<1> QED
  BY <1>3, <1>4, <1>5

LEMMA CycleBus ==
  ASSUME TypeOK, CycleInv, BusChar
  PROVE  CycleInv'
<1> DEFINE rest == Tail(busIn)
<1>1. /\ busIn # <<>> /\ UNCHANGED <<idMap, owing, moved>>
      /\ \/ \E ok \in BOOLEAN : ProcessBusPacket(Head(busIn), ok, rest)
         \/ NoPacket(rest)
  BY DEF BusChar
<1>2. rest \in Seq(BusAnswers) /\ \A i : UnderWay(i, rest) => UnderWay(i, busIn)
  BY <1>1, RestFacts
<1> SUFFICES ASSUME ~moved PROVE NoOneElse' /\ LateIsTardy'
  BY <1>1 DEF CycleInv
<1>3. NoOneElse /\ LateIsTardy
  BY DEF CycleInv
<1> DEFINE Left == busIn' = rest /\ tardy' = StillTardy(rest)
<1>4. ASSUME Left, UNCHANGED <<currServo, fresh>> PROVE
        /\ LateIsTardy'
        /\ \A i \in Ids : UnderWay(i, busIn)' /\ i \notin tardy'
              => /\ UnderWay(i, busIn) /\ i \notin tardy
                 /\ state' = "waiting" => Only(i)'
                 /\ i # Head(busIn).id
  BY <1>1, <1>3, <1>4, CycleRest
<1>5. CASE mode = "manual" /\ state = "waiting" /\ busIn' = Late(rest) /\ tardy' = Abandoned(rest)
  BY <1>1, <1>2, <1>3, <1>5, CycleAbandon
<1>6. CASE Left /\ state # "waiting" /\ state' \in {state, "idle"}
  <2>1. \A i \in Ids : UnderWay(i, busIn) => i \in tardy
    BY <1>3, <1>6 DEF NoOneElse, Only
  <2>2. \A i : UnderWay(i, busIn)' <=> UnderWay(i, rest)
    BY <1>1, <1>6 DEF UnderWay
  <2>3. NoOneElse'
    BY <1>2, <1>6, <2>1, <2>2 DEF NoOneElse, StillTardy, UnderWay
  <2>4. LateIsTardy'
    <3>1. \A k \in DOMAIN rest : rest[k].id \in Ids
      <4>1. \A k \in DOMAIN rest : rest[k] \in BusAnswers
        BY <1>2, LenProperties
      <4> QED
        BY <4>1 DEF BusAnswers
    <3> QED
      BY <1>2, <1>6, <2>1, <3>1 DEF LateIsTardy, StillTardy, UnderWay
  <2> QED
    BY <2>3, <2>4
<1>7. CASE Left /\ UNCHANGED <<state, currServo, fresh>> /\ state = "waiting"
  BY <1>4, <1>7 DEF NoOneElse
<1>8. CASE /\ Left /\ UNCHANGED <<currServo, fresh>> /\ state = "waiting"
           /\ \E ok \in BOOLEAN : Expected(Head(busIn), ok)
  BY <1>3, <1>4, <1>8 DEF NoOneElse, Only, Expected
<1> QED
  BY <1>1, <1>5, <1>6, <1>7, <1>8 DEF ProcessBusPacket, NoPacket

LEMMA CycleTimeout ==
  ASSUME TypeOK, CycleInv, CheckTimeouts
  PROVE  CycleInv'
<1>1. UNCHANGED <<currServo, idMap, owing, moved>>
  BY DEF CheckTimeouts
<1>2. CASE UNCHANGED <<state, fresh, tardy, busIn>>
  BY <1>1, <1>2, CycleSame
<1>3. CASE busTimeout /\ state # "waiting"
  <2>1. UNCHANGED <<busIn, fresh, tardy>>
    BY <1>3 DEF CheckTimeouts
  <2> QED
    BY <1>1, <1>3, <2>1 DEF CycleInv, NoOneElse, LateIsTardy, Only, UnderWay
<1>4. CASE busTimeout /\ state = "waiting"
  <2>1. tardy' = Abandoned(busIn) /\ busIn' = Late(busIn)
    BY <1>4 DEF CheckTimeouts
  <2>2. ~moved => NoOneElse' /\ LateIsTardy'
    BY <1>1, <2>1, CycleAbandon, BusFacts DEF CycleInv
  <2> QED
    BY <1>1, <2>2 DEF CycleInv
<1> QED
  BY <1>2, <1>3, <1>4 DEF CheckTimeouts

LEMMA CycleSend ==
  ASSUME TypeOK, CycleInv, Send
  PROVE  CycleInv'
<1>1. UNCHANGED <<idMap, tardy, moved>>
  BY DEF Send
<1>2. CASE mode = "manual" \/ state # "idle"
  BY <1>1, <1>2, CycleSame DEF Send, SendNothing
<1> SUFFICES ASSUME state = "idle", ~moved PROVE NoOneElse' /\ LateIsTardy'
  BY <1>1, <1>2 DEF CycleInv
<1>3. \A i \in Ids : UnderWay(i, busIn) => i \in tardy
  BY DEF CycleInv, NoOneElse, Only
<1>4. CASE UNCHANGED <<busIn, owing>>
  BY <1>1, <1>3, <1>4 DEF CycleInv, NoOneElse, LateIsTardy, UnderWay
<1>5. CASE Query /\ currServo' = Succ /\ Succ # NumServos
  <2> DEFINE s == idMap[Succ]
  <2>1. /\ AskPosition(s) /\ busIn' = Late(busIn) /\ state' = "waiting"
    BY <1>5 DEF Query
  <2>2. /\ DOMAIN busIn' = DOMAIN busIn
        /\ \A k \in DOMAIN busIn : busIn'[k].id = busIn[k].id
    BY <2>1, BusFacts, LateFacts
  <2>3. idMap[currServo]' = s /\ currServo' # NumServos
    BY <1>1, <1>5
  <2> HIDE DEF s
  <2>4. \A k \in DOMAIN busIn : busIn[k].id \in tardy
    BY <1>3, BusFacts DEF UnderWay
  <2>5. LateIsTardy'
    BY <1>1, <2>2, <2>4 DEF LateIsTardy
  <2>6. ASSUME NEW i \in Ids, UnderWay(i, busIn)', i \notin tardy PROVE Only(i)'
    <3>1. i \notin owing /\ \A k \in DOMAIN busIn' : busIn'[k].id # i
      BY <1>3, <2>2, <2>4, <2>6 DEF UnderWay
    <3>2. i = s /\ fresh' = s
      BY <2>1, <2>6, <3>1 DEF AskPosition, UnderWay
    <3> QED
      BY <2>1, <2>3, <3>1, <3>2 DEF Only
  <2> QED
    BY <1>1, <2>5, <2>6 DEF NoOneElse
<1> QED
  BY <1>2, <1>4, <1>5 DEF Send, SyncWrite, SendNothing

LEMMA CycleStep == TypeOK /\ CycleInv /\ [Next]_vars => CycleInv'
<1> SUFFICES ASSUME TypeOK, CycleInv, [Next]_vars PROVE CycleInv'
  OBVIOUS
<1>1. CASE \E r \in Requests : Call(r[1], r[2]) \/ RawSyncWrite(r[1], r[2])
  BY <1>1, CycleSame DEF Call, RawSyncWrite, table, bus
<1>2. CASE Receive \/ GiveUp
  BY <1>2, CycleSame DEF Receive, GiveUp, table, bus
<1>3. CASE BusTimeout \/ HostTimeout
  BY <1>3, CycleSame DEF BusTimeout, HostTimeout, table, bus
<1>4. CASE HostDrained \/ BusDrained
  BY <1>4, CycleSame DEF HostDrained, BusDrained, table, bus
<1>5. CASE UNCHANGED vars
  BY <1>5, CycleSame DEF vars, table, bus
<1>6. CASE HostChar
  BY <1>6, CycleHost
<1>7. CASE BusChar
  BY <1>7, CycleBus
<1>8. CASE CheckTimeouts \/ Send
  BY <1>8, CycleTimeout, CycleSend
<1>9. CASE \E i \in Ids : Rs485Rx(i)
  BY <1>9, CycleServo
<1> QED
  BY <1>1, <1>2, <1>3, <1>4, <1>5, <1>6, <1>7, <1>8, <1>9 DEF Next, MainLoop


-----------------------------------------------------------------------------
IInv == TypeOK /\ Asked /\ CallAsked /\ InOrder /\ PairedInv /\ CycleInv

LEMMA InitInv == Init => IInv
<1> SUFFICES ASSUME Init PROVE IInv
  OBVIOUS
<1> USE GatewayAssumption DEF Init
<1>1. ControlOK
  BY DEF ControlOK, Modes
<1>2. TableOK
  BY DEF TableOK
<1>3. <<>> \in Seq(BusAnswers) /\ <<>> \in Seq(HostFragments) /\ <<>> \in Seq(HostAnswers)
  OBVIOUS
<1>4. BusOK
  BY <1>3 DEF BusOK
<1>5. HostOK
  BY <1>3 DEF HostOK, NoCall
<1>6. FlagsOK
  BY DEF FlagsOK
<1>7. TypeOK
  BY <1>1, <1>2, <1>3, <1>4, <1>5, <1>6
     DEF TypeOK, ControlOK, TableOK, BusOK, HostOK, FlagsOK
<1>8. DOMAIN hostIn = {} /\ DOMAIN downlink = {} /\ Len(downlink) = 0
  OBVIOUS
<1>9. Asked /\ CallAsked /\ InOrder
  BY <1>8 DEF Asked, CallAsked, InOrder, NoCall
<1>10. PairedInv
  BY <1>8 DEF PairedInv, ToldNone, Paired, AnswersPaired, ConfirmedInForce, NoCall
<1>11. CycleInv
  BY DEF CycleInv, NoOneElse, LateIsTardy, UnderWay
<1> QED
  BY <1>7, <1>9, <1>10, <1>11 DEF IInv

(* The invariant that makes the others inductive                           *)
THEOREM Inductive == Spec => []IInv
<1>1. Init => IInv
  BY InitInv
<1>2. IInv /\ [Next]_vars => IInv'
  <2> SUFFICES ASSUME IInv, [Next]_vars PROVE IInv'
    OBVIOUS
  <2>1. TypeOK /\ Asked /\ CallAsked /\ InOrder /\ PairedInv /\ CycleInv
    BY DEF IInv
  <2>2. Asked' /\ InOrder' /\ CallAsked' /\ hostIn' \in Seq(HostFragments)
    BY <2>1, ReqStep
  <2>3. ControlOK' /\ TableOK' /\ BusOK' /\ HostOK' /\ FlagsOK'
    BY <2>1, ControlStep, TableStep, BusStep, HostStep, FlagsStep
  <2>4. TypeOK'
    BY <2>2, <2>3 DEF TypeOK, ControlOK, TableOK, BusOK, HostOK, FlagsOK
  <2>5. PairedInv'
    BY <2>1, PairedStep
  <2>6. CycleInv'
    BY <2>1, CycleStep
  <2> QED
    BY <2>2, <2>4, <2>5, <2>6 DEF IInv
<1> QED
  BY <1>1, <1>2, PTL DEF Spec

(* Every variable has its type, for every number of servos and every set   *)
(* of id lists.                                                            *)
THEOREM TypeCorrect == Spec => []TypeOK
<1>1. IInv => TypeOK
  BY DEF IInv
<1> QED
  BY Inductive, <1>1, PTL

(* As long as nothing went astray, the only answer the host can read is    *)
(* that of the call it is making, however many calls it makes.             *)
THEOREM PairingKept == Spec => []AnswersPaired
<1>1. IInv => AnswersPaired
  BY DEF IInv, PairedInv, Paired, AnswersPaired
<1> QED
  BY Inductive, <1>1, PTL

(* A mode the host had confirmed is the gateway's mode, with the pairing   *)
(* intact, whatever is read from the bus and whenever timers fire.         *)
THEOREM ConfirmationHolds == Spec => []ConfirmedInForce
<1>1. IInv => ConfirmedInForce
  BY DEF IInv, PairedInv, Paired, ConfirmedInForce
<1> QED
  BY Inductive, <1>1, PTL

(* The position stored in a slot is that of the servo listed there, and    *)
(* answers the query made for it unless that servo was itself given up:    *)
(* for every number of servos and every lists the host may write.  Only a  *)
(* list written with a query unanswered is excepted.                       *)
THEOREM FeedbackFresh == Spec => FreshFeedback
<1> DEFINE Fresh ==
      Stores => /\ Head(busIn).id = idMap[currServo]
                /\ Head(busIn).late => idMap[currServo] \in tardy \/ moved
<1>1. IInv /\ [Next]_vars => Fresh
  <2> SUFFICES ASSUME IInv, [Next]_vars, Stores PROVE Fresh
    OBVIOUS
  <2>1. TypeOK /\ CycleInv /\ pc = "bus" /\ mode # "manual" /\ state = "waiting" /\ state' = "idle"
    BY DEF IInv, Stores
  <2>2. CASE BusChar
    <3>1. busIn # <<>> /\ \E ok \in BOOLEAN : Expected(Head(busIn), ok)
      BY <2>1, <2>2 DEF BusChar, ProcessBusPacket, NoPacket
    <3>2. Head(busIn) = busIn[1] /\ 1 \in DOMAIN busIn
      BY <2>1, <3>1, RestFacts
    <3> QED
      BY <2>1, <3>1, <3>2 DEF CycleInv, LateIsTardy, Expected
  <2>3. CASE \E r \in Requests : Call(r[1], r[2]) \/ RawSyncWrite(r[1], r[2])
    BY <2>1, <2>3 DEF Call, RawSyncWrite
  <2>4. CASE HostChar \/ HostDrained \/ CheckTimeouts \/ Send \/ BusDrained
    BY <2>1, <2>4 DEF HostChar, HostDrained, CheckTimeouts, Send, BusDrained, table
  <2>5. CASE Receive \/ GiveUp \/ BusTimeout \/ HostTimeout \/ \E i \in Ids : Rs485Rx(i)
    BY <2>1, <2>5 DEF Receive, GiveUp, BusTimeout, HostTimeout, Rs485Rx, table
  <2>6. CASE UNCHANGED vars
    BY <2>1, <2>6 DEF vars, table
  <2> QED
    BY <2>2, <2>3, <2>4, <2>5, <2>6 DEF Next, MainLoop
<1>2. IInv /\ [Next]_vars => [Fresh]_vars
  BY <1>1
<1> HIDE DEF Fresh
<1>3. Spec => [][Fresh]_vars
  BY <1>2, Inductive, PTL DEF Spec
<1> QED
  BY <1>3 DEF FreshFeedback, Fresh

(* A servo is asked only when no one has an answer under way but servos    *)
(* that were given up, for every number of servos and every lists.  Only a *)
(* list written with a query unanswered is excepted.                       *)
THEOREM BusHasOneTalker == Spec => OneTalker
<1> DEFINE Exclusive ==
      pc = "send" /\ state' = "waiting" /\ currServo' # currServo /\ ~moved
        => \A i \in Ids : UnderWay(i, busIn) => i \in tardy
<1>1. IInv /\ [Next]_vars => Exclusive
  <2> SUFFICES ASSUME IInv, [Next]_vars, pc = "send", currServo' # currServo, ~moved
               PROVE  \A i \in Ids : UnderWay(i, busIn) => i \in tardy
    OBVIOUS
  <2>1. CASE Send
    <3>1. state = "idle"
      BY <2>1 DEF Send
    <3> QED
      BY <3>1 DEF IInv, CycleInv, NoOneElse, Only
  <2>2. CASE \E r \in Requests : Call(r[1], r[2]) \/ RawSyncWrite(r[1], r[2])
    BY <2>2 DEF Call, RawSyncWrite
  <2>3. CASE HostChar \/ HostDrained \/ CheckTimeouts \/ BusChar \/ BusDrained
    BY <2>3 DEF HostChar, HostDrained, CheckTimeouts, BusChar, BusDrained
  <2>4. CASE Receive \/ GiveUp \/ BusTimeout \/ HostTimeout \/ \E i \in Ids : Rs485Rx(i)
    BY <2>4 DEF Receive, GiveUp, BusTimeout, HostTimeout, Rs485Rx, table
  <2>5. CASE UNCHANGED vars
    BY <2>5 DEF vars, table
  <2> QED
    BY <2>1, <2>2, <2>3, <2>4, <2>5 DEF Next, MainLoop
<1>2. IInv /\ [Next]_vars => [Exclusive]_vars
  BY <1>1
<1> HIDE DEF Exclusive
<1>3. Spec => [][Exclusive]_vars
  BY <1>2, Inductive, PTL DEF Spec
<1> QED
  BY <1>3 DEF OneTalker, Exclusive
=============================================================================
