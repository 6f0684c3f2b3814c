------------------------------ MODULE TeamComm ------------------------------
(***************************************************************************)
(* The receive path of the SPL team messages:                              *)
(*   Lib/Platform/NaoV4/TeamComm/lua_TeamComm.cpp   update, size, receive  *)
(*   Player/World/TeamSPL.lua                       recv_msgs_new_comm     *)
(*                                                                         *)
(* The C++ side drains the non-blocking socket into recvQueue and hands    *)
(* over the front of the queue; the front is not popped when it is handed  *)
(* over but marked by the flag "parsed", and popped when the next datagram *)
(* is pushed.  The Lua side calls receive until it gets nil.               *)
(*                                                                         *)
(* A datagram is its arrival number together with whether its header is    *)
(* the one the parser accepts.  Datagrams arrive between any two recvfrom  *)
(* calls, so the drain loop takes one step per datagram.                   *)
(***************************************************************************)
EXTENDS Integers, Sequences

CONSTANTS
  maxQueueSize,   \* the constant of that name, 10 in the code
  Callers,        \* who calls update: "receive" (TeamSPL.lua), "size"
  SocketCap,      \* datagrams the kernel buffers before it drops
  MaxArrivals     \* bound on the arrivals, for model checking only

ASSUME QueueAssumption == maxQueueSize \in Nat \ {0}
ASSUME CallersAssumption == Callers \subseteq {"receive", "size"}
ASSUME BoundAssumption == SocketCap \in Nat /\ MaxArrivals \in Nat

VARIABLES
  arrived,          \* number of datagrams that reached the socket
  socket,           \* the kernel's receive buffer
  recvQueue,        \* static deque recvQueue
  parsed,           \* static flag parsed: the front was handed over
  nSPLMessageData,  \* datagrams read by the update in progress
  pc,               \* "idle", or "reading" inside lua_teamcomm_update
  caller,           \* what called it: the Lua loop or size()
  delivered         \* numbers of the messages the Lua loop handled (history)

vars == <<arrived, socket, recvQueue, parsed, nSPLMessageData, pc, caller,
          delivered>>

Datagram == [n : Nat \ {0}, ok : BOOLEAN]

\* Types, and between two calls the queue respects the code's bound.
TypeOK ==
  /\ arrived \in Nat
  /\ socket \in Seq(Datagram)
  /\ recvQueue \in Seq(Datagram)
  /\ parsed \in {0, 1}
  /\ nSPLMessageData \in Nat
  /\ pc \in {"idle", "reading"}
  /\ caller \in {"receive", "size"}
  /\ delivered \in Seq(Nat \ {0})
  /\ pc = "idle" => Len(recvQueue) <= maxQueueSize

Init ==
  /\ arrived = 0
  /\ socket = <<>>
  /\ recvQueue = <<>>
  /\ parsed = 0
  /\ nSPLMessageData = 0
  /\ pc = "idle"
  /\ caller = "receive"
  /\ delivered = <<>>

-----------------------------------------------------------------------------
\* A datagram reaches the socket and is buffered.  (A full buffer drops it:
\* such a datagram gets no number.)
Arrive ==
  /\ arrived < MaxArrivals
  /\ Len(socket) < SocketCap
  /\ arrived' = arrived + 1
  /\ \E ok \in BOOLEAN : socket' = Append(socket, [n |-> arrived + 1, ok |-> ok])
  /\ UNCHANGED <<recvQueue, parsed, nSPLMessageData, pc, caller, delivered>>

\* Entry of lua_teamcomm_update, from receive() or from size().
Call(who) ==
  /\ pc = "idle"
  /\ pc' = "reading"
  /\ caller' = who
  /\ nSPLMessageData' = 0
  /\ UNCHANGED <<arrived, socket, recvQueue, parsed, delivered>>

\* A slip: the front is popped but the flag is not reset.
ReadDatagramKeepsFlag ==
  /\ pc = "reading"
  /\ socket # <<>>
  /\ socket' = Tail(socket)
  /\ nSPLMessageData' = nSPLMessageData + 1
  /\ recvQueue' = Append(IF recvQueue # <<>> /\ parsed = 1 THEN Tail(recvQueue)
                         ELSE recvQueue, Head(socket))
  /\ UNCHANGED <<arrived, parsed, pc, caller, delivered>>

\* A slip: the front that was handed over is not popped.
ReadDatagramWithoutPop ==
  /\ pc = "reading"
  /\ socket # <<>>
  /\ socket' = Tail(socket)
  /\ nSPLMessageData' = nSPLMessageData + 1
  /\ recvQueue' = Append(recvQueue, Head(socket))
  /\ UNCHANGED <<arrived, parsed, pc, caller, delivered>>

\* One turn of the drain loop: pop the front if it was handed over, push.
ReadDatagram ==
  /\ pc = "reading"
  /\ socket # <<>>
  /\ socket' = Tail(socket)
  /\ nSPLMessageData' = nSPLMessageData + 1
  /\ IF recvQueue # <<>> /\ parsed = 1
       THEN /\ recvQueue' = Append(Tail(recvQueue), Head(socket))
            /\ parsed' = 0
       ELSE /\ recvQueue' = Append(recvQueue, Head(socket))
            /\ UNCHANGED parsed
  /\ UNCHANGED <<arrived, pc, caller, delivered>>

\* A slip: no trimming at all.
TrimmedNever(q) == q

\* "Remove older messages": keep the newest maxQueueSize.
Trimmed(q) ==
  IF Len(q) <= maxQueueSize THEN q
  ELSE SubSeq(q, Len(q) - maxQueueSize + 1, Len(q))

\* The socket is empty and this call read nothing: receive() returns nil and
\* the Lua loop of the frame ends.  size() ends here whatever it read.
ReturnNothing ==
  /\ pc = "reading"
  /\ socket = <<>>
  /\ nSPLMessageData = 0 \/ caller = "size"
  /\ recvQueue' = Trimmed(recvQueue)
  /\ pc' = "idle"
  /\ UNCHANGED <<arrived, socket, parsed, nSPLMessageData, caller, delivered>>

\* receive() marks the front as parsed and converts it.  A wrong header ends
\* the Lua loop (the converter returns nothing); otherwise the message is
\* handled and the loop calls receive() again, which resets nSPLMessageData.
ReturnFront ==
  /\ pc = "reading"
  /\ socket = <<>>
  /\ nSPLMessageData > 0
  /\ caller = "receive"
  /\ recvQueue' = Trimmed(recvQueue)
  /\ parsed' = 1
  /\ IF Head(recvQueue').ok
       THEN /\ delivered' = Append(delivered, Head(recvQueue').n)
            /\ nSPLMessageData' = 0
            /\ UNCHANGED pc
       ELSE /\ pc' = "idle"
            /\ UNCHANGED <<nSPLMessageData, delivered>>
  /\ UNCHANGED <<arrived, socket, caller>>

Next ==
  \/ Arrive
  \/ \E who \in Callers : Call(who)
  \/ ReadDatagram
  \/ ReturnNothing
  \/ ReturnFront

Spec == Init /\ [][Next]_vars

-----------------------------------------------------------------------------
\* Number of the last datagram read from the socket.
lastRead == arrived - Len(socket)

\* Socket and queue hold consecutive numbers up to the newest arrival: the
\* queue never has a gap, a duplicate or a pair out of order, although it is
\* popped at two places (when pushing and when trimming).
NoGaps ==
  /\ Len(recvQueue) <= lastRead
  /\ \A i \in 1..Len(socket) : socket[i].n = lastRead + i
  /\ \A i \in 1..Len(recvQueue) :
       recvQueue[i].n = lastRead - Len(recvQueue) + i

\* The flag parsed says exactly whether the front was already handed over;
\* a queue that was filled once is never empty again, so receive() may test
\* nSPLMessageData alone.
FrontMarked ==
  /\ recvQueue = <<>> => parsed = 0 /\ delivered = <<>>
  /\ pc = "reading" /\ nSPLMessageData > 0 => recvQueue # <<>> /\ parsed = 0
  /\ recvQueue # <<>> =>
       \A i \in 1..Len(delivered) :
         IF parsed = 1 THEN delivered[i] <= recvQueue[1].n
                       ELSE delivered[i] < recvQueue[1].n

\* A message reaches the Lua code at most once and never after a newer one,
\* although its front stays queued after it was handed over.
InOrderOnce ==
  \A i, j \in 1..Len(delivered) : i < j => delivered[i] < delivered[j]

\* What reaches the Lua code is one of the maxQueueSize newest messages read.
FreshEnough ==
  [][delivered' # delivered =>
       lastRead - delivered'[Len(delivered')] < maxQueueSize]_vars

\* "receive new messages every frame" (TeamSPL.lua:460): when the loop of a
\* frame has ended and nothing malformed was read, the front is the only
\* message in the queue and it has been handled.
NothingStranded ==
  pc = "idle" /\ caller = "receive" /\ (\A i \in 1..Len(recvQueue) : recvQueue[i].ok) =>
    Len(recvQueue) <= IF parsed = 1 THEN 1 ELSE 0

\* The receive path implements the lossy FIFO: what may still be handed over
\* is what is in the socket and the part of the queue not handed over.
Pending ==
  {socket[i].n : i \in 1..Len(socket)} \union
  {recvQueue[i].n : i \in (IF parsed = 1 THEN 2 ELSE 1)..Len(recvQueue)}

Fifo == INSTANCE LossyFifo WITH pending <- Pending

\* Every behaviour of the receive path is one of the abstract FIFO.
ImplementsFifo == Fifo!Spec
=============================================================================
