------------------------------- MODULE LuaComm -------------------------------
(***************************************************************************)
(* Lua strings over UDP, as the debug monitor on the developer's machine   *)
(* uses them (it shows the images the robot broadcasts, and sends a        *)
(* changed colour table back in parts):                                    *)
(*   Lib/Modules/Comm/luaComm.cpp   the library OldComm                    *)
(*   Player/listen_monitor.lua      the monitor's loop and send_lut        *)
(*                                                                         *)
(* Unlike TeamComm, receive() pops what it hands over and looks at the     *)
(* queue whatever it read.  Every call, send() too, drains the socket      *)
(* first, so that a queue fills up while the monitor is only sending.      *)
(***************************************************************************)
EXTENDS Integers, Sequences

CONSTANTS
  maxQueueSize,   \* the constant of that name, 12 in the code
  LutParts,       \* datagrams a colour table is sent in
  SocketCap,      \* datagrams the kernel buffers before it drops
  MaxArrivals     \* bound on the arrivals, for model checking only

ASSUME QueueAssumption == maxQueueSize \in Nat \ {0}
ASSUME LutAssumption == LutParts \in Nat \ {0}
ASSUME BoundAssumption == SocketCap \in Nat /\ MaxArrivals \in Nat

VARIABLES
  arrived,     \* number of datagrams that reached the socket
  socket,      \* the kernel's receive buffer: arrival numbers
  recvQueue,   \* static deque recvQueue
  pc,          \* where the monitor is in its loop
  parts,       \* parts of the colour table still to send
  delivered    \* numbers of the messages the monitor handled (history)

vars == <<arrived, socket, recvQueue, pc, parts, delivered>>

\* Types, and outside the calls the queue keeps its bound.
TypeOK ==
  /\ arrived \in Nat
  /\ socket \in Seq(Nat \ {0})
  /\ recvQueue \in Seq(Nat \ {0})
  /\ pc \in {"idle", "receive", "lut", "parts", "send"}
  /\ parts \in 0..LutParts
  /\ pc = "send" => parts > 0
  /\ delivered \in Seq(Nat \ {0})
  /\ pc \notin {"receive", "send"} => Len(recvQueue) <= maxQueueSize

Init ==
  /\ arrived = 0
  /\ socket = <<>>
  /\ recvQueue = <<>>
  /\ pc = "idle"
  /\ parts = 0
  /\ delivered = <<>>

-----------------------------------------------------------------------------
\* A datagram reaches the socket (a full buffer drops it unnumbered).  The
\* monitor's own broadcasts are among them.
Arrive ==
  /\ arrived < MaxArrivals
  /\ Len(socket) < SocketCap
  /\ arrived' = arrived + 1
  /\ socket' = Append(socket, arrived + 1)
  /\ UNCHANGED <<recvQueue, pc, parts, delivered>>

\* A turn of the monitor's loop starts with CommWired.receive().
StartTurn ==
  /\ pc = "idle"
  /\ pc' = "receive"
  /\ UNCHANGED <<arrived, socket, recvQueue, parts, delivered>>

\* One turn of the drain loop of lua_comm_update, in receive() or send().
ReadDatagram ==
  /\ pc \in {"receive", "send"}
  /\ socket # <<>>
  /\ socket' = Tail(socket)
  /\ recvQueue' = Append(recvQueue, Head(socket))
  /\ UNCHANGED <<arrived, pc, parts, delivered>>

\* Slips: the oldest are kept; one message goes instead of all in excess.
KeepOldest(q) == IF Len(q) <= maxQueueSize THEN q ELSE SubSeq(q, 1, maxQueueSize)
DropOne(q) == IF Len(q) <= maxQueueSize THEN q ELSE Tail(q)

\* "Remove older messages": keep the newest maxQueueSize.
Trimmed(q) ==
  IF Len(q) <= maxQueueSize THEN q
  ELSE SubSeq(q, Len(q) - maxQueueSize + 1, Len(q))

\* A slip: the newest message is handed over.
ReturnNewest ==
  /\ pc = "receive" /\ socket = <<>> /\ recvQueue # <<>>
  /\ LET q == Trimmed(recvQueue) IN
       /\ delivered' = Append(delivered, q[Len(q)])
       /\ recvQueue' = SubSeq(q, 1, Len(q) - 1)
  /\ pc' = "lut"
  /\ UNCHANGED <<arrived, socket, parts>>

\* receive() hands over the front and pops it.
ReturnFront ==
  /\ pc = "receive" /\ socket = <<>> /\ recvQueue # <<>>
  /\ delivered' = Append(delivered, Head(Trimmed(recvQueue)))
  /\ recvQueue' = Tail(Trimmed(recvQueue))
  /\ pc' = "lut"
  /\ UNCHANGED <<arrived, socket, parts>>

ReturnNil ==
  /\ pc = "receive" /\ socket = <<>> /\ recvQueue = <<>>
  /\ pc' = "lut"
  /\ UNCHANGED <<arrived, socket, recvQueue, parts, delivered>>

\* send_lut(): nothing to send unless the colour table was changed.
SendLut(changed) ==
  /\ pc = "lut"
  /\ pc' = IF changed THEN "parts" ELSE "idle"
  /\ parts' = IF changed THEN LutParts ELSE 0
  /\ UNCHANGED <<arrived, socket, recvQueue, delivered>>

NextPart ==
  /\ pc = "parts"
  /\ pc' = IF parts > 0 THEN "send" ELSE "idle"
  /\ UNCHANGED <<arrived, socket, recvQueue, parts, delivered>>

\* A slip: send() reads the socket and leaves the trimming to receive().
SendUntrimmed ==
  /\ pc = "send" /\ socket = <<>>
  /\ pc' = "parts" /\ parts' = parts - 1
  /\ UNCHANGED <<arrived, socket, recvQueue, delivered>>

\* send() has drained the socket, trims the queue and sends the part.
Send ==
  /\ pc = "send" /\ socket = <<>>
  /\ recvQueue' = Trimmed(recvQueue)
  /\ pc' = "parts" /\ parts' = parts - 1
  /\ UNCHANGED <<arrived, socket, delivered>>

Monitor ==
  \/ StartTurn
  \/ ReadDatagram
  \/ ReturnFront
  \/ ReturnNil
  \/ \E changed \in BOOLEAN : SendLut(changed)
  \/ NextPart
  \/ Send

Next == Arrive \/ Monitor

Spec == Init /\ [][Next]_vars

\* The monitor's loop does not end.
FairSpec == Spec /\ WF_vars(Monitor)

-----------------------------------------------------------------------------
\* No message is shown that maxQueueSize newer ones have overtaken, however
\* long the monitor was busy sending while it arrived.
FreshEnough ==
  [][delivered' # delivered =>
       delivered'[Len(delivered')] > arrived - maxQueueSize]_vars

\* The newest datagram is never the one that is lost: when the robot falls
\* silent, its last datagram is shown, whatever queued up before it.
NewestShown ==
  \A n \in 1..MaxArrivals :
    arrived = n ~> arrived > n \/ \E i \in 1..Len(delivered) : delivered[i] = n

\* The receive path implements the lossy FIFO: what may still be handed over
\* is what is in the socket and in the queue.
Pending ==
  {socket[i] : i \in 1..Len(socket)} \union
  {recvQueue[i] : i \in 1..Len(recvQueue)}

Fifo == INSTANCE LossyFifo WITH pending <- Pending

\* Every behaviour of the receive path is one of the abstract FIFO.
ImplementsFifo == Fifo!Spec
=============================================================================
