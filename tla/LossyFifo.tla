------------------------------ MODULE LossyFifo ------------------------------
(***************************************************************************)
(* What the receivers of datagrams promise to the code that polls them.    *)
(*                                                                         *)
(* Datagrams are numbered in the order in which they reach the socket.  A  *)
(* receiver may lose any of them, but it hands over those it does not lose *)
(* in that order, and each at most once.  Two implementations are shown to *)
(* refine this specification: TeamComm (SPL standard messages, the robots) *)
(* and LuaComm (Lua strings, the debug monitor).                           *)
(***************************************************************************)
EXTENDS Naturals, Sequences

VARIABLES
  arrived,    \* how many datagrams have reached the socket
  pending,    \* the numbers that may still be handed over
  delivered   \* the sequence of numbers handed over

fifoVars == <<arrived, pending, delivered>>

Init ==
  /\ arrived = 0
  /\ pending = {}
  /\ delivered = <<>>

Arrive ==
  /\ arrived' = arrived + 1
  /\ pending' = pending \union {arrived'}
  /\ UNCHANGED delivered

Lose ==
  /\ pending' \in SUBSET pending
  /\ UNCHANGED <<arrived, delivered>>

\* Handing over m gives up on everything that arrived before m.
Deliver ==
  \E m \in pending :
    /\ delivered' = Append(delivered, m)
    /\ pending' = {n \in pending : n > m}
    /\ UNCHANGED arrived

Next == Arrive \/ Lose \/ Deliver

Spec == Init /\ [][Next]_fifoVars

\* What its users rely on: no message is handled twice, and none after
\* a newer one.
InOrder ==
  \A i, j \in 1..Len(delivered) : i < j => delivered[i] < delivered[j]
=============================================================================
