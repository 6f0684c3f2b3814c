------------------------------ MODULE Gateway ------------------------------
(***************************************************************************)
(* The DynamixelGateway: the microcontroller between the host and the      *)
(* servo bus (src/Lib/Firmware/DynamixelGateway).  Atmel/main.c is one     *)
(* loop that drains the host's characters, drains the bus, looks at two    *)
(* timeout flags and asks the next servo for its position; the timers and  *)
(* the receivers interrupt it anywhere.  Host/DynamixelGateway.cc calls it *)
(* over a serial line, one request and one answer at a time, with neither  *)
(* sequence numbers nor a flush of the input.                              *)
(*                                                                         *)
(* A request travels in two fragments, so that a timeout can fall into the *)
(* middle of one (Completes).  A servo's answer is one element; when it is *)
(* read it turns out to be a good packet, one with an error, or no packet  *)
(* at all, because noise, a timeout or another servo broke it.             *)
(* A control table write is a write of one of its fields.  The host and    *)
(* the interrupts take their steps at the points of the loop where it      *)
(* reads what they change; elsewhere such a step commutes with the loop's. *)
(***************************************************************************)
EXTENDS Naturals, Sequences, FiniteSets

CONSTANTS NumServos,    \* MAX_NUM_SERVOS
          Ids,          \* the ids of the servos on the bus
          Lists,        \* names of the id lists the host may write (SetIDs)
          IdList,       \* the lists themselves: [Lists -> [Slots -> id]]
          FirstList,    \* the list the table is initialised with
          Requests,     \* what the host may ask: <<operation, argument>>
          MaxCalls      \* bound on the requests of the host

SKIP_ID == 255
Slots == 0 .. NumServos - 1
Modes == {"manual", "read", "write", "readwrite"}

(***************************************************************************)
(* SetIDs accepts any list: ids may be permuted, repeated and left out.    *)
(***************************************************************************)
ASSUME GatewayAssumption ==
  /\ NumServos \in 2 .. SKIP_ID - 1
  /\ Ids \subseteq 0 .. SKIP_ID - 1
  /\ FirstList \in Lists
  /\ IdList \in [Lists -> [Slots -> Ids \cup {SKIP_ID}]]
  /\ Requests \subseteq ({"mode"} \X Modes) \cup ({"ids"} \X Lists)
       \cup {<<"goal", "new">>, <<"raw", "other">>, <<"read", "table">>,
             <<"read", "beyond">>}
  /\ MaxCalls \in Nat

Feedback(m) == m \in {"read", "readwrite"}     \* mode & FEEDBACK_READ_MASK
SyncMask(m) == m \in {"write", "readwrite"}    \* mode & SYNC_WRITE_MASK

VARIABLES
  pc,            \* where main() is in its loop
  mode, state, currServo, idMap,
                 \* the control table, but for the positions, which the
                 \* gateway stores and never reads (Stores)
  hostIn,        \* the line from the host and uart0_getbuf: what the loop has
                 \* not read yet, arrived or not
  hostPacketIn,  \* the request half received, 0 if none
  busIn,         \* uart1_getbuf: answers
  hostTimeout, busTimeout,    \* flags set by the timer interrupts
  owing,         \* the servos that have an answer still to send
  fresh,         \* the servo whose answer to the present query that is,
                 \* SKIP_ID if none: any other answer to come is a late one
  commanded,     \* the servos whose last command is the goal in the table
  call,          \* the host's outstanding call, call.n = 0 if none
  calls,         \* requests sent so far
  downlink,      \* answers the host has not read
  hostHeard,     \* history: a host character read since hostTimeout was set
  tardy,         \* history: the servos that have an answer under way since a
                 \* query to them was abandoned
  moved,         \* history: the id map was changed with a query unanswered
  strays,        \* history: calls given up and raw packets refused
  told           \* history: the mode the host last had confirmed

table == <<mode, state, currServo, idMap>>
host  == <<call, calls, downlink, strays, told>>
bus   == <<busIn, owing, fresh, commanded, tardy, moved>>
flags == <<hostTimeout, busTimeout, hostHeard>>
vars  == <<pc, table, host, bus, flags, hostIn, hostPacketIn>>

NoCall == [n |-> 0, op |-> "none", arg |-> "none"]

Init ==
  /\ pc = "host"
  /\ mode = "read" /\ state = "idle" /\ currServo = 0
  /\ idMap = IdList[FirstList]
  /\ hostIn = <<>> /\ hostPacketIn = 0
  /\ busIn = <<>>
  /\ hostTimeout = FALSE /\ busTimeout = FALSE
  /\ owing = {} /\ fresh = SKIP_ID
  /\ commanded = {}
  /\ call = NoCall /\ calls = 0
  /\ downlink = <<>>
  /\ hostHeard = FALSE
  /\ tardy = {} /\ moved = FALSE /\ strays = 0 /\ told = "none"

-----------------------------------------------------------------------------
(* DynamixelPacketProcessChar: the second fragment completes the packet    *)
(* whose first fragment is held; a second fragment alone fails the header  *)
(* check, and a first fragment on top of another fails the checksum.       *)
Completes(held, who, half) == half = 2 /\ held = who
Holds(held, who, half, none) == IF half = 1 /\ held = none THEN who ELSE none

-----------------------------------------------------------------------------
(* The host.                                                               *)
Packet(n, op, arg) ==
  << [n |-> n, half |-> 1, op |-> op, arg |-> arg],
     [n |-> n, half |-> 2, op |-> op, arg |-> arg] >>

(* SetMode, SetIDs, SetJointAngles, ReadBlock: write and wait for one answer *)
Call(op, arg) ==
  /\ pc = "host" /\ op # "raw" /\ call.n = 0 /\ calls < MaxCalls
  /\ calls' = calls + 1
  /\ call' = [n |-> calls + 1, op |-> op, arg |-> arg]
  /\ hostIn' = hostIn \o Packet(calls + 1, op, arg)
  /\ told' = IF op = "mode" THEN "none" ELSE told
  /\ UNCHANGED <<pc, table, bus, flags, hostPacketIn, downlink, strays>>

(* SyncWrite: a ready-made packet for the servos; no answer is read        *)
RawSyncWrite(op, arg) ==
  /\ pc = "host" /\ op = "raw" /\ call.n = 0 /\ calls < MaxCalls
  /\ calls' = calls + 1
  /\ hostIn' = hostIn \o Packet(calls + 1, op, arg)
  /\ UNCHANGED <<pc, table, bus, flags, hostPacketIn, call, downlink,
                 strays, told>>

(* ReceiveWriteConfirmation and the reads: whatever answer is in the input *)
Receive ==
  /\ pc = "host" /\ call.n # 0 /\ downlink # <<>>
  /\ told' = IF call.op = "mode" /\ Head(downlink).ok THEN call.arg ELSE told
  /\ downlink' = Tail(downlink)
  /\ call' = NoCall
  /\ UNCHANGED <<pc, table, bus, flags, hostIn, hostPacketIn, calls, strays>>

(* DEF_CHAR_TIMEOUT_US: 20 ms without an answer; it may still come         *)
GiveUp ==
  /\ pc = "host" /\ call.n # 0 /\ downlink = <<>>
  /\ call' = NoCall
  /\ strays' = strays + 1
  /\ UNCHANGED <<pc, table, bus, flags, hostIn, hostPacketIn, calls,
                 downlink, told>>

-----------------------------------------------------------------------------
(* Interrupts.                                                             *)
(* A servo sends the answer it owes, whoever was asked in the meantime, or *)
(* never does                                                              *)
Rs485Rx(i) ==
  /\ pc \in {"bus", "timeout"} /\ i \in owing
  /\ busIn' = Append(busIn, [id |-> i, late |-> fresh # i])
  /\ owing' = owing \ {i}
  /\ UNCHANGED <<pc, table, host, flags, hostIn, hostPacketIn, fresh, commanded,
                 tardy, moved>>

BusTimeout ==
  /\ pc \in {"host", "timeout"} /\ ~busTimeout
  /\ busTimeout' = TRUE
  /\ UNCHANGED <<pc, table, host, bus, hostIn, hostPacketIn, hostTimeout,
                 hostHeard>>

(* With no request on its way the overflow changes nothing                 *)
HostTimeout ==
  /\ hostIn # <<>> \/ hostPacketIn # 0
  /\ pc \in {"host", "timeout"} /\ ~hostTimeout
  /\ hostTimeout' = TRUE /\ hostHeard' = FALSE
  /\ UNCHANGED <<pc, table, host, bus, hostIn, hostPacketIn, busTimeout>>

-----------------------------------------------------------------------------
(* The main loop.                                                          *)
Reply(n, ok) == downlink' = Append(downlink, [n |-> n, ok |-> ok])

IdleWrite(p) ==                \* mutant: no change of mode during a query
  \/ /\ p.op = "mode"
     /\ mode' = IF state = "waiting" THEN mode ELSE p.arg
     /\ UNCHANGED <<idMap, commanded, moved>>
  \/ p.op = "ids"  /\ idMap' = IdList[p.arg] /\ UNCHANGED <<mode, commanded, moved>>
  \/ p.op = "goal" /\ commanded' = {} /\ UNCHANGED <<mode, idMap, moved>>

(* WRITE_DATA within the table: the field is overwritten, then confirmed   *)
Write(p) ==
  \/ p.op = "mode" /\ mode' = p.arg /\ UNCHANGED <<idMap, commanded, moved>>
  \/ /\ p.op = "ids"
     /\ idMap' = IdList[p.arg]
     /\ moved' = (moved \/ state = "waiting")
     /\ UNCHANGED <<mode, commanded>>
  \/ p.op = "goal" /\ commanded' = {} /\ UNCHANGED <<mode, idMap, moved>>

AnsweredPassThrough(p) ==      \* mutant: confirmed in manual mode as well
  /\ commanded' = IF mode = "manual" THEN {} ELSE commanded
  /\ strays' = IF mode = "manual" THEN strays ELSE strays + 1
  /\ Reply(p.n, mode = "manual")

(* A packet for another id: to the bus in manual mode, else refused with   *)
(* ERROR_BIT_INVALID_MODE, an answer no call of the host is waiting for    *)
PassThrough(p) ==
  \/ /\ mode = "manual"
     /\ commanded' = {}
     /\ UNCHANGED <<downlink, strays>>
  \/ /\ mode # "manual"
     /\ Reply(p.n, FALSE) /\ strays' = strays + 1
     /\ UNCHANGED commanded

ProcessHostPacket(p) ==
  \/ Write(p) /\ Reply(p.n, TRUE) /\ UNCHANGED strays
  \/ /\ p.op = "read" /\ Reply(p.n, p.arg = "table")
     /\ UNCHANGED <<mode, idMap, commanded, moved, strays>>
  \/ p.op = "raw" /\ PassThrough(p) /\ UNCHANGED <<mode, idMap, moved>>

(* One character of the host; the bus flag is the one it clears            *)
HostChar ==
  /\ pc = "host" /\ hostIn # <<>>
  /\ LET c == Head(hostIn) IN
       /\ hostPacketIn' = Holds(hostPacketIn, c.n, c.half, 0)
       /\ IF Completes(hostPacketIn, c.n, c.half)
            THEN ProcessHostPacket(c) /\ pc' = "bus"
            ELSE UNCHANGED <<pc, mode, idMap, commanded, moved, downlink,
                           strays>>
  /\ hostIn' = Tail(hostIn)
  /\ busTimeout' = FALSE /\ hostHeard' = hostTimeout
  /\ UNCHANGED <<state, currServo, call, calls, told, busIn,
                 owing, fresh, tardy, hostTimeout>>

(* Nothing (more) has arrived                                              *)
HostDrained ==
  /\ pc = "host"
  /\ pc' = "bus"
  /\ UNCHANGED <<table, host, bus, flags, hostIn, hostPacketIn>>

ExpectedAny(c, ok) == ok          \* mutant: the id is not compared
Expected(c, ok) == c.id = idMap[currServo] /\ ok

(* History: who is tardy once b is what waits to be read.  A query that is *)
(* abandoned makes its servo tardy, the end of its answer makes up for it. *)
UnderWay(i, b) == i \in owing \/ \E k \in DOMAIN b : b[k].id = i
StillTardy(b) == {i \in tardy : UnderWay(i, b)}
Abandoned(b) == {i \in tardy \cup {fresh} : i \in Ids /\ UnderWay(i, b)}
Late(b) == [k \in DOMAIN b |-> [b[k] EXCEPT !.late = TRUE]]

(* A complete answer, rest being what else has arrived: in manual mode the *)
(* cycle is reset, an answer that was not expected starts the loop again   *)
(* ("continue"), the expected one is stored.                               *)
ProcessBusPacket(c, ok, rest) ==
  \/ /\ mode = "manual" /\ state = "waiting"
     /\ state' = "idle" /\ currServo' = 0
     /\ fresh' = SKIP_ID /\ tardy' = Abandoned(rest) /\ busIn' = Late(rest)
     /\ pc' = "timeout"
  \/ /\ mode = "manual" /\ state # "waiting"
     /\ state' = "idle" /\ currServo' = 0
     /\ tardy' = StillTardy(rest) /\ busIn' = rest
     /\ pc' = "timeout"
     /\ UNCHANGED fresh
  \/ /\ mode # "manual" /\ state = "waiting" /\ ~Expected(c, ok)
     /\ pc' = "host"
     /\ tardy' = StillTardy(rest) /\ busIn' = rest
     /\ UNCHANGED <<state, currServo, fresh>>
  \/ /\ mode # "manual" /\ state = "waiting" /\ Expected(c, ok)
     /\ state' = "idle"
     /\ tardy' = StillTardy(rest) /\ busIn' = rest
     /\ pc' = "timeout"
     /\ UNCHANGED <<currServo, fresh>>
  \/ /\ mode # "manual" /\ state # "waiting"
     /\ tardy' = StillTardy(rest) /\ busIn' = rest
     /\ pc' = "timeout"
     /\ UNCHANGED <<state, currServo, fresh>>

NoPacket(rest) ==
  /\ busIn' = rest /\ tardy' = StillTardy(rest)
  /\ UNCHANGED <<pc, state, currServo, fresh>>

BusChar ==
  /\ pc = "bus" /\ busIn # <<>>
  /\ \/ \E ok \in BOOLEAN : ProcessBusPacket(Head(busIn), ok, Tail(busIn))
     \/ NoPacket(Tail(busIn))
  /\ busTimeout' = FALSE
  /\ UNCHANGED <<mode, idMap, host, hostIn, hostPacketIn, owing, commanded,
                 moved, hostTimeout, hostHeard>>

BusDrained ==
  /\ pc = "bus" /\ busIn = <<>>
  /\ pc' = "timeout"
  /\ UNCHANGED <<table, host, bus, flags, hostIn, hostPacketIn>>

PauseEnds(s) == IF s = "pause" THEN "idle" ELSE s   \* mutant
AfterTimeout(s) == "idle"

(* What is on its way when a query is abandoned is late from then on.  The *)
(* flag may be one that timer 1 set before the query: a query does not     *)
(* restart it.                                                             *)
CheckTimeouts ==
  /\ pc = "timeout"
  /\ pc' = "send"
  /\ busTimeout' = FALSE /\ hostTimeout' = FALSE
  /\ hostHeard' = FALSE
  /\ hostPacketIn' = IF hostTimeout THEN 0 ELSE hostPacketIn
  /\ state' = IF busTimeout THEN AfterTimeout(state) ELSE state
  /\ IF busTimeout /\ state = "waiting"
       THEN fresh' = SKIP_ID /\ tardy' = Abandoned(busIn) /\ busIn' = Late(busIn)
       ELSE UNCHANGED <<fresh, tardy, busIn>>
  /\ UNCHANGED <<mode, currServo, idMap, host, owing, commanded,
                 moved, hostIn>>

(* SyncWrite: the id pointer stops at the first skipped entry, so only the *)
(* slots before it are written                                             *)
WrittenAll == Slots           \* mutant: the skipped entries are sent too
Written == {k \in Slots : \A j \in 0 .. k : idMap[j] # SKIP_ID}
Served == {idMap[k] : k \in Written}
ShortSucc == IF currServo + 1 >= NumServos THEN 0 ELSE currServo + 1  \* mutant
Succ == IF currServo + 1 >= NumServos + 1 THEN 0 ELSE currServo + 1

SendNothing ==
  /\ UNCHANGED <<state, owing, fresh, busIn, commanded>>

SyncWrite ==
  /\ SyncMask(mode)
  /\ commanded' = commanded \cup Served
  /\ state' = "pause"
  /\ UNCHANGED <<owing, fresh, busIn>>

(* A servo that is asked owes the answer to this query; one that has still *)
(* an answer to send may not hear it.                                      *)
AskPosition(i) ==
  \/ i \in Ids /\ owing' = owing \cup {i} /\ fresh' = i
  \/ i \notin Ids \ owing /\ UNCHANGED owing /\ fresh' = SKIP_ID

(* The test is of the slot number, which is never SKIP_ID: an unused slot  *)
(* is asked as well.  What has arrived already is no answer to this query. *)
Query ==
  /\ Succ # SKIP_ID /\ Feedback(mode)
  /\ AskPosition(idMap[Succ])
  /\ busIn' = Late(busIn)
  /\ state' = "waiting"
  /\ UNCHANGED commanded

SendAnyway ==                 \* mutant: the answer is not waited for
  /\ pc = "send"
  /\ pc' = "host"
  /\ IF mode = "manual" \/ state = "pause"
       THEN SendNothing /\ UNCHANGED currServo
       ELSE /\ currServo' = Succ
            /\ \/ Succ = NumServos /\ SyncWrite
               \/ Succ # NumServos /\ Query
               \/ Succ = NumServos /\ ~SyncMask(mode) /\ SendNothing
               \/ Succ # NumServos /\ ~Feedback(mode) /\ SendNothing
  /\ UNCHANGED <<mode, idMap, host, flags, hostIn, hostPacketIn,
                 tardy, moved>>

Send ==
  /\ pc = "send"
  /\ pc' = "host"
  /\ IF mode = "manual" \/ state # "idle"
       THEN SendNothing /\ UNCHANGED currServo
       ELSE /\ currServo' = Succ
            /\ \/ Succ = NumServos /\ SyncWrite
               \/ Succ # NumServos /\ Query
               \/ Succ = NumServos /\ ~SyncMask(mode) /\ SendNothing
               \/ Succ # NumServos /\ ~Feedback(mode) /\ SendNothing
  /\ UNCHANGED <<mode, idMap, host, flags, hostIn, hostPacketIn,
                 tardy, moved>>

-----------------------------------------------------------------------------
MainLoop == HostChar \/ HostDrained \/ BusChar \/ BusDrained \/ CheckTimeouts \/ Send

Next ==
  \/ MainLoop
  \/ \E r \in Requests : Call(r[1], r[2]) \/ RawSyncWrite(r[1], r[2])
  \/ Receive
  \/ GiveUp
  \/ \E i \in Ids : Rs485Rx(i)
  \/ BusTimeout
  \/ HostTimeout

Spec == Init /\ [][Next]_vars

(***************************************************************************)
(* The loop runs, the 4 ms timer keeps overflowing and what the host wrote *)
(* arrives.  No servo is ever obliged to answer.                           *)
(***************************************************************************)
FairSpec == Spec /\ WF_vars(MainLoop) /\ SF_vars(BusTimeout)

-----------------------------------------------------------------------------
(***************************************************************************)
(*                               Properties                                *)
(***************************************************************************)
Operations == {r[1] : r \in Requests}
Arguments == {r[2] : r \in Requests}
HostFragments == [n : 1 .. MaxCalls, half : {1, 2}, op : Operations, arg : Arguments]
BusAnswers == [id : Ids, late : BOOLEAN]
HostAnswers == [n : 1 .. MaxCalls, ok : BOOLEAN]

(* Every variable has its type.                                            *)
TypeOK ==
  /\ pc \in {"host", "bus", "timeout", "send"}
  /\ mode \in Modes /\ state \in {"idle", "waiting", "pause"}
  /\ currServo \in 0 .. NumServos
  /\ idMap \in [Slots -> Ids \cup {SKIP_ID}] /\ commanded \subseteq Ids
  /\ hostIn \in Seq(HostFragments)
  /\ hostPacketIn \in 0 .. MaxCalls
  /\ busIn \in Seq(BusAnswers)
  /\ owing \subseteq Ids /\ fresh \in Ids \cup {SKIP_ID}
  /\ call.n \in 0 .. calls /\ calls \in 0 .. MaxCalls
  /\ downlink \in Seq(HostAnswers)
  /\ hostTimeout \in BOOLEAN /\ busTimeout \in BOOLEAN /\ hostHeard \in BOOLEAN
  /\ tardy \subseteq Ids /\ moved \in BOOLEAN
  /\ strays \in Nat /\ told \in Modes \cup {"none"}

(* DynamixelGateway.cc matches an answer with a request by position alone. *)
(* As long as no call has timed out and no raw packet was refused, the     *)
(* only answer in the input is that of the call being made.                *)
AnswersPaired ==
  strays = 0 => /\ Len(downlink) <= 1
                /\ \A i \in DOMAIN downlink : downlink[i].n = call.n

(* SetMode returned success: with the pairing intact, the gateway is in    *)
(* that mode, whatever was on its way when the call was made.              *)
ConfirmedInForce == strays = 0 /\ told # "none" => mode = told

(* main.c:524, "make sure the response came back from the correct servo    *)
(* id": the position that is stored in a slot was measured by the servo    *)
(* listed there, whatever the list, and it is the answer to the query made *)
(* for it.  A late answer is stored only for a servo that has itself an    *)
(* answer under way to a query that was abandoned (it is taken at the      *)
(* servo's next turn), or after a list was written with a query            *)
(* unanswered: one that is late never spoils another's position.           *)
Stores == pc = "bus" /\ mode # "manual" /\ state = "waiting" /\ state' = "idle"
FreshFeedback ==
  [][Stores => /\ Head(busIn).id = idMap[currServo]
               /\ Head(busIn).late => idMap[currServo] \in tardy \/ moved]_vars

(* A servo is asked only when every answer that can still come or waits to *)
(* be read is that of a servo whose query was abandoned: the gateway never *)
(* talks over a servo it has not given up, however late others are.        *)
OneTalker ==
  [][pc = "send" /\ state' = "waiting" /\ currServo' # currServo /\ ~moved
        => \A i \in Ids : UnderWay(i, busIn) => i \in tardy]_vars

(* main.c:548, "should happen after 32ms of no activity": the half request *)
(* thrown away on the host timeout is not one whose characters were read   *)
(* after the overflow.  The code clears the bus flag (main.c:475) where    *)
(* the host's is meant.                                                    *)
HostResetAfterSilence ==
  pc = "timeout" /\ hostTimeout /\ hostPacketIn # 0 => ~hostHeard

(* Silent and faulty servos do not stop the round robin: while the mode    *)
(* reads feedback every slot is asked again and again.                     *)
SlotsKeepBeingAsked ==
  \A k \in Slots :
     (<>[]Feedback(mode)) => []<>(state = "waiting" /\ currServo = k)

(* Left in a sync write mode, the gateway ends up having sent the goals of *)
(* the table to every servo it serves, answering servos or not.            *)
GoalsReachServos ==
  (<>[]SyncMask(mode)) => <>[](Served \subseteq commanded)

=============================================================================
