---------------------------- MODULE RobotProofs ----------------------------
(***************************************************************************)
(* What module Robot promises for every goalie type, with and without      *)
(* getup, with and without the head: the fall detection flag, the body's   *)
(* obedience to the game machine, the handshake on was_penalized, and the  *)
(* head that looks around during the game.                                 *)
(*                                                                         *)
(* The argument: only the game machine's handlers touch fallCheck and      *)
(* wasPenalized, and only they request a state of the body; everything     *)
(* else - four machines, the walk engine, Motion's queue - keeps the three *)
(* fields (Same).  The inductive invariant IInv then says what the request *)
(* must be while the body has not seen it, and what the body is doing once *)
(* it has.  The head gets its orders from two machines: only the game      *)
(* machine's may let it rest, and only when the robot is out of the game.  *)
(***************************************************************************)
EXTENDS Robot, TLAPS

\* The memory is the record module Robot builds; the phase is one of four.
Fields == {"bodyNext", "headNext", "motionNext", "motionEvents", "active",
           "stopRequest", "walkKick", "kickDone", "isStopped", "kicking",
           "fallCheck", "wasPenalized", "bodystate", "phase"}

IsMem(m) == m = [f \in Fields |-> m[f]] /\ m.phase \in 0..3

\* The head's states in which the robot looks around.
Awake == HeadStates \ {"headIdle"}

\* n is a memory that agrees with m on the three fields the game machine owns,
\* and in which the head has no new order that lets it rest.
Same(m, n) ==
  /\ IsMem(n)
  /\ n.headNext \in {m.headNext} \union Awake
  /\ n.fallCheck = m.fallCheck
  /\ n.bodyNext = m.bodyNext
  /\ n.wasPenalized = m.wasPenalized

\* Every operation of the shared memory but SetBody keeps the three fields,
\* if it is not the order for the head to rest; SetBody and SetHead change
\* what they are named for only.
LEMMA MemoryOps ==
  ASSUME NEW m, IsMem(m)
  PROVE  /\ Same(m, m)
         /\ Same(m, WalkStart(m))
         /\ Same(m, WalkStop(m))
         /\ Same(m, WalkHalt(m))
         /\ Same(m, Processed(m))
         /\ Same(m, MarkIdle(m))
         /\ \A k : Same(m, SetKicking(m, k))
         /\ \A p \in 0..3 : Same(m, SetPhase(m, p))
         /\ \A s \in Awake : Same(m, SetHead(m, s))
         /\ \A s : /\ Same(m, SetMotion(m, s))
                   /\ Same(m, MotionEvent(m, s))
         /\ \A s : /\ IsMem(SetHead(m, s))
                   /\ SetHead(m, s).headNext = s
                   /\ SetHead(m, s).bodyNext = m.bodyNext
                   /\ SetHead(m, s).fallCheck = m.fallCheck
                   /\ SetHead(m, s).wasPenalized = m.wasPenalized
         /\ \A s : /\ IsMem(SetBody(m, s))
                   /\ SetBody(m, s).bodyNext = s
                   /\ SetBody(m, s).fallCheck = m.fallCheck
                   /\ SetBody(m, s).wasPenalized = m.wasPenalized
                   /\ SetBody(m, s).headNext = m.headNext
  BY DEF IsMem, Fields, Same, WalkStart, WalkStop, WalkHalt, Processed, SetHead,
         SetMotion, MotionEvent, SetBody, MarkIdle, SetKicking, SetPhase

\* The states the other machines order the head into.
LEMMA HeadOrders ==
  {"headStart", "headReady", "headTrack", "headKick", "headKickFollow",
   "headSweep", "headScan", "headScanStill"} \subseteq Awake
  BY DEF Awake, HeadStates, HeadTable

\* n comes from m by the walk engine alone: active, stopRequest and the walk
\* kick's three variables may differ.
Engine(m, n) ==
  /\ IsMem(n)
  /\ n.bodyNext = m.bodyNext /\ n.headNext = m.headNext
  /\ n.motionNext = m.motionNext /\ n.motionEvents = m.motionEvents
  /\ n.kicking = m.kicking /\ n.phase = m.phase
  /\ n.fallCheck = m.fallCheck /\ n.wasPenalized = m.wasPenalized
  /\ n.bodystate = m.bodystate

\* So do the engine's operations, ...
LEMMA EngineOps ==
  ASSUME NEW m, IsMem(m)
  PROVE  /\ Engine(m, WalkStart(m)) /\ Engine(m, RequestWalkKick(m))
         /\ Engine(m, StanceReset(m)) /\ Engine(m, WalkStart(StanceReset(m)))
  BY DEF IsMem, Fields, Engine, WalkStart, RequestWalkKick, StanceReset

\* ... its own start and each of its step boundaries.
LEMMA WalkUpdateEngine ==
  ASSUME NEW m, IsMem(m), NEW n \in WalkUpdate(m)
  PROVE  Engine(m, n)
<1>1. Engine(m, m) /\ Engine(m, OwnStart(m))
  BY DEF IsMem, Fields, Engine, OwnStart, WalkStart
<1>2. Engine(m, [m EXCEPT !.stopRequest = 0, !.active = FALSE])
  BY DEF IsMem, Fields, Engine
<1>3. \A k \in KickStep(m) : Engine(m, k)
  BY <1>1 DEF IsMem, Fields, Engine, KickStep
<1>4. \A k : Engine(m, k) => Engine(m, FinalStep(k))
  BY DEF IsMem, Fields, Engine, FinalStep
<1> QED
  BY <1>1, <1>2, <1>3, <1>4 DEF WalkUpdate, StepBoundary

\* An operation of the walk engine keeps the three fields.
LEMMA EngineKeeps ==
  ASSUME NEW m, NEW n, Engine(m, n)
  PROVE  Same(m, n)
  BY DEF Engine, Same

\* With a single event the transition table decides alone.
LEMMA TargetOne ==
  ASSUME NEW table, NEW s, NEW e
  PROVE  Target(table, s, <<e>>) = IF Handles(table, s, e) THEN table[s][e] ELSE None
  BY DEF Target

\* The body states a body without an order stays in, or gets to, by the
\* game machine's order only.
Resting == {"bodyIdle", "bodyStop", "bodyReadyMove"}
Commandable == Resting \union {"bodyReady"}

\* The body's own transitions: idle, stopped and arrived bodies stay, a body
\* that gets ready arrives, and no playing body falls into one of these states
\* by itself.
LEMMA BodyMoves ==
  ASSUME NEW s \in BodyStates, NEW e
  PROVE  LET next == Target(BodyTable, s, <<e>>)
         IN /\ s \in Resting => next = None
            /\ s = "bodyReady" => next \in {None, "bodyReadyMove"}
            /\ s \notin Commandable => next \notin Commandable
            /\ next \in BodyStates \union {None}
<1>1. SUFFICES ASSUME Handles(BodyTable, s, e)
               PROVE  /\ s \notin Resting
                      /\ s = "bodyReady" => BodyTable[s][e] = "bodyReadyMove"
                      /\ s \notin Commandable => BodyTable[s][e] \notin Commandable
                      /\ BodyTable[s][e] \in BodyStates
  BY TargetOne DEF Commandable, Resting, None
<1>2. QED
  BY <1>1 DEF Handles, BodyTable, BodyStates, Resting, Commandable

\* Keeping the fields is transitive.
LEMMA SameTrans ==
  ASSUME NEW l, NEW m, NEW n, Same(l, m), Same(m, n)
  PROVE  Same(l, n)
  BY DEF Same

\* Entering a body state keeps the three fields.
LEMMA BodyEntryKeeps ==
  ASSUME NEW m, IsMem(m), NEW s, NEW n \in BodyEntry(s, m)
  PROVE  Same(m, n)
<1> DEFINE m0 == SetPhase(m, 0)
<1>1. Same(m, m0) /\ IsMem(m0)
  BY MemoryOps DEF Same
<1>2. PICK k \in 0..3 : k = IF m0.active THEN 0 ELSE 3
  OBVIOUS
<1>3. Same(m0, n)
  <2>1. \A x, y : IsMem(x) /\ Same(x, y) => IsMem(y)
    BY DEF Same
  <2>2. /\ Same(m0, MotionEvent(MarkIdle(m0), "sit"))
        /\ Same(m0, WalkStop(SetPhase(m0, k)))
        /\ Same(m0, MotionEvent(WalkStop(m0), "diveready"))
    BY <1>1, <1>2, <2>1, MemoryOps, SameTrans
  <2>3. /\ Same(m0, m0) /\ Same(m0, WalkStop(m0))
        /\ \A v \in Awake : Same(m0, SetHead(m0, v))
        /\ \A v : Same(m0, MotionEvent(m0, v))
    BY <1>1, MemoryOps
  <2>4. \A v \in Awake : Same(m0, SetHead(RequestWalkKick(m0), v))
    <3>1. Same(m0, RequestWalkKick(m0))
      BY <1>1, EngineOps, EngineKeeps
    <3> QED
      BY <2>1, <3>1, MemoryOps, SameTrans, <1>1
  <2> QED
    BY <1>2, <2>2, <2>3, <2>4, HeadOrders DEF BodyEntry, EnterIdle, EnterStop, EnterStart,
       EnterHandleKickOff, EnterReady, EnterReadyMove, EnterKick, EnterApproach,
       EnterWalkKick, EnterStill, EnterPositionGoalie, EnterAnticipate
<1> QED
  BY <1>1, <1>3, SameTrans

\* Leaving a body state keeps the three fields.
LEMMA BodyExitKeeps ==
  ASSUME NEW m, IsMem(m), NEW s
  PROVE  Same(m, BodyExit(s, m))
  BY MemoryOps, HeadOrders DEF BodyExit

\* ... and what the steps below use of it, in one place.
LEMMA SameKeeps ==
  /\ \A m : IsMem(m) => Same(m, m)
  /\ \A l, m : Same(l, m) => IsMem(m)
  /\ \A l, m, n : Same(l, m) /\ Same(m, n) => Same(l, n)
  BY DEF Same

\* So does its update, whatever the sensors say: a body state never requests
\* a body state.
LEMMA BodyUpdateKeeps ==
  ASSUME NEW m, IsMem(m), NEW s \in BodyStates, NEW isGoalie, NEW kicking,
         NEW o \in BodyUpdate(s, m, isGoalie, kicking)
  PROVE  Same(m, o.mem)
<1> DEFINE P(S) == \A x \in S : Same(m, x.mem)
<1>1. \A E, n : Same(m, n) => P(Returns(E, n)) /\ P(Stays(n))
  BY DEF Returns, Stays, Outcome
<1>2. /\ Same(m, m)
      /\ Same(m, WalkStart(m)) /\ Same(m, WalkStop(m))
      /\ Same(m, StartIfIdle(m))
      /\ \A v : Same(m, MotionEvent(m, v)) /\ Same(m, SetMotion(m, v))
      /\ \A v \in Awake : Same(m, SetHead(m, v))
      /\ \A p \in 0..3 : Same(m, SetPhase(m, p))
  BY MemoryOps DEF StartIfIdle
<1>3. CASE s = "bodyIdle"
  BY <1>1, <1>2, <1>3 DEF BodyUpdate, UpdateIdle
<1>4. CASE s = "bodyStop"
  <2>1. Same(m, SetPhase(SetMotion(m, "standstill"), 1))
    BY <1>2, MemoryOps, SameKeeps
  <2> QED
    BY <1>1, <1>2, <1>4, <2>1 DEF BodyUpdate, UpdateStop
<1>5. CASE s = "bodyHandleKickOff"
  <2>1. Same(m, MotionEvent(WalkStart(m), "walk"))
    BY <1>2, MemoryOps, SameKeeps
  <2> QED
    BY <1>1, <1>2, <1>5, <2>1 DEF BodyUpdate, UpdateHandleKickOff
<1>6. CASE s = "bodyReadyMove"
  <2> DEFINE m1 == IF m.phase = 0 THEN StartIfIdle(m) ELSE m
  <2>1. Same(m, m1) /\ IsMem(m1) /\ m1.phase \in 0..3
    BY <1>2, SameKeeps DEF IsMem
  <2>2. Same(m, WalkStop(SetPhase(m1, 3))) /\ \A p \in 0..3 : Same(m, SetPhase(m1, p))
    <3> HIDE DEF m1
    <3>1. \A p \in 0..3 : Same(m1, SetPhase(m1, p)) /\ IsMem(SetPhase(m1, p))
      BY <2>1, MemoryOps, SameKeeps
    <3>2. Same(SetPhase(m1, 3), WalkStop(SetPhase(m1, 3)))
      BY <3>1, MemoryOps
    <3> QED
      BY <2>1, <3>1, <3>2, SameKeeps
  <2>3. CASE isGoalie
    BY <1>1, <1>2, <1>6, <2>3 DEF BodyUpdate, UpdateReadyMove
  <2>4. CASE ~isGoalie
    <3> DEFINE S == CASE m1.phase = 0 -> {m1, SetPhase(m1, 1), WalkStop(SetPhase(m1, 3))}
                      [] m1.phase = 1 -> {m1, SetPhase(m1, 2), WalkStop(SetPhase(m1, 3))}
                      [] m1.phase = 2 -> {m1, WalkStop(SetPhase(m1, 3))}
                      [] m1.phase = 3 -> {WalkStop(SetPhase(m1, 3))}
    <3>1. \A n \in S : Same(m, n)
      <4> HIDE DEF m1
      <4> QED BY <2>1, <2>2
    <3>2. o \in UNION {Stays(n) : n \in S}
      BY <1>6, <2>4 DEF BodyUpdate, UpdateReadyMove
    <3> HIDE DEF S
    <3> QED
      BY <1>1, <3>1, <3>2
  <2> QED
    BY <2>3, <2>4
<1>7. CASE s = "bodyKick"
  <2>1. /\ Same(m, MotionEvent(SetPhase(m, 1), "kick"))
        /\ Same(m, SetHead(SetPhase(m, 2), "headKickFollow"))
    <3>1. IsMem(SetPhase(m, 1)) /\ IsMem(SetPhase(m, 2))
      BY <1>2, SameKeeps
    <3>2. /\ Same(SetPhase(m, 1), MotionEvent(SetPhase(m, 1), "kick"))
          /\ Same(SetPhase(m, 2), SetHead(SetPhase(m, 2), "headKickFollow"))
      BY <3>1, MemoryOps, HeadOrders
    <3> QED
      BY <1>2, <3>2, SameKeeps
  <2> HIDE DEF P
  <2> QED
    BY <1>1, <1>2, <1>7, <2>1 DEF BodyUpdate, UpdateKick, P
<1>8. CASE s = "bodyWalkKick"
  <2>1. Same(m, SetHead(SetPhase(m, 1), "headKickFollow"))
    BY <1>2, MemoryOps, HeadOrders, SameKeeps
  <2> QED
    BY <1>1, <1>2, <1>8, <2>1 DEF BodyUpdate, UpdateWalkKick
<1>9. CASE s = "bodyStill"
  BY <1>1, <1>2, <1>9 DEF BodyUpdate, UpdateStill
<1>10. CASE s = "bodyApproach"
  BY <1>1, <1>2, <1>10, HeadOrders DEF BodyUpdate, UpdateApproach
<1>11. CASE s = "bodyAnticipate"
  <2>1. \A v : Same(m, MotionEvent(WalkStop(m), v))
    BY <1>2, MemoryOps, SameKeeps
  <2> QED
    BY <1>1, <1>2, <1>11, <2>1 DEF BodyUpdate, UpdateAnticipate
<1>12. CASE s \notin {"bodyIdle", "bodyStop", "bodyHandleKickOff", "bodyReadyMove",
                      "bodyKick", "bodyWalkKick", "bodyStill", "bodyApproach",
                      "bodyAnticipate"}
  <2>1. BodyUpdate(s, m, isGoalie, kicking) = Returns(Events(s, isGoalie), m)
    BY <1>12 DEF BodyUpdate
  <2> QED
    BY <1>1, <1>2, <2>1
<1> QED
  BY <1>3, <1>4, <1>5, <1>6, <1>7, <1>8, <1>9, <1>10, <1>11, <1>12

\* Entering and leaving a Motion state keeps the three fields.
LEMMA MotionMovesKeep ==
  ASSUME NEW m, IsMem(m), NEW s
  PROVE  Same(m, MotionEntry(s, m)) /\ Same(m, MotionExit(s, m))
<1>1. \A k : /\ Same(m, SetKicking(WalkStop(m), k))
            /\ Same(m, SetKicking(WalkStart(m), k))
  <2>1. IsMem(WalkStop(m)) /\ IsMem(WalkStart(m))
    BY MemoryOps, SameKeeps
  <2>2. \A k : /\ Same(WalkStop(m), SetKicking(WalkStop(m), k))
              /\ Same(WalkStart(m), SetKicking(WalkStart(m), k))
    BY <2>1, MemoryOps
  <2> QED
    BY <2>2, MemoryOps, SameKeeps
<1>2. Same(m, StanceReset(m))
  BY EngineOps, EngineKeeps
<1> QED
  BY <1>1, <1>2, MemoryOps DEF MotionEntry, MotionExit

\* So does its update.
LEMMA MotionUpdateKeeps ==
  ASSUME NEW m, IsMem(m), NEW s, NEW o \in MotionUpdate(s, m)
  PROVE  Same(m, o.mem)
<1> DEFINE P(S) == \A x \in S : Same(m, x.mem)
<1>1. \A E, n : Same(m, n) => P(Returns(E, n)) /\ P(Stays(n))
  BY DEF Returns, Stays, Outcome
<1>2. P(WalksOn(m))
  <2>1. \A n \in WalkUpdate(m) : P(Stays(n))
    BY <1>1, WalkUpdateEngine, EngineKeeps
  <2> QED
    BY <2>1 DEF WalksOn
<1>3. /\ Same(m, m) /\ Same(m, WalkStart(m)) /\ Same(m, SetKicking(m, TRUE))
      /\ Same(m, WalkStart(StanceReset(m)))
  BY MemoryOps, EngineOps, EngineKeeps
<1>4. P(MotionUpdate(s, m))
  <2>1. \A S, T : P(S) /\ P(T) => P(S \union T)
    OBVIOUS
  <2> HIDE DEF P
  <2>2. /\ P(UpdateRelax(m)) /\ P(UpdateSit(m)) /\ P(UpdateStance(m))
        /\ P(UpdateStandstill(m)) /\ P(UpdateDivewait(m)) /\ P(UpdateDive(m))
        /\ P(UpdateFalling(m)) /\ P(UpdateStandup(m)) /\ P(UpdateKicking(m))
    BY <1>1, <1>2, <1>3, <2>1 DEF UpdateRelax, UpdateSit, UpdateStance,
       UpdateStandstill, UpdateDivewait, UpdateDive, UpdateFalling, UpdateStandup,
       UpdateKicking
  <2> QED
    BY <1>2, <2>2 DEF MotionUpdate
<1> QED
  BY <1>4

-----------------------------------------------------------------------------
\* Body state b belongs to game state g.
Follows(g, b) ==
  /\ g \in {"gamePenalized", "gameFinished"} => b = "bodyIdle"
  /\ g = "gameSet" => b = "bodyStop"
  /\ g = "gameReady" => b \in ReadyBodies
  /\ g = "gamePlaying" => b \notin ReadyBodies \union {"bodyIdle", "bodyStop"}

\* What the entry of a game state leaves behind: fall detection is off in Set
\* only, Set and Playing forget the penalty, the body gets an order that
\* belongs to the state (Initial may leave an idle body alone), and the head
\* of a robot in the game is told to look around.
LEMMA GameEntryOrders ==
  ASSUME NEW m, IsMem(m), NEW s \in GameStates,
         m.bodyNext = None
  PROVE  LET n == GameEntry(s, m)
         IN /\ IsMem(n)
            /\ IF s = "gameSet" THEN n.fallCheck = 0 ELSE n.fallCheck = m.fallCheck
            /\ IF n.bodyNext = None THEN s = "gameInitial"
               ELSE n.bodyNext \in BodyStates /\ Follows(s, n.bodyNext)
            /\ n.headNext \in HeadStates
            /\ s \in ChecksPenalty => n.headNext \in Awake
            /\ s \in {"gameSet", "gamePlaying"} => n.wasPenalized = 0
            /\ s = "gamePlaying" =>
                 n.bodyNext = IF m.wasPenalized > 0 THEN "bodyUnpenalized" ELSE "bodyStart"
<1> DEFINE n == GameEntry(s, m)
<1>0. {"bodyIdle", "bodyStop", "bodyReady", "bodyStart", "bodyUnpenalized"} \subseteq BodyStates
  BY DEF BodyStates, BodyTable
<1>h. Awake \union {"headIdle"} \subseteq HeadStates
  BY DEF Awake, HeadStates, HeadTable
<1>a. \A x, b, h : IsMem(x) /\ x.fallCheck = m.fallCheck /\ x.wasPenalized = m.wasPenalized =>
        LET y == Order(x, b, h)
        IN /\ IsMem(y) /\ y.bodyNext = b /\ y.fallCheck = m.fallCheck
           /\ y.wasPenalized = m.wasPenalized /\ y.headNext = h
  <2>1. \A x, h : IsMem(x) => /\ IsMem(SetHead(x, h))
                             /\ SetHead(x, h).headNext = h
                             /\ SetHead(x, h).fallCheck = x.fallCheck
                             /\ SetHead(x, h).wasPenalized = x.wasPenalized
    BY MemoryOps
  <2>2. \A x, b : IsMem(x) => /\ IsMem(SetBody(x, b))
                             /\ SetBody(x, b).bodyNext = b
                             /\ SetBody(x, b).fallCheck = x.fallCheck
                             /\ SetBody(x, b).wasPenalized = x.wasPenalized
                             /\ SetBody(x, b).headNext = x.headNext
    BY MemoryOps
  <2> QED
    BY <2>1, <2>2 DEF Order
<1>1. CASE s = "gameInitial"
  <2> DEFINE m1 == SetHead(WalkStop(m), "headIdle")
  <2>1. /\ IsMem(m1) /\ m1.headNext = "headIdle" /\ m1.bodyNext = None
        /\ m1.fallCheck = m.fallCheck
    <3>1. Same(m, WalkStop(m))
      BY MemoryOps
    <3> HIDE DEF m1
    <3>2. \A x : IsMem(x) => LET y == SetHead(x, "headIdle") IN
            /\ IsMem(y) /\ y.headNext = "headIdle" /\ y.bodyNext = x.bodyNext
            /\ y.fallCheck = x.fallCheck
      BY MemoryOps
    <3> QED
      BY <3>1, <3>2 DEF Same, m1
  <2>2. n = IF m1.bodystate = 1 THEN m1 ELSE SetBody(m1, "bodyIdle")
    BY <1>1 DEF GameEntry, EnterInitial
  <2> HIDE DEF m1, n
  <2>4. /\ IsMem(SetBody(m1, "bodyIdle"))
        /\ SetBody(m1, "bodyIdle").bodyNext = "bodyIdle"
        /\ SetBody(m1, "bodyIdle").fallCheck = m1.fallCheck
        /\ SetBody(m1, "bodyIdle").headNext = m1.headNext
    BY <2>1, MemoryOps
  <2>5. /\ IsMem(n) /\ n.fallCheck = m.fallCheck /\ n.bodyNext \in {None, "bodyIdle"}
        /\ n.headNext = "headIdle"
    BY <2>1, <2>2, <2>4
  <2> QED
    BY <1>0, <1>h, <1>1, <2>5 DEF Follows, ChecksPenalty, n
<1>2. CASE s = "gameReady"
  <2>1. n = Order(WalkStart(m), "bodyReady", "headReady")
    BY <1>2 DEF GameEntry
  <2>2. Same(m, WalkStart(m))
    BY MemoryOps
  <2> HIDE DEF n
  <2>3. /\ IsMem(n) /\ n.bodyNext = "bodyReady" /\ n.fallCheck = m.fallCheck
        /\ n.headNext = "headReady"
    BY <1>a, <2>1, <2>2 DEF Same
  <2> QED
    BY <1>0, <1>h, <1>2, <2>3, HeadOrders DEF Follows, None, ReadyBodies, n
<1>3. CASE s = "gameSet"
  <2> DEFINE x == Order(m, "bodyStop", "headScanStill")
  <2>1. n = [x EXCEPT !.fallCheck = 0, !.wasPenalized = 0]
    BY <1>3 DEF GameEntry, EnterSet
  <2>2. IsMem(x) /\ x.bodyNext = "bodyStop" /\ x.headNext = "headScanStill"
    BY <1>a
  <2> HIDE DEF n, x
  <2>3. /\ IsMem(n) /\ n.bodyNext = "bodyStop" /\ n.fallCheck = 0
        /\ n.wasPenalized = 0 /\ n.headNext = "headScanStill"
    BY <2>1, <2>2 DEF IsMem, Fields
  <2> QED
    BY <1>0, <1>h, <1>3, <2>3, HeadOrders DEF Follows, None, n
<1>4. CASE s = "gamePlaying"
  <2> DEFINE b == IF m.wasPenalized > 0 THEN "bodyUnpenalized" ELSE "bodyStart"
             x == Order(m, b, "headStart")
             y == IF m.wasPenalized > 0 THEN WalkStart(x) ELSE x
  <2>1. n = [y EXCEPT !.wasPenalized = 0]
    BY <1>4 DEF GameEntry, EnterPlaying
  <2>2. /\ IsMem(x) /\ x.bodyNext = b /\ x.fallCheck = m.fallCheck
        /\ x.headNext = "headStart"
    <3> HIDE DEF b
    <3> QED BY <1>a
  <2>3. /\ IsMem(y) /\ y.bodyNext = b /\ y.fallCheck = m.fallCheck
        /\ y.headNext \in Awake
    <3> HIDE DEF b, x
    <3>1. Same(x, WalkStart(x))
      BY <2>2, MemoryOps
    <3> QED BY <2>2, <3>1, HeadOrders DEF Same
  <2>4. /\ IsMem(n) /\ n.bodyNext = b /\ n.fallCheck = m.fallCheck
        /\ n.wasPenalized = 0 /\ n.headNext \in Awake
    <3> HIDE DEF b, x, y, n
    <3> QED BY <2>1, <2>3 DEF IsMem, Fields
  <2>5. b \in {"bodyUnpenalized", "bodyStart"}
    OBVIOUS
  <2> HIDE DEF n
  <2> QED
    BY <1>0, <1>h, <1>4, <2>4, <2>5 DEF Follows, None, ReadyBodies, n
<1>5. CASE s \in {"gamePenalized", "gameFinished"}
  <2>1. n = Order(m, "bodyIdle", "headIdle")
    BY <1>5 DEF GameEntry
  <2> HIDE DEF n
  <2>2. /\ IsMem(n) /\ n.bodyNext = "bodyIdle" /\ n.fallCheck = m.fallCheck
        /\ n.headNext = "headIdle"
    BY <1>a, <2>1
  <2> QED
    BY <1>0, <1>h, <1>5, <2>2 DEF Follows, None, ChecksPenalty, n
<1> QED
  BY <1>1, <1>2, <1>3, <1>4, <1>5 DEF GameStates

\* A game state's update requests nothing; only Penalized writes was_penalized.
LEMMA GameUpdateKeeps ==
  ASSUME NEW m, IsMem(m), NEW s \in GameStates, NEW g, NEW p
  PROVE  LET n == GameUpdate(s, m, g, p).mem
         IN /\ IsMem(n)
            /\ n.fallCheck = m.fallCheck
            /\ n.bodyNext = m.bodyNext
            /\ n.headNext \in {m.headNext} \union Awake
            /\ s # "gamePenalized" => n.wasPenalized = m.wasPenalized
<1> DEFINE n == GameUpdate(s, m, g, p).mem
<1>1. n \in {WalkStop(m), [m EXCEPT !.wasPenalized = 1], m}
  BY DEF GameUpdate, Outcome
<1>2. s # "gamePenalized" => n \in {WalkStop(m), m}
  BY DEF GameUpdate, Outcome
<1>3. Same(m, WalkStop(m)) /\ Same(m, m)
  BY MemoryOps
<1>4. LET x == [m EXCEPT !.wasPenalized = 1]
      IN /\ IsMem(x) /\ x.fallCheck = m.fallCheck /\ x.bodyNext = m.bodyNext
         /\ x.headNext = m.headNext
  BY DEF IsMem, Fields
<1> HIDE DEF n
<1>5. /\ IsMem(n) /\ n.fallCheck = m.fallCheck /\ n.bodyNext = m.bodyNext
      /\ n.headNext \in {m.headNext} \union Awake
      /\ s # "gamePenalized" => n.wasPenalized = m.wasPenalized
  BY <1>1, <1>2, <1>3, <1>4 DEF Same
<1> QED
  BY <1>5 DEF n

\* Leaving Set restores fall detection, leaving Penalized notes the penalty.
LEMMA GameExitKeeps ==
  ASSUME NEW m, IsMem(m), NEW s \in GameStates
  PROVE  LET n == GameExit(s, m)
         IN /\ IsMem(n)
            /\ n.bodyNext = m.bodyNext
            /\ n.fallCheck = IF s = "gameSet" THEN 1 ELSE m.fallCheck
            /\ n.wasPenalized = IF s = "gamePenalized" THEN 1 ELSE m.wasPenalized
<1>1. Same(m, WalkStart(m)) /\ Same(m, m)
  BY MemoryOps
<1>2. LET x == [m EXCEPT !.wasPenalized = 1]
      IN /\ IsMem(x) /\ x.fallCheck = m.fallCheck /\ x.bodyNext = m.bodyNext
         /\ x.wasPenalized = 1
  BY DEF IsMem, Fields
<1>3. LET x == [m EXCEPT !.fallCheck = 1]
      IN /\ IsMem(x) /\ x.fallCheck = 1 /\ x.bodyNext = m.bodyNext
         /\ x.wasPenalized = m.wasPenalized
  BY DEF IsMem, Fields
<1>4. GameExit(s, m) = IF s = "gameInitial" THEN WalkStart(m)
                       ELSE IF s = "gameSet" THEN [m EXCEPT !.fallCheck = 1]
                       ELSE IF s = "gamePenalized" THEN [m EXCEPT !.wasPenalized = 1]
                       ELSE m
  BY DEF GameExit
<1> QED
  BY <1>1, <1>2, <1>3, <1>4 DEF Same

\* The game machine's table leads to its own states.
LEMMA GameMoves ==
  ASSUME NEW s \in GameStates, NEW e
  PROVE  Target(GameTable, s, <<e>>) \in GameStates \union {None}
<1>1. SUFFICES ASSUME Handles(GameTable, s, e)
               PROVE  GameTable[s][e] \in GameStates
  BY TargetOne
<1> QED
  BY <1>1 DEF Handles, GameTable, GameStates

-----------------------------------------------------------------------------
\* The body has an order it has not seen.
Pending == pc = "body" /\ mem.bodyNext # None

\* The order, or else the body's state, belongs to the game state.
Commanded ==
  IF Pending
    THEN mem.bodyNext \in BodyStates /\ Follows(game, mem.bodyNext)
    ELSE mem.bodyNext = None /\ Follows(game, body)

\* Where the head is going, unless it gets another order.
Heading == IF mem.headNext # None THEN mem.headNext ELSE head

\* The head's part: it rests only if the game machine told it to, and once it
\* has been updated in a frame no order is left.
HeadInv ==
  /\ head \in HeadStates
  /\ mem.headNext \in HeadStates \union {None}
  /\ pc = "motion" => mem.headNext = None
  /\ TrackHead /\ game \in ChecksPenalty => Heading # "headIdle"

\* The inductive invariant.
IInv ==
  /\ IsMem(mem)
  /\ pc \in {"game", "body", "head", "motion"}
  /\ game \in GameStates
  /\ body \in BodyStates
  /\ FallCheckMatchesGame
  /\ game = "gameSet" => mem.wasPenalized = 0
  /\ Commanded
  /\ HeadInv

\* A memory that differs by Same leaves the head where it was going, or awake.
LEMMA HeadKept ==
  ASSUME HeadInv, head' = head, game' = game, pc' # "motion",
         mem'.headNext \in {mem.headNext} \union Awake
  PROVE  HeadInv'
<1>1. None \notin Awake
  BY DEF None, Awake, HeadStates, HeadTable
<1> QED
  BY <1>1 DEF HeadInv, Heading, Awake

\* No transition of the head's own lets it rest.
LEMMA HeadMoves ==
  ASSUME NEW s \in HeadStates, NEW e
  PROVE  Target(HeadTable, s, <<e>>) \in Awake \union {None}
<1>1. SUFFICES ASSUME Handles(HeadTable, s, e)
               PROVE  HeadTable[s][e] \in Awake
  BY TargetOne
<1> QED
  BY <1>1 DEF Handles, HeadTable, HeadStates, Awake

\* The invariant holds when main.lua has run the entries of all machines.
LEMMA InitIInv == Init => IInv
<1> SUFFICES ASSUME Init PROVE IInv
  OBVIOUS
<1>1. PICK m \in BodyEntry("bodyIdle", Loaded) : mem = GameEntry("gameInitial", m)
  BY DEF Init
<1>2. IsMem(Loaded) /\ Loaded.fallCheck = 1 /\ Loaded.bodyNext = None
  BY DEF IsMem, Fields, Loaded
<1>3. IsMem(m) /\ m.fallCheck = 1 /\ m.bodyNext = None
  BY <1>1, <1>2, BodyEntryKeeps DEF Same
<1>4. m.bodystate = 1
  <2> DEFINE m0 == MarkIdle(SetPhase(Loaded, 0))
  <2>1. m = MotionEvent(m0, "sit")
    BY DEF BodyEntry, EnterIdle
  <2>2. IsMem(SetPhase(Loaded, 0))
    BY <1>2, MemoryOps, SameKeeps
  <2>3. IsMem(m0) /\ m0.bodystate = 1
    BY <2>2 DEF MarkIdle, IsMem, Fields
  <2> HIDE DEF m0
  <2> QED
    BY <2>1, <2>3 DEF MotionEvent, IsMem, Fields
<1>5. mem.bodyNext = None /\ mem.headNext = "headIdle"
  <2>1. SetHead(WalkStop(m), "headIdle").bodystate = 1
    BY <1>3, <1>4 DEF SetHead, WalkStop, IsMem, Fields
  <2>2. mem = SetHead(WalkStop(m), "headIdle")
    BY <1>1, <2>1 DEF GameEntry, EnterInitial
  <2>3. IsMem(WalkStop(m)) /\ WalkStop(m).bodyNext = None
    BY <1>3, MemoryOps DEF Same
  <2> QED
    BY <2>2, <2>3, MemoryOps
<1>6. IsMem(mem) /\ mem.fallCheck = 1
  BY <1>1, <1>3, GameEntryOrders DEF GameStates
<1>7. HeadInv
  BY <1>5 DEF Init, HeadInv, HeadStates, HeadTable, ChecksPenalty
<1> QED
  BY <1>5, <1>6, <1>7 DEF Init, IInv, GameStates, BodyStates, BodyTable,
     FallCheckMatchesGame, Commanded, Pending, Follows

\* A frame of the game machine keeps the invariant; the orders of a kickoff and
\* of a return from penalty are the two that ReturnFromPenalty names.
LEMMA UpdateGameKeeps ==
  ASSUME IInv, UpdateGame
  PROVE  /\ IInv'
         /\ game' = "gamePlaying" /\ game = "gameSet" => mem'.bodyNext = "bodyStart"
         /\ game' = "gamePlaying" /\ game = "gamePenalized"
              => mem'.bodyNext = "bodyUnpenalized"
<1> DEFINE o == GameUpdate(game, mem, gameState, penalized)
           next == Target(GameTable, game, <<o.event>>)
           left == GameExit(game, o.mem)
<1>1. /\ pc = "game" /\ pc' = "body" /\ body' = body /\ motion' = motion
      /\ head' = head
      /\ IF next = None THEN game' = game /\ mem' = o.mem
         ELSE game' = next /\ mem' = GameEntry(next, left)
  BY DEF UpdateGame
<1>2. /\ IsMem(o.mem) /\ o.mem.fallCheck = mem.fallCheck /\ o.mem.bodyNext = None
      /\ o.mem.headNext \in {mem.headNext} \union Awake
      /\ game # "gamePenalized" => o.mem.wasPenalized = mem.wasPenalized
  BY <1>1, GameUpdateKeeps DEF IInv, Commanded, Pending
<1>3. next \in GameStates \union {None}
  BY GameMoves DEF IInv
<1> HIDE DEF o, next
<1>4. CASE next = None
  <2>1. game' = game /\ mem' = o.mem
    BY <1>1, <1>4
  <2>2. HeadInv'
    BY <1>1, <1>2, <2>1, HeadKept DEF IInv
  <2> QED
    BY <1>1, <1>2, <2>1, <2>2 DEF IInv, Commanded, Pending, FallCheckMatchesGame, Follows
<1>5. CASE next # None
  <2>1. game' = next /\ mem' = GameEntry(next, left) /\ next \in GameStates
    BY <1>1, <1>3, <1>5
  <2>2. /\ IsMem(left) /\ left.bodyNext = None
        /\ left.fallCheck = IF game = "gameSet" THEN 1 ELSE mem.fallCheck
        /\ left.wasPenalized = IF game = "gamePenalized" THEN 1 ELSE o.mem.wasPenalized
    BY <1>2, GameExitKeeps DEF IInv
  <2> HIDE DEF left
  <2>3. /\ IsMem(mem')
        /\ IF next = "gameSet" THEN mem'.fallCheck = 0
           ELSE mem'.fallCheck = left.fallCheck
        /\ IF mem'.bodyNext = None THEN next = "gameInitial"
           ELSE mem'.bodyNext \in BodyStates /\ Follows(next, mem'.bodyNext)
        /\ mem'.headNext \in HeadStates
        /\ next \in ChecksPenalty => mem'.headNext \in Awake
        /\ next \in {"gameSet", "gamePlaying"} => mem'.wasPenalized = 0
        /\ next = "gamePlaying" =>
             mem'.bodyNext = IF left.wasPenalized > 0 THEN "bodyUnpenalized" ELSE "bodyStart"
    BY <2>1, <2>2, GameEntryOrders
  <2>4. FallCheckMatchesGame'
    BY <2>1, <2>2, <2>3 DEF IInv, FallCheckMatchesGame
  <2>5. Commanded'
    BY <1>1, <2>1, <2>3 DEF Commanded, Pending, Follows
  <2>6. game = "gameSet" => left.wasPenalized = 0
    BY <1>2, <2>2 DEF IInv
  <2>7. game = "gamePenalized" => left.wasPenalized = 1
    BY <2>2
  <2>8. None \notin HeadStates
    BY DEF None, HeadStates, HeadTable
  <2>9. HeadInv'
    BY <1>1, <2>1, <2>3, <2>8 DEF IInv, HeadInv, Heading, Awake
  <2> QED
    BY <1>1, <2>1, <2>3, <2>4, <2>5, <2>6, <2>7, <2>9 DEF IInv
<1> QED
  BY <1>4, <1>5

\* Leaving a body state for another consumes the request.
LEMMA MoveBodyKeeps ==
  ASSUME NEW m, IsMem(m), NEW s, MoveBody(s, m)
  PROVE  /\ IsMem(mem')
         /\ mem'.fallCheck = m.fallCheck
         /\ mem'.wasPenalized = m.wasPenalized
         /\ mem'.bodyNext = None
         /\ mem'.headNext \in {m.headNext} \union Awake
<1> DEFINE x == BodyExit(body, m)
           y == [x EXCEPT !.bodyNext = None]
<1>1. Same(m, x)
  BY BodyExitKeeps
<1>2. IsMem(y) /\ y.fallCheck = m.fallCheck /\ y.wasPenalized = m.wasPenalized
      /\ y.bodyNext = None /\ y.headNext \in {m.headNext} \union Awake
  <2> HIDE DEF x
  <2> QED BY <1>1 DEF Same, IsMem, Fields
<1>3. mem' \in BodyEntry(s, y)
  BY DEF MoveBody
<1> HIDE DEF y
<1> QED
  BY <1>2, <1>3, BodyEntryKeeps DEF Same

\* A frame of the body machine turns the order into the state, and without an
\* order no transition leaves the states that belong to the game state.
LEMMA UpdateBodyKeeps ==
  ASSUME IInv, UpdateBody
  PROVE  IInv'
<1>1. /\ pc = "body" /\ pc' = "head" /\ game' = game /\ motion' = motion
      /\ head' = head
  BY DEF UpdateBody
<1>2. SUFFICES /\ IsMem(mem') /\ mem'.fallCheck = mem.fallCheck
               /\ mem'.wasPenalized = mem.wasPenalized /\ mem'.bodyNext = None
               /\ mem'.headNext \in {mem.headNext} \union Awake
               /\ body' \in BodyStates /\ Follows(game, body')
  BY <1>1, HeadKept DEF IInv, FallCheckMatchesGame, Commanded, Pending, Follows
<1>3. IsMem(mem) /\ body \in BodyStates
  BY DEF IInv
<1>4. CASE mem.bodyNext # None
  <2>1. MoveBody(mem.bodyNext, mem)
    BY <1>4 DEF UpdateBody
  <2>2. body' = mem.bodyNext
    BY <2>1 DEF MoveBody
  <2>3. mem.bodyNext \in BodyStates /\ Follows(game, mem.bodyNext)
    BY <1>1, <1>4 DEF IInv, Commanded, Pending
  <2> QED
    BY <1>3, <2>1, <2>2, <2>3, MoveBodyKeeps
<1>5. CASE mem.bodyNext = None
  <2>1. PICK o \in BodyUpdate(body, mem, goalie, motion = "kick") :
          LET next == Target(BodyTable, body, <<o.event>>)
          IN IF next = None THEN body' = body /\ mem' = o.mem
             ELSE MoveBody(next, o.mem)
    BY <1>5 DEF UpdateBody
  <2> DEFINE next == Target(BodyTable, body, <<o.event>>)
  <2>2. Same(mem, o.mem) /\ IsMem(o.mem)
    BY <1>3, BodyUpdateKeeps, SameKeeps
  <2>3. /\ body \in Resting => next = None
        /\ body = "bodyReady" => next \in {None, "bodyReadyMove"}
        /\ body \notin Commandable => next \notin Commandable
        /\ next \in BodyStates \union {None}
    BY <1>3, BodyMoves
  <2>4. Follows(game, body)
    BY <1>5 DEF IInv, Commanded, Pending
  <2>5. IF next = None THEN body' = body /\ mem' = o.mem ELSE MoveBody(next, o.mem)
    BY <2>1
  <2> HIDE DEF next
  <2>6. CASE next = None
    BY <1>3, <1>5, <2>2, <2>4, <2>5, <2>6 DEF Same
  <2>7. CASE next # None
    <3>1. MoveBody(next, o.mem) /\ body' = next
      BY <2>5, <2>7 DEF MoveBody
    <3>2. /\ IsMem(mem') /\ mem'.bodyNext = None
          /\ mem'.fallCheck = mem.fallCheck /\ mem'.wasPenalized = mem.wasPenalized
          /\ mem'.headNext \in {mem.headNext} \union Awake
      BY <2>2, <3>1, MoveBodyKeeps DEF Same
    <3>3. Follows(game, next)
      BY <2>3, <2>4, <2>7 DEF Follows, Resting, Commandable, ReadyBodies
    <3> QED
      BY <2>3, <2>7, <3>1, <3>2, <3>3
  <2> QED
    BY <2>6, <2>7
<1> QED
  BY <1>4, <1>5

\* A frame of the head machine keeps the invariant: the order, or else a
\* transition of its own, becomes the state.
LEMMA UpdateHeadKeeps ==
  ASSUME IInv, UpdateHead
  PROVE  IInv'
<1>1. /\ pc = "head" /\ pc' = "motion" /\ game' = game /\ body' = body
      /\ motion' = motion /\ mem' = SetHead(mem, None)
  BY DEF UpdateHead
<1>2. /\ IsMem(mem') /\ mem'.headNext = None /\ mem'.bodyNext = mem.bodyNext
      /\ mem'.fallCheck = mem.fallCheck /\ mem'.wasPenalized = mem.wasPenalized
  BY <1>1, MemoryOps DEF IInv
<1>3. HeadInv'
  <2>1. /\ head \in HeadStates
        /\ mem.headNext \in HeadStates \union {None}
        /\ TrackHead /\ game \in ChecksPenalty => Heading # "headIdle"
    BY DEF IInv, HeadInv
  <2>2. SUFFICES /\ head' \in HeadStates
                 /\ TrackHead /\ game \in ChecksPenalty => head' # "headIdle"
    BY <1>1, <1>2 DEF HeadInv, Heading
  <2>3. CASE ~TrackHead
    BY <2>1, <2>3 DEF UpdateHead
  <2>4. CASE TrackHead /\ mem.headNext # None
    BY <2>1, <2>4 DEF UpdateHead, Heading
  <2>5. CASE TrackHead /\ mem.headNext = None
    <3>1. PICK e : LET next == Target(HeadTable, head, <<e>>)
                   IN head' = IF next = None THEN head ELSE next
      BY <2>5 DEF UpdateHead
    <3>2. head' \in Awake \union {head}
      BY <2>1, <3>1, HeadMoves
    <3> QED
      BY <2>1, <2>5, <3>2 DEF Heading, Awake
  <2> QED
    BY <2>3, <2>4, <2>5
<1> QED
  BY <1>1, <1>2, <1>3 DEF IInv, FallCheckMatchesGame, Commanded, Pending, Follows

\* A frame of Motion keeps it too: falls, queued events and the walk engine do
\* not touch what it speaks of.
LEMMA UpdateMotionKeeps ==
  ASSUME IInv, UpdateMotion
  PROVE  IInv'
<1>1. /\ pc = "motion" /\ pc' = "game" /\ game' = game /\ body' = body
      /\ head' = head
  BY DEF UpdateMotion
<1>2. SUFFICES Same(mem, mem')
  BY <1>1, HeadKept DEF IInv, Same, FallCheckMatchesGame, Commanded, Pending, Follows
<1>3. PICK tilted \in BOOLEAN :
        LET m == IF tilted /\ mem.fallCheck = 1 THEN MotionEvent(mem, "fall") ELSE mem
        IN IF m.motionNext # None THEN MoveMotion(m.motionNext, m)
           ELSE \E o \in MotionUpdate(motion, Processed(m)) :
                  LET next == Target(MotionTable, motion,
                                     Append(m.motionEvents, o.event))
                  IN IF next = None THEN motion' = motion /\ mem' = o.mem
                     ELSE MoveMotion(next, o.mem)
  BY DEF UpdateMotion
<1> DEFINE m == IF tilted /\ mem.fallCheck = 1 THEN MotionEvent(mem, "fall") ELSE mem
<1>4. Same(mem, m) /\ IsMem(m)
  <2>1. Same(mem, MotionEvent(mem, "fall")) /\ Same(mem, mem)
    BY MemoryOps DEF IInv
  <2> QED
    BY <2>1 DEF Same
<1>5. \/ \E s : MoveMotion(s, m)
      \/ \E o \in MotionUpdate(motion, Processed(m)) :
           mem' = o.mem \/ \E s : MoveMotion(s, o.mem)
  BY <1>3
<1> HIDE DEF m
<1>6. ASSUME NEW n, IsMem(n), NEW s, MoveMotion(s, n)
      PROVE  Same(n, mem')
  <2> DEFINE x == MotionExit(motion, n)
             y == [x EXCEPT !.motionNext = None]
  <2>1. Same(n, x)
    BY <1>6, MotionMovesKeep
  <2>2. Same(n, y)
    <3> HIDE DEF x
    <3> QED BY <2>1 DEF Same, IsMem, Fields
  <2>3. mem' = MotionEntry(s, y)
    BY <1>6 DEF MoveMotion
  <2> HIDE DEF y
  <2> QED
    BY <2>2, <2>3, MotionMovesKeep, SameKeeps
<1>7. CASE \E s : MoveMotion(s, m)
  BY <1>4, <1>6, <1>7, SameKeeps
<1>8. CASE \E o \in MotionUpdate(motion, Processed(m)) :
           mem' = o.mem \/ \E s : MoveMotion(s, o.mem)
  <2>1. Same(mem, Processed(m)) /\ IsMem(Processed(m))
    BY <1>4, MemoryOps, SameKeeps
  <2>2. PICK o \in MotionUpdate(motion, Processed(m)) :
          mem' = o.mem \/ \E s : MoveMotion(s, o.mem)
    BY <1>8
  <2>3. Same(mem, o.mem) /\ IsMem(o.mem)
    BY <2>1, MotionUpdateKeeps, SameKeeps
  <2> QED
    BY <1>6, <2>2, <2>3, SameKeeps
<1> QED
  BY <1>5, <1>7, <1>8

\* Every step keeps the invariant; referee and penalties are not part of it.
LEMMA NextKeeps ==
  ASSUME IInv, [Next]_vars
  PROVE  IInv'
<1>1. CASE Announce \/ Penalise \/ UNCHANGED vars
  BY <1>1 DEF Announce, Penalise, vars, IInv, FallCheckMatchesGame, Commanded, Pending,
     Follows, HeadInv, Heading
<1> QED
  BY <1>1, UpdateGameKeeps, UpdateBodyKeeps, UpdateHeadKeeps, UpdateMotionKeeps DEF Next

\* The inductive invariant holds in every reachable state of the main loop.
THEOREM Invariance == Spec => []IInv
  BY InitIInv, NextKeeps, PTL DEF Spec

\* FallCheckMatchesGame: Motion's fall detection (mcm.motion.fall_check) is off
\* exactly while the game machine is in Set, for every configuration.
THEOREM FallCheck == Spec => []FallCheckMatchesGame
<1>1. IInv => FallCheckMatchesGame
  BY DEF IInv
<1> QED
  BY <1>1, Invariance, PTL

\* BodyFollowsGame: after the body's update in a frame the body is in a state
\* that belongs to the game state, for every configuration.
THEOREM BodyObeys == Spec => []BodyFollowsGame
<1>1. IInv => BodyFollowsGame
  BY DEF IInv, Commanded, Pending, Follows, BodyFollowsGame
<1> QED
  BY <1>1, Invariance, PTL

\* HeadAwake: once the head machine has run in a frame, the head of a robot in
\* Ready, Set or Playing looks around, for every configuration.
THEOREM HeadLooksAround == Spec => []HeadAwake
<1>1. IInv => HeadAwake
  BY DEF IInv, HeadInv, Heading, HeadAwake, None
<1> QED
  BY <1>1, Invariance, PTL

\* ReturnFromPenalty: from Set the body starts the kickoff, from Penalized it
\* walks in, for every configuration.
THEOREM Return == Spec => ReturnFromPenalty
<1> DEFINE R == game' = "gamePlaying" =>
                  /\ game = "gameSet" => mem'.bodyNext = "bodyStart"
                  /\ game = "gamePenalized" => mem'.bodyNext = "bodyUnpenalized"
<1>1. IInv /\ [Next]_vars => [R]_vars
  <2> SUFFICES ASSUME IInv, Next PROVE R
    OBVIOUS
  <2>1. CASE UpdateGame
    BY <2>1, UpdateGameKeeps
  <2>2. CASE ~UpdateGame
    BY <2>2 DEF Next, Announce, Penalise, UpdateBody, UpdateHead, UpdateMotion
  <2> QED
    BY <2>1, <2>2
<1> QED
  BY <1>1, Invariance, PTL DEF Spec, ReturnFromPenalty
=============================================================================
