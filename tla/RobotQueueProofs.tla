-------------------------- MODULE RobotQueueProofs --------------------------
(***************************************************************************)
(* What becomes of the events in Motion's queue, for every configuration:  *)
(* module Robot's NoFallReactionInSet and KickOnlyWhenAsked.  Motion keeps *)
(* its queue over a frame in which a requested state makes it skip its     *)
(* update, so an event may be looked at in a later frame than the one it   *)
(* was raised in.                                                          *)
(*                                                                         *)
(* The argument: a kick is queued by bodyKick alone, in a frame in which   *)
(* nothing requests a state of Motion, so it is looked at in that frame.   *)
(* A fall outlives its frame only if a request moved Motion to stance or   *)
(* standstill, which have no transition for it; when Motion leaves them by *)
(* an update of its own, the queue has been emptied, and in Set no fall is *)
(* added to it.                                                            *)
(***************************************************************************)
EXTENDS RobotProofs, FiniteSetTheorems

\* The events the body queues in any of its states but bodyKick.
Orders == {"sit", "standup", "walk", "diveready", "dive"}

AnyEvent == Orders \union {"kick", "fall"}
NoKick == AnyEvent \ {"kick"}
NoFall == AnyEvent \ {"fall"}

\* What a state of Motion may be requested from outside.
Requested == {"stance", "standstill"}

\* n comes from m by a handler that queues some orders and may request one
\* of these states.
Calm(m, n) ==
  /\ IsMem(n)
  /\ n.motionNext \in {m.motionNext} \union Requested
  /\ \A Q \in {AnyEvent, NoKick, NoFall} :
       m.motionEvents \in Seq(Q) => n.motionEvents \in Seq(Q)

\* n comes from m without any traffic to Motion.
Silent(m, n) ==
  /\ IsMem(n)
  /\ n.motionNext = m.motionNext
  /\ n.motionEvents = m.motionEvents

\* The walk engine has no traffic with Motion.
LEMMA EngineSilent ==
  ASSUME NEW m, NEW n, Engine(m, n)
  PROVE  Silent(m, n)
  BY DEF Engine, Silent

\* What the operations of the shared memory do to the queue.
LEMMA CalmOps ==
  ASSUME NEW m, IsMem(m)
  PROVE  /\ Silent(m, m)
         /\ Silent(m, WalkStart(m))
         /\ Silent(m, WalkStop(m))
         /\ Silent(m, WalkHalt(m))
         /\ Silent(m, MarkIdle(m))
         /\ \A k : Silent(m, SetKicking(m, k))
         /\ \A p \in 0..3 : Silent(m, SetPhase(m, p))
         /\ \A s : Silent(m, SetHead(m, s)) /\ Silent(m, SetBody(m, s))
         /\ \A s \in Requested : Calm(m, SetMotion(m, s))
         /\ \A e \in Orders : Calm(m, MotionEvent(m, e))
<1>1. \A e \in Orders : Calm(m, MotionEvent(m, e))
  <2> SUFFICES ASSUME NEW e \in Orders PROVE Calm(m, MotionEvent(m, e))
    OBVIOUS
  <2> DEFINE n == MotionEvent(m, e)
  <2>1. IsMem(n) /\ n.motionNext = m.motionNext /\ n.motionEvents = Append(m.motionEvents, e)
    BY DEF MotionEvent, IsMem, Fields
  <2> HIDE DEF n
  <2>2. ASSUME NEW Q \in {AnyEvent, NoKick, NoFall}, m.motionEvents \in Seq(Q)
        PROVE  n.motionEvents \in Seq(Q)
    <3>1. e \in Q
      BY DEF AnyEvent, NoKick, NoFall, Orders
    <3> QED
      BY <2>1, <2>2, <3>1
  <2> QED
    BY <2>1, <2>2 DEF Calm, n
<1>2. \A s \in Requested : Calm(m, SetMotion(m, s))
  BY DEF Calm, IsMem, Fields, SetMotion
<1> QED
  BY <1>1, <1>2 DEF IsMem, Fields, Silent, WalkStart, WalkStop, WalkHalt, MarkIdle,
     SetKicking, SetPhase, SetHead, SetBody

\* How the two compose.
LEMMA CalmLaws ==
  /\ \A l, m : Silent(l, m) => Calm(l, m) /\ IsMem(m)
  /\ \A l, m : Calm(l, m) => IsMem(m)
  /\ \A l, m, n : Silent(l, m) /\ Silent(m, n) => Silent(l, n)
  /\ \A l, m, n : Calm(l, m) /\ Calm(m, n) => Calm(l, n)
  BY DEF Silent, Calm

-----------------------------------------------------------------------------
\* A sequence stays one over a larger set.
LEMMA SeqMonotone ==
  ASSUME NEW Q, NEW R, NEW q \in Seq(Q)
  PROVE  q \in Seq(Q \union R)
  OBVIOUS

\* A nonempty set of positions has a first one.
LEMMA First ==
  ASSUME NEW S \in SUBSET Nat, S # {}
  PROVE  \E i \in S : \A j \in S : i <= j
<1> DEFINE R == StrictSubsetOrdering(Nat)
           T == {0..i : i \in S}
<1>1. T \subseteq FiniteSubsetsOf(Nat) /\ T # {}
  <2>1. \A i \in Nat : IsFiniteSet(0..i) /\ 0..i \subseteq Nat
    BY FS_Interval
  <2> QED
    BY <2>1 DEF FiniteSubsetsOf
<1>2. IsWellFoundedOn(R, FiniteSubsetsOf(Nat))
  BY FS_StrictSubsetOrderingWellFounded
<1>3. PICK x \in T : \A y \in T : ~ (<<y, x>> \in R)
  <2> HIDE DEF R, T
  <2> QED BY <1>1, <1>2, WFMin
<1>4. PICK i \in S : x = 0..i
  BY <1>3
<1>5. ASSUME NEW j \in S, j < i
      PROVE  FALSE
  <2>1. <<0..j, 0..i>> \in R
    <3>1. 0..j \in SUBSET Nat /\ 0..i \in SUBSET Nat /\ 0..j \subseteq 0..i
      BY <1>5
    <3>2. i \in 0..i /\ i \notin 0..j
      BY <1>5
    <3> QED
      BY <3>1, <3>2 DEF StrictSubsetOrdering
  <2> QED
    BY <1>3, <1>4, <2>1
<1> QED
  BY <1>5

\* An event that decides comes from the queue.
LEMMA TargetOf ==
  ASSUME NEW table, NEW s, NEW Q, NEW q \in Seq(Q), Target(table, s, q) # None
  PROVE  \E e \in Q : Handles(table, s, e) /\ Target(table, s, q) = table[s][e]
<1> DEFINE hits == {i \in DOMAIN q : Handles(table, s, q[i])}
           first == CHOOSE i \in hits : \A j \in hits : i <= j
<1>1. hits # {} /\ Target(table, s, q) = table[s][q[first]]
  BY DEF Target
<1>2. hits \in SUBSET Nat
  OBVIOUS
<1>3. first \in hits
  <2> HIDE DEF hits
  <2> QED BY <1>1, <1>2, First
<1>4. q[first] \in Q /\ Handles(table, s, q[first])
  <2> HIDE DEF first
  <2> QED BY <1>3
<1> HIDE DEF hits, first
<1> QED
  BY <1>1, <1>4

-----------------------------------------------------------------------------
\* Entering and leaving a body state is calm.
LEMMA BodyEntryCalm ==
  ASSUME NEW m, IsMem(m), NEW s, NEW n \in BodyEntry(s, m)
  PROVE  Calm(m, n)
<1> DEFINE m0 == SetPhase(m, 0)
<1>1. Calm(m, m0) /\ IsMem(m0)
  BY CalmOps, CalmLaws
<1>2. PICK k \in 0..3 : k = IF m0.active THEN 0 ELSE 3
  OBVIOUS
<1>3. Calm(m0, n)
  <2>1. /\ Calm(m0, m0) /\ Calm(m0, WalkStop(m0)) /\ Calm(m0, SetPhase(m0, k))
        /\ Calm(m0, MarkIdle(m0))
        /\ \A v : Calm(m0, SetHead(m0, v))
        /\ \A e \in Orders : Calm(m0, MotionEvent(m0, e))
    BY <1>1, CalmOps, CalmLaws
  <2>2. /\ Calm(SetPhase(m0, k), WalkStop(SetPhase(m0, k)))
        /\ \A e \in Orders : /\ Calm(MarkIdle(m0), MotionEvent(MarkIdle(m0), e))
                             /\ Calm(WalkStop(m0), MotionEvent(WalkStop(m0), e))
    BY <2>1, CalmOps, CalmLaws
  <2>3. /\ Calm(m0, WalkStop(SetPhase(m0, k)))
        /\ \A e \in Orders : /\ Calm(m0, MotionEvent(MarkIdle(m0), e))
                             /\ Calm(m0, MotionEvent(WalkStop(m0), e))
    BY <2>1, <2>2, CalmLaws
  <2>4. \A v : Calm(m0, SetHead(RequestWalkKick(m0), v))
    <3>1. IsMem(RequestWalkKick(m0)) /\ Calm(m0, RequestWalkKick(m0))
      BY <1>1, EngineOps, EngineSilent, CalmLaws DEF Engine
    <3> QED
      BY <3>1, CalmOps, CalmLaws
  <2> QED
    BY <1>2, <2>1, <2>3, <2>4 DEF BodyEntry, EnterIdle, EnterStop, EnterStart,
       EnterHandleKickOff, EnterReady, EnterReadyMove, EnterKick, EnterApproach,
       EnterWalkKick, EnterStill, EnterPositionGoalie, EnterAnticipate, Orders
<1> QED
  BY <1>1, <1>3, CalmLaws

\* ... and so is leaving one.
LEMMA BodyExitCalm ==
  ASSUME NEW m, IsMem(m), NEW s
  PROVE  Calm(m, BodyExit(s, m))
<1>1. /\ Calm(m, m) /\ Calm(m, WalkStart(m)) /\ Calm(m, SetHead(m, "headTrack"))
      /\ Calm(m, SetMotion(m, "stance")) /\ Calm(m, MotionEvent(m, "walk"))
  BY CalmOps, CalmLaws DEF Requested, Orders
<1> QED
  BY <1>1 DEF BodyExit

\* The outcome of bodyKick's update that asks for the kick: it stays.
Kicks(m, o) == o = Outcome(None, MotionEvent(SetPhase(m, 1), "kick"))

\* Every other outcome of an update is calm.
LEMMA BodyUpdateCalm ==
  ASSUME NEW m, IsMem(m), NEW s \in BodyStates, NEW isGoalie, NEW kicking,
         NEW o \in BodyUpdate(s, m, isGoalie, kicking)
  PROVE  Calm(m, o.mem) \/ (s = "bodyKick" /\ Kicks(m, o))
<1> DEFINE P(S) == \A x \in S : Calm(m, x.mem)
<1>1. \A E, n : Calm(m, n) => P(Returns(E, n)) /\ P(Stays(n))
  BY DEF Returns, Stays, Outcome
<1>2. /\ Calm(m, m)
      /\ Calm(m, WalkStart(m)) /\ Calm(m, WalkStop(m))
      /\ Calm(m, StartIfIdle(m))
      /\ \A v : Calm(m, SetHead(m, v))
      /\ \A v \in Orders : Calm(m, MotionEvent(m, v))
      /\ \A p \in 0..3 : Calm(m, SetPhase(m, p))
  BY CalmOps, CalmLaws DEF StartIfIdle
<1>3. CASE s = "bodyIdle"
  BY <1>1, <1>2, <1>3 DEF BodyUpdate, UpdateIdle, Orders
<1>4. CASE s = "bodyStop"
  <2>1. Calm(m, SetMotion(m, "standstill")) /\ IsMem(SetMotion(m, "standstill"))
    BY CalmOps, CalmLaws DEF Requested
  <2>2. Calm(m, SetPhase(SetMotion(m, "standstill"), 1))
    BY <2>1, CalmOps, CalmLaws
  <2> QED
    BY <1>1, <1>2, <1>4, <2>2 DEF BodyUpdate, UpdateStop
<1>5. CASE s = "bodyHandleKickOff"
  <2>1. Calm(m, MotionEvent(WalkStart(m), "walk"))
    BY <1>2, CalmOps, CalmLaws DEF Orders
  <2> QED
    BY <1>1, <1>2, <1>5, <2>1 DEF BodyUpdate, UpdateHandleKickOff
<1>6. CASE s = "bodyReadyMove"
  <2> DEFINE m1 == IF m.phase = 0 THEN StartIfIdle(m) ELSE m
  <2>1. Calm(m, m1) /\ IsMem(m1) /\ m1.phase \in 0..3
    BY <1>2, CalmLaws DEF IsMem
  <2>2. Calm(m, WalkStop(SetPhase(m1, 3))) /\ \A p \in 0..3 : Calm(m, SetPhase(m1, p))
    <3> HIDE DEF m1
    <3>1. \A p \in 0..3 : Calm(m1, SetPhase(m1, p)) /\ IsMem(SetPhase(m1, p))
      BY <2>1, CalmOps, CalmLaws
    <3>2. Calm(SetPhase(m1, 3), WalkStop(SetPhase(m1, 3)))
      BY <3>1, CalmOps, CalmLaws
    <3> QED
      BY <2>1, <3>1, <3>2, CalmLaws
  <2>3. CASE isGoalie
    BY <1>1, <1>2, <1>6, <2>3 DEF BodyUpdate, UpdateReadyMove
  <2>4. CASE ~isGoalie
    <3> DEFINE S == CASE m1.phase = 0 -> {m1, SetPhase(m1, 1), WalkStop(SetPhase(m1, 3))}
                      [] m1.phase = 1 -> {m1, SetPhase(m1, 2), WalkStop(SetPhase(m1, 3))}
                      [] m1.phase = 2 -> {m1, WalkStop(SetPhase(m1, 3))}
                      [] m1.phase = 3 -> {WalkStop(SetPhase(m1, 3))}
    <3>1. \A n \in S : Calm(m, n)
      <4> HIDE DEF m1
      <4> QED BY <2>1, <2>2
    <3>2. o \in UNION {Stays(n) : n \in S}
      BY <1>6, <2>4 DEF BodyUpdate, UpdateReadyMove
    <3> HIDE DEF S
    <3> QED
      BY <1>1, <3>1, <3>2
  <2> QED
    BY <2>3, <2>4
<1>7. CASE s = "bodyKick"
  <2> DEFINE Kicked == Stays(MotionEvent(SetPhase(m, 1), "kick"))
  <2>1. \A x \in Kicked : Kicks(m, x)
    BY DEF Stays, Returns, Kicks
  <2>2. Calm(m, SetHead(SetPhase(m, 2), "headKickFollow"))
    BY <1>2, CalmOps, CalmLaws
  <2>3. \A x \in UpdateKick(m, isGoalie, kicking) : Calm(m, x.mem) \/ x \in Kicked
    <3> HIDE DEF Kicked
    <3>1. P({})
      OBVIOUS
    <3> HIDE DEF P
    <3>2. /\ P(Returns({"done"}, m)) /\ P(Returns({"timeout"}, m)) /\ P(Stays(m))
          /\ P(Returns({"reposition"}, WalkStart(m)))
          /\ P(Stays(SetHead(SetPhase(m, 2), "headKickFollow")))
          /\ P(Returns({IF isGoalie THEN "doneGoalie" ELSE "done"}, WalkStart(m)))
      BY <1>1, <1>2, <2>2
    <3> QED
      BY <3>2 DEF UpdateKick, P, Kicked
  <2> QED
    BY <1>7, <2>1, <2>3 DEF BodyUpdate
<1>8. CASE s = "bodyWalkKick"
  <2>1. Calm(m, SetHead(SetPhase(m, 1), "headKickFollow"))
    BY <1>2, CalmOps, CalmLaws
  <2> QED
    BY <1>1, <1>2, <1>8, <2>1 DEF BodyUpdate, UpdateWalkKick
<1>9. CASE s = "bodyStill"
  BY <1>1, <1>2, <1>9 DEF BodyUpdate, UpdateStill
<1>10. CASE s = "bodyApproach"
  BY <1>1, <1>2, <1>10 DEF BodyUpdate, UpdateApproach
<1>11. CASE s = "bodyAnticipate"
  <2>1. \A v \in Orders : Calm(m, MotionEvent(WalkStop(m), v))
    BY <1>2, CalmOps, CalmLaws
  <2> QED
    BY <1>1, <1>2, <1>11, <2>1 DEF BodyUpdate, UpdateAnticipate, Orders
<1>12. CASE s \notin {"bodyIdle", "bodyStop", "bodyHandleKickOff", "bodyReadyMove",
                      "bodyKick", "bodyWalkKick", "bodyStill", "bodyApproach",
                      "bodyAnticipate"}
  <2>1. BodyUpdate(s, m, isGoalie, kicking) = Returns(Events(s, isGoalie), m)
    BY <1>12 DEF BodyUpdate
  <2> QED
    BY <1>1, <1>2, <2>1
<1> QED
  BY <1>3, <1>4, <1>5, <1>6, <1>7, <1>8, <1>9, <1>10, <1>11, <1>12

\* A move of the body is calm.
LEMMA MoveBodyCalm ==
  ASSUME NEW m, IsMem(m), NEW s, MoveBody(s, m)
  PROVE  Calm(m, mem')
<1> DEFINE x == BodyExit(body, m)
           y == [x EXCEPT !.bodyNext = None]
<1>1. Calm(m, x) /\ IsMem(x)
  BY BodyExitCalm, CalmLaws
<1>2. y = SetBody(x, None)
  BY DEF SetBody
<1>3. Calm(m, y) /\ IsMem(y)
  <2> HIDE DEF x, y
  <2> QED BY <1>1, <1>2, CalmOps, CalmLaws
<1>4. mem' \in BodyEntry(s, y)
  BY DEF MoveBody
<1> HIDE DEF y
<1> QED
  BY <1>3, <1>4, BodyEntryCalm, CalmLaws

\* The game machine has no traffic with Motion.
LEMMA UpdateGameSilent ==
  ASSUME IsMem(mem), UpdateGame
  PROVE  Silent(mem, mem')
<1>1. ASSUME NEW m, IsMem(m), NEW s, NEW g, NEW p
      PROVE  Silent(m, GameUpdate(s, m, g, p).mem)
  <2>1. GameUpdate(s, m, g, p).mem \in {WalkStop(m), [m EXCEPT !.wasPenalized = 1], m}
    BY DEF GameUpdate, Outcome
  <2>2. Silent(m, [m EXCEPT !.wasPenalized = 1])
    BY <1>1 DEF Silent, IsMem, Fields
  <2> QED
    BY <1>1, <2>1, <2>2, CalmOps
<1>2. ASSUME NEW m, IsMem(m), NEW s
      PROVE  Silent(m, GameExit(s, m))
  <2>1. /\ Silent(m, [m EXCEPT !.wasPenalized = 1])
        /\ Silent(m, [m EXCEPT !.fallCheck = 1])
    BY <1>2 DEF Silent, IsMem, Fields
  <2> QED
    BY <1>2, <2>1, CalmOps DEF GameExit
<1>3. ASSUME NEW m, IsMem(m), NEW s
      PROVE  Silent(m, GameEntry(s, m))
  <2>1. ASSUME NEW x, IsMem(x), NEW b, NEW h
        PROVE  Silent(x, Order(x, b, h))
    <3>1. Silent(x, SetHead(x, h)) /\ IsMem(SetHead(x, h))
      BY <2>1, CalmOps, CalmLaws
    <3> QED
      BY <3>1, CalmOps, CalmLaws DEF Order
  <2>2. ASSUME NEW x, IsMem(x)
        PROVE  /\ Silent(x, [x EXCEPT !.wasPenalized = 0])
               /\ Silent(x, [x EXCEPT !.fallCheck = 0, !.wasPenalized = 0])
    BY <2>2 DEF Silent, IsMem, Fields
  <2>3. Silent(m, EnterInitial(m))
    <3> DEFINE m1 == SetHead(WalkStop(m), "headIdle")
    <3>1. Silent(m, m1) /\ IsMem(m1)
      BY <1>3, CalmOps, CalmLaws
    <3>2. Silent(m1, SetBody(m1, "bodyIdle"))
      BY <3>1, CalmOps
    <3> QED
      BY <3>1, <3>2, CalmLaws DEF EnterInitial
  <2>4. \A b, h : Silent(m, Order(WalkStart(m), b, h))
    BY <1>3, <2>1, CalmOps, CalmLaws
  <2>5. Silent(m, EnterSet(m))
    <3> DEFINE x == Order(m, "bodyStop", "headScanStill")
    <3>1. Silent(m, x) /\ IsMem(x)
      BY <1>3, <2>1, CalmLaws
    <3>2. Silent(x, EnterSet(m))
      <4>1. EnterSet(m) = [x EXCEPT !.fallCheck = 0, !.wasPenalized = 0]
        BY DEF EnterSet
      <4> HIDE DEF x
      <4> QED BY <2>2, <3>1, <4>1
    <3> HIDE DEF x
    <3> QED
      BY <3>1, <3>2, CalmLaws
  <2>6. Silent(m, EnterPlaying(m))
    <3> DEFINE x == Order(m, IF m.wasPenalized > 0 THEN "bodyUnpenalized" ELSE "bodyStart",
                          "headStart")
               y == IF m.wasPenalized > 0 THEN WalkStart(x) ELSE x
    <3>1. Silent(m, x) /\ IsMem(x)
      BY <1>3, <2>1, CalmLaws
    <3>2. EnterPlaying(m) = [y EXCEPT !.wasPenalized = 0]
      BY DEF EnterPlaying
    <3> HIDE DEF x
    <3>3. Silent(m, y) /\ IsMem(y)
      BY <3>1, CalmOps, CalmLaws
    <3> HIDE DEF y
    <3> QED
      BY <2>2, <3>2, <3>3, CalmLaws
  <2> QED
    BY <1>3, <2>1, <2>3, <2>4, <2>5, <2>6 DEF GameEntry
<1> DEFINE o == GameUpdate(game, mem, gameState, penalized)
           next == Target(GameTable, game, <<o.event>>)
<1>4. \/ mem' = o.mem
      \/ mem' = GameEntry(next, GameExit(game, o.mem))
  BY DEF UpdateGame
<1>5. Silent(mem, o.mem) /\ IsMem(o.mem)
  BY <1>1, CalmLaws
<1> HIDE DEF o, next
<1>6. Silent(mem, GameExit(game, o.mem)) /\ IsMem(GameExit(game, o.mem))
  BY <1>2, <1>5, CalmLaws
<1> QED
  BY <1>3, <1>4, <1>5, <1>6, CalmLaws

\* Nor have Motion's own states with one another.
LEMMA MotionMovesSilent ==
  ASSUME NEW m, IsMem(m), NEW s
  PROVE  Silent(m, MotionEntry(s, m)) /\ Silent(m, MotionExit(s, m))
<1>1. IsMem(WalkStop(m)) /\ IsMem(WalkStart(m))
  BY CalmOps, CalmLaws
<1>2. \A k : /\ Silent(m, SetKicking(WalkStop(m), k))
            /\ Silent(m, SetKicking(WalkStart(m), k))
  BY <1>1, CalmOps, CalmLaws
<1>3. Silent(m, StanceReset(m))
  BY EngineOps, EngineSilent
<1> QED
  BY <1>2, <1>3, CalmOps DEF MotionEntry, MotionExit

\* What the updates of Motion's states return.
MotionOwn == {None, "timeout", "done", "divedone", "restand", "fail"}

\* The updates of Motion's states leave the queue alone.
LEMMA MotionUpdateSilent ==
  ASSUME NEW m, IsMem(m), NEW s, NEW o \in MotionUpdate(s, m)
  PROVE  Silent(m, o.mem) /\ o.event \in MotionOwn
<1> DEFINE P(S) == \A x \in S : Silent(m, x.mem) /\ x.event \in MotionOwn
<1>1. /\ \A n : Silent(m, n) => P(Stays(n))
      /\ \A E, n : Silent(m, n) /\ E \subseteq MotionOwn => P(Returns(E, n))
  BY DEF Returns, Stays, Outcome, MotionOwn
<1>2. P(WalksOn(m))
  <2>1. \A n \in WalkUpdate(m) : Silent(m, n)
    BY WalkUpdateEngine, EngineSilent
  <2> QED
    BY <1>1, <2>1 DEF WalksOn
<1>3. /\ Silent(m, m) /\ Silent(m, WalkStart(m)) /\ Silent(m, SetKicking(m, TRUE))
      /\ Silent(m, WalkStart(StanceReset(m)))
  BY CalmOps, EngineOps, EngineSilent
<1>4. \A S, T : P(S) /\ P(T) => P(S \union T)
  OBVIOUS
<1> HIDE DEF P
<1>5. /\ P(UpdateRelax(m)) /\ P(UpdateSit(m)) /\ P(UpdateStance(m))
      /\ P(UpdateStandstill(m)) /\ P(UpdateDivewait(m)) /\ P(UpdateDive(m))
      /\ P(UpdateFalling(m)) /\ P(UpdateStandup(m)) /\ P(UpdateKicking(m))
  BY <1>1, <1>2, <1>3, <1>4 DEF UpdateRelax, UpdateSit, UpdateStance,
     UpdateStandstill, UpdateDivewait, UpdateDive, UpdateFalling, UpdateStandup,
     UpdateKicking, MotionOwn
<1>6. P(MotionUpdate(s, m))
  BY <1>2, <1>5 DEF MotionUpdate
<1> QED
  BY <1>6 DEF P

\* Motion's table: only a kick leads to the kick, and falls are looked at in
\* walk and divewait only (a dive may end lying).
LEMMA MotionMoves ==
  ASSUME NEW s \in MotionStates, NEW Q, NEW q \in Seq(Q),
         Target(MotionTable, s, q) # None
  PROVE  LET next == Target(MotionTable, s, q)
         IN /\ next \in MotionStates
            /\ next = "kick" => "kick" \in Q
            /\ next = "falling" => s = "dive" \/ (s \in {"walk", "divewait"} /\ "fall" \in Q)
<1>1. PICK e \in Q : Handles(MotionTable, s, e) /\ Target(MotionTable, s, q) = MotionTable[s][e]
  BY TargetOf
<1>2. /\ MotionTable[s][e] \in MotionStates
      /\ MotionTable[s][e] = "kick" => e = "kick"
      /\ MotionTable[s][e] = "falling" =>
           s = "dive" \/ (s \in {"walk", "divewait"} /\ e = "fall")
  BY <1>1 DEF Handles, MotionTable, MotionStates
<1> QED
  BY <1>1, <1>2

-----------------------------------------------------------------------------
\* The inductive invariant, on top of IInv of RobotProofs.
QueueInv ==
  /\ motion \in MotionStates
  /\ mem.motionNext \in {None} \union Requested
  /\ mem.motionEvents \in Seq(AnyEvent)
  /\ pc \in {"game", "body"} =>
       mem.motionNext = None /\ mem.motionEvents \in Seq(NoKick)
  /\ mem.motionEvents \notin Seq(NoKick) =>
       body = "bodyKick" /\ mem.motionNext = None
  /\ mem.motionEvents \notin Seq(NoFall) => motion \in Requested

\* It holds when main.lua has run the entries of all machines.
LEMMA InitQueue == Init => QueueInv
<1> SUFFICES ASSUME Init PROVE QueueInv
  OBVIOUS
<1>1. PICK m \in BodyEntry("bodyIdle", Loaded) : mem = GameEntry("gameInitial", m)
  BY DEF Init
<1>2. IsMem(Loaded) /\ Loaded.motionEvents = <<>> /\ Loaded.motionNext = None
  BY DEF IsMem, Fields, Loaded
<1>3. m = MotionEvent(MarkIdle(SetPhase(Loaded, 0)), "sit")
  BY <1>1 DEF BodyEntry, EnterIdle
<1>4. Calm(Loaded, m) /\ IsMem(m)
  BY <1>1, <1>2, BodyEntryCalm, CalmLaws
<1>5. m.motionNext = None
  <2> DEFINE x == MarkIdle(SetPhase(Loaded, 0))
  <2>1. IsMem(SetPhase(Loaded, 0)) /\ SetPhase(Loaded, 0).motionNext = None
    BY <1>2, CalmOps DEF Silent
  <2>2. IsMem(x) /\ x.motionNext = None
    BY <2>1, CalmOps DEF Silent
  <2> HIDE DEF x
  <2> QED
    BY <1>3, <2>2 DEF MotionEvent, IsMem, Fields, x
<1>6. mem \in {SetHead(WalkStop(m), "headIdle"),
               SetBody(SetHead(WalkStop(m), "headIdle"), "bodyIdle")}
  BY <1>1 DEF GameEntry, EnterInitial
<1>7. Silent(m, mem)
  <2>1. Silent(m, SetHead(WalkStop(m), "headIdle")) /\ IsMem(SetHead(WalkStop(m), "headIdle"))
    BY <1>4, CalmOps, CalmLaws
  <2> HIDE DEF Init
  <2> QED
    BY <1>6, <2>1, CalmOps, CalmLaws
<1>8. \A Q : <<>> \in Seq(Q)
  OBVIOUS
<1>9. /\ mem.motionNext = None
      /\ \A Q \in {AnyEvent, NoKick, NoFall} : mem.motionEvents \in Seq(Q)
  BY <1>2, <1>4, <1>5, <1>7, <1>8 DEF Calm, Silent
<1>10. motion \in MotionStates
  BY DEF Init, MotionStates, MotionTable
<1> QED
  BY <1>9, <1>10 DEF QueueInv

\* A calm step keeps it if no kick waits, and a step without traffic always.
LEMMA CalmKeeps ==
  ASSUME QueueInv, motion' = motion, Calm(mem, mem'),
         mem.motionEvents \in Seq(NoKick), pc' \notin {"game", "body"}
  PROVE  QueueInv'
  BY DEF QueueInv, Calm

\* See CalmKeeps.
LEMMA SilentKeeps ==
  ASSUME QueueInv, motion' = motion, Silent(mem, mem'), body' = body,
         pc' \in {"game", "body"} => pc \in {"game", "body"}
  PROVE  QueueInv'
  BY DEF QueueInv, Silent

\* The body's frame.  A kick is queued by a body that stays in bodyKick, when
\* no state is requested.
LEMMA BodyQueue ==
  ASSUME IInv, QueueInv, UpdateBody
  PROVE  QueueInv'
<1>1. /\ pc = "body" /\ pc' = "head" /\ motion' = motion
      /\ mem.motionNext = None /\ mem.motionEvents \in Seq(NoKick)
      /\ IsMem(mem) /\ body \in BodyStates
  BY DEF UpdateBody, QueueInv, IInv
<1>2. CASE mem.bodyNext # None
  <2>1. MoveBody(mem.bodyNext, mem)
    BY <1>2 DEF UpdateBody
  <2>2. Calm(mem, mem')
    BY <1>1, <2>1, MoveBodyCalm
  <2> QED
    BY <1>1, <2>2, CalmKeeps
<1>3. CASE mem.bodyNext = None
  <2>1. PICK o \in BodyUpdate(body, mem, goalie, motion = "kick") :
          LET next == Target(BodyTable, body, <<o.event>>)
          IN IF next = None THEN body' = body /\ mem' = o.mem
             ELSE MoveBody(next, o.mem)
    BY <1>3 DEF UpdateBody
  <2> DEFINE next == Target(BodyTable, body, <<o.event>>)
  <2>2. Calm(mem, o.mem) \/ (body = "bodyKick" /\ Kicks(mem, o))
    BY <1>1, BodyUpdateCalm
  <2>3. CASE Calm(mem, o.mem)
    <3>1. IsMem(o.mem)
      BY <2>3, CalmLaws
    <3>2. mem' = o.mem \/ MoveBody(next, o.mem)
      BY <2>1
    <3> HIDE DEF next
    <3>3. Calm(mem, mem')
      BY <2>3, <3>1, <3>2, MoveBodyCalm, CalmLaws
    <3> QED
      BY <1>1, <3>3, CalmKeeps
  <2>4. CASE body = "bodyKick" /\ Kicks(mem, o)
    <3> DEFINE x == SetPhase(mem, 1)
    <3>1. o.event = None /\ o.mem = MotionEvent(x, "kick")
      BY <2>4 DEF Kicks, Outcome
    <3>2. next = None
      BY <2>4, <3>1, TargetOne DEF Handles, BodyTable, None
    <3>3. body' = "bodyKick" /\ mem' = MotionEvent(x, "kick")
      BY <2>1, <2>4, <3>1, <3>2
    <3>4. /\ IsMem(x) /\ x.motionNext = None /\ x.motionEvents = mem.motionEvents
      BY <1>1, CalmOps DEF Silent
    <3> HIDE DEF x
    <3>5. mem'.motionNext = None /\ mem'.motionEvents = Append(mem.motionEvents, "kick")
      BY <3>3, <3>4 DEF MotionEvent, IsMem, Fields
    <3>6. /\ mem'.motionEvents \in Seq(AnyEvent)
          /\ mem.motionEvents \in Seq(NoFall) => mem'.motionEvents \in Seq(NoFall)
      <4>1. "kick" \in AnyEvent /\ "kick" \in NoFall
        BY DEF AnyEvent, NoFall
      <4> QED
        BY <3>5, <4>1 DEF QueueInv
    <3> QED
      BY <1>1, <3>3, <3>5, <3>6 DEF QueueInv
  <2> QED
    BY <2>2, <2>3, <2>4
<1> QED
  BY <1>2, <1>3

\* Motion's frame, and what it says of a kick or a fall that begins in it.
LEMMA MotionQueue ==
  ASSUME IInv, QueueInv, UpdateMotion
  PROVE  /\ QueueInv'
         /\ motion' = "kick" /\ motion # "kick" => body = "bodyKick"
         /\ game = "gameSet" /\ motion' = "falling" => motion \in {"falling", "dive"}
<1>1. /\ pc = "motion" /\ pc' = "game" /\ body' = body
      /\ IsMem(mem) /\ motion \in MotionStates
  BY DEF UpdateMotion, IInv, QueueInv
<1>2. PICK tilted \in BOOLEAN :
        LET m == IF tilted /\ mem.fallCheck = 1 THEN MotionEvent(mem, "fall") ELSE mem
        IN IF m.motionNext # None THEN MoveMotion(m.motionNext, m)
           ELSE \E o \in MotionUpdate(motion, Processed(m)) :
                  LET next == Target(MotionTable, motion,
                                     Append(m.motionEvents, o.event))
                  IN IF next = None THEN motion' = motion /\ mem' = o.mem
                     ELSE MoveMotion(next, o.mem)
  BY DEF UpdateMotion
<1> DEFINE m == IF tilted /\ mem.fallCheck = 1 THEN MotionEvent(mem, "fall") ELSE mem
<1>3. /\ IsMem(m) /\ m.motionNext = mem.motionNext
      /\ m.motionEvents \in {mem.motionEvents, Append(mem.motionEvents, "fall")}
      /\ game = "gameSet" => m.motionEvents = mem.motionEvents
  <2>1. LET x == MotionEvent(mem, "fall")
        IN IsMem(x) /\ x.motionNext = mem.motionNext
           /\ x.motionEvents = Append(mem.motionEvents, "fall")
    BY <1>1 DEF MotionEvent, IsMem, Fields
  <2>2. game = "gameSet" => mem.fallCheck = 0
    BY DEF IInv, FallCheckMatchesGame
  <2> QED
    BY <1>1, <2>1, <2>2
<1>4. /\ m.motionEvents \in Seq(AnyEvent)
      /\ mem.motionEvents \in Seq(NoKick) => m.motionEvents \in Seq(NoKick)
  <2> HIDE DEF m
  <2>1. "fall" \in AnyEvent /\ "fall" \in NoKick
    BY DEF AnyEvent, NoKick
  <2> QED
    BY <1>3, <2>1 DEF QueueInv
<1>5. IF m.motionNext # None THEN MoveMotion(m.motionNext, m)
      ELSE \E o \in MotionUpdate(motion, Processed(m)) :
             LET next == Target(MotionTable, motion, Append(m.motionEvents, o.event))
             IN IF next = None THEN motion' = motion /\ mem' = o.mem
                ELSE MoveMotion(next, o.mem)
  BY <1>2
<1> HIDE DEF m
<1>6. ASSUME NEW s, NEW n, IsMem(n), MoveMotion(s, n)
      PROVE  /\ motion' = s /\ mem'.motionNext = None
             /\ mem'.motionEvents = n.motionEvents
  <2> DEFINE x == MotionExit(motion, n)
             y == [x EXCEPT !.motionNext = None]
  <2>1. Silent(n, x)
    BY <1>6, MotionMovesSilent
  <2>2. IsMem(y) /\ y.motionNext = None /\ y.motionEvents = n.motionEvents
    <3> HIDE DEF x
    <3> QED BY <2>1 DEF Silent, IsMem, Fields
  <2>3. motion' = s /\ mem' = MotionEntry(s, y)
    BY <1>6 DEF MoveMotion
  <2> HIDE DEF y
  <2> QED
    BY <2>2, <2>3, MotionMovesSilent DEF Silent
<1>7. CASE m.motionNext # None
  <2>1. /\ motion' = m.motionNext /\ mem'.motionNext = None
        /\ mem'.motionEvents = m.motionEvents
    BY <1>3, <1>5, <1>6, <1>7
  <2>2. m.motionNext \in Requested /\ mem.motionEvents \in Seq(NoKick)
    BY <1>3, <1>7 DEF QueueInv
  <2>3. Requested \subseteq MotionStates \ {"kick", "falling"}
    BY DEF Requested, MotionStates, MotionTable
  <2> QED
    BY <1>1, <1>4, <2>1, <2>2, <2>3 DEF QueueInv
<1>8. CASE m.motionNext = None
  <2>1. PICK o \in MotionUpdate(motion, Processed(m)) :
          LET next == Target(MotionTable, motion, Append(m.motionEvents, o.event))
          IN IF next = None THEN motion' = motion /\ mem' = o.mem
             ELSE MoveMotion(next, o.mem)
    BY <1>5, <1>8
  <2> DEFINE q == Append(m.motionEvents, o.event)
             next == Target(MotionTable, motion, q)
  <2>2. /\ IsMem(Processed(m)) /\ Processed(m).motionNext = None
        /\ Processed(m).motionEvents = <<>>
    BY <1>3, <1>8 DEF Processed, IsMem, Fields
  <2>3. Silent(Processed(m), o.mem) /\ o.event \in MotionOwn
    BY <2>2, MotionUpdateSilent
  <2>4. IF next = None THEN motion' = motion /\ mem' = o.mem ELSE MoveMotion(next, o.mem)
    BY <2>1
  <2>5. \A Q : m.motionEvents \in Seq(Q) => q \in Seq(Q \union MotionOwn)
    <3> SUFFICES ASSUME NEW Q, m.motionEvents \in Seq(Q)
                 PROVE  q \in Seq(Q \union MotionOwn)
      OBVIOUS
    <3>1. m.motionEvents \in Seq(Q \union MotionOwn)
      BY SeqMonotone
    <3> QED
      BY <2>3, <3>1
  <2> HIDE DEF q
  <2>6. next # None =>
          /\ next \in MotionStates
          /\ next = "kick" => body = "bodyKick"
          /\ game = "gameSet" /\ next = "falling" => motion = "dive"
    <3>1. ASSUME NEW Q, m.motionEvents \in Seq(Q), next # None
          PROVE  /\ next \in MotionStates
                 /\ next = "kick" => "kick" \in Q \union MotionOwn
                 /\ next = "falling" =>
                      motion = "dive" \/ (motion \in {"walk", "divewait"}
                                            /\ "fall" \in Q \union MotionOwn)
      <4> DEFINE QQ == Q \union MotionOwn
      <4>1. q \in Seq(QQ)
        BY <2>5, <3>1
      <4> HIDE DEF QQ
      <4>2. QED
        BY <1>1, <3>1, <4>1, MotionMoves DEF QQ
    <3>2. next # None => next \in MotionStates
      BY <1>4, <3>1
    <3>3. next # None /\ next = "kick" => body = "bodyKick"
      <4>1. "kick" \notin NoKick \union MotionOwn
        BY DEF NoKick, MotionOwn, None
      <4> HIDE DEF next
      <4> QED
        BY <1>4, <3>1, <4>1 DEF QueueInv
    <3>4. next # None /\ game = "gameSet" /\ next = "falling" => motion = "dive"
      <4>1. "fall" \notin NoFall \union MotionOwn
        BY DEF NoFall, MotionOwn, None
      <4>2. {"walk", "divewait"} \cap Requested = {}
        BY DEF Requested
      <4> HIDE DEF next
      <4>3. game = "gameSet" /\ motion \notin Requested => m.motionEvents \in Seq(NoFall)
        BY <1>3 DEF QueueInv
      <4> QED
        BY <1>4, <3>1, <4>1, <4>2, <4>3
    <3> QED
      BY <3>2, <3>3, <3>4
  <2> HIDE DEF next
  <2>7. /\ mem'.motionNext = None /\ mem'.motionEvents = <<>>
        /\ motion' \in {motion, next} /\ (motion' # motion => next # None /\ motion' = next)
        /\ motion' \in MotionStates
    BY <1>1, <1>6, <2>2, <2>3, <2>4, <2>6 DEF Silent
  <2>8. \A Q : <<>> \in Seq(Q)
    OBVIOUS
  <2>9. QueueInv'
    BY <1>1, <2>7, <2>8 DEF QueueInv
  <2> QED
    BY <2>6, <2>7, <2>9
<1> QED
  BY <1>7, <1>8

\* Every step keeps it.
LEMMA NextQueue ==
  ASSUME IInv, QueueInv, [Next]_vars
  PROVE  QueueInv'
<1>1. CASE Announce \/ Penalise \/ UNCHANGED vars
  BY <1>1 DEF Announce, Penalise, vars, QueueInv
<1>2. CASE UpdateGame
  <2>1. Silent(mem, mem')
    BY <1>2, UpdateGameSilent DEF IInv
  <2> QED
    BY <1>2, <2>1, SilentKeeps DEF UpdateGame
<1>3. CASE UpdateHead
  <2>1. Silent(mem, mem')
    BY <1>3, CalmOps DEF IInv, UpdateHead
  <2> QED
    BY <1>3, <2>1, SilentKeeps DEF UpdateHead
<1> QED
  BY <1>1, <1>2, <1>3, BodyQueue, MotionQueue DEF Next

\* In every reachable state of the main loop a waiting kick belongs to bodyKick
\* and a waiting fall to stance or standstill.
THEOREM QueueInvariance == Spec => [](IInv /\ QueueInv)
<1>1. IInv /\ QueueInv /\ [Next]_vars => QueueInv'
  BY NextQueue
<1> QED
  BY <1>1, InitQueue, Invariance, PTL DEF Spec

\* KickOnlyWhenAsked: a kick begins only while the body is in bodyKick and the
\* game goes on, for every configuration.
THEOREM KickAsked == Spec => KickOnlyWhenAsked
<1> DEFINE K == motion' = "kick" /\ motion # "kick" =>
                  body = "bodyKick" /\ game \in {"gamePlaying", "gameInitial"}
<1>1. IInv /\ QueueInv /\ [Next]_vars => [K]_vars
  <2> SUFFICES ASSUME IInv, QueueInv, Next PROVE K
    OBVIOUS
  <2>1. CASE UpdateMotion
    <3>1. motion' = "kick" /\ motion # "kick" => body = "bodyKick"
      BY <2>1, MotionQueue
    <3>2. pc = "motion"
      BY <2>1 DEF UpdateMotion
    <3>3. game \in GameStates /\ Follows(game, body)
      BY <3>2 DEF IInv, Commanded, Pending
    <3> QED
      BY <3>1, <3>3 DEF Follows, ReadyBodies, GameStates
  <2>2. CASE ~UpdateMotion
    BY <2>2 DEF Next, Announce, Penalise, UpdateGame, UpdateBody, UpdateHead
  <2> QED
    BY <2>1, <2>2
<1> QED
  BY <1>1, QueueInvariance, PTL DEF Spec, KickOnlyWhenAsked

\* NoFallReactionInSet: while Set lasts no fall, however old, starts the getup,
\* for every configuration.
THEOREM NoFallInSet == Spec => NoFallReactionInSet
<1> DEFINE F == game = "gameSet" /\ motion' = "falling" => motion \in {"falling", "dive"}
<1>1. IInv /\ QueueInv /\ [Next]_vars => [F]_vars
  <2> SUFFICES ASSUME IInv, QueueInv, Next PROVE F
    OBVIOUS
  <2>1. CASE UpdateMotion
    BY <2>1, MotionQueue
  <2>2. CASE ~UpdateMotion
    BY <2>2 DEF Next, Announce, Penalise, UpdateGame, UpdateBody, UpdateHead
  <2> QED
    BY <2>1, <2>2
<1> QED
  BY <1>1, QueueInvariance, PTL DEF Spec, NoFallReactionInSet

-----------------------------------------------------------------------------
(***************************************************************************)
(* TypeOK of module Robot for every configuration, with the part of it     *)
(* that is no matter of types: Motion's queue never holds more than        *)
(* MaxEvents events, although Motion does not empty it in the frames in    *)
(* which a requested state makes it skip its update.                       *)
(*                                                                         *)
(* The argument: a state of Motion is requested when the body leaves       *)
(* bodyIdle or comes to a stop in bodyStop, so a run of such frames goes   *)
(* from bodyIdle (entered again when Initial becomes Finished) over one of *)
(* the game machine's orders to the end of bodyStop.  Limit bounds the     *)
(* queue at each place of such a run; elsewhere the queue is empty when a  *)
(* frame begins.                                                           *)
(***************************************************************************)

\* The types of the walk engine's variables, ...
EngineTypes(m) ==
  /\ m.active \in BOOLEAN
  /\ m.stopRequest \in 0..2
  /\ m.walkKick \in BOOLEAN /\ m.kickDone \in BOOLEAN /\ m.isStopped \in BOOLEAN

\* ... and of the other fields of the shared memory that no invariant gives.
Ok(m) ==
  /\ IsMem(m)
  /\ m.motionEvents \in Seq(AnyEvent)
  /\ EngineTypes(m)
  /\ m.kicking \in BOOLEAN
  /\ m.fallCheck \in {0, 1} /\ m.wasPenalized \in {0, 1} /\ m.bodystate \in {0, 1}

\* n comes from m by a handler that queues at most k events, and requests
\* no state of Motion.
Grows(k, m, n) ==
  /\ Ok(n)
  /\ n.motionNext = m.motionNext
  /\ n.bodystate \in {m.bodystate, 1}
  /\ Len(n.motionEvents) <= Len(m.motionEvents) + k

\* The walk engine's operations keep the types of its variables.
LEMMA EngineOpsTypes ==
  ASSUME NEW m, IsMem(m), EngineTypes(m)
  PROVE  /\ EngineTypes(WalkStart(m)) /\ EngineTypes(RequestWalkKick(m))
         /\ EngineTypes(StanceReset(m)) /\ EngineTypes(WalkStart(StanceReset(m)))
         /\ EngineTypes(OwnStart(m))
  BY DEF IsMem, Fields, EngineTypes, WalkStart, RequestWalkKick, StanceReset, OwnStart

LEMMA WalkUpdateTypes ==
  ASSUME NEW m, IsMem(m), EngineTypes(m), NEW n \in WalkUpdate(m)
  PROVE  EngineTypes(n)
<1>1. EngineTypes([m EXCEPT !.stopRequest = 0, !.active = FALSE])
  BY DEF IsMem, Fields, EngineTypes
<1>2. \A k \in KickStep(m) : IsMem(k) /\ EngineTypes(k)
  <2> DEFINE over == [m EXCEPT !.walkKick = FALSE, !.kickDone = FALSE]
             pause == [m EXCEPT !.kickDone = TRUE, !.stopRequest = 2, !.isStopped = TRUE]
  <2>1. IsMem(over) /\ EngineTypes(over)
    BY DEF IsMem, Fields, EngineTypes
  <2>2. IsMem(pause) /\ EngineTypes(pause)
    <3>1. IsMem(pause)
      BY DEF IsMem, Fields
    <3>2. /\ pause.active = m.active /\ pause.walkKick = m.walkKick
          /\ pause.kickDone = TRUE /\ pause.isStopped = TRUE /\ pause.stopRequest = 2
      BY DEF IsMem, Fields
    <3> HIDE DEF pause
    <3>3. pause.kickDone \in BOOLEAN /\ pause.isStopped \in BOOLEAN
      BY <3>2
    <3>4. pause.stopRequest \in 0..2
      BY <3>2
    <3> QED
      BY <3>1, <3>2, <3>3, <3>4 DEF EngineTypes
  <2>3. KickStep(m) \subseteq {m, over, pause}
    <3>1. ASSUME NEW k \in KickStep(m) PROVE k \in {m, over, pause}
      BY <3>1 DEF KickStep
    <3> QED
      BY <3>1
  <2> HIDE DEF over, pause
  <2> QED
    BY <2>1, <2>2, <2>3
<1>3. \A k : IsMem(k) /\ EngineTypes(k) => EngineTypes(FinalStep(k))
  BY DEF IsMem, Fields, EngineTypes, FinalStep
<1> QED
  BY <1>1, <1>2, <1>3, EngineOpsTypes DEF WalkUpdate, StepBoundary

\* Everything else leaves them alone.
Idles(m, n) ==
  /\ n.active = m.active /\ n.stopRequest = m.stopRequest
  /\ n.walkKick = m.walkKick /\ n.kickDone = m.kickDone /\ n.isStopped = m.isStopped

LEMMA IdlesTypes ==
  ASSUME NEW m, NEW n, Idles(m, n), EngineTypes(m)
  PROVE  EngineTypes(n)
  BY DEF Idles, EngineTypes

\* The walk engine's operations keep every type.
LEMMA EngineOk ==
  ASSUME NEW m, Ok(m), NEW n, Engine(m, n), EngineTypes(n)
  PROVE  Ok(n)
  BY DEF Ok, Engine

\* ... and add nothing to the queue.
LEMMA EngineGrows ==
  ASSUME NEW m, Ok(m)
  PROVE  Grows(0, m, RequestWalkKick(m)) /\ Ok(RequestWalkKick(m))
<1>1. IsMem(m) /\ EngineTypes(m) /\ Len(m.motionEvents) \in Nat
  BY DEF Ok
<1>2. Engine(m, RequestWalkKick(m)) /\ EngineTypes(RequestWalkKick(m))
  BY <1>1, EngineOps, EngineOpsTypes
<1> QED
  BY <1>1, <1>2, EngineOk DEF Grows, Engine

\* What the operations of the shared memory add to the queue.
LEMMA GrowOps ==
  ASSUME NEW m, Ok(m)
  PROVE  /\ Grows(0, m, m)
         /\ Grows(0, m, WalkStart(m))
         /\ Grows(0, m, WalkStop(m))
         /\ Grows(0, m, WalkHalt(m))
         /\ Grows(0, m, MarkIdle(m))
         /\ \A k \in BOOLEAN : Grows(0, m, SetKicking(m, k))
         /\ \A p \in 0..3 : Grows(0, m, SetPhase(m, p))
         /\ \A s : Grows(0, m, SetHead(m, s)) /\ Grows(0, m, SetBody(m, s))
         /\ \A e \in AnyEvent : Grows(1, m, MotionEvent(m, e))
<1>0. Len(m.motionEvents) \in Nat /\ m.motionEvents \in Seq(AnyEvent)
  BY DEF Ok
<1>1. \A e \in AnyEvent : Grows(1, m, MotionEvent(m, e))
  <2> SUFFICES ASSUME NEW e \in AnyEvent PROVE Grows(1, m, MotionEvent(m, e))
    OBVIOUS
  <2> DEFINE n == MotionEvent(m, e)
  <2>1. /\ IsMem(n) /\ n.motionNext = m.motionNext
        /\ n.motionEvents = Append(m.motionEvents, e)
        /\ Idles(m, n) /\ n.kicking = m.kicking
        /\ n.fallCheck = m.fallCheck /\ n.wasPenalized = m.wasPenalized
        /\ n.bodystate = m.bodystate
    BY DEF Ok, Idles, MotionEvent, IsMem, Fields
  <2> HIDE DEF n
  <2>2. n.motionEvents \in Seq(AnyEvent) /\ Len(n.motionEvents) = Len(m.motionEvents) + 1
    BY <1>0, <2>1
  <2>3. Ok(n)
    BY <2>1, <2>2, IdlesTypes DEF Ok
  <2>4. Len(n.motionEvents) <= Len(m.motionEvents) + 1
    BY <1>0, <2>2
  <2> QED
    BY <2>1, <2>3, <2>4 DEF Grows, n
<1>2. Len(m.motionEvents) <= Len(m.motionEvents) + 0
  BY <1>0
<1>3. ASSUME NEW n, Ok(n), n.motionEvents = m.motionEvents, n.motionNext = m.motionNext,
             n.bodystate \in {m.bodystate, 1}
      PROVE  Grows(0, m, n)
  BY <1>2, <1>3 DEF Grows
<1>4. Grows(0, m, m) /\ Grows(0, m, MarkIdle(m))
  <2>1. LET n == MarkIdle(m) IN Ok(n) /\ n.motionEvents = m.motionEvents
                                /\ n.motionNext = m.motionNext /\ n.bodystate = 1
    BY IdlesTypes DEF Ok, IsMem, Fields, MarkIdle, Idles
  <2> QED
    BY <1>3, <2>1
<1>5. Grows(0, m, WalkStart(m)) /\ Grows(0, m, WalkStop(m)) /\ Grows(0, m, WalkHalt(m))
  <2> DEFINE Kept(n) == /\ Ok(n) /\ n.motionEvents = m.motionEvents
                        /\ n.motionNext = m.motionNext /\ n.bodystate = m.bodystate
  <2>1. Kept(WalkStart(m)) /\ Kept(WalkHalt(m))
    <3>1. IsMem(m) /\ EngineTypes(m)
      BY DEF Ok
    <3>2. Engine(m, WalkStart(m)) /\ EngineTypes(WalkStart(m))
      BY <3>1, EngineOps, EngineOpsTypes
    <3>3. Engine(m, WalkHalt(m)) /\ EngineTypes(WalkHalt(m))
      BY <3>1 DEF IsMem, Fields, Engine, EngineTypes, WalkHalt
    <3> QED
      BY <3>2, <3>3, EngineOk DEF Engine
  <2>2. Kept(WalkStop(m))
    <3> DEFINE x == WalkStop(m)
    <3>1. IsMem(m) /\ EngineTypes(m)
      BY DEF Ok
    <3>2. Engine(m, x) /\ x.stopRequest \in 0..2
      BY <3>1 DEF IsMem, Fields, Engine, EngineTypes, WalkStop
    <3>3. /\ x.active = m.active /\ x.walkKick = m.walkKick
          /\ x.kickDone = m.kickDone /\ x.isStopped = m.isStopped
      BY <3>1 DEF IsMem, Fields, WalkStop
    <3> HIDE DEF x
    <3>4. EngineTypes(x)
      BY <3>1, <3>2, <3>3 DEF EngineTypes
    <3> QED
      BY <3>2, <3>4, EngineOk DEF Engine, x
  <2> QED
    BY <1>3, <2>1, <2>2
<1>6. \A k \in BOOLEAN : Grows(0, m, SetKicking(m, k))
  <2>1. \A k \in BOOLEAN : LET n == SetKicking(m, k)
                           IN /\ Ok(n) /\ n.motionEvents = m.motionEvents
                              /\ n.motionNext = m.motionNext /\ n.bodystate = m.bodystate
    BY IdlesTypes DEF Ok, IsMem, Fields, SetKicking, Idles
  <2> QED
    BY <1>3, <2>1
<1>7. \A p \in 0..3 : Grows(0, m, SetPhase(m, p))
  <2>1. \A p \in 0..3 : LET n == SetPhase(m, p)
                        IN /\ Ok(n) /\ n.motionEvents = m.motionEvents
                           /\ n.motionNext = m.motionNext /\ n.bodystate = m.bodystate
    BY IdlesTypes DEF Ok, IsMem, Fields, SetPhase, Idles
  <2> QED
    BY <1>3, <2>1
<1>8. \A s : Grows(0, m, SetHead(m, s)) /\ Grows(0, m, SetBody(m, s))
  <2>1. \A s : \A n \in {SetHead(m, s), SetBody(m, s)} :
          /\ Ok(n) /\ n.motionEvents = m.motionEvents
          /\ n.motionNext = m.motionNext /\ n.bodystate = m.bodystate
    BY IdlesTypes DEF Ok, IsMem, Fields, SetHead, SetBody, Idles
  <2> QED
    BY <1>3, <2>1
<1> QED
  BY <1>1, <1>4, <1>5, <1>6, <1>7, <1>8

\* How growths add up.
LEMMA GrowLaws ==
  /\ \A k, l, m : Grows(k, l, m) => Ok(m)
  /\ \A l, m : Ok(l) /\ Grows(0, l, m) => Grows(1, l, m)
  /\ \A l, m, n : Ok(l) /\ Grows(0, l, m) /\ Grows(0, m, n) => Grows(0, l, n)
  /\ \A l, m, n : Ok(l) /\ Grows(0, l, m) /\ Grows(1, m, n) => Grows(1, l, n)
<1>1. \A m : Ok(m) => Len(m.motionEvents) \in Nat
  BY DEF Ok
<1>2. \A k, l, m : Grows(k, l, m) => Ok(m)
  BY DEF Grows
<1>3. ASSUME NEW l, NEW m, Ok(l), Grows(0, l, m)
      PROVE  Grows(1, l, m)
  BY <1>1, <1>3 DEF Grows
<1>4. ASSUME NEW l, NEW m, NEW n, NEW k \in {0, 1}, Ok(l), Grows(0, l, m), Grows(k, m, n)
      PROVE  Grows(k, l, n)
  <2>1. Len(n.motionEvents) <= Len(l.motionEvents) + k
    <3>1. /\ Len(l.motionEvents) \in Nat /\ Len(m.motionEvents) \in Nat
          /\ Len(n.motionEvents) \in Nat
      BY <1>1, <1>2, <1>4
    <3>2. /\ Len(m.motionEvents) <= Len(l.motionEvents) + 0
          /\ Len(n.motionEvents) <= Len(m.motionEvents) + k
      BY <1>4 DEF Grows
    <3> QED
      BY <3>1, <3>2
  <2> QED
    BY <1>4, <2>1 DEF Grows
<1> QED
  BY <1>2, <1>3, <1>4

-----------------------------------------------------------------------------
\* Entering a body state queues one event at most, and none in the states
\* Set and Playing order.
LEMMA BodyEntryGrows ==
  ASSUME NEW m, Ok(m), NEW s, NEW n \in BodyEntry(s, m)
  PROVE  /\ Grows(1, m, n)
         /\ s \in {"bodyStop", "bodyStart", "bodyUnpenalized"} => Grows(0, m, n)
         /\ s = "bodyIdle" => n.bodystate = 1
<1> DEFINE m0 == SetPhase(m, 0)
<1>1. Grows(0, m, m0) /\ Ok(m0)
  BY GrowOps, GrowLaws
<1> HIDE DEF m0
<1>2. PICK k \in 0..3 : k = IF m0.active THEN 0 ELSE 3
  OBVIOUS
<1>3. /\ Grows(0, m0, m0) /\ Grows(0, m0, WalkStop(m0)) /\ Grows(0, m0, SetPhase(m0, k))
      /\ Grows(0, m0, MarkIdle(m0))
      /\ \A v : Grows(0, m0, SetHead(m0, v))
      /\ \A e \in Orders : Grows(1, m0, MotionEvent(m0, e))
  BY <1>1, GrowOps DEF AnyEvent
<1>4. /\ Grows(0, SetPhase(m0, k), WalkStop(SetPhase(m0, k)))
      /\ \A e \in Orders : /\ Grows(1, MarkIdle(m0), MotionEvent(MarkIdle(m0), e))
                           /\ Grows(1, WalkStop(m0), MotionEvent(WalkStop(m0), e))
  <2>1. Ok(SetPhase(m0, k)) /\ Ok(MarkIdle(m0)) /\ Ok(WalkStop(m0))
    BY <1>3, GrowLaws
  <2> QED
    BY <2>1, GrowOps DEF AnyEvent
<1>5. /\ Grows(0, m0, WalkStop(SetPhase(m0, k)))
      /\ \A e \in Orders : /\ Grows(1, m0, MotionEvent(MarkIdle(m0), e))
                           /\ Grows(1, m0, MotionEvent(WalkStop(m0), e))
  BY <1>1, <1>3, <1>4, GrowLaws
<1>6. Grows(1, m0, n)
  <2>1. /\ Grows(1, m0, m0) /\ Grows(1, m0, WalkStop(m0))
        /\ Grows(1, m0, WalkStop(SetPhase(m0, k)))
        /\ \A v : Grows(1, m0, SetHead(m0, v))
    BY <1>1, <1>3, <1>5, GrowLaws
  <2>2. \A v : Grows(1, m0, SetHead(RequestWalkKick(m0), v))
    <3>1. Grows(0, m0, RequestWalkKick(m0)) /\ Ok(RequestWalkKick(m0))
      BY <1>1, EngineGrows
    <3> QED
      BY <1>1, <3>1, GrowOps, GrowLaws
  <2> QED
    BY <1>2, <1>3, <1>5, <2>1, <2>2 DEF m0, BodyEntry, EnterIdle, EnterStop, EnterStart,
       EnterHandleKickOff, EnterReady, EnterReadyMove, EnterKick, EnterApproach,
       EnterWalkKick, EnterStill, EnterPositionGoalie, EnterAnticipate, Orders
<1>7. s \in {"bodyStop", "bodyStart", "bodyUnpenalized"} => Grows(0, m0, n)
  BY <1>3 DEF m0, BodyEntry, EnterStop, EnterStart
<1>8. s = "bodyIdle" => n.bodystate = 1
  <2>1. s = "bodyIdle" => n = MotionEvent(MarkIdle(m0), "sit")
    BY DEF m0, BodyEntry, EnterIdle
  <2>2. MarkIdle(m0).bodystate = 1 /\ IsMem(MarkIdle(m0))
    BY <1>1 DEF MarkIdle, Ok, IsMem, Fields
  <2>3. MotionEvent(MarkIdle(m0), "sit").bodystate = 1
    BY <2>2 DEF MotionEvent, IsMem, Fields
  <2> QED
    BY <2>1, <2>3
<1> QED
  BY <1>1, <1>6, <1>7, <1>8, GrowLaws

\* Leaving a body state queues an event in bodyStop only; only bodyIdle then
\* requests a state of Motion.
LEMMA BodyExitGrows ==
  ASSUME NEW m, Ok(m), NEW s
  PROVE  LET n == BodyExit(s, m)
         IN /\ Ok(n) /\ n.bodystate = m.bodystate
            /\ s # "bodyIdle" => Grows(1, m, n)
            /\ s \notin {"bodyIdle", "bodyStop"} => Grows(0, m, n)
            /\ s = "bodyIdle" =>
                 n.motionNext = "stance" /\ n.motionEvents = m.motionEvents
<1>1. /\ Grows(0, m, m) /\ Grows(0, m, WalkStart(m)) /\ Grows(0, m, SetHead(m, "headTrack"))
      /\ Grows(1, m, MotionEvent(m, "walk"))
  BY GrowOps DEF AnyEvent, Orders
<1>2. LET x == SetMotion(m, "stance")
      IN /\ Ok(x) /\ x.bodystate = m.bodystate /\ x.motionNext = "stance"
         /\ x.motionEvents = m.motionEvents
  BY IdlesTypes DEF Ok, IsMem, Fields, SetMotion, Idles
<1>3. /\ WalkStart(m).bodystate = m.bodystate
      /\ SetHead(m, "headTrack").bodystate = m.bodystate
      /\ MotionEvent(m, "walk").bodystate = m.bodystate
  BY DEF Ok, IsMem, Fields, WalkStart, SetHead, MotionEvent
<1>4. /\ Grows(1, m, m) /\ Grows(1, m, WalkStart(m)) /\ Grows(1, m, SetHead(m, "headTrack"))
  BY <1>1, GrowLaws
<1>5. /\ Ok(WalkStart(m)) /\ Ok(SetHead(m, "headTrack")) /\ Ok(MotionEvent(m, "walk"))
  BY <1>1, GrowLaws
<1> QED
  BY <1>1, <1>2, <1>3, <1>4, <1>5 DEF BodyExit

\* An update queues one event at most, and none in the states the game machine
\* orders but bodyIdle; the end of bodyStop alone requests a state of Motion.
LEMMA BodyUpdateGrows ==
  ASSUME NEW m, Ok(m), NEW s \in BodyStates, NEW isGoalie, NEW kicking,
         NEW o \in BodyUpdate(s, m, isGoalie, kicking)
  PROVE  /\ s # "bodyStop" => Grows(1, m, o.mem)
         /\ s \in {"bodyReady", "bodyStart", "bodyUnpenalized"} => o.mem = m
         /\ s = "bodyStop" =>
              \/ o.mem = m
              \/ /\ Ok(o.mem) /\ o.mem.motionNext = "standstill" /\ o.mem.phase = 1
                 /\ o.mem.motionEvents = m.motionEvents
                 /\ o.mem.bodystate = m.bodystate /\ m.phase = 0
<1> DEFINE P(S) == \A x \in S : Grows(1, m, x.mem)
<1>1. \A E, n : Grows(1, m, n) => P(Returns(E, n)) /\ P(Stays(n))
  BY DEF Returns, Stays, Outcome
<1>a. /\ Grows(0, m, m) /\ Grows(0, m, WalkStart(m)) /\ Grows(0, m, WalkStop(m))
      /\ \A v : Grows(0, m, SetHead(m, v))
      /\ \A p \in 0..3 : Grows(0, m, SetPhase(m, p))
  BY GrowOps
<1>2. /\ Grows(1, m, m)
      /\ Grows(1, m, WalkStart(m)) /\ Grows(1, m, WalkStop(m))
      /\ Grows(1, m, StartIfIdle(m))
      /\ \A v : Grows(1, m, SetHead(m, v))
      /\ \A v \in AnyEvent : Grows(1, m, MotionEvent(m, v))
      /\ \A p \in 0..3 : Grows(1, m, SetPhase(m, p))
  BY <1>a, GrowOps, GrowLaws DEF StartIfIdle
<1>3. CASE s = "bodyIdle"
  BY <1>1, <1>2, <1>3 DEF BodyUpdate, UpdateIdle, Orders, AnyEvent
<1>4. CASE s = "bodyStop"
  <2> DEFINE x == SetMotion(m, "standstill")
             n == SetPhase(x, 1)
  <2>1. /\ Ok(x) /\ x.motionNext = "standstill" /\ x.motionEvents = m.motionEvents
        /\ x.bodystate = m.bodystate
    BY IdlesTypes DEF Ok, IsMem, Fields, SetMotion, Idles
  <2> HIDE DEF x
  <2>2. /\ Ok(n) /\ n.motionNext = "standstill" /\ n.motionEvents = m.motionEvents
        /\ n.bodystate = m.bodystate /\ n.phase = 1
    <3>1. Ok(n)
      BY <2>1, GrowOps, GrowLaws
    <3>2. IsMem(x)
      BY <2>1 DEF Ok
    <3> QED
      BY <2>1, <3>1, <3>2 DEF IsMem, Fields, SetPhase
  <2>3. o.mem = m \/ (o.mem = n /\ m.phase = 0)
    BY <1>4 DEF BodyUpdate, UpdateStop, Stays, Returns, Outcome, x
  <2> HIDE DEF n
  <2> QED
    BY <1>4, <2>2, <2>3
<1>5. CASE s = "bodyHandleKickOff"
  <2>1. Grows(1, m, MotionEvent(WalkStart(m), "walk"))
    <3>1. Ok(WalkStart(m))
      BY <1>a, GrowLaws
    <3>2. Grows(1, WalkStart(m), MotionEvent(WalkStart(m), "walk"))
      BY <3>1, GrowOps DEF AnyEvent, Orders
    <3> QED
      BY <1>a, <3>2, GrowLaws
  <2> QED
    BY <1>1, <1>2, <1>5, <2>1 DEF BodyUpdate, UpdateHandleKickOff
<1>6. CASE s = "bodyReadyMove"
  <2> DEFINE m1 == IF m.phase = 0 THEN StartIfIdle(m) ELSE m
  <2>1. Grows(0, m, m1) /\ Ok(m1) /\ m1.phase \in 0..3
    <3>1. Grows(0, m, m1)
      BY <1>a DEF StartIfIdle
    <3> HIDE DEF m1
    <3>2. Ok(m1)
      BY <3>1, GrowLaws
    <3> QED
      BY <3>1, <3>2 DEF Ok, IsMem
  <2>2. Grows(1, m, WalkStop(SetPhase(m1, 3))) /\ \A p \in 0..3 : Grows(1, m, SetPhase(m1, p))
    <3> HIDE DEF m1
    <3>1. \A p \in 0..3 : Grows(0, m1, SetPhase(m1, p)) /\ Ok(SetPhase(m1, p))
      BY <2>1, GrowOps, GrowLaws
    <3>2. Grows(0, SetPhase(m1, 3), WalkStop(SetPhase(m1, 3)))
      BY <3>1, GrowOps
    <3>3. Grows(0, m, WalkStop(SetPhase(m1, 3))) /\ \A p \in 0..3 : Grows(0, m, SetPhase(m1, p))
      BY <2>1, <3>1, <3>2, GrowLaws
    <3> QED
      BY <3>3, GrowLaws
  <2>3. CASE isGoalie
    BY <1>1, <1>2, <1>6, <2>3 DEF BodyUpdate, UpdateReadyMove
  <2>4. CASE ~isGoalie
    <3> DEFINE S == CASE m1.phase = 0 -> {m1, SetPhase(m1, 1), WalkStop(SetPhase(m1, 3))}
                      [] m1.phase = 1 -> {m1, SetPhase(m1, 2), WalkStop(SetPhase(m1, 3))}
                      [] m1.phase = 2 -> {m1, WalkStop(SetPhase(m1, 3))}
                      [] m1.phase = 3 -> {WalkStop(SetPhase(m1, 3))}
    <3>1. \A n \in S : Grows(1, m, n)
      <4>1. Grows(1, m, m1)
        BY <2>1, GrowLaws
      <4> HIDE DEF m1
      <4> QED BY <2>1, <2>2, <4>1
    <3>2. o \in UNION {Stays(n) : n \in S}
      BY <1>6, <2>4 DEF BodyUpdate, UpdateReadyMove
    <3> HIDE DEF S
    <3>3. Grows(1, m, o.mem)
      BY <1>1, <3>1, <3>2
    <3> QED
      BY <1>6, <3>3
  <2> QED
    BY <2>3, <2>4
<1>7. CASE s = "bodyKick"
  <2>1. /\ Grows(1, m, MotionEvent(SetPhase(m, 1), "kick"))
        /\ Grows(1, m, SetHead(SetPhase(m, 2), "headKickFollow"))
    <3>1. Ok(SetPhase(m, 1)) /\ Ok(SetPhase(m, 2))
      BY <1>a, GrowLaws
    <3>2. /\ Grows(1, SetPhase(m, 1), MotionEvent(SetPhase(m, 1), "kick"))
          /\ Grows(1, SetPhase(m, 2), SetHead(SetPhase(m, 2), "headKickFollow"))
      BY <3>1, GrowOps, GrowLaws DEF AnyEvent
    <3> QED
      BY <1>a, <3>2, GrowLaws
  <2> HIDE DEF P
  <2>2. P(BodyUpdate(s, m, isGoalie, kicking))
    BY <1>1, <1>2, <1>7, <2>1 DEF BodyUpdate, UpdateKick, P
  <2> QED
    BY <1>7, <2>2 DEF P
<1>8. CASE s = "bodyWalkKick"
  <2>1. Grows(1, m, SetHead(SetPhase(m, 1), "headKickFollow"))
    <3>1. Ok(SetPhase(m, 1))
      BY <1>a, GrowLaws
    <3>2. Grows(1, SetPhase(m, 1), SetHead(SetPhase(m, 1), "headKickFollow"))
      BY <3>1, GrowOps, GrowLaws
    <3> QED
      BY <1>a, <3>2, GrowLaws
  <2> QED
    BY <1>1, <1>2, <1>8, <2>1 DEF BodyUpdate, UpdateWalkKick
<1>9. CASE s = "bodyStill"
  BY <1>1, <1>2, <1>9 DEF BodyUpdate, UpdateStill
<1>10. CASE s = "bodyApproach"
  BY <1>1, <1>2, <1>10 DEF BodyUpdate, UpdateApproach
<1>11. CASE s = "bodyAnticipate"
  <2>1. \A v \in AnyEvent : Grows(1, m, MotionEvent(WalkStop(m), v))
    <3>1. Ok(WalkStop(m))
      BY <1>a, GrowLaws
    <3>2. \A v \in AnyEvent : Grows(1, WalkStop(m), MotionEvent(WalkStop(m), v))
      BY <3>1, GrowOps
    <3> QED
      BY <1>a, <3>2, GrowLaws
  <2> QED
    BY <1>1, <1>2, <1>11, <2>1 DEF BodyUpdate, UpdateAnticipate, Orders, AnyEvent
<1>12. CASE s \notin {"bodyIdle", "bodyStop", "bodyHandleKickOff", "bodyReadyMove",
                      "bodyKick", "bodyWalkKick", "bodyStill", "bodyApproach",
                      "bodyAnticipate"}
  <2>1. BodyUpdate(s, m, isGoalie, kicking) = Returns(Events(s, isGoalie), m)
    BY <1>12 DEF BodyUpdate
  <2>2. o.mem = m
    BY <2>1 DEF Returns, Outcome
  <2> QED
    BY <1>2, <1>12, <2>2
<1> QED
  BY <1>3, <1>4, <1>5, <1>6, <1>7, <1>8, <1>9, <1>10, <1>11, <1>12

-----------------------------------------------------------------------------
\* The game machine and Motion's own states keep the types; they leave the
\* queue and the body's variables alone.
Plain(m, n) ==
  /\ Ok(n)
  /\ n.motionEvents = m.motionEvents
  /\ n.phase = m.phase
  /\ n.bodystate = m.bodystate

\* What the operations of the shared memory keep.
LEMMA PlainOps ==
  ASSUME NEW m, Ok(m)
  PROVE  /\ Plain(m, m)
         /\ Plain(m, WalkStart(m)) /\ Plain(m, WalkStop(m)) /\ Plain(m, WalkHalt(m))
         /\ \A k \in BOOLEAN : Plain(m, SetKicking(m, k))
         /\ \A s : /\ Plain(m, SetHead(m, s)) /\ Plain(m, SetBody(m, s))
                   /\ Plain(m, SetMotion(m, s))
         /\ \A f \in {0, 1} : /\ Plain(m, [m EXCEPT !.wasPenalized = f])
                              /\ Plain(m, [m EXCEPT !.fallCheck = f])
<1>1. IsMem(m)
  BY DEF Ok
<1>2. /\ Ok(WalkStart(m)) /\ Ok(WalkStop(m)) /\ Ok(WalkHalt(m))
      /\ \A k \in BOOLEAN : Ok(SetKicking(m, k))
      /\ \A s : Ok(SetHead(m, s)) /\ Ok(SetBody(m, s))
  BY GrowOps, GrowLaws
<1>3. \A s : Ok(SetMotion(m, s))
  BY IdlesTypes DEF Ok, IsMem, Fields, SetMotion, Idles
<1>4. \A f \in {0, 1} : /\ Ok([m EXCEPT !.wasPenalized = f])
                        /\ Ok([m EXCEPT !.fallCheck = f])
  BY IdlesTypes DEF Ok, IsMem, Fields, Idles
<1>5. \A n \in {WalkStart(m), WalkStop(m), WalkHalt(m)} :
        /\ n.motionEvents = m.motionEvents /\ n.phase = m.phase
        /\ n.bodystate = m.bodystate
  BY <1>1 DEF IsMem, Fields, WalkStart, WalkStop, WalkHalt
<1>6. \A k : \A n \in {SetKicking(m, k), SetHead(m, k), SetBody(m, k), SetMotion(m, k),
                      [m EXCEPT !.wasPenalized = k], [m EXCEPT !.fallCheck = k]} :
        /\ n.motionEvents = m.motionEvents /\ n.phase = m.phase
        /\ n.bodystate = m.bodystate
  BY <1>1 DEF IsMem, Fields, SetKicking, SetHead, SetBody, SetMotion
<1> QED
  BY <1>2, <1>3, <1>4, <1>5, <1>6 DEF Plain

\* How they compose.
LEMMA PlainLaws ==
  /\ \A l, m : Plain(l, m) => Ok(m)
  /\ \A l, m, n : Plain(l, m) /\ Plain(m, n) => Plain(l, n)
  BY DEF Plain

\* The body states the game machine orders, in each of its states; Initial
\* orders none, because gcm says for ever that the body is idle.
Ordered(s) ==
  CASE s = "gameInitial" -> {None}
    [] s = "gameReady" -> {"bodyReady"}
    [] s = "gameSet" -> {"bodyStop"}
    [] s = "gamePlaying" -> {"bodyStart", "bodyUnpenalized"}
    [] s \in {"gamePenalized", "gameFinished"} -> {"bodyIdle"}

\* What the entry of a game state orders.
LEMMA GameEntryPlain ==
  ASSUME NEW m, Ok(m), m.bodystate = 1, m.bodyNext = None, NEW s \in GameStates
  PROVE  LET n == GameEntry(s, m)
         IN Plain(m, n) /\ n.bodyNext \in Ordered(s)
<1>1. ASSUME NEW x, Ok(x), NEW b, NEW h
      PROVE  Plain(x, Order(x, b, h)) /\ Order(x, b, h).bodyNext = b
  <2>1. Plain(x, SetHead(x, h)) /\ Ok(SetHead(x, h))
    BY <1>1, PlainOps, PlainLaws
  <2>2. SetBody(SetHead(x, h), b).bodyNext = b
    BY <2>1, MemoryOps DEF Ok
  <2> QED
    BY <2>1, <2>2, PlainOps, PlainLaws DEF Order
<1>2. ASSUME NEW x, Ok(x)
      PROVE  /\ Plain(x, [x EXCEPT !.wasPenalized = 0])
             /\ [x EXCEPT !.wasPenalized = 0].bodyNext = x.bodyNext
             /\ Plain(x, [x EXCEPT !.fallCheck = 0, !.wasPenalized = 0])
             /\ [x EXCEPT !.fallCheck = 0, !.wasPenalized = 0].bodyNext = x.bodyNext
  <2> DEFINE y == [x EXCEPT !.fallCheck = 0]
  <2>0. \A z : Ok(z) => /\ Plain(z, [z EXCEPT !.wasPenalized = 0])
                       /\ Plain(z, [z EXCEPT !.fallCheck = 0])
    <3>1. 0 \in {0, 1}
      OBVIOUS
    <3> QED
      BY <3>1, PlainOps, Zenon
  <2>1. Plain(x, y) /\ Ok(y)
    BY <1>2, <2>0, PlainLaws, Zenon
  <2>2. [x EXCEPT !.fallCheck = 0, !.wasPenalized = 0] = [y EXCEPT !.wasPenalized = 0]
    BY <1>2 DEF Ok, IsMem, Fields
  <2>3. y.bodyNext = x.bodyNext
    BY <1>2 DEF Ok, IsMem, Fields
  <2> HIDE DEF y
  <2>4. \A z : Ok(z) => [z EXCEPT !.wasPenalized = 0].bodyNext = z.bodyNext
    BY DEF Ok, IsMem, Fields
  <2> QED
    BY <1>2, <2>0, <2>1, <2>2, <2>3, <2>4, PlainLaws
<1>3. CASE s = "gameInitial"
  <2> DEFINE m1 == SetHead(WalkStop(m), "headIdle")
  <2>1. Plain(m, WalkStop(m)) /\ Ok(WalkStop(m)) /\ WalkStop(m).bodyNext = None
    BY PlainOps, PlainLaws, MemoryOps DEF Ok, Same
  <2>2. Plain(m, m1) /\ m1.bodyNext = None
    <3>1. Plain(WalkStop(m), m1)
      BY <2>1, PlainOps
    <3>2. m1.bodyNext = WalkStop(m).bodyNext
      BY <2>1, MemoryOps DEF Ok
    <3> QED
      BY <2>1, <3>1, <3>2, PlainLaws
  <2>3. m1.bodystate = 1
    BY <2>2 DEF Plain
  <2>4. GameEntry(s, m) = m1
    BY <1>3, <2>3 DEF GameEntry, EnterInitial
  <2> QED
    BY <1>3, <2>2, <2>4 DEF Ordered
<1>4. CASE s = "gameReady"
  <2>1. Plain(m, WalkStart(m)) /\ Ok(WalkStart(m))
    BY PlainOps, PlainLaws
  <2>2. GameEntry(s, m) = Order(WalkStart(m), "bodyReady", "headReady")
    BY <1>4 DEF GameEntry
  <2> QED
    BY <1>1, <1>4, <2>1, <2>2, PlainLaws DEF Ordered
<1>5. CASE s = "gameSet"
  <2> DEFINE x == Order(m, "bodyStop", "headScanStill")
  <2>1. Plain(m, x) /\ Ok(x) /\ x.bodyNext = "bodyStop"
    BY <1>1, PlainLaws
  <2>2. GameEntry(s, m) = [x EXCEPT !.fallCheck = 0, !.wasPenalized = 0]
    BY <1>5 DEF GameEntry, EnterSet
  <2> HIDE DEF x
  <2>3. Plain(m, GameEntry(s, m)) /\ GameEntry(s, m).bodyNext = "bodyStop"
    BY <1>2, <2>1, <2>2, PlainLaws
  <2> QED
    BY <1>5, <2>3 DEF Ordered
<1>6. CASE s = "gamePlaying"
  <2> DEFINE b == IF m.wasPenalized > 0 THEN "bodyUnpenalized" ELSE "bodyStart"
             x == Order(m, b, "headStart")
             y == IF m.wasPenalized > 0 THEN WalkStart(x) ELSE x
  <2>1. Plain(m, x) /\ Ok(x) /\ x.bodyNext = b
    <3> HIDE DEF b
    <3> QED BY <1>1, PlainLaws
  <2>2. GameEntry(s, m) = [y EXCEPT !.wasPenalized = 0]
    BY <1>6 DEF GameEntry, EnterPlaying
  <2>3. b \in {"bodyStart", "bodyUnpenalized"}
    OBVIOUS
  <2> HIDE DEF b, x
  <2>4. Plain(m, y) /\ Ok(y) /\ y.bodyNext = b
    <3>1. Plain(x, WalkStart(x)) /\ WalkStart(x).bodyNext = x.bodyNext
      BY <2>1, PlainOps, MemoryOps DEF Ok, Same
    <3> QED
      BY <2>1, <3>1, PlainLaws
  <2> HIDE DEF y
  <2>5. Plain(m, GameEntry(s, m)) /\ GameEntry(s, m).bodyNext = b
    BY <1>2, <2>2, <2>4, PlainLaws
  <2> QED
    BY <1>6, <2>3, <2>5 DEF Ordered
<1>7. CASE s \in {"gamePenalized", "gameFinished"}
  <2>1. GameEntry(s, m) = Order(m, "bodyIdle", "headIdle")
    BY <1>7 DEF GameEntry
  <2> QED
    BY <1>1, <1>7, <2>1 DEF Ordered
<1> QED
  BY <1>3, <1>4, <1>5, <1>6, <1>7 DEF GameStates

\* A frame of the game machine: what it orders, and that an idle body is
\* ordered to be idle only when Initial becomes Finished.
LEMMA UpdateGamePlain ==
  ASSUME IInv, Ok(mem), mem.bodystate = 1, UpdateGame
  PROVE  /\ Plain(mem, mem')
         /\ mem'.bodyNext # None => mem'.bodyNext \in Ordered(game')
         /\ mem'.bodyNext = "bodyIdle" /\ body = "bodyIdle" => game = "gameInitial"
<1> DEFINE o == GameUpdate(game, mem, gameState, penalized)
           next == Target(GameTable, game, <<o.event>>)
           left == GameExit(game, o.mem)
<1>1. /\ pc = "game" /\ body' = body
      /\ IF next = None THEN game' = game /\ mem' = o.mem
         ELSE game' = next /\ mem' = GameEntry(next, left)
  BY DEF UpdateGame
<1>2. /\ game \in GameStates /\ mem.bodyNext = None /\ Follows(game, body) /\ IsMem(mem)
  BY <1>1 DEF IInv, Commanded, Pending
<1>3. next \in GameStates \union {None}
  BY <1>2, GameMoves
<1>4. game \in {"gamePenalized", "gameFinished"} => next \notin {"gamePenalized", "gameFinished"}
  BY <1>2, TargetOne DEF Handles, GameTable, None
<1>5. Plain(mem, o.mem) /\ Ok(o.mem) /\ o.mem.bodyNext = None
  <2>1. o.mem \in {WalkStop(mem), [mem EXCEPT !.wasPenalized = 1], mem}
    BY DEF GameUpdate, Outcome
  <2> HIDE DEF o
  <2>2. Plain(mem, WalkStop(mem)) /\ Plain(mem, [mem EXCEPT !.wasPenalized = 1])
        /\ Plain(mem, mem)
    BY PlainOps
  <2> QED
    BY <2>1, <2>2, <1>2, PlainLaws, GameUpdateKeeps DEF o
<1> HIDE DEF o, next
<1>6. Plain(mem, left) /\ Ok(left) /\ left.bodyNext = None
  <2>1. left \in {WalkStart(o.mem), [o.mem EXCEPT !.fallCheck = 1],
                  [o.mem EXCEPT !.wasPenalized = 1], o.mem}
    BY DEF GameExit
  <2>2. /\ Plain(o.mem, WalkStart(o.mem)) /\ Plain(o.mem, [o.mem EXCEPT !.fallCheck = 1])
        /\ Plain(o.mem, [o.mem EXCEPT !.wasPenalized = 1])
    BY <1>5, PlainOps
  <2>3. left.bodyNext = None
    BY <1>2, <1>5, GameExitKeeps DEF Ok
  <2> HIDE DEF left
  <2> QED
    BY <1>5, <2>1, <2>2, <2>3, PlainLaws
<1> HIDE DEF left
<1>7. CASE next = None
  BY <1>1, <1>5, <1>7, <1>2 DEF None
<1>8. CASE next # None
  <2>1. left.bodystate = 1
    BY <1>6 DEF Plain
  <2>2. game' = next /\ mem' = GameEntry(next, left) /\ next \in GameStates
    BY <1>1, <1>3, <1>8
  <2>3. Plain(left, mem') /\ mem'.bodyNext \in Ordered(next)
    BY <1>6, <2>1, <2>2, GameEntryPlain
  <2>4. Plain(mem, mem')
    BY <1>6, <2>3, PlainLaws
  <2>5. mem'.bodyNext = "bodyIdle" => next \in {"gamePenalized", "gameFinished"}
    BY <2>2, <2>3 DEF Ordered, GameStates, None
  <2>6. body = "bodyIdle" => game \in {"gameInitial", "gamePenalized", "gameFinished"}
    BY <1>2 DEF Follows, ReadyBodies, GameStates
  <2> QED
    BY <1>4, <2>2, <2>3, <2>4, <2>5, <2>6
<1> QED
  BY <1>7, <1>8

\* Motion's own states keep the types.
LEMMA MotionPlain ==
  ASSUME NEW m, Ok(m), NEW s
  PROVE  /\ Plain(m, MotionEntry(s, m)) /\ Plain(m, MotionExit(s, m))
         /\ \A o \in MotionUpdate(s, m) : Plain(m, o.mem)
<1>1. /\ Plain(m, m) /\ Plain(m, WalkStart(m)) /\ Plain(m, WalkStop(m))
      /\ Plain(m, WalkHalt(m)) /\ \A k \in BOOLEAN : Plain(m, SetKicking(m, k))
  BY PlainOps
<1>2. /\ Plain(m, SetKicking(WalkStop(m), FALSE))
      /\ Plain(m, SetKicking(WalkStart(m), FALSE))
  BY <1>1, PlainOps, PlainLaws
<1>3. /\ \A n \in WalkUpdate(m) : Plain(m, n)
      /\ Plain(m, StanceReset(m)) /\ Plain(m, WalkStart(StanceReset(m)))
  <2>1. IsMem(m) /\ EngineTypes(m)
    BY DEF Ok
  <2>2. \A n : Engine(m, n) /\ EngineTypes(n) => Plain(m, n)
    BY EngineOk DEF Engine, Plain
  <2> QED
    BY <2>1, <2>2, WalkUpdateEngine, WalkUpdateTypes, EngineOps, EngineOpsTypes
<1> DEFINE P(S) == \A x \in S : Plain(m, x.mem)
<1>4. /\ \A n : Plain(m, n) => P(Stays(n))
      /\ \A E, n : Plain(m, n) => P(Returns(E, n))
      /\ \A S, T : P(S) /\ P(T) => P(S \union T)
  BY DEF Returns, Stays, Outcome
<1>5. P(WalksOn(m))
  BY <1>3, <1>4 DEF WalksOn
<1> HIDE DEF P
<1>6. P(MotionUpdate(s, m))
  <2>1. /\ P(UpdateRelax(m)) /\ P(UpdateSit(m)) /\ P(UpdateStance(m))
        /\ P(UpdateStandstill(m)) /\ P(UpdateDivewait(m)) /\ P(UpdateDive(m))
        /\ P(UpdateFalling(m)) /\ P(UpdateStandup(m)) /\ P(UpdateKicking(m))
    BY <1>1, <1>3, <1>4, <1>5 DEF UpdateRelax, UpdateSit, UpdateStance, UpdateStandstill,
       UpdateDivewait, UpdateDive, UpdateFalling, UpdateStandup, UpdateKicking
  <2> QED
    BY <1>5, <2>1 DEF MotionUpdate
<1>7. \A o \in MotionUpdate(s, m) : Plain(m, o.mem)
  BY <1>6 DEF P
<1>8. Plain(m, MotionEntry(s, m)) /\ Plain(m, MotionExit(s, m))
  BY <1>1, <1>2, <1>3 DEF MotionEntry, MotionExit
<1> QED
  BY <1>7, <1>8

-----------------------------------------------------------------------------
\* The most events Motion's queue holds when a frame begins, in body state b
\* with local variable p.
Limit(b, p) ==
  CASE b = "bodyIdle" -> 3
    [] b = "bodyStop" -> IF p = 0 THEN 3 ELSE 4
    [] b \in {"bodyStart", "bodyUnpenalized"} -> 4
    [] b = "bodyReady" -> 5
    [] OTHER -> 0

Length == Len(mem.motionEvents)

\* The inductive invariant, on top of IInv and QueueInv.
LenInv ==
  /\ Ok(mem)
  /\ mem.bodystate = 1
  /\ pc = "body" /\ mem.bodyNext # None => mem.bodyNext \in Ordered(game)
  /\ pc = "body" /\ mem.bodyNext = "bodyIdle" /\ body = "bodyIdle" => Length <= 1
  /\ pc = "game" /\ game = "gameInitial" /\ body = "bodyIdle" => Length <= 1
  /\ pc \in {"game", "body"} => Length <= Limit(body, mem.phase)
  /\ pc \in {"head", "motion"} =>
       /\ Length <= MaxEvents
       /\ mem.motionNext # None =>
            /\ Length + mem.fallCheck <= Limit(body, mem.phase)
            /\ game # "gameInitial" \/ body # "bodyIdle"

\* The length of a well-formed queue is a number.
LEMMA LengthType == \A m : Ok(m) => Len(m.motionEvents) \in Nat
  BY DEF Ok

\* The queue holds the "sit" of bodyIdle when the first frame begins.
LEMMA InitLen == Init => LenInv
<1> SUFFICES ASSUME Init PROVE LenInv
  OBVIOUS
<1>1. PICK m \in BodyEntry("bodyIdle", Loaded) : mem = GameEntry("gameInitial", m)
  BY DEF Init
<1>2. /\ Ok(Loaded) /\ Len(Loaded.motionEvents) = 0 /\ Loaded.bodyNext = None
  <2>1. /\ IsMem(Loaded) /\ Loaded.motionEvents = <<>> /\ Loaded.bodyNext = None
        /\ Loaded.fallCheck = 1 /\ Loaded.wasPenalized = 0 /\ Loaded.bodystate = 0
    BY DEF Loaded, IsMem, Fields
  <2>2. /\ Loaded.active = TRUE /\ Loaded.stopRequest = 2 /\ Loaded.walkKick = FALSE
        /\ Loaded.kickDone = FALSE /\ Loaded.isStopped = FALSE /\ Loaded.kicking = FALSE
    BY DEF Loaded
  <2>3. EngineTypes(Loaded) /\ Loaded.kicking \in BOOLEAN
    <3>1. Loaded.stopRequest \in 0..2
      BY <2>2
    <3>2. \A b \in {Loaded.active, Loaded.walkKick, Loaded.kickDone, Loaded.isStopped,
                   Loaded.kicking} : b \in BOOLEAN
      BY <2>2
    <3> QED
      BY <3>1, <3>2 DEF EngineTypes
  <2>4. <<>> \in Seq(AnyEvent) /\ Len(<<>>) = 0
    OBVIOUS
  <2> QED
    BY <2>1, <2>3, <2>4 DEF Ok
<1>3. Grows(1, Loaded, m) /\ m.bodystate = 1 /\ Ok(m)
  BY <1>1, <1>2, BodyEntryGrows, GrowLaws
<1>4. m.bodyNext = None
  BY <1>1, <1>2, BodyEntryKeeps DEF Ok, Same
<1>5. Plain(m, mem) /\ mem.bodyNext \in Ordered("gameInitial")
  BY <1>1, <1>3, <1>4, GameEntryPlain DEF GameStates
<1>6. Length <= 1 /\ Length \in Nat
  BY <1>2, <1>3, <1>5, LengthType DEF Length, Plain, Grows
<1>7. pc = "game" /\ body = "bodyIdle"
  BY DEF Init
<1> QED
  BY <1>3, <1>5, <1>6, <1>7 DEF LenInv, Plain, Limit

\* The game machine's frame: the only order an idle body gets to be idle again
\* comes in Initial, when the queue is as short as it was at the start.
LEMMA GameLen ==
  ASSUME IInv, LenInv, UpdateGame
  PROVE  LenInv'
<1>1. /\ Plain(mem, mem')
      /\ mem'.bodyNext # None => mem'.bodyNext \in Ordered(game')
      /\ mem'.bodyNext = "bodyIdle" /\ body = "bodyIdle" => game = "gameInitial"
  BY UpdateGamePlain DEF LenInv
<1>2. pc = "game" /\ pc' = "body" /\ body' = body
  BY DEF UpdateGame
<1>3. /\ mem'.motionEvents = mem.motionEvents /\ mem'.phase = mem.phase
      /\ Ok(mem') /\ mem'.bodystate = 1
  BY <1>1 DEF Plain, LenInv
<1>4. Length' = Length
  BY <1>3 DEF Length
<1> QED
  BY <1>1, <1>2, <1>3, <1>4 DEF LenInv

\* The lengths a frame of the body machine works with.
LEMMA LimitValues ==
  \A b, p : /\ Limit(b, p) \in 0..5
            /\ b \in {"bodyStart", "bodyUnpenalized", "bodyIdle", "bodyStop"} =>
                 Limit(b, p) <= 4
            /\ b \notin {"bodyStart", "bodyUnpenalized", "bodyIdle", "bodyStop", "bodyReady"} =>
                 Limit(b, p) = 0
  BY DEF Limit

\* A body that leaves state s.
LEMMA MoveBodyGrows ==
  ASSUME NEW m, Ok(m), NEW s, MoveBody(s, m)
  PROVE  /\ Ok(mem') /\ body' = s /\ mem'.bodystate \in {m.bodystate, 1}
         /\ Length' <= Len(m.motionEvents) + 2
         /\ body # "bodyStop" => Length' <= Len(m.motionEvents) + 1
         /\ body # "bodyStop" /\ s \in {"bodyStop", "bodyStart", "bodyUnpenalized"}
              => Length' <= Len(m.motionEvents)
         /\ body # "bodyIdle" => mem'.motionNext = m.motionNext
<1> DEFINE x == BodyExit(body, m)
           y == SetBody(x, None)
<1>1. /\ Ok(x) /\ x.bodystate = m.bodystate
      /\ body # "bodyIdle" => Grows(1, m, x)
      /\ body \notin {"bodyIdle", "bodyStop"} => Grows(0, m, x)
      /\ body = "bodyIdle" => x.motionEvents = m.motionEvents
  BY BodyExitGrows
<1>2. mem' \in BodyEntry(s, y) /\ body' = s
  BY DEF MoveBody, SetBody
<1> HIDE DEF x
<1>3. Grows(0, x, y) /\ Ok(y) /\ y.bodystate = x.bodystate
  BY <1>1, GrowOps, GrowLaws, PlainOps DEF Plain
<1> HIDE DEF y
<1>4. /\ Grows(1, y, mem')
      /\ s \in {"bodyStop", "bodyStart", "bodyUnpenalized"} => Grows(0, y, mem')
  BY <1>2, <1>3, BodyEntryGrows
<1>5. Ok(mem')
  BY <1>4, GrowLaws
<1> DEFINE lm == Len(m.motionEvents)
           lx == Len(x.motionEvents)
           ly == Len(y.motionEvents)
<1>6. lm \in Nat /\ lx \in Nat /\ ly \in Nat /\ Length' \in Nat
  BY <1>1, <1>3, <1>5, LengthType DEF Length
<1>7. /\ lx <= lm + 1
      /\ body # "bodyStop" => lx <= lm
      /\ ly <= lx
      /\ Length' <= ly + 1
      /\ s \in {"bodyStop", "bodyStart", "bodyUnpenalized"} => Length' <= ly
  BY <1>1, <1>3, <1>4, <1>6 DEF Grows, Length
<1>8. mem'.bodystate \in {m.bodystate, 1}
  BY <1>1, <1>3, <1>4 DEF Grows
<1>9. body # "bodyIdle" => mem'.motionNext = m.motionNext
  BY <1>1, <1>3, <1>4 DEF Grows
<1> HIDE DEF lm, lx, ly
<1>10. /\ Length' <= lm + 2
       /\ body # "bodyStop" => Length' <= lm + 1
       /\ body # "bodyStop" /\ s \in {"bodyStop", "bodyStart", "bodyUnpenalized"}
            => Length' <= lm
  BY <1>6, <1>7
<1> QED
  BY <1>2, <1>5, <1>8, <1>9, <1>10 DEF lm

\* The body's frame under an order.
LEMMA OrderLen ==
  ASSUME IInv, QueueInv, LenInv, UpdateBody, mem.bodyNext # None
  PROVE  LenInv'
<1> DEFINE s == mem.bodyNext
<1>1. /\ pc = "body" /\ pc' = "head" /\ game' = game /\ MoveBody(s, mem)
      /\ Ok(mem) /\ mem.bodystate = 1 /\ mem.motionNext = None
  BY DEF UpdateBody, LenInv, QueueInv
<1>2. /\ s \in Ordered(game) /\ Length <= Limit(body, mem.phase)
      /\ s = "bodyIdle" /\ body = "bodyIdle" => Length <= 1
  BY <1>1 DEF LenInv
<1>3. /\ Length \in Nat /\ Ok(mem') /\ body' = s /\ mem'.bodystate = 1
      /\ Length' <= Length + 2
      /\ body # "bodyStop" => Length' <= Length + 1
      /\ body # "bodyStop" /\ s \in {"bodyStop", "bodyStart", "bodyUnpenalized"}
           => Length' <= Length
      /\ body # "bodyIdle" => mem'.motionNext = None
  BY <1>1, MoveBodyGrows, LengthType DEF Length
<1>4. Length' \in Nat
  BY <1>3, LengthType DEF Length
<1>5. Length' <= MaxEvents
  <2>1. Length <= 5 /\ (body = "bodyStop" => Length <= 4)
    <3>1. /\ Limit(body, mem.phase) \in 0..5
          /\ body = "bodyStop" => Limit(body, mem.phase) <= 4
      BY LimitValues
    <3> QED
      BY <1>2, <1>3, <3>1
  <2> QED
    BY <1>3, <1>4, <2>1 DEF MaxEvents
<1>6. game \in GameStates
  BY DEF IInv
<1>7. /\ game = "gameInitial" => FALSE
      /\ s = "bodyStop" => game = "gameSet"
      /\ s \in {"bodyIdle", "bodyReady", "bodyStop", "bodyStart", "bodyUnpenalized"}
  BY <1>2, <1>6 DEF Ordered, GameStates, None
<1>8. mem'.fallCheck = mem.fallCheck /\ mem'.fallCheck \in {0, 1}
      /\ (game = "gameSet" => mem'.fallCheck = 0)
  <2>1. mem'.fallCheck = mem.fallCheck
    BY <1>1, MoveBodyKeeps DEF Ok
  <2> QED
    BY <1>1, <2>1 DEF Ok, IInv, FallCheckMatchesGame
<1>9. mem'.motionNext # None => Length' + mem'.fallCheck <= Limit(s, mem'.phase)
  <2> SUFFICES ASSUME body = "bodyIdle"
               PROVE  Length' + mem'.fallCheck <= Limit(s, mem'.phase)
    BY <1>3
  <2>1. Length <= 3
    BY <1>2 DEF Limit
  <2>2. CASE s = "bodyIdle"
    BY <1>2, <1>3, <1>4, <1>8, <2>2 DEF Limit
  <2>3. CASE s = "bodyStop"
    BY <1>3, <1>4, <1>7, <1>8, <2>1, <2>3 DEF Limit
  <2>4. CASE s \in {"bodyStart", "bodyUnpenalized"}
    BY <1>3, <1>4, <1>8, <2>1, <2>4 DEF Limit
  <2>5. CASE s = "bodyReady"
    BY <1>3, <1>4, <1>8, <2>1, <2>5 DEF Limit
  <2> QED
    BY <1>7, <2>2, <2>3, <2>4, <2>5
<1> HIDE DEF s
<1> QED
  BY <1>1, <1>3, <1>5, <1>7, <1>9 DEF LenInv

\* The body's frame without an order.
LEMMA OwnLen ==
  ASSUME IInv, QueueInv, LenInv, UpdateBody, mem.bodyNext = None
  PROVE  LenInv'
<1>1. /\ pc = "body" /\ pc' = "head" /\ game' = game /\ body \in BodyStates
      /\ Ok(mem) /\ mem.bodystate = 1 /\ mem.motionNext = None
      /\ Length <= Limit(body, mem.phase) /\ Length \in Nat
  BY LengthType DEF UpdateBody, LenInv, QueueInv, IInv, Length
<1>2. PICK o \in BodyUpdate(body, mem, goalie, motion = "kick") :
        LET next == Target(BodyTable, body, <<o.event>>)
        IN IF next = None THEN body' = body /\ mem' = o.mem
           ELSE MoveBody(next, o.mem)
  BY DEF UpdateBody
<1> DEFINE next == Target(BodyTable, body, <<o.event>>)
<1>3. /\ body # "bodyStop" => Grows(1, mem, o.mem)
      /\ body \in {"bodyReady", "bodyStart", "bodyUnpenalized"} => o.mem = mem
      /\ body = "bodyStop" =>
           \/ o.mem = mem
           \/ /\ Ok(o.mem) /\ o.mem.motionNext = "standstill" /\ o.mem.phase = 1
              /\ o.mem.motionEvents = mem.motionEvents
              /\ o.mem.bodystate = mem.bodystate /\ mem.phase = 0
  BY <1>1, BodyUpdateGrows
<1>4. body \in Resting => next = None
  BY <1>1, BodyMoves
<1>5. IF next = None THEN body' = body /\ mem' = o.mem ELSE MoveBody(next, o.mem)
  BY <1>2
<1> HIDE DEF next
<1>6. CASE body = "bodyStop"
  <2>1. body' = body /\ mem' = o.mem
    BY <1>4, <1>5, <1>6 DEF Resting
  <2>2. CASE o.mem = mem
    <3>1. Length' = Length /\ Length <= 4
      BY <1>1, <1>6, <2>1, <2>2, LimitValues DEF Length
    <3>2. Length' <= MaxEvents
      BY <1>1, <3>1 DEF MaxEvents
    <3> QED
      BY <1>1, <2>1, <2>2, <3>2 DEF LenInv
  <2>3. CASE o.mem # mem
    <3>1. /\ Ok(mem') /\ mem'.phase = 1 /\ mem'.motionEvents = mem.motionEvents
          /\ mem'.bodystate = 1 /\ mem.phase = 0
      BY <1>1, <1>3, <1>6, <2>1, <2>3
    <3>2. Length' = Length /\ Length <= 3
      BY <1>1, <1>6, <3>1 DEF Limit, Length
    <3>3. Limit(body', mem'.phase) = 4
      BY <1>6, <2>1, <3>1 DEF Limit
    <3>4. mem'.fallCheck \in {0, 1}
      BY <3>1 DEF Ok
    <3>5. Length' <= MaxEvents /\ Length' + mem'.fallCheck <= Limit(body', mem'.phase)
      BY <1>1, <3>2, <3>3, <3>4 DEF MaxEvents
    <3> QED
      BY <1>1, <1>6, <2>1, <3>1, <3>5 DEF LenInv
  <2> QED
    BY <2>2, <2>3
<1>7. CASE body # "bodyStop"
  <2>1. /\ Ok(o.mem) /\ o.mem.bodystate = 1 /\ o.mem.motionNext = None
        /\ Len(o.mem.motionEvents) <= Length + 1
    BY <1>1, <1>3, <1>7, GrowLaws DEF Grows, Length
  <2>2. Len(o.mem.motionEvents) \in Nat
    BY <2>1, LengthType
  <2>3. CASE next = None
    <3>1. mem' = o.mem
      BY <1>5, <2>3
    <3>2. Length' <= MaxEvents
      <4>1. Limit(body, mem.phase) \in 0..5
        BY LimitValues
      <4> QED
        BY <1>1, <2>1, <2>2, <3>1, <4>1 DEF MaxEvents, Length
    <3> QED
      BY <1>1, <2>1, <3>1, <3>2 DEF LenInv
  <2>4. CASE next # None
    <3>1. MoveBody(next, o.mem)
      BY <1>5, <2>4
    <3>2. body \notin Resting
      BY <1>4, <2>4
    <3>3. /\ Ok(mem') /\ mem'.bodystate = 1 /\ mem'.motionNext = None
          /\ Length' <= Len(o.mem.motionEvents) + 1
      BY <1>7, <2>1, <3>1, <3>2, MoveBodyGrows DEF Resting
    <3>4. Length' \in Nat
      BY <3>3, LengthType DEF Length
    <3>5. Length' <= MaxEvents
      <4>1. CASE body \in {"bodyReady", "bodyStart", "bodyUnpenalized"}
        <5>1. Len(o.mem.motionEvents) = Length
          BY <1>3, <4>1 DEF Length
        <5>2. Limit(body, mem.phase) \in 0..5
          BY LimitValues
        <5> QED
          BY <1>1, <3>3, <3>4, <5>1, <5>2 DEF MaxEvents
      <4>2. CASE body \notin {"bodyReady", "bodyStart", "bodyUnpenalized"}
        <5>1. Limit(body, mem.phase) = 0
          BY <1>7, <3>2, <4>2, LimitValues DEF Resting
        <5> QED
          BY <1>1, <2>1, <2>2, <3>3, <3>4, <5>1 DEF MaxEvents
      <4> QED
        BY <4>1, <4>2
    <3> QED
      BY <1>1, <3>3, <3>5 DEF LenInv
  <2> QED
    BY <2>3, <2>4
<1> QED
  BY <1>6, <1>7

\* The head's frame.
LEMMA HeadLen ==
  ASSUME LenInv, UpdateHead
  PROVE  LenInv'
<1>1. /\ pc = "head" /\ pc' = "motion" /\ game' = game /\ body' = body
      /\ mem' = SetHead(mem, None) /\ Ok(mem)
  BY DEF UpdateHead, LenInv
<1>2. Plain(mem, mem') /\ mem'.motionNext = mem.motionNext /\ mem'.fallCheck = mem.fallCheck
  BY <1>1, PlainOps DEF Ok, IsMem, Fields, SetHead
<1>3. Length' = Length
  BY <1>2 DEF Length, Plain
<1> QED
  BY <1>1, <1>2, <1>3 DEF LenInv, Plain

\* Motion's frame empties the queue, unless a request makes it skip its update.
LEMMA MotionLen ==
  ASSUME IInv, QueueInv, LenInv, UpdateMotion
  PROVE  LenInv'
<1>1. /\ pc = "motion" /\ pc' = "game" /\ game' = game /\ body' = body /\ Ok(mem)
      /\ mem.bodystate = 1
      /\ mem.motionNext # None =>
           /\ Length + mem.fallCheck <= Limit(body, mem.phase)
           /\ game # "gameInitial" \/ body # "bodyIdle"
  BY DEF UpdateMotion, LenInv
<1>2. PICK tilted \in BOOLEAN :
        LET m == IF tilted /\ mem.fallCheck = 1 THEN MotionEvent(mem, "fall") ELSE mem
        IN IF m.motionNext # None THEN MoveMotion(m.motionNext, m)
           ELSE \E o \in MotionUpdate(motion, Processed(m)) :
                  LET next == Target(MotionTable, motion,
                                     Append(m.motionEvents, o.event))
                  IN IF next = None THEN motion' = motion /\ mem' = o.mem
                     ELSE MoveMotion(next, o.mem)
  BY DEF UpdateMotion
<1> DEFINE m == IF tilted /\ mem.fallCheck = 1 THEN MotionEvent(mem, "fall") ELSE mem
<1>3. /\ Ok(m) /\ m.motionNext = mem.motionNext /\ m.phase = mem.phase
      /\ m.bodystate = 1
      /\ Len(m.motionEvents) <= Length + mem.fallCheck
  <2>1. LET x == MotionEvent(mem, "fall")
        IN Grows(1, mem, x) /\ Ok(x) /\ x.phase = mem.phase /\ x.bodystate = mem.bodystate
    <3>1. Grows(1, mem, MotionEvent(mem, "fall"))
      BY <1>1, GrowOps DEF AnyEvent
    <3>2. Ok(MotionEvent(mem, "fall"))
      BY <3>1, GrowLaws
    <3>3. /\ MotionEvent(mem, "fall").phase = mem.phase
          /\ MotionEvent(mem, "fall").bodystate = mem.bodystate
      BY <1>1 DEF Ok, IsMem, Fields, MotionEvent
    <3> QED
      BY <3>1, <3>2, <3>3
  <2>2. CASE tilted /\ mem.fallCheck = 1
    BY <1>1, <2>1, <2>2 DEF Grows, Length
  <2>3. CASE ~(tilted /\ mem.fallCheck = 1)
    <3>1. Length <= Length + mem.fallCheck
      BY <1>1, LengthType DEF Length, Ok
    <3> QED
      BY <1>1, <2>3, <3>1 DEF Length
  <2> QED
    BY <2>2, <2>3
<1>4. IF m.motionNext # None THEN MoveMotion(m.motionNext, m)
      ELSE \E o \in MotionUpdate(motion, Processed(m)) :
             mem' = o.mem \/ \E s : MoveMotion(s, o.mem)
  BY <1>2
<1> HIDE DEF m
<1>5. ASSUME NEW s, NEW n, Ok(n), MoveMotion(s, n)
      PROVE  Plain(n, mem')
  <2> DEFINE x == MotionExit(motion, n)
             y == SetMotion(x, None)
  <2>1. Plain(n, x) /\ Ok(x)
    BY <1>5, MotionPlain, PlainLaws
  <2>2. Plain(x, y) /\ Ok(y)
    <3> HIDE DEF x
    <3> QED BY <2>1, PlainOps, PlainLaws
  <2>3. mem' = MotionEntry(s, y)
    BY <1>5 DEF MoveMotion, SetMotion
  <2> HIDE DEF x, y
  <2> QED
    BY <2>1, <2>2, <2>3, MotionPlain, PlainLaws
<1>6. CASE m.motionNext # None
  <2>1. Plain(m, mem')
    BY <1>3, <1>4, <1>5, <1>6
  <2>2. Length' = Len(m.motionEvents) /\ mem'.phase = mem.phase
    BY <1>3, <2>1 DEF Plain, Length
  <2>3. Length' <= Limit(body, mem.phase)
    <3>1. /\ Length' \in Nat /\ Length \in Nat /\ mem.fallCheck \in {0, 1}
          /\ Limit(body, mem.phase) \in 0..5
      BY <1>1, <1>3, <2>2, LengthType, LimitValues DEF Ok, Length
    <3> QED
      BY <1>1, <1>3, <1>6, <2>2, <3>1
  <2> QED
    BY <1>1, <1>3, <1>6, <2>1, <2>2, <2>3 DEF LenInv, Plain
<1>7. CASE m.motionNext = None
  <2> DEFINE e == Processed(m)
  <2>1. Ok(e) /\ Len(e.motionEvents) = 0 /\ e.phase = mem.phase /\ e.bodystate = 1
    <3>1. <<>> \in Seq(AnyEvent) /\ Len(<<>>) = 0
      OBVIOUS
    <3>2. /\ IsMem(e) /\ e.motionEvents = <<>> /\ e.phase = m.phase
          /\ e.bodystate = m.bodystate /\ Idles(m, e)
          /\ e.kicking = m.kicking /\ e.fallCheck = m.fallCheck
          /\ e.wasPenalized = m.wasPenalized
      BY <1>3 DEF Processed, Ok, Idles, IsMem, Fields
    <3> HIDE DEF e
    <3> QED
      BY <1>3, <3>1, <3>2, IdlesTypes DEF Ok
  <2> HIDE DEF e
  <2>2. PICK o \in MotionUpdate(motion, e) : mem' = o.mem \/ \E s : MoveMotion(s, o.mem)
    BY <1>4, <1>7 DEF e
  <2>3. Plain(e, o.mem) /\ Ok(o.mem)
    BY <2>1, MotionPlain, PlainLaws
  <2>4. Plain(e, mem')
    BY <1>5, <2>2, <2>3, PlainLaws
  <2>5. Length' = 0
    BY <2>1, <2>4 DEF Plain, Length
  <2>6. Length' <= 1 /\ Length' <= Limit(body', mem'.phase)
    <3>1. Limit(body', mem'.phase) \in 0..5
      BY LimitValues
    <3> QED
      BY <2>5, <3>1
  <2> QED
    BY <1>1, <2>1, <2>4, <2>6 DEF LenInv, Plain
<1> QED
  BY <1>6, <1>7

\* Every step keeps it.
LEMMA NextLen ==
  ASSUME IInv, QueueInv, LenInv, [Next]_vars
  PROVE  LenInv'
<1>1. CASE Announce \/ Penalise \/ UNCHANGED vars
  BY <1>1 DEF Announce, Penalise, vars, LenInv, Length
<1> QED
  BY <1>1, GameLen, OrderLen, OwnLen, HeadLen, MotionLen DEF Next

\* What the machines have no influence on.
Referee == gameState \in Announced /\ penalized \in BOOLEAN /\ goalie \in BOOLEAN

\* They keep their types.
LEMMA RefereeKept ==
  /\ Init => Referee
  /\ Referee /\ [Next]_vars => Referee'
<1>1. Init => Referee
  <2>1. -1 \in Announced
    BY DEF Announced
  <2>2. FALSE \in BOOLEAN
    OBVIOUS
  <2> QED
    BY <2>1, <2>2, Zenon DEF Init, Referee
<1>2. ASSUME Referee, Announce PROVE Referee'
  BY <1>2 DEF Referee, Announce, Announced
<1>3. ASSUME Referee, Penalise PROVE Referee'
  BY <1>3 DEF Referee, Penalise
<1>4. ASSUME Referee, UNCHANGED <<gameState, penalized, goalie>> PROVE Referee'
  BY <1>4 DEF Referee
<1> QED
  BY <1>1, <1>2, <1>3, <1>4 DEF Next, vars, UpdateGame, UpdateBody, UpdateHead, UpdateMotion

\* TypeOK: types, and at most MaxEvents events in Motion's queue, for every
\* configuration.
THEOREM TypeCorrect == Spec => []TypeOK
<1>1. Spec => [](IInv /\ QueueInv /\ LenInv)
  <2>1. (IInv /\ QueueInv) /\ LenInv /\ [Next]_vars => LenInv'
    BY NextLen
  <2> QED
    BY <2>1, InitLen, QueueInvariance, PTL DEF Spec
<1>2. Spec => []Referee
  BY RefereeKept, PTL DEF Spec
<1>3. IInv /\ QueueInv /\ LenInv /\ Referee => TypeOK
  <2> SUFFICES ASSUME IInv, QueueInv, LenInv, Referee PROVE TypeOK
    OBVIOUS
  <2>1. Length <= MaxEvents
    <3>1. Limit(body, mem.phase) \in 0..5 /\ Length \in Nat
      BY LimitValues, LengthType DEF LenInv, Length
    <3>2. Length <= Limit(body, mem.phase) \/ Length <= MaxEvents
      BY DEF LenInv, IInv
    <3> QED
      BY <3>1, <3>2 DEF MaxEvents
  <2>2. /\ mem.bodyNext \in BodyStates \union {None}
        /\ mem.headNext \in HeadStates \union {None} /\ head \in HeadStates
    BY DEF IInv, Commanded, Pending, HeadInv
  <2>3. mem.motionNext \in MotionStates \union {None} /\ motion \in MotionStates
    BY DEF QueueInv, Requested, MotionStates, MotionTable
  <2>4. AnyEvent = {"sit", "standup", "walk", "kick", "diveready", "dive", "fall"}
    BY DEF AnyEvent, Orders
  <2>5. mem.phase \in 0..3
    BY DEF IInv, IsMem
  <2> QED
    BY <2>1, <2>2, <2>3, <2>4, <2>5 DEF TypeOK, IInv, LenInv, Ok,
       EngineTypes, Referee, Length
<1> QED
  BY <1>1, <1>2, <1>3, PTL
=============================================================================
