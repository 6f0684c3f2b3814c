------------------------------ MODULE BodyFSM ------------------------------
(***************************************************************************)
(* The body machine: Player/BodyFSM/BodyFSM.lua and the states a robot of  *)
(* the team can reach.  bodyCoach, bodyGotoCenter and bodyDribble have no  *)
(* way in and are left out.                                                *)
(*                                                                         *)
(* Ball, poses and clocks are abstracted: an update may return any of the  *)
(* events its code can return.  What is kept is every effect on the other  *)
(* machines and on the walk engine, and the order of the effects.          *)
(*                                                                         *)
(* m.phase is the local variable of the running state: `phase` of          *)
(* bodyReadyMove and bodyKick (3: not kickable), `started` of bodyStop,    *)
(* `follow` of bodyWalkKick.                                               *)
(***************************************************************************)
EXTENDS Fsm

CONSTANT GoalieType   \* Config.fsm.goalie_type: 2 on the NaoV4, 3 in Webots

ASSUME GoalieTypeAssumption == GoalieType \in 1..3

BodyTable ==
  [bodyIdle          |-> <<>>,
   bodyStop          |-> <<>>,
   bodyStart         |-> [goalie |-> "bodyAnticipate",
                          player |-> "bodyHandleKickOff"],
   bodyHandleKickOff |-> [ballFree |-> "bodyPosition", ourTurn |-> "bodyPosition"],
   bodyPosition      |-> [timeout |-> "bodyPosition", ballLost |-> "bodySearch",
                          ballClose |-> "bodyOrbit", done |-> "bodyApproach",
                          trackTeamBall |-> "bodyStill",
                          goalie |-> "bodyPositionGoalie"],
   bodyUnpenalized   |-> [done |-> "bodyPosition"],
   bodySearch        |-> [ball |-> "bodyPosition", timeout |-> "bodySearchTeam",
                          ballgoalie |-> "bodyChase",
                          timeoutgoalie |-> "bodyPositionGoalie"],
   bodySearchTeam    |-> [ball |-> "bodyPosition", done |-> "bodySearch",
                          timeout |-> "bodyPosition"],
   bodyOrbit         |-> [timeout |-> "bodyPosition", ballLost |-> "bodySearch",
                          ballFar |-> "bodyPosition", freeKick |-> "bodyPosition",
                          done |-> "bodyApproach"],
   bodyApproach      |-> [ballFar |-> "bodyPosition", freeKick |-> "bodyPosition",
                          ballOrbit |-> "bodyOrbit", timeout |-> "bodyPosition",
                          ballLost |-> "bodySearch", kick |-> "bodyKick",
                          walkkick |-> "bodyWalkKick"],
   bodyKick          |-> [done |-> "bodyPosition", doneGoalie |-> "bodyAnticipate",
                          timeout |-> "bodyPosition", reposition |-> "bodyApproach"],
   bodyWalkKick      |-> [done |-> "bodyPosition"],
   bodyReady         |-> [done |-> "bodyReadyMove"],
   bodyReadyMove     |-> <<>>,
   bodyStill         |-> [timeout |-> "bodyPosition", roleChange |-> "bodyPosition",
                          ballLost |-> "bodySearch"],
   bodyPositionGoalie |-> [ready |-> "bodyAnticipate", ballClose |-> "bodyChase",
                           player |-> "bodyPosition",
                           ballLost |-> "bodySearchGoalie"],
   bodyAnticipate    |-> [player |-> "bodyPosition", ballClose |-> "bodyChase",
                          dive |-> "bodyDive", position |-> "bodyPositionGoalie",
                          search |-> "bodySearchGoalie"],
   bodyChase         |-> [ballLost |-> "bodyPositionGoalie",
                          ballFar |-> "bodyPositionGoalie",
                          ballClose |-> "bodyApproach"],
   bodyDive          |-> [timeout |-> "bodySearch", reanticipate |-> "bodyAnticipate"],
   bodySearchGoalie  |-> [ball |-> "bodyChase", done |-> "bodyPositionGoalie",
                          timeout |-> "bodyPositionGoalie"]]

BodyStates == DOMAIN BodyTable

-----------------------------------------------------------------------------
\* The local variable of the running state.
SetPhase(m, p) == [m EXCEPT !.phase = p]

\* gcm.set_game_bodystate(1), which bodyIdle alone calls.
MarkIdle(m) == [m EXCEPT !.bodystate = 1]

\* entry() of the states that do more than reset their own variables.
EnterIdle(m) == {MotionEvent(MarkIdle(m), "sit")}
EnterStop(m) == {WalkStop(m)}
EnterStart(m) == {WalkStop(m)}
EnterHandleKickOff(m) == {WalkStop(m)}
EnterReady(m) == {MotionEvent(m, "standup")}
EnterReadyMove(m) == {MotionEvent(m, "standup")}
EnterWalkKick(m) == {SetHead(RequestWalkKick(m), "headTrack")}
EnterStill(m) == {SetHead(m, "headScan")}
EnterKick(m) == {WalkStop(SetPhase(m, IF m.active THEN 0 ELSE 3))}

\* bodyApproach looks at the ball for a kick only if it plans one.
EnterApproach(m) == {m, SetHead(m, "headKick")}

EnterPositionGoalie(m) ==
  {SetHead(m, IF GoalieType > 2 THEN "headSweep" ELSE "headScan")}

EnterAnticipate(m) ==
  {IF GoalieType > 2 THEN MotionEvent(WalkStop(m), "diveready") ELSE WalkStop(m)}

BodyEntry(s, m0) ==
  LET m == SetPhase(m0, 0)
  IN CASE s = "bodyIdle" -> EnterIdle(m)
       [] s = "bodyStop" -> EnterStop(m)
       [] s = "bodyStart" -> EnterStart(m)
       [] s = "bodyHandleKickOff" -> EnterHandleKickOff(m)
       [] s = "bodyReady" -> EnterReady(m)
       [] s = "bodyReadyMove" -> EnterReadyMove(m)
       [] s = "bodyApproach" -> EnterApproach(m)
       [] s = "bodyKick" -> EnterKick(m)
       [] s = "bodyWalkKick" -> EnterWalkKick(m)
       [] s = "bodyStill" -> EnterStill(m)
       [] s = "bodyPositionGoalie" -> EnterPositionGoalie(m)
       [] s = "bodyAnticipate" -> EnterAnticipate(m)
       [] OTHER -> {m}

\* Slip: a stopped body does not ask Motion to walk when it leaves.
BodyExitStandsStill(s, m) ==
  CASE s = "bodyIdle" -> SetMotion(m, "stance")
    [] s = "bodyApproach" -> SetHead(m, "headTrack")
    [] s \in {"bodyStill", "bodyAnticipate"} -> WalkStart(m)
    [] s = "bodyPositionGoalie" /\ GoalieType > 2 -> SetHead(m, "headTrack")
    [] OTHER -> m

BodyExit(s, m) ==
  CASE s = "bodyIdle" -> SetMotion(m, "stance")
    [] s = "bodyStop" -> MotionEvent(m, "walk")
    [] s = "bodyApproach" -> SetHead(m, "headTrack")
    [] s \in {"bodyStill", "bodyAnticipate"} -> WalkStart(m)
    [] s = "bodyPositionGoalie" /\ GoalieType > 2 -> SetHead(m, "headTrack")
    [] OTHER -> m

-----------------------------------------------------------------------------

UpdateIdle(m) == Stays(MotionEvent(m, "sit"))

\* bodyStop waits for the walk engine to finish its last step.
UpdateStop(m) ==
  Stays(IF m.phase = 0 /\ ~m.active
          THEN SetPhase(SetMotion(m, "standstill"), 1) ELSE m)

StartIfIdle(m) == IF m.active THEN m ELSE WalkStart(m)

\* Attacker and supporter walk (ourTurn: arrived), the others return ourTurn
\* at once; a ball that was just seen ends the kickoff for everyone.
UpdateHandleKickOff(m) ==
  Returns({None, "ourTurn"}, m) \union Returns({None, "ourTurn"}, StartIfIdle(m))
  \union Returns({"ballFree"}, MotionEvent(WalkStart(m), "walk"))

\* Phases: 0 turning, 1 walking, 2 near home, 3 there and stopped.
UpdateReadyMove(m0, goalie) ==
  IF goalie THEN Stays(WalkStop(m0))
  ELSE LET m == IF m0.phase = 0 THEN StartIfIdle(m0) ELSE m0
           arrived == WalkStop(SetPhase(m, 3))
       IN UNION {Stays(n) : n \in
            CASE m.phase = 0 -> {m, SetPhase(m, 1), arrived}
              [] m.phase = 1 -> {m, SetPhase(m, 2), arrived}
              [] m.phase = 2 -> {m, arrived}
              [] m.phase = 3 -> {arrived}}

\* kicking: kick.active, which Motion's kick state sets and clears.
UpdateKick(m, goalie, kicking) ==
  IF m.phase = 3 THEN Returns({"done"}, m)
  ELSE Returns({"timeout"}, m) \union
    CASE m.phase = 0 /\ ~m.active ->
           Stays(m) \union Stays(MotionEvent(SetPhase(m, 1), "kick"))
           \union Returns({"reposition"}, WalkStart(m))
      [] m.phase = 1 ->
           Stays(m) \union Stays(SetHead(SetPhase(m, 2), "headKickFollow"))
      [] m.phase = 2 /\ ~kicking ->
           Returns({IF goalie THEN "doneGoalie" ELSE "done"}, WalkStart(m))
      [] OTHER -> Stays(m)

\* The head follows the first walk kick only: nothing resets `follow`.
UpdateWalkKick(m) ==
  Returns({None, "done"}, m) \union
  IF m.phase = 0 /\ ~m.walkKick THEN Stays(SetHead(SetPhase(m, 1), "headKickFollow")) ELSE {}

\* The head is only told where to look if the state is kept: exit() of
\* bodyApproach overwrites what an update that leaves has requested.
UpdateApproach(m) ==
  Returns({None, "ballOrbit", "ballLost", "freeKick", "timeout", "ballFar",
           "kick", "walkkick"}, m)
  \union Stays(SetHead(m, "headKick"))

UpdateAnticipate(m) ==
  IF GoalieType = 1 THEN Returns({"position"}, m)
  ELSE LET n == WalkStop(m)
       IN Returns({None, "position", "search"}, n)
          \union Returns({"ballClose", "position"}, MotionEvent(n, "walk"))
          \union IF GoalieType > 2 THEN Returns({"dive"}, MotionEvent(n, "dive"))
                 ELSE {}

UpdateStill(m) ==
  Returns({None, "ballLost", "timeout", "roleChange"}, m)
  \union Returns({None, "timeout", "roleChange"}, WalkStop(m))

\* The states whose update only returns events; a goalie and a field player
\* send each other's states away.
StartEvents(goalie) == {IF goalie THEN "goalie" ELSE "player"}
UnpenalizedEvents == {None, "done"}
PositionEvents(goalie) ==
  IF goalie THEN {"goalie"}
  ELSE {None, "trackTeamBall", "ballLost", "timeout", "done", "ballClose"}
SearchEvents(goalie) ==
  IF goalie THEN {None, "ballgoalie", "timeoutgoalie"} ELSE {None, "ball", "timeout"}
SearchTeamEvents == {None, "ball", "timeout", "done"}
OrbitEvents == {None, "ballLost", "freeKick", "timeout", "ballFar", "done"}
PositionGoalieEvents(goalie) ==
  IF ~goalie THEN {"player"}
  ELSE {None, "ballClose", "ballLost"} \union IF GoalieType > 1 THEN {"ready"} ELSE {}
ChaseEvents == {None, "ballFar", "ballLost", "timeout", "ballClose", "button"}
DiveEvents == {None, "timeout", "reanticipate"}
SearchGoalieEvents == {None, "done", "ball", "timeout"}

Events(s, goalie) ==
  CASE s = "bodyStart" -> StartEvents(goalie)
    [] s = "bodyReady" -> {"done"}
    [] s = "bodyUnpenalized" -> UnpenalizedEvents
    [] s = "bodyPosition" -> PositionEvents(goalie)
    [] s = "bodySearch" -> SearchEvents(goalie)
    [] s = "bodySearchTeam" -> SearchTeamEvents
    [] s = "bodyOrbit" -> OrbitEvents
    [] s = "bodyPositionGoalie" -> PositionGoalieEvents(goalie)
    [] s = "bodyChase" -> ChaseEvents
    [] s = "bodyDive" -> DiveEvents
    [] s = "bodySearchGoalie" -> SearchGoalieEvents

BodyUpdate(s, m, goalie, kicking) ==
  CASE s = "bodyIdle" -> UpdateIdle(m)
    [] s = "bodyStop" -> UpdateStop(m)
    [] s = "bodyHandleKickOff" -> UpdateHandleKickOff(m)
    [] s = "bodyReadyMove" -> UpdateReadyMove(m, goalie)
    [] s = "bodyKick" -> UpdateKick(m, goalie, kicking)
    [] s = "bodyWalkKick" -> UpdateWalkKick(m)
    [] s = "bodyStill" -> UpdateStill(m)
    [] s = "bodyApproach" -> UpdateApproach(m)
    [] s = "bodyAnticipate" -> IF goalie THEN UpdateAnticipate(m)
                               ELSE Returns({"player"}, m)
    [] OTHER -> Returns(Events(s, goalie), m)
=============================================================================
