------------------------------ MODULE GameFSM ------------------------------
(***************************************************************************)
(* The game machine: Player/GameFSM/GameFSM.lua and its six states.  It    *)
(* follows the state the game controller announces (gcm.game.state) and    *)
(* the robot's penalty, and gives the other machines their orders.         *)
(* The coach (role 5) is not modelled.                                     *)
(***************************************************************************)
EXTENDS Integers, Fsm

GameStates == {"gameInitial", "gameReady", "gameSet", "gamePlaying",
               "gamePenalized", "gameFinished"}

GameTable ==
  [gameInitial   |-> [ready |-> "gameReady", set |-> "gameSet",
                      playing |-> "gamePlaying", finished |-> "gameFinished"],
   gameReady     |-> [initial |-> "gameInitial", set |-> "gameSet",
                      playing |-> "gamePlaying", finished |-> "gameFinished",
                      penalized |-> "gamePenalized"],
   gameSet       |-> [initial |-> "gameInitial", ready |-> "gameReady",
                      playing |-> "gamePlaying", finished |-> "gameFinished",
                      penalized |-> "gamePenalized"],
   gamePlaying   |-> [initial |-> "gameInitial", ready |-> "gameReady",
                      set |-> "gameSet", finished |-> "gameFinished",
                      penalized |-> "gamePenalized"],
   gamePenalized |-> [initial |-> "gameInitial", ready |-> "gameReady",
                      set |-> "gameSet", playing |-> "gamePlaying"],
   gameFinished  |-> [initial |-> "gameInitial", ready |-> "gameReady",
                      set |-> "gameSet", playing |-> "gamePlaying"]]

\* gcm.game.state, -1 before any packet, and the event the states make of it.
Announced == -1..4

\* Slip: the branch for Set is missing.
EventOfNoSet(g) == CASE g = 0 -> "initial" [] g = 1 -> "ready" [] g = 3 -> "playing"
                     [] g = 4 -> "finished" [] OTHER -> None

EventOf(g) == CASE g = 0 -> "initial"  [] g = 1 -> "ready" [] g = 2 -> "set"
                [] g = 3 -> "playing"  [] g = 4 -> "finished"
                [] OTHER -> None

\* The announcement each state ignores because it is already there.
OwnEvent == [gameInitial |-> "initial", gameReady |-> "ready",
             gameSet |-> "set", gamePlaying |-> "playing",
             gamePenalized |-> None, gameFinished |-> "finished"]

\* Slip: a penalty in Set is overlooked.
ChecksPenaltyNotInSet == {"gameReady", "gamePlaying"}

ChecksPenalty == {"gameReady", "gameSet", "gamePlaying"}

\* What update() returns in state s.
GameEvent(s, g, penalized) ==
  IF s = "gamePenalized"
    THEN IF penalized THEN None ELSE EventOf(g)
    ELSE IF EventOf(g) \notin {OwnEvent[s], None} THEN EventOf(g)
         ELSE IF penalized /\ s \in ChecksPenalty THEN "penalized"
         ELSE None

\* Slip: Set stops the walk on entry of the body only.
GameUpdateNoStop(s, m, g, penalized) ==
  LET e == GameEvent(s, g, penalized)
  IN Outcome(e, IF s = "gamePenalized" /\ e = None
                  THEN [m EXCEPT !.wasPenalized = 1] ELSE m)

GameUpdate(s, m, g, penalized) ==
  LET e == GameEvent(s, g, penalized)
  IN Outcome(e, CASE s = "gameSet" -> WalkStop(m)
                  [] s = "gamePenalized" /\ e = None ->
                       [m EXCEPT !.wasPenalized = 1]
                  [] OTHER -> m)

\* Slip: fall detection stays off.
GameExitKeepsFallCheck(s, m) ==
  CASE s = "gameInitial" -> WalkStart(m)
    [] s = "gamePenalized" -> [m EXCEPT !.wasPenalized = 1]
    [] OTHER -> m

GameExit(s, m) ==
  CASE s = "gameInitial" -> WalkStart(m)
    [] s = "gameSet" -> [m EXCEPT !.fallCheck = 1]
    [] s = "gamePenalized" -> [m EXCEPT !.wasPenalized = 1]
    [] OTHER -> m

Order(m, body, head) == SetBody(SetHead(m, head), body)

\* Slip: the head is not told that the game goes on.
EnterPlayingBlind(m) ==
  LET back == m.wasPenalized > 0
      m1 == SetBody(m, IF back THEN "bodyUnpenalized" ELSE "bodyStart")
  IN [IF back THEN WalkStart(m1) ELSE m1 EXCEPT !.wasPenalized = 0]

EnterPlaying(m) ==
  LET back == m.wasPenalized > 0
      m1 == Order(m, IF back THEN "bodyUnpenalized" ELSE "bodyStart", "headStart")
  IN [IF back THEN WalkStart(m1) ELSE m1 EXCEPT !.wasPenalized = 0]

\* gameInitial leaves a body alone that gcm says is idle already.
EnterInitial(m) ==
  LET m1 == SetHead(WalkStop(m), "headIdle")
  IN IF m1.bodystate = 1 THEN m1 ELSE SetBody(m1, "bodyIdle")

\* Slips: the body is not ordered to stop, fall detection stays on, and the
\* penalty outlives Set.
EnterSetNoStop(m) ==
  [SetHead(m, "headScanStill") EXCEPT !.fallCheck = 0, !.wasPenalized = 0]
EnterSetFallCheck(m) ==
  [Order(m, "bodyStop", "headScanStill") EXCEPT !.wasPenalized = 0]
EnterSetKeepsPenalty(m) ==
  [Order(m, "bodyStop", "headScanStill") EXCEPT !.fallCheck = 0]

EnterSet(m) ==
  [Order(m, "bodyStop", "headScanStill") EXCEPT !.fallCheck = 0, !.wasPenalized = 0]

GameEntry(s, m) ==
  CASE s = "gameInitial" -> EnterInitial(m)
    [] s = "gameReady" -> Order(WalkStart(m), "bodyReady", "headReady")
    [] s = "gameSet" -> EnterSet(m)
    [] s = "gamePlaying" -> EnterPlaying(m)
    [] OTHER -> Order(m, "bodyIdle", "headIdle")   \* gamePenalized, gameFinished
=============================================================================
