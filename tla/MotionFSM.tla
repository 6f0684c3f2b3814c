----------------------------- MODULE MotionFSM -----------------------------
(***************************************************************************)
(* The motion machine of the robots that can sit and get up:               *)
(* Player/Motion/Motion.lua with relax, sit, stance, walk, standstill,     *)
(* kick, divewait, dive, falling and standup.  No code raises the events   *)
(* pickup, throw, align or step, so grip, align and stepkick are left out. *)
(*                                                                         *)
(* The events of Motion's queue are processed in order, the event of the   *)
(* state's own update last.                                                *)
(***************************************************************************)
EXTENDS Fsm

CONSTANT EnableGetup   \* Config.enable_getup: the robot may stand up by itself

ASSUME EnableGetupAssumption == EnableGetup \in BOOLEAN

MotionTable ==
  [sit        |-> [done |-> "relax", standup |-> "stance"],
   relax      |-> [standup |-> "stance", diveready |-> "divewait"],
   stance     |-> [done |-> "walk", sit |-> "sit", diveready |-> "divewait"],
   walk       |-> [sit |-> "sit", stance |-> "stance", standstill |-> "standstill",
                   diveready |-> "divewait", dive |-> "dive", fall |-> "falling",
                   kick |-> "kick"],
   standstill |-> [stance |-> "stance", walk |-> "stance", sit |-> "sit",
                   diveready |-> "divewait"],
   kick       |-> [done |-> "walk"],
   divewait   |-> [dive |-> "dive", walk |-> "stance", standup |-> "stance",
                   sit |-> "sit", fall |-> "falling"],
   dive       |-> [done |-> "stance", divedone |-> "falling"],
   falling    |-> [done |-> "standup", restand |-> "stance"],
   standup    |-> [done |-> "stance", fail |-> "standup"]]

MotionStates == DOMAIN MotionTable

\* kick.active: the legs move.
SetKicking(m, k) == [m EXCEPT !.kicking = k]

\* entry(): stance, standstill and dive cut the walk off, sit, kick and
\* divewait let it finish its step; walk and falling drop a requested walk kick.
MotionEntry(s, m) ==
  CASE s \in {"stance", "standstill", "dive"} -> WalkHalt(m)
    [] s \in {"sit", "divewait"} -> WalkStop(m)
    [] s = "kick" -> SetKicking(WalkStop(m), FALSE)
    [] s \in {"walk", "falling"} -> StanceReset(m)
    [] OTHER -> m

\* exit(): after a kick the robot walks on.
MotionExit(s, m) ==
  IF s = "kick" THEN SetKicking(WalkStart(m), FALSE) ELSE m

\* update() of each state.
UpdateRelax(m) == Returns({None, "timeout"}, m)
UpdateSit(m) == IF m.active THEN WalksOn(m) ELSE Returns({None, "done"}, m)
UpdateStance(m) == Stays(m) \union Returns({"done"}, WalkStart(StanceReset(m)))
UpdateStandstill(m) == Returns({None, "done"}, m)
UpdateDivewait(m) == IF m.active THEN WalksOn(m) ELSE Stays(m)
UpdateDive(m) == Returns({None, "divedone"}, m) \union Returns({"done"}, WalkStart(m))
UpdateFalling(m) == Returns({None, IF EnableGetup THEN "done" ELSE "restand"}, m)
UpdateStandup(m) == Returns({None, "fail", "done"}, m)

\* kick waits until the walk has stopped, and never looks back.
UpdateKicking(m) ==
  IF m.active /\ ~m.kicking THEN WalksOn(m)
  ELSE Returns({None, "done"}, SetKicking(m, TRUE))

MotionUpdate(s, m) ==
  CASE s = "relax" -> UpdateRelax(m)
    [] s = "sit" -> UpdateSit(m)
    [] s = "stance" -> UpdateStance(m)
    [] s = "walk" -> WalksOn(m)
    [] s = "standstill" -> UpdateStandstill(m)
    [] s = "kick" -> UpdateKicking(m)
    [] s = "divewait" -> UpdateDivewait(m)
    [] s = "dive" -> UpdateDive(m)
    [] s = "falling" -> UpdateFalling(m)
    [] OTHER -> UpdateStandup(m)
=============================================================================
