-------------------------------- MODULE Fsm --------------------------------
(***************************************************************************)
(* The state-machine library Player/Util/fsm.lua and the memory through    *)
(* which the four machines of the main loop influence one another:         *)
(*   - each machine may request the next state of another (set_state) and  *)
(*     may put an event into Motion's queue (add_event, Motion.event);     *)
(*   - all of them start and stop the walk engine;                         *)
(*   - mcm and gcm hold flags one machine writes for another.              *)
(*                                                                         *)
(* A handler (entry, update or exit of a state) is an operator from the    *)
(* memory to the memory, or to the set of outcomes the sensors decide      *)
(* between.                                                                *)
(***************************************************************************)
EXTENDS Naturals, Sequences

None == "none"

\* A transition table maps a state to a function from events to states:
\* set_transition writes transitions[fromState][event].
Handles(table, s, e) == e \in DOMAIN table[s]

\* The first queued event with a transition decides, the others are dropped.
Target(table, s, events) ==
  LET hits == {i \in DOMAIN events : Handles(table, s, events[i])}
  IN IF hits = {} THEN None
     ELSE table[s][events[CHOOSE i \in hits : \A j \in hits : i <= j]]

-----------------------------------------------------------------------------
\* What update() of a state returns (None: nil), with the memory it leaves.
Outcome(e, m) == [event |-> e, mem |-> m]

\* One of these events, with memory m; no event at all.
Returns(events, m) == {Outcome(e, m) : e \in events}
Stays(m) == Returns({None}, m)

-----------------------------------------------------------------------------
\* set_state of a machine: a later request overwrites an earlier one.
SetBody(m, s) == [m EXCEPT !.bodyNext = s]
SetHead(m, s) == [m EXCEPT !.headNext = s]
SetMotion(m, s) == [m EXCEPT !.motionNext = s]

\* Motion.event and Motion.sm:add_event.
MotionEvent(m, e) == [m EXCEPT !.motionEvents = Append(@, e)]

\* Slip: Motion looks at its events and keeps them.
ProcessedKept(m) == m

\* Motion has looked at its events: self.events = {}.
Processed(m) == [m EXCEPT !.motionEvents = <<>>]

\* The walk engine, as the configured Walk_2017NewKick.lua implements it.
\* stop() is a request that two step boundaries carry out.
WalkStart(m) == [m EXCEPT !.active = TRUE, !.stopRequest = 0]
WalkStop(m) == [m EXCEPT !.stopRequest = IF @ = 0 THEN 1 ELSE @]

\* walk.active = false, written from outside the engine.
WalkHalt(m) == [m EXCEPT !.active = FALSE]

\* doWalkKick*, doSideKick*: a request that step boundaries carry out.
RequestWalkKick(m) == [m EXCEPT !.walkKick = TRUE]

\* stance_reset: the request is gone, kick_stage and is_stopped stay.
StanceReset(m) == [m EXCEPT !.walkKick = FALSE]

\* xiang_walkkick_0step: a requested kick goes through its stages 0 to 3, which
\* may take any number of steps, and at the last of them stops the walk; at
\* stage 4 the request is done.  (A stage 4 that stance_reset left behind ends
\* the next kick at once.)
KickStep(m) ==
  IF ~m.walkKick THEN {m}
  ELSE IF m.kickDone THEN {[m EXCEPT !.walkKick = FALSE, !.kickDone = FALSE]}
  ELSE {m, [m EXCEPT !.kickDone = TRUE, !.stopRequest = 2, !.isStopped = TRUE]}

\* plan_nextstep: a stop has to wait until the walk kick is over.
FinalStep(m) ==
  IF ~m.walkKick /\ m.stopRequest = 1 THEN [m EXCEPT !.stopRequest = 2] ELSE m

\* A step boundary ends the final step or plans the next one.
StepBoundary(m) ==
  IF m.stopRequest = 2 THEN {[m EXCEPT !.stopRequest = 0, !.active = FALSE]}
  ELSE {FinalStep(n) : n \in KickStep(m)}

\* Half a second after the walk kick stopped the walk the engine starts it
\* again by itself, whoever has ordered what in the meantime.
OwnStart(m) == WalkStart([m EXCEPT !.isStopped = FALSE])

\* walk.update(): the possible effects of one call.  Between step boundaries,
\* before the half second is over or with the torso too low nothing changes.
WalkUpdate(m) ==
  {m} \union (IF m.isStopped THEN {OwnStart(m)} ELSE {})
      \union (IF m.active THEN StepBoundary(m) ELSE {})

\* A state that does nothing but run the walk engine.
WalksOn(m) == UNION {Stays(n) : n \in WalkUpdate(m)}
=============================================================================
