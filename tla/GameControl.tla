----------------------------- MODULE GameControl -----------------------------
(***************************************************************************)
(* How the referee's decisions reach gcm, the shared memory the robot's    *)
(* main loop reads: three actors that share it without a lock.             *)
(*   - The arbitrator process calls NaoGameControl.update() in every frame.*)
(*     It drains the socket (lua_GameControlReceiver.cc), follows the      *)
(*     newest packet while it is fresh, lets the chest button advance the  *)
(*     state when the controller has been silent, and publishes the result *)
(*     field by field.                                                     *)
(*   - detect_whistle.lua polls gcm, listens, and writes Playing itself.   *)
(*   - The network delivers, loses and mixes in foreign datagrams.         *)
(* One step of the arbitrator or of the detector accesses gcm at most once.*)
(*                                                                         *)
(* Ages count ticks of 5 s and stop at Old: more than 10 s.  Team colour,  *)
(* kickoff, scores and clocks are left out.                                *)
(***************************************************************************)
EXTENDS Integers, Sequences, FiniteSets

CONSTANTS
  Announcements,  \* game states the controller announces
  Penalties,      \* penalties it gives to this robot
  MaxArrivals     \* bound: datagrams drained by one receive()

ASSUME AnnouncementsAssumption == Announcements \subseteq 0..4
ASSUME PenaltiesAssumption == Penalties \subseteq Nat
ASSUME ArrivalsAssumption == MaxArrivals \in Nat

TenSeconds == 2
Old == 3

VARIABLES
  announced,  \* what the controller says now
  cached,     \* gameControlData, the last datagram that parsed
  recvAge,    \* how long ago recvTime was set
  control,    \* NaoGameControl's gameState, teamPenalty[playerID],
              \* age of lastUpdate, buttonPressed
  pc,         \* where the arbitrator is in update() and update_shm()
  gcmState, gcmPenalty, whistle,   \* gcm.game.state, penalty, whistle
  ear,        \* where detect_whistle.lua is in its loop
  silence,    \* history: ticks since our packet was the newest in a drain
  reported    \* history: a whistle was reported since the last non-Set update

vars == <<announced, cached, recvAge, control, pc, gcmState, gcmPenalty,
          whistle, ear, silence, reported>>

\* Datagrams: a packet with our team in it, one without, one with a wrong
\* header or too short; None: no packet was cached yet.
Ours == [kind : {"ours"}, state : Announcements, penalty : Penalties]
Foreign == [kind |-> "foreign"]
Junk == [kind |-> "junk"]
None == [kind |-> "none"]

TypeOK ==
  /\ announced \in Ours
  /\ cached \in Ours \union {Foreign, None}
  /\ recvAge \in 0..Old
  /\ control.gameState \in 0..4
  /\ control.penalty \in Penalties \union {1 - p : p \in Penalties} \union {0, 1}
  /\ control.updateAge \in 0..Old
  /\ control.pressed \in BOOLEAN
  /\ pc \in {"update", "whistle", "state", "play", "clear", "penalty"}
  /\ gcmState \in -1..4
  /\ gcmPenalty \in Penalties \union {1 - p : p \in Penalties} \union {0, 1}
  /\ whistle \in {0, 1}
  /\ ear \in {"state", "flag", "listen", "playing", "report"}
  /\ silence \in 0..Old
  /\ reported \in BOOLEAN

Init ==
  /\ announced \in Ours
  /\ cached = None
  /\ recvAge = Old
  /\ control = [gameState |-> 0, penalty |-> 0, updateAge |-> Old, pressed |-> FALSE]
  /\ pc = "update"
  /\ gcmState = -1
  /\ gcmPenalty = 0
  /\ whistle = 0
  /\ ear = "state"
  /\ silence = Old
  /\ reported = FALSE

-----------------------------------------------------------------------------
\* receive(): the last good datagram replaces the cache, and any datagram at
\* all makes the cache look new (recvTime).
Good(arrived) == {i \in DOMAIN arrived : arrived[i] # Junk}

Newest(arrived) ==
  {arrived[i] : i \in {j \in Good(arrived) : \A k \in Good(arrived) : k <= j}}

Arrivals == UNION {[1..n -> {Junk, Foreign, announced}] : n \in 0..MaxArrivals}

\* Slip: lastUpdate is left as it was.
FollowPacketWithoutTime(c, packet, age) ==
  IF packet.kind = "ours" /\ age < TenSeconds
    THEN [c EXCEPT !.gameState = packet.state, !.penalty = packet.penalty]
    ELSE c

\* update(), first half: a fresh packet with our team in it.
FollowPacket(c, packet, age) ==
  IF packet.kind = "ours" /\ age < TenSeconds
    THEN [c EXCEPT !.gameState = packet.state, !.penalty = packet.penalty,
                   !.updateAge = 0]
    ELSE c

\* Slip: any penalty but 1 becomes 1.
ToggledToOne(p) == IF p = 1 THEN 0 ELSE 1

\* teamPenalty[playerID] = 1 - teamPenalty[playerID]
Toggled(p) == 1 - p

\* Slip: the button advances the state without end.
UseButtonUnbounded(c, down) ==
  IF c.updateAge <= TenSeconds THEN c
  ELSE [c EXCEPT !.pressed = down,
                 !.gameState = IF c.pressed /\ ~down THEN @ + 1 ELSE @]

\* update(), second half: nothing for ten seconds, the chest button decides
\* when it is released.
UseButton(c, down) ==
  LET released == c.pressed /\ ~down
  IN IF c.updateAge <= TenSeconds THEN c
     ELSE [c EXCEPT
             !.pressed = down,
             !.gameState = IF released /\ @ < 3 THEN @ + 1 ELSE @,
             !.penalty = IF released /\ c.gameState = 3 THEN Toggled(@) ELSE @]

\* update() up to update_shm(), which it calls if either half did something.
Update ==
  /\ pc = "update"
  /\ \E arrived \in Arrivals, down \in BOOLEAN :
     \E packet \in IF Good(arrived) = {} THEN {cached} ELSE Newest(arrived) :
       LET age == IF arrived = <<>> THEN recvAge ELSE 0
           followed == FollowPacket(control, packet, age)
           publishes == \/ packet.kind = "ours" /\ age < TenSeconds
                        \/ followed.updateAge > TenSeconds
       IN /\ cached' = packet
          /\ recvAge' = age
          /\ control' = UseButton(followed, down)
          /\ pc' = IF publishes THEN "whistle" ELSE "update"
          /\ silence' = IF Good(arrived) # {} /\ packet.kind = "ours" THEN 0
                       ELSE silence
          /\ reported' = (reported /\ ~(publishes /\ control'.gameState # 2))
  /\ UNCHANGED <<announced, gcmState, gcmPenalty, whistle, ear>>

-----------------------------------------------------------------------------
\* update_shm().
ReadWhistle ==
  /\ pc = "whistle"
  /\ pc' = IF whistle = 1 /\ control.gameState = 2 THEN "play" ELSE "state"
  /\ UNCHANGED <<announced, cached, recvAge, control, gcmState, gcmPenalty,
                 whistle, ear, silence, reported>>

WriteState ==
  /\ pc \in {"state", "play"}
  /\ gcmState' = IF pc = "play" THEN 3 ELSE control.gameState
  /\ pc' = "clear"
  /\ UNCHANGED <<announced, cached, recvAge, control, gcmPenalty, whistle, ear,
                 silence, reported>>

\* Slip: the whistle outlives the Set it was heard in.
ClearWhistleNever ==
  /\ pc = "clear"
  /\ pc' = "penalty"
  /\ UNCHANGED <<announced, cached, recvAge, control, gcmState, gcmPenalty,
                 whistle, ear, silence, reported>>

ClearWhistle ==
  /\ pc = "clear"
  /\ whistle' = IF control.gameState # 2 THEN 0 ELSE whistle
  /\ pc' = "penalty"
  /\ UNCHANGED <<announced, cached, recvAge, control, gcmState, gcmPenalty, ear,
                 silence, reported>>

WritePenalty ==
  /\ pc = "penalty"
  /\ gcmPenalty' = control.penalty
  /\ pc' = "update"
  /\ UNCHANGED <<announced, cached, recvAge, control, gcmState, whistle, ear,
                 silence, reported>>

Publish == ReadWhistle \/ WriteState \/ ClearWhistle \/ WritePenalty

-----------------------------------------------------------------------------
\* detect_whistle.lua: check that it is Set, check the flag, listen, report.
CheckSet ==
  /\ ear = "state"
  /\ gcmState = 2
  /\ ear' = "flag"
  /\ UNCHANGED <<announced, cached, recvAge, control, pc, gcmState, gcmPenalty,
                 whistle, silence, reported>>

CheckFlag ==
  /\ ear = "flag"
  /\ ear' = IF whistle = 0 THEN "listen" ELSE "state"
  /\ UNCHANGED <<announced, cached, recvAge, control, pc, gcmState, gcmPenalty,
                 whistle, silence, reported>>

Listen ==
  /\ ear = "listen"
  /\ ear' \in {"playing", "state"}
  /\ UNCHANGED <<announced, cached, recvAge, control, pc, gcmState, gcmPenalty,
                 whistle, silence, reported>>

WritePlaying ==
  /\ ear = "playing"
  /\ gcmState' = 3
  /\ ear' = "report"
  /\ UNCHANGED <<announced, cached, recvAge, control, pc, gcmPenalty, whistle,
                 silence, reported>>

WriteWhistle ==
  /\ ear = "report"
  /\ whistle' = 1
  /\ reported' = TRUE
  /\ ear' = "state"
  /\ UNCHANGED <<announced, cached, recvAge, control, pc, gcmState, gcmPenalty,
                 silence>>

Detector == CheckSet \/ CheckFlag \/ Listen \/ WritePlaying \/ WriteWhistle

-----------------------------------------------------------------------------
\* The controller (external) and the clock.
Announce ==
  /\ announced' \in Ours
  /\ UNCHANGED <<cached, recvAge, control, pc, gcmState, gcmPenalty, whistle, ear,
                 silence, reported>>

Older(age) == IF age < Old THEN age + 1 ELSE Old

Tick ==
  /\ recvAge' = Older(recvAge)
  /\ control' = [control EXCEPT !.updateAge = Older(@)]
  /\ silence' = Older(silence)
  /\ UNCHANGED <<announced, cached, pc, gcmState, gcmPenalty, whistle, ear, reported>>

Next == Update \/ Publish \/ Detector \/ Announce \/ Tick

Spec == Init /\ [][Next]_vars

\* What has been begun is finished, and the clock goes on: nothing is assumed
\* of the network, nor of how often update() is called.
FairSpec == Spec /\ WF_vars(Publish) /\ WF_vars(Detector) /\ WF_vars(Tick)

-----------------------------------------------------------------------------
\* A whistle starts one kickoff: update_shm turns Set into Playing only on a
\* report that is newer than the last update in which the game was not in
\* Set, whatever the detector was doing in between.
OneKickoff == pc = "play" => reported

\* The button is obeyed only when the newest packet has not been ours for
\* more than ten seconds, although lastUpdate is refreshed from the cache,
\* stray datagrams make the cache look new and the mode changes at any time.
ButtonsOnlyInSilence ==
  [][control.pressed /\ ~control'.pressed => silence' > TenSeconds]_vars

\* In Playing each release of the button turns a penalized robot into an
\* unpenalized one and back, also when the controller has left one of its
\* own penalty codes (which are larger than 1) behind.
ButtonFlipsPenalty ==
  [][control.pressed /\ ~control'.pressed /\ control.gameState = 3
       => (control'.penalty > 0 <=> ~(control.penalty > 0))]_vars

\* What the controller goes on saying, and is heard to say, is what gcm holds
\* in the end, with two writers and packets lost or replaced by others.  In
\* Set the whistle may have made it Playing, and then it stays Playing.
FollowsController ==
  \A a \in Ours :
    <>[](announced = a /\ silence <= TenSeconds) =>
      /\ <>[](gcmPenalty = a.penalty)
      /\ <>[](gcmState = a.state) \/ (a.state = 2 /\ <>[](gcmState = 3))

\* detect_whistle.lua says that it goes "into actual functions if the game is
\* in Set state": the Playing it writes replaces Set, or Playing.
WhistleOnlyInSet ==
  [][ear = "playing" /\ ear' = "report" => gcmState \in {2, 3}]_vars
=============================================================================
