------------------------------- MODULE Robot -------------------------------
(***************************************************************************)
(* One robot's main loop: Player/Run/main.lua calls, in every frame,       *)
(* GameFSM.update, BodyFSM.update, HeadFSM.update and Motion.update, on    *)
(* the semantics of Player/Util/fsm.lua.  Another process writes the       *)
(* announced game state and the penalties into shared memory at any time;  *)
(* only the game machine reads them.                                       *)
(*                                                                         *)
(* The environment: the referees (game state, penalties), whatever makes   *)
(* the body tilt, and the sensors behind the events of the body's and the  *)
(* head's states.                                                          *)
(***************************************************************************)
EXTENDS GameFSM, BodyFSM, HeadFSM, MotionFSM

CONSTANT TrackHead   \* FALSE drops the head's states from the model

ASSUME TrackHeadAssumption == TrackHead \in BOOLEAN

VARIABLES
  pc,         \* the machine whose update comes next
  game, body, head, motion,   \* the machines' current states
  mem,        \* what they share (module Fsm)
  gameState,  \* gcm.game.state, as announced
  penalized,  \* gcm.in_penalty()
  goalie      \* gcm.team.role = 0, which a robot keeps for the match

vars == <<pc, game, body, head, motion, mem, gameState, penalized, goalie>>

MaxEvents == 6   \* what TypeOK says Motion's queue holds at most

\* Types; the requests name states that exist (set_state errors otherwise)
\* and Motion's queue stays bounded although Motion does not empty it in the
\* frames in which a requested state makes it skip its update.
TypeOK ==
  /\ pc \in {"game", "body", "head", "motion"}
  /\ game \in GameStates
  /\ body \in BodyStates
  /\ head \in HeadStates
  /\ motion \in MotionStates
  /\ mem.bodyNext \in BodyStates \union {None}
  /\ mem.headNext \in HeadStates \union {None}
  /\ mem.motionNext \in MotionStates \union {None}
  /\ mem.motionEvents \in Seq({"sit", "standup", "walk", "kick", "diveready", "dive", "fall"})
  /\ Len(mem.motionEvents) <= MaxEvents
  /\ mem.active \in BOOLEAN
  /\ mem.kicking \in BOOLEAN
  /\ mem.stopRequest \in 0..2
  /\ mem.walkKick \in BOOLEAN
  /\ mem.kickDone \in BOOLEAN
  /\ mem.isStopped \in BOOLEAN
  /\ mem.fallCheck \in {0, 1}
  /\ mem.wasPenalized \in {0, 1}
  /\ mem.bodystate \in {0, 1}
  /\ mem.phase \in 0..3
  /\ gameState \in Announced
  /\ penalized \in BOOLEAN
  /\ goalie \in BOOLEAN

\* The memory when main.lua has loaded the machines and run Motion.entry():
\* relax, fall detection on, the walk engine's variables as the file sets them.
Loaded ==
  [bodyNext |-> None, headNext |-> None, motionNext |-> None,
   motionEvents |-> <<>>, active |-> TRUE, stopRequest |-> 2, kicking |-> FALSE,
   walkKick |-> FALSE, kickDone |-> FALSE, isStopped |-> FALSE,
   fallCheck |-> 1, wasPenalized |-> 0, bodystate |-> 0, phase |-> 0]

\* ... and then BodyFSM.entry(), HeadFSM.entry() and GameFSM.entry().
Init ==
  /\ pc = "game"
  /\ game = "gameInitial"
  /\ body = "bodyIdle"
  /\ head = "headIdle"
  /\ motion = "relax"
  /\ mem \in {GameEntry("gameInitial", m) : m \in BodyEntry("bodyIdle", Loaded)}
  /\ gameState = -1
  /\ penalized = FALSE
  /\ goalie \in BOOLEAN

-----------------------------------------------------------------------------
\* The processes that write gcm.
Announce ==
  /\ pc = "game"
  /\ gameState' \in 0..4
  /\ UNCHANGED <<pc, game, body, head, motion, mem, penalized, goalie>>

Penalise ==
  /\ pc = "game"
  /\ penalized' = ~penalized
  /\ UNCHANGED <<pc, game, body, head, motion, mem, gameState, goalie>>

\* fsm.update of the game machine, of which nobody requests a state.
UpdateGame ==
  /\ pc = "game"
  /\ pc' = "body"
  /\ LET o == GameUpdate(game, mem, gameState, penalized)
         next == Target(GameTable, game, <<o.event>>)
     IN IF next = None
          THEN game' = game /\ mem' = o.mem
          ELSE game' = next /\ mem' = GameEntry(next, GameExit(game, o.mem))
  /\ UNCHANGED <<body, head, motion, gameState, penalized, goalie>>

\* fsm.update leaves the current state for s: exit, then entry.
MoveBody(s, m) ==
  /\ body' = s
  /\ mem' \in BodyEntry(s, [BodyExit(body, m) EXCEPT !.bodyNext = None])

\* Slip: the current state is updated even when it will be left.
UpdateBodyAlways ==
  /\ pc = "body"
  /\ pc' = "head"
  /\ \E o \in BodyUpdate(body, mem, goalie, motion = "kick") :
       LET next == IF mem.bodyNext # None THEN mem.bodyNext
                   ELSE Target(BodyTable, body, <<o.event>>)
       IN IF next = None THEN body' = body /\ mem' = o.mem
          ELSE MoveBody(next, o.mem)
  /\ UNCHANGED <<game, head, motion, gameState, penalized, goalie>>

\* A requested state is entered without an update of the current one.
UpdateBody ==
  /\ pc = "body"
  /\ pc' = "head"
  /\ IF mem.bodyNext # None THEN MoveBody(mem.bodyNext, mem)
     ELSE \E o \in BodyUpdate(body, mem, goalie, motion = "kick") :
            LET next == Target(BodyTable, body, <<o.event>>)
            IN IF next = None THEN body' = body /\ mem' = o.mem
               ELSE MoveBody(next, o.mem)
  /\ UNCHANGED <<game, head, motion, gameState, penalized, goalie>>

UpdateHead ==
  /\ pc = "head"
  /\ pc' = "motion"
  /\ mem' = SetHead(mem, None)
  /\ IF ~TrackHead THEN head' = head
     ELSE IF mem.headNext # None THEN head' = mem.headNext
     ELSE \E e \in HeadEvents(head, goalie /\ GoalieType > 2) :
            LET next == Target(HeadTable, head, <<e>>)
            IN head' = IF next = None THEN head ELSE next
  /\ UNCHANGED <<game, body, motion, gameState, penalized, goalie>>

MoveMotion(s, m) ==
  /\ motion' = s
  /\ mem' = MotionEntry(s, [MotionExit(motion, m) EXCEPT !.motionNext = None])

\* Motion.update: a tilted body adds the event fall if fall detection is on.
\* The events are dropped when they have been looked at, and kept when a
\* requested state makes the machine skip them.
UpdateMotion ==
  /\ pc = "motion"
  /\ pc' = "game"
  /\ \E tilted \in BOOLEAN :
       LET m == IF tilted /\ mem.fallCheck = 1 THEN MotionEvent(mem, "fall") ELSE mem
       IN IF m.motionNext # None THEN MoveMotion(m.motionNext, m)
          ELSE \E o \in MotionUpdate(motion, Processed(m)) :
                 LET next == Target(MotionTable, motion,
                                    Append(m.motionEvents, o.event))
                 IN IF next = None THEN motion' = motion /\ mem' = o.mem
                    ELSE MoveMotion(next, o.mem)
  /\ UNCHANGED <<game, body, head, gameState, penalized, goalie>>

Next ==
  \/ Announce
  \/ Penalise
  \/ UpdateGame
  \/ UpdateBody
  \/ UpdateHead
  \/ UpdateMotion

Spec == Init /\ [][Next]_vars

-----------------------------------------------------------------------------
\* Motion's fall detection is off exactly while the game machine is in Set:
\* the flag lives in shared memory, every way out of Set restores it.
FallCheckMatchesGame == mem.fallCheck = 0 <=> game = "gameSet"

ReadyBodies == {"bodyReady", "bodyReadyMove"}

\* In the frame in which the game machine changes state, the body is already
\* in a state that belongs to the new one, whatever the body was doing and
\* whatever it wanted to do in that frame.
BodyFollowsGame ==
  pc \in {"head", "motion"} =>
    /\ game \in {"gamePenalized", "gameFinished"} => body = "bodyIdle"
    /\ game = "gameSet" => body = "bodyStop"
    /\ game = "gameReady" => body \in ReadyBodies
    /\ game = "gamePlaying" => body \notin ReadyBodies \union {"bodyIdle", "bodyStop"}

\* From Set the robot plays the kickoff, from a penalty it walks in: what the
\* penalized and the playing states agree on through gcm.game.was_penalized.
ReturnFromPenalty ==
  [][game' = "gamePlaying" =>
       /\ game = "gameSet" => mem'.bodyNext = "bodyStart"
       /\ game = "gamePenalized" => mem'.bodyNext = "bodyUnpenalized"]_vars

\* While Set lasts, no fall starts the getup: a "fall" left in Motion's queue
\* from before Set is never acted on.  (A dive that ends on the ground is.)
NoFallReactionInSet ==
  [][game = "gameSet" /\ motion' = "falling" => motion \in {"falling", "dive"}]_vars

\* A kick starts only while the body is in bodyKick: a "kick" left in the
\* queue never fires after the referee stopped the game.  (In Initial it may,
\* see BodystateDenotesIdle.)
KickOnlyWhenAsked ==
  [][motion' = "kick" /\ motion # "kick" =>
       body = "bodyKick" /\ game \in {"gamePlaying", "gameInitial"}]_vars

\* Once the head machine has run, a robot in the game looks around: the
\* orders of game and body may overwrite each other, never with headIdle.
HeadAwake ==
  TrackHead /\ pc = "motion" /\ game \in ChecksPenalty => head # "headIdle"

\* gcm.lua: the number 1 in gcm.game.bodystate denotes bodyIdle.
BodystateDenotesIdle == mem.bodystate = 1 => body = "bodyIdle"

-----------------------------------------------------------------------------
\* The main loop runs for ever.  The walk engine comes to the end of a final
\* step, of a walk kick and of the pause after it; ...
StepEnds ==
  /\ UpdateMotion
  /\ \/ mem.active /\ mem.stopRequest < 2 /\ mem'.stopRequest = 2
     \/ mem.active /\ mem.stopRequest = 2 /\ ~mem'.active
     \/ mem.active /\ mem.walkKick /\ ~mem'.walkKick
     \/ mem.isStopped /\ ~mem'.isStopped

\* ... what Motion is doing comes to its end, and a getup that may succeed again
\* and again does so.
Finished ==
  CASE motion \in {"kick", "stance"} -> {"walk"}
    [] motion = "dive" -> {"stance", "falling"}
    [] motion = "falling" -> {IF EnableGetup THEN "standup" ELSE "stance"}
    [] motion = "standup" -> {"stance"}
    [] motion = "sit" -> {"relax"}
    [] OTHER -> {}

MotionEnds == UpdateMotion /\ motion' \in Finished

Fairness ==
  /\ WF_vars(UpdateGame \/ UpdateBody \/ UpdateHead \/ UpdateMotion)
  /\ SF_vars(StepEnds)
  /\ SF_vars(MotionEnds)

FairSpec == Spec /\ Fairness

\* An announced state that stays, without a penalty, is reached and kept.
\* (Finished is not: gamePenalized has no transition to it.)
GameOf(g) == CASE g = 0 -> "gameInitial" [] g = 1 -> "gameReady"
               [] g = 2 -> "gameSet" [] g = 3 -> "gamePlaying"
FollowsReferee ==
  \A g \in 0..3 : <>[](gameState = g /\ ~penalized) => <>[](game = GameOf(g))

\* A penalty that stays takes the robot out of a game whose announced state
\* stays, ...  (A new announcement is followed before the penalty is looked
\* at: one in every frame would put the penalty off.)
LeavesThePitch ==
  \A g \in 1..3 :
    <>[](penalized /\ gameState = g) => <>[](game = "gamePenalized")

\* The kick state waits for the walk to stop before it moves a leg.  The code
\* breaks this when the walk is restarted while Motion's kick waits, by
\* gameReady.entry, gameInitial.exit or the engine itself: it waits for ever.
KickWaitsForStop ==
  pc = "game" /\ motion = "kick" /\ mem.active /\ ~mem.kicking => mem.stopRequest > 0

\* So does sit, and the code breaks it alike: bodyAnticipate.exit starts the
\* walk under a "sit" that Motion has just followed, and then the robot steps on
\* the spot instead of sitting down.
SitWaitsForStop ==
  pc = "game" /\ motion = "sit" /\ mem.active => mem.stopRequest > 0


\* Only an idle body makes the robot sit.  The code breaks this when Motion
\* keeps a "sit" of bodyIdle over a frame in which bodyIdle.exit requests
\* stance: in the first frame of the program and when bodyIdle is re-entered.
SitsWhileIdle == pc = "game" /\ motion \in {"sit", "relax"} => body = "bodyIdle"

\* In a Set that lasts the robot stands still, even if it was getting up,
\* unless a "sit" that Motion kept has made it sit down before.
StandsStillInSet ==
  <>[](game = "gameSet" /\ SitsWhileIdle)
    => <>[](motion = "standstill" /\ ~mem.active)

\* A robot in the game is not left sitting, standing or lying: in Ready and in
\* Playing it gets back, however often it falls, to a state that runs the
\* walk engine (a diving goalie may do so in divewait).
WalksInTheGame ==
  \A s \in {"gameReady", "gamePlaying"} :
    <>[](game = s /\ SitsWhileIdle /\ KickWaitsForStop)
      => []<>(motion \in {"walk", "divewait"})
=============================================================================
