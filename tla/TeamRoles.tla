----------------------------- MODULE TeamRoles -----------------------------
(***************************************************************************)
(* Who attacks, who defends: Player/World/TeamSPL.lua.  Every robot runs   *)
(* update() once a frame, broadcasts its own entry about once a second,    *)
(* keeps the last entry heard of every team mate in states[], and works    *)
(* out its own role from that table alone.  Nothing is agreed upon; the    *)
(* entries are as old as the last message, and carry the role the sender   *)
(* had before the frame that sent them.                                    *)
(*                                                                         *)
(* The field players are modelled.  Player 1 is always the goalie and      *)
(* never competes for another role: its entry only sets goalie_alive,      *)
(* which no branch depends on (the number 0 is true in Lua).               *)
(*                                                                         *)
(* A layout is where the robots and the ball are and what the robots make  *)
(* of it.  eta[r][q] is the time r expects q to need to the ball: from r's *)
(* own team ball and confidence in q, and from what q says of itself.      *)
(* def and side follow from the positions the robots report; near are the  *)
(* robots that stand at the ball.  No two numbers tie.                     *)
(***************************************************************************)
EXTENDS Integers, FiniteSets

CONSTANTS Players,        \* the ids of the field players
          Layouts,        \* where the robots and the ball may be
          NonAttacker,    \* nonAttackerPenalty / walkSpeed, in units of eta
          NonDefender,    \* the 0.3 m added to the distance of a non-defender
          Handicaps,      \* added to eta for what a robot says of itself: a
                          \* fall, a poor localisation
          Deaf,           \* the players that may miss, or hear late, what
                          \* the others hear
          Faulty,         \* the players that may have a fault
          MaxFaults       \* bound on all that disturbs the team (Fault)

Roles == {"attacker", "defender", "supporter", "defender2", "lost"}
Defenders == {"defender", "defender2"}

ASSUME TeamRolesAssumption ==
  /\ Players \subseteq 2 .. 5 /\ Players # {}
  /\ NonAttacker \in Nat /\ NonDefender \in Nat
  /\ Handicaps \subseteq Nat /\ 0 \in Handicaps
  /\ Layouts \subseteq [eta : [Players -> [Players -> Nat]], def : [Players -> Nat],
                        side : [Players -> Int], near : SUBSET Players]
  /\ MaxFaults \in Nat /\ Faulty \subseteq Players /\ Deaf \subseteq Players

(* What is added to eta: the bonus of the attacker withheld, a handicap    *)
Extras == {b + h : b \in {0, NonAttacker}, h \in Handicaps}

(* The code sorts real numbers; a position is defined by comparing two of  *)
(* them only if they differ, whatever their robots report.                 *)
ASSUME NoTies ==
  \A l \in Layouts : \A p, q \in Players :
    p # q => /\ \A r \in Players, x, y \in Extras : l.eta[r][p] + x # l.eta[r][q] + y
             /\ l.def[p] # l.def[q] /\ l.def[p] # l.def[q] + NonDefender

VARIABLES
  layout,
  playing,      \* robots whose game state is Playing (3); else it is below
  role,         \* role of each robot
  handicap,     \* what each robot says of itself that makes it slower
  view,         \* view[r][q]: what states[q] holds at robot r
  held,         \* held[r][q]: the last message of q that waits to be handed to
                \* robot r
  penalised,    \* robots in penalty
  up,           \* robots whose world process runs
  faults        \* number of faults so far

vars == <<layout, playing, role, handicap, view, held, penalised, up, faults>>

Entry == [known : BOOLEAN, role : Roles, penalty : BOOLEAN, handicap : Handicaps,
          old : BOOLEAN]
Absent == [known |-> FALSE, role |-> "lost", penalty |-> FALSE, handicap |-> 0,
           old |-> FALSE]
Own(q) == [known |-> TRUE, role |-> role[q], penalty |-> q \in penalised,
           handicap |-> handicap[q], old |-> FALSE]
Nobody == [q \in Players |-> Absent]

(* Config_NaoV4.lua: game.role = game.playerID - 1                         *)
ConfigRole(q) == CASE q = 2 -> "attacker"  [] q = 3 -> "defender"
                   [] q = 4 -> "supporter" [] q = 5 -> "defender2"

Init ==
  /\ layout \in Layouts
  /\ playing = {}
  /\ role = [q \in Players |-> ConfigRole(q)]
  /\ handicap = [q \in Players |-> 0]
  /\ view = [r \in Players |-> Nobody] /\ held = [r \in Players |-> Nobody]
  /\ penalised = {} /\ up = Players /\ faults = 0

-----------------------------------------------------------------------------
(* The rules, over the table v of robot r.                                 *)
Alive(v) == {q \in Players : v[q].known /\ ~v[q].penalty}
Ranked(v) == {q \in Alive(v) : ~v[q].old /\ v[q].role # "lost"}

EtaRestless(v, r, q) ==                                       \* mutant
  layout.eta[r][q] + (IF v[q].role = "attacker" THEN NonAttacker ELSE 0)
    + v[q].handicap
Eta(v, r, q) ==
  layout.eta[r][q] + (IF v[q].role = "attacker" THEN 0 ELSE NonAttacker)
    + v[q].handicap
DDef(v, q) == layout.def[q] + (IF v[q].role \in Defenders THEN 0 ELSE NonDefender)

EtaPos(v, r, q) ==
  1 + Cardinality({p \in Ranked(v) : Eta(v, r, p) < Eta(v, r, q)})
DDefPos(v, q) == 1 + Cardinality({p \in Ranked(v) : DDef(v, p) < DDef(v, q)})
Fastest(v, r) == CHOOSE q \in Ranked(v) : EtaPos(v, r, q) = 1

PlayingRoleOfFour(v, r) ==                                    \* mutant
  LET n == Cardinality(Alive(v)) IN
  CASE EtaPos(v, r, r) = 1 \/ n = 1 \/ r \in layout.near -> "attacker"
    [] OTHER ->
       CASE DDefPos(v, r) = 1 \/ n = 2 -> "defender"
         [] OTHER -> IF n = 4 THEN "supporter" ELSE "lost"
PlayingRoleFirstOnly(v, r) ==                                 \* mutant
  LET n == Cardinality(Alive(v)) IN
  CASE EtaPos(v, r, r) = 1 \/ n = 1 \/ r \in layout.near -> "attacker"
    [] OTHER -> IF DDefPos(v, r) = 1 \/ n = 2 THEN "defender" ELSE "supporter"
PlayingRole(v, r) ==
  LET n == Cardinality(Alive(v)) IN
  CASE EtaPos(v, r, r) = 1 \/ n = 1 \/ r \in layout.near -> "attacker"
    [] OTHER ->
       CASE DDefPos(v, r) = 1 \/ n = 2
              \/ (DDefPos(v, r) = 2 /\ DDefPos(v, Fastest(v, r)) = 1) -> "defender"
         [] OTHER ->
            CASE n = 3 -> "supporter"
              [] n = 4 /\ (EtaPos(v, r, r) = 2 \/ DDefPos(v, r) = n) -> "supporter"
              [] n = 4 /\ EtaPos(v, r, r) # 2 /\ DDefPos(v, r) # n -> "defender2"
              [] OTHER -> "lost"

(* Left and right defender: the last other defender of the table decides,  *)
(* however old its entry                                                   *)
Sided(v, r, new) ==
  LET others == {q \in Players \ {r} : v[q].role \in Defenders} IN
  IF new \notin Defenders \/ others = {} THEN new
  ELSE LET q == CHOOSE q \in others : \A o \in others : o <= q IN
       IF layout.side[r] < layout.side[q] THEN "defender" ELSE "defender2"

(* Before the kickoff the roles are dealt out in the order of the ids      *)
ReadyRole(v, r) ==
  LET RolePos == Cardinality({q \in Alive(v) : q <= r}) IN
  CASE RolePos = 1 -> "attacker"
    [] RolePos = 2 -> "defender"
    [] RolePos = 3 -> "supporter"
    [] OTHER       -> "defender2"

NewRole(v, r) ==
  IF r \in penalised THEN role[r]
  ELSE IF r \in playing THEN Sided(v, r, PlayingRole(v, r))
  ELSE ReadyRole(v, r)

Table(r) == [view[r] EXCEPT ![r] = Own(r)]

Others(r) == up \ {r}

(* Nothing is sent or the broadcast is lost, or only deaf robots miss it   *)
Heard(r) == {got \in SUBSET Others(r) : got = {} \/ Others(r) \ got \subseteq Deaf}

(* Of those that miss it, the deaf may still have it in their queue        *)
HeldBack(r, got) ==
  SUBSET (IF r \in Faulty THEN (Others(r) \ got) \cap Deaf ELSE {})

(* The message of robot r is in the table of the robots in got by their    *)
(* next frame; those in late have it in a queue of their receiver          *)
(* (lua_TeamComm.cpp:456) for any time.  A message that is handed over     *)
(* takes an earlier one of the sender with it.                             *)
Send(r, got, late) ==
  /\ view' = [q \in Players |->
                IF q \in got THEN [view[q] EXCEPT ![r] = Own(r)] ELSE view[q]]
  /\ held' = [q \in Players |->
                CASE q \in late -> [held[q] EXCEPT ![r] = Own(r)]
                  [] q \in got  -> [held[q] EXCEPT ![r] = Absent]
                  [] OTHER      -> held[q]]

(* One frame of robot r, heard by one of the sets in hearing               *)
Update(r, hearing) ==
  /\ r \in up
  /\ \E got \in hearing : \E late \in HeldBack(r, got) : Send(r, got, late)
  /\ \E table \in {Table(r)} : role' = [role EXCEPT ![r] = NewRole(table, r)]
  /\ UNCHANGED <<layout, playing, handicap, penalised, up, faults>>

(* Robot r is handed the message of q that its receiver held back; it is   *)
(* as good as new to it (tReceive)                                         *)
HandOver(r, q) ==
  /\ r \in up /\ held[r][q].known
  /\ view' = [view EXCEPT ![r][q] = held[r][q]]
  /\ held' = [held EXCEPT ![r][q] = Absent]
  /\ UNCHANGED <<layout, playing, role, handicap, penalised, up, faults>>

-----------------------------------------------------------------------------
(* The rest of the world.                                                  *)
Fault == faults < MaxFaults /\ faults' = faults + 1

(* msgTimeout without a message of a robot                                 *)
Lapse(r, q) ==
  /\ r \in up /\ view[r][q].known /\ ~view[r][q].old
  /\ IF q \in up THEN q \in Faulty /\ Fault ELSE UNCHANGED faults
  /\ view' = [view EXCEPT ![r][q].old = TRUE]
  /\ UNCHANGED <<layout, playing, role, handicap, held, penalised, up>>

Crash(r) ==
  /\ r \in up /\ r \in Faulty /\ Fault
  /\ up' = up \ {r}
  /\ UNCHANGED <<layout, playing, role, handicap, view, held, penalised>>

(* The table and the receiver's queue are lost, and loading gcm.lua puts   *)
(* the configured role and game state -1 over what the shared memory held  *)
Restart(r) ==
  /\ r \notin up
  /\ up' = up \cup {r}
  /\ view' = [view EXCEPT ![r] = Nobody] /\ held' = [held EXCEPT ![r] = Nobody]
  /\ role' = [role EXCEPT ![r] = ConfigRole(r)]
  /\ playing' = playing \ {r}
  /\ UNCHANGED <<layout, handicap, penalised, faults>>

Penalise(r) ==
  /\ r \notin penalised /\ r \in Faulty /\ Fault
  /\ penalised' = penalised \cup {r}
  /\ UNCHANGED <<layout, playing, role, handicap, view, held, up>>

Return(r) ==
  /\ r \in penalised
  /\ penalised' = penalised \ {r}
  /\ UNCHANGED <<layout, playing, role, handicap, view, held, up, faults>>

(* A robot falls or loses its bearings, and finds its feet again           *)
Stumble(r, h) ==
  /\ handicap[r] = 0 /\ h # 0 /\ r \in Faulty /\ Fault
  /\ handicap' = [handicap EXCEPT ![r] = h]
  /\ UNCHANGED <<layout, playing, role, view, held, penalised, up>>

Recover(r) ==
  /\ handicap[r] # 0
  /\ handicap' = [handicap EXCEPT ![r] = 0]
  /\ UNCHANGED <<layout, playing, role, view, held, penalised, up, faults>>

(* Robots or ball move, or a robot comes to see them otherwise             *)
Move(l) ==
  /\ l # layout /\ Fault
  /\ layout' = l
  /\ UNCHANGED <<playing, role, handicap, view, held, penalised, up>>

(* The game controller's packets bring the robots to Playing, some sooner  *)
(* than others, at the kickoff and again after a restart during the game   *)
Kickoff(heard) ==
  /\ heard # {} /\ (Players \ playing) \ heard \subseteq Deaf
  /\ playing' = playing \cup heard
  /\ UNCHANGED <<layout, role, handicap, view, held, penalised, up, faults>>

(* After a goal they are back in Ready, except those that miss the packets *)
Goal(heard) ==
  /\ heard # {} /\ playing \ heard \subseteq Deaf /\ Fault
  /\ playing' = playing \ heard
  /\ UNCHANGED <<layout, role, handicap, view, held, penalised, up>>

Next ==
  \/ \E r \in Players : Update(r, Heard(r))
  \/ \E r, q \in Players : r # q /\ (Lapse(r, q) \/ HandOver(r, q))
  \/ \E r \in Players : Crash(r) \/ Restart(r) \/ Penalise(r) \/ Return(r) \/ Recover(r)
  \/ \E r \in Players, h \in Handicaps : Stumble(r, h)
  \/ \E l \in Layouts : Move(l)
  \/ \E heard \in SUBSET (Players \ playing) : Kickoff(heard)
  \/ \E heard \in SUBSET playing : Goal(heard)

(***************************************************************************)
(* Frames keep running, a broadcast gets through now and then, and the     *)
(* entry of a crashed robot does grow old.  Nobody has to restart, to be   *)
(* released or to kick off, nor is a message ever owed that was held back. *)
(***************************************************************************)
Fairness ==
  /\ \A r \in Players : WF_vars(Update(r, {Others(r)}))
  /\ WF_vars(\E r \in Players, q \in Players \ up : Lapse(r, q))

Spec == Init /\ [][Next]_vars /\ Fairness

-----------------------------------------------------------------------------
(***************************************************************************)
(*                               Properties                                *)
(***************************************************************************)
(* Every variable has its type; the last branch of the playing rules, "we  *)
(* should never get here" (TeamSPL.lua:686), is not reached.               *)
TypeOK ==
  /\ layout \in Layouts /\ playing \subseteq Players
  /\ role \in [Players -> Roles \ {"lost"}]
  /\ handicap \in [Players -> Handicaps]
  /\ view \in [Players -> [Players -> Entry]]
  /\ held \in [Players -> [Players -> Entry]]
  /\ penalised \subseteq Players /\ up \subseteq Players
  /\ faults \in 0 .. MaxFaults

Active == up \ penalised

(* The robots in play know each other's present entries, count on no other *)
(* and take the same one for the first at the ball; only that one stands   *)
(* at it.  They may differ about how far the others are.                   *)
Agreed ==
  /\ Active # {} /\ Active \subseteq playing
  /\ \A r \in Active : /\ Ranked(Table(r)) = Active
                       /\ \A q \in Active : Table(r)[q] = Own(q)
  /\ \E f \in Active : /\ \A r \in Active : EtaPos(Table(r), r, f) = 1
                        /\ layout.near \cap Active \subseteq {f}
NextHolding(s) == Cardinality({r \in Active : NewRole(Table(r), r) \in s})

(* A team that agrees deals out each role of the table at TeamSPL.lua:583  *)
(* once, although each robot decides for itself: for two and three field   *)
(* players (the two defender roles taken together), and one attacker for   *)
(* any number.  An old entry of a fourth counts as alive and may make the  *)
(* supporter of three a second defender.                                   *)
AgreedRoles ==
  LET n == Cardinality(Active) IN
  Agreed =>
    /\ NextHolding({"attacker"}) = 1
    /\ n = 2 => NextHolding(Defenders) = 1
    /\ n = 3 /\ (\A r \in Active : Alive(Table(r)) = Active)
          => NextHolding(Defenders) = 1 /\ NextHolding({"supporter"}) = 1

(* The table at TeamSPL.lua:583 for up to three field players, the two     *)
(* defender roles taken together                                           *)
FollowTable ==
  LET n == Cardinality(Active)
      Holding(s) == Cardinality({r \in Active : role[r] \in s})
  IN  /\ n >= 1 => Holding({"attacker"}) = 1
      /\ n >= 2 => Holding(Defenders) = 1
      /\ n = 3  => Holding({"supporter"}) = 1

(* The layouts in which the robots see the same order at the ball,         *)
(* whatever roles and handicaps their team mates report                    *)
SameOrder ==
  {l \in Layouts : \A p, q, r, s \in Players, x, y \in Extras :
                     (l.eta[r][p] + x < l.eta[r][q] + y) <=>
                     (l.eta[s][p] + x < l.eta[s][q] + y)}

(* Once the faults are over, the robots still in play end up sharing the   *)
(* roles as in the table and keep them: a crashed or penalised attacker is *)
(* replaced and the roles do not go round in circles, whatever messages    *)
(* turn up late.  Robots that go on seeing the order at the ball           *)
(* differently may have two attackers or none.  Before the kickoff         *)
(* this needs all robots up: a crashed one is counted there for ever.      *)
RolesSettle ==
  <>[]((\/ layout \in SameOrder /\ Active \subseteq playing
        \/ playing = {} /\ up = Players)
         => FollowTable)
=============================================================================
