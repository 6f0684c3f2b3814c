-------------------------- MODULE GameControlProofs --------------------------
(***************************************************************************)
(* The safety of module GameControl for every set of announcements and     *)
(* penalties and any number of datagrams drained at once.                  *)
(*                                                                         *)
(* The invariant adds to the types what the three actors rely on: the age  *)
(* of lastUpdate never exceeds the true silence of the controller, and a   *)
(* whistle that is not new is about to be cleared by an update_shm() which *)
(* began after the game left Set.                                          *)
(***************************************************************************)
EXTENDS GameControl, TLAPS

\* What control is built from.
IsControl(c) ==
  c = [gameState |-> c.gameState, penalty |-> c.penalty,
       updateAge |-> c.updateAge, pressed |-> c.pressed]

Codes == Penalties \union {1 - p : p \in Penalties} \union {0, 1}

ControlOK(c) ==
  /\ IsControl(c)
  /\ c.gameState \in 0..4
  /\ c.penalty \in Codes
  /\ c.updateAge \in 0..Old
  /\ c.pressed \in BOOLEAN

\* A report is new, or update_shm() will clear it.
Clears ==
  whistle = 1 =>
    reported \/ (pc \in {"whistle", "state", "clear"} /\ control.gameState # 2)

IInv ==
  /\ TypeOK
  /\ IsControl(control)
  /\ control.updateAge <= silence
  /\ Clears
  /\ OneKickoff

\* Toggling stays within the codes and always crosses zero: 1 - p is a
\* penalty exactly when p is none.
LEMMA ToggledCrossesZero ==
  ASSUME NEW p \in Codes
  PROVE  /\ Toggled(p) \in Codes
         /\ p \in Int
         /\ Toggled(p) > 0 <=> ~(p > 0)
<1>1. p \in Int
  BY PenaltiesAssumption DEF Codes
<1>2. Toggled(p) \in Codes
  <2>1. CASE p \in Penalties \union {0, 1}
    BY <2>1 DEF Codes, Toggled
  <2>2. CASE \E q \in Penalties : p = 1 - q
    <3>1. PICK q \in Penalties : p = 1 - q
      BY <2>2
    <3>2. Toggled(p) = q
      BY <3>1, PenaltiesAssumption DEF Toggled
    <3> QED
      BY <3>2 DEF Codes
  <2> QED
    BY <2>1, <2>2 DEF Codes
<1> QED
  BY <1>1, <1>2 DEF Toggled

\* The first half of update(): a fresh packet of ours resets lastUpdate.
LEMMA FollowPacketOK ==
  ASSUME NEW c, ControlOK(c), NEW packet \in Ours \union {Foreign, None},
         NEW age \in 0..Old
  PROVE  LET n == FollowPacket(c, packet, age)
         IN /\ ControlOK(n)
            /\ n.updateAge <= c.updateAge
            /\ packet.kind = "ours" /\ age = 0 => n.updateAge = 0
            /\ n.updateAge = c.updateAge \/ n.updateAge = 0
            /\ n.pressed = c.pressed
            /\ n.updateAge > TenSeconds => n = c
<1>1. CASE packet.kind = "ours" /\ age < TenSeconds
  <2>1. packet \in Ours
    BY <1>1 DEF Foreign, None
  <2>2. packet.state \in 0..4 /\ packet.penalty \in Codes
    BY <2>1, AnnouncementsAssumption DEF Ours, Codes
  <2>3. FollowPacket(c, packet, age)
          = [gameState |-> packet.state, penalty |-> packet.penalty,
             updateAge |-> 0, pressed |-> c.pressed]
    BY <1>1 DEF FollowPacket, ControlOK, IsControl
  <2> QED
    BY <2>2, <2>3 DEF ControlOK, IsControl, Old, TenSeconds
<1>2. CASE ~(packet.kind = "ours" /\ age < TenSeconds)
  BY <1>2 DEF FollowPacket, ControlOK, Old, TenSeconds
<1> QED
  BY <1>1, <1>2

\* The second half: only an old lastUpdate lets the button in.
LEMMA UseButtonOK ==
  ASSUME NEW c, ControlOK(c), NEW down \in BOOLEAN
  PROVE  LET n == UseButton(c, down)
         IN /\ ControlOK(n)
            /\ n.updateAge = c.updateAge
            /\ c.updateAge <= TenSeconds => n = c
            /\ c.pressed /\ ~n.pressed /\ c.gameState = 3 => n.penalty = Toggled(c.penalty)
<1>1. CASE c.updateAge <= TenSeconds
  BY <1>1 DEF UseButton, ControlOK
<1>2. CASE ~(c.updateAge <= TenSeconds)
  <2> DEFINE released == c.pressed /\ ~down
             s == IF released /\ c.gameState < 3 THEN c.gameState + 1 ELSE c.gameState
             p == IF released /\ c.gameState = 3 THEN Toggled(c.penalty) ELSE c.penalty
  <2>1. UseButton(c, down)
          = [gameState |-> s, penalty |-> p, updateAge |-> c.updateAge, pressed |-> down]
    BY <1>2 DEF UseButton, ControlOK, IsControl
  <2>2. s \in 0..4
    BY DEF ControlOK
  <2>3. p \in Codes
    BY ToggledCrossesZero DEF ControlOK
  <2>4. c.pressed /\ ~down /\ c.gameState = 3 => p = Toggled(c.penalty)
    OBVIOUS
  <2> HIDE DEF s, p
  <2> QED
    BY <1>2, <2>1, <2>2, <2>3, <2>4 DEF ControlOK, IsControl
<1> QED
  BY <1>1, <1>2

\* What an update() does to silence, to the button and to the penalty: the
\* facts the two action properties need, with the invariant.
LEMMA UpdateOK ==
  ASSUME IInv, Update
  PROVE  /\ IInv'
         /\ control.pressed /\ ~control'.pressed => silence' > TenSeconds
         /\ control.pressed /\ ~control'.pressed /\ control.gameState = 3
              => control'.penalty = Toggled(control.penalty)
<1>1. PICK arrived \in Arrivals, down \in BOOLEAN :
      \E packet \in IF Good(arrived) = {} THEN {cached} ELSE Newest(arrived) :
       LET age == IF arrived = <<>> THEN recvAge ELSE 0
           followed == FollowPacket(control, packet, age)
           publishes == \/ packet.kind = "ours" /\ age < TenSeconds
                        \/ followed.updateAge > TenSeconds
       IN /\ cached' = packet
          /\ recvAge' = age
          /\ control' = UseButton(followed, down)
          /\ pc' = IF publishes THEN "whistle" ELSE "update"
          /\ silence' = IF Good(arrived) # {} /\ packet.kind = "ours" THEN 0
                       ELSE silence
          /\ reported' = (reported /\ ~(publishes /\ control'.gameState # 2))
  BY DEF Update
<1>2. PICK packet \in IF Good(arrived) = {} THEN {cached} ELSE Newest(arrived) :
       LET age == IF arrived = <<>> THEN recvAge ELSE 0
           followed == FollowPacket(control, packet, age)
           publishes == \/ packet.kind = "ours" /\ age < TenSeconds
                        \/ followed.updateAge > TenSeconds
       IN /\ cached' = packet
          /\ recvAge' = age
          /\ control' = UseButton(followed, down)
          /\ pc' = IF publishes THEN "whistle" ELSE "update"
          /\ silence' = IF Good(arrived) # {} /\ packet.kind = "ours" THEN 0
                       ELSE silence
          /\ reported' = (reported /\ ~(publishes /\ control'.gameState # 2))
  BY <1>1
<1> DEFINE age == IF arrived = <<>> THEN recvAge ELSE 0
           followed == FollowPacket(control, packet, age)
           publishes == \/ packet.kind = "ours" /\ age < TenSeconds
                        \/ followed.updateAge > TenSeconds
<1>3. /\ cached' = packet
      /\ recvAge' = age
      /\ control' = UseButton(followed, down)
      /\ pc' = IF publishes THEN "whistle" ELSE "update"
      /\ silence' = IF Good(arrived) # {} /\ packet.kind = "ours" THEN 0 ELSE silence
      /\ reported' = (reported /\ ~(publishes /\ control'.gameState # 2))
      /\ pc = "update" /\ announced' = announced /\ whistle' = whistle
      /\ gcmState' = gcmState /\ gcmPenalty' = gcmPenalty /\ ear' = ear
  BY <1>2 DEF Update
<1>4. ControlOK(control)
  BY DEF IInv, TypeOK, ControlOK, Codes
<1>5. packet \in Ours \union {Foreign, None}
  <2>1. CASE Good(arrived) = {}
    BY <2>1 DEF IInv, TypeOK
  <2>2. CASE Good(arrived) # {}
    <3>1. PICK i \in Good(arrived) : packet = arrived[i]
      BY <2>2 DEF Newest
    <3>2. arrived[i] \in {Junk, Foreign, announced} /\ arrived[i] # Junk
      BY <3>1 DEF Good, Arrivals
    <3> QED
      BY <3>1, <3>2 DEF IInv, TypeOK
  <2> QED
    BY <2>1, <2>2
<1>6. age \in 0..Old
  BY DEF IInv, TypeOK, Old
<1>7. Good(arrived) # {} => age = 0
  <2>1. arrived = <<>> => Good(arrived) = {}
    BY DEF Good
  <2> QED
    BY <2>1
<1>8. /\ ControlOK(followed)
      /\ followed.updateAge <= control.updateAge
      /\ packet.kind = "ours" /\ age = 0 => followed.updateAge = 0
      /\ followed.updateAge > TenSeconds => followed = control
      /\ followed.pressed = control.pressed
  <2> HIDE DEF age
  <2> QED
    BY <1>4, <1>5, <1>6, FollowPacketOK
<1> HIDE DEF followed
<1>9. /\ ControlOK(control')
      /\ control'.updateAge = followed.updateAge
      /\ followed.updateAge <= TenSeconds => control' = followed
      /\ followed.pressed /\ ~control'.pressed /\ followed.gameState = 3
           => control'.penalty = Toggled(followed.penalty)
  BY <1>3, <1>8, UseButtonOK
<1>10. control'.updateAge <= silence'
  <2>1. control.updateAge <= silence /\ control.updateAge \in Int /\ silence \in Int
        /\ followed.updateAge \in Int
    BY <1>8 DEF IInv, TypeOK, Old, ControlOK
  <2>2. CASE Good(arrived) # {} /\ packet.kind = "ours"
    BY <1>3, <1>7, <1>8, <1>9, <2>2
  <2>3. CASE ~(Good(arrived) # {} /\ packet.kind = "ours")
    <3>1. silence' = silence
      BY <1>3, <2>3
    <3> QED
      BY <1>8, <1>9, <2>1, <3>1
  <2> QED
    BY <2>2, <2>3
<1>11. Clears'
  <2>1. whistle' = 1 => reported
    BY <1>3 DEF IInv, Clears
  <2> HIDE DEF publishes
  <2>2. CASE publishes /\ control'.gameState # 2
    BY <1>3, <2>2 DEF Clears
  <2>3. CASE ~(publishes /\ control'.gameState # 2)
    BY <1>3, <2>1, <2>3 DEF Clears
  <2> QED
    BY <2>2, <2>3
<1>12. TypeOK' /\ IsControl(control)'
  <2>1. silence' \in 0..Old /\ reported' \in BOOLEAN
    BY <1>3 DEF IInv, TypeOK, Old
  <2>2. pc' \in {"update", "whistle"}
    BY <1>3
  <2> QED
    BY <1>3, <1>5, <1>6, <1>9, <2>1, <2>2 DEF IInv, TypeOK, ControlOK, Codes
<1>13. OneKickoff'
  BY <1>3 DEF OneKickoff
<1>14. control.pressed /\ ~control'.pressed => followed = control /\ silence' > TenSeconds
  <2>1. control.pressed /\ ~control'.pressed => followed.updateAge > TenSeconds
    <3>1. followed.updateAge > TenSeconds \/ followed.updateAge <= TenSeconds
      BY <1>8 DEF ControlOK, TenSeconds, Old
    <3>2. followed.updateAge <= TenSeconds => control'.pressed = control.pressed
      BY <1>8, <1>9
    <3> QED
      BY <3>1, <3>2, Zenon
  <2>2. silence' \in Int /\ followed.updateAge \in Int
    BY <1>8, <1>12 DEF TypeOK, ControlOK, Old
  <2> QED
    BY <1>8, <1>9, <1>10, <2>1, <2>2 DEF TenSeconds
<1> QED
  BY <1>9, <1>10, <1>11, <1>12, <1>13, <1>14 DEF IInv

\* Every step keeps the invariant.
LEMMA NextOK ==
  ASSUME IInv, [Next]_vars
  PROVE  IInv'
<1> USE DEF IInv, TypeOK, Clears, OneKickoff
<1>1. CASE Update
  BY <1>1, UpdateOK
<1>2. CASE ReadWhistle
  BY <1>2 DEF ReadWhistle, IsControl
<1>3. CASE WriteState
  BY <1>3 DEF WriteState, IsControl
<1>4. CASE ClearWhistle
  BY <1>4 DEF ClearWhistle, IsControl
<1>5. CASE WritePenalty
  BY <1>5 DEF WritePenalty, IsControl
<1>6. CASE CheckSet \/ CheckFlag \/ Listen
  BY <1>6 DEF CheckSet, CheckFlag, Listen, IsControl
<1>7. CASE WritePlaying
  BY <1>7 DEF WritePlaying, IsControl
<1>8. CASE WriteWhistle
  BY <1>8 DEF WriteWhistle, IsControl
<1>9. CASE Announce
  BY <1>9 DEF Announce, IsControl
<1>10. CASE Tick
  <2>1. /\ control' = [gameState |-> control.gameState, penalty |-> control.penalty,
                       updateAge |-> Older(control.updateAge),
                       pressed |-> control.pressed]
        /\ recvAge' = Older(recvAge) /\ silence' = Older(silence)
        /\ UNCHANGED <<announced, cached, pc, gcmState, gcmPenalty, whistle, ear,
                       reported>>
    BY <1>10 DEF Tick, IsControl
  <2>2. /\ \A a \in 0..Old : Older(a) \in 0..Old
        /\ \A a, b \in 0..Old : a <= b => Older(a) <= Older(b)
    BY DEF Older, Old
  <2> QED
    BY <2>1, <2>2 DEF IsControl
<1>11. CASE UNCHANGED vars
  BY <1>11 DEF vars, IsControl
<1> QED
  BY <1>1, <1>2, <1>3, <1>4, <1>5, <1>6, <1>7, <1>8, <1>9, <1>10, <1>11
     DEF Next, Publish, Detector

\* The inductive invariant holds in every reachable state.
THEOREM Invariance == Spec => []IInv
<1>1. Init => IInv
  <2> SUFFICES ASSUME Init PROVE IInv
    OBVIOUS
  <2>1. /\ control.gameState = 0 /\ control.penalty = 0 /\ control.updateAge = 3
        /\ control.pressed = FALSE /\ IsControl(control)
    BY DEF Init, IsControl, Old
  <2>2. TypeOK
    <3>1. /\ announced \in Ours /\ cached = None /\ recvAge \in 0..Old
          /\ pc = "update" /\ ear = "state" /\ whistle = 0 /\ gcmState = -1
          /\ gcmPenalty = 0 /\ silence \in 0..Old /\ reported = FALSE
      BY DEF Init, Old
    <3>2. gcmState \in -1..4
      BY <3>1
    <3>3. control.updateAge \in 0..Old /\ control.gameState \in 0..4
      BY <2>1 DEF Old
    <3> QED
      BY <2>1, <3>1, <3>2, <3>3 DEF TypeOK
  <2> QED
    BY <2>1, <2>2 DEF Init, IInv, Clears, OneKickoff, Old
<1> QED
  BY <1>1, NextOK, PTL DEF Spec

\* TypeOK: types and ranges, among them that toggled penalties stay within the
\* codes of the controller and their mirror images.
THEOREM TypeCorrect == Spec => []TypeOK
<1>1. IInv => TypeOK
  BY DEF IInv
<1> QED
  BY <1>1, Invariance, PTL

\* OneKickoff: a whistle reported in one Set never starts the play in another.
THEOREM OneWhistleOneKickoff == Spec => []OneKickoff
<1>1. IInv => OneKickoff
  BY DEF IInv
<1> QED
  BY <1>1, Invariance, PTL

\* ButtonsOnlyInSilence: the button is obeyed only after ten seconds without
\* a packet of the controller.
THEOREM ButtonNeedsSilence == Spec => ButtonsOnlyInSilence
<1> DEFINE P == control.pressed /\ ~control'.pressed => silence' > TenSeconds
<1>1. IInv /\ [Next]_vars => [P]_vars
  <2> SUFFICES ASSUME IInv, Next PROVE P
    OBVIOUS
  <2>1. CASE Update
    BY <2>1, UpdateOK
  <2>2. CASE ~Update
    <3>1. control'.pressed = control.pressed
      BY <2>2 DEF Next, Publish, Detector, ReadWhistle, WriteState, ClearWhistle,
         WritePenalty, CheckSet, CheckFlag, Listen, WritePlaying, WriteWhistle,
         Announce, Tick, IInv, IsControl
    <3> QED
      BY <3>1, Zenon
  <2> QED
    BY <2>1, <2>2
<1> QED
  BY <1>1, Invariance, PTL DEF Spec, ButtonsOnlyInSilence

\* ButtonFlipsPenalty: each release of the button in Playing takes the penalty
\* to the other side of zero, whatever code it was.
THEOREM ButtonFlips == Spec => ButtonFlipsPenalty
<1> DEFINE P == control.pressed /\ ~control'.pressed /\ control.gameState = 3
                  => (control'.penalty > 0 <=> ~(control.penalty > 0))
<1>1. IInv /\ [Next]_vars => [P]_vars
  <2> SUFFICES ASSUME IInv, Next PROVE P
    OBVIOUS
  <2>1. CASE Update
    <3>1. control.penalty \in Codes
      BY DEF IInv, TypeOK, Codes
    <3>2. Toggled(control.penalty) > 0 <=> ~(control.penalty > 0)
      BY <3>1, ToggledCrossesZero
    <3> QED
      BY <2>1, <3>2, UpdateOK
  <2>2. CASE ~Update
    <3>1. control'.pressed = control.pressed
      BY <2>2 DEF Next, Publish, Detector, ReadWhistle, WriteState, ClearWhistle,
         WritePenalty, CheckSet, CheckFlag, Listen, WritePlaying, WriteWhistle,
         Announce, Tick, IInv, IsControl
    <3> QED
      BY <3>1, Zenon
  <2> QED
    BY <2>1, <2>2
<1> QED
  BY <1>1, Invariance, PTL DEF Spec, ButtonFlipsPenalty
=============================================================================
