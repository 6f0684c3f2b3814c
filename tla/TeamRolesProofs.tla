--------------------------- MODULE TeamRolesProofs ---------------------------
(***************************************************************************)
(* What the role assignment promises for every set of field players, every *)
(* layout and every choice of the bonuses, handicaps, deaf and faulty      *)
(* robots: no role falls through the rules, and robots that agree deal out *)
(* the roles as if one of them decided.                                    *)
(*                                                                         *)
(* The argument for the second: the robots may differ about the time to    *)
(* the ball but not about who is first there, and with equal entries       *)
(* everybody sorts by the same distance to the goal, Reach.  Among the     *)
(* others than the first one is nearest to the goal, and it is the only    *)
(* one the defender's rule describes, because that rule looks past the     *)
(* attacker.                                                               *)
(***************************************************************************)
EXTENDS TeamRoles, FiniteSetTheorems, NaturalsInduction, TLAPS

NamedRoles == Roles \ {"lost"}

\* There are one to four field players.
LEMMA PlayersFinite ==
  /\ IsFiniteSet(Players) /\ Cardinality(Players) \in 1 .. 4
  /\ \A S \in SUBSET Players :
        /\ IsFiniteSet(S) /\ Cardinality(S) \in 0 .. 4
        /\ S # {} => Cardinality(S) \in 1 .. 4
<1>1. IsFiniteSet(2 .. 5) /\ Cardinality(2 .. 5) = 4
  <2>1. IsFiniteSet(2 .. 5) /\ Cardinality(2 .. 5) = IF 2 > 5 THEN 0 ELSE 5 - 2 + 1
    BY FS_Interval, 2 \in Int, 5 \in Int
  <2> QED
    BY <2>1
<1>2. ASSUME NEW S \in SUBSET (2 .. 5)
      PROVE  /\ IsFiniteSet(S) /\ Cardinality(S) \in 0 .. 4
             /\ S # {} => Cardinality(S) \in 1 .. 4
  <2>1. IsFiniteSet(S) /\ Cardinality(S) <= 4
    BY <1>1, FS_Subset
  <2>2. Cardinality(S) \in Nat /\ (S # {} => Cardinality(S) # 0)
    BY <2>1, FS_CardinalityType, FS_EmptySet
  <2>3. Cardinality(S) \in 0 .. 4
    BY <2>1, <2>2
  <2> QED
    BY <2>1, <2>2, <2>3
<1>3. Players \subseteq 2 .. 5 /\ Players # {}
  BY TeamRolesAssumption
<1> QED
  BY <1>2, <1>3

\* A set of two is not empty nor a singleton.
LEMMA CardFacts ==
  ASSUME NEW S \in SUBSET Players
  PROVE  /\ Cardinality(S) = 0 <=> S = {}
         /\ Cardinality(S) = 1 <=> \E x \in S : S = {x}
         /\ \A x \in S : /\ IsFiniteSet(S \ {x})
                         /\ Cardinality(S \ {x}) = Cardinality(S) - 1
<1>1. IsFiniteSet(S) /\ Cardinality(S) \in Nat
  BY PlayersFinite
<1>2. Cardinality(S) = 0 <=> S = {}
  BY <1>1, FS_EmptySet
<1>3. Cardinality(S) = 1 <=> \E x : S = {x}
  BY <1>1, FS_Singleton
<1>4. \A x \in S : IsFiniteSet(S \ {x}) /\ Cardinality(S \ {x}) = Cardinality(S) - 1
  BY <1>1, FS_RemoveElement
<1> QED
  BY <1>2, <1>3, <1>4

\* What a robot that is in play tells of itself.
LEMMA OwnFacts ==
  ASSUME NEW q, q \notin penalised
  PROVE  /\ Own(q).known /\ ~Own(q).penalty /\ ~Own(q).old
         /\ Own(q).role = role[q] /\ Own(q).handicap = handicap[q]
<1>1. Own(q).penalty = (q \in penalised)
  BY DEF Own
<1>2. ~Own(q).penalty
  BY <1>1, Zenon
<1> QED
  BY <1>2 DEF Own

\* The entry a robot has for itself.
LEMMA TableFacts ==
  ASSUME TypeOK, NEW r \in Players
  PROVE  /\ Table(r)[r] = Own(r)
         /\ \A q \in Players \ {r} : Table(r)[q] = view[r][q]
         /\ Alive(Table(r)) \subseteq Players
         /\ Ranked(Table(r)) \subseteq Alive(Table(r))
         /\ r \notin penalised => r \in Ranked(Table(r))
<1>1. view[r] \in [Players -> Entry]
  BY DEF TypeOK
<1>2. /\ Table(r)[r] = Own(r)
      /\ \A q \in Players \ {r} : Table(r)[q] = view[r][q]
  BY <1>1 DEF Table
<1>3. role[r] \in NamedRoles
  BY DEF TypeOK, NamedRoles
<1>4. r \notin penalised => r \in Ranked(Table(r))
  BY <1>2, <1>3, OwnFacts DEF Ranked, Alive, NamedRoles
<1> QED
  BY <1>2, <1>4 DEF Ranked, Alive

-----------------------------------------------------------------------------
(* The rules *)

\* The side decides between the defender roles only.
LEMMA SidedFacts ==
  ASSUME NEW v, NEW r, NEW new \in NamedRoles
  PROVE  /\ Sided(v, r, new) \in NamedRoles
         /\ Sided(v, r, new) \in Defenders <=> new \in Defenders
         /\ new \notin Defenders => Sided(v, r, new) = new
BY DEF Sided, Defenders, NamedRoles, Roles

\* What the playing rules say, with the counts left open.
LEMMA PlayingFacts ==
  ASSUME NEW v, NEW r, Cardinality(Alive(v)) \in 1 .. 4
  PROVE  LET n == Cardinality(Alive(v))
             attacks == EtaPos(v, r, r) = 1 \/ n = 1 \/ r \in layout.near
             defends == DDefPos(v, r) = 1 \/ n = 2
                          \/ (DDefPos(v, r) = 2 /\ DDefPos(v, Fastest(v, r)) = 1)
         IN  /\ PlayingRole(v, r) \in NamedRoles
             /\ PlayingRole(v, r) = "attacker" <=> attacks
             /\ ~attacks /\ defends => PlayingRole(v, r) = "defender"
             /\ ~attacks /\ ~defends /\ n = 3 => PlayingRole(v, r) = "supporter"
             /\ ~attacks /\ ~defends /\ n = 4 =>
                  PlayingRole(v, r) = IF EtaPos(v, r, r) = 2 \/ DDefPos(v, r) = 4
                                        THEN "supporter" ELSE "defender2"
<1> DEFINE n == Cardinality(Alive(v))
           attacks == EtaPos(v, r, r) = 1 \/ n = 1 \/ r \in layout.near
           defends == DDefPos(v, r) = 1 \/ n = 2
                        \/ (DDefPos(v, r) = 2 /\ DDefPos(v, Fastest(v, r)) = 1)
           last == n = 4 /\ (EtaPos(v, r, r) = 2 \/ DDefPos(v, r) = n)
           rest == n = 4 /\ EtaPos(v, r, r) # 2 /\ DDefPos(v, r) # n
<1>1. PlayingRole(v, r) =
        CASE attacks -> "attacker"
          [] OTHER -> CASE defends -> "defender"
                        [] OTHER -> CASE n = 3 -> "supporter"
                                      [] last -> "supporter"
                                      [] rest -> "defender2"
                                      [] OTHER -> "lost"
  BY DEF PlayingRole
<1>2. n = 1 => attacks
  OBVIOUS
<1>3. n = 2 => defends
  OBVIOUS
<1>4. n = 4 => last \/ rest
  OBVIOUS
<1>5. ~attacks /\ ~defends => n = 3 \/ n = 4
  BY <1>2, <1>3
<1>6. n = 3 => ~last /\ ~rest
  OBVIOUS
<1>7. n = 4 => /\ last <=> EtaPos(v, r, r) = 2 \/ DDefPos(v, r) = 4
               /\ rest <=> ~last
  OBVIOUS
<1> HIDE DEF n, attacks, defends, last, rest
<1>8. /\ PlayingRole(v, r) \in NamedRoles
      /\ PlayingRole(v, r) = "attacker" <=> attacks
      /\ ~attacks /\ defends => PlayingRole(v, r) = "defender"
      /\ ~attacks /\ ~defends /\ n = 3 => PlayingRole(v, r) = "supporter"
  <2>1. CASE attacks
    BY <1>1, <2>1 DEF NamedRoles, Roles
  <2>2. CASE ~attacks /\ defends
    BY <1>1, <2>2 DEF NamedRoles, Roles
  <2>3. CASE ~attacks /\ ~defends /\ n = 3
    BY <1>1, <1>6, <2>3 DEF NamedRoles, Roles
  <2>4. CASE ~attacks /\ ~defends /\ n # 3
    <3>1. last \/ rest
      BY <1>4, <1>5, <2>4
    <3>2. PlayingRole(v, r) \in {"supporter", "defender2"}
      BY <1>1, <2>4, <3>1
    <3> QED
      BY <2>4, <3>2 DEF NamedRoles, Roles
  <2> QED
    BY <2>1, <2>2, <2>3, <2>4
<1>9. ~attacks /\ ~defends /\ n = 4 =>
        PlayingRole(v, r) = IF EtaPos(v, r, r) = 2 \/ DDefPos(v, r) = 4
                              THEN "supporter" ELSE "defender2"
  <2> SUFFICES ASSUME ~attacks, ~defends, n = 4
               PROVE  PlayingRole(v, r) = IF last THEN "supporter" ELSE "defender2"
    BY <1>7
  <2>1. n # 3
    OBVIOUS
  <2> QED
    BY <1>1, <1>7, <2>1
<1> QED
  BY <1>8, <1>9 DEF n, attacks, defends

\* No rule leaves a robot without a role.
LEMMA NewRoleType ==
  ASSUME TypeOK, NEW r \in Players
  PROVE  NewRole(Table(r), r) \in NamedRoles
<1>1. CASE r \in penalised
  BY <1>1 DEF NewRole, TypeOK, NamedRoles
<1>2. CASE r \notin penalised /\ r \in playing
  <2>1. Cardinality(Alive(Table(r))) \in 1 .. 4
    BY <1>2, TableFacts, PlayersFinite
  <2> QED
    BY <1>2, <2>1, PlayingFacts, SidedFacts DEF NewRole
<1>3. CASE r \notin penalised /\ r \notin playing
  <2>1. ReadyRole(Table(r), r) \in NamedRoles
    BY DEF ReadyRole, NamedRoles, Roles
  <2> QED
    BY <1>3, <2>1 DEF NewRole
<1> QED
  BY <1>1, <1>2, <1>3

-----------------------------------------------------------------------------
(* Types *)

\* A robot that has not been heard of.
LEMMA AbsentType == Absent \in Entry /\ Nobody \in [Players -> Entry]
<1>1. 0 \in Handicaps
  BY TeamRolesAssumption
<1>2. Absent \in Entry
  BY <1>1 DEF Absent, Entry, Roles
<1> QED
  BY <1>2 DEF Nobody

\* What a robot tells of itself.
LEMMA OwnType == ASSUME TypeOK, NEW r \in Players PROVE Own(r) \in Entry
<1>1. role[r] \in Roles /\ handicap[r] \in Handicaps
  BY DEF TypeOK
<1>2. (r \in penalised) \in BOOLEAN
  OBVIOUS
<1> QED
  BY <1>1, <1>2 DEF Own, Entry

\* The robots start with the configured roles and know nobody.
LEMMA InitType == Init => TypeOK
<1> SUFFICES ASSUME Init PROVE TypeOK
  OBVIOUS
<1>1. \A q \in Players : ConfigRole(q) \in NamedRoles
  <2>1. \A q \in 2 .. 5 : ConfigRole(q) \in NamedRoles
    BY DEF ConfigRole, NamedRoles, Roles
  <2> QED
    BY <2>1, TeamRolesAssumption
<1>2. Nobody \in [Players -> Entry]
  BY AbsentType
<1>3. MaxFaults \in Nat /\ 0 \in Handicaps
  BY TeamRolesAssumption
<1> QED
  BY <1>1, <1>2, <1>3 DEF Init, TypeOK, NamedRoles

\* Every step keeps the types.
LEMMA NextType == TypeOK /\ [Next]_vars => TypeOK'
<1> SUFFICES ASSUME TypeOK, [Next]_vars PROVE TypeOK'
  OBVIOUS
<1>1. ASSUME NEW r \in Players, Update(r, Heard(r))
      PROVE  TypeOK'
  <2>1. PICK got, late : Send(r, got, late)
    BY <1>1 DEF Update
  <2>2. Own(r) \in Entry /\ Absent \in Entry
    BY OwnType, AbsentType
  <2>3. view' \in [Players -> [Players -> Entry]]
    <3>1. \A q \in Players : view[q] \in [Players -> Entry]
      BY DEF TypeOK
    <3>2. \A q \in Players : [view[q] EXCEPT ![r] = Own(r)] \in [Players -> Entry]
      BY <2>2, <3>1
    <3> QED
      BY <2>1, <3>1, <3>2 DEF Send
  <2>4. held' \in [Players -> [Players -> Entry]]
    <3>1. \A q \in Players : held[q] \in [Players -> Entry]
      BY DEF TypeOK
    <3>2. \A q \in Players : /\ [held[q] EXCEPT ![r] = Own(r)] \in [Players -> Entry]
                             /\ [held[q] EXCEPT ![r] = Absent] \in [Players -> Entry]
      BY <2>2, <3>1
    <3>3. ASSUME NEW q \in Players
          PROVE  (CASE q \in late -> [held[q] EXCEPT ![r] = Own(r)]
                    [] q \in got  -> [held[q] EXCEPT ![r] = Absent]
                    [] OTHER      -> held[q]) \in [Players -> Entry]
      <4>1. CASE q \in late /\ q \in got
        BY <3>2, <4>1
      <4>2. CASE ~(q \in late /\ q \in got)
        BY <3>1, <3>2, <4>2
      <4> QED
        BY <4>1, <4>2
    <3> QED
      BY <2>1, <3>3 DEF Send
  <2>5. role' \in [Players -> NamedRoles]
    <3>1. role \in [Players -> NamedRoles]
      BY DEF TypeOK, NamedRoles
    <3>2. role' = [role EXCEPT ![r] = NewRole(Table(r), r)]
      BY <1>1 DEF Update
    <3> HIDE DEF NamedRoles
    <3> QED
      BY <3>1, <3>2, NewRoleType
  <2> QED
    BY <1>1, <2>3, <2>4, <2>5 DEF Update, TypeOK, NamedRoles
<1>2. ASSUME NEW r \in Players, NEW q \in Players, Lapse(r, q)
      PROVE  TypeOK'
  <2>1. faults' \in 0 .. MaxFaults
    BY <1>2, TeamRolesAssumption DEF Lapse, Fault, TypeOK
  <2>2. view' \in [Players -> [Players -> Entry]]
    <3>1. view[r] \in [Players -> Entry] /\ view[r][q] \in Entry
      BY DEF TypeOK
    <3>2. [view[r][q] EXCEPT !.old = TRUE] \in Entry
      BY <3>1 DEF Entry
    <3>3. view' = [view EXCEPT ![r] = [view[r] EXCEPT ![q] = [view[r][q] EXCEPT !.old = TRUE]]]
      BY <1>2 DEF Lapse
    <3> QED
      BY <3>1, <3>2, <3>3 DEF TypeOK
  <2> QED
    BY <1>2, <2>1, <2>2 DEF Lapse, TypeOK
<1>3. ASSUME NEW r \in Players, NEW q \in Players, HandOver(r, q)
      PROVE  TypeOK'
  <2>1. /\ view[r] \in [Players -> Entry] /\ held[r] \in [Players -> Entry]
        /\ held[r][q] \in Entry /\ Absent \in Entry
    BY AbsentType DEF TypeOK
  <2>2. /\ view' = [view EXCEPT ![r] = [view[r] EXCEPT ![q] = held[r][q]]]
        /\ held' = [held EXCEPT ![r] = [held[r] EXCEPT ![q] = Absent]]
    BY <1>3 DEF HandOver
  <2>3. /\ view' \in [Players -> [Players -> Entry]]
        /\ held' \in [Players -> [Players -> Entry]]
    BY <2>1, <2>2 DEF TypeOK
  <2> QED
    BY <1>3, <2>3 DEF HandOver, TypeOK
<1>4. ASSUME NEW r \in Players, Crash(r) \/ Penalise(r) \/ Return(r) \/ Recover(r)
      PROVE  TypeOK'
  <2>1. faults' \in 0 .. MaxFaults
    BY <1>4, TeamRolesAssumption DEF Crash, Penalise, Return, Recover, Fault, TypeOK
  <2> QED
    BY <1>4, <2>1, TeamRolesAssumption DEF Crash, Penalise, Return, Recover, TypeOK
<1>5. ASSUME NEW r \in Players, Restart(r)
      PROVE  TypeOK'
  <2>1. ConfigRole(r) \in NamedRoles
    <3>1. r \in 2 .. 5
      BY TeamRolesAssumption
    <3> QED
      BY <3>1 DEF ConfigRole, NamedRoles, Roles
  <2>2. /\ view' \in [Players -> [Players -> Entry]]
        /\ held' \in [Players -> [Players -> Entry]]
    BY <1>5, AbsentType DEF Restart, TypeOK
  <2> QED
    BY <1>5, <2>1, <2>2 DEF Restart, TypeOK, NamedRoles
<1>6. ASSUME NEW r \in Players, NEW h \in Handicaps, Stumble(r, h)
      PROVE  TypeOK'
  <2>1. faults' \in 0 .. MaxFaults
    BY <1>6, TeamRolesAssumption DEF Stumble, Fault, TypeOK
  <2> QED
    BY <1>6, <2>1 DEF Stumble, TypeOK
<1>7. ASSUME NEW l \in Layouts, Move(l)
      PROVE  TypeOK'
  <2>1. faults' \in 0 .. MaxFaults
    BY <1>7, TeamRolesAssumption DEF Move, Fault, TypeOK
  <2> QED
    BY <1>7, <2>1 DEF Move, TypeOK
<1>8. ASSUME NEW heard \in SUBSET Players, Kickoff(heard) \/ Goal(heard)
      PROVE  TypeOK'
  <2>1. faults' \in 0 .. MaxFaults
    BY <1>8, TeamRolesAssumption DEF Kickoff, Goal, Fault, TypeOK
  <2> QED
    BY <1>8, <2>1 DEF Kickoff, Goal, TypeOK
<1>9. CASE UNCHANGED vars
  BY <1>9 DEF vars, TypeOK
<1>10. playing \subseteq Players
  BY DEF TypeOK
<1> QED
  BY <1>1, <1>2, <1>3, <1>4, <1>5, <1>6, <1>7, <1>8, <1>9, <1>10 DEF Next

\* Types, for every team and every layout: in particular the branch "we
\* should never get here" of the rules is not reached, however old and
\* contradictory the entries of the tables are.
THEOREM TypeCorrect == Spec => []TypeOK
<1> QED
  BY InitType, NextType, PTL DEF Spec

-----------------------------------------------------------------------------
(* A team that agrees *)

\* The numbers robot r sorts by when the entries are the present ones.
Effort(r, q) ==
  layout.eta[r][q] + (IF role[q] = "attacker" THEN 0 ELSE NonAttacker) + handicap[q]
Reach(q) == layout.def[q] + (IF role[q] \in Defenders THEN 0 ELSE NonDefender)

\* Who is before q in the two orders.
Nearer(r, q) == {p \in Active : Effort(r, p) < Effort(r, q)}
Deeper(q) == {p \in Active : Reach(p) < Reach(q)}

\* A function into the naturals has a least value.
LEMMA Least ==
  ASSUME NEW S, S # {}, NEW f \in [S -> Nat]
  PROVE  \E m \in S : \A p \in S : f[m] <= f[p]
<1> DEFINE R == OpToRel(<, Nat)
           T == {f[p] : p \in S}
<1>1. IsWellFoundedOn(R, Nat)
  BY NatLessThanWellFounded
<1>2. T \subseteq Nat /\ T # {}
  OBVIOUS
<1>3. PICK x \in T : \A y \in T : ~ (<<y, x>> \in R)
  <2> HIDE DEF R, T
  <2> QED
    BY <1>1, <1>2, WFMin
<1>4. ASSUME NEW p \in S PROVE x <= f[p]
  <2>1. f[p] \in Nat /\ x \in Nat /\ f[p] \in T
    BY <1>2
  <2>2. f[p] < x => <<f[p], x>> \in R
    BY <2>1 DEF OpToRel
  <2>3. ~ (<<f[p], x>> \in R)
    BY <1>3, <2>1
  <2> HIDE DEF R, T
  <2> QED
    BY <2>1, <2>2, <2>3
<1> QED
  BY <1>3, <1>4

\* The orders are strict: no two robots tie.
LEMMA OrderFacts ==
  ASSUME TypeOK
  PROVE  /\ Active \subseteq Players
         /\ \A r, q \in Players : Effort(r, q) \in Nat
         /\ \A q \in Players : Reach(q) \in Nat
         /\ \A r, p, q \in Players : p # q => Effort(r, p) # Effort(r, q)
         /\ \A p, q \in Players : p # q => Reach(p) # Reach(q)
<1>1. /\ layout \in Layouts /\ NonAttacker \in Nat /\ NonDefender \in Nat
      /\ \A r, q \in Players : layout.eta[r][q] \in Nat
      /\ \A q \in Players : layout.def[q] \in Nat /\ handicap[q] \in Nat
  <2>1. /\ layout \in Layouts
        /\ layout.eta \in [Players -> [Players -> Nat]]
        /\ layout.def \in [Players -> Nat]
    BY TeamRolesAssumption DEF TypeOK
  <2>2. \A r \in Players : layout.eta[r] \in [Players -> Nat]
    BY <2>1
  <2>3. \A q \in Players : handicap[q] \in Handicaps
    BY DEF TypeOK
  <2> QED
    BY <2>1, <2>2, <2>3, TeamRolesAssumption
<1> DEFINE more(q) == (IF role[q] = "attacker" THEN 0 ELSE NonAttacker) + handicap[q]
<1>2. \A q \in Players : more(q) \in Nat /\ more(q) \in Extras
  BY <1>1 DEF TypeOK, Extras
<1>3. \A r, q \in Players : Effort(r, q) = layout.eta[r][q] + more(q)
  BY <1>1 DEF Effort
<1> HIDE DEF more
<1>4. ASSUME NEW p \in Players, NEW q \in Players, p # q
      PROVE  Reach(p) # Reach(q) /\ \A r \in Players : Effort(r, p) # Effort(r, q)
  <2>1. /\ \A r \in Players : layout.eta[r][p] + more(p) # layout.eta[r][q] + more(q)
        /\ layout.def[p] # layout.def[q]
        /\ layout.def[p] # layout.def[q] + NonDefender
        /\ layout.def[q] # layout.def[p] + NonDefender
    BY <1>1, <1>2, <1>4, NoTies
  <2>2. \A r \in Players : Effort(r, p) # Effort(r, q)
    BY <1>3, <2>1
  <2>3. Reach(p) # Reach(q)
    BY <1>1, <2>1 DEF Reach
  <2> QED
    BY <2>2, <2>3
<1>5. \A r, q \in Players : Effort(r, q) \in Nat
  BY <1>1, <1>2, <1>3
<1>6. \A q \in Players : Reach(q) \in Nat
  BY <1>1 DEF Reach
<1> QED
  BY <1>4, <1>5, <1>6 DEF Active, TypeOK

\* In a team that agrees a table gives the positions of the present entries.
LEMMA SamePositions ==
  ASSUME TypeOK, Agreed, NEW r \in Active, NEW q \in Active
  PROVE  /\ EtaPos(Table(r), r, q) = 1 + Cardinality(Nearer(r, q))
         /\ DDefPos(Table(r), q) = 1 + Cardinality(Deeper(q))
<1> DEFINE v == Table(r)
<1>1. Ranked(v) = Active /\ \A p \in Active : v[p] = Own(p)
  BY DEF Agreed
<1> HIDE DEF v
<1>2. ASSUME NEW p \in Active
      PROVE  Eta(v, r, p) = Effort(r, p) /\ DDef(v, p) = Reach(p)
  <2>1. v[p].role = role[p] /\ v[p].handicap = handicap[p]
    BY <1>1, OwnFacts DEF Active
  <2> QED
    BY <2>1 DEF Eta, Effort, DDef, Reach
<1>3. {p \in Ranked(v) : Eta(v, r, p) < Eta(v, r, q)} = Nearer(r, q)
  BY <1>1, <1>2 DEF Nearer
<1>4. {p \in Ranked(v) : DDef(v, p) < DDef(v, q)} = Deeper(q)
  BY <1>1, <1>2 DEF Deeper
<1> QED
  BY <1>3, <1>4 DEF EtaPos, DDefPos, v

\* All take f for the first at the ball; d is the first at the goal among the
\* others.
First(f) == /\ f \in Active /\ layout.near \cap Active \subseteq {f}
            /\ \A r \in Active : EtaPos(Table(r), r, f) = 1
Guard(f, d) == d \in Active \ {f} /\ \A p \in Active \ {f, d} : Reach(d) < Reach(p)

\* If somebody is left, one of them is the first at the goal.
LEMMA GuardExists ==
  ASSUME TypeOK, NEW f, Active \ {f} # {}
  PROVE  \E d : Guard(f, d)
<1> DEFINE S == Active \ {f}
           e == [q \in S |-> Reach(q)]
<1>1. e \in [S -> Nat]
  BY OrderFacts
<1>2. PICK d \in S : \A p \in S : e[d] <= e[p]
  <2> HIDE DEF e, S
  <2>1. S # {}
    BY DEF S
  <2> QED
    BY <1>1, <2>1, Least
<1>3. ASSUME NEW p \in S \ {d} PROVE Reach(d) < Reach(p)
  <2>1. Reach(d) <= Reach(p) /\ Reach(d) # Reach(p)
    BY <1>2, OrderFacts
  <2> QED
    BY <2>1, OrderFacts
<1> QED
  BY <1>3 DEF Guard

\* The first at the ball is the only one to attack.
LEMMA OneAttacker ==
  ASSUME TypeOK, Agreed, NEW f, First(f), NEW r \in Active
  PROVE  LET v == Table(r) IN
           /\ Cardinality(Alive(v)) \in 1 .. 4
           /\ EtaPos(v, r, r) = 1 \/ Cardinality(Alive(v)) = 1 \/ r \in layout.near <=> r = f
           /\ Fastest(v, r) = f
<1> DEFINE v == Table(r)
<1>1. f \in Active /\ Active \subseteq Players
  BY OrderFacts DEF First
<1>2. Ranked(v) = Active /\ Ranked(v) \subseteq Alive(v) /\ Alive(v) \subseteq Players
  BY <1>1, TableFacts DEF Agreed
<1>3. ASSUME NEW q \in Active PROVE EtaPos(v, r, q) = 1 <=> q = f
  <2>1. \A p \in Active : /\ EtaPos(v, r, p) = 1 + Cardinality(Nearer(r, p))
                          /\ Nearer(r, p) \subseteq Players
    BY <1>1, SamePositions DEF Nearer
  <2>2. \A p \in Active : /\ Cardinality(Nearer(r, p)) \in 0 .. 4
                          /\ Cardinality(Nearer(r, p)) = 0 <=> Nearer(r, p) = {}
    BY <2>1, PlayersFinite, CardFacts
  <2>3. EtaPos(v, r, f) = 1
    BY DEF First
  <2> HIDE DEF v
  <2>4. Nearer(r, f) = {}
    BY <1>1, <2>1, <2>2, <2>3
  <2>5. CASE q # f
    <3>1. /\ Effort(r, q) \in Nat /\ Effort(r, f) \in Nat
          /\ Effort(r, q) # Effort(r, f)
      BY <1>1, <2>5, OrderFacts
    <3>2. ~(Effort(r, q) < Effort(r, f))
      BY <2>4 DEF Nearer
    <3>3. f \in Nearer(r, q)
      BY <1>1, <3>1, <3>2 DEF Nearer
    <3>4. Cardinality(Nearer(r, q)) # 0 /\ Cardinality(Nearer(r, q)) \in 0 .. 4
      BY <2>2, <3>3
    <3> QED
      BY <2>1, <2>5, <3>4
  <2> QED
    BY <2>3, <2>5
<1>4. Cardinality(Alive(v)) \in 1 .. 4
  BY <1>1, <1>2, PlayersFinite
<1>5. Cardinality(Alive(v)) = 1 => r = f
  BY <1>1, <1>2, CardFacts
<1>6. r \in layout.near => r = f
  BY DEF First
<1>7. Fastest(v, r) = f
  <2>1. Fastest(v, r) = CHOOSE q \in Active : EtaPos(v, r, q) = 1
    BY <1>2 DEF Fastest
  <2> HIDE DEF v
  <2> QED
    BY <1>1, <1>3, <2>1
<1> QED
  BY <1>3, <1>4, <1>5, <1>6, <1>7

\* The defender's rule describes the guard and nobody else, whether the
\* attacker is deeper than the guard or not.
LEMMA OneGuard ==
  ASSUME TypeOK, Agreed, NEW f, First(f), NEW d, Guard(f, d), NEW r \in Active \ {f}
  PROVE  LET v == Table(r) IN
           DDefPos(v, r) = 1 \/ (DDefPos(v, r) = 2 /\ DDefPos(v, Fastest(v, r)) = 1) <=> r = d
<1> DEFINE v == Table(r)
<1>1. /\ f \in Active /\ d \in Active \ {f} /\ Active \subseteq Players
      /\ Fastest(v, r) = f
  BY OrderFacts, OneAttacker DEF First, Guard
<1>2. /\ DDefPos(v, r) = 1 + Cardinality(Deeper(r))
      /\ DDefPos(v, Fastest(v, r)) = 1 + Cardinality(Deeper(f))
  BY <1>1, SamePositions
<1>3. \A q \in Active : /\ Deeper(q) \in SUBSET Players
                        /\ Cardinality(Deeper(q)) \in 0 .. 4
                        /\ Cardinality(Deeper(q)) = 0 <=> Deeper(q) = {}
                        /\ Cardinality(Deeper(q)) = 1 <=> \E x \in Deeper(q) : Deeper(q) = {x}
  <2>1. \A q \in Active : Deeper(q) \in SUBSET Players
    BY <1>1 DEF Deeper
  <2> QED
    BY <2>1, PlayersFinite, CardFacts
<1>4. \A p, q \in Active : /\ Reach(p) \in Nat /\ Reach(q) \in Nat
                           /\ p # q => Reach(p) # Reach(q)
  BY <1>1, OrderFacts
<1>5. CASE r = d
  <2>1. CASE Reach(f) < Reach(d)
    <3>1. Deeper(d) = {f}
      <4>1. f \in Deeper(d)
        BY <1>1, <2>1 DEF Deeper
      <4>2. ASSUME NEW p \in Deeper(d) PROVE p = f
        <5>1. p \in Active /\ Reach(p) < Reach(d)
          BY DEF Deeper
        <5>2. p \notin Active \ {f, d}
          BY <1>1, <1>4, <5>1 DEF Guard
        <5>3. p # d
          BY <1>1, <1>4, <5>1
        <5> QED
          BY <5>1, <5>2, <5>3
      <4> QED
        BY <4>1, <4>2
    <3>2. Deeper(f) = {}
      <4>1. ASSUME NEW p \in Active, Reach(p) < Reach(f) PROVE FALSE
        <5>1. p # f /\ p # d
          BY <1>1, <1>4, <2>1, <4>1
        <5>2. Reach(d) < Reach(p)
          BY <4>1, <5>1 DEF Guard
        <5> QED
          BY <1>1, <1>4, <2>1, <4>1, <5>2
      <4> QED
        BY <4>1 DEF Deeper
    <3>3. Cardinality(Deeper(d)) = 1 /\ Cardinality(Deeper(f)) = 0
      BY <1>1, <1>3, <3>1, <3>2
    <3> QED
      BY <1>2, <1>5, <3>3
  <2>2. CASE ~(Reach(f) < Reach(d))
    <3>1. Deeper(d) = {}
      <4>1. ASSUME NEW p \in Active, Reach(p) < Reach(d) PROVE FALSE
        <5>1. p # f /\ p # d
          BY <1>1, <1>4, <2>2, <4>1
        <5>2. Reach(d) < Reach(p)
          BY <4>1, <5>1 DEF Guard
        <5> QED
          BY <1>1, <1>4, <4>1, <5>2
      <4> QED
        BY <4>1 DEF Deeper
    <3>2. Cardinality(Deeper(d)) = 0
      BY <1>1, <1>3, <3>1
    <3> QED
      BY <1>2, <1>5, <3>2
  <2> QED
    BY <2>1, <2>2
<1>6. CASE r # d
  <2>1. d \in Deeper(r)
    BY <1>1, <1>6 DEF Guard, Deeper
  <2>2. Cardinality(Deeper(r)) # 0
    BY <1>3, <2>1
  <2>3. Cardinality(Deeper(r)) = 1 => Cardinality(Deeper(f)) # 0
    <3> SUFFICES ASSUME Cardinality(Deeper(r)) = 1 PROVE Cardinality(Deeper(f)) # 0
      OBVIOUS
    <3>1. Deeper(r) = {d}
      BY <1>3, <2>1
    <3>2. ~(Reach(f) < Reach(r))
      BY <1>1, <3>1 DEF Deeper
    <3>3. r \in Deeper(f)
      BY <1>1, <1>4, <3>2 DEF Deeper
    <3> QED
      BY <1>1, <1>3, <3>3
  <2> QED
    BY <1>1, <1>2, <1>3, <1>6, <2>2, <2>3
<1> QED
  BY <1>5, <1>6

\* The condition of line 679 for the two players left over by four.
Torn(r) == EtaPos(Table(r), r, r) = 2 \/ DDefPos(Table(r), r) = 4

\* What the robots of a team that agrees become.
LEMMA RolesDealt ==
  ASSUME TypeOK, Agreed, NEW f, First(f), NEW r \in Active
  PROVE  LET new == NewRole(Table(r), r) IN
           /\ new = "attacker" <=> r = f
           /\ new \in NamedRoles
           /\ \A d : Guard(f, d) /\ r # f =>
                /\ r = d => new \in Defenders
                /\ r # d /\ Cardinality(Alive(Table(r))) = 3 => new = "supporter"
                /\ r # d /\ Cardinality(Alive(Table(r))) = 4 =>
                     IF Torn(r) THEN new = "supporter" ELSE new \in Defenders
<1> DEFINE v == Table(r)
           n == Cardinality(Alive(v))
           play == PlayingRole(v, r)
<1>1. r \in Players /\ r \notin penalised /\ r \in playing
  BY OrderFacts DEF Active, Agreed
<1>2. n \in 1 .. 4 /\ (EtaPos(v, r, r) = 1 \/ n = 1 \/ r \in layout.near <=> r = f)
  BY OneAttacker
<1>3. play \in NamedRoles /\ (play = "attacker" <=> r = f)
  BY <1>2, PlayingFacts
<1>4. NewRole(v, r) = Sided(v, r, play)
  BY <1>1 DEF NewRole
<1> HIDE DEF v
<1>5. /\ Sided(v, r, play) \in NamedRoles
      /\ Sided(v, r, play) \in Defenders <=> play \in Defenders
      /\ play \notin Defenders => Sided(v, r, play) = play
  BY <1>3, SidedFacts
<1>6. Sided(v, r, play) = "attacker" <=> r = f
  BY <1>3, <1>5 DEF Defenders
<1>7. ASSUME NEW d, Guard(f, d), r # f
      PROVE  /\ r = d => play \in Defenders
             /\ r # d /\ n = 3 => play = "supporter"
             /\ r # d /\ n = 4 => play = IF Torn(r) THEN "supporter" ELSE "defender2"
  <2>1. DDefPos(v, r) = 1 \/ (DDefPos(v, r) = 2 /\ DDefPos(v, Fastest(v, r)) = 1) <=> r = d
    BY <1>7, OneGuard DEF v
  <2>2. /\ play = "attacker" <=> EtaPos(v, r, r) = 1 \/ n = 1 \/ r \in layout.near
        /\ play # "attacker" /\ (DDefPos(v, r) = 1 \/ n = 2
             \/ (DDefPos(v, r) = 2 /\ DDefPos(v, Fastest(v, r)) = 1)) => play = "defender"
        /\ play # "attacker" /\ ~(DDefPos(v, r) = 1 \/ n = 2
             \/ (DDefPos(v, r) = 2 /\ DDefPos(v, Fastest(v, r)) = 1)) /\ n = 3 => play = "supporter"
        /\ play # "attacker" /\ ~(DDefPos(v, r) = 1 \/ n = 2
             \/ (DDefPos(v, r) = 2 /\ DDefPos(v, Fastest(v, r)) = 1)) /\ n = 4 =>
             play = IF EtaPos(v, r, r) = 2 \/ DDefPos(v, r) = 4 THEN "supporter" ELSE "defender2"
    BY <1>2, PlayingFacts
  <2>3. play # "attacker"
    BY <1>3, <1>7
  <2> HIDE DEF play, n
  <2>4. r = d => play = "defender"
    BY <2>1, <2>2, <2>3
  <2>5. r # d /\ n = 3 => play = "supporter"
    BY <2>1, <2>2, <2>3
  <2>6. r # d /\ n = 4 => play = IF Torn(r) THEN "supporter" ELSE "defender2"
    BY <2>1, <2>2, <2>3 DEF Torn, v
  <2> QED
    BY <2>4, <2>5, <2>6 DEF Defenders
<1> QED
  BY <1>4, <1>5, <1>6, <1>7 DEF v, Defenders

\* Robots that agree deal out each role of the table once, for every number
\* of field players up to three, every layout and every pair of bonuses.
THEOREM TeamAgrees == Spec => []AgreedRoles
<1>1. TypeOK => AgreedRoles
  <2> SUFFICES ASSUME TypeOK, Agreed
               PROVE  /\ NextHolding({"attacker"}) = 1
                      /\ Cardinality(Active) = 2 => NextHolding(Defenders) = 1
                      /\ Cardinality(Active) = 3
                         /\ (\A r \in Active : Alive(Table(r)) = Active)
                           => NextHolding(Defenders) = 1 /\ NextHolding({"supporter"}) = 1
    BY DEF AgreedRoles
  <2> DEFINE New(r) == NewRole(Table(r), r)
             Dealt(s) == {r \in Active : New(r) \in s}
  <2>1. \A x : IsFiniteSet({x}) /\ Cardinality({x}) = 1
    BY FS_Singleton
  <2>2. Active \subseteq Players /\ Active # {}
    BY OrderFacts DEF Agreed
  <2>3. PICK f : First(f)
    BY DEF Agreed, First
  <2>4. f \in Active
    BY <2>3 DEF First
  <2>5. \A r \in Active : New(r) = "attacker" <=> r = f
    BY <2>3, RolesDealt
  <2>6. NextHolding({"attacker"}) = 1
    <3>1. Dealt({"attacker"}) = {f}
      <4> HIDE DEF New
      <4> QED
        BY <2>4, <2>5
    <3> QED
      BY <2>1, <3>1 DEF NextHolding
  <2>7. Cardinality(Active \ {f}) = Cardinality(Active) - 1
    BY <2>2, <2>4, CardFacts
  <2>8. ASSUME Cardinality(Active) = 2 PROVE NextHolding(Defenders) = 1
    <3>1. PICK d : Active \ {f} = {d}
      <4>1. Cardinality(Active \ {f}) = 1 /\ Active \ {f} \in SUBSET Players
        BY <2>2, <2>7, <2>8
      <4> QED
        BY <4>1, CardFacts
    <3>2. Guard(f, d)
      BY <3>1 DEF Guard
    <3>3. New(d) \in Defenders
      BY <2>3, <3>1, <3>2, RolesDealt
    <3>4. New(f) \notin Defenders
      BY <2>4, <2>5 DEF Defenders
    <3>5. Dealt(Defenders) = {d}
      <4> HIDE DEF New
      <4> QED
        BY <3>1, <3>3, <3>4
    <3> QED
      BY <2>1, <3>5 DEF NextHolding
  <2>9. ASSUME Cardinality(Active) = 3, \A r \in Active : Alive(Table(r)) = Active
        PROVE  NextHolding(Defenders) = 1 /\ NextHolding({"supporter"}) = 1
    <3>1. Cardinality(Active \ {f}) = 2 /\ Active \ {f} \in SUBSET Players
      BY <2>2, <2>7, <2>9
    <3>2. PICK d : Guard(f, d)
      <4>1. Active \ {f} # {}
        BY <3>1, CardFacts
      <4> QED
        BY <4>1, <2>2, <2>3, <2>4, GuardExists
    <3>3. d \in Active \ {f}
      BY <3>2 DEF Guard
    <3>4. PICK s : (Active \ {f}) \ {d} = {s}
      <4>1. Cardinality((Active \ {f}) \ {d}) = 1 /\ (Active \ {f}) \ {d} \in SUBSET Players
        BY <3>1, <3>3, CardFacts
      <4> QED
        BY <4>1, CardFacts
    <3>5. Active = {f, d, s} /\ f # d /\ f # s /\ d # s
      BY <2>4, <3>3, <3>4
    <3>6. New(f) = "attacker"
      BY <2>4, <2>5
    <3>7. New(d) \in Defenders
      BY <2>3, <3>2, <3>5, RolesDealt
    <3>8. New(s) = "supporter"
      BY <2>3, <2>9, <3>2, <3>5, RolesDealt
    <3> HIDE DEF New
    <3>9. Dealt(Defenders) = {d}
      BY <3>5, <3>6, <3>7, <3>8 DEF Defenders
    <3>10. Dealt({"supporter"}) = {s}
      BY <3>5, <3>6, <3>7, <3>8 DEF Defenders
    <3> QED
      BY <2>1, <3>9, <3>10 DEF NextHolding, New
  <2> QED
    BY <2>6, <2>8, <2>9
<1> QED
  BY <1>1, TypeCorrect, PTL

\* Four robots that agree: one attacker, one defender, and each of the other
\* two a supporter if it is second at the ball or last at the goal, a defender
\* if not (TeamSPL.lua:679).  Both may be supporters, or neither, although the
\* table at TeamSPL.lua:588 has one.
FourDealt ==
  Agreed /\ Cardinality(Active) = 4 =>
    \E f, d \in Active :
      /\ f # d
      /\ \A r \in Active :
           LET new == NewRole(Table(r), r) IN
           /\ new = "attacker"  <=> r = f
           /\ new = "supporter" <=> r \notin {f, d} /\ Torn(r)
           /\ new \in Defenders <=> r = d \/ (r # f /\ ~Torn(r))

\* What becomes of four field players that agree, in every layout.
THEOREM FourAgree == Spec => []FourDealt
<1>1. TypeOK => FourDealt
  <2> SUFFICES ASSUME TypeOK, Agreed, Cardinality(Active) = 4 PROVE FourDealt
    BY DEF FourDealt
  <2>1. Active \subseteq Players /\ Active # {}
    BY OrderFacts DEF Agreed
  <2>2. PICK f : First(f)
    BY DEF Agreed, First
  <2>3. f \in Active
    BY <2>2 DEF First
  <2>4. Active \ {f} # {}
    <3>1. Cardinality(Active \ {f}) = 3
      BY <2>1, <2>3, CardFacts
    <3> QED
      BY <3>1, <2>1, CardFacts
  <2>5. PICK d : Guard(f, d)
    BY <2>4, GuardExists
  <2>6. d \in Active \ {f}
    BY <2>5 DEF Guard
  <2>7. ASSUME NEW r \in Active
        PROVE  LET new == NewRole(Table(r), r) IN
               /\ new = "attacker"  <=> r = f
               /\ new = "supporter" <=> r \notin {f, d} /\ Torn(r)
               /\ new \in Defenders <=> r = d \/ (r # f /\ ~Torn(r))
    <3> DEFINE new == NewRole(Table(r), r)
    <3>1. Cardinality(Alive(Table(r))) = 4
      <4>1. Active \subseteq Alive(Table(r)) /\ Alive(Table(r)) \subseteq Players
        BY <2>1, TableFacts DEF Agreed
      <4>2. IsFiniteSet(Alive(Table(r))) /\ Cardinality(Alive(Table(r))) \in 0 .. 4
        BY <4>1, PlayersFinite
      <4>3. 4 <= Cardinality(Alive(Table(r)))
        BY <4>1, <4>2, FS_Subset
      <4> QED
        BY <4>2, <4>3
    <3>2. /\ new = "attacker" <=> r = f
          /\ r # f /\ r = d => new \in Defenders
          /\ r # f /\ r # d => IF Torn(r) THEN new = "supporter" ELSE new \in Defenders
      BY <2>2, <2>5, <3>1, RolesDealt
    <3>3. new \in Defenders => new # "attacker" /\ new # "supporter"
      BY DEF Defenders
    <3> HIDE DEF new
    <3>4. /\ new = "attacker"  <=> r = f
          /\ new = "supporter" <=> r \notin {f, d} /\ Torn(r)
          /\ new \in Defenders <=> r = d \/ (r # f /\ ~Torn(r))
      <4>1. CASE r = f
        BY <2>6, <3>2, <3>3, <4>1
      <4>2. CASE r = d
        BY <2>6, <3>2, <3>3, <4>2
      <4>3. CASE r \notin {f, d}
        BY <3>2, <3>3, <4>3
      <4> QED
        BY <4>1, <4>2, <4>3
    <3> QED
      BY <3>4 DEF new
  <2> QED
    BY <2>3, <2>6, <2>7 DEF FourDealt
<1> QED
  BY <1>1, TypeCorrect, PTL
=============================================================================
