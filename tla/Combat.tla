------------------------------- MODULE Combat -------------------------------
(***************************************************************************)
(* Who fights whom and who helps whom (fight.c, mobile.c).  A fight is a   *)
(* number: pfighting() of a character is the index of his enemy, and       *)
(* nothing in the enemy points back.  Commands set and clear it, the timer *)
(* walks over all characters and lets each one that has an enemy strike,   *)
(* and anybody may leave, die, be taken elsewhere or lose his slot to      *)
(* somebody else in between.  Commands run only when the timer is idle;    *)
(* a pass of the timer is one step per character.                          *)
(*                                                                         *)
(* Damage is abstracted to whether a blow kills; what a character carries, *)
(* skills and luck to a choice.  Clones, aliases and the command AT are    *)
(* left out.                                                               *)
(***************************************************************************)
EXTENDS Integers

CONSTANTS
  P, M,           \* max_players; the number of mobiles, which come after the players
  Wizards,        \* the players that are wizards
  Rooms, Nowhere, \* the rooms that exist; the room of those who are away
  Grave,          \* LOC_DEAD_DEAD
  Lands,          \* the rooms where mortals get
  Roam,           \* the rooms where mobiles walk to
  Peaceful,       \* LFL_PEACEFUL
  Avengers,       \* the mobiles that slay whoever raises his hand against them
  Scripted,       \* the mobiles that tables of actions wound (WOUNDMON): the dragon
  Hungry,         \* MFL_QFOOD: mobiles that leave the game when they are fed
  Home            \* ploc_reset of a mobile

Players == 0 .. P - 1
Mobs == P .. P + M - 1
Chars == 0 .. P + M - 1
NoOne == -1

ASSUME CastAssumption == P \in Nat \ {0} /\ M \in Nat \ {0} /\ Wizards \subseteq Players
ASSUME PlacesAssumption ==
  /\ Nowhere \notin Rooms /\ Grave \in Rooms
  /\ Lands \subseteq Rooms /\ Roam \subseteq Rooms /\ Home \in [Mobs -> Rooms]

VARIABLES
  stage,     \* of a slot: free, in the login prompts, in the game, on the quit list
  ploc,      \* ploc()
  dead,      \* the mobiles with pstr() < 0
  nameless,  \* the mobiles without a name: exorcised, or fed
  pscore,    \* of a mobile: the slot of its last killer
  deserved,  \* history: the dead whose killer is still in the slot pscore, or whose
             \* score has been changed since
  pfighting, phelping,
  peace,     \* w_peace
  phase, at, \* where on_timer() stands: in which loop, at which character
  todo       \* the players chkfight() has not come by yet

bodies == <<stage, ploc, dead, nameless, pscore, deserved>>
timer == <<phase, at, todo>>
vars == <<bodies, pfighting, phelping, peace, timer>>

Phases == {"idle", "move", "onlook", "look", "attack"}

TypeOK ==
  /\ stage \in [Players -> {"free", "login", "game", "gone"}]
  /\ ploc \in [Chars -> Rooms \cup {Nowhere}]
  /\ dead \subseteq Mobs /\ nameless \subseteq Mobs
  /\ pscore \in [Mobs -> Players \cup {NoOne}]
  /\ deserved \subseteq Mobs
  /\ pfighting \in [Chars -> Chars \cup {NoOne}]
  /\ \A x \in Chars : pfighting[x] /= x
  /\ phelping \in [Players -> Chars \cup {NoOne}]
  /\ peace \in BOOLEAN
  /\ phase \in Phases /\ at \in 0 .. P + M /\ todo \subseteq Players
  /\ phase \in {"move", "onlook", "attack"} => at \in Chars
  /\ phase \in {"move", "look", "attack"} => at >= P
  /\ \A p \in Players : ploc[p] \in Rooms <=> stage[p] = "game"
  /\ \A m \in Mobs : ploc[m] \in Rooms

Init ==
  /\ stage = [p \in Players |-> "free"]
  /\ ploc = [x \in Chars |-> IF x \in Mobs THEN Home[x] ELSE Nowhere]
  /\ dead = {} /\ nameless = {} /\ deserved = {}
  /\ pscore = [m \in Mobs |-> 0]
  /\ pfighting = [x \in Chars |-> NoOne] /\ phelping = [p \in Players |-> NoOne]
  /\ peace = FALSE
  /\ phase = "idle" /\ at = 0 /\ todo = {}

InGame(x) == IF x \in Mobs THEN x \notin nameless ELSE stage[x] = "game"
Alive(m) == m \notin dead /\ m \notin nameless
Together(x, y) == InGame(x) /\ InGame(y) /\ ploc[x] = ploc[y]
Peace(x) == peace \/ ploc[x] \in Peaceful

Idle == phase = "idle" /\ UNCHANGED timer
Acts(p) == Idle /\ stage[p] = "game"

-----------------------------------------------------------------------------
(* Blows.  f is pfighting as it is when the blow falls. *)

\* setpfighting(x, -1): also for those who fight x where he is now.
EndFight(f, loc, x) ==
  [y \in Chars |->
     IF y = x \/ (f[y] = x /\ loc[y] = loc[x] /\ loc[x] \in Rooms) THEN NoOne ELSE f[y]]

Forgotten(p) == {m \in Mobs : pscore[m] = p}

\* xcrapup(): whoever fights or helps him still does.
Departs(p) ==
  /\ stage' = [stage EXCEPT ![p] = "gone"]
  /\ ploc' = [ploc EXCEPT ![p] = Nowhere]
  /\ deserved' = deserved \ Forgotten(p)
  /\ UNCHANGED <<dead, nameless, pscore>>

MobDies(a, m) ==
  /\ ploc' = [ploc EXCEPT ![m] = Grave]
  /\ dead' = dead \cup {m}
  /\ pscore' = [pscore EXCEPT ![m] = IF a \in Players THEN a ELSE NoOne]
  /\ deserved' = IF a \in Players THEN deserved \cup {m} ELSE deserved \ {m}
  /\ UNCHANGED <<stage, nameless>>

\* The two ends of wound_player(); wizards do not die.
Hurt(f, a, v) == pfighting' = [f EXCEPT ![v] = a] /\ UNCHANGED bodies
Slain(f, a, v) ==
  /\ v \notin Wizards
  /\ pfighting' = EndFight([f EXCEPT ![v] = a], ploc, v)
  /\ IF v \in Mobs THEN MobDies(a, v) ELSE Departs(v)
Wound(f, a, v) == Hurt(f, a, v) \/ Slain(f, a, v)

\* hit_player(): nothing where there is no fighting; a player may have no use of his
\* weapon; some mobiles are not to be touched by mortals; else a blow, which also
\* stands for the spell a mobile casts first.
MayHit(a, v) == Together(a, v) /\ ~Peace(v)
Doomed(a, v) == a \in Players \ Wizards /\ v \in Avengers
NoBlow(f) == pfighting' = f /\ UNCHANGED bodies
Hit(f, a, v) ==
  \/ ~MayHit(a, v) /\ NoBlow(f)
  \/ MayHit(a, v) /\ Doomed(a, v) /\ pfighting' = f /\ Departs(a)
  \/ MayHit(a, v) /\ ~Doomed(a, v) /\ a \in Players /\ NoBlow(f)
  \/ MayHit(a, v) /\ ~Doomed(a, v) /\ Wound(f, a, v)

-----------------------------------------------------------------------------
(* Commands *)

Kill(p, v) ==
  /\ Acts(p)
  /\ v /= p /\ pfighting[p] = NoOne
  /\ Together(p, v) /\ ~Peace(p)
  /\ Hit([pfighting EXCEPT ![p] = v, ![v] = p], p, v)
  /\ UNCHANGED <<phelping, peace>>

\* spellcom(): wizards reach everybody, and are safe from mortals; the mutant does not ask
\* mortals where the victim is.
CanCastFar(p, v) == InGame(v) /\ (p \in Wizards \/ (v \notin Wizards /\ ~Peace(p)))
CanCast(p, v) ==
  InGame(v) /\ (p \in Wizards \/ (v \notin Wizards /\ ploc[v] = ploc[p] /\ ~Peace(p)))
Spell(p, v) ==
  /\ Acts(p)
  /\ v /= p /\ CanCast(p, v)
  /\ Wound(pfighting, p, v)
  /\ UNCHANGED <<phelping, peace>>

\* zapcom() of a mobile; the damage is its strength and one more, and none if it is dead.
Zap(p, m) ==
  /\ Acts(p)
  /\ p \in Wizards /\ InGame(m)
  /\ IF m \in dead THEN Hurt(pfighting, p, m) ELSE Slain(pfighting, p, m)
  /\ UNCHANGED <<phelping, peace>>

\* A mobile strikes at a player for what he does: stealing, emotes that are EXTF_HOSTILE,
\* PROVOKE in a table of actions.
Provoke(p, m) ==
  /\ Acts(p)
  /\ Hit(pfighting, m, p)
  /\ UNCHANGED <<phelping, peace>>

\* WOUNDMON, which asks nobody for peace.
WoundMon(p, m) ==
  /\ Acts(p)
  /\ m \in Scripted /\ Together(p, m)
  /\ Wound(pfighting, p, m)
  /\ UNCHANGED <<phelping, peace>>

\* dodirn() ends the fights of those who strike at one who leaves, trapch() those of
\* one who arrives where his enemy is not.
Comes(f, p, r) ==
  LET loc == [ploc EXCEPT ![p] = r] IN
  /\ ploc' = loc
  /\ pfighting' = IF f[p] /= NoOne /\ loc[f[p]] /= r THEN EndFight(f, loc, p) ELSE f
  /\ UNCHANGED <<stage, dead, nameless, pscore, deserved, phelping, peace>>

Reaches(p) == IF p \in Wizards THEN Rooms ELSE Lands

Walk(p, r) ==
  /\ Acts(p)
  /\ pfighting[p] = NoOne
  /\ r \in Reaches(p)
  /\ Comes(EndFight(pfighting, ploc, p), p, r)

\* fleecom(); there may be no way out.
Flee(p, r) ==
  /\ Acts(p)
  /\ pfighting[p] /= NoOne
  /\ r \in Reaches(p) \cup {ploc[p]}
  /\ Comes(EndFight(pfighting, ploc, p), p, r)

\* GOTO, JUMP, and whatever else calls trapch() without asking for a fight first.
Teleport(p, r) ==
  /\ Acts(p)
  /\ r \in Reaches(p)
  /\ Comes(pfighting, p, r)

Summon(p, v) ==
  /\ Acts(p)
  /\ v /= p /\ InGame(v) /\ (p \in Wizards \/ v \notin Wizards)
  /\ IF v \in Players
     THEN Comes(pfighting, v, ploc[p])
     ELSE /\ p \in Wizards
          /\ ploc' = [ploc EXCEPT ![v] = ploc[p]]
          /\ UNCHANGED <<stage, dead, nameless, pscore, deserved, pfighting, phelping, peace>>

Help(p, v) ==
  /\ Acts(p)
  /\ v /= p /\ Together(p, v)
  /\ phelping' = [phelping EXCEPT ![p] = v]
  /\ UNCHANGED <<bodies, pfighting, peace>>

\* crapup() for all reasons but a fight: QUIT, rooms that kill, ZAP, EXORCISE, SHUTDOWN,
\* and a broken connection.
Leave(p) ==
  /\ Acts(p)
  /\ Departs(p)
  /\ UNCHANGED <<pfighting, phelping, peace>>

\* exorcom() of a mobile.
Exorcise(p, m) ==
  /\ Acts(p)
  /\ p \in Wizards /\ InGame(m)
  /\ pfighting' = EndFight(pfighting, ploc, m)
  /\ nameless' = nameless \cup {m}
  /\ UNCHANGED <<stage, ploc, dead, pscore, deserved, phelping, peace>>

\* The score, where a mobile keeps its killer, is also added to and set: what it comes to
\* may be another slot's number.
Rewarded(m) ==
  /\ \E s \in Players \cup {NoOne} : pscore' = [pscore EXCEPT ![m] = s]
  /\ deserved' = deserved \cup ({m} \cap dead)

\* dogive() of food.
Feed(p, m) ==
  /\ Acts(p)
  /\ m \in Hungry /\ InGame(m) /\ (p \in Wizards \/ ploc[m] = ploc[p])
  /\ nameless' = nameless \cup {m}
  /\ Rewarded(m)
  /\ UNCHANGED <<stage, ploc, dead, pfighting, phelping, peace>>

\* dogive() of a rose, and CHANGE SCORE of a mobile.
Gift(p, m) ==
  /\ Acts(p)
  /\ InGame(m) /\ (p \in Wizards \/ ploc[m] = ploc[p])
  /\ Rewarded(m)
  /\ UNCHANGED <<stage, ploc, dead, nameless, pfighting, phelping, peace>>

\* reset_mobile(), at home or, for RESURRECT, where the wizard is.
Reset(m, r) ==
  /\ pfighting' = EndFight(pfighting, ploc, m)
  /\ ploc' = [ploc EXCEPT ![m] = r]
  /\ dead' = dead \ {m} /\ nameless' = nameless \ {m} /\ deserved' = deserved \ {m}
  /\ UNCHANGED <<stage, pscore, phelping, peace>>

ResetMobile(m) == Idle /\ Reset(m, Home[m])

Resurrect(p, m) ==
  /\ Acts(p)
  /\ p \in Wizards /\ ~Alive(m)
  /\ m \in nameless \/ pfighting[m] = NoOne
  /\ Reset(m, ploc[p])

\* HEAL, and RESURRECT of one who is not dead, do not move a mobile.
Heal(p, m) ==
  /\ Acts(p)
  /\ p \in Wizards /\ InGame(m)
  /\ dead' = dead \ {m} /\ deserved' = deserved \ {m}
  /\ UNCHANGED <<stage, ploc, nameless, pscore, pfighting, phelping, peace>>

War(p) ==
  /\ Acts(p) /\ p \in Wizards
  /\ peace' = FALSE
  /\ UNCHANGED <<bodies, pfighting, phelping>>

\* peacecom() ends the fights of all players, slot by slot.
MakePeace(p) ==
  /\ Acts(p) /\ p \in Wizards
  /\ peace' = TRUE
  /\ pfighting' = [x \in Chars |->
       IF x \in Players \/ (pfighting[x] \in Players /\ ploc[x] = ploc[pfighting[x]])
       THEN NoOne ELSE pfighting[x]]
  /\ UNCHANGED <<bodies, phelping>>

-----------------------------------------------------------------------------
(* Sessions *)

\* find_free_player_slot(): the dead must not take the newcomer for their killer.  The
\* mutant forgets the killers of those who are alive again.
MemoryOfTheLiving(p) ==
  [m \in Mobs |-> IF Alive(m) /\ pscore[m] = p THEN NoOne ELSE pscore[m]]
Memory(p) == [m \in Mobs |-> IF ~Alive(m) /\ pscore[m] = p THEN NoOne ELSE pscore[m]]
Connect(p) ==
  /\ Idle
  /\ stage[p] = "free" /\ \A q \in Players : q < p => stage[q] /= "free"
  /\ stage' = [stage EXCEPT ![p] = "login"]
  /\ pscore' = Memory(p)
  /\ UNCHANGED <<ploc, dead, nameless, deserved, pfighting, phelping, peace>>

\* talker(): he has no enemy, but may still be somebody's.
Enter(p, r) ==
  /\ Idle
  /\ stage[p] = "login" /\ r \in Lands
  /\ stage' = [stage EXCEPT ![p] = "game"]
  /\ ploc' = [ploc EXCEPT ![p] = r]
  /\ pfighting' = EndFight(pfighting, ploc, p)
  /\ phelping' = [phelping EXCEPT ![p] = NoOne]
  /\ UNCHANGED <<dead, nameless, pscore, deserved, peace>>

GiveUp(p) ==
  /\ Idle
  /\ stage[p] = "login"
  /\ stage' = [stage EXCEPT ![p] = "gone"]
  /\ UNCHANGED <<ploc, dead, nameless, pscore, deserved, pfighting, phelping, peace>>

EndConnection(p) ==
  /\ Idle
  /\ stage[p] = "gone"
  /\ stage' = [stage EXCEPT ![p] = "free"]
  /\ UNCHANGED <<ploc, dead, nameless, pscore, deserved, pfighting, phelping, peace>>

-----------------------------------------------------------------------------
(* The timer: move_mobiles(), onlook() *)

Stands(ph, i) == phase = ph /\ at = i
Goto(ph, i) == phase' = ph /\ at' = i
Quiet == UNCHANGED <<bodies, pfighting>>

Tick ==
  /\ phase = "idle"
  /\ Goto("move", P)
  /\ Quiet /\ UNCHANGED <<phelping, peace, todo>>

\* consid_move(): not when somebody in the room fights it.
Held(m) == \E x \in Chars : ploc[x] = ploc[m] /\ pfighting[x] = m
MoveMob(m, r) ==
  /\ Stands("move", m)
  /\ IF m = P + M - 1 THEN Goto("onlook", m) ELSE Goto("move", m + 1)
  /\ r = ploc[m] \/ (Alive(m) /\ ~Held(m) /\ r \in Roam)
  /\ ploc' = [ploc EXCEPT ![m] = r]
  /\ UNCHANGED <<stage, dead, nameless, pscore, deserved, pfighting, phelping, peace, todo>>

\* The first loop of onlook(), from the last character to the first; the mutant asks only
\* whether the enemy is in the game.
Fights(i) == InGame(i) /\ pfighting[i] /= NoOne
OutOfGame(i) == Peace(i) \/ ~InGame(pfighting[i])
OutOfTouch(i) == Peace(i) \/ ~Together(i, pfighting[i])
Onlook(i) ==
  /\ Stands("onlook", i)
  /\ IF i = 0 THEN Goto("look", P) ELSE Goto("onlook", i - 1)
  /\ \/ ~Fights(i) /\ Quiet
     \/ /\ Fights(i) /\ OutOfTouch(i)
        /\ pfighting' = [pfighting EXCEPT ![i] = NoOne, ![pfighting[i]] = NoOne]
        /\ UNCHANGED bodies
     \/ Fights(i) /\ ~OutOfTouch(i) /\ Hit(pfighting, i, pfighting[i])
  /\ UNCHANGED <<phelping, peace, todo>>

\* chkfight(): a mobile without an enemy strikes at the players it finds, one after the
\* other; it asks once whether it has an enemy.
Eager(m) == Alive(m) /\ ~Peace(m) /\ pfighting[m] = NoOne
Prey(m) == {p \in Players : Together(m, p)}
Look(m) ==
  /\ Stands("look", m) /\ m < P + M
  /\ IF Eager(m) /\ Prey(m) /= {}
     THEN Goto("attack", m) /\ todo' = Prey(m)
     ELSE Goto("look", m + 1) /\ todo' = {}
  /\ Quiet /\ UNCHANGED <<phelping, peace>>
Attack(m, p) ==
  /\ Stands("attack", m)
  /\ p \in todo
  /\ todo' = todo \ {p}
  /\ IF todo' = {} THEN Goto("look", m + 1) ELSE Goto("attack", m)
  /\ Quiet \/ Hit(pfighting, m, p)
  /\ UNCHANGED <<phelping, peace>>

\* dorune(): whoever has the Runesword may strike at the next he sees.
Rune ==
  \/ Quiet
  \/ \E x, y \in Chars :
       /\ x /= y /\ y \notin Wizards
       /\ Together(x, y) /\ pfighting[x] = NoOne /\ ~Peace(x)
       /\ Hit(pfighting, x, y)

\* helpchkr() for every player, with the places as they are after dorune().
Lost(p, x) == InGame(p) /\ ~Together(p, x)
HelpCheck ==
  phelping' = [p \in Players |->
    IF \E x \in Chars : phelping[p] = x /\ Lost(p, x)' THEN NoOne ELSE phelping[p]]

EndTick ==
  /\ Stands("look", P + M)
  /\ Goto("idle", 0)
  /\ Rune /\ HelpCheck
  /\ UNCHANGED <<peace, todo>>

-----------------------------------------------------------------------------
Command(p) ==
  \/ \E v \in Chars : Kill(p, v) \/ Spell(p, v) \/ Summon(p, v) \/ Help(p, v)
  \/ \E m \in Mobs :
       \/ Zap(p, m) \/ Provoke(p, m) \/ WoundMon(p, m)
       \/ Exorcise(p, m) \/ Feed(p, m) \/ Gift(p, m) \/ Resurrect(p, m) \/ Heal(p, m)
  \/ \E r \in Rooms : Walk(p, r) \/ Flee(p, r) \/ Teleport(p, r)
  \/ Leave(p) \/ War(p) \/ MakePeace(p)

Session(p) == Connect(p) \/ GiveUp(p) \/ EndConnection(p) \/ \E r \in Rooms : Enter(p, r)

OnTimer ==
  \/ Tick \/ EndTick
  \/ \E m \in Mobs : Look(m) \/ (\E r \in Rooms : MoveMob(m, r)) \/ \E p \in Players : Attack(m, p)
  \/ \E i \in Chars : Onlook(i)

Next ==
  \/ \E p \in Players : Command(p) \/ Session(p)
  \/ \E m \in Mobs : ResetMobile(m)
  \/ OnTimer

Spec == Init /\ [][Next]_vars

\* set_timer() asks for the next alarm at every alarm (main.c:536, timing.c:515).
FairSpec == Spec /\ WF_vars(OnTimer)

-----------------------------------------------------------------------------
(* What fights come to *)

\* "Remember who killed the mobile" (fight.c:656) by the number of his slot: whoever is
\* in that slot later on is not taken for the killer, unless somebody has changed the score
\* in which it is remembered.
KillerRemembered ==
  \A m \in dead : pscore[m] \in Players /\ stage[pscore[m]] \in {"login", "game"}
                    => m \in deserved

\* Nobody gets an enemy whom he has not in front of him, in a place without peace,
\* unless a wizard is in it.  (The dragon is wounded in peace: WOUNDMON.)
FightsBeginHere ==
  [][\A x \in Chars : LET y == pfighting'[x] IN
       \/ y \in {pfighting[x], NoOne}
       \/ {x, y} \cap Wizards /= {}
       \/ Together(x, y) /\ (~Peace(x) \/ x \in Scripted)]_vars

\* A fight with somebody who has left, or died, or was taken elsewhere does not last:
\* onlook() finds it, whatever others do to the two meanwhile; nor does the offer to
\* help such a one (helpchkr()).
Stale(x) == Fights(x) /\ ~Together(x, pfighting[x])
Helpless(p) == phelping[p] /= NoOne /\ Lost(p, phelping[p])
BondsEnd ==
  /\ \A x \in Chars : []<>~Stale(x)
  /\ \A p \in Players : []<>~Helpless(p)
==============================================================================
