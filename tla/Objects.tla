------------------------------ MODULE Objects ------------------------------
(***************************************************************************)
(* The things of the game and who has them (objsys.c).  An object says     *)
(* where it is with oloc and ocarrf, the place keeps a set of what is in   *)
(* it, and a character remembers his weapon: three records of one fact,    *)
(* kept up by hand in every command that gives, takes, puts, drops, wears, *)
(* wields, eats, steals, summons or resets.  One command is one step; a    *)
(* loop over a set (see IntSet) is the set it comes by.                    *)
(*                                                                         *)
(* Names are abstracted: a player may mean any object he can reach, and a  *)
(* name means one.  What an object is good for is constant; so are the     *)
(* levels of the players.  What single things do (rocks that break, wells, *)
(* candlesticks ...) is left out.                                          *)
(***************************************************************************)
EXTENDS Integers, FiniteSets, FiniteSetsExt

CONSTANTS
  Objs, NoObj,    \* the objects; no weapon
  Rooms, Nowhere, \* the rooms that exist; the room of those who are away
  Players, Mobs,  \* the slots of players; the mobiles
  Wizards,        \* the players that are wizards: they see destroyed objects
  Starts,         \* where players enter: at home or in the church
  Grave,          \* the rooms LOC_DEAD_... of the dead, eaten and destroyed
  PitFloor,       \* LOC_PIT_PIT
  PitRooms,       \* the rooms with an open bottomless pit
  LandsIn,        \* room -> where what is dropped there may come to lie
  Outlet,         \* room with a slime pit or a chute -> where things come out
  Chutes,         \* the rooms of these that have a chute
  Containers,     \* OFL_CONTAINER
  Lids,           \* OFL_OPENABLE or OFL_LOCKABLE
  Wearables, Armors, Weapons, Food, \* OFL_WEARABLE ... OFL_FOOD; odamage() > 0
  Fixed,          \* OFL_NOGET
  Kinds,          \* the sets of is_shield(), is_armor(), is_mask()
  Clinging,       \* the Runesword, that cannot be let go
  Size, Limit,    \* osize(); how much a player can carry: plev() + 5
  Hungry,         \* MFL_QFOOD: mobiles that leave the game when they are fed
  Thieves, Tidy,  \* MFL_THIEF, MFL_PICK
  Stealable,      \* mobile -> the ways of carrying that MFL_SWORN, MFL_SWPN let it take
  Zones,          \* the zones: sets of objects and mobiles
  HomeLoc, HomeFlag, \* oloc_reset and ocarrf_reset of an object
  MobHome         \* ploc_reset of a mobile

Chars == Players \cup Mobs
Holders == Rooms \cup Objs \cup Chars
Held == {"CARRIED_BY", "WORN_BY", "WIELDED_BY", "BOTH_BY"}
Worn == {"WORN_BY", "BOTH_BY"}
Flags == {"IN_ROOM", "IN_CONTAINER"} \cup Held

ASSUME PlacesAssumption ==
  /\ Rooms \cap Objs = {} /\ Rooms \cap Chars = {} /\ Objs \cap Chars = {}
  /\ Players \cap Mobs = {} /\ Nowhere \notin Holders /\ NoObj \notin Objs
  /\ Starts \subseteq Rooms /\ Grave \in Rooms /\ PitFloor \in Rooms
  /\ LandsIn \in [Rooms -> SUBSET Rooms]
  /\ DOMAIN Outlet \subseteq Rooms /\ Chutes \subseteq DOMAIN Outlet
  /\ \A r \in DOMAIN Outlet : Outlet[r] \in Rooms

ASSUME ThingsAssumption ==
  /\ Containers \subseteq Objs /\ Lids \subseteq Objs /\ Weapons \subseteq Objs
  /\ Wizards \subseteq Players /\ Kinds \subseteq SUBSET Objs

\* What the zone files say: nothing starts in a container but what is none itself, those
\* who start with something are mobiles of its zone, and have one weapon each.
ASSUME ResetAssumption ==
  /\ HomeLoc \in [Objs -> Rooms \cup Containers \cup Mobs]
  /\ HomeFlag \in [Objs -> Flags \ {"BOTH_BY"}]
  /\ MobHome \in [Mobs -> Rooms]
  /\ Zones \subseteq SUBSET (Objs \cup Mobs)
  /\ \A z \in Zones : \A o \in z \cap Objs : HomeLoc[o] \in Mobs => HomeLoc[o] \in z
  /\ \A o \in Objs :
       /\ HomeFlag[o] = "IN_ROOM" <=> HomeLoc[o] \in Rooms
       /\ HomeFlag[o] = "IN_CONTAINER" <=> HomeLoc[o] \in Containers
       /\ HomeFlag[o] = "IN_CONTAINER" => o \notin Containers
       /\ HomeFlag[o] = "WIELDED_BY" =>
            /\ o \in Weapons
            /\ \A w \in Objs : HomeFlag[w] = "WIELDED_BY" /\ HomeLoc[w] = HomeLoc[o] => w = o

VARIABLES
  oloc, ocarrf,  \* where an object is, and how
  inv,           \* linv(), oinv(), pinv(): what a room, object or character holds
  pwpn,          \* pwpn(): the weapon of a character
  ploc,          \* ploc()
  ingame,        \* is_in_game(): who has a name and, of the players, iamon
  destroyed,     \* the objects with OFL_DESTROYED
  shut,          \* the containers whose state is not 0
  scored         \* history: how often mortals were paid for an object since it was
                 \* last made anew; counted up to 2

world == <<oloc, ocarrf, inv>>
people == <<ploc, ingame>>
vars == <<world, pwpn, people, destroyed, shut, scored>>

TypeOK ==
  /\ oloc \in [Objs -> Holders]
  /\ ocarrf \in [Objs -> Flags]
  /\ inv \in [Holders -> SUBSET Objs]
  /\ pwpn \in [Chars -> Objs \cup {NoObj}]
  /\ ploc \in [Chars -> Rooms \cup {Nowhere}]
  /\ ingame \subseteq Chars
  /\ destroyed \subseteq Objs
  /\ shut \subseteq Lids
  /\ scored \in [Objs -> 0 .. 2]
  /\ \A x \in ingame : ploc[x] \in Rooms

\* Who wields what after a reset.
Armed(x, w) == HomeLoc[w] = x /\ HomeFlag[w] = "WIELDED_BY"
HomeWeapon(x) == IF \E w \in Objs : Armed(x, w) THEN CHOOSE w \in Objs : Armed(x, w) ELSE NoObj

\* The world as it is loaded, before anybody has entered.
Init ==
  /\ oloc = HomeLoc /\ ocarrf = HomeFlag
  /\ inv = [x \in Holders |-> {o \in Objs : HomeLoc[o] = x}]
  /\ pwpn = [x \in Chars |-> HomeWeapon(x)]
  /\ ploc = [x \in Chars |-> IF x \in Mobs THEN MobHome[x] ELSE Nowhere]
  /\ ingame = Mobs
  /\ destroyed = {} /\ shut = Lids
  /\ scored = [o \in Objs |-> 0]

-----------------------------------------------------------------------------
(* Who can reach what.  "all": the one who acts (mynum) sees destroyed objects. *)

Sees(all, o) == all \/ o \notin destroyed
Carried(all, x) == {o \in inv[x] : Sees(all, o) /\ ocarrf[o] \in Held /\ oloc[o] = x}
Lying(all, r) == {o \in inv[r] : Sees(all, o) /\ ocarrf[o] = "IN_ROOM" /\ oloc[o] = r}
Inside(all, c) == {o \in inv[c] : Sees(all, o) /\ ocarrf[o] = "IN_CONTAINER" /\ oloc[o] = c}

Wiz(me) == me \in Wizards
Mine(me) == Carried(Wiz(me), me)
Here(me) == Lying(Wiz(me), ploc[me])
Reachable(me) == Mine(me) \cup Here(me)

\* cancarry(), as "me" sees it, for n more.
Burden(all, x) == Cardinality({o \in Carried(all, x) : ocarrf[o] \notin Worn})
CanCarry(all, x, n) == x \in Players \ Wizards => Burden(all, x) + n <= Limit[x]

WillHold(all, c, o) == MapThenSumSet(LAMBDA a : Size[a], Inside(all, c)) + Size[o] <= Size[c]

InReach(me, x) == Wiz(me) \/ ploc[x] = ploc[me]

-----------------------------------------------------------------------------
(* setoloc(), set_weapon(), and what the commands make of them *)

\* The objects in the domain of "dest" go where it says: out of the set of the place
\* where they are, into that of the new one.  The mutant forgets the first half.
HoldingAfterAdd(dest) ==
  [x \in Holders |-> inv[x] \cup {o \in DOMAIN dest : dest[o] = x}]
HoldingAfter(dest) ==
  [x \in Holders |-> {o \in inv[x] : ~(o \in DOMAIN dest /\ oloc[o] = x)}
                       \cup {o \in DOMAIN dest : dest[o] = x}]

Goes(dest) ==
  /\ oloc' = [o \in Objs |-> IF o \in DOMAIN dest THEN dest[o] ELSE oloc[o]]
  /\ inv' = HoldingAfter(dest)

FlagAfter(D, c) == [o \in Objs |-> IF o \in D THEN c ELSE ocarrf[o]]

\* All of D to x, in the way c.
Moved(D, x, c) == Goes([o \in D |-> x]) /\ ocarrf' = FlagAfter(D, c)
ToRooms(dest) == Goes(dest) /\ ocarrf' = FlagAfter(DOMAIN dest, "IN_ROOM")

\* The flags when x lets his weapon sink, if he still has it.
Sheathed(loc, flag, x) ==
  [o \in Objs |->
     IF o = pwpn[x] /\ loc[o] = x
     THEN CASE flag[o] = "BOTH_BY" -> "WORN_BY"
            [] flag[o] = "WIELDED_BY" -> "CARRIED_BY"
            [] OTHER -> flag[o]
     ELSE flag[o]]

\* set_weapon(x, w) where "loc" and "flag" say where things are by then.
SetWeapon(loc, flag, x, w) ==
  LET f == Sheathed(loc, flag, x) IN
  IF w \in Weapons /\ f[w] \in Held /\ loc[w] = x
  THEN /\ ocarrf' = [f EXCEPT ![w] = IF @ = "WORN_BY" THEN "BOTH_BY" ELSE "WIELDED_BY"]
       /\ pwpn' = [pwpn EXCEPT ![x] = w]
  ELSE ocarrf' = f /\ pwpn' = [pwpn EXCEPT ![x] = NoObj]

\* dropinpit() takes along what is in a container.
WithContents(all, D) ==
  {o \in Objs : \A S \in SUBSET Objs :
     (D \subseteq S /\ \A c \in S \cap Containers : Inside(all, c) \subseteq S) => o \in S}

\* ... marks it as destroyed and pays for it; the mutant pays only.
MarkedNot(D) == destroyed
Marked(D) == destroyed \cup D
Paid(D, mortal) ==
  scored' = [o \in Objs |-> IF o \in D /\ mortal /\ scored[o] < 2 THEN scored[o] + 1
                            ELSE scored[o]]

\* Each of D lies where "land" says, but what falls goes to the floor of the pit.
Landed(land, fall, mortal) ==
  /\ ToRooms([o \in DOMAIN land \cup fall |-> IF o \in fall THEN PitFloor ELSE land[o]])
  /\ destroyed' = Marked(fall)
  /\ Paid(fall, mortal)

\* dumpstuff(): the floor of the pit counts as a pit.
Dumped(all, mortal, D, r) ==
  Landed([o \in D |-> r], IF r = PitFloor THEN WithContents(all, D) ELSE {}, mortal)

\* destroy() and eat() leave what is in a container where it is.
Destroy(D) == destroyed' = destroyed \cup D /\ Moved(D, Grave, "IN_ROOM")

-----------------------------------------------------------------------------
(* Commands *)

Acts(me) == me \in Players \cap ingame

\* One thing, or a class of things.
GetHere(me, D) ==
  /\ Acts(me)
  /\ D /= {} /\ D \subseteq Here(me) \ Fixed
  /\ CanCarry(Wiz(me), me, Cardinality(D))
  /\ Moved(D, me, "CARRIED_BY")
  /\ UNCHANGED <<pwpn, people, destroyed, shut, scored>>

\* ... from something, which is opened first.
GetFrom(me, c, D) ==
  /\ Acts(me)
  /\ c \in Reachable(me)
  /\ D \subseteq Inside(Wiz(me), c) \ Fixed
  /\ CanCarry(Wiz(me), me, Cardinality(D))
  /\ shut' = shut \ {c}
  /\ Moved(D, me, "CARRIED_BY")
  /\ UNCHANGED <<pwpn, people, destroyed, scored>>

\* dropobj() of D by me: through ladders, branches and water, and into pits.
Drops(me, D) ==
  \E land \in [D -> LandsIn[ploc[me]]] :
    Landed(land, WithContents(Wiz(me), {o \in D : land[o] \in PitRooms}), ~Wiz(me))

Drop(me, D) ==
  /\ Acts(me)
  /\ D /= {} /\ D \subseteq Mine(me)
  /\ Wiz(me) \/ D \cap Clinging = {}
  /\ Drops(me, D)
  /\ UNCHANGED <<pwpn, people, shut>>

\* emptycom(): all that is in a, by way of my hands.
Empty(me, a) ==
  /\ Acts(me)
  /\ a \in Reachable(me)
  /\ shut' = shut \ {a}
  /\ Drops(me, Inside(Wiz(me), a))
  /\ UNCHANGED <<pwpn, people>>

\* What putcom() asks for; the mutant does not ask whether a thing goes into itself.
PutsAnywhere(me, a, c) ==
  /\ a \in Reachable(me) /\ c \in Reachable(me) \cap Containers
  /\ c \notin shut
  /\ a \notin Fixed \cup Clinging
  /\ WillHold(Wiz(me), c, a)
Puts(me, a, c) ==
  /\ a \in Reachable(me) /\ c \in Reachable(me) \cap Containers
  /\ a /= c
  /\ c \notin shut
  /\ a \notin Fixed \cup Clinging
  /\ WillHold(Wiz(me), c, a)

Put(me, a, c) ==
  /\ Acts(me)
  /\ Puts(me, a, c)
  /\ Moved({a}, c, "IN_CONTAINER")
  /\ UNCHANGED <<pwpn, people, destroyed, shut, scored>>

\* ... into the slime pit, which lets it through or dissolves it, even what clings to the
\* hands elsewhere, or down the chute.
PutDown(me, a) ==
  /\ Acts(me)
  /\ a \in Reachable(me)
  /\ ploc[me] \in DOMAIN Outlet
  /\ ploc[me] \in Chutes => a \notin Clinging
  /\ \/ Moved({a}, Outlet[ploc[me]], "IN_ROOM") /\ UNCHANGED destroyed
     \/ ploc[me] \notin Chutes /\ Destroy({a})
  /\ UNCHANGED <<pwpn, people, shut, scored>>

Give(me, o, x) ==
  /\ Acts(me)
  /\ x \in ingame \ {me} /\ InReach(me, x)
  /\ o \in Mine(me)
  /\ CanCarry(Wiz(me), x, 1)
  /\ ~(x \in Hungry /\ o \in Food)
  /\ Moved({o}, x, "CARRIED_BY")
  /\ UNCHANGED <<pwpn, people, destroyed, shut, scored>>

\* A hungry mobile eats, drops everything and leaves the game.
Feed(me, o, x) ==
  /\ Acts(me)
  /\ x \in ingame \cap Hungry /\ InReach(me, x)
  /\ o \in Mine(me) \cap Food
  /\ LET D == Carried(Wiz(me), x)
         fall == IF ploc[x] = PitFloor THEN WithContents(Wiz(me), D) ELSE {}
     IN
     /\ ToRooms([a \in D \cup fall \cup {o} |->
                   IF a = o THEN Grave ELSE IF a \in fall THEN PitFloor ELSE ploc[x]])
     /\ destroyed' = Marked(fall) \cup {o}
     /\ Paid(fall, ~Wiz(me))
  /\ ingame' = ingame \ {x}
  /\ UNCHANGED <<pwpn, ploc, shut>>

Steal(me, o, x) ==
  /\ Acts(me)
  /\ x \in ingame \ {me} /\ InReach(me, x)
  /\ o \in Carried(Wiz(me), x)
  /\ ocarrf[o] /= "WORN_BY" /\ pwpn[x] /= o
  /\ CanCarry(Wiz(me), me, 1)
  /\ Moved({o}, me, "CARRIED_BY")
  /\ UNCHANGED <<pwpn, people, destroyed, shut, scored>>

\* wears_shield(), wears_armor(), wears_mask(); the mutant does not ask.
RoomToWearAny(me, o) == o \in Wearables
RoomToWear(me, o) ==
  /\ o \in Wearables
  /\ \A k \in Kinds : o \in k => \A w \in Mine(me) \cap k : ocarrf[w] \notin Worn

Rewear(o, c) ==
  /\ ocarrf' = [ocarrf EXCEPT ![o] = c]
  /\ UNCHANGED <<oloc, inv, pwpn, people, destroyed, shut, scored>>

Wear(me, o) ==
  /\ Acts(me)
  /\ o \in Mine(me) /\ ocarrf[o] \notin Worn
  /\ RoomToWear(me, o)
  /\ Rewear(o, IF ocarrf[o] = "WIELDED_BY" THEN "BOTH_BY" ELSE "WORN_BY")

Remove(me, o) ==
  /\ Acts(me)
  /\ o \in Mine(me) /\ ocarrf[o] \in Worn
  /\ Rewear(o, IF ocarrf[o] = "BOTH_BY" THEN "WIELDED_BY" ELSE "CARRIED_BY")

\* WIELD, and a blow: what he has named, if he carries it, or else nothing; a blow
\* without a weapon named takes up pwpn() again.
Wield(me, w) ==
  /\ Acts(me)
  /\ w = NoObj \/ w \in Mine(me) \cap Weapons
  /\ SetWeapon(oloc, ocarrf, me, w)
  /\ UNCHANGED <<oloc, inv, people, destroyed, shut, scored>>

Eat(me, o) ==
  /\ Acts(me)
  /\ o \in Reachable(me) \cap Food
  /\ Destroy({o})
  /\ UNCHANGED <<pwpn, people, shut, scored>>

OpenClose(me, c) ==
  /\ Acts(me)
  /\ c \in Reachable(me) \cap Lids
  /\ shut' = IF c \in shut THEN shut \ {c} ELSE shut \cup {c}
  /\ UNCHANGED <<world, pwpn, people, destroyed, scored>>

Summon(me, o) ==
  /\ Acts(me) /\ Wiz(me)
  /\ Moved({o}, me, "CARRIED_BY")
  /\ UNCHANGED <<pwpn, people, destroyed, shut, scored>>

Anew(D) ==
  /\ destroyed' = destroyed \ D
  /\ scored' = [o \in Objs |-> IF o \in D THEN 0 ELSE scored[o]]

Resurrect(me, o) ==
  /\ Acts(me) /\ Wiz(me)
  /\ o \in destroyed
  /\ Anew({o})
  /\ Moved({o}, ploc[me], "IN_ROOM")
  /\ UNCHANGED <<pwpn, people, shut>>

-----------------------------------------------------------------------------
(* Mobiles *)

Alive(m) == m \in Mobs \cap ingame /\ ploc[m] /= Grave

\* stealstuff(), from the timer: there is no mynum then, and plev(-1) can be anything.
MobSteal(m, x, o) ==
  /\ Alive(m) /\ m \in Thieves
  /\ x \in (Players \cap ingame) \ Wizards /\ ploc[x] = ploc[m]
  /\ o \in Carried(TRUE, x) /\ ocarrf[o] \in Stealable[m]
  /\ Goes([a \in {o} |-> m])
  /\ LET flag == FlagAfter({o}, IF o \in Wearables THEN "WORN_BY" ELSE "CARRIED_BY") IN
     \/ o \in Weapons /\ SetWeapon(oloc', flag, m, o)
     \/ /\ o \in Weapons => pwpn[m] /= NoObj
        /\ ocarrf' = flag /\ UNCHANGED pwpn
  /\ UNCHANGED <<people, destroyed, shut, scored>>

\* shiftstuff(): the loop by index leaves some of what lies there.  Of what it takes,
\* the best weapon is wielded and the best armour put on, over what was best before.
MobPick(m, D) ==
  /\ Alive(m) /\ m \in Tidy
  /\ D /= {} /\ D \subseteq inv[ploc[m]] \ Fixed
  /\ Goes([o \in D |-> m])
  /\ \E on \in SUBSET (D \cap Armors) :
       /\ D \cap Armors /= {} => on /= {}
       /\ LET flag == [o \in Objs |-> IF o \in on THEN "WORN_BY"
                                      ELSE IF o \in D THEN "CARRIED_BY" ELSE ocarrf[o]]
          IN IF D \cap Weapons = {}
             THEN ocarrf' = flag /\ UNCHANGED pwpn
             ELSE \E w \in D \cap Weapons : SetWeapon(oloc', flag, m, w)
  /\ UNCHANGED <<people, destroyed, shut, scored>>

-----------------------------------------------------------------------------
(* Coming, going and dying *)

\* talker(), also for a player in the game whose connection has been taken over.
Enter(x) ==
  /\ x \in Players
  /\ ingame' = ingame \cup {x}
  /\ \E r \in Starts : ploc' = [ploc EXCEPT ![x] = r]
  /\ pwpn' = [pwpn EXCEPT ![x] = NoObj]
  /\ UNCHANGED <<world, destroyed, shut, scored>>

\* setploc()
Walk(x, r) ==
  /\ Acts(x) \/ Alive(x)
  /\ x \notin Wizards => r /= Grave
  /\ ploc' = [ploc EXCEPT ![x] = r]
  /\ UNCHANGED <<world, pwpn, ingame, destroyed, shut, scored>>

\* fleecom(): what is neither worn nor wielded stays behind, seen or not.
Flee(x, r) ==
  /\ Acts(x)
  /\ Mine(x) \cap Clinging = {}
  /\ x \notin Wizards => r /= Grave
  /\ Moved({o \in inv[x] : ocarrf[o] = "CARRIED_BY" /\ oloc[o] = x}, ploc[x], "IN_ROOM")
  /\ ploc' = [ploc EXCEPT ![x] = r]
  /\ UNCHANGED <<pwpn, ingame, destroyed, shut, scored>>

\* What dumpstuff() looks for; the mutant drops what fleecom() drops.
LosesLoose(all, x) == {o \in Carried(all, x) : ocarrf[o] = "CARRIED_BY"}
Loses(all, x) == Carried(all, x)

\* Where loseme() drops it: the player is still there.
Leaves(x) == ploc[x]

\* crapup() of a player, for whatever reason.
Leave(x) ==
  /\ Acts(x)
  /\ Dumped(Wiz(x), ~Wiz(x), Loses(Wiz(x), x), Leaves(x))
  /\ ploc' = [ploc EXCEPT ![x] = Nowhere]
  /\ ingame' = ingame \ {x}
  /\ UNCHANGED <<pwpn, shut>>

\* The end of wound_player(): mortals leave the game, mobiles go to LOC_DEAD_DEAD, and
\* wizards only lose their things.
Died(x, all, mortal) ==
  /\ Acts(x) \/ Alive(x)
  /\ Dumped(all, mortal, Loses(all, x), ploc[x])
  /\ ploc' = IF x \in Wizards THEN ploc
             ELSE [ploc EXCEPT ![x] = IF x \in Mobs THEN Grave ELSE Nowhere]
  /\ ingame' = IF x \in Players \ Wizards THEN ingame \ {x} ELSE ingame
  /\ UNCHANGED <<pwpn, shut>>

\* By the hand of a player, and in the timer, when there is no mynum.
Kill(me, x) == Acts(me) /\ me /= x /\ InReach(me, x) /\ Died(x, Wiz(me), ~Wiz(me))
FallInFight(x) == \E all \in BOOLEAN : Died(x, all, FALSE)

\* exorcom() of a mobile.
Exorcise(me, m) ==
  /\ Acts(me) /\ Wiz(me)
  /\ m \in Mobs \cap ingame
  /\ Dumped(TRUE, FALSE, Loses(TRUE, m), ploc[m])
  /\ ingame' = ingame \ {m}
  /\ UNCHANGED <<pwpn, ploc, shut>>

-----------------------------------------------------------------------------
(* Resets *)

\* resurcom() of a mobile that is dead or has left: reset_mobile(), but here.
Revive(me, m) ==
  /\ Acts(me) /\ Wiz(me)
  /\ m \in Mobs /\ ~Alive(m)
  /\ pwpn' = [pwpn EXCEPT ![m] = NoObj]
  /\ ploc' = [ploc EXCEPT ![m] = ploc[me]]
  /\ ingame' = ingame \cup {m}
  /\ UNCHANGED <<world, destroyed, shut, scored>>

\* reset_zone() of a zone of the world: first the mobiles, then the objects, which may
\* be anywhere.
ResetZone(z) ==
  LET things == z \cap Objs
      mobs == z \cap Mobs
  IN
  /\ Goes([o \in things |-> HomeLoc[o]])
  /\ ocarrf' = [o \in Objs |-> IF o \in things THEN HomeFlag[o] ELSE ocarrf[o]]
  /\ pwpn' = [x \in Chars |-> IF x \in mobs THEN HomeWeapon(x) ELSE pwpn[x]]
  /\ ploc' = [x \in Chars |-> IF x \in mobs THEN MobHome[x] ELSE ploc[x]]
  /\ ingame' = ingame \cup mobs
  /\ Anew(things)
  /\ shut' = (shut \ things) \cup (Lids \cap things)

-----------------------------------------------------------------------------
Command(me) ==
  \/ \E D \in SUBSET Objs : GetHere(me, D) \/ Drop(me, D)
  \/ \E o \in Objs :
       \/ Empty(me, o) \/ PutDown(me, o) \/ Wear(me, o) \/ Remove(me, o) \/ Eat(me, o)
       \/ OpenClose(me, o) \/ Summon(me, o) \/ Resurrect(me, o)
       \/ \E c \in Objs : Put(me, o, c)
       \/ \E D \in SUBSET Objs : GetFrom(me, o, D)
       \/ \E x \in Chars : Give(me, o, x) \/ Feed(me, o, x) \/ Steal(me, o, x)
  \/ \E w \in Objs \cup {NoObj} : Wield(me, w)
  \/ \E x \in Chars : Kill(me, x) \/ Exorcise(me, x) \/ Revive(me, x)

Mobile(m) ==
  \/ \E x \in Players, o \in Objs : MobSteal(m, x, o)
  \/ \E D \in SUBSET Objs : MobPick(m, D)

Next ==
  \/ \E me \in Players : Command(me) \/ Enter(me) \/ Leave(me)
  \/ \E m \in Mobs : Mobile(m)
  \/ \E x \in Chars : FallInFight(x) \/ \E r \in Rooms : Walk(x, r) \/ Flee(x, r)
  \/ \E z \in Zones : ResetZone(z)

Spec == Init /\ [][Next]_vars

-----------------------------------------------------------------------------
(* What the world promises *)

\* The object and the place agree, and the flag says what sort of place it is:
\* setoloc() goes by the flag when it looks for the set to take the object out of.
Located ==
  /\ \A x \in Holders, o \in Objs : o \in inv[x] <=> oloc[o] = x
  /\ \A o \in Objs :
       /\ ocarrf[o] = "IN_ROOM" <=> oloc[o] \in Rooms
       /\ ocarrf[o] = "IN_CONTAINER" <=> oloc[o] \in Containers
       /\ ocarrf[o] \in Held <=> oloc[o] \in Chars

\* No thing is in itself, through any number of others: obj_loc(), in_inventory(),
\* xdesloc() and SUMMON go from container to container until they are outside, and
\* dropinpit() and the inventory from outside in (objsys.c:1026, 1467, magic.c:223).
NoCycle ==
  \A S \in SUBSET Objs : S /= {} => \E o \in S : oloc[o] \notin S

\* Nobody has two shields, suits of armour or masks on (objsys.c:444), whatever he
\* puts on, wields, takes off, hands over and gets back.
WornOnce ==
  \A x \in Players, k \in Kinds : \A o, w \in k :
    (oloc[o] = x /\ oloc[w] = x /\ ocarrf[o] \in Worn /\ ocarrf[w] \in Worn) => o = w

\* Whoever leaves the game leaves his things to the others: what a character who is
\* not there still has is destroyed, and so comes back by a reset only (mobile.c:1284).
NothingTakenAlong ==
  \A x \in Chars \ ingame : inv[x] \subseteq destroyed

\* A thing brings its value once, however it comes out of the pit again (objsys.c:1559).
ScoredOnce == \A o \in Objs : scored[o] <= 1
==============================================================================
