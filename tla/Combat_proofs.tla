---------------------------- MODULE Combat_proofs ----------------------------
(***************************************************************************)
(* However many players, mobiles and rooms there are: a mobile remembers   *)
(* nobody who did not kill it, and no fight begins at a distance.          *)
(***************************************************************************)
EXTENDS Combat, TLAPS

-----------------------------------------------------------------------------
(* The inductive invariant: what is known of the characters, who is whose enemy, who *)
(* helps, and where the timer stands *)

World ==
  /\ stage \in [Players -> {"free", "login", "game", "gone"}]
  /\ ploc \in [Chars -> Rooms \cup {Nowhere}]
  /\ dead \subseteq Mobs /\ nameless \subseteq Mobs
  /\ pscore \in [Mobs -> Players \cup {NoOne}]
  /\ deserved \subseteq Mobs
  /\ \A p \in Players : ploc[p] \in Rooms <=> stage[p] = "game"
  /\ \A m \in Mobs : ploc[m] \in Rooms
  /\ KillerRemembered

Foes(f) == f \in [Chars -> Chars \cup {NoOne}] /\ \A x \in Chars : f[x] /= x

Aid == phelping \in [Players -> Chars \cup {NoOne}] /\ peace \in BOOLEAN

Clock ==
  /\ phase \in Phases /\ at \in 0 .. P + M /\ todo \subseteq Players
  /\ phase \in {"move", "onlook", "attack"} => at \in Chars
  /\ phase \in {"move", "look", "attack"} => at >= P

IInv == World /\ Foes(pfighting) /\ Aid /\ Clock

LEMMA Parts == TypeOK /\ KillerRemembered <=> IInv
  BY DEF TypeOK, IInv, World, Foes, Aid, Clock

\* FightsBeginHere, of one step.
Near(x, y) ==
  \/ {x, y} \cap Wizards /= {}
  \/ Together(x, y) /\ (~Peace(x) \/ x \in Scripted)
Fewer(f, g) == \A x \in Chars : g[x] \in {f[x], NoOne}
Begins == \A x \in Chars : pfighting'[x] \in {pfighting[x], NoOne} \/ Near(x, pfighting'[x])

Keeps == World' /\ Foes(pfighting') /\ Aid' /\ Clock' /\ Begins

-----------------------------------------------------------------------------
(* Facts about the characters *)

LEMMA TwoKinds ==
  /\ Chars = Players \cup Mobs /\ Players \cap Mobs = {}
  /\ NoOne \notin Chars /\ Wizards \subseteq Players
  BY CastAssumption DEF Chars, Players, Mobs, NoOne

LEMMA NearIsMutual ==
  ASSUME NEW x \in Chars, NEW y \in Chars, Together(x, y), ~Peace(x) \/ ~Peace(y)
  PROVE  Near(x, y) /\ Near(y, x)
  BY DEF Near, Together, Peace

\* Ending a fight starts none.
LEMMA EndFightKeeps ==
  ASSUME NEW f, Foes(f), NEW loc, NEW x \in Chars
  PROVE  Foes(EndFight(f, loc, x)) /\ Fewer(f, EndFight(f, loc, x))
<1>1. EndFight(f, loc, x) \in [Chars -> Chars \cup {NoOne}]
  BY DEF EndFight, Foes
<1>2. Fewer(f, EndFight(f, loc, x))
  BY DEF EndFight, Fewer
<1>3. \A y \in Chars : EndFight(f, loc, x)[y] /= y
  BY <1>2, TwoKinds DEF Fewer, Foes
<1> QED BY <1>1, <1>2, <1>3 DEF Foes

LEMMA FewerBegins ==
  ASSUME Fewer(pfighting, pfighting')
  PROVE  Begins
  BY DEF Fewer, Begins

\* Whoever leaves is remembered by nobody as one still here.
LEMMA DepartsKeeps ==
  ASSUME World, NEW p \in Players, Departs(p)
  PROVE  World'
<1>1. p \in Chars /\ p \notin Mobs
  BY TwoKinds
<1>2. stage' \in [Players -> {"free", "login", "game", "gone"}] /\ deserved' \subseteq Mobs
  BY DEF World, Departs
<1>3. ploc' \in [Chars -> Rooms \cup {Nowhere}]
  BY DEF World, Departs
<1>4. \A q \in Players : ploc'[q] \in Rooms <=> stage'[q] = "game"
  BY <1>1, PlacesAssumption, TwoKinds DEF World, Departs
<1>5. \A m \in Mobs : ploc'[m] \in Rooms
  BY <1>1, TwoKinds DEF World, Departs
<1>6. KillerRemembered'
  BY DEF World, Departs, KillerRemembered, Forgotten
<1> QED BY <1>2, <1>3, <1>4, <1>5, <1>6 DEF World, Departs

LEMMA MobDiesKeeps ==
  ASSUME World, NEW a \in Chars, NEW m \in Mobs, MobDies(a, m)
  PROVE  World'
<1>1. m \in Chars /\ m \notin Players /\ Grave \in Rooms
  BY TwoKinds, PlacesAssumption
<1>2. ploc' \in [Chars -> Rooms \cup {Nowhere}] /\ dead' \subseteq Mobs /\ deserved' \subseteq Mobs
  BY <1>1 DEF World, MobDies
<1>3. pscore' \in [Mobs -> Players \cup {NoOne}]
  BY DEF World, MobDies
<1>4. \A q \in Players : ploc'[q] \in Rooms <=> stage'[q] = "game"
  BY <1>1, TwoKinds DEF World, MobDies
<1>5. \A n \in Mobs : ploc'[n] \in Rooms
  BY <1>1, TwoKinds DEF World, MobDies
<1>6. KillerRemembered'
  <2> SUFFICES ASSUME NEW n \in dead', pscore'[n] \in Players,
                      stage'[pscore'[n]] \in {"login", "game"}
               PROVE  n \in deserved'
    BY DEF KillerRemembered
  <2>1. CASE n = m
    BY <2>1, TwoKinds DEF World, MobDies, NoOne
  <2>2. CASE n /= m
    BY <2>2 DEF World, MobDies, KillerRemembered
  <2> QED BY <2>1, <2>2
<1> QED BY <1>2, <1>3, <1>4, <1>5, <1>6 DEF World, MobDies

LEMMA BodiesKept ==
  ASSUME World, UNCHANGED bodies
  PROVE  World'
  BY DEF World, bodies, KillerRemembered

-----------------------------------------------------------------------------
(* Blows *)

\* A blow leaves the enemies as they were before it, or fewer, or makes the attacker the
\* victim's.
Strikes(f, a, v) ==
  \A x \in Chars : pfighting'[x] \in {f[x], NoOne} \/ (x = v /\ pfighting'[x] = a)

LEMMA WoundKeeps ==
  ASSUME World, NEW f, Foes(f), NEW a \in Chars, NEW v \in Chars, a /= v, Wound(f, a, v)
  PROVE  World' /\ Foes(pfighting') /\ Strikes(f, a, v)
<1> DEFINE g == [f EXCEPT ![v] = a]
<1>1. Foes(g)
  BY DEF Foes
<1>2. \A x \in Chars : g[x] = f[x] \/ (x = v /\ g[x] = a)
  BY DEF Foes
<1>3. CASE Hurt(f, a, v)
  BY <1>1, <1>2, <1>3, BodiesKept DEF Hurt, Strikes
<1>4. CASE Slain(f, a, v)
  <2>1. Foes(pfighting') /\ Fewer(g, pfighting')
    BY <1>1, <1>4, EndFightKeeps DEF Slain
  <2>2. Strikes(f, a, v)
    BY <1>2, <2>1 DEF Fewer, Strikes
  <2>3. World'
    BY <1>4, DepartsKeeps, MobDiesKeeps, TwoKinds DEF Slain
  <2> QED BY <2>1, <2>2, <2>3
<1> QED BY <1>3, <1>4 DEF Wound

LEMMA HitKeeps ==
  ASSUME World, NEW f, Foes(f), NEW a \in Chars, NEW v \in Chars, a /= v, Hit(f, a, v)
  PROVE  /\ World' /\ Foes(pfighting')
         /\ Fewer(f, pfighting') \/ (Strikes(f, a, v) /\ MayHit(a, v))
<1>1. CASE NoBlow(f)
  BY <1>1, BodiesKept DEF NoBlow, Fewer
<1>2. CASE Doomed(a, v) /\ pfighting' = f /\ Departs(a)
  BY <1>2, DepartsKeeps DEF Doomed, Fewer
<1>3. CASE MayHit(a, v) /\ Wound(f, a, v)
  BY <1>3, WoundKeeps
<1> QED BY <1>1, <1>2, <1>3 DEF Hit

\* So a blow by one who has this enemy already, or has none, starts a fight only where
\* the two are.
LEMMA HitBegins ==
  ASSUME World, Foes(pfighting), NEW a \in Chars, NEW v \in Chars, a /= v,
         Hit(pfighting, a, v)
  PROVE  World' /\ Foes(pfighting') /\ Begins
<1>1. /\ World' /\ Foes(pfighting')
      /\ Fewer(pfighting, pfighting') \/ (Strikes(pfighting, a, v) /\ MayHit(a, v))
  BY HitKeeps
<1>2. CASE Fewer(pfighting, pfighting')
  BY <1>1, <1>2, FewerBegins
<1>3. CASE Strikes(pfighting, a, v) /\ MayHit(a, v)
  <2>1. Near(v, a)
    BY <1>3, NearIsMutual DEF MayHit
  <2> QED BY <1>1, <1>3, <2>1 DEF Strikes, Begins
<1> QED BY <1>1, <1>2, <1>3

-----------------------------------------------------------------------------
(* Commands *)

LEMMA ClockStands ==
  ASSUME Clock, UNCHANGED timer
  PROVE  Clock'
  BY DEF Clock, timer

LEMMA ReachesRooms == \A p \in Players : Reaches(p) \subseteq Rooms
  BY PlacesAssumption DEF Reaches

LEMMA KillKeeps ==
  ASSUME IInv, NEW p \in Players, NEW v \in Chars, Kill(p, v)
  PROVE  Keeps
<1> DEFINE f == [pfighting EXCEPT ![p] = v, ![v] = p]
<1>1. p \in Chars /\ p /= v
  BY TwoKinds DEF Kill
<1>2. Foes(f)
  BY <1>1 DEF IInv, Foes
<1>3. Near(p, v) /\ Near(v, p)
  BY <1>1, NearIsMutual DEF Kill
<1>4. /\ World' /\ Foes(pfighting')
      /\ Fewer(f, pfighting') \/ Strikes(f, p, v)
  BY <1>1, <1>2, HitKeeps DEF IInv, Kill
<1>5. \A x \in Chars : pfighting'[x] \in {f[x], NoOne} \/ (x = v /\ pfighting'[x] = p)
  BY <1>4 DEF Fewer, Strikes
<1>6. \A x \in Chars : f[x] = pfighting[x] \/ (x = p /\ f[x] = v) \/ (x = v /\ f[x] = p)
  BY <1>1 DEF IInv, Foes
<1>7. Begins
  BY <1>3, <1>5, <1>6 DEF Begins
<1>8. Aid' /\ Clock'
  BY ClockStands DEF IInv, Aid, Kill, Acts, Idle
<1> QED BY <1>4, <1>7, <1>8 DEF Keeps

\* What wounds without a word: spells, ZAP and WOUNDMON.
LEMMA WoundBegins ==
  ASSUME World, Foes(pfighting), NEW a \in Chars, NEW v \in Chars, a /= v,
         Near(v, a), Wound(pfighting, a, v)
  PROVE  World' /\ Foes(pfighting') /\ Begins
<1>1. World' /\ Foes(pfighting') /\ Strikes(pfighting, a, v)
  BY WoundKeeps
<1> QED BY <1>1 DEF Strikes, Begins

LEMMA SpellKeeps ==
  ASSUME IInv, NEW p \in Players, NEW v \in Chars, Spell(p, v)
  PROVE  Keeps
<1>1. p \in Chars /\ p /= v /\ CanCast(p, v) /\ stage[p] = "game"
  BY TwoKinds DEF Spell, Acts
<1>2. Near(v, p)
  BY <1>1, TwoKinds DEF Near, CanCast, Together, InGame, Peace
<1>3. World' /\ Foes(pfighting') /\ Begins
  BY <1>1, <1>2, WoundBegins DEF IInv, Spell
<1>4. Aid' /\ Clock'
  BY ClockStands DEF IInv, Aid, Spell, Acts, Idle
<1> QED BY <1>3, <1>4 DEF Keeps

LEMMA ZapKeeps ==
  ASSUME IInv, NEW p \in Players, NEW m \in Mobs, Zap(p, m)
  PROVE  Keeps
<1>1. p \in Chars /\ m \in Chars /\ p /= m
  BY TwoKinds
<1>2. Near(m, p) /\ Wound(pfighting, p, m)
  BY DEF Near, Zap, Wound
<1>3. World' /\ Foes(pfighting') /\ Begins
  BY <1>1, <1>2, WoundBegins DEF IInv
<1>4. Aid' /\ Clock'
  BY ClockStands DEF IInv, Aid, Zap, Acts, Idle
<1> QED BY <1>3, <1>4 DEF Keeps

LEMMA ProvokeKeeps ==
  ASSUME IInv, NEW p \in Players, NEW m \in Mobs, Provoke(p, m)
  PROVE  Keeps
<1>1. p \in Chars /\ m \in Chars /\ m /= p
  BY TwoKinds
<1>2. World' /\ Foes(pfighting') /\ Begins
  BY <1>1, HitBegins DEF IInv, Provoke
<1>3. Aid' /\ Clock'
  BY ClockStands DEF IInv, Aid, Provoke, Acts, Idle
<1> QED BY <1>2, <1>3 DEF Keeps

LEMMA WoundMonKeeps ==
  ASSUME IInv, NEW p \in Players, NEW m \in Mobs, WoundMon(p, m)
  PROVE  Keeps
<1>1. p \in Chars /\ m \in Chars /\ p /= m
  BY TwoKinds
<1>2. Near(m, p)
  BY DEF Near, WoundMon, Together
<1>3. World' /\ Foes(pfighting') /\ Begins
  BY <1>1, <1>2, WoundBegins DEF IInv, WoundMon
<1>4. Aid' /\ Clock'
  BY ClockStands DEF IInv, Aid, WoundMon, Acts, Idle
<1> QED BY <1>3, <1>4 DEF Keeps

\* However somebody in the game is moved to a room.
LEMMA ComesKeeps ==
  ASSUME IInv, NEW f, Foes(f), Fewer(pfighting, f), Idle,
         NEW p \in Players, stage[p] = "game", NEW r \in Rooms, Comes(f, p, r)
  PROVE  Keeps
<1>1. p \in Chars /\ p \notin Mobs
  BY TwoKinds
<1>2. Foes(pfighting') /\ Fewer(f, pfighting')
  BY <1>1, EndFightKeeps DEF Comes, Fewer
<1>3. Begins
  BY <1>2, FewerBegins DEF Fewer
<1>4. ploc' \in [Chars -> Rooms \cup {Nowhere}] /\ ploc'[p] \in Rooms
  BY <1>1 DEF IInv, World, Comes
<1>5. \A x \in Chars : x /= p => ploc'[x] = ploc[x]
  BY DEF IInv, World, Comes
<1>6. World'
  BY <1>1, <1>4, <1>5, TwoKinds DEF IInv, World, Comes, KillerRemembered
<1>7. Aid' /\ Clock'
  BY ClockStands DEF IInv, Aid, Comes, Idle
<1> QED BY <1>2, <1>3, <1>6, <1>7 DEF Keeps

LEMMA MoveKeeps ==
  ASSUME IInv, NEW p \in Players, NEW r \in Rooms, Walk(p, r) \/ Flee(p, r) \/ Teleport(p, r)
  PROVE  Keeps
<1>1. Idle /\ stage[p] = "game" /\ p \in Chars
  BY TwoKinds DEF Walk, Flee, Teleport, Acts
<1>2. CASE Teleport(p, r)
  BY <1>1, <1>2, ComesKeeps DEF Teleport, Fewer, IInv
<1>3. CASE Walk(p, r) \/ Flee(p, r)
  BY <1>1, <1>3, ComesKeeps, EndFightKeeps DEF Walk, Flee, IInv
<1> QED BY <1>2, <1>3

LEMMA SummonKeeps ==
  ASSUME IInv, NEW p \in Players, NEW v \in Chars, Summon(p, v)
  PROVE  Keeps
<1>1. Idle /\ ploc[p] \in Rooms /\ InGame(v)
  BY DEF IInv, World, Summon, Acts
<1>2. CASE v \in Players
  <2>1. stage[v] = "game"
    BY <1>1, <1>2, TwoKinds DEF InGame
  <2>2. Comes(pfighting, v, ploc[p])
    BY <1>2 DEF Summon
  <2> QED BY <1>1, <1>2, <2>1, <2>2, ComesKeeps DEF IInv, Fewer
<1>3. CASE v \notin Players
  <2>1. v \in Mobs
    BY <1>3, TwoKinds
  <2>2. ploc' \in [Chars -> Rooms \cup {Nowhere}] /\ \A m \in Mobs : ploc'[m] \in Rooms
    BY <1>1, <1>3, TwoKinds DEF IInv, World, Summon
  <2>3. \A q \in Players : ploc'[q] = ploc[q]
    BY <1>3, TwoKinds DEF IInv, World, Summon
  <2>4. World'
    BY <1>3, <2>2, <2>3 DEF IInv, World, Summon, KillerRemembered
  <2>5. Foes(pfighting') /\ Begins
    BY <1>3 DEF IInv, Summon, Begins
  <2>6. Aid' /\ Clock'
    BY <1>3, ClockStands DEF IInv, Aid, Summon, Acts, Idle
  <2> QED BY <2>4, <2>5, <2>6 DEF Keeps
<1> QED BY <1>2, <1>3

LEMMA HelpKeeps ==
  ASSUME IInv, NEW p \in Players, NEW v \in Chars, Help(p, v)
  PROVE  Keeps
<1>1. World' /\ Foes(pfighting') /\ Begins
  BY BodiesKept DEF IInv, Help, Begins
<1>2. Aid' /\ Clock'
  BY ClockStands DEF IInv, Aid, Help, Acts, Idle
<1> QED BY <1>1, <1>2 DEF Keeps

LEMMA LeaveKeeps ==
  ASSUME IInv, NEW p \in Players, Leave(p)
  PROVE  Keeps
<1>1. World'
  BY DepartsKeeps DEF IInv, Leave
<1>2. Foes(pfighting') /\ Begins
  BY DEF IInv, Leave, Begins
<1>3. Aid' /\ Clock'
  BY ClockStands DEF IInv, Aid, Leave, Acts, Idle
<1> QED BY <1>1, <1>2, <1>3 DEF Keeps

LEMMA ExorciseKeeps ==
  ASSUME IInv, NEW p \in Players, NEW m \in Mobs, Exorcise(p, m)
  PROVE  Keeps
<1>1. World'
  BY DEF IInv, World, Exorcise, KillerRemembered
<1>2. Foes(pfighting') /\ Begins
  BY EndFightKeeps, FewerBegins, TwoKinds DEF IInv, Exorcise
<1>3. Aid' /\ Clock'
  BY ClockStands DEF IInv, Aid, Exorcise, Acts, Idle
<1> QED BY <1>1, <1>2, <1>3 DEF Keeps

LEMMA RewardKeeps ==
  ASSUME IInv, NEW p \in Players, NEW m \in Mobs, Feed(p, m) \/ Gift(p, m)
  PROVE  Keeps
<1>1. pscore' \in [Mobs -> Players \cup {NoOne}] /\ deserved' \subseteq Mobs
  BY DEF IInv, World, Feed, Gift, Rewarded
<1>2. \A n \in dead : n \in deserved' \/ (pscore'[n] = pscore[n] /\ n \notin deserved)
  BY DEF IInv, World, Feed, Gift, Rewarded
<1>3. World'
  BY <1>1, <1>2 DEF IInv, World, Feed, Gift, KillerRemembered
<1>4. Foes(pfighting') /\ Begins /\ Aid'
  BY DEF IInv, Aid, Feed, Gift, Begins
<1>5. Clock'
  BY ClockStands DEF IInv, Feed, Gift, Acts, Idle
<1> QED BY <1>3, <1>4, <1>5 DEF Keeps

LEMMA ResetKeeps ==
  ASSUME IInv, NEW m \in Mobs, NEW r \in Rooms, Idle, Reset(m, r)
  PROVE  Keeps
<1>1. m \in Chars /\ m \notin Players
  BY TwoKinds
<1>2. ploc' \in [Chars -> Rooms \cup {Nowhere}]
  BY <1>1 DEF IInv, World, Reset
<1>3. \A q \in Players : ploc'[q] = ploc[q]
  BY <1>1, TwoKinds DEF IInv, World, Reset
<1>4. \A n \in Mobs : ploc'[n] \in Rooms
  BY <1>1, TwoKinds DEF IInv, World, Reset
<1>5. World'
  BY <1>2, <1>3, <1>4 DEF IInv, World, Reset, KillerRemembered
<1>6. Foes(pfighting') /\ Begins
  BY <1>1, EndFightKeeps, FewerBegins DEF IInv, Reset
<1>7. Aid' /\ Clock'
  BY ClockStands DEF IInv, Aid, Reset, Idle
<1> QED BY <1>5, <1>6, <1>7 DEF Keeps

LEMMA AwakeningsKeep ==
  ASSUME IInv, NEW m \in Mobs,
         ResetMobile(m) \/ \E p \in Players : Resurrect(p, m)
  PROVE  Keeps
<1>1. CASE ResetMobile(m)
  BY <1>1, ResetKeeps, PlacesAssumption DEF ResetMobile
<1>2. ASSUME NEW p \in Players, Resurrect(p, m)
      PROVE  Keeps
  <2>1. ploc[p] \in Rooms /\ Idle
    BY <1>2 DEF IInv, World, Resurrect, Acts
  <2> QED BY <1>2, <2>1, ResetKeeps DEF Resurrect
<1> QED BY <1>1, <1>2

LEMMA HealKeeps ==
  ASSUME IInv, NEW p \in Players, NEW m \in Mobs, Heal(p, m)
  PROVE  Keeps
<1>1. World'
  BY DEF IInv, World, Heal, KillerRemembered
<1>2. Foes(pfighting') /\ Begins
  BY DEF IInv, Heal, Begins
<1>3. Aid' /\ Clock'
  BY ClockStands DEF IInv, Aid, Heal, Acts, Idle
<1> QED BY <1>1, <1>2, <1>3 DEF Keeps

LEMMA PeaceKeeps ==
  ASSUME IInv, NEW p \in Players, War(p) \/ MakePeace(p)
  PROVE  Keeps
<1>1. World'
  BY BodiesKept DEF IInv, War, MakePeace
<1>2. Foes(pfighting') /\ Begins
  <2>1. CASE War(p)
    BY <2>1 DEF IInv, War, Begins
  <2>2. CASE MakePeace(p)
    <3>1. pfighting' \in [Chars -> Chars \cup {NoOne}] /\ Fewer(pfighting, pfighting')
      BY <2>2 DEF IInv, Foes, MakePeace, Fewer
    <3>2. \A x \in Chars : pfighting'[x] /= x
      BY <3>1, TwoKinds DEF IInv, Foes, Fewer
    <3> QED BY <3>1, <3>2, FewerBegins DEF Foes
  <2> QED BY <2>1, <2>2
<1>3. Aid' /\ Clock'
  BY ClockStands DEF IInv, Aid, War, MakePeace, Acts, Idle
<1> QED BY <1>1, <1>2, <1>3 DEF Keeps

LEMMA CommandKeeps ==
  ASSUME IInv, NEW p \in Players, Command(p)
  PROVE  Keeps
<1>1. ASSUME NEW v \in Chars, Kill(p, v) \/ Spell(p, v) \/ Summon(p, v) \/ Help(p, v)
      PROVE  Keeps
  BY <1>1, KillKeeps, SpellKeeps, SummonKeeps, HelpKeeps
<1>2. ASSUME NEW m \in Mobs,
             \/ Zap(p, m) \/ Provoke(p, m) \/ WoundMon(p, m)
             \/ Exorcise(p, m) \/ Feed(p, m) \/ Gift(p, m) \/ Resurrect(p, m) \/ Heal(p, m)
      PROVE  Keeps
  BY <1>2, ZapKeeps, ProvokeKeeps, WoundMonKeeps, ExorciseKeeps, RewardKeeps, AwakeningsKeep,
     HealKeeps
<1>3. ASSUME NEW r \in Rooms, Walk(p, r) \/ Flee(p, r) \/ Teleport(p, r)
      PROVE  Keeps
  BY <1>3, MoveKeeps
<1>4. CASE Leave(p) \/ War(p) \/ MakePeace(p)
  BY <1>4, LeaveKeeps, PeaceKeeps
<1> QED BY <1>1, <1>2, <1>3, <1>4 DEF Command

-----------------------------------------------------------------------------
(* Sessions *)

\* Whoever gets a slot is nobody's killer.
LEMMA ConnectKeeps ==
  ASSUME IInv, NEW p \in Players, Connect(p)
  PROVE  Keeps
<1>1. stage' \in [Players -> {"free", "login", "game", "gone"}]
  BY DEF IInv, World, Connect
<1>2. pscore' \in [Mobs -> Players \cup {NoOne}]
  BY DEF IInv, World, Connect, Memory
<1>3. \A q \in Players : stage'[q] = "game" <=> stage[q] = "game"
  BY DEF IInv, World, Connect
<1>4. KillerRemembered'
  <2> SUFFICES ASSUME NEW m \in dead', pscore'[m] \in Players,
                      stage'[pscore'[m]] \in {"login", "game"}
               PROVE  m \in deserved'
    BY DEF KillerRemembered
  <2>1. m \in dead /\ m \in Mobs /\ ~Alive(m)
    BY DEF IInv, World, Connect, Alive
  <2>2. pscore'[m] = pscore[m] /\ pscore[m] /= p
    BY <2>1, TwoKinds DEF IInv, World, Connect, Memory
  <2>3. stage'[pscore[m]] = stage[pscore[m]]
    BY <2>2 DEF IInv, World, Connect
  <2> QED BY <2>1, <2>2, <2>3 DEF IInv, World, Connect, KillerRemembered
<1>5. World'
  BY <1>1, <1>2, <1>3, <1>4 DEF IInv, World, Connect
<1>6. Foes(pfighting') /\ Begins
  BY DEF IInv, Connect, Begins
<1>7. Aid' /\ Clock'
  BY ClockStands DEF IInv, Aid, Connect, Idle
<1> QED BY <1>5, <1>6, <1>7 DEF Keeps

LEMMA EnterKeeps ==
  ASSUME IInv, NEW p \in Players, NEW r \in Rooms, Enter(p, r)
  PROVE  Keeps
<1>1. p \in Chars /\ p \notin Mobs
  BY TwoKinds
<1>2. /\ stage' \in [Players -> {"free", "login", "game", "gone"}]
      /\ ploc' \in [Chars -> Rooms \cup {Nowhere}]
  BY <1>1 DEF IInv, World, Enter
<1>3. \A q \in Players : ploc'[q] \in Rooms <=> stage'[q] = "game"
  BY <1>1, TwoKinds DEF IInv, World, Enter
<1>4. \A m \in Mobs : ploc'[m] \in Rooms
  BY <1>1, TwoKinds DEF IInv, World, Enter
<1>5. KillerRemembered'
  BY DEF IInv, World, Enter, KillerRemembered
<1>6. World'
  BY <1>2, <1>3, <1>4, <1>5 DEF IInv, World, Enter
<1>7. Foes(pfighting') /\ Begins
  BY <1>1, EndFightKeeps, FewerBegins DEF IInv, Enter
<1>8. Aid' /\ Clock'
  BY ClockStands DEF IInv, Aid, Enter, Idle
<1> QED BY <1>6, <1>7, <1>8 DEF Keeps

LEMMA EndKeeps ==
  ASSUME IInv, NEW p \in Players, GiveUp(p) \/ EndConnection(p)
  PROVE  Keeps
<1>1. World'
  BY DEF IInv, World, GiveUp, EndConnection, KillerRemembered
<1>2. Foes(pfighting') /\ Begins
  BY DEF IInv, GiveUp, EndConnection, Begins
<1>3. Aid' /\ Clock'
  BY ClockStands DEF IInv, Aid, GiveUp, EndConnection, Idle
<1> QED BY <1>1, <1>2, <1>3 DEF Keeps

-----------------------------------------------------------------------------
(* The timer *)

LEMMA Ends == P \in Mobs /\ P \in Chars /\ P + M - 1 \in Mobs /\ P + M \in 0 .. P + M
  BY CastAssumption DEF Mobs, Chars

LEMMA QuietKeeps ==
  ASSUME IInv, Quiet
  PROVE  World' /\ Foes(pfighting') /\ Begins
  BY BodiesKept DEF IInv, Quiet, Begins

LEMMA TickKeeps ==
  ASSUME IInv, Tick
  PROVE  Keeps
<1>1. Clock'
  BY CastAssumption DEF IInv, Clock, Tick, Goto, Phases, Chars
<1> QED BY <1>1, QuietKeeps DEF IInv, Aid, Tick, Keeps

LEMMA MoveMobKeeps ==
  ASSUME IInv, NEW m \in Mobs, NEW r \in Rooms, MoveMob(m, r)
  PROVE  Keeps
<1>1. m \in Chars /\ m \notin Players
  BY TwoKinds
<1>2. Clock'
  BY CastAssumption DEF IInv, Clock, MoveMob, Goto, Stands, Phases, Chars, Mobs
<1>3. ploc' \in [Chars -> Rooms \cup {Nowhere}] /\ \A n \in Mobs : ploc'[n] \in Rooms
  BY <1>1, TwoKinds DEF IInv, World, MoveMob
<1>4. \A q \in Players : ploc'[q] = ploc[q]
  BY <1>1, TwoKinds DEF IInv, World, MoveMob
<1>5. World'
  BY <1>3, <1>4 DEF IInv, World, MoveMob, KillerRemembered
<1>6. Foes(pfighting') /\ Begins /\ Aid'
  BY DEF IInv, Aid, MoveMob, Begins
<1> QED BY <1>2, <1>5, <1>6 DEF Keeps

LEMMA OnlookKeeps ==
  ASSUME IInv, NEW i \in Chars, Onlook(i)
  PROVE  Keeps
<1>1. Clock'
  BY CastAssumption DEF IInv, Clock, Onlook, Goto, Stands, Phases, Chars
<1>2. World' /\ Foes(pfighting') /\ Begins
  <2>1. CASE Quiet
    BY <2>1, QuietKeeps
  <2>2. CASE /\ Fights(i)
             /\ pfighting' = [pfighting EXCEPT ![i] = NoOne, ![pfighting[i]] = NoOne]
             /\ UNCHANGED bodies
    <3>1. pfighting' \in [Chars -> Chars \cup {NoOne}] /\ Fewer(pfighting, pfighting')
      BY <2>2 DEF IInv, Foes, Fewer
    <3>2. \A x \in Chars : pfighting'[x] /= x
      BY <3>1, TwoKinds DEF IInv, Foes, Fewer
    <3> QED BY <2>2, <3>1, <3>2, BodiesKept, FewerBegins DEF IInv, Foes
  <2>3. CASE Fights(i) /\ Hit(pfighting, i, pfighting[i])
    <3>1. pfighting[i] \in Chars /\ pfighting[i] /= i
      BY <2>3 DEF IInv, Foes, Fights
    <3> QED BY <2>3, <3>1, HitBegins DEF IInv
  <2> QED BY <2>1, <2>2, <2>3 DEF Onlook
<1>3. Aid'
  BY DEF IInv, Aid, Onlook
<1> QED BY <1>1, <1>2, <1>3 DEF Keeps

LEMMA LookKeeps ==
  ASSUME IInv, NEW m \in Mobs, Look(m)
  PROVE  Keeps
<1>1. Prey(m) \subseteq Players
  BY DEF Prey
<1>2. Clock'
  BY <1>1, CastAssumption DEF IInv, Clock, Look, Goto, Stands, Phases, Chars, Mobs
<1> QED BY <1>2, QuietKeeps DEF IInv, Aid, Look, Keeps

LEMMA AttackKeeps ==
  ASSUME IInv, NEW m \in Mobs, NEW p \in Players, Attack(m, p)
  PROVE  Keeps
<1>1. m \in Chars /\ p \in Chars /\ m /= p
  BY TwoKinds
<1>2. todo' \subseteq Players
  BY DEF IInv, Clock, Attack
<1>3. Clock'
  BY <1>2, CastAssumption DEF IInv, Clock, Attack, Goto, Stands, Phases, Chars, Mobs
<1>4. World' /\ Foes(pfighting') /\ Begins
  BY <1>1, QuietKeeps, HitBegins DEF IInv, Attack
<1>5. Aid'
  BY DEF IInv, Aid, Attack
<1> QED BY <1>3, <1>4, <1>5 DEF Keeps

LEMMA EndTickKeeps ==
  ASSUME IInv, EndTick
  PROVE  Keeps
<1>1. Clock'
  BY CastAssumption DEF IInv, Clock, EndTick, Goto, Phases
<1>2. World' /\ Foes(pfighting') /\ Begins
  <2>1. CASE Quiet
    BY <2>1, QuietKeeps
  <2>2. ASSUME NEW x \in Chars, NEW y \in Chars, x /= y, Hit(pfighting, x, y)
        PROVE  World' /\ Foes(pfighting') /\ Begins
    BY <2>2, HitBegins DEF IInv
  <2> QED BY <2>1, <2>2 DEF EndTick, Rune
<1>3. Aid'
  BY DEF IInv, Aid, EndTick, HelpCheck
<1> QED BY <1>1, <1>2, <1>3 DEF Keeps

-----------------------------------------------------------------------------
(* Theorems *)

LEMMA InitHolds == Init => IInv
<1> SUFFICES ASSUME Init PROVE IInv
  OBVIOUS
<1>1. World
  <2>1. 0 \in Players
    BY CastAssumption DEF Players
  <2>2. pscore \in [Mobs -> Players \cup {NoOne}]
    BY <2>1 DEF Init
  <2>3. ploc \in [Chars -> Rooms \cup {Nowhere}]
    BY PlacesAssumption DEF Init
  <2>4. \A p \in Players : ploc[p] \in Rooms <=> stage[p] = "game"
    BY TwoKinds, PlacesAssumption DEF Init
  <2>5. \A m \in Mobs : ploc[m] \in Rooms
    BY TwoKinds, PlacesAssumption DEF Init
  <2> QED BY <2>2, <2>3, <2>4, <2>5 DEF Init, World, KillerRemembered
<1>2. Foes(pfighting) /\ Aid
  BY TwoKinds DEF Init, Foes, Aid
<1>3. Clock
  BY CastAssumption DEF Init, Clock, Phases
<1> QED BY <1>1, <1>2, <1>3 DEF IInv

LEMMA NextKeeps ==
  ASSUME IInv, Next
  PROVE  Keeps
<1>1. ASSUME NEW p \in Players, Command(p) \/ Session(p)
      PROVE  Keeps
  BY <1>1, CommandKeeps, ConnectKeeps, EnterKeeps, EndKeeps DEF Session
<1>2. ASSUME NEW m \in Mobs, ResetMobile(m)
      PROVE  Keeps
  BY <1>2, AwakeningsKeep
<1>3. CASE OnTimer
  <2>1. ASSUME NEW m \in Mobs,
               Look(m) \/ (\E r \in Rooms : MoveMob(m, r)) \/ \E p \in Players : Attack(m, p)
        PROVE  Keeps
    BY <2>1, LookKeeps, MoveMobKeeps, AttackKeeps
  <2>2. ASSUME NEW i \in Chars, Onlook(i)
        PROVE  Keeps
    BY <2>2, OnlookKeeps
  <2>3. CASE Tick \/ EndTick
    BY <2>3, TickKeeps, EndTickKeeps
  <2> QED BY <1>3, <2>1, <2>2, <2>3 DEF OnTimer
<1> QED BY <1>1, <1>2, <1>3 DEF Next

LEMMA StutterHolds ==
  ASSUME IInv, UNCHANGED vars
  PROVE  IInv'
<1>1. World'
  BY BodiesKept DEF IInv, vars
<1>2. Clock'
  BY ClockStands DEF IInv, vars
<1> QED BY <1>1, <1>2 DEF IInv, Foes, Aid, vars

LEMMA Invariance == Spec => []IInv
<1>1. IInv /\ [Next]_vars => IInv'
  BY NextKeeps, StutterHolds DEF Keeps, IInv
<1> QED BY <1>1, InitHolds, PTL DEF Spec

\* Every variable keeps its type, nobody is his own enemy, and the players who have a room
\* are those in the game.
THEOREM TypeCorrect == Spec => []TypeOK
<1>1. IInv => TypeOK
  BY Parts
<1> QED BY <1>1, Invariance, PTL

\* A dead mobile does not take a newcomer for its killer, however often slots change hands.
THEOREM KillerCorrect == Spec => []KillerRemembered
<1>1. IInv => KillerRemembered
  BY Parts
<1> QED BY <1>1, Invariance, PTL

\* A fight begins only between two who are in one place without peace, or a wizard's will.
THEOREM FightsBeginCorrect == Spec => FightsBeginHere
<1>1. IInv /\ [Next]_vars => [Begins]_vars
  BY NextKeeps DEF Keeps
<1>2. Begins =>
        \A x \in Chars : LET y == pfighting'[x] IN
          \/ y \in {pfighting[x], NoOne}
          \/ {x, y} \cap Wizards /= {}
          \/ Together(x, y) /\ (~Peace(x) \/ x \in Scripted)
  BY DEF Begins, Near
<1> QED BY <1>1, <1>2, Invariance, PTL DEF Spec, FightsBeginHere
==============================================================================
