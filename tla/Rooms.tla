-------------------------------- MODULE Rooms --------------------------------
(***************************************************************************)
(* Rooms, exits and doors (rooms.c, move.c, parts of clone.c, objsys.c and *)
(* commands.c).  A room has exits; an exit leads to a room, or to one side *)
(* of a door, and then to the room in which the other side stands while    *)
(* the door is open.  Each room keeps the set of the rooms with an exit to *)
(* it, so that these can be closed when it is destructed, and whether its  *)
(* exits were touched since they had their values of the reset, so that a  *)
(* reset has to set them.  Wizards clone rooms, join them with EXITS,      *)
(* store them and destruct them; players and mobiles walk.                 *)
(*                                                                         *)
(* A room is a positive number, 0 is no room, and what is at or above DOOR *)
(* is a door (in the program rooms count downwards from -1).  IDs are      *)
(* looked up in the rooms themselves: Clones shows that the ID table says  *)
(* the same.  A refusal that changes nothing is no step: rooms that are    *)
(* full, private, on or in water, guards that bar the way, who is crippled *)
(* or sits.  Fights are modelled in Combat.                                *)
(***************************************************************************)
EXTENDS Integers, Sequences

CONSTANTS
  Perm,        \* num_const_locs
  Most,        \* GLOBAL_MAX_LOCS
  NEXITS,      \* the directions are 1 .. NEXITS
  Map,         \* the exits of the permanent rooms at a reset
  Linked,      \* olinked(): a side of a door -> the other side
  At,          \* obj_loc() of the sides of doors
  DoorZone,    \* ozone() of the sides of doors
  Hole,        \* the side of a door that the two crosses open
  SpecialRoom, \* where the exits of a kind of their own lead (EX_DEFENDER)
  Leaps,       \* jumtb: rooms to jump from -> where one lands
  Changed,     \* bound: the exits that wizards change
  Targets,     \* bound: the rooms to which they lead then
  StateReset,  \* state_reset() of the sides of doors and of the two crosses
  MaxId        \* bound on the IDs given out, none of which is a door's number

DOOR == 100
EX_SPECIAL == 200
Doors == DOMAIN Linked
Crosses == {1, 2}     \* OBJ_ANCIENT_MOONCROSS, OBJ_ANCIENT_BIGCROSS
Player == "player"
Mobile == "mobile"
Out == 0              \* no room: not in the game, or dead
Nowhere == -1         \* a number that was no room's when it was taken
MaxState == 2         \* omaxstate() of a door that can be locked
Home == 1             \* the zone of the permanent rooms and of the mobile

Permanent(r) == r <= Perm
Dirs == 1 .. NEXITS
ZoneOf(k) == DoorZone[IF k \in Crosses THEN Hole ELSE k]
Zones == {Home} \cup {DoorZone[k] : k \in Doors}

ASSUME RoomsAssumption ==
  /\ Perm \in Nat \ {0} /\ Most \in Nat /\ Perm <= Most /\ Most < DOOR
  /\ NEXITS \in Nat \ {0} /\ MaxId \in Nat /\ MaxId < DOOR
  /\ Map \in [1 .. Perm -> [Dirs -> 0 .. Perm \cup {EX_SPECIAL} \cup Doors]]
  /\ SpecialRoom \in 1 .. Perm
  /\ DOMAIN Leaps \subseteq 1 .. Perm /\ \A r \in DOMAIN Leaps : Leaps[r] \in 1 .. Perm
  /\ Changed \subseteq (1 .. Most) \X Dirs
\* What mkdata demands of linked objects: linked back, and not with themselves.
ASSUME DoorsAssumption ==
  /\ Doors \subseteq DOOR .. EX_SPECIAL - 1 /\ Hole \in Doors
  /\ \A k \in Doors : Linked[k] \in Doors \ {k} /\ Linked[Linked[k]] = k
  /\ At \in [Doors -> 1 .. Perm] /\ DoorZone \in [Doors -> Nat]
  /\ StateReset \in [Doors \cup Crosses -> 0 .. 2]
  /\ \A k \in Doors : StateReset[k] = StateReset[Linked[k]]
  /\ StateReset[Hole] = 1 /\ \A c \in Crosses : StateReset[c] = 1

VARIABLES
  room,     \* room_data: number -> [id, temp, touched, exit, reset, toMe]
  state,    \* state() of the sides of doors and of the two crosses
  place,    \* ploc()
  counter,  \* id_counter
  lost,     \* history: the rooms with an exit to, or of, a room that has moved
  blurred   \* history: the rooms that such a room led to, or that is one: see Moved

vars == <<room, state, place, counter, lost, blurred>>

\* exists(), among n rooms.
Within(r, n) == r \in 1 .. n
Exists(r) == Within(r, Len(room))
Clones == {r \in DOMAIN room : ~Permanent(r)}

-----------------------------------------------------------------------------
(* Exits.                                                                  *)

\* setexit() in the rooms w, of which n exist.  Who had only this exit to the room
\* it led to is no longer among those with an exit to it; mutants forget to look for
\* others, and to mark the room as touched.
SetExitPlain(w, n, r, d, dest) ==
  LET w1 == IF Within(w[r].exit[d], n)
            THEN [w EXCEPT ![w[r].exit[d]].toMe = @ \ {r}] ELSE w
      w2 == IF Within(dest, n) THEN [w1 EXCEPT ![dest].toMe = @ \cup {r}] ELSE w1
  IN [w2 EXCEPT ![r].exit[d] = dest, ![r].touched = TRUE]
SetExitUntouched(w, n, r, d, dest) ==
  LET only == \A e \in Dirs : w[r].exit[e] = w[r].exit[d] => e = d
      w1 == IF Within(w[r].exit[d], n) /\ only
            THEN [w EXCEPT ![w[r].exit[d]].toMe = @ \ {r}] ELSE w
      w2 == IF Within(dest, n) THEN [w1 EXCEPT ![dest].toMe = @ \cup {r}] ELSE w1
  IN [w2 EXCEPT ![r].exit[d] = dest]
SetExit(w, n, r, d, dest) ==
  LET only == \A e \in Dirs : w[r].exit[e] = w[r].exit[d] => e = d
      w1 == IF Within(w[r].exit[d], n) /\ only
            THEN [w EXCEPT ![w[r].exit[d]].toMe = @ \ {r}] ELSE w
      w2 == IF Within(dest, n) THEN [w1 EXCEPT ![dest].toMe = @ \cup {r}] ELSE w1
  IN [w2 EXCEPT ![r].exit[d] = dest, ![r].touched = TRUE]

\* A loop that does Step with each of 1 .. m in turn.
Loop(w, m, Step(_, _)) ==
  LET after[i \in 0 .. m] == IF i = 0 THEN w ELSE Step(after[i - 1], i)
  IN after[m]

\* setexit() in each of the directions ds, to the value of f.
SetExits(w, n, r, ds, f) ==
  Loop(w, NEXITS, LAMBDA v, d : IF d \in ds THEN SetExit(v, n, r, d, f[d]) ELSE v)

\* find_loc_by_id(): 0 when there is none.
FindLoc(w, n) ==
  LET named == {r \in DOMAIN w : w[r].id = n}
  IN IF named = {} THEN 0 ELSE CHOOSE r \in named : TRUE

\* reset_location(): rooms are found by their IDs, doors stay what they are.
ResetValue(w, x) == IF x = 0 \/ x >= DOOR THEN x ELSE FindLoc(w, x)
ResetLocation(w, r) ==
  IF ~w[r].touched THEN w
  ELSE LET f == [d \in Dirs |-> ResetValue(w, w[r].reset[d])]
       IN [SetExits(w, Len(w), r, Dirs, f) EXCEPT ![r].touched = FALSE]
ResetLocations(w, rs) ==
  Loop(w, Len(w), LAMBDA v, r : IF r \in rs THEN ResetLocation(v, r) ELSE v)

-----------------------------------------------------------------------------
(* The start: load_locations() leaves the rooms touched and the resets of   *)
(* all zones set the exits.                                                 *)

Loaded ==
  [r \in 1 .. Perm |->
     [id |-> r, temp |-> FALSE, touched |-> TRUE,
      exit |-> [d \in Dirs |-> 0], reset |-> Map[r], toMe |-> {}]]

Booted == ResetLocations(Loaded, 1 .. Perm)

Init ==
  /\ room = Booted
  /\ state = StateReset
  /\ place \in [{Player, Mobile} -> {Out, 1}]
  /\ counter = Perm + 1
  /\ lost = {} /\ blurred = {}

\* Bounds: doors are handled only while the exits are those of the start, and exits are
\* changed only while the doors are as at a reset: neither looks at the other.
Quiet == state = StateReset
Plain == room = Booted

-----------------------------------------------------------------------------
(* Doors.                                                                  *)

\* setobjstate() of one side, when both sides can have the state; a mutant sets the
\* one side only.
SetObjStateHere(k, s) ==
  /\ s \in 0 .. MaxState
  /\ state' = [state EXCEPT ![k] = s]
SetObjState(k, s) ==
  /\ s \in 0 .. MaxState
  /\ state' = [state EXCEPT ![k] = s, ![Linked[k]] = s]

\* The hole is opened by the crosses only, and wizards do not SET it, nor a cross (a
\* bound).
Handles(k) == k \notin {Hole, Linked[Hole]}

\* OPEN (with a key when it is locked), CLOSE, LOCK, UNLOCK.
OpenDoor(k) == state[k] # 0 /\ SetObjState(k, 0)
CloseDoor(k) == state[k] = 0 /\ SetObjState(k, 1)
LockDoor(k) ==
  \/ state[k] # 2 /\ SetObjState(k, 2)
  \/ state[k] = 2 /\ SetObjState(k, 1)

\* wreckdoor() with a name that fits, and what opens one door for good: the torch,
\* the gem, the sceptre, the button when it is closed.
WreckDoor(k) == state[k] # 0 /\ SetObjState(k, 0)
\* Levers, curtains, the throne: 1 - state() is no state of a locked door.
Toggle(k) == SetObjState(k, 1 - state[k])
\* The button of the vault: closed opens, open locks.  The leaflet unlocks.
PushVault(k) ==
  \/ state[k] = 1 /\ SetObjState(k, 0)
  \/ state[k] = 0 /\ SetObjState(k, 2)
Leaflet(k) == state[k] = 2 /\ SetObjState(k, 1)
\* Whoever takes something out of the treasury, or puts it somewhere, shuts its door.
ClickShut(k) == state[k] = 0 /\ place[Player] = At[k] /\ SetObjState(k, 1)

HandleDoor ==
  /\ Plain
  /\ \E k \in Doors :
       /\ Handles(k)
       /\ \/ OpenDoor(k) \/ CloseDoor(k) \/ LockDoor(k) \/ WreckDoor(k)
          \/ Toggle(k) \/ PushVault(k) \/ Leaflet(k) \/ ClickShut(k)
  /\ UNCHANGED <<room, place, counter, lost, blurred>>

\* pushcom(): one cross is moved aside, and the hole opens when the other one is
\* aside; back in its place it closes the hole.
Other(c) == CHOOSE d \in Crosses : d # c
HoleAfterPush(c) ==
  IF state[c] = 0 THEN 1
  ELSE IF state[Other(c)] = 0 THEN 0 ELSE state[Hole]
PushCross ==
  /\ Plain
  /\ \E c \in Crosses :
       LET s == HoleAfterPush(c)
           l == Linked[Hole]
       IN state' = [state EXCEPT ![c] = 1 - state[c], ![Hole] = s,
                      ![l] = IF s = state[Hole] THEN state[l] ELSE s]
  /\ UNCHANGED <<room, place, counter, lost, blurred>>

-----------------------------------------------------------------------------
(* Walking.                                                                *)

\* The room behind an exit, or 0.
Behind(x) ==
  CASE x \in Doors -> IF state[x] = 0 THEN At[Linked[x]] ELSE 0
    [] x = EX_SPECIAL -> SpecialRoom
    [] OTHER -> x

\* setploc(), lookin(); a room can be deadly for whoever is no wizard (trapch()).
Trapch(r) == \E dies \in BOOLEAN : place' = [place EXCEPT ![Player] = IF dies THEN Out ELSE r]

\* dodirn(), dogocom().
Walk ==
  /\ place[Player] # Out
  /\ \E d \in Dirs :
       LET r == Behind(room[place[Player]].exit[d])
       IN Exists(r) /\ Trapch(r)
  /\ UNCHANGED <<room, state, counter, lost, blurred>>

\* gotocom(), teletrap(), and entering the game.
Goto ==
  /\ \E r \in DOMAIN room : Trapch(r)
  /\ UNCHANGED <<room, state, counter, lost, blurred>>

\* jumpcom(): whoever is no wizard and has no umbrella dies there.
Jump ==
  /\ place[Player] \in DOMAIN Leaps
  /\ Trapch(Leaps[place[Player]])
  /\ UNCHANGED <<room, state, counter, lost, blurred>>

\* movemob(): it does not ask whether the room exists.  A number that is no room's still
\* has the exits of the room that had it last, and does not count the mobile among
\* those in it when it is a room's again: it may go on to anywhere.
MoveMob ==
  /\ \/ /\ place[Mobile] \in DOMAIN room
        /\ \E d \in Dirs :
             LET x == room[place[Mobile]].exit[d]
             IN /\ x # 0 /\ x < EX_SPECIAL /\ Behind(x) # 0
                /\ place' = [place EXCEPT ![Mobile] =
                                IF Exists(Behind(x)) THEN Behind(x) ELSE Nowhere]
     \/ /\ place[Mobile] = Nowhere
        /\ \E r \in DOMAIN room : place' = [place EXCEPT ![Mobile] = r]
  /\ UNCHANGED <<room, state, counter, lost, blurred>>

-----------------------------------------------------------------------------
(* Wizards.                                                                *)

\* exitcom(): the exit is removed, or leads to a room from now on.
Exits ==
  /\ Quiet
  /\ \E r \in DOMAIN room, d \in Dirs, dest \in (DOMAIN room \cap Targets) \cup {0} :
       /\ <<r, d>> \in Changed
       /\ room' = SetExit(room, Len(room), r, d, dest)
  /\ UNCHANGED <<state, place, counter, lost, blurred>>

\* clone_location(): the copy has the exits of the original, and nobody leads to it.
CloneLocation ==
  /\ Quiet
  /\ Len(room) < Most /\ counter <= MaxId
  /\ \E l \in DOMAIN room :
       LET n == Len(room)
           copy == [room[l] EXCEPT !.id = counter, !.temp = TRUE, !.toMe = {}]
       IN /\ room' = SetExits(Append(room, copy), n, n + 1, Dirs, room[l].exit)
          /\ lost' = lost \cup {i \in {n + 1} : l \in lost}
  /\ counter' = counter + 1
  /\ UNCHANGED <<state, place, blurred>>

\* storecom(): the exits that the rooms of the zone have now are those of a reset.  A
\* number that is no room's is stored as it is, and is no room's ID.
StoredExit(x) == IF Exists(x) THEN room[x].id ELSE IF x < DOOR THEN -x ELSE x
Stored(r) ==
  [room[r] EXCEPT !.temp = FALSE, !.touched = FALSE,
                  !.reset = [d \in Dirs |-> StoredExit(room[r].exit[d])]]
Store ==
  /\ Quiet /\ \A r \in Clones : room[r].temp    \* a bound
  /\ room' = [r \in DOMAIN room |-> IF r \in Clones THEN Stored(r) ELSE room[r]]
  /\ UNCHANGED <<state, place, counter, lost, blurred>>

\* destruct_location(): its exits are cleared and those that lead to it, and the last
\* room moves into the gap.  Nothing is done about the exits that lead to the last
\* room, nor about its number in the sets of the rooms it leads to.
ClearedExits(l) ==
  LET n == Len(room)
      none == [d \in Dirs |-> 0]
      w1 == SetExits(room, n, l, Dirs, none)
  IN Loop(w1, n, LAMBDA v, i :
            IF i \notin w1[l].toMe THEN v
            ELSE SetExits(v, n, i, {d \in Dirs : v[i].exit[d] = l}, none))
\* The rooms, by their numbers afterwards, when the last one moves to l and those of
\* olds are so already: those with an exit to its old number, and itself when it has
\* one; those with its old number in the set of the rooms that lead to them, and
\* itself when it has such a set.
LeadsTo(w, i, r) == \E d \in Dirs : w[i].exit[d] = r
LostBy(w, n) ==
  {i \in DOMAIN w : LeadsTo(w, i, n) \/ (i = n /\ \E r \in DOMAIN w : LeadsTo(w, n, r))}
BlurredBy(w, n) ==
  {r \in DOMAIN w : n \in w[r].toMe \/ (r = n /\ w[n].toMe # {})}
Moved(olds, new, n, l) ==
  IF l = n THEN olds \ {n}
  ELSE {IF r = n THEN l ELSE r : r \in (olds \cup new) \ {l}}

\* Mobiles die, and those in the room that moves are told its number; a mutant leaves
\* the mobiles of the destructed one.
PlaceAfterLeft(l) ==
  [c \in DOMAIN place |-> IF place[c] = Len(room) THEN l ELSE place[c]]
PlaceAfter(l) ==
  [c \in DOMAIN place |->
     CASE place[c] = l -> Out
       [] place[c] = Len(room) /\ l # Len(room) -> l
       [] OTHER -> place[c]]
DestructLocation ==
  /\ Quiet
  /\ \E l \in Clones :
       /\ place[Player] # l
       /\ room' = [r \in 1 .. Len(room) - 1 |->
                     ClearedExits(l)[IF r = l THEN Len(room) ELSE r]]
       /\ place' = PlaceAfter(l)
       /\ lost' = Moved(lost, LostBy(ClearedExits(l), Len(room)), Len(room), l)
       /\ blurred' = Moved(blurred, BlurredBy(ClearedExits(l), Len(room)), Len(room), l)
  /\ UNCHANGED <<state, counter>>

\* reset_zone() of the wizard's zone, when it holds nothing that it destructs: that is
\* DestructLocation, once for each room.
ResetWizZone ==
  /\ Quiet
  /\ \A r \in Clones : ~room[r].temp
  /\ room' = ResetLocations(room, Clones)
  /\ UNCHANGED <<state, place, counter, lost, blurred>>

\* reset_zone() of one permanent zone, or of all of them: the rooms, the doors
\* (reset_object()), and the mobile goes home (reset_mobile()).
StateAfterReset(zs) ==
  [k \in DOMAIN state |-> IF ZoneOf(k) \in zs THEN StateReset[k] ELSE state[k]]
ResetZones ==
  /\ \E zs \in {Zones} \cup {{z} : z \in Zones} :
       /\ state' = StateAfterReset(zs)
       /\ room' = IF Home \in zs THEN ResetLocations(room, 1 .. Perm) ELSE room
       /\ place' = IF Home \in zs THEN [place EXCEPT ![Mobile] = 1] ELSE place
  /\ UNCHANGED <<counter, lost, blurred>>

Next ==
  \/ HandleDoor \/ PushCross
  \/ Walk \/ Goto \/ Jump \/ MoveMob
  \/ Exits \/ CloneLocation \/ Store \/ DestructLocation
  \/ ResetWizZone \/ ResetZones

Spec == Init /\ [][Next]_vars

-----------------------------------------------------------------------------
(* What makes it right.                                                    *)

\* Every exit leads to a room that exists, to a door, or nowhere, and the room knows of it,
\* so that it is closed when the room is destructed; and every room knows only of such
\* exits: but for the rooms that were joined with one that has got another number, and
\* their copies.  The damage of such a move stays with them, whatever is cloned, joined,
\* stored, reset and destructed afterwards (setexit(), clone_location(),
\* destruct_location(), reset_location()).
ExitsKnown ==
  /\ \A i \in DOMAIN room \ lost, d \in Dirs :
       LET x == room[i].exit[d]
       IN x # 0 /\ x < DOOR => x \in DOMAIN room /\ i \in room[x].toMe
  /\ \A r \in DOMAIN room \ blurred :
       \A i \in room[r].toMe : i \in DOMAIN room /\ LeadsTo(room, i, r)

\* Every player in the game is in a room that exists, and a mobile that is in one, when
\* it was not joined with one that has got another number, or that comes back, is in one
\* after every step (setploc(), movemob(), destruct_location()).
InARoom ==
  /\ [](place[Player] \in DOMAIN room \cup {Out})
  /\ [][place[Mobile] \in (DOMAIN room \ lost) \cup {Out} =>
           place'[Mobile] \in DOMAIN room' \cup {Out}]_vars

\* The two sides of a door that stand in one zone are in one state, whoever handles which
\* side, and after every reset; and the hole is open exactly while both crosses are
\* aside (setobjstate(), pushcom(), reset_object()).
DoorsTrue ==
  /\ \A k \in Doors : DoorZone[k] = DoorZone[Linked[k]] => state[k] = state[Linked[k]]
  /\ state[Hole] = 0 <=> \A c \in Crosses : state[c] = 0

\* A room that is not marked as touched, and was not joined with one that has got another
\* number, has the exits of a reset, by the identity of the rooms, so that a reset may
\* pass it over: with one, a room whose exits were changed, closed by the end of another
\* room, or copied, has them again as far as the rooms exist (setexit(), storecom(),
\* reset_location()).
ResetRestores ==
  \A r \in DOMAIN room \ lost :
    ~room[r].touched =>
      \A d \in Dirs : room[r].exit[d] = ResetValue(room, room[r].reset[d])

\* What mudtypes.h says of exits_to_me: "Set of locations that have exits to this".
ExitsToMe ==
  \A r \in DOMAIN room :
    room[r].toMe = {i \in DOMAIN room : \E d \in Dirs : room[i].exit[d] = r}
=============================================================================
