---------------------------- MODULE Objects_proofs ----------------------------
(***************************************************************************)
(* Whatever the objects, characters, rooms and zones: where things are is  *)
(* told in one way, nothing is in itself, nobody wears two things on one   *)
(* place or takes anything along, and nothing is paid for twice.           *)
(***************************************************************************)
EXTENDS Objects, TLAPS

-----------------------------------------------------------------------------
(* The inductive invariant *)

\* What iswornby() does not see must not be worn, or a second shield goes on.
WornSeen ==
  \A o \in Objs : oloc[o] \in Players \ Wizards /\ ocarrf[o] \in Worn => o \notin destroyed

\* What has been paid for is gone.
ScoredGone == \A o \in Objs : scored[o] > 0 => o \in destroyed

Scores == ScoredOnce /\ ScoredGone
Dressed == WornOnce /\ WornSeen
IInv == TypeOK /\ Located /\ NoCycle /\ NothingTakenAlong /\ Dressed /\ Scores

\* A way of being somewhere that fits the place.
Fit(loc, flag) ==
  /\ flag = "IN_ROOM" <=> loc \in Rooms
  /\ flag = "IN_CONTAINER" <=> loc \in Containers
  /\ flag \in Held <=> loc \in Chars

\* TypeOK and Located, as far as they are about where things are.
World ==
  /\ oloc \in [Objs -> Holders]
  /\ ocarrf \in [Objs -> Flags]
  /\ inv \in [Holders -> SUBSET Objs]
  /\ Located

People ==
  /\ ploc \in [Chars -> Rooms \cup {Nowhere}]
  /\ ingame \subseteq Chars
  /\ \A x \in ingame : ploc[x] \in Rooms

LEMMA TypeParts ==
  TypeOK /\ Located <=>
    /\ World /\ People
    /\ pwpn \in [Chars -> Objs \cup {NoObj}]
    /\ destroyed \subseteq Objs
    /\ shut \subseteq Lids
    /\ scored \in [Objs -> 0 .. 2]
  BY DEF TypeOK, World, People

LEMMA TypePartsAfter ==
  ASSUME World', People',
         pwpn' \in [Chars -> Objs \cup {NoObj}],
         destroyed' \subseteq Objs,
         shut' \subseteq Lids,
         scored' \in [Objs -> 0 .. 2]
  PROVE  TypeOK' /\ Located'
<1>1. Located'
  BY DEF World
<1>2. TypeOK'
  BY DEF TypeOK, World, People
<1> QED BY <1>1, <1>2

-----------------------------------------------------------------------------
(* Places and ways *)

LEMMA WaysFit ==
  /\ \A r \in Rooms : Fit(r, "IN_ROOM")
  /\ \A c \in Containers : Fit(c, "IN_CONTAINER")
  /\ \A x \in Chars, f \in Held : Fit(x, f)
<1>1. /\ Rooms \cap Containers = {} /\ Rooms \cap Chars = {} /\ Containers \cap Chars = {}
  BY PlacesAssumption, ThingsAssumption
<1> QED BY <1>1 DEF Fit, Held

LEMMA LocatedFits ==
  Located <=>
    /\ \A x \in Holders, o \in Objs : o \in inv[x] <=> oloc[o] = x
    /\ \A o \in Objs : Fit(oloc[o], ocarrf[o])
  BY DEF Located, Fit

\* What is in an object is in a container; and is not in a room or with anybody.
LEMMA Contained ==
  ASSUME World, NEW o \in Objs
  PROVE  oloc[o] \in Objs => oloc[o] \in Containers
<1>1. ocarrf[o] \in Flags /\ oloc[o] \in Holders
  BY DEF World
<1>2. Fit(oloc[o], ocarrf[o])
  BY LocatedFits DEF World
<1>3. Objs \cap Rooms = {} /\ Objs \cap Chars = {}
  BY PlacesAssumption
<1> QED BY <1>1, <1>2, <1>3 DEF Fit, Flags

-----------------------------------------------------------------------------
(* setoloc() and set_weapon() *)

\* setoloc() keeps the place and the sets in step, whatever goes wherever.
LEMMA GoesWorld ==
  ASSUME World, NEW dest, DOMAIN dest \subseteq Objs,
         \A o \in DOMAIN dest : dest[o] \in Holders, Goes(dest)
  PROVE  /\ oloc' \in [Objs -> Holders]
         /\ inv' \in [Holders -> SUBSET Objs]
         /\ \A x \in Holders, o \in Objs : o \in inv'[x] <=> oloc'[o] = x
         /\ \A o \in Objs :
              oloc'[o] = IF o \in DOMAIN dest THEN dest[o] ELSE oloc[o]
<1>1. /\ oloc' = [o \in Objs |-> IF o \in DOMAIN dest THEN dest[o] ELSE oloc[o]]
      /\ inv' = [x \in Holders |-> {o \in inv[x] : ~(o \in DOMAIN dest /\ oloc[o] = x)}
                                     \cup {o \in DOMAIN dest : dest[o] = x}]
  BY DEF Goes, HoldingAfter
<1>2. /\ oloc \in [Objs -> Holders] /\ inv \in [Holders -> SUBSET Objs]
      /\ \A x \in Holders, o \in Objs : o \in inv[x] <=> oloc[o] = x
  BY DEF World, Located
<1>3. oloc' \in [Objs -> Holders]
  BY <1>1, <1>2
<1>4. inv' \in [Holders -> SUBSET Objs]
  BY <1>1, <1>2
<1>5. \A x \in Holders, o \in Objs : o \in inv'[x] <=> oloc'[o] = x
  BY <1>1, <1>2
<1> QED BY <1>1, <1>3, <1>4, <1>5

\* The world is sound after a move if the new ways fit the new places.
LEMMA FitWorld ==
  ASSUME World, NEW dest, DOMAIN dest \subseteq Objs,
         \A o \in DOMAIN dest : dest[o] \in Holders, Goes(dest),
         ocarrf' \in [Objs -> Flags],
         \A o \in Objs : Fit(oloc'[o], ocarrf'[o])
  PROVE  World'
<1>1. /\ oloc' \in [Objs -> Holders]
      /\ inv' \in [Holders -> SUBSET Objs]
      /\ \A x \in Holders, o \in Objs : o \in inv'[x] <=> oloc'[o] = x
  BY GoesWorld
<1> QED BY <1>1 DEF World, Located, Fit

LEMMA MovedWorld ==
  ASSUME World, NEW D \in SUBSET Objs, NEW x \in Holders, NEW c \in Flags, Fit(x, c),
         Moved(D, x, c)
  PROVE  /\ World'
         /\ \A o \in Objs : /\ oloc'[o] = IF o \in D THEN x ELSE oloc[o]
                            /\ ocarrf'[o] = IF o \in D THEN c ELSE ocarrf[o]
<1> DEFINE dest == [o \in D |-> x]
<1>1. /\ DOMAIN dest = D /\ D \subseteq Objs
      /\ \A o \in DOMAIN dest : dest[o] = x /\ dest[o] \in Holders
      /\ Goes(dest)
  BY DEF Moved
<1>2. ocarrf' = [o \in Objs |-> IF o \in D THEN c ELSE ocarrf[o]]
  BY DEF Moved, FlagAfter
<1>3. ocarrf \in [Objs -> Flags] /\ \A o \in Objs : Fit(oloc[o], ocarrf[o])
  BY LocatedFits DEF World
<1> HIDE DEF dest
<1>4. \A o \in Objs : oloc'[o] = IF o \in DOMAIN dest THEN dest[o] ELSE oloc[o]
  BY <1>1, GoesWorld
<1>5. \A o \in Objs : /\ oloc'[o] = IF o \in D THEN x ELSE oloc[o]
                      /\ ocarrf'[o] = IF o \in D THEN c ELSE ocarrf[o]
  BY <1>1, <1>2, <1>4
<1>6. ocarrf' \in [Objs -> Flags]
  BY <1>2, <1>3
<1>7. \A o \in Objs : Fit(oloc'[o], ocarrf'[o])
  BY <1>3, <1>5
<1>8. World'
  BY <1>1, <1>6, <1>7, FitWorld
<1> QED BY <1>5, <1>8

LEMMA ToRoomsWorld ==
  ASSUME World, NEW dest, DOMAIN dest \subseteq Objs,
         \A o \in DOMAIN dest : dest[o] \in Rooms, ToRooms(dest)
  PROVE  /\ World'
         /\ \A o \in Objs :
              IF o \in DOMAIN dest
              THEN oloc'[o] \in Rooms /\ ocarrf'[o] = "IN_ROOM"
              ELSE oloc'[o] = oloc[o] /\ ocarrf'[o] = ocarrf[o]
<1>1. \A o \in DOMAIN dest : dest[o] \in Holders
  BY DEF Holders
<1>2. Goes(dest)
  BY DEF ToRooms
<1>3. ocarrf' = [o \in Objs |-> IF o \in DOMAIN dest THEN "IN_ROOM" ELSE ocarrf[o]]
  BY DEF ToRooms, FlagAfter
<1>4. ocarrf \in [Objs -> Flags] /\ \A o \in Objs : Fit(oloc[o], ocarrf[o])
  BY LocatedFits DEF World
<1>5. \A o \in Objs : oloc'[o] = IF o \in DOMAIN dest THEN dest[o] ELSE oloc[o]
  BY <1>1, <1>2, GoesWorld
<1>6. \A o \in Objs :
        IF o \in DOMAIN dest
        THEN oloc'[o] \in Rooms /\ ocarrf'[o] = "IN_ROOM"
        ELSE oloc'[o] = oloc[o] /\ ocarrf'[o] = ocarrf[o]
  BY <1>3, <1>5
<1>7. ocarrf' \in [Objs -> Flags]
  BY <1>3, <1>4 DEF Flags
<1>8. \A o \in Objs : Fit(oloc'[o], ocarrf'[o])
  BY <1>4, <1>6, WaysFit
<1>9. World'
  BY <1>1, <1>2, <1>7, <1>8, FitWorld
<1> QED BY <1>6, <1>9

\* set_weapon() changes how a weapon is carried; it puts nothing on.
LEMMA SetWeaponKeeps ==
  ASSUME NEW loc \in [Objs -> Holders], NEW flag \in [Objs -> Flags],
         pwpn \in [Chars -> Objs \cup {NoObj}],
         NEW x \in Chars, NEW w \in Objs \cup {NoObj}, SetWeapon(loc, flag, x, w)
  PROVE  /\ ocarrf' \in [Objs -> Flags]
         /\ pwpn' \in [Chars -> Objs \cup {NoObj}]
         /\ \A o \in Objs : /\ ocarrf'[o] = flag[o] \/ (ocarrf'[o] \in Held /\ flag[o] \in Held)
                            /\ ocarrf'[o] \in Worn => flag[o] \in Worn
<1> DEFINE f == Sheathed(loc, flag, x)
<1>1. /\ f \in [Objs -> Flags]
      /\ \A o \in Objs : /\ f[o] = flag[o] \/ (f[o] \in Held /\ flag[o] \in Held)
                         /\ f[o] \in Worn <=> flag[o] \in Worn
  <2>1. f = [o \in Objs |-> IF o = pwpn[x] /\ loc[o] = x
                            THEN CASE flag[o] = "BOTH_BY" -> "WORN_BY"
                                   [] flag[o] = "WIELDED_BY" -> "CARRIED_BY"
                                   [] OTHER -> flag[o]
                            ELSE flag[o]]
    BY DEF Sheathed
  <2>2. \A o \in Objs :
          \/ f[o] = flag[o]
          \/ flag[o] = "BOTH_BY" /\ f[o] = "WORN_BY"
          \/ flag[o] = "WIELDED_BY" /\ f[o] = "CARRIED_BY"
    BY <2>1
  <2>3. f \in [Objs -> Flags]
    BY <2>1, <2>2 DEF Flags, Held
  <2> QED BY <2>2, <2>3 DEF Held, Worn
<1>2. CASE w \in Weapons /\ f[w] \in Held /\ loc[w] = x
  <2>1. /\ ocarrf' = [f EXCEPT ![w] = IF @ = "WORN_BY" THEN "BOTH_BY" ELSE "WIELDED_BY"]
        /\ pwpn' = [pwpn EXCEPT ![x] = w]
    BY <1>2 DEF SetWeapon
  <2>2. w \in Objs
    BY <1>2, ThingsAssumption
  <2>3. ocarrf'[w] = IF f[w] = "WORN_BY" THEN "BOTH_BY" ELSE "WIELDED_BY"
    BY <1>1, <2>1, <2>2
  <2>4. \A o \in Objs : o /= w => ocarrf'[o] = f[o]
    BY <1>1, <2>1
  <2>5. ocarrf'[w] \in Held /\ (ocarrf'[w] \in Worn => f[w] \in Worn)
    BY <2>3 DEF Held, Worn
  <2>6. ocarrf' \in [Objs -> Flags]
    BY <1>1, <2>1, <2>2 DEF Flags, Held
  <2>7. \A o \in Objs : /\ ocarrf'[o] = flag[o] \/ (ocarrf'[o] \in Held /\ flag[o] \in Held)
                        /\ ocarrf'[o] \in Worn => flag[o] \in Worn
    BY <1>1, <1>2, <2>4, <2>5
  <2> QED
    BY <2>1, <2>2, <2>6, <2>7
<1>3. CASE ~(w \in Weapons /\ f[w] \in Held /\ loc[w] = x)
  <2>1. ocarrf' = f /\ pwpn' = [pwpn EXCEPT ![x] = NoObj]
    BY <1>3 DEF SetWeapon
  <2> QED BY <1>1, <2>1
<1> QED BY <1>2, <1>3

-----------------------------------------------------------------------------
(* What keeps each part of the invariant *)

\* Where an object goes out into a room or to somebody, no cycle can be closed.
LEMMA OutwardNoCycle ==
  ASSUME NoCycle, \A o \in Objs : oloc'[o] = oloc[o] \/ oloc'[o] \notin Objs
  PROVE  NoCycle'
<1> SUFFICES ASSUME NEW S \in SUBSET Objs, S /= {}
             PROVE  \E o \in S : oloc'[o] \notin S
  BY DEF NoCycle
<1>1. PICK o \in S : oloc[o] \notin S
  BY DEF NoCycle
<1>2. CASE \E a \in S : oloc'[a] \notin Objs
  BY <1>2
<1>3. CASE \A a \in S : oloc'[a] \in Objs
  BY <1>1, <1>3
<1> QED BY <1>2, <1>3

\* Nobody is dressed by being left alone, nor is what he wears destroyed then.
LEMMA DressedKept ==
  ASSUME Dressed,
         \A o \in Objs :
           \/ oloc'[o] \notin Players
           \/ ocarrf'[o] \notin Worn
           \/ /\ oloc'[o] = oloc[o] /\ ocarrf[o] \in Worn
              /\ o \in destroyed' => o \in destroyed
  PROVE  Dressed'
<1>1. WornOnce'
  <2> SUFFICES ASSUME NEW x \in Players, NEW k \in Kinds, NEW o \in k, NEW w \in k,
                      oloc'[o] = x, oloc'[w] = x, ocarrf'[o] \in Worn, ocarrf'[w] \in Worn
               PROVE  o = w
    BY DEF WornOnce
  <2>1. o \in Objs /\ w \in Objs
    BY ThingsAssumption
  <2>2. oloc[o] = x /\ oloc[w] = x /\ ocarrf[o] \in Worn /\ ocarrf[w] \in Worn
    BY <2>1
  <2> QED BY <2>2 DEF Dressed, WornOnce
<1>2. WornSeen'
  BY DEF Dressed, WornSeen
<1> QED BY <1>1, <1>2 DEF Dressed

\* What somebody has who is not there, he had already, or it is destroyed.
LEMMA AwayKept ==
  ASSUME World, World', NothingTakenAlong,
         \A o \in Objs, x \in Chars \ ingame' :
           oloc'[o] = x =>
             \/ o \in destroyed'
             \/ oloc[o] = x /\ x \notin ingame /\ (o \in destroyed => o \in destroyed')
  PROVE  NothingTakenAlong'
<1> SUFFICES ASSUME NEW x \in Chars \ ingame', NEW o \in inv'[x]
             PROVE  o \in destroyed'
  BY DEF NothingTakenAlong
<1>1. x \in Holders /\ x \in Chars
  BY DEF Holders
<1>2. o \in Objs /\ oloc'[o] = x
  BY <1>1 DEF World, Located
<1>3. CASE oloc[o] = x /\ x \notin ingame /\ (o \in destroyed => o \in destroyed')
  <2>1. o \in inv[x]
    BY <1>1, <1>2, <1>3 DEF World, Located
  <2> QED BY <1>1, <1>3, <2>1 DEF NothingTakenAlong
<1> QED BY <1>2, <1>3

LEMMA ScoresKept ==
  ASSUME Scores, UNCHANGED scored, destroyed \subseteq destroyed'
  PROVE  Scores'
  BY DEF Scores, ScoredOnce, ScoredGone

\* A mortal is paid only for what was not destroyed, and then it is.
LEMMA PaidScores ==
  ASSUME scored \in [Objs -> 0 .. 2], Scores, NEW D, NEW mortal \in BOOLEAN,
         mortal => D \cap destroyed = {},
         destroyed \cup D \subseteq destroyed', Paid(D, mortal)
  PROVE  scored' \in [Objs -> 0 .. 2] /\ Scores'
<1>1. scored' = [o \in Objs |-> IF o \in D /\ mortal /\ scored[o] < 2 THEN scored[o] + 1
                               ELSE scored[o]]
  BY DEF Paid
<1>2. scored' \in [Objs -> 0 .. 2]
  BY <1>1
<1>3. ASSUME NEW o \in Objs
      PROVE  scored'[o] <= 1 /\ (scored'[o] > 0 => o \in destroyed')
  <2>1. scored[o] \in 0 .. 2 /\ scored[o] <= 1 /\ (scored[o] > 0 => o \in destroyed)
    BY DEF Scores, ScoredOnce, ScoredGone
  <2>2. CASE o \in D /\ mortal
    <3>1. scored[o] = 0
      BY <2>1, <2>2
    <3> QED BY <1>1, <2>2, <3>1
  <2>3. CASE ~(o \in D /\ mortal)
    BY <1>1, <2>1, <2>3
  <2> QED BY <2>2, <2>3
<1> QED BY <1>2, <1>3 DEF Scores, ScoredOnce, ScoredGone

LEMMA AnewScores ==
  ASSUME scored \in [Objs -> 0 .. 2], Scores, NEW D, Anew(D)
  PROVE  scored' \in [Objs -> 0 .. 2] /\ Scores'
<1>1. /\ destroyed' = destroyed \ D
      /\ scored' = [o \in Objs |-> IF o \in D THEN 0 ELSE scored[o]]
  BY DEF Anew
<1>2. scored' \in [Objs -> 0 .. 2]
  BY <1>1
<1> QED BY <1>1, <1>2 DEF Scores, ScoredOnce, ScoredGone

-----------------------------------------------------------------------------
(* The commands that take, and those that drop *)

\* Things go into somebody's hands who is there.
LEMMA Taken ==
  ASSUME IInv, NEW D \in SUBSET Objs, NEW x \in ingame, Moved(D, x, "CARRIED_BY"),
         UNCHANGED <<pwpn, people, destroyed, scored>>, shut' \subseteq Lids
  PROVE  IInv'
<1>1. /\ World /\ People /\ NoCycle /\ Dressed /\ Scores /\ NothingTakenAlong
      /\ pwpn \in [Chars -> Objs \cup {NoObj}]
      /\ destroyed \subseteq Objs
      /\ scored \in [Objs -> 0 .. 2]
  BY TypeParts DEF IInv
<1>2. x \in Chars /\ x \in Holders /\ x \notin Objs /\ "CARRIED_BY" \in Flags
  BY <1>1, PlacesAssumption DEF People, Holders, Flags, Held
<1>3. Fit(x, "CARRIED_BY")
  BY <1>2, WaysFit DEF Held
<1>4. /\ World'
      /\ \A o \in Objs : /\ oloc'[o] = IF o \in D THEN x ELSE oloc[o]
                         /\ ocarrf'[o] = IF o \in D THEN "CARRIED_BY" ELSE ocarrf[o]
  BY <1>1, <1>2, <1>3, MovedWorld
<1>5. UNCHANGED <<pwpn, ploc, ingame, destroyed, scored>>
  BY DEF people
<1>6. NoCycle'
  <2>1. \A o \in Objs : oloc'[o] = oloc[o] \/ oloc'[o] \notin Objs
    BY <1>2, <1>4
  <2> QED BY <1>1, <2>1, OutwardNoCycle
<1>7. Dressed'
  <2>1. "CARRIED_BY" \notin Worn
    BY DEF Worn
  <2> QED BY <1>1, <1>4, <1>5, <2>1, DressedKept
<1>8. NothingTakenAlong'
  BY <1>1, <1>4, <1>5, AwayKept
<1>9. Scores'
  BY <1>1, <1>5, ScoresKept
<1>10. People'
  BY <1>1, <1>5 DEF People
<1>11. TypeOK' /\ Located'
  BY <1>1, <1>4, <1>5, <1>10, TypePartsAfter
<1> QED BY <1>6, <1>7, <1>8, <1>9, <1>11 DEF IInv

\* Things come to lie in rooms, some of them destroyed, and whoever leaves the game
\* by it had nothing else that is not destroyed.
LEMMA Lain ==
  ASSUME IInv, NEW dest, DOMAIN dest \subseteq Objs, \A o \in DOMAIN dest : dest[o] \in Rooms,
         ToRooms(dest),
         destroyed \subseteq destroyed', destroyed' \subseteq destroyed \cup DOMAIN dest,
         scored' \in [Objs -> 0 .. 2], Scores', People', UNCHANGED pwpn,
         shut' \subseteq Lids,
         \A x \in ingame \ ingame' : \A o \in Objs \ destroyed :
           oloc[o] = x => o \in DOMAIN dest
  PROVE  IInv'
<1>1. /\ World /\ People /\ NoCycle /\ Dressed /\ NothingTakenAlong
      /\ pwpn \in [Chars -> Objs \cup {NoObj}]
      /\ destroyed \subseteq Objs
  BY TypeParts DEF IInv
<1>2. Rooms \cap Objs = {} /\ Rooms \cap Chars = {} /\ Players \subseteq Chars
  BY PlacesAssumption DEF Chars
<1>3. /\ World'
      /\ \A o \in Objs :
           IF o \in DOMAIN dest
           THEN oloc'[o] \in Rooms /\ ocarrf'[o] = "IN_ROOM"
           ELSE oloc'[o] = oloc[o] /\ ocarrf'[o] = ocarrf[o]
  BY <1>1, ToRoomsWorld
<1>4. NoCycle'
  <2>1. \A o \in Objs : oloc'[o] = oloc[o] \/ oloc'[o] \notin Objs
    BY <1>2, <1>3
  <2> QED BY <1>1, <2>1, OutwardNoCycle
<1>5. Dressed'
  <2>1. \A o \in Objs : oloc'[o] \notin Players \/
          (oloc'[o] = oloc[o] /\ ocarrf'[o] = ocarrf[o] /\ (o \in destroyed' => o \in destroyed))
    BY <1>2, <1>3
  <2> QED BY <1>1, <2>1, DressedKept
<1>6. NothingTakenAlong'
  <2>1. ASSUME NEW o \in Objs, NEW x \in Chars \ ingame', oloc'[o] = x
        PROVE  \/ o \in destroyed'
               \/ oloc[o] = x /\ x \notin ingame /\ (o \in destroyed => o \in destroyed')
    <3>1. o \notin DOMAIN dest /\ oloc[o] = x
      BY <1>2, <1>3, <2>1
    <3> QED BY <3>1
  <2> QED BY <1>1, <1>3, <2>1, AwayKept
<1>7. TypeOK' /\ Located'
  BY <1>1, <1>3, TypePartsAfter
<1> QED BY <1>4, <1>5, <1>6, <1>7 DEF IInv

-----------------------------------------------------------------------------
(* What falls into a pit *)

\* What a mortal lets fall is not destroyed, nor is what he sees in it.
LEMMA ContentsSeen ==
  ASSUME World, NEW all \in BOOLEAN, NEW D \in SUBSET Objs
  PROVE  /\ WithContents(all, D) \subseteq Objs
         /\ ~all /\ D \cap destroyed = {} => WithContents(all, D) \cap destroyed = {}
<1>1. WithContents(all, D) \subseteq Objs
  BY DEF WithContents
<1>2. ASSUME ~all, D \cap destroyed = {}, NEW o \in WithContents(all, D)
      PROVE  o \notin destroyed
  <2> DEFINE S == Objs \ destroyed
  <2>1. S \in SUBSET Objs /\ D \subseteq S
    BY <1>2
  <2>2. \A c \in S \cap Containers : Inside(all, c) \subseteq S
    <3>1. \A c \in Objs : Inside(all, c) \cap destroyed = {}
      BY <1>2 DEF Inside, Sees
    <3>2. \A c \in S \cap Containers : Inside(all, c) \subseteq Objs
      BY ThingsAssumption DEF Inside, World, Holders
    <3> QED BY <3>1, <3>2
  <2> QED BY <1>2, <2>1, <2>2 DEF WithContents
<1> QED BY <1>1, <1>2

-----------------------------------------------------------------------------
(* The helpers that drop *)

LEMMA LandedKeeps ==
  ASSUME IInv, NEW land, NEW fall \in SUBSET Objs, NEW mortal \in BOOLEAN,
         DOMAIN land \subseteq Objs, \A o \in DOMAIN land : land[o] \in Rooms,
         Landed(land, fall, mortal), mortal => fall \cap destroyed = {},
         People', UNCHANGED pwpn, shut' \subseteq Lids,
         \A x \in ingame \ ingame' : \A o \in Objs \ destroyed :
           oloc[o] = x => o \in DOMAIN land
  PROVE  IInv'
<1> DEFINE dest == [o \in DOMAIN land \cup fall |-> IF o \in fall THEN PitFloor ELSE land[o]]
<1>1. /\ DOMAIN dest = DOMAIN land \cup fall
      /\ DOMAIN dest \subseteq Objs
      /\ \A o \in DOMAIN dest : dest[o] \in Rooms
  BY PlacesAssumption
<1>2. ToRooms(dest) /\ destroyed' = destroyed \cup fall /\ Paid(fall, mortal)
  BY DEF Landed, Marked
<1> HIDE DEF dest
<1>3. scored' \in [Objs -> 0 .. 2] /\ Scores'
  BY <1>2, PaidScores DEF IInv, TypeOK
<1> QED BY <1>1, <1>2, <1>3, Lain

\* dropobj() and emptycom()
LEMMA DropsKeeps ==
  ASSUME IInv, NEW me \in Players \cap ingame, NEW D \in SUBSET Objs,
         Wiz(me) \/ D \cap destroyed = {}, Drops(me, D),
         UNCHANGED <<pwpn, people>>, shut' \subseteq Lids
  PROVE  IInv'
<1>1. PICK land \in [D -> LandsIn[ploc[me]]] :
        Landed(land, WithContents(Wiz(me), {o \in D : land[o] \in PitRooms}), ~Wiz(me))
  BY DEF Drops
<1> DEFINE P == {o \in D : land[o] \in PitRooms}
           fall == WithContents(Wiz(me), P)
<1>2. World /\ People /\ ploc[me] \in Rooms
  BY TypeParts DEF IInv, People
<1>3. DOMAIN land \subseteq Objs /\ \A o \in DOMAIN land : land[o] \in Rooms
  BY <1>2, PlacesAssumption
<1>4. P \in SUBSET Objs /\ Wiz(me) \in BOOLEAN /\ (~Wiz(me) => P \cap destroyed = {})
  BY DEF Wiz
<1>5. Landed(land, fall, ~Wiz(me))
  BY <1>1
<1> HIDE DEF P
<1>6. fall \in SUBSET Objs /\ (~Wiz(me) => fall \cap destroyed = {})
  BY <1>2, <1>4, ContentsSeen
<1>7. People' /\ UNCHANGED pwpn /\ ingame' = ingame
  BY <1>2 DEF people, People
<1> HIDE DEF fall
<1> QED BY <1>3, <1>4, <1>5, <1>6, <1>7, LandedKeeps

\* dumpstuff() of somebody who may leave by it.
LEMMA DumpedKeeps ==
  ASSUME IInv, NEW x \in ingame, NEW all \in BOOLEAN, NEW mortal \in BOOLEAN, mortal => ~all,
         Dumped(all, mortal, Loses(all, x), ploc[x]),
         People', UNCHANGED pwpn, shut' \subseteq Lids, ingame \ ingame' \subseteq {x}
  PROVE  IInv'
<1> DEFINE D == Loses(all, x)
           land == [o \in D |-> ploc[x]]
           fall == IF ploc[x] = PitFloor THEN WithContents(all, D) ELSE {}
<1>1. World /\ People /\ ploc[x] \in Rooms /\ x \in Chars /\ x \in Holders
  BY TypeParts DEF IInv, People, Holders
<1>2. D \in SUBSET Objs /\ (~all => D \cap destroyed = {})
  BY <1>1 DEF Loses, Carried, Sees, World
<1>3. \A o \in Objs \ destroyed : oloc[o] = x => o \in D
  <2>1. \A o \in Objs : oloc[o] = x => o \in inv[x] /\ ocarrf[o] \in Held
    BY <1>1 DEF World, Located
  <2> QED BY <2>1 DEF Loses, Carried, Sees
<1>4. Landed(land, fall, mortal)
  BY DEF Dumped
<1>5. DOMAIN land = D /\ \A o \in DOMAIN land : land[o] \in Rooms
  BY <1>1
<1> HIDE DEF D
<1>6. WithContents(all, D) \in SUBSET Objs /\ (~all => WithContents(all, D) \cap destroyed = {})
  BY <1>1, <1>2, ContentsSeen
<1>7. fall \in SUBSET Objs /\ (mortal => fall \cap destroyed = {})
  BY <1>6
<1> HIDE DEF land, fall
<1>8. \A y \in ingame \ ingame' : \A o \in Objs \ destroyed : oloc[o] = y => o \in DOMAIN land
  BY <1>3, <1>5
<1> QED BY <1>2, <1>4, <1>5, <1>7, <1>8, LandedKeeps

\* Things are laid down somewhere, or destroyed.
LEMMA LaidKeeps ==
  ASSUME IInv, NEW D \in SUBSET Objs, NEW r \in Rooms, Moved(D, r, "IN_ROOM"),
         destroyed' \in {destroyed, destroyed \cup D}, UNCHANGED scored,
         People', ingame \subseteq ingame', UNCHANGED pwpn, shut' \subseteq Lids
  PROVE  IInv'
<1> DEFINE dest == [o \in D |-> r]
<1>1. DOMAIN dest = D /\ \A o \in DOMAIN dest : dest[o] \in Rooms
  OBVIOUS
<1>2. ToRooms(dest)
  BY DEF Moved, ToRooms
<1> HIDE DEF dest
<1>3. scored' \in [Objs -> 0 .. 2] /\ Scores'
  BY ScoresKept DEF IInv, TypeOK
<1>4. \A x \in ingame \ ingame' : \A o \in Objs \ destroyed : oloc[o] = x => o \in DOMAIN dest
  OBVIOUS
<1> QED BY <1>1, <1>2, <1>3, <1>4, Lain

-----------------------------------------------------------------------------
(* The commands of a player *)

LEMMA GetsKeep ==
  ASSUME IInv, NEW me, NEW D \in SUBSET Objs, NEW o \in Objs, NEW x,
         \/ GetHere(me, D) \/ GetFrom(me, o, D) \/ Give(me, o, x) \/ Steal(me, o, x)
         \/ Summon(me, o)
  PROVE  IInv'
<1>1. shut \subseteq Lids /\ {o} \in SUBSET Objs
  BY DEF IInv, TypeOK
<1>2. CASE GetHere(me, D)
  BY <1>1, <1>2, Taken DEF GetHere, Acts
<1>3. CASE GetFrom(me, o, D)
  BY <1>1, <1>3, Taken DEF GetFrom, Acts
<1>4. CASE Give(me, o, x)
  BY <1>1, <1>4, Taken DEF Give
<1>5. CASE Steal(me, o, x)
  BY <1>1, <1>5, Taken DEF Steal, Acts
<1>6. CASE Summon(me, o)
  BY <1>1, <1>6, Taken DEF Summon, Acts
<1> QED BY <1>2, <1>3, <1>4, <1>5, <1>6

LEMMA DropKeeps ==
  ASSUME IInv, NEW me, NEW D \in SUBSET Objs, Drop(me, D)
  PROVE  IInv'
<1>1. me \in Players \cap ingame /\ Drops(me, D) /\ UNCHANGED <<pwpn, people>> /\ shut' = shut
  BY DEF Drop, Acts
<1>2. Wiz(me) \/ D \cap destroyed = {}
  BY DEF Drop, Mine, Carried, Sees
<1>3. shut' \subseteq Lids
  BY <1>1 DEF IInv, TypeOK
<1> QED BY <1>1, <1>2, <1>3, DropsKeeps

LEMMA EmptyKeeps ==
  ASSUME IInv, NEW me, NEW a \in Objs, Empty(me, a)
  PROVE  IInv'
<1>1. /\ me \in Players \cap ingame /\ UNCHANGED <<pwpn, people>> /\ shut' = shut \ {a}
      /\ Drops(me, Inside(Wiz(me), a))
  BY DEF Empty, Acts
<1>2. Inside(Wiz(me), a) \in SUBSET Objs
  BY DEF Inside, IInv, TypeOK, Holders
<1>3. Wiz(me) \/ Inside(Wiz(me), a) \cap destroyed = {}
  BY DEF Inside, Sees
<1>4. shut' \subseteq Lids
  BY <1>1 DEF IInv, TypeOK
<1> QED BY <1>1, <1>2, <1>3, <1>4, DropsKeeps

\* PUT closes no cycle: what one can reach lies in no container.
LEMMA PutKeeps ==
  ASSUME IInv, NEW me, NEW a \in Objs, NEW c \in Objs, Put(me, a, c)
  PROVE  IInv'
<1>1. /\ World /\ People /\ NoCycle /\ Dressed /\ Scores /\ NothingTakenAlong
      /\ pwpn \in [Chars -> Objs \cup {NoObj}]
      /\ destroyed \subseteq Objs /\ shut \subseteq Lids
      /\ scored \in [Objs -> 0 .. 2]
  BY TypeParts DEF IInv
<1>2. /\ me \in Players \cap ingame /\ c \in Reachable(me) /\ c \in Containers /\ a /= c
      /\ Moved({a}, c, "IN_CONTAINER")
      /\ UNCHANGED <<pwpn, ploc, ingame, destroyed, shut, scored>>
  BY DEF Put, Puts, Acts, people
<1>3. me \in Chars /\ ploc[me] \in Rooms
  BY <1>1, <1>2 DEF People
<1>4. c \notin Chars /\ c \in Holders /\ "IN_CONTAINER" \in Flags /\ "IN_CONTAINER" \notin Worn
  BY PlacesAssumption DEF Holders, Flags, Worn
<1>5. Fit(c, "IN_CONTAINER")
  BY <1>2, WaysFit
<1>6. /\ World'
      /\ \A o \in Objs : /\ oloc'[o] = IF o \in {a} THEN c ELSE oloc[o]
                         /\ ocarrf'[o] = IF o \in {a} THEN "IN_CONTAINER" ELSE ocarrf[o]
  BY <1>1, <1>2, <1>4, <1>5, MovedWorld
<1>7. NoCycle'
  <2>1. oloc[c] \notin Objs
    BY <1>2, <1>3, PlacesAssumption DEF Reachable, Mine, Here, Carried, Lying
  <2> SUFFICES ASSUME NEW S \in SUBSET Objs, S /= {}
               PROVE  \E o \in S : oloc'[o] \notin S
    BY DEF NoCycle
  <2>2. CASE a \notin S
    <3>1. PICK o \in S : oloc[o] \notin S
      BY <1>1 DEF NoCycle
    <3> QED BY <1>6, <2>2, <3>1
  <2>3. CASE a \in S /\ c \notin S
    BY <1>6, <2>3
  <2>4. CASE c \in S
    BY <1>2, <1>6, <2>1, <2>4
  <2> QED BY <2>2, <2>3, <2>4
<1>8. Dressed'
  <2>1. \A o \in Objs :
          \/ ocarrf'[o] \notin Worn
          \/ oloc'[o] = oloc[o] /\ ocarrf'[o] = ocarrf[o] /\ destroyed' = destroyed
    BY <1>2, <1>4, <1>6
  <2> QED BY <1>1, <2>1, DressedKept
<1>9. NothingTakenAlong'
  <2>1. \A o \in Objs, x \in Chars \ ingame' :
          oloc'[o] = x => oloc[o] = x /\ x \notin ingame /\ destroyed' = destroyed
    BY <1>2, <1>4, <1>6
  <2> QED BY <1>1, <1>6, <2>1, AwayKept
<1>10. Scores'
  BY <1>1, <1>2, ScoresKept
<1>11. People'
  BY <1>1, <1>2 DEF People
<1>12. TypeOK' /\ Located'
  BY <1>1, <1>2, <1>6, <1>11, TypePartsAfter
<1> QED BY <1>7, <1>8, <1>9, <1>10, <1>12 DEF IInv

LEMMA PutDownKeeps ==
  ASSUME IInv, NEW me, NEW a \in Objs, PutDown(me, a)
  PROVE  IInv'
<1>1. /\ ploc[me] \in DOMAIN Outlet /\ UNCHANGED <<pwpn, ploc, ingame, shut, scored>>
      /\ \/ Moved({a}, Outlet[ploc[me]], "IN_ROOM") /\ destroyed' = destroyed
         \/ Moved({a}, Grave, "IN_ROOM") /\ destroyed' = destroyed \cup {a}
  BY DEF PutDown, Destroy, people
<1>2. Outlet[ploc[me]] \in Rooms /\ Grave \in Rooms /\ {a} \in SUBSET Objs
  BY <1>1, PlacesAssumption
<1>3. People' /\ shut' \subseteq Lids /\ ingame' = ingame
  BY <1>1 DEF IInv, TypeOK, People
<1> QED BY <1>1, <1>2, <1>3, LaidKeeps

LEMMA EatKeeps ==
  ASSUME IInv, NEW me, NEW o \in Objs, Eat(me, o)
  PROVE  IInv'
<1>1. /\ Moved({o}, Grave, "IN_ROOM") /\ destroyed' = destroyed \cup {o}
      /\ UNCHANGED <<pwpn, ploc, ingame, shut, scored>>
  BY DEF Eat, Destroy, people
<1>2. Grave \in Rooms /\ {o} \in SUBSET Objs
  BY PlacesAssumption
<1>3. People' /\ shut' \subseteq Lids /\ ingame' = ingame
  BY <1>1 DEF IInv, TypeOK, People
<1> QED BY <1>1, <1>2, <1>3, LaidKeeps

LEMMA FeedKeeps ==
  ASSUME IInv, NEW me, NEW o \in Objs, NEW x \in Chars, Feed(me, o, x)
  PROVE  IInv'
<1> DEFINE all == Wiz(me)
           D == Carried(all, x)
           fall == IF ploc[x] = PitFloor THEN WithContents(all, D) ELSE {}
           dest == [a \in D \cup fall \cup {o} |->
                      IF a = o THEN Grave ELSE IF a \in fall THEN PitFloor ELSE ploc[x]]
<1>1. /\ x \in ingame /\ ToRooms(dest) /\ destroyed' = destroyed \cup fall \cup {o}
      /\ Paid(fall, ~Wiz(me)) /\ ingame' = ingame \ {x} /\ UNCHANGED <<pwpn, ploc, shut>>
  BY DEF Feed, Marked
<1>2. World /\ People /\ ploc[x] \in Rooms /\ x \in Holders
  BY <1>1, TypeParts DEF IInv, People, Holders
<1>3. D \in SUBSET Objs /\ all \in BOOLEAN /\ (~all => D \cap destroyed = {})
  BY <1>2 DEF Carried, Sees, World, Wiz
<1>4. \A a \in Objs \ destroyed : oloc[a] = x => a \in D
  <2>1. \A a \in Objs : oloc[a] = x => a \in inv[x] /\ ocarrf[a] \in Held
    BY <1>2 DEF World, Located
  <2> QED BY <2>1 DEF Carried, Sees
<1> HIDE DEF D, all
<1>5. WithContents(all, D) \in SUBSET Objs /\ (~all => WithContents(all, D) \cap destroyed = {})
  BY <1>2, <1>3, ContentsSeen
<1>6. fall \in SUBSET Objs /\ (~all => fall \cap destroyed = {})
  BY <1>5
<1> HIDE DEF fall
<1>7. /\ DOMAIN dest = D \cup fall \cup {o}
      /\ \A a \in DOMAIN dest : dest[a] \in Rooms
  BY <1>2, PlacesAssumption
<1> HIDE DEF dest
<1>8. scored' \in [Objs -> 0 .. 2] /\ Scores'
  <2>1. Paid(fall, ~all)
    BY <1>1 DEF all
  <2> QED BY <1>1, <1>3, <1>6, <2>1, PaidScores DEF IInv, TypeOK
<1>9. People' /\ shut' \subseteq Lids
  BY <1>1 DEF IInv, TypeOK, People
<1>10. \A y \in ingame \ ingame' : \A a \in Objs \ destroyed : oloc[a] = y => a \in DOMAIN dest
  BY <1>1, <1>4, <1>7
<1> QED BY <1>1, <1>3, <1>6, <1>7, <1>8, <1>9, <1>10, Lain

\* What is worn and wielded changes, and nothing else.
LEMMA FlagsKeep ==
  ASSUME IInv, UNCHANGED <<oloc, inv, people, destroyed, shut, scored>>,
         pwpn' \in [Chars -> Objs \cup {NoObj}], ocarrf' \in [Objs -> Flags],
         \A o \in Objs : ocarrf'[o] = ocarrf[o] \/ (ocarrf'[o] \in Held /\ ocarrf[o] \in Held),
         Dressed'
  PROVE  IInv'
<1>1. /\ World /\ People /\ NoCycle /\ Scores /\ NothingTakenAlong
      /\ destroyed \subseteq Objs /\ shut \subseteq Lids
      /\ scored \in [Objs -> 0 .. 2]
  BY TypeParts DEF IInv
<1>2. UNCHANGED <<ploc, ingame>>
  BY DEF people
<1>3. World'
  <2>1. \A o \in Objs : Fit(oloc[o], ocarrf[o])
    BY <1>1, LocatedFits DEF World
  <2>2. "IN_ROOM" \notin Held /\ "IN_CONTAINER" \notin Held
    BY DEF Held
  <2>3. \A o \in Objs : Fit(oloc'[o], ocarrf'[o])
    BY <2>1, <2>2 DEF Fit
  <2> QED BY <1>1, <2>3 DEF World, Located, Fit
<1>4. People'
  BY <1>1, <1>2 DEF People
<1>5. NoCycle' /\ NothingTakenAlong'
  BY <1>1, <1>2 DEF NoCycle, NothingTakenAlong
<1>6. Scores'
  BY <1>1, ScoresKept
<1>7. TypeOK' /\ Located'
  BY <1>1, <1>3, <1>4, TypePartsAfter
<1> QED BY <1>5, <1>6, <1>7 DEF IInv

\* WEAR: nothing else is worn there that the player can see, and he sees what he wears.
LEMMA WearKeeps ==
  ASSUME IInv, NEW me, NEW o \in Objs, Wear(me, o)
  PROVE  IInv'
<1>1. /\ me \in Players /\ o \in Mine(me) /\ RoomToWear(me, o)
      /\ UNCHANGED <<oloc, inv, pwpn, people, destroyed, shut, scored>>
      /\ ocarrf' = [ocarrf EXCEPT ![o] = IF ocarrf[o] = "WIELDED_BY" THEN "BOTH_BY"
                                                                      ELSE "WORN_BY"]
  BY DEF Wear, Rewear, Acts
<1>2. World /\ WornOnce /\ WornSeen
  BY TypeParts DEF IInv, Dressed
<1>3. oloc[o] = me /\ ocarrf[o] \in Held /\ (me \in Wizards \/ o \notin destroyed)
  BY <1>1 DEF Mine, Carried, Sees, Wiz
<1>4. ocarrf' \in [Objs -> Flags]
  BY <1>1, <1>2 DEF World, Flags, Held
<1>5. \A a \in Objs : a /= o => ocarrf'[a] = ocarrf[a]
  BY <1>1, <1>2 DEF World
<1>6. ocarrf'[o] \in Held
  BY <1>1, <1>2 DEF World, Held
<1>7. WornOnce'
  <2>1. ASSUME NEW k \in Kinds, o \in k, NEW w \in k, w /= o, oloc[w] = me, ocarrf[w] \in Worn
        PROVE  FALSE
    <3>1. w \in Objs
      BY ThingsAssumption
    <3>2. w \in inv[me] /\ ocarrf[w] \in Held
      BY <1>1, <1>2, <2>1, <3>1 DEF World, Located, Holders, Chars, Worn, Held
    <3>3. Sees(Wiz(me), w)
      BY <1>1, <1>2, <2>1, <3>1 DEF Sees, Wiz, WornSeen
    <3>4. w \in Mine(me)
      BY <2>1, <3>2, <3>3 DEF Mine, Carried
    <3> QED BY <1>1, <2>1, <3>4 DEF RoomToWear
  <2> SUFFICES ASSUME NEW x \in Players, NEW k \in Kinds, NEW a \in k, NEW w \in k,
                      oloc'[a] = x, oloc'[w] = x, ocarrf'[a] \in Worn, ocarrf'[w] \in Worn
               PROVE  a = w
    BY DEF WornOnce
  <2>2. a \in Objs /\ w \in Objs /\ oloc[a] = x /\ oloc[w] = x
    BY <1>1, ThingsAssumption
  <2>3. CASE a = o
    BY <1>3, <1>5, <2>1, <2>2, <2>3
  <2>4. CASE w = o
    BY <1>3, <1>5, <2>1, <2>2, <2>4
  <2>5. CASE a /= o /\ w /= o
    BY <1>2, <1>5, <2>2, <2>5 DEF WornOnce
  <2> QED BY <2>3, <2>4, <2>5
<1>8. WornSeen'
  BY <1>1, <1>2, <1>3, <1>5 DEF WornSeen
<1>9. pwpn' \in [Chars -> Objs \cup {NoObj}]
  BY <1>1 DEF IInv, TypeOK
<1>10. \A a \in Objs : ocarrf'[a] = ocarrf[a] \/ (ocarrf'[a] \in Held /\ ocarrf[a] \in Held)
  BY <1>3, <1>5, <1>6
<1> QED BY <1>1, <1>4, <1>7, <1>8, <1>9, <1>10, FlagsKeep DEF Dressed

LEMMA RemoveKeeps ==
  ASSUME IInv, NEW me, NEW o \in Objs, Remove(me, o)
  PROVE  IInv'
<1>1. /\ o \in Mine(me)
      /\ UNCHANGED <<oloc, inv, pwpn, people, destroyed, shut, scored>>
      /\ ocarrf' = [ocarrf EXCEPT ![o] = IF ocarrf[o] = "BOTH_BY" THEN "WIELDED_BY"
                                                                   ELSE "CARRIED_BY"]
  BY DEF Remove, Rewear
<1>2. World /\ Dressed
  BY TypeParts DEF IInv
<1>3. ocarrf' \in [Objs -> Flags]
  BY <1>1, <1>2 DEF World, Flags, Held
<1>4. /\ \A a \in Objs : a /= o => ocarrf'[a] = ocarrf[a]
      /\ ocarrf'[o] \in Held /\ ocarrf'[o] \notin Worn /\ ocarrf[o] \in Held
  BY <1>1, <1>2 DEF World, Held, Worn, Mine, Carried
<1>5. Dressed'
  <2>1. \A a \in Objs :
          \/ ocarrf'[a] \notin Worn
          \/ oloc'[a] = oloc[a] /\ ocarrf[a] \in Worn /\ destroyed' = destroyed
    BY <1>1, <1>4
  <2> QED BY <1>2, <2>1, DressedKept
<1>6. pwpn' \in [Chars -> Objs \cup {NoObj}]
  BY <1>1 DEF IInv, TypeOK
<1>7. \A a \in Objs : ocarrf'[a] = ocarrf[a] \/ (ocarrf'[a] \in Held /\ ocarrf[a] \in Held)
  BY <1>4
<1> QED BY <1>1, <1>3, <1>5, <1>6, <1>7, FlagsKeep

LEMMA WieldKeeps ==
  ASSUME IInv, NEW me, NEW w \in Objs \cup {NoObj}, Wield(me, w)
  PROVE  IInv'
<1>1. /\ me \in Chars /\ SetWeapon(oloc, ocarrf, me, w)
      /\ UNCHANGED <<oloc, inv, people, destroyed, shut, scored>>
  BY DEF Wield, Acts, Chars
<1>2. /\ oloc \in [Objs -> Holders] /\ ocarrf \in [Objs -> Flags]
      /\ pwpn \in [Chars -> Objs \cup {NoObj}]
  BY DEF IInv, TypeOK
<1>3. PICK loc \in [Objs -> Holders], flag \in [Objs -> Flags] : loc = oloc /\ flag = ocarrf
  BY <1>2
<1>4. SetWeapon(loc, flag, me, w)
  BY <1>1, <1>3
<1>5. /\ ocarrf' \in [Objs -> Flags]
      /\ pwpn' \in [Chars -> Objs \cup {NoObj}]
      /\ \A o \in Objs : /\ ocarrf'[o] = ocarrf[o] \/ (ocarrf'[o] \in Held /\ ocarrf[o] \in Held)
                         /\ ocarrf'[o] \in Worn => ocarrf[o] \in Worn
  BY <1>1, <1>2, <1>3, <1>4, SetWeaponKeeps
<1>6. Dressed'
  BY <1>1, <1>5, DressedKept DEF IInv
<1> QED BY <1>1, <1>5, <1>6, FlagsKeep

LEMMA ResurrectKeeps ==
  ASSUME IInv, NEW me, NEW o \in Objs, Resurrect(me, o)
  PROVE  IInv'
<1>1. /\ World /\ People /\ NoCycle /\ Dressed /\ Scores /\ NothingTakenAlong
      /\ pwpn \in [Chars -> Objs \cup {NoObj}]
      /\ destroyed \subseteq Objs /\ shut \subseteq Lids
      /\ scored \in [Objs -> 0 .. 2]
  BY TypeParts DEF IInv
<1>2. /\ me \in ingame /\ Moved({o}, ploc[me], "IN_ROOM") /\ Anew({o})
      /\ UNCHANGED <<pwpn, ploc, ingame, shut>>
  BY DEF Resurrect, Acts, people
<1>3. ploc[me] \in Rooms
  BY <1>1, <1>2 DEF People
<1>4. ploc[me] \in Holders /\ ploc[me] \notin Objs /\ ploc[me] \notin Chars
  BY <1>3, PlacesAssumption DEF Holders
<1>5. Fit(ploc[me], "IN_ROOM") /\ "IN_ROOM" \in Flags
  BY <1>3, WaysFit DEF Flags
<1>6. /\ World'
      /\ \A a \in Objs : /\ oloc'[a] = IF a \in {o} THEN ploc[me] ELSE oloc[a]
                         /\ ocarrf'[a] = IF a \in {o} THEN "IN_ROOM" ELSE ocarrf[a]
  BY <1>1, <1>2, <1>4, <1>5, MovedWorld
<1>7. destroyed' = destroyed \ {o}
  BY <1>2 DEF Anew
<1>8. NoCycle'
  <2>1. \A a \in Objs : oloc'[a] = oloc[a] \/ oloc'[a] \notin Objs
    BY <1>4, <1>6
  <2> QED BY <1>1, <2>1, OutwardNoCycle
<1>9. Dressed'
  <2>1. "IN_ROOM" \notin Worn
    BY DEF Worn
  <2>2. \A a \in Objs :
          \/ ocarrf'[a] \notin Worn
          \/ oloc'[a] = oloc[a] /\ ocarrf'[a] = ocarrf[a] /\ (a \in destroyed' => a \in destroyed)
    BY <1>6, <1>7, <2>1
  <2> QED BY <1>1, <2>2, DressedKept
<1>10. NothingTakenAlong'
  <2>1. \A a \in Objs, x \in Chars \ ingame' :
          oloc'[a] = x =>
            oloc[a] = x /\ x \notin ingame /\ (a \in destroyed => a \in destroyed')
    BY <1>2, <1>4, <1>6, <1>7
  <2> QED BY <1>1, <1>6, <2>1, AwayKept
<1>11. scored' \in [Objs -> 0 .. 2] /\ Scores'
  BY <1>1, <1>2, AnewScores
<1>12. People'
  BY <1>1, <1>2 DEF People
<1>13. TypeOK' /\ Located'
  BY <1>1, <1>2, <1>6, <1>7, <1>11, <1>12, TypePartsAfter
<1> QED BY <1>8, <1>9, <1>10, <1>11, <1>13 DEF IInv

-----------------------------------------------------------------------------
(* Mobiles *)

\* A mobile that is there takes things, and may put them on or take them to hand.
LEMMA MobTakesKeeps ==
  ASSUME IInv, NEW m \in Mobs \cap ingame, NEW D \in SUBSET Objs, Goes([o \in D |-> m]),
         ocarrf' \in [Objs -> Flags], pwpn' \in [Chars -> Objs \cup {NoObj}],
         \A o \in D : ocarrf'[o] \in Held,
         \A o \in Objs \ D :
           /\ ocarrf'[o] = ocarrf[o] \/ (ocarrf'[o] \in Held /\ ocarrf[o] \in Held)
           /\ ocarrf'[o] \in Worn => ocarrf[o] \in Worn,
         UNCHANGED <<people, destroyed, shut, scored>>
  PROVE  IInv'
<1>1. /\ World /\ People /\ NoCycle /\ Dressed /\ Scores /\ NothingTakenAlong
      /\ destroyed \subseteq Objs /\ shut \subseteq Lids
      /\ scored \in [Objs -> 0 .. 2]
  BY TypeParts DEF IInv
<1>2. UNCHANGED <<ploc, ingame>>
  BY DEF people
<1>3. m \in Chars /\ m \in Holders /\ m \notin Players /\ m \notin Objs
  BY PlacesAssumption DEF Chars, Holders
<1> DEFINE dest == [o \in D |-> m]
<1>4. DOMAIN dest = D /\ \A o \in DOMAIN dest : dest[o] = m
  OBVIOUS
<1>5. Goes(dest)
  OBVIOUS
<1> HIDE DEF dest
<1>6. \A o \in Objs : oloc'[o] = IF o \in D THEN m ELSE oloc[o]
  BY <1>1, <1>3, <1>4, <1>5, GoesWorld
<1>7. World'
  <2>1. \A o \in Objs : Fit(oloc[o], ocarrf[o])
    BY <1>1, LocatedFits DEF World
  <2>2. "IN_ROOM" \notin Held /\ "IN_CONTAINER" \notin Held
    BY DEF Held
  <2>3. \A o \in Objs \ D : Fit(oloc'[o], ocarrf'[o])
    BY <1>6, <2>1, <2>2 DEF Fit
  <2>4. \A o \in D : Fit(oloc'[o], ocarrf'[o])
    BY <1>3, <1>6, WaysFit
  <2> QED BY <1>1, <1>3, <1>4, <1>5, <2>3, <2>4, FitWorld
<1>8. NoCycle'
  <2>1. \A o \in Objs : oloc'[o] = oloc[o] \/ oloc'[o] \notin Objs
    BY <1>3, <1>6
  <2> QED BY <1>1, <2>1, OutwardNoCycle
<1>9. Dressed'
  BY <1>1, <1>3, <1>6, DressedKept
<1>10. NothingTakenAlong'
  BY <1>1, <1>2, <1>6, <1>7, AwayKept
<1>11. Scores'
  BY <1>1, ScoresKept
<1>12. People'
  BY <1>1, <1>2 DEF People
<1>13. TypeOK' /\ Located'
  BY <1>1, <1>7, <1>12, TypePartsAfter
<1> QED BY <1>8, <1>9, <1>10, <1>11, <1>13 DEF IInv

LEMMA MobStealKeeps ==
  ASSUME IInv, NEW m, NEW x, NEW o \in Objs, MobSteal(m, x, o)
  PROVE  IInv'
<1> DEFINE flag == FlagAfter({o}, IF o \in Wearables THEN "WORN_BY" ELSE "CARRIED_BY")
<1>1. /\ m \in Mobs \cap ingame /\ Goes([a \in {o} |-> m])
      /\ UNCHANGED <<people, destroyed, shut, scored>>
      /\ \/ SetWeapon(oloc', flag, m, o)
         \/ ocarrf' = flag /\ UNCHANGED pwpn
  BY DEF MobSteal, Alive
<1>2. /\ World /\ ocarrf \in [Objs -> Flags] /\ pwpn \in [Chars -> Objs \cup {NoObj}]
      /\ m \in Chars /\ m \in Holders
  BY <1>1, TypeParts DEF IInv, World, Chars, Holders
<1>3. oloc' \in [Objs -> Holders]
  BY <1>2, <1>1 DEF Goes, World
<1>4. /\ flag \in [Objs -> Flags] /\ flag[o] \in Held
      /\ \A a \in Objs \ {o} : flag[a] = ocarrf[a]
  BY <1>2 DEF FlagAfter, Flags, Held
<1> HIDE DEF flag
<1>5. /\ ocarrf' \in [Objs -> Flags]
      /\ pwpn' \in [Chars -> Objs \cup {NoObj}]
      /\ \A a \in Objs : /\ ocarrf'[a] = flag[a] \/ (ocarrf'[a] \in Held /\ flag[a] \in Held)
                         /\ ocarrf'[a] \in Worn => flag[a] \in Worn
  <2>1. CASE SetWeapon(oloc', flag, m, o)
    <3>1. PICK loc \in [Objs -> Holders], f \in [Objs -> Flags] : loc = oloc' /\ f = flag
      BY <1>3, <1>4
    <3>2. SetWeapon(loc, f, m, o)
      BY <2>1, <3>1
    <3> QED BY <1>2, <3>1, <3>2, SetWeaponKeeps
  <2>2. CASE ocarrf' = flag /\ UNCHANGED pwpn
    BY <1>2, <1>4, <2>2
  <2> QED BY <1>1, <2>1, <2>2
<1> QED BY <1>1, <1>4, <1>5, MobTakesKeeps

LEMMA MobPickKeeps ==
  ASSUME IInv, NEW m, NEW D \in SUBSET Objs, MobPick(m, D)
  PROVE  IInv'
<1>1. PICK on \in SUBSET (D \cap Armors) :
        LET flag == [o \in Objs |-> IF o \in on THEN "WORN_BY"
                                   ELSE IF o \in D THEN "CARRIED_BY" ELSE ocarrf[o]]
        IN IF D \cap Weapons = {}
           THEN ocarrf' = flag /\ UNCHANGED pwpn
           ELSE \E w \in D \cap Weapons : SetWeapon(oloc', flag, m, w)
  BY DEF MobPick
<1> DEFINE flag == [o \in Objs |-> IF o \in on THEN "WORN_BY"
                                  ELSE IF o \in D THEN "CARRIED_BY" ELSE ocarrf[o]]
<1>2. /\ m \in Mobs \cap ingame /\ Goes([o \in D |-> m])
      /\ UNCHANGED <<people, destroyed, shut, scored>>
  BY DEF MobPick, Alive
<1>3. \/ ocarrf' = flag /\ UNCHANGED pwpn
      \/ \E w \in D \cap Weapons : SetWeapon(oloc', flag, m, w)
  BY <1>1
<1>4. /\ World /\ ocarrf \in [Objs -> Flags] /\ pwpn \in [Chars -> Objs \cup {NoObj}]
      /\ m \in Chars /\ m \in Holders
  BY <1>2, TypeParts DEF IInv, World, Chars, Holders
<1>5. oloc' \in [Objs -> Holders]
  BY <1>2, <1>4 DEF Goes, World
<1>6. /\ flag \in [Objs -> Flags] /\ \A o \in D : flag[o] \in Held
      /\ \A o \in Objs \ D : flag[o] = ocarrf[o]
  BY <1>4 DEF Flags, Held
<1> HIDE DEF flag
<1>7. /\ ocarrf' \in [Objs -> Flags]
      /\ pwpn' \in [Chars -> Objs \cup {NoObj}]
      /\ \A a \in Objs : /\ ocarrf'[a] = flag[a] \/ (ocarrf'[a] \in Held /\ flag[a] \in Held)
                         /\ ocarrf'[a] \in Worn => flag[a] \in Worn
  <2>1. CASE \E w \in D \cap Weapons : SetWeapon(oloc', flag, m, w)
    <3>1. PICK w \in D \cap Weapons : SetWeapon(oloc', flag, m, w)
      BY <2>1
    <3>2. PICK loc \in [Objs -> Holders], f \in [Objs -> Flags] : loc = oloc' /\ f = flag
      BY <1>5, <1>6
    <3>3. SetWeapon(loc, f, m, w) /\ w \in Objs
      BY <3>1, <3>2
    <3> QED BY <1>4, <3>2, <3>3, SetWeaponKeeps
  <2>2. CASE ocarrf' = flag /\ UNCHANGED pwpn
    BY <1>4, <1>6, <2>2
  <2> QED BY <1>3, <2>1, <2>2
<1> QED BY <1>2, <1>6, <1>7, MobTakesKeeps

-----------------------------------------------------------------------------
(* Coming, going and dying *)

\* Only the people change, and lids.
LEMMA PeopleKeep ==
  ASSUME IInv, UNCHANGED <<world, destroyed, scored>>,
         pwpn' \in [Chars -> Objs \cup {NoObj}], People', ingame \subseteq ingame',
         shut' \subseteq Lids
  PROVE  IInv'
<1>1. /\ World /\ NoCycle /\ Dressed /\ Scores /\ NothingTakenAlong
      /\ destroyed \subseteq Objs
      /\ scored \in [Objs -> 0 .. 2]
  BY TypeParts DEF IInv
<1>2. UNCHANGED <<oloc, ocarrf, inv>>
  BY DEF world
<1>3. World'
  BY <1>1, <1>2 DEF World, Located
<1>4. NoCycle' /\ NothingTakenAlong'
  BY <1>1, <1>2 DEF NoCycle, NothingTakenAlong
<1>5. Dressed'
  BY <1>1, <1>2 DEF Dressed, WornOnce, WornSeen
<1>6. Scores'
  BY <1>1, ScoresKept
<1>7. TypeOK' /\ Located'
  BY <1>1, <1>3, TypePartsAfter
<1> QED BY <1>4, <1>5, <1>6, <1>7 DEF IInv

LEMMA EnterKeeps ==
  ASSUME IInv, NEW x, Enter(x)
  PROVE  IInv'
<1>1. PICK r \in Starts : ploc' = [ploc EXCEPT ![x] = r]
  BY DEF Enter
<1>2. /\ x \in Chars /\ r \in Rooms /\ ingame' = ingame \cup {x}
      /\ pwpn' = [pwpn EXCEPT ![x] = NoObj] /\ UNCHANGED <<world, destroyed, shut, scored>>
  BY PlacesAssumption DEF Enter, Chars
<1>3. People' /\ pwpn' \in [Chars -> Objs \cup {NoObj}] /\ shut' \subseteq Lids
  BY <1>1, <1>2 DEF IInv, TypeOK, People
<1> QED BY <1>2, <1>3, PeopleKeep

LEMMA WalkKeeps ==
  ASSUME IInv, NEW x \in Chars, NEW r \in Rooms, Walk(x, r)
  PROVE  IInv'
<1>1. /\ ploc' = [ploc EXCEPT ![x] = r]
      /\ UNCHANGED <<world, pwpn, ingame, destroyed, shut, scored>>
  BY DEF Walk
<1>2. People' /\ pwpn' \in [Chars -> Objs \cup {NoObj}] /\ shut' \subseteq Lids
  BY <1>1 DEF IInv, TypeOK, People
<1> QED BY <1>1, <1>2, PeopleKeep

LEMMA ReviveKeeps ==
  ASSUME IInv, NEW me, NEW m \in Chars, Revive(me, m)
  PROVE  IInv'
<1>1. /\ me \in ingame /\ ploc' = [ploc EXCEPT ![m] = ploc[me]] /\ ingame' = ingame \cup {m}
      /\ pwpn' = [pwpn EXCEPT ![m] = NoObj] /\ UNCHANGED <<world, destroyed, shut, scored>>
  BY DEF Revive, Acts
<1>2. People' /\ pwpn' \in [Chars -> Objs \cup {NoObj}] /\ shut' \subseteq Lids
  BY <1>1 DEF IInv, TypeOK, People
<1> QED BY <1>1, <1>2, PeopleKeep

LEMMA OpenCloseKeeps ==
  ASSUME IInv, NEW me, NEW c \in Objs, OpenClose(me, c)
  PROVE  IInv'
<1>1. /\ c \in Lids /\ shut' \in {shut \ {c}, shut \cup {c}}
      /\ UNCHANGED <<world, pwpn, ploc, ingame, destroyed, scored>>
  BY DEF OpenClose, people
<1>2. People' /\ pwpn' \in [Chars -> Objs \cup {NoObj}] /\ shut' \subseteq Lids
  BY <1>1 DEF IInv, TypeOK, People
<1> QED BY <1>1, <1>2, PeopleKeep

LEMMA FleeKeeps ==
  ASSUME IInv, NEW x \in Chars, NEW r \in Rooms, Flee(x, r)
  PROVE  IInv'
<1> DEFINE D == {o \in inv[x] : ocarrf[o] = "CARRIED_BY" /\ oloc[o] = x}
<1>1. /\ x \in ingame /\ Moved(D, ploc[x], "IN_ROOM") /\ ploc' = [ploc EXCEPT ![x] = r]
      /\ UNCHANGED <<pwpn, ingame, destroyed, shut, scored>>
  BY DEF Flee, Acts
<1>2. D \in SUBSET Objs /\ ploc[x] \in Rooms
  BY <1>1 DEF IInv, TypeOK, Holders
<1>3. People' /\ shut' \subseteq Lids
  BY <1>1 DEF IInv, TypeOK, People
<1> HIDE DEF D
<1> QED BY <1>1, <1>2, <1>3, LaidKeeps

LEMMA LeaveKeeps ==
  ASSUME IInv, NEW x, Leave(x)
  PROVE  IInv'
<1>1. /\ x \in ingame /\ Dumped(Wiz(x), ~Wiz(x), Loses(Wiz(x), x), ploc[x])
      /\ ploc' = [ploc EXCEPT ![x] = Nowhere] /\ ingame' = ingame \ {x}
      /\ UNCHANGED <<pwpn, shut>>
  BY DEF Leave, Acts, Leaves
<1>2. People' /\ shut' \subseteq Lids
  BY <1>1 DEF IInv, TypeOK, People
<1>3. Wiz(x) \in BOOLEAN /\ ingame \ ingame' \subseteq {x}
  BY <1>1 DEF Wiz
<1> QED BY <1>1, <1>2, <1>3, DumpedKeeps

LEMMA DiedKeeps ==
  ASSUME IInv, NEW x, NEW all \in BOOLEAN, NEW mortal \in BOOLEAN, mortal => ~all,
         Died(x, all, mortal)
  PROVE  IInv'
<1>1. /\ x \in ingame /\ x \in Chars /\ Dumped(all, mortal, Loses(all, x), ploc[x])
      /\ UNCHANGED <<pwpn, shut>>
      /\ ploc' = IF x \in Wizards THEN ploc
                 ELSE [ploc EXCEPT ![x] = IF x \in Mobs THEN Grave ELSE Nowhere]
      /\ ingame' = IF x \in Players \ Wizards THEN ingame \ {x} ELSE ingame
  BY DEF Died, Acts, Alive, Chars
<1>2. People'
  <2>1. /\ ploc \in [Chars -> Rooms \cup {Nowhere}] /\ ingame \subseteq Chars
        /\ \A y \in ingame : ploc[y] \in Rooms
        /\ Grave \in Rooms
    BY PlacesAssumption DEF IInv, TypeOK
  <2>2. CASE x \in Wizards
    BY <1>1, <2>1, <2>2, ThingsAssumption DEF People
  <2>3. CASE x \in Players \ Wizards
    BY <1>1, <2>1, <2>3, PlacesAssumption DEF People
  <2>4. CASE x \in Mobs /\ x \notin Wizards
    BY <1>1, <2>1, <2>4, PlacesAssumption DEF People
  <2> QED BY <1>1, <2>2, <2>3, <2>4 DEF Chars
<1>3. shut' \subseteq Lids /\ ingame \ ingame' \subseteq {x}
  BY <1>1 DEF IInv, TypeOK
<1> QED BY <1>1, <1>2, <1>3, DumpedKeeps

LEMMA ExorciseKeeps ==
  ASSUME IInv, NEW me, NEW m, Exorcise(me, m)
  PROVE  IInv'
<1>1. /\ m \in ingame /\ Dumped(TRUE, FALSE, Loses(TRUE, m), ploc[m])
      /\ ingame' = ingame \ {m} /\ UNCHANGED <<pwpn, ploc, shut>>
  BY DEF Exorcise
<1>2. People' /\ shut' \subseteq Lids
  BY <1>1 DEF IInv, TypeOK, People
<1>3. ingame \ ingame' \subseteq {m}
  BY <1>1
<1> QED BY <1>1, <1>2, <1>3, DumpedKeeps

-----------------------------------------------------------------------------
(* The zones *)

LEMMA HomesFit ==
  \A o \in Objs :
    /\ HomeLoc[o] \in Holders /\ HomeFlag[o] \in Flags /\ Fit(HomeLoc[o], HomeFlag[o])
    /\ HomeLoc[o] \in Objs => HomeLoc[o] \in Containers /\ o \notin Containers
    /\ HomeLoc[o] \notin Players
<1> SUFFICES ASSUME NEW o \in Objs
             PROVE  /\ HomeLoc[o] \in Holders /\ HomeFlag[o] \in Flags
                    /\ Fit(HomeLoc[o], HomeFlag[o])
                    /\ HomeLoc[o] \in Objs => HomeLoc[o] \in Containers /\ o \notin Containers
                    /\ HomeLoc[o] \notin Players
  OBVIOUS
<1>1. /\ HomeLoc[o] \in Rooms \cup Containers \cup Mobs
      /\ HomeFlag[o] \in Flags
      /\ HomeFlag[o] = "IN_ROOM" <=> HomeLoc[o] \in Rooms
      /\ HomeFlag[o] = "IN_CONTAINER" <=> HomeLoc[o] \in Containers
      /\ HomeFlag[o] = "IN_CONTAINER" => o \notin Containers
  BY ResetAssumption
<1>2. /\ Rooms \cap Objs = {} /\ Rooms \cap Chars = {} /\ Objs \cap Chars = {}
      /\ Players \cap Mobs = {} /\ Containers \subseteq Objs
      /\ Mobs \subseteq Chars /\ Players \subseteq Chars
  BY PlacesAssumption, ThingsAssumption DEF Chars
<1>3. HomeLoc[o] \in Holders
  BY <1>1, <1>2 DEF Holders
<1>4. HomeFlag[o] \in Held <=> HomeLoc[o] \in Mobs
  BY <1>1, <1>2 DEF Flags, Held
<1>5. HomeLoc[o] \in Mobs <=> HomeLoc[o] \in Chars
  BY <1>1, <1>2
<1> QED BY <1>1, <1>2, <1>3, <1>4, <1>5 DEF Fit

LEMMA HomeWeaponType ==
  \A x : HomeWeapon(x) \in Objs \cup {NoObj}
  BY DEF HomeWeapon

LEMMA ResetKeeps ==
  ASSUME IInv, NEW z \in Zones, ResetZone(z)
  PROVE  IInv'
<1> DEFINE things == z \cap Objs
           mobs == z \cap Mobs
           dest == [o \in things |-> HomeLoc[o]]
<1>1. /\ World /\ People /\ NoCycle /\ Dressed /\ Scores /\ NothingTakenAlong
      /\ pwpn \in [Chars -> Objs \cup {NoObj}]
      /\ destroyed \subseteq Objs /\ shut \subseteq Lids
      /\ scored \in [Objs -> 0 .. 2]
  BY TypeParts DEF IInv
<1>2. /\ Goes(dest)
      /\ ocarrf' = [o \in Objs |-> IF o \in things THEN HomeFlag[o] ELSE ocarrf[o]]
      /\ pwpn' = [x \in Chars |-> IF x \in mobs THEN HomeWeapon(x) ELSE pwpn[x]]
      /\ ploc' = [x \in Chars |-> IF x \in mobs THEN MobHome[x] ELSE ploc[x]]
      /\ ingame' = ingame \cup mobs
      /\ Anew(things)
      /\ shut' = (shut \ things) \cup (Lids \cap things)
  BY DEF ResetZone
<1>3. /\ DOMAIN dest = things /\ things \subseteq Objs
      /\ \A o \in things : dest[o] = HomeLoc[o] /\ dest[o] \in Holders
  BY HomesFit
<1>4. destroyed' = destroyed \ things
  BY <1>2 DEF Anew
<1>5. \A o \in things : HomeLoc[o] \in Mobs => HomeLoc[o] \in mobs
  BY ResetAssumption
<1>6. \A x \in mobs : x \in Chars /\ MobHome[x] \in Rooms
  BY ResetAssumption DEF Chars
<1> HIDE DEF dest, things, mobs
<1>7. \A o \in Objs : /\ oloc'[o] = IF o \in things THEN HomeLoc[o] ELSE oloc[o]
                     /\ ocarrf'[o] = IF o \in things THEN HomeFlag[o] ELSE ocarrf[o]
  BY <1>1, <1>2, <1>3, GoesWorld
<1>8. World'
  <2>1. ocarrf' \in [Objs -> Flags]
    BY <1>1, <1>2, HomesFit DEF World
  <2>2. \A o \in Objs : Fit(oloc'[o], ocarrf'[o])
    BY <1>1, <1>7, HomesFit, LocatedFits DEF World
  <2> QED BY <1>1, <1>2, <1>3, <2>1, <2>2, FitWorld
<1>9. NoCycle'
  <2> SUFFICES ASSUME NEW S \in SUBSET Objs, S /= {}, \A o \in S : oloc'[o] \in S
               PROVE  FALSE
    BY DEF NoCycle
  <2> DEFINE T == S \cap Containers
  <2>1. ASSUME NEW o \in S
        PROVE  oloc'[o] \in T /\ (o \in T => oloc[o] \in T)
    <3>1. CASE o \in things
      BY <1>7, <2>1, <3>1, HomesFit
    <3>2. CASE o \notin things
      <4>1. oloc'[o] = oloc[o] /\ oloc[o] \in S
        BY <1>7, <2>1, <3>2
      <4>2. oloc[o] \in Containers
        BY <1>1, <4>1, Contained
      <4> QED BY <4>1, <4>2
    <3> QED BY <3>1, <3>2
  <2>2. T /= {} /\ T \in SUBSET Objs /\ \A o \in T : oloc[o] \in T
    BY <2>1
  <2> QED BY <1>1, <2>2 DEF NoCycle
<1>10. Dressed'
  <2>1. \A o \in Objs :
          \/ oloc'[o] \notin Players
          \/ oloc'[o] = oloc[o] /\ ocarrf'[o] = ocarrf[o] /\ (o \in destroyed' => o \in destroyed)
    BY <1>4, <1>7, HomesFit
  <2> QED BY <1>1, <2>1, DressedKept
<1>11. NothingTakenAlong'
  <2>1. ASSUME NEW o \in Objs, NEW x \in Chars \ ingame', oloc'[o] = x
        PROVE  oloc[o] = x /\ x \notin ingame /\ (o \in destroyed => o \in destroyed')
    <3>1. x \notin ingame /\ x \notin mobs
      BY <1>2
    <3>2. CASE o \in things
      <4>1. HomeLoc[o] = x /\ HomeLoc[o] \in Rooms \cup Containers \cup Mobs
        BY <1>7, <2>1, <3>2, ResetAssumption
      <4>2. x \notin Rooms /\ x \notin Containers
        BY PlacesAssumption, ThingsAssumption
      <4> QED BY <1>5, <3>1, <3>2, <4>1, <4>2
    <3>3. CASE o \notin things
      BY <1>4, <1>7, <2>1, <3>1, <3>3
    <3> QED BY <3>2, <3>3
  <2> QED BY <1>1, <1>8, <2>1, AwayKept
<1>12. scored' \in [Objs -> 0 .. 2] /\ Scores'
  BY <1>1, <1>2, AnewScores
<1>13. People'
  BY <1>1, <1>2, <1>6 DEF People
<1>14. pwpn' \in [Chars -> Objs \cup {NoObj}]
  BY <1>1, <1>2, HomeWeaponType
<1>15. TypeOK' /\ Located'
  BY <1>1, <1>2, <1>4, <1>8, <1>12, <1>13, <1>14, TypePartsAfter
<1> QED BY <1>9, <1>10, <1>11, <1>12, <1>15 DEF IInv

-----------------------------------------------------------------------------
(* The invariant holds *)

LEMMA InitHolds ==
  ASSUME Init
  PROVE  IInv
<1>1. /\ oloc = HomeLoc /\ ocarrf = HomeFlag
      /\ inv = [x \in Holders |-> {o \in Objs : HomeLoc[o] = x}]
      /\ pwpn = [x \in Chars |-> HomeWeapon(x)]
      /\ ploc = [x \in Chars |-> IF x \in Mobs THEN MobHome[x] ELSE Nowhere]
      /\ ingame = Mobs
      /\ destroyed = {} /\ shut = Lids
      /\ scored = [o \in Objs |-> 0]
  BY DEF Init
<1>2. oloc \in [Objs -> Holders] /\ ocarrf \in [Objs -> Flags]
  BY <1>1, ResetAssumption, HomesFit
<1>3. World
  BY <1>1, <1>2, HomesFit, LocatedFits DEF World
<1>4. People
  BY <1>1, ResetAssumption DEF People, Chars
<1>5. /\ pwpn \in [Chars -> Objs \cup {NoObj}]
      /\ destroyed \subseteq Objs /\ shut \subseteq Lids
      /\ scored \in [Objs -> 0 .. 2]
  BY <1>1, HomeWeaponType
<1>6. TypeOK /\ Located
  BY <1>3, <1>4, <1>5, TypeParts
<1>7. NoCycle
  <2> SUFFICES ASSUME NEW S \in SUBSET Objs, S /= {}, \A o \in S : oloc[o] \in S
               PROVE  FALSE
    BY DEF NoCycle
  <2>1. PICK o \in S : TRUE
    OBVIOUS
  <2>2. HomeLoc[o] \in S /\ HomeLoc[HomeLoc[o]] \in S
    BY <1>1, <2>1
  <2> QED BY <2>1, <2>2, HomesFit
<1>8. Dressed
  <2>1. \A o \in Objs : oloc[o] \notin Players
    BY <1>1, HomesFit
  <2>2. \A k \in Kinds : k \subseteq Objs
    BY ThingsAssumption
  <2> QED BY <2>1, <2>2 DEF Dressed, WornOnce, WornSeen
<1>9. NothingTakenAlong
  <2>1. ASSUME NEW x \in Chars \ ingame
        PROVE  inv[x] = {}
    <3>1. x \in Players /\ x \in Holders
      BY <1>1 DEF Chars, Holders
    <3> QED BY <1>1, <3>1, HomesFit
  <2> QED BY <2>1 DEF NothingTakenAlong
<1>10. Scores
  BY <1>1 DEF Scores, ScoredOnce, ScoredGone
<1> QED BY <1>6, <1>7, <1>8, <1>9, <1>10 DEF IInv

LEMMA StutterHolds ==
  ASSUME IInv, UNCHANGED vars
  PROVE  IInv'
<1>1. /\ UNCHANGED <<oloc, ocarrf, inv>> /\ UNCHANGED <<ploc, ingame>>
      /\ UNCHANGED <<pwpn, destroyed, shut, scored>>
  BY DEF vars, world, people
<1> QED
  BY <1>1 DEF IInv, TypeOK, Located, NoCycle, NothingTakenAlong, Dressed, WornOnce, WornSeen,
              Scores, ScoredOnce, ScoredGone

LEMMA CommandHolds ==
  ASSUME IInv, NEW me \in Players, Command(me)
  PROVE  IInv'
<1>1. CASE \E D \in SUBSET Objs : GetHere(me, D) \/ Drop(me, D)
  <2>1. PICK D \in SUBSET Objs : GetHere(me, D) \/ Drop(me, D)
    BY <1>1
  <2>2. CASE GetHere(me, D) /\ \E o \in Objs : TRUE
    BY <2>2, GetsKeep
  <2>3. CASE GetHere(me, D) /\ ~\E o \in Objs : TRUE
    BY <2>3 DEF GetHere
  <2>4. CASE Drop(me, D)
    BY <2>4, DropKeeps
  <2> QED BY <2>1, <2>2, <2>3, <2>4
<1>2. CASE \E o \in Objs :
             \/ Empty(me, o) \/ PutDown(me, o) \/ Wear(me, o) \/ Remove(me, o) \/ Eat(me, o)
             \/ OpenClose(me, o) \/ Summon(me, o) \/ Resurrect(me, o)
  BY <1>2, EmptyKeeps, PutDownKeeps, WearKeeps, RemoveKeeps, EatKeeps, OpenCloseKeeps,
     ResurrectKeeps, GetsKeep
<1>3. CASE \E o \in Objs :
             \/ \E c \in Objs : Put(me, o, c)
             \/ \E D \in SUBSET Objs : GetFrom(me, o, D)
             \/ \E x \in Chars : Give(me, o, x) \/ Feed(me, o, x) \/ Steal(me, o, x)
  BY <1>3, PutKeeps, GetsKeep, FeedKeeps
<1>4. CASE \E w \in Objs \cup {NoObj} : Wield(me, w)
  BY <1>4, WieldKeeps
<1>5. CASE \E x \in Chars : Kill(me, x) \/ Exorcise(me, x) \/ Revive(me, x)
  <2>1. PICK x \in Chars : Kill(me, x) \/ Exorcise(me, x) \/ Revive(me, x)
    BY <1>5
  <2>2. CASE Kill(me, x)
    <3>1. Died(x, Wiz(me), ~Wiz(me)) /\ Wiz(me) \in BOOLEAN
      BY <2>2 DEF Kill, Wiz
    <3> QED BY <3>1, DiedKeeps
  <2> QED BY <2>1, <2>2, ExorciseKeeps, ReviveKeeps
<1> QED BY <1>1, <1>2, <1>3, <1>4, <1>5 DEF Command

LEMMA NextHolds ==
  ASSUME IInv, [Next]_vars
  PROVE  IInv'
<1>1. CASE \E me \in Players : Command(me) \/ Enter(me) \/ Leave(me)
  BY <1>1, CommandHolds, EnterKeeps, LeaveKeeps
<1>2. CASE \E m \in Mobs : Mobile(m)
  BY <1>2, MobStealKeeps, MobPickKeeps DEF Mobile
<1>3. CASE \E x \in Chars : FallInFight(x) \/ \E r \in Rooms : Walk(x, r) \/ Flee(x, r)
  BY <1>3, DiedKeeps, WalkKeeps, FleeKeeps DEF FallInFight
<1>4. CASE \E z \in Zones : ResetZone(z)
  BY <1>4, ResetKeeps
<1>5. CASE UNCHANGED vars
  BY <1>5, StutterHolds
<1> QED BY <1>1, <1>2, <1>3, <1>4, <1>5 DEF Next

LEMMA Invariance == Spec => []IInv
<1>1. Init => IInv
  BY InitHolds
<1>2. IInv /\ [Next]_vars => IInv'
  BY NextHolds
<1> QED BY <1>1, <1>2, PTL DEF Spec

-----------------------------------------------------------------------------
(* Theorems *)

\* Every variable keeps its type, and whoever is in the game is in a room.
THEOREM TypeCorrect == Spec => []TypeOK
<1>1. IInv => TypeOK
  BY DEF IInv
<1> QED BY <1>1, Invariance, PTL

\* An object is in the set of the place where it says it is, and in no other, and its
\* flag is of the kind that setoloc() needs to find it there.
THEOREM LocatedCorrect == Spec => []Located
<1>1. IInv => Located
  BY DEF IInv
<1> QED BY <1>1, Invariance, PTL

\* However containers are filled, emptied, given away and reset, the loops from
\* container to container end.
THEOREM NoCycleCorrect == Spec => []NoCycle
<1>1. IInv => NoCycle
  BY DEF IInv
<1> QED BY <1>1, Invariance, PTL

\* Nobody gets two things on one place of his body.
THEOREM WornOnceCorrect == Spec => []WornOnce
<1>1. IInv => WornOnce
  BY DEF IInv, Dressed
<1> QED BY <1>1, Invariance, PTL

\* Nobody takes anything along that is not destroyed, however he leaves.
THEOREM NothingTakenAlongCorrect == Spec => []NothingTakenAlong
<1>1. IInv => NothingTakenAlong
  BY DEF IInv
<1> QED BY <1>1, Invariance, PTL

\* A mortal is paid once for a thing, until it is made anew.
THEOREM ScoredOnceCorrect == Spec => []ScoredOnce
<1>1. IInv => ScoredOnce
  BY DEF IInv, Scores
<1> QED BY <1>1, Invariance, PTL
==============================================================================
