------------------------------- MODULE Clones -------------------------------
(***************************************************************************)
(* Cloning, destructing, storing and loading (clone.c, zones.c).  Objects, *)
(* characters and locations live in three arrays.  What CLONE and LOAD add *)
(* goes to the end of an array; what is destructed leaves a gap into which *)
(* the top entry is moved, so that it changes its number, and with it     *)
(* must change whatever refers to it by number: the ID table, the set of   *)
(* its zone, the place of what it holds, the alias of a player.  A reset   *)
(* walks over the sets of a zone while it destructs their members.         *)
(*                                                                         *)
(* The three arrays are handled by the same steps, so the model has one    *)
(* array of each kind and one definition for the three.  Numbers count     *)
(* from 0 in each (convroom() is left out).  Doors cannot be cloned, so    *)
(* that olinked() is -1 for all that is destructed; exits are modelled in  *)
(* Rooms, fights in Combat, and the ways to hold a thing in Objects.       *)
(***************************************************************************)
EXTENDS Integers, FiniteSets, Sequences, SequencesExt

CONSTANTS
  P,           \* max_players: the characters with lower numbers are players
  Const,       \* num_const_locs, num_const_chars, num_const_obs
  Most,        \* GLOBAL_MAX_LOCS, GLOBAL_MAX_MOBS + max_players, GLOBAL_MAX_OBJS
  Home,        \* the place of what is permanent at a reset: kind -> number -> place
  IdStart,     \* ID_CNT_START
  MaxId,       \* bound on id_counter as long as nothing was stored
  MaxStored,   \* bound on id_counter from then on
  Walkers      \* bound: the players who walk

Kinds == {"loc", "mob", "obj"}
Holders == [loc |-> {}, mob |-> {"loc"}, obj |-> {"loc", "mob", "obj"}]
Limbo == <<"loc", -1>>   \* location 0 and the rooms LOC_DEAD_...
NoOne == -1
Zones == {0, 1}          \* a permanent zone and that of a wizard

ASSUME SizesAssumption ==
  /\ P \in Nat \ {0} /\ IdStart \in Nat
  /\ \A k \in Kinds : Const[k] \in 1 .. IdStart /\ Const[k] <= Most[k]
  /\ P <= Const["mob"] /\ Walkers \subseteq 0 .. P - 1

\* What is permanent is at home nowhere, or in something permanent that may hold it;
\* a thing in a thing of a higher number, the bound that Carry has.
ASSUME HomesAssumption ==
  \A k \in Kinds : \A i \in 0 .. Const[k] - 1 :
    \/ Home[k][i] = Limbo
    \/ \E h \in Holders[k] : \E j \in 0 .. Const[h] - 1 :
         Home[k][i] = <<h, j>> /\ (h = "obj" => i < j)

VARIABLES
  at,        \* room_data, ublock and objects: kind -> number -> entry
  table,     \* id_table: ID -> number
  zset,      \* zlocs(), zmobs(), zobjs()
  ztemp,     \* ztemporary() of the wizard's zone
  counter,   \* id_counter
  saved,     \* the ID_COUNTER file
  disk,      \* the files of the wizard's zone: kind -> {[id, home, occ]}
  pretend,   \* players[].pretend
  sweep,     \* where reset_zone() stands
  stuck      \* the loop over a moved inventory does not end (see Rehoused)

world == <<at, table, zset, pretend>>
files == <<saved, disk>>
vars == <<at, table, zset, ztemp, counter, saved, disk, pretend, sweep, stuck>>

W == [at |-> at, table |-> table, zset |-> zset, pretend |-> pretend]
Idle == [on |-> FALSE]

-----------------------------------------------------------------------------
(* The arrays.                                                             *)

Top(w, k) == Cardinality(DOMAIN w.at[k]) - 1
Permanent(k, i) == i < Const[k]
Player(k, i) == k = "mob" /\ i < P
Things(w) == UNION {{<<k, i>> : i \in DOMAIN w.at[k]} : k \in Kinds}
Entry(w, x) == w.at[x[1]][x[2]]
Contents(w, h, k) == {i \in DOMAIN w.at[k] : w.at[k][i].in = h}
\* An identity that outlives a change of number.
Name(w, x) == IF x = Limbo THEN Limbo ELSE <<x[1], Entry(w, x).id>>

\* find_loc_by_id(), find_mobile_by_id(), find_object_by_id(): -1, or 0, when
\* there is none, which is no place either.
Find(w, n) ==
  CASE n[2] < IdStart -> n
    [] n[2] \in DOMAIN w.table -> <<n[1], w.table[n[2]]>>
    [] OTHER -> Limbo

\* setoloc(), setploc().
Moved(w, x, h) == [w EXCEPT !.at[x[1]][x[2]].in = h]
Swept(w, h, there) ==
  [w EXCEPT !.at = [k \in Kinds |-> [i \in DOMAIN w.at[k] |->
     IF w.at[k][i].in = h THEN [w.at[k][i] EXCEPT !.in = there] ELSE w.at[k][i]]]]

\* The place of what something held, once it is destructed: the room of the one
\* who carried it, the floor of a mobile, out of the world from a location.
SpillObject(w, i) ==
  LET h == w.at["obj"][i].in
  IN IF h[1] = "mob" THEN Entry(w, h).in ELSE h
Spill(w, x) ==
  CASE x[1] = "loc" -> Limbo
    [] x[1] = "mob" -> Entry(w, x).in
    [] x[1] = "obj" -> SpillObject(w, x[2])

\* find_pretender(): the first of those who are away in a marked mobile, if any.
Pretenders(w, m) == {p \in 0 .. P - 1 : w.at["mob"][m].occ /\ w.pretend[p] = m}
FindPretender(w, m) == {p \in Pretenders(w, m) : \A q \in Pretenders(w, m) : p <= q}

\* zremove_obj() and zadd_obj() when the last entry moves to the number i, or
\* leaves it; a mutant forgets that i was in the set of another zone.
ZonesAfterKeeps(w, k, i) ==
  LET top == Top(w, k)
      out(z) == w.zset[z][k] \ {top}
  IN [z \in Zones |-> [w.zset[z] EXCEPT ![k] =
        IF i # top /\ z = w.at[k][top].zone THEN out(z) \cup {i} ELSE out(z)]]
ZonesAfter(w, k, i) ==
  LET top == Top(w, k)
      out(z) == w.zset[z][k] \ {top}
  IN [z \in Zones |-> [w.zset[z] EXCEPT ![k] =
        CASE i # top /\ z = w.at[k][top].zone -> out(z) \cup {i}
          [] i # top /\ z # w.at[k][top].zone -> out(z) \ {i}
          [] OTHER -> out(z)]]

\* remove_entry(), then change_entry() of what moves.
TableAfter(w, k, i) ==
  [n \in DOMAIN w.table \ {w.at[k][i].id} |->
     IF n = w.at[k][Top(w, k)].id THEN i ELSE w.table[n]]

\* Who is found to be away in the last mobile is away in its new number; a mutant
\* leaves him with the old one.
PretendAfterStale(w, k, i) == w.pretend
PretendAfter(w, k, i) ==
  [p \in 0 .. P - 1 |->
     IF k = "mob" /\ i # Top(w, k) /\ p \in FindPretender(w, Top(w, k))
     THEN i ELSE w.pretend[p]]

\* The top entry moves into the gap.  What it held is told its new number.
Filled(w, k, i) ==
  LET top == Top(w, k)
      a == [j \in 0 .. top - 1 |-> w.at[k][IF j = i THEN top ELSE j]]
      w1 == [at |-> [w.at EXCEPT ![k] = a],
             table |-> TableAfter(w, k, i),
             zset |-> ZonesAfter(w, k, i),
             pretend |-> PretendAfter(w, k, i)]
  IN IF i = top THEN w1 ELSE Swept(w1, <<k, top>>, <<k, i>>)

\* The two entries share one array of numbers after the assignment of the structs,
\* and the loop that tells the contents of their new place takes each number out of
\* the old set and adds it to the new one.  With one number that works, unless
\* remove_int() shrinks the array and frees it under the other set.  With more, the
\* second number is written over the first, the first is added again at the end,
\* and from then on the loop takes the current number out and adds it behind
\* itself, for ever.  "luck" says that no array was freed.
Rehoused(w, k, i, luck) ==
  \/ i = Top(w, k)
  \/ \A c \in Kinds :
       LET n == Cardinality(Contents(w, <<k, Top(w, k)>>, c))
       IN n = 0 \/ (n = 1 /\ luck)

\* unalias() and unpolymorph() of the one who is found to be away in a mobile.
Unaliased(w, k, i) ==
  IF k # "mob" THEN w
  ELSE [w EXCEPT !.pretend = [p \in 0 .. P - 1 |->
          IF p \in FindPretender(w, i) THEN NoOne ELSE w.pretend[p]]]

\* The contents go first; a mutant leaves those of a carried container with the
\* one who carries it.
EmptiedFirst(w, k, i) == Swept(w, <<k, i>>, Entry(w, <<k, i>>).in)
Emptied(w, k, i) == Swept(w, <<k, i>>, Spill(w, <<k, i>>))
Gap(w, k, i) == Moved(Emptied(Unaliased(w, k, i), k, i), <<k, i>>, Limbo)
Destructed(w, k, i) == Filled(Gap(w, k, i), k, i)

\* opermanent() and its like, and the players in a location.
Inhabited(w, l) == \E p \in 0 .. P - 1 : w.at["mob"][p].in = <<"loc", l>>
Refuses(w, k, i) == Permanent(k, i) \/ (k = "loc" /\ Inhabited(w, i))
\* The gap was filled from the same zone.
Reused(w, k, i) ==
  /\ i # Top(w, k)
  /\ w.at[k][i].zone = w.at[k][Top(w, k)].zone

Becomes(w) ==
  /\ at' = w.at /\ table' = w.table /\ zset' = w.zset /\ pretend' = w.pretend

\* A destruction and what follows, or the server in the loop for ever.
Destroys(k, i) ==
  LET w == Gap(W, k, i)
  IN \/ /\ Rehoused(w, k, i, TRUE) /\ Becomes(Destructed(W, k, i)) /\ UNCHANGED stuck
     \/ /\ ~Rehoused(w, k, i, FALSE) /\ stuck' = TRUE /\ UNCHANGED world

DestructObject(i) == ~Permanent("obj", i) /\ Destroys("obj", i)
DestructMobile(i) == ~Permanent("mob", i) /\ Destroys("mob", i)
DestructLocation(i) ==
  ~Permanent("loc", i) /\ ~Inhabited(W, i) /\ Destroys("loc", i)
DestructThing(k, i) ==
  \/ k = "obj" /\ DestructObject(i)
  \/ k = "mob" /\ DestructMobile(i)
  \/ k = "loc" /\ DestructLocation(i)

-----------------------------------------------------------------------------
(* The start, and a restart.                                               *)

Born(id, zone, home, occReset) ==
  [id |-> id, in |-> Limbo, zone |-> zone, temp |-> FALSE, home |-> home,
   occ |-> FALSE, occReset |-> occReset]

Booted ==
  [at |-> [k \in Kinds |-> [i \in 0 .. Const[k] - 1 |->
             [Born(i, 0, Home[k][i], FALSE) EXCEPT !.in = Home[k][i]]]],
   table |-> << >>,
   zset |-> [z \in Zones |-> [k \in Kinds |->
             IF z = 0 THEN {i \in 0 .. Const[k] - 1 : ~Player(k, i)} ELSE {}]],
   pretend |-> [p \in 0 .. P - 1 |-> NoOne]]

Init ==
  /\ at = Booted.at /\ table = Booted.table /\ zset = Booted.zset
  /\ pretend = Booted.pretend
  /\ ztemp = TRUE
  /\ counter = IdStart /\ saved = IdStart
  /\ disk = [k \in Kinds |-> {}]
  /\ sweep = Idle /\ stuck = FALSE

Restart(files1) ==
  /\ Becomes(Booted)
  /\ ztemp' = TRUE /\ sweep' = Idle /\ stuck' = FALSE
  /\ saved' = files1.saved /\ disk' = files1.disk /\ counter' = files1.saved

Crash == Restart([saved |-> saved, disk |-> disk])

-----------------------------------------------------------------------------
(* Commands: the loop of the server does nothing else while one runs.      *)

Command == ~sweep.on /\ ~stuck

\* One who is not away in somebody else.
Himself(p) == pretend[p] = NoOne
Room(p) == at["mob"][p].in

\* What the commands of Objects and the doors do: somebody takes a thing elsewhere.
\* Things are put into newer ones only, a bound of the model: with both ways allowed,
\* the reset of a stored thing into one that was put into it closes a circle.
Carry ==
  /\ Command
  /\ \E o \in DOMAIN at["obj"], h \in Things(W) :
       /\ h[1] \in Holders["obj"]
       /\ h[1] = "obj" => at["obj"][o].id < at["obj"][h[2]].id
       /\ Becomes(Moved(W, <<"obj", o>>, h))
  /\ UNCHANGED <<ztemp, counter, files, sweep, stuck>>

\* Mobiles that may change their number; the others stay, a bound.
Restless == {m \in DOMAIN at["mob"] : ~Permanent("mob", m)}

Goto ==
  /\ Command
  /\ \E m \in Restless \cup Walkers, l \in DOMAIN at["loc"] :
       Becomes(Moved(W, <<"mob", m>>, <<"loc", l>>))
  /\ UNCHANGED <<ztemp, counter, files, sweep, stuck>>

\* aliascom(), do_pretend(), and the way back.
Alias ==
  /\ Command
  /\ \E p \in 0 .. P - 1, m \in Restless :
       /\ Himself(p) /\ ~at["mob"][m].occ
       /\ pretend' = [pretend EXCEPT ![p] = m]
       /\ at' = [at EXCEPT !["mob"][m].occ = TRUE]
  /\ UNCHANGED <<table, zset, ztemp, counter, files, sweep, stuck>>

Unalias ==
  /\ Command
  /\ \E p \in 0 .. P - 1 :
       /\ ~Himself(p)
       /\ pretend' = [pretend EXCEPT ![p] = NoOne]
       /\ at' = IF pretend[p] \in DOMAIN at["mob"]
                THEN [at EXCEPT !["mob"][pretend[p]].occ = FALSE] ELSE at
  /\ UNCHANGED <<table, zset, ztemp, counter, files, sweep, stuck>>

\* The arrays have a fixed limit.
RoomFor(k) == Top(W, k) + 1 < Most[k]

\* A copy at the end of the array, in the zone z and the place h, with the mark that
\* reset_mobile() gives it.
Cloned(k, i, z, h) ==
  LET n == Top(W, k) + 1
      o == at[k][i]
      e == [o EXCEPT !.id = counter, !.temp = TRUE, !.zone = z, !.in = h,
                     !.occ = o.occReset]
  IN /\ RoomFor(k) /\ counter < (IF saved = IdStart THEN MaxId ELSE MaxStored)
     /\ at' = [at EXCEPT ![k] = [j \in 0 .. n |-> IF j = n THEN e ELSE @[j]]]
     /\ table' = [m \in DOMAIN table \cup {counter} |-> IF m = counter THEN n ELSE table[m]]
     /\ zset' = [zset EXCEPT ![z][k] = @ \cup {n}]
     /\ counter' = counter + 1
     /\ UNCHANGED <<pretend, ztemp, files, sweep, stuck>>

CloneLocation(i) == Cloned("loc", i, 1, Limbo)
CloneMobile(p, i) == ~Player("mob", i) /\ Cloned("mob", i, 1, Room(p))
CloneObject(p, i) == Cloned("obj", i, 1, Room(p))

\* CLONE: the copy belongs to the wizard's zone; a mobile or an object comes to his room.
Clone ==
  /\ Command
  /\ \E p \in 0 .. P - 1 :
       /\ Himself(p)
       /\ \/ \E i \in DOMAIN at["loc"] : CloneLocation(i)
          \/ \E i \in DOMAIN at["mob"] : CloneMobile(p, i)
          \/ \E i \in DOMAIN at["obj"] : CloneObject(p, i)

\* examcom(): what is found is a copy of something permanent, in its zone.
Found ==
  /\ Command
  /\ \E p \in 0 .. P - 1, i \in 0 .. Const["obj"] - 1 :
       Cloned("obj", i, 0, <<"mob", p>>)

\* DESTRUCT, exorcism, and the end of temporary things that are eaten or slain.
Destruct ==
  /\ Command
  /\ \E k \in Kinds : \E i \in DOMAIN at[k] : DestructThing(k, i)
  /\ UNCHANGED <<ztemp, counter, files, sweep>>

-----------------------------------------------------------------------------
(* STORE and LOAD.                                                         *)

\* The zone as it is marked and written: a mutant forgets to save id_counter first.
StoredEntry(x) ==
  LET e == Entry(W, x)
  IN [e EXCEPT !.temp = FALSE, !.home = Name(W, e.in), !.occReset = e.occ]
Written(k) ==
  {[id |-> at[k][i].id, home |-> Name(W, at[k][i].in), occ |-> at[k][i].occ] :
     i \in zset[1][k]}
WriteOrder == <<"mob", "obj", "loc">>
\* The files after the first n steps of storecom().
FilesAfterUncounted(n) ==
  [saved |-> saved,
   disk |-> [k \in Kinds |-> IF \E j \in 1 .. n - 1 : WriteOrder[j] = k
                             THEN Written(k) ELSE disk[k]]]
FilesAfter(n) ==
  [saved |-> IF n > 0 THEN counter ELSE saved,
   disk |-> [k \in Kinds |-> IF \E j \in 1 .. n - 1 : WriteOrder[j] = k
                             THEN Written(k) ELSE disk[k]]]

Store ==
  /\ Command /\ counter <= MaxStored
  /\ ztemp' = FALSE
  /\ at' = [k \in Kinds |-> [i \in DOMAIN at[k] |->
              IF i \in zset[1][k] THEN StoredEntry(<<k, i>>) ELSE at[k][i]]]
  /\ saved' = FilesAfter(4).saved /\ disk' = FilesAfter(4).disk
  /\ UNCHANGED <<table, zset, counter, pretend, sweep, stuck>>

CrashInStore ==
  /\ Command /\ counter <= MaxStored
  /\ \E n \in 1 .. 3 : Restart(FilesAfter(n))

\* load_locations(), load_mobiles(), load_objects(): nothing is loaded when the array
\* would become too long, whose ID is in the table is passed over, and whatever is
\* new goes to the end of the array, in the order of the file.  The flags that were
\* stored are those of the reset that follows.
Fits(k) == Top(W, k) + 1 + Cardinality(disk[k]) <= Most[k]
New(k) == {r \in disk[k] : Fits(k) /\ r.id \notin DOMAIN table}
Load ==
  /\ Command
  /\ \E k \in Kinds : disk[k] # {}
  /\ \E ls \in SetToSeqs(New("loc")), ms \in SetToSeqs(New("mob")),
        os \in SetToSeqs(New("obj")) :
       LET new == [loc |-> ls, mob |-> ms, obj |-> os]
           top(k) == Top(W, k)
           added(k) == top(k) + 1 .. top(k) + Len(new[k])
           rec(k, i) == new[k][i - top(k)]
       IN /\ at' = [k \in Kinds |-> [i \in DOMAIN at[k] \cup added(k) |->
                      IF i \in added(k)
                      THEN Born(rec(k, i).id, 1, rec(k, i).home, rec(k, i).occ)
                      ELSE at[k][i]]]
          /\ table' = [n \in DOMAIN table \cup {r.id : r \in UNION {New(k) : k \in Kinds}} |->
                         IF n \in DOMAIN table THEN table[n]
                         ELSE CHOOSE i \in UNION {added(k) : k \in Kinds} :
                                \E k \in Kinds : i \in added(k) /\ rec(k, i).id = n]
          /\ zset' = [zset EXCEPT ![1] = [k \in Kinds |-> @[k] \cup added(k)]]
  /\ ztemp' = FALSE
  /\ \E known \in BOOLEAN :
       sweep' = [on |-> TRUE, zone |-> 1, keep |-> known, now |-> FALSE,
                 todo |-> IF known THEN <<"mob", "obj", "loc">> ELSE <<"obj", "mob", "loc">>,
                 left |-> zset'[1][IF known THEN "mob" ELSE "obj"], again |-> {}]
  /\ UNCHANGED <<counter, files, pretend, stuck>>

-----------------------------------------------------------------------------
(* reset_zone(), one element of a set after the other, in any order.       *)

\* A zone is kept when it is permanent, or was stored and its owner is known and has
\* not been away for too long.
Kept(z, known) == z = 0 \/ (~ztemp /\ known)

\* RESET of one zone; that of all is one after the other.
Reset ==
  /\ Command
  /\ \E z \in Zones, known \in BOOLEAN :
       LET keep == Kept(z, known)
       IN sweep' = [on |-> TRUE, zone |-> z, keep |-> keep, now |-> TRUE,
                    todo |-> IF keep THEN <<"mob", "obj", "loc">> ELSE <<"obj", "mob", "loc">>,
                    left |-> zset[z][IF keep THEN "mob" ELSE "obj"], again |-> {}]
  /\ UNCHANGED <<world, ztemp, counter, files, stuck>>

SweepKind == Head(sweep.todo)

\* reset_mobile(), reset_object(), reset_location(): home, or out of the world; a
\* mobile loses SFL_OCCUPIED, or gets the one it was stored with.
ResetThing(w, k, i) ==
  LET e == w.at[k][i]
  IN IF k = "loc" THEN w
     ELSE [w EXCEPT !.at[k][i] = [e EXCEPT !.in = Find(w, e.home), !.occ = e.occReset]]

\* The element is done with; or another has come under its number and is next.
\* A mutant goes on to the next number.
OnwardOnce(i) == sweep' = [sweep EXCEPT !.left = (@ \cap zset'[sweep.zone][SweepKind]) \ {i},
                                        !.again = {}]
Onward(i) ==
  sweep' = IF Reused(W, SweepKind, i)
           THEN [sweep EXCEPT !.left = @ \cap zset'[sweep.zone][SweepKind], !.again = {i}]
           ELSE [sweep EXCEPT !.left = (@ \cap zset'[sweep.zone][SweepKind]) \ {i}, !.again = {}]
Passed(i) == sweep' = [sweep EXCEPT !.left = @ \ {i}, !.again = {}]

Current == IF sweep.again = {} THEN sweep.left ELSE sweep.again
Spared(k, i) == sweep.keep /\ at[k][i].temp /\ ~sweep.now
Resets(k, i) == sweep.keep /\ ~at[k][i].temp

SweepStep ==
  /\ sweep.on /\ ~stuck
  /\ \E i \in Current :
       LET k == SweepKind
       IN \/ /\ Resets(k, i) /\ Becomes(ResetThing(W, k, i))
             /\ Passed(i) /\ UNCHANGED stuck
          \/ /\ ~Resets(k, i) /\ (Spared(k, i) \/ Refuses(W, k, i))
             /\ Passed(i) /\ UNCHANGED <<world, stuck>>
          \/ /\ ~Resets(k, i) /\ ~Spared(k, i)
             /\ DestructThing(k, i) /\ Onward(i)
  /\ UNCHANGED <<ztemp, counter, files>>

SweepNext ==
  /\ sweep.on /\ ~stuck /\ sweep.left = {} /\ Len(sweep.todo) > 1
  /\ sweep' = [sweep EXCEPT !.todo = Tail(@), !.left = zset[sweep.zone][sweep.todo[2]]]
  /\ UNCHANGED <<world, ztemp, counter, files, stuck>>

SweepEnd ==
  /\ sweep.on /\ ~stuck /\ sweep.left = {} /\ Len(sweep.todo) = 1
  /\ ztemp' = (IF sweep.keep THEN ztemp ELSE TRUE)
  /\ sweep' = Idle
  /\ UNCHANGED <<world, counter, files, stuck>>

Next ==
  \/ Carry \/ Goto \/ Alias \/ Unalias
  \/ Clone \/ Found \/ Destruct
  \/ Store \/ CrashInStore \/ Load \/ Crash
  \/ Reset \/ SweepStep \/ SweepNext \/ SweepEnd

Spec == Init /\ [][Next]_vars
-----------------------------------------------------------------------------
(* What makes it correct.                                                  *)

Made(k) == {i \in DOMAIN at[k] : ~Permanent(k, i)}

\* Whatever its number was when it was cloned or loaded: each thing is found in the ID
\* table and in the set of its zone under the number it has now, nothing else is, and
\* whatever it is in exists (destruct_...(), clone_...(), load_...()).
NumbersTrue ==
  /\ DOMAIN table = UNION {{at[k][i].id : i \in Made(k)} : k \in Kinds}
  /\ \A k \in Kinds : \A i \in Made(k) : table[at[k][i].id] = i
  /\ \A z \in Zones, k \in Kinds :
       zset[z][k] = {i \in DOMAIN at[k] : at[k][i].zone = z /\ ~Player(k, i)}
  /\ \A x \in Things(W) : Entry(W, x).in \in Things(W) \cup {Limbo}

\* The IDs in the game and in the files were given out by the counter and will not be
\* given out again, after a restart as well (storecom(), boot_id_counter()).
StoredIds == UNION {{r.id : r \in disk[k]} \cup {r.home[2] : r \in disk[k]} : k \in Kinds}
IdsBelowCounter ==
  /\ \A n \in DOMAIN table : n < counter
  /\ \A n \in StoredIds : n < saved
  /\ saved <= counter

\* The places, by identities that outlive a change of number.
Names == {Name(W, x) : x \in Things(W)}
Called(n) == CHOOSE x \in Things(W) : Name(W, x) = n
Place(n) == Name(W, Entry(W, Called(n)).in)
Scattered(n) == Name(W, Spill(W, Called(n)))

\* A step that destructs.
Loses == ~(DOMAIN table \subseteq DOMAIN table') /\ (Destruct \/ SweepStep)

\* When something is destructed, everything else stays where it was, and what was in
\* it comes to the place the code says: nothing is lost with the number it had, or
\* found in what has got the number (destruct_object(), destruct_mobile(),
\* destruct_location()).
OthersStay ==
  [][Loses =>
        LET gone == Names \ Names'
        IN \A n \in Names' :
            (Place(n))' = IF Place(n) \in gone THEN Scattered(Place(n)) ELSE Place(n)]_vars

\* Whoever is found to be away in a mobile is away in the same mobile after another was
\* destructed, whatever number it has then, and comes back when it was this one.  Only
\* he: a reset takes the mark from a mobile, so that another may go away in it too, and
\* those whom find_pretender() then does not find keep the number they have
\* (commands.c:1328, clone.c:251).
Away(w, p) ==
  CASE w.pretend[p] = NoOne -> Limbo
    [] w.pretend[p] \in DOMAIN w.at["mob"] -> Name(w, <<"mob", w.pretend[p]>>)
    [] OTHER -> <<"mob", NoOne>>
FoundAway(p) == \E m \in DOMAIN at["mob"] : p \in FindPretender(W, m)
AliasFollows ==
  [][Loses => \A p \in 0 .. P - 1 :
       IF FoundAway(p)
       THEN (Away(W, p))' = IF Away(W, p) \in Names' THEN Away(W, p) ELSE Limbo
       ELSE pretend'[p] = pretend[p]]_vars

\* After the reset of a zone that is kept nothing temporary is left in it, after that
\* of one that has expired nothing at all, but for locations with players in them and
\* what LOAD spares: no element of a set is passed over while others take its number.
ResetComplete ==
  [][SweepEnd =>
       \A k \in Kinds : \A i \in zset[sweep.zone][k] :
         Refuses(W, k, i) \/ (sweep.keep /\ (~at[k][i].temp \/ ~sweep.now))]_vars
=============================================================================
