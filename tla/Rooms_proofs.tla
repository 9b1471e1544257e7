----------------------------- MODULE Rooms_proofs -----------------------------
(***************************************************************************)
(* First the doors: the two sides of a door agree, for any number of doors *)
(* and zones.  Only three actions touch the state of a door; the invariant *)
(* adds that states are numbers and that a cross is aside or in its place, *)
(* which is what pushcom() turns into one another with 1 - state().        *)
(*                                                                         *)
(* Then the exits, for any number of rooms, directions and IDs.  The       *)
(* program sets exits in loops; Steps and LoopExists say what a loop       *)
(* leaves, SetExitsIs, CopyKnown, ResetLocationsGood and ClearedExitsIs    *)
(* what each of them does, and ShrinkKeeps what the move of the last room  *)
(* does to the rooms that were joined with it.  The properties are         *)
(* inductive only together, and with the IDs of the rooms being different  *)
(* and below the counter (RInv): a reset and a stored exit name a room by  *)
(* its ID.  Known says which room has been told of which, but for the lost *)
(* and the blurred.                                                        *)
(***************************************************************************)
EXTENDS Rooms, SequenceTheorems, WellFoundedInduction, TLAPS

StateOK ==
  /\ state \in [Doors \cup Crosses -> 0 .. 2]
  /\ \A c \in Crosses : state[c] \in {0, 1}

DInv == StateOK /\ DoorsTrue

-----------------------------------------------------------------------------
(* Doors and crosses are different things, and no door is its own other side. *)

LEMMA DoorFacts ==
  /\ \A k \in Doors : k \notin Crosses
  /\ Crosses = {1, 2} /\ Hole \in Doors
  /\ \A k \in Doors : Linked[k] \in Doors /\ Linked[k] # k /\ Linked[Linked[k]] = k
<1>1. \A k \in Doors : k \in 100 .. 199
  BY DoorsAssumption, SMT DEF DOOR, EX_SPECIAL
<1>2. Crosses = {1, 2}
  BY DEF Crosses
<1>3. \A k \in Doors : k \notin Crosses
  BY <1>1, <1>2, SMT
<1>4. \A k \in Doors : Linked[k] \in Doors /\ Linked[k] # k /\ Linked[Linked[k]] = k
  BY DoorsAssumption
<1> QED
  BY <1>2, <1>3, <1>4, DoorsAssumption

LEMMA ResetFacts ==
  /\ StateReset \in [Doors \cup Crosses -> 0 .. 2]
  /\ \A k \in Doors : StateReset[k] = StateReset[Linked[k]]
  /\ StateReset[Hole] = 1
  /\ \A c \in Crosses : StateReset[c] = 1
BY DoorsAssumption

\* Everything is as at a reset in the beginning.
LEMMA InitDoors == Init => DInv
<1> SUFFICES ASSUME Init PROVE DInv
  OBVIOUS
<1>1. state = StateReset
  BY DEF Init
<1>2. StateOK
  BY <1>1, ResetFacts DEF StateOK
<1>3. DoorsTrue
  <2>1. \A k \in Doors : state[k] = state[Linked[k]]
    BY <1>1, ResetFacts
  <2>2. state[Hole] # 0 /\ state[1] # 0
    BY <1>1, ResetFacts, DoorFacts, SMT
  <2> QED
    BY <2>1, <2>2, DoorFacts DEF DoorsTrue
<1> QED
  BY <1>2, <1>3 DEF DInv

-----------------------------------------------------------------------------
(* The steps that touch a door.                                            *)

\* setobjstate() of a door that is not the hole.
LEMMA SetKeeps ==
  ASSUME DInv, NEW k \in Doors, Handles(k), NEW s, SetObjState(k, s)
  PROVE  DInv'
<1> DEFINE D == Doors \cup Crosses
<1>1. /\ s \in 0 .. 2
      /\ state' = [state EXCEPT ![k] = s, ![Linked[k]] = s]
  BY DEF SetObjState, MaxState
<1>2. /\ state \in [D -> 0 .. 2]
      /\ \A c \in Crosses : state[c] \in {0, 1}
  BY DEF DInv, StateOK
<1>3. /\ k \in D /\ Linked[k] \in D
      /\ k \notin Crosses /\ Linked[k] \notin Crosses
  BY DoorFacts
<1>4. \A j \in D : state'[j] = IF j = k \/ j = Linked[k] THEN s ELSE state[j]
  BY <1>1, <1>2, <1>3
<1>5. StateOK'
  <2>1. state' \in [D -> 0 .. 2]
    BY <1>1, <1>2, <1>3
  <2>2. \A c \in Crosses : state'[c] = state[c]
    BY <1>3, <1>4
  <2> QED
    BY <1>2, <2>1, <2>2 DEF StateOK
<1>6. DoorsTrue'
  <2>1. ASSUME NEW j \in Doors, DoorZone[j] = DoorZone[Linked[j]]
        PROVE  state'[j] = state'[Linked[j]]
    <3>1. state[j] = state[Linked[j]]
      BY <2>1 DEF DInv, DoorsTrue
    <3>2. Linked[j] \in Doors /\ Linked[Linked[j]] = j
      BY DoorFacts
    <3>3. (j = k \/ j = Linked[k]) <=> (Linked[j] = k \/ Linked[j] = Linked[k])
      BY DoorFacts
    <3> QED
      BY <1>4, <3>1, <3>2, <3>3
  <2>2. Hole # k /\ Hole # Linked[k]
    BY DoorFacts DEF Handles
  <2>3. state'[Hole] = state[Hole] /\ \A c \in Crosses : state'[c] = state[c]
    BY <1>3, <1>4, <2>2, DoorFacts
  <2> QED
    BY <2>1, <2>3 DEF DInv, DoorsTrue
<1> QED
  BY <1>5, <1>6 DEF DInv

\* Every way to handle a door is setobjstate() with some state.
LEMMA HandleKeeps == DInv /\ HandleDoor => DInv'
<1> SUFFICES ASSUME DInv, HandleDoor PROVE DInv'
  OBVIOUS
<1>1. PICK k \in Doors :
        /\ Handles(k)
        /\ \/ OpenDoor(k) \/ CloseDoor(k) \/ LockDoor(k) \/ WreckDoor(k)
           \/ Toggle(k) \/ PushVault(k) \/ Leaflet(k) \/ ClickShut(k)
  BY DEF HandleDoor
<1>2. \E s : SetObjState(k, s)
  BY <1>1 DEF OpenDoor, CloseDoor, LockDoor, WreckDoor, Toggle, PushVault, Leaflet, ClickShut
<1> QED
  BY <1>1, <1>2, SetKeeps

\* pushcom(): one of the two crosses, and the hole with both of its sides.
LEMMA PushKeeps == DInv /\ PushCross => DInv'
<1> SUFFICES ASSUME DInv, PushCross PROVE DInv'
  OBVIOUS
<1> DEFINE D == Doors \cup Crosses
<1>1. PICK c \in Crosses :
        state' = [state EXCEPT ![c] = 1 - state[c], ![Hole] = HoleAfterPush(c),
                    ![Linked[Hole]] = IF HoleAfterPush(c) = state[Hole]
                                      THEN state[Linked[Hole]] ELSE HoleAfterPush(c)]
  BY DEF PushCross
<1> DEFINE h == HoleAfterPush(c)
           o == Other(c)
<1>2. /\ state \in [D -> 0 .. 2]
      /\ \A d \in Crosses : state[d] \in {0, 1}
  BY DEF DInv, StateOK
<1>3. o \in Crosses /\ o # c /\ \A d \in Crosses : d = c \/ d = o
  <2>1. \E d \in Crosses : d # c
    BY DoorFacts
  <2> QED
    BY <2>1, DoorFacts DEF Other
<1>4. /\ c \in D /\ o \in D /\ Hole \in D /\ Linked[Hole] \in D
      /\ Hole # c /\ Hole # o /\ Linked[Hole] # c /\ Linked[Hole] # o /\ Linked[Hole] # Hole
  BY <1>3, DoorFacts
<1>5. /\ state'[c] = 1 - state[c] /\ state'[o] = state[o] /\ state'[Hole] = h
      /\ state'[Linked[Hole]] = IF h = state[Hole] THEN state[Linked[Hole]] ELSE h
      /\ \A j \in D \ {c, Hole, Linked[Hole]} : state'[j] = state[j]
  <2> DEFINE L == Linked[Hole]
             a == [state EXCEPT ![c] = 1 - state[c]]
             b == [a EXCEPT ![Hole] = h]
  <2>1. state' = [b EXCEPT ![L] = IF h = state[Hole] THEN state[L] ELSE h]
    BY <1>1
  <2> HIDE DEF h, D
  <2>2. \A j \in D : a[j] = IF j = c THEN 1 - state[c] ELSE state[j]
    BY <1>2, <1>4
  <2>3. \A j \in D : b[j] = IF j = Hole THEN h ELSE a[j]
    BY <1>2, <1>4
  <2>4. DOMAIN b = D
    BY <1>2
  <2>5. \A j \in D : state'[j] = IF j = L THEN (IF h = state[Hole] THEN state[L] ELSE h) ELSE b[j]
    BY <2>1, <2>4, <1>4
  <2> HIDE DEF L, a, b
  <2>6. c \in D /\ o \in D /\ Hole \in D /\ L \in D
        /\ Hole # c /\ Hole # o /\ L # c /\ L # o /\ L # Hole /\ o # c
    BY <1>3, <1>4 DEF L
  <2>7. state'[c] = 1 - state[c] /\ state'[o] = state[o] /\ state'[Hole] = h
    BY <2>2, <2>3, <2>5, <2>6
  <2>8. state'[L] = IF h = state[Hole] THEN state[L] ELSE h
    BY <2>2, <2>3, <2>5, <2>6
  <2>9. \A j \in D \ {c, Hole, L} : state'[j] = state[j]
    BY <2>2, <2>3, <2>5
  <2> QED
    BY <2>7, <2>8, <2>9 DEF L
<1>6. state[Hole] = 0 <=> (state[c] = 0 /\ state[o] = 0)
  BY <1>3 DEF DInv, DoorsTrue
<1>7. h \in 0 .. 2 /\ (h = 0 <=> (1 - state[c] = 0 /\ state[o] = 0))
  <2>1. state[Hole] \in 0 .. 2 /\ state[c] \in {0, 1} /\ state[o] \in {0, 1}
    BY <1>2, <1>3, <1>4
  <2>2. CASE state[c] = 0
    BY <2>1, <2>2, SMT DEF HoleAfterPush
  <2>3. CASE state[c] # 0 /\ state[o] = 0
    <3>1. h = 0
      BY <2>3 DEF HoleAfterPush
    <3> QED
      BY <2>1, <2>3, <3>1, SMT
  <2>4. CASE state[c] # 0 /\ state[o] # 0
    <3>1. h = state[Hole]
      BY <2>4 DEF HoleAfterPush
    <3> QED
      BY <1>6, <2>1, <2>4, <3>1
  <2> QED
    BY <2>2, <2>3, <2>4
<1>8. StateOK'
  <2>1. 1 - state[c] \in {0, 1}
    BY <1>2, SMT
  <2>2. state' \in [D -> 0 .. 2]
    <3>1. 1 - state[c] \in 0 .. 2
      BY <2>1, SMT
    <3> QED
      BY <1>1, <1>2, <1>7, <3>1
  <2>3. \A d \in Crosses : state'[d] \in {0, 1}
    BY <1>2, <1>3, <1>5, <2>1
  <2> QED
    BY <2>2, <2>3 DEF StateOK
<1>9. DoorsTrue'
  <2>1. ASSUME NEW j \in Doors, DoorZone[j] = DoorZone[Linked[j]]
        PROVE  state'[j] = state'[Linked[j]]
    <3>1. state[j] = state[Linked[j]]
      BY <2>1 DEF DInv, DoorsTrue
    <3>2. Linked[j] \in Doors /\ Linked[Linked[j]] = j /\ j # c /\ Linked[j] # c
      BY DoorFacts
    <3>3. CASE j = Hole
      BY <1>5, <3>1, <3>3
    <3>4. CASE j = Linked[Hole]
      <4>1. Linked[j] = Hole
        BY <3>4, DoorFacts
      <4> QED
        BY <1>5, <3>1, <3>4, <4>1
    <3>5. CASE j # Hole /\ j # Linked[Hole]
      <4>1. Linked[j] # Hole /\ Linked[j] # Linked[Hole]
        BY <3>2, <3>5, DoorFacts
      <4>2. j \in D \ {c, Hole, Linked[Hole]} /\ Linked[j] \in D \ {c, Hole, Linked[Hole]}
        BY <3>2, <3>5, <4>1
      <4> QED
        BY <1>5, <3>1, <4>2
    <3> QED
      BY <3>3, <3>4, <3>5
  <2>2. state'[Hole] = 0 <=> \A d \in Crosses : state'[d] = 0
    BY <1>3, <1>5, <1>7
  <2> QED
    BY <2>1, <2>2 DEF DoorsTrue
<1> QED
  BY <1>8, <1>9 DEF DInv

\* reset_object() in the zones that are reset: sides of one zone together, the hole
\* with the crosses.
LEMMA ResetKeeps == DInv /\ ResetZones => DInv'
<1> SUFFICES ASSUME DInv, ResetZones PROVE DInv'
  OBVIOUS
<1> DEFINE D == Doors \cup Crosses
<1>1. PICK zs : state' = StateAfterReset(zs)
  BY DEF ResetZones
<1>2. /\ state \in [D -> 0 .. 2]
      /\ \A c \in Crosses : state[c] \in {0, 1}
  BY DEF DInv, StateOK
<1>3. state' = [k \in D |-> IF ZoneOf(k) \in zs THEN StateReset[k] ELSE state[k]]
  BY <1>1, <1>2 DEF StateAfterReset
<1>4. StateOK'
  <2>1. state' \in [D -> 0 .. 2]
    BY <1>2, <1>3, ResetFacts
  <2>2. \A c \in Crosses : state'[c] \in {0, 1}
    BY <1>2, <1>3, ResetFacts
  <2> QED
    BY <2>1, <2>2 DEF StateOK
<1>5. /\ \A k \in Doors : ZoneOf(k) = DoorZone[k]
      /\ \A c \in Crosses : ZoneOf(c) = DoorZone[Hole]
  BY DoorFacts DEF ZoneOf
<1>6. DoorsTrue'
  <2>1. ASSUME NEW j \in Doors, DoorZone[j] = DoorZone[Linked[j]]
        PROVE  state'[j] = state'[Linked[j]]
    <3>1. state[j] = state[Linked[j]]
      BY <2>1 DEF DInv, DoorsTrue
    <3>2. Linked[j] \in Doors /\ ZoneOf(j) = ZoneOf(Linked[j])
      BY <1>5, <2>1, DoorFacts
    <3> QED
      BY <1>3, <3>1, <3>2, ResetFacts
  <2>2. state'[Hole] = 0 <=> \A c \in Crosses : state'[c] = 0
    <3>1. CASE DoorZone[Hole] \in zs
      <4>1. state'[Hole] = 1 /\ \A c \in Crosses : state'[c] = 1
        BY <1>3, <1>5, <3>1, ResetFacts, DoorFacts
      <4> QED
        BY <4>1, DoorFacts
    <3>2. CASE DoorZone[Hole] \notin zs
      <4>1. state'[Hole] = state[Hole] /\ \A c \in Crosses : state'[c] = state[c]
        BY <1>3, <1>5, <3>2, DoorFacts
      <4> QED
        BY <4>1 DEF DInv, DoorsTrue
    <3> QED
      BY <3>1, <3>2
  <2> QED
    BY <2>1, <2>2 DEF DoorsTrue
<1> QED
  BY <1>4, <1>6 DEF DInv

\* All others leave the doors alone.
LEMMA StepDoors == DInv /\ [Next]_vars => DInv'
<1> SUFFICES ASSUME DInv, [Next]_vars PROVE DInv'
  OBVIOUS
<1>1. CASE HandleDoor
  BY <1>1, HandleKeeps
<1>2. CASE PushCross
  BY <1>2, PushKeeps
<1>3. CASE ResetZones
  BY <1>3, ResetKeeps
<1>4. CASE Walk \/ Goto \/ Jump \/ MoveMob \/ Exits \/ CloneLocation \/ Store
           \/ DestructLocation \/ ResetWizZone \/ UNCHANGED vars
  <2>1. state' = state
    BY <1>4 DEF Walk, Goto, Jump, MoveMob, Exits, CloneLocation, Store, DestructLocation,
                ResetWizZone, vars
  <2> QED
    BY <2>1 DEF DInv, StateOK, DoorsTrue
<1> QED
  BY <1>1, <1>2, <1>3, <1>4 DEF Next

-----------------------------------------------------------------------------
\* Whatever doors, zones and rooms there are, the two sides of a door in one zone are
\* always in one state, and the hole is open exactly while both crosses are aside
\* (setobjstate(), pushcom(), reset_object()).
THEOREM DoorsCorrect == Spec => []DoorsTrue
<1>1. Init => DInv
  BY InitDoors
<1>2. DInv /\ [Next]_vars => DInv'
  BY StepDoors
<1>3. DInv => DoorsTrue
  BY DEF DInv
<1> QED
  BY <1>1, <1>2, <1>3, PTL DEF Spec

-----------------------------------------------------------------------------
(* Loops.                                                                  *)

\* Counting up from 0.
LEMMA LeastNat ==
  ASSUME NEW S \in SUBSET Nat, S # {}
  PROVE  \E x \in S : \A y \in S : x <= y
<1> DEFINE R == OpToRel(<, Nat)
<1>1. IsWellFoundedOn(R, Nat)
  BY NatLessThanWellFounded
<1>2. \A x, y \in Nat : x < y => <<x, y>> \in R
  BY DEF OpToRel
<1> HIDE DEF R
<1>3. PICK x \in S : \A y \in S : ~(<<y, x>> \in R)
  BY <1>1, WFMin
<1>4. \A y \in S : ~(y < x)
  BY <1>2, <1>3
<1> QED
  BY <1>3, <1>4

LEMMA UpTo ==
  ASSUME NEW m \in Nat, NEW T, 0 \in T, \A d \in 1 .. m : d - 1 \in T => d \in T
  PROVE  \A d \in 0 .. m : d \in T
<1> DEFINE Rest == {d \in 0 .. m : d \notin T}
<1>1. SUFFICES ASSUME Rest # {} PROVE FALSE
  OBVIOUS
<1>2. Rest \in SUBSET Nat
  OBVIOUS
<1>3. PICK d \in Rest : \A e \in Rest : d <= e
  <2> HIDE DEF Rest
  <2> QED
    BY <1>1, <1>2, LeastNat
<1>4. d \in 1 .. m /\ d \notin T
  BY <1>3
<1>5. d - 1 \notin Rest /\ d - 1 \in 0 .. m
  BY <1>3, <1>4
<1> QED
  BY <1>4, <1>5

\* A loop that stays in the set S has its values one after the other.
Steps(F, b, m, G) == F[0] = b /\ \A d \in 1 .. m : F[d] = G[d][F[d - 1]]

LEMMA LoopExists ==
  ASSUME NEW S, NEW b \in S, NEW m \in Nat, NEW G \in [1 .. m -> [S -> S]]
  PROVE  \E F \in [0 .. m -> S] : Steps(F, b, m, G)
<1> DEFINE T == {k \in 0 .. m : \E F \in [0 .. k -> S] : Steps(F, b, k, G)}
<1>1. 0 \in T
  <2> DEFINE F == [i \in 0 .. 0 |-> b]
  <2>1. F \in [0 .. 0 -> S] /\ Steps(F, b, 0, G)
    BY DEF Steps
  <2> QED
    BY <2>1
<1>2. ASSUME NEW k \in 1 .. m, k - 1 \in T
      PROVE  k \in T
  <2>1. PICK F \in [0 .. k - 1 -> S] : Steps(F, b, k - 1, G)
    BY <1>2
  <2> DEFINE F2 == [i \in 0 .. k |-> IF i = k THEN G[k][F[k - 1]] ELSE F[i]]
  <2>2. F[k - 1] \in S
    BY <2>1
  <2>3. G[k][F[k - 1]] \in S
    BY <2>2
  <2>4. F2 \in [0 .. k -> S]
    BY <2>1, <2>3
  <2>5. F2[0] = b
    BY <2>1 DEF Steps
  <2>6. ASSUME NEW d \in 1 .. k
        PROVE  F2[d] = G[d][F2[d - 1]]
    <3>1. CASE d = k
      BY <3>1
    <3>2. CASE d < k
      BY <2>1, <3>2 DEF Steps
    <3> QED
      BY <3>1, <3>2
  <2>7. Steps(F2, b, k, G)
    BY <2>5, <2>6 DEF Steps
  <2> QED
    BY <2>4, <2>7
<1>3. m \in T
  <2> HIDE DEF T
  <2>1. \A d \in 0 .. m : d \in T
    BY <1>1, <1>2, UpTo
  <2> QED
    BY <2>1
<1> QED
  BY <1>3

-----------------------------------------------------------------------------
(* One exit is set.                                                        *)

Others == Doors \cup {EX_SPECIAL}
Ends == (0 .. Most) \cup Others           \* what may stand in an exit
Keys(c) == (-Most .. c - 1) \cup Others    \* and in the reset of one
Room(c) ==
  [id : 1 .. c - 1, temp : BOOLEAN, touched : BOOLEAN,
   exit : [Dirs -> Ends], reset : [Dirs -> Keys(c)], toMe : SUBSET (1 .. Most)]
World(m, c) == [1 .. m -> Room(c)]

\* What no exit changes.
Same(v, w, m) ==
  \A i \in 1 .. m : v[i].id = w[i].id /\ v[i].temp = w[i].temp /\ v[i].reset = w[i].reset

\* setexit(): what it leaves in each room.
Only(w, r, d) == \A e \in Dirs : w[r].exit[e] = w[r].exit[d] => e = d
Leaves(w, n, r, d, i) == i = w[r].exit[d] /\ Within(i, n) /\ Only(w, r, d)
AfterSet(v, w, m, n, r, d, x) ==
  /\ Same(v, w, m)
  /\ \A i \in 1 .. m :
       /\ i # r => v[i].exit = w[i].exit /\ v[i].touched = w[i].touched
       /\ \A s :
            s \in v[i].toMe <=> IF s # r THEN s \in w[i].toMe
                                ELSE \/ s \in w[i].toMe /\ ~Leaves(w, n, r, d, i)
                                     \/ i = x /\ Within(x, n)
  /\ v[r].exit = [w[r].exit EXCEPT ![d] = x] /\ v[r].touched

LEMMA SetExitIs ==
  ASSUME NEW m \in Nat, m <= Most, NEW c \in Nat, NEW n \in 0 .. m, NEW w \in World(m, c),
         NEW r \in 1 .. m, NEW d \in Dirs, NEW x \in Ends
  PROVE  /\ SetExit(w, n, r, d, x) \in World(m, c)
         /\ AfterSet(SetExit(w, n, r, d, x), w, m, n, r, d, x)
<1> DEFINE o == w[r].exit[d]
           w1 == IF Within(o, n) /\ Only(w, r, d) THEN [w EXCEPT ![o].toMe = @ \ {r}] ELSE w
           w2 == IF Within(x, n) THEN [w1 EXCEPT ![x].toMe = @ \cup {r}] ELSE w1
           w3 == [w2 EXCEPT ![r].exit[d] = x]
           v == [w3 EXCEPT ![r].touched = TRUE]
<1>1. SetExit(w, n, r, d, x) = [w2 EXCEPT ![r].exit[d] = x, ![r].touched = TRUE]
  BY DEF SetExit, Only
<1>2. SetExit(w, n, r, d, x) = v
  BY <1>1
<1>3. \A y : Within(y, n) => y \in 1 .. m
  BY DEF Within
<1>4. w \in [1 .. m -> Room(c)]
  BY DEF World
<1>5. /\ w1 \in [1 .. m -> Room(c)]
      /\ \A i \in 1 .. m :
           w1[i] = IF Leaves(w, n, r, d, i) THEN [w[i] EXCEPT !.toMe = @ \ {r}] ELSE w[i]
  <2>1. CASE Within(o, n) /\ Only(w, r, d)
    <3>1. w[o] \in Room(c) /\ o \in 1 .. m
      BY <1>3, <1>4, <2>1
    <3>2. [w[o] EXCEPT !.toMe = @ \ {r}] \in Room(c)
      BY <3>1 DEF Room
    <3>3. w1 = [w EXCEPT ![o] = [w[o] EXCEPT !.toMe = @ \ {r}]]
      BY <2>1
    <3> HIDE DEF w1
    <3>4. w1 \in [1 .. m -> Room(c)]
      BY <3>2, <3>3, <1>4
    <3>5. \A i \in 1 .. m : Leaves(w, n, r, d, i) <=> i = o
      BY <2>1 DEF Leaves
    <3> QED
      BY <3>1, <3>3, <3>4, <3>5, <1>4
  <2>2. CASE ~(Within(o, n) /\ Only(w, r, d))
    BY <1>4, <2>2 DEF Leaves
  <2> QED
    BY <2>1, <2>2
<1> HIDE DEF w1
<1>6. /\ w2 \in [1 .. m -> Room(c)]
      /\ \A i \in 1 .. m :
           w2[i] = IF i = x /\ Within(x, n) THEN [w1[i] EXCEPT !.toMe = @ \cup {r}] ELSE w1[i]
  <2>1. CASE Within(x, n)
    <3>1. w1[x] \in Room(c) /\ x \in 1 .. m
      BY <1>3, <1>5, <2>1
    <3>2. [w1[x] EXCEPT !.toMe = @ \cup {r}] \in Room(c)
      <4>1. r \in 1 .. Most
        BY RoomsAssumption
      <4> QED
        BY <3>1, <4>1 DEF Room
    <3>3. w2 = [w1 EXCEPT ![x] = [w1[x] EXCEPT !.toMe = @ \cup {r}]]
      BY <2>1
    <3> HIDE DEF w2
    <3>4. w2 \in [1 .. m -> Room(c)]
      BY <3>2, <3>3, <1>5
    <3> QED
      BY <3>1, <3>3, <3>4, <1>5, <2>1
  <2>2. CASE ~Within(x, n)
    BY <1>5, <2>2
  <2> QED
    BY <2>1, <2>2
<1> HIDE DEF w2
<1>7. /\ w3 \in [1 .. m -> Room(c)]
      /\ \A i \in 1 .. m : w3[i] = IF i = r THEN [w2[i] EXCEPT !.exit[d] = x] ELSE w2[i]
  <2>1. w2[r] \in Room(c)
    BY <1>6
  <2>2. [w2[r].exit EXCEPT ![d] = x] \in [Dirs -> Ends]
    <3>1. w2[r].exit \in [Dirs -> Ends]
      BY <2>1 DEF Room
    <3> QED
      BY <3>1
  <2>3. [w2[r] EXCEPT !.exit[d] = x] \in Room(c)
    BY <2>1, <2>2 DEF Room
  <2> QED
    BY <1>6, <2>3
<1> HIDE DEF w3
<1>8. /\ v \in [1 .. m -> Room(c)]
      /\ \A i \in 1 .. m : v[i] = IF i = r THEN [w3[i] EXCEPT !.touched = TRUE] ELSE w3[i]
  <2>1. w3[r] \in Room(c)
    BY <1>7
  <2>2. [w3[r] EXCEPT !.touched = TRUE] \in Room(c)
    BY <2>1 DEF Room
  <2> QED
    BY <1>7, <2>2
<1> HIDE DEF v
<1>9. ASSUME NEW i \in 1 .. m
      PROVE  /\ v[i].id = w[i].id /\ v[i].temp = w[i].temp /\ v[i].reset = w[i].reset
             /\ v[i].touched = IF i = r THEN TRUE ELSE w[i].touched
             /\ v[i].exit = IF i = r THEN [w[i].exit EXCEPT ![d] = x] ELSE w[i].exit
             /\ v[i].toMe =
                  (IF Leaves(w, n, r, d, i) THEN w[i].toMe \ {r} ELSE w[i].toMe)
                    \cup (IF i = x /\ Within(x, n) THEN {r} ELSE {})
  <2>1. /\ w1[i].id = w[i].id /\ w1[i].temp = w[i].temp /\ w1[i].reset = w[i].reset
        /\ w1[i].touched = w[i].touched /\ w1[i].exit = w[i].exit
        /\ w1[i].toMe = IF Leaves(w, n, r, d, i) THEN w[i].toMe \ {r} ELSE w[i].toMe
    <3>1. w[i] \in Room(c)
      BY <1>4
    <3> QED
      BY <1>5, <3>1 DEF Room
  <2>2. /\ w2[i].id = w1[i].id /\ w2[i].temp = w1[i].temp /\ w2[i].reset = w1[i].reset
        /\ w2[i].touched = w1[i].touched /\ w2[i].exit = w1[i].exit
        /\ w2[i].toMe = IF i = x /\ Within(x, n) THEN w1[i].toMe \cup {r} ELSE w1[i].toMe
    <3>1. w1[i] \in Room(c)
      BY <1>5
    <3> QED
      BY <1>6, <3>1 DEF Room
  <2>3. /\ w3[i].id = w2[i].id /\ w3[i].temp = w2[i].temp /\ w3[i].reset = w2[i].reset
        /\ w3[i].touched = w2[i].touched /\ w3[i].toMe = w2[i].toMe
        /\ w3[i].exit = IF i = r THEN [w2[i].exit EXCEPT ![d] = x] ELSE w2[i].exit
    <3>1. w2[i] \in Room(c)
      BY <1>6
    <3> QED
      BY <1>7, <3>1 DEF Room
  <2>4. /\ v[i].id = w3[i].id /\ v[i].temp = w3[i].temp /\ v[i].reset = w3[i].reset
        /\ v[i].touched = IF i = r THEN TRUE ELSE w3[i].touched
        /\ v[i].exit = w3[i].exit /\ v[i].toMe = w3[i].toMe
    <3>1. w3[i] \in Room(c)
      BY <1>7
    <3> QED
      BY <1>8, <3>1 DEF Room
  <2>5. v[i].exit = IF i = r THEN [w[i].exit EXCEPT ![d] = x] ELSE w[i].exit
    BY <2>1, <2>2, <2>3, <2>4
  <2>6. v[i].touched = IF i = r THEN TRUE ELSE w[i].touched
    BY <2>1, <2>2, <2>3, <2>4
  <2>7. v[i].toMe =
          (IF Leaves(w, n, r, d, i) THEN w[i].toMe \ {r} ELSE w[i].toMe)
            \cup (IF i = x /\ Within(x, n) THEN {r} ELSE {})
    BY <2>1, <2>2, <2>3, <2>4
  <2> QED
    BY <2>1, <2>2, <2>3, <2>4, <2>5, <2>6, <2>7
<1>10. AfterSet(v, w, m, n, r, d, x)
  <2>1. Same(v, w, m)
    BY <1>9 DEF Same
  <2>2. ASSUME NEW i \in 1 .. m, NEW s
        PROVE  s \in v[i].toMe <=> IF s # r THEN s \in w[i].toMe
                                   ELSE \/ s \in w[i].toMe /\ ~Leaves(w, n, r, d, i)
                                        \/ i = x /\ Within(x, n)
    <3>1. v[i].toMe =
            (IF Leaves(w, n, r, d, i) THEN w[i].toMe \ {r} ELSE w[i].toMe)
              \cup (IF i = x /\ Within(x, n) THEN {r} ELSE {})
      BY <1>9
    <3> QED
      BY <3>1
  <2>3. \A i \in 1 .. m : i # r => v[i].touched = w[i].touched
    BY <1>9
  <2>4. \A i \in 1 .. m : i # r => v[i].exit = w[i].exit
    BY <1>9
  <2>5. v[r].exit = [w[r].exit EXCEPT ![d] = x] /\ v[r].touched
    BY <1>9
  <2> QED
    BY <2>1, <2>2, <2>3, <2>4, <2>5 DEF AfterSet
<1> QED
  BY <1>2, <1>8, <1>10 DEF World

-----------------------------------------------------------------------------
(* Some exits of a room are set, one after the other.                      *)

\* The rooms after each of the directions that SetExits goes through.
Through(F, w, n, r, ds, f) ==
  /\ F[0] = w /\ F[NEXITS] = SetExits(w, n, r, ds, f)
  /\ \A d \in Dirs : F[d] = IF d \in ds THEN SetExit(F[d - 1], n, r, d, f[d]) ELSE F[d - 1]

LEMMA ExitsOneByOne ==
  ASSUME NEW m \in Nat, m <= Most, NEW c \in Nat, NEW n \in 0 .. m, NEW w \in World(m, c),
         NEW r \in 1 .. m, NEW ds \in SUBSET Dirs, NEW f \in [Dirs -> Ends]
  PROVE  \E F \in [0 .. NEXITS -> World(m, c)] : Through(F, w, n, r, ds, f)
<1> DEFINE S == World(m, c)
           Do(v, d) == IF d \in ds THEN SetExit(v, n, r, d, f[d]) ELSE v
           G == [d \in 1 .. NEXITS |-> [v \in S |-> Do(v, d)]]
           h == CHOOSE h : h = [i \in 0 .. NEXITS |-> IF i = 0 THEN w ELSE
                             IF i \in ds THEN SetExit(h[i - 1], n, r, i, f[i]) ELSE h[i - 1]]
<1>1. NEXITS \in Nat
  BY RoomsAssumption
<1>2. \A v \in S, d \in 1 .. NEXITS : Do(v, d) \in S
  <2> SUFFICES ASSUME NEW v \in S, NEW d \in 1 .. NEXITS PROVE Do(v, d) \in S
    OBVIOUS
  <2>1. d \in Dirs /\ f[d] \in Ends
    BY DEF Dirs
  <2>2. SetExit(v, n, r, d, f[d]) \in S
    BY <2>1, SetExitIs
  <2> QED
    BY <2>2
<1>3. SetExits(w, n, r, ds, f) = h[NEXITS]
  BY DEF SetExits, Loop
<1>4. \E F \in [0 .. NEXITS -> S] : Steps(F, w, NEXITS, G)
  <2>1. G \in [1 .. NEXITS -> [S -> S]]
    BY <1>2
  <2>2. w \in S
    OBVIOUS
  <2> HIDE DEF G, S
  <2> QED
    BY <1>1, <2>1, <2>2, LoopExists
<1>5. PICK F \in [0 .. NEXITS -> S] : Steps(F, w, NEXITS, G)
  BY <1>4
<1>6. F[0] = w /\ \A d \in 1 .. NEXITS : F[d] = Do(F[d - 1], d)
  <2>1. ASSUME NEW d \in 1 .. NEXITS PROVE F[d] = Do(F[d - 1], d)
    <3>1. F[d - 1] \in S
      BY <1>1, <1>5
    <3>2. F[d] = G[d][F[d - 1]]
      BY <1>5 DEF Steps
    <3> QED
      BY <3>1, <3>2
  <2> QED
    BY <1>5, <2>1 DEF Steps
<1>7. F = [i \in 0 .. NEXITS |-> IF i = 0 THEN w ELSE
             IF i \in ds THEN SetExit(F[i - 1], n, r, i, f[i]) ELSE F[i - 1]]
  BY <1>1, <1>5, <1>6
<1>8. h = [i \in 0 .. NEXITS |-> IF i = 0 THEN w ELSE
             IF i \in ds THEN SetExit(h[i - 1], n, r, i, f[i]) ELSE h[i - 1]]
  BY <1>7
<1> HIDE DEF h
<1>9. \A i \in 0 .. NEXITS : h[i] = F[i]
  <2> DEFINE T == {i \in 0 .. NEXITS : h[i] = F[i]}
  <2>1. 0 \in T
    BY <1>1, <1>6, <1>8
  <2>2. ASSUME NEW d \in 1 .. NEXITS, d - 1 \in T PROVE d \in T
    BY <1>1, <1>6, <1>8, <2>2
  <2> HIDE DEF T
  <2>3. \A d \in 0 .. NEXITS : d \in T
    BY <1>1, <2>1, <2>2, UpTo
  <2> QED
    BY <2>3 DEF T
<1>10. F[NEXITS] = SetExits(w, n, r, ds, f)
  BY <1>1, <1>3, <1>9
<1>11. Through(F, w, n, r, ds, f)
  BY <1>6, <1>10 DEF Through, Dirs
<1> QED
  BY <1>5, <1>11
\* Every room has told those that its exits lead to, of the first n, but for the rooms of
\* gone; those but the ones of bad were told by rooms with an exit to them only; and nobody
\* tells a room that is beyond the n.
Told(w, m, n, gone) ==
  \A i \in 1 .. m : i \notin gone =>
    \A d \in Dirs : w[i].exit[d] \in 1 .. Most =>
      w[i].exit[d] \in 1 .. n /\ i \in w[w[i].exit[d]].toMe
Meant(w, m, n, bad) ==
  \A q \in 1 .. n : q \notin bad => \A i \in w[q].toMe : i \in 1 .. m /\ LeadsTo(w, i, q)
Fresh(w, m, n) == \A q \in 1 .. m : q > n => w[q].toMe = {}
Known(w, m, n, gone, bad) == Told(w, m, n, gone) /\ Meant(w, m, n, bad) /\ Fresh(w, m, n)

\* Numbers of rooms and of doors are different.
LEMMA EndFacts ==
  /\ Most \in Nat /\ Most < DOOR /\ DOOR = 100
  /\ \A x \in Others : x \in Nat /\ x >= DOOR /\ x \notin 1 .. Most /\ x # 0
  /\ \A x \in Ends : x = 0 \/ x \in 1 .. Most \/ x \in Others
<1>1. Most \in Nat /\ Most < DOOR /\ DOOR = 100
  BY RoomsAssumption DEF DOOR
<1>2. \A x \in Others : x \in Nat /\ x >= DOOR
  BY DoorsAssumption DEF Others, DOOR, EX_SPECIAL
<1>3. \A x \in Others : x \notin 1 .. Most /\ x # 0
  BY <1>1, <1>2
<1>4. \A x \in Ends : x = 0 \/ x \in 1 .. Most \/ x \in Others
  BY <1>1 DEF Ends
<1> QED
  BY <1>1, <1>2, <1>3, <1>4

\* setexit() keeps that, when the exit is to a room that exists, or of a room of gone.
LEMMA SetExitKnown ==
  ASSUME NEW m \in Nat, m <= Most, NEW c \in Nat, NEW n \in 0 .. m, NEW w \in World(m, c),
         NEW gone, NEW bad, Known(w, m, n, gone, bad),
         NEW r \in 1 .. m, NEW d \in Dirs, NEW x, r \in gone \/ x \in (0 .. n) \cup Others,
         NEW v, AfterSet(v, w, m, n, r, d, x)
  PROVE  Known(v, m, n, gone, bad)
<1>1. w[r].exit \in [Dirs -> Ends]
  BY DEF World, Room
<1>2. v[r].exit = [w[r].exit EXCEPT ![d] = x]
  BY DEF AfterSet
<1>3. \A e \in Dirs : v[r].exit[e] = IF e = d THEN x ELSE w[r].exit[e]
  BY <1>1, <1>2
<1>4. \A i \in 1 .. m : i # r => v[i].exit = w[i].exit
  BY DEF AfterSet
<1>5. ASSUME NEW q \in 1 .. m, NEW s
      PROVE  s \in v[q].toMe <=> IF s # r THEN s \in w[q].toMe
                                 ELSE \/ s \in w[q].toMe /\ ~Leaves(w, n, r, d, q)
                                      \/ q = x /\ Within(x, n)
  BY DEF AfterSet
<1>6. /\ Told(w, m, n, gone) /\ Meant(w, m, n, bad) /\ Fresh(w, m, n)
      /\ \A q \in 1 .. n : q \in 1 .. m
  BY DEF Known
<1>7. Told(v, m, n, gone)
  <2> SUFFICES ASSUME NEW i \in 1 .. m, i \notin gone, NEW e \in Dirs,
                      v[i].exit[e] \in 1 .. Most
               PROVE  v[i].exit[e] \in 1 .. n /\ i \in v[v[i].exit[e]].toMe
    BY DEF Told
  <2> DEFINE y == v[i].exit[e]
  <2>1. CASE i # r
    <3>1. y = w[i].exit[e]
      BY <1>4, <2>1
    <3>2. y \in 1 .. n /\ i \in w[y].toMe
      BY <1>6, <3>1 DEF Told
    <3> HIDE DEF y
    <3>3. i \in v[y].toMe
      BY <1>5, <1>6, <2>1, <3>2
    <3> QED
      BY <3>2, <3>3 DEF y
  <2>2. CASE i = r /\ e = d
    <3>1. y = x
      BY <1>3, <2>2
    <3>2. x \in (0 .. n) \cup Others /\ x \in 1 .. Most
      BY <2>2, <3>1
    <3>3. x \in 1 .. n
      BY <3>2, EndFacts
    <3>4. r \in v[x].toMe
      BY <1>5, <1>6, <3>3 DEF Within
    <3> QED
      BY <2>2, <3>1, <3>3, <3>4
  <2>3. CASE i = r /\ e # d
    <3>1. y = w[r].exit[e]
      BY <1>3, <2>3
    <3>2. y \in 1 .. n /\ r \in w[y].toMe
      BY <1>6, <2>3, <3>1 DEF Told
    <3>3. ~Leaves(w, n, r, d, y)
      BY <2>3, <3>1 DEF Leaves, Only
    <3> HIDE DEF y
    <3>4. r \in v[y].toMe
      BY <1>5, <1>6, <3>2, <3>3
    <3> QED
      BY <2>3, <3>2, <3>4 DEF y
  <2> QED
    BY <2>1, <2>2, <2>3
<1>8. Meant(v, m, n, bad)
  <2> SUFFICES ASSUME NEW q \in 1 .. n, q \notin bad, NEW i \in v[q].toMe
               PROVE  i \in 1 .. m /\ LeadsTo(v, i, q)
    BY DEF Meant
  <2>1. CASE i # r
    <3>1. i \in w[q].toMe
      BY <1>5, <1>6, <2>1
    <3>2. i \in 1 .. m /\ LeadsTo(w, i, q)
      BY <1>6, <3>1 DEF Meant
    <3> QED
      BY <1>4, <2>1, <3>2 DEF LeadsTo
  <2>2. CASE i = r /\ q = x
    BY <1>3, <2>2 DEF LeadsTo
  <2>3. CASE i = r /\ q # x
    <3>1. r \in w[q].toMe /\ ~Leaves(w, n, r, d, q)
      BY <1>5, <1>6, <2>3
    <3>2. PICK e \in Dirs : w[r].exit[e] = q
      BY <1>6, <3>1 DEF Meant, LeadsTo
    <3>3. CASE e # d
      BY <1>3, <2>3, <3>2, <3>3 DEF LeadsTo
    <3>4. CASE e = d
      <4>1. ~Only(w, r, d)
        BY <3>1, <3>2, <3>4 DEF Leaves, Within
      <4>2. PICK g \in Dirs : w[r].exit[g] = q /\ g # d
        BY <3>2, <3>4, <4>1 DEF Only
      <4> QED
        BY <1>3, <2>3, <4>2 DEF LeadsTo
    <3> QED
      BY <3>3, <3>4
  <2> QED
    BY <2>1, <2>2, <2>3
<1>9. Fresh(v, m, n)
  <2> SUFFICES ASSUME NEW q \in 1 .. m, q > n PROVE v[q].toMe = {}
    BY DEF Fresh
  <2>1. w[q].toMe = {}
    BY <1>6 DEF Fresh
  <2>2. ~Within(q, n)
    BY DEF Within
  <2>3. \A s : s \notin v[q].toMe
    BY <1>5, <2>1, <2>2
  <2> QED
    BY <2>3
<1> QED
  BY <1>7, <1>8, <1>9 DEF Known

\* What is different when the exits ds of the room r are set, and what is not.
ExitsSet(v, w, m, r, ds, f) ==
  /\ Same(v, w, m)
  /\ \A i \in 1 .. m : i # r => v[i].exit = w[i].exit /\ v[i].touched = w[i].touched
  /\ \A d \in Dirs : v[r].exit[d] = IF d \in ds THEN f[d] ELSE w[r].exit[d]
  /\ v[r].touched \/ (~w[r].touched /\ v[r].exit = w[r].exit)
\* The rooms that the exits ds lead to were told.
Reached(v, n, r, ds, f) == \A d \in ds : Within(f[d], n) => r \in v[f[d]].toMe

LEMMA SetExitsIs ==
  ASSUME NEW m \in Nat, m <= Most, NEW c \in Nat, NEW n \in 0 .. m, NEW w \in World(m, c),
         NEW gone, NEW bad, Known(w, m, n, gone, bad),
         NEW r \in 1 .. m, NEW ds \in SUBSET Dirs, NEW f \in [Dirs -> Ends],
         r \in gone \/ \A d \in ds : f[d] \in (0 .. n) \cup Others
  PROVE  /\ SetExits(w, n, r, ds, f) \in World(m, c)
         /\ Known(SetExits(w, n, r, ds, f), m, n, gone, bad)
         /\ ExitsSet(SetExits(w, n, r, ds, f), w, m, r, ds, f)
         /\ Reached(SetExits(w, n, r, ds, f), n, r, ds, f)
<1>1. PICK F \in [0 .. NEXITS -> World(m, c)] : Through(F, w, n, r, ds, f)
  BY ExitsOneByOne
<1>2. NEXITS \in Nat
  BY RoomsAssumption
<1> DEFINE Good(v, es) == /\ Known(v, m, n, gone, bad)
                          /\ ExitsSet(v, w, m, r, es, f)
                          /\ Reached(v, n, r, es, f)
           T == {k \in 0 .. NEXITS : Good(F[k], ds \cap (1 .. k))}
<1>3. 0 \in T
  <2>1. F[0] = w /\ ds \cap (1 .. 0) = {}
    BY <1>1 DEF Through
  <2>2. ExitsSet(w, w, m, r, {}, f) /\ Reached(w, n, r, {}, f)
    BY DEF ExitsSet, Same, Reached
  <2> QED
    BY <1>2, <2>1, <2>2
<1>4. ASSUME NEW d \in 1 .. NEXITS, d - 1 \in T PROVE d \in T
  <2>1. /\ F[d - 1] \in World(m, c) /\ F[d] \in World(m, c) /\ d \in Dirs
        /\ F[d] = IF d \in ds THEN SetExit(F[d - 1], n, r, d, f[d]) ELSE F[d - 1]
    BY <1>1, <1>2 DEF Through, Dirs
  <2> DEFINE u == F[d - 1]
             v == F[d]
             old == ds \cap (1 .. d - 1)
             new == ds \cap (1 .. d)
  <2>2. Known(u, m, n, gone, bad) /\ ExitsSet(u, w, m, r, old, f) /\ Reached(u, n, r, old, f)
    BY <1>4
  <2>3. CASE d \notin ds
    <3>1. v = u /\ new = old
      BY <2>1, <2>3
    <3> HIDE DEF u, v, old, new
    <3>2. Good(v, new)
      BY <2>2, <3>1
    <3> QED
      BY <3>2 DEF v, new
  <2>4. CASE d \in ds
    <3>1. AfterSet(v, u, m, n, r, d, f[d])
      <4>1. f[d] \in Ends
        BY <2>1
      <4> QED
        BY <2>1, <2>4, <4>1, SetExitIs
    <3> HIDE DEF u, v
    <3>2. u \in World(m, c)
      BY <2>1 DEF u
    <3>3. Known(v, m, n, gone, bad)
      <4>1. r \in gone \/ f[d] \in (0 .. n) \cup Others
        BY <2>4
      <4> QED
        BY <2>1, <2>2, <3>1, <3>2, <4>1, SetExitKnown
    <3>4. Same(v, w, m)
      BY <2>2, <3>1 DEF AfterSet, ExitsSet, Same
    <3>5. \A i \in 1 .. m : i # r => v[i].exit = w[i].exit /\ v[i].touched = w[i].touched
      BY <2>2, <3>1 DEF AfterSet, ExitsSet
    <3>6. v[r].touched
      BY <3>1 DEF AfterSet
    <3>7. \A e \in Dirs : e \in new <=> e = d \/ e \in old
      BY <1>2, <2>4 DEF Dirs
    <3>8. \A e \in old : e \in Dirs /\ e # d
      BY <1>2 DEF Dirs
    <3> HIDE DEF old, new
    <3>9. \A e \in Dirs : u[r].exit[e] = IF e \in old THEN f[e] ELSE w[r].exit[e]
      BY <2>2 DEF ExitsSet
    <3>10. \A e \in Dirs : v[r].exit[e] = IF e \in new THEN f[e] ELSE w[r].exit[e]
      <4>1. u[r].exit \in [Dirs -> Ends]
        BY <3>2 DEF World, Room
      <4>2. v[r].exit = [u[r].exit EXCEPT ![d] = f[d]]
        BY <3>1 DEF AfterSet
      <4>3. \A e \in Dirs : v[r].exit[e] = IF e = d THEN f[d] ELSE u[r].exit[e]
        BY <4>1, <4>2
      <4> QED
        BY <2>1, <3>7, <3>9, <4>3
    <3>11. ExitsSet(v, w, m, r, new, f)
      BY <3>4, <3>5, <3>6, <3>10 DEF ExitsSet
    <3>12. ASSUME NEW e \in new, Within(f[e], n) PROVE r \in v[f[e]].toMe
      <4> DEFINE y == f[e]
      <4>1. y \in 1 .. m
        BY <3>12 DEF Within
      <4>2. e \in Dirs
        BY DEF new
      <4>3. r \in v[y].toMe <=> \/ r \in u[y].toMe /\ ~Leaves(u, n, r, d, y)
                                \/ y = f[d] /\ Within(f[d], n)
        <5> HIDE DEF y
        <5> QED
          BY <3>1, <4>1 DEF AfterSet
      <4>4. CASE e = d
        BY <3>12, <4>3, <4>4
      <4>5. CASE e # d
        <5>1. e \in old
          BY <3>7, <4>2, <4>5
        <5>2. r \in u[y].toMe
          BY <2>2, <3>12, <5>1 DEF Reached
        <5>3. u[r].exit[e] = y
          BY <3>9, <4>2, <5>1
        <5>4. ~Leaves(u, n, r, d, y)
          BY <4>2, <4>5, <5>3 DEF Leaves, Only
        <5> QED
          BY <4>3, <5>2, <5>4
      <4> QED
        BY <4>4, <4>5
    <3>13. Reached(v, n, r, new, f)
      BY <3>12 DEF Reached
    <3>14. Good(v, new)
      BY <3>3, <3>11, <3>13
    <3> QED
      BY <3>14 DEF v, new
  <2> QED
    BY <2>3, <2>4
<1>5. NEXITS \in T
  <2> HIDE DEF T
  <2>1. \A d \in 0 .. NEXITS : d \in T
    BY <1>2, <1>3, <1>4, UpTo
  <2> QED
    BY <1>2, <2>1
<1>6. ds \cap (1 .. NEXITS) = ds
  BY DEF Dirs
<1>7. F[NEXITS] = SetExits(w, n, r, ds, f) /\ F[NEXITS] \in World(m, c)
  BY <1>1, <1>2 DEF Through
<1> QED
  BY <1>5, <1>6, <1>7

\* A copy that is not known to anybody yet: setting its exits to what they are makes it
\* known, when they lead to rooms that exist.
CopyMade(v, w, m) ==
  /\ Same(v, w, m)
  /\ \A i \in 1 .. m : \A d \in Dirs : v[i].exit[d] = w[i].exit[d]
  /\ \A i \in 1 .. m - 1 : v[i].touched = w[i].touched
  /\ v[m].touched \/ ~w[m].touched

LEMMA CopyKnown ==
  ASSUME NEW m \in Nat \ {0}, m <= Most, NEW c \in Nat, NEW w \in World(m, c),
         NEW gone, NEW gone2, NEW bad, Known(w, m, m - 1, gone \cup {m}, bad),
         \A i : i \notin gone2 => i \notin gone,
         m \in gone2 \/ \A d \in Dirs : w[m].exit[d] \in 1 .. Most => w[m].exit[d] \in 1 .. m - 1
  PROVE  /\ SetExits(w, m - 1, m, Dirs, w[m].exit) \in World(m, c)
         /\ Known(SetExits(w, m - 1, m, Dirs, w[m].exit), m, m, gone2, bad)
         /\ CopyMade(SetExits(w, m - 1, m, Dirs, w[m].exit), w, m)
<1> DEFINE n == m - 1
           f == w[m].exit
           v == SetExits(w, n, m, Dirs, f)
           lost2 == gone \cup {m}
<1>1. m \in 1 .. m /\ n \in 0 .. m /\ Dirs \in SUBSET Dirs /\ f \in [Dirs -> Ends]
  BY DEF World, Room
<1>2. /\ v \in World(m, c) /\ Known(v, m, n, lost2, bad)
      /\ ExitsSet(v, w, m, m, Dirs, f) /\ Reached(v, n, m, Dirs, f)
  <2>1. m \in lost2 /\ Known(w, m, n, lost2, bad)
    OBVIOUS
  <2> HIDE DEF n, f, lost2
  <2> QED
    BY <1>1, <2>1, SetExitsIs
<1> HIDE DEF v
<1>3. \A d \in Dirs : v[m].exit[d] = w[m].exit[d]
  BY <1>2 DEF ExitsSet
<1>4. CopyMade(v, w, m)
  <2>1. \A i \in 1 .. m - 1 : i \in 1 .. m /\ i # m
    OBVIOUS
  <2>2. \A i \in 1 .. m : \A d \in Dirs : v[i].exit[d] = w[i].exit[d]
    BY <1>2, <1>3 DEF ExitsSet
  <2> QED
    BY <1>2, <2>1, <2>2 DEF CopyMade, ExitsSet
<1>5. Told(v, m, m, gone2)
  <2> SUFFICES ASSUME NEW i \in 1 .. m, i \notin gone2, NEW d \in Dirs,
                      v[i].exit[d] \in 1 .. Most
               PROVE  v[i].exit[d] \in 1 .. m /\ i \in v[v[i].exit[d]].toMe
    BY DEF Told
  <2>1. CASE i # m
    <3>1. i \notin lost2
      BY <2>1
    <3>2. v[i].exit[d] \in 1 .. n /\ i \in v[v[i].exit[d]].toMe
      BY <1>2, <3>1 DEF Known, Told
    <3> QED
      BY <3>2
  <2>2. CASE i = m
    <3>1. f[d] \in 1 .. n
      BY <1>3, <2>2
    <3>2. m \in v[f[d]].toMe
      BY <1>2, <3>1 DEF Reached, Within
    <3>3. v[m].exit[d] = f[d]
      BY <1>3
    <3> HIDE DEF f
    <3> QED
      BY <2>2, <3>1, <3>2, <3>3
  <2> QED
    BY <2>1, <2>2
<1>6. Meant(v, m, m, bad) /\ Fresh(v, m, m)
  <2>1. v[m].toMe = {}
    BY <1>1, <1>2 DEF Known, Fresh
  <2>2. ASSUME NEW q \in 1 .. m, q \notin bad, NEW i \in v[q].toMe
        PROVE  i \in 1 .. m /\ LeadsTo(v, i, q)
    <3>1. q \in 1 .. n
      BY <2>1, <2>2
    <3> QED
      BY <1>2, <2>2, <3>1 DEF Known, Meant
  <2> QED
    BY <2>2 DEF Meant, Fresh
<1> QED
  BY <1>2, <1>4, <1>5, <1>6 DEF v, Known

LEMMA WorldLen ==
  ASSUME NEW m \in Nat, NEW c, NEW w \in World(m, c)
  PROVE  w \in Seq(Room(c)) /\ Len(w) = m /\ DOMAIN w = 1 .. m
<1>1. w \in [1 .. m -> Room(c)]
  BY DEF World
<1> DEFINE S == Room(c)
<1> HIDE DEF S
<1>2. w \in Seq(S)
  BY <1>1, SeqDef DEF S
<1>3. Len(w) \in Nat /\ DOMAIN w = 1 .. Len(w)
  BY <1>2, LenProperties
<1>4. Len(w) = m
  BY <1>1, <1>3
<1> QED
  BY <1>1, <1>2, <1>4 DEF S

-----------------------------------------------------------------------------
(* IDs.                                                                    *)

Unique(w, m) == \A i, j \in 1 .. m : w[i].id = w[j].id => i = j

LEMMA FindSame ==
  ASSUME NEW m \in Nat, NEW c, NEW w \in World(m, c), NEW v \in World(m, c),
         \A i \in 1 .. m : v[i].id = w[i].id, NEW x
  PROVE  FindLoc(v, x) = FindLoc(w, x) /\ ResetValue(v, x) = ResetValue(w, x)
<1>1. DOMAIN v = DOMAIN w /\ \A r \in DOMAIN w : v[r].id = w[r].id
  BY DEF World
<1> DEFINE a == {r \in DOMAIN v : v[r].id = x}
           b == {r \in DOMAIN w : w[r].id = x}
<1>2. a = b
  BY <1>1
<1>3. FindLoc(v, x) = FindLoc(w, x)
  <2>1. FindLoc(v, x) = IF a = {} THEN 0 ELSE CHOOSE r \in a : TRUE
    BY DEF FindLoc
  <2>2. FindLoc(w, x) = IF b = {} THEN 0 ELSE CHOOSE r \in b : TRUE
    BY DEF FindLoc
  <2> HIDE DEF a, b
  <2> QED
    BY <1>2, <2>1, <2>2
<1> QED
  BY <1>3 DEF ResetValue

LEMMA FindIs ==
  ASSUME NEW m \in Nat, NEW c, NEW w \in World(m, c), NEW x
  PROVE  /\ FindLoc(w, x) \in 0 .. m
         /\ FindLoc(w, x) # 0 => w[FindLoc(w, x)].id = x
         /\ FindLoc(w, x) = 0 => \A r \in 1 .. m : w[r].id # x
<1> DEFINE named == {r \in DOMAIN w : w[r].id = x}
<1>1. DOMAIN w = 1 .. m
  BY DEF World
<1>2. CASE named = {}
  BY <1>1, <1>2 DEF FindLoc
<1>3. CASE named # {}
  <2>1. FindLoc(w, x) = CHOOSE r \in named : TRUE
    BY <1>3 DEF FindLoc
  <2>2. FindLoc(w, x) \in named
    BY <1>3, <2>1
  <2> QED
    BY <1>1, <2>2
<1> QED
  BY <1>2, <1>3

LEMMA FindUnique ==
  ASSUME NEW m \in Nat, NEW c, NEW w \in World(m, c), Unique(w, m), NEW x
  PROVE  /\ \A r \in 1 .. m : w[r].id = x => FindLoc(w, x) = r
         /\ (\A r \in 1 .. m : w[r].id # x) => FindLoc(w, x) = 0
<1> DEFINE f == FindLoc(w, x)
<1>1. /\ f \in 0 .. m
      /\ f # 0 => w[f].id = x
      /\ f = 0 => \A r \in 1 .. m : w[r].id # x
  BY FindIs
<1> HIDE DEF f
<1>2. f # 0 => f \in 1 .. m
  BY <1>1
<1>3. \A r \in 1 .. m : w[r].id = x => f = r
  BY <1>1, <1>2 DEF Unique
<1>4. (\A r \in 1 .. m : w[r].id # x) => f = 0
  BY <1>1, <1>2
<1> QED
  BY <1>3, <1>4 DEF f

LEMMA ResetValueIs ==
  ASSUME NEW m \in Nat, NEW c \in Nat, c <= DOOR, NEW w \in World(m, c),
         NEW x \in Keys(c)
  PROVE  ResetValue(w, x) \in (0 .. m) \cup Others
<1>1. CASE x \in -Most .. c - 1
  <2>1. ~(x >= DOOR)
    BY <1>1, EndFacts
  <2> QED
    BY <2>1, FindIs DEF ResetValue
<1>2. CASE x \in Others
  <2>1. x >= DOOR
    BY <1>2, DoorsAssumption DEF Others, DOOR, EX_SPECIAL
  <2> QED
    BY <1>2, <2>1 DEF ResetValue
<1> QED
  BY <1>1, <1>2 DEF Keys

Restores(w, m, gone) ==
  \A r \in 1 .. m :
    r \notin gone /\ ~w[r].touched => \A d \in Dirs : w[r].exit[d] = ResetValue(w, w[r].reset[d])

\* The rooms as they should be, but for those of gone and of bad.
Goods(m, c, gone, bad) ==
  {w \in World(m, c) : Known(w, m, m, gone, bad) /\ Unique(w, m) /\ Restores(w, m, gone)}

LEMMA KnownSame ==
  ASSUME NEW m \in Nat, NEW n \in 0 .. m, NEW gone, NEW bad, NEW u, NEW v,
         Told(u, m, n, gone), Meant(u, m, n, bad), Fresh(u, m, n),
         \A i \in 1 .. m : v[i].toMe = u[i].toMe /\ v[i].exit = u[i].exit
  PROVE  Known(v, m, n, gone, bad)
<1>1. \A q \in 1 .. n : q \in 1 .. m
  OBVIOUS
<1>2. Told(v, m, n, gone)
  <2> SUFFICES ASSUME NEW i \in 1 .. m, i \notin gone, NEW e \in Dirs,
                      v[i].exit[e] \in 1 .. Most
               PROVE  v[i].exit[e] \in 1 .. n /\ i \in v[v[i].exit[e]].toMe
    BY DEF Told
  <2> DEFINE y == v[i].exit[e]
  <2>1. y = u[i].exit[e]
    OBVIOUS
  <2>2. y \in 1 .. n /\ i \in u[y].toMe
    BY <2>1 DEF Told
  <2> HIDE DEF y
  <2>3. v[y].toMe = u[y].toMe
    BY <1>1, <2>2
  <2> QED
    BY <2>2, <2>3 DEF y
<1>3. Meant(v, m, n, bad)
  <2> SUFFICES ASSUME NEW q \in 1 .. n, q \notin bad, NEW i \in v[q].toMe
               PROVE  i \in 1 .. m /\ LeadsTo(v, i, q)
    BY DEF Meant
  <2>1. i \in 1 .. m /\ LeadsTo(u, i, q)
    BY <1>1 DEF Meant
  <2> QED
    BY <2>1 DEF LeadsTo
<1>4. Fresh(v, m, n)
  BY DEF Fresh
<1> QED
  BY <1>2, <1>3, <1>4 DEF Known

LEMMA ResetLocationGood ==
  ASSUME NEW m \in Nat, m <= Most, NEW c \in Nat, c <= DOOR, NEW gone, NEW bad,
         NEW w \in Goods(m, c, gone, bad), NEW r \in 1 .. m
  PROVE  ResetLocation(w, r) \in Goods(m, c, gone, bad)
<1>1. w \in World(m, c) /\ Known(w, m, m, gone, bad) /\ Unique(w, m) /\ Restores(w, m, gone)
  BY DEF Goods
<1>2. CASE ~w[r].touched
  BY <1>2 DEF ResetLocation
<1>3. CASE w[r].touched
  <2> DEFINE f == [d \in Dirs |-> ResetValue(w, w[r].reset[d])]
             u == SetExits(w, m, r, Dirs, f)
             v == [u EXCEPT ![r].touched = FALSE]
  <2>1. Len(w) = m
    BY <1>1, WorldLen
  <2>2. ResetLocation(w, r) = v
    BY <1>3, <2>1 DEF ResetLocation
  <2>3. f \in [Dirs -> (0 .. m) \cup Others] /\ f \in [Dirs -> Ends]
    <3>1. w[r].reset \in [Dirs -> Keys(c)]
      BY <1>1 DEF World, Room
    <3>2. \A d \in Dirs : ResetValue(w, w[r].reset[d]) \in (0 .. m) \cup Others
      BY <1>1, <3>1, ResetValueIs
    <3>3. (0 .. m) \cup Others \subseteq Ends
      BY EndFacts DEF Ends
    <3> QED
      BY <3>2, <3>3
  <2>4. u \in World(m, c) /\ Known(u, m, m, gone, bad) /\ ExitsSet(u, w, m, r, Dirs, f)
    <3>1. Dirs \in SUBSET Dirs /\ m \in 0 .. m
      OBVIOUS
    <3>2. r \in gone \/ \A d \in Dirs : f[d] \in (0 .. m) \cup Others
      BY <2>3
    <3> HIDE DEF f
    <3> QED
      BY <1>1, <2>3, <3>1, <3>2, SetExitsIs
  <2> HIDE DEF u
  <2>5. /\ v \in World(m, c)
        /\ \A i \in 1 .. m : v[i] = IF i = r THEN [u[i] EXCEPT !.touched = FALSE] ELSE u[i]
    <3>1. u[r] \in Room(c)
      BY <2>4 DEF World
    <3>2. [u[r] EXCEPT !.touched = FALSE] \in Room(c)
      BY <3>1 DEF Room
    <3> QED
      BY <2>4, <3>2 DEF World
  <2> HIDE DEF v
  <2>6. \A i \in 1 .. m : /\ v[i].id = u[i].id /\ v[i].temp = u[i].temp
                          /\ v[i].reset = u[i].reset
                          /\ v[i].exit = u[i].exit /\ v[i].toMe = u[i].toMe
                          /\ v[i].touched = IF i = r THEN FALSE ELSE u[i].touched
    <3> SUFFICES ASSUME NEW i \in 1 .. m
                 PROVE  /\ v[i].id = u[i].id /\ v[i].temp = u[i].temp
                        /\ v[i].reset = u[i].reset
                        /\ v[i].exit = u[i].exit /\ v[i].toMe = u[i].toMe
                        /\ v[i].touched = IF i = r THEN FALSE ELSE u[i].touched
      OBVIOUS
    <3>1. u[i] \in Room(c)
      BY <2>4 DEF World
    <3> QED
      BY <2>5, <3>1 DEF Room
  <2>7. Same(v, w, m)
    BY <2>4, <2>6 DEF ExitsSet, Same
  <2>8. Known(v, m, m, gone, bad)
    <3>1. Told(u, m, m, gone) /\ Meant(u, m, m, bad) /\ Fresh(u, m, m)
      BY <2>4 DEF Known
    <3>2. \A i \in 1 .. m : v[i].toMe = u[i].toMe /\ v[i].exit = u[i].exit
      BY <2>6
    <3> QED
      BY <3>1, <3>2, KnownSame
  <2>9. Unique(v, m)
    BY <1>1, <2>7 DEF Unique, Same
  <2>10. \A x : ResetValue(v, x) = ResetValue(w, x)
    <3>1. \A i \in 1 .. m : v[i].id = w[i].id
      BY <2>7 DEF Same
    <3> QED
      BY <1>1, <2>5, <3>1, FindSame
  <2>11. ASSUME NEW i \in 1 .. m, i \notin gone, ~v[i].touched, NEW d \in Dirs
         PROVE  v[i].exit[d] = ResetValue(v, v[i].reset[d])
    <3>1. v[i].reset = w[i].reset
      BY <2>7 DEF Same
    <3>2. CASE i = r
      <4>1. v[r].exit[d] = f[d]
        BY <2>4, <2>6 DEF ExitsSet
      <4> QED
        BY <2>10, <3>1, <3>2, <4>1
    <3>3. CASE i # r
      <4>1. v[i].exit = w[i].exit /\ v[i].touched = w[i].touched
        BY <2>4, <2>6, <3>3 DEF ExitsSet
      <4>2. w[i].exit[d] = ResetValue(w, w[i].reset[d])
        BY <1>1, <2>11, <4>1 DEF Restores
      <4> QED
        BY <2>10, <3>1, <4>1, <4>2
    <3> QED
      BY <3>2, <3>3
  <2>12. Restores(v, m, gone)
    BY <2>11 DEF Restores
  <2> QED
    BY <2>2, <2>5, <2>8, <2>9, <2>12 DEF Goods
<1> QED
  BY <1>2, <1>3

LEMMA ResetLocationsGood ==
  ASSUME NEW m \in Nat, m <= Most, NEW c \in Nat, c <= DOOR, NEW gone, NEW bad,
         NEW w \in Goods(m, c, gone, bad), NEW rs
  PROVE  ResetLocations(w, rs) \in Goods(m, c, gone, bad)
<1> DEFINE S == Goods(m, c, gone, bad)
           Do(v, r) == IF r \in rs THEN ResetLocation(v, r) ELSE v
           G == [r \in 1 .. m |-> [v \in S |-> Do(v, r)]]
           h == CHOOSE h : h = [i \in 0 .. m |-> IF i = 0 THEN w ELSE
                             IF i \in rs THEN ResetLocation(h[i - 1], i) ELSE h[i - 1]]
<1>1. ResetLocations(w, rs) = h[m]
  <2>1. w \in World(m, c)
    BY DEF Goods
  <2>2. Len(w) = m
    BY <2>1, WorldLen
  <2>3. ResetLocations(w, rs)
          = Loop(w, m, LAMBDA v, r : IF r \in rs THEN ResetLocation(v, r) ELSE v)
    BY <2>2 DEF ResetLocations
  <2> QED
    BY <2>3 DEF Loop
<1>2. \A v \in S, r \in 1 .. m : Do(v, r) \in S
  BY ResetLocationGood
<1>3. \E F \in [0 .. m -> S] : Steps(F, w, m, G)
  <2>1. G \in [1 .. m -> [S -> S]]
    BY <1>2
  <2>2. w \in S
    OBVIOUS
  <2> HIDE DEF G, S
  <2> QED
    BY <2>1, <2>2, LoopExists
<1>4. PICK F \in [0 .. m -> S] : Steps(F, w, m, G)
  BY <1>3
<1>5. F[0] = w /\ \A r \in 1 .. m : F[r] = Do(F[r - 1], r)
  <2>1. ASSUME NEW r \in 1 .. m PROVE F[r] = Do(F[r - 1], r)
    <3>1. F[r - 1] \in S
      BY <1>4
    <3>2. F[r] = G[r][F[r - 1]]
      BY <1>4 DEF Steps
    <3> QED
      BY <3>1, <3>2
  <2> QED
    BY <1>4, <2>1 DEF Steps
<1>6. F = [i \in 0 .. m |-> IF i = 0 THEN w ELSE
             IF i \in rs THEN ResetLocation(F[i - 1], i) ELSE F[i - 1]]
  BY <1>4, <1>5
<1>7. h = [i \in 0 .. m |-> IF i = 0 THEN w ELSE
             IF i \in rs THEN ResetLocation(h[i - 1], i) ELSE h[i - 1]]
  BY <1>6
<1> HIDE DEF h
<1>8. \A i \in 0 .. m : h[i] \in S
  <2> DEFINE T == {i \in 0 .. m : h[i] \in S}
  <2>1. 0 \in T
    BY <1>7
  <2>2. ASSUME NEW d \in 1 .. m, d - 1 \in T PROVE d \in T
    <3>1. h[d] = Do(h[d - 1], d) /\ h[d - 1] \in S
      BY <1>7, <2>2
    <3> HIDE DEF S, Do
    <3> QED
      BY <1>2, <3>1
  <2> HIDE DEF T
  <2>3. \A d \in 0 .. m : d \in T
    BY <2>1, <2>2, UpTo
  <2> QED
    BY <2>3 DEF T
<1> QED
  BY <1>1, <1>8

-----------------------------------------------------------------------------
(* The exits that lead to a room are cleared.                              *)

\* What clearing exits changes, of all rooms and of l.
Fewer(v, w, m) ==
  /\ Same(v, w, m)
  /\ \A i \in 1 .. m : v[i].touched \/ (~w[i].touched /\ v[i].exit = w[i].exit)
  /\ \A i \in 1 .. m, d \in Dirs : v[i].exit[d] \in {w[i].exit[d], 0}
Closing(v, w, m, l) == Fewer(v, w, m) /\ \A d \in Dirs : v[l].exit[d] = 0

NoExits == [d \in Dirs |-> 0]

\* Some of the exits of one room are cleared.
LEMMA ClearSome ==
  ASSUME NEW m \in Nat, m <= Most, NEW c \in Nat, NEW gone, NEW bad,
         NEW w \in World(m, c), NEW u \in World(m, c), Known(u, m, m, gone, bad),
         Fewer(u, w, m), NEW r \in 1 .. m, NEW ds \in SUBSET Dirs
  PROVE  /\ SetExits(u, m, r, ds, NoExits) \in World(m, c)
         /\ Known(SetExits(u, m, r, ds, NoExits), m, m, gone, bad)
         /\ Fewer(SetExits(u, m, r, ds, NoExits), w, m)
         /\ ExitsSet(SetExits(u, m, r, ds, NoExits), u, m, r, ds, NoExits)
<1> DEFINE v == SetExits(u, m, r, ds, NoExits)
<1>1. v \in World(m, c) /\ Known(v, m, m, gone, bad) /\ ExitsSet(v, u, m, r, ds, NoExits)
  <2>1. NoExits \in [Dirs -> Ends] /\ \A d \in ds : NoExits[d] \in (0 .. m) \cup Others
    BY EndFacts DEF NoExits, Ends
  <2>2. m \in 0 .. m
    OBVIOUS
  <2> QED
    BY <2>1, <2>2, SetExitsIs
<1> HIDE DEF v
<1>2. Same(v, w, m)
  BY <1>1 DEF ExitsSet, Fewer, Same
<1>3. ASSUME NEW i \in 1 .. m
      PROVE  /\ v[i].touched \/ (~w[i].touched /\ v[i].exit = w[i].exit)
             /\ \A d \in Dirs : v[i].exit[d] \in {w[i].exit[d], 0}
  <2>1. /\ u[i].touched \/ (~w[i].touched /\ u[i].exit = w[i].exit)
        /\ \A d \in Dirs : u[i].exit[d] \in {w[i].exit[d], 0}
    BY DEF Fewer
  <2>2. CASE i = r
    <3>1. /\ v[r].touched \/ (~u[r].touched /\ v[r].exit = u[r].exit)
          /\ \A d \in Dirs : v[r].exit[d] = IF d \in ds THEN 0 ELSE u[r].exit[d]
      BY <1>1 DEF ExitsSet, NoExits
    <3> QED
      BY <2>1, <2>2, <3>1
  <2>3. CASE i # r
    <3>1. v[i].exit = u[i].exit /\ v[i].touched = u[i].touched
      BY <1>1, <2>3 DEF ExitsSet
    <3> QED
      BY <2>1, <3>1
  <2> QED
    BY <2>2, <2>3
<1>4. Fewer(v, w, m)
  BY <1>2, <1>3 DEF Fewer
<1> QED
  BY <1>1, <1>4 DEF v

LEMMA ClearedExitsIs ==
  ASSUME NEW c \in Nat, Len(room) \in Nat, Len(room) <= Most, NEW gone, NEW bad,
         room \in World(Len(room), c),
         Known(room, Len(room), Len(room), gone, bad), NEW l \in 1 .. Len(room)
  PROVE  /\ ClearedExits(l) \in World(Len(room), c)
         /\ Known(ClearedExits(l), Len(room), Len(room), gone, bad)
         /\ Closing(ClearedExits(l), room, Len(room), l)
         /\ \A i \in 1 .. Len(room), d \in Dirs :
              i \notin gone => ClearedExits(l)[i].exit[d] # l
<1> DEFINE m == Len(room)
           w1 == SetExits(room, m, l, Dirs, NoExits)
           ToL(v, i) == {d \in Dirs : v[i].exit[d] = l}
           S == {v \in World(m, c) : Known(v, m, m, gone, bad) /\ Closing(v, room, m, l)}
           Do(v, i) == IF i \notin w1[l].toMe THEN v
                       ELSE SetExits(v, m, i, ToL(v, i), NoExits)
           G == [i \in 1 .. m |-> [v \in S |-> Do(v, i)]]
           h == CHOOSE h : h = [i \in 0 .. m |-> IF i = 0 THEN w1 ELSE
                             IF i \notin w1[l].toMe THEN h[i - 1]
                             ELSE SetExits(h[i - 1], m, i, ToL(h[i - 1], i), NoExits)]
<1>1. ClearedExits(l) = h[m]
  BY DEF ClearedExits, Loop, NoExits
<1>2. w1 \in S
  <2>1. Fewer(room, room, m)
    BY DEF Fewer, Same
  <2>2. Dirs \in SUBSET Dirs
    OBVIOUS
  <2>3. w1 \in World(m, c) /\ Known(w1, m, m, gone, bad) /\ Fewer(w1, room, m)
        /\ ExitsSet(w1, room, m, l, Dirs, NoExits)
    BY <2>1, <2>2, ClearSome
  <2> HIDE DEF w1
  <2>4. \A d \in Dirs : w1[l].exit[d] = 0
    BY <2>3 DEF ExitsSet, NoExits
  <2> QED
    BY <2>3, <2>4 DEF Closing
<1>3. ASSUME NEW v \in S, NEW i \in 1 .. m
      PROVE  /\ Do(v, i) \in S
             /\ \A j \in 1 .. m : j # i => Do(v, i)[j].exit = v[j].exit
             /\ i \in w1[l].toMe => \A d \in Dirs : Do(v, i)[i].exit[d] # l
  <2>1. CASE i \notin w1[l].toMe
    BY <2>1
  <2>2. CASE i \in w1[l].toMe
    <3> DEFINE ds == ToL(v, i)
               u == SetExits(v, m, i, ds, NoExits)
    <3>1. Do(v, i) = u
      BY <2>2
    <3>2. /\ ds \in SUBSET Dirs
          /\ v \in World(m, c) /\ Known(v, m, m, gone, bad) /\ Fewer(v, room, m)
          /\ \A d \in Dirs : v[l].exit[d] = 0
      BY DEF Closing
    <3> HIDE DEF ds
    <3>3. /\ u \in World(m, c) /\ Known(u, m, m, gone, bad) /\ Fewer(u, room, m)
          /\ ExitsSet(u, v, m, i, ds, NoExits)
      BY <3>2, ClearSome
    <3> HIDE DEF u, S, Do
    <3>4. \A d \in Dirs : u[l].exit[d] = 0
      BY <3>2, <3>3 DEF ExitsSet, NoExits
    <3>5. u \in S
      BY <3>3, <3>4 DEF S, Closing
    <3>6. \A j \in 1 .. m : j # i => u[j].exit = v[j].exit
      BY <3>3 DEF ExitsSet
    <3>7. \A d \in Dirs : u[i].exit[d] # l
      <4>1. \A d \in Dirs : u[i].exit[d] = IF d \in ds THEN 0 ELSE v[i].exit[d]
        BY <3>3 DEF ExitsSet, NoExits
      <4>2. \A d \in Dirs : d \in ds <=> v[i].exit[d] = l
        BY DEF ds
      <4> QED
        BY <4>1, <4>2
    <3> QED
      BY <3>1, <3>5, <3>6, <3>7
  <2> QED
    BY <2>1, <2>2
<1>4. \E F \in [0 .. m -> S] : Steps(F, w1, m, G)
  <2>1. G \in [1 .. m -> [S -> S]]
    <3> HIDE DEF S, Do
    <3> QED
      BY <1>3
  <2> HIDE DEF G, S, w1
  <2> QED
    BY <2>1, <1>2, LoopExists
<1>5. PICK F \in [0 .. m -> S] : Steps(F, w1, m, G)
  BY <1>4
<1>6. F[0] = w1 /\ \A r \in 1 .. m : F[r] = Do(F[r - 1], r)
  <2>1. ASSUME NEW r \in 1 .. m PROVE F[r] = Do(F[r - 1], r)
    <3>1. F[r - 1] \in S
      BY <1>5
    <3>2. F[r] = G[r][F[r - 1]]
      BY <1>5 DEF Steps
    <3> HIDE DEF S, Do, w1
    <3> QED
      BY <3>1, <3>2
  <2> QED
    BY <1>5, <2>1 DEF Steps
<1>7. h = [i \in 0 .. m |-> IF i = 0 THEN w1 ELSE
             IF i \notin w1[l].toMe THEN h[i - 1]
             ELSE SetExits(h[i - 1], m, i, ToL(h[i - 1], i), NoExits)]
  <2>1. F = [i \in 0 .. m |-> IF i = 0 THEN w1 ELSE
             IF i \notin w1[l].toMe THEN F[i - 1]
             ELSE SetExits(F[i - 1], m, i, ToL(F[i - 1], i), NoExits)]
    <3> HIDE DEF S, w1, ToL
    <3> QED
      BY <1>5, <1>6
  <2> HIDE DEF w1, ToL
  <2> QED
    BY <2>1
<1> HIDE DEF h
\* Those that led to l before the loop, and that it has come by, no longer do.
<1> DEFINE Done(v, k) == \A j \in 1 .. m : j \notin gone /\ (j <= k \/ j \notin w1[l].toMe)
                           => \A d \in Dirs : v[j].exit[d] # l
           T == {k \in 0 .. m : h[k] \in S /\ Done(h[k], k)}
<1>8. 0 \in T
  <2>1. h[0] = w1
    BY <1>7
  <2>2. Done(w1, 0)
    <3>1. Known(w1, m, m, gone, bad)
      BY <1>2
    <3>2. l \in 1 .. Most
      BY EndFacts
    <3> HIDE DEF w1
    <3> QED
      BY <3>1, <3>2 DEF Known, Told
  <2> HIDE DEF w1, S
  <2> QED
    BY <1>2, <2>1, <2>2
<1>9. ASSUME NEW k \in 1 .. m, k - 1 \in T PROVE k \in T
  <2>1. h[k] = Do(h[k - 1], k) /\ h[k - 1] \in S /\ Done(h[k - 1], k - 1)
    <3>1. h[k - 1] \in S /\ Done(h[k - 1], k - 1)
      <4> HIDE DEF w1, S, Done
      <4> QED
        BY <1>9
    <3>2. h[k] = Do(h[k - 1], k)
      <4> HIDE DEF w1, S, ToL
      <4> QED
        BY <1>7
    <3> QED
      BY <3>1, <3>2
  <2> DEFINE u == h[k - 1]
             v == h[k]
  <2>2. /\ v \in S
        /\ \A j \in 1 .. m : j # k => v[j].exit = u[j].exit
        /\ k \in w1[l].toMe => \A d \in Dirs : v[k].exit[d] # l
    <3>1. u \in S /\ v = Do(u, k)
      BY <2>1
    <3> HIDE DEF w1, S, Do, u, v
    <3>2. /\ Do(u, k) \in S
          /\ \A j \in 1 .. m : j # k => Do(u, k)[j].exit = u[j].exit
          /\ k \in w1[l].toMe => \A d \in Dirs : Do(u, k)[k].exit[d] # l
      BY <1>3, <3>1
    <3> QED
      BY <3>1, <3>2
  <2>3. Done(u, k - 1)
    BY <2>1
  <2>4. k \notin w1[l].toMe => v = u
    <3> HIDE DEF w1, S
    <3> QED
      BY <2>1
  <2> HIDE DEF u, v, w1, S
  <2>5. Done(v, k)
    <3> SUFFICES ASSUME NEW j \in 1 .. m, j \notin gone, j <= k \/ j \notin w1[l].toMe,
                        NEW d \in Dirs
                 PROVE  v[j].exit[d] # l
      OBVIOUS
    <3>1. CASE j = k
      BY <2>2, <2>3, <2>4, <3>1
    <3>2. CASE j # k
      <4>1. v[j].exit = u[j].exit
        BY <2>2, <3>2
      <4>2. j <= k - 1 \/ j \notin w1[l].toMe
        BY <3>2
      <4> QED
        BY <2>3, <4>1, <4>2
    <3> QED
      BY <3>1, <3>2
  <2> QED
    BY <2>2, <2>5 DEF v
<1>10. m \in T
  <2> HIDE DEF T
  <2>1. \A d \in 0 .. m : d \in T
    BY <1>8, <1>9, UpTo
  <2> QED
    BY <2>1
<1>11. h[m] \in S /\ \A i \in 1 .. m, d \in Dirs : i \notin gone => h[m][i].exit[d] # l
  <2>1. h[m] \in S /\ Done(h[m], m)
    BY <1>10
  <2> HIDE DEF S, w1
  <2> QED
    BY <2>1
<1> QED
  BY <1>1, <1>11

-----------------------------------------------------------------------------
(* The invariant.                                                          *)

Placed(p, m) ==
  p \in [{Player, Mobile} -> (0 .. m) \cup {Nowhere}] /\ p[Player] # Nowhere

RInv ==
  /\ Len(room) \in Nat /\ Perm <= Len(room) /\ Len(room) <= Most
  /\ counter \in Nat /\ counter <= DOOR
  /\ room \in Goods(Len(room), counter, lost, blurred)
  /\ Placed(place, Len(room))

LEMMA Bounds ==
  /\ Perm \in Nat \ {0} /\ Perm <= Most
  /\ MaxId \in Nat /\ MaxId < DOOR
  /\ SpecialRoom \in 1 .. Perm
  /\ \A r \in DOMAIN Leaps : Leaps[r] \in 1 .. Perm
  /\ \A k \in Doors : Linked[k] \in Doors /\ At[k] \in 1 .. Perm
<1>1. \A k \in Doors : Linked[k] \in Doors /\ At[k] \in 1 .. Perm
  BY DoorsAssumption
<1> QED
  BY <1>1, RoomsAssumption

LEMMA InvFacts ==
  ASSUME RInv
  PROVE  /\ Len(room) \in Nat /\ Perm <= Len(room) /\ Len(room) <= Most
         /\ counter \in Nat /\ counter <= DOOR
         /\ room \in World(Len(room), counter)
         /\ Known(room, Len(room), Len(room), lost, blurred)
         /\ Unique(room, Len(room)) /\ Restores(room, Len(room), lost)
         /\ DOMAIN room = 1 .. Len(room)
         /\ Placed(place, Len(room))
<1>1. room \in World(Len(room), counter)
  BY DEF RInv, Goods
<1>2. DOMAIN room = 1 .. Len(room)
  BY <1>1, WorldLen DEF RInv
<1> QED
  BY <1>1, <1>2 DEF RInv, Goods

\* How a step shows the invariant again.
LEMMA InvAgain ==
  ASSUME NEW m \in Nat, Perm <= m, m <= Most, counter' \in Nat, counter' <= DOOR,
         room' \in World(m, counter'), Known(room', m, m, lost', blurred'),
         Unique(room', m), Restores(room', m, lost'), Placed(place', m)
  PROVE  RInv'
<1>1. room' \in Goods(m, counter', lost', blurred')
  BY DEF Goods
<1>2. Len(room') = m
  BY WorldLen
<1> QED
  BY <1>1, <1>2 DEF RInv

LEMMA InvAgainGood ==
  ASSUME NEW m \in Nat, Perm <= m, m <= Most, counter' \in Nat, counter' <= DOOR,
         room' \in Goods(m, counter', lost', blurred'), Placed(place', m)
  PROVE  RInv'
BY InvAgain DEF Goods

LEMMA InitGood == Init => RInv
<1> SUFFICES ASSUME Init PROVE RInv
  OBVIOUS
<1> DEFINE m == Perm
           c == Perm + 1
<1>1. m \in Nat /\ m <= Most /\ c \in Nat /\ c <= DOOR
  BY Bounds, EndFacts
<1>2. Loaded \in World(m, c)
  <2> SUFFICES ASSUME NEW r \in 1 .. Perm
               PROVE  [id |-> r, temp |-> FALSE, touched |-> TRUE,
                       exit |-> [d \in Dirs |-> 0], reset |-> Map[r], toMe |-> {}]
                        \in Room(c)
    BY DEF Loaded, World
  <2>1. Map[r] \in [Dirs -> 0 .. Perm \cup {EX_SPECIAL} \cup Doors]
    BY RoomsAssumption
  <2>2. 0 .. Perm \cup {EX_SPECIAL} \cup Doors \subseteq Keys(c)
    BY Bounds, EndFacts DEF Others, Keys
  <2>3. Map[r] \in [Dirs -> Keys(c)]
    BY <2>1, <2>2
  <2>4. r \in 1 .. c - 1
    BY Bounds
  <2>5. [d \in Dirs |-> 0] \in [Dirs -> Ends]
    BY EndFacts DEF Ends
  <2> HIDE DEF c, m
  <2> QED
    BY <2>3, <2>4, <2>5 DEF Room
<1>3. \A r \in 1 .. m : /\ Loaded[r].id = r /\ Loaded[r].touched
                        /\ Loaded[r].exit = [d \in Dirs |-> 0] /\ Loaded[r].toMe = {}
  BY DEF Loaded
<1>4. Known(Loaded, m, m, {}, {})
  BY <1>1, <1>3 DEF Known, Told, Meant, Fresh
<1>5. Unique(Loaded, m) /\ Restores(Loaded, m, {})
  BY <1>3 DEF Unique, Restores
<1>6. Loaded \in Goods(m, c, {}, {})
  BY <1>2, <1>4, <1>5 DEF Goods
<1> HIDE DEF m, c
<1>7. Booted \in Goods(m, c, {}, {})
  BY <1>1, <1>6, ResetLocationsGood DEF Booted, m
<1>8. room \in Goods(m, c, lost, blurred) /\ counter = c
  BY <1>7 DEF Init, c
<1>9. Len(room) = m
  BY <1>1, <1>8, WorldLen DEF Goods
<1>10. Placed(place, m)
  <2>1. place \in [{Player, Mobile} -> {0, 1}]
    BY DEF Init, Out
  <2>2. {0, 1} \subseteq 0 .. m
    BY Bounds DEF m
  <2> QED
    BY <2>1, <2>2 DEF Placed, Nowhere
<1> QED
  BY <1>1, <1>8, <1>9, <1>10, Bounds DEF RInv, m

-----------------------------------------------------------------------------
(* Who walks, jumps or is moved.                                           *)

LEMMA PlaceOnly ==
  ASSUME RInv, UNCHANGED <<room, counter, lost, blurred>>, Placed(place', Len(room))
  PROVE  RInv'
BY DEF RInv

LEMMA TrapchKeeps ==
  ASSUME RInv, NEW r \in 1 .. Len(room), Trapch(r),
         UNCHANGED <<room, counter, lost, blurred>>
  PROVE  RInv' /\ place'[Mobile] = place[Mobile]
<1>1. PICK dies \in BOOLEAN : place' = [place EXCEPT ![Player] = IF dies THEN Out ELSE r]
  BY DEF Trapch
<1>2. place \in [{Player, Mobile} -> (0 .. Len(room)) \cup {Nowhere}]
  BY InvFacts DEF Placed
<1> DEFINE to == IF dies THEN Out ELSE r
<1>3. to \in 0 .. Len(room) /\ to # Nowhere
  BY InvFacts DEF Out, Nowhere
<1> HIDE DEF to
<1>4. place' = [place EXCEPT ![Player] = to]
  BY <1>1 DEF to
<1>5. Placed(place', Len(room)) /\ place'[Mobile] = place[Mobile]
  BY <1>2, <1>3, <1>4 DEF Placed, Player, Mobile
<1> QED
  BY <1>5, PlaceOnly

LEMMA WalkKeeps ==
  RInv /\ (Walk \/ Goto \/ Jump) => RInv' /\ place'[Mobile] = place[Mobile]
<1> SUFFICES ASSUME RInv, Walk \/ Goto \/ Jump
             PROVE  RInv' /\ place'[Mobile] = place[Mobile]
  OBVIOUS
<1>1. UNCHANGED <<room, counter, lost, blurred>>
  BY DEF Walk, Goto, Jump
<1>2. \E r \in 1 .. Len(room) : Trapch(r)
  <2>1. CASE Walk
    BY <2>1 DEF Walk, Exists, Within
  <2>2. CASE Goto
    BY <2>2, InvFacts DEF Goto
  <2>3. CASE Jump
    <3>1. Leaps[place[Player]] \in 1 .. Perm /\ Trapch(Leaps[place[Player]])
      BY <2>3, Bounds DEF Jump
    <3>2. Leaps[place[Player]] \in 1 .. Len(room)
      BY <3>1, Bounds, InvFacts
    <3> QED
      BY <3>1, <3>2
  <2> QED
    BY <2>1, <2>2, <2>3
<1> QED
  BY <1>1, <1>2, TrapchKeeps

\* movemob() does not ask whether the room exists: from a room that was not joined with one
\* that has moved, an exit that is no door and no special one leads to a room, and a door
\* stands in a permanent room.
LEMMA MoveMobKeeps ==
  RInv /\ MoveMob =>
    /\ RInv'
    /\ place[Mobile] \in DOMAIN room \ lost => place'[Mobile] # Nowhere
<1> SUFFICES ASSUME RInv, MoveMob
             PROVE  /\ RInv'
                    /\ place[Mobile] \in DOMAIN room \ lost => place'[Mobile] # Nowhere
  OBVIOUS
<1> DEFINE n == Len(room)
           p == place[Mobile]
<1>1. /\ n \in Nat /\ DOMAIN room = 1 .. n /\ Perm <= n /\ n <= Most
      /\ place \in [{Player, Mobile} -> (0 .. n) \cup {Nowhere}] /\ place[Player] # Nowhere
      /\ room \in World(n, counter) /\ Told(room, n, n, lost)
  BY InvFacts DEF Placed, Known
<1>2. UNCHANGED <<room, counter, lost, blurred>>
  BY DEF MoveMob
<1>3. PICK y : /\ place' = [place EXCEPT ![Mobile] = y]
               /\ y \in (1 .. n) \cup {Nowhere}
               /\ p \in DOMAIN room \ lost => y # Nowhere
  <2>1. CASE p = Nowhere /\ \E r \in DOMAIN room : place' = [place EXCEPT ![Mobile] = r]
    <3>1. Nowhere \notin DOMAIN room
      BY <1>1 DEF Nowhere
    <3> QED
      BY <1>1, <2>1, <3>1
  <2>2. CASE p \in DOMAIN room
             /\ \E d \in Dirs :
                  LET x == room[p].exit[d]
                  IN /\ x # 0 /\ x < EX_SPECIAL /\ Behind(x) # 0
                     /\ place' = [place EXCEPT ![Mobile] =
                                     IF Exists(Behind(x)) THEN Behind(x) ELSE Nowhere]
    <3>1. PICK d \in Dirs :
            LET x == room[p].exit[d]
            IN /\ x # 0 /\ x < EX_SPECIAL /\ Behind(x) # 0
               /\ place' = [place EXCEPT ![Mobile] =
                               IF Exists(Behind(x)) THEN Behind(x) ELSE Nowhere]
      BY <2>2
    <3> DEFINE x == room[p].exit[d]
               y == IF Exists(Behind(x)) THEN Behind(x) ELSE Nowhere
    <3>2. /\ x # 0 /\ x < EX_SPECIAL /\ Behind(x) # 0
          /\ place' = [place EXCEPT ![Mobile] = y]
      BY <3>1
    <3>3. x \in Ends /\ (p \notin lost => (x \in 1 .. Most => x \in 1 .. n))
      <4>1. room[p].exit[d] \in Ends
        BY <1>1, <2>2 DEF World, Room
      <4> QED
        BY <1>1, <2>2, <4>1 DEF Told
    <3> HIDE DEF x
    <3>4. y \in (1 .. n) \cup {Nowhere}
      BY <1>1 DEF Exists, Within
    <3>5. ASSUME p \notin lost PROVE y # Nowhere
      <4>1. Exists(Behind(x)) /\ Behind(x) # Nowhere
        <5>1. CASE x \in Doors
          <6>1. Behind(x) = IF state[x] = 0 THEN At[Linked[x]] ELSE 0
            BY <5>1, <3>2 DEF Behind, EX_SPECIAL
          <6>2. At[Linked[x]] \in 1 .. Perm
            BY <5>1, Bounds
          <6>3. Behind(x) = At[Linked[x]]
            BY <3>2, <6>1
          <6>4. Behind(x) \in 1 .. n
            BY <1>1, <6>2, <6>3, Bounds
          <6> QED
            BY <6>4 DEF Exists, Within, Nowhere
        <5>2. CASE x \notin Doors
          <6>1. x # EX_SPECIAL
            BY <3>2 DEF EX_SPECIAL
          <6>2. x \in 1 .. n
            BY <3>2, <3>3, <3>5, <5>2, <6>1, EndFacts DEF Others
          <6>3. Behind(x) = x
            BY <5>2, <6>1 DEF Behind
          <6> QED
            BY <6>2, <6>3 DEF Exists, Within, Nowhere
        <5> QED
          BY <5>1, <5>2
      <4> QED
        BY <4>1
    <3> HIDE DEF y
    <3> QED
      BY <3>2, <3>4, <3>5
  <2> QED
    BY <2>1, <2>2 DEF MoveMob
<1>4. Placed(place', n) /\ place'[Mobile] = y
  BY <1>1, <1>3 DEF Placed, Player, Mobile
<1>5. RInv'
  BY <1>2, <1>4, PlaceOnly
<1> QED
  BY <1>3, <1>4, <1>5

-----------------------------------------------------------------------------
(* Wizards.                                                                *)

\* exitcom(): one exit, of a room that is then touched.
LEMMA ExitsKeeps == RInv /\ Exits => RInv'
<1> SUFFICES ASSUME RInv, Exits PROVE RInv'
  OBVIOUS
<1> DEFINE n == Len(room)
<1>1. PICK r \in DOMAIN room, d \in Dirs, x \in (DOMAIN room \cap Targets) \cup {0} :
        room' = SetExit(room, n, r, d, x)
  BY DEF Exits
<1>2. counter' = counter /\ place' = place /\ lost' = lost /\ blurred' = blurred
  BY DEF Exits
<1> DEFINE w == room
           v == room'
           c == counter
<1>3. /\ n \in Nat /\ Perm <= n /\ n <= Most /\ c \in Nat /\ c <= DOOR
      /\ w \in World(n, c) /\ Known(w, n, n, lost, blurred) /\ Unique(w, n)
      /\ Restores(w, n, lost) /\ DOMAIN w = 1 .. n /\ Placed(place, n)
  BY InvFacts
<1>4. r \in 1 .. n /\ n \in 0 .. n /\ x \in (0 .. n) \cup Others /\ x \in Ends
  BY <1>1, <1>3, EndFacts DEF Ends
<1>5. v \in World(n, c) /\ AfterSet(v, w, n, n, r, d, x)
  <2> HIDE DEF n, c
  <2> QED
    BY <1>1, <1>3, <1>4, SetExitIs
<1> HIDE DEF n, v, w, c
<1>6. Known(v, n, n, lost, blurred)
  BY <1>1, <1>3, <1>4, <1>5, SetExitKnown
<1>7. Same(v, w, n)
  BY <1>5 DEF AfterSet
<1>8. Unique(v, n)
  BY <1>3, <1>7 DEF Unique, Same
<1>9. \A y : ResetValue(v, y) = ResetValue(w, y)
  <2>1. \A i \in 1 .. n : v[i].id = w[i].id
    BY <1>7 DEF Same
  <2> QED
    BY <1>3, <1>5, <2>1, FindSame
<1>10. Restores(v, n, lost)
  <2> SUFFICES ASSUME NEW i \in 1 .. n, i \notin lost, ~v[i].touched, NEW e \in Dirs
               PROVE  v[i].exit[e] = ResetValue(v, v[i].reset[e])
    BY DEF Restores
  <2>1. i # r
    BY <1>5 DEF AfterSet
  <2>2. v[i].exit = w[i].exit /\ ~w[i].touched /\ v[i].reset = w[i].reset
    BY <1>5, <1>7, <2>1 DEF AfterSet, Same
  <2>3. w[i].exit[e] = ResetValue(w, w[i].reset[e])
    BY <1>3, <2>2 DEF Restores
  <2> QED
    BY <1>9, <2>2, <2>3
<1> QED
  BY <1>2, <1>3, <1>5, <1>6, <1>8, <1>10, InvAgain DEF v, c

\* The counter grows.
LEMMA RoomGrows ==
  ASSUME NEW c \in Nat, NEW x \in Room(c)
  PROVE  x \in Room(c + 1)
<1>1. Keys(c) \subseteq Keys(c + 1) /\ 1 .. c - 1 \subseteq 1 .. c + 1 - 1
  BY EndFacts DEF Keys
<1>2. x.reset \in [Dirs -> Keys(c + 1)] /\ x.id \in 1 .. c + 1 - 1
  BY <1>1 DEF Room
<1> QED
  BY <1>2 DEF Room

\* clone_location(): the copy has an ID of its own, so that what was found is found.
LEMMA CloneKeeps == RInv /\ CloneLocation => RInv'
<1> SUFFICES ASSUME RInv, CloneLocation PROVE RInv'
  OBVIOUS
<1> DEFINE n == Len(room)
           m == n + 1
           c == counter
           b == counter + 1
<1>1. PICK l \in DOMAIN room :
        LET copy == [room[l] EXCEPT !.id = counter, !.temp = TRUE, !.toMe = {}]
        IN /\ room' = SetExits(Append(room, copy), n, n + 1, Dirs, room[l].exit)
           /\ lost' = lost \cup {i \in {n + 1} : l \in lost}
  BY DEF CloneLocation
<1> DEFINE copy == [room[l] EXCEPT !.id = counter, !.temp = TRUE, !.toMe = {}]
           w == Append(room, copy)
           v == room'
<1>2. /\ v = SetExits(w, n, n + 1, Dirs, room[l].exit)
      /\ lost' = lost \cup {i \in {n + 1} : l \in lost}
  BY <1>1
<1>3. counter' = b /\ place' = place /\ blurred' = blurred /\ n < Most /\ counter <= MaxId
  BY DEF CloneLocation
<1>4. /\ n \in Nat /\ Perm <= n /\ n <= Most /\ c \in Nat /\ c <= DOOR
      /\ room \in World(n, c) /\ Known(room, n, n, lost, blurred) /\ Unique(room, n)
      /\ Restores(room, n, lost) /\ DOMAIN room = 1 .. n /\ Placed(place, n)
  BY InvFacts
<1>5. m \in Nat \ {0} /\ b \in Nat /\ b <= DOOR /\ m <= Most /\ Perm <= m
      /\ c < DOOR /\ c > 0
  <2>1. c # 0
    <3>1. Perm \in 1 .. n
      BY <1>4, Bounds
    <3>2. room[Perm].id \in 1 .. c - 1
      BY <1>4, <3>1 DEF World, Room
    <3> QED
      BY <3>2, <1>4
  <2> QED
    BY <1>3, <1>4, <2>1, Bounds, EndFacts
<1>6. l \in 1 .. n /\ room[l] \in Room(c)
  BY <1>1, <1>4 DEF World
<1>7. copy \in Room(b)
  <2>1. room[l] \in Room(b)
    BY <1>4, <1>6, RoomGrows
  <2>2. counter \in 1 .. b - 1
    BY <1>4, <1>5
  <2> HIDE DEF b
  <2> QED
    BY <2>1, <2>2 DEF Room
<1>8. /\ copy.id = c /\ copy.toMe = {} /\ copy.exit = room[l].exit
      /\ copy.reset = room[l].reset /\ copy.touched = room[l].touched
  BY <1>6 DEF Room
<1> HIDE DEF copy, m, b, c, n, v
<1>9. /\ w \in World(m, b)
      /\ \A i \in 1 .. n : w[i] = room[i]
      /\ w[m] = copy
  <2>1. \A i \in 1 .. n : room[i] \in Room(b)
    <3> SUFFICES ASSUME NEW i \in 1 .. n PROVE room[i] \in Room(b)
      OBVIOUS
    <3>1. room[i] \in Room(c)
      BY <1>4 DEF World
    <3> QED
      BY <1>4, <3>1, RoomGrows DEF b, c
  <2>2. room \in [1 .. n -> Room(b)]
    BY <1>4, <2>1 DEF World
  <2> DEFINE S == Room(b)
  <2> HIDE DEF S
  <2>3. room \in Seq(S)
    BY <1>4, <2>2, SeqDef DEF S
  <2>4. /\ Append(room, copy) \in Seq(S)
        /\ Len(Append(room, copy)) = n + 1
        /\ \A i \in 1 .. Len(room) : Append(room, copy)[i] = room[i]
        /\ Append(room, copy)[Len(room) + 1] = copy
    BY <1>7, <2>3, AppendProperties DEF S, n
  <2>5. w \in [1 .. m -> S]
    BY <2>4, LenProperties DEF m
  <2> QED
    BY <2>4, <2>5 DEF S, World, m, n
<1> HIDE DEF w
<1>10. /\ 1 .. m - 1 = 1 .. n /\ m - 1 = n /\ m = n + 1 /\ m \notin 1 .. n
       /\ \A i \in 1 .. m : i = m \/ i \in 1 .. n
  BY <1>4 DEF m
<1>11. Known(w, m, m - 1, lost \cup {m}, blurred)
  <2>1. Told(room, n, n, lost) /\ Meant(room, n, n, blurred)
    BY <1>4 DEF Known
  <2>2. Told(w, m, n, lost \cup {m})
    <3> SUFFICES ASSUME NEW i \in 1 .. m, i \notin lost \cup {m}, NEW e \in Dirs,
                        w[i].exit[e] \in 1 .. Most
                 PROVE  w[i].exit[e] \in 1 .. n /\ i \in w[w[i].exit[e]].toMe
      BY DEF Told
    <3> DEFINE y == w[i].exit[e]
    <3>1. i \in 1 .. n /\ w[i] = room[i]
      BY <1>9, <1>10
    <3>2. y \in 1 .. n /\ i \in room[y].toMe
      BY <2>1, <3>1 DEF Told
    <3> HIDE DEF y
    <3>3. w[y] = room[y]
      BY <1>9, <3>2
    <3> QED
      BY <3>2, <3>3 DEF y
  <2>3. Meant(w, m, n, blurred)
    <3> SUFFICES ASSUME NEW q \in 1 .. n, q \notin blurred, NEW i \in w[q].toMe
                 PROVE  i \in 1 .. m /\ LeadsTo(w, i, q)
      BY DEF Meant
    <3>1. i \in 1 .. n /\ LeadsTo(room, i, q)
      BY <1>9, <2>1 DEF Meant
    <3> QED
      BY <1>4, <1>9, <1>10, <3>1 DEF LeadsTo
  <2>4. Fresh(w, m, n)
    <3> SUFFICES ASSUME NEW q \in 1 .. m, q > n PROVE w[q].toMe = {}
      BY DEF Fresh
    <3>1. q = m
      BY <1>4, <1>10
    <3> QED
      BY <1>8, <1>9, <3>1
  <2> QED
    BY <1>10, <2>2, <2>3, <2>4 DEF Known
<1>12. v \in World(m, b) /\ Known(v, m, m, lost', blurred) /\ CopyMade(v, w, m)
  <2>1. v = SetExits(w, m - 1, m, Dirs, w[m].exit)
    BY <1>2, <1>8, <1>9, <1>10
  <2>2. \A i : i \notin lost' => i \notin lost
    BY <1>2
  <2>3. m \in lost' \/ \A d \in Dirs :
                         w[m].exit[d] \in 1 .. Most => w[m].exit[d] \in 1 .. m - 1
    <3>1. CASE l \in lost
      BY <1>2, <1>10, <3>1
    <3>2. CASE l \notin lost
      BY <1>4, <1>6, <1>8, <1>9, <1>10, <3>2 DEF Known, Told
    <3> QED
      BY <3>1, <3>2
  <2> DEFINE gone2 == lost'
  <2> HIDE DEF gone2
  <2>4. /\ \A i : i \notin gone2 => i \notin lost
        /\ m \in gone2 \/ \A d \in Dirs :
                            w[m].exit[d] \in 1 .. Most => w[m].exit[d] \in 1 .. m - 1
    BY <2>2, <2>3 DEF gone2
  <2>5. /\ SetExits(w, m - 1, m, Dirs, w[m].exit) \in World(m, b)
        /\ Known(SetExits(w, m - 1, m, Dirs, w[m].exit), m, m, gone2, blurred)
        /\ CopyMade(SetExits(w, m - 1, m, Dirs, w[m].exit), w, m)
    BY <1>5, <1>9, <1>11, <2>4, CopyKnown
  <2> QED
    BY <2>1, <2>5 DEF gone2
<1>13. \A i \in 1 .. n : room[i].id \in 1 .. c - 1 /\ w[i].id = room[i].id
  BY <1>4, <1>9 DEF World, Room
<1>14. w[m].id = c
  BY <1>8, <1>9
<1>15. Unique(w, m)
  <2> SUFFICES ASSUME NEW i \in 1 .. m, NEW j \in 1 .. m, w[i].id = w[j].id PROVE i = j
    BY DEF Unique
  <2>1. CASE i = m \/ j = m
    BY <1>4, <1>10, <1>13, <1>14, <2>1
  <2>2. CASE i \in 1 .. n /\ j \in 1 .. n
    BY <1>4, <1>13, <2>2 DEF Unique
  <2> QED
    BY <1>10, <2>1, <2>2
<1>16. \A i \in 1 .. m : v[i].id = w[i].id /\ v[i].reset = w[i].reset
  BY <1>12 DEF CopyMade, Same
<1>17. Unique(v, m)
  BY <1>15, <1>16 DEF Unique
<1>18. ASSUME NEW x \in Keys(c)
       PROVE  ResetValue(v, x) = ResetValue(room, x)
  <2>1. ResetValue(v, x) = ResetValue(w, x)
    BY <1>5, <1>9, <1>12, <1>16, FindSame
  <2>2. CASE x \in Others
    <3>1. x >= DOOR
      BY <2>2, EndFacts
    <3> QED
      BY <2>1, <3>1 DEF ResetValue
  <2>3. CASE x \in -Most .. c - 1
    <3>1. FindLoc(w, x) = FindLoc(room, x)
      <4>1. CASE \E r \in 1 .. n : room[r].id = x
        <5>1. PICK r \in 1 .. n : room[r].id = x
          BY <4>1
        <5>2. FindLoc(room, x) = r
          BY <1>4, <5>1, FindUnique
        <5>3. r \in 1 .. m /\ w[r].id = x
          BY <1>4, <1>13, <5>1 DEF m
        <5>4. \A q \in 1 .. m : w[q].id = x => FindLoc(w, x) = q
          BY <1>5, <1>9, <1>15, FindUnique
        <5>5. FindLoc(w, x) = r
          BY <5>3, <5>4
        <5> QED
          BY <5>2, <5>5
      <4>2. CASE \A r \in 1 .. n : room[r].id # x
        <5>1. FindLoc(room, x) = 0
          BY <1>4, <4>2, FindUnique
        <5>2. c # x
          BY <1>4, <2>3, EndFacts
        <5>3. \A r \in 1 .. m : w[r].id # x
          BY <1>10, <1>13, <1>14, <4>2, <5>2
        <5>4. FindLoc(w, x) = 0
          BY <1>5, <1>9, <1>15, <5>3, FindUnique
        <5> QED
          BY <5>1, <5>4
      <4> QED
        BY <4>1, <4>2
    <3> QED
      BY <2>1, <3>1 DEF ResetValue
  <2> QED
    BY <2>2, <2>3 DEF Keys
<1>19. Restores(v, m, lost')
  <2> SUFFICES ASSUME NEW i \in 1 .. m, i \notin lost', ~v[i].touched, NEW d \in Dirs
               PROVE  v[i].exit[d] = ResetValue(v, v[i].reset[d])
    BY DEF Restores
  <2>1. v[i].exit[d] = w[i].exit[d] /\ v[i].reset = w[i].reset /\ ~w[i].touched
    BY <1>10, <1>12, <1>16 DEF CopyMade
  <2>2. PICK j \in 1 .. n : /\ j \notin lost /\ w[i].exit = room[j].exit
                            /\ w[i].reset = room[j].reset /\ ~room[j].touched
    <3>1. CASE i = m
      <4>1. l \notin lost
        BY <1>2, <1>10, <3>1
      <4> QED
        BY <1>6, <1>8, <1>9, <2>1, <3>1, <4>1
    <3>2. CASE i \in 1 .. n
      BY <1>2, <1>9, <2>1, <3>2
    <3> QED
      BY <1>10, <3>1, <3>2
  <2>3. room[j].exit[d] = ResetValue(room, room[j].reset[d])
    BY <1>4, <2>2 DEF Restores
  <2>4. room[j].reset[d] \in Keys(c)
    BY <1>4 DEF World, Room
  <2> QED
    BY <1>18, <2>1, <2>2, <2>3, <2>4
<1>20. Placed(place', m)
  <2>1. 0 .. n \subseteq 0 .. m
    BY <1>4 DEF m
  <2> QED
    BY <1>3, <1>4, <2>1 DEF Placed
<1> QED
  BY <1>3, <1>5, <1>12, <1>17, <1>19, <1>20, InvAgain DEF v

\* storecom(): a room of the zone is stored under the ID it has.
LEMMA StoreKeeps == RInv /\ Store => RInv'
<1> SUFFICES ASSUME RInv, Store PROVE RInv'
  OBVIOUS
<1> DEFINE n == Len(room)
           c == counter
           v == room'
<1>1. /\ v = [r \in DOMAIN room |-> IF r \in Clones THEN Stored(r) ELSE room[r]]
      /\ counter' = c /\ place' = place /\ lost' = lost /\ blurred' = blurred
  BY DEF Store
<1>2. /\ n \in Nat /\ Perm <= n /\ n <= Most /\ c \in Nat /\ c <= DOOR
      /\ room \in World(n, c) /\ Known(room, n, n, lost, blurred) /\ Unique(room, n)
      /\ Restores(room, n, lost) /\ DOMAIN room = 1 .. n /\ Placed(place, n)
  BY InvFacts
<1> HIDE DEF n, c, v
<1>3. ASSUME NEW x \in Ends
      PROVE  /\ StoredExit(x) \in Keys(c)
             /\ (x \in 1 .. Most => x \in 1 .. n) => ResetValue(room, StoredExit(x)) = x
  <2>1. CASE x \in 1 .. n
    <3>1. StoredExit(x) = room[x].id
      BY <2>1 DEF StoredExit, Exists, Within, n
    <3>2. room[x].id \in 1 .. c - 1
      BY <1>2, <2>1 DEF World, Room
    <3>3. FindLoc(room, room[x].id) = x
      BY <1>2, <2>1, FindUnique
    <3>4. room[x].id # 0 /\ ~(room[x].id >= DOOR)
      BY <1>2, <3>2, EndFacts
    <3>5. ResetValue(room, room[x].id) = x
      BY <3>3, <3>4 DEF ResetValue
    <3>6. room[x].id \in Keys(c)
      BY <1>2, <3>2, EndFacts DEF Keys
    <3> QED
      BY <3>1, <3>5, <3>6
  <2>2. CASE x = 0
    <3>1. c # 0
      <4>1. Perm \in 1 .. n
        BY <1>2, Bounds
      <4>2. room[Perm].id \in 1 .. c - 1
        BY <1>2, <4>1 DEF World, Room
      <4> QED
        BY <4>2, <1>2
    <3>2. StoredExit(x) = 0
      <4>1. ~Exists(0)
        BY <1>2 DEF Exists, Within, n
      <4>2. StoredExit(0) = -0
        BY <4>1, EndFacts DEF StoredExit
      <4> QED
        BY <2>2, <4>2
    <3>3. 0 \in Keys(c)
      BY <1>2, <3>1, EndFacts DEF Keys
    <3>4. ResetValue(room, 0) = 0
      BY DEF ResetValue
    <3> QED
      BY <2>2, <3>2, <3>3, <3>4
  <2>3. CASE x \in 1 .. Most /\ x \notin 1 .. n
    <3>1. StoredExit(x) = -x
      BY <2>3, EndFacts DEF StoredExit, Exists, Within, n
    <3>2. -x \in -Most .. c - 1
      BY <1>2, <2>3, EndFacts
    <3> QED
      BY <2>3, <3>1, <3>2 DEF Keys
  <2>4. CASE x \in Others
    <3>1. x \in Nat /\ x >= DOOR /\ x \notin 1 .. n
      BY <1>2, <2>4, EndFacts
    <3>2. StoredExit(x) = x
      BY <3>1, EndFacts DEF StoredExit, Exists, Within, n
    <3> QED
      BY <2>4, <3>1, <3>2 DEF ResetValue, Keys
  <2> QED
    BY <2>1, <2>2, <2>3, <2>4, EndFacts
<1>4. ASSUME NEW r \in 1 .. n
      PROVE  /\ v[r] \in Room(c)
             /\ v[r].id = room[r].id /\ v[r].exit = room[r].exit
             /\ v[r].toMe = room[r].toMe
             /\ r \in Clones => v[r].reset = [d \in Dirs |-> StoredExit(room[r].exit[d])]
             /\ r \notin Clones => v[r] = room[r]
  <2>1. room[r] \in Room(c)
    BY <1>2 DEF World
  <2>2. CASE r \notin Clones
    BY <1>1, <1>2, <2>1, <2>2
  <2>3. CASE r \in Clones
    <3> DEFINE f == [d \in Dirs |-> StoredExit(room[r].exit[d])]
    <3>1. v[r] = [room[r] EXCEPT !.temp = FALSE, !.touched = FALSE, !.reset = f]
      BY <1>1, <1>2, <2>3 DEF Stored
    <3>2. f \in [Dirs -> Keys(c)]
      <4>1. \A d \in Dirs : room[r].exit[d] \in Ends
        BY <2>1 DEF Room
      <4> QED
        BY <1>3, <4>1
    <3> HIDE DEF f
    <3>3. v[r] \in Room(c)
      BY <2>1, <3>1, <3>2 DEF Room
    <3>4. /\ v[r].id = room[r].id /\ v[r].exit = room[r].exit
          /\ v[r].toMe = room[r].toMe /\ v[r].reset = f
      BY <2>1, <3>1 DEF Room
    <3> QED
      BY <2>3, <3>3, <3>4 DEF f
  <2> QED
    BY <2>2, <2>3
<1>5. v \in World(n, c)
  <2>1. v = [r \in 1 .. n |-> v[r]]
    BY <1>1, <1>2
  <2> QED
    BY <1>4, <2>1 DEF World
<1>6. Known(v, n, n, lost, blurred)
  <2>1. \A i \in 1 .. n : v[i].toMe = room[i].toMe /\ v[i].exit = room[i].exit
    BY <1>4
  <2>2. /\ Told(room, n, n, lost) /\ Meant(room, n, n, blurred) /\ Fresh(room, n, n)
        /\ n \in 0 .. n
    BY <1>2 DEF Known
  <2> QED
    BY <1>2, <2>1, <2>2, KnownSame
<1>7. Unique(v, n)
  BY <1>2, <1>4 DEF Unique
<1>8. \A x : ResetValue(v, x) = ResetValue(room, x)
  <2>1. \A i \in 1 .. n : v[i].id = room[i].id
    BY <1>4
  <2> QED
    BY <1>2, <1>5, <2>1, FindSame
<1>9. Restores(v, n, lost)
  <2> SUFFICES ASSUME NEW r \in 1 .. n, r \notin lost, ~v[r].touched, NEW d \in Dirs
               PROVE  v[r].exit[d] = ResetValue(v, v[r].reset[d])
    BY DEF Restores
  <2>1. CASE r \in Clones
    <3>1. v[r].reset[d] = StoredExit(room[r].exit[d]) /\ v[r].exit = room[r].exit
      BY <1>4, <2>1
    <3>2. room[r].exit[d] \in Ends
      BY <1>2 DEF World, Room
    <3>3. room[r].exit[d] \in 1 .. Most => room[r].exit[d] \in 1 .. n
      BY <1>2 DEF Known, Told
    <3>4. ResetValue(room, StoredExit(room[r].exit[d])) = room[r].exit[d]
      BY <1>3, <3>2, <3>3
    <3> QED
      BY <1>8, <3>1, <3>4
  <2>2. CASE r \notin Clones
    <3>1. v[r] = room[r]
      BY <1>4, <2>2
    <3>2. room[r].exit[d] = ResetValue(room, room[r].reset[d])
      BY <1>2, <3>1 DEF Restores
    <3> QED
      BY <1>8, <3>1, <3>2
  <2> QED
    BY <2>1, <2>2
<1> QED
  BY <1>1, <1>2, <1>5, <1>6, <1>7, <1>9, InvAgain DEF v, c

\* The rooms after the last of the rooms v has moved into the gap l, and where each of them
\* was before.
Shrunk(v, n, l) == [r \in 1 .. n - 1 |-> v[IF r = l THEN n ELSE r]]
From(r, n, l) == IF r = l THEN n ELSE r

\* Whoever is not among those that a move affects was not among them before it.
LEMMA MovedFacts ==
  ASSUME NEW n \in Nat, NEW l \in 1 .. n, NEW olds, NEW new, NEW r \in 1 .. n - 1,
         r \notin Moved(olds, new, n, l)
  PROVE  From(r, n, l) \notin olds /\ (l # n => From(r, n, l) \notin new)
<1>1. CASE l = n
  BY <1>1 DEF Moved, From
<1>2. CASE l # n
  <2> DEFINE q == From(r, n, l)
             S == (olds \cup new) \ {l}
  <2>1. q # l /\ (IF q = n THEN l ELSE q) = r
    BY <1>2 DEF From
  <2>2. Moved(olds, new, n, l) = {IF p = n THEN l ELSE p : p \in S}
    BY <1>2 DEF Moved
  <2> HIDE DEF S, q
  <2>3. q \notin S
    BY <2>1, <2>2
  <2> QED
    BY <2>1, <2>3 DEF S, q
<1> QED
  BY <1>1, <1>2

\* destruct_location(): nobody leads to l any more, and those that led to the last room, or
\* that it led to, are among the lost and the blurred.
LEMMA ShrinkKeeps ==
  ASSUME NEW n \in Nat, n <= Most, NEW c \in Nat, c <= DOOR, NEW gone, NEW bad,
         NEW w \in World(n, c), Unique(w, n), Restores(w, n, gone),
         NEW l \in 1 .. n, NEW v \in World(n, c), Known(v, n, n, gone, bad),
         Closing(v, w, n, l),
         \A i \in 1 .. n, d \in Dirs : i \notin gone => v[i].exit[d] # l,
         NEW gone2, NEW bad2,
         gone2 = Moved(gone, LostBy(v, n), n, l), bad2 = Moved(bad, BlurredBy(v, n), n, l)
  PROVE  /\ Shrunk(v, n, l) \in World(n - 1, c)
         /\ Known(Shrunk(v, n, l), n - 1, n - 1, gone2, bad2)
         /\ Unique(Shrunk(v, n, l), n - 1)
         /\ Restores(Shrunk(v, n, l), n - 1, gone2)
<1> DEFINE m == n - 1
           F(r) == From(r, n, l)
           u == Shrunk(v, n, l)
<1>1. /\ m \in Nat /\ n \in 1 .. n /\ m < n /\ l # 0 /\ n # 0
      /\ \A i \in 1 .. n : i \in 1 .. m \/ i = n
      /\ \A i \in 1 .. m : i \in 1 .. n /\ i # n
  OBVIOUS
<1>2. \A r \in 1 .. m : F(r) \in 1 .. n /\ F(r) # l /\ u[r] = v[F(r)]
  BY DEF Shrunk, From
<1>3. u = [r \in 1 .. m |-> u[r]]
  BY DEF Shrunk
<1>4. /\ \A q, r \in 1 .. m : F(q) = F(r) => q = r
      /\ F(l) = n /\ \A r : r # l => F(r) = r
  BY DEF From
<1>5. DOMAIN v = 1 .. n
  BY DEF World
<1> HIDE DEF u, m, F
<1>6. /\ Same(v, w, n)
      /\ \A i \in 1 .. n : v[i].touched \/ (~w[i].touched /\ v[i].exit = w[i].exit)
      /\ \A d \in Dirs : v[l].exit[d] = 0
  BY DEF Closing, Fewer
<1>7. Told(v, n, n, gone) /\ Meant(v, n, n, bad)
  BY DEF Known
<1>8. ASSUME NEW r \in 1 .. m, r \notin gone2
      PROVE  F(r) \notin gone /\ (l # n => F(r) \notin LostBy(v, n))
  BY <1>8, MovedFacts DEF m, F
<1>9. ASSUME NEW r \in 1 .. m, r \notin bad2
      PROVE  F(r) \notin bad /\ (l # n => F(r) \notin BlurredBy(v, n))
  BY <1>9, MovedFacts DEF m, F
<1>10. ASSUME NEW r \in 1 .. m PROVE u[r] \in Room(c)
  BY <1>2 DEF World
<1>11. u \in World(m, c)
  BY <1>3, <1>10 DEF World
\* A room of those not lost leads neither to l nor to the number of the last.
<1>12. ASSUME NEW r \in 1 .. m, r \notin gone2, NEW d \in Dirs
       PROVE  v[F(r)].exit[d] # l /\ v[F(r)].exit[d] # n
  <2> DEFINE i == F(r)
             y == v[i].exit[d]
  <2>1. i \in 1 .. n /\ i \notin gone /\ (l # n => i \notin LostBy(v, n))
    BY <1>2, <1>8, <1>12
  <2> HIDE DEF i
  <2>2. y # l
    BY <2>1
  <2>3. y # n
    <3>1. CASE l = n
      BY <2>2, <3>1
    <3>2. CASE l # n
      <4>1. i \notin LostBy(v, n)
        BY <2>1, <3>2
      <4>2. ~LeadsTo(v, i, n)
        BY <1>5, <2>1, <4>1 DEF LostBy
      <4> QED
        BY <4>2 DEF LeadsTo
    <3> QED
      BY <3>1, <3>2
  <2> QED
    BY <2>2, <2>3 DEF i
<1>13. Told(u, m, m, gone2)
  <2> SUFFICES ASSUME NEW r \in 1 .. m, r \notin gone2, NEW d \in Dirs,
                      u[r].exit[d] \in 1 .. Most
               PROVE  u[r].exit[d] \in 1 .. m /\ r \in u[u[r].exit[d]].toMe
    BY DEF Told
  <2> DEFINE i == F(r)
             y == u[r].exit[d]
  <2>1. i \in 1 .. n /\ y = v[i].exit[d] /\ y # l /\ y # n
    BY <1>2, <1>12
  <2>2. i \notin gone /\ (l # n => i \notin LostBy(v, n))
    BY <1>8
  <2>3. y \in 1 .. n /\ i \in v[y].toMe
    BY <1>7, <2>1, <2>2 DEF Told
  <2>4. y \in 1 .. m /\ F(y) = y
    BY <1>1, <1>4, <2>1, <2>3
  <2>5. r # l
    <3> SUFFICES ASSUME r = l PROVE FALSE
      OBVIOUS
    <3>1. l # n /\ i = n
      BY <1>1, <1>4
    <3>2. n \notin LostBy(v, n)
      BY <2>2, <3>1
    <3>3. LeadsTo(v, n, y)
      BY <2>1, <3>1 DEF LeadsTo
    <3> HIDE DEF y
    <3> QED
      BY <1>1, <1>5, <2>3, <3>2, <3>3 DEF LostBy
  <2>6. i = r
    BY <1>4, <2>5
  <2> HIDE DEF y, i
  <2>7. u[y] = v[y]
    BY <1>2, <2>4
  <2> QED
    BY <2>3, <2>4, <2>6, <2>7 DEF y
<1>14. Meant(u, m, m, bad2)
  <2> SUFFICES ASSUME NEW r \in 1 .. m, r \notin bad2, NEW s \in u[r].toMe
               PROVE  s \in 1 .. m /\ LeadsTo(u, s, r)
    BY DEF Meant
  <2> DEFINE q == F(r)
  <2>1. q \in 1 .. n /\ s \in v[q].toMe /\ q \notin bad
    BY <1>2, <1>9
  <2>2. l # n => q \notin BlurredBy(v, n)
    BY <1>9
  <2>3. s \in 1 .. n /\ LeadsTo(v, s, q)
    BY <1>7, <2>1 DEF Meant
  <2>4. s # l
    BY <1>1, <1>6, <2>1, <2>3 DEF LeadsTo
  <2>5. s # n /\ r # l
    <3>1. CASE l = n
      BY <1>1, <2>4, <3>1
    <3>2. CASE l # n
      <4>1. q \notin BlurredBy(v, n)
        BY <2>2, <3>2
      <4>2. n \notin v[q].toMe /\ ~(q = n /\ v[n].toMe # {})
        <5> HIDE DEF q
        <5> QED
          BY <1>5, <2>1, <4>1 DEF BlurredBy
      <4>3. s # n
        BY <2>1, <4>2
      <4>4. q # n
        BY <2>1, <4>2
      <4>5. r # l
        BY <1>4, <4>4
      <4> QED
        BY <4>3, <4>5
    <3> QED
      BY <3>1, <3>2
  <2>6. q = r /\ s \in 1 .. m /\ F(s) = s
    BY <1>1, <1>4, <2>3, <2>4, <2>5
  <2> HIDE DEF q
  <2>7. u[s] = v[s]
    BY <1>2, <2>6
  <2> QED
    BY <2>3, <2>6, <2>7 DEF LeadsTo
<1>15. Known(u, m, m, gone2, bad2)
  <2>1. Fresh(u, m, m)
    BY <1>1 DEF Fresh
  <2> QED
    BY <1>13, <1>14, <2>1 DEF Known
<1>16. ASSUME NEW r \in 1 .. m
       PROVE  u[r].id = w[F(r)].id /\ u[r].reset = w[F(r)].reset
  BY <1>2, <1>6 DEF Same
<1>17. Unique(u, m)
  <2> SUFFICES ASSUME NEW q \in 1 .. m, NEW r \in 1 .. m, u[q].id = u[r].id PROVE q = r
    BY DEF Unique
  <2>1. F(q) \in 1 .. n /\ F(r) \in 1 .. n /\ w[F(q)].id = w[F(r)].id
    BY <1>2, <1>16
  <2>2. F(q) = F(r)
    BY <2>1 DEF Unique
  <2> QED
    BY <1>4, <2>2
<1>18. Restores(u, m, gone2)
  <2> SUFFICES ASSUME NEW r \in 1 .. m, r \notin gone2, ~u[r].touched, NEW d \in Dirs
               PROVE  u[r].exit[d] = ResetValue(u, u[r].reset[d])
    BY DEF Restores
  <2> DEFINE i == F(r)
             x == w[i].reset[d]
             y == w[i].exit[d]
  <2>1. i \in 1 .. n /\ u[r] = v[i] /\ u[r].reset = w[i].reset /\ i \notin gone
    BY <1>2, <1>8, <1>16
  <2>2. v[i].exit[d] # l /\ v[i].exit[d] # n
    BY <1>12
  <2> HIDE DEF i
  <2>3. ~w[i].touched /\ v[i].exit = w[i].exit
    BY <1>6, <2>1
  <2>4. u[r].exit[d] = y /\ u[r].reset[d] = x
    BY <2>1, <2>3
  <2>5. y = ResetValue(w, x)
    BY <2>1, <2>3 DEF Restores
  <2>6. y # l /\ y # n
    BY <2>2, <2>3
  <2> HIDE DEF x, y
  <2>7. CASE x = 0 \/ x >= DOOR
    BY <2>4, <2>5, <2>7 DEF ResetValue
  <2>8. CASE ~(x = 0 \/ x >= DOOR)
    <3>1. y = FindLoc(w, x)
      BY <2>5, <2>8 DEF ResetValue
    <3>2. /\ y \in 0 .. n
          /\ y # 0 => w[y].id = x
          /\ y = 0 => \A q \in 1 .. n : w[q].id # x
      BY <3>1, FindIs
    <3>3. FindLoc(u, x) = y
      <4>1. CASE y = 0
        <5>1. \A q \in 1 .. m : u[q].id # x
          BY <1>2, <1>16, <3>2, <4>1
        <5> QED
          BY <1>1, <1>11, <1>17, <4>1, <5>1, FindUnique
      <4>2. CASE y # 0
        <5>1. y \in 1 .. n
          BY <3>2, <4>2
        <5>2. y \in 1 .. m /\ F(y) = y
          BY <1>1, <1>4, <2>6, <5>1
        <5>3. u[y].id = x
          BY <1>16, <3>2, <4>2, <5>2
        <5> QED
          BY <1>1, <1>11, <1>17, <5>2, <5>3, FindUnique
      <4> QED
        BY <4>1, <4>2
    <3> QED
      BY <2>4, <2>8, <3>3 DEF ResetValue
  <2> QED
    BY <2>7, <2>8
<1> QED
  BY <1>11, <1>15, <1>17, <1>18 DEF u, m

\* destruct_location(): whoever is in a room is in one of those that are left.
LEMMA DestructKeeps ==
  RInv /\ DestructLocation =>
    RInv' /\ (place[Mobile] # Nowhere => place'[Mobile] # Nowhere)
<1> SUFFICES ASSUME RInv, DestructLocation
             PROVE  RInv' /\ (place[Mobile] # Nowhere => place'[Mobile] # Nowhere)
  OBVIOUS
<1> DEFINE n == Len(room)
           c == counter
<1>1. PICK l \in Clones :
        /\ room' = [r \in 1 .. Len(room) - 1 |->
                      ClearedExits(l)[IF r = l THEN Len(room) ELSE r]]
        /\ place' = PlaceAfter(l)
        /\ place[Player] # l
        /\ lost' = Moved(lost, LostBy(ClearedExits(l), Len(room)), Len(room), l)
        /\ blurred' = Moved(blurred, BlurredBy(ClearedExits(l), Len(room)), Len(room), l)
  BY DEF DestructLocation
<1> DEFINE v == ClearedExits(l)
<1>2. /\ n \in Nat /\ Perm <= n /\ n <= Most /\ c \in Nat /\ c <= DOOR
      /\ room \in World(n, c) /\ Known(room, n, n, lost, blurred) /\ Unique(room, n)
      /\ Restores(room, n, lost) /\ DOMAIN room = 1 .. n /\ Placed(place, n)
  BY InvFacts
<1>3. counter' = c /\ l \in 1 .. n /\ ~(l <= Perm)
  <2>1. l \in DOMAIN room /\ ~(l <= Perm)
    BY DEF Clones, Permanent
  <2> QED
    BY <1>2, <2>1 DEF DestructLocation
<1>4. /\ v \in World(n, c) /\ Known(v, n, n, lost, blurred) /\ Closing(v, room, n, l)
      /\ \A i \in 1 .. n, d \in Dirs : i \notin lost => v[i].exit[d] # l
  BY <1>2, <1>3, ClearedExitsIs
<1>5. /\ room' = Shrunk(v, n, l)
      /\ lost' = Moved(lost, LostBy(v, n), n, l)
      /\ blurred' = Moved(blurred, BlurredBy(v, n), n, l)
      /\ place' = PlaceAfter(l)
  BY <1>1 DEF Shrunk
<1> HIDE DEF n, c, v
<1>6. /\ room' \in World(n - 1, c) /\ Known(room', n - 1, n - 1, lost', blurred')
      /\ Unique(room', n - 1) /\ Restores(room', n - 1, lost')
  BY <1>2, <1>3, <1>4, <1>5, ShrinkKeeps
<1>7. n - 1 \in Nat /\ Perm <= n - 1 /\ n - 1 <= Most
  BY <1>2, <1>3, Bounds, EndFacts
<1>8. Placed(place', n - 1) /\ (place[Mobile] # Nowhere => place'[Mobile] # Nowhere)
  <2> DEFINE P == {Player, Mobile}
  <2>1. Player \in P /\ Mobile \in P
    OBVIOUS
  <2> HIDE DEF P
  <2>2. place \in [P -> (0 .. n) \cup {Nowhere}] /\ place[Player] # Nowhere
    BY <1>2 DEF Placed, P
  <2>3. place' = [q \in P |-> CASE place[q] = l -> Out
                                [] place[q] = n /\ l # n -> l
                                [] OTHER -> place[q]]
    BY <1>5, <2>2 DEF PlaceAfter, n
  <2>4. ASSUME NEW q \in P
        PROVE  /\ place'[q] \in (0 .. n - 1) \cup {Nowhere}
               /\ place[q] # Nowhere => place'[q] # Nowhere
    <3>1. CASE place[q] = l
      <4>1. place'[q] = 0
        BY <2>3, <3>1 DEF Out
      <4> QED
        BY <1>7, <4>1 DEF Nowhere
    <3>2. CASE place[q] # l /\ place[q] = n
      <4>1. place'[q] = l
        BY <2>3, <3>2
      <4> QED
        BY <1>2, <1>3, <3>2, <4>1 DEF Nowhere
    <3>3. CASE place[q] # l /\ place[q] # n
      <4>1. place'[q] = place[q]
        BY <2>3, <3>3
      <4>2. place[q] \in (0 .. n) \cup {Nowhere}
        BY <2>2
      <4> QED
        BY <1>2, <3>3, <4>1, <4>2
    <3> QED
      BY <3>1, <3>2, <3>3
  <2>5. place' \in [P -> (0 .. n - 1) \cup {Nowhere}]
    BY <2>3, <2>4
  <2> QED
    BY <2>1, <2>2, <2>4, <2>5 DEF Placed, P
<1> QED
  BY <1>2, <1>3, <1>6, <1>7, <1>8, InvAgain DEF c

\* The resets: the mobile goes home.
LEMMA ResetRoomsKeeps ==
  RInv /\ (ResetWizZone \/ ResetZones) =>
    RInv' /\ (place[Mobile] # Nowhere => place'[Mobile] # Nowhere)
<1> SUFFICES ASSUME RInv, ResetWizZone \/ ResetZones
             PROVE  RInv' /\ (place[Mobile] # Nowhere => place'[Mobile] # Nowhere)
  OBVIOUS
<1> DEFINE n == Len(room)
<1>1. /\ n \in Nat /\ Perm <= n /\ n <= Most /\ counter \in Nat /\ counter <= DOOR
      /\ room \in Goods(n, counter, lost, blurred) /\ Placed(place, n)
  BY DEF RInv
<1>2. \A rs : ResetLocations(room, rs) \in Goods(n, counter, lost, blurred)
  BY <1>1, ResetLocationsGood
<1>3. /\ counter' = counter /\ lost' = lost /\ blurred' = blurred
      /\ room' \in Goods(n, counter, lost, blurred)
      /\ place' \in {place, [place EXCEPT ![Mobile] = 1]}
  <2>1. CASE ResetWizZone
    BY <1>2, <2>1 DEF ResetWizZone
  <2>2. CASE ResetZones
    <3>1. PICK zs : /\ room' = IF Home \in zs THEN ResetLocations(room, 1 .. Perm) ELSE room
                    /\ place' = IF Home \in zs THEN [place EXCEPT ![Mobile] = 1] ELSE place
      BY <2>2 DEF ResetZones
    <3> QED
      BY <1>1, <1>2, <2>2, <3>1 DEF ResetZones
  <2> QED
    BY <2>1, <2>2
<1> HIDE DEF n
<1>4. Placed(place', n) /\ (place[Mobile] # Nowhere => place'[Mobile] # Nowhere)
  <2>1. /\ place \in [{Player, Mobile} -> (0 .. n) \cup {Nowhere}] /\ place[Player] # Nowhere
        /\ 1 \in 0 .. n /\ 1 # Nowhere
    BY <1>1, Bounds DEF Placed, Nowhere
  <2>2. CASE place' = place
    BY <1>1, <2>2
  <2>3. CASE place' = [place EXCEPT ![Mobile] = 1]
    BY <2>1, <2>3 DEF Placed, Player, Mobile
  <2> QED
    BY <1>3, <2>2, <2>3
<1> QED
  BY <1>1, <1>3, <1>4, InvAgainGood

\* Whoever was in a room that was not joined with one that has moved is not nowhere.
Stays == place[Mobile] \in (DOMAIN room \ lost) \cup {Out} => place'[Mobile] # Nowhere

LEMMA StepGood == RInv /\ [Next]_vars => RInv' /\ Stays
<1> SUFFICES ASSUME RInv, [Next]_vars PROVE RInv' /\ Stays
  OBVIOUS
<1>1. place[Mobile] \in (DOMAIN room \ lost) \cup {Out} => place[Mobile] # Nowhere
  <2>1. DOMAIN room = 1 .. Len(room) /\ Len(room) \in Nat
    BY InvFacts
  <2> QED
    BY <2>1 DEF Nowhere, Out
<1>2. CASE HandleDoor \/ PushCross \/ UNCHANGED vars
  <2>1. UNCHANGED <<room, place, counter, lost, blurred>>
    BY <1>2 DEF HandleDoor, PushCross, vars
  <2> QED
    BY <1>1, <2>1 DEF RInv, Stays
<1>3. CASE Walk \/ Goto \/ Jump
  BY <1>1, <1>3, WalkKeeps DEF Stays
<1>4. CASE MoveMob
  <2>1. place[Mobile] # Out
    <3>1. Out \notin DOMAIN room /\ Out # Nowhere
      BY InvFacts DEF Out, Nowhere
    <3> QED
      BY <1>4, <3>1 DEF MoveMob
  <2> QED
    BY <1>4, <2>1, MoveMobKeeps DEF Stays
<1>5. CASE Exits
  <2>1. place' = place
    BY <1>5 DEF Exits
  <2> QED
    BY <1>1, <1>5, <2>1, ExitsKeeps DEF Stays
<1>6. CASE CloneLocation
  <2>1. place' = place
    BY <1>6 DEF CloneLocation
  <2> QED
    BY <1>1, <1>6, <2>1, CloneKeeps DEF Stays
<1>7. CASE Store
  <2>1. place' = place
    BY <1>7 DEF Store
  <2> QED
    BY <1>1, <1>7, <2>1, StoreKeeps DEF Stays
<1>8. CASE DestructLocation
  BY <1>1, <1>8, DestructKeeps DEF Stays
<1>9. CASE ResetWizZone \/ ResetZones
  BY <1>1, <1>9, ResetRoomsKeeps DEF Stays
<1> QED
  BY <1>2, <1>3, <1>4, <1>5, <1>6, <1>7, <1>8, <1>9 DEF Next

\* What the invariant says of each property.
LEMMA InvExits == RInv => ExitsKnown
<1> SUFFICES ASSUME RInv PROVE ExitsKnown
  OBVIOUS
<1> DEFINE n == Len(room)
<1>1. /\ room \in World(n, counter) /\ DOMAIN room = 1 .. n
      /\ Told(room, n, n, lost) /\ Meant(room, n, n, blurred)
  BY InvFacts DEF Known
<1> HIDE DEF n
<1>2. ASSUME NEW i \in DOMAIN room \ lost, NEW d \in Dirs,
             room[i].exit[d] # 0, room[i].exit[d] < DOOR
      PROVE  room[i].exit[d] \in DOMAIN room /\ i \in room[room[i].exit[d]].toMe
  <2>1. room[i].exit[d] \in Ends
    BY <1>1 DEF World, Room
  <2>2. room[i].exit[d] \in 1 .. Most
    BY <1>2, <2>1, EndFacts
  <2> QED
    BY <1>1, <2>2 DEF Told
<1>3. ASSUME NEW r \in DOMAIN room \ blurred, NEW i \in room[r].toMe
      PROVE  i \in DOMAIN room /\ LeadsTo(room, i, r)
  BY <1>1 DEF Meant
<1> QED
  BY <1>2, <1>3 DEF ExitsKnown

LEMMA InvPlayer == RInv => place[Player] \in DOMAIN room \cup {Out}
<1> SUFFICES ASSUME RInv PROVE place[Player] \in DOMAIN room \cup {Out}
  OBVIOUS
<1>1. /\ place \in [{Player, Mobile} -> (0 .. Len(room)) \cup {Nowhere}]
      /\ place[Player] # Nowhere
      /\ DOMAIN room = 1 .. Len(room) /\ Len(room) \in Nat
  BY InvFacts DEF Placed
<1> QED
  BY <1>1 DEF Out

Somewhere == place[Mobile] # Nowhere => place[Mobile] \in DOMAIN room \cup {Out}

LEMMA InvMobile == RInv => Somewhere
<1> SUFFICES ASSUME RInv, place[Mobile] # Nowhere
             PROVE  place[Mobile] \in DOMAIN room \cup {Out}
  BY DEF Somewhere
<1>1. /\ place \in [{Player, Mobile} -> (0 .. Len(room)) \cup {Nowhere}]
      /\ DOMAIN room = 1 .. Len(room) /\ Len(room) \in Nat
  BY InvFacts DEF Placed
<1> QED
  BY <1>1 DEF Out, Somewhere

LEMMA InvResets == RInv => ResetRestores
BY InvFacts DEF Restores, ResetRestores

-----------------------------------------------------------------------------
\* For any number of rooms, directions and doors, and whatever wizards change, clone, store
\* and destruct: every exit of a room that was not joined with one that has got another
\* number leads to a room that exists and knows of it, to a door, or nowhere; and a room
\* that no such room led to knows only of rooms with an exit to it (setexit(),
\* clone_location(), destruct_location()).
THEOREM ExitsCorrect == Spec => []ExitsKnown
<1>1. Init => RInv
  BY InitGood
<1>2. RInv /\ [Next]_vars => RInv'
  BY StepGood
<1>3. RInv => ExitsKnown
  BY InvExits
<1> QED
  BY <1>1, <1>2, <1>3, PTL DEF Spec

\* Players in the game are always in rooms that exist; and so is, after every step, a mobile
\* that is in one that was not joined with one that has got another number, although
\* movemob() does not ask (setploc(), movemob(), destruct_location()).
THEOREM PlacesCorrect == Spec => InARoom
<1>1. Init => RInv
  BY InitGood
<1>2. RInv /\ [Next]_vars => RInv'
  BY StepGood
<1>3. RInv => place[Player] \in DOMAIN room \cup {Out}
  BY InvPlayer
<1>4. RInv => Somewhere
  BY InvMobile
<1>5. RInv /\ Somewhere' /\ [Next]_vars =>
        [place[Mobile] \in (DOMAIN room \ lost) \cup {Out} =>
           place'[Mobile] \in DOMAIN room' \cup {Out}]_vars
  BY StepGood DEF Stays, Somewhere
<1> QED
  BY <1>1, <1>2, <1>3, <1>4, <1>5, PTL DEF Spec, InARoom

\* A room that is not touched, and was not joined with one that has got another number, has
\* the exits of a reset, so that a reset may pass it over (setexit(), storecom(),
\* reset_location()).
THEOREM ResetsCorrect == Spec => []ResetRestores
<1>1. Init => RInv
  BY InitGood
<1>2. RInv /\ [Next]_vars => RInv'
  BY StepGood
<1>3. RInv => ResetRestores
  BY InvResets
<1> QED
  BY <1>1, <1>2, <1>3, PTL DEF Spec
=============================================================================
