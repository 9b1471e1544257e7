----------------------------- MODULE MCObjects -----------------------------
(* A small world for TLC: a hall with a pit in it, the floor of that pit, and *)
(* the room of the dead; two things that are containers and worn on the same   *)
(* place of the body, one lying in the hall, one wielded by a goblin.         *)
EXTENDS Objects

CONSTANTS mortal, wizard, goblin, bag, box, hall, pit, grave

Both == {bag, box}
MCLandsIn == [r \in {hall, pit, grave} |-> IF r = hall THEN {hall, pit} ELSE {r}]
MCOutlet == [r \in {pit} |-> hall]
MCKinds == {Both}
MCSize == [o \in Both |-> IF o = bag THEN 1 ELSE 2]
MCLimit == [x \in {mortal} |-> 1]
MCStealable == [m \in {goblin} |-> {"CARRIED_BY", "WORN_BY"}]
MCZones == {{bag}, {box, goblin}}
MCHomeLoc == [o \in Both |-> IF o = bag THEN hall ELSE goblin]
MCHomeFlag == [o \in Both |-> IF o = bag THEN "IN_ROOM" ELSE "WIELDED_BY"]
MCMobHome == [m \in {goblin} |-> hall]
=============================================================================
