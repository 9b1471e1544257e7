------------------------------ MODULE MCClones ------------------------------
(* Two players and a mobile in one room, a thing that lies there: permanent, and *)
(* what all copies are made of.                                               *)
EXTENDS Clones

MCConst == [loc |-> 1, mob |-> 3, obj |-> 1]
MCMost == [loc |-> 3, mob |-> 5, obj |-> 3]
MCHomes == [loc |-> [i \in {0} |-> Limbo], mob |-> [i \in 0 .. 2 |-> <<"loc", 0>>],
           obj |-> [i \in {0} |-> <<"loc", 0>>]]
=============================================================================
