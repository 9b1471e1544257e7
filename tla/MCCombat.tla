------------------------------ MODULE MCCombat ------------------------------
(* A wizard, a mortal, and one mobile, in a hall and a quiet cell. *)
EXTENDS Combat

CONSTANTS hall, grave

MCHome == [m \in {2} |-> hall]
=============================================================================
