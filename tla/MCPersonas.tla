----------------------------- MODULE MCPersonas -----------------------------
(* A small instance of Personas: names, and values, are as good as each other. *)
EXTENDS Personas, TLC
Alike == {p @@ q : p \in Permutations(Names), q \in Permutations(Values)}
=============================================================================
