----------------------------- MODULE Traversal -----------------------------
(***************************************************************************)
(* What a set with a cursor promises to the loops of the game: a traversal *)
(* may begin at any time, it comes by every element once, in any order,    *)
(* and it goes on correctly when the body of the loop puts elements into   *)
(* the set and takes them out, the current one or any other.               *)
(***************************************************************************)
CONSTANTS Elems, SetEnd

VARIABLES
  members,  \* the elements of the set
  todo,     \* those that the traversal has still to come by
  got       \* what the traversal has come to last

vars == <<members, todo, got>>

Init == members = {} /\ todo = {} /\ got = SetEnd

Add(n) ==
  /\ members' = members \cup {n}
  /\ todo' = IF n \in members THEN todo ELSE todo \cup {n}
  /\ UNCHANGED got

Remove(n) ==
  /\ members' = members \ {n}
  /\ todo' = todo \ {n}
  /\ UNCHANGED got

First(n) ==
  /\ n \in members
  /\ got' = n /\ todo' = members \ {n}
  /\ UNCHANGED members

Following(n) ==
  /\ n \in todo
  /\ got' = n /\ todo' = todo \ {n}
  /\ UNCHANGED members

\* No first element, or none after the last.
Done ==
  /\ todo = {}
  /\ got' = SetEnd
  /\ UNCHANGED <<members, todo>>

Next ==
  \/ \E n \in Elems : Add(n) \/ Remove(n) \/ First(n) \/ Following(n)
  \/ Done

Spec == Init /\ [][Next]_vars
==============================================================================
