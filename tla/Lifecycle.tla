------------------------------ MODULE Lifecycle ------------------------------
(***************************************************************************)
(* What the session layer promises for each entry of players[]: a slot is  *)
(* free, is taken by a connection that logs in, enters the game at most    *)
(* once, leaves, and is given back before anyone else can have it.  The    *)
(* whole process may be restarted at any moment, which frees every slot.   *)
(***************************************************************************)
CONSTANT Slots

VARIABLE status

Status == {"free", "login", "game", "leaving"}

Init == status = [i \in Slots |-> "free"]

Move(i, from, to) ==
  /\ status[i] \in from
  /\ status' = [status EXCEPT ![i] = to]

Connect(i) == Move(i, {"free"}, "login")
Enter(i)   == Move(i, {"login"}, "game")
Leave(i)   == Move(i, {"login", "game"}, "leaving")
Close(i)   == Move(i, {"leaving"}, "free")

Restart == status' = [i \in Slots |-> "free"]

Next ==
  \/ \E i \in Slots : Connect(i) \/ Enter(i) \/ Leave(i) \/ Close(i)
  \/ Restart

Spec == Init /\ [][Next]_status

\* Whoever leaves gives his slot back: again and again nobody is leaving any more, as the
\* main loop works off its quit list to the end (main.c:546, 578).
EventuallyFreed == []<>(\A i \in Slots : status[i] /= "leaving")
==============================================================================
