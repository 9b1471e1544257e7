------------------------------- MODULE MCRooms -------------------------------
(* Two permanent rooms with a door and a hole between them. *)
EXTENDS Rooms, TLC
MCMap == (1 :> (1 :> 2 @@ 2 :> 2)) @@ (2 :> (1 :> 102 @@ 2 :> EX_SPECIAL))
MCLinked == 100 :> 101 @@ 101 :> 100 @@ 102 :> 103 @@ 103 :> 102
MCAt == 100 :> 1 @@ 101 :> 2 @@ 102 :> 2 @@ 103 :> 1
MCDoorZone == 100 :> 2 @@ 101 :> 2 @@ 102 :> 1 @@ 103 :> 1
MCStateReset == [k \in {1, 2, 100, 101, 102, 103} |-> IF k \in {100, 101} THEN 0 ELSE 1]
MCChanged == {<<1, 1>>, <<3, 1>>}
MCLeaps == 2 :> 1
=============================================================================
