------------------------------ MODULE MCCamera ------------------------------
(* A closeup, shown whole, and a room twice as wide as the screen, which   *)
(* scripts may bound to its left; two places further apart than the camera *)
(* lets an actor go.                                                       *)
EXTENDS Camera, TLC

CONSTANTS narrow, wide

WidthOf == (narrow :> 6) @@ (wide :> 8)
HalfOf == (narrow :> 3) @@ (wide :> 2)

ToTheLeft == {[low |-> 0, high |-> 1]}

(* No definition of Rooms and Camera tells one actor from another.         *)
AnyActor == Permutations(Actors)

=============================================================================
