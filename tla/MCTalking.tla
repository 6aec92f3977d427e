------------------------------ MODULE MCTalking ------------------------------
(* Two actors, or one, and the sounds that scripts play beside the voices. *)
EXTENDS Talking, TLC

TwiceOrEndless == {-1, 2}

Endless == {-1}

(* No definition of Talking tells one entity from another.                 *)
AnyEntity == Permutations(Entities)

=============================================================================
