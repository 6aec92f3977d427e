---------------------------- MODULE MCCallbacks ----------------------------
(* A small instance of Callbacks for TLC: delays that are over at once, or *)
(* after one frame or two.                                                 *)
EXTENDS Callbacks

TwoDelays == {0, 2}

TwoFrames == {1, 2}

=============================================================================
