------------------------------ MODULE MCSaved ------------------------------
(* Ray and Reyes have the first two slots, the third is empty; the sheriff *)
(* has none. Ray holds a key; a phone is in a booth, a pseudo-room.        *)
EXTENDS SavedGames

CONSTANTS ray, reyes, sheriff, key, phone, Bridge, Hotel

MCFirstSlots ==
  <<[actor |-> ray, selectable |-> TRUE], [actor |-> reyes, selectable |-> TRUE],
    [actor |-> None, selectable |-> FALSE]>>

MCFirstHeld == [a \in Actors |-> IF a = ray THEN <<key>> ELSE <<>>]

MCInitState == [o \in Objects |-> IF o = phone THEN 1 ELSE 0]
MCInitTouchable == [o \in Objects |-> TRUE]

=============================================================================
