----------------------------- MODULE Coroutines -----------------------------
(***************************************************************************)
(* What the engine promises the scripts that call startthread and the      *)
(* breaks: cooperative threads. One runs at a time, the innermost of those *)
(* that have started one another; it runs until it breaks or ends. A       *)
(* thread that has called a break sleeps on that break and no other, is    *)
(* woken by the frame only, not before the frames it asked for have gone   *)
(* by, not before the thread it waits for is over, and never after it was  *)
(* destroyed. Threads that are stopped or have ended are destroyed by the  *)
(* frame, all of them.                                                     *)
(*                                                                         *)
(* No lists, no functions, no passes: how Threads keeps these promises is  *)
(* its business.                                                           *)
(***************************************************************************)
EXTENDS Naturals

CONSTANT MaxDelay  (* longest break, in frames                             *)

VARIABLES
  born,     (* threads started so far: they are numbered from 1            *)
  running,  (* those that have started one another, none asleep            *)
  asleep,   (* the break each sleeping thread has called                   *)
  over,     (* those that were stopped, have ended or are destroyed        *)
  breaks    (* breaks called so far                                        *)

coroutines == <<born, running, asleep, over, breaks>>

Sleeping == DOMAIN asleep

Innermost(t) == t \in running /\ \A u \in running : u <= t

Without(f, S) == [t \in DOMAIN f \ S |-> f[t]]

Init ==
  /\ born = 0 /\ breaks = 0
  /\ running = {} /\ over = {}
  /\ asleep = [t \in {} |-> {}]

(* A thread runs at once, inside the one that has started it.              *)
Start ==
  /\ born' = born + 1
  /\ running' = running \cup {born + 1}
  /\ UNCHANGED <<asleep, over, breaks>>

(* for frames, or for thread u (0 for none) to be over, or for something   *)
(* that is not told                                                        *)
Sleep(t, frames, u) ==
  /\ Innermost(t)
  /\ running' = running \ {t}
  /\ breaks' = breaks + 1
  /\ asleep' = [v \in Sleeping \cup {t} |->
                  IF v = t THEN [break |-> breaks + 1, frames |-> frames, thread |-> u]
                           ELSE asleep[v]]
  /\ UNCHANGED <<born, over>>

End(t) ==
  /\ Innermost(t)
  /\ running' = running \ {t}
  /\ over' = over \cup {t}
  /\ UNCHANGED <<born, asleep, breaks>>

Stop(S) ==
  /\ over' = over \cup S
  /\ UNCHANGED <<born, running, asleep, breaks>>

Destroy ==
  /\ running = {}
  /\ asleep' = Without(asleep, over)
  /\ UNCHANGED <<born, running, over, breaks>>

CountFrame ==
  /\ running = {}
  /\ asleep' = [t \in Sleeping |->
                  [asleep[t] EXCEPT !.frames = IF @ = 0 THEN 0 ELSE @ - 1]]
  /\ UNCHANGED <<born, running, over, breaks>>

Wake(t) ==
  /\ running = {} /\ t \in Sleeping
  /\ asleep[t].frames = 0
  /\ asleep[t].thread \in over \cup {0}
  /\ running' = {t}
  /\ asleep' = Without(asleep, {t})
  /\ UNCHANGED <<born, over, breaks>>

Next ==
  \/ Start \/ Destroy \/ CountFrame
  \/ \E S \in SUBSET (1..born) : Stop(S)
  \/ \E t \in 1..born :
       \/ End(t) \/ Wake(t)
       \/ \E frames \in 0..MaxDelay, u \in 0..born : Sleep(t, frames, u)

Spec == Init /\ [][Next]_coroutines

=============================================================================
