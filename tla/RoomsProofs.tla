---------------------------- MODULE RoomsProofs ----------------------------
(***************************************************************************)
(* Proofs about Rooms and about Camera, for any rooms of any width, any    *)
(* actors, places and bounds, and any number of doings, so for changes of  *)
(* room nested to any depth. First Rooms: the types, and the three safety  *)
(* properties of the run rooms. Then Camera: it is in the room on screen,  *)
(* the pan that a script asks for is kept, and what was proved of Rooms    *)
(* holds with the camera, too.                                             *)
(***************************************************************************)
EXTENDS Camera, SequenceTheorems, TLAPS

(* As long as no room was left by a script of a room's being left: a room  *)
(* is being left by one change at most, which is for the room on screen    *)
(* and the innermost but for selections of actors that it has called; and  *)
(* the room is empty once exitedRoom is called.                            *)
ChangesOK ==
  ~nested =>
    /\ \A i \in 1..Len(calls) : calls[i].stage \in Leaving =>
         /\ calls[i].from = current
         /\ \A j \in 1..Len(calls) : i < j => calls[j].stage = "onActorSelected"
    /\ In({"exitedRoom"}) => made[current] # "some"

(* The inductive invariant. EnteredIsCurrent and LeftRoomIsEmpty are not   *)
(* inductive alone: when exitedRoom returns, the room entered is the room  *)
(* on screen and that left is empty because, says ChangesOK, the room this *)
(* change leaves is the one on screen, and no other change is leaving one. *)
RoomsInv == TypeOK /\ EnteredIsCurrent /\ ThreadsOfTheRoom /\ LeftRoomIsEmpty /\ ChangesOK

-----------------------------------------------------------------------------
(* The stack of calls                                                      *)

LEMMA Pushed ==
  ASSUME NEW s \in Seq(Call), NEW c \in Call
  PROVE  /\ Append(s, c) \in Seq(Call)
         /\ Len(Append(s, c)) = Len(s) + 1
         /\ \A i \in 1..Len(s) : Append(s, c)[i] = s[i]
         /\ Append(s, c)[Len(s) + 1] = c
BY AppendProperties

LEMMA Popped ==
  ASSUME calls \in Seq(Call), calls # <<>>
  PROVE  /\ Below \in Seq(Call)
         /\ Len(calls) \in Nat \ {0}
         /\ Len(Below) = Len(calls) - 1
         /\ \A i \in 1..Len(Below) : Below[i] = calls[i]
         /\ Top \in Call
<1>1. Len(calls) \in Nat \ {0}
  BY EmptySeq, LenProperties
<1>2. /\ Below \in Seq(Call)
      /\ Len(Below) = Len(calls) - 1
      /\ \A i \in 1..Len(Below) : Below[i] = calls[i]
  <2> DEFINE n == Len(calls) - 1
  <2>1. n \in Nat /\ \A i \in 1..n : calls[i] \in Call
    BY <1>1, ElementOfSeq
  <2>2. Below = SubSeq(calls, 1, n)
    BY DEF Below
  <2> HIDE DEF n
  <2>3. /\ Below \in Seq(Call)
        /\ Len(Below) = IF 1 <= n THEN n - 1 + 1 ELSE 0
        /\ \A i \in 1..(n - 1 + 1) : Below[i] = calls[1 + i - 1]
    BY <2>1, <2>2, SubSeqProperties
  <2>4. n - 1 + 1 = n /\ (IF 1 <= n THEN n - 1 + 1 ELSE 0) = n
    BY <2>1
  <2>5. \A i \in 1..n : 1 + i - 1 = i
    BY <2>1
  <2>6. Len(Below) = n /\ \A i \in 1..n : Below[i] = calls[i]
    BY <2>3, <2>4, <2>5, Zenon
  <2> QED BY <2>3, <2>6 DEF n
<1>3. Top \in Call
  BY <1>1, ElementOfSeq DEF Top
<1> QED BY <1>1, <1>2, <1>3

(* A script of the innermost change has returned and the next is called.   *)
LEMMA NextScript ==
  ASSUME calls \in Seq(Call), calls # <<>>,
         NEW stage \in Leaving \cup Entering \cup {"start"}, Calls(stage)
  PROVE  /\ calls' \in Seq(Call)
         /\ Len(calls') = Len(calls) /\ Len(calls) \in Nat \ {0}
         /\ \A i \in 1..(Len(calls) - 1) : calls'[i] = calls[i]
         /\ calls'[Len(calls)].stage = stage
         /\ calls'[Len(calls)].from = calls[Len(calls)].from
         /\ calls'[Len(calls)].to = calls[Len(calls)].to
<1> DEFINE c == [Top EXCEPT !.stage = stage]
<1>1. /\ Below \in Seq(Call)
      /\ Len(calls) \in Nat \ {0}
      /\ Len(Below) = Len(calls) - 1
      /\ \A i \in 1..Len(Below) : Below[i] = calls[i]
      /\ Top \in Call
  BY Popped
<1>2. c \in Call /\ c.stage = stage /\ c.from = Top.from /\ c.to = Top.to
  BY <1>1 DEF Call
<1>3. calls' = Append(Below, c)
  BY DEF Calls
<1> HIDE DEF c
<1>4. /\ Append(Below, c) \in Seq(Call)
      /\ Len(Append(Below, c)) = Len(Below) + 1
      /\ \A i \in 1..Len(Below) : Append(Below, c)[i] = Below[i]
      /\ Append(Below, c)[Len(Below) + 1] = c
  BY <1>1, <1>2, Pushed
<1> QED BY <1>1, <1>2, <1>3, <1>4 DEF Top

-----------------------------------------------------------------------------
(* The steps                                                               *)

LEMMA InitInv == Init => RoomsInv
<1> SUFFICES ASSUME Init PROVE RoomsInv
  OBVIOUS
<1> USE RoomsAssumption DEF Init
<1>1. Len(calls) = 0 /\ calls \in Seq(Call) /\ \A S : ~In(S)
  BY DEF In
<1>2. TypeOK
  <2>1. made \in [Rooms -> {"none", "some", "late"}] /\ doings \in 0..MaxDoings
    OBVIOUS
  <2>2. \A i \in 1..Len(calls) : calls[i].to \in Rooms
    BY <1>1
  <2>3. ~In({"onActorSelected"})
    BY <1>1 DEF In
  <2> QED BY <1>1, <2>1, <2>2, <2>3 DEF TypeOK
<1>3. EnteredIsCurrent /\ ThreadsOfTheRoom /\ LeftRoomIsEmpty
  BY <1>1 DEF EnteredIsCurrent, ThreadsOfTheRoom, LeftRoomIsEmpty, Between
<1>4. ChangesOK
  BY <1>1 DEF ChangesOK
<1> QED BY <1>2, <1>3, <1>4 DEF RoomsInv

(* A change begins on top of the calls under way, or in place of the       *)
(* selection of an actor that ends with it.                                *)
LEMMA BeginStep ==
  ASSUME RoomsInv,
         NEW below \in Seq(Call), Len(below) <= Len(calls),
         \A i \in 1..Len(below) : below[i] = calls[i],
         \A i \in 1..Len(calls) : Len(below) < i => calls[i].stage = "onActorSelected",
         NEW to \in Rooms \cup {None}, NEW door \in BOOLEAN,
         BeginChange(below, to, door),
         startScreen' \in BOOLEAN, startScreen' => startScreen, startScreen' => to \in Rooms,
         doings' \in 0..MaxDoings,
         UNCHANGED <<phase, passRoom, current, actor, actorRoom, threads, made, abandoned>>
  PROVE  RoomsInv'
<1> DEFINE stage == IF actor = None THEN "exit" ELSE "actorExit"
           c == [stage |-> stage, from |-> current, to |-> to, door |-> door]
           n == Len(below)
<1> USE DEF RoomsInv
<1>1. stage \in {"exit", "actorExit"} /\ (stage = "exit" <=> actor = None)
  OBVIOUS
<1>2. c \in Call /\ c.stage = stage /\ c.from = current /\ c.to = to
  BY DEF Call, Leaving, TypeOK
<1>3. /\ calls' = Append(below, c)
      /\ entered' = IF stage = "exit" THEN entered \ {current} ELSE entered
      /\ nested' = (nested \/ In(Leaving))
  BY DEF BeginChange
<1> HIDE DEF c, stage
<1>4. n \in Nat /\ Len(calls) \in Nat
  BY LenProperties DEF TypeOK
<1>5. /\ calls' \in Seq(Call)
      /\ Len(calls') = n + 1
      /\ \A i \in 1..n : calls'[i] = calls[i]
      /\ calls'[n + 1] = c
  BY <1>2, <1>3, Pushed
<1> HIDE DEF n
<1>6. TypeOK'
  <2>1. In({"onActorSelected"})' => In({"onActorSelected"})
    BY <1>1, <1>2, <1>4, <1>5 DEF In, n
  <2>2. startScreen' => \A i \in 1..Len(calls') :
          calls'[i].to \in Rooms \/ calls'[i].stage = "onActorSelected"
    <3> SUFFICES ASSUME startScreen', NEW i \in 1..Len(calls')
                 PROVE  calls'[i].to \in Rooms \/ calls'[i].stage = "onActorSelected"
      OBVIOUS
    <3>1. CASE i \in 1..n
      <4>1. calls'[i] = calls[i] /\ i \in 1..Len(calls)
        BY <1>5, <3>1 DEF n
      <4> QED BY <4>1 DEF TypeOK
    <3>2. CASE i = n + 1
      BY <1>2, <1>5, <3>2
    <3> QED BY <1>4, <1>5, <3>1, <3>2
  <2>3. entered' \subseteq Rooms /\ nested' \in BOOLEAN
    BY <1>3 DEF TypeOK, In
  <2> QED BY <1>5, <2>1, <2>2, <2>3 DEF TypeOK
<1>7. ThreadsOfTheRoom' /\ LeftRoomIsEmpty'
  BY <1>3 DEF ThreadsOfTheRoom, LeftRoomIsEmpty
<1>8. ~nested' => /\ ~nested
                  /\ \A i \in 1..Len(calls) : calls[i].stage \notin Leaving
  BY <1>3 DEF In
<1>9. EnteredIsCurrent'
  <2>1. SUFFICES ASSUME ~nested'
                 PROVE  entered' = IF Between' \/ abandoned THEN {} ELSE {current}
    BY DEF EnteredIsCurrent
  <2>2. ~Between
    BY <1>8, <2>1 DEF Between, In, Leaving
  <2>3. Between' <=> stage = "exit"
    <3>1. \A i \in 1..n : calls'[i].stage \notin {"exit", "exitedRoom"}
      BY <1>4, <1>5, <1>8, <2>1 DEF Leaving, n
    <3> QED BY <1>1, <1>2, <1>4, <1>5, <3>1 DEF Between, In
  <2>4. entered = IF abandoned THEN {} ELSE {current}
    BY <1>8, <2>1, <2>2 DEF EnteredIsCurrent
  <2> QED BY <1>3, <2>3, <2>4
<1>10. ChangesOK'
  <2>1. SUFFICES ASSUME ~nested'
                 PROVE  /\ \A i \in 1..Len(calls') : calls'[i].stage \in Leaving =>
                             /\ calls'[i].from = current
                             /\ \A j \in 1..Len(calls') : i < j => calls'[j].stage = "onActorSelected"
                        /\ ~In({"exitedRoom"})'
    BY DEF ChangesOK
  <2>2. \A i \in 1..n : calls'[i].stage \notin Leaving
    BY <1>4, <1>5, <1>8, <2>1 DEF n
  <2> QED BY <1>1, <1>2, <1>4, <1>5, <2>2 DEF In, Leaving
<1> QED BY <1>6, <1>7, <1>9, <1>10

LEMMA MayStep == ASSUME RoomsInv, May PROVE doings' \in 0..MaxDoings
<1>1. doings \in 0..MaxDoings /\ MaxDoings \in Nat
  BY RoomsAssumption DEF RoomsInv, TypeOK
<1> QED BY <1>1 DEF May

(* The scripts and the player begin a change of room.                      *)
LEMMA SetRoomStep ==
  ASSUME RoomsInv, NEW r \in Rooms, SetRoom(r) \/ EnterRoomFromDoor(r)
  PROVE  RoomsInv'
<1>1. calls \in Seq(Call) /\ Len(calls) \in Nat /\ startScreen \in BOOLEAN
  BY LenProperties DEF RoomsInv, TypeOK
<1>2. PICK door \in BOOLEAN : BeginChange(calls, r, door)
  BY DEF SetRoom, EnterRoomFromDoor
<1>3. UNCHANGED <<phase, passRoom, current, actor, actorRoom, startScreen, threads,
                  made, abandoned>>
  BY DEF SetRoom, EnterRoomFromDoor
<1>4. doings' \in 0..MaxDoings
  BY MayStep DEF SetRoom, EnterRoomFromDoor
<1> QED BY <1>1, <1>2, <1>3, <1>4, BeginStep

LEMMA NewGameStep == ASSUME RoomsInv, NewGame PROVE RoomsInv'
<1>1. calls \in Seq(Call) /\ Len(calls) \in Nat
  BY LenProperties DEF RoomsInv, TypeOK
<1>2. PICK door \in BOOLEAN : BeginChange(calls, None, door)
  BY DEF NewGame
<1>3. UNCHANGED <<phase, passRoom, current, actor, actorRoom, threads, made, abandoned>>
  BY DEF NewGame
<1>4. doings' \in 0..MaxDoings
  BY MayStep DEF NewGame
<1>5. /\ startScreen' \in BOOLEAN
      /\ startScreen' => startScreen
      /\ startScreen' => None \in Rooms
  BY DEF NewGame
<1>6. None \in Rooms \cup {None} /\ \A i \in 1..Len(calls) : ~(Len(calls) < i)
  BY <1>1
<1> QED BY <1>1, <1>2, <1>3, <1>4, <1>5, <1>6, BeginStep

(* The innermost call returns, and it was leaving no room.                 *)
LEMMA PopStep ==
  ASSUME RoomsInv, calls # <<>>, Top.stage \notin Leaving, calls' = Below,
         UNCHANGED <<phase, passRoom, current, actor, actorRoom, startScreen, threads,
                     made, entered, abandoned, nested, doings>>
  PROVE  RoomsInv'
<1> DEFINE n == Len(calls)
<1> USE DEF RoomsInv
<1>1. /\ calls' \in Seq(Call)
      /\ n \in Nat \ {0}
      /\ Len(calls') = n - 1
      /\ \A i \in 1..Len(calls') : calls'[i] = calls[i]
  BY Popped DEF TypeOK
<1>2. Top = calls[n] /\ calls[n].stage \notin Leaving
  BY DEF Top
<1> HIDE DEF n
<1>3. \A S : S \subseteq Leaving \cup {"onActorSelected"} => (In(S)' => In(S))
  BY <1>1 DEF In, n
<1>4. \A S : S \subseteq Leaving => (In(S) => In(S)')
  BY <1>1, <1>2 DEF In, n
<1>5. TypeOK'
  <2>1. In({"onActorSelected"})' => In({"onActorSelected"})
    BY <1>3
  <2>2. startScreen' => \A i \in 1..Len(calls') :
          calls'[i].to \in Rooms \/ calls'[i].stage = "onActorSelected"
    BY <1>1 DEF TypeOK, n
  <2> QED BY <1>1, <2>1, <2>2 DEF TypeOK
<1>6. ThreadsOfTheRoom' /\ LeftRoomIsEmpty'
  BY DEF ThreadsOfTheRoom, LeftRoomIsEmpty
<1>7. EnteredIsCurrent'
  <2>1. Between' <=> Between
    BY <1>3, <1>4 DEF Between, Leaving
  <2> QED BY <2>1 DEF EnteredIsCurrent
<1>8. ChangesOK'
  <2>1. In({"exitedRoom"})' => In({"exitedRoom"})
    BY <1>3 DEF Leaving
  <2> QED BY <1>1, <2>1 DEF ChangesOK, n
<1> QED BY <1>5, <1>6, <1>7, <1>8

(* The selection of an actor ends with a change of room, or with none.     *)
LEMMA ReturnOnActorSelectedStep ==
  ASSUME RoomsInv, ReturnOnActorSelected PROVE RoomsInv'
<1> DEFINE n == Len(calls)
<1> USE DEF RoomsInv, ReturnOnActorSelected
<1>1. calls # <<>> /\ Top.stage = "onActorSelected"
  BY DEF At
<1>2. /\ Below \in Seq(Call)
      /\ n \in Nat \ {0}
      /\ Len(Below) = n - 1
      /\ \A i \in 1..Len(Below) : Below[i] = calls[i]
  BY <1>1, Popped DEF TypeOK
<1>3. CASE Stays(actorRoom[actor])
  BY <1>1, <1>3, PopStep DEF Leaving
<1>4. CASE ~Stays(actorRoom[actor])
  <2>1. In({"onActorSelected"})
    BY <1>1, <1>2 DEF In, Top
  <2>2. actorRoom[actor] \in Rooms
    BY <1>4, <2>1 DEF Stays, TypeOK
  <2>3. \A i \in 1..n : Len(Below) < i => calls[i].stage = "onActorSelected"
    BY <1>1, <1>2 DEF Top
  <2>4. PICK door \in BOOLEAN : BeginChange(Below, actorRoom[actor], door)
    BY <1>4
  <2>5. startScreen \in BOOLEAN /\ doings \in 0..MaxDoings /\ Len(Below) <= n
    BY <1>2 DEF TypeOK
  <2>6. UNCHANGED <<phase, passRoom, current, actor, actorRoom, startScreen, threads,
                    made, abandoned, doings>>
    OBVIOUS
  <2> HIDE DEF RoomsInv, ReturnOnActorSelected
  <2> QED BY <1>2, <2>2, <2>3, <2>4, <2>5, <2>6, BeginStep
<1> QED BY <1>3, <1>4

(* actorExit returns: the room's exit is called.                           *)
LEMMA ReturnActorExitStep == ASSUME RoomsInv, ReturnActorExit PROVE RoomsInv'
<1> DEFINE n == Len(calls)
<1> USE DEF RoomsInv, ReturnActorExit
<1>1. calls # <<>> /\ calls[n].stage = "actorExit" /\ entered' = entered \ {calls[n].from}
  BY DEF At, Top
<1>2. /\ calls' \in Seq(Call)
      /\ Len(calls') = n /\ n \in Nat \ {0}
      /\ \A i \in 1..(n - 1) : calls'[i] = calls[i]
      /\ calls'[n].stage = "exit"
      /\ calls'[n].from = calls[n].from
      /\ calls'[n].to = calls[n].to
  BY <1>1, NextScript DEF TypeOK, Leaving
<1> HIDE DEF n
<1>3. TypeOK'
  <2>1. In({"onActorSelected"})' => In({"onActorSelected"})
    BY <1>2 DEF In, n
  <2>2. startScreen' => \A i \in 1..Len(calls') :
          calls'[i].to \in Rooms \/ calls'[i].stage = "onActorSelected"
    BY <1>1, <1>2 DEF TypeOK, n
  <2> QED BY <1>1, <1>2, <2>1, <2>2 DEF TypeOK
<1>4. ThreadsOfTheRoom' /\ LeftRoomIsEmpty'
  BY DEF ThreadsOfTheRoom, LeftRoomIsEmpty
<1>5. EnteredIsCurrent'
  <2>1. SUFFICES ASSUME ~nested PROVE entered' = {} /\ Between'
    BY DEF EnteredIsCurrent
  <2>2. calls[n].from = current /\ ~Between
    BY <1>1, <1>2, <2>1 DEF ChangesOK, Between, In, Leaving, n
  <2>3. Between'
    BY <1>2 DEF Between, In
  <2> QED BY <1>1, <2>1, <2>2, <2>3 DEF EnteredIsCurrent
<1>6. ChangesOK'
  <2>1. In({"exitedRoom"})' => In({"exitedRoom"})
    BY <1>2 DEF In, n
  <2> QED BY <1>1, <1>2, <2>1 DEF ChangesOK, Leaving, n
<1> QED BY <1>3, <1>4, <1>5, <1>6

(* exit returns: the room is emptied, and exitedRoom is called.            *)
LEMMA ReturnExitStep == ASSUME RoomsInv, ReturnExit PROVE RoomsInv'
<1> DEFINE n == Len(calls)
<1> USE DEF RoomsInv, ReturnExit
<1>1. /\ calls # <<>> /\ calls[n].stage = "exit"
      /\ made' = [made EXCEPT ![calls[n].from] = "none"]
  BY DEF At, Top, Empties
<1>2. /\ calls' \in Seq(Call)
      /\ Len(calls') = n /\ n \in Nat \ {0}
      /\ \A i \in 1..(n - 1) : calls'[i] = calls[i]
      /\ calls'[n].stage = "exitedRoom"
      /\ calls'[n].from = calls[n].from
      /\ calls'[n].to = calls[n].to
  BY <1>1, NextScript DEF TypeOK, Leaving
<1>3. calls[n].from \in Rooms
  BY <1>1, Popped DEF TypeOK, Call, Top
<1> HIDE DEF n
<1>4. TypeOK'
  <2>1. In({"onActorSelected"})' => In({"onActorSelected"})
    BY <1>2 DEF In, n
  <2>2. startScreen' => \A i \in 1..Len(calls') :
          calls'[i].to \in Rooms \/ calls'[i].stage = "onActorSelected"
    BY <1>1, <1>2 DEF TypeOK, n
  <2>3. made' \in [Rooms -> {"none", "some", "late"}]
    BY <1>1 DEF TypeOK
  <2> QED BY <1>2, <2>1, <2>2, <2>3 DEF TypeOK
<1>5. ThreadsOfTheRoom'
  BY DEF ThreadsOfTheRoom
<1>6. EnteredIsCurrent'
  <2>1. Between /\ Between'
    BY <1>1, <1>2 DEF Between, In, n
  <2> QED BY <2>1 DEF EnteredIsCurrent
<1>7. LeftRoomIsEmpty'
  BY <1>1, <1>3 DEF LeftRoomIsEmpty, TypeOK
<1>8. ChangesOK'
  <2>1. SUFFICES ASSUME ~nested PROVE ChangesOK'
    BY DEF ChangesOK
  <2>2. calls[n].from = current
    BY <1>1, <1>2, <2>1 DEF ChangesOK, Leaving, n
  <2>3. made'[current] # "some"
    BY <1>1, <1>3, <2>2 DEF TypeOK
  <2> QED BY <1>1, <1>2, <2>1, <2>3 DEF ChangesOK, Leaving, n
<1> QED BY <1>4, <1>5, <1>6, <1>7, <1>8

(* exitedRoom returns: the local threads stop and the next room's script   *)
(* is called, or that of a new game. By ChangesOK, the room left was the   *)
(* one on screen, it is empty, and no change below is leaving a room.      *)
LEMMA LocalThreadsStopped ==
  ASSUME \A t \in threads : t \in Thread
  PROVE  \A t \in StopLocalThreads : t \in Thread /\ t.stopped
BY DEF StopLocalThreads, Thread

LEMMA ReturnExitedRoomStep == ASSUME RoomsInv, ReturnExitedRoom PROVE RoomsInv'
<1> DEFINE n == Len(calls)
<1> USE DEF RoomsInv, ReturnExitedRoom
<1>1. /\ calls # <<>> /\ calls[n].stage = "exitedRoom"
      /\ Calls(IF calls[n].to = None THEN "start" ELSE "enter")
  BY DEF At, Top
<1>2. /\ calls' \in Seq(Call)
      /\ Len(calls') = n /\ n \in Nat \ {0}
      /\ \A i \in 1..(n - 1) : calls'[i] = calls[i]
      /\ calls'[n].stage = IF calls[n].to = None THEN "start" ELSE "enter"
      /\ calls'[n].to = calls[n].to
  BY <1>1, NextScript DEF TypeOK, Leaving, Entering
<1>3. calls[n].to \in Rooms \cup {None} /\ Top = calls[n]
  BY <1>1, Popped DEF TypeOK, Call, Top
<1> HIDE DEF n
<1>4. \A t \in threads' : t \in Thread /\ t.stopped
  <2>1. threads' = StopLocalThreads /\ \A t \in threads : t \in Thread
    BY DEF TypeOK
  <2> QED BY <2>1, LocalThreadsStopped
<1>5. TypeOK'
  <2>1. In({"onActorSelected"})' => In({"onActorSelected"})
    BY <1>2 DEF In, n
  <2>2. startScreen' => \A i \in 1..Len(calls') :
          calls'[i].to \in Rooms \/ calls'[i].stage = "onActorSelected"
    BY <1>1, <1>2 DEF TypeOK, n
  <2>3. /\ current' \in Rooms /\ entered' \subseteq Rooms /\ abandoned' \in BOOLEAN
        /\ actorRoom' \in [Actors -> Rooms \cup {None}]
    BY <1>3 DEF TypeOK
  <2> QED BY <1>2, <1>4, <2>1, <2>2, <2>3 DEF TypeOK
<1>6. ThreadsOfTheRoom'
  BY <1>4 DEF ThreadsOfTheRoom
<1>7. ASSUME ~nested
      PROVE  /\ \A i \in 1..Len(calls') : calls'[i].stage \notin Leaving
             /\ Between /\ ~Between' /\ ~In({"exitedRoom"})'
             /\ made[current] # "some"
  <2>1. \A i \in 1..n : i < n => calls[i].stage \notin Leaving
    BY <1>1, <1>2, <1>7 DEF ChangesOK, Leaving, n
  <2>2. \A i \in 1..Len(calls') : calls'[i].stage \notin Leaving
    BY <1>2, <2>1 DEF Leaving
  <2>3. Between /\ In({"exitedRoom"})
    BY <1>1, <1>2 DEF Between, In, n
  <2>4. ~Between' /\ ~In({"exitedRoom"})'
    BY <2>2 DEF Between, In, Leaving
  <2> QED BY <1>7, <2>2, <2>3, <2>4 DEF ChangesOK
<1>8. EnteredIsCurrent'
  BY <1>3, <1>7 DEF EnteredIsCurrent
<1>9. LeftRoomIsEmpty'
  BY <1>3, <1>7 DEF LeftRoomIsEmpty
<1>10. ChangesOK'
  BY <1>7 DEF ChangesOK
<1> QED BY <1>5, <1>6, <1>8, <1>9, <1>10

(* A script of the entering of a room returns.                             *)
LEMMA ReturnEnterStep == ASSUME RoomsInv, ReturnEnter PROVE RoomsInv'
<1> DEFINE n == Len(calls)
<1> USE DEF RoomsInv, ReturnEnter
<1>1. /\ calls # <<>> /\ Top = calls[n]
      /\ Top.stage \in Entering \cup {"start"}
      /\ UNCHANGED <<phase, passRoom, current, actor, actorRoom, startScreen, threads,
                     made, entered, abandoned, nested, doings>>
  BY DEF At, Entering, Top
<1>2. CASE calls' = Below
  BY <1>1, <1>2, PopStep DEF Leaving, Entering
<1>3. ASSUME NEW stage \in Entering, Calls(stage)
      PROVE  RoomsInv'
  <2>1. /\ calls' \in Seq(Call)
        /\ Len(calls') = n /\ n \in Nat \ {0}
        /\ \A i \in 1..(n - 1) : calls'[i] = calls[i]
        /\ calls'[n].stage = stage
        /\ calls'[n].to = calls[n].to
    BY <1>1, <1>3, NextScript DEF TypeOK
  <2> HIDE DEF n, ReturnEnter
  <2>2. /\ \A S : S \subseteq Leaving \cup {"onActorSelected"} => (In(S)' <=> In(S))
        /\ calls[n].stage \notin Leaving \cup {"onActorSelected"}
        /\ calls'[n].stage \notin Leaving \cup {"onActorSelected"}
    BY <1>1, <1>3, <2>1 DEF In, Leaving, Entering, n
  <2>3. TypeOK'
    <3>1. startScreen' => \A i \in 1..Len(calls') :
            calls'[i].to \in Rooms \/ calls'[i].stage = "onActorSelected"
      BY <1>1, <2>1, <2>2 DEF TypeOK, n
    <3> QED BY <1>1, <2>1, <2>2, <3>1 DEF TypeOK
  <2>4. ThreadsOfTheRoom' /\ LeftRoomIsEmpty'
    BY <1>1 DEF ThreadsOfTheRoom, LeftRoomIsEmpty
  <2>5. EnteredIsCurrent'
    <3>1. Between' <=> Between
      BY <2>2 DEF Between, Leaving
    <3> QED BY <1>1, <3>1 DEF EnteredIsCurrent
  <2>6. ChangesOK'
    <3>1. In({"exitedRoom"})' <=> In({"exitedRoom"})
      BY <2>2 DEF Leaving
    <3>2. SUFFICES ASSUME ~nested PROVE ChangesOK'
      BY <1>1 DEF ChangesOK
    <3>3. \A i \in 1..n : calls'[i].stage \notin Leaving
      BY <2>1, <2>2, <3>2 DEF ChangesOK, n
    <3> QED BY <1>1, <2>1, <2>2, <3>1, <3>2, <3>3 DEF ChangesOK, n
  <2> QED BY <2>3, <2>4, <2>5, <2>6
<1> QED BY <1>2, <1>3 DEF Entering

(* The selection of an actor calls onActorSelected.                        *)
LEMMA SelectActorStep ==
  ASSUME RoomsInv, NEW a \in Actors, SelectActor(a) PROVE RoomsInv'
<1> DEFINE c == [stage |-> "onActorSelected", from |-> current, to |-> None, door |-> FALSE]
           n == Len(calls)
<1> USE DEF RoomsInv
<1>1. /\ actor' = a /\ calls' = Append(calls, c)
      /\ UNCHANGED <<phase, passRoom, current, actorRoom, startScreen, threads, made,
                     entered, abandoned, nested>>
      /\ doings' \in 0..MaxDoings
  BY MayStep DEF SelectActor
<1>2. c \in Call /\ c.stage = "onActorSelected" /\ c.stage \notin Leaving
  BY DEF Call, Leaving, TypeOK
<1> HIDE DEF c
<1>3. /\ calls' \in Seq(Call) /\ n \in Nat
      /\ Len(calls') = n + 1
      /\ \A i \in 1..n : calls'[i] = calls[i]
      /\ calls'[n + 1] = c
  BY <1>1, <1>2, Pushed, LenProperties DEF TypeOK
<1> HIDE DEF n
<1>4. \A S : S \subseteq Leaving => (In(S)' <=> In(S))
  BY <1>2, <1>3 DEF In, n
<1>5. TypeOK'
  <2>1. startScreen' => \A i \in 1..Len(calls') :
          calls'[i].to \in Rooms \/ calls'[i].stage = "onActorSelected"
    BY <1>1, <1>2, <1>3 DEF TypeOK, n
  <2>2. actor' \in Actors /\ actor' # None
    BY <1>1, RoomsAssumption
  <2> QED BY <1>1, <1>3, <2>1, <2>2 DEF TypeOK
<1>6. ThreadsOfTheRoom' /\ LeftRoomIsEmpty'
  BY <1>1 DEF ThreadsOfTheRoom, LeftRoomIsEmpty
<1>7. EnteredIsCurrent'
  <2>1. Between' <=> Between
    BY <1>4 DEF Between, Leaving
  <2> QED BY <1>1, <2>1 DEF EnteredIsCurrent
<1>8. ChangesOK'
  <2>1. In({"exitedRoom"})' <=> In({"exitedRoom"})
    BY <1>4 DEF Leaving
  <2> QED BY <1>1, <1>2, <1>3, <2>1 DEF ChangesOK, n
<1> QED BY <1>5, <1>6, <1>7, <1>8

(* The other steps leave the calls, the room on screen and the rooms       *)
(* entered as they are.                                                    *)
LEMMA OtherStep ==
  ASSUME RoomsInv, UNCHANGED <<current, actor, startScreen, calls, entered, abandoned, nested>>,
         TypeOK', ThreadsOfTheRoom',
         \A r \in Rooms : made'[r] = "some" =>
           made[r] = "some" \/ (r = current /\ ~In({"exitedRoom"}))
  PROVE  RoomsInv'
<1> USE DEF RoomsInv
<1>1. EnteredIsCurrent'
  BY DEF EnteredIsCurrent, Between, In
<1>2. LeftRoomIsEmpty'
  BY DEF LeftRoomIsEmpty, TypeOK
<1>3. ChangesOK'
  BY DEF ChangesOK, In, TypeOK
<1> QED BY <1>1, <1>2, <1>3

LEMMA ActorAtStep ==
  ASSUME RoomsInv, NEW a \in Actors, NEW r \in Rooms, ActorAt(a, r) PROVE RoomsInv'
<1>1. doings' \in 0..MaxDoings
  BY MayStep DEF ActorAt
<1>2. TypeOK' /\ ThreadsOfTheRoom'
  BY <1>1 DEF ActorAt, RoomsInv, TypeOK, ThreadsOfTheRoom, In
<1> QED BY <1>2, OtherStep DEF ActorAt

LEMMA CreateObjectStep == ASSUME RoomsInv, CreateObject PROVE RoomsInv'
<1>1. doings' \in 0..MaxDoings
  BY MayStep DEF CreateObject
<1>2. made' = [made EXCEPT ![current] = IF In({"exitedRoom"}) THEN "late" ELSE "some"]
  BY DEF CreateObject
<1>3. /\ made' \in [Rooms -> {"none", "some", "late"}]
      /\ \A r \in Rooms : made'[r] = "some" =>
           made[r] = "some" \/ (r = current /\ ~In({"exitedRoom"}))
  BY <1>2 DEF RoomsInv, TypeOK
<1>4. TypeOK' /\ ThreadsOfTheRoom'
  BY <1>1, <1>3 DEF CreateObject, RoomsInv, TypeOK, ThreadsOfTheRoom, In
<1> QED BY <1>3, <1>4, OtherStep DEF CreateObject

(* A thread started by a script or by a trigger.                           *)
LEMMA StartThreadStep == ASSUME RoomsInv, StartLocalThread \/ CallTrigger PROVE RoomsInv'
<1>1. PICK home \in Rooms : threads' = StartThread(home)
  BY DEF StartLocalThread, CallTrigger, RoomsInv, TypeOK
<1>2. UNCHANGED <<phase, passRoom, current, actor, actorRoom, startScreen, calls, made,
                  entered, abandoned, nested>>
  BY DEF StartLocalThread, CallTrigger
<1>3. doings' \in 0..MaxDoings
  BY MayStep DEF StartLocalThread, CallTrigger, RoomsInv, TypeOK
<1> DEFINE late == home # current
           t == [home |-> home, stopped |-> FALSE, late |-> late]
<1>4. late \in BOOLEAN /\ (late <=> home # current)
  OBVIOUS
<1>5. threads' = threads \cup {t}
  BY <1>1 DEF StartThread
<1> HIDE DEF late
<1>6. t \in Thread /\ t.home = home /\ (~t.late => home = current)
  BY <1>4 DEF Thread
<1> HIDE DEF t
<1>7. ThreadsOfTheRoom'
  BY <1>2, <1>5, <1>6 DEF ThreadsOfTheRoom, RoomsInv
<1>8. TypeOK'
  BY <1>2, <1>3, <1>5, <1>6 DEF RoomsInv, TypeOK, In
<1> QED BY <1>2, <1>7, <1>8, OtherStep

(* The steps of the frame.                                                 *)
LEMMA FrameStep ==
  ASSUME RoomsInv, StopThreads \/ UpdateRoom \/ EndUpdateRoom PROVE RoomsInv'
<1>1. /\ UNCHANGED <<current, actor, actorRoom, startScreen, calls, made, entered,
                     abandoned, nested, doings>>
      /\ threads' \subseteq threads
  BY DEF StopThreads, UpdateRoom, EndUpdateRoom
<1>2. /\ phase' \in {"scripts", "room", "after"} /\ passRoom' \in Rooms \cup {None}
      /\ phase' = "room" => passRoom' \in Rooms
  BY DEF StopThreads, UpdateRoom, EndUpdateRoom, RoomsInv, TypeOK
<1>3. TypeOK'
  BY <1>1, <1>2 DEF RoomsInv, TypeOK, In
<1>4. ThreadsOfTheRoom'
  BY <1>1 DEF RoomsInv, ThreadsOfTheRoom
<1> QED BY <1>1, <1>3, <1>4, OtherStep

LEMMA StutterStep == ASSUME RoomsInv, UNCHANGED vars PROVE RoomsInv'
<1>1. TypeOK' /\ ThreadsOfTheRoom'
  BY DEF RoomsInv, TypeOK, ThreadsOfTheRoom, In, vars
<1> QED BY <1>1, OtherStep DEF vars

LEMMA NextInv == RoomsInv /\ [Next]_vars => RoomsInv'
<1> SUFFICES ASSUME RoomsInv, [Next]_vars PROVE RoomsInv'
  OBVIOUS
<1>1. CASE Scripts
  BY <1>1, SetRoomStep, NewGameStep, SelectActorStep, ActorAtStep, StartThreadStep,
     CreateObjectStep DEF Scripts
<1>2. CASE Returns
  BY <1>2, ReturnActorExitStep, ReturnExitStep, ReturnExitedRoomStep, ReturnEnterStep,
     ReturnOnActorSelectedStep DEF Returns
<1>3. CASE StopThreads \/ UpdateRoom \/ EndUpdateRoom
  BY <1>3, FrameStep
<1>4. CASE CallTrigger
  BY <1>4, StartThreadStep
<1>5. CASE Crashed \/ UNCHANGED vars
  BY <1>5, StutterStep DEF Crashed
<1> QED BY <1>1, <1>2, <1>3, <1>4, <1>5 DEF Next

THEOREM SpecRoomsInv == Spec => []RoomsInv
BY InitInv, NextInv, PTL DEF Spec

-----------------------------------------------------------------------------
(* What holds of every behaviour                                           *)

(* The variables keep their types.                                         *)
THEOREM SpecTypeOK == Spec => []TypeOK
<1>1. RoomsInv => TypeOK
  BY DEF RoomsInv
<1> QED BY <1>1, SpecRoomsInv, PTL

(* However the scripts of exitRoom and enterRoom change the room in turn,  *)
(* the room entered and not left is that on screen.                        *)
THEOREM SpecEnteredIsCurrent == Spec => []EnteredIsCurrent
<1>1. RoomsInv => EnteredIsCurrent
  BY DEF RoomsInv
<1> QED BY <1>1, SpecRoomsInv, PTL

(* The local threads that run are of the room on screen: exitRoom stops    *)
(* those that the scripts of the change have started, too.                 *)
THEOREM SpecThreadsOfTheRoom == Spec => []ThreadsOfTheRoom
<1>1. RoomsInv => ThreadsOfTheRoom
  BY DEF RoomsInv
<1> QED BY <1>1, SpecRoomsInv, PTL

(* A room that was left keeps none of its lights and temporary objects.    *)
THEOREM SpecLeftRoomIsEmpty == Spec => []LeftRoomIsEmpty
<1>1. RoomsInv => LeftRoomIsEmpty
  BY DEF RoomsInv
<1> QED BY <1>1, SpecRoomsInv, PTL

-----------------------------------------------------------------------------
(* The camera                                                              *)

Sight == [at : Nat, from : Nat, target : Nat, moving : BOOLEAN, timed : BOOLEAN]

ToShow == [pan : BOOLEAN, at : Places]

(* Each change under way has something to show after it, or None.          *)
CameraTyped ==
  /\ camera \in Sight
  /\ bounds \in Bounds \cup {None}
  /\ followed \in Actors \cup {None}
  /\ place \in [Actors -> Places]
  /\ asked \in Places \cup {None}
  /\ shows \in Seq(ToShow \cup {None}) /\ Len(shows) = Len(calls)

(* What a script has asked for is alone: nobody is followed, and no time   *)
(* of a pan runs on that is over or was interrupted.                       *)
AskedAlone ==
  asked # None => followed = None /\ (camera.timed => camera.moving)

(* The inductive invariant, relative to that of Rooms. PanIsKept is not    *)
(* inductive alone: the actor followed would draw the camera away at the   *)
(* end of a frame, and the rest of an old pan at its beginning.            *)
CameraInv == CameraTyped /\ CameraInRoom /\ PanIsKept /\ AskedAlone

-----------------------------------------------------------------------------
(* Rooms, under the camera                                                 *)

(* An order that stays in the room changes nothing of Rooms but doings.    *)
LEMMA OrderKeepsRooms == ASSUME RoomsInv, Order PROVE RoomsInv'
<1>1. doings' \in 0..MaxDoings
  BY MayStep DEF Order
<1>2. TypeOK' /\ ThreadsOfTheRoom'
  BY <1>1 DEF Order, RoomsInv, TypeOK, ThreadsOfTheRoom, In
<1> QED BY <1>2, OtherStep DEF Order

LEMMA CameraOverRooms ==
  ASSUME RoomsInv, [CameraNext]_<<vars, cameraVars>> PROVE RoomsInv'
<1>1. actorRoom \in [Actors -> Rooms \cup {None}]
  BY DEF RoomsInv, TypeOK
<1>2. CASE Ordered
  <2>1. CASE Order
    BY <2>1, OrderKeepsRooms
  <2>2. CASE ~Order
    <3>1. ASSUME NEW a \in Actors, Follow(a) PROVE RoomsInv'
      <4>1. SetRoom(actorRoom[a]) /\ actorRoom[a] \in Rooms
        BY <1>1, <2>2, <3>1 DEF Follow, Stays
      <4> QED BY <4>1, SetRoomStep
    <3>2. ASSUME NEW r \in Rooms, NEW x \in Places, CameraAtObject(r, x) PROVE RoomsInv'
      BY <3>2, SetRoomStep DEF CameraAtObject
    <3>3. \A x \in Places : ~CameraAt(x) /\ ~CameraPanTo(x) /\ ~Drag(x)
      BY <2>2 DEF CameraAt, CameraPanTo, Drag
    <3>4. ~FollowNobody /\ \A b \in Bounds : ~CameraBounds(b)
      BY <2>2 DEF FollowNobody, CameraBounds
    <3>5. CASE \E r \in Rooms : SetRoom(r) \/ EnterRoomFromDoor(r)
      BY <3>5, SetRoomStep
    <3>6. CASE NewGame
      BY <3>6, NewGameStep
    <3>7. CASE \E a \in Actors : SelectActor(a)
      BY <3>7, SelectActorStep
    <3> QED BY <1>2, <3>1, <3>2, <3>3, <3>4, <3>5, <3>6, <3>7 DEF Ordered
  <2> QED BY <2>1, <2>2
<1>3. CASE MoveActor
  BY <1>3, ActorAtStep DEF MoveActor
<1>4. CASE ChangeRoom
  BY <1>4, ReturnExitedRoomStep DEF ChangeRoom
<1>5. CASE EndChange
  BY <1>5, ReturnEnterStep DEF EndChange
<1>6. CASE EndSelection
  BY <1>6, ReturnOnActorSelectedStep DEF EndSelection
<1>7. CASE LeaveCamera
  BY <1>7, ReturnActorExitStep, ReturnExitStep, StartThreadStep, CreateObjectStep,
     FrameStep, StutterStep DEF LeaveCamera, Crashed
<1>8. CASE BeginFrame \/ EndFrame
  BY <1>8, FrameStep DEF BeginFrame, EndFrame
<1>9. CASE UNCHANGED <<vars, cameraVars>>
  BY <1>9, StutterStep
<1> QED BY <1>2, <1>3, <1>4, <1>5, <1>6, <1>7, <1>8, <1>9 DEF CameraNext

-----------------------------------------------------------------------------
(* Where the camera may be                                                 *)

(* To clamp what is clamped is to leave it: the bounds of a script and the *)
(* room do not push the camera to and fro.                                 *)
LEMMA ClampedOnce ==
  ASSUME NEW x \in Nat, NEW r \in Rooms, NEW b \in Bounds \cup {None}
  PROVE  /\ Clamped(x, r, b) \in Nat
         /\ Clamped(Clamped(x, r, b), r, b) = Clamped(x, r, b)
<1>1. PICK h \in Nat : h = Half[r]
  BY CameraAssumption
<1>2. PICK w \in Nat : w = Width[r]
  BY CameraAssumption
<1>3. 2 * h <= w
  BY <1>1, <1>2, CameraAssumption
<1>4. CASE b = None
  BY <1>1, <1>2, <1>3, <1>4 DEF Clamped, Nearest
<1>5. CASE b # None
  <2>1. PICK low \in Nat, high \in Nat : low = b.low /\ high = b.high /\ low <= high
    BY <1>5, CameraAssumption
  <2>2. \A y : Clamped(y, r, b) = Nearest(Nearest(y, h + low, h + high), h, w - h)
    BY <1>1, <1>2, <1>5, <2>1 DEF Clamped
  <2>3. PICK y \in Nat : y = Nearest(Nearest(x, h + low, h + high), h, w - h)
    BY <1>3, <2>1 DEF Nearest
  <2>4. Nearest(Nearest(y, h + low, h + high), h, w - h) = y
    BY <1>3, <2>1, <2>3 DEF Nearest
  <2> QED BY <2>2, <2>3, <2>4
<1> QED BY <1>4, <1>5

(* The room on screen and the bounds are fit to clamp to.                  *)
LEMMA HereOnce ==
  ASSUME RoomsInv, CameraTyped, NEW x \in Nat
  PROVE  Here(x) \in Nat /\ Here(Here(x)) = Here(x)
BY ClampedOnce DEF Here, RoomsInv, TypeOK, CameraTyped


-----------------------------------------------------------------------------
(* What the camera is set to                                               *)

LEMMA StillFacts ==
  ASSUME NEW x \in Nat
  PROVE  /\ Still(x) \in Sight /\ Still(x).at = x
         /\ ~Still(x).moving /\ ~Still(x).timed
BY DEF Still, Sight

LEMMA PannedToFacts ==
  ASSUME camera \in Sight, NEW x \in Nat
  PROVE  /\ PannedTo(x) \in Sight /\ PannedTo(x).at = camera.at
         /\ PannedTo(x).target = x /\ PannedTo(x).moving
<1> DEFINE from == IF camera.moving THEN camera.from ELSE camera.at
<1>1. from \in Nat
  BY DEF Sight
<1>2. PannedTo(x) = [camera EXCEPT !.from = from, !.target = x, !.moving = TRUE,
                                   !.timed = TRUE]
  BY DEF PannedTo
<1> HIDE DEF from
<1> QED BY <1>1, <1>2 DEF Sight

LEMMA ShownFacts ==
  ASSUME RoomsInv, CameraInv, NEW s \in ToShow
  PROVE  Shown(s) \in Sight /\ Here(Shown(s).at) = Shown(s).at
<1>1. s.at \in Nat /\ s.pan \in BOOLEAN /\ CameraTyped /\ camera \in Sight
  BY CameraAssumption DEF ToShow, CameraInv, CameraTyped
<1>2. Here(s.at) \in Nat /\ Here(Here(s.at)) = Here(s.at) /\ Here(camera.at) = camera.at
  BY <1>1, HereOnce DEF CameraInv, CameraInRoom
<1>3. CASE s.pan
  BY <1>1, <1>2, <1>3, PannedToFacts DEF Shown
<1>4. CASE ~s.pan
  BY <1>2, <1>4, StillFacts DEF Shown
<1> QED BY <1>1, <1>3, <1>4

LEMMA ShowingFacts ==
  ASSUME CameraTyped, NEW a \in Actors PROVE Showing(a) \in ToShow
<1>1. place[a] \in Places /\ PansTo(a) \in BOOLEAN
  BY DEF CameraTyped, PansTo
<1> QED BY <1>1 DEF Showing, ToShow

(* What is shown after each change goes with the changes.                  *)
LEMMA ShowsPushed ==
  ASSUME NEW q \in Seq(ToShow \cup {None}), NEW s \in ToShow \cup {None},
         NEW r, r = Append(q, s)
  PROVE  r \in Seq(ToShow \cup {None}) /\ Len(r) = Len(q) + 1
BY AppendProperties

LEMMA ShowsPopped ==
  ASSUME CameraTyped, Len(shows) \in Nat \ {0}
  PROVE  /\ ShowsBelow \in Seq(ToShow \cup {None})
         /\ Len(ShowsBelow) = Len(shows) - 1
         /\ ShowsTop \in ToShow \cup {None}
<1> DEFINE n == Len(shows) - 1
<1>1. n \in Nat /\ \A i \in 1..n : shows[i] \in ToShow \cup {None}
  BY ElementOfSeq DEF CameraTyped
<1>2. ShowsBelow = SubSeq(shows, 1, n)
  BY DEF ShowsBelow
<1>3. ShowsTop \in ToShow \cup {None}
  BY ElementOfSeq DEF CameraTyped, ShowsTop
<1> HIDE DEF n
<1>4. /\ ShowsBelow \in Seq(ToShow \cup {None})
      /\ Len(ShowsBelow) = IF 1 <= n THEN n - 1 + 1 ELSE 0
  BY <1>1, <1>2, SubSeqProperties DEF CameraTyped
<1>5. n - 1 + 1 = n /\ (IF 1 <= n THEN n - 1 + 1 ELSE 0) = n
  BY <1>1
<1> QED BY <1>3, <1>4, <1>5 DEF n

(* How the stack of changes grows.                                         *)
LEMMA CallsGrow ==
  ASSUME RoomsInv, NEW r \in Rooms \cup {None},
         \/ SetRoom(r) \/ EnterRoomFromDoor(r) \/ (r = None /\ NewGame)
         \/ \E a \in Actors : SelectActor(a)
  PROVE  Len(calls') = Len(calls) + 1 /\ UNCHANGED current
<1>1. calls \in Seq(Call)
  BY DEF RoomsInv, TypeOK
<1>2. UNCHANGED current
  BY DEF SetRoom, EnterRoomFromDoor, NewGame, SelectActor
<1>3. \E c : calls' = Append(calls, c)
  BY DEF SetRoom, EnterRoomFromDoor, NewGame, SelectActor, BeginChange
<1>4. \A c : Len(Append(calls, c)) = Len(calls) + 1
  BY <1>1
<1> QED BY <1>2, <1>3, <1>4

-----------------------------------------------------------------------------
(* The steps                                                               *)

(* What is not the camera: the types of the others after the step.         *)
OthersTyped ==
  /\ bounds \in Bounds \cup {None}
  /\ followed \in Actors \cup {None}
  /\ place \in [Actors -> Places]
  /\ shows \in Seq(ToShow \cup {None}) /\ Len(shows) = Len(calls)

(* A step that leaves the camera alone.                                    *)
LEMMA CameraLeft ==
  ASSUME CameraInv, UNCHANGED <<camera, asked, current, bounds>>, OthersTyped',
         followed' \in {followed, None}
  PROVE  CameraInv'
BY DEF CameraInv, CameraTyped, CameraInRoom, PanIsKept, AskedAlone, OthersTyped, Here

(* A step after which no pan is asked for.                                 *)
LEMMA CameraPlaced ==
  ASSUME OthersTyped', asked' = None, camera' \in Sight, Here(camera.at)' = camera'.at
  PROVE  CameraInv'
BY DEF CameraInv, CameraTyped, CameraInRoom, PanIsKept, AskedAlone, OthersTyped


LEMMA CameraOrderStep ==
  ASSUME RoomsInv, CameraInv, NEW x \in Places,
         CameraAt(x) \/ CameraPanTo(x) \/ Drag(x)
  PROVE  CameraInv'
<1>1. UNCHANGED <<calls, current, bounds, place, shows>>
  BY DEF CameraAt, CameraPanTo, Drag, Order
<1>2. followed' \in {followed, None}
  BY DEF CameraAt, CameraPanTo, Drag
<1>3. OthersTyped'
  BY <1>1, <1>2 DEF OthersTyped, CameraInv, CameraTyped
<1>4. x \in Nat /\ CameraTyped /\ camera \in Sight
  BY CameraAssumption DEF CameraInv, CameraTyped
<1>5. PICK y \in Nat : y = Here(x) /\ Here(y) = y
  BY <1>4, HereOnce
<1>6. Here(camera'.at) = camera'.at => Here(camera.at)' = camera'.at
  BY <1>1 DEF Here
<1>7. CASE CameraAt(x)
  <2>1. camera' = Still(y) /\ asked' = None
    BY <1>5, <1>7 DEF CameraAt
  <2> QED BY <1>3, <1>5, <1>6, <2>1, StillFacts, CameraPlaced
<1>8. CASE CameraPanTo(x)
  <2>1. camera' = PannedTo(x) /\ asked' = x /\ followed' = None
    BY <1>8 DEF CameraPanTo
  <2>2. /\ camera' \in Sight /\ camera'.at = camera.at /\ camera'.target = x
        /\ camera'.moving
    BY <1>4, <2>1, PannedToFacts
  <2>3. Here(camera.at) = camera.at
    BY DEF CameraInv, CameraInRoom
  <2>4. CameraInRoom'
    BY <1>6, <2>2, <2>3 DEF CameraInRoom
  <2>5. PanIsKept' /\ AskedAlone'
    BY <2>1, <2>2 DEF PanIsKept, AskedAlone
  <2>6. CameraTyped'
    BY <1>3, <2>1, <2>2 DEF CameraTyped, OthersTyped
  <2> QED BY <2>4, <2>5, <2>6 DEF CameraInv
<1>9. CASE Drag(x)
  <2>1. camera' = [camera EXCEPT !.at = y, !.target = y, !.moving = FALSE] /\ asked' = None
    BY <1>5, <1>9 DEF Drag
  <2>2. camera' \in Sight /\ camera'.at = y
    BY <1>4, <2>1 DEF Sight
  <2> QED BY <1>3, <1>5, <1>6, <2>1, <2>2, CameraPlaced
<1> QED BY <1>7, <1>8, <1>9

(* To bound a camera at rest may move it; one that pans is on its way.     *)
LEMMA CameraBoundsStep ==
  ASSUME RoomsInv, CameraInv, NEW b \in Bounds, CameraBounds(b)
  PROVE  CameraInv'
<1>1. UNCHANGED <<calls, current, followed, place, shows>> /\ bounds' = b
  BY DEF CameraBounds, Order
<1>2. OthersTyped'
  BY <1>1 DEF OthersTyped, CameraInv, CameraTyped
<1>3. camera \in Sight /\ camera.at \in Nat /\ current \in Rooms
  BY DEF CameraInv, CameraTyped, Sight, RoomsInv, TypeOK
<1>4. PICK y \in Nat : y = Clamped(camera.at, current, b) /\ Clamped(y, current, b) = y
  BY <1>3, ClampedOnce
<1>5. /\ camera' = [camera EXCEPT !.at = y]
      /\ asked' = IF camera.moving THEN asked ELSE None
  BY <1>4 DEF CameraBounds
<1>6. /\ camera' \in Sight /\ camera'.at = y /\ camera'.target = camera.target
      /\ (camera'.moving <=> camera.moving)
  BY <1>3, <1>5 DEF Sight
<1>7. Here(camera.at)' = camera'.at
  BY <1>1, <1>4, <1>6 DEF Here
<1>8. CASE camera.moving
  <2>1. asked' = asked /\ camera'.moving
    BY <1>5, <1>6, <1>8
  <2>2. PanIsKept' /\ AskedAlone'
    BY <1>1, <1>6, <1>8, <2>1 DEF PanIsKept, AskedAlone, CameraInv
  <2>3. CameraTyped'
    BY <1>2, <1>6, <2>1 DEF CameraTyped, OthersTyped, CameraInv
  <2> QED BY <1>7, <2>2, <2>3 DEF CameraInv, CameraInRoom
<1>9. CASE ~camera.moving
  BY <1>2, <1>5, <1>6, <1>7, <1>9, CameraPlaced
<1> QED BY <1>8, <1>9

LEMMA FollowStep ==
  ASSUME RoomsInv, CameraInv, NEW a \in Actors, Follow(a) PROVE CameraInv'
<1>1. Showing(a) \in ToShow /\ CameraTyped
  BY ShowingFacts DEF CameraInv
<1>2. followed' = a /\ asked' = None /\ UNCHANGED <<bounds, place>>
  BY DEF Follow
<1>3. actorRoom[a] \in Rooms \cup {None}
  BY DEF RoomsInv, TypeOK
<1>4. CASE Stays(actorRoom[a])
  <2>1. UNCHANGED <<calls, current, shows>> /\ camera' = Shown(Showing(a))
    BY <1>4 DEF Follow, Order
  <2>2. OthersTyped'
    BY <1>1, <1>2, <2>1 DEF OthersTyped, CameraTyped
  <2>3. camera' \in Sight /\ Here(camera'.at) = camera'.at
    BY <1>1, <2>1, ShownFacts
  <2>4. Here(camera.at)' = camera'.at
    BY <1>2, <2>1, <2>3 DEF Here
  <2> QED BY <1>2, <2>2, <2>3, <2>4, CameraPlaced
<1>5. CASE ~Stays(actorRoom[a])
  <2>1. SetRoom(actorRoom[a]) /\ shows' = Append(shows, Showing(a)) /\ UNCHANGED camera
    BY <1>5 DEF Follow
  <2>2. Len(calls') = Len(calls) + 1 /\ UNCHANGED current
    BY <1>3, <2>1, CallsGrow
  <2>3. shows' \in Seq(ToShow \cup {None}) /\ Len(shows') = Len(shows) + 1
    BY <1>1, <2>1, ShowsPushed DEF CameraTyped
  <2>4. OthersTyped'
    BY <1>1, <1>2, <2>2, <2>3 DEF OthersTyped, CameraTyped
  <2>5. camera' \in Sight /\ Here(camera.at)' = camera'.at
    BY <1>1, <1>2, <2>1, <2>2 DEF CameraTyped, CameraInv, CameraInRoom, Here
  <2> QED BY <1>2, <2>4, <2>5, CameraPlaced
<1> QED BY <1>4, <1>5

(* A change that begins: what is shown after it is known, or nothing is.   *)
LEMMA ChangeBegins ==
  ASSUME RoomsInv, CameraInv, NEW s \in ToShow \cup {None},
         shows' = Append(shows, s),
         UNCHANGED <<camera, bounds, followed, place, asked, current>>,
         Len(calls') = Len(calls) + 1
  PROVE  CameraInv'
<1>1. shows' \in Seq(ToShow \cup {None}) /\ Len(shows') = Len(shows) + 1
  BY ShowsPushed DEF CameraTyped, CameraInv
<1>2. OthersTyped'
  BY <1>1 DEF OthersTyped, CameraTyped, CameraInv
<1> QED BY <1>2, CameraLeft

LEMMA OrderedStep == ASSUME RoomsInv, CameraInv, Ordered PROVE CameraInv'
<1>1. ASSUME NEW r \in Rooms, NEW x \in Places, CameraAtObject(r, x) PROVE CameraInv'
  <2>1. PICK s \in ToShow : s = [pan |-> FALSE, at |-> x]
    BY DEF ToShow
  <2>2. /\ SetRoom(r) /\ shows' = Append(shows, s)
        /\ UNCHANGED <<camera, bounds, followed, place, asked>>
    BY <1>1, <2>1 DEF CameraAtObject
  <2>3. Len(calls') = Len(calls) + 1 /\ UNCHANGED current
    BY <2>2, CallsGrow
  <2> QED BY <2>2, <2>3, ChangeBegins
<1>2. ASSUME ShowNothing,
             \/ \E r \in Rooms : SetRoom(r) \/ EnterRoomFromDoor(r)
             \/ NewGame
             \/ \E a \in Actors : SelectActor(a)
      PROVE  CameraInv'
  <2>1. Len(calls') = Len(calls) + 1 /\ UNCHANGED current
    BY <1>2, CallsGrow
  <2> QED BY <1>2, <2>1, ChangeBegins DEF ShowNothing
<1>3. CASE FollowNobody
  <2>1. UNCHANGED <<calls, current, bounds, place, shows, camera, asked>> /\ followed' = None
    BY <1>3 DEF FollowNobody, Order
  <2>2. OthersTyped'
    BY <2>1 DEF OthersTyped, CameraInv, CameraTyped
  <2> QED BY <2>1, <2>2, CameraLeft
<1> QED BY <1>1, <1>2, <1>3, CameraOrderStep, CameraBoundsStep, FollowStep DEF Ordered


LEMMA MoveActorStep == ASSUME RoomsInv, CameraInv, MoveActor PROVE CameraInv'
<1>1. UNCHANGED <<camera, bounds, followed, shows, asked, calls, current>>
  BY DEF MoveActor, ActorAt
<1>2. place' \in [Actors -> Places]
  BY DEF MoveActor, CameraInv, CameraTyped
<1>3. OthersTyped'
  BY <1>1, <1>2 DEF OthersTyped, CameraTyped, CameraInv
<1> QED BY <1>1, <1>3, CameraLeft

(* The stack keeps its height when a script calls the next.                *)
LEMMA ChangeRoomStep == ASSUME RoomsInv, CameraInv, ChangeRoom PROVE CameraInv'
<1>1. calls \in Seq(Call) /\ calls # <<>> /\ Top \in Call
  BY Popped DEF ChangeRoom, ReturnExitedRoom, At, RoomsInv, TypeOK
<1>2. Calls("start") \/ Calls("enter")
  BY DEF ChangeRoom, ReturnExitedRoom
<1>3. Len(calls') = Len(calls)
  BY <1>1, <1>2, NextScript DEF Entering
<1>4. UNCHANGED <<followed, shows>>
  BY DEF ChangeRoom
<1>5. CASE Top.to = None
  <2>1. UNCHANGED <<camera, bounds, place, asked, current>>
    BY <1>5 DEF ChangeRoom, ReturnExitedRoom
  <2>2. OthersTyped'
    BY <1>3, <1>4, <2>1 DEF OthersTyped, CameraTyped, CameraInv
  <2> QED BY <1>4, <2>1, <2>2, CameraLeft
<1>6. CASE Top.to # None
  <2>1. bounds' = None /\ asked' = None /\ current' = Top.to
    BY <1>6 DEF ChangeRoom, ReturnExitedRoom
  <2>2. PICK x \in IF Top.door THEN Places ELSE {0} :
          /\ place' = IF Top.door THEN [place EXCEPT ![actor] = x] ELSE place
          /\ camera' = Still(Clamped(IF Top.to \in Closeups THEN 0 ELSE x, Top.to, None))
    BY <1>6 DEF ChangeRoom
  <2>3. place' \in [Actors -> Places]
    BY <2>2 DEF CameraInv, CameraTyped
  <2>4. OthersTyped'
    BY <1>3, <1>4, <2>1, <2>3 DEF OthersTyped, CameraTyped, CameraInv
  <2>5. PICK z \in Nat : z = IF Top.to \in Closeups THEN 0 ELSE x
    BY <2>2, CameraAssumption
  <2>6. Top.to \in Rooms
    BY <1>1, <1>6 DEF Call
  <2>7. PICK y \in Nat : y = Clamped(z, Top.to, None) /\ Clamped(y, Top.to, None) = y
    BY <2>5, <2>6, ClampedOnce
  <2>8. camera' = Still(y)
    BY <2>2, <2>5, <2>7
  <2>9. camera' \in Sight /\ camera'.at = y
    BY <2>8, StillFacts
  <2>10. Here(camera.at)' = camera'.at
    BY <2>1, <2>7, <2>9 DEF Here
  <2> QED BY <2>1, <2>4, <2>9, <2>10, CameraPlaced
<1> QED BY <1>5, <1>6

LEMMA EndChangeStep == ASSUME RoomsInv, CameraInv, EndChange PROVE CameraInv'
<1>1. UNCHANGED <<current, bounds, followed, place>>
  BY DEF EndChange, ReturnEnter
<1>2. calls \in Seq(Call) /\ calls # <<>> /\ CameraTyped
  BY DEF EndChange, ReturnEnter, RoomsInv, TypeOK, CameraInv
<1>3. Len(calls) \in Nat \ {0} /\ Len(shows) = Len(calls) /\ Len(Below) = Len(calls) - 1
  BY <1>2, Popped DEF CameraTyped
<1>4. CASE calls' = Below
  <2>1. Len(calls') < Len(calls) /\ Len(calls') = Len(calls) - 1
    BY <1>3, <1>4
  <2>2. /\ shows' = ShowsBelow
        /\ IF ShowsTop = None
           THEN UNCHANGED <<camera, asked>>
           ELSE camera' = Shown(ShowsTop) /\ asked' = None
    BY <2>1 DEF EndChange
  <2>3. /\ shows' \in Seq(ToShow \cup {None}) /\ Len(shows') = Len(calls')
        /\ ShowsTop \in ToShow \cup {None}
    BY <1>2, <1>3, <2>1, <2>2, ShowsPopped
  <2>4. OthersTyped'
    BY <1>1, <1>2, <2>3 DEF OthersTyped, CameraTyped
  <2>5. CASE ShowsTop = None
    BY <1>1, <2>2, <2>4, <2>5, CameraLeft
  <2>6. CASE ShowsTop # None
    <3>1. camera' = Shown(ShowsTop) /\ ShowsTop \in ToShow /\ asked' = None
      BY <2>2, <2>3, <2>6
    <3>2. camera' \in Sight /\ Here(camera'.at) = camera'.at
      BY <3>1, ShownFacts
    <3>3. Here(camera.at)' = camera'.at
      BY <1>1, <3>2 DEF Here
    <3> QED BY <2>4, <3>1, <3>2, <3>3, CameraPlaced
  <2> QED BY <2>5, <2>6
<1>5. CASE calls' # Below
  <2>1. PICK stage \in Entering : Calls(stage)
    BY <1>5 DEF EndChange, ReturnEnter, Entering
  <2>2. Len(calls') = Len(calls)
    BY <1>2, <2>1, NextScript
  <2>3. UNCHANGED <<camera, shows, asked>>
    BY <1>3, <2>2 DEF EndChange
  <2>4. OthersTyped'
    BY <1>1, <1>2, <2>2, <2>3 DEF OthersTyped, CameraTyped
  <2> QED BY <1>1, <2>3, <2>4, CameraLeft
<1> QED BY <1>4, <1>5

(* The selection of an actor ends by following the current one.            *)
LEMMA EndSelectionStep == ASSUME RoomsInv, CameraInv, EndSelection PROVE CameraInv'
<1>1. /\ UNCHANGED <<current, bounds, place>>
      /\ followed' = actor /\ asked' = None
  BY DEF EndSelection, ReturnOnActorSelected
<1>2. calls \in Seq(Call) /\ calls # <<>> /\ At("onActorSelected") /\ CameraTyped
  BY DEF EndSelection, ReturnOnActorSelected, At, RoomsInv, TypeOK, CameraInv
<1>3. /\ Len(calls) \in Nat \ {0} /\ Len(shows) = Len(calls)
      /\ Below \in Seq(Call) /\ Len(Below) = Len(calls) - 1
  BY <1>2, Popped DEF CameraTyped
<1>4. actor \in Actors
  <2>1. In({"onActorSelected"})
    BY <1>2, <1>3 DEF In, At, Top
  <2> QED BY <2>1 DEF RoomsInv, TypeOK
<1>5. Showing(actor) \in ToShow
  BY <1>2, <1>4, ShowingFacts
<1>6. ShowsBelow \in Seq(ToShow \cup {None}) /\ Len(ShowsBelow) = Len(calls) - 1
  BY <1>2, <1>3, ShowsPopped
<1>7. CASE Stays(actorRoom[actor])
  <2>1. calls' = Below /\ camera' = Shown(Showing(actor)) /\ shows' = ShowsBelow
    BY <1>7 DEF EndSelection, ReturnOnActorSelected
  <2>2. OthersTyped'
    BY <1>1, <1>2, <1>3, <1>4, <1>6, <2>1 DEF OthersTyped, CameraTyped
  <2>3. camera' \in Sight /\ Here(camera'.at) = camera'.at
    BY <1>5, <2>1, ShownFacts
  <2>4. Here(camera.at)' = camera'.at
    BY <1>1, <2>3 DEF Here
  <2> QED BY <1>1, <2>2, <2>3, <2>4, CameraPlaced
<1>8. CASE ~Stays(actorRoom[actor])
  <2>1. /\ shows' = Append(ShowsBelow, Showing(actor)) /\ UNCHANGED camera
        /\ BeginChange(Below, actorRoom[actor], FALSE)
    BY <1>8 DEF EndSelection, ReturnOnActorSelected
  <2>2. \E c : calls' = Append(Below, c)
    BY <2>1 DEF BeginChange
  <2>3. \A c : Len(Append(Below, c)) = Len(Below) + 1
    BY <1>3
  <2>4. Len(calls') = Len(calls)
    BY <1>3, <2>2, <2>3
  <2>5. shows' \in Seq(ToShow \cup {None}) /\ Len(shows') = Len(ShowsBelow) + 1
    BY <1>5, <1>6, <2>1, ShowsPushed
  <2>6. OthersTyped'
    BY <1>1, <1>2, <1>3, <1>4, <1>6, <2>4, <2>5 DEF OthersTyped, CameraTyped
  <2>7. camera' \in Sight /\ Here(camera.at)' = camera'.at
    BY <1>1, <1>2, <2>1 DEF CameraTyped, CameraInv, CameraInRoom, Here
  <2> QED BY <1>1, <2>6, <2>7, CameraPlaced
<1> QED BY <1>7, <1>8

LEMMA LeaveCameraStep == ASSUME RoomsInv, CameraInv, LeaveCamera PROVE CameraInv'
<1>1. UNCHANGED <<camera, bounds, followed, place, shows, asked>>
  BY DEF LeaveCamera, cameraVars
<1>2. UNCHANGED current
  BY DEF LeaveCamera, ReturnActorExit, ReturnExit, StartLocalThread, CreateObject,
         UpdateRoom, CallTrigger, Crashed, vars
<1>3. Len(calls') = Len(calls)
  <2>1. CASE ReturnActorExit \/ ReturnExit
    <3>1. calls \in Seq(Call) /\ calls # <<>> /\ (Calls("exit") \/ Calls("exitedRoom"))
      BY <2>1 DEF ReturnActorExit, ReturnExit, At, RoomsInv, TypeOK
    <3> QED BY <3>1, NextScript DEF Leaving
  <2>2. CASE ~(ReturnActorExit \/ ReturnExit)
    BY <2>2 DEF LeaveCamera, StartLocalThread, CreateObject, UpdateRoom, CallTrigger,
       Crashed, vars
  <2> QED BY <2>1, <2>2
<1>4. OthersTyped'
  BY <1>1, <1>3 DEF OthersTyped, CameraTyped, CameraInv
<1> QED BY <1>1, <1>2, <1>4, CameraLeft

(* An update of the camera: a pan is on its way, or is over where it leads. *)
LEMMA BeginFrameStep == ASSUME RoomsInv, CameraInv, BeginFrame PROVE CameraInv'
<1>1. UNCHANGED <<calls, current, bounds, followed, place, shows, asked>>
  BY DEF BeginFrame, StopThreads
<1>2. OthersTyped'
  BY <1>1 DEF OthersTyped, CameraTyped, CameraInv
<1>3. CameraTyped /\ camera \in Sight /\ camera.target \in Nat /\ Here(camera.at) = camera.at
  BY DEF CameraInv, CameraTyped, CameraInRoom, Sight
<1>4. Here(camera'.at) = camera'.at => CameraInRoom'
  BY <1>1 DEF CameraInRoom, Here
<1>6. CASE UNCHANGED camera
  BY <1>1, <1>2, <1>6, CameraLeft
<1>7. CASE camera.moving /\ camera' = Still(Here(camera.target))
  <2>1. PICK y \in Nat : y = Here(camera.target) /\ Here(y) = y
    BY <1>3, HereOnce
  <2>2. camera' \in Sight /\ camera'.at = y /\ ~camera'.moving /\ ~camera'.timed
    BY <1>7, <2>1, StillFacts
  <2>3. CameraInRoom'
    BY <1>4, <2>1, <2>2
  <2>4. PanIsKept' /\ AskedAlone'
    BY <1>1, <1>7, <2>1, <2>2 DEF PanIsKept, AskedAlone, CameraInv, Here
  <2>5. CameraTyped'
    BY <1>1, <1>2, <1>3, <2>2 DEF OthersTyped, CameraTyped
  <2> QED BY <2>3, <2>4, <2>5 DEF CameraInv
<1>8. CASE ~camera.moving /\ camera' = [camera EXCEPT !.timed = FALSE]
  <2>1. /\ camera' \in Sight /\ camera'.at = camera.at /\ ~camera'.moving /\ ~camera'.timed
        /\ camera'.target = camera.target
    BY <1>3, <1>8 DEF Sight
  <2>2. CameraInRoom'
    BY <1>3, <1>4, <2>1
  <2>3. PanIsKept' /\ AskedAlone'
    BY <1>1, <1>8, <2>1 DEF PanIsKept, AskedAlone, CameraInv, Here
  <2>4. CameraTyped'
    BY <1>1, <1>2, <1>3, <2>1 DEF OthersTyped, CameraTyped
  <2> QED BY <2>2, <2>3, <2>4 DEF CameraInv
<1>9. ASSUME camera.timed,
             NEW x \in Places \cup {camera.from, camera.target},
             camera' = [camera EXCEPT !.at = Here(x)]
      PROVE  CameraInv'
  <2>1. x \in Nat
    BY <1>3, CameraAssumption DEF Sight
  <2>2. PICK y \in Nat : y = Here(x) /\ Here(y) = y
    BY <1>3, <2>1, HereOnce
  <2>3. /\ camera' \in Sight /\ camera'.at = y /\ camera'.target = camera.target
        /\ (camera'.moving <=> camera.moving) /\ (camera'.timed <=> camera.timed)
    BY <1>3, <1>9, <2>2 DEF Sight
  <2>4. CameraInRoom'
    BY <1>4, <2>2, <2>3
  <2>5. PanIsKept' /\ AskedAlone'
    BY <1>1, <1>9, <2>3 DEF PanIsKept, AskedAlone, CameraInv
  <2>6. CameraTyped'
    BY <1>1, <1>2, <1>3, <2>3 DEF OthersTyped, CameraTyped
  <2> QED BY <2>4, <2>5, <2>6 DEF CameraInv
<1> QED BY <1>6, <1>7, <1>8, <1>9 DEF BeginFrame

(* The end of a frame: only who is followed draws the camera.              *)
LEMMA EndFrameStep == ASSUME RoomsInv, CameraInv, EndFrame PROVE CameraInv'
<1>1. UNCHANGED <<calls, current, bounds, followed, shows, asked>>
  BY DEF EndFrame, EndUpdateRoom
<1>2. place' \in [Actors -> Places]
  BY DEF EndFrame, CameraInv, CameraTyped
<1>3. OthersTyped'
  BY <1>1, <1>2 DEF OthersTyped, CameraTyped, CameraInv
<1>4. CASE UNCHANGED camera
  BY <1>1, <1>3, <1>4, CameraLeft
<1>5. CASE ~UNCHANGED camera
  <2>1. followed # None /\ camera' = PannedTo(place'[followed])
    BY <1>5 DEF EndFrame
  <2>2. asked' = None
    BY <1>1, <2>1 DEF CameraInv, AskedAlone, CameraTyped
  <2>3. camera \in Sight /\ place'[followed] \in Nat
    BY <1>2, <2>1, CameraAssumption DEF CameraInv, CameraTyped
  <2>4. camera' \in Sight /\ camera'.at = camera.at
    BY <2>1, <2>3, PannedToFacts
  <2>5. Here(camera.at)' = camera'.at
    BY <1>1, <2>4 DEF Here, CameraInv, CameraInRoom
  <2> QED BY <1>3, <2>2, <2>4, <2>5, CameraPlaced
<1> QED BY <1>4, <1>5


-----------------------------------------------------------------------------
(* The behaviours                                                          *)

LEMMA CameraInitInv == CameraInit => RoomsInv /\ CameraInv
<1> SUFFICES ASSUME CameraInit PROVE RoomsInv /\ CameraInv
  OBVIOUS
<1>1. RoomsInv
  BY InitInv DEF CameraInit
<1>2. /\ camera = Still(Half[current]) /\ bounds = None /\ followed = None
      /\ place \in [Actors -> Places] /\ shows = <<>> /\ asked = None
      /\ calls = <<>> /\ current \in Rooms
  BY DEF CameraInit, Init
<1>3. PICK h \in Nat : h = Half[current]
  BY <1>2, CameraAssumption
<1>4. camera \in Sight /\ camera.at = h
  BY <1>2, <1>3, StillFacts
<1>5. CameraTyped
  BY <1>2, <1>4 DEF CameraTyped
<1>6. CameraInRoom
  <2>1. PICK w \in Nat : w = Width[current]
    BY <1>2, CameraAssumption
  <2>2. 2 * h <= w
    BY <1>2, <1>3, <2>1, CameraAssumption
  <2>3. Here(h) = Nearest(h, h, w - h)
    BY <1>2, <1>3, <2>1 DEF Here, Clamped
  <2> QED BY <1>3, <1>4, <2>1, <2>2, <2>3 DEF CameraInRoom, Nearest
<1> QED BY <1>1, <1>2, <1>5, <1>6 DEF CameraInv, PanIsKept, AskedAlone

LEMMA CameraNextInv ==
  RoomsInv /\ CameraInv /\ [CameraNext]_<<vars, cameraVars>> => RoomsInv' /\ CameraInv'
<1> SUFFICES ASSUME RoomsInv, CameraInv, [CameraNext]_<<vars, cameraVars>>
             PROVE  RoomsInv' /\ CameraInv'
  OBVIOUS
<1>1. RoomsInv'
  BY CameraOverRooms
<1>2. ASSUME CameraNext PROVE CameraInv'
  BY <1>2, OrderedStep, MoveActorStep, ChangeRoomStep, EndChangeStep, EndSelectionStep,
     LeaveCameraStep, BeginFrameStep, EndFrameStep DEF CameraNext
<1>3. ASSUME UNCHANGED <<vars, cameraVars>> PROVE CameraInv'
  <2>1. UNCHANGED <<calls, current, camera, bounds, followed, place, shows, asked>>
    BY <1>3 DEF vars, cameraVars
  <2>2. OthersTyped'
    BY <2>1 DEF OthersTyped, CameraTyped, CameraInv
  <2>3. followed' \in {followed, None}
    BY <2>1
  <2> QED BY <2>1, <2>2, <2>3, CameraLeft
<1> QED BY <1>1, <1>2, <1>3

(* With the camera, and with what is to be shown after each change of room *)
(* under way, RoomsInv and CameraInv hold together.                        *)
THEOREM CameraSpecInv == CameraSpec => [](RoomsInv /\ CameraInv)
BY CameraInitInv, CameraNextInv, PTL DEF CameraSpec

(* The room on screen fills the screen, within the bounds that scripts set *)
(* for it, in the middle of any change of room, pan and drag: every setter *)
(* of Camera clamps, and setCurrentRoom drops the bounds of the room left. *)
THEOREM CameraStaysInRoom == CameraSpec => []CameraInRoom
<1>1. CameraInv => CameraInRoom
  BY DEF CameraInv
<1> QED BY <1>1, CameraSpecInv, PTL

(* The pan that a script asks for leads there, and the camera stays there  *)
(* until something else is asked, whatever frames and scripts come between. *)
THEOREM CameraKeepsPans == CameraSpec => []PanIsKept
<1>1. CameraInv => PanIsKept
  BY DEF CameraInv
<1> QED BY <1>1, CameraSpecInv, PTL

(* What is proved of the changes of room is true of those that the camera  *)
(* makes, to follow an actor or to look at an object of another room.      *)
THEOREM CameraKeepsRooms ==
  CameraSpec => [](TypeOK /\ EnteredIsCurrent /\ ThreadsOfTheRoom /\ LeftRoomIsEmpty)
<1>1. RoomsInv => TypeOK /\ EnteredIsCurrent /\ ThreadsOfTheRoom /\ LeftRoomIsEmpty
  BY DEF RoomsInv
<1> QED BY <1>1, CameraSpecInv, PTL

(* The camera, what it follows and what is to be shown keep their types,   *)
(* and there is one thing to show, or None, for each change under way.     *)
THEOREM CameraKeepsItsType == CameraSpec => []CameraTypeOK
<1>1. CameraInv => CameraTypeOK
  BY DEF CameraInv, CameraTyped, CameraTypeOK, Sight
<1> QED BY <1>1, CameraSpecInv, PTL

=============================================================================
