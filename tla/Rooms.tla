------------------------------- MODULE Rooms --------------------------------
(***************************************************************************)
(* The change of room. A script, a door, the selection of an actor or a    *)
(* new game leaves the room the engine shows and enters another, and both  *)
(* call scripts:                                                           *)
(*   actorExit -> exit -> exitedRoom      of the room left, then           *)
(*   enter -> actorEnter -> roomActorEnter -> objects -> enteredRoom       *)
(* of the room entered. Any of them may change the room again before the   *)
(* change that called it is over: the changes under way are in calls, the  *)
(* innermost last, each with the script it has called.                     *)
(*                                                                         *)
(* With a room go its local threads, its lights, and the objects that      *)
(* scripts have made in it. The trigger of a room starts a local thread    *)
(* when the current actor goes in or out, during the update of the room.   *)
(*                                                                         *)
(* A frame is  scripts -> room -> after -> scripts.  An object made while  *)
(* the objects of its room are gone through, by enterRoom or the update,   *)
(* is undefined behaviour; so is a room left meanwhile that had made some. *)
(* What holds of every behaviour holds of those that crash there.          *)
(***************************************************************************)
EXTENDS Naturals, Sequences

CONSTANTS
  Rooms,       (* the rooms                                                *)
  Actors,      (* the actors one may select                                *)
  None,        (* no room, no actor                                        *)
  MaxDoings    (* bound on what scripts and the player do                  *)

ASSUME RoomsAssumption ==
  /\ None \notin Rooms \cup Actors
  /\ MaxDoings \in Nat

VARIABLES
  phase,       (* where Engine::update is in the frame                     *)
  passRoom,    (* the room being updated                                   *)
  current,     (* _pRoom                                                   *)
  actor,       (* _pCurrentActor                                           *)
  actorRoom,   (* Actor::_pRoom                                            *)
  startScreen, (* is the state of the engine StartScreen?                  *)
  calls,       (* the changes of room and selections under way             *)
  threads,     (* the local threads                                        *)
  made,        (* has a room lights, or temporary objects, made in it?     *)
  entered,     (* history: the rooms entered and not left since            *)
  abandoned,   (* history: a new game has left the room and entered none   *)
  nested,      (* history: a room was left while a room was being left     *)
  doings       (* what scripts and the player have done so far             *)

vars == <<phase, passRoom, current, actor, actorRoom, startScreen, calls, threads,
          made, entered, abandoned, nested, doings>>

Leaving == {"actorExit", "exit", "exitedRoom"}
Entering == {"enter", "actorEnter", "roomActorEnter", "objects", "enteredRoom"}

Call ==
  [stage : Leaving \cup Entering \cup {"start", "onActorSelected"},
   from : Rooms, to : Rooms \cup {None}, door : BOOLEAN]

(* home is the room whose script it runs: that of the trigger, or the one  *)
(* on screen. It is late if the trigger's room had been left meanwhile.    *)
Thread == [home : Rooms, stopped : BOOLEAN, late : BOOLEAN]

In(stages) == \E i \in 1..Len(calls) : calls[i].stage \in stages

Top == calls[Len(calls)]
Below == SubSeq(calls, 1, Len(calls) - 1)

Init ==
  /\ phase = "scripts"
  /\ passRoom = None
  /\ current \in Rooms
  /\ actor = None
  /\ actorRoom \in [Actors -> Rooms \cup {None}]
  /\ startScreen = TRUE
  /\ calls = <<>>
  /\ threads = {}
  /\ made = [r \in Rooms |-> "none"]
  /\ entered = {current}
  /\ abandoned = FALSE
  /\ nested = FALSE
  /\ doings = 0

-----------------------------------------------------------------------------
(* Leaving a room, entering another                                        *)

(* Mutant: enterRoomFromDoor does not leave the room.                      *)
BeginChangeFromDoor(below, to, door) ==
  /\ calls' = Append(below, [stage |-> IF door THEN "exitedRoom" ELSE "actorExit",
                             from |-> current, to |-> to, door |-> door])
  /\ entered' = entered
  /\ nested' = (nested \/ In(Leaving))

(* Engine::Impl::exitRoom up to its first script: that of the room for the *)
(* current actor, if there is one.                                         *)
BeginChange(below, to, door) ==
  LET stage == IF actor = None THEN "exit" ELSE "actorExit" IN
  /\ calls' = Append(below, [stage |-> stage, from |-> current, to |-> to, door |-> door])
  /\ entered' = IF stage = "exit" THEN entered \ {current} ELSE entered
  /\ nested' = (nested \/ In(Leaving))

(* The script of the innermost change has returned: the next is called.    *)
Calls(stage) == calls' = Append(Below, [Top EXCEPT !.stage = stage])

At(stage) == calls # <<>> /\ Top.stage = stage

ReturnActorExit ==
  /\ At("actorExit")
  /\ Calls("exit")
  /\ entered' = entered \ {Top.from}
  /\ UNCHANGED <<phase, passRoom, current, actor, actorRoom, startScreen, threads,
                 made, abandoned, nested, doings>>

(* Mutant: the room to enter is emptied in its place.                      *)
EmptiesNext == [made EXCEPT ![IF Top.to = None THEN Top.from ELSE Top.to] = "none"]

(* Room::exit of the old room, lights and temporary objects, after its     *)
(* script; exitedRoom is called after that.                                *)
Empties == [made EXCEPT ![Top.from] = "none"]

ReturnExit ==
  /\ At("exit")
  /\ Calls("exitedRoom")
  /\ made' = Empties
  /\ UNCHANGED <<phase, passRoom, current, actor, actorRoom, startScreen, threads,
                 entered, abandoned, nested, doings>>

(* Mutant: exitRoom stops no thread.                                       *)
StopNoThread == threads

(* exitRoom stops the local threads last of all.                           *)
StopLocalThreads == {[t EXCEPT !.stopped = TRUE] : t \in threads}

(* A door without a current actor to go through it: a null pointer is used. *)
DoorOfNobody == At("exitedRoom") /\ Top.door /\ actor = None

Crashed == DoorOfNobody /\ UNCHANGED vars

(* Then the room changes, the current actor goes through the door, and the *)
(* new room's script is called; a new game calls start.                    *)
ReturnExitedRoom ==
  /\ At("exitedRoom") /\ ~DoorOfNobody
  /\ threads' = StopLocalThreads
  /\ IF Top.to = None
     THEN /\ Calls("start")
          /\ abandoned' = TRUE
          /\ UNCHANGED <<current, actorRoom, entered>>
     ELSE /\ Calls("enter")
          /\ abandoned' = FALSE
          /\ current' = Top.to
          /\ actorRoom' = IF Top.door THEN [actorRoom EXCEPT ![actor] = Top.to] ELSE actorRoom
          /\ entered' = entered \cup {Top.to}
  /\ UNCHANGED <<phase, passRoom, actor, startScreen, made, nested, doings>>

(* enterRoom: scripts of the room, of the current actor, of the objects,   *)
(* and enteredRoom; a script there may have selected the first actor.      *)
ReturnEnter ==
  /\ calls # <<>>
  /\ \/ At("enter") /\ Calls(IF actor = None THEN "objects" ELSE "actorEnter")
     \/ At("actorEnter") /\ Calls("roomActorEnter")
     \/ At("roomActorEnter") /\ Calls("objects")
     \/ At("objects") /\ Calls("enteredRoom")
     \/ Top.stage \in {"enteredRoom", "start"} /\ calls' = Below
  /\ UNCHANGED <<phase, passRoom, current, actor, actorRoom, startScreen, threads,
                 made, entered, abandoned, nested, doings>>

(* Engine::setRoom does nothing for no room, or the one on screen.         *)
Stays(r) == r \in {None, current}

(* setCurrentActor ends with follow, of the actor that is current by then. *)
ReturnOnActorSelected ==
  /\ At("onActorSelected")
  /\ IF Stays(actorRoom[actor])
     THEN calls' = Below /\ UNCHANGED <<entered, nested>>
     ELSE BeginChange(Below, actorRoom[actor], FALSE)
  /\ UNCHANGED <<phase, passRoom, current, actor, actorRoom, startScreen, threads,
                 made, abandoned, doings>>

Returns ==
  \/ ReturnActorExit \/ ReturnExit \/ ReturnExitedRoom \/ ReturnEnter
  \/ ReturnOnActorSelected

-----------------------------------------------------------------------------
(* What scripts and the player do, at any moment                           *)

May == doings < MaxDoings /\ doings' = doings + 1

(* cameraInRoom, cameraAt, cameraFollow, and loadGame.                     *)
SetRoom(r) ==
  /\ May
  /\ ~Stays(r)
  /\ BeginChange(calls, r, FALSE)
  /\ UNCHANGED <<phase, passRoom, current, actor, actorRoom, startScreen, threads,
                 made, abandoned>>

(* The room of the door may be the one on screen.                          *)
EnterRoomFromDoor(r) ==
  /\ May
  /\ BeginChange(calls, r, TRUE)
  /\ UNCHANGED <<phase, passRoom, current, actor, actorRoom, startScreen, threads,
                 made, abandoned>>

(* The start screen is updated before the scripts of the frame.            *)
NewGame ==
  /\ May
  /\ phase = "scripts" /\ calls = <<>> /\ startScreen
  /\ startScreen' = FALSE
  /\ BeginChange(calls, None, FALSE)
  /\ UNCHANGED <<phase, passRoom, current, actor, actorRoom, threads, made, abandoned>>

SelectActor(a) ==
  /\ May
  /\ actor' = a
  /\ calls' = Append(calls, [stage |-> "onActorSelected", from |-> current,
                             to |-> None, door |-> FALSE])
  /\ UNCHANGED <<phase, passRoom, current, actorRoom, startScreen, threads, made,
                 entered, abandoned, nested>>

ActorAt(a, r) ==
  /\ May
  /\ actorRoom' = [actorRoom EXCEPT ![a] = r]
  /\ UNCHANGED <<phase, passRoom, current, actor, startScreen, calls, threads, made,
                 entered, abandoned, nested>>

StartThread(home) == threads \cup {[home |-> home, stopped |-> FALSE, late |-> home # current]}

StartLocalThread ==
  /\ May
  /\ threads' = StartThread(current)
  /\ UNCHANGED <<phase, passRoom, current, actor, actorRoom, startScreen, calls, made,
                 entered, abandoned, nested>>

(* createLight, createObject and createTextObject make something in the    *)
(* room on screen; exitedRoom and what it calls make it too late.          *)
CreateObject ==
  /\ May
  /\ made' = [made EXCEPT ![current] = IF In({"exitedRoom"}) THEN "late" ELSE "some"]
  /\ UNCHANGED <<phase, passRoom, current, actor, actorRoom, startScreen, calls,
                 threads, entered, abandoned, nested>>

Scripts ==
  \/ \E r \in Rooms : SetRoom(r) \/ EnterRoomFromDoor(r)
  \/ NewGame
  \/ \E a \in Actors : SelectActor(a) \/ \E r \in Rooms : ActorAt(a, r)
  \/ StartLocalThread \/ CreateObject

-----------------------------------------------------------------------------
(* The frame                                                               *)

StopThreads ==
  /\ phase = "after" /\ calls = <<>>
  /\ phase' = "scripts"
  /\ threads' = {t \in threads : ~t.stopped}
  /\ UNCHANGED <<passRoom, current, actor, actorRoom, startScreen, calls, made,
                 entered, abandoned, nested, doings>>

(* A paused engine, or one in the room Void, does not update the room.     *)
UpdateRoom ==
  /\ phase = "scripts" /\ calls = <<>>
  /\ \/ phase' = "room" /\ passRoom' = current
     \/ phase' = "after" /\ UNCHANGED passRoom
  /\ UNCHANGED <<current, actor, actorRoom, startScreen, calls, threads, made,
                 entered, abandoned, nested, doings>>

(* The trigger, in the update of its room, whatever room is on screen: the *)
(* current actor has gone in, or out; the actors' scripts may run before.  *)
CallTrigger ==
  /\ phase = "room" /\ calls = <<>>
  /\ actor # None
  /\ threads' = StartThread(passRoom)
  /\ UNCHANGED <<phase, passRoom, current, actor, actorRoom, startScreen, calls, made,
                 entered, abandoned, nested, doings>>

EndUpdateRoom ==
  /\ phase = "room" /\ calls = <<>>
  /\ phase' = "after"
  /\ passRoom' = None
  /\ UNCHANGED <<current, actor, actorRoom, startScreen, calls, threads, made,
                 entered, abandoned, nested, doings>>

Next ==
  \/ Scripts \/ Returns
  \/ StopThreads \/ UpdateRoom \/ CallTrigger \/ EndUpdateRoom
  \/ Crashed

Spec == Init /\ [][Next]_vars

-----------------------------------------------------------------------------
(* Correctness                                                             *)

TypeOK ==
  /\ phase \in {"scripts", "room", "after"}
  /\ passRoom \in Rooms \cup {None}
  /\ phase = "room" => passRoom \in Rooms
  /\ current \in Rooms
  /\ actor \in Actors \cup {None}
  /\ actorRoom \in [Actors -> Rooms \cup {None}]
  /\ startScreen \in BOOLEAN
  /\ calls \in Seq(Call)
  /\ In({"onActorSelected"}) => actor # None
  /\ startScreen => \A i \in 1..Len(calls) :
       calls[i].to \in Rooms \/ calls[i].stage = "onActorSelected"
  /\ threads \subseteq Thread
  /\ made \in [Rooms -> {"none", "some", "late"}]
  /\ entered \subseteq Rooms
  /\ abandoned \in BOOLEAN
  /\ nested \in BOOLEAN
  /\ doings \in 0..MaxDoings

(* exitRoom has called the script of the room it leaves, and enterRoom not *)
(* yet that of the next.                                                   *)
Between == In({"exit", "exitedRoom"})

(* Whatever the scripts of a change change in turn, the room on screen is  *)
(* entered and no other, and no room is left that was not entered, unless  *)
(* a room is left by a script of its being left. A new game is in no room  *)
(* until its script enters one.                                            *)
EnteredIsCurrent ==
  ~nested => entered = IF Between \/ abandoned THEN {} ELSE {current}

(* No local thread outlives its room, but for that of a trigger updated    *)
(* after a script of the same update has left the room.                    *)
ThreadsOfTheRoom ==
  \A t \in threads : ~t.stopped /\ ~t.late => t.home = current

(* A room that is not on screen has no lights and no temporary objects, so *)
(* that its script finds it as it was the first time, unless it was left   *)
(* while being left, or exitedRoom made some.                              *)
LeftRoomIsEmpty ==
  ~nested => \A r \in Rooms \ {current} : made[r] # "some"

=============================================================================
