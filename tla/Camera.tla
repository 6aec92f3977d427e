------------------------------- MODULE Camera -------------------------------
(***************************************************************************)
(* The camera, over the changes of room of Rooms. It looks at a place of   *)
(* the room on screen, along one axis: the other is dealt with alike.      *)
(* Scripts put it at a place, pan it to one, bound it, or have it follow   *)
(* an actor; the player drags it; the end of a frame pans it to the actor  *)
(* it follows; every change of room puts it at the beginning of the room.  *)
(*                                                                         *)
(* To follow an actor, or to look at an object, of another room changes    *)
(* the room first. The scripts of that change may order the camera about   *)
(* themselves; what was to be shown is shown after them, at the place read *)
(* before: it is in shows, one for each change under way.                  *)
(*                                                                         *)
(* An interpolation is any place on the way, and a pan ends at any update: *)
(* its time is abstracted.                                                 *)
(***************************************************************************)
EXTENDS Rooms

CONSTANTS
  Width,       (* of each room                                             *)
  Half,        (* half the width of the screen in each room                *)
  Places,      (* where actors and objects are, and what pans lead to      *)
  Bounds,      (* what scripts bound the camera to                         *)
  Closeups     (* the rooms shown whole, whose doors leave the camera alone *)

ASSUME CameraAssumption ==
  /\ Width \in [Rooms -> Nat] /\ Half \in [Rooms -> Nat]
  /\ \A r \in Rooms : 2 * Half[r] <= Width[r]
  /\ Places \subseteq Nat
  /\ Bounds \subseteq [low : Nat, high : Nat]
  /\ \A b \in Bounds : b.low <= b.high
  /\ Closeups \subseteq Rooms
  /\ None \notin Places /\ None \notin Bounds

VARIABLES
  camera,      (* where it is, where a pan began and leads, _isMoving, and *)
               (* whether the time of a pan may still run                  *)
  bounds,      (* Camera::_bounds, or None                                 *)
  followed,    (* _pFollowActor                                            *)
  place,       (* where the actors are                                     *)
  shows,       (* what to show after each change under way, or None        *)
  asked        (* history: where a script has panned to and not yet asked  *)
               (* for something else, or None                              *)

cameraVars == <<camera, bounds, followed, place, shows, asked>>

Nearest(x, low, high) == IF x < low THEN low ELSE IF high < x THEN high ELSE x

(* clampCamera: the screen stays within the bounds, then within the room.  *)
Clamped(x, room, b) ==
  LET half == Half[room]
      y == IF b = None THEN x ELSE Nearest(x, half + b.low, half + b.high)
  IN  Nearest(y, half, Width[room] - half)

Here(x) == Clamped(x, current, bounds)

Still(x) == [at |-> x, from |-> x, target |-> x, moving |-> FALSE, timed |-> FALSE]

(* panTo: a pan under way is led elsewhere, from where and when it began.  *)
PannedTo(x) ==
  [camera EXCEPT !.from = IF camera.moving THEN @ ELSE camera.at,
                 !.target = x, !.moving = TRUE, !.timed = TRUE]

CameraInit ==
  /\ Init
  /\ camera = Still(Half[current])
  /\ bounds = None /\ followed = None
  /\ place \in [Actors -> Places]
  /\ shows = <<>>
  /\ asked = None

-----------------------------------------------------------------------------
(* Orders that stay in the room                                            *)

(* They count among the doings of scripts and the player.                  *)
Order ==
  /\ May
  /\ UNCHANGED <<phase, passRoom, current, actor, actorRoom, startScreen, calls,
                 threads, made, entered, abandoned, nested>>

CameraAt(x) ==
  /\ Order
  /\ camera' = Still(Here(x))
  /\ asked' = None
  /\ UNCHANGED <<bounds, followed, place, shows>>

(* Mutant: what was followed is followed on.                               *)
CameraPanToFollowing(x) ==
  /\ Order
  /\ camera' = PannedTo(x)
  /\ asked' = x
  /\ UNCHANGED <<bounds, followed, place, shows>>

(* A script that pans the camera has it follow nobody.                     *)
CameraPanTo(x) ==
  /\ Order
  /\ followed' = None
  /\ camera' = PannedTo(x)
  /\ asked' = x
  /\ UNCHANGED <<bounds, place, shows>>

(* A pan under way is bounded when it is next updated.                     *)
CameraBounds(b) ==
  /\ Order
  /\ bounds' = b
  /\ camera' = [camera EXCEPT !.at = Clamped(@, current, b)]
  /\ asked' = IF camera.moving THEN asked ELSE None
  /\ UNCHANGED <<followed, place, shows>>

(* Camera::move, when the player drags the room: the time of a pan runs on. *)
Drag(x) ==
  /\ Order /\ phase = "after" /\ calls = <<>>
  /\ camera' = [camera EXCEPT !.at = Here(x), !.target = Here(x), !.moving = FALSE]
  /\ asked' = None
  /\ UNCHANGED <<bounds, followed, place, shows>>

FollowNobody ==
  /\ Order
  /\ followed' = None
  /\ UNCHANGED <<camera, bounds, place, shows, asked>>

-----------------------------------------------------------------------------
(* Orders that may change the room                                         *)

(* The camera pans from the actor it followed to another in the same room. *)
PansTo(a) ==
  followed \notin {None, a} /\ actorRoom[a] # None /\ actorRoom[followed] = actorRoom[a]

Shown(s) == IF s.pan THEN PannedTo(s.at) ELSE Still(Here(s.at))

Showing(a) == [pan |-> PansTo(a), at |-> place[a]]

(* Engine::follow, by a script or the end of a cutscene: the place of the  *)
(* actor is read before the room changes.                                  *)
Follow(a) ==
  /\ followed' = a /\ asked' = None
  /\ IF Stays(actorRoom[a])
     THEN Order /\ camera' = Shown(Showing(a)) /\ UNCHANGED shows
     ELSE /\ SetRoom(actorRoom[a])
          /\ shows' = Append(shows, Showing(a))
          /\ UNCHANGED camera
  /\ UNCHANGED <<bounds, place>>

(* cameraAt of an object of another room                                   *)
CameraAtObject(r, x) ==
  /\ SetRoom(r)
  /\ shows' = Append(shows, [pan |-> FALSE, at |-> x])
  /\ UNCHANGED <<camera, bounds, followed, place, asked>>

(* cameraInRoom, a door, a new game and a selection show nothing after.    *)
ShowNothing ==
  /\ shows' = Append(shows, None)
  /\ UNCHANGED <<camera, bounds, followed, place, asked>>

ShowsTop == shows[Len(shows)]

ShowsBelow == SubSeq(shows, 1, Len(shows) - 1)

Ordered ==
  \/ \E x \in Places : CameraAt(x) \/ CameraPanTo(x) \/ Drag(x)
  \/ \E b \in Bounds : CameraBounds(b)
  \/ FollowNobody
  \/ \E a \in Actors : Follow(a)
  \/ \E r \in Rooms, x \in Places : CameraAtObject(r, x)
  \/ (\E r \in Rooms : SetRoom(r) \/ EnterRoomFromDoor(r)) /\ ShowNothing
  \/ NewGame /\ ShowNothing
  \/ (\E a \in Actors : SelectActor(a)) /\ ShowNothing

MoveActor ==
  /\ \E a \in Actors, r \in Rooms, x \in Places : ActorAt(a, r) /\ place' = [place EXCEPT ![a] = x]
  /\ UNCHANGED <<camera, bounds, followed, shows, asked>>

-----------------------------------------------------------------------------
(* The change of room                                                      *)

(* Mutant: the camera stays where it was.                                  *)
ChangeRoomOnly ==
  /\ ReturnExitedRoom
  /\ bounds' = None
  /\ UNCHANGED <<camera, followed, place, shows, asked>>

(* setCurrentRoom: the camera goes to the beginning of the room; a door    *)
(* puts the current actor on its far side and, unless the room is a        *)
(* closeup, the camera too.                                                *)
ChangeRoom ==
  /\ ReturnExitedRoom
  /\ IF Top.to = None
     THEN UNCHANGED <<camera, bounds, place, asked>>
     ELSE /\ bounds' = None /\ asked' = None
          /\ \E x \in IF Top.door THEN Places ELSE {0} :
               /\ place' = IF Top.door THEN [place EXCEPT ![actor] = x] ELSE place
               /\ camera' = Still(Clamped(IF Top.to \in Closeups THEN 0 ELSE x, Top.to, None))
  /\ UNCHANGED <<followed, shows>>

(* The change is over: what it was made for is shown.                      *)
EndChange ==
  /\ ReturnEnter
  /\ IF Len(calls') < Len(calls)
     THEN /\ shows' = ShowsBelow
          /\ IF ShowsTop = None
             THEN UNCHANGED <<camera, asked>>
             ELSE camera' = Shown(ShowsTop) /\ asked' = None
     ELSE UNCHANGED <<camera, shows, asked>>
  /\ UNCHANGED <<bounds, followed, place>>

(* setCurrentActor: the one that is current by then is followed.           *)
EndSelection ==
  /\ ReturnOnActorSelected
  /\ followed' = actor /\ asked' = None
  /\ IF Stays(actorRoom[actor])
     THEN camera' = Shown(Showing(actor)) /\ shows' = ShowsBelow
     ELSE shows' = Append(ShowsBelow, Showing(actor)) /\ UNCHANGED camera
  /\ UNCHANGED <<bounds, place>>

LeaveCamera ==
  /\ ReturnActorExit \/ ReturnExit \/ StartLocalThread \/ CreateObject
     \/ UpdateRoom \/ CallTrigger \/ Crashed
  /\ UNCHANGED cameraVars

-----------------------------------------------------------------------------
(* The frame                                                               *)

OnTheWay(x) ==
  \/ camera.from <= x /\ x <= camera.target
  \/ camera.target <= x /\ x <= camera.from

(* Camera::update, unless the game is paused. The time of the pan is over, *)
(* or is not and the camera is on its way, even if it was dragged. What a  *)
(* new game has begun is taken on by the next frame.                       *)
BeginFrame ==
  /\ StopThreads
  /\ \/ UNCHANGED camera
     \/ camera' = IF camera.moving THEN Still(Here(camera.target)) ELSE [camera EXCEPT !.timed = FALSE]
     \/ /\ camera.timed
        /\ \E x \in Places \cup {camera.from, camera.target} :
             OnTheWay(x) /\ camera' = [camera EXCEPT !.at = Here(x)]
  /\ UNCHANGED <<bounds, followed, place, shows, asked>>

(* Further than a quarter of the screen.                                   *)
Far(x) ==
  LET margin == Half[current] \div 2
  IN  x + margin < camera.at \/ camera.at + margin < x

(* Actors walk. One that is followed, if it is visible, is panned to.      *)
EndFrame ==
  /\ EndUpdateRoom
  /\ \/ UNCHANGED place
     \/ \E a \in Actors, x \in Places : place' = [place EXCEPT ![a] = x]
  /\ \/ UNCHANGED camera
     \/ /\ followed # None /\ actorRoom[followed] = current
        /\ camera.moving \/ Far(place'[followed])
        /\ camera' = PannedTo(place'[followed])
  /\ UNCHANGED <<bounds, followed, shows, asked>>

CameraNext ==
  \/ Ordered \/ MoveActor
  \/ ChangeRoom \/ EndChange \/ EndSelection \/ LeaveCamera
  \/ BeginFrame \/ EndFrame

CameraSpec == CameraInit /\ [][CameraNext]_<<vars, cameraVars>>

-----------------------------------------------------------------------------
(* Correctness                                                             *)

CameraTypeOK ==
  /\ camera.at \in Nat /\ camera.from \in Nat /\ camera.target \in Nat
  /\ camera.moving \in BOOLEAN /\ camera.timed \in BOOLEAN
  /\ bounds \in Bounds \cup {None}
  /\ followed \in Actors \cup {None}
  /\ place \in [Actors -> Places]
  /\ Len(shows) = Len(calls)
  /\ asked \in Places \cup {None}

(* The screen is filled by the room on screen, within the bounds set for   *)
(* it, in the middle of any change of room, pan and drag.                  *)
CameraInRoom == camera.at = Here(camera.at)

(* A pan that a script asks for leads there, and the camera stays there,   *)
(* until something else is asked: no actor followed before draws it away,  *)
(* at the end of any frame.                                                *)
PanIsKept ==
  asked # None =>
    IF camera.moving THEN camera.target = asked ELSE camera.at = Here(asked)

=============================================================================
