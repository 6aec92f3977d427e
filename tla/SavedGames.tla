----------------------------- MODULE SavedGames -----------------------------
(***************************************************************************)
(* Saved games: the file a game is written to, and the load that puts it   *)
(* back over a game under way, or in a fresh process.                      *)
(*                                                                         *)
(* A load is not one step: it calls scripts all the way through (preLoad,  *)
(* the postLoad of actors and rooms, the onPickup of what goes into an     *)
(* inventory, onActorSelected, the exit and enter of rooms, postLoad), and *)
(* each of them may do what scripts do. What was put back before such a    *)
(* script can be changed by it; what is put back after it is the file's.   *)
(*                                                                         *)
(* Callbacks, dialogs and what threads do under a load are in Callbacks,   *)
(* Dialog and Threads. One variable stands for the tables of the globals;  *)
(* those of actors, rooms and objects are saved and loaded alike.          *)
(***************************************************************************)
EXTENDS Slots

CONSTANTS
  PseudoObjects,   (* those of pseudo-rooms, the others being ordinary     *)
  ObjectStates,    (* the states scripts give objects: 0, Gone, others     *)
  Gone,
  InitState,       (* initState of each object, 0 unless its table says    *)
  InitTouchable,   (* initTouchable, TRUE unless its table says            *)
  Globals,         (* values of a variable of g: None is null              *)
  MaxRestarts      (* bound on the processes started anew                  *)

ASSUME SavedGamesAssumption ==
  /\ PseudoObjects \subseteq Objects /\ MaxRestarts \in Nat
  /\ 0 \in ObjectStates /\ Gone \in ObjectStates \ {0}
  /\ InitState \in [Objects -> ObjectStates] /\ InitTouchable \in [Objects -> BOOLEAN]
  /\ None \in Globals

VARIABLES
  objects,    (* state, touchable, visible of each object                  *)
  globals,    (* a variable of the table g                                 *)
  file,       (* the file of a slot: the game in it, and how much of it    *)
  thumbnail,  (* its picture: a slot that has one is offered for loading   *)
  load,       (* the load under way: what it loads, and how far it is      *)
  restarts,
  disturbed   (* history: what scripts have changed during the load        *)

saving == <<file, thumbnail, restarts>>
vars   == <<slotVars, objects, globals, saving, load, disturbed>>

(* Object::isVisible, Entity::isTouchable                                  *)
IsVisible(b)   == b.visible /\ b.state # Gone
IsTouchable(b) == IsVisible(b) /\ b.touchable

NoGame == [none |-> TRUE]

(* What a part is at: the actors to do, or the slot with its actor, the    *)
(* objects to pick up and the offset; the room to enter and what is next.  *)
NoLoad == [part |-> "none", script |-> FALSE, game |-> NoGame, orphans |-> {},
           actors |-> {}, slot |-> 0, actor |-> None, todo |-> <<>>, scroll |-> 0,
           to |-> None, next |-> "none"]

Loading == load.part # "none"

Started == pRoom # StartScreen

-----------------------------------------------------------------------------
(* Saving                                                                  *)

(* SaveGameSystem::saveGame                                                *)
Game == [slots |-> slots, mode |-> mode, actor |-> pCurrentActor, room |-> pRoom,
         actorRoom |-> actorRoom, inventory |-> inventory,
         offset |-> [a \in Actors |-> Offset(a)], objects |-> objects, globals |-> globals]

(* saveObject: what is not written is read as its default.                 *)
SaveObject(b) == [state |-> b.state, untouchable |-> ~IsTouchable(b)]

MaySave == ~crashed /\ IF Loading THEN load.script ELSE Started

(* From the options menu, or by exCommand(EX_AUTOSAVE) of any script. The  *)
(* current actor is asked for his key.                                     *)
SaveGame ==
  /\ May /\ MaySave
  /\ IF pCurrentActor = None
     THEN crashed' = TRUE /\ UNCHANGED file
     ELSE file' = [part |-> "whole", game |-> Game] /\ UNCHANGED crashed
  /\ thumbnail' = TRUE
  /\ UNCHANGED <<selection, actorRoom, things, objects, globals, load, restarts, disturbed>>

-----------------------------------------------------------------------------
(* Restarting                                                              *)

(* A fresh process, up to the start screen. The boot script has given the  *)
(* slots, and nothing else of what a game is.                              *)
Boots ==
  /\ restarts < MaxRestarts /\ restarts' = restarts + 1
  /\ slots' = FirstSlots /\ mode' = {"on"}
  /\ pCurrentActor' = None /\ hudIndex' = 0 /\ pRoom' = StartScreen
  /\ actorRoom' = [a \in Actors |-> None]
  /\ inventory' = [a \in Actors |-> <<>>] /\ owner' = [o \in Objects |-> None]
  /\ offset' = [a \in Actors |-> 0] /\ taken' = {}
  /\ objects' = [o \in Objects |-> [state |-> InitState[o], touchable |-> InitTouchable[o],
                                    visible |-> InitState[o] # Gone]]
  /\ globals' = None
  /\ crashed' = FALSE
  /\ load' = NoLoad /\ disturbed' = {}
  /\ UNCHANGED doings

(* The program ends, by itself or not, and is started again.               *)
Restart == Boots /\ UNCHANGED <<file, thumbnail>>

(* The picture is written first; then the file is emptied, and written in  *)
(* place: whatever it held is lost.                                        *)
CrashWhileSaving ==
  /\ MaySave /\ pCurrentActor # None
  /\ Boots
  /\ thumbnail' = TRUE
  /\ \/ UNCHANGED file
     \/ \E part \in {"empty", "torn"} : file' = [part |-> part, game |-> NoGame]

-----------------------------------------------------------------------------
(* Loading: the file                                                       *)

MayLoad == ~crashed /\ ~Loading /\ thumbnail

(* No game is read from a file that is not whole. One that is not there    *)
(* has size -1. Of one that is empty the 16 bytes before its beginning are *)
(* read: the process dies, or what is read is refused. A torn one does not *)
(* agree with its hash.                                                    *)
RefusesFile ==
  /\ MayLoad /\ file.part # "whole"
  /\ crashed' \in CASE file.part = "missing" -> {TRUE}
                     [] file.part = "empty"   -> BOOLEAN
                     [] file.part = "torn"    -> {FALSE}
  /\ UNCHANGED <<selection, actorRoom, things, doings, objects, globals, saving, load, disturbed>>

LoadGame ==
  /\ MayLoad /\ file.part = "whole"
  /\ load' = [NoLoad EXCEPT !.part = "preLoad", !.script = TRUE, !.game = file.game]
  /\ UNCHANGED <<slotVars, objects, globals, saving, disturbed>>

-----------------------------------------------------------------------------
(* Loading: the parts. Each starts when the script that was called last    *)
(* has returned.                                                           *)

At(part) == ~crashed /\ load.part = part

Goes(part, script) == load' = [load EXCEPT !.part = part, !.script = script]

(* loadGameScene: an empty slot is saved as one that is not selectable,    *)
(* and sets the first that is empty.                                       *)
LoadSlots ==
  LET its(j) == {i \in 1..NSlots : IndexOf(load.game.slots[i].actor) = j}
      saved(j) == load.game.slots[Max(its(j))]
  IN  [j \in 1..NSlots |->
         IF its(j) = {} THEN slots[j]
         ELSE [slots[j] EXCEPT !.selectable = saved(j).actor # None /\ saved(j).selectable]]

(* After preLoad. A global that was null is not in the file.               *)
LoadSceneAndGlobals ==
  /\ At("preLoad")
  /\ slots' = LoadSlots /\ mode' = load.game.mode
  /\ globals' = IF load.game.globals = None THEN globals ELSE load.game.globals
  /\ load' = [load EXCEPT !.part = "actors", !.script = FALSE, !.actors = Actors]
  /\ UNCHANGED <<pCurrentActor, hudIndex, pRoom, actorRoom, things, crashed, doings,
                 objects, saving, disturbed>>

(* loadActor, and the postLoad of the actor; an actor that was nowhere is  *)
(* put into Void.                                                          *)
LoadActor ==
  /\ At("actors") /\ load.actors # {}
  /\ LET a == CHOOSE x \in load.actors : TRUE IN
     /\ actorRoom' = [actorRoom EXCEPT ![a] = IF load.game.actorRoom[a] = None THEN Void
                                              ELSE load.game.actorRoom[a]]
     /\ load' = [load EXCEPT !.script = TRUE, !.actors = @ \ {a}]
  /\ UNCHANGED <<selection, things, crashed, doings, objects, globals, saving, disturbed>>

EndActors ==
  /\ At("actors") /\ load.actors = {}
  /\ load' = [load EXCEPT !.part = "slot", !.script = FALSE, !.slot = 1]
  /\ UNCHANGED <<slotVars, objects, globals, saving, disturbed>>

(* getInventoryObject: objects of pseudo-rooms are not in the root table.  *)
Found(held) == Kept(held, Objects \ PseudoObjects)

(* loadInventory goes by the number of the slot, whoever is in it now.     *)
LoadSlot ==
  /\ At("slot") /\ load.slot <= NSlots
  /\ LET a == slots[load.slot].actor
         saved == load.game.slots[load.slot].actor
     IN  IF a = None
         THEN load' = [load EXCEPT !.slot = @ + 1] /\ UNCHANGED things
         ELSE /\ ClearInventory(a)
              /\ load' = [load EXCEPT
                   !.part = "inventory", !.actor = a,
                   !.todo = IF saved = None THEN <<>> ELSE Found(load.game.inventory[saved]),
                   !.scroll = IF saved = None THEN 0 ELSE load.game.offset[saved],
                   !.orphans = @ \cup
                     {o \in Objects : Holds(a, o) /\ \E b \in Actors \ {a} : Holds(b, o)}]
              /\ UNCHANGED offset
  /\ UNCHANGED <<selection, actorRoom, crashed, doings, objects, globals, saving, disturbed>>

(* pickupObject of the next object, and its onPickup                       *)
LoadPickup ==
  /\ At("inventory") /\ load.todo # <<>>
  /\ inventory' = [inventory EXCEPT ![load.actor] = Append(@, Head(load.todo))]
  /\ owner' = [owner EXCEPT ![Head(load.todo)] = load.actor]
  /\ load' = [load EXCEPT !.todo = Tail(@), !.script = TRUE, !.orphans = @ \ {Head(load.todo)}]
  /\ UNCHANGED <<selection, actorRoom, offset, taken, crashed, doings, objects, globals,
                 saving, disturbed>>

EndSlot ==
  /\ At("inventory") /\ load.todo = <<>>
  /\ offset' = [offset EXCEPT ![load.actor] = load.scroll]
  /\ load' = [load EXCEPT !.part = "slot", !.script = FALSE, !.slot = @ + 1,
                          !.actor = None, !.scroll = 0]
  /\ UNCHANGED <<selection, actorRoom, inventory, owner, taken, crashed, doings, objects,
                 globals, saving, disturbed>>

(* loadObject: state 0, touchable and visible are not in the file.         *)
LoadObject(o, b) ==
  [state     |-> IF b.state = 0 THEN InitState[o] ELSE b.state,
   touchable |-> IF b.untouchable THEN FALSE ELSE InitTouchable[o],
   visible   |-> TRUE]

LoadThe(some) ==
  objects' = [o \in Objects |-> IF o \in some THEN LoadObject(o, SaveObject(load.game.objects[o]))
                                ELSE objects[o]]

(* Rooms with the objects of pseudo-rooms, and the postLoad of rooms       *)
LoadRooms ==
  /\ At("slot") /\ load.slot > NSlots
  /\ LoadThe(PseudoObjects)
  /\ load' = [load EXCEPT !.part = "rooms", !.script = TRUE, !.slot = 0]
  /\ UNCHANGED <<slotVars, globals, saving, disturbed>>

(* setActor: onActorSelected is called, and the camera follows.            *)
LoadCurrentActor ==
  /\ At("rooms")
  /\ BecomesCurrent(load.game.actor)
  /\ Goes("selected", TRUE)
  /\ UNCHANGED <<slots, mode, pRoom, actorRoom, things, doings, objects, globals, saving,
                 disturbed>>

(* setRoom: the exit of the room on screen is called; or nothing happens.  *)
Change(r, next) ==
  IF Stays(r) THEN Goes(next, FALSE)
  ELSE load' = [load EXCEPT !.part = "exit", !.script = TRUE, !.to = r, !.next = next]

(* Mutant: the room of the actor is taken for the one that was saved.      *)
FollowOnly ==
  /\ At("selected")
  /\ Change(RoomOf(pCurrentActor), "objects")
  /\ UNCHANGED <<slotVars, objects, globals, saving, disturbed>>

Follow ==
  /\ At("selected")
  /\ Change(RoomOf(pCurrentActor), "room")
  /\ UNCHANGED <<slotVars, objects, globals, saving, disturbed>>

LoadCurrentRoom ==
  /\ At("room")
  /\ Change(load.game.room, "objects")
  /\ UNCHANGED <<slotVars, objects, globals, saving, disturbed>>

EnterRoom ==
  /\ At("exit")
  /\ pRoom' = load.to
  /\ load' = [load EXCEPT !.part = "enter", !.to = None]
  /\ UNCHANGED <<slots, mode, pCurrentActor, hudIndex, actorRoom, things, crashed, doings,
                 objects, globals, saving, disturbed>>

EnteredRoom ==
  /\ At("enter")
  /\ load' = [load EXCEPT !.part = load.next, !.script = FALSE, !.next = "none"]
  /\ UNCHANGED <<slotVars, objects, globals, saving, disturbed>>

LoadObjects ==
  /\ At("objects")
  /\ LoadThe(Objects \ PseudoObjects)
  /\ Goes("postLoad", TRUE)
  /\ UNCHANGED <<slotVars, globals, saving, disturbed>>

EndLoad ==
  /\ At("postLoad")
  /\ load' = NoLoad /\ disturbed' = {}
  /\ UNCHANGED <<slotVars, objects, globals, saving>>

Loads ==
  \/ RefusesFile \/ LoadGame
  \/ LoadSceneAndGlobals \/ LoadActor \/ EndActors \/ LoadSlot \/ LoadPickup \/ EndSlot
  \/ LoadRooms \/ LoadCurrentActor \/ Follow \/ LoadCurrentRoom \/ EnterRoom \/ EnteredRoom
  \/ LoadObjects \/ EndLoad

-----------------------------------------------------------------------------
(* Scripts and the player                                                  *)

Becomes(o, b) ==
  /\ May /\ objects' = [objects EXCEPT ![o] = b]
  /\ UNCHANGED <<selection, actorRoom, things, crashed, globals>>

ObjectState(o, s) == Becomes(o, [objects[o] EXCEPT !.state = s, !.visible = s # Gone])

ObjectTouchable(o, b) == Becomes(o, [objects[o] EXCEPT !.touchable = b])

ObjectHidden(o, b) == Becomes(o, [objects[o] EXCEPT !.visible = ~b])

SetGlobal(v) ==
  /\ May /\ globals' = v
  /\ UNCHANGED <<selection, actorRoom, things, crashed, objects>>

ObjectScripts ==
  \/ \E o \in Objects : \/ \E s \in ObjectStates : ObjectState(o, s)
                         \/ \E b \in BOOLEAN : ObjectTouchable(o, b) \/ ObjectHidden(o, b)
  \/ \E v \in Globals : SetGlobal(v)

(* What a script has changed of what a load puts back.                     *)
Changed ==
  {<<"object", o>> : o \in {x \in Objects : objects'[x] # objects[x]}}
  \cup {<<"actor", a>> : a \in {x \in Actors : actorRoom'[x] # actorRoom[x]}}
  \cup {<<"inventory", a>> : a \in {x \in Actors : inventory'[x] # inventory[x]}}
  \cup (IF globals' # globals THEN {<<"globals">>} ELSE {})
  \cup (IF slots' # slots THEN {<<"slots">>} ELSE {})
  \cup (IF mode' # mode THEN {<<"mode">>} ELSE {})
  \cup (IF pCurrentActor' # pCurrentActor THEN {<<"current">>} ELSE {})
  \cup (IF pRoom' # pRoom THEN {<<"room">>} ELSE {})

(* Scripts run all the time in a game; in a load, those it has called.     *)
Scripts ==
  /\ IF Loading THEN load.script ELSE Started
  /\ \/ SlotScripts /\ UNCHANGED <<objects, globals>>
     \/ ObjectScripts
  /\ disturbed' = IF Loading THEN disturbed \cup ({load.part} \X Changed) ELSE disturbed
  /\ UNCHANGED <<saving, load>>

Plays ==
  /\ Started /\ ~Loading
  /\ Player
  /\ UNCHANGED <<objects, globals, saving, load, disturbed>>

Init ==
  /\ InitSlots
  /\ objects = [o \in Objects |-> [state |-> InitState[o], touchable |-> InitTouchable[o],
                                   visible |-> InitState[o] # Gone]]
  /\ globals \in Globals
  /\ file = [part |-> "missing", game |-> NoGame] /\ thumbnail = FALSE
  /\ load = NoLoad /\ restarts = 0 /\ disturbed = {}

Next == Plays \/ Scripts \/ SaveGame \/ Restart \/ CrashWhileSaving \/ Loads

Spec == Init /\ [][Next]_vars

-----------------------------------------------------------------------------
(* Correctness                                                             *)

Object == [state : ObjectStates, touchable : BOOLEAN, visible : BOOLEAN]

Games ==
  [slots : [1..NSlots -> Slot], mode : SUBSET {"on", "temporary"}, actor : Actors,
   room : Rooms \cup {StartScreen}, actorRoom : [Actors -> Rooms \cup {None}],
   inventory : [Actors -> Seq(Objects)], offset : [Actors -> Nat],
   objects : [Objects -> Object], globals : Globals]

File ==
  [part : {"missing", "empty", "torn"}, game : {NoGame}] \cup [part : {"whole"}, game : Games]

Load ==
  [part : {"none", "preLoad", "actors", "slot", "inventory", "rooms", "selected", "exit",
           "enter", "room", "objects", "postLoad"},
   script : BOOLEAN, game : Games \cup {NoGame}, orphans : SUBSET Objects,
   actors : SUBSET Actors, slot : 0..(NSlots + 1), actor : Actors \cup {None},
   todo : Seq(Objects), scroll : Nat, to : Rooms \cup {StartScreen, None},
   next : {"room", "objects", "none"}]

TypeOK ==
  /\ SlotsTypeOK
  /\ objects \in [Objects -> Object] /\ globals \in Globals
  /\ file \in File /\ thumbnail \in BOOLEAN
  /\ load \in Load /\ (Loading => load.game \in Games)
  /\ restarts \in 0..MaxRestarts

(* The load is over but for what the last of its scripts does.             *)
Loaded == ~crashed /\ load.part = "postLoad"

(* No script has changed the thing, of those called after it was put back. *)
AfterTheRoom   == {"enter", "postLoad"}
AfterSelecting == {"selected", "exit"} \cup AfterTheRoom
AfterRooms     == {"rooms"} \cup AfterSelecting
AfterInventory == {"inventory"} \cup AfterRooms
AfterActors    == {"actors"} \cup AfterInventory

Untouched(thing, parts) == \A p \in parts : <<p, thing>> \notin disturbed

(* Objects, but for what is not in the file: state 0 of one that begins in *)
(* another, the flag of one that is hidden, and whether what is not seen   *)
(* (hidden or gone), or begins untouchable, is touchable.                  *)
ObjectsAreAsSaved ==
  \A o \in Objects :
    LET was == load.game.objects[o] IN
    Untouched(<<"object", o>>, IF o \in PseudoObjects THEN AfterRooms ELSE {"postLoad"})
      /\ (was.state # 0 \/ InitState[o] = 0) =>
        /\ objects[o].state = was.state
        /\ was.visible => (IsVisible(objects[o]) <=> IsVisible(was))
        /\ IsVisible(was) /\ (was.touchable => InitTouchable[o]) =>
             (objects[o].touchable <=> was.touchable)

(* Who and where everybody is; an actor that was nowhere is in Void.       *)
ActorsAreAsSaved ==
  /\ \A a \in Actors : Untouched(<<"actor", a>>, AfterActors) =>
       actorRoom[a] = IF load.game.actorRoom[a] = None THEN Void ELSE load.game.actorRoom[a]
  /\ Untouched(<<"current">>, AfterSelecting) => pCurrentActor = load.game.actor
  /\ Untouched(<<"room">>, AfterTheRoom) => pRoom = load.game.room

(* An actor that has this slot, as he had, and has or had no other.        *)
OnlySlot(i) ==
  /\ slots[i].actor \in Actors /\ slots[i].actor = load.game.slots[i].actor
  /\ \A j \in 1..NSlots \ {i} : slots[i].actor \notin {slots[j].actor, load.game.slots[j].actor}

(* A global that was null keeps the value it has. A slot is known by its   *)
(* actor: who has two, or has another one now, is left out.                *)
SceneIsAsSaved ==
  /\ load.game.globals # None /\ Untouched(<<"globals">>, AfterActors) =>
       globals = load.game.globals
  /\ Untouched(<<"mode">>, AfterActors) => mode = load.game.mode
  /\ Untouched(<<"slots">>, AfterActors) =>
       \A i \in 1..NSlots :
         OnlySlot(i) => (slots[i].selectable <=> load.game.slots[i].selectable)

(* A load puts back the game that was saved, whatever game it came over    *)
(* and whatever the scripts it called did meanwhile: but for what they did *)
(* to things already put back, and what the file does not hold.            *)
LoadRestores ==
  Loaded => ObjectsAreAsSaved /\ ActorsAreAsSaved /\ SceneIsAsSaved

(* So it does with inventories and what is scrolled of them, if the same   *)
(* actors have the slots. Whoever holds an object is its owner: except for *)
(* one that an actor of a later slot held before the load, which lost its  *)
(* owner when his inventory was cleared.                                   *)
InventoriesAreAsSaved ==
  Loaded /\ Untouched(<<"slots">>, AfterActors)
    /\ (\A i \in 1..NSlots : slots[i].actor = load.game.slots[i].actor) =>
      \A i \in 1..NSlots :
        LET a == slots[i].actor IN
        a # None /\ (\A b \in Actors : Untouched(<<"inventory", b>>, AfterInventory)) =>
          /\ inventory[a] = Found(load.game.inventory[a])
          /\ offset[a] = load.game.offset[a]
          /\ \A o \in Objects : Holds(a, o) =>
               \/ owner[o] # None /\ Holds(owner[o], o)
               \/ owner[o] = None /\ o \in load.orphans

=============================================================================
