------------------------------- MODULE Slots -------------------------------
(***************************************************************************)
(* Who the player is: the slots of the actors he may select, by their      *)
(* icons, by their keys or by stepping to the next or previous one; the    *)
(* current actor, the panel (HUD) that shows his verbs and a window on his *)
(* inventory, and the room that follows him.                               *)
(*                                                                         *)
(* The slots are given by scripts; keys, icons and the panel each read     *)
(* them in their own way. Positions on the screen are abstracted: the      *)
(* icons are drawn, and clicked, in the order of the slots that pass       *)
(* isSelectable.                                                           *)
(*                                                                         *)
(* What a script called on the way does is a step of its own: every script *)
(* may do here whatever the actions below let it.                          *)
(***************************************************************************)
EXTENDS Naturals, Sequences, FiniteSetsExt

CONSTANTS
  Actors,
  Objects,     (* what actors hold, pick up and give                       *)
  Rooms,       (* with Void, where nobody is seen                          *)
  Void,
  StartScreen, (* the room on screen before there is a game                *)
  None,        (* no actor, no room                                        *)
  NSlots,      (* 6 in the code                                            *)
  Row,         (* objects of a row of the window: 4 in the code            *)
  Shown,       (* objects of the whole window: 8 in the code               *)
  FirstSlots,  (* the slots as the boot script leaves them: some empty     *)
  FirstHeld,   (* who holds what at the beginning of the game              *)
  MaxDoings    (* bound on what scripts and the player do                  *)

ASSUME SlotsAssumption ==
  /\ NSlots \in Nat \ {0} /\ Row \in Nat \ {0} /\ Shown \in Nat \ 0..(Row - 1)
  /\ MaxDoings \in Nat
  /\ Void \in Rooms /\ None \notin Rooms \cup Actors \cup {StartScreen}
  /\ FirstSlots \in [1..NSlots -> [actor : Actors \cup {None}, selectable : BOOLEAN]]
  /\ FirstHeld \in [Actors -> Seq(Objects)]

VARIABLES
  slots,          (* _actorsIconSlots                                      *)
  mode,           (* ActorIcons::_mode: a set of "on" and "temporary"     *)
  pCurrentActor,
  hudIndex,       (* Hud::_currentActorIndex; 0 for none (-1 in the code)  *)
  pRoom,          (* the room on screen                                    *)
  actorRoom,      (* Entity::_pRoom of the actors                          *)
  inventory,      (* Actor::_objects                                       *)
  owner,          (* Object::_owner                                        *)
  offset,         (* Actor::_inventoryOffset, in rows                      *)
  taken,          (* history: whose things were taken since he scrolled    *)
  crashed,        (* an exception that nothing catches, or a null pointer  *)
  doings

selection == <<slots, mode, pCurrentActor, hudIndex, pRoom>>
things    == <<inventory, owner, offset, taken>>
slotVars  == <<selection, actorRoom, things, crashed, doings>>

Slot == [actor : Actors \cup {None}, selectable : BOOLEAN]

Holds(a, o) == \E i \in DOMAIN inventory[a] : inventory[a][i] = o

HolderIn(held, o) ==
  IF \E a \in Actors : \E i \in DOMAIN held[a] : held[a][i] = o
  THEN CHOOSE a \in Actors : \E i \in DOMAIN held[a] : held[a][i] = o
  ELSE None

-----------------------------------------------------------------------------
(* The slots                                                               *)

(* getCurrentActorIndex: the first slot of the actor; for no actor, the    *)
(* first that is empty.                                                    *)
IndexOf(a) ==
  LET its == {i \in 1..NSlots : slots[i].actor = a}
  IN  IF its = {} THEN 0 ELSE Min(its)

(* ActorIcons::isSelectable: the actor is somewhere, not in room Void.     *)
IsSelectable(slot) ==
  /\ slot.selectable /\ slot.actor # None
  /\ actorRoom[slot.actor] \notin {None, Void}

IconsEnabled == mode = {"on"}

(* Mutant: one slot short, as in selectPreviousActor.                      *)
NextIndexShort(current) ==
  LET at(k) == ((current - 1 + k) % (NSlots - 1)) + 1
      steps == {k \in 1..(NSlots - 1) : slots[at(k)].selectable}
  IN  IF steps = {} THEN current ELSE at(Min(steps))

(* selectNextActor: the first selectable slot after the current one, round *)
(* the end.                                                                *)
NextIndex(current) ==
  LET at(k) == ((current - 1 + k) % NSlots) + 1
      steps == {k \in 1..(NSlots - 1) : slots[at(k)].selectable}
  IN  IF steps = {} THEN current ELSE at(Min(steps))

(* selectPreviousActor adds size - 1 to go round: from the first slot it   *)
(* comes to the last but one.                                              *)
PreviousIndex(current) ==
  LET at(k) == IF k < current THEN current - k ELSE current - k + NSlots - 1
      steps == {k \in 1..(NSlots - 1) : at(k) = current \/ slots[at(k)].selectable}
  IN  IF steps = {} THEN current ELSE at(Min(steps))

-----------------------------------------------------------------------------
(* Selecting                                                               *)

(* Engine::setCurrentActor. The panel asks for the colours of the slot by  *)
(* at(index): an actor without a slot is an exception, which ends the      *)
(* program.                                                                *)
BecomesCurrent(a) ==
  /\ pCurrentActor' = a
  /\ hudIndex' = IndexOf(a)
  /\ crashed' = (IndexOf(a) = 0)

(* setRoom does nothing for no room, or the one on screen.                 *)
RoomOf(a) == IF a = None THEN None ELSE actorRoom[a]
Stays(r)  == r \in {None, pRoom}

(* The room of the actor is entered, if he is not shown already.           *)
SetCurrentActor(a) ==
  /\ BecomesCurrent(a)
  /\ pRoom' = IF Stays(RoomOf(a)) \/ IndexOf(a) = 0 THEN pRoom ELSE RoomOf(a)

May == ~crashed /\ doings < MaxDoings /\ doings' = doings + 1

Selects(a) == SetCurrentActor(a) /\ UNCHANGED <<slots, mode, actorRoom, things>>

ClickIcon(i) ==
  /\ May
  /\ IconsEnabled /\ IsSelectable(slots[i]) /\ slots[i].actor # pCurrentActor
  /\ Selects(slots[i].actor)

(* The keys ask for the flag of the slot only: not for the mode, not for   *)
(* the room, not even for an actor.                                        *)
PressKeyOf(i) == May /\ slots[i].selectable /\ Selects(slots[i].actor)

PressKeyTo(step(_)) ==
  LET i == step(IndexOf(pCurrentActor)) IN
  /\ May /\ IndexOf(pCurrentActor) # 0
  /\ i # IndexOf(pCurrentActor)
  /\ Selects(slots[i].actor)

PressNext     == PressKeyTo(NextIndex)
PressPrevious == PressKeyTo(PreviousIndex)

(* The native selectActor                                                  *)
SelectActor(a) == May /\ Selects(a)

-----------------------------------------------------------------------------
(* What scripts do to slots and actors                                     *)

SetsSlots(s) ==
  /\ slots' = s
  /\ UNCHANGED <<mode, pCurrentActor, hudIndex, pRoom, actorRoom, things, crashed>>

AddSelectableActor(i, a) ==
  /\ May /\ SetsSlots([slots EXCEPT ![i] = [actor |-> a, selectable |-> TRUE]])

(* of an actor: the first of its slots                                     *)
ActorSlotSelectable(i, selectable) ==
  /\ May /\ SetsSlots([slots EXCEPT ![i].selectable = selectable])

(* of all: 0, 1, 2 or 3                                                    *)
SetMode(flag) ==
  /\ May
  /\ mode' \in {mode \cup {flag}, mode \ {flag}}
  /\ UNCHANGED <<slots, pCurrentActor, hudIndex, pRoom, actorRoom, things, crashed>>

ActorAt(a, r) ==
  /\ May
  /\ actorRoom' = [actorRoom EXCEPT ![a] = r]
  /\ UNCHANGED <<selection, things, crashed>>

(* cameraInRoom and its like; Rooms has the change itself.                 *)
SetRoom(r) ==
  /\ May
  /\ pRoom' = r
  /\ UNCHANGED <<slots, mode, pCurrentActor, hudIndex, actorRoom, things, crashed>>

-----------------------------------------------------------------------------
(* Inventories                                                             *)

(* What is left of a list when it keeps these objects.                     *)
Kept(s, some) ==
  LET kept[n \in 0..Len(s)] == IF n = 0 THEN <<>>
                               ELSE IF s[n] \in some THEN Append(kept[n - 1], s[n])
                                    ELSE kept[n - 1]
  IN  kept[Len(s)]

WithoutObject(s, o) == Kept(s, Objects \ {o})

(* Actor::pickupObject asks nobody for the object: Verbs has what comes of *)
(* that; here scripts pick up what nobody holds.                           *)
PickupObject(a, o) ==
  /\ May /\ \A b \in Actors : ~Holds(b, o)
  /\ inventory' = [inventory EXCEPT ![a] = Append(@, o)]
  /\ owner' = [owner EXCEPT ![o] = a]
  /\ UNCHANGED <<selection, actorRoom, offset, taken, crashed>>

GiveTo(a, o, b) ==
  /\ May /\ a # b /\ Holds(a, o)
  /\ inventory' = [inventory EXCEPT ![a] = WithoutObject(@, o), ![b] = Append(@, o)]
  /\ owner' = [owner EXCEPT ![o] = b]
  /\ taken' = taken \cup {a}
  /\ UNCHANGED <<selection, actorRoom, offset, crashed>>

(* removeInventory of an object: from the owner it knows of.               *)
RemoveInventory(o) ==
  /\ May /\ owner[o] # None
  /\ inventory' = [inventory EXCEPT ![owner[o]] = WithoutObject(@, o)]
  /\ owner' = [owner EXCEPT ![o] = None]
  /\ taken' = taken \cup {owner[o]}
  /\ UNCHANGED <<selection, actorRoom, offset, crashed>>

(* Mutant: what the actor holds is kept.                                   *)
ClearNothing(a) == taken' = taken \cup {a} /\ UNCHANGED <<inventory, owner>>

(* Actor::clearInventory: its objects lose their owner, whoever that is.   *)
ClearInventory(a) ==
  /\ inventory' = [inventory EXCEPT ![a] = <<>>]
  /\ owner' = [o \in Objects |-> IF Holds(a, o) THEN None ELSE owner[o]]
  /\ taken' = taken \cup {a}

(* removeInventory of an actor                                             *)
RemoveWholeInventory(a) ==
  /\ May /\ ClearInventory(a)
  /\ UNCHANGED <<selection, actorRoom, offset, crashed>>

(* Actor::getInventoryOffset: an offset past the objects is set to zero by *)
(* the next to read it.                                                    *)
Offset(a) == IF offset[a] * Row > Len(inventory[a]) THEN 0 ELSE offset[a]

(* Mutant: an arrow as long as there is a row below the first one shown.   *)
HasDownArrowForARow(a) == Len(inventory[a]) > Offset(a) * Row

HasDownArrow(a) == Len(inventory[a]) > Offset(a) * Row + Shown
HasUpArrow(a)   == Offset(a) # 0

(* A click on an arrow of the window, which reads the actor's offset.      *)
Scroll(a) ==
  /\ May /\ a = pCurrentActor
  /\ \/ HasDownArrow(a) /\ offset' = [offset EXCEPT ![a] = Offset(a) + 1]
     \/ HasUpArrow(a) /\ offset' = [offset EXCEPT ![a] = Offset(a) - 1]
  /\ taken' = taken \ {a}
  /\ UNCHANGED <<selection, actorRoom, inventory, owner, crashed>>

-----------------------------------------------------------------------------
(* A game under way: the actor of the first slot has been selected.        *)
InitSlots ==
  /\ slots = FirstSlots /\ mode = {"on"}
  /\ pCurrentActor = FirstSlots[1].actor /\ hudIndex = 1
  /\ pRoom \in Rooms \ {Void}
  /\ actorRoom = [a \in Actors |-> IF \E i \in 1..NSlots : FirstSlots[i].actor = a
                                   THEN pRoom ELSE Void]
  /\ inventory = FirstHeld
  /\ owner = [o \in Objects |-> HolderIn(FirstHeld, o)]
  /\ offset = [a \in Actors |-> 0] /\ taken = {}
  /\ crashed = FALSE /\ doings = 0

Player ==
  \/ PressNext \/ PressPrevious
  \/ \E i \in 1..NSlots : ClickIcon(i) \/ PressKeyOf(i)
  \/ \E a \in Actors : Scroll(a)

SlotScripts ==
  \/ \E i \in 1..NSlots, a \in Actors : AddSelectableActor(i, a)
  \/ \E i \in 1..NSlots, b \in BOOLEAN : ActorSlotSelectable(i, b)
  \/ SetMode("on") \/ SetMode("temporary")
  \/ \E a \in Actors : SelectActor(a) \/ RemoveWholeInventory(a)
  \/ \E a \in Actors, r \in Rooms : ActorAt(a, r)
  \/ \E r \in Rooms : SetRoom(r)
  \/ \E a \in Actors, o \in Objects :
       \/ PickupObject(a, o)
       \/ \E b \in Actors : GiveTo(a, o, b)
  \/ \E o \in Objects : RemoveInventory(o)

-----------------------------------------------------------------------------
(* Correctness                                                             *)

SlotsTypeOK ==
  /\ slots \in [1..NSlots -> Slot]
  /\ mode \subseteq {"on", "temporary"}
  /\ pCurrentActor \in Actors \cup {None} /\ hudIndex \in 0..NSlots
  /\ pRoom \in Rooms \cup {StartScreen}
  /\ actorRoom \in [Actors -> Rooms \cup {None}]
  /\ inventory \in [Actors -> Seq(Objects)] /\ owner \in [Objects -> Actors \cup {None}]
  /\ offset \in [Actors -> Nat] /\ taken \subseteq Actors
  /\ crashed \in BOOLEAN /\ doings \in 0..MaxDoings

(* Slots as scripts give them: an actor in one slot, and the selectable    *)
(* ones not empty. Otherwise the steps may go back and forth for ever.     *)
SlotsInOrder ==
  /\ \A i, j \in 1..NSlots : slots[i].actor = slots[j].actor /\ slots[i].actor # None => i = j
  /\ \A i \in 1..NSlots : slots[i].selectable => slots[i].actor # None

(* A press selects the actor of a slot; the next one goes on from the slot *)
(* in which that actor is found.                                           *)
NextSlots     == [current \in 1..NSlots |-> IndexOf(slots[NextIndex(current)].actor)]
PreviousSlots == [current \in 1..NSlots |-> IndexOf(slots[PreviousIndex(current)].actor)]

(* The slot a number of presses of one key leads to.                       *)
After(step, n) ==
  LET slot[k \in 0..n] == IF k = 0 THEN IndexOf(pCurrentActor) ELSE step[slot[k - 1]]
  IN  slot[n]

(* "Next actor" and "Previous actor" lead the player to everyone whose     *)
(* slot is selectable, in as many presses as there are slots: except       *)
(* "previous" to the last slot, which it steps over.                       *)
KeysReachEveryone ==
  SlotsInOrder /\ pCurrentActor # None /\ IndexOf(pCurrentActor) # 0 =>
    \A i \in 1..NSlots : slots[i].selectable =>
      /\ \E n \in 0..NSlots : After(NextSlots, n) = i
      /\ i # NSlots => \E n \in 0..NSlots : After(PreviousSlots, n) = i

(* Who holds something sees something of it in the window on his           *)
(* inventory, however he scrolls: unless something was taken from him      *)
(* since, and just what he was looking at.                                 *)
WindowShowsHeld ==
  \A a \in Actors : inventory[a] # <<>> =>
    \/ Offset(a) * Row < Len(inventory[a])
    \/ a \in taken

=============================================================================
