-------------------------------- MODULE Verbs --------------------------------
(***************************************************************************)
(* What the current actor is told to do. A click, or pushSentence of a     *)
(* script, makes a Sentence: walk to the thing, call its postWalk script,  *)
(* reach for it, execute the verb, select the default verb again. The      *)
(* engine keeps one sentence; each frame runs one step of it.              *)
(*                                                                         *)
(* Nearly every step calls scripts, which may push or stop sentences, move *)
(* the actor and change the inventories: the calls under way are in the    *)
(* variable calls, the innermost last. A script that stops or replaces the *)
(* sentence that has called it destroys it under way; what follows is      *)
(* undefined: the program crashes or goes on.                              *)
(*                                                                         *)
(* A frame is  scripts -> sentence -> actors -> click.                     *)
(***************************************************************************)
EXTENDS Integers, Sequences

CONSTANTS
  Scenery,     (* the objects of the room that can be picked up            *)
  Items,       (* the objects the current actor, "me", has at first        *)
  Others,      (* the other actors                                         *)
  Spot,        (* where one stands to use a piece of scenery or an actor   *)
  Ends,        (* where a path to a spot may end, as scripts open and      *)
               (* close the walkboxes                                      *)
  Start,       (* where the current actor is at first                      *)
  MaxInputs    (* bound on the clicks and on what scripts do               *)

Objects == Scenery \cup Items

Actors == Others \cup {"me"}

None == "none"

Spots == DOMAIN Ends

ASSUME VerbsAssumption ==
  /\ Spot \in [Scenery \cup Others -> Spots]
  /\ Ends \in [Spots -> SUBSET Spots] /\ Start \in Spots
  /\ Scenery \cap Items = {} /\ Objects \cap Actors = {}
  /\ {None, "between"} \cap (Objects \cup Actors \cup Spots) = {}
  /\ MaxInputs \in Nat

VARIABLES
  phase,       (* where Engine::update is in the frame                     *)
  calls,       (* the scripts under way, and what called them              *)
  pos,         (* where the current actor is                               *)
  walk,        (* its WalkingState: the end of its path, or None           *)
  inv,         (* Actor::_objects                                          *)
  owner,       (* Object::_owner                                           *)
  verb,        (* the current verb of the HUD                              *)
  useObject,   (* _pUseObject: what the next click gives away              *)
  sentence,    (* _pSentence, or 0                                         *)
  body,        (* its functions, whether the first is done, whether the    *)
               (* actor is reaching, and _stopped                          *)
  made,        (* history: sentences made so far                           *)
  last,        (* history: the last one, and what it has come to           *)
  inputs,      (* clicks, and what scripts have done, so far               *)
  crashed      (* undefined behaviour has ended the program                *)

vars == <<phase, calls, pos, walk, inv, owner, verb, useObject, sentence, body,
          made, last, inputs, crashed>>

(* LookAt stands for all that needs no animation, the default verb too.    *)
Verbs == {"LookAt", "PickUp", "TalkTo", "Give"}

(* What may be asked for: updateHoveredEntity rejects the rest.            *)
Commands ==
  [verb : {"LookAt"}, o1 : Objects, o2 : {None}]
    \cup [verb : {"PickUp"}, o1 : Scenery, o2 : {None}]
    \cup [verb : {"TalkTo"}, o1 : Others, o2 : {None}]
    \cup [verb : {"Give"}, o1 : Objects, o2 : Others]

Functions == {"walk", "postWalk", "reach", "verb", "default"}

NoBody ==
  [funcs |-> <<>>, done |-> FALSE, reaching |-> FALSE, stopped |-> FALSE, goal |-> None]

NoCommand == [verb |-> None, o1 |-> None, o2 |-> None]

NoSentence ==
  [cmd |-> NoCommand, walks |-> FALSE, moved |-> FALSE, over |-> FALSE,
   handled |-> FALSE, failed |-> FALSE, performed |-> 0, at |-> None]

Target(cmd) == IF cmd.verb = "Give" THEN cmd.o2 ELSE cmd.o1

(* One walks to actors, and to what nobody carries: unless it is to look   *)
(* at it from far, which the flags of the object say.                      *)
FarLook(cmd) == cmd.verb = "LookAt"

NeedsToWalkTo(cmd) ==
  Target(cmd) \in Others \/ (Target(cmd) \in Scenery /\ owner[Target(cmd)] = None)

Init ==
  /\ phase = "scripts" /\ calls = <<>>
  /\ pos = Start /\ walk = None
  /\ owner = [o \in Objects |-> IF o \in Items THEN "me" ELSE None]
  /\ inv = [a \in Actors |-> [o \in Objects |-> IF a = "me" /\ o \in Items THEN 1 ELSE 0]]
  /\ verb = "LookAt" /\ useObject = None
  /\ sentence = 0 /\ body = NoBody
  /\ made = 0 /\ last = NoSentence
  /\ inputs = 0
  /\ crashed = FALSE

-----------------------------------------------------------------------------
(* Calls, walks and sentences                                              *)

Top == calls[Len(calls)]

Popped == SubSeq(calls, 1, Len(calls) - 1)

(* A call of a script: from which function, for which sentence or command, *)
(* at the end of which path.                                               *)
Call(at, sid, cmd, goal, for) ==
  [at |-> at, sid |-> sid, cmd |-> cmd, goal |-> goal, for |-> for]

Plain(at) == Call(at, 0, NoCommand, None, None)

(* The current sentence is the last made.                                  *)
Moved == [last EXCEPT !.moved = @ \/ sentence # 0]

(* setSentence: the sentence of before is destroyed. The thing is reached  *)
(* for if a script for the verb exists.                                    *)
SetSentence(cmd, walks, goal, strays) ==
  /\ sentence' = made + 1 /\ made' = made + 1
  /\ \E reach \in IF cmd.verb = "PickUp" THEN {<<>>, <<"reach">>} ELSE {<<>>} :
       body' = [funcs |-> (IF walks THEN <<"walk", "postWalk">> ELSE <<>>)
                            \o reach \o <<"verb", "default">>,
                done |-> FALSE, reaching |-> FALSE, stopped |-> FALSE, goal |-> goal]
  /\ last' = [cmd |-> cmd, walks |-> walks, moved |-> strays, over |-> FALSE,
              handled |-> FALSE, failed |-> FALSE, performed |-> 0, at |-> None]

(* Actor::walkTo: a path of less than two nodes leaves the actor as it is, *)
(* on its way elsewhere maybe. Otherwise it walks when preWalking returns. *)
PathEnds(spot) == IF pos = spot THEN {pos} ELSE Ends[spot]

Short(spot) == pos \in PathEnds(spot)

BeginWalk(stack, spot, cmd, for) ==
  \E goal \in PathEnds(spot) \ {pos} :
    calls' = Append(stack, Call("preWalking", 0, cmd, goal, for))

SetDefaultVerb == verb' = "LookAt" /\ useObject' = None

actorVars == <<pos, walk>>
thingVars == <<inv, owner>>
hudVars == <<verb, useObject>>
sentenceVars == <<sentence, body, made, last>>
boundVars == <<inputs, crashed>>

-----------------------------------------------------------------------------
(* Scripts return                                                          *)

(* The preWalk scripts may handle the command. If not, the sentence is     *)
(* made, and the walk to the thing begins.                                 *)
ReturnPreWalk ==
  /\ calls # <<>> /\ Top.at = "preWalk"
  /\ LET cmd == Top.cmd
     IN  \/ calls' = Popped /\ UNCHANGED sentenceVars
         \/ /\ ~NeedsToWalkTo(cmd) \/ FarLook(cmd)
            /\ calls' = Popped
            /\ SetSentence(cmd, FALSE, None, FALSE)
         \/ /\ NeedsToWalkTo(cmd)
            /\ Short(Spot[Target(cmd)])
            /\ calls' = Popped
            /\ SetSentence(cmd, TRUE, pos, walk \notin {None, pos})
         \/ /\ NeedsToWalkTo(cmd)
            /\ BeginWalk(Popped, Spot[Target(cmd)], cmd, "sentence")
            /\ UNCHANGED sentenceVars
  /\ UNCHANGED <<phase, actorVars, thingVars, hudVars, boundVars>>

(* setDestination, when preWalking has returned                            *)
ReturnPreWalking ==
  /\ calls # <<>> /\ Top.at = "preWalking"
  /\ calls' = Popped
  /\ walk' = Top.goal
  /\ CASE Top.for = "sentence" -> SetSentence(Top.cmd, TRUE, Top.goal, FALSE) /\ UNCHANGED hudVars
       [] Top.for = "ground"   -> /\ SetDefaultVerb
                                  /\ last' = Moved
                                  /\ UNCHANGED <<sentence, body, made>>
       [] OTHER                -> /\ last' = Moved
                                  /\ UNCHANGED <<sentence, body, made, hudVars>>
  /\ UNCHANGED <<phase, pos, thingVars, boundVars>>

(* ActorWalk::isElapsed, and after it Sentence, goes on when verbCantReach *)
(* has returned; PostWalk, when its script has.                            *)
ReturnCantReach ==
  /\ calls # <<>> /\ Top.at = "verbCantReach"
  /\ calls' = Popped
  /\ body' = IF Top.sid = sentence THEN [body EXCEPT !.funcs = Tail(@)] ELSE body
  /\ UNCHANGED <<phase, actorVars, thingVars, hudVars, sentence, made, last, boundVars>>

ReturnPostWalk ==
  /\ calls # <<>> /\ Top.at = "postWalk"
  /\ calls' = Popped
  /\ \E handled \in BOOLEAN :
       IF Top.sid = sentence
       THEN /\ body' = [body EXCEPT !.done = TRUE, !.stopped = @ \/ handled]
            /\ last' = [last EXCEPT !.handled = handled]
       ELSE UNCHANGED <<body, last>>
  /\ UNCHANGED <<phase, actorVars, thingVars, hudVars, sentence, made, boundVars>>

(* VerbExecuteFunction calls more scripts, after the one of the verb.      *)
ReturnVerb ==
  /\ calls # <<>> /\ Top.at = "verb"
  /\ \/ calls' = Popped
     \/ calls' = Append(Popped, [Top EXCEPT !.at = IF Top.cmd.verb = "Give"
                                                   THEN "objectGive" ELSE "default"])
  /\ UNCHANGED <<phase, actorVars, thingVars, hudVars, sentenceVars, boundVars>>

(* Mutant: the giver keeps the object.                                     *)
GiveToKeeps(o, a, b) ==
  /\ owner' = [owner EXCEPT ![o] = b]
  /\ inv' = [inv EXCEPT ![b][o] = @ + 1]

(* Actor::giveTo                                                           *)
GiveTo(o, a, b) ==
  /\ owner' = [owner EXCEPT ![o] = b]
  /\ inv' = [inv EXCEPT ![a][o] = @ - 1, ![b][o] = @ + 1]

(* What the actor no longer has is undefined to give.                      *)
ReturnObjectGive ==
  /\ calls # <<>> /\ Top.at = "objectGive"
  /\ calls' = Popped
  /\ LET o == Top.cmd.o1
     IN  IF inv["me"][o] > 0
         THEN GiveTo(o, "me", Top.cmd.o2) /\ UNCHANGED crashed
         ELSE crashed' = TRUE /\ UNCHANGED thingVars
  /\ UNCHANGED <<phase, actorVars, hudVars, sentenceVars, inputs>>

(* WalkingState::update calls actorArrived after postWalking.              *)
ReturnPostWalking ==
  /\ calls # <<>> /\ Top.at = "postWalking"
  /\ calls' = IF Top.for = "arrival" THEN Append(Popped, Plain("actorArrived")) ELSE Popped
  /\ UNCHANGED <<phase, actorVars, thingVars, hudVars, sentenceVars, boundVars>>

ReturnPlain ==
  /\ calls # <<>> /\ Top.at \in {"default", "actorArrived", "onVerbClick"}
  /\ calls' = Popped
  /\ UNCHANGED <<phase, actorVars, thingVars, hudVars, sentenceVars, boundVars>>

(* execute, when onObjectClick has returned                                *)
Execute(stack, cmd) ==
  calls' = Append(stack, Call("preWalk", 0, cmd, None, None))

ReturnObjectClick ==
  /\ calls # <<>> /\ Top.at = "onObjectClick"
  /\ IF Top.cmd.verb = "Give" /\ Top.cmd.o2 = None
     THEN useObject' = Top.cmd.o1 /\ calls' = Popped
     ELSE Execute(Popped, Top.cmd) /\ UNCHANGED useObject
  /\ UNCHANGED <<phase, actorVars, thingVars, verb, sentenceVars, boundVars>>

(* The sentence a function belongs to has been destroyed under it.         *)
Crash ==
  /\ calls # <<>> /\ Top.sid \notin {0, sentence}
  /\ crashed' = TRUE /\ calls' = <<>>
  /\ UNCHANGED <<phase, actorVars, thingVars, hudVars, sentenceVars, inputs>>

Returns ==
  \/ ReturnPreWalk \/ ReturnPreWalking \/ ReturnCantReach \/ ReturnPostWalk
  \/ ReturnVerb \/ ReturnObjectGive \/ ReturnPostWalking \/ ReturnPlain
  \/ ReturnObjectClick

-----------------------------------------------------------------------------
(* What scripts do                                                         *)

Order ==
  /\ phase = "scripts" \/ calls # <<>>
  /\ inputs < MaxInputs
  /\ inputs' = inputs + 1

Possible(cmd) ==
  /\ cmd.o1 \in Items => owner[cmd.o1] # None
  /\ cmd.verb = "PickUp" => owner[cmd.o1] = None
  /\ cmd.verb = "Give" => owner[cmd.o1] = "me"

PushSentence(cmd) ==
  /\ Order /\ Possible(cmd)
  /\ Execute(calls, cmd)
  /\ UNCHANGED <<phase, actorVars, thingVars, hudVars, sentenceVars, crashed>>

Dropped == sentence' = 0 /\ body' = NoBody /\ UNCHANGED <<made, last>>

StopSentence ==
  /\ Order /\ sentence # 0
  /\ Dropped
  /\ UNCHANGED <<phase, calls, actorVars, thingVars, hudVars, crashed>>

ActorWalkTo(spot) ==
  /\ Order
  /\ BeginWalk(calls, spot, NoCommand, None)
  /\ UNCHANGED <<phase, actorVars, thingVars, hudVars, sentenceVars, crashed>>

ActorStopWalking(for) ==
  /\ Order
  /\ walk' = None
  /\ calls' = Append(calls, Call("postWalking", 0, NoCommand, None, for))
  /\ last' = Moved
  /\ UNCHANGED <<phase, pos, thingVars, hudVars, sentence, body, made, crashed>>

(* actorAt moves an actor that may be walking, and walks on.               *)
ActorAt(spot) ==
  /\ Order
  /\ pos' = spot
  /\ last' = Moved
  /\ UNCHANGED <<phase, calls, walk, thingVars, hudVars, sentence, body, made, crashed>>

(* Scripts are taken to pick up what nobody has: pickupObject does not     *)
(* look, and leaves the object in the inventory of its owner as well.      *)
PickupObject(o) ==
  /\ Order /\ owner[o] = None
  /\ owner' = [owner EXCEPT ![o] = "me"]
  /\ inv' = [inv EXCEPT !["me"][o] = @ + 1]
  /\ UNCHANGED <<phase, calls, actorVars, hudVars, sentenceVars, crashed>>

RemoveInventory(o) ==
  /\ Order /\ owner[o] # None
  /\ owner' = [owner EXCEPT ![o] = None]
  /\ inv' = [inv EXCEPT ![owner[o]][o] = 0]
  /\ UNCHANGED <<phase, calls, actorVars, hudVars, sentenceVars, crashed>>

Script ==
  \/ (\E cmd \in Commands : PushSentence(cmd)) \/ StopSentence
  \/ (\E spot \in Spots : ActorWalkTo(spot) \/ ActorAt(spot)) \/ ActorStopWalking(None)
  \/ \E o \in Objects : PickupObject(o) \/ RemoveInventory(o)

-----------------------------------------------------------------------------
(* What the frame does                                                     *)

Idle(p) == phase = p /\ calls = <<>> /\ ~crashed

Functioned(b) ==
  /\ body' = b
  /\ UNCHANGED <<calls, last, hudVars>>

(* Sentence::operator(): the first function is removed, or run.            *)
Finish ==
  Functioned([body EXCEPT !.funcs = Tail(@), !.done = FALSE, !.reaching = FALSE])

(* Mutant: a walk that has stopped short is over.                          *)
RunWalkAnywhere ==
  IF walk # None
  THEN Functioned(body)
  ELSE Finish

(* ActorWalk: TalkTo and a path that leads there are over with the walk.   *)
(* Otherwise the sentence is stopped; verbCantReach is called if the actor *)
(* is at the end of the path.                                              *)
RunWalk ==
  LET cmd == last.cmd
      there == body.goal = Spot[Target(cmd)] \/ cmd.verb = "TalkTo"
  IN  CASE walk # None -> Functioned(body)
        [] walk = None /\ there -> Finish
        [] OTHER ->
             /\ last' = [last EXCEPT !.failed = TRUE]
             /\ IF body.goal = pos
                THEN /\ body' = [body EXCEPT !.stopped = TRUE]
                     /\ calls' = <<Call("verbCantReach", sentence, cmd, None, None)>>
                ELSE /\ body' = [body EXCEPT !.stopped = TRUE, !.funcs = Tail(@)]
                     /\ UNCHANGED calls
             /\ UNCHANGED hudVars

RunVerb ==
  /\ body' = [body EXCEPT !.done = TRUE]
  /\ calls' = <<Call("verb", sentence, last.cmd, None, None)>>
  /\ last' = [last EXCEPT !.performed = @ + 1, !.at = pos]
  /\ UNCHANGED hudVars

(* The animation is played for a time. The flags of the object may say     *)
(* that there is none.                                                     *)
RunReach ==
  \/ Functioned([body EXCEPT !.reaching = TRUE])
  \/ Functioned([body EXCEPT !.done = TRUE])

RunFunction ==
  LET f == Head(body.funcs)
  IN  CASE f = "walk"    -> RunWalk
        [] f # "walk" /\ body.done -> Finish
        [] f = "postWalk" /\ ~body.done ->
             /\ calls' = <<Call("postWalk", sentence, last.cmd, None, None)>>
             /\ UNCHANGED <<body, last, hudVars>>
        [] f = "reach" /\ ~body.done -> RunReach
        [] f = "verb" /\ ~body.done -> RunVerb
        [] f = "default" /\ ~body.done ->
             /\ body' = [body EXCEPT !.done = TRUE]
             /\ SetDefaultVerb
             /\ UNCHANGED <<calls, last>>

(* Mutant: a stopped sentence goes on.                                     *)
UpdateSentenceGoesOn ==
  /\ Idle("sentence")
  /\ phase' = IF sentence = 0 THEN "actors" ELSE "ended"
  /\ IF sentence = 0 \/ body.funcs = <<>>
     THEN UNCHANGED <<calls, body, last, hudVars>>
     ELSE RunFunction
  /\ UNCHANGED <<actorVars, thingVars, sentence, made, boundVars>>

(* A stopped sentence is emptied.                                          *)
UpdateSentence ==
  /\ Idle("sentence")
  /\ phase' = IF sentence = 0 THEN "actors" ELSE "ended"
  /\ CASE sentence = 0 \/ body.funcs = <<>> -> UNCHANGED <<calls, body, last, hudVars>>
       [] sentence # 0 /\ body.funcs # <<>> /\ body.stopped ->
            Functioned([body EXCEPT !.funcs = <<>>])
       [] OTHER -> RunFunction
  /\ UNCHANGED <<actorVars, thingVars, sentence, made, boundVars>>

(* Mutant: an empty sentence is kept.                                      *)
EndSentenceKeeps ==
  /\ Idle("ended")
  /\ phase' = "actors"
  /\ crashed' = (sentence = 0)
  /\ UNCHANGED <<calls, actorVars, thingVars, hudVars, sentenceVars, inputs>>

(* updateSentence looks at _pSentence again, after the scripts: without a  *)
(* sentence it crashes, with an empty one it drops it.                     *)
EndSentence ==
  /\ Idle("ended")
  /\ phase' = "actors"
  /\ crashed' = (sentence = 0)
  /\ IF sentence # 0 /\ body.funcs = <<>>
     THEN /\ sentence' = 0 /\ body' = NoBody
          /\ last' = [last EXCEPT !.over = TRUE]
          /\ UNCHANGED made
     ELSE UNCHANGED sentenceVars
  /\ UNCHANGED <<calls, actorVars, thingVars, hudVars, inputs>>

(* WalkingState::update: the actor comes nearer, or arrives.               *)
WalkOn ==
  /\ Idle("actors")
  /\ phase' = "click"
  /\ pos' = IF walk = None THEN pos ELSE "between"
  /\ UNCHANGED <<calls, walk, thingVars, hudVars, sentenceVars, boundVars>>

Arrive ==
  /\ Idle("actors") /\ walk # None
  /\ phase' = "click"
  /\ pos' = walk /\ walk' = None
  /\ calls' = <<Call("postWalking", 0, NoCommand, None, "arrival")>>
  /\ UNCHANGED <<thingVars, hudVars, sentenceVars, boundVars>>

NoClick ==
  /\ Idle("click")
  /\ phase' = "scripts"
  /\ UNCHANGED <<calls, actorVars, thingVars, hudVars, sentenceVars, boundVars>>

(* A click stops the sentence.                                             *)
Click ==
  /\ Idle("click") /\ inputs < MaxInputs
  /\ inputs' = inputs + 1
  /\ phase' = "scripts"
  /\ Dropped

ClickVerb(v) ==
  /\ Click
  /\ verb' = v /\ useObject' = None
  /\ calls' = <<Plain("onVerbClick")>>
  /\ UNCHANGED <<actorVars, thingVars, crashed>>

(* The thing under the mouse, with the verb and with what is to be given.  *)
Clicked(thing) ==
  IF useObject # None
  THEN [verb |-> verb, o1 |-> useObject, o2 |-> IF thing \in Others THEN thing ELSE None]
  ELSE [verb |-> verb, o1 |-> thing, o2 |-> None]

ClickThing(thing) ==
  /\ Click
  /\ thing \in Objects => owner[thing] = "me" \/ (thing \in Scenery /\ owner[thing] = None)
  /\ LET cmd == Clicked(thing)
     IN  /\ \/ cmd \in Commands /\ Possible(cmd)
            \/ cmd.verb = "Give" /\ cmd.o2 = None /\ cmd.o1 \in Objects /\ owner[cmd.o1] = "me"
         /\ calls' = <<Call("onObjectClick", 0, cmd, None, None)>>
  /\ UNCHANGED <<actorVars, thingVars, hudVars, crashed>>

(* The button held down leads the actor and leaves the verb.               *)
ClickGround(spot, for) ==
  /\ Click
  /\ \/ BeginWalk(<<>>, spot, NoCommand, for) /\ UNCHANGED hudVars
     \/ /\ Short(spot) /\ calls' = <<>>
        /\ IF for = "ground" THEN SetDefaultVerb ELSE UNCHANGED hudVars
  /\ UNCHANGED <<actorVars, thingVars, crashed>>

ScriptsEnd ==
  /\ Idle("scripts")
  /\ phase' = "sentence"
  /\ UNCHANGED <<calls, actorVars, thingVars, hudVars, sentenceVars, boundVars>>

Clicks ==
  \/ \E v \in Verbs : ClickVerb(v)
  \/ \E thing \in Objects \cup Others : ClickThing(thing)
  \/ \E spot \in Spots : ClickGround(spot, "ground") \/ ClickGround(spot, None)

Halted == crashed /\ UNCHANGED vars

Next ==
  \/ ~crashed /\ (Returns \/ Crash \/ Script)
  \/ ScriptsEnd \/ UpdateSentence \/ EndSentence \/ WalkOn \/ Arrive
  \/ NoClick \/ Clicks \/ Halted

Spec == Init /\ [][Next]_vars

(* The frame goes on, scripts return, and an actor that walks arrives.     *)
Fairness ==
  /\ WF_vars(~crashed /\ Returns)
  /\ WF_vars(ScriptsEnd) /\ WF_vars(UpdateSentence) /\ WF_vars(EndSentence)
  /\ WF_vars(WalkOn \/ Arrive) /\ SF_vars(Arrive) /\ WF_vars(NoClick)
  /\ SF_vars(UpdateSentence /\ body'.done)

FairSpec == Spec /\ Fairness

-----------------------------------------------------------------------------
(* Correctness                                                             *)

(* The type of the state; the HUD always has a verb.                       *)
TypeOK ==
  /\ phase \in {"scripts", "sentence", "ended", "actors", "click"}
  /\ pos \in Spots \cup {"between"} /\ walk \in Spots \cup {None}
  /\ owner \in [Objects -> Actors \cup {None}]
  /\ inv \in [Actors -> [Objects -> Nat]]
  /\ verb \in Verbs /\ useObject \in Objects \cup {None}
  /\ sentence \in {0, made}
  /\ \A i \in 1..Len(body.funcs) : body.funcs[i] \in Functions
  /\ inputs \in 0..MaxInputs
  /\ crashed \in BOOLEAN

(* A verb is executed where the thing is, when one has to walk to it,      *)
(* unless a script or the button held down has moved the actor since, or   *)
(* it was there already but on its way elsewhere.                          *)
VerbInReach ==
  last.performed > 0 /\ last.walks /\ ~last.moved /\ last.cmd.verb # "TalkTo" =>
    last.at = Spot[Target(last.cmd)]

(* A sentence that comes to its end has executed its verb, once, or its    *)
(* walk has failed, or a postWalk script has handled it: one of the three. *)
EndsOneWay ==
  /\ last.handled \/ last.failed => last.performed = 0
  /\ last.performed <= 1
  /\ last.over => last.handled \/ last.failed \/ last.performed = 1

(* What an actor has in its inventory is there once and has this actor for *)
(* its owner; nothing else has.                                            *)
OneOwner ==
  ~crashed =>
    \A a \in Actors, o \in Objects : inv[a][o] = IF owner[o] = a THEN 1 ELSE 0

(* Every sentence ends, is stopped or replaced.                            *)
SentenceEnds ==
  \A s \in 1..MaxInputs : sentence = s ~> sentence # s \/ crashed

=============================================================================
