------------------------------ MODULE Costumes ------------------------------
(***************************************************************************)
(* What the current actor looks like while it does what Verbs says: the    *)
(* animation its costume shows, and which way it faces. To walk, to stop,  *)
(* to arrive and to reach for something tell the costume what to show;     *)
(* scripts and lines do too, at the moments when they are called.          *)
(*                                                                         *)
(* There is an animation of each name for each facing. How long one is     *)
(* played, and how often, is left out.                                     *)
(***************************************************************************)
EXTENDS Verbs

CONSTANT
  Facings      (* the ways an actor may face                               *)

(* What scripts and lines show is neither a walk nor a stand.              *)
Names == {"stand", "walk", "reach", "pose"}

VARIABLES
  costume,     (* _animation, _facing and _pCurrentAnimation               *)
  posed        (* history: told to show something else since the actor is  *)
               (* on its way                                               *)

costumeVars == <<costume, posed>>

(* updateAnimation, but for eyes, which are layers of what is shown.       *)
Updated(c) ==
  IF c.animation = "eyes" THEN c ELSE [c EXCEPT !.shown = <<c.animation, c.facing>>]

(* setFacing: what faces there already is left as it is.                   *)
Facing(c, f) == IF c.facing = f THEN c ELSE Updated([c EXCEPT !.facing = f])

State(c, name) == Updated([c EXCEPT !.animation = name])

Standing(c) == State(c, "stand")

Walking(c, f) == State(Facing(c, f), "walk")

CostumeInit ==
  /\ Init
  /\ \E f \in Facings :
       costume = [animation |-> "stand", facing |-> f, shown |-> <<"stand", f>>]
  /\ posed = FALSE

-----------------------------------------------------------------------------
(* What scripts do                                                         *)

(* Something else than the walk is to be shown: now, if it is not eyes.    *)
Shows(c) ==
  /\ costume' = c
  /\ posed' = (posed \/ (walk' # None /\ c.animation # "eyes"))

(* setDestination, when preWalking has returned                            *)
SetDestination ==
  /\ ReturnPreWalking
  /\ \E f \in Facings : costume' = Walking(costume, f)
  /\ posed' = FALSE

(* stop, of actorStopWalking, or before an animation is played             *)
StopsWalking ==
  /\ ActorStopWalking(None) \/ ActorStopWalking("pose")
  /\ costume' = Standing(costume)
  /\ posed' = FALSE

Dresses ==
  /\ Order
  /\ UNCHANGED <<phase, calls, actorVars, thingVars, hudVars, sentenceVars, crashed>>

(* actorFace, actorTurnTo and facing lines, and actorAt                    *)
TurnTo(f) ==
  /\ Dresses \/ \E spot \in Spots : ActorAt(spot)
  /\ costume' = Facing(costume, f)
  /\ UNCHANGED posed

(* actorStand, and the animation named in a line                           *)
Pose ==
  /\ Dresses
  /\ \/ Shows(Standing(costume))
     \/ \E name \in {"pose", "eyes"} : Shows(State(costume, name))

(* When postWalking has returned, actorPlayAnimation shows its animation,  *)
(* and an actor that has arrived turns and stands, wherever the script has *)
(* sent it.                                                                *)
EndStop ==
  /\ ReturnPostWalking
  /\ CASE Top.for = "pose" -> Shows(State(costume, "pose"))
       [] Top.for = "arrival" -> \E f \in Facings : Shows(Standing(Facing(costume, f)))
       [] OTHER -> UNCHANGED costumeVars

-----------------------------------------------------------------------------
(* What the frame does                                                     *)

Reaches ==
  sentence # 0 /\ body.funcs # <<>> /\ ~body.stopped /\ ~body.done /\ Head(body.funcs) = "reach"

(* ReachAnim plays its animation at first, and at last has the actor stand. *)
ShowSentence ==
  /\ UpdateSentence
  /\ IF Reaches /\ body' # body
     THEN Shows(IF body'.done THEN Standing(costume) ELSE State(costume, "reach"))
     ELSE UNCHANGED costumeVars

(* At each node of its path the actor turns.                               *)
ShowWalk ==
  /\ WalkOn
  /\ \/ UNCHANGED costumeVars
     \/ /\ walk # None
        /\ \E f \in Facings : costume' = Walking(costume, f)
        /\ posed' = FALSE

(* Mutant: the actor stands when postWalking has returned, and no sooner.  *)
ShowArrivalLate ==
  /\ Arrive
  /\ UNCHANGED costume
  /\ posed' = FALSE

(* stop calls postWalking when the actor is shown to stand.                *)
ShowArrival ==
  /\ Arrive
  /\ costume' = Standing(costume)
  /\ posed' = FALSE

LeaveCostume ==
  /\ \/ ~crashed /\ (ReturnPreWalk \/ ReturnCantReach \/ ReturnPostWalk \/ ReturnVerb
                       \/ ReturnObjectGive \/ ReturnPlain \/ ReturnObjectClick \/ Crash
                       \/ (\E cmd \in Commands : PushSentence(cmd)) \/ StopSentence
                       \/ (\E spot \in Spots : ActorWalkTo(spot))
                       \/ \E o \in Objects : PickupObject(o) \/ RemoveInventory(o))
     \/ ScriptsEnd \/ EndSentence \/ NoClick \/ Clicks \/ Halted
  /\ UNCHANGED costumeVars

CostumeNext ==
  \/ ~crashed /\ (SetDestination \/ EndStop \/ StopsWalking \/ Pose)
  \/ ~crashed /\ \E f \in Facings : TurnTo(f)
  \/ ShowSentence \/ ShowWalk \/ ShowArrival
  \/ LeaveCostume

CostumeSpec == CostumeInit /\ [][CostumeNext]_<<vars, costumeVars>> /\ Fairness

-----------------------------------------------------------------------------
(* Correctness                                                             *)

CostumeTypeOK ==
  /\ costume.animation \in Names \cup {"eyes"}
  /\ costume.facing \in Facings
  /\ costume.shown \in Names \X Facings
  /\ posed \in BOOLEAN

(* An actor on its way is shown walking to the end of its path, however    *)
(* often it turns and whatever scripts are called on the way, unless the   *)
(* costume was told to show something else; one that stands is not.        *)
WalkIsShown ==
  ~crashed =>
    IF walk = None
    THEN costume.shown[1] # "walk"
    ELSE posed \/ costume.shown[1] = "walk"

=============================================================================
