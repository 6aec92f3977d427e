----------------------------- MODULE Cutscene ------------------------------
(***************************************************************************)
(* Cutscenes: a script thread calls cutscene(main, override) and sleeps    *)
(* until the scene is over. The engine drives one scene, _pCutscene, with  *)
(* one step of its state machine a frame:                                  *)
(*   0 start -> 1 main running -> 4 end -> 5 over                          *)
(*   1 -- the player skips --> 2 start override -> 3 override running -> 4 *)
(* The scene owns a Squirrel VM, which runs the main closure, then the     *)
(* override on top of it; both sleep on break functions (module Threads).  *)
(* While a scene is on the player has no input; the scene remembers the    *)
(* input state it found and gives it back.                                 *)
(*                                                                         *)
(* A frame is  top -> fns -> post -> top, and, when a scene ends, between  *)
(* top and fns, ended (onCutsceneEnded runs) and resumed (the caller runs).*)
(***************************************************************************)
EXTENDS Naturals

CONSTANTS
  Threads,         (* script threads, any of which may call cutscene       *)
  MaxScenes,       (* bound on the scenes ever created                     *)
  MaxBreaks,       (* bound on the breakXXX calls of one scene             *)
  Overlap,         (* do scripts start a scene while one is on?            *)
  OverrideBreaks   (* does an override call breakXXX?                      *)

(* What identifies a thread identifies no scene.                           *)
ASSUME CutsceneAssumption ==
  /\ Threads \cap Nat = {}
  /\ MaxScenes \in Nat
  /\ MaxBreaks \in Nat
  /\ Overlap \in BOOLEAN
  /\ OverrideBreaks \in BOOLEAN

VARIABLES
  phase,      (* where Engine::update is in the frame                      *)
  nScenes,    (* scenes created so far: their identifiers are 1..nScenes   *)
  scene,      (* each scene                                                *)
  pCutscene,  (* the scene the engine drives, 0 for nullptr                *)
  slice,      (* the scene whose VM is running, 0 if none is               *)
  input,      (* Engine's input state                                      *)
  ending,     (* the scene whose endCutscene is under way, or 0            *)
  waits,      (* is each thread free, asleep in cutscene(), or gone?       *)
  before      (* history: the input state when no scene was on             *)

vars == <<phase, nScenes, scene, pCutscene, slice, input, ending, waits, before>>

Scenes == 1..nScenes

InputState == [active : BOOLEAN, cursor : BOOLEAN, verbs : BOOLEAN]

(* frames holds the closures on the VM's call stack, the override above.   *)
SceneRecord ==
  [state     : 0..5,
   caller    : Threads \cup Nat,         (* the thread or scene that waits *)
   override  : BOOLEAN,                  (* _hasCutsceneOverride           *)
   saved     : InputState,               (* _inputState                    *)
   frames    : SUBSET {"main", "override"},
   suspended : BOOLEAN,                  (* the VM is suspended            *)
   pending   : Nat,                      (* break functions yet to fire    *)
   breaks    : Nat,                      (* breakXXX calls left to make    *)
   stopped   : BOOLEAN,                  (* m_isStopped                    *)
   alive     : BOOLEAN]                  (* still in _threads              *)

InCutscene == pCutscene # 0 /\ scene[pCutscene].state # 5

(* ThreadBase::isStopped: flagged, or the VM is idle.                      *)
VmIdle(s) == ~scene[s].suspended /\ scene[s].frames = {}
Stopped(s) == scene[s].stopped \/ VmIdle(s)

(* Scripts run in the threads, on the main VM, and in a running scene.     *)
ScriptMayAct == slice # 0 \/ phase \in {"ended", "resumed", "fns", "post"}

(* setInputActive is deaf while a scene is on.                             *)
SetInputActive(b) ==
  IF InCutscene THEN input ELSE [input EXCEPT !.active = b, !.cursor = b]

(* The history variable follows the input state outside scenes.            *)
Remember == before' = IF InCutscene' THEN before ELSE input'

Init ==
  /\ phase = "top"
  /\ nScenes = 0
  /\ scene = [s \in 1..0 |-> {}]
  /\ pCutscene = 0
  /\ slice = 0
  /\ input \in InputState
  /\ ending = 0
  /\ waits = [t \in Threads |-> "free"]
  /\ before = input

-----------------------------------------------------------------------------
(* What scripts and the player do                                          *)

(* Mutant: the input state is saved after it has been turned off.          *)
NewSceneSavesLate(caller, hasOverride) ==
  /\ nScenes < MaxScenes
  /\ InCutscene => Overlap
  /\ nScenes' = nScenes + 1
  /\ pCutscene' = nScenes + 1
  /\ input' = [SetInputActive(FALSE) EXCEPT !.verbs = FALSE]
  /\ scene' = [s \in 1..(nScenes + 1) |->
                 IF s = nScenes + 1
                 THEN [state |-> 0, caller |-> caller, override |-> hasOverride,
                       saved |-> input', frames |-> {}, suspended |-> FALSE,
                       pending |-> 0, breaks |-> MaxBreaks,
                       stopped |-> FALSE, alive |-> TRUE]
                 ELSE IF s = caller THEN [scene[s] EXCEPT !.suspended = TRUE]
                                    ELSE scene[s]]
  /\ UNCHANGED <<phase, ending>>
  /\ Remember

(* The constructor saves the input state, then turns it off; the new scene *)
(* takes the place of any other in _pCutscene.                             *)
NewScene(caller, hasOverride) ==
  /\ nScenes < MaxScenes
  /\ InCutscene => Overlap
  /\ nScenes' = nScenes + 1
  /\ pCutscene' = nScenes + 1
  /\ input' = [SetInputActive(FALSE) EXCEPT !.verbs = FALSE]
  /\ scene' = [s \in 1..(nScenes + 1) |->
                 IF s = nScenes + 1
                 THEN [state |-> 0, caller |-> caller, override |-> hasOverride,
                       saved |-> input, frames |-> {}, suspended |-> FALSE,
                       pending |-> 0, breaks |-> MaxBreaks,
                       stopped |-> FALSE, alive |-> TRUE]
                 ELSE IF s = caller THEN [scene[s] EXCEPT !.suspended = TRUE]
                                    ELSE scene[s]]
  /\ UNCHANGED <<phase, ending>>
  /\ Remember

(* cutscene called by a thread, suspended once the scene is created ...    *)
CallCutscene(t, hasOverride) ==
  /\ ScriptMayAct
  /\ waits[t] = "free"
  /\ NewScene(t, hasOverride)
  /\ waits' = [waits EXCEPT ![t] = "asleep"]
  /\ UNCHANGED slice

(* ... or by a closure of another scene, on that scene's VM.               *)
SceneCallsCutscene(hasOverride) ==
  /\ slice # 0
  /\ NewScene(slice, hasOverride)
  /\ slice' = 0
  /\ UNCHANGED waits

(* cutsceneOverride, or the player's SkipCutscene command: only a scene in *)
(* its main closure can be overridden, and only if it has an override.     *)
CutsceneOverride ==
  /\ ScriptMayAct
  /\ InCutscene /\ scene[pCutscene].override /\ scene[pCutscene].state = 1
  /\ scene' = [scene EXCEPT ![pCutscene].state = 2]
  /\ UNCHANGED <<phase, nScenes, pCutscene, slice, input, ending, waits, before>>

(* inputOn, inputOff, inputSilentOff and inputVerbs                        *)
ScriptInput ==
  /\ ScriptMayAct
  /\ input' \in {SetInputActive(TRUE), SetInputActive(FALSE),
                 [input EXCEPT !.active = FALSE],
                 [input EXCEPT !.verbs = TRUE], [input EXCEPT !.verbs = FALSE]}
  /\ UNCHANGED <<phase, nScenes, scene, pCutscene, slice, ending, waits>>
  /\ Remember

(* stopthread on the scene's own thread only raises the flag.              *)
StopScene(s) ==
  /\ ScriptMayAct
  /\ scene[s].alive
  /\ scene' = [scene EXCEPT ![s].stopped = TRUE]
  /\ UNCHANGED <<phase, nScenes, pCutscene, slice, input, ending, waits, before>>

(* A closure of the scene calls breakXXX: the frame on top sleeps.         *)
SceneBreaks ==
  /\ slice # 0
  /\ scene[slice].breaks > 0
  /\ "override" \in scene[slice].frames => OverrideBreaks
  /\ slice' = 0
  /\ scene' = [scene EXCEPT ![slice].suspended = TRUE,
                            ![slice].pending = @ + 1,
                            ![slice].breaks = @ - 1]
  /\ UNCHANGED <<phase, nScenes, pCutscene, input, ending, waits, before>>

(* The closure on top of the scene's VM returns. An override called on a   *)
(* suspended VM leaves it suspended, in the main closure.                  *)
Top(s) == IF "override" \in scene[s].frames THEN "override" ELSE "main"

SceneReturns ==
  /\ slice # 0
  /\ slice' = 0
  /\ scene' = [scene EXCEPT ![slice].frames = @ \ {Top(slice)}]
  /\ UNCHANGED <<phase, nScenes, pCutscene, input, ending, waits, before>>

-----------------------------------------------------------------------------
(* What the frame does                                                     *)

(* Mutant: a scene is erased as any thread is, by ThreadBase::isStopped.   *)
StopThreadsEager ==
  /\ phase = "post" /\ slice = 0
  /\ phase' = "top"
  /\ scene' = [s \in Scenes |->
                 IF Stopped(s) THEN [scene[s] EXCEPT !.alive = FALSE] ELSE scene[s]]
  /\ \E dead \in SUBSET {t \in Threads : waits[t] = "asleep"} :
       waits' = [t \in Threads |-> IF t \in dead THEN "gone" ELSE waits[t]]
  /\ UNCHANGED <<nScenes, pCutscene, slice, input, ending, before>>

(* stopThreads erases the scenes that are over, and any thread stopped     *)
(* since: exitRoom stops the local ones, asleep in a cutscene or not.      *)
StopThreads ==
  /\ phase = "post" /\ slice = 0
  /\ phase' = "top"
  /\ scene' = [s \in Scenes |->
                 IF scene[s].state = 5 THEN [scene[s] EXCEPT !.alive = FALSE]
                                       ELSE scene[s]]
  /\ \E dead \in SUBSET {t \in Threads : waits[t] = "asleep"} :
       waits' = [t \in Threads |-> IF t \in dead THEN "gone" ELSE waits[t]]
  /\ UNCHANGED <<nScenes, pCutscene, slice, input, ending, before>>

(* Call a closure of the scene on its VM.                                  *)
RunClosure(s, state, closure) ==
  /\ scene' = [scene EXCEPT ![s].state = state, ![s].frames = @ \cup {closure}]
  /\ slice' = s
  /\ phase' = "fns"
  /\ UNCHANGED <<nScenes, pCutscene, input, ending, waits, before>>

NoCutscene ==
  /\ phase = "top" /\ pCutscene = 0
  /\ phase' = "fns"
  /\ UNCHANGED <<nScenes, scene, pCutscene, slice, input, ending, waits, before>>

StartCutscene ==
  /\ phase = "top" /\ pCutscene # 0 /\ scene[pCutscene].state = 0
  /\ RunClosure(pCutscene, 1, "main")

DoCutsceneOverride ==
  /\ phase = "top" /\ pCutscene # 0 /\ scene[pCutscene].state = 2
  /\ RunClosure(pCutscene, 3, "override")

(* Mutant: only the main closure is watched.                               *)
CheckEndMainOnly ==
  /\ phase = "top" /\ pCutscene # 0 /\ scene[pCutscene].state \in {1, 3}
  /\ phase' = "fns"
  /\ scene' = IF Stopped(pCutscene) /\ scene[pCutscene].state = 1
              THEN [scene EXCEPT ![pCutscene].state = 4]
              ELSE scene
  /\ UNCHANGED <<nScenes, pCutscene, slice, input, ending, waits, before>>

(* checkEndCutscene and checkEndCutsceneOverride                           *)
CheckEndCutscene ==
  /\ phase = "top" /\ pCutscene # 0 /\ scene[pCutscene].state \in {1, 3}
  /\ phase' = "fns"
  /\ scene' = IF Stopped(pCutscene)
              THEN [scene EXCEPT ![pCutscene].state = 4]
              ELSE scene
  /\ UNCHANGED <<nScenes, pCutscene, slice, input, ending, waits, before>>

(* endCutscene gives the input back and calls onCutsceneEnded ...          *)
EndCutscene ==
  /\ phase = "top" /\ pCutscene # 0 /\ scene[pCutscene].state = 4
  /\ phase' = "ended"
  /\ ending' = pCutscene
  /\ scene' = [scene EXCEPT ![pCutscene].state = 5]
  /\ input' = scene[pCutscene].saved
  /\ UNCHANGED <<nScenes, pCutscene, slice, waits>>
  /\ Remember

(* Mutant: only threads are looked for, not the scenes among them.         *)
ResumeThreadOnly ==
  /\ phase = "ended"
  /\ phase' = "resumed"
  /\ waits' = [t \in Threads |-> IF t = scene[ending].caller /\ waits[t] = "asleep"
                                 THEN "free" ELSE waits[t]]
  /\ scene' = [scene EXCEPT ![ending].stopped = TRUE]
  /\ UNCHANGED <<nScenes, pCutscene, slice, input, ending, before>>

(* ... then stops itself and resumes its caller, if it is still there.     *)
ResumeCaller ==
  /\ phase = "ended"
  /\ phase' = "resumed"
  /\ LET c == scene[ending].caller
         wakes == c \in Scenes /\ scene[c].alive /\ scene[c].suspended
     IN  /\ waits' = [t \in Threads |-> IF t = c /\ waits[t] = "asleep"
                                        THEN "free" ELSE waits[t]]
         /\ slice' = IF wakes THEN c ELSE 0
         /\ scene' = [s \in Scenes |->
              CASE s = ending     -> [scene[s] EXCEPT !.stopped = TRUE]
                [] s = c /\ wakes -> [scene[s] EXCEPT !.suspended = FALSE]
                [] OTHER          -> scene[s]]
  /\ UNCHANGED <<nScenes, pCutscene, input, ending, before>>

(* updateCutscene forgets the scene, unless it is a new one by now.        *)
ForgetCutscene ==
  /\ phase = "resumed" /\ slice = 0
  /\ phase' = "fns"
  /\ ending' = 0
  /\ pCutscene' = IF scene[pCutscene].state = 5 THEN 0 ELSE pCutscene
  /\ UNCHANGED <<nScenes, scene, slice, input, waits, before>>

(* updateFunctions runs a break function of the scene: the VM goes on if   *)
(* it is suspended, whichever closure it is in.                            *)
FireBreak(s) ==
  /\ phase = "fns" /\ slice = 0
  /\ scene[s].pending > 0
  /\ LET wakes == scene[s].alive /\ scene[s].suspended
     IN  /\ scene' = [scene EXCEPT ![s].pending = @ - 1,
                                   ![s].suspended = @ /\ ~wakes]
         /\ slice' = IF wakes THEN s ELSE 0
  /\ UNCHANGED <<phase, nScenes, pCutscene, input, ending, waits, before>>

EndFunctions ==
  /\ phase = "fns" /\ slice = 0
  /\ phase' = "post"
  /\ UNCHANGED <<nScenes, scene, pCutscene, slice, input, ending, waits, before>>

-----------------------------------------------------------------------------
UpdateCutscene ==
  \/ NoCutscene \/ StartCutscene \/ DoCutsceneOverride \/ CheckEndCutscene
  \/ EndCutscene \/ ResumeCaller \/ ForgetCutscene

Script ==
  \/ \E t \in Threads, hasOverride \in BOOLEAN : CallCutscene(t, hasOverride)
  \/ \E hasOverride \in BOOLEAN : SceneCallsCutscene(hasOverride)
  \/ CutsceneOverride
  \/ ScriptInput
  \/ \E s \in Scenes : StopScene(s)

SliceEnds == SceneBreaks \/ SceneReturns

Next ==
  \/ Script \/ SliceEnds
  \/ StopThreads \/ UpdateCutscene \/ EndFunctions
  \/ \E s \in Scenes : FireBreak(s)

Spec == Init /\ [][Next]_vars

-----------------------------------------------------------------------------
(* Correctness                                                             *)

TypeOK ==
  /\ phase \in {"top", "ended", "resumed", "fns", "post"}
  /\ nScenes \in 0..MaxScenes
  /\ scene \in [Scenes -> SceneRecord]
  /\ pCutscene \in 0..nScenes
  /\ slice \in 0..nScenes
  /\ input \in InputState
  /\ ending \in 0..nScenes
  /\ waits \in [Threads -> {"free", "asleep", "gone"}]
  /\ before \in InputState

(* The raw pointer _pCutscene never outlives its scene, and the engine     *)
(* keeps a scene that is over only while that scene is ending.             *)
PCutsceneIsAlive ==
  pCutscene # 0 =>
    /\ scene[pCutscene].alive
    /\ scene[pCutscene].state = 5 => pCutscene = ending

(* A sleeping VM has something to wake it: a break of its own, or a scene  *)
(* it called and that has not ended; an idle VM has left no break function *)
(* behind that would run it again; and a scene that nobody stopped by hand *)
(* ends with its closures finished: none runs on with the input back on.   *)
SceneHasWaker ==
  \A s \in Scenes :
    /\ scene[s].alive /\ scene[s].suspended =>
         \/ scene[s].pending > 0
         \/ \E c \in Scenes : scene[c].caller = s /\ scene[c].state # 5
         \/ ending # 0 /\ scene[ending].caller = s
    /\ VmIdle(s) => scene[s].pending = 0
    /\ scene[s].state \in {4, 5} /\ ~scene[s].stopped => VmIdle(s)

(* A scene that has taken the place of another in _pCutscene: the one left *)
(* behind never ends.                                                      *)
Overlapped == \E s \in Scenes : s # pCutscene /\ scene[s].state # 5

(* When the last scene ends the input is what it was before the first one, *)
(* whatever inputOn, inputOff and inputVerbs said in between.              *)
InputIsGivenBack ==
  [][InCutscene /\ ~InCutscene' /\ ~Overlapped => input' = before]_vars

(* "ESC: Skip cutscene", says README.MD: once the override has started, the *)
(* main closure it replaces does not run again. It does: the break it was  *)
(* asleep on fires and resumes the VM, now back in the main closure.       *)
SkippedSceneStopsPlaying ==
  \A s \in Scenes : slice = s /\ scene[s].state = 3 => Top(s) = "override"

-----------------------------------------------------------------------------
(* Liveness: the frame goes on, a slice ends, a break fires (Threads).     *)

Fairness ==
  /\ WF_vars(StopThreads) /\ WF_vars(UpdateCutscene) /\ WF_vars(EndFunctions)
  /\ WF_vars(SliceEnds)
  /\ \A s \in 1..MaxScenes : SF_vars(s \in Scenes /\ FireBreak(s))

FairSpec == Spec /\ Fairness

(* An override asleep on a break: waking it leaves the VM neither idle nor *)
(* suspended, and the scene never ends.                                    *)
OverrideSleeps ==
  \E s \in Scenes : scene[s].suspended /\ "override" \in scene[s].frames

(* Who calls cutscene comes back: the scene ends, skipped or not, unless   *)
(* another has taken its place, or its override breaks.                    *)
CallerComesBack ==
  \A t \in Threads :
    waits[t] = "asleep" ~> waits[t] # "asleep" \/ Overlapped \/ OverrideSleeps

=============================================================================
