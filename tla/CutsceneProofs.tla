--------------------------- MODULE CutsceneProofs ---------------------------
(***************************************************************************)
(* Proofs about Cutscene, for any threads and any number of scenes and     *)
(* breaks, whether or not scenes overlap and overrides break.              *)
(***************************************************************************)
EXTENDS Cutscene, TLAPS

(* The scenes that will wake s when they end, or are just doing so.        *)
Callees(s) ==
  {c \in Scenes : scene[c].caller = s /\ (scene[c].state # 5 \/ (phase = "ended" /\ c = ending))}

AwaitsNothing(s) == scene[s].pending = 0 /\ Callees(s) = {}

AwaitsOne(s) ==
  \/ scene[s].pending = 1 /\ Callees(s) = {}
  \/ scene[s].pending = 0 /\ \E c \in Scenes : Callees(s) = {c}

Both == {"main", "override"}

(* What a VM waits for, by the closures on its stack. With one closure the *)
(* VM has one waker when it is asleep and none when it runs. An override   *)
(* is called on top of the main closure, asleep: from then on the wakers   *)
(* of one wake the other, and when the override was woken before it        *)
(* returns, the main closure is left, neither asleep nor running.          *)
VmOKOf(s) ==
  /\ scene[s].frames = {} => ~scene[s].suspended /\ AwaitsNothing(s) /\ slice # s
  /\ scene[s].alive /\ scene[s].suspended =>
       IF slice = s THEN scene[s].frames = Both /\ AwaitsOne(s)
       ELSE IF scene[s].frames = Both THEN ~AwaitsNothing(s) ELSE AwaitsOne(s)
  /\ ~scene[s].suspended /\ slice = s /\ scene[s].frames # Both => AwaitsNothing(s)
  /\ ~scene[s].suspended /\ slice # s /\ scene[s].frames # {} =>
       scene[s].frames = {"main"} /\ scene[s].state \in 3..5

VmOK == \A s \in Scenes : VmOKOf(s)

StateOKOf(s) ==
  /\ scene[s].state = 0 => scene[s].frames = {}
  /\ scene[s].state \in 0..2 => "override" \notin scene[s].frames
  /\ scene[s].state \in {4, 5} /\ ~scene[s].stopped => VmIdle(s)
  /\ ~scene[s].alive => scene[s].state = 5
  /\ scene[s].caller \in Threads \cup 1..(s - 1)

StateOK == \A s \in Scenes : StateOKOf(s)

FrameOK ==
  /\ slice # 0 => phase \in {"fns", "resumed"} /\ scene[slice].alive
  /\ ending # 0 <=> phase \in {"ended", "resumed"}
  /\ ending # 0 => scene[ending].state = 5 /\ scene[ending].alive
  /\ pCutscene # 0 /\ scene[pCutscene].state = 5 => pCutscene = ending

(* What the scene on screen, alone, gives back is what was there before.   *)
InputOK ==
  /\ ~InCutscene => input = before
  /\ InCutscene /\ ~Overlapped => scene[pCutscene].saved = before

(* The inductive invariant.                                                *)
SceneInv == TypeOK /\ VmOK /\ StateOK /\ FrameOK /\ InputOK

-----------------------------------------------------------------------------
(* Records of scenes                                                       *)

LEMMA InputRecord ==
  ASSUME NEW i \in InputState, NEW b \in BOOLEAN
  PROVE  /\ [i EXCEPT !.active = b] \in InputState
         /\ [i EXCEPT !.verbs = b] \in InputState
         /\ [i EXCEPT !.active = b, !.cursor = b] \in InputState
BY DEF InputState

LEMMA InputSet ==
  ASSUME TypeOK, NEW b \in BOOLEAN
  PROVE  SetInputActive(b) \in InputState
BY InputRecord DEF SetInputActive, TypeOK

-----------------------------------------------------------------------------
(* What the actions do to the scenes                                       *)

LEMMA OneChanges ==
  ASSUME TypeOK, NEW x \in Scenes, NEW r \in SceneRecord,
         scene' = [scene EXCEPT ![x] = r], nScenes' = nScenes
  PROVE  /\ scene' \in [Scenes' -> SceneRecord]
         /\ scene'[x] = r
         /\ \A s \in Scenes \ {x} : scene'[s] = scene[s]
BY DEF TypeOK, Scenes

(* A scene is created, and the caller sleeps if it is a scene.             *)
Sleeps(s, caller) ==
  IF s = caller THEN [scene[s] EXCEPT !.suspended = TRUE] ELSE scene[s]

LEMMA SleepsRecord ==
  ASSUME TypeOK, NEW s \in Scenes, NEW caller
  PROVE  /\ Sleeps(s, caller) \in SceneRecord
         /\ Sleeps(s, caller).suspended <=> s = caller \/ scene[s].suspended
         /\ Sleeps(s, caller).state = scene[s].state
         /\ Sleeps(s, caller).caller = scene[s].caller
         /\ Sleeps(s, caller).saved = scene[s].saved
         /\ Sleeps(s, caller).frames = scene[s].frames
         /\ Sleeps(s, caller).pending = scene[s].pending
         /\ Sleeps(s, caller).stopped = scene[s].stopped
         /\ Sleeps(s, caller).alive = scene[s].alive
<1>1. scene[s] \in SceneRecord
  BY DEF TypeOK
<1> QED
  BY <1>1 DEF Sleeps, SceneRecord

Created(caller, hasOverride) ==
  [state |-> 0, caller |-> caller, override |-> hasOverride,
   saved |-> input, frames |-> {}, suspended |-> FALSE,
   pending |-> 0, breaks |-> MaxBreaks, stopped |-> FALSE, alive |-> TRUE]

LEMMA NewSceneEffect ==
  ASSUME TypeOK, NEW caller \in Threads \cup Scenes, NEW hasOverride \in BOOLEAN,
         NewScene(caller, hasOverride)
  PROVE  /\ nScenes' = nScenes + 1 /\ nScenes \in Nat /\ nScenes' \in 0..MaxScenes
         /\ pCutscene' = nScenes + 1
         /\ phase' = phase /\ ending' = ending
         /\ scene' \in [1..(nScenes + 1) -> SceneRecord]
         /\ scene'[nScenes + 1] = Created(caller, hasOverride)
         /\ \A s \in Scenes : scene'[s] = Sleeps(s, caller)
         /\ InCutscene'
         /\ input' \in InputState /\ before' = before
<1> DEFINE r == Created(caller, hasOverride)
<1>1. /\ nScenes' = nScenes + 1 /\ nScenes \in Nat /\ nScenes' \in 0..MaxScenes
      /\ pCutscene' = nScenes + 1
      /\ phase' = phase /\ ending' = ending
  BY CutsceneAssumption DEF NewScene, TypeOK
<1>2. r \in SceneRecord /\ r.state = 0
  BY CutsceneAssumption DEF SceneRecord, Created, TypeOK, Scenes
<1>3. scene' = [s \in 1..(nScenes + 1) |-> IF s = nScenes + 1 THEN r ELSE Sleeps(s, caller)]
  BY DEF NewScene, Created, Sleeps
<1>4. \A s \in Scenes : Sleeps(s, caller) \in SceneRecord
  BY SleepsRecord
<1> HIDE DEF r
<1>5. /\ scene' \in [1..(nScenes + 1) -> SceneRecord]
      /\ scene'[nScenes + 1] = r
      /\ \A s \in Scenes : scene'[s] = Sleeps(s, caller)
  BY <1>1, <1>2, <1>3, <1>4 DEF Scenes
<1>6. InCutscene'
  BY <1>1, <1>2, <1>5 DEF InCutscene
<1>7. input' \in InputState /\ before' = before
  BY <1>6, InputRecord, InputSet DEF NewScene, Remember
<1> QED
  BY <1>1, <1>5, <1>6, <1>7 DEF r

LEMMA BreaksEffect ==
  ASSUME TypeOK, SceneBreaks
  PROVE  LET r == scene[slice] IN
         /\ slice \in Scenes /\ slice' = 0
         /\ scene' \in [Scenes' -> SceneRecord]
         /\ \A s \in Scenes \ {slice} : scene'[s] = scene[s]
         /\ scene'[slice] = [r EXCEPT !.suspended = TRUE, !.pending = @ + 1, !.breaks = @ - 1]
         /\ scene'[slice].suspended /\ scene'[slice].pending = r.pending + 1
         /\ scene'[slice].state = r.state /\ scene'[slice].caller = r.caller
         /\ scene'[slice].saved = r.saved /\ scene'[slice].frames = r.frames
         /\ scene'[slice].stopped = r.stopped /\ scene'[slice].alive = r.alive
<1> DEFINE r == scene[slice]
           q == [r EXCEPT !.suspended = TRUE, !.pending = r.pending + 1, !.breaks = r.breaks - 1]
<1>1. slice \in Scenes /\ slice' = 0 /\ nScenes' = nScenes
  BY DEF SceneBreaks, TypeOK, Scenes
<1>2. r \in SceneRecord /\ r.pending + 1 \in Nat /\ r.breaks - 1 \in Nat
  BY <1>1 DEF SceneBreaks, TypeOK, SceneRecord
<1>3. scene' = [scene EXCEPT ![slice] = q]
  BY <1>1 DEF SceneBreaks, TypeOK
<1> HIDE DEF r
<1>4. /\ q \in SceneRecord /\ q.suspended /\ q.pending = r.pending + 1
      /\ q.state = r.state /\ q.caller = r.caller /\ q.saved = r.saved
      /\ q.frames = r.frames /\ q.stopped = r.stopped /\ q.alive = r.alive
  BY <1>2 DEF SceneRecord
<1>5. q = [r EXCEPT !.suspended = TRUE, !.pending = @ + 1, !.breaks = @ - 1]
  BY <1>2 DEF SceneRecord
<1> HIDE DEF q
<1>6. /\ scene' \in [Scenes' -> SceneRecord]
      /\ scene'[slice] = q
      /\ \A s \in Scenes \ {slice} : scene'[s] = scene[s]
  BY <1>1, <1>3, <1>4, OneChanges
<1> QED
  BY <1>1, <1>4, <1>5, <1>6 DEF r

LEMMA ReturnsEffect ==
  ASSUME TypeOK, SceneReturns
  PROVE  LET r == scene[slice] IN
         /\ slice \in Scenes /\ slice' = 0
         /\ scene' \in [Scenes' -> SceneRecord]
         /\ \A s \in Scenes \ {slice} : scene'[s] = scene[s]
         /\ scene'[slice].frames = r.frames \ {Top(slice)}
         /\ scene'[slice].suspended = r.suspended /\ scene'[slice].pending = r.pending
         /\ scene'[slice].state = r.state /\ scene'[slice].caller = r.caller
         /\ scene'[slice].saved = r.saved
         /\ scene'[slice].stopped = r.stopped /\ scene'[slice].alive = r.alive
<1> DEFINE r == scene[slice]
           fs == r.frames \ {Top(slice)}
           q == [r EXCEPT !.frames = fs]
<1>1. slice \in Scenes /\ slice' = 0 /\ nScenes' = nScenes
  BY DEF SceneReturns, TypeOK, Scenes
<1>2. r \in SceneRecord
  BY <1>1 DEF TypeOK
<1>3. fs \in SUBSET Both
  BY <1>2 DEF SceneRecord, Both
<1>4. scene' = [scene EXCEPT ![slice] = q]
  BY <1>1 DEF SceneReturns, TypeOK
<1> HIDE DEF r, fs
<1>5. /\ q \in SceneRecord /\ q.frames = fs
      /\ q.suspended = r.suspended /\ q.pending = r.pending
      /\ q.state = r.state /\ q.caller = r.caller /\ q.saved = r.saved
      /\ q.stopped = r.stopped /\ q.alive = r.alive
  BY <1>2, <1>3 DEF SceneRecord, Both
<1> HIDE DEF q
<1>6. /\ scene' \in [Scenes' -> SceneRecord]
      /\ scene'[slice] = q
      /\ \A s \in Scenes \ {slice} : scene'[s] = scene[s]
  BY <1>1, <1>4, <1>5, OneChanges
<1> QED
  BY <1>1, <1>5, <1>6 DEF r, fs

LEMMA StopThreadsEffect ==
  ASSUME TypeOK, StopThreads
  PROVE  /\ scene' \in [Scenes' -> SceneRecord]
         /\ waits' \in [Threads -> {"free", "asleep", "gone"}]
         /\ \A s \in Scenes :
              /\ scene'[s].alive <=> scene[s].alive /\ scene[s].state # 5
              /\ scene'[s].state = scene[s].state /\ scene'[s].caller = scene[s].caller
              /\ scene'[s].saved = scene[s].saved /\ scene'[s].frames = scene[s].frames
              /\ scene'[s].suspended = scene[s].suspended
              /\ scene'[s].pending = scene[s].pending
              /\ scene'[s].stopped = scene[s].stopped
<1> DEFINE q(s) == IF scene[s].state = 5 THEN [scene[s] EXCEPT !.alive = FALSE] ELSE scene[s]
<1>1. scene' = [s \in Scenes |-> q(s)] /\ nScenes' = nScenes
  BY DEF StopThreads
<1>2. ASSUME NEW s \in Scenes
      PROVE  /\ q(s) \in SceneRecord
             /\ q(s).alive <=> scene[s].alive /\ scene[s].state # 5
             /\ q(s).state = scene[s].state /\ q(s).caller = scene[s].caller
             /\ q(s).saved = scene[s].saved /\ q(s).frames = scene[s].frames
             /\ q(s).suspended = scene[s].suspended
             /\ q(s).pending = scene[s].pending
             /\ q(s).stopped = scene[s].stopped
  <2>1. scene[s] \in SceneRecord
    BY DEF TypeOK
  <2> QED
    BY <2>1 DEF SceneRecord
<1> HIDE DEF q
<1>3. waits' \in [Threads -> {"free", "asleep", "gone"}]
  BY DEF StopThreads, TypeOK
<1> QED
  BY <1>1, <1>2, <1>3 DEF Scenes

LEMMA RunClosureEffect ==
  ASSUME TypeOK, NEW p \in Scenes, NEW state \in 0..5, NEW closure \in Both,
         RunClosure(p, state, closure)
  PROVE  LET r == scene[p] IN
         /\ slice' = p
         /\ scene' \in [Scenes' -> SceneRecord]
         /\ \A s \in Scenes \ {p} : scene'[s] = scene[s]
         /\ scene'[p].state = state /\ scene'[p].frames = r.frames \cup {closure}
         /\ scene'[p].suspended = r.suspended /\ scene'[p].pending = r.pending
         /\ scene'[p].caller = r.caller /\ scene'[p].saved = r.saved
         /\ scene'[p].stopped = r.stopped /\ scene'[p].alive = r.alive
<1> DEFINE r == scene[p]
           fs == r.frames \cup {closure}
           q == [r EXCEPT !.state = state, !.frames = fs]
<1>1. slice' = p /\ nScenes' = nScenes
  BY DEF RunClosure
<1>2. r \in SceneRecord
  BY DEF TypeOK
<1>3. fs \in SUBSET Both
  BY <1>2 DEF SceneRecord, Both
<1>4. scene' = [scene EXCEPT ![p] = q]
  BY DEF RunClosure, TypeOK
<1> HIDE DEF r, fs
<1>5. /\ q \in SceneRecord /\ q.state = state /\ q.frames = fs
      /\ q.suspended = r.suspended /\ q.pending = r.pending
      /\ q.caller = r.caller /\ q.saved = r.saved
      /\ q.stopped = r.stopped /\ q.alive = r.alive
  BY <1>2, <1>3 DEF SceneRecord, Both
<1> HIDE DEF q
<1>6. /\ scene' \in [Scenes' -> SceneRecord]
      /\ scene'[p] = q
      /\ \A s \in Scenes \ {p} : scene'[s] = scene[s]
  BY <1>1, <1>4, <1>5, OneChanges
<1> QED
  BY <1>1, <1>5, <1>6 DEF r, fs

(* Only the state of scene p changes.                                      *)
LEMMA StateEffect ==
  ASSUME TypeOK, NEW p \in Scenes, NEW state \in 0..5,
         scene' = [scene EXCEPT ![p].state = state], nScenes' = nScenes
  PROVE  LET r == scene[p] IN
         /\ scene' \in [Scenes' -> SceneRecord]
         /\ \A s \in Scenes \ {p} : scene'[s] = scene[s]
         /\ scene'[p].state = state /\ scene'[p].frames = r.frames
         /\ scene'[p].suspended = r.suspended /\ scene'[p].pending = r.pending
         /\ scene'[p].caller = r.caller /\ scene'[p].saved = r.saved
         /\ scene'[p].stopped = r.stopped /\ scene'[p].alive = r.alive
<1> DEFINE r == scene[p]
           q == [r EXCEPT !.state = state]
<1>1. r \in SceneRecord
  BY DEF TypeOK
<1>2. scene' = [scene EXCEPT ![p] = q]
  BY DEF TypeOK
<1> HIDE DEF r
<1>3. /\ q \in SceneRecord /\ q.state = state /\ q.frames = r.frames
      /\ q.suspended = r.suspended /\ q.pending = r.pending
      /\ q.caller = r.caller /\ q.saved = r.saved
      /\ q.stopped = r.stopped /\ q.alive = r.alive
  BY <1>1 DEF SceneRecord
<1> HIDE DEF q
<1>4. /\ scene' \in [Scenes' -> SceneRecord]
      /\ scene'[p] = q
      /\ \A s \in Scenes \ {p} : scene'[s] = scene[s]
  BY <1>2, <1>3, OneChanges
<1> QED
  BY <1>3, <1>4 DEF r

(* Scene p is flagged.                                                     *)
LEMMA StopEffect ==
  ASSUME TypeOK, NEW p \in Scenes,
         scene' = [scene EXCEPT ![p].stopped = TRUE], nScenes' = nScenes
  PROVE  LET r == scene[p] IN
         /\ scene' \in [Scenes' -> SceneRecord]
         /\ \A s \in Scenes \ {p} : scene'[s] = scene[s]
         /\ scene'[p].stopped
         /\ scene'[p].state = r.state /\ scene'[p].frames = r.frames
         /\ scene'[p].suspended = r.suspended /\ scene'[p].pending = r.pending
         /\ scene'[p].caller = r.caller /\ scene'[p].saved = r.saved
         /\ scene'[p].alive = r.alive
<1> DEFINE r == scene[p]
           q == [r EXCEPT !.stopped = TRUE]
<1>1. r \in SceneRecord
  BY DEF TypeOK
<1>2. scene' = [scene EXCEPT ![p] = q]
  BY DEF TypeOK
<1> HIDE DEF r
<1>3. /\ q \in SceneRecord /\ q.stopped
      /\ q.state = r.state /\ q.frames = r.frames
      /\ q.suspended = r.suspended /\ q.pending = r.pending
      /\ q.caller = r.caller /\ q.saved = r.saved /\ q.alive = r.alive
  BY <1>1 DEF SceneRecord
<1> HIDE DEF q
<1>4. /\ scene' \in [Scenes' -> SceneRecord]
      /\ scene'[p] = q
      /\ \A s \in Scenes \ {p} : scene'[s] = scene[s]
  BY <1>2, <1>3, OneChanges
<1> QED
  BY <1>3, <1>4 DEF r

LEMMA FireEffect ==
  ASSUME TypeOK, NEW p \in Scenes, FireBreak(p)
  PROVE  LET r == scene[p]
             wakes == r.alive /\ r.suspended IN
         /\ slice = 0 /\ slice' = IF wakes THEN p ELSE 0
         /\ scene' \in [Scenes' -> SceneRecord]
         /\ \A s \in Scenes \ {p} : scene'[s] = scene[s]
         /\ r.pending > 0 /\ scene'[p].pending = r.pending - 1
         /\ scene'[p].suspended <=> r.suspended /\ ~r.alive
         /\ scene'[p].state = r.state /\ scene'[p].frames = r.frames
         /\ scene'[p].caller = r.caller /\ scene'[p].saved = r.saved
         /\ scene'[p].stopped = r.stopped /\ scene'[p].alive = r.alive
<1> DEFINE r == scene[p]
           wakes == r.alive /\ r.suspended
           asleep == r.suspended /\ ~wakes
           left == r.pending - 1
           q == [r EXCEPT !.pending = left, !.suspended = asleep]
<1>1. slice = 0 /\ slice' = (IF wakes THEN p ELSE 0) /\ nScenes' = nScenes /\ r.pending > 0
  BY DEF FireBreak
<1>2. r \in SceneRecord
  BY DEF TypeOK
<1>3. scene' = [scene EXCEPT ![p] = q]
  BY DEF FireBreak, TypeOK
<1>6. asleep \in BOOLEAN /\ (asleep <=> r.suspended /\ ~r.alive)
  BY <1>2 DEF SceneRecord
<1>7. left \in Nat
  BY <1>1, <1>2 DEF SceneRecord
<1> HIDE DEF r, asleep, left
<1>4. /\ q \in SceneRecord /\ q.pending = left
      /\ q.suspended <=> asleep
      /\ q.state = r.state /\ q.frames = r.frames
      /\ q.caller = r.caller /\ q.saved = r.saved
      /\ q.stopped = r.stopped /\ q.alive = r.alive
  <2>1. CASE asleep = TRUE
    BY <1>2, <1>7, <2>1 DEF SceneRecord
  <2>2. CASE asleep = FALSE
    BY <1>2, <1>7, <2>2 DEF SceneRecord
  <2> QED
    BY <1>6, <2>1, <2>2
<1> HIDE DEF q
<1>5. /\ scene' \in [Scenes' -> SceneRecord]
      /\ scene'[p] = q
      /\ \A s \in Scenes \ {p} : scene'[s] = scene[s]
  BY <1>1, <1>3, <1>4, OneChanges
<1> QED
  BY <1>1, <1>4, <1>5, <1>6 DEF r, left

LEMMA ResumeEffect ==
  ASSUME TypeOK, ending # 0, scene[ending].caller # ending, ResumeCaller
  PROVE  LET c == scene[ending].caller
             wakes == c \in Scenes /\ scene[c].alive /\ scene[c].suspended IN
         /\ ending \in Scenes
         /\ phase = "ended" /\ phase' = "resumed"
         /\ slice' = IF wakes THEN c ELSE 0
         /\ waits' \in [Threads -> {"free", "asleep", "gone"}]
         /\ scene' \in [Scenes' -> SceneRecord]
         /\ \A s \in Scenes :
              /\ scene'[s].stopped <=> scene[s].stopped \/ s = ending
              /\ scene'[s].suspended <=> scene[s].suspended /\ ~(s = c /\ scene[s].alive)
              /\ scene'[s].pending = scene[s].pending
              /\ scene'[s].state = scene[s].state /\ scene'[s].frames = scene[s].frames
              /\ scene'[s].caller = scene[s].caller /\ scene'[s].saved = scene[s].saved
              /\ scene'[s].alive = scene[s].alive
<1> DEFINE c == scene[ending].caller
           wakes == c \in Scenes /\ scene[c].alive /\ scene[c].suspended
           q(s) == CASE s = ending     -> [scene[s] EXCEPT !.stopped = TRUE]
                     [] s = c /\ wakes -> [scene[s] EXCEPT !.suspended = FALSE]
                     [] OTHER          -> scene[s]
<1>1. /\ ending \in Scenes /\ nScenes' = nScenes
      /\ phase = "ended" /\ phase' = "resumed"
      /\ slice' = IF wakes THEN c ELSE 0
      /\ waits' \in [Threads -> {"free", "asleep", "gone"}]
  BY DEF ResumeCaller, TypeOK, Scenes
<1>2. scene' = [s \in Scenes |-> q(s)]
  BY DEF ResumeCaller
<1>3. c # ending
  OBVIOUS
<1>4. ASSUME NEW s \in Scenes
      PROVE  /\ q(s) \in SceneRecord
             /\ q(s).stopped <=> scene[s].stopped \/ s = ending
             /\ q(s).suspended <=> scene[s].suspended /\ ~(s = c /\ scene[s].alive)
             /\ q(s).pending = scene[s].pending
             /\ q(s).state = scene[s].state /\ q(s).frames = scene[s].frames
             /\ q(s).caller = scene[s].caller /\ q(s).saved = scene[s].saved
             /\ q(s).alive = scene[s].alive
  <2>1. scene[s] \in SceneRecord
    BY DEF TypeOK
  <2> HIDE DEF c
  <2>2. CASE s = ending
    BY <1>3, <2>1, <2>2 DEF SceneRecord
  <2>3. CASE s # ending /\ s = c /\ wakes
    BY <2>1, <2>3 DEF SceneRecord
  <2>4. CASE s # ending /\ ~(s = c /\ wakes)
    <3>1. q(s) = scene[s]
      BY <2>4
    <3> QED
      BY <2>1, <2>4, <3>1
  <2> QED
    BY <2>2, <2>3, <2>4
<1> HIDE DEF q
<1>5. scene' \in [Scenes' -> SceneRecord] /\ \A s \in Scenes : scene'[s] = q(s)
  BY <1>1, <1>2, <1>4 DEF Scenes
<1> QED
  BY <1>1, <1>4, <1>5

-----------------------------------------------------------------------------
(* What a step leaves alone                                                *)

LEMMA SameCallees ==
  ASSUME nScenes' = nScenes,
         \A c \in Scenes : /\ scene'[c].caller = scene[c].caller
                           /\ scene'[c].state = 5 <=> scene[c].state = 5,
         phase' = "ended" <=> phase = "ended",
         phase = "ended" => ending' = ending
  PROVE  \A s : Callees(s)' = Callees(s)
BY DEF Callees, Scenes

LEMMA SameVm ==
  ASSUME NEW s \in Scenes, VmOKOf(s), Callees(s)' = Callees(s), Scenes \subseteq Scenes',
         scene'[s].frames = scene[s].frames, scene'[s].suspended <=> scene[s].suspended,
         scene'[s].pending = scene[s].pending, scene'[s].alive => scene[s].alive,
         scene[s].state \in 3..5 => scene'[s].state \in 3..5,
         slice' = s <=> slice = s
  PROVE  VmOKOf(s)'
BY DEF VmOKOf, AwaitsNothing, AwaitsOne

LEMMA SameInput ==
  ASSUME InputOK, nScenes' = nScenes, pCutscene \in 0..nScenes,
         UNCHANGED <<pCutscene, input, before>>,
         \A s \in Scenes : /\ scene'[s].saved = scene[s].saved
                           /\ scene'[s].state = 5 <=> scene[s].state = 5
  PROVE  InputOK'
BY DEF InputOK, InCutscene, Overlapped, Scenes

LEMMA RecordFacts ==
  ASSUME TypeOK, NEW s \in Scenes
  PROVE  /\ scene[s] \in SceneRecord
         /\ scene[s].state \in 0..5
         /\ scene[s].frames \in SUBSET Both
         /\ scene[s].suspended \in BOOLEAN /\ scene[s].stopped \in BOOLEAN
         /\ scene[s].alive \in BOOLEAN
         /\ scene[s].pending \in Nat
         /\ nScenes \in Nat /\ s \in Nat
BY CutsceneAssumption DEF TypeOK, SceneRecord, Both, Scenes

(* A VM asleep or running has closures on its stack.                       *)
LEMMA SliceHasFrames ==
  ASSUME SceneInv, slice # 0
  PROVE  /\ slice \in Scenes /\ scene[slice].alive /\ scene[slice].frames # {}
         /\ phase \in {"fns", "resumed"}
BY DEF SceneInv, VmOK, VmOKOf, FrameOK, TypeOK, Scenes

-----------------------------------------------------------------------------
(* The steps                                                               *)

LEMMA BreaksStep ==
  ASSUME SceneInv, SceneBreaks
  PROVE  SceneInv'
<1> USE DEF SceneInv
<1>0. /\ nScenes' = nScenes /\ Scenes' = Scenes
      /\ UNCHANGED <<phase, pCutscene, input, ending, waits, before>>
  BY DEF SceneBreaks, Scenes
<1> DEFINE r == scene[slice]
<1>1. /\ slice \in Scenes /\ slice' = 0 /\ slice # 0
      /\ scene' \in [Scenes' -> SceneRecord]
      /\ \A s \in Scenes \ {slice} : scene'[s] = scene[s]
      /\ scene'[slice].suspended /\ scene'[slice].pending = r.pending + 1
      /\ scene'[slice].state = r.state /\ scene'[slice].caller = r.caller
      /\ scene'[slice].saved = r.saved /\ scene'[slice].frames = r.frames
      /\ scene'[slice].stopped = r.stopped /\ scene'[slice].alive = r.alive
  BY BreaksEffect DEF SceneBreaks
<1>2. TypeOK'
  BY <1>0, <1>1 DEF TypeOK
<1>3. \A s : Callees(s)' = Callees(s)
  BY <1>0, <1>1, SameCallees
<1>4. VmOK'
  <2> SUFFICES ASSUME NEW s \in Scenes PROVE VmOKOf(s)'
    BY <1>0 DEF VmOK
  <2>1. CASE s # slice
    BY <1>0, <1>1, <1>3, <2>1, SameVm DEF VmOK, Scenes
  <2>2. CASE s = slice
    <3>1. VmOKOf(s) /\ r.pending \in Nat /\ r.frames # {}
      BY <1>1, <2>2, RecordFacts, SliceHasFrames DEF VmOK
    <3> QED
      BY <1>0, <1>1, <1>3, <2>2, <3>1 DEF VmOKOf, AwaitsNothing, AwaitsOne
  <2> QED
    BY <2>1, <2>2
<1>5. StateOK'
  <2> SUFFICES ASSUME NEW s \in Scenes PROVE StateOKOf(s)'
    BY <1>0 DEF StateOK
  <2>1. StateOKOf(s) /\ r.frames # {}
    BY <1>1, SliceHasFrames DEF StateOK
  <2> QED
    BY <1>0, <1>1, <2>1 DEF StateOKOf, VmIdle
<1>6. FrameOK'
  BY <1>0, <1>1 DEF FrameOK, TypeOK, Scenes
<1>7. InputOK'
  BY <1>0, <1>1, SameInput DEF TypeOK
<1> QED
  BY <1>2, <1>4, <1>5, <1>6, <1>7

LEMMA ReturnsStep ==
  ASSUME SceneInv, SceneReturns
  PROVE  SceneInv'
<1> USE DEF SceneInv
<1>0. /\ nScenes' = nScenes /\ Scenes' = Scenes
      /\ UNCHANGED <<phase, pCutscene, input, ending, waits, before>>
  BY DEF SceneReturns, Scenes
<1> DEFINE r == scene[slice]
<1>1. /\ slice \in Scenes /\ slice' = 0 /\ slice # 0
      /\ scene' \in [Scenes' -> SceneRecord]
      /\ \A s \in Scenes \ {slice} : scene'[s] = scene[s]
      /\ scene'[slice].frames = r.frames \ {Top(slice)}
      /\ scene'[slice].suspended = r.suspended /\ scene'[slice].pending = r.pending
      /\ scene'[slice].state = r.state /\ scene'[slice].caller = r.caller
      /\ scene'[slice].saved = r.saved
      /\ scene'[slice].stopped = r.stopped /\ scene'[slice].alive = r.alive
  BY ReturnsEffect DEF SceneReturns
<1>2. TypeOK'
  BY <1>0, <1>1 DEF TypeOK
<1>3. \A s : Callees(s)' = Callees(s)
  BY <1>0, <1>1, SameCallees
(* The closures that were on the stack, and those that are left.           *)
<1>8. \/ r.frames = Both /\ scene'[slice].frames = {"main"}
      \/ r.frames # Both /\ r.frames # {} /\ scene'[slice].frames = {}
  <2>1. r.frames \in SUBSET Both /\ r.frames # {}
    BY <1>1, RecordFacts, SliceHasFrames
  <2> QED
    BY <1>1, <2>1 DEF Both, Top
<1>9. VmOKOf(slice) /\ StateOKOf(slice) /\ r.alive
  BY <1>1, SliceHasFrames DEF VmOK, StateOK
<1>10. r.state \in 0..5 /\ {"main"} # Both /\ {"main"} # {} /\ "override" \in Both
  BY <1>1, RecordFacts DEF Both
<1>4. VmOK'
  <2> SUFFICES ASSUME NEW s \in Scenes PROVE VmOKOf(s)'
    BY <1>0 DEF VmOK
  <2>1. CASE s # slice
    BY <1>0, <1>1, <1>3, <2>1, SameVm DEF VmOK, Scenes
  <2>2. CASE s = slice
    <3>1. r.frames = Both => r.state \in 3..5
      BY <1>9, <1>10 DEF StateOKOf
    <3> QED
      BY <1>0, <1>1, <1>3, <1>8, <1>9, <1>10, <2>2, <3>1
         DEF VmOKOf, AwaitsNothing, AwaitsOne
  <2> QED
    BY <2>1, <2>2
<1>5. StateOK'
  <2> SUFFICES ASSUME NEW s \in Scenes PROVE StateOKOf(s)'
    BY <1>0 DEF StateOK
  <2>1. StateOKOf(s)
    BY DEF StateOK
  <2> QED
    BY <1>0, <1>1, <1>8, <1>9, <1>10, <2>1 DEF StateOKOf, VmIdle
<1>6. FrameOK'
  BY <1>0, <1>1 DEF FrameOK, TypeOK, Scenes
<1>7. InputOK'
  BY <1>0, <1>1, SameInput DEF TypeOK
<1> QED
  BY <1>2, <1>4, <1>5, <1>6, <1>7

LEMMA FireStep ==
  ASSUME SceneInv, NEW p \in Scenes, FireBreak(p)
  PROVE  SceneInv'
<1> USE DEF SceneInv
<1>0. /\ nScenes' = nScenes /\ Scenes' = Scenes /\ phase = "fns"
      /\ UNCHANGED <<phase, pCutscene, input, ending, waits, before>>
  BY DEF FireBreak, Scenes
<1> DEFINE r == scene[p]
           wakes == r.alive /\ r.suspended
<1>1. /\ slice = 0 /\ slice' = IF wakes THEN p ELSE 0
      /\ scene' \in [Scenes' -> SceneRecord]
      /\ \A s \in Scenes \ {p} : scene'[s] = scene[s]
      /\ r.pending > 0 /\ scene'[p].pending = r.pending - 1
      /\ scene'[p].suspended <=> r.suspended /\ ~r.alive
      /\ scene'[p].state = r.state /\ scene'[p].frames = r.frames
      /\ scene'[p].caller = r.caller /\ scene'[p].saved = r.saved
      /\ scene'[p].stopped = r.stopped /\ scene'[p].alive = r.alive
  BY FireEffect
<1>2. TypeOK'
  BY <1>0, <1>1 DEF TypeOK, Scenes
<1>3. \A s : Callees(s)' = Callees(s)
  BY <1>0, <1>1, SameCallees
<1>9. VmOKOf(p) /\ StateOKOf(p) /\ r.pending \in Nat /\ p \in Nat \ {0}
  BY RecordFacts DEF VmOK, StateOK, Scenes
<1>8. r.frames # {}
  BY <1>1, <1>9 DEF VmOKOf, AwaitsNothing
<1>4. VmOK'
  <2> SUFFICES ASSUME NEW s \in Scenes PROVE VmOKOf(s)'
    BY <1>0 DEF VmOK
  <2>1. CASE s # p
    <3>1. s # 0 /\ (slice' = s <=> slice = s)
      BY <1>1, <2>1, RecordFacts DEF Scenes
    <3> QED
      BY <1>0, <1>1, <1>3, <2>1, <3>1, SameVm DEF VmOK
  <2>2. CASE s = p
    <3>1. CASE wakes
      BY <1>0, <1>1, <1>3, <1>8, <1>9, <2>2, <3>1 DEF VmOKOf, AwaitsNothing, AwaitsOne
    <3>2. CASE ~wakes
      BY <1>0, <1>1, <1>3, <1>8, <1>9, <2>2, <3>2 DEF VmOKOf, AwaitsNothing, AwaitsOne
    <3> QED
      BY <3>1, <3>2
  <2> QED
    BY <2>1, <2>2
<1>5. StateOK'
  <2> SUFFICES ASSUME NEW s \in Scenes PROVE StateOKOf(s)'
    BY <1>0 DEF StateOK
  <2>1. StateOKOf(s)
    BY DEF StateOK
  <2> QED
    BY <1>0, <1>1, <1>8, <1>9, <2>1 DEF StateOKOf, VmIdle
<1>6. FrameOK'
  BY <1>0, <1>1 DEF FrameOK, TypeOK, Scenes
<1>7. InputOK'
  BY <1>0, <1>1, SameInput DEF TypeOK
<1> QED
  BY <1>2, <1>4, <1>5, <1>6, <1>7

(* cutscene, called by a thread, or by the scene whose VM runs: it then    *)
(* waits for the new scene, and for nothing else unless it is an override. *)
LEMMA NewSceneStep ==
  ASSUME SceneInv, NEW caller \in Threads \cup Scenes, NEW hasOverride \in BOOLEAN,
         NewScene(caller, hasOverride),
         \/ caller \in Threads /\ slice' = slice
            /\ waits' \in [Threads -> {"free", "asleep", "gone"}]
         \/ slice # 0 /\ caller = slice /\ slice' = 0 /\ waits' = waits
  PROVE  SceneInv'
<1> USE DEF SceneInv
<1>n. PICK n : n = nScenes + 1
  OBVIOUS
<1>1. /\ nScenes' = n /\ nScenes \in Nat /\ nScenes' \in 0..MaxScenes
      /\ pCutscene' = n
      /\ phase' = phase /\ ending' = ending
      /\ scene' \in [1..n -> SceneRecord]
      /\ scene'[n] = Created(caller, hasOverride)
      /\ \A s \in Scenes : scene'[s] = Sleeps(s, caller)
      /\ InCutscene'
      /\ input' \in InputState /\ before' = before
  BY <1>n, NewSceneEffect
<1>2. /\ Scenes' = Scenes \cup {n} /\ n \notin Scenes /\ n \in Nat /\ n # 0
      /\ Scenes = 1..nScenes
  BY <1>1, <1>n DEF Scenes
<1>3. /\ scene'[n].state = 0 /\ scene'[n].caller = caller /\ scene'[n].frames = {}
      /\ scene'[n].suspended = FALSE /\ scene'[n].pending = 0
      /\ scene'[n].alive /\ scene'[n].saved = input
  BY <1>1 DEF Created
<1>4. ASSUME NEW s \in Scenes
      PROVE  /\ scene'[s].suspended <=> s = caller \/ scene[s].suspended
             /\ scene'[s].state = scene[s].state /\ scene'[s].caller = scene[s].caller
             /\ scene'[s].saved = scene[s].saved /\ scene'[s].frames = scene[s].frames
             /\ scene'[s].pending = scene[s].pending
             /\ scene'[s].stopped = scene[s].stopped /\ scene'[s].alive = scene[s].alive
             /\ scene[s].suspended \in BOOLEAN
  BY <1>1, SleepsRecord, RecordFacts
(* Whom the new scene will wake.                                           *)
<1>5. ASSUME NEW s \in Scenes
      PROVE  Callees(s)' = Callees(s) \cup {c \in {n} : s = caller}
  <2>1. ending' = ending /\ phase' = phase
    BY <1>1
  <2> QED
    BY <1>2, <1>3, <1>4, <2>1 DEF Callees
<1>6. Callees(n)' = {}
  <2>1. caller # n
    BY <1>2, CutsceneAssumption
  <2>2. ASSUME NEW c \in Scenes PROVE scene[c].caller # n
    <3>1. scene[c].caller \in Threads \cup 1..(c - 1) /\ c \in 1..nScenes
      BY <1>2 DEF StateOK, StateOKOf
    <3>2. n \notin Threads
      BY <1>2, CutsceneAssumption
    <3> QED
      BY <1>1, <1>n, <3>1, <3>2
  <2> QED
    BY <1>2, <1>3, <1>4, <2>1, <2>2 DEF Callees
<1>7. slice \in 0..nScenes
  BY DEF TypeOK
<1>8. \/ caller \in Threads /\ slice' = slice /\ \A s \in Scenes : s # caller
      \/ caller = slice /\ slice # 0 /\ slice \in Scenes /\ slice' = 0
  BY <1>2, <1>7, CutsceneAssumption
<1>9. TypeOK'
  <2>1. slice' \in 0..n /\ ending' \in 0..n /\ pCutscene' \in 0..n
    BY <1>1, <1>2, <1>7, <1>8 DEF TypeOK
  <2>2. waits' \in [Threads -> {"free", "asleep", "gone"}]
    BY DEF TypeOK
  <2> QED
    BY <1>1, <2>1, <2>2 DEF TypeOK, Scenes
<1>10. VmOK'
  <2>1. VmOKOf(n)'
    <3>1. slice' # n
      BY <1>2, <1>7, <1>8
    <3> QED
      BY <1>3, <1>6, <3>1 DEF VmOKOf, AwaitsNothing
  <2>2. ASSUME NEW s \in Scenes PROVE VmOKOf(s)'
    <3>0. VmOKOf(s) /\ s # 0 /\ s \in Scenes'
      BY <1>2 DEF VmOK
    <3>1. CASE s # caller
      <4>1. Callees(s)' = Callees(s)
        BY <1>5, <3>1
      <4>2. slice' = s <=> slice = s
        BY <1>8, <3>0, <3>1
      <4> QED
        BY <1>2, <1>4, <3>0, <3>1, <4>1, <4>2, SameVm
    <3>2. CASE s = caller
      <4>1. Callees(s)' = Callees(s) \cup {n} /\ n \in Scenes'
        BY <1>2, <1>5, <3>2
      <4>2. slice = s /\ slice' = 0 /\ scene[s].alive /\ scene[s].frames # {}
        BY <1>8, <3>0, <3>2, SliceHasFrames
      <4>3. CASE scene[s].frames = Both
        BY <1>4, <3>0, <3>2, <4>1, <4>2, <4>3 DEF VmOKOf, AwaitsNothing, Both
      <4>4. CASE scene[s].frames # Both
        BY <1>4, <3>0, <3>2, <4>1, <4>2, <4>4 DEF VmOKOf, AwaitsNothing, AwaitsOne
      <4> QED
        BY <4>3, <4>4
    <3> QED
      BY <3>1, <3>2
  <2> QED
    BY <1>2, <2>1, <2>2 DEF VmOK
<1>11. StateOK'
  <2>1. StateOKOf(n)'
    <3>1. caller \in Threads \cup 1..(n - 1)
      BY <1>1, <1>2, <1>n
    <3> QED
      BY <1>3, <3>1 DEF StateOKOf
  <2>2. ASSUME NEW s \in Scenes PROVE StateOKOf(s)'
    <3>1. StateOKOf(s)
      BY DEF StateOK
    <3>2. scene[s].frames = {} => s # caller
      BY <1>8, SliceHasFrames
    <3> QED
      BY <1>4, <3>1, <3>2 DEF StateOKOf, VmIdle
  <2> QED
    BY <1>2, <2>1, <2>2 DEF StateOK
<1>12. FrameOK'
  <2>1. ending \in 0..nScenes
    BY DEF TypeOK
  <2> QED
    BY <1>1, <1>2, <1>3, <1>4, <1>7, <1>8, <2>1 DEF FrameOK, Scenes
<1>13. InputOK'
  <2> SUFFICES ASSUME ~Overlapped' PROVE input = before
    BY <1>1, <1>3 DEF InputOK
  <2>1. \A s \in Scenes : scene[s].state = 5
    BY <1>1, <1>2, <1>4 DEF Overlapped
  <2>2. ~InCutscene
    BY <1>2, <2>1 DEF InCutscene, TypeOK
  <2> QED
    BY <2>2 DEF InputOK
<1> QED
  BY <1>9, <1>10, <1>11, <1>12, <1>13

LEMMA StopThreadsStep ==
  ASSUME SceneInv, StopThreads
  PROVE  SceneInv'
<1> USE DEF SceneInv
<1>0. /\ nScenes' = nScenes /\ Scenes' = Scenes /\ phase = "post" /\ phase' = "top"
      /\ slice = 0
      /\ UNCHANGED <<slice, pCutscene, input, ending, before>>
  BY DEF StopThreads, Scenes
<1>1. /\ scene' \in [Scenes' -> SceneRecord]
      /\ waits' \in [Threads -> {"free", "asleep", "gone"}]
      /\ \A s \in Scenes :
           /\ scene'[s].alive <=> scene[s].alive /\ scene[s].state # 5
           /\ scene'[s].state = scene[s].state /\ scene'[s].caller = scene[s].caller
           /\ scene'[s].saved = scene[s].saved /\ scene'[s].frames = scene[s].frames
           /\ scene'[s].suspended = scene[s].suspended
           /\ scene'[s].pending = scene[s].pending
           /\ scene'[s].stopped = scene[s].stopped
  BY StopThreadsEffect
<1>2. TypeOK'
  BY <1>0, <1>1 DEF TypeOK
<1>3. \A s : Callees(s)' = Callees(s)
  BY <1>0, <1>1, SameCallees
<1>4. VmOK'
  BY <1>0, <1>1, <1>3, SameVm DEF VmOK
<1>5. StateOK'
  BY <1>0, <1>1 DEF StateOK, StateOKOf, VmIdle
<1>6. FrameOK'
  BY <1>0, <1>1 DEF FrameOK, TypeOK, Scenes
<1>7. InputOK'
  BY <1>0, <1>1, SameInput DEF TypeOK
<1> QED
  BY <1>2, <1>4, <1>5, <1>6, <1>7

(* The state of one scene changes, and with it neither what its VM waits   *)
(* for nor whom it wakes.                                                  *)
LEMMA OverrideStep ==
  ASSUME SceneInv, CutsceneOverride
  PROVE  SceneInv'
<1> USE DEF SceneInv
<1> DEFINE r == scene[pCutscene]
<1>0. /\ nScenes' = nScenes /\ Scenes' = Scenes /\ r.state = 1
      /\ pCutscene \in Scenes
      /\ UNCHANGED <<phase, pCutscene, slice, input, ending, waits, before>>
  BY DEF CutsceneOverride, Scenes, InCutscene, TypeOK
<1>1. /\ scene' \in [Scenes' -> SceneRecord]
      /\ \A s \in Scenes \ {pCutscene} : scene'[s] = scene[s]
      /\ scene'[pCutscene].state = 2 /\ scene'[pCutscene].frames = r.frames
      /\ scene'[pCutscene].suspended = r.suspended
      /\ scene'[pCutscene].pending = r.pending
      /\ scene'[pCutscene].caller = r.caller /\ scene'[pCutscene].saved = r.saved
      /\ scene'[pCutscene].stopped = r.stopped /\ scene'[pCutscene].alive = r.alive
  <2>1. 2 \in 0..5 /\ scene' = [scene EXCEPT ![pCutscene].state = 2]
    BY DEF CutsceneOverride
  <2> HIDE DEF SceneInv
  <2>2. TypeOK
    BY DEF SceneInv
  <2> QED
    BY <1>0, <2>1, <2>2, StateEffect
<1>2. TypeOK'
  BY <1>0, <1>1 DEF TypeOK
<1>3. \A s : Callees(s)' = Callees(s)
  BY <1>0, <1>1, SameCallees
<1>4. VmOK'
  BY <1>0, <1>1, <1>3, SameVm DEF VmOK
<1>5. StateOK'
  BY <1>0, <1>1 DEF StateOK, StateOKOf, VmIdle
<1>6. FrameOK'
  BY <1>0, <1>1 DEF FrameOK, TypeOK, Scenes
<1>7. InputOK'
  BY <1>0, <1>1, SameInput DEF TypeOK
<1> QED
  BY <1>2, <1>4, <1>5, <1>6, <1>7

LEMMA InputStep ==
  ASSUME SceneInv, ScriptInput
  PROVE  SceneInv'
<1> USE DEF SceneInv
<1>0. /\ UNCHANGED <<phase, nScenes, scene, pCutscene, slice, ending, waits>>
      /\ Remember
  BY DEF ScriptInput
<1>1. input' \in InputState
  BY InputSet, InputRecord DEF ScriptInput, TypeOK
<1>2. InCutscene' <=> InCutscene
  BY <1>0 DEF InCutscene
<1>3. TypeOK'
  BY <1>0, <1>1 DEF TypeOK, Scenes, Remember
<1>4. InputOK'
  BY <1>0, <1>2 DEF InputOK, Remember, Overlapped, Scenes
<1>5. VmOK' /\ StateOK' /\ FrameOK'
  BY <1>0 DEF VmOK, VmOKOf, StateOK, StateOKOf, FrameOK, VmIdle, AwaitsNothing,
              AwaitsOne, Callees, Scenes
<1> QED
  BY <1>3, <1>4, <1>5

LEMMA StopStep ==
  ASSUME SceneInv, NEW p \in Scenes, StopScene(p)
  PROVE  SceneInv'
<1> USE DEF SceneInv
<1> DEFINE r == scene[p]
<1>0. /\ nScenes' = nScenes /\ Scenes' = Scenes
      /\ UNCHANGED <<phase, pCutscene, slice, input, ending, waits, before>>
  BY DEF StopScene, Scenes
<1>1. /\ scene' \in [Scenes' -> SceneRecord]
      /\ \A s \in Scenes \ {p} : scene'[s] = scene[s]
      /\ scene'[p].stopped
      /\ scene'[p].state = r.state /\ scene'[p].frames = r.frames
      /\ scene'[p].suspended = r.suspended /\ scene'[p].pending = r.pending
      /\ scene'[p].caller = r.caller /\ scene'[p].saved = r.saved
      /\ scene'[p].alive = r.alive
  BY <1>0, StopEffect DEF StopScene
<1>2. TypeOK'
  BY <1>0, <1>1 DEF TypeOK
<1>3. \A s : Callees(s)' = Callees(s)
  BY <1>0, <1>1, SameCallees
<1>4. VmOK'
  BY <1>0, <1>1, <1>3, SameVm DEF VmOK
<1>5. StateOK'
  BY <1>0, <1>1 DEF StateOK, StateOKOf, VmIdle
<1>6. FrameOK'
  BY <1>0, <1>1 DEF FrameOK, TypeOK, Scenes
<1>7. InputOK'
  BY <1>0, <1>1, SameInput DEF TypeOK
<1> QED
  BY <1>2, <1>4, <1>5, <1>6, <1>7

(* The engine calls the main closure on an idle VM, the override on an     *)
(* idle one or on top of the main closure, asleep.                         *)
LEMMA RunClosureStep ==
  ASSUME SceneInv, StartCutscene \/ DoCutsceneOverride
  PROVE  SceneInv'
<1> USE DEF SceneInv
<1>p. PICK p : p = pCutscene
  OBVIOUS
<1> DEFINE r == scene[p]
<1>0. /\ nScenes' = nScenes /\ Scenes' = Scenes /\ phase = "top" /\ phase' = "fns"
      /\ p \in Scenes /\ p # 0
      /\ UNCHANGED <<pCutscene, input, ending, waits, before>>
  BY <1>p DEF StartCutscene, DoCutsceneOverride, RunClosure, Scenes, TypeOK
<1>1. PICK closure \in Both, state \in {1, 3} :
        /\ RunClosure(p, state, closure)
        /\ \/ r.state = 0 /\ state = 1 /\ closure = "main"
           \/ r.state = 2 /\ state = 3 /\ closure = "override"
  BY <1>p DEF StartCutscene, DoCutsceneOverride, Both
<1>2. /\ slice' = p
      /\ scene' \in [Scenes' -> SceneRecord]
      /\ \A s \in Scenes \ {p} : scene'[s] = scene[s]
      /\ scene'[p].state = state /\ scene'[p].frames = r.frames \cup {closure}
      /\ scene'[p].suspended = r.suspended /\ scene'[p].pending = r.pending
      /\ scene'[p].caller = r.caller /\ scene'[p].saved = r.saved
      /\ scene'[p].stopped = r.stopped /\ scene'[p].alive = r.alive
  BY <1>0, <1>1, RunClosureEffect
<1>3. slice = 0 /\ ending = 0
  BY <1>0 DEF FrameOK
<1>4. VmOKOf(p) /\ StateOKOf(p) /\ r.frames \in SUBSET Both
  BY <1>0, RecordFacts DEF VmOK, StateOK
<1>5. r.alive /\ scene'[p].alive /\ scene'[p].state \in {1, 3}
  BY <1>1, <1>2, <1>4 DEF StateOKOf
(* The closures that were on the stack, and those there are now.           *)
<1>6. \/ r.frames = {} /\ scene'[p].frames = {closure}
      \/ r.frames = {"main"} /\ closure = "override" /\ scene'[p].frames = Both
  BY <1>1, <1>2, <1>4 DEF StateOKOf, Both
<1>7. {closure} # Both /\ {closure} # {} /\ Both # {} /\ {"main"} # Both
  BY <1>1 DEF Both
<1>8. TypeOK'
  BY <1>0, <1>2 DEF TypeOK, Scenes
<1>9. \A s : Callees(s)' = Callees(s)
  BY <1>0, <1>1, <1>2, <1>5, SameCallees
<1>10. VmOK'
  <2> SUFFICES ASSUME NEW s \in Scenes PROVE VmOKOf(s)'
    BY <1>0 DEF VmOK
  <2>1. CASE s # p
    <3>1. s # 0 /\ (slice' = s <=> slice = s)
      BY <1>2, <1>3, <2>1, RecordFacts DEF Scenes
    <3> QED
      BY <1>0, <1>2, <1>9, <2>1, <3>1, SameVm DEF VmOK
  <2>2. CASE s = p
    <3>0. slice # p
      BY <1>0, <1>3
    <3>1. CASE r.frames = {} /\ scene'[p].frames = {closure}
      <4>1. ~r.suspended /\ AwaitsNothing(p)
        BY <1>4, <3>1 DEF VmOKOf
      <4>2. AwaitsNothing(p)'
        BY <1>0, <1>2, <1>9, <4>1 DEF AwaitsNothing
      <4> QED
        BY <1>2, <1>7, <2>2, <3>1, <4>1, <4>2 DEF VmOKOf
    <3>2. CASE r.frames = {"main"} /\ scene'[p].frames = Both /\ closure = "override"
      <4>1. r.suspended
        BY <1>1, <1>4, <3>0, <3>2 DEF VmOKOf
      <4>2. AwaitsOne(p)
        BY <1>4, <1>5, <1>7, <3>0, <3>2, <4>1 DEF VmOKOf
      <4>3. AwaitsOne(p)'
        BY <1>0, <1>2, <1>9, <4>2 DEF AwaitsOne
      <4> QED
        BY <1>2, <1>7, <2>2, <3>2, <4>1, <4>3 DEF VmOKOf
    <3> QED
      BY <1>6, <3>1, <3>2
  <2> QED
    BY <2>1, <2>2
<1>11. StateOK'
  <2> SUFFICES ASSUME NEW s \in Scenes PROVE StateOKOf(s)'
    BY <1>0 DEF StateOK
  <2>1. StateOKOf(s)
    BY DEF StateOK
  <2>2. CASE s # p
    BY <1>2, <2>1, <2>2 DEF StateOKOf, VmIdle
  <2>3. CASE s = p
    <3>1. scene'[p].state = 1 => "override" \notin scene'[p].frames
      BY <1>1, <1>2, <1>6
    <3> QED
      BY <1>2, <1>5, <2>1, <2>3, <3>1 DEF StateOKOf
  <2> QED
    BY <2>2, <2>3
<1>12. FrameOK'
  BY <1>0, <1>2, <1>3, <1>5, <1>p DEF FrameOK
<1>13. InputOK'
  BY <1>0, <1>1, <1>2, <1>5, SameInput DEF TypeOK
<1> QED
  BY <1>8, <1>10, <1>11, <1>12, <1>13

LEMMA CheckEndStep ==
  ASSUME SceneInv, CheckEndCutscene
  PROVE  SceneInv'
<1> USE DEF SceneInv
<1> DEFINE r == scene[pCutscene]
<1>0. /\ nScenes' = nScenes /\ Scenes' = Scenes /\ r.state \in {1, 3}
      /\ pCutscene \in Scenes /\ phase = "top" /\ phase' = "fns"
      /\ UNCHANGED <<pCutscene, slice, input, ending, waits, before>>
  BY DEF CheckEndCutscene, Scenes, TypeOK
<1>1. CASE ~Stopped(pCutscene)
  <2>1. scene' = scene
    BY <1>1 DEF CheckEndCutscene
  <2>2. \A s : Callees(s)' = Callees(s)
    BY <1>0, <2>1, SameCallees
  <2>3. TypeOK' /\ StateOK' /\ FrameOK' /\ InputOK'
    BY <1>0, <2>1 DEF TypeOK, StateOK, StateOKOf, VmIdle, FrameOK, InputOK, InCutscene, Overlapped
  <2>4. VmOK'
    BY <1>0, <2>1, <2>2, SameVm DEF VmOK
  <2> QED
    BY <2>3, <2>4
<1>2. CASE Stopped(pCutscene)
  <2>1. /\ scene' \in [Scenes' -> SceneRecord]
        /\ \A s \in Scenes \ {pCutscene} : scene'[s] = scene[s]
        /\ scene'[pCutscene].state = 4 /\ scene'[pCutscene].frames = r.frames
        /\ scene'[pCutscene].suspended = r.suspended
        /\ scene'[pCutscene].pending = r.pending
        /\ scene'[pCutscene].caller = r.caller /\ scene'[pCutscene].saved = r.saved
        /\ scene'[pCutscene].stopped = r.stopped /\ scene'[pCutscene].alive = r.alive
    <3>1. 4 \in 0..5 /\ scene' = [scene EXCEPT ![pCutscene].state = 4]
      BY <1>2 DEF CheckEndCutscene
    <3> HIDE DEF SceneInv
    <3>2. TypeOK
      BY DEF SceneInv
    <3> QED
      BY <1>0, <3>1, <3>2, StateEffect
  <2>2. TypeOK'
    BY <1>0, <2>1 DEF TypeOK
  <2>3. \A s : Callees(s)' = Callees(s)
    BY <1>0, <2>1, SameCallees
  <2>4. VmOK'
    BY <1>0, <2>1, <2>3, SameVm DEF VmOK
  <2>5. StateOK'
    <3> SUFFICES ASSUME NEW s \in Scenes PROVE StateOKOf(s)'
      BY <1>0 DEF StateOK
    <3>1. StateOKOf(s)
      BY DEF StateOK
    <3>2. CASE s # pCutscene
      BY <1>0, <2>1, <3>1, <3>2 DEF StateOKOf, VmIdle
    <3>3. CASE s = pCutscene
      <4>1. r.alive
        BY <1>0, <3>1, <3>3 DEF StateOKOf
      <4>2. scene'[s].alive
        BY <2>1, <3>3, <4>1
      <4>3. ~scene'[s].stopped => VmIdle(s)'
        BY <1>2, <2>1, <3>3 DEF VmIdle, Stopped
      <4> QED
        BY <1>0, <2>1, <3>1, <3>3, <4>2, <4>3 DEF StateOKOf
    <3> QED
      BY <3>2, <3>3
  <2>6. FrameOK'
    BY <1>0, <2>1 DEF FrameOK, TypeOK, Scenes
  <2>7. InputOK'
    BY <1>0, <2>1, SameInput DEF TypeOK
  <2> QED
    BY <2>2, <2>4, <2>5, <2>6, <2>7
<1> QED
  BY <1>1, <1>2

(* The input is given back, and the history variable follows it again.     *)
LEMMA EndStep ==
  ASSUME SceneInv, EndCutscene
  PROVE  SceneInv'
<1> USE DEF SceneInv
<1> DEFINE r == scene[pCutscene]
<1>0. /\ nScenes' = nScenes /\ Scenes' = Scenes /\ r.state = 4
      /\ pCutscene \in Scenes /\ pCutscene # 0
      /\ phase = "top" /\ phase' = "ended" /\ ending' = pCutscene
      /\ input' = r.saved
      /\ UNCHANGED <<pCutscene, slice, waits>>
  BY DEF EndCutscene, Scenes, TypeOK
<1>1. /\ scene' \in [Scenes' -> SceneRecord]
      /\ \A s \in Scenes \ {pCutscene} : scene'[s] = scene[s]
      /\ scene'[pCutscene].state = 5 /\ scene'[pCutscene].frames = r.frames
      /\ scene'[pCutscene].suspended = r.suspended
      /\ scene'[pCutscene].pending = r.pending
      /\ scene'[pCutscene].caller = r.caller /\ scene'[pCutscene].saved = r.saved
      /\ scene'[pCutscene].stopped = r.stopped /\ scene'[pCutscene].alive = r.alive
  <2>1. 5 \in 0..5 /\ scene' = [scene EXCEPT ![pCutscene].state = 5]
    BY DEF EndCutscene
  <2> HIDE DEF SceneInv
  <2>2. TypeOK
    BY DEF SceneInv
  <2> QED
    BY <1>0, <2>1, <2>2, StateEffect
<1>2. slice = 0 /\ ending = 0
  BY <1>0 DEF FrameOK
<1>3. ~InCutscene' /\ before' = input'
  BY <1>0, <1>1 DEF EndCutscene, Remember, InCutscene
<1>4. input' \in InputState
  BY <1>0 DEF TypeOK, SceneRecord
<1>5. TypeOK'
  BY <1>0, <1>1, <1>3, <1>4 DEF TypeOK, Scenes
(* The scene wakes its caller, now that it ends as it would have before.   *)
<1>6. \A s : Callees(s)' = Callees(s)
  BY <1>0, <1>1 DEF Callees, Scenes
<1>7. VmOK'
  BY <1>0, <1>1, <1>6, SameVm DEF VmOK
<1>8. StateOK'
  <2> SUFFICES ASSUME NEW s \in Scenes PROVE StateOKOf(s)'
    BY <1>0 DEF StateOK
  <2>1. StateOKOf(s)
    BY DEF StateOK
  <2> QED
    BY <1>0, <1>1, <2>1 DEF StateOKOf, VmIdle
<1>9. FrameOK'
  <2>1. scene'[pCutscene].alive
    BY <1>0, <1>1 DEF StateOK, StateOKOf
  <2> QED
    BY <1>0, <1>1, <1>2, <2>1 DEF FrameOK
<1>10. InputOK'
  BY <1>3 DEF InputOK
<1> QED
  BY <1>5, <1>7, <1>8, <1>9, <1>10

(* A caller that sleeps with one closure on its stack waited for this      *)
(* scene alone, and waits for nothing once it runs.                        *)
LEMMA ResumeStep ==
  ASSUME SceneInv, ResumeCaller
  PROVE  SceneInv'
<1> USE DEF SceneInv
<1>e. PICK e : e = ending
  OBVIOUS
<1>c. PICK c : c = scene[e].caller
  OBVIOUS
<1>0. /\ nScenes' = nScenes /\ Scenes' = Scenes
      /\ UNCHANGED <<pCutscene, input, ending, before>>
      /\ phase = "ended" /\ phase' = "resumed"
  BY DEF ResumeCaller, Scenes
<1>1. e # 0 /\ e \in Scenes /\ scene[e].state = 5 /\ slice = 0
  BY <1>0, <1>e DEF FrameOK, TypeOK, Scenes
<1>2. c # e
  <2>1. c \in Threads \cup 1..(e - 1) /\ e \in Nat
    BY <1>1, <1>c, RecordFacts DEF StateOK, StateOKOf
  <2> QED
    BY <2>1, CutsceneAssumption
<1> DEFINE wakes == c \in Scenes /\ scene[c].alive /\ scene[c].suspended
<1>3. /\ slice' = IF wakes THEN c ELSE 0
      /\ waits' \in [Threads -> {"free", "asleep", "gone"}]
      /\ scene' \in [Scenes' -> SceneRecord]
      /\ \A s \in Scenes :
           /\ scene'[s].stopped <=> scene[s].stopped \/ s = e
           /\ scene'[s].suspended <=> scene[s].suspended /\ ~(s = c /\ scene[s].alive)
           /\ scene'[s].pending = scene[s].pending
           /\ scene'[s].state = scene[s].state /\ scene'[s].frames = scene[s].frames
           /\ scene'[s].caller = scene[s].caller /\ scene'[s].saved = scene[s].saved
           /\ scene'[s].alive = scene[s].alive
  BY <1>e, <1>c, <1>1, <1>2, ResumeEffect
<1>4. TypeOK'
  BY <1>0, <1>3 DEF TypeOK, Scenes
<1>5. ASSUME NEW s
      PROVE  /\ Callees(s)' = Callees(s) \ {e}
             /\ e \in Callees(s) <=> s = c
  BY <1>0, <1>1, <1>3, <1>c, <1>e DEF Callees
<1>6. VmOK'
  <2> SUFFICES ASSUME NEW s \in Scenes PROVE VmOKOf(s)'
    BY <1>0 DEF VmOK
  <2>0. VmOKOf(s) /\ s # 0 /\ slice # s
    BY <1>1, RecordFacts DEF VmOK, Scenes
  <2>1. CASE s # c
    <3>1. Callees(s)' = Callees(s) /\ slice' # s
      <4>1. Callees(s)' = Callees(s) \ {e} /\ e \notin Callees(s)
        BY <1>5, <2>1
      <4>2. slice' \in {c, 0}
        BY <1>3
      <4> QED
        BY <2>0, <2>1, <4>1, <4>2
    <3> QED
      BY <1>0, <1>3, <2>0, <2>1, <3>1, SameVm
  <2>2. CASE s = c
    <3>1. Callees(s)' = Callees(s) \ {e} /\ e \in Callees(s)
      BY <1>5, <2>2
    <3>2. scene[s].frames # {}
      BY <2>0, <3>1 DEF VmOKOf, AwaitsNothing
    <3>3. CASE wakes
      <4>1. ~scene'[s].suspended /\ slice' = s /\ scene'[s].frames = scene[s].frames
        BY <1>3, <2>2, <3>3
      <4>2. scene[s].frames # Both => AwaitsOne(s)
        BY <2>0, <2>2, <3>3 DEF VmOKOf
      <4>3. scene[s].frames # Both => AwaitsNothing(s)'
        BY <1>3, <3>1, <4>2 DEF AwaitsOne, AwaitsNothing
      <4> QED
        BY <3>2, <4>1, <4>3 DEF VmOKOf
    <3>4. CASE ~wakes
      <4>1. /\ slice' # s /\ scene'[s].suspended <=> scene[s].suspended
            /\ ~(scene[s].alive /\ scene[s].suspended)
        BY <1>3, <2>0, <2>2, <3>4
      <4> QED
        BY <1>3, <2>0, <3>2, <4>1 DEF VmOKOf
    <3> QED
      BY <3>3, <3>4
  <2> QED
    BY <2>1, <2>2
<1>7. StateOK'
  BY <1>0, <1>3 DEF StateOK, StateOKOf, VmIdle
<1>8. FrameOK'
  <2>1. pCutscene \in 0..nScenes
    BY DEF TypeOK
  <2> QED
    BY <1>0, <1>1, <1>3, <1>e, <2>1 DEF FrameOK, Scenes
<1>9. InputOK'
  BY <1>0, <1>3, SameInput DEF TypeOK
<1> QED
  BY <1>4, <1>6, <1>7, <1>8, <1>9

(* Nothing but the phase and, once the scene is over, what the engine      *)
(* points at.                                                              *)
LEMMA PhaseStep ==
  ASSUME SceneInv, NoCutscene \/ EndFunctions \/ ForgetCutscene
  PROVE  SceneInv'
<1> USE DEF SceneInv
<1>0. /\ nScenes' = nScenes /\ Scenes' = Scenes /\ scene' = scene
      /\ UNCHANGED <<slice, input, waits, before>>
      /\ slice = 0
      /\ phase \in {"top", "fns", "resumed"} /\ phase' \in {"fns", "post"}
  BY DEF NoCutscene, EndFunctions, ForgetCutscene, Scenes, FrameOK
<1>1. \/ ending' = ending /\ pCutscene' = pCutscene /\ phase # "resumed"
      \/ /\ phase = "resumed" /\ ending' = 0
         /\ pCutscene' = IF scene[pCutscene].state = 5 THEN 0 ELSE pCutscene
  BY DEF NoCutscene, EndFunctions, ForgetCutscene
<1>2. TypeOK'
  BY <1>0, <1>1 DEF TypeOK
<1>3. \A s : Callees(s)' = Callees(s)
  BY <1>0, SameCallees
<1>4. VmOK'
  BY <1>0, <1>3, SameVm DEF VmOK
<1>5. StateOK'
  BY <1>0 DEF StateOK, StateOKOf, VmIdle
<1>6. FrameOK'
  BY <1>0, <1>1 DEF FrameOK
<1>7. InputOK'
  BY <1>0, <1>1 DEF InputOK, InCutscene, Overlapped
<1> QED
  BY <1>2, <1>4, <1>5, <1>6, <1>7

LEMMA StutterStep ==
  ASSUME SceneInv, UNCHANGED vars
  PROVE  SceneInv'
<1> USE DEF SceneInv, vars
<1>1. TypeOK' /\ FrameOK'
  BY DEF TypeOK, Scenes, FrameOK
<1>2. VmOK' /\ StateOK'
  BY DEF VmOK, VmOKOf, AwaitsNothing, AwaitsOne, Callees, StateOK, StateOKOf, VmIdle, Scenes
<1>3. InputOK'
  BY DEF InputOK, InCutscene, Overlapped, Scenes
<1> QED
  BY <1>1, <1>2, <1>3

LEMMA CallStep ==
  ASSUME SceneInv, NEW hasOverride \in BOOLEAN,
         (\E t \in Threads : CallCutscene(t, hasOverride)) \/ SceneCallsCutscene(hasOverride)
  PROVE  SceneInv'
<1>1. ASSUME NEW t \in Threads, CallCutscene(t, hasOverride)
      PROVE  SceneInv'
  <2>1. waits' \in [Threads -> {"free", "asleep", "gone"}]
    BY <1>1 DEF CallCutscene, SceneInv, TypeOK
  <2> QED
    BY <1>1, <2>1, NewSceneStep DEF CallCutscene
<1>2. CASE SceneCallsCutscene(hasOverride)
  <2>1. slice \in Scenes
    BY <1>2, SliceHasFrames DEF SceneCallsCutscene
  <2> QED
    BY <1>2, <2>1, NewSceneStep DEF SceneCallsCutscene
<1> QED
  BY <1>1, <1>2

LEMMA InitSceneInv == Init => SceneInv
<1> SUFFICES ASSUME Init PROVE SceneInv
  OBVIOUS
<1>1. nScenes = 0 /\ Scenes = {} /\ pCutscene = 0 /\ slice = 0 /\ ending = 0 /\ phase = "top"
  BY DEF Init, Scenes
<1>2. TypeOK
  BY <1>1, CutsceneAssumption DEF Init, TypeOK, Scenes
<1> QED
  BY <1>1, <1>2 DEF SceneInv, VmOK, StateOK, FrameOK, InputOK, InCutscene, Init

LEMMA NextSceneInv == SceneInv /\ [Next]_vars => SceneInv'
<1> SUFFICES ASSUME SceneInv, [Next]_vars PROVE SceneInv'
  OBVIOUS
<1>1. CASE Script
  BY <1>1, CallStep, OverrideStep, InputStep, StopStep DEF Script
<1>2. CASE SliceEnds
  BY <1>2, BreaksStep, ReturnsStep DEF SliceEnds
<1>3. CASE StopThreads
  BY <1>3, StopThreadsStep
<1>4. CASE UpdateCutscene
  BY <1>4, PhaseStep, RunClosureStep, CheckEndStep, EndStep, ResumeStep DEF UpdateCutscene
<1>5. CASE EndFunctions
  BY <1>5, PhaseStep
<1>6. CASE \E s \in Scenes : FireBreak(s)
  BY <1>6, FireStep
<1>7. CASE UNCHANGED vars
  BY <1>7, StutterStep
<1> QED
  BY <1>1, <1>2, <1>3, <1>4, <1>5, <1>6, <1>7 DEF Next

LEMMA AlwaysSceneInv == Spec => []SceneInv
BY InitSceneInv, NextSceneInv, PTL DEF Spec

-----------------------------------------------------------------------------
(* What follows from it                                                    *)

LEMMA SceneHasWakerHolds == SceneInv => SceneHasWaker
<1> SUFFICES ASSUME SceneInv, NEW s \in Scenes
             PROVE  /\ scene[s].alive /\ scene[s].suspended =>
                         \/ scene[s].pending > 0
                         \/ \E c \in Scenes : scene[c].caller = s /\ scene[c].state # 5
                         \/ ending # 0 /\ scene[ending].caller = s
                    /\ VmIdle(s) => scene[s].pending = 0
                    /\ scene[s].state \in {4, 5} /\ ~scene[s].stopped => VmIdle(s)
  BY DEF SceneHasWaker
<1>1. VmOKOf(s) /\ StateOKOf(s) /\ scene[s].pending \in Nat
  BY RecordFacts DEF SceneInv, VmOK, StateOK
<1>2. VmIdle(s) => scene[s].pending = 0
  BY <1>1 DEF VmOKOf, VmIdle, AwaitsNothing
<1>3. scene[s].state \in {4, 5} /\ ~scene[s].stopped => VmIdle(s)
  BY <1>1 DEF StateOKOf
<1>4. ASSUME scene[s].alive, scene[s].suspended
      PROVE  scene[s].pending > 0 \/ \E c \in Scenes : c \in Callees(s)
  BY <1>1, <1>4 DEF VmOKOf, AwaitsNothing, AwaitsOne, Callees
<1>5. ASSUME NEW c \in Scenes, c \in Callees(s)
      PROVE  \/ \E d \in Scenes : scene[d].caller = s /\ scene[d].state # 5
             \/ ending # 0 /\ scene[ending].caller = s
  <2>1. phase = "ended" => ending # 0
    BY DEF SceneInv, FrameOK
  <2> QED
    BY <1>5, <2>1 DEF Callees
<1> QED
  BY <1>2, <1>3, <1>4, <1>5

(* Every reachable state is of the types the code's fields have.           *)
THEOREM CutsceneTypeOK == Spec => []TypeOK
BY AlwaysSceneInv, PTL DEF SceneInv

(* Engine::_pCutscene, a raw pointer into _threads, never outlives what it *)
(* points at, however the calls of cutscene overlap: the scene it shows is *)
(* never the one stopThreads erases.                                       *)
THEOREM CutscenePointer == Spec => []PCutsceneIsAlive
<1>1. SceneInv => PCutsceneIsAlive
  <2> SUFFICES ASSUME SceneInv, pCutscene # 0
               PROVE  /\ scene[pCutscene].alive
                      /\ scene[pCutscene].state = 5 => pCutscene = ending
    BY DEF PCutsceneIsAlive
  <2>1. pCutscene \in Scenes
    BY DEF SceneInv, TypeOK, Scenes
  <2> QED
    BY <2>1 DEF SceneInv, FrameOK, StateOK, StateOKOf
<1> QED
  BY <1>1, AlwaysSceneInv, PTL

(* breakXXX, Engine::cutscene and endCutscene: a VM that is suspended has  *)
(* one thing that will resume it, however its closures, its override and   *)
(* the scenes it calls follow each other; an idle one has no break         *)
(* function left that would start it again.                                *)
THEOREM CutsceneWaker == Spec => []SceneHasWaker
BY AlwaysSceneInv, SceneHasWakerHolds, PTL

(* Only endCutscene leaves the last scene on, and it restores what the     *)
(* constructor of that scene saved, before any other scene was on.         *)
LEMMA InputGivenBack ==
  ASSUME SceneInv, [Next]_vars, InCutscene, ~InCutscene', ~Overlapped
  PROVE  input' = before
<1>1. scene[pCutscene].saved = before
  BY DEF SceneInv, InputOK
<1>2. pCutscene \in Scenes /\ pCutscene # 0 /\ scene[pCutscene].state # 5
  BY DEF SceneInv, TypeOK, Scenes, InCutscene
<1>3. CASE EndCutscene
  BY <1>1, <1>3 DEF EndCutscene
<1>4. ASSUME pCutscene' = pCutscene, scene'[pCutscene].state # 5
      PROVE  FALSE
  BY <1>2, <1>4 DEF InCutscene
<1>5. CASE Script
  <2>1. ASSUME NEW caller \in Threads \cup Scenes, NEW hasOverride \in BOOLEAN,
               NewScene(caller, hasOverride)
        PROVE  FALSE
    BY <2>1, NewSceneEffect DEF SceneInv
  <2>2. ASSUME NEW hasOverride \in BOOLEAN, SceneCallsCutscene(hasOverride)
        PROVE  FALSE
    BY <2>1, <2>2, SliceHasFrames DEF SceneCallsCutscene
  <2>3. ASSUME NEW hasOverride \in BOOLEAN, NEW t \in Threads, CallCutscene(t, hasOverride)
        PROVE  FALSE
    BY <2>1, <2>3 DEF CallCutscene
  <2>4. CASE CutsceneOverride
    <3>1. scene'[pCutscene].state = 2
      <4>1. 2 \in 0..5 /\ scene' = [scene EXCEPT ![pCutscene].state = 2] /\ nScenes' = nScenes
        BY <2>4 DEF CutsceneOverride
      <4> QED
        BY <1>2, <4>1, StateEffect DEF SceneInv
    <3> QED
      BY <1>4, <2>4, <3>1 DEF CutsceneOverride
  <2>5. CASE ScriptInput
    BY <1>2, <1>4, <2>5 DEF ScriptInput
  <2>6. ASSUME NEW s \in Scenes, StopScene(s)
        PROVE  FALSE
    <3>1. scene'[pCutscene].state = scene[pCutscene].state
      BY <1>2, <2>6, StopEffect DEF StopScene, SceneInv
    <3> QED
      BY <1>2, <1>4, <2>6, <3>1 DEF StopScene
  <2> QED
    BY <1>5, <2>2, <2>3, <2>4, <2>5, <2>6 DEF Script
<1>6. CASE SliceEnds
  <2>1. scene'[pCutscene].state = scene[pCutscene].state
    BY <1>2, <1>6, BreaksEffect, ReturnsEffect DEF SliceEnds, SceneInv
  <2> QED
    BY <1>2, <1>4, <1>6, <2>1 DEF SliceEnds, SceneBreaks, SceneReturns
<1>7. CASE StopThreads
  BY <1>2, <1>4, <1>7, StopThreadsEffect DEF StopThreads, SceneInv
<1>8. CASE UpdateCutscene
  <2>1. CASE NoCutscene
    BY <1>2, <1>4, <2>1 DEF NoCutscene
  <2>2. ASSUME NEW state \in {1, 3}, NEW closure \in Both,
               RunClosure(pCutscene, state, closure)
        PROVE  FALSE
    <3>1. pCutscene' = pCutscene
      BY <2>2 DEF RunClosure
    <3>2. TypeOK /\ state \in 0..5
      BY DEF SceneInv
    <3>3. scene'[pCutscene].state = state
      BY <1>2, <2>2, <3>2, RunClosureEffect
    <3> QED
      BY <1>4, <3>1, <3>3
  <2>3. CASE StartCutscene \/ DoCutsceneOverride
    BY <2>2, <2>3 DEF StartCutscene, DoCutsceneOverride, Both
  <2>4. CASE CheckEndCutscene
    <3>1. CASE Stopped(pCutscene)
      <4>1. /\ 4 \in 0..5 /\ scene' = [scene EXCEPT ![pCutscene].state = 4]
            /\ nScenes' = nScenes
        BY <2>4, <3>1 DEF CheckEndCutscene
      <4>2. scene'[pCutscene].state = 4
        BY <1>2, <4>1, StateEffect DEF SceneInv
      <4> QED
        BY <1>4, <2>4, <4>2 DEF CheckEndCutscene
    <3>2. CASE ~Stopped(pCutscene)
      BY <1>2, <1>4, <2>4, <3>2 DEF CheckEndCutscene
    <3> QED
      BY <3>1, <3>2
  <2>5. CASE ResumeCaller
    <3>1. ending # 0 /\ ending \in Scenes /\ scene[ending].caller # ending
      <4>1. ending # 0 /\ ending \in Scenes
        BY <2>5 DEF ResumeCaller, SceneInv, FrameOK, TypeOK, Scenes
      <4>2. scene[ending].caller \in Threads \cup 1..(ending - 1) /\ ending \in Nat
        BY <4>1, RecordFacts DEF SceneInv, StateOK, StateOKOf
      <4> QED
        BY <4>1, <4>2, CutsceneAssumption
    <3>2. scene'[pCutscene].state = scene[pCutscene].state
      BY <1>2, <2>5, <3>1, ResumeEffect DEF SceneInv
    <3> QED
      BY <1>2, <1>4, <2>5, <3>2 DEF ResumeCaller
  <2>6. CASE ForgetCutscene
    BY <1>2, <1>4, <2>6 DEF ForgetCutscene
  <2> QED
    BY <1>3, <1>8, <2>1, <2>3, <2>4, <2>5, <2>6 DEF UpdateCutscene
<1>9. CASE EndFunctions
  BY <1>2, <1>4, <1>9 DEF EndFunctions
<1>10. CASE \E s \in Scenes : FireBreak(s)
  <2>1. scene'[pCutscene].state = scene[pCutscene].state
    BY <1>2, <1>10, FireEffect DEF SceneInv
  <2> QED
    BY <1>2, <1>4, <1>10, <2>1 DEF FireBreak
<1>11. CASE UNCHANGED vars
  BY <1>2, <1>4, <1>11 DEF vars
<1> QED
  BY <1>3, <1>5, <1>6, <1>7, <1>8, <1>9, <1>10, <1>11 DEF Next

(* Cutscene's constructor and endCutscene: whatever inputOn, inputOff and  *)
(* inputVerbs said in between, the input after the last scene is what it   *)
(* was before the first, when none has taken the place of another.         *)
THEOREM CutsceneGivesInputBack == Spec => InputIsGivenBack
<1>1. SceneInv /\ [Next]_vars
      => [InCutscene /\ ~InCutscene' /\ ~Overlapped => input' = before]_vars
  BY InputGivenBack
<1> QED
  BY <1>1, AlwaysSceneInv, PTL DEF Spec, InputIsGivenBack

=============================================================================
