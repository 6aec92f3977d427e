------------------------------- MODULE Sounds -------------------------------
(***************************************************************************)
(* The sounds: SoundManager keeps the ones being played in an array of     *)
(* slots. A new sound takes the first slot that is empty or whose sound is *)
(* not playing. Once a frame, update starts the next loop of a sound that  *)
(* has ended, or removes it. The audio thread ends a sound at any moment.  *)
(*                                                                         *)
(* Pausing the game pauses every sound and resuming it plays every sound,  *)
(* whatever its state; the menus leave the sounds alone. A paused engine   *)
(* does not update the sounds, but its keys run scripts that may play some.*)
(***************************************************************************)
EXTENDS Integers

CONSTANTS
  MaxSlots,    (* size of _soundIds: 32                                    *)
  MaxSounds,   (* bound on the sounds ever played                          *)
  Loops,       (* the loop times scripts ask for, -1 for an endless loop   *)
  MaxPauses    (* bound on the presses of the pause key, those that resume *)
               (* a paused game not counted                                *)

ASSUME SoundsAssumption ==
  /\ MaxSlots \in Nat \ {0}
  /\ MaxSounds \in Nat
  /\ Loops \subseteq {-1} \cup (Nat \ {0})
  /\ MaxPauses \in Nat

VARIABLES
  engine,      (* Engine::Impl::_state                                     *)
  slot,        (* _soundIds: the sound in each slot, 0 for none            *)
  nSounds,     (* sounds created so far: their identifiers are 1..nSounds  *)
  sound,       (* each sound                                               *)
  nPauses,     (* presses of the pause key so far, as counted for the bound*)
  menuInPause  (* history: a menu has been opened over a paused game       *)

soundVars == <<engine, slot, nSounds, sound, nPauses, menuInPause>>

Slots == 1..MaxSlots
Sids == 1..nSounds

SoundRecord ==
  [asked  : Int,                               (* loop times asked for     *)
   loops  : Int,                               (* _loopTimes               *)
   status : {"Playing", "Paused", "Stopped"},  (* sf::Sound::getStatus     *)
   fate   : {"held", "over", "stopped", "evicted", "refused"},
   plays  : Nat,        (* history: how often it has been started          *)
   again  : Nat]        (* history: how often by resume, from its beginning*)

Held == {slot[i] : i \in Slots} \ {0}

(* Mutant: a paused endless sound does not count as playing.               *)
IsPlayingByStatus(s) == sound[s].status = "Playing"

(* SoundId::isPlaying: an endless loop counts, paused or not.              *)
IsPlaying(s) == sound[s].asked = -1 \/ sound[s].status = "Playing"

Free == {i \in Slots : slot[i] = 0 \/ ~IsPlaying(slot[i])}

SoundsInit ==
  /\ engine = "Game"
  /\ slot = [i \in Slots |-> 0]
  /\ nSounds = 0
  /\ sound = [s \in 1..0 |-> {}]
  /\ nPauses = 0
  /\ menuInPause = FALSE

-----------------------------------------------------------------------------
(* What scripts do                                                         *)

NewSound(loops, fate) ==
  [asked |-> loops, loops |-> loops, fate |-> fate, again |-> 0,
   status |-> IF fate = "held" THEN "Playing" ELSE "Stopped",
   plays |-> IF fate = "held" THEN 1 ELSE 0]

(* SoundManager::play: the sound that was in the slot is destroyed. When   *)
(* every sound is playing the new one is given up.                         *)
Play(loops) ==
  /\ nSounds < MaxSounds
  /\ nSounds' = nSounds + 1
  /\ IF Free = {}
     THEN /\ UNCHANGED slot
          /\ sound' = [s \in 1..nSounds' |-> IF s = nSounds' THEN NewSound(loops, "refused")
                                                             ELSE sound[s]]
     ELSE LET i == CHOOSE j \in Free : \A k \in Free : j <= k
          IN  /\ slot' = [slot EXCEPT ![i] = nSounds']
              /\ sound' = [s \in 1..nSounds' |->
                   CASE s = nSounds' -> NewSound(loops, "held")
                     [] s = slot[i]  -> [sound[s] EXCEPT !.status = "Stopped",
                                                         !.fate = "evicted"]
                     [] OTHER        -> sound[s]]
  /\ UNCHANGED <<engine, nPauses, menuInPause>>

(* The sounds of S are destroyed.                                          *)
Destroy(S, fate) ==
  /\ slot' = [i \in Slots |-> IF slot[i] \in S THEN 0 ELSE slot[i]]
  /\ sound' = [s \in Sids |-> IF s \in S THEN [sound[s] EXCEPT !.status = "Stopped",
                                                               !.fate = fate]
                                         ELSE sound[s]]

(* stopSound(sound) and stopAllSounds. stopSound(definition) finds nothing:*)
(* it looks for a sound with the identifier of the definition.             *)
StopSound(s) ==
  /\ s \in Held
  /\ Destroy({s}, "stopped")
  /\ UNCHANGED <<engine, nSounds, nPauses, menuInPause>>

StopAllSounds ==
  /\ Held # {}
  /\ Destroy(Held, "stopped")
  /\ UNCHANGED <<engine, nSounds, nPauses, menuInPause>>

-----------------------------------------------------------------------------
(* What the audio thread and the frame do                                  *)

(* The audio thread comes to the end of a sound.                           *)
SoundEnds(s) ==
  /\ s \in Held
  /\ sound[s].status = "Playing" /\ sound[s].asked # -1
  /\ sound' = [sound EXCEPT ![s].status = "Stopped"]
  /\ UNCHANGED <<engine, slot, nSounds, nPauses, menuInPause>>

(* sf::Sound::play: a paused sound goes on, any other begins again.        *)
Restarts(s) == IF sound[s].status = "Paused" THEN 0 ELSE 1

(* SoundManager::update: a sound that is not playing starts its next loop, *)
(* or is removed after the last one.                                       *)
UpdateSounds ==
  /\ engine # "Paused"
  /\ LET over == {s \in Held : ~IsPlaying(s) /\ sound[s].loops <= 1}
         next == {s \in Held : ~IsPlaying(s) /\ sound[s].loops > 1}
     IN  /\ slot' = [i \in Slots |-> IF slot[i] \in over THEN 0 ELSE slot[i]]
         /\ sound' = [s \in Sids |->
              CASE s \in over -> [sound[s] EXCEPT !.status = "Stopped", !.fate = "over"]
                [] s \in next -> [sound[s] EXCEPT !.status = "Playing",
                                                  !.loops = @ - 1,
                                                  !.plays = @ + Restarts(s)]
                [] OTHER      -> sound[s]]
  /\ UNCHANGED <<engine, nSounds, nPauses, menuInPause>>

-----------------------------------------------------------------------------
(* What the player does                                                    *)

(* pauseAllSounds and resumeAllSounds, for every sound in a slot           *)
Paused(s) == [sound[s] EXCEPT !.status = IF @ = "Playing" THEN "Paused" ELSE @]

Resumed(s) == [sound[s] EXCEPT !.status = "Playing",
                               !.plays = @ + Restarts(s),
                               !.again = @ + Restarts(s)]

(* Mutant: the sounds are not resumed.                                     *)
PauseGameForgets ==
  /\ engine # "Paused" => nPauses < MaxPauses
  /\ nPauses' = nPauses + (IF engine = "Paused" THEN 0 ELSE 1)
  /\ engine' = IF engine = "Game" THEN "Paused" ELSE "Game"
  /\ sound' = [s \in Sids |-> IF s \in Held /\ engine' = "Paused" THEN Paused(s)
                                                                  ELSE sound[s]]
  /\ UNCHANGED <<slot, nSounds, menuInPause>>

(* The pause key leads back to the game from the menus, too.               *)
PauseGame ==
  /\ engine # "Paused" => nPauses < MaxPauses
  /\ nPauses' = nPauses + (IF engine = "Paused" THEN 0 ELSE 1)
  /\ engine' = IF engine = "Game" THEN "Paused" ELSE "Game"
  /\ sound' = [s \in Sids |->
       IF s \in Held
       THEN IF engine' = "Paused" THEN Paused(s) ELSE Resumed(s)
       ELSE sound[s]]
  /\ UNCHANGED <<slot, nSounds, menuInPause>>

(* The menus open over the game, paused or not, and close on the game.     *)
ShowOptions(visible) ==
  /\ visible <=> (engine # "Menu")
  /\ engine' = IF visible THEN "Menu" ELSE "Game"
  /\ menuInPause' = (menuInPause \/ engine = "Paused")
  /\ UNCHANGED <<slot, nSounds, sound, nPauses>>

-----------------------------------------------------------------------------
(* Correctness                                                             *)

SoundsTypeOK ==
  /\ engine \in {"Game", "Paused", "Menu"}
  /\ slot \in [Slots -> 0..nSounds]
  /\ nSounds \in 0..MaxSounds
  /\ sound \in [Sids -> SoundRecord]
  /\ nPauses \in 0..MaxPauses
  /\ menuInPause \in BOOLEAN
  /\ \A s \in Sids : sound[s].fate = "held" <=> s \in Held
  /\ \A i, j \in Slots : slot[i] = slot[j] /\ slot[i] # 0 => i = j

(* An endless sound plays until a script stops it: no other sound takes    *)
(* its slot, in a pause either, and no update removes it. One asked for n  *)
(* times is started n times, and once more for each time the game was      *)
(* resumed when it was at the end of a loop.                               *)
PlaysAsAsked ==
  \A s \in Sids :
    /\ sound[s].asked = -1 => sound[s].fate \notin {"over", "evicted"}
    /\ sound[s].asked # -1 => sound[s].plays <= sound[s].asked + sound[s].again
    /\ sound[s].fate = "over" /\ sound[s].loops > 0 =>
         sound[s].plays = sound[s].asked + sound[s].again \/ menuInPause

(* A sound is paused only as long as the game is, unless a menu has been   *)
(* opened over the pause: the menu closes without resuming the sounds.     *)
PausedWithTheGame ==
  engine = "Game" /\ ~menuInPause => \A s \in Held : sound[s].status # "Paused"

=============================================================================
