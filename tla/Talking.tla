------------------------------- MODULE Talking -------------------------------
(***************************************************************************)
(* What actors and objects say. Each has a TalkingState: the line being    *)
(* said, its voice (module Sounds), and the lines that wait for their turn.*)
(* A line lasts as long as its voice, or for a time that depends on its    *)
(* text.                                                                   *)
(*                                                                         *)
(* To begin a line calls two scripts, onTalkieID and sayingLine, which may *)
(* say other lines, or stop the talk, while the line is being set up: the  *)
(* calls under way are in the variable calls, the innermost last.          *)
(*                                                                         *)
(* A frame is  sounds -> keys -> talk -> sounds : the sounds are updated,  *)
(* the keys pressed handled, and then each entity updated. A paused engine *)
(* handles the keys only, but a pause that begins takes effect at the next *)
(* frame. In the room "Void" no entity is updated. Scripts run anywhere.   *)
(***************************************************************************)
EXTENDS Sounds, Sequences, FiniteSets

CONSTANTS
  Entities,    (* the actors, and the objects of the room                  *)
  MaxLines,    (* bound on the lines ever said                             *)
  MaxTime      (* the longest a line without a voice may last, in frames   *)

ASSUME TalkingAssumption ==
  /\ MaxLines \in Nat
  /\ MaxTime \in Nat

VARIABLES
  phase,       (* where Engine::update is in the frame                     *)
  todo,        (* the entities still to update in this frame               *)
  nLines,      (* lines said so far: their identifiers are 1..nLines       *)
  line,        (* history: what has become of each line                    *)
  talk,        (* the TalkingState of each entity                          *)
  calls,       (* the calls of loadId under way                            *)
  voices,      (* history: the sounds played for the lines of each entity  *)
  disturbed    (* history: entities that a script stopped, or made talk,   *)
               (* while it was called to begin a line of theirs            *)

talkVars == <<phase, todo, nLines, line, talk, calls, voices, disturbed>>
vars == <<soundVars, talkVars>>

Lines == 1..nLines

TalkingState ==
  [talking : BOOLEAN,      (* _isTalking                                   *)
   voice   : Nat,          (* _soundId                                     *)
   queue   : Seq(Nat),     (* _ids                                         *)
   left    : Nat,          (* frames until _elapsed > _duration            *)
   broken  : BOOLEAN]      (* _ids has been erased from while empty        *)

LineRecord ==
  [who : Entities, fate : {"waiting", "begun", "cut"}]

(* A call of loadId is in onTalkieID, then in sayingLine; next says that   *)
(* update made it, for the line at the head of the queue.                  *)
Call == [who : Entities, line : Nat, in : {"onTalkieID", "sayingLine"}, next : BOOLEAN]

Top == calls[Len(calls)]

Loading(e) == \E i \in 1..Len(calls) : calls[i].who = e

Init ==
  /\ SoundsInit
  /\ phase = "sounds"
  /\ todo = {}
  /\ nLines = 0
  /\ line = [l \in 1..0 |-> {}]
  /\ talk = [e \in Entities |-> [talking |-> FALSE, voice |-> 0, queue |-> <<>>,
                                 left |-> 0, broken |-> FALSE]]
  /\ calls = <<>>
  /\ voices = [e \in Entities |-> {}]
  /\ disturbed = {}

-----------------------------------------------------------------------------
(* What scripts do                                                         *)

(* TalkingState::stop: the voice is stopped, and stays in its slot until   *)
(* the next update of the sounds.                                          *)
Stopped(t) == [t EXCEPT !.queue = <<>>, !.talking = FALSE, !.voice = 0]

Cut(E) ==
  [l \in Lines |-> IF line[l].who \in E /\ \E i \in 1..Len(talk[line[l].who].queue) :
                                             talk[line[l].who].queue[i] = l
                   THEN [line[l] EXCEPT !.fate = "cut"] ELSE line[l]]

Voices(E) == {talk[e].voice : e \in E} \cap Held

Silenced(E) ==
  [s \in Sids |-> IF s \in Voices(E)
                  THEN [sound[s] EXCEPT !.loops = 0, !.status = "Stopped"]
                  ELSE sound[s]]

(* stopTalking, of one entity or all, and skipText, which stops them all.  *)
StopTalking(E) ==
  /\ talk' = [e \in Entities |-> IF e \in E THEN Stopped(talk[e]) ELSE talk[e]]
  /\ line' = Cut(E)
  /\ sound' = Silenced(E)
  /\ disturbed' = disturbed \cup {e \in E : Loading(e)}
  /\ UNCHANGED <<engine, slot, nSounds, nPauses, menuInPause>>
  /\ UNCHANGED <<phase, todo, nLines, calls, voices>>

(* say: an entity that talks already keeps the line for later. The others  *)
(* are stopped first by sayLine, and not by mumbleLine, or between the     *)
(* lines of one call.                                                      *)
Say(e, others) ==
  /\ nLines < MaxLines
  /\ nLines' = nLines + 1
  /\ LET waits == talk[e].talking
     IN  /\ line' = [l \in 1..nLines' |-> IF l = nLines'
                                          THEN [who |-> e, fate |-> "waiting"]
                                          ELSE Cut(others)[l]]
         /\ talk' = [x \in Entities |->
              CASE x \in others   -> Stopped(talk[x])
                [] x = e /\ waits -> [talk[x] EXCEPT !.queue = Append(@, nLines')]
                [] OTHER          -> talk[x]]
         /\ calls' = IF waits THEN calls
                     ELSE Append(calls, [who |-> e, line |-> nLines',
                                         in |-> "onTalkieID", next |-> FALSE])
         /\ disturbed' = disturbed \cup {x \in others : Loading(x)}
                         \cup {x \in {e} : ~waits /\ Loading(e)}
  /\ sound' = Silenced(others)
  /\ UNCHANGED <<engine, slot, nSounds, nPauses, menuInPause, phase, todo, voices>>

(* onTalkieID has returned: the line is on screen from now on.             *)
BeginLine(time) ==
  /\ calls # <<>> /\ Top.in = "onTalkieID"
  /\ calls' = [calls EXCEPT ![Len(calls)].in = "sayingLine"]
  /\ talk' = [talk EXCEPT ![Top.who].talking = TRUE, ![Top.who].left = time]
  /\ line' = [line EXCEPT ![Top.line].fate = "begun"]
  /\ UNCHANGED <<soundVars, phase, todo, nLines, voices, disturbed>>

(* Mutant: the line stays at the head of the queue.                        *)
FinishedKeepsLine(voice) ==
  /\ calls' = SubSeq(calls, 1, Len(calls) - 1)
  /\ talk' = [talk EXCEPT ![Top.who] = [@ EXCEPT !.voice = voice]]

(* loadId returns; update erases the head of the queue, the line it has    *)
(* begun, unless a script has changed the queue since.                     *)
Finished(voice) ==
  /\ calls' = SubSeq(calls, 1, Len(calls) - 1)
  /\ LET t == [talk[Top.who] EXCEPT !.voice = voice]
     IN  talk' = [talk EXCEPT ![Top.who] =
           IF ~Top.next             THEN t
           ELSE IF t.queue # <<>>   THEN [t EXCEPT !.queue = Tail(@)]
           ELSE                          [t EXCEPT !.broken = TRUE]]

(* sayingLine has returned: the line has a voice or not, and the voice a   *)
(* slot or not.                                                            *)
BeginVoice ==
  /\ calls # <<>> /\ Top.in = "sayingLine"
  /\ Play(1)
  /\ IF Free = {}
     THEN Finished(talk[Top.who].voice) /\ UNCHANGED voices
     ELSE /\ Finished(nSounds')
          /\ voices' = [voices EXCEPT ![Top.who] = @ \cup {nSounds'}]
  /\ UNCHANGED <<phase, todo, nLines, line, disturbed>>

NoVoice ==
  /\ calls # <<>> /\ Top.in = "sayingLine"
  /\ Finished(talk[Top.who].voice)
  /\ UNCHANGED <<soundVars, phase, todo, nLines, line, voices, disturbed>>

-----------------------------------------------------------------------------
(* What the frame does                                                     *)

FrameSounds ==
  /\ phase = "sounds" /\ calls = <<>>
  /\ UpdateSounds
  /\ phase' = "keys"
  /\ UNCHANGED <<todo, nLines, line, talk, calls, voices, disturbed>>

(* updateKeys runs the commands, in a paused frame as well.                *)
KeysRead == (phase = "keys" \/ (phase = "sounds" /\ engine = "Paused")) /\ calls = <<>>

PressPause == KeysRead /\ PauseGame /\ UNCHANGED talkVars

(* By a key, an actor icon, or exCommand of a script.                      *)
OpenOptions == ShowOptions(TRUE) /\ UNCHANGED talkVars

(* The menu closes itself at the beginning of a frame.                     *)
CloseOptions ==
  /\ phase = "sounds" /\ calls = <<>>
  /\ ShowOptions(FALSE)
  /\ UNCHANGED talkVars

BeginTalk ==
  /\ phase = "keys" /\ calls = <<>>
  /\ phase' = "talk"
  /\ todo' = Entities
  /\ UNCHANGED <<soundVars, nLines, line, talk, calls, voices, disturbed>>

InVoid ==
  /\ phase = "keys" /\ calls = <<>>
  /\ phase' = "sounds"
  /\ UNCHANGED <<soundVars, todo, nLines, line, talk, calls, voices, disturbed>>

EndFrame ==
  /\ phase = "talk" /\ todo = {} /\ calls = <<>>
  /\ phase' = "sounds"
  /\ UNCHANGED <<soundVars, todo, nLines, line, talk, calls, voices, disturbed>>

(* Mutant: the time of the line is looked at though it has a voice.        *)
LineIsOverByTime(t) == t.left = 0

(* Mutant: only the end of a voice ends a line.                            *)
LineIsOverByVoice(t) == t.voice \in Held /\ ~IsPlaying(t.voice)

(* A line with a voice in a slot ends with it; any other after its time.   *)
LineIsOver(t) ==
  IF t.voice \in Held THEN ~IsPlaying(t.voice) ELSE t.left = 0

(* TalkingState::update begins the next line, the one at the head of the   *)
(* queue, which stays there until loadId has returned. What the code does  *)
(* with a broken queue is undefined: the talk ends or not.                 *)
UpdateTalk(e) ==
  /\ phase = "talk" /\ e \in todo /\ calls = <<>>
  /\ todo' = todo \ {e}
  /\ LET t == talk[e]
         over == t.talking /\ LineIsOver(t)
         next == over /\ ~t.broken /\ t.queue # <<>>
     IN  /\ \E ends \in IF t.broken THEN BOOLEAN ELSE {over /\ t.queue = <<>>} :
              talk' = [talk EXCEPT ![e].left = IF t.talking /\ @ > 0 THEN @ - 1 ELSE @,
                                   ![e].talking = @ /\ ~ends]
         /\ calls' = IF next THEN <<[who |-> e, line |-> Head(t.queue),
                                     in |-> "onTalkieID", next |-> TRUE]>>
                             ELSE <<>>
  /\ UNCHANGED <<soundVars, phase, nLines, line, voices, disturbed>>

-----------------------------------------------------------------------------
Script ==
  \/ \E e \in Entities : StopTalking({e}) \/ Say(e, {}) \/ Say(e, Entities \ {e})
  \/ StopTalking(Entities)
  \/ (\E loops \in Loops : Play(loops)) /\ UNCHANGED talkVars
  \/ (\E s \in Sids : StopSound(s)) /\ UNCHANGED talkVars
  \/ StopAllSounds /\ UNCHANGED talkVars

Loads == (\E time \in 0..MaxTime : BeginLine(time)) \/ BeginVoice \/ NoVoice

Talks == \E e \in Entities : UpdateTalk(e)

Next ==
  \/ Script \/ Loads
  \/ (\E s \in Sids : SoundEnds(s)) /\ UNCHANGED talkVars
  \/ FrameSounds \/ PressPause \/ OpenOptions \/ CloseOptions
  \/ BeginTalk \/ InVoid \/ Talks \/ EndFrame

Spec == Init /\ [][Next]_vars

(* The frames go on and the scripts called return; a voice comes to its    *)
(* end. The player leaves the room "Void", and resumes a paused game.      *)
Fairness ==
  /\ WF_vars(FrameSounds) /\ WF_vars(BeginTalk \/ InVoid) /\ SF_vars(BeginTalk)
  /\ \A e \in Entities : WF_vars(UpdateTalk(e))
  /\ WF_vars(EndFrame) /\ WF_vars(Loads)
  /\ \A s \in 1..MaxSounds : SF_vars(SoundEnds(s) /\ UNCHANGED talkVars)
  /\ WF_vars(engine = "Paused" /\ PressPause)

FairSpec == Spec /\ Fairness

-----------------------------------------------------------------------------
(* Correctness                                                             *)

TypeOK ==
  /\ SoundsTypeOK
  /\ phase \in {"sounds", "keys", "talk"}
  /\ todo \subseteq Entities
  /\ nLines \in 0..MaxLines
  /\ line \in [Lines -> LineRecord]
  /\ \A e \in Entities : /\ talk[e].voice \in 0..nSounds
                         /\ \A i \in 1..Len(talk[e].queue) : talk[e].queue[i] \in Lines
  /\ \A i \in 1..Len(calls) : calls[i].who \in Entities /\ calls[i].line \in Lines
  /\ disturbed \subseteq Entities

Queued(e) == {talk[e].queue[i] : i \in 1..Len(talk[e].queue)}

Sound(e) == e \notin disturbed

(* The lines of an entity begin in the order they were said, each of them  *)
(* once, and none is forgotten: it begins, is cut, or waits for its turn.  *)
LinesInOrder ==
  \A l \in Lines : Sound(line[l].who) =>
    /\ line[l].fate = "waiting" <=>
         \/ l \in Queued(line[l].who) /\ ~\E i \in 1..Len(calls) :
              calls[i].line = l /\ calls[i].in = "sayingLine"
         \/ \E i \in 1..Len(calls) : calls[i].line = l /\ calls[i].in = "onTalkieID"
    /\ line[l].fate = "begun" =>
         \A k \in 1..(l - 1) : line[k].who = line[l].who => line[k].fate # "waiting"

(* A voice is heard only for the line its entity is saying, and never two  *)
(* at a time. To resume the sounds spoils it, from a pause or from a menu: *)
(* the voices of lines that are over or skipped are played again.          *)
OneVoice ==
  \A e \in Entities : Sound(e) /\ nPauses = 0 =>
    \A s \in voices[e] : sound[s].status = "Playing" =>
      talk[e].talking /\ talk[e].voice = s

(* Whoever talks falls silent in the end, unless its queue is broken: the  *)
(* scripts say a bounded number of lines.                                  *)
TalkEnds ==
  \A e \in Entities : talk[e].talking ~> ~talk[e].talking \/ talk[e].broken

(* What README.MD:52 says of the space key: "Pause game". A line whose     *)
(* voice is paused is not over while the game is paused.                   *)
PauseKeepsTheLine ==
  \A e \in Entities :
    engine = "Paused" /\ Sound(e) /\ talk[e].voice \in Held
      /\ sound[talk[e].voice].status = "Paused" => talk[e].talking

=============================================================================
