# engge in TLA+

engge runs the scripts of an adventure game (Squirrel, `.nut`), its dialogs (`.byack`) and its resources.
Nearly everything it does is done by one thread that goes round `Engine::update`, but hardly anything
happens in one call: scripts sleep and are woken by the frame, a line is said until its voice ends, a
click becomes a walk and a verb many frames later, and at nearly every point of the frame the engine calls
scripts, which may call back whatever they like. This directory models that part: what is under way between
two frames, and what a script called in the middle of a step can do to it.

Contents: [the system](#the-system) · [what is hard](#what-is-hard) · [the modules](#the-modules) ·
[the runs](#the-runs) · [fairness](#fairness) · [the proofs](#the-proofs) · [what was found](#what-was-found) ·
[not modelled](#what-is-not-modelled) · [plan](#plan)

To check: `tlc -config MCThreads.cfg MCThreads.tla`, and so on for each pair of `PROJECT.json` "runs"; to prove:
`tlapm ThreadsProofs.tla`, and so on for `CallbacksProofs`, `CutsceneProofs`, `TalkingProofs`, `RoomsProofs`, `DialogProofs`,
`VerbsProofs` and `SavedProofs`.

## The system

Paths are under `src/src/`, headers under `src/include/engge/`.

| Component | Its state | Its operations | What makes it correct | Module |
|---|---|---|---|---|
| Threads and break functions (`Engine/Thread*.cpp`, `Scripting/SystemPack.hpp`) | `_threads`, `_functions`, the Squirrel coroutines | `startthread`, `stopthread`, `breakhere`, `breaktime`, `breakwhile...`; each frame `stopThreads`, `updateFunctions` | a suspended thread is woken once, by its own break, on time | Threads, which implements Coroutines |
| Frame loop (`Engine/Engine.cpp`, `EngineImpl.hpp`) | `_state`, `_frameCounter`, current room and actor | `update`, `pauseGame`, the options, change of room | the order of the frame; a pause stops the game and nothing else | all |
| Cutscenes (`Engine/Cutscene.cpp`) | `_pCutscene`, its state 0..5, its VM, the saved input state | `cutscene`, `cutsceneOverride`, the skip key, one step a frame | the player gets his input back, the caller goes on | Cutscene |
| Callbacks (`Engine/Callback.cpp`, `EngineImpl.hpp`) | `_callbacks`, `_callbackId` | `addCallback`, `removeCallback`, the pass of the frame, save and load | none lost, none late, none twice | Callbacks |
| Dialogs (`Dialog/`) | the player's position, choices, `_states`; the manager's state and slots | start, a step, a choice, save and load | what a condition lets through once comes once; a dialog ends | Dialog |
| Sounds (`Audio/`) | 32 slots, loops left, status of each sound | play, stop, pause, resume, update | a sound is heard as often as asked; an endless one is not lost | Sounds |
| Talking (`Entities/Actor/TalkingState.cpp`) | the line, its voice, `_ids` that wait | `sayLine`, `mumbleLine`, `stopTalking`, update | lines in the order said, each ends, a voice for its own line only | Talking |
| Sentences and verbs (`Engine/Sentence.cpp`, `Scripting/DefaultVerbExecute.hpp`, `VerbExecuteFunctions.hpp`) | `_pSentence`, its functions; the verb; `_pUseObject` | a click, `pushSentence`, `stopSentence`, a step a frame | a verb is executed in reach, once; the sentence ends | Verbs |
| Walking and inventories (`Entities/Actor/Actor.cpp`, `WalkingState.cpp`) | path, `_objects`, `_owner` | `walkTo`, `stopWalking`, `pickupObject`, `giveTo`, ... | an object has one owner, who has it once | Verbs |
| Rooms and triggers (`Room/`) | objects, layers, lights, who is inside which trigger | `setRoom`, `enterRoomFromDoor`, `exitRoom`, `enterRoom`, the triggers' update | the room shown is the one entered; its threads, lights and objects go with it | Rooms |
| Actor slots and keys (`Engine/ActorIcons.cpp`, `EngineImpl.hpp`) | the slots, the mode, the current actor | select by icon, by key, next, previous, by a script | the keys lead to every slot | Slots; the binding of keys is left out |
| HUD and inventory window (`Engine/Hud.cpp`, `Inventory.cpp`) | current slot, offset of each inventory | scroll | who holds something sees something | Slots; the verb of the HUD is in Verbs |
| Objects (`Entities/`) | state, touchable, visible, owner | `objectState`, `objectTouchable`, `objectHidden`, `pickupObject`, ... | as saved | SavedGames, Slots, Verbs; motors are planned |
| Saved games (`EngineImpl.hpp`, `Parsers/SavegameManager.cpp`) | the file and its picture; what a load has done so far | save, load, crash, restart | a loaded game is the game saved | SavedGames; Callbacks and Dialog for their part |
| Dialog files (`Parsers/Yack*.cpp`) | place in the stream, ends of lines met | read a token, parse | a dialog is the one its file spells | DialogFiles, which Dialog extends |
| Menus, preferences, commands (`UI/`, `Engine/Preferences.cpp`, `Input/CommandManager.cpp`) | page, values | open, close, set | no page is left open over a running game | opening and closing in Talking; the rest planned |
| Animations and costumes (`Graphics/AnimControl.cpp`, `Entities/Actor/Costume.cpp`) | the animation to show, the one shown, facing; frame, loops, triggers | `setState`, `setFacing`, stand, walk, reach; play, pause, update | who walks is shown walking, who stands is not | Costumes, over Verbs; frames and triggers are planned |
| Camera (`Engine/Camera.cpp`, `Engine.cpp`) | where it is, the pan under way, `_bounds`, `_pFollowActor` | `cameraAt`, `cameraPanTo`, `cameraBounds`, `cameraFollow`, dragging, the update and the end of a frame | what is drawn is in the room and the bounds; a pan leads where it was asked to | Camera, over Rooms |
| Motors (`System/Motors/`) | target, time | start, update, end | reaches its target | planned |

How they interact. The scripts call natives of the engine; the engine calls scripts (`ScriptEngine::call`) from
nearly every component. A break native suspends the thread of the calling script and queues a `Function`; a cutscene
is itself a VM whose breaks go the same way; a dialog runs lines of code of its file and makes actors talk;
actors talk through the sounds; a sentence walks an actor and runs the scripts of objects; callbacks run scripts
later; saved games take in callbacks and dialogs, among the rest. All of it happens inside one frame, in this
order (`Engine.cpp:312-490`):

    stopThreads                                   321   Threads, Cutscene, Rooms StopThreads
    options and start screen (save, load)         330   Threads phase "input", SavedGames SaveGame, LoadGame; Rooms NewGame
    paused? updateKeys and return                 336   Threads SkipFrame, Talking PressPause
    frame counter                                 345   Threads CountFrame
    camera, soundManager.update                   366   Camera BeginFrame; Talking FrameSounds
    updateCutscene                                368   Cutscene UpdateCutscene
    updateFunctions: breaks, then callbacks       369   Threads Pass, Cutscene FireBreak, Callbacks UpdateFunctions
    updateSentence                                370   Verbs UpdateSentence, EndSentence
    updateKeys                                    371   Talking PressPause; Slots PressKeyOf, PressNext, PressPrevious
    no room, or Void? return                      373   Talking InVoid
    room and actors                               378   Rooms UpdateRoom, CallTrigger; Talking UpdateTalk; Verbs WalkOn, Arrive
    pan to the actor followed                     385   Camera EndFrame
    options open? return                          398   Dialog (no UpdateDialog)
    dialogManager.update                          408   Dialog UpdateDialog
    HUD, clicks                                   427   Verbs Clicks, Dialog Choose, Slots ClickIcon, Scroll

Each module keeps the steps of this order it depends on as a variable `phase`, and lets scripts act wherever
the frame calls some.

## What is hard

PROJECT.json "hazards" lists each one at its line, with the properties that would catch it. In short:

* **Scripts inside the step.** A pass over a list runs scripts that add to the list, remove from it and save
  it (`updateFunctions` for breaks and for callbacks, `updateSentence`, `loadId`, `giveTo`).
* **State read before a call and used after it.** `_pSentence` across a step of the sentence, `_ids` across
  `onTalkieID`, `_pWaitAction` across a `goto`, `_pCutscene` across a script that starts another scene.
* **A protocol that calls itself.** A change of room calls eight scripts, any of which may change the room.
* **Two readings of one condition.** A break is run when its condition holds, and removed when the condition
  holds a moment later.
* **Pauses.** The pause key is read in the middle of a frame; sounds, breaks, scenes and talk each have their own
  idea of what a pause stops.
* **Limits.** 32 sounds, 9 choices, the first empty slot.
* **Saves in the middle.** Identifiers, times and records that a load puts back over a running game, part by part, with
  scripts called between the parts; a file that is emptied before it is written.
* **Text without ends of lines.** The parser of dialogs sees none, and conditions are known in saved games by their line.
* **Things that must end.** Sleeping threads, scenes, dialogs, lines, sentences, stopped threads: nothing else moves
  the game on.

## The modules

Conventions. Names are the source's where TLA+ allows it. A bound is a constant `Max...`, and guards the action it
bounds. A variable or field marked *history* records what has happened for a property to speak of; no guard of
the code's reads it. Scripts are arbitrary: an action per native they may call, enabled wherever a script may be
running, restricted only where a comment says so. A definition marked *Mutant* is a plausible mistake in
the code that some property must catch; nothing else uses it. PROJECT.json "map" gives the lines of every definition.

### Coroutines, Threads, MCThreads, ThreadsProofs

Squirrel coroutines. `thread[t]` is the state of a coroutine, with the flags `m_isStopped` and `_isGlobal`; `fn[f]`
a break function, with what it waits for and whether it is done. Both are numbered in the order of creation, which is
the order of `_functions` and the nesting of running threads. `StartThread`, `StopThread`, the breaks
(`BreakHere`, `BreakTime`, `BreakWhile`, `BreakWhileRunning`) and `ThreadLeaves` are what scripts do; `StopThreads`,
`CountFrame`, `Pass`, `EndFrame`, `SkipFrame` are the frame. `Pass` runs the next function of the list: a function whose
condition holds resumes its thread, which then is the running one until it breaks again or ends, *inside* the pass,
exactly as `resume` does. What a `breakwhile...` waits for is a condition of `Conds`: those of `ScriptConds` change
whenever a script runs (an actor stopped, a sound stopped), the others between two passes only (a dialog, a cutscene).
A thread is destroyed with its VM when the frame erases it; a break that then wakes nobody is part of the model.

`Coroutines` is what scripts are promised of all this, without lists, functions or passes: of threads that have started one another
the innermost runs; one that sleeps has called one break, and is woken by the frame when that is due, never when it was destroyed; those
that are over are destroyed together. `Promise` at the end of Threads is the refinement mapping: a thread sleeps on the break whose owner it
is, a break of frames has as many left as the list still counts for it, and a thread is over when its flag says so or it is not found.
`KeepsPromise` says that every step of Threads is a step of Coroutines or changes none of it.

### Cutscene, MCCutscene, CutsceneProofs

One record per scene: its state 0..5, the closures on its VM (`frames`), whether the VM is suspended, the break
functions still to fire, its caller, the input state it saved. `pCutscene` is the raw pointer. `UpdateCutscene` is the
`switch` of `operator()`; `SliceEnds` is the return of a closure; `FireBreak` a break function that resumes the scene's VM.
The override is called with `sq_call` on the VM of the main closure, so `frames` may hold both. Scenes may be started
within scenes (`Overlap`), and overrides may break (`OverrideBreaks`).

### Callbacks, MCCallbacks, CallbacksProofs

`_callbacks` and the vector local to the pass are functions from identifiers; `inPass` and `running` say where the
pass is, for callbacks run scripts. `SaveCallbacks`, `LoadCallbacks` and `Restart` model their part of saved games
(`saveCallbacks`, `loadCallbacks`), with the counter of identifiers, over a running game or in a fresh process.

### DialogFiles, Dialog, MCDialog, DialogProofs

`DialogFiles` is what becomes of a file. The author writes lines (`Lines`), each a label or a statement with its condition, that `Stream` spells
as tokens (`Written`). `At`, `Following` and `LineOf` are the reader: ends of lines are not handed to the parser, but counted, and the line of a
condition is looked up among those met so far, one token further on. `ParseExpression` and what stands around it are `YackParser`, method by method; its two
loops are one, of which `Turn` is a turn and `Turns` the parser after so many, a recursive function of their number. What begins no statement is an
expression of kind "none", which it does not pass over; no file takes more turns than it has tokens, unless one hangs the parser. `Meaning` is what the author meant, a label or
statement for each line, and `Clear` says of a file that no bare instruction stands before what it would take for its argument.

In `Dialog`, `file` says which file of `Library` each dialog has, `text` what `start` has read of it. The player goes through labels and
statements. A call of `running` is under way in `call` while the code it runs, or the dialog that starts another, has not
returned; each disjunct of `Step` is what one statement, or the end of a label, does, `Return` the rest of the call and what the manager makes of
it. Conditions and what they record (`_states`) are those of `ConditionStateVisitor` and `ConditionVisitor`: a record has the mode, the
actor, the dialog and the *line*. The history variables `chosen` and `seen` hold the same by the *place* of the statement, so that
`OnceMeansOnce` would show two statements taken for one. The manager is `mState` and `slots`; `Choose` is a click on a slot. *Every* file
of the library is an initial state.

A saved record is one word, of mode, dialog, line and actor, and `parseState` finds its parts again: the letters of the name, then what follows
until there is a dialog of that name; the digits that come next are the line, the rest the actor. `SaveDialogs` keeps what was written and
`LoadDialog` reads it by `ParseState`. A dialog is therefore known by its name, as the letters and what comes from the first digit on (a digit is
its value, another character a number above 9). `NameRead` is the dialog that the record of a name goes to: the shortest with the same letters that
the name begins with. What is left of the name goes to the line before its own digits (`Followed`; lines have less than five), and, from another
character on, to the key of the actor, which then is `Nobody`'s. Two things are taken for granted: keys of actors begin with no digit, and a saved game
is loaded with the dialogs it was saved with. The history variable `misread` says that a load has read a record under the name of another dialog. What
`OnceMeansOnce` promises it promises of dialogs that are `Trusted`: all of them before that, and after it those that are `ToldApart`, whose records
are read as theirs, as no other's are.

### Sounds, Talking, MCTalking, TalkingProofs

`Sounds` has the slots, `PlaySound`'s search for one, the loops, and `pauseAllSounds` and `resumeAllSounds`. The audio
thread ends a sound at any moment (`SoundEnds`). `Talking` extends it with the lines: `Say` with its queue, `loadId` as a
call in two stages (`onTalkieID`, then `sayingLine`) that may nest, and `UpdateTalk` of each entity. `LinesInOrder` and
`OneVoice` are claimed for entities that are not in `disturbed`: those whose scripts stopped them, or made them say
another line, from inside the call that begins a line of theirs.

### Verbs, Costumes, MCVerbs, VerbsProofs

One sentence, `_pSentence`, as a list of functions of which a frame runs a step; the current actor's place and path; the
inventories. `calls` is the stack of scripts under way, each with what it returns to (`preWalk`, `postWalk`, the verb,
`objectGive`, ...), and every script on it may push, stop, walk, pick up or remove. Deleting the
sentence under way is undefined behaviour in the code; the model then lets the program crash (`crashed`) or go on. `last`
records what the last sentence came to.

`Costumes` extends it: each action of Verbs that turns the current actor, or has it walk, stand or reach, is taken together with
what `Costume` then shows, and scripts and lines may pose and turn the actor at every moment at which they are called. `costume` holds `_animation`,
`_facing` and `_pCurrentAnimation`, which the code keeps apart: `{eyes_...}` in a line sets the first only. `posed` is history: something other than
the walk was asked for since the actor is on its way. The scripts called by the steps of a walk (`preWalking`, `postWalking`) are where the order
matters: `stop` has the actor stand before the call, `setDestination` has it walk after.

### Rooms, Camera, MCCamera, RoomsProofs

`calls` is the stack of changes of room under way, and of selections of actors, which end with a change of room; each has
its `stage`, the script it has called: `actorExit`, `exit`, `exitedRoom` of the room left, `enter`, `actorEnter` (two),
the objects' and `enteredRoom` of the room entered. An action `Return...` is what the engine does from the return of
one script to the call of the next. Everything a script may do is enabled at every stage: another change of
room, through a door or not, an actor selected or sent elsewhere, a local thread, a light or object. The room is updated
after the scripts of the frame, and its triggers may start threads although a script has left the room meanwhile
(`late`). `entered` is history: the rooms whose `enter` was called and not yet their `exit`. The exceptions
the properties name are states the code does reach: `nested` when a script of the leaving of a room
leaves a room, `"late"` when `exitedRoom` makes objects.

`Camera` extends it: each action of Rooms is taken together with what it does to the camera. `camera` holds where it is, where a
pan began and leads, `_isMoving`, and whether the time of a pan still runs, which `move` does not stop. To follow an actor of another room, or
to look at an object of one, changes the room first; `shows` has, for each change under way, what is to be shown when its last
script has returned, at the place read before its first (`Follow`, then `EndChange`). `ChangeRoom` is `setCurrentRoom`, between the scripts of the
room left and those of the room entered. `BeginFrame` is `Camera::update`, `EndFrame` the pan to the actor followed, once actors have
walked. `asked` is history: the pan a script has asked for, until anything else is. Positions are on one axis, for the code treats both alike; a
pan takes any time and passes through any place between its ends.

### Slots, SavedGames, MCSaved, SavedProofs

`Slots` is who the player is: `slots` and `mode` are `ActorIcons`, `hudIndex` the panel's index of the current actor, `pRoom` the
room that follows him. Icons, keys and scripts each select in their own way (`ClickIcon`, `PressKeyOf`, `PressNext`, `PressPrevious`,
`SelectActor`) and end in `SetCurrentActor`. The inventories are lists and `owner` the back pointer of each object; `Offset` is
`getInventoryOffset`, which puts a value that has become too large back to 0, `Scroll` the arrows of the window. `taken` is history.

`SavedGames` extends it with the file and the load. `file.part` says how much of the file there is: a save empties it and writes it in
place, so a crash (`CrashWhileSaving`) leaves it "empty" or "torn", and an action `RefusesFile` is the load of such a file. The
load itself (`load`, one record) is a sequence of parts (`load.part`), in the order of `loadGame`: scene and globals, actors, the inventories slot by slot and object by
object, rooms and pseudo-rooms, the current actor, the room of that actor and then the saved room, the objects, `postLoad`.
After a part that calls a script, `load.script` is TRUE and scripts may do all they may do in a game, a save of this half-loaded
game included. `disturbed` is history: in which part a script has changed what. `load.orphans` too: objects cleared from an actor of a later slot.

## The runs

Every run explores its whole state space. Sizes are distinct states, times those of a small machine with two workers.

| Run | Configuration | Bounds | Size | Question |
|---|---|---|---|---|
| `threads_safety` | MCThreads.cfg | 2 threads, 2 breaks, delays 0 and 1, one condition scripts change, one they do not | 1.4 M, 55 s | is a sleeper woken once, and on the right frame? is what Coroutines promises kept? |
| `threads_live` | MCThreadsLive.cfg | the same, delay 0, a condition of the frame | 0.2 M, 60 s | does it wake? do stopped threads go? |
| `callbacks` | MCCallbacks.cfg | 3 identifiers, delays 0 and 2, frames of 1 and 2, 2 loads | 0.75 M, 50 s | is a callback lost, late, twice, or never run? |
| `cutscene` | MCCutscene.cfg | 1 thread, 2 scenes, 1 break each, overlap, overrides that break | 1.6 M, 180 s | pointer, waker, input, caller |
| `cutscene_skip` | MCCutsceneSkip.cfg | 1 scene, 2 breaks | stops at the violation | finding 1 |
| `dialog` | MCDialog.cfg | 933 files of one to three labels, one of them under 3 names; 2 actors, 2 starts, 2 slots | 1.5 M, 180 s | is the dialog the one its file spells? does what comes once come twice, or something else for it? are the choices those of the label? is a line cut? does a dialog end? |
| `talking` | MCTalking.cfg | 2 entities (symmetric), 2 slots, 2 sounds, 1 pause, 2 lines | 2.8 M, 70 s | voices, slots, loops, pauses |
| `talking_live` | MCTalkingLive.cfg | 1 entity, 3 lines, 1 slot, 1 pause | 0.6 M, 110 s | the order of lines, and their end |
| `talking_pause` | MCTalkingPause.cfg | 1 entity, 2 lines, 1 pause | stops at the violation | finding 2 |
| `verbs` | MCVerbs.cfg | a lamp, a key, Ray behind a gate, 2 facings; 3 clicks or doings of scripts | 0.49 M, 105 s | reach, one ending, one owner, the end; is an actor on its way shown walking? |
| `rooms` | MCCamera.cfg | 2 rooms, one a closeup, 2 actors (symmetric), 2 places; 3 doings of scripts and the player | 10.1 M, 140 s | is the room shown the one entered? what outlives a room? is the camera in it, and does it go where it is sent? |
| `saved` | MCSaved.cfg | 3 actors, 3 slots (2 filled), 2 objects (1 of a pseudo-room), 3 rooms, a window of 1; 3 doings of scripts and the player, 1 restart | 3.5 M, 100 s | does a key lead to every slot? does a load put back what was saved? |

What each property says stands above its definition. Why the bounds are enough, where it is not proved that they do not matter
([the proofs](#the-proofs) do away with them for every safety property):

* *Threads.* One thread may start, stop or wait for the other inside its slice; two breaks give a second break that is
  queued in the pass that ran the first, which is where positions of `_functions` matter; one
  frame of delay tells now, next pass and later apart.
* *Callbacks.* One that runs, one it adds, one it removes; a delay over at once and one that outlasts a frame;
  two loads give a load over a running game of a save taken before and after.
* *Cutscene.* The second scene is what overlaps the first, from a thread or from within; the break is what the scene
  sleeps on while it is skipped or stopped.
* *Dialog.* The files are enumerated rather than chosen: two choices under each pair of conditions; three statements of any kind, choices of
  one number among them, and a second label; all that leads forward (for `ActiveEnds`); instructions without argument, with and
  without a condition, before what may come after them; two labels of one name. A mistake in the interplay of two
  statements, or of a statement and where a label leads, shows in a dialog of that size. Two slots and limits of 1 and 2 make choices compete.
  The names are `Bridge`, `Bridge0`, whose records are read as those of `Bridge`, of the same lines, and `Quay3`, which is told apart. To keep the run small
  `MCSpec` plays all three with one file, and only `Bridge` with the others. Two starts are a dialog that records and one that is taken for it, or is not,
  after the load. Without its exception `OnceMeansOnce` fails there; and it fails of a name with a digit when the digit is read for the line as well.
  What is left of a name from a letter on is in no name of the run: it is in the proofs.
* *Talking.* Two slots for two voices and a sound of a script: one is always taken or given away. A third line, in
  `talking_live`, waits behind one that waits.
* *Verbs.* One bound for clicks and doings of scripts: a sentence, what replaces or disturbs it, and what
  disturbs that. Mutants of every property are found within it. What scripts show is not counted: the costume has few states. Two facings are one turn.

* *Rooms and camera.* Three doings: a change, one inside it and an order in either, or two orders, such as to follow an actor and to pan elsewhere,
  and what disturbs them. The actors walk, and pans end, without being counted. Two rooms whose screens differ, so that no place that
  is right in one is right in the other by chance; two actors, to go from one to the other.
* *Saved games.* Two actors with slots, so that an object saved with one may be held by the other at the load, and one without; an empty
  slot, which is saved too; an object of each kind, one with an `initState`. Three doings: one that makes the saved game, the save itself, and one
  that changes the game loaded over or comes between the parts of the load; a restart for a fresh process.

Deadlock is checked in every run but `saved`, where a program that has crashed with no restart left stops. Elsewhere each model can always
take a step: the frame goes on, or `Halted` in Verbs and `Crashed` in Rooms stand for the program that has crashed. Symmetry is used in `talking` and `rooms`, which have no liveness property and whose
modules tell no entity, no actor from another.

Each module has a type invariant. Those of all the modules are proved, but DialogFiles, which has no variables, and Coroutines. They hold under the configurations of the
runs, too, but no run lists them: a value out of its type shows in the properties.

Every property of a passing run has a mutant in PROJECT.json: a change of one definition, of the kind a slip in
the code would be, that makes TLC find the property violated under the run's own configuration.

## Fairness

The engine is one thread, in a loop that ends only with the program; a script that did not return would hang it.
Hence weak fairness on every step of the frame and on the return of scripts, in all modules. Beyond that:

* *Threads*: strong fairness on `CountFrame`. A paused frame returns before it (`Engine.cpp:336`), so that it is enabled again
  and again only; a player who pauses the game resumes it some day.
* *Cutscene*: strong fairness on the break functions of a scene. This is `SleepersWake` of Threads, taken as known.
* *Dialog*: strong fairness on the end of a line: `TalkEnds` of Talking.
* *Talking*: weak fairness on the press that resumes a paused game, strong on `BeginTalk` (the player does not stay
  in the room Void) and on the end of each sound that is playing (files are finite; a pause interrupts).
* *Verbs*: strong fairness on arriving (a walk can be replaced, but the models' inputs are finite) and on the step that finishes a
  function, for the reaching animation ends.
* *Callbacks*: weak fairness only.
* *Rooms*, *Camera*, *SavedGames*: none, for all their properties are safety.

What the player does, and what scripts ask for, has no fairness: nobody has to click.

## The proofs

TLAPS checks these for every value of the constants: any number of threads, breaks, scenes, callbacks, slots, sounds, lines, actors, objects, rooms, clicks
and doings of scripts. The only assumptions are the named ones, which TLC evaluates on every run:

| Assumption | What it says |
|---|---|
| `ThreadsAssumption`, `CallbacksAssumption` | bounds are natural numbers, a frame lasts at least one tick, no condition is that of a break that has none |
| `CutsceneAssumption` | bounds are natural numbers; a thread is none of the numbers by which scenes are known |
| `SoundsAssumption`, `TalkingAssumption` | there is a slot; a sound is played once or more, or for ever (-1) |
| `RoomsAssumption`, `CameraAssumption` | `None` is no room, actor, place or bounds; a screen is no wider than its room, a lower bound not above its upper one |
| `VerbsAssumption` | things have places, walks end in places; what is looked at is not carried, objects are no actors, `None` and "between" are nothing else |
| `DialogAssumption` | the names of dialogs are letters, then nothing or what begins with a digit; there is a choice to show, bounds are natural numbers; each file is lines of labels and statements, the first a label (`Written`); what the parser returns of it is labels with statements of the known kinds and conditions, and choices with numbers that there are (`Playable`) |
| `SlotsAssumption`, `SavedGamesAssumption` | there is a slot; a row of the window has an object, and the window shows a row or more (4 and 8 in the code); Void is a room, `None` is none and no actor; what a game begins with has its type |

The invariants below were checked by TLC under the configurations of the runs before they were proved. Every proof of an invariant has one lemma, or one step, for each action.

### Threads: `ThreadsProofs`

`TypeCorrect`, `SleepersKeepTheirWaker`, `NoStaleWaker`, `BreaksExact`, `ThreadsKeepPromise`. The invariant that
carries them is

    WakeInv == TypeOK /\ WellFormed /\ OneWaker /\ SleeperHasWaker /\ PassedNotElapsed /\ HereOnTime /\ TimeOnTime

`OneWaker` and `SleeperHasWaker` need each other: a break that fires wakes a thread which, by the first, has no other
break, and which, by the second, has this one. Neither survives a step without `WellFormed`: the owner of a break, and the thread a
`breakwhilerunning` waits for, have been started. The two statements about frames speak of a step, `[][...]_vars`;
what makes them true before it is a bound on the age of every break in the list, according to whether the pass has gone by it:
`HereOnTime`, `TimeOnTime`, and `PassedNotElapsed`: a break the pass has left behind had not elapsed. One lemma per action shows
that it keeps the invariant; the shapes of updated records and the order of identifiers are lemmas of their own.

`ThreadsKeepPromise` is the refinement: Threads implements Coroutines under the mapping `Promise`. From `WakeInv`, and from `IdleInv` (a frame begins when no
script is running), each action maps to the step of Coroutines named like it, or to a stutter. Above all `Pass`: a break that fires must be the one its owner sleeps on,
`BreakOfSleeper`, and the list may count, drop and reorder the other breaks without any other sleeper noticing, `AsleepLess`.

### Callbacks: `CallbacksProofs`

`CallbacksTypeCorrect`, `NoCallbackIsLost`, `CallbackIdsAreFresh`, `NoCallbackIsOverdue`, `CallbackRunsOnce`,
from

    CallbacksInv == TypeOK /\ NoneLost /\ IdsAreFresh /\ VectorsOK /\ SaveOK

`NoneLost` is not inductive alone: a load puts back what was saved, so the invariant says of the *file* what `NoneLost` says
of the game (`SaveOK`), and of the two vectors which of their callbacks are done or new (`VectorsOK`).

### Cutscenes: `CutsceneProofs`

`CutsceneTypeOK`, `CutscenePointer` (`_pCutscene` never dangles), `CutsceneWaker`, `CutsceneGivesInputBack`, from

    SceneInv == TypeOK /\ VmOK /\ StateOK /\ FrameOK /\ InputOK

`SceneHasWaker` of the run counts what will resume a VM. To be inductive it must say what a VM waits for *according to the closures on its stack* (`VmOK`): with
one closure, one waker if it is asleep and none if it runs; with an override called on top of a main closure that is asleep, the waker of one wakes the other, and what is left
when the override returns may be a closure that is neither asleep nor running. That is finding 1, met again as the exception without which the
invariant does not hold. `StateOK` ties the six states to the stack, `FrameOK` says that the scene that ends is the only one that may be over and still pointed at,
`InputOK` that a scene that overlaps none has saved the input there was before it.

### Sounds and talking: `TalkingProofs`

`SoundsKeepTheirType`, `SoundsPlayAsAsked`, `SoundsPausedWithTheGame`, from

    SoundInv == SoundsTypeOK /\ RecordsOK /\ PauseOK

proved of the steps that Talking takes. `RecordsOK` is an account for each sound: what has been played and what is left come to what was asked for, less a loop lost and
more a loop gained by a pause. `VoicesKeepTheirLines` and `TalkingHasOneVoice` come from

    VoiceInv == SoundInv /\ TalkOK /\ VoicesOK /\ (\A e \in Entities : EntityOK(e))

`EntityOK`: an entity whom no script has disturbed has at most one line being set up, wherever that is on the stack of nested calls, and until it is no voice of his is
heard. `TalkingInOrder` needs, beside `VoiceInv`, `LineInv == LinesTyped /\ (\A e \in Entities : OrderOK(e))`: the queue is sorted, and only its head may
have begun, for it is erased when the call that begins it returns.

### Rooms: `RoomsProofs`

`SpecTypeOK`, `SpecEnteredIsCurrent`, `SpecThreadsOfTheRoom`, `SpecLeftRoomIsEmpty`, for changes of room nested to any
depth, from

    RoomsInv == TypeOK /\ EnteredIsCurrent /\ ThreadsOfTheRoom /\ LeftRoomIsEmpty /\ ChangesOK

`ChangesOK` is about the whole stack: as long as no leaving was nested in a leaving, at most one change is leaving a room,
it is leaving the room on screen, and above it are only selections of actors. Without it the step that
returns from `exitedRoom` could not tell that the room it drops is the room it left. Three lemmas say what pushing,
popping and the next script do to the stack; every step that begins a change goes by one lemma, `BeginStep`, and every
step that leaves the stack alone by another, `OtherStep`.

### The camera: `RoomsProofs`, too

`CameraStaysInRoom`, `CameraKeepsPans`, `CameraKeepsRooms`, `CameraKeepsItsType`. First, every step of the composition keeps `RoomsInv` (`CameraOverRooms`): the camera may
change rooms, but only as Rooms does. Then, relative to that,

    CameraInv == CameraTyped /\ CameraInRoom /\ PanIsKept /\ AskedAlone

`CameraTyped` has one thing to show for each change under way (`Len(shows) = Len(calls)`), which is what the nesting could break. `PanIsKept` needs `AskedAlone`: otherwise the
actor followed would draw the camera away at the end of a frame, and the rest of an old pan at its beginning.

### Dialogs: `DialogProofs`

`ParsedAsWritten`, `ClearFilesPlay` and `ConditionsKeepApart`, about `DialogFiles`; then `DialogsAreReadAsWritten`, and `DialogsKeepTheirType`, `ChoicesStayOffered`, `ChoicesOnce`, `LinesAreHeard`, from

    DialogInv == TypeOK /\ FilesOK /\ OfferOK /\ LineOK /\ HistoryOK /\ OnceOK

The parser is a recursion without a bound, and the library's induction theorems are out of the provers' reach. Here the induction is over a *set*: the numbers of
turns after which something holds has 0 and with each number the next, and so has them all, for a least number that it lacked would have one before it
(`Induct`, from `WFMin`). So, too, a recursive function is shown to have the values its definition spells (`TurnByTurn`, `LineByLine`).

`ParsedAsWritten` goes along the file line by line: where the parser stands at a line, a turn reads that line (`TurnReadsLine`), by cases of what stands on it and of what the
next line begins with (`HeadOf`, `AtAfterWords`), and the turns that are left stay at the end. `ConditionsKeepApart` does without `Clear`, and so cannot go line by line: of whatever place a
statement begins, reading never goes back (`StatementGoesOn`), and a condition ends its line (`ConditionEndsLine`), so that all conditions read
are above the place reached, and the next is at or below it (`Apart`). It was an assumption on files; it is a theorem of all files now.
`DialogAssumption` still leaves out what throws or hangs the parser. TLC evaluates it, with the parser as it is, for the 933 files of the run.

`OfferOK` is what collecting choices keeps: they are of the label being played, within the limit, and there are none
between two calls but those the player waits with, so that a `limit` or `dialog` statement never changes the rules under them. `HistoryOK` says that `_states`, which
knows lines, and the history, which knows places, tell the same story, of the game and of the game saved; it is here that two statements sharing a line would break `once`. A
load may put another record under choices on offer, which `OnceOK` excepts by `stale`, and only there. All of this is said of dialogs that are
`Trusted`. For the load itself it takes three lemmas: `NameIsRead`, that there is a shortest name; `RecordIsRead`, that what is read is a record, of the
dialog `NameRead` says, and the one that was written when that is its own; `LoadedAsSaved`, that it is its own where the dialog that wrote it, or the one
it is read for, is trusted after the load.
`LineOK`: while a line is said no call goes on, and none that a statement called back into is about to return and forget the wait.

### Verbs and costumes: `VerbsProofs`

`VerbsKeepTheirType`, `VerbsInReach`, `SentencesEndOneWay`, `ObjectsHaveOneOwner`, `WalksAreShown`, of `CostumeSpec`, the composition of both modules, from

    VerbsInv == WorldTyped /\ OneOwner /\ Stack(calls, made, sentence, body) /\ AccountOK

`AccountOK` relates the functions that a sentence has left to what it has come to (`Comes`) and to where the actor is or walks to (`Stands`). `Stack` says that only the outermost
call of scripts is for a sentence, and that it is for the function the sentence is at (`Serves`): this is what makes the return of a script safe after any
number of scripts have called one another, and stopped or replaced the sentence, in between. `CostumeInv` carries `WalksAreShown`; `VerbsInv` is not needed for it, but for
the type of the walk.

### Slots and saved games: `SavedProofs`

`SavedGamesKeepTheirType`, `KeysLeadToEveryone`, `WindowsShowWhatIsHeld`, `LoadsRestoreTheGame`, `LoadsRestoreInventories`, from

    SavedInv == TypeOK /\ WindowOK /\ LoadOK /\ Restored

`KeysLeadToEveryone` is no matter of steps, but of arithmetic: `NextIndex` goes up to the first selectable slot, round the end, so that the distance to any selectable slot grows
less with each press (`NextIsNearer`, `PreviousIsNearer`), and what descends gets there (`Descends`). `WindowOK`: the offset of an actor from whom nothing was taken is that
of something he has. `Restored` says of *each part* of a load what it has put back by then, and that it is still so unless the scripts have changed it since
(`disturbed`); the heart is `ScriptsRestored`, that no script called by a load changes what was put back before without leaving a trace in `disturbed`. The part about inventories,
`ThingsRestored`, has the actor under way hold a prefix of what was saved, the rest being in `load.todo`, and the owner of everything that anyone holds hold it too, or the object be an orphan.
So a load is proved to restore the game over any game, in any number of slots, whatever its scripts do.

### What is only model-checked

* Every liveness property (`SleepersWake`, `FrameConditionsAreSeen`, `StoppedThreadsGo`, `WaitingRuns`, `CallerComesBack`, `TalkEnds`, `SentenceEnds`, `ActiveEnds`): the prover has no rules for
  fairness and ENABLED here.
* That what the parser returns of a file is `Playable` is an assumption where the file is not `Clear`, for it is not so of every such file: TLC evaluates it for those of the run. Of a file that is `Clear`, and whose choices have numbers that there are, it is a theorem (`ClearFilesPlay`).

## What was found

Two disagreements with README.MD, each shown by a run that TLC must find violated:

1. **A skipped cutscene plays on** (`cutscene_skip`, `Cutscene.cpp:96`). The override is called on the VM of the main closure while
   that is suspended. When the override has returned, the break on which the main closure sleeps still fires, and the
   scene that was skipped goes on, state 3, to its end.
2. **A pause ends the line** (`talking_pause`, `EngineImpl.hpp:1668`). The key is read in the middle of the frame, after the sounds and before the
   actors. `TalkingState::update` takes the paused voice for one that is over.

The models also do the following as the code does. No text of the repository says otherwise, so they are recorded
as hazards, or as the exceptions that the properties name:

* A condition that becomes true between the two readings of `updateFunctions` removes a break that has not woken its thread
  (`Dependable` in Threads: only the conditions scripts change).
* A thread stopped from within its slice runs on to its next break.
* A scene started while one is on takes its place; the caller of the first never comes back. An override that breaks leaves
  its scene without an end (`CallerComesBack` names both).
* A dialog does not wait for the first line after a `goto`; a line under `showonce` or `temponce` is never said; the
  manager may show slots of choices that are no longer there.
* `removeCallback` called by a callback finds none of the others; a save from a callback leaves the others out; a loaded
  callback waits as long as it had already waited.
* A sound between two loops gives its slot away. `stopSound` of a definition stops nothing. The options opened over a pause leave the sounds
  paused. A resume plays voices that were over.
* `stopTalking` from the script that begins a line erases from an empty vector.
* A script that stops the sentence that has called it destroys it under way.
* A path of less than two nodes leaves the walk before it going, and the verb waits for the end of that.
* A room left by a script of its own leaving (`exit` that changes the room): the inner change enters a room, which the outer change
  then replaces without calling its `exit`. A change inside `enter` is sound, but `enteredRoom` is then told of the two rooms in the
  wrong order, and the rest of the outer `enter` runs over the objects of a room that was left.
* `exitedRoom` is called after the room was emptied: what it makes in the room stays there. An object made, or a room with temporary
  objects left, while the room's objects are gone through changes the vector under its iterator.
* A trigger looks neither for its room nor for the actor's: updated after its room was left in the same frame, it starts a
  thread that outlives the room. `enterRoomFromDoor` without a current actor uses a null pointer.
* *Camera.* A pan begun by a script of the room entered is cut short by the `follow` that entered the room, at the place where the actor was
  before that room's scripts moved him. A drag during a pan leaves its time running: `isMoving` is false, so that a script that waits goes
  on, and the next update puts the camera back on its way. An actor who stands near the wall of a room, where the camera cannot come near
  him, is panned to at the end of every frame: the camera never counts as still but between its update and the end of a frame.
* A new game calls the `exit` of the start screen, and the room its script then asks for calls it once more.
* `removeTrigger` with a closure compares the addresses of two handles (`RoomPack.hpp:456`) and so finds none; `createLight` has no bound.
* `objectGive` may remove the object that is being given; `pickupObject` does not look for an owner.
* *Dialog files.* An instruction without its argument takes the first word of the next line (`parrot` before `ray: "text"` takes `ray`). What
  then begins no statement, such as what is left of a choice after a bare `limit`, is never passed over, and the parser does not
  return. Of two labels of one name a `goto` finds the last. A bare `limit` means no choices at all. `waitfor` is a TODO in the code: it is over at once.
  A record of a condition is saved as mode, dialog, line and actor in one word; where the name of a dialog is that of another and more, from a digit on,
  the load takes the shorter name, and what is left of the longer for the beginning of the line or of the actor (`EngineImpl.hpp:898`): the record
  of line 4 of `Bridge0` comes back as one of `Bridge`. `OnceMeansOnce` leaves both dialogs out after such a load.
* *Slots.* "Previous actor" (`EngineImpl.hpp:1695`) steps over the last slot. The keys select even when the mode of the icons is off, and an actor who is in
  Void. `selectActor` of an actor without a slot is an exception that only `main` catches.
* *Saved games.* What is hidden or gone is saved as untouchable and comes back visible and untouchable. State 0 of an object whose `initState` is another is
  not saved. A global that was null keeps the value it has. Objects of pseudo-rooms do not come back into inventories. An object that an
  earlier slot was given loses its owner when the inventory of a later slot, where it was before, is cleared. The inventory of an actor
  without a slot is neither saved nor cleared. A crash while saving loses the old game too; a picture without a file is offered for loading.
* *Costumes.* An actor whom the script `postWalking` sends on, on arrival or out of `actorPlayAnimation`, is then shown standing, or the animation, while it
  walks (`Actor.cpp:277`). A turn at a node plays the walk once: `setWalkState` finds it shown already and does not ask for the loop (`Costume.cpp:86`).
  A line with `{eyes_...}` leaves the eyes as `_animation`, so that to turn the actor afterwards shows no other animation. `lockFacing` shows at the
  next change only.
* *Animations* (read, no module). A layer that has ended fires its last trigger again while others play; a layer without frames never ends, nor does its animation
  (`AnimControl.cpp:42`).
* *Menus.* The dialog of slots returns before it notes that the button is down (`SaveLoadDialog.cpp:287`): opened again, it takes the slot under the mouse
  for clicked.

## What is not modelled

* Drawing, shaders, fonts, layout, the log, the debug windows: no control flow that depends on order.
* Squirrel, spdlog, clipper: third party. Coroutines are taken for what the engine uses of them: suspended, woken, ended.
* Floating-point geometry. Walks are the set of the places where they may end, time is counted in frames or ticks.
* The frames, loops, layers and triggers of animations, blinking, and the motors: read, and planned. Their time is that of floating-point clocks, and what depends on their order is seen by
  the modules as an event that may come at any moment (`breakwhileanimating` as a condition in Threads, the reaching animation in Verbs).
* Of saved games: positions, costumes and colours, which are saved and loaded like what is modelled, the cipher and the encoding.
* Of dialog files: characters, texts and comments; texts by number (`$`).
* Of the modelled components: volumes and fades of sounds; the lip animation; talk of the engine itself
  (`sayLineAt`); flags of USE with two objects, which differ from GIVE in the order of the objects; the drawing half of
  the dialog manager; `override` and `allowobjects` of dialogs, which the player stores and never reads.
* Components of the plan that have no module yet; PROJECT.json "components" gives the status and reason of each.

## Plan

Done: Threads and the abstract Coroutines it implements, Cutscene, Callbacks, Sounds, Talking, Verbs, Costumes, Rooms, Camera, Slots, SavedGames, DialogFiles and Dialog, all with proofs of
their safety properties. To come, the most important first:

1. **Animations**: frames, loops and triggers of `AnimControl`, whose end a break, a talk and a reach wait for; a layer that has
   ended fires its last trigger again while others play.
2. **Motors**, one pattern (start, update, end, replaced under way), with an abstract specification that all of them implement.
3. **Menus and preferences**: pages of the options, quit, save and load dialogs.
4. **Triggers and lights**, the rest of Rooms: the array of lights, `deleteObject`.

Runs stay few: small components are composed in one instance, and a run is added for a question that no other run asks.
