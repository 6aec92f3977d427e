----------------------------- MODULE Callbacks -----------------------------
(***************************************************************************)
(* Callbacks: a script asks, with addCallback, for a function of the root  *)
(* table to be called after a delay, and may take it back with             *)
(* removeCallback. Once a frame, after the break functions (module         *)
(* Threads), Engine::Impl::updateFunctions moves every callback out of     *)
(* _callbacks, adds the time of the frame to it, runs the ones whose time  *)
(* is over and puts the others back. The functions that run are scripts:   *)
(* they add, remove and save callbacks while the pass over them is under   *)
(* way, and see only those added since it began.                           *)
(*                                                                         *)
(* Callbacks are in saved games, with the counter their identifiers come   *)
(* from. A vector of callbacks is a function from their identifiers: those *)
(* due in one frame run in any order.                                      *)
(***************************************************************************)
EXTENDS Naturals

CONSTANTS
  MaxIds,      (* bound on the identifiers ever given                      *)
  Delays,      (* the delays scripts ask for                               *)
  Ticks,       (* how long a frame may last                                *)
  MaxLoads     (* bound on the games loaded                                *)

ASSUME CallbacksAssumption ==
  /\ MaxIds \in Nat
  /\ Delays \subseteq Nat
  /\ Ticks \subseteq Nat \ {0}
  /\ MaxLoads \in Nat

VARIABLES
  callbacks,   (* _callbacks                                               *)
  nextId,      (* EntityManager::_callbackId                               *)
  inPass,      (* is updateFunctions going through the callbacks?          *)
  passing,     (* the local vector it goes through                         *)
  running,     (* the callback whose function runs, 0 if none does         *)
  saveFile,    (* the last saved game                                      *)
  nLoads,      (* games loaded so far                                      *)
  fate         (* history: what has become of each identifier              *)

vars == <<callbacks, nextId, inPass, passing, running, saveFile, nLoads, fate>>

Ids == 1..MaxIds

Callback == [elapsed : Nat, time : Nat, done : BOOLEAN]

NoCallbacks == [id \in {} |-> [elapsed |-> 0, time |-> 0, done |-> FALSE]]

Elapsed(c) == c.elapsed > c.time

(* "new" has not been in a pass, "due" has; "lost" was left out of a save. *)
Fates == {"none", "new", "due", "ran", "removed", "lost"}

Waiting == {id \in Ids : fate[id] \in {"new", "due"}}

NoSave == [saved |-> FALSE]

(* A saved game keeps the time of each callback and the next identifier.   *)
IsSave(f) ==
  /\ f.saved
  /\ DOMAIN f.time \subseteq Ids
  /\ f.time \in [DOMAIN f.time -> Nat]
  /\ f.nextId \in 1..(MaxIds + 1)
  /\ f.fate \in [Ids -> Fates]

(* Scripts run outside the pass, and in the function of a callback.        *)
ScriptMayAct == ~inPass \/ running # 0

Init ==
  /\ callbacks = NoCallbacks
  /\ nextId = 1
  /\ inPass = FALSE
  /\ passing = NoCallbacks
  /\ running = 0
  /\ saveFile = NoSave
  /\ nLoads = 0
  /\ fate = [id \in Ids |-> "none"]

-----------------------------------------------------------------------------
(* What scripts do                                                         *)

AddCallback(duration) ==
  /\ ScriptMayAct
  /\ nextId \in Ids
  /\ nextId' = nextId + 1
  /\ callbacks' = [id \in DOMAIN callbacks \cup {nextId} |->
                     IF id = nextId
                     THEN [elapsed |-> 0, time |-> duration, done |-> FALSE]
                     ELSE callbacks[id]]
  /\ fate' = [fate EXCEPT ![nextId] = "new"]
  /\ UNCHANGED <<inPass, passing, running, saveFile, nLoads>>

(* removeCallback does nothing when the callback is not in _callbacks: it  *)
(* has run, or it is in the pass under way, and then it stays.             *)
RemoveCallback(id) ==
  /\ ScriptMayAct
  /\ id \in DOMAIN callbacks
  /\ callbacks' = [i \in DOMAIN callbacks \ {id} |-> callbacks[i]]
  /\ fate' = [fate EXCEPT ![id] = "removed"]
  /\ UNCHANGED <<nextId, inPass, passing, running, saveFile, nLoads>>

(* saveGame, from the menu or by exCommand(EX_AUTOSAVE). The "time" of a   *)
(* callback is how long it has waited. Those in the pass are left out.     *)
SaveCallbacks ==
  /\ ScriptMayAct
  /\ saveFile' = [saved |-> TRUE,
                  time |-> [id \in DOMAIN callbacks |-> callbacks[id].elapsed],
                  nextId |-> nextId,
                  fate |-> [id \in Ids |->
                              IF id \in Waiting \ DOMAIN callbacks
                              THEN "lost" ELSE fate[id]]]
  /\ UNCHANGED <<callbacks, nextId, inPass, passing, running, nLoads, fate>>

(* Mutant: the counter of identifiers is not restored.                     *)
LoadKeepsCounter ==
  /\ ~inPass
  /\ saveFile.saved
  /\ nLoads < MaxLoads
  /\ nLoads' = nLoads + 1
  /\ callbacks' = [id \in DOMAIN saveFile.time |->
                     [elapsed |-> 0, time |-> saveFile.time[id], done |-> FALSE]]
  /\ fate' = saveFile.fate
  /\ UNCHANGED <<nextId, inPass, passing, running, saveFile>>

(* loadGame, from a menu: the time saved becomes the delay.                *)
LoadCallbacks ==
  /\ ~inPass
  /\ saveFile.saved
  /\ nLoads < MaxLoads
  /\ nLoads' = nLoads + 1
  /\ callbacks' = [id \in DOMAIN saveFile.time |->
                     [elapsed |-> 0, time |-> saveFile.time[id], done |-> FALSE]]
  /\ nextId' = saveFile.nextId
  /\ fate' = saveFile.fate
  /\ UNCHANGED <<inPass, passing, running, saveFile>>

(* The program is quit, or killed, and started again.                      *)
Restart ==
  /\ callbacks' = NoCallbacks
  /\ nextId' = 1
  /\ inPass' = FALSE
  /\ passing' = NoCallbacks
  /\ running' = 0
  /\ fate' = [id \in Ids |-> "none"]
  /\ UNCHANGED <<saveFile, nLoads>>

CallbackReturns ==
  /\ running # 0
  /\ running' = 0
  /\ UNCHANGED <<callbacks, nextId, inPass, passing, saveFile, nLoads, fate>>

-----------------------------------------------------------------------------
(* The pass                                                                *)

(* Mutant: a callback counts one frame only.                               *)
BeginPassForgets(tick) ==
  /\ ~inPass
  /\ inPass' = TRUE
  /\ passing' = [id \in DOMAIN callbacks |->
                   [callbacks[id] EXCEPT !.elapsed = tick]]
  /\ callbacks' = NoCallbacks
  /\ fate' = [id \in Ids |-> IF id \in DOMAIN callbacks THEN "due" ELSE fate[id]]
  /\ UNCHANGED <<nextId, running, saveFile, nLoads>>

(* _callbacks is moved out and emptied, and the time of the frame counted. *)
BeginPass(tick) ==
  /\ ~inPass
  /\ inPass' = TRUE
  /\ passing' = [id \in DOMAIN callbacks |->
                   [callbacks[id] EXCEPT !.elapsed = @ + tick]]
  /\ callbacks' = NoCallbacks
  /\ fate' = [id \in Ids |-> IF id \in DOMAIN callbacks THEN "due" ELSE fate[id]]
  /\ UNCHANGED <<nextId, running, saveFile, nLoads>>

(* isElapsed calls the function the first time it says yes.                *)
Due(id) == id \in DOMAIN passing /\ Elapsed(passing[id]) /\ ~passing[id].done

(* Mutant: nothing remembers that the function has been called.            *)
OnElapsedAgain(id) ==
  /\ inPass /\ running = 0
  /\ Due(id)
  /\ running' = id
  /\ fate' = [fate EXCEPT ![id] = "ran"]
  /\ UNCHANGED <<callbacks, nextId, inPass, passing, saveFile, nLoads>>

OnElapsed(id) ==
  /\ inPass /\ running = 0
  /\ Due(id)
  /\ passing' = [passing EXCEPT ![id].done = TRUE]
  /\ running' = id
  /\ fate' = [fate EXCEPT ![id] = "ran"]
  /\ UNCHANGED <<callbacks, nextId, inPass, saveFile, nLoads>>

Survivors == {id \in DOMAIN passing : ~Elapsed(passing[id])}

(* Mutants: the survivors take the place of the callbacks added since; the *)
(* pass stops before every callback that is due has run.                   *)
EndPassOverwrites ==
  /\ inPass /\ running = 0
  /\ \A id \in DOMAIN passing : ~Due(id)
  /\ inPass' = FALSE
  /\ callbacks' = [id \in Survivors |-> passing[id]]
  /\ passing' = NoCallbacks
  /\ UNCHANGED <<nextId, running, saveFile, nLoads, fate>>

EndPassOneAFrame ==
  /\ inPass /\ running = 0
  /\ inPass' = FALSE
  /\ LET kept == {id \in DOMAIN passing : ~passing[id].done}
     IN  callbacks' = [id \in DOMAIN callbacks \cup kept |->
           IF id \in DOMAIN callbacks THEN callbacks[id] ELSE passing[id]]
  /\ passing' = NoCallbacks
  /\ UNCHANGED <<nextId, running, saveFile, nLoads, fate>>

(* The survivors join the callbacks added since.                           *)
EndPass ==
  /\ inPass /\ running = 0
  /\ \A id \in DOMAIN passing : ~Due(id)
  /\ inPass' = FALSE
  /\ callbacks' = [id \in DOMAIN callbacks \cup Survivors |->
                     IF id \in DOMAIN callbacks THEN callbacks[id] ELSE passing[id]]
  /\ passing' = NoCallbacks
  /\ UNCHANGED <<nextId, running, saveFile, nLoads, fate>>

-----------------------------------------------------------------------------
UpdateFunctions ==
  \/ \E tick \in Ticks : BeginPass(tick)
  \/ \E id \in Ids : OnElapsed(id)
  \/ EndPass

Next ==
  \/ \E duration \in Delays : AddCallback(duration)
  \/ \E id \in Ids : RemoveCallback(id)
  \/ SaveCallbacks
  \/ LoadCallbacks
  \/ Restart
  \/ CallbackReturns
  \/ UpdateFunctions

Spec == Init /\ [][Next]_vars

-----------------------------------------------------------------------------
(* Correctness                                                             *)

AreCallbacks(f) == DOMAIN f \subseteq Ids /\ f \in [DOMAIN f -> Callback]

TypeOK ==
  /\ AreCallbacks(callbacks)
  /\ nextId \in 1..(MaxIds + 1)
  /\ inPass \in BOOLEAN
  /\ AreCallbacks(passing)
  /\ running \in Ids \cup {0}
  /\ saveFile = NoSave \/ IsSave(saveFile)
  /\ nLoads \in 0..MaxLoads
  /\ fate \in [Ids -> Fates]

Pending == DOMAIN callbacks \cup {id \in DOMAIN passing : ~passing[id].done}

(* updateFunctions moves the callbacks out and back while scripts add,     *)
(* remove, save and load them: each one asked for and neither run, removed *)
(* nor left out of the game loaded is still there, and no other is.        *)
NoneLost == Pending = Waiting

(* removeCallback and the pass know a callback by its identifier: no two   *)
(* have the same one, nor will the next, even in a game loaded.            *)
IdsAreFresh ==
  /\ DOMAIN callbacks \cap DOMAIN passing = {}
  /\ \A id \in DOMAIN callbacks \cup DOMAIN passing : id < nextId

(* Once a frame's pass is over no callback is late: several callbacks may  *)
(* come due in one frame and all have run.                                 *)
NoneOverdue == ~inPass => \A id \in DOMAIN callbacks : ~Elapsed(callbacks[id])

(* A callback runs once, never after a removal that found it, and not in   *)
(* the pass in which another callback added it.                            *)
RunsOnce ==
  [][\A id \in Ids : running' = id /\ running # id => fate[id] = "due"]_vars

-----------------------------------------------------------------------------
(* Liveness: frames follow each other, and scripts return.                 *)

Fairness == WF_vars(UpdateFunctions) /\ WF_vars(CallbackReturns)

FairSpec == Spec /\ Fairness

(* A callback that waits runs, is removed, or is lost by a load.           *)
WaitingRuns == \A id \in Ids : id \in Waiting ~> id \notin Waiting

=============================================================================
