------------------------------ MODULE Threads ------------------------------
(***************************************************************************)
(* The cooperative threads of the engine: Squirrel coroutines started by   *)
(* scripts, and the break functions that put them to sleep and wake them.  *)
(*                                                                         *)
(* A script runs until it calls a breakXXX native, which suspends its      *)
(* thread and queues a Function; Engine::update runs every queued Function *)
(* once a frame, and the one whose condition holds resumes its thread,     *)
(* synchronously, inside the pass over the list.                           *)
(*                                                                         *)
(* One frame is  idle -> input -> pre -> fns -> post -> idle :             *)
(*   input  after stopThreads and before the frame counter moves (the      *)
(*          option dialogs run here; a paused engine goes on to updateKeys *)
(*          and ends the frame)                                            *)
(*   pre    up to updateFunctions (mouse handling, updateCutscene)         *)
(*   fns    the pass over _functions                                       *)
(*   post   callbacks, sentence, keys, room and actors, click handling     *)
(* Scripts run on the main VM in input, pre and post, and in a thread      *)
(* whenever one is resumed or started.                                     *)
(*                                                                         *)
(* Identifiers are given in increasing order, so two orders need no state  *)
(* of their own: _functions keeps the order of creation (push_back, then a *)
(* stable remove_if), and of the nested running threads the innermost is   *)
(* the youngest, because a running thread only ever starts fresh ones.     *)
(***************************************************************************)
EXTENDS Naturals

CONSTANTS
  MaxThreads,   (* bound on the threads ever started                       *)
  MaxBreaks,    (* bound on the break functions ever created               *)
  MaxDelay,     (* longest breakhere or breaktime, in frames               *)
  Conds,        (* what breakwhileXXX may wait for: an actor to stop       *)
                (* walking or talking, a sound, the camera, a dialog...    *)
  ScriptConds,  (* those a script call can make true (actorStopWalking,    *)
                (* stopSound, inputOn...); the others, a dialog or a       *)
                (* cutscene that ends, change between two passes only      *)
  NoCond        (* the break does not wait for a condition                 *)

ASSUME ThreadsAssumption ==
  /\ MaxThreads \in Nat
  /\ MaxBreaks \in Nat
  /\ MaxDelay \in Nat
  /\ ScriptConds \subseteq Conds
  /\ NoCond \notin Conds

VARIABLES
  phase,      (* where Engine::update is in the frame                      *)
  cursor,     (* last function the pass over _functions has run            *)
  cond,       (* does what a breakwhileXXX waits for hold?                 *)
  nThreads,   (* threads started so far: their identifiers are 1..nThreads *)
  thread,     (* each thread's coroutine state and flags                   *)
  nFns,       (* break functions created so far                            *)
  fn          (* each break function                                       *)

vars == <<phase, cursor, cond, nThreads, thread, nFns, fn>>

Tids == 1..nThreads
Fids == 1..nFns

(* "gone" is a thread erased from _threads, and destroyed with it.         *)
ThreadRecord ==
  [status  : {"running", "suspended", "finished", "gone"},
   stopped : BOOLEAN,     (* ThreadBase::m_isStopped                       *)
   global  : BOOLEAN]     (* Thread::_isGlobal                             *)

FnRecord ==
  [kind  : {"here", "time", "while", "running"},
   owner : Nat,                    (* _threadId, the thread to resume      *)
   arg   : Nat,                    (* frames, time, or the thread awaited  *)
   cond  : Conds \cup {NoCond},    (* the condition of a breakwhileXXX     *)
   age   : Nat,                    (* frames counted since the break       *)
   ticks : Nat,                    (* TimeFunction::_elapsed, in passes    *)
   done  : BOOLEAN,                (* _done                                *)
   where : {"new", "list", "erased"}]  (* _newFunctions, _functions        *)

-----------------------------------------------------------------------------
(* Threads                                                                 *)

(* EntityManager::getThreadFromId finds the threads still in _threads.     *)
Found(t) == t \in Tids /\ thread[t].status # "gone"

(* Mutant: the flag of stopthread is forgotten.                            *)
IsStoppedIgnoresFlag(t) == thread[t].status = "finished"

(* ThreadBase::isStopped                                                   *)
IsStopped(t) == thread[t].stopped \/ thread[t].status = "finished"

(* The threads whose call or wake-up is on the C++ stack, innermost last.  *)
Running == {t \in Tids : thread[t].status = "running"}
Current(t) == t \in Running /\ \A u \in Running : u <= t

(* A script may act: in the innermost thread, or else on the main VM.      *)
ScriptMayAct == Running # {} \/ phase \in {"input", "pre", "post"}

(* ThreadBase::resume: the coroutine goes on if it is suspended.           *)
Resume(t) ==
  IF Found(t) /\ thread[t].status = "suspended"
  THEN thread' = [thread EXCEPT ![t].status = "running"]
  ELSE UNCHANGED thread

(* The function f with element x appended.                                 *)
Extend(f, n, x) == [i \in 1..(n + 1) |-> IF i = n + 1 THEN x ELSE f[i]]

-----------------------------------------------------------------------------
(* Break functions                                                         *)

Queued(f) == fn[f].where \in {"new", "list"}
Listed(f) == fn[f].where = "list"

(* Mutants of Elapsed: breakhere waits a frame too many; breakwhileXXX     *)
(* waits for the condition to fail.                                        *)
ElapsedHereLate(b) ==
  \/ b.kind = "here" /\ b.age > b.arg
  \/ b.kind = "time" /\ b.ticks > b.arg
  \/ b.kind = "while" /\ cond[b.cond]
  \/ b.kind = "running" /\ b.done

ElapsedWhileNegated(b) ==
  \/ b.kind = "here" /\ b.age >= b.arg
  \/ b.kind = "time" /\ b.ticks > b.arg
  \/ b.kind = "while" /\ ~cond[b.cond]
  \/ b.kind = "running" /\ b.done

(* isElapsed of each kind, for a break function record.                    *)
Elapsed(b) ==
  \/ b.kind = "here" /\ b.age >= b.arg
  \/ b.kind = "time" /\ b.ticks > b.arg
  \/ b.kind = "while" /\ cond[b.cond]
  \/ b.kind = "running" /\ b.done

(* Mutant: breakwhilerunning misses a thread that is already destroyed.    *)
FiresOnLiveThreads(b) ==
  IF b.kind = "running"
  THEN Found(b.arg) /\ IsStopped(b.arg)
  ELSE Elapsed(b)

(* Mutant: breakwhilerunning takes a sleeping thread for one that is over. *)
FiresWhenAsleep(b) ==
  IF b.kind = "running"
  THEN ~Found(b.arg) \/ IsStopped(b.arg) \/ thread[b.arg].status = "suspended"
  ELSE Elapsed(b)

(* What wakes the owner when the function is run.                          *)
Fires(b) ==
  IF b.kind = "running"
  THEN ~Found(b.arg) \/ IsStopped(b.arg)
  ELSE Elapsed(b)

(* Suspend the running thread t on a fresh function.                       *)
Break(t, kind, arg, c) ==
  /\ Current(t)
  /\ nFns < MaxBreaks
  /\ thread' = [thread EXCEPT ![t].status = "suspended"]
  /\ nFns' = nFns + 1
  /\ fn' = Extend(fn, nFns,
                  [kind |-> kind, owner |-> t, arg |-> arg, cond |-> c,
                   age |-> 0, ticks |-> 0, done |-> FALSE, where |-> "new"])
  /\ UNCHANGED <<phase, cursor, cond, nThreads>>

-----------------------------------------------------------------------------
Init ==
  /\ phase = "idle"
  /\ cursor = 0
  /\ cond \in [Conds -> BOOLEAN]
  /\ nThreads = 0
  /\ thread = [t \in 1..0 |-> {}]
  /\ nFns = 0
  /\ fn = [f \in 1..0 |-> {}]

-----------------------------------------------------------------------------
(* What scripts do                                                         *)

(* startthread and startglobalthread: the thread is added to _threads,     *)
(* then called: it runs at once, nested in its caller.                     *)
StartThread(isGlobal) ==
  /\ ScriptMayAct
  /\ nThreads < MaxThreads
  /\ nThreads' = nThreads + 1
  /\ thread' = Extend(thread, nThreads, [status  |-> "running",
                                         stopped |-> FALSE,
                                         global  |-> isGlobal])
  /\ UNCHANGED <<phase, cursor, cond, nFns, fn>>

(* stopthread only raises a flag, on the caller itself too.                *)
StopThread(t) ==
  /\ ScriptMayAct
  /\ Found(t)
  /\ thread' = [thread EXCEPT ![t].stopped = TRUE]
  /\ UNCHANGED <<phase, cursor, cond, nThreads, nFns, fn>>

(* The end of Engine::Impl::exitRoom: every local thread is stopped, the   *)
(* one that is changing room included.                                     *)
ExitRoom ==
  /\ ScriptMayAct
  /\ thread' = [t \in Tids |->
                  IF Found(t) /\ ~thread[t].global
                  THEN [thread[t] EXCEPT !.stopped = TRUE]
                  ELSE thread[t]]
  /\ UNCHANGED <<phase, cursor, cond, nThreads, nFns, fn>>

(* A native that starts or stops what a breakwhileXXX waits for.           *)
ScriptChanges(c) ==
  /\ ScriptMayAct
  /\ c \in ScriptConds
  /\ cond' = [cond EXCEPT ![c] = ~@]
  /\ UNCHANGED <<phase, cursor, nThreads, thread, nFns, fn>>

(* breakhere(n) and breaktime(n)                                           *)
BreakHere == \E t \in Tids, n \in 0..MaxDelay : Break(t, "here", n, NoCond)
BreakTime == \E t \in Tids, n \in 0..MaxDelay : Break(t, "time", n, NoCond)

(* breakwhilewalking, talking, sound, camera, inputoff, dialog...          *)
BreakWhile == \E t \in Tids, c \in Conds : Break(t, "while", 0, c)

(* breakwhilerunning(u) does not suspend when u is no longer in _threads.  *)
BreakWhileRunning ==
  \E t, u \in Tids : Found(u) /\ Break(t, "running", u, NoCond)

(* The script of the innermost thread returns.                             *)
Return ==
  /\ \E t \in Tids : Current(t) /\ thread' = [thread EXCEPT ![t].status = "finished"]
  /\ UNCHANGED <<phase, cursor, cond, nThreads, nFns, fn>>

-----------------------------------------------------------------------------
(* What the frame does                                                     *)

(* Engine::Impl::stopThreads erases the threads that are stopped.          *)
StopThreads ==
  /\ phase = "idle"
  /\ phase' = "input"
  /\ thread' = [t \in Tids |-> IF IsStopped(t)
                               THEN [thread[t] EXCEPT !.status = "gone"]
                               ELSE thread[t]]
  /\ UNCHANGED <<cursor, cond, nThreads, nFns, fn>>

(* A paused engine skips the rest of the frame but for the keys.           *)
SkipFrame ==
  /\ phase = "input" /\ Running = {}
  /\ phase' = "post"
  /\ UNCHANGED <<cursor, cond, nThreads, thread, nFns, fn>>

(* _frameCounter++: getFrameCounter() - _fc grows for every breakhere.     *)
CountFrame ==
  /\ phase = "input" /\ Running = {}
  /\ phase' = "pre"
  /\ fn' = [f \in Fids |->
              IF Queued(f) /\ fn[f].kind \in {"here", "time"}
              THEN [fn[f] EXCEPT !.age = @ + 1]
              ELSE fn[f]]
  /\ UNCHANGED <<cursor, cond, nThreads, thread, nFns>>

(* updateFunctions first moves _newFunctions to the end of _functions.     *)
StartFunctions ==
  /\ phase = "pre" /\ Running = {}
  /\ phase' = "fns"
  /\ cursor' = 0
  /\ fn' = [f \in Fids |->
              IF fn[f].where = "new" THEN [fn[f] EXCEPT !.where = "list"]
                                     ELSE fn[f]]
  /\ UNCHANGED <<cond, nThreads, thread, nFns>>

(* The functions the pass has still to run, and the next of them.          *)
Ahead == {f \in Fids : Listed(f) /\ f > cursor}

(* operator() of the function itself: time passes for breaktime, and the   *)
(* first call that finds the break over marks it done.                     *)
Stepped(b) ==
  LET now == IF b.kind = "time" THEN [b EXCEPT !.ticks = @ + 1] ELSE b
  IN  IF b.done THEN b
      ELSE [now EXCEPT !.done = Fires(now)]

(* Mutant: the thread is resumed and the function not marked done.         *)
RunFunctionNotDone(f) ==
  /\ phase = "fns" /\ Running = {}
  /\ f \in Ahead /\ \A g \in Ahead : f <= g
  /\ cursor' = f
  /\ fn' = [fn EXCEPT ![f] = [Stepped(fn[f]) EXCEPT !.done = FALSE]]
  /\ IF ~fn[f].done /\ Stepped(fn[f]).done
     THEN Resume(fn[f].owner)
     ELSE UNCHANGED thread
  /\ UNCHANGED <<phase, cond, nThreads, nFns>>

RunFunction(f) ==
  /\ phase = "fns" /\ Running = {}
  /\ f \in Ahead /\ \A g \in Ahead : f <= g
  /\ cursor' = f
  /\ fn' = [fn EXCEPT ![f] = Stepped(fn[f])]
  /\ IF ~fn[f].done /\ Stepped(fn[f]).done
     THEN Resume(fn[f].owner)
     ELSE UNCHANGED thread
  /\ UNCHANGED <<phase, cond, nThreads, nFns>>

(* Mutant: what the scripts have queued during the pass is dropped too.    *)
EraseAlsoNew ==
  /\ phase = "fns" /\ Running = {} /\ Ahead = {}
  /\ phase' = "post"
  /\ fn' = [f \in Fids |->
              IF fn[f].where = "new" \/ (Listed(f) /\ Elapsed(fn[f]))
              THEN [fn[f] EXCEPT !.where = "erased"]
              ELSE fn[f]]
  /\ UNCHANGED <<cursor, cond, nThreads, thread, nFns>>

(* remove_if: what is elapsed now, whatever operator() has seen, is erased.*)
EraseElapsed ==
  /\ phase = "fns" /\ Running = {} /\ Ahead = {}
  /\ phase' = "post"
  /\ fn' = [f \in Fids |->
              IF Listed(f) /\ Elapsed(fn[f])
              THEN [fn[f] EXCEPT !.where = "erased"]
              ELSE fn[f]]
  /\ UNCHANGED <<cursor, cond, nThreads, thread, nFns>>

EndFrame ==
  /\ phase = "post" /\ Running = {}
  /\ phase' = "idle"
  /\ UNCHANGED <<cursor, cond, nThreads, thread, nFns, fn>>

(* The rooms, actors, sounds, camera and dialogs move on between passes.   *)
WorldChanges(c) ==
  /\ phase \in {"pre", "post"} /\ Running = {}
  /\ cond' = [cond EXCEPT ![c] = ~@]
  /\ UNCHANGED <<phase, cursor, nThreads, thread, nFns, fn>>

-----------------------------------------------------------------------------
ThreadLeaves == BreakHere \/ BreakTime \/ BreakWhile \/ BreakWhileRunning \/ Return

Script ==
  \/ \E isGlobal \in BOOLEAN : StartThread(isGlobal)
  \/ \E t \in Tids : StopThread(t)
  \/ ExitRoom
  \/ \E c \in Conds : ScriptChanges(c)
  \/ ThreadLeaves

Pass == StartFunctions \/ (\E f \in Fids : RunFunction(f)) \/ EraseElapsed

Frame == StopThreads \/ CountFrame \/ Pass \/ EndFrame

Next == Script \/ Frame \/ SkipFrame \/ \E c \in Conds : WorldChanges(c)

Spec == Init /\ [][Next]_vars
-----------------------------------------------------------------------------
(* Correctness                                                             *)

TypeOK ==
  /\ phase \in {"idle", "input", "pre", "fns", "post"}
  /\ cursor \in Nat
  /\ cond \in [Conds -> BOOLEAN]
  /\ nThreads \in Nat
  /\ thread \in [Tids -> ThreadRecord]
  /\ nFns \in Nat
  /\ fn \in [Fids -> FnRecord]

Suspended(t) == t \in Tids /\ thread[t].status = "suspended"

(* f is the break its owner waits on: it has not resumed it.               *)
Unfinished(f) == ~fn[f].done

(* What f waits for cannot come true, and go unnoticed, during the pass.   *)
Dependable(b) == b.kind = "while" => b.cond \notin ScriptConds

(* A sleeping thread has a function in the engine's lists that will wake   *)
(* it. Only a break on a condition that scripts change can lose it: the    *)
(* condition holds when remove_if asks, but did not when operator() did.   *)
SleeperHasWaker ==
  \A t \in Tids : Suspended(t) =>
    \E f \in Fids : /\ fn[f].owner = t
                    /\ Unfinished(f)
                    /\ Dependable(fn[f]) => Queued(f)

(* A thread waits on one break at a time, and a break that has not fired   *)
(* belongs to a thread that is still asleep (or destroyed): no function    *)
(* resumes a thread twice, or out of a later break than its own.           *)
OneWaker ==
  \A f \in Fids : Unfinished(f) =>
    /\ fn[f].owner \notin Running
    /\ Found(fn[f].owner) => Suspended(fn[f].owner)
    /\ \A g \in Fids : Unfinished(g) /\ fn[g].owner = fn[f].owner => g = f

(* The threads this step resumes from a break of some kind.                *)
Resumes(f) == /\ Unfinished(f)
              /\ Suspended(fn[f].owner)
              /\ thread'[fn[f].owner].status = "running"

(* breakhere(n) wakes its thread when the frame counter has moved by n,    *)
(* never later and never earlier; breakhere(0) waits for the next pass.    *)
HereWakeIsExact ==
  \A f \in Fids : Resumes(f) /\ fn[f].kind = "here" =>
    \/ fn[f].age = fn[f].arg
    \/ fn[f].arg = 0 /\ fn[f].age = 1

(* breaktime(n), with frames one tick long, wakes its thread at the first  *)
(* pass that makes the time elapsed exceed n: n or n + 1 frames later,     *)
(* according to whether the break came before the pass of its own frame.   *)
TimeWakeIsExact ==
  \A f \in Fids : Resumes(f) /\ fn[f].kind = "time" =>
    fn[f].age \in {fn[f].arg, fn[f].arg + 1}

(* Neither break comes back early, nor late, whatever else runs and stops. *)
BreaksAreExact == [][HereWakeIsExact /\ TimeWakeIsExact]_vars

-----------------------------------------------------------------------------
(* Threads implements Coroutines: a thread sleeps on the one function of   *)
(* its that has not fired.                                                 *)

BreakOf(t) == CHOOSE f \in Fids : fn[f].owner = t /\ Unfinished(f)

SleepsOn(f) ==
  [break  |-> f,
   frames |-> IF fn[f].kind \in {"here", "time"} /\ fn[f].age < fn[f].arg
              THEN fn[f].arg - fn[f].age ELSE 0,
   thread |-> IF fn[f].kind = "running" THEN fn[f].arg ELSE 0]

Promise == INSTANCE Coroutines WITH
  born    <- nThreads,
  running <- Running,
  asleep  <- [t \in {u \in Tids : Suspended(u)} |-> SleepsOn(BreakOf(t))],
  over    <- {t \in Tids : IsStopped(t) \/ ~Found(t)},
  breaks  <- nFns

(* What scripts are promised of threads and breaks is kept by the lists,   *)
(* the passes and the flags of the engine: every step is one that          *)
(* Coroutines allows, or changes nothing that Coroutines speaks of.        *)
KeepsPromise == Promise!Spec

-----------------------------------------------------------------------------
(* Liveness. The frame loop never stops and a script always ends its slice *)
(* (the engine is one thread, it would hang otherwise); a player who       *)
(* pauses the game resumes it some day, hence strong fairness on the frame *)
(* counter, which a paused frame skips.                                    *)

Fairness ==
  /\ WF_vars(StopThreads) /\ WF_vars(EndFrame) /\ WF_vars(Pass)
  /\ WF_vars(ThreadLeaves)
  /\ SF_vars(CountFrame)

FairSpec == Spec /\ Fairness

AllTids == 1..MaxThreads

(* The thread sleeps in a breakhere or a breaktime, or in the              *)
(* breakwhilerunning of a thread that has ended.                           *)
MayWake(t) ==
  Suspended(t) /\ \E f \in Fids :
    /\ fn[f].owner = t /\ Unfinished(f)
    /\ \/ fn[f].kind \in {"here", "time"}
       \/ fn[f].kind = "running" /\ (~Found(fn[f].arg) \/ IsStopped(fn[f].arg))

(* breakhere and breaktime always come back, unless the thread is stopped, *)
(* and breakwhilerunning does once the other thread has ended.             *)
SleepersWake == \A t \in AllTids : MayWake(t) ~> ~Suspended(t)

(* A break on a condition only the frame changes ends if that condition    *)
(* comes true and stays true.                                              *)
WaitsFor(t, c) ==
  Suspended(t) /\ \E f \in Fids : fn[f].owner = t /\ fn[f].cond = c /\ Unfinished(f)
FrameConditionsAreSeen ==
  \A t \in AllTids, c \in Conds \ ScriptConds :
    WaitsFor(t, c) /\ cond[c] ~> ~(WaitsFor(t, c) /\ cond[c])

(* A stopped thread is erased: the flag alone is enough.                   *)
StoppedThreadsGo ==
  \A t \in AllTids : (t \in Tids /\ thread[t].stopped) ~> ~Found(t)

=============================================================================
