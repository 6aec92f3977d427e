--------------------------- MODULE ThreadsProofs ---------------------------
(***************************************************************************)
(* Proofs about Threads, for any number of threads and breaks.             *)
(***************************************************************************)
EXTENDS Threads, TLAPS

(* Every break function has an owner, and waits for a condition exactly    *)
(* when it is a breakwhileXXX.                                             *)
WellFormed ==
  \A f \in Fids : /\ fn[f].owner \in Tids
                  /\ fn[f].kind = "while" => fn[f].cond \in Conds
                  /\ fn[f].kind = "running" => fn[f].arg \in Tids

(* What the pass has left behind is not over yet: remove_if keeps it.      *)
PassedNotElapsed ==
  phase = "fns" =>
    \A f \in Fids : Listed(f) /\ f <= cursor /\ Unfinished(f) /\ Dependable(fn[f])
                      => ~Elapsed(fn[f])

(* The pass of this frame has still to reach f.                            *)
BeforePass(f) == phase = "pre" \/ (phase = "fns" /\ Listed(f) /\ f > cursor)

(* A breakhere is never overdue once the pass has seen it.                 *)
HereOnTime ==
  \A f \in Fids : fn[f].kind = "here" /\ Queued(f) /\ Unfinished(f) =>
    IF BeforePass(f) THEN fn[f].age <= fn[f].arg \/ (fn[f].arg = 0 /\ fn[f].age = 1)
                     ELSE fn[f].age < fn[f].arg \/ (fn[f].arg = 0 /\ fn[f].age = 0)

(* A breaktime has seen as many passes as frames, give or take the pass of *)
(* its own frame, and is not over.                                         *)
TimeOnTime ==
  \A f \in Fids : fn[f].kind = "time" /\ Queued(f) /\ Unfinished(f) =>
    /\ fn[f].ticks <= fn[f].arg
    /\ IF BeforePass(f) THEN fn[f].age \in {fn[f].ticks, fn[f].ticks + 1}
                        ELSE fn[f].ticks \in {fn[f].age, fn[f].age + 1}

(* The inductive invariant: a suspended thread and its one waker, and how  *)
(* far that waker is from firing.                                          *)
WakeInv ==
  /\ TypeOK
  /\ WellFormed
  /\ OneWaker
  /\ SleeperHasWaker
  /\ PassedNotElapsed
  /\ HereOnTime
  /\ TimeOnTime

USE DEF Tids, Fids

LEMMA InitWakeInv == Init => WakeInv
BY ThreadsAssumption DEF Init, WakeInv, TypeOK, WellFormed, OneWaker, SleeperHasWaker,
   PassedNotElapsed, HereOnTime, TimeOnTime, Suspended

-----------------------------------------------------------------------------
(* Records and functions after an update, field by field.                  *)

Statuses == {"running", "suspended", "finished", "gone"}

LEMMA StatusRecord ==
  ASSUME NEW r \in ThreadRecord, NEW s \in Statuses
  PROVE  /\ [r EXCEPT !.status = s] \in ThreadRecord
         /\ [r EXCEPT !.status = s].status = s
         /\ [r EXCEPT !.status = s].stopped = r.stopped
BY DEF ThreadRecord, Statuses

LEMMA StoppedRecord ==
  ASSUME NEW r \in ThreadRecord
  PROVE  /\ [r EXCEPT !.stopped = TRUE] \in ThreadRecord
         /\ [r EXCEPT !.stopped = TRUE].status = r.status
BY DEF ThreadRecord

LEMMA WhereRecord ==
  ASSUME NEW b \in FnRecord, NEW w \in {"new", "list", "erased"}
  PROVE  LET c == [b EXCEPT !.where = w] IN
         /\ c \in FnRecord /\ c.where = w
         /\ c.kind = b.kind /\ c.owner = b.owner /\ c.arg = b.arg /\ c.cond = b.cond
         /\ c.age = b.age /\ c.ticks = b.ticks /\ c.done = b.done
BY DEF FnRecord

LEMMA AgeRecord ==
  ASSUME NEW b \in FnRecord
  PROVE  LET c == [b EXCEPT !.age = @ + 1] IN
         /\ c \in FnRecord /\ c.age = b.age + 1
         /\ c.kind = b.kind /\ c.owner = b.owner /\ c.arg = b.arg /\ c.cond = b.cond
         /\ c.ticks = b.ticks /\ c.done = b.done /\ c.where = b.where
BY DEF FnRecord

LEMMA TickRecord ==
  ASSUME NEW b \in FnRecord
  PROVE  LET c == [b EXCEPT !.ticks = @ + 1] IN
         /\ c \in FnRecord /\ c.ticks = b.ticks + 1
         /\ c.kind = b.kind /\ c.owner = b.owner /\ c.arg = b.arg /\ c.cond = b.cond
         /\ c.age = b.age /\ c.done = b.done /\ c.where = b.where
BY DEF FnRecord

LEMMA DoneRecord ==
  ASSUME NEW b \in FnRecord, NEW d \in BOOLEAN
  PROVE  LET c == [b EXCEPT !.done = d] IN
         /\ c \in FnRecord /\ c.done = d
         /\ c.kind = b.kind /\ c.owner = b.owner /\ c.arg = b.arg /\ c.cond = b.cond
         /\ c.age = b.age /\ c.ticks = b.ticks /\ c.where = b.where
BY DEF FnRecord

(* One thread's status changes.                                            *)
LEMMA StatusUpdate ==
  ASSUME TypeOK, NEW t \in Tids, NEW s \in Statuses,
         thread' = [thread EXCEPT ![t].status = s], nThreads' = nThreads
  PROVE  /\ thread' \in [Tids -> ThreadRecord]
         /\ thread'[t].status = s
         /\ \A u \in Tids \ {t} : thread'[u] = thread[u]
         /\ \A u \in Tids : thread'[u].stopped = thread[u].stopped
<1> DEFINE r == [thread[t] EXCEPT !.status = s]
<1>1. thread \in [Tids -> ThreadRecord] /\ thread[t] \in ThreadRecord
  BY DEF TypeOK
<1>2. thread' = [thread EXCEPT ![t] = r]
  OBVIOUS
<1>3. r \in ThreadRecord /\ r.status = s /\ r.stopped = thread[t].stopped
  BY <1>1, StatusRecord
<1> HIDE DEF r
<1> QED
  BY <1>1, <1>2, <1>3

(* A function is run: what operator() does to it.                          *)
LEMMA SteppedRecord ==
  ASSUME NEW b \in FnRecord
  PROVE  /\ Stepped(b) \in FnRecord
         /\ Stepped(b).kind = b.kind /\ Stepped(b).owner = b.owner
         /\ Stepped(b).arg = b.arg /\ Stepped(b).cond = b.cond
         /\ Stepped(b).age = b.age /\ Stepped(b).where = b.where
         /\ b.done => Stepped(b) = b
         /\ ~b.done /\ b.kind = "here" => (Stepped(b).done <=> b.age >= b.arg)
         /\ ~b.done /\ b.kind = "time" => /\ Stepped(b).ticks = b.ticks + 1
                                          /\ Stepped(b).done <=> b.ticks + 1 > b.arg
         /\ ~b.done /\ ~Stepped(b).done => ~Elapsed(Stepped(b))
<1> DEFINE now == IF b.kind = "time" THEN [b EXCEPT !.ticks = @ + 1] ELSE b
           d == Fires(now)
           s == [now EXCEPT !.done = d]
<1>1. /\ now \in FnRecord
      /\ now.kind = b.kind /\ now.owner = b.owner /\ now.arg = b.arg /\ now.cond = b.cond
      /\ now.age = b.age /\ now.done = b.done /\ now.where = b.where
  BY TickRecord
<1>2. d \in BOOLEAN
  BY DEF Fires, Elapsed
<1> HIDE DEF now
<1>3. /\ s \in FnRecord /\ s.done = d
      /\ s.kind = b.kind /\ s.owner = b.owner /\ s.arg = b.arg /\ s.cond = b.cond
      /\ s.age = b.age /\ s.ticks = now.ticks /\ s.where = b.where
  <2> HIDE DEF d
  <2> QED BY <1>1, <1>2, DoneRecord
<1>4. CASE b.done
  BY <1>4 DEF Stepped
<1>5. CASE ~b.done
  <2>1. Stepped(b) = s
    BY <1>5 DEF Stepped, now
  <2>2. b.kind = "here" => (d <=> b.age >= b.arg)
    BY <1>1 DEF Fires, Elapsed
  <2>4. b.kind = "time" => now.ticks = b.ticks + 1 /\ (d <=> b.ticks + 1 > b.arg)
    <3> SUFFICES ASSUME b.kind = "time"
                 PROVE  now.ticks = b.ticks + 1 /\ (d <=> b.ticks + 1 > b.arg)
      OBVIOUS
    <3>1. now.ticks = b.ticks + 1
      BY TickRecord DEF now
    <3> QED
      BY <1>1, <3>1 DEF Fires, Elapsed
  <2>3. ~d => ~Elapsed(s)
    <3> SUFFICES ASSUME ~d PROVE ~Elapsed(s)
      OBVIOUS
    <3>1. CASE b.kind = "running"
      BY <1>3, <3>1 DEF Elapsed
    <3>2. CASE b.kind # "running"
      BY <1>1, <1>3, <3>2 DEF Fires, Elapsed
    <3> QED BY <3>1, <3>2
  <2> HIDE DEF s, d
  <2> QED
    BY <1>3, <1>5, <2>1, <2>2, <2>3, <2>4
<1> QED
  BY <1>4, <1>5

(* The record a break function starts with.                                *)
Fresh(t, kind, arg, c) ==
  [kind |-> kind, owner |-> t, arg |-> arg, cond |-> c,
   age |-> 0, ticks |-> 0, done |-> FALSE, where |-> "new"]

BreakKinds == {"here", "time", "while", "running"}

(* A break: one more function, its owner asleep, the rest as before.       *)
LEMMA BreakEffect ==
  ASSUME TypeOK, NEW t \in Tids, NEW kind \in BreakKinds, NEW arg \in Nat,
         NEW c \in Conds \cup {NoCond}, Break(t, kind, arg, c)
  PROVE  /\ TypeOK'
         /\ nFns' = nFns + 1 /\ nThreads' = nThreads
         /\ \A f \in Fids : fn'[f] = fn[f]
         /\ fn'[nFns + 1] = Fresh(t, kind, arg, c)
         /\ thread'[t].status = "suspended"
         /\ \A u \in Tids \ {t} : thread'[u] = thread[u]
<1>1. Fresh(t, kind, arg, c) \in FnRecord
  BY DEF Fresh, FnRecord, BreakKinds
<1>2. fn \in [1..nFns -> FnRecord] /\ nFns \in Nat
  BY DEF TypeOK
<1>3. /\ fn' \in [1..(nFns + 1) -> FnRecord]
      /\ \A f \in Fids : fn'[f] = fn[f]
      /\ fn'[nFns + 1] = Fresh(t, kind, arg, c)
  <2> DEFINE b == Fresh(t, kind, arg, c)
  <2>1. fn' = Extend(fn, nFns, b)
    BY DEF Break, Fresh
  <2>2. b \in FnRecord
    BY <1>1
  <2> HIDE DEF b
  <2>3. /\ fn' \in [1..(nFns + 1) -> FnRecord]
        /\ \A f \in Fids : fn'[f] = fn[f]
        /\ fn'[nFns + 1] = b
    BY <1>2, <2>1, <2>2 DEF Extend
  <2> QED
    BY <2>3 DEF b
<1>4. nFns' = nFns + 1 /\ UNCHANGED <<phase, cursor, cond, nThreads>>
  BY DEF Break
<1>5. /\ thread' \in [Tids -> ThreadRecord]
      /\ thread'[t].status = "suspended"
      /\ \A u \in Tids \ {t} : thread'[u] = thread[u]
  BY StatusUpdate DEF Break, Statuses
<1>6. TypeOK'
  BY <1>2, <1>3, <1>4, <1>5 DEF TypeOK
<1> QED
  BY <1>3, <1>4, <1>5, <1>6

(* Running a function: it is stepped, and its owner may be resumed.        *)
LEMMA RunEffect ==
  ASSUME TypeOK, NEW f \in Fids, RunFunction(f)
  PROVE  /\ TypeOK'
         /\ nFns' = nFns /\ nThreads' = nThreads /\ phase' = phase /\ cond' = cond
         /\ cursor' = f
         /\ fn'[f] = Stepped(fn[f])
         /\ \A g \in Fids \ {f} : fn'[g] = fn[g]
         /\ \A u \in Tids : thread'[u] # thread[u] =>
              /\ u = fn[f].owner /\ ~fn[f].done /\ fn'[f].done
              /\ thread[u].status = "suspended" /\ thread'[u].status = "running"
         /\ ~fn[f].done /\ fn'[f].done /\ Suspended(fn[f].owner) =>
              thread'[fn[f].owner].status = "running"
<1>1. fn[f] \in FnRecord /\ Stepped(fn[f]) \in FnRecord
  BY SteppedRecord DEF TypeOK
<1>2. fn' \in [Fids -> FnRecord] /\ fn'[f] = Stepped(fn[f])
      /\ \A g \in Fids \ {f} : fn'[g] = fn[g]
  BY <1>1 DEF TypeOK, RunFunction
<1>3. nFns' = nFns /\ nThreads' = nThreads /\ phase' = phase /\ cond' = cond /\ cursor' = f
  BY DEF RunFunction
<1> DEFINE o == fn[f].owner
<1>4. CASE ~fn[f].done /\ Stepped(fn[f]).done /\ Found(o) /\ thread[o].status = "suspended"
  <2>1. thread' = [thread EXCEPT ![o].status = "running"] /\ o \in Tids
    BY <1>4 DEF RunFunction, Resume, Found
  <2>2. /\ thread' \in [Tids -> ThreadRecord]
        /\ thread'[o].status = "running"
        /\ \A u \in Tids \ {o} : thread'[u] = thread[u]
    <3> HIDE DEF o
    <3> QED BY <1>3, <2>1, StatusUpdate DEF Statuses
  <2>3. TypeOK'
    BY <1>2, <1>3, <2>2 DEF TypeOK
  <2> QED
    BY <1>2, <1>3, <1>4, <2>2, <2>3
<1>5. CASE ~(~fn[f].done /\ Stepped(fn[f]).done /\ Found(o) /\ thread[o].status = "suspended")
  <2>1. thread' = thread
    BY <1>5 DEF RunFunction, Resume
  <2>2. TypeOK'
    BY <1>2, <1>3, <2>1 DEF TypeOK
  <2> QED
    BY <1>2, <1>3, <1>5, <2>1, <2>2 DEF Found, Suspended
<1> QED
  BY <1>4, <1>5

-----------------------------------------------------------------------------
(* The steps                                                               *)

(* The cases of Next, each break being one call of Break.                  *)
LEMMA NextCases ==
  ASSUME [Next]_vars
  PROVE  \/ \E g \in BOOLEAN : StartThread(g)
         \/ \E t \in Tids : StopThread(t)
         \/ ExitRoom
         \/ \E c \in Conds : ScriptChanges(c)
         \/ \E t \in Tids, kind \in BreakKinds, arg \in Nat, c \in Conds \cup {NoCond} :
              /\ kind = "while" => c \in Conds
              /\ kind = "running" => arg \in Tids
              /\ kind \in {"here", "time"} => arg \in 0..MaxDelay
              /\ Break(t, kind, arg, c)
         \/ Return
         \/ StopThreads
         \/ SkipFrame
         \/ CountFrame
         \/ StartFunctions
         \/ \E f \in Fids : RunFunction(f)
         \/ EraseElapsed
         \/ EndFrame
         \/ \E c \in Conds : WorldChanges(c)
         \/ UNCHANGED vars
<1>1. CASE BreakHere
  <2>1. PICK t \in Tids, n \in 0..MaxDelay : Break(t, "here", n, NoCond)
    BY <1>1 DEF BreakHere
  <2> QED
    BY <2>1, ThreadsAssumption DEF BreakKinds
<1>2. CASE BreakTime
  <2>1. PICK t \in Tids, n \in 0..MaxDelay : Break(t, "time", n, NoCond)
    BY <1>2 DEF BreakTime
  <2> QED
    BY <2>1, ThreadsAssumption DEF BreakKinds
<1>3. CASE BreakWhile
  <2>1. PICK t \in Tids, c \in Conds : Break(t, "while", 0, c)
    BY <1>3 DEF BreakWhile
  <2> QED
    BY <2>1 DEF BreakKinds
<1>4. CASE BreakWhileRunning
  <2>1. PICK t \in Tids, u \in Tids : Break(t, "running", u, NoCond)
    BY <1>4 DEF BreakWhileRunning
  <2> QED
    BY <2>1 DEF BreakKinds
<1> QED
  BY <1>1, <1>2, <1>3, <1>4 DEF Next, Script, Frame, Pass, ThreadLeaves

LEMMA TypeStep == TypeOK /\ [Next]_vars => TypeOK'
<1> SUFFICES ASSUME TypeOK, [Next]_vars PROVE TypeOK'
  OBVIOUS
<1>0. thread \in [Tids -> ThreadRecord] /\ fn \in [Fids -> FnRecord]
  BY DEF TypeOK
<1>1. ASSUME NEW g \in BOOLEAN, StartThread(g) PROVE TypeOK'
  <2> DEFINE r == [status |-> "running", stopped |-> FALSE, global |-> g]
  <2>1. r \in ThreadRecord
    BY DEF ThreadRecord
  <2>2. thread' = Extend(thread, nThreads, r) /\ nThreads' = nThreads + 1
        /\ UNCHANGED <<phase, cursor, cond, nFns, fn>>
    BY <1>1 DEF StartThread
  <2> HIDE DEF r
  <2> QED
    BY <2>1, <2>2 DEF TypeOK, Extend
<1>2. ASSUME NEW t \in Tids, StopThread(t) PROVE TypeOK'
  <2> DEFINE r == [thread[t] EXCEPT !.stopped = TRUE]
  <2>1. r \in ThreadRecord
    BY <1>0, StoppedRecord
  <2>2. thread' = [thread EXCEPT ![t] = r]
    BY <1>2 DEF StopThread
  <2> HIDE DEF r
  <2> QED
    BY <1>2, <2>1, <2>2 DEF TypeOK, StopThread
<1>3. ASSUME ExitRoom PROVE TypeOK'
  BY <1>0, <1>3, StoppedRecord DEF TypeOK, ExitRoom
<1>4. ASSUME NEW c \in Conds, ScriptChanges(c) PROVE TypeOK'
  BY <1>4 DEF TypeOK, ScriptChanges
<1>5. ASSUME NEW t \in Tids, NEW kind \in BreakKinds, NEW arg \in Nat,
             NEW c \in Conds \cup {NoCond}, Break(t, kind, arg, c)
      PROVE  TypeOK'
  BY <1>5, BreakEffect
<1>6. ASSUME Return PROVE TypeOK'
  <2>1. PICK t \in Tids : thread' = [thread EXCEPT ![t].status = "finished"]
    BY <1>6 DEF Return
  <2>2. UNCHANGED <<phase, cursor, cond, nThreads, nFns, fn>>
    BY <1>6 DEF Return
  <2>3. thread' \in [Tids -> ThreadRecord]
    BY <2>1, <2>2, StatusUpdate DEF Statuses
  <2> QED
    BY <2>2, <2>3 DEF TypeOK
<1>7. ASSUME StopThreads PROVE TypeOK'
  BY <1>0, <1>7, StatusRecord DEF TypeOK, StopThreads, Statuses
<1>8. ASSUME SkipFrame PROVE TypeOK'
  BY <1>8 DEF TypeOK, SkipFrame
<1>9. ASSUME CountFrame PROVE TypeOK'
  BY <1>0, <1>9, AgeRecord DEF TypeOK, CountFrame
<1>10. ASSUME StartFunctions PROVE TypeOK'
  BY <1>0, <1>10, WhereRecord DEF TypeOK, StartFunctions
<1>11. ASSUME NEW f \in Fids, RunFunction(f) PROVE TypeOK'
  BY <1>11, RunEffect
<1>12. ASSUME EraseElapsed PROVE TypeOK'
  BY <1>0, <1>12, WhereRecord DEF TypeOK, EraseElapsed
<1>13. ASSUME EndFrame PROVE TypeOK'
  BY <1>13 DEF TypeOK, EndFrame
<1>14. ASSUME NEW c \in Conds, WorldChanges(c) PROVE TypeOK'
  BY <1>14 DEF TypeOK, WorldChanges
<1>15. ASSUME UNCHANGED vars PROVE TypeOK'
  BY <1>15 DEF TypeOK, vars
<1> HIDE DEF TypeOK
<1> QED
  BY <1>1, <1>2, <1>3, <1>4, <1>5, <1>6, <1>7, <1>8, <1>9, <1>10, <1>11, <1>12, <1>13,
     <1>14, <1>15, NextCases

(* The types hold in every reachable state, whatever the constants.        *)
THEOREM TypeCorrect == Spec => []TypeOK
<1>1. Init => TypeOK
  BY InitWakeInv DEF WakeInv
<1> QED
  BY <1>1, TypeStep, PTL DEF Spec

-----------------------------------------------------------------------------
(* WakeInv is inductive                                                    *)

(* Steps that touch no break function and resume or suspend no thread:     *)
(* sleepers stay asleep, unless they are erased, and nobody falls asleep.  *)
LEMMA FnsUntouched ==
  ASSUME WakeInv, TypeOK', UNCHANGED <<cursor, cond, nFns, fn>>,
         nThreads' \in {nThreads, nThreads + 1},
         \/ phase' = phase
         \/ phase \notin {"pre", "fns"} /\ phase' \notin {"pre", "fns"},
         \A t \in Tids :
           \/ thread'[t].status = thread[t].status
           \/ thread'[t].status = "gone"
           \/ thread[t].status = "running" /\ thread'[t].status = "finished",
         nThreads' = nThreads + 1 => thread'[nThreads + 1].status = "running"
  PROVE  WakeInv'
<1> USE DEF WakeInv
<1>0. nThreads \in Nat /\ nFns \in Nat /\ Fids' = Fids
  BY DEF TypeOK
<1>1. WellFormed'
  BY <1>0 DEF WellFormed
<1>2. OneWaker'
  <2> SUFFICES ASSUME NEW f \in Fids, Unfinished(f)
               PROVE  /\ fn[f].owner \notin Running'
                      /\ Found(fn[f].owner)' => Suspended(fn[f].owner)'
                      /\ \A g \in Fids : Unfinished(g) /\ fn[g].owner = fn[f].owner => g = f
    BY <1>0 DEF OneWaker, Unfinished, Found, Suspended, Running
  <2>1. /\ fn[f].owner \in Tids /\ fn[f].owner \notin Running
        /\ Found(fn[f].owner) => Suspended(fn[f].owner)
    BY DEF WellFormed, OneWaker
  <2>2. thread[fn[f].owner].status \in {"suspended", "gone"}
    BY <2>1 DEF Found, Suspended
  <2> QED
    BY <1>0, <2>1, <2>2 DEF OneWaker, Found, Suspended, Running
<1>3. SleeperHasWaker'
  BY <1>0 DEF SleeperHasWaker, Suspended, Unfinished, Dependable, Queued
<1>4. PassedNotElapsed'
  BY <1>0 DEF PassedNotElapsed, Listed, Unfinished, Dependable, Elapsed
<1>5. HereOnTime' /\ TimeOnTime'
  BY <1>0 DEF HereOnTime, TimeOnTime, BeforePass, Queued, Listed, Unfinished
<1> QED
  BY <1>1, <1>2, <1>3, <1>4, <1>5

(* A condition changes: during the pass, only one that scripts change.     *)
LEMMA CondChanges ==
  ASSUME WakeInv, TypeOK', NEW c \in Conds, cond' = [cond EXCEPT ![c] = ~@],
         UNCHANGED <<phase, cursor, nThreads, thread, nFns, fn>>,
         phase = "fns" => c \in ScriptConds
  PROVE  WakeInv'
<1> USE DEF WakeInv
<1>1. PassedNotElapsed'
  <2> SUFFICES ASSUME phase = "fns", NEW f \in Fids,
                      Listed(f), f <= cursor, Unfinished(f), Dependable(fn[f])
               PROVE  ~Elapsed(fn[f])'
    BY DEF PassedNotElapsed, Listed, Unfinished, Dependable
  <2>1. ~Elapsed(fn[f])
    BY DEF PassedNotElapsed
  <2>2. fn[f].kind = "while" => fn[f].cond \in Conds \ {c}
    BY DEF WellFormed, Dependable
  <2>3. fn[f].kind = "while" => cond'[fn[f].cond] = cond[fn[f].cond]
    BY <2>2 DEF TypeOK
  <2> QED
    BY <2>1, <2>3 DEF Elapsed
<1>2. WellFormed' /\ OneWaker' /\ SleeperHasWaker' /\ HereOnTime' /\ TimeOnTime'
  BY DEF WellFormed, OneWaker, SleeperHasWaker, HereOnTime, TimeOnTime, BeforePass, Queued,
         Listed, Unfinished, Dependable, Found, Suspended, Running
<1> QED
  BY <1>1, <1>2

LEMMA BreakKeeps ==
  ASSUME WakeInv, NEW t \in Tids, NEW kind \in BreakKinds, NEW arg \in Nat,
         NEW c \in Conds \cup {NoCond}, Break(t, kind, arg, c),
         kind = "while" => c \in Conds, kind = "running" => arg \in Tids
  PROVE  WakeInv'
<1> USE DEF WakeInv
<1>0. /\ TypeOK' /\ nFns \in Nat
      /\ nFns' = nFns + 1 /\ nThreads' = nThreads
      /\ UNCHANGED <<phase, cursor, cond>>
      /\ \A f \in Fids : fn'[f] = fn[f]
      /\ fn'[nFns + 1] = Fresh(t, kind, arg, c)
      /\ thread'[t].status = "suspended"
      /\ \A u \in Tids \ {t} : thread'[u] = thread[u]
  <2>1. nFns \in Nat /\ UNCHANGED <<phase, cursor, cond>>
    BY DEF Break, TypeOK
  <2> QED
    BY <2>1, BreakEffect
<1> DEFINE n == nFns + 1
<1>1. /\ fn'[n].kind = kind /\ fn'[n].owner = t /\ fn'[n].arg = arg /\ fn'[n].cond = c
      /\ fn'[n].age = 0 /\ fn'[n].ticks = 0 /\ ~fn'[n].done /\ fn'[n].where = "new"
  BY <1>0 DEF Fresh
<1>2. n \in Fids' /\ Fids' = Fids \cup {n} /\ n \notin Fids
  <2>1. nFns' = n /\ n = nFns + 1 /\ nFns \in Nat
    BY <1>0
  <2>2. Fids' = 1..n /\ n \in Nat
    BY <2>1
  <2> HIDE DEF n
  <2> QED
    BY <2>1, <2>2
<1>3. thread[t].status = "running" /\ t \in Running
  BY DEF Break, Current, Running
<1> HIDE DEF n
<1>4. WellFormed'
  BY <1>0, <1>1, <1>2 DEF WellFormed
<1>5. OneWaker'
  <2>1. \A f \in Fids : Unfinished(f) => fn[f].owner # t
    BY <1>3 DEF OneWaker
  <2>2. ASSUME NEW f \in Fids', Unfinished(f)'
        PROVE  /\ fn'[f].owner \notin Running'
               /\ Found(fn[f].owner)' => Suspended(fn[f].owner)'
               /\ \A g \in Fids' : Unfinished(g)' /\ fn'[g].owner = fn'[f].owner => g = f
    <3>1. CASE f = n
      BY <1>0, <1>1, <1>2, <2>1, <3>1 DEF Unfinished, Running, Suspended, Found
    <3>2. CASE f \in Fids
      <4>1. fn'[f] = fn[f] /\ Unfinished(f) /\ fn[f].owner # t /\ fn[f].owner \in Tids
        BY <1>0, <2>1, <2>2, <3>2 DEF Unfinished, WellFormed
      <4>2. thread'[fn[f].owner] = thread[fn[f].owner]
        BY <1>0, <4>1
      <4>3. /\ fn[f].owner \notin Running
            /\ Found(fn[f].owner) => Suspended(fn[f].owner)
            /\ \A g \in Fids : Unfinished(g) /\ fn[g].owner = fn[f].owner => g = f
        BY <3>2, <4>1 DEF OneWaker
      <4> QED
        BY <1>0, <1>1, <1>2, <4>1, <4>2, <4>3 DEF Unfinished, Running, Suspended, Found
    <3> QED
      BY <1>2, <3>1, <3>2
  <2> QED
    BY <2>2 DEF OneWaker
<1>6. SleeperHasWaker'
  <2>1. ASSUME NEW u \in Tids', Suspended(u)'
        PROVE  \E f \in Fids' : /\ fn'[f].owner = u
                                /\ Unfinished(f)'
                                /\ Dependable(fn[f])' => Queued(f)'
    <3>0. u \in Tids
      BY <1>0
    <3>1. CASE u = t
      BY <1>1, <1>2, <3>1 DEF Unfinished, Queued
    <3>2. CASE u # t
      <4>1. Suspended(u)
        BY <1>0, <2>1, <3>0, <3>2 DEF Suspended
      <4>2. PICK f \in Fids : /\ fn[f].owner = u
                              /\ Unfinished(f)
                              /\ Dependable(fn[f]) => Queued(f)
        BY <3>0, <4>1 DEF SleeperHasWaker
      <4> QED
        BY <1>0, <1>2, <4>2 DEF Unfinished, Dependable, Queued
    <3> QED
      BY <3>1, <3>2
  <2> QED
    BY <2>1 DEF SleeperHasWaker, Suspended, Unfinished, Dependable, Queued
<1>7. PassedNotElapsed'
  BY <1>0, <1>1, <1>2 DEF PassedNotElapsed, Listed, Unfinished, Dependable, Elapsed
<1>8. HereOnTime' /\ TimeOnTime'
  <2>1. ASSUME NEW f \in Fids
        PROVE  fn'[f] = fn[f] /\ (BeforePass(f)' <=> BeforePass(f))
               /\ (Queued(f)' <=> Queued(f)) /\ (Unfinished(f)' <=> Unfinished(f))
    BY <1>0 DEF BeforePass, Queued, Listed, Unfinished
  <2>2. HereOnTime'
    BY <1>0, <1>1, <1>2, <2>1 DEF HereOnTime
  <2>3. TimeOnTime'
    BY <1>0, <1>1, <1>2, <2>1 DEF TimeOnTime
  <2> QED
    BY <2>2, <2>3
<1> QED
  BY <1>0, <1>4, <1>5, <1>6, <1>7, <1>8

(* Steps that leave the threads alone and, of the functions, change only   *)
(* the clocks and the lists.                                               *)
SameBreak(f) ==
  /\ fn'[f].kind = fn[f].kind /\ fn'[f].owner = fn[f].owner
  /\ fn'[f].arg = fn[f].arg /\ fn'[f].cond = fn[f].cond
  /\ fn'[f].done = fn[f].done

LEMMA ThreadsUntouched ==
  ASSUME WakeInv, TypeOK', UNCHANGED <<cond, nThreads, thread, nFns>>,
         \A f \in Fids : SameBreak(f)
  PROVE  WellFormed' /\ OneWaker'
<1> USE DEF WakeInv, SameBreak
<1>1. WellFormed'
  BY DEF WellFormed
<1>2. \A f \in Fids : Unfinished(f)' <=> Unfinished(f)
  BY DEF Unfinished
<1>3. OneWaker'
  BY <1>2 DEF OneWaker, Found, Suspended, Running
<1> QED
  BY <1>1, <1>3

(* A sleeper keeps its waker if the waker stays in the lists.              *)
LEMMA WakersKept ==
  ASSUME WakeInv, TypeOK', UNCHANGED <<cond, nThreads, thread, nFns>>,
         \A f \in Fids : SameBreak(f),
         \A f \in Fids : Unfinished(f) /\ Dependable(fn[f]) /\ Queued(f) => Queued(f)'
  PROVE  SleeperHasWaker'
<1>1. ASSUME NEW t \in Tids, Suspended(t)
      PROVE  \E f \in Fids : /\ fn'[f].owner = t
                             /\ Unfinished(f)'
                             /\ Dependable(fn[f])' => Queued(f)'
  <2>1. PICK f \in Fids : /\ fn[f].owner = t
                          /\ Unfinished(f)
                          /\ Dependable(fn[f]) => Queued(f)
    BY <1>1 DEF WakeInv, SleeperHasWaker
  <2>2. fn'[f].owner = t /\ Unfinished(f)' /\ (Dependable(fn[f])' <=> Dependable(fn[f]))
    BY <2>1 DEF SameBreak, Unfinished, Dependable
  <2> QED
    BY <2>1, <2>2
<1> QED
  BY <1>1 DEF SleeperHasWaker, Suspended, Unfinished, Dependable, Queued

LEMMA CountFrameKeeps ==
  ASSUME WakeInv, TypeOK', CountFrame
  PROVE  WakeInv'
<1>0. /\ UNCHANGED <<cursor, cond, nThreads, thread, nFns>>
      /\ phase = "input" /\ phase' = "pre" /\ fn \in [Fids -> FnRecord]
  BY DEF CountFrame, WakeInv, TypeOK
<1>1. ASSUME NEW f \in Fids
      PROVE  /\ SameBreak(f) /\ fn'[f].where = fn[f].where /\ fn'[f].ticks = fn[f].ticks
             /\ Queued(f) /\ fn[f].kind \in {"here", "time"} => fn'[f].age = fn[f].age + 1
             /\ fn[f] \in FnRecord
  <2>1. fn[f] \in FnRecord
    BY <1>0
  <2>2. CASE Queued(f) /\ fn[f].kind \in {"here", "time"}
    <3>1. fn'[f] = [fn[f] EXCEPT !.age = @ + 1]
      BY <2>2 DEF CountFrame
    <3> QED
      BY <2>1, <3>1, AgeRecord DEF SameBreak
  <2>3. CASE ~(Queued(f) /\ fn[f].kind \in {"here", "time"})
    BY <2>1, <2>3 DEF CountFrame, SameBreak
  <2> QED
    BY <2>2, <2>3
<1>2. WellFormed' /\ OneWaker'
  BY <1>0, <1>1, ThreadsUntouched
<1>3. SleeperHasWaker'
  BY <1>0, <1>1, WakersKept DEF Queued
<1>4. PassedNotElapsed'
  BY <1>0 DEF PassedNotElapsed
<1>5. HereOnTime'
  BY <1>0, <1>1 DEF WakeInv, HereOnTime, BeforePass, Queued, Unfinished, SameBreak, FnRecord
<1>6. TimeOnTime'
  BY <1>0, <1>1 DEF WakeInv, TimeOnTime, BeforePass, Queued, Unfinished, SameBreak, FnRecord
<1> QED
  BY <1>2, <1>3, <1>4, <1>5, <1>6 DEF WakeInv

LEMMA StartFunctionsKeeps ==
  ASSUME WakeInv, TypeOK', StartFunctions
  PROVE  WakeInv'
<1>0. /\ UNCHANGED <<cond, nThreads, thread, nFns>> /\ nFns \in Nat
      /\ phase = "pre" /\ phase' = "fns" /\ cursor' = 0 /\ fn \in [Fids -> FnRecord]
  BY DEF StartFunctions, WakeInv, TypeOK
<1>1. ASSUME NEW f \in Fids
      PROVE  /\ SameBreak(f) /\ fn'[f].age = fn[f].age /\ fn'[f].ticks = fn[f].ticks
             /\ fn'[f].where = IF Queued(f) THEN "list" ELSE fn[f].where
  <2>1. fn[f] \in FnRecord
    BY <1>0
  <2>2. CASE fn[f].where = "new"
    <3>1. fn'[f] = [fn[f] EXCEPT !.where = "list"]
      BY <2>2 DEF StartFunctions
    <3> QED
      BY <2>1, <2>2, <3>1, WhereRecord DEF SameBreak, Queued
  <2>3. CASE fn[f].where # "new"
    BY <2>1, <2>3 DEF StartFunctions, SameBreak, Queued
  <2> QED
    BY <2>2, <2>3
<1>2. WellFormed' /\ OneWaker'
  BY <1>0, <1>1, ThreadsUntouched
<1>3. SleeperHasWaker'
  BY <1>0, <1>1, WakersKept DEF Queued
<1>4. PassedNotElapsed'
  BY <1>0 DEF PassedNotElapsed
<1>5. \A f \in Fids : Queued(f)' => Queued(f) /\ BeforePass(f) /\ BeforePass(f)'
  BY <1>0, <1>1 DEF Queued, Listed, BeforePass
<1>6. HereOnTime'
  BY <1>0, <1>1, <1>5 DEF WakeInv, HereOnTime, Unfinished, SameBreak
<1>7. TimeOnTime'
  BY <1>0, <1>1, <1>5 DEF WakeInv, TimeOnTime, Unfinished, SameBreak
<1> QED
  BY <1>2, <1>3, <1>4, <1>6, <1>7 DEF WakeInv

LEMMA EraseElapsedKeeps ==
  ASSUME WakeInv, TypeOK', EraseElapsed
  PROVE  WakeInv'
<1>0. /\ UNCHANGED <<cursor, cond, nThreads, thread, nFns>>
      /\ phase = "fns" /\ phase' = "post" /\ fn \in [Fids -> FnRecord]
      /\ Ahead = {} /\ cursor \in Nat /\ nFns \in Nat
  BY DEF EraseElapsed, WakeInv, TypeOK
<1>1. ASSUME NEW f \in Fids
      PROVE  /\ SameBreak(f) /\ fn'[f].age = fn[f].age /\ fn'[f].ticks = fn[f].ticks
             /\ fn'[f].where = IF Listed(f) /\ Elapsed(fn[f]) THEN "erased" ELSE fn[f].where
  <2>1. fn[f] \in FnRecord
    BY <1>0
  <2>2. CASE Listed(f) /\ Elapsed(fn[f])
    <3>1. fn'[f] = [fn[f] EXCEPT !.where = "erased"]
      BY <2>2 DEF EraseElapsed
    <3> QED
      BY <2>1, <2>2, <3>1, WhereRecord DEF SameBreak
  <2>3. CASE ~(Listed(f) /\ Elapsed(fn[f]))
    BY <2>1, <2>3 DEF EraseElapsed, SameBreak
  <2> QED
    BY <2>2, <2>3
<1>2. \A f \in Fids : Listed(f) => f <= cursor
  BY <1>0 DEF Ahead
<1>3. ASSUME NEW f \in Fids, Unfinished(f), Dependable(fn[f]), Queued(f)
      PROVE  Queued(f)'
  <2>1. Listed(f) => ~Elapsed(fn[f])
    BY <1>0, <1>2, <1>3 DEF WakeInv, PassedNotElapsed
  <2> QED
    BY <1>1, <1>3, <2>1 DEF Queued
<1>4. WellFormed' /\ OneWaker'
  BY <1>0, <1>1, ThreadsUntouched
<1>5. SleeperHasWaker'
  BY <1>0, <1>1, <1>3, WakersKept
<1>6. PassedNotElapsed'
  BY <1>0 DEF PassedNotElapsed
<1>7. \A f \in Fids : Queued(f)' => Queued(f) /\ ~BeforePass(f) /\ ~BeforePass(f)'
  BY <1>0, <1>1, <1>2 DEF Queued, Listed, BeforePass
<1>8. HereOnTime'
  BY <1>0, <1>1, <1>7 DEF WakeInv, HereOnTime, Unfinished, SameBreak
<1>9. TimeOnTime'
  BY <1>0, <1>1, <1>7 DEF WakeInv, TimeOnTime, Unfinished, SameBreak
<1> QED
  BY <1>4, <1>5, <1>6, <1>8, <1>9 DEF WakeInv

LEMMA RunFunctionKeeps ==
  ASSUME WakeInv, NEW f \in Fids, RunFunction(f)
  PROVE  WakeInv'
<1> DEFINE o == fn[f].owner
<1>0. /\ TypeOK' /\ fn \in [Fids -> FnRecord] /\ fn[f] \in FnRecord /\ cursor \in Nat
      /\ nFns \in Nat /\ phase = "fns" /\ UNCHANGED <<phase, cond, nThreads, nFns>>
      /\ cursor' = f /\ Running = {}
      /\ Listed(f) /\ f > cursor /\ \A g \in Fids : Listed(g) /\ g > cursor => f <= g
  <2>1. TypeOK
    BY DEF WakeInv
  <2>2. TypeOK'
    BY <2>1, RunEffect
  <2> QED
    BY <2>1, <2>2 DEF RunFunction, Ahead, TypeOK
<1>1. /\ fn'[f] = Stepped(fn[f])
      /\ \A g \in Fids \ {f} : fn'[g] = fn[g]
      /\ \A u \in Tids : thread'[u] # thread[u] =>
           /\ u = o /\ ~fn[f].done /\ fn'[f].done
           /\ thread[u].status = "suspended" /\ thread'[u].status = "running"
      /\ ~fn[f].done /\ fn'[f].done /\ Suspended(o) => thread'[o].status = "running"
  BY RunEffect DEF WakeInv
<1>2. /\ fn'[f].kind = fn[f].kind /\ fn'[f].owner = o /\ fn'[f].arg = fn[f].arg
      /\ fn'[f].cond = fn[f].cond /\ fn'[f].age = fn[f].age /\ fn'[f].where = "list"
      /\ fn[f].done => fn'[f] = fn[f]
      /\ ~fn[f].done /\ fn[f].kind = "here" => (fn'[f].done <=> fn[f].age >= fn[f].arg)
      /\ ~fn[f].done /\ fn[f].kind = "time" => /\ fn'[f].ticks = fn[f].ticks + 1
                                               /\ fn'[f].done <=> fn[f].ticks + 1 > fn[f].arg
      /\ ~fn[f].done /\ ~fn'[f].done => ~Elapsed(fn'[f])
  BY <1>0, <1>1, SteppedRecord DEF Listed
<1> HIDE DEF o
<1>3. WellFormed'
  <2>1. WellFormed
    BY DEF WakeInv
  <2> QED
    BY <1>0, <1>1, <1>2, <2>1 DEF WellFormed, o
<1>4. \A g \in Fids : Unfinished(g)' => Unfinished(g)
  BY <1>1, <1>2 DEF Unfinished
<1>5. OneWaker'
  <2>1. ASSUME NEW g \in Fids, Unfinished(g)'
        PROVE  /\ fn[g].owner \notin Running'
               /\ Found(fn[g].owner)' => Suspended(fn[g].owner)'
               /\ \A h \in Fids : Unfinished(h) /\ fn[h].owner = fn[g].owner => h = g
    <3>1. /\ fn[g].owner \notin Running /\ fn[g].owner \in Tids
          /\ Found(fn[g].owner) => Suspended(fn[g].owner)
          /\ \A h \in Fids : Unfinished(h) /\ fn[h].owner = fn[g].owner => h = g
      BY <1>4, <2>1 DEF WakeInv, OneWaker, WellFormed
    <3>2. thread'[fn[g].owner] = thread[fn[g].owner]
      <4> SUFFICES ASSUME thread'[fn[g].owner] # thread[fn[g].owner] PROVE FALSE
        OBVIOUS
      <4>1. fn[g].owner = fn[f].owner /\ ~fn[f].done /\ fn'[f].done
        BY <1>1, <3>1 DEF o
      <4>2. f = g
        BY <3>1, <4>1 DEF Unfinished
      <4> QED
        BY <2>1, <4>1, <4>2 DEF Unfinished
    <3>3. nThreads' = nThreads
      BY <1>0
    <3>4. fn[g].owner \notin Running'
      BY <3>1, <3>2, <3>3 DEF Running
    <3>5. Found(fn[g].owner)' => Suspended(fn[g].owner)'
      <4> DEFINE w == fn[g].owner
      <4>1. fn'[g].owner = w
        BY <1>1, <1>2 DEF o
      <4> HIDE DEF w
      <4> QED
        BY <3>1, <3>2, <3>3, <4>1 DEF Found, Suspended, w
    <3> QED
      BY <3>1, <3>4, <3>5
  <2>2. \A g \in Fids : fn'[g].owner = fn[g].owner
    BY <1>1, <1>2 DEF o
  <2> QED
    BY <1>0, <1>4, <2>1, <2>2 DEF OneWaker
<1>6. SleeperHasWaker'
  <2>1. ASSUME NEW t \in Tids, Suspended(t)'
        PROVE  \E g \in Fids : /\ fn'[g].owner = t
                               /\ Unfinished(g)'
                               /\ Dependable(fn[g])' => Queued(g)'
    <3>1. Suspended(t) /\ thread'[t] = thread[t]
      BY <1>0, <1>1, <2>1 DEF Suspended
    <3>2. PICK g \in Fids : /\ fn[g].owner = t
                            /\ Unfinished(g)
                            /\ Dependable(fn[g]) => Queued(g)
      BY <3>1 DEF WakeInv, SleeperHasWaker
    <3>3. CASE g # f
      BY <1>1, <3>2, <3>3 DEF Unfinished, Dependable, Queued
    <3>4. CASE g = f
      <4>1. ~fn'[f].done
        BY <1>1, <2>1, <3>1, <3>2, <3>4 DEF Unfinished, Suspended, o
      <4> QED
        BY <1>2, <3>2, <3>4, <4>1 DEF Unfinished, Queued, o
    <3> QED
      BY <3>3, <3>4
  <2> QED
    BY <1>0, <2>1 DEF SleeperHasWaker, Suspended, Unfinished, Dependable, Queued
<1>7. PassedNotElapsed'
  <2>1. ASSUME NEW g \in Fids, Listed(g)', g <= f, Unfinished(g)', Dependable(fn[g])'
        PROVE  ~Elapsed(fn[g])'
    <3>1. CASE g = f
      BY <1>0, <1>2, <1>4, <2>1, <3>1 DEF Unfinished, Elapsed
    <3>2. CASE g # f
      <4>1. fn'[g] = fn[g] /\ Listed(g) /\ g <= cursor
        BY <1>0, <1>1, <2>1, <3>2 DEF Listed
      <4>2. ~Elapsed(fn[g])
        BY <1>0, <2>1, <4>1 DEF WakeInv, PassedNotElapsed, Unfinished, Dependable
      <4> QED
        BY <1>0, <4>1, <4>2 DEF Elapsed
    <3> QED
      BY <3>1, <3>2
  <2> QED
    BY <1>0, <2>1 DEF PassedNotElapsed, Listed, Unfinished, Dependable, Elapsed
<1>8. /\ BeforePass(f) /\ ~BeforePass(f)'
      /\ \A g \in Fids \ {f} : BeforePass(g)' <=> BeforePass(g)
      /\ \A g \in Fids \ {f} : Queued(g)' <=> Queued(g)
  <2>1. BeforePass(f) /\ ~BeforePass(f)'
    BY <1>0 DEF BeforePass
  <2>2. ASSUME NEW g \in Fids \ {f}
        PROVE  (BeforePass(g)' <=> BeforePass(g)) /\ (Queued(g)' <=> Queued(g))
    <3>1. fn'[g] = fn[g]
      BY <1>1
    <3>2. Listed(g) => (g > f <=> g > cursor)
      BY <1>0
    <3> QED
      BY <1>0, <3>1, <3>2 DEF BeforePass, Listed, Queued
  <2> QED
    BY <2>1, <2>2
<1>9. HereOnTime'
  <2>1. ASSUME NEW g \in Fids, fn'[g].kind = "here", Queued(g)', Unfinished(g)'
        PROVE  IF BeforePass(g)'
               THEN fn'[g].age <= fn'[g].arg \/ (fn'[g].arg = 0 /\ fn'[g].age = 1)
               ELSE fn'[g].age < fn'[g].arg \/ (fn'[g].arg = 0 /\ fn'[g].age = 0)
    <3>1. CASE g = f
      BY <1>0, <1>2, <1>4, <1>8, <2>1, <3>1 DEF Unfinished, FnRecord
    <3>2. CASE g # f
      BY <1>0, <1>1, <1>8, <2>1, <3>2 DEF WakeInv, HereOnTime, Unfinished
    <3> QED
      BY <3>1, <3>2
  <2> QED
    BY <1>0, <2>1 DEF HereOnTime
<1>10. TimeOnTime'
  <2>1. ASSUME NEW g \in Fids, fn'[g].kind = "time", Queued(g)', Unfinished(g)'
        PROVE  /\ fn'[g].ticks <= fn'[g].arg
               /\ IF BeforePass(g)' THEN fn'[g].age \in {fn'[g].ticks, fn'[g].ticks + 1}
                                    ELSE fn'[g].ticks \in {fn'[g].age, fn'[g].age + 1}
    <3>1. CASE g = f
      <4>1. Unfinished(f) /\ Queued(f) /\ fn[f].kind = "time" /\ ~fn'[f].done
        BY <1>0, <1>2, <1>4, <2>1, <3>1 DEF Unfinished, Queued, Listed
      <4>2. fn[f].age \in {fn[f].ticks, fn[f].ticks + 1}
        BY <1>8, <4>1 DEF WakeInv, TimeOnTime
      <4>3. fn'[f].ticks = fn[f].ticks + 1 /\ ~(fn[f].ticks + 1 > fn[f].arg)
        BY <1>2, <4>1 DEF Unfinished
      <4>4. fn[f].ticks \in Nat /\ fn[f].arg \in Nat /\ fn[f].age \in Nat
        BY <1>0 DEF FnRecord
      <4> QED
        BY <1>2, <1>8, <3>1, <4>2, <4>3, <4>4
    <3>2. CASE g # f
      BY <1>0, <1>1, <1>8, <2>1, <3>2 DEF WakeInv, TimeOnTime, Unfinished
    <3> QED
      BY <3>1, <3>2
  <2> QED
    BY <1>0, <2>1 DEF TimeOnTime
<1> QED
  BY <1>0, <1>3, <1>5, <1>6, <1>7, <1>9, <1>10 DEF WakeInv

(* Every step of the engine and of its scripts keeps WakeInv.              *)
LEMMA WakeStep == WakeInv /\ [Next]_vars => WakeInv'
<1> SUFFICES ASSUME WakeInv, [Next]_vars PROVE WakeInv'
  OBVIOUS
<1>0. TypeOK /\ TypeOK' /\ nThreads \in Nat /\ thread \in [Tids -> ThreadRecord]
  <2>1. TypeOK
    BY DEF WakeInv
  <2> QED
    BY <2>1, TypeStep DEF TypeOK
<1>1. ASSUME NEW g \in BOOLEAN, StartThread(g) PROVE WakeInv'
  <2>1. /\ nThreads' = nThreads + 1 /\ UNCHANGED <<phase, cursor, cond, nFns, fn>>
        /\ thread' = Extend(thread, nThreads, [status  |-> "running",
                                               stopped |-> FALSE,
                                               global  |-> g])
    BY <1>1 DEF StartThread
  <2>2. /\ \A t \in Tids : thread'[t] = thread[t]
        /\ thread'[nThreads + 1].status = "running"
    BY <1>0, <2>1 DEF Extend
  <2> QED
    BY <1>0, <2>1, <2>2, FnsUntouched
<1>2. ASSUME NEW t \in Tids, StopThread(t) PROVE WakeInv'
  <2>1. /\ UNCHANGED <<phase, cursor, cond, nThreads, nFns, fn>>
        /\ thread' = [thread EXCEPT ![t] = [thread[t] EXCEPT !.stopped = TRUE]]
    BY <1>2 DEF StopThread
  <2>2. [thread[t] EXCEPT !.stopped = TRUE].status = thread[t].status
    BY <1>0, StoppedRecord
  <2>3. \A u \in Tids : thread'[u].status = thread[u].status
    BY <1>0, <2>1, <2>2
  <2> QED
    BY <1>0, <2>1, <2>3, FnsUntouched
<1>3. ASSUME ExitRoom PROVE WakeInv'
  <2>1. /\ UNCHANGED <<phase, cursor, cond, nThreads, nFns, fn>>
        /\ \A t \in Tids : \/ thread'[t] = thread[t]
                           \/ thread'[t] = [thread[t] EXCEPT !.stopped = TRUE]
    BY <1>3 DEF ExitRoom
  <2>2. \A u \in Tids : thread'[u].status = thread[u].status
    BY <1>0, <2>1, StoppedRecord
  <2> QED
    BY <1>0, <2>1, <2>2, FnsUntouched
<1>4. ASSUME NEW c \in Conds, ScriptChanges(c) PROVE WakeInv'
  BY <1>0, <1>4, CondChanges DEF ScriptChanges
<1>5. ASSUME NEW t \in Tids, NEW kind \in BreakKinds, NEW arg \in Nat,
             NEW c \in Conds \cup {NoCond},
             kind = "while" => c \in Conds, kind = "running" => arg \in Tids,
             Break(t, kind, arg, c)
      PROVE  WakeInv'
  BY <1>5, BreakKeeps
<1>6. ASSUME Return PROVE WakeInv'
  <2>1. PICK t \in Tids : Current(t) /\ thread' = [thread EXCEPT ![t].status = "finished"]
    BY <1>6 DEF Return
  <2>2. UNCHANGED <<phase, cursor, cond, nThreads, nFns, fn>>
    BY <1>6 DEF Return
  <2>3. thread[t].status = "running"
    BY <2>1 DEF Current, Running
  <2>4. /\ thread'[t].status = "finished"
        /\ \A u \in Tids \ {t} : thread'[u] = thread[u]
    BY <1>0, <2>1, <2>2, StatusUpdate DEF Statuses
  <2> QED
    BY <1>0, <2>2, <2>3, <2>4, FnsUntouched
<1>7. ASSUME StopThreads PROVE WakeInv'
  <2>1. /\ UNCHANGED <<cursor, cond, nThreads, nFns, fn>>
        /\ phase = "idle" /\ phase' = "input"
        /\ \A t \in Tids : \/ thread'[t] = thread[t]
                           \/ thread'[t] = [thread[t] EXCEPT !.status = "gone"]
    BY <1>7 DEF StopThreads
  <2>2. \A t \in Tids : [thread[t] EXCEPT !.status = "gone"].status = "gone"
    BY <1>0, StatusRecord DEF Statuses
  <2>3. \A t \in Tids : \/ thread'[t].status = thread[t].status
                        \/ thread'[t].status = "gone"
    BY <2>1, <2>2
  <2> QED
    BY <1>0, <2>1, <2>3, FnsUntouched
<1>8. ASSUME SkipFrame \/ EndFrame PROVE WakeInv'
  <2>1. /\ UNCHANGED <<cursor, cond, nThreads, thread, nFns, fn>>
        /\ phase \notin {"pre", "fns"} /\ phase' \notin {"pre", "fns"}
    BY <1>8 DEF SkipFrame, EndFrame
  <2> QED
    BY <1>0, <2>1, FnsUntouched
<1>9. ASSUME CountFrame \/ StartFunctions \/ EraseElapsed PROVE WakeInv'
  BY <1>0, <1>9, CountFrameKeeps, StartFunctionsKeeps, EraseElapsedKeeps
<1>10. ASSUME NEW f \in Fids, RunFunction(f) PROVE WakeInv'
  BY <1>10, RunFunctionKeeps
<1>11. ASSUME NEW c \in Conds, WorldChanges(c) PROVE WakeInv'
  BY <1>0, <1>11, CondChanges DEF WorldChanges
<1>12. ASSUME UNCHANGED vars PROVE WakeInv'
  BY <1>0, <1>12, FnsUntouched DEF vars
<1> QED
  BY NextCases, <1>1, <1>2, <1>3, <1>4, <1>5, <1>6, <1>7, <1>8, <1>9, <1>10, <1>11, <1>12

(* A suspended thread always has its waker: breakhere, breaktime,          *)
(* breakwhilerunning and the waits for a dialog or a cutscene never lose   *)
(* the thread that called them.                                            *)
THEOREM SleepersKeepTheirWaker == Spec => []SleeperHasWaker
<1>1. WakeInv => SleeperHasWaker
  BY DEF WakeInv
<1> QED
  BY <1>1, InitWakeInv, WakeStep, PTL DEF Spec

(* No thread is resumed twice by one break, nor by one it has left.        *)
THEOREM NoStaleWaker == Spec => []OneWaker
<1>1. WakeInv => OneWaker
  BY DEF WakeInv
<1> QED
  BY <1>1, InitWakeInv, WakeStep, PTL DEF Spec

-----------------------------------------------------------------------------
(* When breakhere and breaktime wake                                       *)

(* A sleeper is resumed only by the pass running the break it waits on,    *)
(* and that break has just fired.                                          *)
LEMMA OnlyRunResumes ==
  ASSUME WakeInv, [Next]_vars, NEW f \in Fids, Resumes(f)
  PROVE  RunFunction(f) /\ fn'[f].done
<1> DEFINE o == fn[f].owner
<1>0. /\ TypeOK /\ thread \in [Tids -> ThreadRecord] /\ nThreads \in Nat
      /\ o \in Tids /\ Unfinished(f) /\ thread[o].status = "suspended"
      /\ thread'[o].status = "running"
  BY DEF WakeInv, TypeOK, Resumes, Suspended
<1> HIDE DEF o
<1>1. ASSUME NEW g \in BOOLEAN, StartThread(g) PROVE FALSE
  <2>1. thread'[o] = thread[o]
    BY <1>0, <1>1 DEF StartThread, Extend
  <2> QED
    BY <1>0, <2>1
<1>2. ASSUME (\E t \in Tids : StopThread(t)) \/ ExitRoom PROVE FALSE
  <2>1. thread'[o].status = thread[o].status
    BY <1>0, <1>2, StoppedRecord DEF StopThread, ExitRoom
  <2> QED
    BY <1>0, <2>1
<1>3. ASSUME NEW t \in Tids, NEW kind \in BreakKinds, NEW arg \in Nat,
             NEW c \in Conds \cup {NoCond}, Break(t, kind, arg, c)
      PROVE  FALSE
  <2>1. /\ thread'[t].status = "suspended"
        /\ \A u \in Tids \ {t} : thread'[u] = thread[u]
    BY <1>0, <1>3, BreakEffect
  <2> QED
    BY <1>0, <2>1
<1>4. ASSUME Return PROVE FALSE
  <2>1. PICK t \in Tids : thread' = [thread EXCEPT ![t].status = "finished"]
    BY <1>4 DEF Return
  <2>2. /\ thread'[t].status = "finished"
        /\ \A u \in Tids \ {t} : thread'[u] = thread[u]
    BY <1>0, <1>4, <2>1, StatusUpdate DEF Return, Statuses
  <2> QED
    BY <1>0, <2>2
<1>5. ASSUME StopThreads PROVE FALSE
  <2>1. thread'[o] \in {thread[o], [thread[o] EXCEPT !.status = "gone"]}
    BY <1>0, <1>5 DEF StopThreads
  <2>2. [thread[o] EXCEPT !.status = "gone"].status = "gone"
    BY <1>0, StatusRecord DEF Statuses
  <2> QED
    BY <1>0, <2>1, <2>2
<1>6. ASSUME \/ SkipFrame \/ CountFrame \/ StartFunctions \/ EraseElapsed \/ EndFrame
             \/ \E c \in Conds : ScriptChanges(c) \/ WorldChanges(c)
             \/ UNCHANGED vars
      PROVE  FALSE
  <2>1. thread' = thread
    BY <1>6 DEF SkipFrame, CountFrame, StartFunctions, EraseElapsed, EndFrame,
                ScriptChanges, WorldChanges, vars
  <2> QED
    BY <1>0, <2>1
<1>7. ASSUME NEW g \in Fids, RunFunction(g) PROVE RunFunction(f) /\ fn'[f].done
  <2>1. o = fn[g].owner /\ ~fn[g].done /\ fn'[g].done
    BY <1>0, <1>7, RunEffect
  <2>2. g = f
    BY <1>0, <2>1 DEF WakeInv, OneWaker, Unfinished, o
  <2> QED
    BY <1>7, <2>1, <2>2
<1> QED
  BY NextCases, <1>1, <1>2, <1>3, <1>4, <1>5, <1>6, <1>7

(* The break that fires is one the pass had still to reach.                *)
LEMMA FiringBreak ==
  ASSUME WakeInv, NEW f \in Fids, RunFunction(f)
  PROVE  /\ fn[f] \in FnRecord /\ fn'[f] = Stepped(fn[f])
         /\ Queued(f) /\ BeforePass(f)
BY RunEffect DEF WakeInv, TypeOK, RunFunction, Ahead, Queued, Listed, BeforePass

LEMMA HereStep == WakeInv /\ [Next]_vars => HereWakeIsExact
<1> SUFFICES ASSUME WakeInv, [Next]_vars, NEW f \in Fids,
                    Resumes(f), fn[f].kind = "here"
             PROVE  fn[f].age = fn[f].arg \/ (fn[f].arg = 0 /\ fn[f].age = 1)
  BY DEF HereWakeIsExact
<1>1. RunFunction(f) /\ fn'[f].done /\ Unfinished(f)
  BY OnlyRunResumes DEF Resumes
<1>2. /\ fn[f] \in FnRecord /\ fn'[f] = Stepped(fn[f])
      /\ Queued(f) /\ BeforePass(f)
  BY <1>1, FiringBreak
<1>3. fn[f].age >= fn[f].arg
  BY <1>1, <1>2, SteppedRecord DEF Unfinished
<1>4. fn[f].age <= fn[f].arg \/ (fn[f].arg = 0 /\ fn[f].age = 1)
  BY <1>1, <1>2 DEF WakeInv, HereOnTime
<1>5. fn[f].age \in Nat /\ fn[f].arg \in Nat
  BY <1>2 DEF FnRecord
<1> QED
  BY <1>3, <1>4, <1>5

LEMMA TimeStep == WakeInv /\ [Next]_vars => TimeWakeIsExact
<1> SUFFICES ASSUME WakeInv, [Next]_vars, NEW f \in Fids,
                    Resumes(f), fn[f].kind = "time"
             PROVE  fn[f].age \in {fn[f].arg, fn[f].arg + 1}
  BY DEF TimeWakeIsExact
<1>1. RunFunction(f) /\ fn'[f].done /\ Unfinished(f)
  BY OnlyRunResumes DEF Resumes
<1>2. /\ fn[f] \in FnRecord /\ fn'[f] = Stepped(fn[f])
      /\ Queued(f) /\ BeforePass(f)
  BY <1>1, FiringBreak
<1>3. fn[f].ticks + 1 > fn[f].arg
  BY <1>1, <1>2, SteppedRecord DEF Unfinished
<1>4. fn[f].ticks <= fn[f].arg /\ fn[f].age \in {fn[f].ticks, fn[f].ticks + 1}
  BY <1>1, <1>2 DEF WakeInv, TimeOnTime
<1>5. fn[f].age \in Nat /\ fn[f].arg \in Nat /\ fn[f].ticks \in Nat
  BY <1>2 DEF FnRecord
<1> QED
  BY <1>3, <1>4, <1>5

(* breakhere(n) sleeps for exactly n frames, whatever else the scripts and *)
(* the frames do in between, breakhere(0) until the next pass; breaktime(n)*)
(* for n frames of one tick, or n + 1 when it was called before the pass   *)
(* of its own frame.                                                       *)
THEOREM BreaksExact == Spec => BreaksAreExact
<1>1. WakeInv /\ [Next]_vars => HereWakeIsExact /\ TimeWakeIsExact
  BY HereStep, TimeStep
<1> QED
  BY <1>1, InitWakeInv, WakeStep, PTL DEF Spec, BreaksAreExact

-----------------------------------------------------------------------------
(* Threads implements Coroutines                                           *)

(* A frame begins when no script is running.                               *)
IdleInv == phase = "idle" => Running = {}

LEMMA IdleStep == TypeOK /\ IdleInv /\ [Next]_vars => IdleInv'
<1> SUFFICES ASSUME TypeOK, IdleInv, [Next]_vars, phase' = "idle" PROVE Running' = {}
  BY DEF IdleInv
<1>1. CASE EndFrame
  BY <1>1 DEF EndFrame, Running
<1>2. CASE UNCHANGED vars
  BY <1>2 DEF vars, IdleInv, Running
<1>3. ASSUME phase' = phase, ScriptMayAct \/ \E t \in Tids : Current(t)
      PROVE  FALSE
  BY <1>3 DEF IdleInv, ScriptMayAct, Current, Running
<1>4. CASE Script
  BY <1>3, <1>4 DEF Script, StartThread, StopThread, ExitRoom, ScriptChanges, ThreadLeaves,
     BreakHere, BreakTime, BreakWhile, BreakWhileRunning, Break, Return
<1>5. CASE StopThreads \/ CountFrame \/ Pass \/ SkipFrame \/ \E c \in Conds : WorldChanges(c)
  BY <1>5 DEF StopThreads, CountFrame, Pass, StartFunctions, RunFunction, EraseElapsed,
     SkipFrame, WorldChanges
<1> QED
  BY <1>1, <1>2, <1>4, <1>5 DEF Next, Frame

(* The state of Coroutines, as Promise has it.                             *)
Sleepers == {t \in Tids : Suspended(t)}
Asleep == [t \in Sleepers |-> SleepsOn(BreakOf(t))]
Over == {t \in Tids : IsStopped(t) \/ ~Found(t)}

LEMMA BreakOfSleeper ==
  ASSUME WakeInv, NEW t \in Sleepers
  PROVE  /\ BreakOf(t) \in Fids /\ fn[BreakOf(t)].owner = t /\ Unfinished(BreakOf(t))
         /\ \A g \in Fids : fn[g].owner = t /\ Unfinished(g) => g = BreakOf(t)
<1>1. PICK f \in Fids : fn[f].owner = t /\ Unfinished(f)
  BY DEF WakeInv, SleeperHasWaker, Sleepers
<1>2. \A g \in Fids : fn[g].owner = t /\ Unfinished(g) => g = f
  BY <1>1 DEF WakeInv, OneWaker
<1> QED
  BY <1>1, <1>2 DEF BreakOf

(* The break of a thread that sleeps on.                                   *)
LEMMA BreakOfStill ==
  ASSUME WakeInv', NEW t \in Sleepers', NEW f \in Fids', fn'[f].owner = t, Unfinished(f)'
  PROVE  BreakOf(t)' = f
<1>1. \A g \in Fids' : fn'[g].owner = t /\ Unfinished(g)' => g = f
  BY DEF WakeInv, OneWaker
<1> QED
  BY <1>1 DEF BreakOf

(* Threads leave their sleep and the breaks of the others do not change,   *)
(* but for the list they are in and the ticks they have counted.           *)
LEMMA AsleepLess ==
  ASSUME WakeInv, WakeInv', NEW S, Sleepers' = Sleepers \ S, Fids \subseteq Fids',
         \A f \in Fids :
           /\ fn'[f].owner = fn[f].owner /\ fn'[f].kind = fn[f].kind
           /\ fn'[f].arg = fn[f].arg /\ fn'[f].age = fn[f].age
           /\ fn[f].owner \in Sleepers \ S /\ Unfinished(f) => Unfinished(f)'
  PROVE  Asleep' = [t \in Sleepers \ S |-> Asleep[t]]
<1>1. ASSUME NEW t \in Sleepers \ S
      PROVE  SleepsOn(BreakOf(t))' = SleepsOn(BreakOf(t))
  <2>1. PICK f : f = BreakOf(t)
    OBVIOUS
  <2>2. f \in Fids /\ fn[f].owner = t /\ Unfinished(f)
    BY <2>1, BreakOfSleeper
  <2>3. t \in Sleepers' /\ f \in Fids' /\ fn'[f].owner = t /\ Unfinished(f)'
    BY <2>2
  <2>4. BreakOf(t)' = f
    BY <2>3, BreakOfStill
  <2> QED
    BY <2>1, <2>2, <2>4 DEF SleepsOn
<1>2. Asleep' = [t \in Sleepers \ S |-> SleepsOn(BreakOf(t))']
  BY DEF Asleep
<1> QED
  BY <1>1, <1>2 DEF Asleep

(* The steps of Coroutines, of that state.                                 *)
LEMMA PromiseSteps ==
  /\ Promise!Sleeping = Sleepers
  /\ Promise!coroutines = <<nThreads, Running, Asleep, Over, nFns>>
  /\ \A t : Promise!Innermost(t) <=> Current(t)
BY DEF Promise!Sleeping, Promise!coroutines, Promise!Innermost, Asleep, Sleepers, Over, Current

(* A stutter: what threads and breaks are to each other does not change.   *)
Stutters == UNCHANGED <<nThreads, Running, Asleep, Over, nFns>>

LEMMA ThreadsSame ==
  ASSUME WakeInv, WakeInv', nThreads' = nThreads, nFns' = nFns,
         \A t \in Tids : thread'[t].status = thread[t].status,
         \A f \in Fids :
           /\ fn'[f].owner = fn[f].owner /\ fn'[f].kind = fn[f].kind
           /\ fn'[f].arg = fn[f].arg /\ fn'[f].age = fn[f].age
           /\ fn[f].owner \in Sleepers /\ Unfinished(f) => Unfinished(f)'
  PROVE  Running' = Running /\ Sleepers' = Sleepers /\ Asleep' = Asleep
<1>1. Running' = Running
  BY DEF Running
<1>2. Sleepers' = Sleepers \ {} /\ Fids \subseteq Fids'
  BY DEF Sleepers, Suspended
<1>3. Asleep' = [t \in Sleepers \ {} |-> Asleep[t]]
  <2> HIDE DEF Fids
  <2> QED
    BY <1>2, AsleepLess
<1>4. Sleepers \ {} = Sleepers /\ Asleep = [t \in Sleepers |-> Asleep[t]]
  BY DEF Asleep
<1> QED
  BY <1>1, <1>2, <1>3, <1>4

LEMMA StopSteps ==
  ASSUME WakeInv, WakeInv', (\E t \in Tids : StopThread(t)) \/ ExitRoom
  PROVE  \E S \in SUBSET (1..nThreads) : Promise!Stop(S)
<1>0. thread \in [Tids -> ThreadRecord] /\ nThreads' = nThreads /\ nFns' = nFns /\ fn' = fn
  BY DEF WakeInv, TypeOK, StopThread, ExitRoom
<1>1. PICK S \in SUBSET Tids :
        \A t \in Tids : thread'[t] = IF t \in S THEN [thread[t] EXCEPT !.stopped = TRUE]
                                                ELSE thread[t]
  <2>1. ASSUME NEW u \in Tids, StopThread(u)
        PROVE  \A t \in Tids : thread'[t] = IF t \in {u} THEN [thread[t] EXCEPT !.stopped = TRUE]
                                                         ELSE thread[t]
    BY <1>0, <2>1 DEF StopThread
  <2>2. ASSUME ExitRoom
        PROVE  \A t \in Tids :
                 thread'[t] = IF t \in {u \in Tids : Found(u) /\ ~thread[u].global}
                              THEN [thread[t] EXCEPT !.stopped = TRUE] ELSE thread[t]
    BY <1>0, <2>2 DEF ExitRoom
  <2> QED
    BY <2>1, <2>2
<1>2. ASSUME NEW t \in Tids
      PROVE  /\ thread'[t].status = thread[t].status
             /\ thread'[t].stopped <=> t \in S \/ thread[t].stopped
  <2>1. /\ [thread[t] EXCEPT !.stopped = TRUE].status = thread[t].status
        /\ [thread[t] EXCEPT !.stopped = TRUE].stopped
    BY <1>0 DEF ThreadRecord
  <2> QED
    BY <1>1, <2>1
<1>3. Running' = Running /\ Asleep' = Asleep
  BY <1>0, <1>2, ThreadsSame DEF Unfinished
<1>4. Over' = Over \cup S
  BY <1>0, <1>2 DEF Over, IsStopped, Found
<1> QED
  BY <1>0, <1>3, <1>4 DEF Promise!Stop, Asleep, Sleepers, Over

LEMMA StartStep ==
  ASSUME WakeInv, WakeInv', NEW isGlobal \in BOOLEAN, StartThread(isGlobal)
  PROVE  Promise!Start
<1>0. /\ nThreads \in Nat /\ nThreads' = nThreads + 1
      /\ UNCHANGED <<nFns, fn>>
  BY DEF WakeInv, TypeOK, StartThread
<1>1. /\ \A t \in Tids : thread'[t] = thread[t]
      /\ thread'[nThreads + 1].status = "running"
      /\ ~thread'[nThreads + 1].stopped
  BY <1>0 DEF StartThread, Extend
<1>2. Tids' = Tids \cup {nThreads + 1} /\ nThreads + 1 \notin Tids
  BY <1>0
<1>3. Running' = Running \cup {nThreads + 1}
  BY <1>1, <1>2 DEF Running
<1>4. Sleepers' = Sleepers \ {}
  BY <1>1, <1>2 DEF Sleepers, Suspended
<1>5. Asleep' = [t \in Sleepers \ {} |-> Asleep[t]]
  <2>1. Fids \subseteq Fids'
    BY <1>0
  <2> HIDE DEF Fids
  <2> QED
    BY <1>0, <1>4, <2>1, AsleepLess DEF Unfinished
<1>6. Asleep' = Asleep
  <2>1. Sleepers \ {} = Sleepers /\ Asleep = [t \in Sleepers |-> Asleep[t]]
    BY DEF Asleep
  <2> QED
    BY <1>5, <2>1
<1>7. Over' = Over
  BY <1>1, <1>2 DEF Over, IsStopped, Found
<1> QED
  BY <1>0, <1>3, <1>6, <1>7 DEF Promise!Start, Asleep, Sleepers, Over

(* The script breaks: its thread sleeps on the fresh function.             *)
LEMMA SleepStep ==
  ASSUME WakeInv, WakeInv', NEW t \in Tids, NEW kind \in BreakKinds, NEW arg \in Nat,
         NEW c \in Conds \cup {NoCond}, Break(t, kind, arg, c),
         kind \in {"here", "time"} => arg \in 0..MaxDelay,
         kind = "running" => arg \in Tids
  PROVE  \E frames \in 0..MaxDelay, u \in 0..nThreads : Promise!Sleep(t, frames, u)
<1>n. PICK n : n = nFns + 1
  OBVIOUS
<1> DEFINE frames == IF kind \in {"here", "time"} THEN arg ELSE 0
           u == IF kind = "running" THEN arg ELSE 0
<1>0. /\ nFns \in Nat /\ nThreads \in Nat /\ nThreads' = nThreads
      /\ \A f \in Fids : fn'[f] = fn[f]
      /\ n \in Nat /\ nFns' = n /\ fn'[n] = Fresh(t, kind, arg, c)
      /\ thread'[t].status = "suspended"
      /\ \A v \in Tids \ {t} : thread'[v] = thread[v]
      /\ thread \in [Tids -> ThreadRecord]
  BY <1>n, BreakEffect DEF WakeInv, TypeOK
<1>1. Current(t) /\ thread[t].status = "running"
  BY DEF Break, Current, Running
<1>2. frames \in 0..MaxDelay /\ u \in 0..nThreads
  BY <1>0, ThreadsAssumption
<1>3. Running' = Running \ {t} /\ Sleepers' = Sleepers \cup {t} /\ t \notin Sleepers
  BY <1>0, <1>1 DEF Running, Sleepers, Suspended
<1>4. Over' = Over
  <2>1. thread'[t].stopped = thread[t].stopped
    BY <1>0, StatusUpdate DEF Break, Statuses, WakeInv
  <2> QED
    BY <1>0, <1>1, <2>1 DEF Over, IsStopped, Found
<1>5. SleepsOn(BreakOf(t))' = [break |-> n, frames |-> frames, thread |-> u]
  <2>1. n \in Fids' /\ t \in Sleepers' /\ fn'[n].owner = t /\ Unfinished(n)'
    BY <1>n, <1>0, <1>3 DEF Fresh, Unfinished
  <2>2. BreakOf(t)' = n
    BY <2>1, BreakOfStill
  <2>3. /\ fn'[n].kind = kind /\ fn'[n].arg = arg /\ fn'[n].age = 0
    BY <1>0 DEF Fresh
  <2>4. SleepsOn(BreakOf(t))' =
          [break  |-> n,
           frames |-> IF fn'[n].kind \in {"here", "time"} /\ fn'[n].age < fn'[n].arg
                      THEN fn'[n].arg - fn'[n].age ELSE 0,
           thread |-> IF fn'[n].kind = "running" THEN fn'[n].arg ELSE 0]
    BY <2>2 DEF SleepsOn
  <2>5. frames = IF kind \in {"here", "time"} /\ 0 < arg THEN arg - 0 ELSE 0
    OBVIOUS
  <2> HIDE DEF frames
  <2> QED
    BY <2>3, <2>4, <2>5
<1>6. ASSUME NEW v \in Sleepers
      PROVE  SleepsOn(BreakOf(v))' = SleepsOn(BreakOf(v))
  <2>1. PICK f : f = BreakOf(v)
    OBVIOUS
  <2>2. f \in Fids /\ fn[f].owner = v /\ Unfinished(f)
    BY <2>1, BreakOfSleeper
  <2>3. v \in Sleepers' /\ f \in Fids' /\ fn'[f] = fn[f]
    BY <1>n, <1>0, <1>3, <2>2
  <2>4. BreakOf(v)' = f
    BY <2>2, <2>3, BreakOfStill DEF Unfinished
  <2> QED
    BY <2>1, <2>3, <2>4 DEF SleepsOn
<1>7. Asleep' = [v \in Sleepers \cup {t} |->
                   IF v = t THEN [break |-> n, frames |-> frames, thread |-> u]
                            ELSE Asleep[v]]
  <2>1. Asleep' = [v \in Sleepers \cup {t} |-> SleepsOn(BreakOf(v))']
    BY <1>3 DEF Asleep
  <2> HIDE DEF frames, u
  <2> QED
    BY <1>3, <1>5, <1>6, <2>1 DEF Asleep
<1> HIDE DEF frames, u
<1>8. Promise!Sleep(t, frames, u)
  BY <1>n, <1>0, <1>1, <1>3, <1>4, <1>7
     DEF Promise!Sleep, Promise!Sleeping, Promise!Innermost, Current, Asleep, Sleepers, Over
<1> QED
  BY <1>2, <1>8

(* The script returns.                                                     *)
LEMMA EndStep ==
  ASSUME WakeInv, WakeInv', Return
  PROVE  \E t \in 1..nThreads : Promise!End(t)
<1>1. PICK t \in Tids : Current(t) /\ thread' = [thread EXCEPT ![t].status = "finished"]
  BY DEF Return
<1>2. /\ nThreads' = nThreads /\ nFns' = nFns /\ fn' = fn
      /\ thread[t].status = "running" /\ thread'[t].status = "finished"
      /\ \A u \in Tids \ {t} : thread'[u] = thread[u]
      /\ Fids \subseteq Fids'
  BY <1>1, StatusUpdate DEF Return, Statuses, WakeInv, Current, Running
<1>3. Running' = Running \ {t} /\ Sleepers' = Sleepers \ {}
  BY <1>2 DEF Running, Sleepers, Suspended
<1>4. Asleep' = [u \in Sleepers \ {} |-> Asleep[u]]
  <2> HIDE DEF Fids
  <2> QED
    BY <1>2, <1>3, AsleepLess DEF Unfinished
<1>5. Asleep' = Asleep
  <2>1. Sleepers \ {} = Sleepers /\ Asleep = [u \in Sleepers |-> Asleep[u]]
    BY DEF Asleep
  <2> QED
    BY <1>4, <2>1
<1>6. Over' = Over \cup {t}
  BY <1>2 DEF Over, IsStopped, Found
<1>7. Promise!End(t)
  BY <1>1, <1>2, <1>3, <1>5, <1>6
     DEF Promise!End, Promise!Innermost, Current, Asleep, Sleepers, Over
<1> QED
  BY <1>7

(* stopThreads erases every thread that is over, asleep or not.            *)
LEMMA DestroyStep ==
  ASSUME WakeInv, WakeInv', IdleInv, StopThreads
  PROVE  Promise!Destroy
<1>1. /\ nThreads' = nThreads /\ nFns' = nFns /\ fn' = fn /\ Running = {}
      /\ Fids \subseteq Fids' /\ thread \in [Tids -> ThreadRecord]
  BY DEF StopThreads, IdleInv, WakeInv, TypeOK
<1>2. ASSUME NEW t \in Tids
      PROVE  /\ thread'[t].stopped = thread[t].stopped
             /\ thread'[t].status = IF IsStopped(t) THEN "gone" ELSE thread[t].status
  <2>1. /\ [thread[t] EXCEPT !.status = "gone"].status = "gone"
        /\ [thread[t] EXCEPT !.status = "gone"].stopped = thread[t].stopped
    BY <1>1, StatusRecord DEF Statuses
  <2> QED
    BY <2>1 DEF StopThreads
<1>3. Sleepers' = Sleepers \ Over
  BY <1>1, <1>2 DEF Sleepers, Suspended, Over, Found
<1>4. Asleep' = [t \in Sleepers \ Over |-> Asleep[t]]
  <2> HIDE DEF Fids
  <2> QED
    BY <1>1, <1>3, AsleepLess DEF Unfinished
<1>5. Running' = Running
  BY <1>1, <1>2 DEF Running
<1>6. Over' = Over
  BY <1>1, <1>2 DEF Over, IsStopped, Found
<1>7. DOMAIN Asleep = Sleepers
  BY DEF Asleep
<1> QED
  BY <1>1, <1>4, <1>5, <1>6, <1>7
     DEF Promise!Destroy, Promise!Without, Asleep, Sleepers, Over

(* The frame counter moves: every sleeping breakhere and breaktime is in   *)
(* one of the lists, and is counted.                                       *)
LEMMA CountStep ==
  ASSUME WakeInv, WakeInv', CountFrame
  PROVE  Promise!CountFrame
<1>1. /\ nThreads' = nThreads /\ nFns' = nFns /\ thread' = thread /\ Running = {}
      /\ fn \in [Fids -> FnRecord]
  BY DEF CountFrame, WakeInv, TypeOK
<1>2. Running' = Running /\ Sleepers' = Sleepers /\ Over' = Over /\ Fids' = Fids
  BY <1>1 DEF Running, Sleepers, Suspended, Over, IsStopped, Found
<1>3. ASSUME NEW f \in Fids
      PROVE  /\ fn[f] \in FnRecord
             /\ fn'[f].owner = fn[f].owner /\ fn'[f].kind = fn[f].kind
             /\ fn'[f].arg = fn[f].arg /\ fn'[f].done = fn[f].done
             /\ Queued(f) /\ fn[f].kind \in {"here", "time"} => fn'[f].age = fn[f].age + 1
  <2>1. \/ fn'[f] = fn[f] /\ ~(Queued(f) /\ fn[f].kind \in {"here", "time"})
        \/ fn'[f] = [fn[f] EXCEPT !.age = @ + 1]
    BY DEF CountFrame
  <2>2. PICK b \in FnRecord : b = fn[f]
    BY <1>1
  <2>3. PICK c : c = [b EXCEPT !.age = @ + 1]
    OBVIOUS
  <2>4. /\ c.age = b.age + 1 /\ c.kind = b.kind /\ c.owner = b.owner
        /\ c.arg = b.arg /\ c.done = b.done
    BY <2>3, AgeRecord
  <2>5. \/ fn'[f] = b /\ ~(Queued(f) /\ b.kind \in {"here", "time"})
        \/ fn'[f] = c
    BY <2>1, <2>2, <2>3
  <2> QED
    BY <2>2, <2>4, <2>5
<1>4. ASSUME NEW t \in Sleepers
      PROVE  SleepsOn(BreakOf(t))' =
               [Asleep[t] EXCEPT !.frames = IF @ = 0 THEN 0 ELSE @ - 1]
  <2>1. PICK f : f = BreakOf(t)
    OBVIOUS
  <2>2. f \in Fids /\ fn[f].owner = t /\ Unfinished(f)
    BY <2>1, BreakOfSleeper
  <2>3. BreakOf(t)' = f
    BY <1>2, <1>3, <2>2, BreakOfStill DEF Unfinished
  <2>4. fn[f].kind \in {"here", "time"} => Queued(f)
    <3>1. PICK g \in Fids : /\ fn[g].owner = t /\ Unfinished(g)
                            /\ Dependable(fn[g]) => Queued(g)
      BY DEF WakeInv, SleeperHasWaker, Sleepers
    <3>2. g = f
      BY <2>1, <3>1, BreakOfSleeper
    <3> QED
      BY <3>1, <3>2 DEF Dependable
  <2> DEFINE left(age) == IF fn[f].kind \in {"here", "time"} /\ age < fn[f].arg
                          THEN fn[f].arg - age ELSE 0
             who == IF fn[f].kind = "running" THEN fn[f].arg ELSE 0
  <2>5. Asleep[t] = [break |-> f, frames |-> left(fn[f].age), thread |-> who]
    BY <2>1 DEF Asleep, SleepsOn
  <2>6. SleepsOn(BreakOf(t))' = [break |-> f, frames |-> left(fn'[f].age), thread |-> who]
    BY <1>3, <2>2, <2>3 DEF SleepsOn
  <2>7. left(fn'[f].age) = IF left(fn[f].age) = 0 THEN 0 ELSE left(fn[f].age) - 1
    <3>1. fn[f].age \in Nat /\ fn[f].arg \in Nat
      BY <1>3, <2>2 DEF FnRecord
    <3> QED
      BY <1>3, <2>2, <2>4, <3>1
  <2> HIDE DEF left, who
  <2> QED
    BY <2>5, <2>6, <2>7
<1>5. Asleep' = [t \in Sleepers |-> [Asleep[t] EXCEPT !.frames = IF @ = 0 THEN 0 ELSE @ - 1]]
  <2>1. Asleep' = [t \in Sleepers |-> SleepsOn(BreakOf(t))']
    BY <1>2 DEF Asleep
  <2> QED
    BY <1>4, <2>1
<1>6. Promise!CountFrame <=>
        /\ Running = {}
        /\ Asleep' = [t \in Sleepers |-> [Asleep[t] EXCEPT !.frames = IF @ = 0 THEN 0 ELSE @ - 1]]
        /\ UNCHANGED <<nThreads, Running, Over, nFns>>
  BY DEF Promise!CountFrame, Promise!Sleeping, Asleep, Sleepers, Over
<1> QED
  BY <1>1, <1>2, <1>5, <1>6

(* A break function is run: its thread wakes, if it was over and the       *)
(* thread is still asleep on it.                                           *)
LEMMA RunStep ==
  ASSUME WakeInv, WakeInv', NEW f \in Fids, RunFunction(f)
  PROVE  Stutters \/ \E t \in 1..nThreads : Promise!Wake(t)
<1> DEFINE b == fn[f]
<1>1. /\ nFns' = nFns /\ nThreads' = nThreads /\ cond' = cond /\ Running = {}
      /\ fn'[f] = Stepped(b)
      /\ \A g \in Fids \ {f} : fn'[g] = fn[g]
      /\ \A u \in Tids : thread'[u] # thread[u] =>
              /\ u = b.owner /\ ~b.done /\ fn'[f].done
              /\ thread[u].status = "suspended" /\ thread'[u].status = "running"
      /\ ~b.done /\ fn'[f].done /\ Suspended(b.owner) =>
              thread'[b.owner].status = "running"
  BY RunEffect DEF RunFunction, WakeInv
<1>2. b \in FnRecord /\ thread \in [Tids -> ThreadRecord]
  BY DEF WakeInv, TypeOK
<1>3. ASSUME NEW g \in Fids
      PROVE  /\ fn'[g].owner = fn[g].owner /\ fn'[g].kind = fn[g].kind
             /\ fn'[g].arg = fn[g].arg /\ fn'[g].age = fn[g].age
             /\ g # f => (Unfinished(g)' <=> Unfinished(g))
  BY <1>1, <1>2, SteppedRecord DEF Unfinished
<1>4. \A u \in Tids : thread'[u].stopped = thread[u].stopped
  <2>1. thread' = thread \/ \E u \in Tids : thread' = [thread EXCEPT ![u].status = "running"]
    BY DEF RunFunction, Resume, Found
  <2>2. CASE thread' = thread
    BY <2>2
  <2>3. ASSUME NEW u \in Tids, thread' = [thread EXCEPT ![u].status = "running"]
        PROVE  \A v \in Tids : thread'[v].stopped = thread[v].stopped
    BY <1>1, <2>3, StatusUpdate DEF Statuses, WakeInv
  <2> QED
    BY <2>1, <2>2, <2>3
<1>5. Over' = Over
  BY <1>1, <1>4 DEF Over, IsStopped, Found
<1>6. CASE ~b.done /\ fn'[f].done /\ Suspended(b.owner)
  <2>1. PICK o : o = b.owner
    OBVIOUS
  <2>2. o \in Sleepers /\ Unfinished(f) /\ f = BreakOf(o)
    BY <1>6, <2>1, BreakOfSleeper DEF Sleepers, Suspended, Unfinished
  <2>3. Running' = {o} /\ Sleepers' = Sleepers \ {o}
    BY <1>1, <1>6, <2>1 DEF Running, Sleepers, Suspended
  <2>4. Asleep' = [t \in Sleepers \ {o} |-> Asleep[t]]
    <3>1. /\ Fids \subseteq Fids'
          /\ \A g \in Fids : fn[g].owner \in Sleepers \ {o} /\ Unfinished(g) => Unfinished(g)'
      BY <1>1, <1>3, <2>1
    <3> HIDE DEF Fids
    <3> QED
      BY <1>3, <2>3, <3>1, AsleepLess
  <2>5. Asleep[o].frames = 0 /\ Asleep[o].thread \in Over \cup {0}
    <3>1. Asleep[o] = SleepsOn(f)
      BY <2>2 DEF Asleep
    <3>2. Queued(f) /\ BeforePass(f)
      BY FiringBreak
    <3>3. b.kind \in {"here", "time"} => b.age >= b.arg
      <4>1. b.age \in Nat /\ b.arg \in Nat /\ b.ticks \in Nat
        BY <1>2 DEF FnRecord
      <4>2. CASE b.kind = "here"
        BY <1>1, <1>2, <1>6, <4>2, SteppedRecord
      <4>3. CASE b.kind = "time"
        <5>1. b.ticks + 1 > b.arg
          BY <1>1, <1>2, <1>6, <4>3, SteppedRecord
        <5>2. b.age \in {b.ticks, b.ticks + 1}
          BY <1>6, <3>2, <4>3 DEF WakeInv, TimeOnTime, Unfinished
        <5> QED
          BY <4>1, <5>1, <5>2
      <4> QED
        BY <4>2, <4>3
    <3>4. b.kind = "running" => b.arg \in Over
      <4> SUFFICES ASSUME b.kind = "running" PROVE b.arg \in Over
        OBVIOUS
      <4>1. fn'[f] = [b EXCEPT !.done = Fires(b)]
        BY <1>1, <1>6 DEF Stepped
      <4>2. Fires(b)
        BY <1>2, <1>6, <4>1 DEF FnRecord
      <4>3. b.arg \in Tids
        BY DEF WakeInv, WellFormed
      <4> QED
        BY <4>2, <4>3 DEF Fires, Over
    <3>5. b.age \in Nat /\ b.arg \in Nat
      BY <1>2 DEF FnRecord
    <3> QED
      BY <3>1, <3>3, <3>4, <3>5 DEF SleepsOn
  <2>6. DOMAIN Asleep = Sleepers
    BY DEF Asleep
  <2>7. Promise!Wake(o) <=>
          /\ Running = {} /\ o \in DOMAIN Asleep
          /\ Asleep[o].frames = 0
          /\ Asleep[o].thread \in Over \cup {0}
          /\ Running' = {o}
          /\ Asleep' = [t \in DOMAIN Asleep \ {o} |-> Asleep[t]]
          /\ UNCHANGED <<nThreads, Over, nFns>>
    BY DEF Promise!Wake, Promise!Sleeping, Promise!Without, Asleep, Sleepers, Over
  <2> QED
    BY <1>1, <1>5, <2>2, <2>3, <2>4, <2>5, <2>6, <2>7 DEF Sleepers
<1>7. CASE ~(~b.done /\ fn'[f].done /\ Suspended(b.owner))
  <2>1. \A t \in Tids : thread'[t].status = thread[t].status
    BY <1>1, <1>7 DEF Suspended
  <2>2. b.owner \in Sleepers /\ Unfinished(f) => Unfinished(f)'
    BY <1>7 DEF Sleepers, Unfinished
  <2>3. Running' = Running /\ Asleep' = Asleep
    BY <1>1, <1>3, <2>1, <2>2, ThreadsSame
  <2> QED
    BY <1>1, <1>5, <2>3 DEF Stutters
<1> QED
  BY <1>6, <1>7

(* What else the frame and the scripts do is nothing to Coroutines.        *)
LEMMA StutterSteps ==
  ASSUME WakeInv, WakeInv',
         \/ SkipFrame \/ StartFunctions \/ EraseElapsed \/ EndFrame
         \/ \E c \in Conds : ScriptChanges(c) \/ WorldChanges(c)
         \/ UNCHANGED vars
  PROVE  Stutters
<1>1. /\ nThreads' = nThreads /\ nFns' = nFns /\ thread' = thread
      /\ fn \in [Fids -> FnRecord]
  BY DEF SkipFrame, StartFunctions, EraseElapsed, EndFrame, ScriptChanges, WorldChanges,
         vars, WakeInv, TypeOK
<1>2. ASSUME NEW f \in Fids
      PROVE  /\ fn'[f].owner = fn[f].owner /\ fn'[f].kind = fn[f].kind
             /\ fn'[f].arg = fn[f].arg /\ fn'[f].age = fn[f].age
             /\ fn'[f].done = fn[f].done
  <2>1. \/ fn'[f] = fn[f]
        \/ \E w \in {"new", "list", "erased"} : fn'[f] = [fn[f] EXCEPT !.where = w]
    BY DEF SkipFrame, StartFunctions, EraseElapsed, EndFrame, ScriptChanges, WorldChanges, vars
  <2>2. ASSUME NEW w \in {"new", "list", "erased"}, fn'[f] = [fn[f] EXCEPT !.where = w]
        PROVE  /\ fn'[f].owner = fn[f].owner /\ fn'[f].kind = fn[f].kind
               /\ fn'[f].arg = fn[f].arg /\ fn'[f].age = fn[f].age
               /\ fn'[f].done = fn[f].done
    <3>1. fn[f] \in FnRecord
      BY <1>1
    <3> QED
      BY <2>2, <3>1, WhereRecord
  <2> QED
    BY <2>1, <2>2
<1>3. Running' = Running /\ Asleep' = Asleep
  BY <1>1, <1>2, ThreadsSame DEF Unfinished
<1>4. Over' = Over
  BY <1>1 DEF Over, IsStopped, Found
<1> QED
  BY <1>1, <1>3, <1>4 DEF Stutters

LEMMA PromiseNext ==
  ASSUME WakeInv, WakeInv', IdleInv, [Next]_vars
  PROVE  [Promise!Next]_(Promise!coroutines)
<1>1. CASE \E g \in BOOLEAN : StartThread(g)
  BY <1>1, StartStep DEF Promise!Next
<1>2. CASE (\E t \in Tids : StopThread(t)) \/ ExitRoom
  BY <1>2, StopSteps DEF Promise!Next
<1>3. ASSUME NEW t \in Tids, NEW kind \in BreakKinds, NEW arg \in Nat,
             NEW c \in Conds \cup {NoCond},
             kind = "running" => arg \in Tids,
             kind \in {"here", "time"} => arg \in 0..MaxDelay,
             Break(t, kind, arg, c)
      PROVE  Promise!Next
  BY <1>3, SleepStep DEF Promise!Next
<1>4. CASE Return
  BY <1>4, EndStep DEF Promise!Next
<1>5. CASE StopThreads
  BY <1>5, DestroyStep DEF Promise!Next
<1>6. CASE CountFrame
  BY <1>6, CountStep DEF Promise!Next
<1>7. Stutters => UNCHANGED Promise!coroutines
  BY PromiseSteps DEF Stutters, Promise!coroutines, Asleep, Sleepers, Over
<1>8. CASE \E f \in Fids : RunFunction(f)
  BY <1>7, <1>8, RunStep DEF Promise!Next
<1>9. CASE \/ SkipFrame \/ StartFunctions \/ EraseElapsed \/ EndFrame
           \/ \E c \in Conds : ScriptChanges(c) \/ WorldChanges(c)
           \/ UNCHANGED vars
  BY <1>7, <1>9, StutterSteps
<1> QED
  BY NextCases, <1>1, <1>2, <1>3, <1>4, <1>5, <1>6, <1>8, <1>9

LEMMA PromiseInit == Init => Promise!Init
<1> SUFFICES ASSUME Init PROVE Promise!Init
  OBVIOUS
<1>1. nThreads = 0 /\ nFns = 0 /\ Tids = {}
  BY DEF Init
<1>2. Running = {} /\ Over = {} /\ Sleepers = {}
  BY <1>1 DEF Running, Over, Sleepers
<1>3. Asleep = [t \in {} |-> {}]
  BY <1>2 DEF Asleep
<1> QED
  BY <1>1, <1>2, <1>3 DEF Promise!Init, Asleep, Sleepers, Over

(* The lists, the passes and the flags of Engine::update keep what         *)
(* Coroutines promises to scripts: one thread runs at a time, each sleeps  *)
(* on one break, wakes not before the frames it asked for have gone by nor *)
(* before the thread it waits for is over, and is destroyed once stopped.  *)
THEOREM ThreadsKeepPromise == Spec => KeepsPromise
<1>1. Init => WakeInv /\ IdleInv
  BY InitWakeInv DEF Init, IdleInv, Running
<1>2. WakeInv /\ IdleInv /\ [Next]_vars => WakeInv' /\ IdleInv'
  BY WakeStep, IdleStep DEF WakeInv
<1>3. WakeInv /\ WakeInv' /\ IdleInv /\ [Next]_vars => [Promise!Next]_(Promise!coroutines)
  BY PromiseNext
<1> QED
  BY <1>1, <1>2, <1>3, PromiseInit, PTL DEF Spec, KeepsPromise, Promise!Spec

=============================================================================
