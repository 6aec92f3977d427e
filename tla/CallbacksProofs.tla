-------------------------- MODULE CallbacksProofs --------------------------
(***************************************************************************)
(* Proofs about Callbacks, for any number of identifiers, delays, frames   *)
(* and loads: the types, and the four safety properties that the run       *)
(* callbacks checks on a small instance.                                   *)
(***************************************************************************)
EXTENDS Callbacks, TLAPS

(* What the vectors hold between the steps: no callback of _callbacks is   *)
(* late or has run; one in the pass has either run, being late, or is due  *)
(* to be looked at; there is nothing in the pass when there is no pass.    *)
VectorsOK ==
  /\ \A id \in DOMAIN callbacks : ~callbacks[id].done /\ ~Elapsed(callbacks[id])
  /\ \A id \in DOMAIN passing :
       IF passing[id].done THEN Elapsed(passing[id]) ELSE fate[id] = "due"
  /\ ~inPass => DOMAIN passing = {} /\ running = 0

(* A saved game keeps the callbacks that its own history says wait.        *)
SaveOK ==
  saveFile.saved =>
    /\ DOMAIN saveFile.time = {id \in Ids : saveFile.fate[id] \in {"new", "due"}}
    /\ \A id \in DOMAIN saveFile.time : id < saveFile.nextId

(* The inductive invariant. NoneLost alone is not inductive: EndPass drops *)
(* the callbacks of the pass that have elapsed, which VectorsOK says have  *)
(* run, and LoadCallbacks brings back what SaveOK says of the file.        *)
CallbacksInv == TypeOK /\ NoneLost /\ IdsAreFresh /\ VectorsOK /\ SaveOK

LEMMA NoCallbacksOK ==
  /\ DOMAIN NoCallbacks = {}
  /\ AreCallbacks(NoCallbacks)
BY DEF NoCallbacks, AreCallbacks, Callback

LEMMA InitInv == Init => CallbacksInv
<1> SUFFICES ASSUME Init PROVE CallbacksInv
  OBVIOUS
<1> USE CallbacksAssumption, NoCallbacksOK DEF Init
<1>1. TypeOK
  <2>1. nextId \in 1..(MaxIds + 1) /\ nLoads \in 0..MaxLoads
    OBVIOUS
  <2>2. fate \in [Ids -> Fates]
    BY DEF Fates
  <2> QED BY <2>1, <2>2 DEF TypeOK
<1>2. NoneLost
  BY DEF NoneLost, Pending, Waiting
<1>3. IdsAreFresh
  BY DEF IdsAreFresh
<1>4. VectorsOK
  BY DEF VectorsOK
<1>5. SaveOK
  BY DEF SaveOK, NoSave
<1> QED BY <1>1, <1>2, <1>3, <1>4, <1>5 DEF CallbacksInv

LEMMA AddStep ==
  ASSUME CallbacksInv, NEW duration \in Delays, AddCallback(duration)
  PROVE  CallbacksInv'
<1> USE CallbacksAssumption DEF CallbacksInv, AddCallback
<1>1. /\ DOMAIN callbacks' = DOMAIN callbacks \cup {nextId}
      /\ \A id \in DOMAIN callbacks : id # nextId /\ callbacks'[id] = callbacks[id]
      /\ callbacks'[nextId] = [elapsed |-> 0, time |-> duration, done |-> FALSE]
  BY DEF IdsAreFresh, TypeOK
<1>2. nextId \notin DOMAIN passing /\ nextId \in Nat /\ duration \in Nat
  BY DEF IdsAreFresh, TypeOK, AreCallbacks, Ids
<1>3. TypeOK'
  BY <1>1, <1>2 DEF TypeOK, AreCallbacks, Callback, Ids, Fates
<1>4. NoneLost'
  BY <1>1, <1>2 DEF NoneLost, Pending, Waiting, TypeOK
<1>5. IdsAreFresh'
  BY <1>1, <1>2 DEF IdsAreFresh, TypeOK, AreCallbacks, Ids
<1>6. VectorsOK'
  <2>1. \A id \in DOMAIN callbacks' :
          ~callbacks'[id].done /\ ~Elapsed(callbacks'[id])
    BY <1>1, <1>2 DEF VectorsOK, Elapsed
  <2>2. \A id \in DOMAIN passing : id \in Ids /\ fate'[id] = fate[id]
    BY <1>2 DEF TypeOK, AreCallbacks
  <2> QED BY <2>1, <2>2 DEF VectorsOK, Elapsed, ScriptMayAct
<1>7. SaveOK'
  BY DEF SaveOK
<1> QED BY <1>3, <1>4, <1>5, <1>6, <1>7

LEMMA RemoveStep ==
  ASSUME CallbacksInv, NEW id \in Ids, RemoveCallback(id)
  PROVE  CallbacksInv'
<1> USE DEF CallbacksInv, RemoveCallback
<1>1. /\ DOMAIN callbacks' = DOMAIN callbacks \ {id}
      /\ \A i \in DOMAIN callbacks' : callbacks'[i] = callbacks[i]
  OBVIOUS
<1>2. id \notin DOMAIN passing
  BY DEF IdsAreFresh
<1>3. TypeOK'
  BY <1>1 DEF TypeOK, AreCallbacks, Fates
<1>4. NoneLost'
  BY <1>1, <1>2 DEF NoneLost, Pending, Waiting, TypeOK
<1>5. IdsAreFresh'
  BY <1>1 DEF IdsAreFresh
<1>6. VectorsOK'
  <2>1. \A i \in DOMAIN passing : i \in Ids /\ fate'[i] = fate[i]
    BY <1>2 DEF TypeOK, AreCallbacks
  <2> QED BY <1>1, <2>1 DEF VectorsOK, Elapsed
<1>7. SaveOK'
  BY DEF SaveOK
<1> QED BY <1>3, <1>4, <1>5, <1>6, <1>7

LEMMA SaveStep ==
  ASSUME CallbacksInv, SaveCallbacks
  PROVE  CallbacksInv'
<1> USE DEF CallbacksInv, SaveCallbacks
<1>1. DOMAIN saveFile'.time = DOMAIN callbacks
  OBVIOUS
<1>2. \A i \in DOMAIN callbacks : i \in Ids /\ callbacks[i].elapsed \in Nat
  BY DEF TypeOK, AreCallbacks, Callback
<1>3. TypeOK'
  <2>1. IsSave(saveFile')
    BY <1>2 DEF IsSave, TypeOK, Fates, AreCallbacks
  <2> QED BY <2>1 DEF TypeOK, AreCallbacks
<1>4. SaveOK'
  <2>1. \A i \in Ids : saveFile'.fate[i] \in {"new", "due"} <=> i \in DOMAIN callbacks
    BY DEF Waiting, NoneLost, Pending
  <2> QED BY <1>1, <1>2, <2>1 DEF SaveOK, IdsAreFresh
<1> QED BY <1>3, <1>4 DEF NoneLost, Pending, Waiting, IdsAreFresh, VectorsOK, Elapsed

LEMMA LoadStep ==
  ASSUME CallbacksInv, LoadCallbacks
  PROVE  CallbacksInv'
<1> USE CallbacksAssumption DEF CallbacksInv, LoadCallbacks
<1>1. IsSave(saveFile)
  BY DEF TypeOK, NoSave
<1>2. DOMAIN callbacks' = DOMAIN saveFile.time /\ DOMAIN passing = {}
  BY DEF VectorsOK
<1>3. TypeOK'
  BY <1>1 DEF TypeOK, AreCallbacks, Callback, IsSave
<1>4. NoneLost'
  BY <1>2 DEF NoneLost, Pending, Waiting, SaveOK
<1>5. IdsAreFresh'
  BY <1>2 DEF IdsAreFresh, SaveOK
<1>6. VectorsOK'
  BY <1>1, <1>2 DEF VectorsOK, Elapsed, IsSave
<1>7. SaveOK'
  BY DEF SaveOK
<1> QED BY <1>3, <1>4, <1>5, <1>6, <1>7

LEMMA BeginStep ==
  ASSUME CallbacksInv, NEW tick \in Ticks, BeginPass(tick)
  PROVE  CallbacksInv'
<1> USE CallbacksAssumption DEF CallbacksInv, BeginPass
<1>1. DOMAIN passing' = DOMAIN callbacks /\ DOMAIN callbacks' = {}
  BY NoCallbacksOK
<1>2. \A id \in DOMAIN callbacks :
        /\ id \in Ids /\ callbacks[id] \in Callback
        /\ passing'[id] \in Callback
        /\ ~passing'[id].done
        /\ fate'[id] = "due"
  BY DEF TypeOK, AreCallbacks, Callback, VectorsOK
<1>3. TypeOK'
  BY <1>1, <1>2, NoCallbacksOK DEF TypeOK, AreCallbacks, Fates
<1>4. NoneLost'
  <2>1. DOMAIN passing = {}
    BY DEF VectorsOK
  <2> QED BY <1>1, <1>2, <2>1 DEF NoneLost, Pending, Waiting
<1>5. IdsAreFresh'
  BY <1>1 DEF IdsAreFresh
<1>6. VectorsOK'
  BY <1>1, <1>2 DEF VectorsOK
<1>7. SaveOK'
  BY DEF SaveOK
<1> QED BY <1>3, <1>4, <1>5, <1>6, <1>7

LEMMA ElapsedStep ==
  ASSUME CallbacksInv, NEW id \in Ids, OnElapsed(id)
  PROVE  CallbacksInv'
<1> USE DEF CallbacksInv, OnElapsed, Due
<1>1. /\ DOMAIN passing' = DOMAIN passing
      /\ passing'[id] = [passing[id] EXCEPT !.done = TRUE]
      /\ \A i \in DOMAIN passing \ {id} : passing'[i] = passing[i]
      /\ \A i \in Ids \ {id} : fate'[i] = fate[i]
      /\ fate'[id] = "ran"
  BY DEF TypeOK
<1>2. passing[id] \in Callback /\ id \notin DOMAIN callbacks
  BY DEF TypeOK, AreCallbacks, IdsAreFresh
<1>3. passing'[id] \in Callback /\ passing'[id].done /\ Elapsed(passing'[id])
  BY <1>1, <1>2 DEF Callback, Elapsed
<1>4. TypeOK'
  BY <1>1, <1>3 DEF TypeOK, AreCallbacks, Fates
<1>5. NoneLost'
  BY <1>1, <1>2, <1>3 DEF NoneLost, Pending, Waiting, TypeOK, AreCallbacks
<1>6. IdsAreFresh'
  BY <1>1 DEF IdsAreFresh
<1>7. VectorsOK'
  BY <1>1, <1>3 DEF VectorsOK, Elapsed, TypeOK, AreCallbacks
<1>8. SaveOK'
  BY DEF SaveOK
<1> QED BY <1>4, <1>5, <1>6, <1>7, <1>8

LEMMA EndStep ==
  ASSUME CallbacksInv, EndPass
  PROVE  CallbacksInv'
<1> USE DEF CallbacksInv, EndPass
<1>1. /\ DOMAIN callbacks' = DOMAIN callbacks \cup Survivors
      /\ \A id \in DOMAIN callbacks : callbacks'[id] = callbacks[id]
      /\ \A id \in Survivors : callbacks'[id] = passing[id]
      /\ DOMAIN passing' = {}
  BY NoCallbacksOK DEF IdsAreFresh, Survivors
<1>2. Survivors = {id \in DOMAIN passing : ~passing[id].done}
  BY DEF Survivors, Due, VectorsOK
<1>3. TypeOK'
  BY <1>1, NoCallbacksOK DEF TypeOK, AreCallbacks, Survivors
<1>4. NoneLost'
  BY <1>1, <1>2 DEF NoneLost, Pending, Waiting
<1>5. IdsAreFresh'
  BY <1>1 DEF IdsAreFresh, Survivors
<1>6. VectorsOK'
  BY <1>1, <1>2 DEF VectorsOK, Survivors, Elapsed
<1>7. SaveOK'
  BY DEF SaveOK
<1> QED BY <1>3, <1>4, <1>5, <1>6, <1>7

LEMMA RestartStep ==
  ASSUME CallbacksInv, Restart
  PROVE  CallbacksInv'
<1> USE CallbacksAssumption, NoCallbacksOK DEF CallbacksInv, Restart
<1>1. TypeOK'
  <2>1. nextId' \in 1..(MaxIds + 1) /\ fate' \in [Ids -> Fates]
    BY DEF Fates
  <2> QED BY <2>1 DEF TypeOK
<1>2. NoneLost'
  BY DEF NoneLost, Pending, Waiting
<1>3. IdsAreFresh' /\ VectorsOK' /\ SaveOK'
  BY DEF IdsAreFresh, VectorsOK, SaveOK
<1> QED BY <1>1, <1>2, <1>3

LEMMA CallbacksStep == CallbacksInv /\ [Next]_vars => CallbacksInv'
<1> SUFFICES ASSUME CallbacksInv, [Next]_vars PROVE CallbacksInv'
  OBVIOUS
<1>1. CASE UNCHANGED vars
  BY <1>1 DEF CallbacksInv, vars, TypeOK, NoneLost, Pending, Waiting, IdsAreFresh,
     VectorsOK, SaveOK, Elapsed, AreCallbacks
<1>2. CASE CallbackReturns
  BY <1>2 DEF CallbacksInv, CallbackReturns, TypeOK, NoneLost, Pending, Waiting,
     IdsAreFresh, VectorsOK, SaveOK, Elapsed, AreCallbacks
<1> QED
  BY <1>1, <1>2, AddStep, RemoveStep, SaveStep, LoadStep, RestartStep, BeginStep,
     ElapsedStep, EndStep DEF Next, UpdateFunctions

(* In every reachable state the vectors, the counter, the saved game and   *)
(* the history agree.                                                      *)
THEOREM CallbacksInvariant == Spec => []CallbacksInv
<1> QED BY InitInv, CallbacksStep, PTL DEF Spec

(* The variables of updateFunctions, addCallback and loadCallbacks keep    *)
(* their types.                                                            *)
THEOREM CallbacksTypeCorrect == Spec => []TypeOK
<1>1. CallbacksInv => TypeOK
  BY DEF CallbacksInv
<1> QED BY <1>1, CallbacksInvariant, PTL

(* No callback is lost or brought back while updateFunctions moves them    *)
(* out and back and scripts add, remove, save and load.                    *)
THEOREM NoCallbackIsLost == Spec => []NoneLost
<1>1. CallbacksInv => NoneLost
  BY DEF CallbacksInv
<1> QED BY <1>1, CallbacksInvariant, PTL

(* The counter of EntityManager never gives an identifier in use, in a     *)
(* game loaded or not.                                                     *)
THEOREM CallbackIdsAreFresh == Spec => []IdsAreFresh
<1>1. CallbacksInv => IdsAreFresh
  BY DEF CallbacksInv
<1> QED BY <1>1, CallbacksInvariant, PTL

(* No callback is late once the pass of updateFunctions is over.           *)
THEOREM NoCallbackIsOverdue == Spec => []NoneOverdue
<1>1. CallbacksInv => NoneOverdue
  BY DEF CallbacksInv, VectorsOK, NoneOverdue
<1> QED BY <1>1, CallbacksInvariant, PTL

(* Only OnElapsed starts a callback, and VectorsOK says that one it can    *)
(* start has been due since the pass began.                                *)
THEOREM CallbackRunsOnce == Spec => RunsOnce
<1>1. ASSUME CallbacksInv, [Next]_vars, NEW id \in Ids,
             running' = id, running # id
      PROVE  fate[id] = "due"
  <2>1. id # 0
    BY DEF Ids
  <2>2. OnElapsed(id)
    BY <1>1, <2>1 DEF Next, UpdateFunctions, AddCallback, RemoveCallback,
       SaveCallbacks, LoadCallbacks, Restart, CallbackReturns, BeginPass,
       OnElapsed, EndPass, vars
  <2> QED BY <1>1, <2>2 DEF OnElapsed, Due, CallbacksInv, VectorsOK
<1>2. CallbacksInv /\ [Next]_vars =>
        [\A id \in Ids : running' = id /\ running # id => fate[id] = "due"]_vars
  BY <1>1
<1> QED BY <1>2, CallbacksInvariant, PTL DEF Spec, RunsOnce

=============================================================================
