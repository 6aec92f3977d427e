----------------------------- MODULE VerbsProofs -----------------------------
(***************************************************************************)
(* Proofs about Verbs and Costumes, for any objects, actors and paths, any *)
(* number of clicks and of doings of scripts, so for scripts that call one *)
(* another to any depth: a verb is executed where its thing is, a sentence *)
(* ends one way, an object is in one inventory, and a walk is shown.       *)
(***************************************************************************)
EXTENDS Costumes, SequenceTheorems, TLAPS

(* What is left of the functions of a sentence.                            *)
Plans ==
  {<<>>, <<"default">>, <<"verb", "default">>, <<"reach", "verb", "default">>,
   <<"postWalk", "verb", "default">>, <<"postWalk", "reach", "verb", "default">>,
   <<"walk", "postWalk", "verb", "default">>,
   <<"walk", "postWalk", "reach", "verb", "default">>}

First(plan) == IF plan = <<>> THEN "nothing" ELSE Head(plan)

Bodies ==
  [funcs : Plans, done : BOOLEAN, reaching : BOOLEAN, stopped : BOOLEAN,
   goal : Spots \cup {None}]

Accounts ==
  [cmd : Commands \cup {NoCommand}, walks : BOOLEAN, moved : BOOLEAN, over : BOOLEAN,
   handled : BOOLEAN, failed : BOOLEAN, performed : Nat,
   at : Spots \cup {"between", None}]

(* The clicks on what is to be given, before the one on the actor.         *)
Offers == [verb : {"Give"}, o1 : Objects, o2 : {None}]

(* The calls of scripts: those that Sentence makes are for a sentence.     *)
AnyCall ==
  [at : {"preWalk", "preWalking", "verbCantReach", "postWalk", "verb", "objectGive",
         "default", "postWalking", "actorArrived", "onVerbClick", "onObjectClick"},
   sid : Nat, cmd : Commands \cup Offers \cup {NoCommand}, goal : Spots \cup {None},
   for : {"sentence", "ground", "pose", "arrival", None}]

Calls ==
  {c \in AnyCall :
     /\ c.at \in {"postWalk", "verbCantReach"} => c.sid # 0
     /\ c.at \in {"preWalk", "verb", "objectGive"} => c.cmd \in Commands
     /\ c.at = "objectGive" => c.cmd.verb = "Give"
     /\ c.at = "preWalking" => c.goal \in Spots
     /\ c.at = "preWalking" /\ c.for = "sentence" => c.cmd \in Commands
     /\ c.at = "onObjectClick" => c.cmd \in Commands \cup Offers}

WorldTyped ==
  /\ phase \in {"scripts", "sentence", "ended", "actors", "click"}
  /\ pos \in Spots \cup {"between"} /\ walk \in Spots \cup {None}
  /\ owner \in [Objects -> Actors \cup {None}]
  /\ inv \in [Actors -> [Objects -> Nat]]
  /\ verb \in Verbs /\ useObject \in Objects \cup {None}
  /\ inputs \in 0..MaxInputs
  /\ crashed \in BOOLEAN

(* A call for the sentence s is that of the function its body b is at.     *)
Serves(c, b) ==
  /\ c.at = "postWalk" => First(b.funcs) = "postWalk" /\ ~b.done /\ ~b.stopped
  /\ c.at = "verbCantReach" => First(b.funcs) = "walk" /\ b.stopped

(* A stack of calls, when the sentences up to m are made and s is current: *)
(* only the outermost call is for a sentence, maybe destroyed since.       *)
Stack(q, m, s, b) ==
  /\ q \in Seq(Calls)
  /\ \A i \in 1..Len(q) :
       /\ q[i].sid <= m
       /\ i > 1 => q[i].sid = 0
       /\ q[i].sid = s /\ s # 0 => Serves(q[i], b)

(* How far the sentence that is under way has come.                        *)
Comes(b, l) ==
  /\ l.cmd \in Commands /\ ~l.over
  /\ b.stopped <=> l.handled \/ l.failed
  /\ b.stopped => l.performed = 0
  /\ ~b.stopped =>
       /\ First(b.funcs) \in {"walk", "postWalk", "reach"} => l.performed = 0
       /\ First(b.funcs) = "verb" => l.performed = IF b.done THEN 1 ELSE 0
       /\ First(b.funcs) \in {"default", "nothing"} => l.performed = 1

(* Where the actor is, p, or walks to, w, unless it was moved.             *)
Stands(b, l, p, w) ==
  l.walks /\ ~l.moved =>
    /\ w \in {None, b.goal}
    /\ w = None => p = b.goal
    /\ ~b.stopped /\ First(b.funcs) # "walk" =>
         w = None /\ (b.goal = Spot[Target(l.cmd)] \/ l.cmd.verb = "TalkTo")

AccountOK ==
  /\ made \in Nat /\ sentence \in {0, made}
  /\ body \in Bodies /\ last \in Accounts
  /\ sentence # 0 => Comes(body, last) /\ Stands(body, last, pos, walk)
  /\ EndsOneWay /\ VerbInReach

(* The inductive invariant. EndsOneWay is not inductive alone: it rests on *)
(* how far the sentence has come, and that a script returns to the function *)
(* that has called it, or to none. Nor is VerbInReach: it rests on where   *)
(* the actor is, or is on its way to, until the walk is over.              *)
VerbsInv ==
  /\ WorldTyped
  /\ OneOwner
  /\ Stack(calls, made, sentence, body)
  /\ AccountOK

(* What the costume shows, c, of an actor that walks or not: eyes leave it. *)
Seen(c, p, w) ==
  IF w = None
  THEN c.animation # "walk" /\ c.shown[1] # "walk"
  ELSE p \/ (c.animation \in {"walk", "eyes"} /\ c.shown[1] = "walk")

Wardrobe ==
  [animation : Names \cup {"eyes"}, facing : Facings, shown : Names \X Facings]

CostumeInv == costume \in Wardrobe /\ posed \in BOOLEAN /\ Seen(costume, posed, walk)


-----------------------------------------------------------------------------
(* The functions of a sentence                                             *)

LEMMA ShortTuples ==
  ASSUME NEW a, NEW b, NEW c, NEW d
  PROVE  /\ Head(<<a>>) = a /\ Head(<<a, b>>) = a /\ Head(<<a, b, c>>) = a
         /\ Head(<<a, b, c, d>>) = a
         /\ Tail(<<a>>) = <<>> /\ Tail(<<a, b>>) = <<b>> /\ Tail(<<a, b, c>>) = <<b, c>>
         /\ Tail(<<a, b, c, d>>) = <<b, c, d>>
<1>1. Head(<<a>>) = a /\ Head(<<a, b>>) = a /\ Head(<<a, b, c>>) = a
  OBVIOUS
<1>2. Head(<<a, b, c, d>>) = a
  OBVIOUS
<1>3. Tail(<<a>>) = <<>>
  OBVIOUS
<1>4. Tail(<<a, b>>) = <<b>>
  OBVIOUS
<1>5. Tail(<<a, b, c>>) = <<b, c>>
  OBVIOUS
<1>6. Tail(<<a, b, c, d>>) = <<b, c, d>>
  OBVIOUS
<1> QED BY <1>1, <1>2, <1>3, <1>4, <1>5, <1>6

LEMMA Joined ==
  ASSUME NEW S, NEW p \in Seq(S), NEW q \in Seq(S), NEW r \in Seq(S),
         Len(r) = Len(p) + Len(q),
         \A i \in 1..Len(p) : r[i] = p[i],
         \A i \in 1..Len(q) : r[Len(p) + i] = q[i]
  PROVE  p \o q = r
<1>1. /\ p \o q \in Seq(S) /\ Len(p \o q) = Len(p) + Len(q)
      /\ \A i \in 1..(Len(p) + Len(q)) :
           (p \o q)[i] = IF i <= Len(p) THEN p[i] ELSE q[i - Len(p)]
  BY ConcatProperties
<1>2. Len(p) \in Nat /\ Len(q) \in Nat
  BY LenProperties
<1>3. ASSUME NEW i \in 1..Len(r) PROVE (p \o q)[i] = r[i]
  <2>1. CASE i <= Len(p)
    BY <1>1, <1>2, <1>3, <2>1
  <2>2. CASE ~(i <= Len(p))
    <3>1. i - Len(p) \in 1..Len(q) /\ Len(p) + (i - Len(p)) = i
      BY <1>2, <1>3, <2>2
    <3> QED BY <1>1, <1>2, <1>3, <2>2, <3>1
  <2> QED BY <2>1, <2>2
<1> QED BY <1>1, <1>3, SeqEqual

LEMMA Joins ==
  /\ <<>> \o <<>> = <<>> /\ <<>> \o <<"reach">> = <<"reach">>
  /\ <<>> \o <<"verb", "default">> = <<"verb", "default">>
  /\ <<"walk", "postWalk">> \o <<>> = <<"walk", "postWalk">>
  /\ <<"walk", "postWalk">> \o <<"reach">> = <<"walk", "postWalk", "reach">>
  /\ <<"reach">> \o <<"verb", "default">> = <<"reach", "verb", "default">>
  /\ <<"walk", "postWalk">> \o <<"verb", "default">>
        = <<"walk", "postWalk", "verb", "default">>
  /\ <<"walk", "postWalk", "reach">> \o <<"verb", "default">>
        = <<"walk", "postWalk", "reach", "verb", "default">>
<1>1. /\ <<>> \o <<>> = <<>> /\ <<>> \o <<"reach">> = <<"reach">>
      /\ <<>> \o <<"verb", "default">> = <<"verb", "default">>
      /\ <<"walk", "postWalk">> \o <<>> = <<"walk", "postWalk">>
  OBVIOUS
<1>2. <<"walk", "postWalk">> \o <<"reach">> = <<"walk", "postWalk", "reach">>
  <2> DEFINE p == <<"walk", "postWalk">>
             q == <<"reach">>
             r == <<"walk", "postWalk", "reach">>
  <2>1. /\ p \in Seq(Functions) /\ Len(p) = 2
        /\ p[1] = "walk" /\ p[2] = "postWalk"
    BY DEF Functions
  <2>2. /\ q \in Seq(Functions) /\ Len(q) = 1
        /\ q[1] = "reach"
    BY DEF Functions
  <2>3. /\ r \in Seq(Functions) /\ Len(r) = 3
        /\ r[1] = "walk" /\ r[2] = "postWalk" /\ r[3] = "reach"
    BY DEF Functions
  <2> HIDE DEF p, q, r
  <2>4. /\ Len(r) = Len(p) + Len(q)
        /\ \A i \in 1..Len(p) : r[i] = p[i]
        /\ \A i \in 1..Len(q) : r[Len(p) + i] = q[i]
    BY <2>1, <2>2, <2>3
  <2>5. p \in Seq(Functions) /\ q \in Seq(Functions) /\ r \in Seq(Functions)
    BY <2>1, <2>2, <2>3
  <2>6. p \o q = r
    BY <2>4, <2>5, Joined, Zenon
  <2> QED BY <2>6 DEF p, q, r
<1>3. <<"reach">> \o <<"verb", "default">> = <<"reach", "verb", "default">>
  <2> DEFINE p == <<"reach">>
             q == <<"verb", "default">>
             r == <<"reach", "verb", "default">>
  <2>1. /\ p \in Seq(Functions) /\ Len(p) = 1
        /\ p[1] = "reach"
    BY DEF Functions
  <2>2. /\ q \in Seq(Functions) /\ Len(q) = 2
        /\ q[1] = "verb" /\ q[2] = "default"
    BY DEF Functions
  <2>3. /\ r \in Seq(Functions) /\ Len(r) = 3
        /\ r[1] = "reach" /\ r[2] = "verb" /\ r[3] = "default"
    BY DEF Functions
  <2> HIDE DEF p, q, r
  <2>4. /\ Len(r) = Len(p) + Len(q)
        /\ \A i \in 1..Len(p) : r[i] = p[i]
        /\ \A i \in 1..Len(q) : r[Len(p) + i] = q[i]
    BY <2>1, <2>2, <2>3
  <2>5. p \in Seq(Functions) /\ q \in Seq(Functions) /\ r \in Seq(Functions)
    BY <2>1, <2>2, <2>3
  <2>6. p \o q = r
    BY <2>4, <2>5, Joined, Zenon
  <2> QED BY <2>6 DEF p, q, r
<1>4. <<"walk", "postWalk">> \o <<"verb", "default">>
        = <<"walk", "postWalk", "verb", "default">>
  <2> DEFINE p == <<"walk", "postWalk">>
             q == <<"verb", "default">>
             r == <<"walk", "postWalk", "verb", "default">>
  <2>1. /\ p \in Seq(Functions) /\ Len(p) = 2
        /\ p[1] = "walk" /\ p[2] = "postWalk"
    BY DEF Functions
  <2>2. /\ q \in Seq(Functions) /\ Len(q) = 2
        /\ q[1] = "verb" /\ q[2] = "default"
    BY DEF Functions
  <2>3. /\ r \in Seq(Functions) /\ Len(r) = 4
        /\ r[1] = "walk" /\ r[2] = "postWalk" /\ r[3] = "verb" /\ r[4] = "default"
    BY DEF Functions
  <2> HIDE DEF p, q, r
  <2>4. /\ Len(r) = Len(p) + Len(q)
        /\ \A i \in 1..Len(p) : r[i] = p[i]
        /\ \A i \in 1..Len(q) : r[Len(p) + i] = q[i]
    BY <2>1, <2>2, <2>3
  <2>5. p \in Seq(Functions) /\ q \in Seq(Functions) /\ r \in Seq(Functions)
    BY <2>1, <2>2, <2>3
  <2>6. p \o q = r
    BY <2>4, <2>5, Joined, Zenon
  <2> QED BY <2>6 DEF p, q, r
<1>5. <<"walk", "postWalk", "reach">> \o <<"verb", "default">>
        = <<"walk", "postWalk", "reach", "verb", "default">>
  <2> DEFINE p == <<"walk", "postWalk", "reach">>
             q == <<"verb", "default">>
             r == <<"walk", "postWalk", "reach", "verb", "default">>
  <2>1. /\ p \in Seq(Functions) /\ Len(p) = 3
        /\ p[1] = "walk" /\ p[2] = "postWalk" /\ p[3] = "reach"
    BY DEF Functions
  <2>2. /\ q \in Seq(Functions) /\ Len(q) = 2
        /\ q[1] = "verb" /\ q[2] = "default"
    BY DEF Functions
  <2>3. /\ r \in Seq(Functions) /\ Len(r) = 5
        /\ r[1] = "walk" /\ r[2] = "postWalk" /\ r[3] = "reach" /\ r[4] = "verb" /\ r[5] = "default"
    BY DEF Functions
  <2> HIDE DEF p, q, r
  <2>4. /\ Len(r) = Len(p) + Len(q)
        /\ \A i \in 1..Len(p) : r[i] = p[i]
        /\ \A i \in 1..Len(q) : r[Len(p) + i] = q[i]
    BY <2>1, <2>2, <2>3
  <2>5. p \in Seq(Functions) /\ q \in Seq(Functions) /\ r \in Seq(Functions)
    BY <2>1, <2>2, <2>3
  <2>6. p \o q = r
    BY <2>4, <2>5, Joined, Zenon
  <2> QED BY <2>6 DEF p, q, r
<1> QED BY <1>1, <1>2, <1>3, <1>4, <1>5

LEMMA PlanTails ==
  ASSUME NEW q \in Plans, q # <<>>
  PROVE  /\ First(q) = Head(q) /\ First(q) \in Functions
         /\ Tail(q) \in Plans
         /\ First(q) = "walk" => First(Tail(q)) = "postWalk"
         /\ First(q) = "postWalk" => First(Tail(q)) \in {"reach", "verb"}
         /\ First(q) = "reach" => First(Tail(q)) = "verb"
         /\ First(q) = "verb" => First(Tail(q)) = "default"
         /\ First(q) = "default" => First(Tail(q)) = "nothing"
<1> USE ShortTuples DEF First, Functions
<1>1. CASE q = <<"default">>
  <2>1. Tail(q) = <<>> /\ Head(q) = "default"
    BY <1>1
  <2> QED BY <2>1 DEF Plans
<1>2. CASE q = <<"verb", "default">>
  <2>1. Tail(q) = <<"default">> /\ Head(q) = "verb" /\ Head(Tail(q)) = "default" /\ Tail(q) # <<>>
    BY <1>2
  <2>2. Tail(q) \in Plans
    BY <2>1 DEF Plans
  <2> QED BY <2>1, <2>2
<1>3. CASE q = <<"reach", "verb", "default">>
  <2>1. Tail(q) = <<"verb", "default">> /\ Head(q) = "reach" /\ Head(Tail(q)) = "verb" /\ Tail(q) # <<>>
    BY <1>3
  <2>2. Tail(q) \in Plans
    BY <2>1 DEF Plans
  <2> QED BY <2>1, <2>2
<1>4. CASE q = <<"postWalk", "verb", "default">>
  <2>1. /\ Tail(q) = <<"verb", "default">>
        /\ Head(q) = "postWalk" /\ Head(Tail(q)) = "verb" /\ Tail(q) # <<>>
    BY <1>4
  <2>2. Tail(q) \in Plans
    BY <2>1 DEF Plans
  <2> QED BY <2>1, <2>2
<1>5. CASE q = <<"postWalk", "reach", "verb", "default">>
  <2>1. /\ Tail(q) = <<"reach", "verb", "default">>
        /\ Head(q) = "postWalk" /\ Head(Tail(q)) = "reach" /\ Tail(q) # <<>>
    BY <1>5
  <2>2. Tail(q) \in Plans
    BY <2>1 DEF Plans
  <2> QED BY <2>1, <2>2
<1>6. CASE q = <<"walk", "postWalk", "verb", "default">>
  <2>1. /\ Tail(q) = <<"postWalk", "verb", "default">>
        /\ Head(q) = "walk" /\ Head(Tail(q)) = "postWalk" /\ Tail(q) # <<>>
    BY <1>6
  <2>2. Tail(q) \in Plans
    BY <2>1 DEF Plans
  <2> QED BY <2>1, <2>2
<1>7. CASE q = <<"walk", "postWalk", "reach", "verb", "default">>
  <2>1. /\ Tail(q) = <<"postWalk", "reach", "verb", "default">>
        /\ Head(q) = "walk" /\ Head(Tail(q)) = "postWalk" /\ Tail(q) # <<>>
    BY <1>7
  <2>2. Tail(q) \in Plans
    BY <2>1 DEF Plans
  <2> QED BY <2>1, <2>2
<1> QED BY <1>1, <1>2, <1>3, <1>4, <1>5, <1>6, <1>7 DEF Plans

LEMMA NewPlan ==
  ASSUME NEW walks \in BOOLEAN, NEW reach \in {<<>>, <<"reach">>},
         NEW q, q = (IF walks THEN <<"walk", "postWalk">> ELSE <<>>)
                      \o reach \o <<"verb", "default">>
  PROVE  /\ q \in Plans /\ q # <<>>
         /\ walks => First(q) = "walk"
         /\ ~walks => First(q) \in {"reach", "verb"}
<1>1. CASE walks
  <2>1. q \in {<<"walk", "postWalk", "verb", "default">>,
               <<"walk", "postWalk", "reach", "verb", "default">>}
    BY <1>1, Joins, Zenon
  <2>2. q # <<>> /\ Head(q) = "walk"
    BY <2>1, ShortTuples
  <2>3. q \in Plans
    BY <2>1 DEF Plans
  <2> QED BY <1>1, <2>2, <2>3 DEF First
<1>2. CASE ~walks
  <2>1. q \in {<<"verb", "default">>, <<"reach", "verb", "default">>}
    BY <1>2, Joins, Zenon
  <2>2. q # <<>> /\ Head(q) \in {"reach", "verb"}
    BY <2>1, ShortTuples
  <2>3. q \in Plans
    BY <2>1 DEF Plans
  <2> QED BY <1>2, <2>2, <2>3 DEF First
<1> QED BY <1>1, <1>2


-----------------------------------------------------------------------------
(* The stack of calls                                                      *)

LEMMA StackEmpty ==
  ASSUME NEW m, NEW s, NEW b PROVE Stack(<<>>, m, s, b)
BY DEF Stack

LEMMA StackPushed ==
  ASSUME NEW q, NEW m \in Nat, NEW s, NEW b, Stack(q, m, s, b),
         NEW c \in Calls, c.sid <= m,
         c.sid = 0 \/ (q = <<>> /\ (c.sid = s => Serves(c, b))),
         NEW r, r = Append(q, c)
  PROVE  Stack(r, m, s, b)
<1>1. q \in Seq(Calls)
  BY DEF Stack
<1>2. /\ r \in Seq(Calls) /\ Len(r) = Len(q) + 1 /\ Len(q) \in Nat
      /\ \A i \in 1..Len(q) : r[i] = q[i]
      /\ r[Len(q) + 1] = c
  BY <1>1, AppendProperties, LenProperties
<1>3. q = <<>> => Len(q) = 0
  BY <1>1, EmptySeq
<1> SUFFICES ASSUME NEW i \in 1..Len(r)
             PROVE  r[i].sid <= m /\ (i > 1 => r[i].sid = 0)
                    /\ (r[i].sid = s /\ s # 0 => Serves(r[i], b))
  BY <1>2 DEF Stack
<1>4. CASE i \in 1..Len(q)
  BY <1>2, <1>4 DEF Stack
<1>5. CASE i = Len(q) + 1
  <2>1. r[i] = c
    BY <1>2, <1>5
  <2>2. i > 1 => c.sid = 0
    BY <1>2, <1>3, <1>5
  <2> QED BY <2>1, <2>2
<1> QED BY <1>2, <1>4, <1>5

LEMMA StackPopped ==
  ASSUME NEW m, NEW s, NEW b, Stack(calls, m, s, b), calls # <<>>
  PROVE  /\ Stack(Popped, m, s, b)
         /\ Top \in Calls /\ Top.sid <= m
         /\ Top.sid # 0 => Popped = <<>>
         /\ Top.sid = s /\ s # 0 => Serves(Top, b)
<1> DEFINE n == Len(calls) - 1
<1>1. calls \in Seq(Calls) /\ Len(calls) \in Nat \ {0}
  BY EmptySeq, LenProperties DEF Stack
<1>2. n \in Nat /\ Popped = SubSeq(calls, 1, n) /\ \A i \in 1..n : calls[i] \in Calls
  BY <1>1, ElementOfSeq DEF Popped
<1>3. /\ Top = calls[n + 1] /\ n + 1 \in 1..Len(calls) /\ Top \in Calls
      /\ \A i \in 1..n : i \in 1..Len(calls)
  BY <1>1, ElementOfSeq DEF Top
<1> HIDE DEF n
<1>4. /\ Popped \in Seq(Calls)
      /\ Len(Popped) = IF 1 <= n THEN n - 1 + 1 ELSE 0
      /\ \A i \in 1..(n - 1 + 1) : Popped[i] = calls[1 + i - 1]
  BY <1>1, <1>2, SubSeqProperties
<1>5. n - 1 + 1 = n /\ (IF 1 <= n THEN n - 1 + 1 ELSE 0) = n
  BY <1>2
<1>6. \A i \in 1..n : 1 + i - 1 = i
  BY <1>2
<1>7. Len(Popped) = n /\ \A i \in 1..n : Popped[i] = calls[i]
  BY <1>4, <1>5, <1>6, Zenon
<1>8. Stack(Popped, m, s, b)
  BY <1>3, <1>4, <1>7 DEF Stack
<1>9. /\ Top.sid <= m /\ (Top.sid # 0 => ~(n + 1 > 1))
      /\ Top.sid = s /\ s # 0 => Serves(Top, b)
  BY <1>3 DEF Stack
<1>10. Top.sid # 0 => Popped = <<>>
  BY <1>2, <1>4, <1>7, <1>9, EmptySeq
<1> QED BY <1>3, <1>8, <1>9, <1>10

(* A sentence that is made, or none, is served by no call under way.       *)
LEMMA StackOver ==
  ASSUME NEW q, NEW m \in Nat, NEW s, NEW b, Stack(q, m, s, b), NEW d
  PROVE  Stack(q, m + 1, m + 1, d) /\ Stack(q, m, 0, d)
<1>1. q \in Seq(Calls)
  BY DEF Stack
<1>2. \A i \in 1..Len(q) : q[i].sid \in Nat /\ q[i].sid <= m /\ (i > 1 => q[i].sid = 0)
  BY <1>1, ElementOfSeq DEF Stack, Calls, AnyCall
<1>3. \A i \in 1..Len(q) : q[i].sid <= m + 1 /\ q[i].sid # m + 1
  BY <1>2
<1> QED BY <1>1, <1>2, <1>3 DEF Stack


-----------------------------------------------------------------------------
(* The account of the last sentence                                        *)

LEMMA AccountKept ==
  ASSUME AccountOK, UNCHANGED <<sentence, body, made, last, pos, walk>>
  PROVE  AccountOK'
BY DEF AccountOK, EndsOneWay, VerbInReach

(* The actor is moved, or sent elsewhere.                                  *)
LEMMA AccountMoved ==
  ASSUME AccountOK, last' = Moved, UNCHANGED <<sentence, body, made>>
  PROVE  AccountOK'
<1> DEFINE moved == last.moved \/ sentence # 0
<1>1. moved \in BOOLEAN /\ (sentence # 0 => moved) /\ (last.moved => moved)
  BY DEF AccountOK, Accounts
<1>2. last' = [last EXCEPT !.moved = moved]
  BY DEF Moved
<1> HIDE DEF moved
<1>3. last \in Accounts
  BY DEF AccountOK
<1>4. /\ last' \in Accounts /\ (last'.moved <=> moved)
      /\ last'.cmd = last.cmd /\ (last'.walks <=> last.walks) /\ (last'.over <=> last.over)
      /\ (last'.handled <=> last.handled) /\ (last'.failed <=> last.failed)
      /\ last'.performed = last.performed /\ last'.at = last.at
  BY <1>2, <1>3, <1>1 DEF Accounts
<1>5. EndsOneWay' /\ VerbInReach'
  BY <1>1, <1>4 DEF AccountOK, EndsOneWay, VerbInReach
<1>6. sentence' # 0 => Comes(body', last') /\ Stands(body', last', pos', walk')
  BY <1>1, <1>4 DEF AccountOK, Comes, Stands
<1> QED BY <1>4, <1>5, <1>6 DEF AccountOK

LEMMA AccountDropped == ASSUME AccountOK, Dropped PROVE AccountOK'
<1>1. body' \in Bodies
  <2>1. <<>> \in Plans /\ None \in Spots \cup {None}
    BY DEF Plans
  <2> QED BY <2>1 DEF Dropped, NoBody, Bodies
<1> QED BY <1>1 DEF AccountOK, Dropped, EndsOneWay, VerbInReach

LEMMA AccountMade ==
  ASSUME AccountOK, NEW cmd \in Commands, NEW walks \in BOOLEAN,
         NEW goal \in Spots \cup {None}, NEW strays \in BOOLEAN,
         SetSentence(cmd, walks, goal, strays),
         walks /\ ~strays => walk' \in {None, goal} /\ (walk' = None => pos' = goal)
  PROVE  AccountOK'
<1>1. PICK reach \in {<<>>, <<"reach">>} :
        body' = [funcs |-> (IF walks THEN <<"walk", "postWalk">> ELSE <<>>)
                             \o reach \o <<"verb", "default">>,
                 done |-> FALSE, reaching |-> FALSE, stopped |-> FALSE, goal |-> goal]
  BY DEF SetSentence
<1>2. PICK q : q = (IF walks THEN <<"walk", "postWalk">> ELSE <<>>)
                      \o reach \o <<"verb", "default">>
  OBVIOUS
<1>3. /\ q \in Plans /\ q # <<>>
      /\ walks => First(q) = "walk"
      /\ ~walks => First(q) \in {"reach", "verb"}
  BY <1>2, NewPlan
<1>4. body' = [funcs |-> q, done |-> FALSE, reaching |-> FALSE, stopped |-> FALSE,
               goal |-> goal]
  BY <1>1, <1>2, Zenon
<1>5. /\ body' \in Bodies /\ body'.funcs = q /\ ~body'.done /\ ~body'.stopped
      /\ body'.goal = goal
  BY <1>3, <1>4 DEF Bodies
<1>6. last' = [cmd |-> cmd, walks |-> walks, moved |-> strays, over |-> FALSE,
               handled |-> FALSE, failed |-> FALSE, performed |-> 0, at |-> None]
  BY DEF SetSentence
<1>7. /\ last' \in Accounts /\ last'.cmd = cmd /\ (last'.walks <=> walks)
      /\ (last'.moved <=> strays) /\ ~last'.over /\ ~last'.handled /\ ~last'.failed
      /\ last'.performed = 0
  BY <1>6 DEF Accounts
<1>8. EndsOneWay' /\ VerbInReach'
  BY <1>7 DEF EndsOneWay, VerbInReach
<1>9. Comes(body', last') /\ Stands(body', last', pos', walk')
  BY <1>3, <1>5, <1>7 DEF Comes, Stands
<1>10. made' \in Nat /\ sentence' = made'
  BY DEF SetSentence, AccountOK
<1> QED BY <1>5, <1>7, <1>8, <1>9, <1>10 DEF AccountOK


-----------------------------------------------------------------------------
(* Scripts return                                                          *)

(* Where one walks to is a spot.                                           *)
LEMMA TargetSpot ==
  ASSUME NEW cmd, NeedsToWalkTo(cmd)
  PROVE  Spot[Target(cmd)] \in Spots /\ PathEnds(Spot[Target(cmd)]) \subseteq Spots
<1>1. Spot[Target(cmd)] \in Spots
  BY VerbsAssumption DEF NeedsToWalkTo
<1> QED BY <1>1, VerbsAssumption DEF PathEnds

(* The calls that begin a walk: it leads to a spot.                        *)
LEMMA WalkCalls ==
  ASSUME NEW goal \in Spots,
         NEW cmd \in Commands \cup {NoCommand},
         NEW for \in {"sentence", "ground", None},
         for = "sentence" => cmd \in Commands
  PROVE  Call("preWalking", 0, cmd, goal, for) \in Calls
         /\ Call("preWalking", 0, cmd, goal, for).sid = 0
<1> DEFINE c == [at |-> "preWalking", sid |-> 0, cmd |-> cmd, goal |-> goal, for |-> for]
<1>1. Call("preWalking", 0, cmd, goal, for) = c
  BY DEF Call
<1>2. c \in AnyCall /\ c.at = "preWalking" /\ c.sid = 0 /\ c.goal = goal /\ c.for = for
      /\ c.cmd = cmd
  BY DEF AnyCall
<1> HIDE DEF c
<1> QED BY <1>1, <1>2 DEF Calls

(* The sentence is made when the walk to its thing is, or is needless.     *)
LEMMA MadeStep ==
  ASSUME VerbsInv, NEW cmd \in Commands, NEW walks \in BOOLEAN,
         NEW goal \in Spots \cup {None}, NEW strays \in BOOLEAN,
         SetSentence(cmd, walks, goal, strays), calls # <<>>, calls' = Popped,
         walks /\ ~strays => walk' \in {None, goal} /\ (walk' = None => pos' = goal)
  PROVE  Stack(calls, made, sentence, body)' /\ AccountOK'
<1>1. AccountOK'
  BY AccountMade DEF VerbsInv
<1>2. Stack(Popped, made, sentence, body) /\ made \in Nat
  BY StackPopped DEF VerbsInv, AccountOK
<1>3. made' = made + 1 /\ sentence' = made + 1
  BY DEF SetSentence
<1>4. Stack(Popped, made + 1, made + 1, body')
  BY <1>2, StackOver
<1> QED BY <1>1, <1>3, <1>4

LEMMA ReturnPreWalkStep == ASSUME VerbsInv, ReturnPreWalk PROVE VerbsInv'
<1> DEFINE cmd == Top.cmd
<1>1. calls # <<>> /\ Top.at = "preWalk" /\ UNCHANGED <<phase, pos, walk, inv, owner,
        verb, useObject, inputs, crashed>>
  BY DEF ReturnPreWalk, actorVars, thingVars, hudVars, boundVars
<1>2. Stack(Popped, made, sentence, body) /\ Top \in Calls /\ made \in Nat
  BY <1>1, StackPopped DEF VerbsInv, AccountOK
<1>3. cmd \in Commands
  BY <1>1, <1>2 DEF Calls
<1>4. WorldTyped' /\ OneOwner'
  BY <1>1 DEF VerbsInv, WorldTyped, OneOwner
<1>5. CASE calls' = Popped /\ UNCHANGED sentenceVars
  <2>1. AccountOK'
    BY <1>1, <1>5, AccountKept DEF VerbsInv, sentenceVars
  <2>2. Stack(calls, made, sentence, body)'
    BY <1>2, <1>5 DEF sentenceVars
  <2> QED BY <1>4, <2>1, <2>2 DEF VerbsInv
<1>6. CASE calls' = Popped /\ SetSentence(cmd, FALSE, None, FALSE)
  <2> HIDE DEF cmd
  <2>1. Stack(calls, made, sentence, body)' /\ AccountOK'
    BY <1>1, <1>3, <1>6, MadeStep
  <2> QED BY <1>4, <2>1 DEF VerbsInv
<1>7. CASE /\ NeedsToWalkTo(cmd) /\ Short(Spot[Target(cmd)])
           /\ calls' = Popped /\ SetSentence(cmd, TRUE, pos, walk \notin {None, pos})
  <2>1. pos \in Spots
    BY <1>7, TargetSpot DEF Short
  <2>2. PICK strays \in BOOLEAN : strays = (walk \notin {None, pos})
    OBVIOUS
  <2>3. SetSentence(cmd, TRUE, pos, strays)
    BY <1>7, <2>2
  <2>4. ~strays => walk' \in {None, pos} /\ (walk' = None => pos' = pos)
    BY <1>1, <2>2
  <2> HIDE DEF cmd
  <2>5. Stack(calls, made, sentence, body)' /\ AccountOK'
    BY <1>1, <1>3, <1>7, <2>1, <2>3, <2>4, MadeStep
  <2> QED BY <1>4, <2>5 DEF VerbsInv
<1>8. CASE /\ NeedsToWalkTo(cmd)
           /\ BeginWalk(Popped, Spot[Target(cmd)], cmd, "sentence")
           /\ UNCHANGED sentenceVars
  <2>1. PICK goal \in Spots :
          calls' = Append(Popped, Call("preWalking", 0, cmd, goal, "sentence"))
    BY <1>8, TargetSpot DEF BeginWalk
  <2>2. PICK c \in Calls : c = Call("preWalking", 0, cmd, goal, "sentence") /\ c.sid = 0
    BY <1>3, WalkCalls
  <2>3. calls' = Append(Popped, c) /\ c.sid <= made
    BY <1>2, <2>1, <2>2
  <2>4. Stack(calls', made, sentence, body)
    BY <1>2, <2>2, <2>3, StackPushed
  <2>5. AccountOK'
    BY <1>1, <1>8, AccountKept DEF VerbsInv, sentenceVars
  <2>6. Stack(calls, made, sentence, body)'
    BY <1>8, <2>4 DEF sentenceVars
  <2> QED BY <1>4, <2>5, <2>6 DEF VerbsInv
<1> QED BY <1>5, <1>6, <1>7, <1>8 DEF ReturnPreWalk

LEMMA ReturnPreWalkingStep == ASSUME VerbsInv, ReturnPreWalking PROVE VerbsInv'
<1>1. /\ calls # <<>> /\ Top.at = "preWalking" /\ calls' = Popped /\ walk' = Top.goal
      /\ UNCHANGED <<phase, pos, inv, owner, inputs, crashed>>
  BY DEF ReturnPreWalking, thingVars, boundVars
<1>2. Stack(Popped, made, sentence, body) /\ Top \in Calls
  BY <1>1, StackPopped DEF VerbsInv
<1>3. /\ Top.goal \in Spots
      /\ Top.for = "sentence" => Top.cmd \in Commands
  BY <1>1, <1>2 DEF Calls
<1>4. verb' \in Verbs /\ useObject' \in Objects \cup {None}
  BY DEF ReturnPreWalking, SetDefaultVerb, hudVars, VerbsInv, WorldTyped, Verbs
<1>5. WorldTyped' /\ OneOwner'
  BY <1>1, <1>3, <1>4 DEF VerbsInv, WorldTyped, OneOwner
<1>6. CASE Top.for = "sentence"
  <2>1. SetSentence(Top.cmd, TRUE, Top.goal, FALSE)
    BY <1>6 DEF ReturnPreWalking
  <2>2. walk' \in {None, Top.goal} /\ walk' # None
    BY <1>1, <1>3, VerbsAssumption
  <2>3. PICK cmd \in Commands, goal \in Spots : cmd = Top.cmd /\ goal = Top.goal
    BY <1>3, <1>6
  <2>4. Stack(calls, made, sentence, body)' /\ AccountOK'
    BY <1>1, <2>1, <2>2, <2>3, MadeStep
  <2> QED BY <1>5, <2>4 DEF VerbsInv
<1>7. CASE Top.for # "sentence"
  <2>1. last' = Moved /\ UNCHANGED <<sentence, body, made>>
    BY <1>7 DEF ReturnPreWalking
  <2>2. AccountOK'
    BY <2>1, AccountMoved DEF VerbsInv
  <2>3. Stack(calls, made, sentence, body)'
    BY <1>1, <1>2, <2>1
  <2> QED BY <1>5, <2>2, <2>3 DEF VerbsInv
<1> QED BY <1>6, <1>7


(* ActorWalk goes on, its sentence stopped: postWalk is next, and skipped. *)
LEMMA ReturnCantReachStep == ASSUME VerbsInv, ReturnCantReach PROVE VerbsInv'
<1>1. /\ calls # <<>> /\ Top.at = "verbCantReach" /\ calls' = Popped
      /\ body' = IF Top.sid = sentence THEN [body EXCEPT !.funcs = Tail(@)] ELSE body
      /\ UNCHANGED <<phase, pos, walk, inv, owner, verb, useObject, sentence, made, last,
                     inputs, crashed>>
  BY DEF ReturnCantReach, actorVars, thingVars, hudVars, boundVars
<1>2. /\ Stack(Popped, made, sentence, body) /\ Top \in Calls /\ Top.sid <= made
      /\ Top.sid # 0 => Popped = <<>>
      /\ Top.sid = sentence /\ sentence # 0 => Serves(Top, body)
  BY <1>1, StackPopped DEF VerbsInv
<1>3. Top.sid # 0
  BY <1>1, <1>2 DEF Calls
<1>4. WorldTyped' /\ OneOwner'
  BY <1>1 DEF VerbsInv, WorldTyped, OneOwner
<1>5. Stack(calls, made, sentence, body)'
  BY <1>1, <1>2, <1>3, StackEmpty
<1>6. CASE Top.sid = sentence
  <2>1. sentence # 0 /\ First(body.funcs) = "walk" /\ body.stopped
    BY <1>1, <1>2, <1>3, <1>6 DEF Serves
  <2>2. body \in Bodies /\ body.funcs \in Plans /\ body.funcs # <<>>
    BY <2>1 DEF VerbsInv, AccountOK, Bodies, First
  <2>3. PICK rest \in Plans : rest = Tail(body.funcs)
    BY <2>2, PlanTails
  <2>4. body' = [body EXCEPT !.funcs = rest]
    BY <1>1, <1>6, <2>3
  <2>5. /\ body' \in Bodies /\ (body'.stopped <=> body.stopped) /\ body'.goal = body.goal
    BY <2>2, <2>4 DEF Bodies
  <2>6. Comes(body', last') /\ Stands(body', last', pos', walk')
    BY <1>1, <2>1, <2>5 DEF VerbsInv, AccountOK, Comes, Stands
  <2>7. AccountOK'
    BY <1>1, <2>5, <2>6 DEF VerbsInv, AccountOK, EndsOneWay, VerbInReach
  <2> QED BY <1>4, <1>5, <2>7 DEF VerbsInv
<1>7. CASE Top.sid # sentence
  BY <1>1, <1>4, <1>5, <1>7, AccountKept DEF VerbsInv
<1> QED BY <1>6, <1>7

(* A postWalk script that handles the command stops the sentence.          *)
LEMMA ReturnPostWalkStep == ASSUME VerbsInv, ReturnPostWalk PROVE VerbsInv'
<1>1. /\ calls # <<>> /\ Top.at = "postWalk" /\ calls' = Popped
      /\ UNCHANGED <<phase, pos, walk, inv, owner, verb, useObject, sentence, made,
                     inputs, crashed>>
  BY DEF ReturnPostWalk, actorVars, thingVars, hudVars, boundVars
<1>2. /\ Stack(Popped, made, sentence, body) /\ Top \in Calls /\ Top.sid <= made
      /\ Top.sid # 0 => Popped = <<>>
      /\ Top.sid = sentence /\ sentence # 0 => Serves(Top, body)
  BY <1>1, StackPopped DEF VerbsInv
<1>3. Top.sid # 0
  BY <1>1, <1>2 DEF Calls
<1>4. WorldTyped' /\ OneOwner'
  BY <1>1 DEF VerbsInv, WorldTyped, OneOwner
<1>5. Stack(calls, made, sentence, body)'
  BY <1>1, <1>2, <1>3, StackEmpty
<1>6. CASE Top.sid = sentence
  <2>1. sentence # 0 /\ First(body.funcs) = "postWalk" /\ ~body.done /\ ~body.stopped
    BY <1>1, <1>2, <1>3, <1>6 DEF Serves
  <2>2. PICK handled \in BOOLEAN :
          /\ body' = [body EXCEPT !.done = TRUE, !.stopped = @ \/ handled]
          /\ last' = [last EXCEPT !.handled = handled]
    BY <1>6 DEF ReturnPostWalk
  <2>3. body \in Bodies /\ last \in Accounts
    BY DEF VerbsInv, AccountOK
  <2>4. /\ body' \in Bodies /\ (body'.stopped <=> handled)
        /\ body'.goal = body.goal /\ body'.funcs = body.funcs
    BY <2>1, <2>2, <2>3 DEF Bodies
  <2>5. /\ last' \in Accounts /\ (last'.handled <=> handled)
        /\ last'.cmd = last.cmd /\ (last'.walks <=> last.walks)
        /\ (last'.moved <=> last.moved) /\ (last'.over <=> last.over)
        /\ (last'.failed <=> last.failed) /\ last'.performed = last.performed
    BY <2>2, <2>3 DEF Accounts
  <2>6. Comes(body', last') /\ Stands(body', last', pos', walk')
    BY <1>1, <2>1, <2>4, <2>5 DEF VerbsInv, AccountOK, Comes, Stands
  <2>7. last.performed = 0
    BY <2>1 DEF VerbsInv, AccountOK, Comes
  <2>8. EndsOneWay' /\ VerbInReach'
    BY <2>1, <2>5, <2>6, <2>7 DEF EndsOneWay, VerbInReach, Comes
  <2>9. AccountOK'
    BY <1>1, <2>4, <2>5, <2>6, <2>8 DEF VerbsInv, AccountOK
  <2> QED BY <1>4, <1>5, <2>9 DEF VerbsInv
<1>7. CASE Top.sid # sentence
  <2>1. UNCHANGED <<body, last>>
    BY <1>7 DEF ReturnPostWalk
  <2> QED BY <1>1, <1>4, <1>5, <2>1, AccountKept DEF VerbsInv
<1> QED BY <1>6, <1>7

(* A script returns and another, for the same thing, may be called.        *)
LEMMA NextCallStep ==
  ASSUME VerbsInv, calls # <<>>,
         calls' = Popped \/ \E c \in Calls : /\ calls' = Append(Popped, c)
                                             /\ c.sid \in {0, Top.sid}
                                             /\ c.at \notin {"postWalk", "verbCantReach"},
         UNCHANGED <<sentence, body, made, last, pos, walk>>
  PROVE  Stack(calls, made, sentence, body)' /\ AccountOK'
<1>1. AccountOK'
  BY AccountKept DEF VerbsInv
<1>2. /\ Stack(Popped, made, sentence, body) /\ Top \in Calls /\ Top.sid <= made
      /\ Top.sid # 0 => Popped = <<>>
      /\ made \in Nat
  BY StackPopped DEF VerbsInv, AccountOK
<1>3. CASE calls' = Popped
  BY <1>1, <1>2, <1>3
<1>4. ASSUME NEW c \in Calls, calls' = Append(Popped, c), c.sid \in {0, Top.sid},
             c.at \notin {"postWalk", "verbCantReach"}
      PROVE  Stack(calls', made, sentence, body)
  <2>1. Serves(c, body) /\ c.sid <= made /\ (c.sid # 0 => Popped = <<>>)
    BY <1>2, <1>4 DEF Serves
  <2> QED BY <1>2, <1>4, <2>1, StackPushed
<1> QED BY <1>1, <1>3, <1>4

LEMMA ReturnVerbStep == ASSUME VerbsInv, ReturnVerb PROVE VerbsInv'
<1>1. /\ calls # <<>> /\ Top.at = "verb"
      /\ UNCHANGED <<phase, pos, walk, inv, owner, verb, useObject, sentence, body, made,
                     last, inputs, crashed>>
  BY DEF ReturnVerb, actorVars, thingVars, hudVars, sentenceVars, boundVars
<1>2. Top \in Calls
  BY <1>1, StackPopped DEF VerbsInv
<1>3. WorldTyped' /\ OneOwner'
  BY <1>1 DEF VerbsInv, WorldTyped, OneOwner
<1>4. PICK at \in {"objectGive", "default"} :
        at = IF Top.cmd.verb = "Give" THEN "objectGive" ELSE "default"
  OBVIOUS
<1>5. PICK c : c = [Top EXCEPT !.at = at]
  OBVIOUS
<1>6. calls' = Popped \/ calls' = Append(Popped, c)
  BY <1>4, <1>5 DEF ReturnVerb
<1>7. c \in Calls /\ c.sid = Top.sid /\ c.at = at
  <2>1. Top \in AnyCall /\ Top.cmd \in Commands
    BY <1>1, <1>2 DEF Calls
  <2>2. c \in AnyCall /\ c.sid = Top.sid /\ c.at = at /\ c.cmd = Top.cmd
    BY <1>5, <2>1 DEF AnyCall
  <2> QED BY <1>4, <2>1, <2>2 DEF Calls
<1>8. Stack(calls, made, sentence, body)' /\ AccountOK'
  BY <1>1, <1>4, <1>6, <1>7, NextCallStep
<1> QED BY <1>3, <1>8 DEF VerbsInv


(* The calls that no sentence makes and no walk.                           *)
LEMMA OtherCalls ==
  ASSUME NEW at \in {"preWalk", "postWalking", "actorArrived", "onVerbClick",
                     "onObjectClick"},
         NEW cmd \in Commands \cup Offers \cup {NoCommand},
         NEW for \in {"pose", "arrival", None},
         at = "preWalk" => cmd \in Commands,
         at = "onObjectClick" => cmd \in Commands \cup Offers
  PROVE  /\ Call(at, 0, cmd, None, for) \in Calls
         /\ Call(at, 0, cmd, None, for).sid = 0
         /\ Call(at, 0, cmd, None, for).at = at
<1> DEFINE c == [at |-> at, sid |-> 0, cmd |-> cmd, goal |-> None, for |-> for]
<1>1. Call(at, 0, cmd, None, for) = c
  BY DEF Call
<1>2. c \in AnyCall /\ c.at = at /\ c.sid = 0 /\ c.cmd = cmd
  BY DEF AnyCall
<1> HIDE DEF c
<1> QED BY <1>1, <1>2 DEF Calls

(* What is given goes from one inventory to the other, and its owner with  *)
(* it: the current actor had it.                                           *)
LEMMA ReturnObjectGiveStep ==
  ASSUME VerbsInv, ~crashed, ReturnObjectGive PROVE VerbsInv'
<1> DEFINE o == Top.cmd.o1
           b == Top.cmd.o2
<1>1. /\ calls # <<>> /\ Top.at = "objectGive" /\ calls' = Popped
      /\ UNCHANGED <<phase, pos, walk, verb, useObject, sentence, body, made, last, inputs>>
  BY DEF ReturnObjectGive, actorVars, hudVars, sentenceVars
<1>2. Top \in Calls
  BY <1>1, StackPopped DEF VerbsInv
<1>3. o \in Objects /\ b \in Others
  <2>1. Top.cmd \in Commands /\ Top.cmd.verb = "Give"
    BY <1>1, <1>2 DEF Calls
  <2> QED BY <2>1 DEF Commands
<1>4. Stack(calls, made, sentence, body)' /\ AccountOK'
  BY <1>1, NextCallStep
<1> HIDE DEF o, b
<1>5. CASE inv["me"][o] > 0
  <2>1. owner' = [owner EXCEPT ![o] = b] /\ UNCHANGED crashed
        /\ inv' = [inv EXCEPT !["me"][o] = @ - 1, ![b][o] = @ + 1]
    BY <1>5 DEF ReturnObjectGive, GiveTo, o, b
  <2>2. owner \in [Objects -> Actors \cup {None}] /\ inv \in [Actors -> [Objects -> Nat]]
        /\ "me" \in Actors /\ b \in Actors
    BY <1>3 DEF VerbsInv, WorldTyped, Actors
  <2>3. \A a \in Actors, x \in Objects : inv[a][x] = IF owner[x] = a THEN 1 ELSE 0
    BY DEF VerbsInv, OneOwner
  <2>4. owner[o] = "me" /\ inv["me"][o] = 1
    BY <1>3, <1>5, <2>2, <2>3
  <2>5. \A a \in Actors, x \in Objects :
          inv'[a][x] = IF x # o THEN inv[a][x]
                       ELSE IF a = b THEN IF a = "me" THEN inv[a][x] - 1 + 1 ELSE inv[a][x] + 1
                       ELSE IF a = "me" THEN inv[a][x] - 1 ELSE inv[a][x]
    BY <1>3, <2>1, <2>2
  <2>6. owner' \in [Objects -> Actors \cup {None}]
        /\ \A x \in Objects : owner'[x] = IF x = o THEN b ELSE owner[x]
    BY <1>3, <2>1, <2>2
  <2>7. \A a \in Actors, x \in Objects : inv'[a][x] = IF owner'[x] = a THEN 1 ELSE 0
    BY <1>3, <2>2, <2>3, <2>4, <2>5, <2>6
  <2>8. inv' \in [Actors -> [Objects -> Nat]]
    <3>1. inv' = [a \in Actors |-> inv'[a]]
      BY <2>1, <2>2
    <3>2. \A a \in Actors : inv'[a] = [x \in Objects |-> inv'[a][x]]
      BY <1>3, <2>1, <2>2
    <3> QED BY <2>7, <3>1, <3>2
  <2>9. WorldTyped' /\ OneOwner'
    BY <1>1, <2>1, <2>6, <2>7, <2>8 DEF VerbsInv, WorldTyped, OneOwner
  <2> QED BY <1>4, <2>9 DEF VerbsInv
<1>6. CASE ~(inv["me"][o] > 0)
  <2>1. crashed' = TRUE /\ UNCHANGED <<inv, owner>>
    BY <1>6 DEF ReturnObjectGive, thingVars, o
  <2>2. WorldTyped' /\ OneOwner'
    BY <1>1, <2>1 DEF VerbsInv, WorldTyped, OneOwner
  <2> QED BY <1>4, <2>2 DEF VerbsInv
<1> QED BY <1>5, <1>6

LEMMA ReturnPlainStep ==
  ASSUME VerbsInv, ReturnPlain \/ ReturnPostWalking PROVE VerbsInv'
<1>1. /\ calls # <<>>
      /\ calls' \in {Popped, Append(Popped, Plain("actorArrived"))}
      /\ UNCHANGED <<phase, pos, walk, inv, owner, verb, useObject, sentence, body, made,
                     last, inputs, crashed>>
  BY DEF ReturnPlain, ReturnPostWalking, actorVars, thingVars, hudVars, sentenceVars,
         boundVars
<1>2. PICK c \in Calls : c = Plain("actorArrived") /\ c.sid = 0 /\ c.at = "actorArrived"
  BY OtherCalls DEF Plain
<1>3. Stack(calls, made, sentence, body)' /\ AccountOK'
  BY <1>1, <1>2, NextCallStep
<1>4. WorldTyped' /\ OneOwner'
  BY <1>1 DEF VerbsInv, WorldTyped, OneOwner
<1> QED BY <1>3, <1>4 DEF VerbsInv

LEMMA ReturnObjectClickStep == ASSUME VerbsInv, ReturnObjectClick PROVE VerbsInv'
<1> DEFINE cmd == Top.cmd
<1>1. /\ calls # <<>> /\ Top.at = "onObjectClick"
      /\ UNCHANGED <<phase, pos, walk, inv, owner, verb, sentence, body, made, last,
                     inputs, crashed>>
  BY DEF ReturnObjectClick, actorVars, thingVars, sentenceVars, boundVars
<1>2. cmd \in Commands \cup Offers
  BY <1>1, StackPopped DEF VerbsInv, Calls
<1>3. cmd.o1 \in Objects \/ cmd.verb # "Give"
  BY <1>2 DEF Commands, Offers
<1>4. CASE cmd.verb = "Give" /\ cmd.o2 = None
  <2>1. useObject' = cmd.o1 /\ calls' = Popped
    BY <1>4 DEF ReturnObjectClick
  <2>2. Stack(calls, made, sentence, body)' /\ AccountOK'
    BY <1>1, <2>1, NextCallStep
  <2>3. WorldTyped' /\ OneOwner'
    BY <1>1, <1>3, <1>4, <2>1 DEF VerbsInv, WorldTyped, OneOwner
  <2> QED BY <2>2, <2>3 DEF VerbsInv
<1>5. CASE ~(cmd.verb = "Give" /\ cmd.o2 = None)
  <2>1. calls' = Append(Popped, Call("preWalk", 0, cmd, None, None)) /\ UNCHANGED useObject
    BY <1>5 DEF ReturnObjectClick, Execute
  <2>2. cmd \in Commands
    BY <1>2, <1>5 DEF Offers
  <2>3. PICK c \in Calls :
          c = Call("preWalk", 0, cmd, None, None) /\ c.sid = 0 /\ c.at = "preWalk"
    BY <2>2, OtherCalls
  <2>4. Stack(calls, made, sentence, body)' /\ AccountOK'
    BY <1>1, <2>1, <2>3, NextCallStep
  <2>5. WorldTyped' /\ OneOwner'
    BY <1>1, <2>1 DEF VerbsInv, WorldTyped, OneOwner
  <2> QED BY <2>4, <2>5 DEF VerbsInv
<1> QED BY <1>4, <1>5

LEMMA CrashStep == ASSUME VerbsInv, Crash PROVE VerbsInv'
<1>1. /\ crashed' = TRUE /\ calls' = <<>>
      /\ UNCHANGED <<phase, pos, walk, inv, owner, verb, useObject, sentence, body, made,
                     last, inputs>>
  BY DEF Crash, actorVars, thingVars, hudVars, sentenceVars
<1>2. WorldTyped' /\ OneOwner'
  BY <1>1 DEF VerbsInv, WorldTyped, OneOwner
<1>3. AccountOK'
  BY <1>1, AccountKept DEF VerbsInv
<1> QED BY <1>1, <1>2, <1>3, StackEmpty DEF VerbsInv


-----------------------------------------------------------------------------
(* What scripts do                                                         *)

LEMMA OrderStep == ASSUME VerbsInv, Order PROVE inputs' \in 0..MaxInputs
<1>1. inputs \in 0..MaxInputs /\ MaxInputs \in Nat
  BY VerbsAssumption DEF VerbsInv, WorldTyped
<1> QED BY <1>1 DEF Order

(* A script calls another, by what it does.                                *)
LEMMA CallStep ==
  ASSUME VerbsInv, NEW c \in Calls, c.sid = 0, calls' = Append(calls, c),
         UNCHANGED <<sentence, made, body>>
  PROVE  Stack(calls, made, sentence, body)'
<1>1. Stack(calls, made, sentence, body) /\ made \in Nat
  BY DEF VerbsInv, AccountOK
<1>2. c.sid <= made
  BY <1>1
<1>3. Stack(calls', made, sentence, body)
  BY <1>1, <1>2, StackPushed
<1> QED BY <1>3

LEMMA PushSentenceStep ==
  ASSUME VerbsInv, NEW cmd \in Commands, PushSentence(cmd) PROVE VerbsInv'
<1>1. /\ calls' = Append(calls, Call("preWalk", 0, cmd, None, None))
      /\ UNCHANGED <<phase, pos, walk, inv, owner, verb, useObject, sentence, body, made,
                     last, crashed>>
      /\ inputs' \in 0..MaxInputs
  BY OrderStep DEF PushSentence, Execute, actorVars, thingVars, hudVars, sentenceVars
<1>2. PICK c \in Calls : c = Call("preWalk", 0, cmd, None, None) /\ c.sid = 0
  BY OtherCalls
<1>3. Stack(calls, made, sentence, body)'
  BY <1>1, <1>2, CallStep
<1>4. WorldTyped' /\ OneOwner'
  BY <1>1 DEF VerbsInv, WorldTyped, OneOwner
<1>5. AccountOK'
  BY <1>1, AccountKept DEF VerbsInv
<1> QED BY <1>3, <1>4, <1>5 DEF VerbsInv

LEMMA StopSentenceStep == ASSUME VerbsInv, StopSentence PROVE VerbsInv'
<1>1. /\ Dropped /\ UNCHANGED <<phase, calls, pos, walk, inv, owner, verb, useObject, crashed>>
      /\ inputs' \in 0..MaxInputs
  BY OrderStep DEF StopSentence, actorVars, thingVars, hudVars
<1>2. Stack(calls, made, 0, body')
  BY StackOver DEF VerbsInv, AccountOK
<1>3. Stack(calls, made, sentence, body)'
  BY <1>1, <1>2 DEF Dropped
<1>4. WorldTyped' /\ OneOwner'
  BY <1>1 DEF VerbsInv, WorldTyped, OneOwner
<1>5. AccountOK'
  BY <1>1, AccountDropped DEF VerbsInv
<1> QED BY <1>3, <1>4, <1>5 DEF VerbsInv

LEMMA ActorWalkToStep ==
  ASSUME VerbsInv, NEW spot \in Spots, ActorWalkTo(spot) PROVE VerbsInv'
<1>1. /\ BeginWalk(calls, spot, NoCommand, None)
      /\ UNCHANGED <<phase, pos, walk, inv, owner, verb, useObject, sentence, body, made,
                     last, crashed>>
      /\ inputs' \in 0..MaxInputs
  BY OrderStep DEF ActorWalkTo, actorVars, thingVars, hudVars, sentenceVars
<1>2. PICK goal \in Spots : calls' = Append(calls, Call("preWalking", 0, NoCommand, goal, None))
  BY <1>1, VerbsAssumption DEF BeginWalk, PathEnds
<1>3. PICK c \in Calls : c = Call("preWalking", 0, NoCommand, goal, None) /\ c.sid = 0
  BY WalkCalls DEF None
<1>4. Stack(calls, made, sentence, body)'
  BY <1>1, <1>2, <1>3, CallStep
<1>5. WorldTyped' /\ OneOwner'
  BY <1>1 DEF VerbsInv, WorldTyped, OneOwner
<1>6. AccountOK'
  BY <1>1, AccountKept DEF VerbsInv
<1> QED BY <1>4, <1>5, <1>6 DEF VerbsInv

LEMMA ActorStopWalkingStep ==
  ASSUME VerbsInv, NEW for \in {None, "pose"}, ActorStopWalking(for) PROVE VerbsInv'
<1>1. /\ calls' = Append(calls, Call("postWalking", 0, NoCommand, None, for))
      /\ walk' = None /\ last' = Moved
      /\ UNCHANGED <<phase, pos, inv, owner, verb, useObject, sentence, body, made, crashed>>
      /\ inputs' \in 0..MaxInputs
  BY OrderStep DEF ActorStopWalking, thingVars, hudVars
<1>2. PICK c \in Calls : c = Call("postWalking", 0, NoCommand, None, for) /\ c.sid = 0
  BY OtherCalls
<1>3. Stack(calls, made, sentence, body)'
  BY <1>1, <1>2, CallStep
<1>4. WorldTyped' /\ OneOwner'
  BY <1>1 DEF VerbsInv, WorldTyped, OneOwner
<1>5. AccountOK'
  BY <1>1, AccountMoved DEF VerbsInv
<1> QED BY <1>3, <1>4, <1>5 DEF VerbsInv

LEMMA ActorAtStep == ASSUME VerbsInv, NEW spot \in Spots, ActorAt(spot) PROVE VerbsInv'
<1>1. /\ pos' = spot /\ last' = Moved
      /\ UNCHANGED <<phase, calls, walk, inv, owner, verb, useObject, sentence, body, made,
                     crashed>>
      /\ inputs' \in 0..MaxInputs
  BY OrderStep DEF ActorAt, thingVars, hudVars
<1>2. WorldTyped' /\ OneOwner'
  BY <1>1 DEF VerbsInv, WorldTyped, OneOwner
<1>3. AccountOK'
  BY <1>1, AccountMoved DEF VerbsInv
<1>4. Stack(calls, made, sentence, body)'
  BY <1>1 DEF VerbsInv
<1> QED BY <1>2, <1>3, <1>4 DEF VerbsInv

(* Scripts pick up what nobody has, and take away what somebody has.       *)
LEMMA InventoryStep ==
  ASSUME VerbsInv, ~crashed, NEW o \in Objects, PickupObject(o) \/ RemoveInventory(o)
  PROVE  VerbsInv'
<1>1. /\ UNCHANGED <<phase, calls, pos, walk, verb, useObject, sentence, body, made, last,
                     crashed>>
      /\ inputs' \in 0..MaxInputs
  BY OrderStep DEF PickupObject, RemoveInventory, actorVars, hudVars, sentenceVars
<1>2. owner \in [Objects -> Actors \cup {None}] /\ inv \in [Actors -> [Objects -> Nat]]
      /\ "me" \in Actors /\ None \notin Actors
  BY VerbsAssumption DEF VerbsInv, WorldTyped, Actors
<1>3. \A a \in Actors, x \in Objects : inv[a][x] = IF owner[x] = a THEN 1 ELSE 0
  BY DEF VerbsInv, OneOwner
<1>4. PICK a \in Actors, b \in Actors \cup {None}, n \in Nat :
        /\ owner' = [owner EXCEPT ![o] = b] /\ inv' = [inv EXCEPT ![a][o] = n]
        /\ n = (IF a = b THEN 1 ELSE 0)
        /\ owner[o] \in {a, None} /\ b \in {a, None}
  <2>1. CASE PickupObject(o)
    <3>1. owner[o] = None /\ owner' = [owner EXCEPT ![o] = "me"]
          /\ inv' = [inv EXCEPT !["me"][o] = @ + 1]
      BY <2>1 DEF PickupObject
    <3>2. inv["me"][o] = 0
      BY <1>2, <1>3, <3>1
    <3>3. inv' = [inv EXCEPT !["me"][o] = 1]
      BY <3>1, <3>2
    <3> QED BY <1>2, <3>1, <3>3
  <2>2. CASE RemoveInventory(o)
    <3>1. owner[o] \in Actors /\ owner' = [owner EXCEPT ![o] = None]
          /\ inv' = [inv EXCEPT ![owner[o]][o] = 0]
      BY <1>2, <2>2 DEF RemoveInventory
    <3> QED BY <1>2, <3>1
  <2> QED BY <2>1, <2>2
<1>5. /\ owner' \in [Objects -> Actors \cup {None}]
      /\ \A x \in Objects : owner'[x] = IF x = o THEN b ELSE owner[x]
      /\ inv' \in [Actors -> [Objects -> Nat]]
      /\ \A d \in Actors, x \in Objects : inv'[d][x] = IF d = a /\ x = o THEN n ELSE inv[d][x]
  BY <1>2, <1>4
<1>6. \A d \in Actors, x \in Objects : inv'[d][x] = IF owner'[x] = d THEN 1 ELSE 0
  BY <1>2, <1>3, <1>4, <1>5
<1>7. WorldTyped' /\ OneOwner'
  BY <1>1, <1>5, <1>6 DEF VerbsInv, WorldTyped, OneOwner
<1>8. AccountOK'
  BY <1>1, AccountKept DEF VerbsInv
<1>9. Stack(calls, made, sentence, body)'
  BY <1>1 DEF VerbsInv
<1> QED BY <1>7, <1>8, <1>9 DEF VerbsInv


-----------------------------------------------------------------------------
(* What the frame does                                                     *)

(* Sentence does nothing, or goes on with what its first function does.    *)
LEMMA SentenceIdle ==
  ASSUME VerbsInv, UNCHANGED <<calls, body, last, pos, walk, sentence, made>>
  PROVE  Stack(calls, made, sentence, body)' /\ AccountOK'
BY AccountKept DEF VerbsInv

(* It is emptied when it was stopped.                                      *)
LEMMA SentenceEmptied ==
  ASSUME VerbsInv, calls = <<>>, sentence # 0, body.stopped,
         body' = [body EXCEPT !.funcs = <<>>],
         UNCHANGED <<calls, last, pos, walk, sentence, made>>
  PROVE  Stack(calls, made, sentence, body)' /\ AccountOK'
<1>1. body \in Bodies
  BY DEF VerbsInv, AccountOK
<1>2. PICK rest \in Plans : rest = <<>>
  BY DEF Plans
<1>3. body' = [body EXCEPT !.funcs = rest]
  BY <1>2
<1>4. body' \in Bodies /\ (body'.stopped <=> body.stopped) /\ body'.goal = body.goal
  BY <1>1, <1>3 DEF Bodies
<1>5. Comes(body', last') /\ Stands(body', last', pos', walk')
  BY <1>4 DEF VerbsInv, AccountOK, Comes, Stands
<1>6. AccountOK'
  BY <1>4, <1>5 DEF VerbsInv, AccountOK, EndsOneWay, VerbInReach
<1> QED BY <1>6, StackEmpty

(* Its first function is over: the next has not begun.                     *)
LEMMA FinishStep ==
  ASSUME VerbsInv, calls = <<>>, sentence # 0, ~body.stopped, body.funcs # <<>>, Finish,
         UNCHANGED <<pos, walk, sentence, made>>,
         First(body.funcs) \in {"postWalk", "reach", "verb", "default"} => body.done,
         First(body.funcs) = "walk" =>
           walk = None /\ (body.goal = Spot[Target(last.cmd)] \/ last.cmd.verb = "TalkTo")
  PROVE  Stack(calls, made, sentence, body)' /\ AccountOK'
<1>1. body \in Bodies /\ body.funcs \in Plans
  BY DEF VerbsInv, AccountOK, Bodies
<1>2. PICK rest \in Plans : rest = Tail(body.funcs)
  BY <1>1, PlanTails
<1>3. body' = [body EXCEPT !.funcs = rest, !.done = FALSE, !.reaching = FALSE]
      /\ UNCHANGED <<calls, last>>
  BY <1>2 DEF Finish, Functioned
<1>4. /\ body' \in Bodies /\ ~body'.stopped /\ ~body'.done /\ body'.goal = body.goal
      /\ body'.funcs = rest
  BY <1>1, <1>3 DEF Bodies
<1>5. /\ First(body.funcs) \in Functions
      /\ First(body.funcs) = "walk" => First(rest) = "postWalk"
      /\ First(body.funcs) = "postWalk" => First(rest) \in {"reach", "verb"}
      /\ First(body.funcs) = "reach" => First(rest) = "verb"
      /\ First(body.funcs) = "verb" => First(rest) = "default"
      /\ First(body.funcs) = "default" => First(rest) = "nothing"
  BY <1>1, <1>2, PlanTails
<1>6. Comes(body', last')
  BY <1>3, <1>4, <1>5 DEF VerbsInv, AccountOK, Comes, Functions
<1>7. Stands(body', last', pos', walk')
  BY <1>3, <1>4 DEF VerbsInv, AccountOK, Stands
<1>8. AccountOK'
  BY <1>3, <1>4, <1>6, <1>7 DEF VerbsInv, AccountOK, EndsOneWay, VerbInReach
<1> QED BY <1>3, <1>8, StackEmpty

(* A function calls a script, for the sentence.                            *)
LEMMA SentenceCall ==
  ASSUME VerbsInv, calls = <<>>, sentence # 0, UNCHANGED <<sentence, made>>,
         NEW at \in {"verbCantReach", "postWalk", "verb"},
         calls' = <<Call(at, sentence, last.cmd, None, None)>>,
         at = "postWalk" => First(body'.funcs) = "postWalk" /\ ~body'.done /\ ~body'.stopped,
         at = "verbCantReach" => First(body'.funcs) = "walk" /\ body'.stopped
  PROVE  Stack(calls, made, sentence, body)'
<1>1. made \in Nat /\ sentence = made /\ last.cmd \in Commands
  BY DEF VerbsInv, AccountOK, Comes
<1> DEFINE c == [at |-> at, sid |-> sentence, cmd |-> last.cmd, goal |-> None, for |-> None]
<1>2. calls' = <<c>>
  BY DEF Call
<1>3. c \in AnyCall /\ c.at = at /\ c.sid = sentence /\ c.cmd = last.cmd
  BY <1>1 DEF AnyCall
<1> HIDE DEF c
<1>4. c \in Calls /\ Serves(c, body')
  BY <1>1, <1>3 DEF Calls, Serves
<1>5. calls' = Append(<<>>, c)
  BY <1>2
<1>6. Stack(<<>>, made, sentence, body')
  BY StackEmpty
<1>7. c.sid <= made
  BY <1>1, <1>3
<1>8. Stack(calls', made, sentence, body')
  BY <1>1, <1>4, <1>5, <1>6, <1>7, StackPushed
<1> QED BY <1>8

(* ActorWalk: over, or its walk has failed, or still under way.            *)
LEMMA RunWalkStep ==
  ASSUME VerbsInv, calls = <<>>, sentence # 0, ~body.stopped,
         First(body.funcs) = "walk", RunWalk, UNCHANGED <<pos, walk, sentence, made>>
  PROVE  Stack(calls, made, sentence, body)' /\ AccountOK'
<1> DEFINE there == body.goal = Spot[Target(last.cmd)] \/ last.cmd.verb = "TalkTo"
<1>1. body \in Bodies /\ body.funcs \in Plans /\ body.funcs # <<>> /\ last \in Accounts
  BY DEF VerbsInv, AccountOK, Bodies, First
<1>2. CASE walk # None
  <2>1. UNCHANGED <<calls, body, last>>
    BY <1>2 DEF RunWalk, Functioned
  <2> QED BY <2>1, SentenceIdle
<1>3. CASE walk = None /\ there
  <2>1. Finish
    BY <1>3 DEF RunWalk
  <2> QED BY <1>1, <1>3, <2>1, FinishStep
<1>4. CASE walk = None /\ ~there
  <2>1. PICK rest \in Plans : rest = IF body.goal = pos THEN body.funcs ELSE Tail(body.funcs)
    BY <1>1, PlanTails
  <2>2. /\ last' = [last EXCEPT !.failed = TRUE]
        /\ IF body.goal = pos
           THEN /\ body' = [body EXCEPT !.stopped = TRUE]
                /\ calls' = <<Call("verbCantReach", sentence, last.cmd, None, None)>>
           ELSE /\ body' = [body EXCEPT !.stopped = TRUE, !.funcs = Tail(@)]
                /\ UNCHANGED calls
    BY <1>4 DEF RunWalk
  <2>3. /\ body' \in Bodies /\ body'.stopped /\ body'.goal = body.goal /\ body'.funcs = rest
    <3>1. body' = [body EXCEPT !.stopped = TRUE, !.funcs = rest]
      BY <1>1, <2>1, <2>2 DEF Bodies
    <3> QED BY <1>1, <3>1 DEF Bodies
  <2>4. /\ last' \in Accounts /\ (last'.handled <=> last.handled) /\ last'.failed
        /\ last'.cmd = last.cmd /\ (last'.walks <=> last.walks)
        /\ (last'.moved <=> last.moved) /\ (last'.over <=> last.over)
        /\ last'.performed = last.performed
    BY <1>1, <2>2 DEF Accounts
  <2>5. last.performed = 0
    BY DEF VerbsInv, AccountOK, Comes
  <2>6. Comes(body', last') /\ Stands(body', last', pos', walk')
    BY <2>3, <2>4, <2>5 DEF VerbsInv, AccountOK, Comes, Stands
  <2>7. EndsOneWay' /\ VerbInReach'
    BY <2>4, <2>5 DEF EndsOneWay, VerbInReach
  <2>8. AccountOK'
    BY <2>3, <2>4, <2>6, <2>7 DEF VerbsInv, AccountOK
  <2>9. Stack(calls, made, sentence, body)'
    <3>1. CASE body.goal = pos
      BY <2>1, <2>2, <2>3, <3>1, SentenceCall
    <3>2. CASE body.goal # pos
      BY <2>2, <3>2, StackEmpty
    <3> QED BY <3>1, <3>2
  <2> QED BY <2>8, <2>9
<1> QED BY <1>2, <1>3, <1>4

(* VerbExecuteFunction: where the actor is, and the account of it.         *)
LEMMA RunVerbStep ==
  ASSUME VerbsInv, calls = <<>>, sentence # 0, ~body.stopped, ~body.done,
         First(body.funcs) = "verb", RunVerb, UNCHANGED <<pos, walk, sentence, made>>
  PROVE  Stack(calls, made, sentence, body)' /\ AccountOK'
<1>1. body \in Bodies /\ last \in Accounts /\ pos \in Spots \cup {"between"}
  BY DEF VerbsInv, AccountOK, WorldTyped
<1>2. /\ body' = [body EXCEPT !.done = TRUE]
      /\ calls' = <<Call("verb", sentence, last.cmd, None, None)>>
      /\ last' = [last EXCEPT !.performed = @ + 1, !.at = pos]
  BY DEF RunVerb
<1>3. last.performed = 0
  BY DEF VerbsInv, AccountOK, Comes
<1>4. body' \in Bodies /\ ~body'.stopped /\ body'.done /\ body'.goal = body.goal
      /\ body'.funcs = body.funcs
  BY <1>1, <1>2 DEF Bodies
<1>5. PICK one \in Nat : one = 1
  OBVIOUS
<1>6. last' = [last EXCEPT !.performed = one, !.at = pos]
  BY <1>1, <1>2, <1>3, <1>5 DEF Accounts
<1>7. /\ last' \in Accounts /\ (last'.handled <=> last.handled)
      /\ (last'.failed <=> last.failed)
      /\ last'.cmd = last.cmd /\ (last'.walks <=> last.walks)
      /\ (last'.moved <=> last.moved) /\ (last'.over <=> last.over)
      /\ last'.performed = one /\ last'.at = pos
  BY <1>1, <1>6 DEF Accounts
<1>8. Comes(body', last') /\ Stands(body', last', pos', walk')
  BY <1>4, <1>5, <1>7 DEF VerbsInv, AccountOK, Comes, Stands
<1>9. EndsOneWay'
  BY <1>5, <1>7, <1>8 DEF VerbsInv, AccountOK, EndsOneWay, Comes
<1>10. VerbInReach'
  BY <1>7 DEF VerbsInv, AccountOK, VerbInReach, Stands
<1>11. AccountOK'
  BY <1>4, <1>7, <1>8, <1>9, <1>10 DEF VerbsInv, AccountOK
<1>12. Stack(calls, made, sentence, body)'
  BY <1>2, SentenceCall
<1> QED BY <1>11, <1>12


(* ReachAnim plays, or the default verb is selected.                       *)
LEMMA SentencePlays ==
  ASSUME VerbsInv, calls = <<>>, sentence # 0,
         First(body.funcs) \in {"reach", "default"},
         body' \in {[body EXCEPT !.done = TRUE], [body EXCEPT !.reaching = TRUE]},
         UNCHANGED <<calls, last, pos, walk, sentence, made>>
  PROVE  Stack(calls, made, sentence, body)' /\ AccountOK'
<1>1. body \in Bodies
  BY DEF VerbsInv, AccountOK
<1>2. /\ body' \in Bodies /\ (body'.stopped <=> body.stopped) /\ body'.goal = body.goal
      /\ body'.funcs = body.funcs
  BY <1>1 DEF Bodies
<1>3. Comes(body', last') /\ Stands(body', last', pos', walk')
  BY <1>2 DEF VerbsInv, AccountOK, Comes, Stands
<1>4. AccountOK'
  BY <1>2, <1>3 DEF VerbsInv, AccountOK, EndsOneWay, VerbInReach
<1> QED BY <1>4, StackEmpty

LEMMA RunFunctionStep ==
  ASSUME VerbsInv, calls = <<>>, sentence # 0, ~body.stopped, body.funcs # <<>>,
         RunFunction, UNCHANGED <<pos, walk, sentence, made>>
  PROVE  Stack(calls, made, sentence, body)' /\ AccountOK'
<1> DEFINE f == Head(body.funcs)
<1>1. body \in Bodies /\ body.funcs \in Plans
  BY DEF VerbsInv, AccountOK, Bodies
<1>2. First(body.funcs) = f /\ f \in Functions
  BY <1>1, PlanTails
<1> HIDE DEF f
<1>3. CASE f = "walk"
  <2>1. RunWalk
    BY <1>3 DEF RunFunction, f
  <2> QED BY <1>2, <1>3, <2>1, RunWalkStep
<1>4. CASE f # "walk" /\ body.done
  <2>1. Finish
    BY <1>4 DEF RunFunction, f
  <2> QED BY <1>2, <1>4, <2>1, FinishStep
<1>5. CASE f = "postWalk" /\ ~body.done
  <2>1. /\ calls' = <<Call("postWalk", sentence, last.cmd, None, None)>>
        /\ UNCHANGED <<body, last>>
    BY <1>5 DEF RunFunction, f
  <2>2. Stack(calls, made, sentence, body)'
    BY <1>2, <1>5, <2>1, SentenceCall
  <2>3. AccountOK'
    BY <2>1, AccountKept DEF VerbsInv
  <2> QED BY <2>2, <2>3
<1>6. CASE f = "reach" /\ ~body.done
  <2>1. RunReach
    BY <1>6 DEF RunFunction, f
  <2> QED BY <1>2, <1>6, <2>1, SentencePlays DEF RunReach, Functioned
<1>7. CASE f = "verb" /\ ~body.done
  <2>1. RunVerb
    BY <1>7 DEF RunFunction, f
  <2> QED BY <1>2, <1>7, <2>1, RunVerbStep
<1>8. CASE f = "default" /\ ~body.done
  <2>1. body' = [body EXCEPT !.done = TRUE] /\ UNCHANGED <<calls, last>>
    BY <1>8 DEF RunFunction, f
  <2> QED BY <1>2, <1>8, <2>1, SentencePlays
<1> QED BY <1>2, <1>3, <1>4, <1>5, <1>6, <1>7, <1>8 DEF Functions

(* The default verb is that of the HUD, or the verb is left.               *)
LEMMA RunFunctionHud ==
  ASSUME VerbsInv, body.funcs # <<>>, RunFunction
  PROVE  verb' \in {verb, "LookAt"} /\ useObject' \in {useObject, None}
<1> DEFINE f == Head(body.funcs)
<1>1. f \in Functions
  BY PlanTails DEF VerbsInv, AccountOK, Bodies
<1>2. CASE f = "walk"
  BY <1>2 DEF RunFunction, RunWalk, Finish, Functioned, hudVars
<1>3. CASE f # "walk" /\ body.done
  BY <1>3 DEF RunFunction, Finish, Functioned, hudVars
<1>4. CASE f = "postWalk" /\ ~body.done
  BY <1>4 DEF RunFunction, hudVars
<1>5. CASE f = "reach" /\ ~body.done
  BY <1>5 DEF RunFunction, RunReach, Functioned, hudVars
<1>6. CASE f = "verb" /\ ~body.done
  BY <1>6 DEF RunFunction, RunVerb, hudVars
<1>7. CASE f = "default" /\ ~body.done
  BY <1>7 DEF RunFunction, SetDefaultVerb
<1> QED BY <1>1, <1>2, <1>3, <1>4, <1>5, <1>6, <1>7 DEF Functions

LEMMA UpdateSentenceStep == ASSUME VerbsInv, UpdateSentence PROVE VerbsInv'
<1>1. /\ calls = <<>> /\ phase' \in {"actors", "ended"}
      /\ UNCHANGED <<pos, walk, inv, owner, sentence, made, inputs, crashed>>
  BY DEF UpdateSentence, Idle, actorVars, thingVars, boundVars
<1>2. CASE sentence = 0 \/ body.funcs = <<>>
  <2>1. UNCHANGED <<calls, body, last, verb, useObject>>
    BY <1>2 DEF UpdateSentence, hudVars
  <2>2. Stack(calls, made, sentence, body)' /\ AccountOK'
    BY <1>1, <2>1, SentenceIdle
  <2>3. WorldTyped' /\ OneOwner'
    BY <1>1, <2>1 DEF VerbsInv, WorldTyped, OneOwner
  <2> QED BY <2>2, <2>3 DEF VerbsInv
<1>3. CASE sentence # 0 /\ body.funcs # <<>> /\ body.stopped
  <2>1. body' = [body EXCEPT !.funcs = <<>>] /\ UNCHANGED <<calls, last, verb, useObject>>
    BY <1>3 DEF UpdateSentence, Functioned, hudVars
  <2>2. Stack(calls, made, sentence, body)' /\ AccountOK'
    BY <1>1, <1>3, <2>1, SentenceEmptied
  <2>3. WorldTyped' /\ OneOwner'
    BY <1>1, <2>1 DEF VerbsInv, WorldTyped, OneOwner
  <2> QED BY <2>2, <2>3 DEF VerbsInv
<1>4. CASE sentence # 0 /\ body.funcs # <<>> /\ ~body.stopped
  <2>1. RunFunction
    BY <1>4 DEF UpdateSentence
  <2>2. Stack(calls, made, sentence, body)' /\ AccountOK'
    BY <1>1, <1>4, <2>1, RunFunctionStep
  <2>3. verb' \in {verb, "LookAt"} /\ useObject' \in {useObject, None}
    BY <1>4, <2>1, RunFunctionHud
  <2>4. WorldTyped' /\ OneOwner'
    BY <1>1, <2>3 DEF VerbsInv, WorldTyped, OneOwner, Verbs
  <2> QED BY <2>2, <2>4 DEF VerbsInv
<1> QED BY <1>2, <1>3, <1>4

(* An empty sentence has executed its verb, or was stopped.                *)
LEMMA EndSentenceStep == ASSUME VerbsInv, EndSentence PROVE VerbsInv'
<1>1. /\ calls = <<>> /\ phase' = "actors" /\ crashed' \in BOOLEAN /\ ~crashed
      /\ UNCHANGED <<calls, pos, walk, inv, owner, verb, useObject, inputs>>
  BY DEF EndSentence, Idle, actorVars, thingVars, hudVars
<1>2. WorldTyped' /\ OneOwner'
  BY <1>1 DEF VerbsInv, WorldTyped, OneOwner
<1>3. Stack(calls, made, sentence, body)'
  BY <1>1, StackEmpty
<1>4. CASE sentence # 0 /\ body.funcs = <<>>
  <2>1. /\ sentence' = 0 /\ body' = NoBody /\ UNCHANGED made
        /\ last' = [last EXCEPT !.over = TRUE]
    BY <1>4 DEF EndSentence
  <2>2. last \in Accounts /\ body \in Bodies
    BY DEF VerbsInv, AccountOK
  <2>3. /\ last' \in Accounts /\ (last'.handled <=> last.handled)
        /\ (last'.failed <=> last.failed)
        /\ last'.cmd = last.cmd /\ (last'.walks <=> last.walks)
        /\ (last'.moved <=> last.moved)
        /\ last'.performed = last.performed /\ last'.at = last.at
    BY <2>1, <2>2 DEF Accounts
  <2>4. First(body.funcs) = "nothing"
    BY <1>4 DEF First
  <2>5. EndsOneWay'
    BY <1>4, <2>3, <2>4 DEF VerbsInv, AccountOK, EndsOneWay, Comes
  <2>6. VerbInReach'
    BY <2>3 DEF VerbsInv, AccountOK, VerbInReach
  <2>7. body' \in Bodies
    <3>1. <<>> \in Plans /\ None \in Spots \cup {None}
      BY DEF Plans
    <3> QED BY <2>1, <3>1 DEF NoBody, Bodies
  <2>8. AccountOK'
    BY <2>1, <2>3, <2>5, <2>6, <2>7 DEF VerbsInv, AccountOK
  <2> QED BY <1>2, <1>3, <2>8 DEF VerbsInv
<1>5. CASE ~(sentence # 0 /\ body.funcs = <<>>)
  <2>1. UNCHANGED <<sentence, body, made, last>>
    BY <1>5 DEF EndSentence, sentenceVars
  <2> QED BY <1>1, <1>2, <1>3, <2>1, AccountKept DEF VerbsInv
<1> QED BY <1>4, <1>5


(* The actor comes nearer to where it walks to, or arrives there.          *)
LEMMA WalkStep == ASSUME VerbsInv, WalkOn \/ Arrive PROVE VerbsInv'
<1>1. /\ calls = <<>> /\ phase' = "click"
      /\ UNCHANGED <<inv, owner, verb, useObject, sentence, body, made, last, inputs, crashed>>
      /\ \/ /\ UNCHANGED <<calls, walk>>
            /\ pos' = IF walk = None THEN pos ELSE "between"
         \/ /\ walk # None /\ pos' = walk /\ walk' = None
            /\ calls' = <<Call("postWalking", 0, NoCommand, None, "arrival")>>
  BY DEF WalkOn, Arrive, Idle, thingVars, hudVars, sentenceVars, boundVars
<1>2. WorldTyped' /\ OneOwner'
  BY <1>1 DEF VerbsInv, WorldTyped, OneOwner
<1>3. AccountOK'
  <2>1. EndsOneWay' /\ VerbInReach'
    BY <1>1 DEF VerbsInv, AccountOK, EndsOneWay, VerbInReach
  <2>2. ASSUME Stands(body, last, pos, walk) PROVE Stands(body', last', pos', walk')
    <3>1. CASE walk = None
      BY <1>1, <2>2, <3>1
    <3>2. CASE walk # None
      BY <1>1, <2>2, <3>2 DEF Stands
    <3> QED BY <3>1, <3>2
  <2> QED BY <1>1, <2>1, <2>2 DEF VerbsInv, AccountOK
<1>4. PICK c \in Calls :
        c = Call("postWalking", 0, NoCommand, None, "arrival") /\ c.sid = 0
  BY OtherCalls
<1>5. calls' = <<>> \/ calls' = Append(calls, c)
  BY <1>1, <1>4
<1>6. Stack(calls, made, sentence, body)'
  BY <1>1, <1>4, <1>5, CallStep, StackEmpty
<1> QED BY <1>2, <1>3, <1>6 DEF VerbsInv

LEMMA FrameStep == ASSUME VerbsInv, ScriptsEnd \/ NoClick PROVE VerbsInv'
<1>1. /\ phase' \in {"scripts", "sentence"}
      /\ UNCHANGED <<calls, pos, walk, inv, owner, verb, useObject, sentence, body, made,
                     last, inputs, crashed>>
  BY DEF ScriptsEnd, NoClick, actorVars, thingVars, hudVars, sentenceVars, boundVars
<1>2. WorldTyped' /\ OneOwner'
  BY <1>1 DEF VerbsInv, WorldTyped, OneOwner
<1>3. AccountOK'
  BY <1>1, AccountKept DEF VerbsInv
<1> QED BY <1>1, <1>2, <1>3 DEF VerbsInv

(* A click drops the sentence, and calls a script at most.                 *)
LEMMA ClickStep ==
  ASSUME VerbsInv, Click,
         calls' = <<>> \/ \E c \in Calls : c.sid = 0 /\ calls' = <<c>>,
         verb' \in Verbs, useObject' \in {useObject, None},
         UNCHANGED <<pos, walk, inv, owner, crashed>>
  PROVE  VerbsInv'
<1>1. /\ phase' = "scripts" /\ Dropped /\ inputs' \in 0..MaxInputs
  <2>1. inputs \in 0..MaxInputs /\ MaxInputs \in Nat
    BY VerbsAssumption DEF VerbsInv, WorldTyped
  <2> QED BY <2>1 DEF Click
<1>2. WorldTyped' /\ OneOwner'
  BY <1>1 DEF VerbsInv, WorldTyped, OneOwner
<1>3. AccountOK'
  BY <1>1, AccountDropped DEF VerbsInv
<1>4. Stack(calls, made, sentence, body)'
  <2>1. Stack(<<>>, made, 0, body') /\ UNCHANGED made /\ sentence' = 0 /\ made \in Nat
    BY <1>1, StackEmpty DEF Dropped, VerbsInv, AccountOK
  <2>2. CASE calls' = <<>>
    BY <2>1, <2>2
  <2>3. ASSUME NEW c \in Calls, c.sid = 0, calls' = <<c>> PROVE Stack(calls', made, 0, body')
    <3>1. calls' = Append(<<>>, c) /\ c.sid <= made
      BY <2>1, <2>3
    <3> QED BY <2>1, <2>3, <3>1, StackPushed
  <2> QED BY <2>1, <2>2, <2>3
<1> QED BY <1>2, <1>3, <1>4 DEF VerbsInv

LEMMA ClicksStep == ASSUME VerbsInv, Clicks PROVE VerbsInv'
<1>0. verb \in Verbs /\ useObject \in Objects \cup {None}
  BY DEF VerbsInv, WorldTyped
<1>1. ASSUME NEW v \in Verbs, ClickVerb(v) PROVE VerbsInv'
  <2>1. PICK c \in Calls : c = Plain("onVerbClick") /\ c.sid = 0
    BY OtherCalls DEF Plain
  <2>2. /\ Click /\ calls' = <<c>> /\ verb' \in Verbs /\ useObject' = None
        /\ UNCHANGED <<pos, walk, inv, owner, crashed>>
    BY <1>1, <2>1 DEF ClickVerb, actorVars, thingVars
  <2> QED BY <2>1, <2>2, ClickStep
<1>2. ASSUME NEW thing \in Objects \cup Others, ClickThing(thing) PROVE VerbsInv'
  <2>1. PICK cmd : cmd = Clicked(thing)
    OBVIOUS
  <2>2. /\ Click /\ calls' = <<Call("onObjectClick", 0, cmd, None, None)>>
        /\ UNCHANGED <<pos, walk, inv, owner, verb, useObject, crashed>>
    BY <1>2, <2>1 DEF ClickThing, actorVars, thingVars, hudVars
  <2>3. cmd \in Commands \/ (cmd.verb = "Give" /\ cmd.o2 = None /\ cmd.o1 \in Objects)
    BY <1>2, <2>1 DEF ClickThing
  <2>4. \E v, o1, o2 : cmd = [verb |-> v, o1 |-> o1, o2 |-> o2]
    BY <2>1 DEF Clicked
  <2>5. cmd \in Commands \cup Offers
    BY <2>3, <2>4 DEF Offers
  <2>6. PICK c \in Calls : c = Call("onObjectClick", 0, cmd, None, None) /\ c.sid = 0
    BY <2>5, OtherCalls
  <2> QED BY <1>0, <2>2, <2>6, ClickStep
<1>3. ASSUME NEW spot \in Spots, NEW for \in {"ground", None}, ClickGround(spot, for)
      PROVE  VerbsInv'
  <2>1. /\ Click /\ UNCHANGED <<pos, walk, inv, owner, crashed>>
        /\ verb' \in {verb, "LookAt"} /\ useObject' \in {useObject, None}
    BY <1>3 DEF ClickGround, SetDefaultVerb, actorVars, thingVars, hudVars
  <2>2. verb' \in Verbs
    BY <1>0, <2>1 DEF Verbs
  <2>3. CASE calls' = <<>>
    BY <2>1, <2>2, <2>3, ClickStep
  <2>4. CASE calls' # <<>>
    <3>1. PICK goal \in Spots :
            calls' = Append(<<>>, Call("preWalking", 0, NoCommand, goal, for))
      BY <1>3, <2>4, VerbsAssumption DEF ClickGround, BeginWalk, PathEnds
    <3>2. PICK c \in Calls : c = Call("preWalking", 0, NoCommand, goal, for) /\ c.sid = 0
      BY WalkCalls DEF None
    <3>3. calls' = <<c>>
      BY <3>1, <3>2
    <3> QED BY <2>1, <2>2, <3>2, <3>3, ClickStep
  <2> QED BY <2>3, <2>4
<1> QED BY <1>1, <1>2, <1>3 DEF Clicks

LEMMA HaltedStep == ASSUME VerbsInv, UNCHANGED vars PROVE VerbsInv'
<1>1. UNCHANGED <<phase, calls, pos, walk, inv, owner, verb, useObject, sentence, body, made,
                  last, inputs, crashed>>
  BY DEF vars
<1>2. WorldTyped' /\ OneOwner'
  BY <1>1 DEF VerbsInv, WorldTyped, OneOwner
<1>3. AccountOK'
  BY <1>1, AccountKept DEF VerbsInv
<1> QED BY <1>1, <1>2, <1>3 DEF VerbsInv


-----------------------------------------------------------------------------
(* What the costume shows                                                  *)

(* To turn shows the animation that is current, or what was shown.         *)
LEMMA FacingFacts ==
  ASSUME NEW c \in Wardrobe, NEW f \in Facings
  PROVE  /\ Facing(c, f) \in Wardrobe /\ Facing(c, f).animation = c.animation
         /\ \/ Facing(c, f).shown[1] = c.shown[1]
            \/ c.animation # "eyes" /\ Facing(c, f).shown[1] = c.animation
<1>1. CASE c.facing = f
  BY <1>1 DEF Facing
<1>2. CASE c.facing # f
  <2>0. PICK d : d = [c EXCEPT !.facing = f]
    OBVIOUS
  <2>1. /\ d \in Wardrobe /\ d.animation = c.animation /\ d.facing = f
        /\ d.shown = c.shown
    BY <2>0 DEF Wardrobe
  <2>2. Facing(c, f) = Updated(d)
    BY <1>2, <2>0 DEF Facing
  <2>3. CASE d.animation = "eyes"
    BY <2>1, <2>2, <2>3 DEF Updated
  <2>4. CASE d.animation # "eyes"
    <3>0. PICK s : s = <<d.animation, d.facing>>
      OBVIOUS
    <3>1. s \in Names \X Facings /\ s[1] = d.animation
      BY <2>1, <2>4, <3>0 DEF Wardrobe
    <3>2. Updated(d) = [d EXCEPT !.shown = s]
      BY <2>4, <3>0 DEF Updated
    <3>3. Updated(d) \in Wardrobe /\ Updated(d).animation = d.animation /\ Updated(d).shown = s
      BY <2>1, <3>1, <3>2 DEF Wardrobe
    <3> QED BY <2>1, <2>2, <2>4, <3>1, <3>3
  <2> QED BY <2>3, <2>4
<1> QED BY <1>1, <1>2

LEMMA StateFacts ==
  ASSUME NEW c \in Wardrobe, NEW name \in Names \cup {"eyes"}
  PROVE  /\ State(c, name) \in Wardrobe /\ State(c, name).animation = name
         /\ name = "eyes" => State(c, name).shown = c.shown
         /\ name # "eyes" => State(c, name).shown[1] = name
<1>0. PICK d : d = [c EXCEPT !.animation = name]
  OBVIOUS
<1>1. /\ d \in Wardrobe /\ d.animation = name /\ d.facing = c.facing
      /\ d.shown = c.shown
  BY <1>0 DEF Wardrobe
<1>2. State(c, name) = Updated(d)
  BY <1>0 DEF State
<1>3. CASE name = "eyes"
  BY <1>1, <1>2, <1>3 DEF Updated
<1>4. CASE name # "eyes"
  <2>0. PICK s : s = <<d.animation, d.facing>>
    OBVIOUS
  <2>1. s \in Names \X Facings /\ s[1] = d.animation
    BY <1>1, <1>4, <2>0 DEF Wardrobe
  <2>2. Updated(d) = [d EXCEPT !.shown = s]
    BY <1>1, <1>4, <2>0 DEF Updated
  <2>3. Updated(d) \in Wardrobe /\ Updated(d).animation = d.animation /\ Updated(d).shown = s
    BY <1>1, <2>1, <2>2 DEF Wardrobe
  <2> QED BY <1>1, <1>2, <1>4, <2>1, <2>3
<1> QED BY <1>3, <1>4

(* The actor is on its way, and at a node of its path.                     *)
LEMMA WalksStep ==
  ASSUME CostumeInv, NEW f \in Facings, costume' = Walking(costume, f), posed' = FALSE,
         walk' # None
  PROVE  CostumeInv'
<1>1. Facing(costume, f) \in Wardrobe
  BY FacingFacts DEF CostumeInv
<1>2. /\ costume' \in Wardrobe /\ costume'.animation = "walk" /\ costume'.shown[1] = "walk"
  BY <1>1, StateFacts DEF Walking, Names
<1> QED BY <1>2 DEF CostumeInv, Seen

LEMMA StopsStep ==
  ASSUME CostumeInv, costume' = Standing(costume), posed' = FALSE, walk' = None
  PROVE  CostumeInv'
<1>1. /\ costume' \in Wardrobe /\ costume'.animation = "stand" /\ costume'.shown[1] = "stand"
  BY StateFacts DEF CostumeInv, Standing, Names
<1> QED BY <1>1 DEF CostumeInv, Seen

LEMMA TurnsStep ==
  ASSUME CostumeInv, NEW f \in Facings, costume' = Facing(costume, f),
         UNCHANGED <<posed, walk>>
  PROVE  CostumeInv'
<1>1. /\ costume' \in Wardrobe /\ costume'.animation = costume.animation
      /\ \/ costume'.shown[1] = costume.shown[1]
         \/ costume.animation # "eyes" /\ costume'.shown[1] = costume.animation
  BY FacingFacts DEF CostumeInv
<1> QED BY <1>1 DEF CostumeInv, Seen

(* Something else than the walk is shown.                                  *)
LEMMA ShowsStep ==
  ASSUME CostumeInv, NEW d \in Wardrobe, NEW name \in {"stand", "reach", "pose", "eyes"},
         Shows(State(d, name)), name = "eyes" => d = costume, UNCHANGED walk
  PROVE  CostumeInv'
<1>1. name \in Names \cup {"eyes"}
  BY DEF Names
<1>2. /\ costume' \in Wardrobe /\ costume'.animation = name
      /\ name = "eyes" => costume'.shown = costume.shown
      /\ name # "eyes" => costume'.shown[1] = name
  BY <1>1, StateFacts DEF Shows
<1>3. posed' \in BOOLEAN /\ (posed' <=> posed \/ (walk' # None /\ name # "eyes"))
  BY <1>1, StateFacts DEF Shows, CostumeInv
<1> QED BY <1>2, <1>3 DEF CostumeInv, Seen

-----------------------------------------------------------------------------
(* The behaviours                                                          *)

LEMMA VerbsInitInv == Init => VerbsInv
<1> SUFFICES ASSUME Init PROVE VerbsInv
  OBVIOUS
<1>1. WorldTyped
  <2>1. "me" \in Actors /\ Start \in Spots /\ 0 \in 0..MaxInputs
    BY VerbsAssumption DEF Actors
  <2>2. owner \in [Objects -> Actors \cup {None}] /\ inv \in [Actors -> [Objects -> Nat]]
    BY <2>1 DEF Init
  <2> QED BY <2>1, <2>2 DEF Init, WorldTyped, Verbs
<1>2. OneOwner
  <2>1. ASSUME NEW a \in Actors, NEW o \in Objects
        PROVE  inv[a][o] = IF owner[o] = a THEN 1 ELSE 0
    <3>1. inv[a][o] = (IF a = "me" /\ o \in Items THEN 1 ELSE 0)
          /\ owner[o] = (IF o \in Items THEN "me" ELSE None) /\ a # None
      BY VerbsAssumption DEF Init
    <3> QED BY <3>1
  <2> QED BY <2>1 DEF OneOwner
<1>3. Stack(calls, made, sentence, body)
  BY StackEmpty DEF Init
<1>4. AccountOK
  <2>1. body \in Bodies
    <3>1. <<>> \in Plans /\ None \in Spots \cup {None}
      BY DEF Plans
    <3> QED BY <3>1 DEF Init, NoBody, Bodies
  <2>2. last \in Accounts /\ last.performed = 0 /\ ~last.handled /\ ~last.failed /\ ~last.over
    BY DEF Init, NoSentence, Accounts
  <2> QED BY <2>1, <2>2 DEF Init, AccountOK, EndsOneWay, VerbInReach
<1> QED BY <1>1, <1>2, <1>3, <1>4 DEF VerbsInv

LEMMA VerbsNextInv == VerbsInv /\ [Next]_vars => VerbsInv'
<1> SUFFICES ASSUME VerbsInv, [Next]_vars PROVE VerbsInv'
  OBVIOUS
<1>1. CASE ~crashed /\ Returns
  BY <1>1, ReturnPreWalkStep, ReturnPreWalkingStep, ReturnCantReachStep, ReturnPostWalkStep,
     ReturnVerbStep, ReturnObjectGiveStep, ReturnPlainStep, ReturnObjectClickStep DEF Returns
<1>2. CASE ~crashed /\ (Crash \/ Script)
  BY <1>2, CrashStep, PushSentenceStep, StopSentenceStep, ActorWalkToStep, ActorAtStep,
     ActorStopWalkingStep, InventoryStep DEF Script
<1>3. CASE ScriptsEnd \/ UpdateSentence \/ EndSentence \/ WalkOn \/ Arrive \/ NoClick \/ Clicks
  BY <1>3, FrameStep, UpdateSentenceStep, EndSentenceStep, WalkStep, ClicksStep
<1>4. CASE Halted \/ UNCHANGED vars
  BY <1>4, HaltedStep DEF Halted
<1> QED BY <1>1, <1>2, <1>3, <1>4 DEF Next

(* Of Verbs alone, what the costume shows left out: the three properties.  *)
THEOREM VerbsAlone == Spec => [](VerbInReach /\ EndsOneWay /\ OneOwner)
<1>1. VerbsInv => VerbInReach /\ EndsOneWay /\ OneOwner
  BY DEF VerbsInv, AccountOK
<1> QED BY <1>1, VerbsInitInv, VerbsNextInv, PTL DEF Spec

(* A script that dresses the actor changes nothing else.                   *)
LEMMA DressesStep == ASSUME VerbsInv, Dresses PROVE VerbsInv'
<1>1. /\ UNCHANGED <<phase, calls, pos, walk, inv, owner, verb, useObject, sentence, body,
                     made, last, crashed>>
      /\ inputs' \in 0..MaxInputs
  BY OrderStep DEF Dresses, actorVars, thingVars, hudVars, sentenceVars
<1>2. WorldTyped' /\ OneOwner'
  BY <1>1 DEF VerbsInv, WorldTyped, OneOwner
<1>3. AccountOK'
  BY <1>1, AccountKept DEF VerbsInv
<1> QED BY <1>1, <1>2, <1>3 DEF VerbsInv


LEMMA CostumeInitInv == CostumeInit => VerbsInv /\ CostumeInv
<1> SUFFICES ASSUME CostumeInit PROVE VerbsInv /\ CostumeInv
  OBVIOUS
<1>1. VerbsInv /\ walk = None
  BY VerbsInitInv DEF CostumeInit, Init
<1>2. PICK f \in Facings :
        costume = [animation |-> "stand", facing |-> f, shown |-> <<"stand", f>>]
  BY DEF CostumeInit
<1>3. PICK s : s = <<"stand", f>>
  OBVIOUS
<1>4. s \in Names \X Facings /\ s[1] = "stand"
  BY <1>3 DEF Names
<1>5. costume = [animation |-> "stand", facing |-> f, shown |-> s]
  BY <1>2, <1>3
<1>6. costume \in Wardrobe /\ costume.animation = "stand" /\ costume.shown = s
  BY <1>4, <1>5 DEF Wardrobe, Names
<1> QED BY <1>1, <1>4, <1>6 DEF CostumeInit, CostumeInv, Seen

(* What the actor does is a step of Verbs, but for actorStopWalking before *)
(* an animation is played, and for scripts that only dress it.             *)
LEMMA CostumeOverVerbs ==
  ASSUME VerbsInv, [CostumeNext]_<<vars, costumeVars>> PROVE VerbsInv'
<1>1. CASE ~crashed /\ (SetDestination \/ EndStop)
  BY <1>1, ReturnPreWalkingStep, ReturnPlainStep DEF SetDestination, EndStop
<1>2. CASE ~crashed /\ StopsWalking
  BY <1>2, ActorStopWalkingStep DEF StopsWalking
<1>3. CASE ~crashed /\ (Pose \/ \E f \in Facings : TurnTo(f))
  BY <1>3, DressesStep, ActorAtStep DEF Pose, TurnTo
<1>4. CASE ShowSentence \/ ShowWalk \/ ShowArrival
  BY <1>4, UpdateSentenceStep, WalkStep DEF ShowSentence, ShowWalk, ShowArrival
<1>5. CASE LeaveCostume
  <2>1. CASE ~crashed /\ \/ ReturnPreWalk \/ ReturnCantReach \/ ReturnPostWalk \/ ReturnVerb
                         \/ ReturnObjectGive \/ ReturnPlain \/ ReturnObjectClick \/ Crash
    BY <2>1, ReturnPreWalkStep, ReturnCantReachStep, ReturnPostWalkStep, ReturnVerbStep,
       ReturnObjectGiveStep, ReturnPlainStep, ReturnObjectClickStep, CrashStep
  <2>2. CASE ~crashed /\ \/ (\E cmd \in Commands : PushSentence(cmd)) \/ StopSentence
                         \/ (\E spot \in Spots : ActorWalkTo(spot))
                         \/ \E o \in Objects : PickupObject(o) \/ RemoveInventory(o)
    BY <2>2, PushSentenceStep, StopSentenceStep, ActorWalkToStep, InventoryStep
  <2>3. CASE ScriptsEnd \/ EndSentence \/ NoClick \/ Clicks \/ Halted
    BY <2>3, FrameStep, EndSentenceStep, ClicksStep, HaltedStep DEF Halted
  <2> QED BY <1>5, <2>1, <2>2, <2>3 DEF LeaveCostume
<1>6. CASE UNCHANGED <<vars, costumeVars>>
  BY <1>6, HaltedStep
<1> QED BY <1>1, <1>2, <1>3, <1>4, <1>5, <1>6 DEF CostumeNext

LEMMA CostumeNextInv ==
  ASSUME VerbsInv, CostumeInv, [CostumeNext]_<<vars, costumeVars>> PROVE CostumeInv'
<1>1. CASE SetDestination
  <2>1. walk' = Top.goal /\ calls # <<>> /\ Top.at = "preWalking"
    BY <1>1 DEF SetDestination, ReturnPreWalking
  <2>2. Top \in Calls
    BY <2>1, StackPopped DEF VerbsInv
  <2>3. walk' # None
    BY <2>1, <2>2, VerbsAssumption DEF Calls
  <2> QED BY <1>1, <2>3, WalksStep DEF SetDestination
<1>2. CASE StopsWalking
  BY <1>2, StopsStep DEF StopsWalking, ActorStopWalking
<1>3. CASE \E f \in Facings : TurnTo(f)
  <2>1. PICK f \in Facings : TurnTo(f)
    BY <1>3
  <2>2. costume' = Facing(costume, f) /\ UNCHANGED <<posed, walk>>
    BY <2>1 DEF TurnTo, Dresses, actorVars, ActorAt
  <2> QED BY <2>2, TurnsStep
<1>4. CASE Pose
  <2>1. UNCHANGED walk /\ costume \in Wardrobe
    BY <1>4 DEF Pose, Dresses, actorVars, CostumeInv
  <2>2. PICK name \in {"stand", "pose", "eyes"} : Shows(State(costume, name))
    BY <1>4 DEF Pose, Standing
  <2> QED BY <2>1, <2>2, ShowsStep
<1>5. CASE EndStop
  <2>1. UNCHANGED walk /\ costume \in Wardrobe
    BY <1>5 DEF EndStop, ReturnPostWalking, actorVars, CostumeInv
  <2>2. CASE Top.for = "pose"
    <3>1. Shows(State(costume, "pose"))
      BY <1>5, <2>2 DEF EndStop
    <3> QED BY <2>1, <3>1, ShowsStep
  <2>3. CASE Top.for = "arrival"
    <3>1. PICK f \in Facings : Shows(Standing(Facing(costume, f)))
      BY <1>5, <2>3 DEF EndStop
    <3>2. PICK d \in Wardrobe : d = Facing(costume, f)
      BY <2>1, FacingFacts
    <3>3. Shows(State(d, "stand"))
      BY <3>1, <3>2 DEF Standing
    <3> QED BY <2>1, <3>3, ShowsStep
  <2>4. CASE Top.for \notin {"pose", "arrival"}
    <3>1. UNCHANGED <<costume, posed>>
      BY <1>5, <2>4 DEF EndStop, costumeVars
    <3> QED BY <2>1, <3>1 DEF CostumeInv
  <2> QED BY <2>2, <2>3, <2>4
<1>6. CASE ShowSentence
  <2>1. UNCHANGED walk /\ costume \in Wardrobe
    BY <1>6 DEF ShowSentence, UpdateSentence, actorVars, CostumeInv
  <2>2. CASE Reaches /\ body' # body
    <3>1. Shows(IF body'.done THEN Standing(costume) ELSE State(costume, "reach"))
      BY <1>6, <2>2 DEF ShowSentence
    <3>2. CASE body'.done
      <4>1. Shows(State(costume, "stand"))
        BY <3>1, <3>2 DEF Standing
      <4> QED BY <2>1, <4>1, ShowsStep
    <3>3. CASE ~body'.done
      <4>1. Shows(State(costume, "reach"))
        BY <3>1, <3>3
      <4> QED BY <2>1, <4>1, ShowsStep
    <3> QED BY <3>2, <3>3
  <2>3. CASE ~(Reaches /\ body' # body)
    <3>1. UNCHANGED <<costume, posed>>
      BY <1>6, <2>3 DEF ShowSentence, costumeVars
    <3> QED BY <2>1, <3>1 DEF CostumeInv
  <2> QED BY <2>2, <2>3
<1>7. CASE ShowWalk
  <2>1. UNCHANGED walk
    BY <1>7 DEF ShowWalk, WalkOn
  <2>2. CASE UNCHANGED costumeVars
    BY <2>1, <2>2 DEF CostumeInv, costumeVars
  <2>3. CASE ~UNCHANGED costumeVars
    BY <1>7, <2>1, <2>3, WalksStep DEF ShowWalk
  <2> QED BY <2>2, <2>3
<1>8. CASE ShowArrival
  BY <1>8, StopsStep DEF ShowArrival, Arrive
<1>9. CASE LeaveCostume \/ UNCHANGED <<vars, costumeVars>>
  <2>1. UNCHANGED <<costume, posed>>
    BY <1>9 DEF LeaveCostume, costumeVars
  <2>2. UNCHANGED walk
    <3>1. CASE UNCHANGED vars
      BY <3>1 DEF vars
    <3>2. CASE \/ ReturnPreWalk \/ ReturnCantReach \/ ReturnPostWalk \/ ReturnVerb
               \/ ReturnObjectGive \/ ReturnPlain \/ ReturnObjectClick \/ Crash
      BY <3>2 DEF ReturnPreWalk, ReturnCantReach, ReturnPostWalk, ReturnVerb,
         ReturnObjectGive, ReturnPlain, ReturnObjectClick, Crash, actorVars
    <3>3. CASE \/ (\E cmd \in Commands : PushSentence(cmd)) \/ StopSentence
               \/ (\E spot \in Spots : ActorWalkTo(spot))
               \/ \E o \in Objects : PickupObject(o) \/ RemoveInventory(o)
      BY <3>3 DEF PushSentence, StopSentence, ActorWalkTo, PickupObject, RemoveInventory,
         actorVars
    <3>4. CASE ScriptsEnd \/ EndSentence \/ NoClick \/ Clicks
      BY <3>4 DEF ScriptsEnd, EndSentence, NoClick, Clicks, ClickVerb, ClickThing,
         ClickGround, actorVars
    <3> QED BY <1>9, <3>1, <3>2, <3>3, <3>4 DEF LeaveCostume, Halted
  <2> QED BY <2>1, <2>2 DEF CostumeInv
<1> QED BY <1>1, <1>2, <1>3, <1>4, <1>5, <1>6, <1>7, <1>8, <1>9 DEF CostumeNext

(* Whatever scripts call one another, VerbsInv and CostumeInv hold.        *)
THEOREM CostumeSpecInv == CostumeSpec => [](VerbsInv /\ CostumeInv)
<1>1. VerbsInv /\ CostumeInv /\ [CostumeNext]_<<vars, costumeVars>>
        => VerbsInv' /\ CostumeInv'
  BY CostumeOverVerbs, CostumeNextInv
<1> QED BY <1>1, CostumeInitInv, PTL DEF CostumeSpec

(* A verb for which the actor walks to a thing is executed where the thing *)
(* is, unless a script or the player moved the actor on the way: ActorWalk *)
(* is over with the walk, and only if the walk leads there.                *)
THEOREM VerbsInReach == CostumeSpec => []VerbInReach
<1>1. VerbsInv => VerbInReach
  BY DEF VerbsInv, AccountOK
<1> QED BY <1>1, CostumeSpecInv, PTL

(* A sentence executes its verb once, or its walk fails, or a postWalk     *)
(* script handles it: one of the three, however scripts stop or replace it. *)
THEOREM SentencesEndOneWay == CostumeSpec => []EndsOneWay
<1>1. VerbsInv => EndsOneWay
  BY DEF VerbsInv, AccountOK
<1> QED BY <1>1, CostumeSpecInv, PTL

(* An object is in the inventory of its owner, once, and in no other, as   *)
(* it is given, picked up and taken away.                                  *)
THEOREM ObjectsHaveOneOwner == CostumeSpec => []OneOwner
<1>1. VerbsInv => OneOwner
  BY DEF VerbsInv
<1> QED BY <1>1, CostumeSpecInv, PTL

(* An actor on its way is shown walking, unless told to show something     *)
(* else, and one that stands is not: stop, arrival and setDestination tell *)
(* the costume, whatever scripts come between.                             *)
THEOREM WalksAreShown == CostumeSpec => []WalkIsShown
<1>1. CostumeInv => WalkIsShown
  BY DEF CostumeInv, Seen, WalkIsShown
<1> QED BY <1>1, CostumeSpecInv, PTL

(* The state keeps its type, with what is left of a sentence.              *)
THEOREM VerbsKeepTheirType == CostumeSpec => [](TypeOK /\ CostumeTypeOK)
<1>1. VerbsInv => TypeOK
  <2>1. ASSUME NEW q \in Plans, NEW i \in 1..Len(q) PROVE q[i] \in Functions
    BY <2>1 DEF Plans, Functions
  <2>2. body \in Bodies => body.funcs \in Plans
    BY DEF Bodies
  <2> QED BY <2>1, <2>2 DEF VerbsInv, WorldTyped, AccountOK, TypeOK
<1>2. CostumeInv => CostumeTypeOK
  BY DEF CostumeInv, CostumeTypeOK, Wardrobe
<1> QED BY <1>1, <1>2, CostumeSpecInv, PTL

=============================================================================
