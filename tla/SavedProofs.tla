----------------------------- MODULE SavedProofs -----------------------------
(***************************************************************************)
(* Proofs about Slots and SavedGames, for any actors, objects and rooms,   *)
(* any number of slots, any size of the window, any number of restarts and *)
(* of doings of scripts: the keys lead to every slot, the window shows     *)
(* what an actor holds, and a load puts back what was saved.               *)
(***************************************************************************)
EXTENDS SavedGames, SequenceTheorems, WellFoundedInduction, TLAPS

-----------------------------------------------------------------------------
(* The invariants                                                          *)

(* Nothing was taken from an actor: the offset is that of something.       *)
WindowOK ==
  \A a \in Actors : a \in taken \/ offset[a] = 0 \/ offset[a] * Row < Len(inventory[a])

(* The parts of a load, from one on; "exit" and "enter" are gone through   *)
(* once or twice.                                                          *)
PastSelected == {"selected", "exit", "enter", "room", "objects", "postLoad"}
PastSlots    == {"rooms"} \cup PastSelected
PastActors   == {"slot", "inventory"} \cup PastSlots
PastScene    == {"actors"} \cup PastActors

CallsScripts ==
  {"preLoad", "actors", "inventory", "rooms", "selected", "exit", "enter", "postLoad"}

(* What a part has at hand. The room to enter after that of the actor, at  *)
(* the last change of room, is the room that was saved.                    *)
LoadOK ==
  /\ load.part = "none" => load = NoLoad /\ disturbed = {}
  /\ load.script => load.part \in CallsScripts
  /\ load.part \in {"slot", "inventory"} => load.slot # 0
  /\ load.part = "inventory" => load.slot \in 1..NSlots /\ load.actor \in taken /\ load.actor \in Actors
  /\ load.part = "exit" => load.to \in Rooms \cup {StartScreen}
  /\ load.part \in {"exit", "enter"} => load.next \in {"room", "objects"}
  /\ load.part = "exit" /\ load.next = "objects" => load.to = load.game.room

AsLoaded(o) == LoadObject(o, SaveObject(load.game.objects[o]))

PseudoRestored ==
  load.part \in PastSlots =>
    \A o \in PseudoObjects : Untouched(<<"object", o>>, AfterRooms) => objects[o] = AsLoaded(o)

ObjectsRestored ==
  load.part = "postLoad" =>
    \A o \in Objects \ PseudoObjects :
      Untouched(<<"object", o>>, {"postLoad"}) => objects[o] = AsLoaded(o)

ActorsRestored ==
  load.part \in PastScene =>
    \A a \in Actors : Untouched(<<"actor", a>>, AfterActors) =>
      \/ load.part = "actors" /\ a \in load.actors
      \/ actorRoom[a] = IF load.game.actorRoom[a] = None THEN Void ELSE load.game.actorRoom[a]

CurrentRestored ==
  load.part \in PastSelected /\ Untouched(<<"current">>, AfterSelecting) =>
    pCurrentActor = load.game.actor

RoomRestored ==
  /\ load.part \in {"objects", "postLoad"} \/ (load.part = "enter" /\ load.next = "objects")
  /\ Untouched(<<"room">>, AfterTheRoom)
  => pRoom = load.game.room

SceneRestored == load.part \in PastScene => SceneIsAsSaved

(* Nobody has changed slots or inventories behind the load.                *)
SameSlots ==
  /\ Untouched(<<"slots">>, AfterActors)
  /\ \A i \in 1..NSlots : slots[i].actor = load.game.slots[i].actor

SameThings == \A b \in Actors : Untouched(<<"inventory", b>>, AfterInventory)

SlotsDone ==
  {i \in 1..NSlots : \/ load.part \in PastSlots
                     \/ load.part \in {"slot", "inventory"} /\ i < load.slot}

Owned(a) ==
  \A o \in Objects : Holds(a, o) =>
    \/ owner[o] # None /\ Holds(owner[o], o)
    \/ owner[o] = None /\ o \in load.orphans

(* The actors of the slots that are done have what was saved of them; what *)
(* is left to pick up makes the inventory of the one under way complete.   *)
ThingsRestored ==
  load.part \in PastActors /\ SameSlots /\ SameThings =>
    /\ \A i \in SlotsDone : slots[i].actor # None =>
         \/ load.part = "inventory" /\ slots[i].actor = load.actor
         \/ /\ inventory[slots[i].actor] = Found(load.game.inventory[slots[i].actor])
            /\ offset[slots[i].actor] = load.game.offset[slots[i].actor]
            /\ Owned(slots[i].actor)
    /\ load.part = "inventory" =>
         /\ load.actor = slots[load.slot].actor
         /\ load.scroll = load.game.offset[load.actor]
         /\ inventory[load.actor] \o load.todo = Found(load.game.inventory[load.actor])
         /\ Owned(load.actor)

Restored ==
  /\ PseudoRestored /\ ObjectsRestored /\ ActorsRestored /\ CurrentRestored /\ RoomRestored
  /\ SceneRestored /\ ThingsRestored

(* The inductive invariant.                                                *)
SavedInv == TypeOK /\ WindowOK /\ LoadOK /\ Restored

-----------------------------------------------------------------------------
(* Recursive functions                                                     *)

LEMMA Least ==
  ASSUME NEW S \in SUBSET Nat, S # {}
  PROVE  \E n \in S : \A k \in S : n <= k
<1>1. PICK n \in S : \A k \in S : ~(<<k, n>> \in OpToRel(<, Nat))
  BY NatLessThanWellFounded, WFMin, Zenon
<1>2. ASSUME NEW k \in S, k < n
      PROVE  <<k, n>> \in OpToRel(<, Nat)
  <2> DEFINE p == <<k, n>>
  <2>1. p \in Nat \X Nat /\ p[1] = k /\ p[2] = n
    OBVIOUS
  <2> HIDE DEF p
  <2>2. p \in {q \in Nat \X Nat : q[1] < q[2]}
    BY <1>2, <2>1
  <2> QED
    BY <2>2 DEF p, OpToRel
<1>3. \A k \in S : ~(k < n)
  BY <1>1, <1>2, Zenon
<1> QED
  BY <1>3

(* A function on 0..N that begins with a and whose value at n is that of   *)
(* g[n] at the value before.                                               *)
Iterates(f, a, g, N) ==
  f[0] = a /\ \A n \in 1..N : f[n] = g[n][f[n - 1]]

LEMMA IterationExists ==
  ASSUME NEW S, NEW a \in S, NEW N \in Nat, NEW g \in [1..N -> [S -> S]]
  PROVE  \E f \in [0..N -> S] : Iterates(f, a, g, N)
<1> DEFINE Bad == {n \in 0..N : ~\E f \in [0..n -> S] : Iterates(f, a, g, n)}
<1> SUFFICES ASSUME Bad # {} PROVE FALSE
  OBVIOUS
<1>1. PICK n \in Bad : \A k \in Bad : n <= k
  <2>1. Bad \in SUBSET Nat
    OBVIOUS
  <2> HIDE DEF Bad
  <2> QED BY <2>1, Least
<1>2. n # 0
  <2>1. [k \in 0..0 |-> a] \in [0..0 -> S] /\ Iterates([k \in 0..0 |-> a], a, g, 0)
    BY DEF Iterates
  <2> QED BY <2>1
<1>3. n - 1 \in 0..N /\ n - 1 \notin Bad /\ n \in 1..N
  BY <1>1, <1>2
<1>4. PICK f \in [0..(n - 1) -> S] : Iterates(f, a, g, n - 1)
  BY <1>3
<1> DEFINE h == [k \in 0..n |-> IF k = n THEN g[n][f[n - 1]] ELSE f[k]]
<1>5. h \in [0..n -> S]
  BY <1>3
<1>6. Iterates(h, a, g, n)
  BY <1>3, <1>4 DEF Iterates
<1> QED BY <1>5, <1>6

(* Kept is a list of what it is taken from, and of no more than is kept.   *)
LEMMA KeptIsSeq ==
  ASSUME NEW S, NEW s \in Seq(S), NEW T
  PROVE  Kept(s, T) \in Seq(S \cap T)
<1> DEFINE N == Len(s)
           g == [n \in 1..N |-> [x \in Seq(S \cap T) |-> IF s[n] \in T THEN Append(x, s[n]) ELSE x]]
           Body(f) == [n \in 0..N |-> IF n = 0 THEN <<>>
                                      ELSE IF s[n] \in T THEN Append(f[n - 1], s[n])
                                           ELSE f[n - 1]]
           k == CHOOSE f : f = Body(f)
<1>1. N \in Nat /\ \A n \in 1..N : s[n] \in S
  OBVIOUS
<1>2. <<>> \in Seq(S \cap T)
  OBVIOUS
<1>3. \A n \in 1..N : \A x \in Seq(S \cap T) : (IF s[n] \in T THEN Append(x, s[n]) ELSE x) \in Seq(S \cap T)
  BY <1>1, AppendProperties
<1>4. g \in [1..N -> [Seq(S \cap T) -> Seq(S \cap T)]]
  BY <1>3
<1>5. \A n \in 1..N : \A x \in Seq(S \cap T) : g[n][x] = IF s[n] \in T THEN Append(x, s[n]) ELSE x
  OBVIOUS
<1> HIDE DEF g
<1>6. PICK f \in [0..N -> Seq(S \cap T)] : Iterates(f, <<>>, g, N)
  BY <1>1, <1>2, <1>4, IterationExists
<1>7. f = Body(f)
  <2>1. f[0] = <<>>
    BY <1>6 DEF Iterates
  <2>2. \A n \in 1..N : f[n] = IF s[n] \in T THEN Append(f[n - 1], s[n]) ELSE f[n - 1]
    <3> SUFFICES ASSUME NEW n \in 1..N
                 PROVE  f[n] = IF s[n] \in T THEN Append(f[n - 1], s[n]) ELSE f[n - 1]
      OBVIOUS
    <3>1. n - 1 \in 0..N
      BY <1>1
    <3>2. f[n - 1] \in Seq(S \cap T) /\ f[n] = g[n][f[n - 1]]
      BY <1>6, <3>1 DEF Iterates
    <3> QED BY <1>5, <3>2
  <2>3. \A n \in 0..N : f[n] = Body(f)[n]
    <3>1. \A n \in 0..N : n = 0 \/ n \in 1..N
      BY <1>1
    <3>2. \A n \in 0..N : f[n] = IF n = 0 THEN <<>>
                                ELSE IF s[n] \in T THEN Append(f[n - 1], s[n]) ELSE f[n - 1]
      <4> HIDE DEF N
      <4> QED BY <2>1, <2>2, <3>1
    <3> QED BY <3>2
  <2>4. f = [n \in 0..N |-> f[n]]
    BY <1>6
  <2>5. DOMAIN Body(f) = 0..N /\ Body(f) = [n \in 0..N |-> Body(f)[n]]
    OBVIOUS
  <2> HIDE DEF Body
  <2> QED BY <2>3, <2>4, <2>5
<1>8. k = Body(k)
  BY <1>7
<1>9. Kept(s, T) = k[N]
  BY DEF Kept
<1> HIDE DEF k
<1>10. k[0] = <<>> /\ \A n \in 1..N : k[n] = IF s[n] \in T THEN Append(k[n - 1], s[n]) ELSE k[n - 1]
  <2>1. \A n \in 0..N : Body(k)[n] = IF n = 0 THEN <<>>
                                    ELSE IF s[n] \in T THEN Append(k[n - 1], s[n])
                                         ELSE k[n - 1]
    OBVIOUS
  <2> HIDE DEF Body
  <2>2. \A n \in 0..N : k[n] = IF n = 0 THEN <<>>
                              ELSE IF s[n] \in T THEN Append(k[n - 1], s[n]) ELSE k[n - 1]
    BY <1>8, <2>1
  <2>3. \A n \in 1..N : n \in 0..N /\ n # 0
    BY <1>1
  <2>4. 0 \in 0..N
    BY <1>1
  <2>5. k[0] = <<>>
    BY <2>2, <2>4
  <2>6. ASSUME NEW n \in 1..N
        PROVE  k[n] = IF s[n] \in T THEN Append(k[n - 1], s[n]) ELSE k[n - 1]
    BY <2>2, <2>3
  <2> HIDE DEF N
  <2> QED BY <2>5, <2>6
<1> DEFINE Bad == {n \in 0..N : k[n] \notin Seq(S \cap T)}
<1>11. Bad = {}
  <2> SUFFICES ASSUME Bad # {} PROVE FALSE
    OBVIOUS
  <2>1. PICK n \in Bad : \A m \in Bad : n <= m
    <3>1. Bad \in SUBSET Nat
      OBVIOUS
    <3> HIDE DEF Bad
    <3> QED BY <3>1, Least
  <2>2. n # 0
    BY <1>2, <1>10
  <2>3. n - 1 \in 0..N /\ n - 1 \notin Bad /\ n \in 1..N
    BY <1>1, <2>1, <2>2
  <2>4. k[n - 1] \in Seq(S \cap T)
    BY <2>3
  <2>5. k[n] = IF s[n] \in T THEN Append(k[n - 1], s[n]) ELSE k[n - 1]
    BY <1>10, <2>3
  <2>6. k[n] \in Seq(S \cap T)
    BY <1>3, <2>3, <2>4, <2>5
  <2> QED BY <2>6
<1> QED BY <1>1, <1>9, <1>11

-----------------------------------------------------------------------------
(* The keys                                                                *)

LEMMA MinIs ==
  ASSUME NEW S \in SUBSET Nat, S # {}
  PROVE  Min(S) \in S /\ \A k \in S : Min(S) <= k
<1>1. \E n \in S : \A k \in S : n <= k
  BY Least
<1> QED BY <1>1 DEF Min

LEMMA IndexFound ==
  ASSUME NEW a
  PROVE  /\ IndexOf(a) \in 0..NSlots
         /\ IndexOf(a) # 0 => slots[IndexOf(a)].actor = a
         /\ \A i \in 1..NSlots : slots[i].actor = a => IndexOf(a) \in 1..i
<1> DEFINE its == {i \in 1..NSlots : slots[i].actor = a}
<1>1. NSlots \in Nat /\ its \in SUBSET Nat
  BY SlotsAssumption
<1>2. CASE its = {}
  <2>1. IndexOf(a) = 0
    BY <1>2 DEF IndexOf
  <2> QED BY <1>1, <1>2, <2>1
<1>3. CASE its # {}
  <2>1. IndexOf(a) = Min(its)
    BY <1>3 DEF IndexOf
  <2>2. IndexOf(a) \in its /\ \A i \in its : IndexOf(a) <= i
    <3> HIDE DEF its
    <3> QED BY <1>1, <1>3, <2>1, MinIs
  <2> QED BY <1>1, <2>2
<1> QED BY <1>2, <1>3

LEMMA Descends ==
  ASSUME NEW N \in Nat, NEW w \in [0..N -> 0..N],
         \A n \in 1..N : w[n - 1] # 0 => w[n] < w[n - 1]
  PROVE  \E n \in 0..N : w[n] = 0
<1> SUFFICES ASSUME \A n \in 0..N : w[n] # 0 PROVE FALSE
  OBVIOUS
<1> DEFINE Slow == {n \in 0..N : w[n] > N - n}
<1>1. ASSUME Slow # {} PROVE FALSE
  <2>1. PICK n \in Slow : \A m \in Slow : n <= m
    <3>1. Slow \in SUBSET Nat
      OBVIOUS
    <3> HIDE DEF Slow
    <3> QED BY <1>1, <3>1, Least
  <2>2. n \in 0..N /\ w[n] > N - n
    BY <2>1
  <2>3. w[0] \in 0..N
    OBVIOUS
  <2>4. n # 0
    BY <2>2, <2>3
  <2>5. n - 1 \in 0..N /\ n \in 1..N
    BY <2>2, <2>4
  <2>6. n - 1 \notin Slow
    BY <2>1, <2>2, <2>5
  <2>7. w[n - 1] <= N - (n - 1)
    BY <2>5, <2>6
  <2>8. w[n] < w[n - 1]
    BY <2>5
  <2> QED BY <2>2, <2>5, <2>7, <2>8
<1>2. N \in 0..N
  OBVIOUS
<1>3. w[N] <= N - N
  <2>1. ~(w[N] > N - N)
    BY <1>1, <1>2
  <2>2. w[N] \in 0..N
    BY <1>2
  <2> QED BY <2>1, <2>2
<1>4. w[N] \in 0..N /\ w[N] # 0
  BY <1>2
<1> QED BY <1>3, <1>4

(* As many presses as there are slots lead to i, if each leads nearer to i. *)
LEMMA PressesLead ==
  ASSUME NEW step \in [1..NSlots -> 1..NSlots], IndexOf(pCurrentActor) \in 1..NSlots,
         NEW far \in [1..NSlots -> 0..NSlots],
         \A c \in 1..NSlots : far[c] # 0 => far[step[c]] < far[c]
  PROVE  \E n \in 0..NSlots : After(step, n) \in 1..NSlots /\ far[After(step, n)] = 0
<1> DEFINE N == NSlots
           first == IndexOf(pCurrentActor)
           g == [n \in 1..N |-> step]
<1>1. N \in Nat
  BY SlotsAssumption
<1>2. g \in [1..N -> [1..N -> 1..N]] /\ \A n \in 1..N : g[n] = step
  OBVIOUS
<1> HIDE DEF g, first
<1>3. PICK f \in [0..N -> 1..N] : Iterates(f, first, g, N)
  <2>1. first \in 1..N
    BY DEF first
  <2> QED BY <1>1, <1>2, <2>1, IterationExists
<1>4. f[0] = first /\ \A n \in 1..N : f[n] = step[f[n - 1]]
  BY <1>2, <1>3 DEF Iterates
<1>5. ASSUME NEW n \in 0..N
      PROVE  After(step, n) = f[n]
  <2> DEFINE Body(h) == [k \in 0..n |-> IF k = 0 THEN first ELSE step[h[k - 1]]]
             slot == CHOOSE h : h = Body(h)
             r == [k \in 0..n |-> f[k]]
  <2>1. r = Body(r)
    <3>1. \A k \in 0..n : r[k] = IF k = 0 THEN first ELSE step[r[k - 1]]
      <4> SUFFICES ASSUME NEW k \in 0..n
                   PROVE  r[k] = IF k = 0 THEN first ELSE step[r[k - 1]]
        OBVIOUS
      <4>1. CASE k = 0
        BY <1>1, <1>4, <4>1
      <4>2. CASE k # 0
        <5>1. k \in 1..N /\ k - 1 \in 0..n
          BY <1>1, <4>2
        <5> QED BY <1>4, <4>2, <5>1
      <4> QED BY <4>1, <4>2
    <3>2. \A k \in 0..n : r[k] = Body(r)[k]
      BY <3>1
    <3> QED BY <3>2
  <2>2. slot = Body(slot)
    BY <2>1
  <2>3. After(step, n) = slot[n]
    BY DEF After, first
  <2> HIDE DEF slot
  <2>4. \A k \in 0..n : slot[k] = Body(slot)[k]
    BY <2>2
  <2>5. \A k \in 0..n : slot[k] = IF k = 0 THEN first ELSE step[slot[k - 1]]
    BY <2>4
  <2> DEFINE Bad == {k \in 0..n : slot[k] # f[k]}
  <2>6. ASSUME Bad # {} PROVE FALSE
    <3>1. PICK k \in Bad : \A m \in Bad : k <= m
      <4>1. Bad \in SUBSET Nat
        OBVIOUS
      <4> HIDE DEF Bad
      <4> QED BY <2>6, <4>1, Least
    <3>2. k # 0
      BY <1>4, <2>5
    <3>3. k - 1 \in 0..n /\ k - 1 \notin Bad /\ k \in 1..N /\ k \in 0..n
      BY <1>1, <3>1, <3>2
    <3>4. slot[k - 1] = f[k - 1] /\ slot[k] = step[slot[k - 1]]
      BY <2>5, <3>2, <3>3
    <3>5. slot[k] = f[k]
      BY <1>4, <3>3, <3>4
    <3> QED BY <3>5
  <2>7. n \in 0..n
    BY <1>1
  <2>8. slot[n] = f[n]
    BY <2>6, <2>7
  <2> QED BY <2>3, <2>8
<1> DEFINE w == [n \in 0..N |-> far[f[n]]]
<1>6. w \in [0..N -> 0..N]
  OBVIOUS
<1>7. \A n \in 1..N : w[n - 1] # 0 => w[n] < w[n - 1]
  <2> SUFFICES ASSUME NEW n \in 1..N, w[n - 1] # 0 PROVE w[n] < w[n - 1]
    OBVIOUS
  <2>1. n \in 0..N /\ n - 1 \in 0..N
    BY <1>1
  <2>2. f[n] = step[f[n - 1]] /\ f[n - 1] \in 1..N /\ far[f[n - 1]] # 0
    BY <1>4, <2>1
  <2> QED BY <2>1, <2>2
<1>8. \E n \in 0..N : w[n] = 0
  <2> HIDE DEF w, N
  <2> QED BY <1>1, <1>6, <1>7, Descends
<1> QED BY <1>5, <1>8

(* From slot c to slot i, round the end, and back, round all but the last. *)
Ahead(c, i)  == IF c <= i THEN i - c ELSE i - c + NSlots
Behind(c, i) == IF c >= i THEN c - i ELSE c - i + NSlots - 1

LEMMA NextIsNearer ==
  ASSUME NEW c \in 1..NSlots, NEW i \in 1..NSlots, slots[i].selectable
  PROVE  /\ NextIndex(c) \in 1..NSlots
         /\ c # i => slots[NextIndex(c)].selectable /\ Ahead(NextIndex(c), i) < Ahead(c, i)
<1> DEFINE at(k) == ((c - 1 + k) % NSlots) + 1
           steps == {k \in 1..(NSlots - 1) : slots[at(k)].selectable}
<1>1. NSlots \in Nat \ {0}
  BY SlotsAssumption
<1>2. \A k \in 1..(NSlots - 1) : at(k) = IF c + k <= NSlots THEN c + k ELSE c + k - NSlots
  BY <1>1
<1>3. NextIndex(c) = IF steps = {} THEN c ELSE at(Min(steps))
  BY DEF NextIndex
<1> HIDE DEF at
<1>4. c # i => Ahead(c, i) \in steps
  <2> SUFFICES ASSUME c # i PROVE Ahead(c, i) \in steps
    OBVIOUS
  <2>1. PICK k : k = Ahead(c, i)
    OBVIOUS
  <2>2. k \in 1..(NSlots - 1) /\ (IF c + k <= NSlots THEN c + k ELSE c + k - NSlots) = i
    BY <1>1, <2>1 DEF Ahead
  <2>3. at(k) = i
    BY <1>2, <2>2
  <2> QED BY <2>1, <2>2, <2>3
<1>5. steps \in SUBSET Nat
  BY <1>1
<1>6. steps # {} => Min(steps) \in steps /\ \A k \in steps : Min(steps) <= k
  <2> HIDE DEF steps
  <2> QED BY <1>5, MinIs
<1>7. CASE steps = {}
  BY <1>3, <1>4, <1>7
<1>8. CASE steps # {}
  <2>1. PICK k : k = Min(steps)
    OBVIOUS
  <2>2. /\ k \in 1..(NSlots - 1) /\ (c # i => k <= Ahead(c, i)) /\ NextIndex(c) = at(k)
        /\ slots[NextIndex(c)].selectable
    BY <1>3, <1>4, <1>6, <1>8, <2>1
  <2>3. NextIndex(c) = IF c + k <= NSlots THEN c + k ELSE c + k - NSlots
    BY <1>2, <2>2
  <2>4. NextIndex(c) \in 1..NSlots
    BY <1>1, <2>2, <2>3
  <2>5. c # i => Ahead(NextIndex(c), i) < Ahead(c, i)
    BY <1>1, <2>2, <2>3 DEF Ahead
  <2> QED BY <2>2, <2>4, <2>5
<1> QED BY <1>7, <1>8

LEMMA PreviousIsNearer ==
  ASSUME NEW c \in 1..NSlots, NEW i \in 1..(NSlots - 1), slots[i].selectable
  PROVE  /\ PreviousIndex(c) \in 1..NSlots
         /\ c # i => /\ slots[PreviousIndex(c)].selectable
                     /\ Behind(PreviousIndex(c), i) < Behind(c, i)
<1> DEFINE at(k) == IF k < c THEN c - k ELSE c - k + NSlots - 1
           steps == {k \in 1..(NSlots - 1) : at(k) = c \/ slots[at(k)].selectable}
<1>1. NSlots \in Nat \ {0}
  BY SlotsAssumption
<1>2. PreviousIndex(c) = IF steps = {} THEN c ELSE at(Min(steps))
  BY DEF PreviousIndex
<1>3. \A k \in 1..(NSlots - 1) : at(k) \in 1..NSlots
  BY <1>1
<1>4. \A k \in 1..(NSlots - 1) : c # i /\ k <= Behind(c, i) => Behind(at(k), i) < Behind(c, i)
  BY <1>1 DEF Behind
<1>5. c # i => Behind(c, i) \in steps
  <2> SUFFICES ASSUME c # i PROVE Behind(c, i) \in steps
    OBVIOUS
  <2>1. PICK k : k = Behind(c, i)
    OBVIOUS
  <2>2. k \in 1..(NSlots - 1) /\ at(k) = i
    BY <1>1, <2>1 DEF Behind
  <2> QED BY <2>1, <2>2
<1> HIDE DEF at
<1>6. steps \in SUBSET Nat
  BY <1>1
<1>7. steps # {} => Min(steps) \in steps /\ \A k \in steps : Min(steps) <= k
  <2> HIDE DEF steps
  <2> QED BY <1>6, MinIs
<1>8. CASE steps = {}
  BY <1>2, <1>5, <1>8
<1>9. CASE steps # {}
  <2>1. PICK k : k = Min(steps)
    OBVIOUS
  <2>2. /\ k \in 1..(NSlots - 1) /\ (c # i => k <= Behind(c, i)) /\ PreviousIndex(c) = at(k)
        /\ at(k) = c \/ slots[at(k)].selectable
    BY <1>2, <1>5, <1>7, <1>9, <2>1
  <2>3. at(k) \in 1..NSlots /\ (c # i => Behind(at(k), i) < Behind(c, i))
    BY <1>3, <1>4, <2>2
  <2>4. c # i => at(k) # c
    <3>1. Behind(c, i) \in Int
      BY <1>1 DEF Behind
    <3> QED BY <2>3, <3>1
  <2> QED BY <2>2, <2>3, <2>4
<1> QED BY <1>8, <1>9

(* An actor is found in his slot, if he has no other.                      *)
LEMMA FoundThere ==
  ASSUME NEW i \in 1..NSlots
  PROVE  /\ IndexOf(slots[i].actor) \in 1..NSlots
         /\ SlotsInOrder /\ slots[i].selectable => IndexOf(slots[i].actor) = i
<1> DEFINE j == IndexOf(slots[i].actor)
<1>1. NSlots \in Nat
  BY SlotsAssumption
<1>2. j \in 1..i /\ slots[j].actor = slots[i].actor
  BY IndexFound
<1> HIDE DEF j
<1>3. j \in 1..NSlots
  BY <1>1, <1>2
<1>4. SlotsInOrder /\ slots[i].selectable => j = i
  BY <1>2, <1>3 DEF SlotsInOrder
<1> QED BY <1>3, <1>4 DEF j

LEMMA KeysLead == KeysReachEveryone
<1> SUFFICES ASSUME SlotsInOrder, IndexOf(pCurrentActor) # 0, NEW i \in 1..NSlots, slots[i].selectable
             PROVE  /\ \E n \in 0..NSlots : After(NextSlots, n) = i
                    /\ i # NSlots => \E n \in 0..NSlots : After(PreviousSlots, n) = i
  BY DEF KeysReachEveryone
<1>1. NSlots \in Nat \ {0} /\ IndexOf(pCurrentActor) \in 1..NSlots
  BY SlotsAssumption, IndexFound
<1>2. \E n \in 0..NSlots : After(NextSlots, n) = i
  <2> DEFINE far == [c \in 1..NSlots |-> Ahead(c, i)]
  <2>1. NextSlots \in [1..NSlots -> 1..NSlots]
    BY NextIsNearer, FoundThere DEF NextSlots
  <2>2. \A c \in 1..NSlots : Ahead(c, i) \in 0..NSlots /\ (Ahead(c, i) = 0 <=> c = i)
    BY <1>1 DEF Ahead
  <2>3. far \in [1..NSlots -> 0..NSlots]
    BY <2>2
  <2>4. \A c \in 1..NSlots : far[c] # 0 => far[NextSlots[c]] < far[c]
    <3> SUFFICES ASSUME NEW c \in 1..NSlots, far[c] # 0 PROVE far[NextSlots[c]] < far[c]
      OBVIOUS
    <3>1. c # i /\ NextIndex(c) \in 1..NSlots /\ slots[NextIndex(c)].selectable
      BY <2>2, NextIsNearer
    <3>2. NextSlots[c] = NextIndex(c)
      BY <3>1, FoundThere DEF NextSlots
    <3> QED BY <3>1, <3>2, NextIsNearer
  <2>5. \A c \in 1..NSlots : far[c] = 0 => c = i
    BY <2>2
  <2> HIDE DEF far
  <2>6. PICK n \in 0..NSlots : After(NextSlots, n) \in 1..NSlots /\ far[After(NextSlots, n)] = 0
    BY <1>1, <2>1, <2>3, <2>4, PressesLead
  <2> QED BY <2>5, <2>6
<1>3. ASSUME i # NSlots PROVE \E n \in 0..NSlots : After(PreviousSlots, n) = i
  <2> DEFINE far == [c \in 1..NSlots |-> Behind(c, i)]
  <2>1. i \in 1..(NSlots - 1)
    BY <1>1, <1>3
  <2>2. PreviousSlots \in [1..NSlots -> 1..NSlots]
    BY <2>1, PreviousIsNearer, FoundThere DEF PreviousSlots
  <2>3. \A c \in 1..NSlots : Behind(c, i) \in 0..NSlots /\ (Behind(c, i) = 0 <=> c = i)
    BY <1>1, <2>1 DEF Behind
  <2>4. far \in [1..NSlots -> 0..NSlots]
    BY <2>3
  <2>5. \A c \in 1..NSlots : far[c] # 0 => far[PreviousSlots[c]] < far[c]
    <3> SUFFICES ASSUME NEW c \in 1..NSlots, far[c] # 0 PROVE far[PreviousSlots[c]] < far[c]
      OBVIOUS
    <3>1. c # i /\ PreviousIndex(c) \in 1..NSlots /\ slots[PreviousIndex(c)].selectable
      BY <2>1, <2>3, PreviousIsNearer
    <3>2. PreviousSlots[c] = PreviousIndex(c)
      BY <3>1, FoundThere DEF PreviousSlots
    <3> QED BY <2>1, <3>1, <3>2, PreviousIsNearer
  <2>6. \A c \in 1..NSlots : far[c] = 0 => c = i
    BY <2>3
  <2> HIDE DEF far
  <2>7. PICK n \in 0..NSlots :
          After(PreviousSlots, n) \in 1..NSlots /\ far[After(PreviousSlots, n)] = 0
    BY <1>1, <2>2, <2>4, <2>5, PressesLead
  <2> QED BY <2>6, <2>7
<1> QED BY <1>2, <1>3

LEMMA NextRange == ASSUME NEW c \in 1..NSlots PROVE NextIndex(c) \in 1..NSlots
<1> DEFINE at(k) == ((c - 1 + k) % NSlots) + 1
           steps == {k \in 1..(NSlots - 1) : slots[at(k)].selectable}
<1>1. NSlots \in Nat \ {0}
  BY SlotsAssumption
<1>2. \A k \in 1..(NSlots - 1) : at(k) \in 1..NSlots
  BY <1>1
<1>3. NextIndex(c) = IF steps = {} THEN c ELSE at(Min(steps))
  BY DEF NextIndex
<1> HIDE DEF at
<1>4. steps \in SUBSET Nat /\ \A k \in steps : k \in 1..(NSlots - 1)
  BY <1>1
<1> HIDE DEF steps
<1> QED BY <1>2, <1>3, <1>4, MinIs

LEMMA PreviousRange == ASSUME NEW c \in 1..NSlots PROVE PreviousIndex(c) \in 1..NSlots
<1> DEFINE at(k) == IF k < c THEN c - k ELSE c - k + NSlots - 1
           steps == {k \in 1..(NSlots - 1) : at(k) = c \/ slots[at(k)].selectable}
<1>1. NSlots \in Nat \ {0}
  BY SlotsAssumption
<1>2. \A k \in 1..(NSlots - 1) : at(k) \in 1..NSlots
  BY <1>1
<1>3. PreviousIndex(c) = IF steps = {} THEN c ELSE at(Min(steps))
  BY DEF PreviousIndex
<1> HIDE DEF at
<1>4. steps \in SUBSET Nat /\ \A k \in steps : k \in 1..(NSlots - 1)
  BY <1>1
<1> HIDE DEF steps
<1> QED BY <1>2, <1>3, <1>4, MinIs

-----------------------------------------------------------------------------
(* The player, and scripts that give slots and things                      *)

LEMMA KeptOf ==
  ASSUME NEW s \in Seq(Objects), NEW T
  PROVE  /\ Kept(s, T) \in Seq(Objects)
         /\ \A i \in 1..Len(Kept(s, T)) : Kept(s, T)[i] \in T
<1>1. PICK q : q = Kept(s, T)
  OBVIOUS
<1>2. q \in Seq(Objects \cap T)
  BY <1>1, KeptIsSeq
<1>3. Len(q) \in Nat /\ q \in [1..Len(q) -> Objects \cap T]
  BY <1>2, LenProperties
<1>4. q \in [1..Len(q) -> Objects] /\ \A i \in 1..Len(q) : q[i] \in T
  BY <1>3
<1>5. q \in Seq(Objects)
  BY <1>3, <1>4, SeqDef
<1> QED BY <1>1, <1>4, <1>5

LEMMA LessOf ==
  ASSUME NEW s \in Seq(Objects), NEW o
  PROVE  /\ WithoutObject(s, o) \in Seq(Objects)
         /\ \A i \in 1..Len(WithoutObject(s, o)) : WithoutObject(s, o)[i] # o
BY KeptOf DEF WithoutObject

LEMMA MoreOf ==
  ASSUME NEW s \in Seq(Objects), NEW o \in Objects
  PROVE  /\ Append(s, o) \in Seq(Objects) /\ Len(Append(s, o)) = Len(s) + 1 /\ Len(s) \in Nat
         /\ Append(s, o)[Len(s) + 1] = o
         /\ \A i \in 1..Len(s) : Append(s, o)[i] = s[i]
BY AppendProperties, LenProperties

(* A longer list keeps the window where it is.                             *)
LEMMA WindowLonger ==
  ASSUME SlotsTypeOK, SlotsTypeOK', WindowOK, NEW a \in Actors,
         taken \subseteq taken', offset'[a] = offset[a],
         a \in taken' \/ Len(inventory'[a]) >= Len(inventory[a])
  PROVE  a \in taken' \/ offset'[a] = 0 \/ offset'[a] * Row < Len(inventory'[a])
<1>1. inventory[a] \in Seq(Objects) /\ inventory'[a] \in Seq(Objects) /\ offset[a] \in Nat
  BY DEF SlotsTypeOK
<1>2. Len(inventory[a]) \in Nat /\ Len(inventory'[a]) \in Nat /\ offset[a] * Row \in Nat
  BY <1>1, SlotsAssumption, LenProperties
<1>3. a \in taken \/ offset[a] = 0 \/ offset[a] * Row < Len(inventory[a])
  BY DEF WindowOK
<1>4. PICK x : x = offset[a] * Row
  OBVIOUS
<1> QED BY <1>1, <1>2, <1>3, <1>4

LEMMA MayStep == ASSUME SlotsTypeOK, May PROVE doings' \in 0..MaxDoings
BY SlotsAssumption DEF SlotsTypeOK, May

LEMMA SelectsStep ==
  ASSUME SlotsTypeOK, WindowOK, NEW a \in Actors \cup {None}, May, Selects(a)
  PROVE  SlotsTypeOK' /\ WindowOK'
<1>1. doings' \in 0..MaxDoings
  BY MayStep
<1>2. IndexOf(a) \in 0..NSlots
  BY IndexFound
<1>3. pRoom' \in Rooms \cup {StartScreen}
  BY SlotsAssumption DEF Selects, SetCurrentActor, RoomOf, Stays, SlotsTypeOK
<1>4. SlotsTypeOK'
  BY <1>1, <1>2, <1>3 DEF Selects, SetCurrentActor, BecomesCurrent, SlotsTypeOK, things
<1>5. WindowOK'
  BY DEF Selects, things, WindowOK
<1> QED BY <1>4, <1>5

LEMMA ScrollStep ==
  ASSUME SlotsTypeOK, WindowOK, NEW a \in Actors, Scroll(a)
  PROVE  SlotsTypeOK' /\ WindowOK'
<1>1. doings' \in 0..MaxDoings
  BY MayStep DEF Scroll
<1>2. /\ inventory[a] \in Seq(Objects) /\ Len(inventory[a]) \in Nat /\ offset[a] \in Nat
      /\ Offset(a) \in Nat
  BY LenProperties DEF SlotsTypeOK, Offset
<1>3. PICK k : k = Offset(a)
  OBVIOUS
<1>4. PICK n : n = Len(inventory[a])
  OBVIOUS
<1>5. k * Row <= n
  <2>1. offset[a] * Row \in Nat /\ 0 * Row = 0
    BY <1>2, SlotsAssumption
  <2> QED BY <1>2, <1>3, <1>4, <2>1 DEF Offset
<1>6. PICK x \in Nat : offset' = [offset EXCEPT ![a] = x] /\ x * Row < n
  <2>1. CASE HasDownArrow(a) /\ offset' = [offset EXCEPT ![a] = Offset(a) + 1]
    <3>1. n > k * Row + Shown
      BY <1>3, <1>4, <2>1 DEF HasDownArrow
    <3>2. Row <= Shown /\ Row \in Nat /\ Shown \in Nat /\ k * Row \in Nat
      BY <1>2, <1>3, SlotsAssumption
    <3>3. (k + 1) * Row = k * Row + Row
      BY <1>2, <1>3, <3>2
    <3>4. (k + 1) * Row < n
      BY <1>2, <1>4, <3>1, <3>2, <3>3
    <3>5. offset' = [offset EXCEPT ![a] = k + 1] /\ k + 1 \in Nat
      BY <1>2, <1>3, <2>1
    <3> QED BY <3>4, <3>5
  <2>2. CASE HasUpArrow(a) /\ offset' = [offset EXCEPT ![a] = Offset(a) - 1]
    <3>1. k - 1 \in Nat
      BY <1>2, <1>3, <2>2 DEF HasUpArrow
    <3>2. Row >= 1 /\ Row \in Nat /\ k * Row \in Nat
      BY <1>2, <1>3, SlotsAssumption
    <3>3. (k - 1) * Row = k * Row - Row
      BY <1>2, <1>3, <3>2
    <3>4. (k - 1) * Row < n
      BY <1>2, <1>4, <1>5, <3>2, <3>3
    <3> QED BY <1>3, <2>2, <3>1, <3>4
  <2> QED BY <2>1, <2>2 DEF Scroll
<1>7. SlotsTypeOK'
  BY <1>1, <1>6 DEF Scroll, SlotsTypeOK, selection
<1>8. WindowOK'
  <2> SUFFICES ASSUME NEW b \in Actors
               PROVE  b \in taken' \/ offset'[b] = 0 \/ offset'[b] * Row < Len(inventory'[b])
    BY DEF WindowOK
  <2>1. CASE b = a
    <3>1. offset'[a] = x /\ inventory' = inventory
      BY <1>6 DEF SlotsTypeOK, Scroll
    <3> QED BY <1>4, <1>6, <2>1, <3>1
  <2>2. CASE b # a
    <3>1. offset'[b] = offset[b] /\ inventory' = inventory /\ (b \in taken' <=> b \in taken)
      BY <1>6, <2>2 DEF SlotsTypeOK, Scroll
    <3> QED BY <3>1 DEF WindowOK
  <2> QED BY <2>1, <2>2
<1> QED BY <1>7, <1>8

LEMMA PlayerStep ==
  ASSUME SlotsTypeOK, WindowOK, Player
  PROVE  SlotsTypeOK' /\ WindowOK'
<1>1. \A i \in 1..NSlots : slots[i].actor \in Actors \cup {None}
  BY DEF SlotsTypeOK, Slot
<1>2. CASE PressNext
  <2>1. NextIndex(IndexOf(pCurrentActor)) \in 1..NSlots
    <3>1. IndexOf(pCurrentActor) \in 1..NSlots
      BY <1>2, IndexFound, SlotsAssumption DEF PressNext, PressKeyTo
    <3> QED BY <3>1, NextRange
  <2> QED BY <1>1, <1>2, <2>1, SelectsStep DEF PressNext, PressKeyTo
<1>3. CASE PressPrevious
  <2>1. PreviousIndex(IndexOf(pCurrentActor)) \in 1..NSlots
    <3>1. IndexOf(pCurrentActor) \in 1..NSlots
      BY <1>3, IndexFound, SlotsAssumption DEF PressPrevious, PressKeyTo
    <3> QED BY <3>1, PreviousRange
  <2> QED BY <1>1, <1>3, <2>1, SelectsStep DEF PressPrevious, PressKeyTo
<1>4. ASSUME NEW i \in 1..NSlots, ClickIcon(i) \/ PressKeyOf(i)
      PROVE  SlotsTypeOK' /\ WindowOK'
  BY <1>1, <1>4, SelectsStep DEF ClickIcon, PressKeyOf
<1> QED BY <1>2, <1>3, <1>4, ScrollStep DEF Player

LEMMA PickupStep ==
  ASSUME SlotsTypeOK, WindowOK, NEW a \in Actors, NEW o \in Objects, PickupObject(a, o)
  PROVE  SlotsTypeOK' /\ WindowOK'
<1>1. doings' \in 0..MaxDoings
  BY MayStep DEF PickupObject
<1>2. inventory[a] \in Seq(Objects)
  BY DEF SlotsTypeOK
<1>3. PICK q : q = Append(inventory[a], o)
  OBVIOUS
<1>4. q \in Seq(Objects) /\ Len(q) = Len(inventory[a]) + 1 /\ Len(inventory[a]) \in Nat
  BY <1>2, <1>3, MoreOf
<1>5. inventory' = [inventory EXCEPT ![a] = q] /\ owner' = [owner EXCEPT ![o] = a]
  BY <1>3 DEF PickupObject
<1>6. SlotsTypeOK'
  BY <1>1, <1>4, <1>5 DEF PickupObject, SlotsTypeOK, selection
<1>7. \A b \in Actors : Len(inventory'[b]) >= Len(inventory[b])
  <2> SUFFICES ASSUME NEW b \in Actors PROVE Len(inventory'[b]) >= Len(inventory[b])
    OBVIOUS
  <2>1. inventory[b] \in Seq(Objects) /\ Len(inventory[b]) \in Nat
    BY LenProperties DEF SlotsTypeOK
  <2>2. inventory'[b] = IF b = a THEN q ELSE inventory[b]
    BY <1>5 DEF SlotsTypeOK
  <2> QED BY <1>4, <2>1, <2>2
<1>8. WindowOK'
  BY <1>6, <1>7, WindowLonger DEF PickupObject, WindowOK
<1> QED BY <1>6, <1>8

LEMMA GiveStep ==
  ASSUME SlotsTypeOK, WindowOK, NEW a \in Actors, NEW o \in Objects, NEW b \in Actors,
         GiveTo(a, o, b)
  PROVE  SlotsTypeOK' /\ WindowOK'
<1>1. doings' \in 0..MaxDoings
  BY MayStep DEF GiveTo
<1>2. inventory[a] \in Seq(Objects) /\ inventory[b] \in Seq(Objects) /\ a # b
  BY DEF SlotsTypeOK, GiveTo
<1>3. PICK q : q = Append(inventory[b], o)
  OBVIOUS
<1>4. PICK r : r = WithoutObject(inventory[a], o)
  OBVIOUS
<1>5. /\ q \in Seq(Objects) /\ Len(q) = Len(inventory[b]) + 1 /\ Len(inventory[b]) \in Nat
      /\ r \in Seq(Objects)
  BY <1>2, <1>3, <1>4, MoreOf, LessOf
<1>6. inventory' = [inventory EXCEPT ![a] = r, ![b] = q]
  BY <1>2, <1>3, <1>4 DEF GiveTo, SlotsTypeOK
<1>7. owner' = [owner EXCEPT ![o] = b] /\ taken' = taken \cup {a}
  BY DEF GiveTo
<1>8. SlotsTypeOK'
  <2>1. inventory' \in [Actors -> Seq(Objects)]
    BY <1>5, <1>6 DEF SlotsTypeOK
  <2>2. owner' \in [Objects -> Actors \cup {None}] /\ taken' \subseteq Actors
    BY <1>7 DEF SlotsTypeOK
  <2>3. UNCHANGED <<selection, actorRoom, offset, crashed>>
    BY DEF GiveTo
  <2> QED BY <1>1, <2>1, <2>2, <2>3 DEF SlotsTypeOK, selection
<1>9. \A c \in Actors : c \in taken' \/ Len(inventory'[c]) >= Len(inventory[c])
  <2> SUFFICES ASSUME NEW c \in Actors, c # a PROVE Len(inventory'[c]) >= Len(inventory[c])
    BY <1>7
  <2>1. inventory[c] \in Seq(Objects) /\ Len(inventory[c]) \in Nat
    BY LenProperties DEF SlotsTypeOK
  <2>2. inventory'[c] = IF c = b THEN q ELSE inventory[c]
    BY <1>6 DEF SlotsTypeOK
  <2> QED BY <1>5, <2>1, <2>2
<1>10. WindowOK'
  BY <1>7, <1>8, <1>9, WindowLonger DEF GiveTo, WindowOK
<1> QED BY <1>8, <1>10

LEMMA RemoveStep ==
  ASSUME SlotsTypeOK, WindowOK, NEW o \in Objects, RemoveInventory(o)
  PROVE  SlotsTypeOK' /\ WindowOK'
<1>1. doings' \in 0..MaxDoings
  BY MayStep DEF RemoveInventory
<1>2. PICK a : a = owner[o]
  OBVIOUS
<1>3. a \in Actors /\ inventory[a] \in Seq(Objects)
  BY <1>2 DEF SlotsTypeOK, RemoveInventory
<1>4. PICK r : r = WithoutObject(inventory[a], o)
  OBVIOUS
<1>5. r \in Seq(Objects)
  BY <1>3, <1>4, LessOf
<1>6. /\ inventory' = [inventory EXCEPT ![a] = r] /\ owner' = [owner EXCEPT ![o] = None]
      /\ taken' = taken \cup {a}
  BY <1>2, <1>4 DEF RemoveInventory
<1>7. SlotsTypeOK'
  <2>1. inventory' \in [Actors -> Seq(Objects)]
    BY <1>3, <1>5, <1>6 DEF SlotsTypeOK
  <2>2. owner' \in [Objects -> Actors \cup {None}] /\ taken' \subseteq Actors
    BY <1>3, <1>6 DEF SlotsTypeOK
  <2> QED BY <1>1, <2>1, <2>2 DEF RemoveInventory, SlotsTypeOK, selection
<1>8. \A c \in Actors : c \in taken' \/ Len(inventory'[c]) >= Len(inventory[c])
  <2> SUFFICES ASSUME NEW c \in Actors, c # a PROVE Len(inventory'[c]) >= Len(inventory[c])
    BY <1>6
  <2>1. inventory[c] \in Seq(Objects) /\ Len(inventory[c]) \in Nat
    BY LenProperties DEF SlotsTypeOK
  <2>2. inventory'[c] = inventory[c]
    BY <1>6 DEF SlotsTypeOK
  <2> QED BY <2>1, <2>2
<1>9. WindowOK'
  BY <1>6, <1>7, <1>8, WindowLonger DEF RemoveInventory, WindowOK
<1> QED BY <1>7, <1>9

LEMMA ClearStep ==
  ASSUME SlotsTypeOK, NEW a \in Actors, ClearInventory(a)
  PROVE  /\ inventory' \in [Actors -> Seq(Objects)] /\ owner' \in [Objects -> Actors \cup {None}]
         /\ taken' \subseteq Actors /\ a \in taken' /\ taken \subseteq taken'
         /\ inventory'[a] = <<>>
         /\ \A c \in Actors \ {a} : inventory'[c] = inventory[c]
<1>1. <<>> \in Seq(Objects)
  BY EmptySeq
<1>2. inventory' = [inventory EXCEPT ![a] = <<>>] /\ taken' = taken \cup {a}
  BY DEF ClearInventory
<1>3. owner' = [o \in Objects |-> IF Holds(a, o) THEN None ELSE owner[o]]
  BY DEF ClearInventory
<1>4. owner' \in [Objects -> Actors \cup {None}]
  BY <1>3 DEF SlotsTypeOK
<1>5. inventory \in [Actors -> Seq(Objects)] /\ taken \subseteq Actors
  BY DEF SlotsTypeOK
<1> QED BY <1>1, <1>2, <1>4, <1>5

LEMMA ClearWindow ==
  ASSUME SlotsTypeOK, SlotsTypeOK', WindowOK, NEW a \in Actors, ClearInventory(a),
         offset' = offset
  PROVE  WindowOK'
<1>1. \A c \in Actors : c \in taken' \/ Len(inventory'[c]) >= Len(inventory[c])
  <2> SUFFICES ASSUME NEW c \in Actors, c # a PROVE Len(inventory'[c]) >= Len(inventory[c])
    BY ClearStep
  <2>1. inventory[c] \in Seq(Objects) /\ Len(inventory[c]) \in Nat
    BY LenProperties DEF SlotsTypeOK
  <2>2. inventory'[c] = inventory[c]
    BY ClearStep
  <2> QED BY <2>1, <2>2
<1>2. taken \subseteq taken'
  BY ClearStep
<1> QED BY <1>1, <1>2, WindowLonger DEF WindowOK

LEMMA RemoveWholeStep ==
  ASSUME SlotsTypeOK, WindowOK, NEW a \in Actors, RemoveWholeInventory(a)
  PROVE  SlotsTypeOK' /\ WindowOK'
<1>1. doings' \in 0..MaxDoings
  BY MayStep DEF RemoveWholeInventory
<1>2. ClearInventory(a)
  BY DEF RemoveWholeInventory
<1>3. /\ inventory' \in [Actors -> Seq(Objects)] /\ owner' \in [Objects -> Actors \cup {None}]
      /\ taken' \subseteq Actors
  BY <1>2, ClearStep
<1>4. SlotsTypeOK'
  BY <1>1, <1>3 DEF RemoveWholeInventory, SlotsTypeOK, selection
<1>5. WindowOK'
  BY <1>2, <1>4, ClearWindow DEF RemoveWholeInventory
<1> QED BY <1>4, <1>5

(* A step that leaves things alone leaves the window.                      *)
LEMMA WindowSame ==
  ASSUME WindowOK, UNCHANGED <<inventory, offset, taken>>
  PROVE  WindowOK'
BY DEF WindowOK

LEMMA SlotScriptsStep ==
  ASSUME SlotsTypeOK, WindowOK, SlotScripts
  PROVE  SlotsTypeOK' /\ WindowOK'
<1>1. ASSUME NEW i \in 1..NSlots, NEW a \in Actors, AddSelectableActor(i, a)
      PROVE  SlotsTypeOK' /\ WindowOK'
  <2>1. doings' \in 0..MaxDoings
    BY <1>1, MayStep DEF AddSelectableActor
  <2>2. [actor |-> a, selectable |-> TRUE] \in Slot
    BY DEF Slot
  <2>3. slots' \in [1..NSlots -> Slot]
    BY <1>1, <2>2 DEF AddSelectableActor, SetsSlots, SlotsTypeOK
  <2> QED BY <1>1, <2>1, <2>3, WindowSame DEF AddSelectableActor, SetsSlots, SlotsTypeOK, things
<1>2. ASSUME NEW i \in 1..NSlots, NEW b \in BOOLEAN, ActorSlotSelectable(i, b)
      PROVE  SlotsTypeOK' /\ WindowOK'
  <2>1. doings' \in 0..MaxDoings
    BY <1>2, MayStep DEF ActorSlotSelectable
  <2>2. [slots[i] EXCEPT !.selectable = b] \in Slot
    <3>1. slots[i] \in Slot
      BY DEF SlotsTypeOK
    <3> QED BY <3>1 DEF Slot
  <2>3. slots' = [slots EXCEPT ![i] = [slots[i] EXCEPT !.selectable = b]]
    BY <1>2 DEF ActorSlotSelectable, SetsSlots
  <2>4. slots' \in [1..NSlots -> Slot]
    BY <2>2, <2>3 DEF SlotsTypeOK
  <2> QED BY <1>2, <2>1, <2>4, WindowSame DEF ActorSlotSelectable, SetsSlots, SlotsTypeOK, things
<1>3. ASSUME NEW flag \in {"on", "temporary"}, SetMode(flag)
      PROVE  SlotsTypeOK' /\ WindowOK'
  <2>1. doings' \in 0..MaxDoings
    BY <1>3, MayStep DEF SetMode
  <2> QED BY <1>3, <2>1, WindowSame DEF SetMode, SlotsTypeOK, things
<1>4. ASSUME NEW a \in Actors, SelectActor(a) PROVE SlotsTypeOK' /\ WindowOK'
  BY <1>4, SelectsStep DEF SelectActor
<1>5. ASSUME NEW a \in Actors, NEW r \in Rooms, ActorAt(a, r)
      PROVE  SlotsTypeOK' /\ WindowOK'
  <2>1. doings' \in 0..MaxDoings
    BY <1>5, MayStep DEF ActorAt
  <2> QED BY <1>5, <2>1, WindowSame DEF ActorAt, SlotsTypeOK, things, selection
<1>6. ASSUME NEW r \in Rooms, SetRoom(r) PROVE SlotsTypeOK' /\ WindowOK'
  <2>1. doings' \in 0..MaxDoings
    BY <1>6, MayStep DEF SetRoom
  <2> QED BY <1>6, <2>1, WindowSame DEF SetRoom, SlotsTypeOK, things
<1> QED
  BY <1>1, <1>2, <1>3, <1>4, <1>5, <1>6, RemoveWholeStep, PickupStep, GiveStep, RemoveStep
     DEF SlotScripts


-----------------------------------------------------------------------------
(* What scripts do to objects and globals                                  *)

LEMMA ObjectScriptsStep ==
  ASSUME TypeOK, WindowOK, ObjectScripts
  PROVE  /\ SlotsTypeOK' /\ WindowOK'
         /\ objects' \in [Objects -> Object] /\ globals' \in Globals
         /\ UNCHANGED <<selection, actorRoom, things>>
<1> DEFINE Goal == /\ SlotsTypeOK' /\ WindowOK'
                   /\ objects' \in [Objects -> Object] /\ globals' \in Globals
                   /\ UNCHANGED <<selection, actorRoom, things>>
<1>1. ASSUME NEW o \in Objects, NEW b \in Object, Becomes(o, b) PROVE Goal
  <2>1. doings' \in 0..MaxDoings
    BY <1>1, MayStep DEF Becomes, TypeOK
  <2>2. objects' \in [Objects -> Object]
    BY <1>1 DEF Becomes, TypeOK
  <2>3. UNCHANGED <<selection, actorRoom, things>> /\ globals' = globals /\ crashed' = crashed
    BY <1>1 DEF Becomes
  <2>4. SlotsTypeOK'
    BY <2>1, <2>3 DEF TypeOK, SlotsTypeOK, selection, things
  <2>5. WindowOK'
    BY <2>3, WindowSame DEF things
  <2> QED BY <2>2, <2>3, <2>4, <2>5 DEF TypeOK
<1>2. ASSUME NEW v \in Globals, SetGlobal(v) PROVE Goal
  <2>1. doings' \in 0..MaxDoings
    BY <1>2, MayStep DEF SetGlobal, TypeOK
  <2>3. UNCHANGED <<selection, actorRoom, things>> /\ objects' = objects /\ crashed' = crashed
    BY <1>2 DEF SetGlobal
  <2>4. SlotsTypeOK'
    BY <2>1, <2>3 DEF TypeOK, SlotsTypeOK, selection, things
  <2>5. WindowOK'
    BY <2>3, WindowSame DEF things
  <2> QED BY <1>2, <2>3, <2>4, <2>5 DEF TypeOK, SetGlobal
<1>3. \A o \in Objects : objects[o] \in Object
  BY DEF TypeOK
<1>4. ASSUME NEW o \in Objects, NEW s \in ObjectStates, ObjectState(o, s) PROVE Goal
  <2>1. [objects[o] EXCEPT !.state = s, !.visible = s # Gone] \in Object
    BY <1>3 DEF Object
  <2> QED BY <1>1, <1>4, <2>1 DEF ObjectState
<1>5. ASSUME NEW o \in Objects, NEW b \in BOOLEAN, ObjectTouchable(o, b) PROVE Goal
  <2>1. [objects[o] EXCEPT !.touchable = b] \in Object
    BY <1>3 DEF Object
  <2> QED BY <1>1, <1>5, <2>1 DEF ObjectTouchable
<1>6. ASSUME NEW o \in Objects, NEW b \in BOOLEAN, ObjectHidden(o, b) PROVE Goal
  <2>1. [objects[o] EXCEPT !.visible = ~b] \in Object
    BY <1>3 DEF Object
  <2> QED BY <1>1, <1>6, <2>1 DEF ObjectHidden
<1> QED BY <1>2, <1>4, <1>5, <1>6 DEF ObjectScripts

-----------------------------------------------------------------------------
(* What scripts do during a load                                           *)

LEMMA StillUntouched ==
  ASSUME Scripts, Loading, NEW thing, NEW parts, Untouched(thing, parts)'
  PROVE  /\ Untouched(thing, parts)
         /\ load.part \in parts => thing \notin Changed
<1>1. disturbed' = disturbed \cup ({load.part} \X Changed)
  BY DEF Scripts
<1>2. \A p \in parts : <<p, thing>> \notin disturbed'
  BY DEF Untouched
<1> QED BY <1>1, <1>2 DEF Untouched

LEMMA NotChanged ==
  /\ \A o \in Objects : <<"object", o>> \notin Changed => objects'[o] = objects[o]
  /\ \A a \in Actors : <<"actor", a>> \notin Changed => actorRoom'[a] = actorRoom[a]
  /\ \A a \in Actors : <<"inventory", a>> \notin Changed => inventory'[a] = inventory[a]
  /\ <<"globals">> \notin Changed => globals' = globals
  /\ <<"slots">> \notin Changed => slots' = slots
  /\ <<"mode">> \notin Changed => mode' = mode
  /\ <<"current">> \notin Changed => pCurrentActor' = pCurrentActor
  /\ <<"room">> \notin Changed => pRoom' = pRoom
BY DEF Changed

(* While nobody's inventory changes, only what its owner does not have can *)
(* lose its owner.                                                         *)
LEMMA OwnersKept ==
  ASSUME SlotsTypeOK, SlotScripts \/ UNCHANGED things,
         \A b \in Actors : inventory'[b] = inventory[b]
  PROVE  /\ offset' = offset
         /\ \A o \in Objects : \/ owner'[o] = owner[o]
                               \/ owner[o] \in Actors /\ ~Holds(owner[o], o)
<1> DEFINE Goal == /\ offset' = offset
                   /\ \A o \in Objects : \/ owner'[o] = owner[o]
                                         \/ owner[o] \in Actors /\ ~Holds(owner[o], o)
<1>1. \A a \in Actors : inventory[a] \in Seq(Objects)
  BY DEF SlotsTypeOK
<1>2. ASSUME UNCHANGED things PROVE Goal
  BY <1>2 DEF things
<1>3. ASSUME NEW a \in Actors, NEW o \in Objects, PickupObject(a, o) PROVE Goal
  <2>1. inventory'[a] = Append(inventory[a], o)
    BY <1>3 DEF PickupObject, SlotsTypeOK
  <2>2. Len(inventory'[a]) = Len(inventory[a]) + 1 /\ Len(inventory[a]) \in Nat
    BY <1>1, <2>1, MoreOf
  <2> QED BY <2>2
<1>4. ASSUME NEW a \in Actors, NEW o \in Objects, NEW b \in Actors, GiveTo(a, o, b) PROVE Goal
  <2>1. inventory'[b] = Append(inventory[b], o)
    BY <1>4 DEF GiveTo, SlotsTypeOK
  <2>2. Len(inventory'[b]) = Len(inventory[b]) + 1 /\ Len(inventory[b]) \in Nat
    BY <1>1, <2>1, MoreOf
  <2> QED BY <2>2
<1>5. ASSUME NEW o \in Objects, RemoveInventory(o) PROVE Goal
  <2>1. PICK a : a = owner[o]
    OBVIOUS
  <2>2. a \in Actors
    BY <1>5, <2>1 DEF RemoveInventory, SlotsTypeOK
  <2>3. inventory'[a] = WithoutObject(inventory[a], o)
    BY <1>5, <2>1, <2>2 DEF RemoveInventory, SlotsTypeOK
  <2>4. PICK s : s = inventory[a]
    OBVIOUS
  <2>5. s = WithoutObject(s, o) /\ s \in Seq(Objects)
    BY <1>1, <2>2, <2>3, <2>4
  <2>6. \A i \in 1..Len(s) : s[i] # o
    BY <2>5, LessOf
  <2>7. ~Holds(a, o)
    BY <2>4, <2>5, <2>6, LenProperties DEF Holds
  <2>8. \A x \in Objects : x # o => owner'[x] = owner[x]
    BY <1>5 DEF RemoveInventory, SlotsTypeOK
  <2>9. offset' = offset
    BY <1>5 DEF RemoveInventory
  <2> QED BY <2>1, <2>2, <2>7, <2>8, <2>9
<1>6. ASSUME NEW a \in Actors, RemoveWholeInventory(a) PROVE Goal
  <2>1. ClearInventory(a) /\ offset' = offset
    BY <1>6 DEF RemoveWholeInventory
  <2>2. inventory[a] = <<>>
    BY <2>1, ClearStep
  <2>3. \A o \in Objects : ~Holds(a, o)
    BY <2>2 DEF Holds
  <2> QED BY <2>1, <2>3 DEF ClearInventory, SlotsTypeOK
<1>7. ASSUME SlotScripts, ~UNCHANGED things PROVE Goal
  BY <1>3, <1>4, <1>5, <1>6, <1>7
     DEF SlotScripts, AddSelectableActor, ActorSlotSelectable, SetsSlots, SetMode, SelectActor,
         Selects, ActorAt, SetRoom
<1> QED BY <1>2, <1>7


LEMMA ScriptsStep ==
  ASSUME TypeOK, WindowOK, Scripts
  PROVE  TypeOK' /\ WindowOK'
<1>1. /\ SlotsTypeOK' /\ WindowOK' /\ objects' \in [Objects -> Object] /\ globals' \in Globals
  <2>1. CASE SlotScripts /\ UNCHANGED <<objects, globals>>
    BY <2>1, SlotScriptsStep DEF TypeOK
  <2>2. CASE ObjectScripts
    BY <2>2, ObjectScriptsStep
  <2> QED BY <2>1, <2>2 DEF Scripts
<1>2. UNCHANGED <<file, thumbnail, restarts, load>>
  BY DEF Scripts, saving
<1> QED BY <1>1, <1>2 DEF TypeOK, Loading

(* No script that a load calls takes back what has been put back before,   *)
(* without leaving a trace of it.                                          *)
LEMMA ScriptsRestored ==
  ASSUME SavedInv, Scripts, Loading
  PROVE  Restored'
<1>1. load' = load /\ load.part \in CallsScripts
  BY DEF Scripts, SavedInv, LoadOK, saving
<1>2. /\ load.part \in PastSlots => load.part \in AfterRooms
      /\ load.part \in PastSelected => load.part \in AfterSelecting
      /\ load.part \in PastActors => load.part \in AfterInventory
      /\ load.part \in PastScene => load.part \in AfterActors
  BY <1>1 DEF CallsScripts, PastScene, PastActors, PastSlots, PastSelected,
              AfterActors, AfterInventory, AfterRooms, AfterSelecting, AfterTheRoom
<1>3. load.part \in AfterInventory => load.part \in AfterActors
  BY DEF AfterActors
<1>4. PseudoRestored'
  <2> SUFFICES ASSUME load.part \in PastSlots, NEW o \in PseudoObjects,
                      Untouched(<<"object", o>>, AfterRooms)'
               PROVE  objects'[o] = AsLoaded(o)'
    BY <1>1 DEF PseudoRestored
  <2>1. Untouched(<<"object", o>>, AfterRooms) /\ <<"object", o>> \notin Changed
    BY <1>2, StillUntouched
  <2>2. objects'[o] = objects[o]
    BY <2>1, NotChanged, SavedGamesAssumption
  <2>3. objects[o] = AsLoaded(o)
    BY <2>1 DEF SavedInv, Restored, PseudoRestored
  <2> QED BY <1>1, <2>2, <2>3 DEF AsLoaded
<1>5. ObjectsRestored'
  <2> SUFFICES ASSUME load.part = "postLoad", NEW o \in Objects \ PseudoObjects,
                      Untouched(<<"object", o>>, {"postLoad"})'
               PROVE  objects'[o] = AsLoaded(o)'
    BY <1>1 DEF ObjectsRestored
  <2>1. Untouched(<<"object", o>>, {"postLoad"}) /\ <<"object", o>> \notin Changed
    BY StillUntouched
  <2>2. objects'[o] = objects[o]
    BY <2>1, NotChanged
  <2>3. objects[o] = AsLoaded(o)
    BY <2>1 DEF SavedInv, Restored, ObjectsRestored
  <2> QED BY <1>1, <2>2, <2>3 DEF AsLoaded
<1>6. ActorsRestored'
  <2> SUFFICES ASSUME load.part \in PastScene, NEW a \in Actors,
                      Untouched(<<"actor", a>>, AfterActors)'
               PROVE  \/ load.part = "actors" /\ a \in load.actors
                      \/ actorRoom'[a] = IF load.game.actorRoom[a] = None THEN Void
                                         ELSE load.game.actorRoom[a]
    BY <1>1 DEF ActorsRestored
  <2>1. Untouched(<<"actor", a>>, AfterActors) /\ <<"actor", a>> \notin Changed
    BY <1>2, StillUntouched
  <2>2. actorRoom'[a] = actorRoom[a]
    BY <2>1, NotChanged
  <2> QED BY <2>1, <2>2 DEF SavedInv, Restored, ActorsRestored
<1>7. CurrentRestored'
  <2> SUFFICES ASSUME load.part \in PastSelected, Untouched(<<"current">>, AfterSelecting)'
               PROVE  pCurrentActor' = load.game.actor
    BY <1>1 DEF CurrentRestored
  <2>1. Untouched(<<"current">>, AfterSelecting) /\ <<"current">> \notin Changed
    BY <1>2, StillUntouched
  <2>2. pCurrentActor' = pCurrentActor
    BY <2>1, NotChanged
  <2> QED BY <2>1, <2>2 DEF SavedInv, Restored, CurrentRestored
<1>8. RoomRestored'
  <2> SUFFICES ASSUME load.part \in {"objects", "postLoad"} \/ (load.part = "enter" /\ load.next = "objects"),
                      Untouched(<<"room">>, AfterTheRoom)'
               PROVE  pRoom' = load.game.room
    BY <1>1 DEF RoomRestored
  <2>1. load.part \in AfterTheRoom
    BY <1>1 DEF CallsScripts, AfterTheRoom
  <2>2. Untouched(<<"room">>, AfterTheRoom) /\ <<"room">> \notin Changed
    BY <2>1, StillUntouched
  <2>3. pRoom' = pRoom
    BY <2>2, NotChanged
  <2> QED BY <2>2, <2>3 DEF SavedInv, Restored, RoomRestored
<1>9. SceneRestored'
  <2> SUFFICES ASSUME load.part \in PastScene PROVE SceneIsAsSaved'
    BY <1>1 DEF SceneRestored
  <2>1. SceneIsAsSaved /\ load.part \in AfterActors
    BY <1>2 DEF SavedInv, Restored, SceneRestored
  <2>2. Untouched(<<"globals">>, AfterActors)' => Untouched(<<"globals">>, AfterActors) /\ globals' = globals
    BY <2>1, StillUntouched, NotChanged
  <2>3. Untouched(<<"mode">>, AfterActors)' => Untouched(<<"mode">>, AfterActors) /\ mode' = mode
    BY <2>1, StillUntouched, NotChanged
  <2>4. Untouched(<<"slots">>, AfterActors)' => Untouched(<<"slots">>, AfterActors) /\ slots' = slots
    BY <2>1, StillUntouched, NotChanged
  <2> QED BY <1>1, <2>1, <2>2, <2>3, <2>4 DEF SceneIsAsSaved, OnlySlot
<1>10. ThingsRestored'
  <2> SUFFICES ASSUME load.part \in PastActors, SameSlots', SameThings' PROVE ThingsRestored'
    BY <1>1 DEF ThingsRestored
  <2>1. Untouched(<<"slots">>, AfterActors) /\ slots' = slots
    BY <1>2, <1>3, StillUntouched, NotChanged DEF SameSlots
  <2>2. \A b \in Actors : Untouched(<<"inventory", b>>, AfterInventory)
                          /\ <<"inventory", b>> \notin Changed
    BY <1>2, StillUntouched DEF SameThings
  <2>3. \A b \in Actors : inventory'[b] = inventory[b]
    BY <2>2, NotChanged
  <2>4. SameSlots /\ SameThings
    BY <1>1, <2>1, <2>2 DEF SameSlots, SameThings
  <2>5. SlotScripts \/ UNCHANGED things
    BY ObjectScriptsStep DEF SavedInv, Scripts
  <2>6. /\ offset' = offset
        /\ \A o \in Objects : \/ owner'[o] = owner[o]
                              \/ owner[o] \in Actors /\ ~Holds(owner[o], o)
    BY <2>3, <2>5, OwnersKept DEF SavedInv, TypeOK
  <2>7. \A b \in Actors, o \in Objects : Holds(b, o)' <=> Holds(b, o)
    BY <2>3 DEF Holds
  <2>8. owner \in [Objects -> Actors \cup {None}]
    BY DEF SavedInv, TypeOK, SlotsTypeOK
  <2>9. ASSUME NEW a \in Actors, Owned(a) PROVE Owned(a)'
    <3>1. ASSUME NEW o \in Objects, Holds(a, o)
          PROVE  \/ owner'[o] # None /\ \E i \in DOMAIN inventory'[owner'[o]] : inventory'[owner'[o]][i] = o
                 \/ owner'[o] = None /\ o \in load'.orphans
      <4>1. \/ owner[o] # None /\ Holds(owner[o], o)
            \/ owner[o] = None /\ o \in load.orphans
        BY <2>9, <3>1 DEF Owned
      <4>2. owner'[o] = owner[o]
        BY <2>6, <4>1, SlotsAssumption
      <4>3. CASE owner[o] = None
        BY <1>1, <4>1, <4>2, <4>3
      <4>4. CASE owner[o] # None
        <5>1. owner[o] \in Actors /\ inventory'[owner[o]] = inventory[owner[o]]
          BY <2>3, <2>8, <4>4
        <5> QED BY <4>1, <4>2, <4>4, <5>1 DEF Holds
      <4> QED BY <4>3, <4>4
    <3>2. \A o \in Objects : Holds(a, o)' => Holds(a, o)
      BY <2>7
    <3> QED BY <3>1, <3>2 DEF Owned, Holds
  <2>10. /\ \A i \in SlotsDone : slots[i].actor # None =>
               \/ load.part = "inventory" /\ slots[i].actor = load.actor
               \/ /\ inventory[slots[i].actor] = Found(load.game.inventory[slots[i].actor])
                  /\ offset[slots[i].actor] = load.game.offset[slots[i].actor]
                  /\ Owned(slots[i].actor)
         /\ load.part = "inventory" =>
               /\ load.actor = slots[load.slot].actor
               /\ load.scroll = load.game.offset[load.actor]
               /\ inventory[load.actor] \o load.todo = Found(load.game.inventory[load.actor])
               /\ Owned(load.actor)
    BY <2>4 DEF SavedInv, Restored, ThingsRestored
  <2>11. SlotsDone' = SlotsDone
    BY <1>1 DEF SlotsDone
  <2>12. \A i \in 1..NSlots : slots[i].actor \in Actors \cup {None}
    BY DEF SavedInv, TypeOK, SlotsTypeOK, Slot
  <2>13. load.part = "inventory" => load.actor \in Actors
    BY DEF SavedInv, LoadOK
  <2>14. SlotsDone \subseteq 1..NSlots
    BY DEF SlotsDone
  <2> QED BY <1>1, <2>1, <2>3, <2>6, <2>9, <2>10, <2>11, <2>12, <2>13, <2>14
          DEF ThingsRestored
<1> QED BY <1>4, <1>5, <1>6, <1>7, <1>8, <1>9, <1>10 DEF Restored


-----------------------------------------------------------------------------
(* What a part of a load leaves as it was                                  *)

LEMMA NotRestoring ==
  ASSUME load'.part \in {"none", "preLoad"} PROVE Restored'
BY DEF Restored, PseudoRestored, ObjectsRestored, ActorsRestored, CurrentRestored, RoomRestored,
       SceneRestored, ThingsRestored, PastScene, PastActors, PastSlots, PastSelected

LEMMA AllTheSame ==
  ASSUME Restored,
         UNCHANGED <<selection, actorRoom, things, objects, globals, load, disturbed>>
  PROVE  Restored'
<1>1. UNCHANGED <<slots, mode, pCurrentActor, pRoom, actorRoom, inventory, owner, offset, objects,
                  globals, load, disturbed>>
  BY DEF selection, things
<1>2. PseudoRestored' /\ ObjectsRestored'
  BY <1>1 DEF Restored, PseudoRestored, ObjectsRestored, Untouched, AsLoaded
<1>3. ActorsRestored' /\ CurrentRestored' /\ RoomRestored'
  BY <1>1 DEF Restored, ActorsRestored, CurrentRestored, RoomRestored, Untouched
<1>4. SceneRestored'
  BY <1>1 DEF Restored, SceneRestored, SceneIsAsSaved, OnlySlot, Untouched
<1>5. ThingsRestored'
  <2>1. SameSlots' /\ SameThings' => SameSlots /\ SameThings
    BY <1>1 DEF SameSlots, SameThings, Untouched
  <2>2. \A a : Owned(a) => Owned(a)'
    BY <1>1 DEF Owned, Holds
  <2>3. SlotsDone' = SlotsDone
    BY <1>1 DEF SlotsDone
  <2> QED BY <1>1, <2>1, <2>2, <2>3 DEF Restored, ThingsRestored
<1> QED BY <1>2, <1>3, <1>4, <1>5 DEF Restored

LEMMA PseudoKept ==
  ASSUME PseudoRestored, load'.game = load.game, UNCHANGED disturbed,
         \A o \in PseudoObjects : objects'[o] = objects[o],
         load'.part \in PastSlots => load.part \in PastSlots
  PROVE  PseudoRestored'
BY DEF PseudoRestored, Untouched, AsLoaded

LEMMA ActorsKept ==
  ASSUME ActorsRestored, load'.game = load.game, UNCHANGED <<actorRoom, disturbed>>,
         load'.part \in PastScene => load.part \in PastScene,
         load.part = "actors" => load.actors = {}
  PROVE  ActorsRestored'
BY DEF ActorsRestored, Untouched

LEMMA CurrentKept ==
  ASSUME CurrentRestored, load'.game = load.game, UNCHANGED <<pCurrentActor, disturbed>>,
         load'.part \in PastSelected => load.part \in PastSelected
  PROVE  CurrentRestored'
BY DEF CurrentRestored, Untouched

LEMMA SceneKept ==
  ASSUME SceneRestored, load'.game = load.game, UNCHANGED <<slots, mode, globals, disturbed>>,
         load'.part \in PastScene => load.part \in PastScene
  PROVE  SceneRestored'
BY DEF SceneRestored, SceneIsAsSaved, OnlySlot, Untouched

LEMMA ThingsKept ==
  ASSUME ThingsRestored, load'.game = load.game, load'.orphans = load.orphans,
         UNCHANGED <<slots, things, disturbed>>,
         load.part \in PastActors, load.part # "inventory", load'.part # "inventory",
         SlotsDone' \subseteq SlotsDone
  PROVE  ThingsRestored'
<1>1. UNCHANGED <<slots, inventory, owner, offset, disturbed>>
  BY DEF things
<1>2. SameSlots' /\ SameThings' => SameSlots /\ SameThings
  BY <1>1 DEF SameSlots, SameThings, Untouched
<1>3. \A a : Owned(a) => Owned(a)'
  BY <1>1 DEF Owned, Holds
<1> QED BY <1>1, <1>2, <1>3 DEF ThingsRestored

(* After the slots, only what is current, on screen or in rooms changes.   *)
LEMMA LaterPart ==
  ASSUME Restored, load'.game = load.game, load'.orphans = load.orphans,
         UNCHANGED <<slots, mode, actorRoom, things, globals, disturbed>>,
         load.part \in PastSlots, load'.part \in PastSlots
  PROVE  ActorsRestored' /\ SceneRestored' /\ ThingsRestored'
<1>1. /\ load.part \in PastActors /\ load.part \in PastScene
      /\ load.part \notin {"inventory", "actors"} /\ load'.part # "inventory"
  BY DEF PastScene, PastActors, PastSlots, PastSelected
<1>2. SlotsDone' \subseteq SlotsDone
  BY DEF SlotsDone
<1> QED BY <1>1, <1>2, ActorsKept, SceneKept, ThingsKept DEF Restored

-----------------------------------------------------------------------------
(* The parts of a load                                                     *)

LEMMA SceneStep ==
  ASSUME SavedInv, LoadSceneAndGlobals
  PROVE  SavedInv'
<1>1. load.part = "preLoad" /\ load.game \in Games /\ load \in Load
  BY DEF LoadSceneAndGlobals, At, SavedInv, TypeOK, Loading
<1>2. load' = [load EXCEPT !.part = "actors", !.script = FALSE, !.actors = Actors]
  BY DEF LoadSceneAndGlobals
<1>3. PICK d : d = [load EXCEPT !.part = "actors", !.script = FALSE, !.actors = Actors]
  OBVIOUS
<1>4. d \in Load /\ d.part = "actors" /\ d.actors = Actors /\ d.game = load.game
  BY <1>1, <1>3 DEF Load
<1>5. load' = d
  BY <1>2, <1>3
<1>6. PICK g : g = load.game
  OBVIOUS
<1>7. /\ g \in Games /\ g.slots \in [1..NSlots -> Slot] /\ g.mode \subseteq {"on", "temporary"}
      /\ g.globals \in Globals
  BY <1>1, <1>6 DEF Games
<1> DEFINE its(j) == {i \in 1..NSlots : IndexOf(g.slots[i].actor) = j}
           saved(j) == g.slots[Max(its(j))]
<1>8. slots' = [j \in 1..NSlots |->
                  IF its(j) = {} THEN slots[j]
                  ELSE [slots[j] EXCEPT !.selectable = saved(j).actor # None /\ saved(j).selectable]]
  BY <1>6 DEF LoadSceneAndGlobals, LoadSlots
<1>9. \A j \in 1..NSlots : slots[j] \in Slot
  BY DEF SavedInv, TypeOK, SlotsTypeOK
<1>10. slots' \in [1..NSlots -> Slot] /\ \A j \in 1..NSlots : slots'[j].actor = slots[j].actor
  BY <1>8, <1>9 DEF Slot
<1>11. TypeOK'
  <2>1. SlotsTypeOK'
    BY <1>6, <1>7, <1>10 DEF LoadSceneAndGlobals, SavedInv, TypeOK, SlotsTypeOK, things
  <2>2. globals' \in Globals /\ UNCHANGED <<objects, file, thumbnail, restarts>>
    BY <1>6, <1>7 DEF LoadSceneAndGlobals, SavedInv, TypeOK, saving
  <2> QED BY <1>1, <1>4, <1>5, <2>1, <2>2 DEF SavedInv, TypeOK
<1>12. WindowOK'
  BY WindowSame DEF LoadSceneAndGlobals, SavedInv, things
<1>13. LoadOK'
  BY <1>2, <1>4, <1>5 DEF LoadOK, Load, CallsScripts
<1>14. /\ PseudoRestored' /\ ObjectsRestored' /\ ActorsRestored' /\ CurrentRestored'
       /\ RoomRestored' /\ ThingsRestored'
  BY <1>4, <1>5 DEF PseudoRestored, ObjectsRestored, ActorsRestored, CurrentRestored, RoomRestored,
       ThingsRestored, PastActors, PastSlots, PastSelected
<1>15. SceneIsAsSaved'
  <2>1. globals' = IF g.globals = None THEN globals ELSE g.globals
    BY <1>6 DEF LoadSceneAndGlobals
  <2>2. mode' = g.mode /\ load'.game = g
    BY <1>4, <1>5, <1>6 DEF LoadSceneAndGlobals
  <2>3. ASSUME NEW i \in 1..NSlots, OnlySlot(i)'
        PROVE  slots'[i].selectable <=> g.slots[i].selectable
    <3>1. /\ slots[i].actor \in Actors /\ slots[i].actor = g.slots[i].actor
          /\ \A j \in 1..NSlots \ {i} : slots[i].actor # slots[j].actor
                                        /\ slots[i].actor # g.slots[j].actor
      BY <1>10, <2>2, <2>3 DEF OnlySlot
    <3>2. IndexOf(slots[i].actor) = i
      BY <3>1, IndexFound, SlotsAssumption
    <3>3. ASSUME NEW k \in 1..NSlots, IndexOf(g.slots[k].actor) = i PROVE k = i
      <4>1. g.slots[k].actor \in Actors \cup {None}
        BY <1>7 DEF Slot
      <4>2. slots[i].actor = g.slots[k].actor
        BY <3>3, <4>1, IndexFound
      <4> QED BY <3>1, <4>2
    <3>4. its(i) = {i}
      BY <3>1, <3>2, <3>3
    <3>5. Max({i}) = i
      BY DEF Max
    <3>6. saved(i) = g.slots[i] /\ saved(i).actor # None
      BY <3>1, <3>4, <3>5, SlotsAssumption
    <3> HIDE DEF its, saved
    <3>7. slots'[i] = [slots[i] EXCEPT !.selectable = saved(i).actor # None /\ saved(i).selectable]
      BY <1>8, <3>4
    <3> QED BY <1>9, <3>6, <3>7 DEF Slot
  <2> QED BY <2>1, <2>2, <2>3 DEF SceneIsAsSaved
<1> QED BY <1>11, <1>12, <1>13, <1>14, <1>15 DEF SavedInv, Restored, SceneRestored


LEMMA ActorStep ==
  ASSUME SavedInv, LoadActor
  PROVE  SavedInv'
<1>1. /\ load.part = "actors" /\ load.actors # {} /\ load.game \in Games /\ load \in Load
      /\ load.actors \subseteq Actors
  BY DEF LoadActor, At, SavedInv, TypeOK, Loading, Load
<1>2. PICK a : a = CHOOSE x \in load.actors : TRUE
  OBVIOUS
<1>3. a \in load.actors /\ a \in Actors
  BY <1>1, <1>2
<1>4. PICK r : r = IF load.game.actorRoom[a] = None THEN Void ELSE load.game.actorRoom[a]
  OBVIOUS
<1>5. /\ actorRoom' = [actorRoom EXCEPT ![a] = r]
      /\ load' = [load EXCEPT !.script = TRUE, !.actors = load.actors \ {a}]
  BY <1>2, <1>4 DEF LoadActor
<1>6. r \in Rooms
  <2>1. load.game.actorRoom[a] \in Rooms \cup {None}
    BY <1>1, <1>3 DEF Games
  <2> QED BY <1>4, <2>1, SlotsAssumption
<1>7. actorRoom' \in [Actors -> Rooms \cup {None}]
  BY <1>3, <1>5, <1>6 DEF SavedInv, TypeOK, SlotsTypeOK
<1>8. PICK d : d = [load EXCEPT !.script = TRUE, !.actors = load.actors \ {a}]
  OBVIOUS
<1>9. /\ d \in Load /\ d.part = "actors" /\ d.actors = load.actors \ {a} /\ d.game = load.game
      /\ load' = d
  BY <1>1, <1>5, <1>8 DEF Load
<1>10. TypeOK'
  <2>1. SlotsTypeOK'
    BY <1>7 DEF LoadActor, SavedInv, TypeOK, SlotsTypeOK, selection, things
  <2>2. UNCHANGED <<objects, globals, file, thumbnail, restarts>>
    BY DEF LoadActor, saving
  <2> QED BY <1>1, <1>9, <2>1, <2>2 DEF SavedInv, TypeOK
<1>11. WindowOK'
  BY WindowSame DEF LoadActor, SavedInv, things
<1>12. LoadOK'
  BY <1>9 DEF LoadOK, CallsScripts
<1>13. /\ PseudoRestored' /\ ObjectsRestored' /\ CurrentRestored' /\ RoomRestored' /\ ThingsRestored'
  BY <1>9 DEF PseudoRestored, ObjectsRestored, CurrentRestored, RoomRestored,
       ThingsRestored, PastActors, PastSlots, PastSelected
<1>14. ActorsRestored'
  <2>1. ActorsRestored /\ load.part \in PastScene /\ disturbed' = disturbed
    BY <1>1 DEF SavedInv, Restored, PastScene, LoadActor
  <2>2. actorRoom'[a] = r /\ \A x \in Actors \ {a} : actorRoom'[x] = actorRoom[x]
    BY <1>3, <1>5 DEF SavedInv, TypeOK, SlotsTypeOK
  <2> QED BY <1>1, <1>4, <1>9, <2>1, <2>2 DEF ActorsRestored, Untouched
<1>15. SceneRestored'
  BY <1>1, <1>9, SceneKept DEF LoadActor, SavedInv, Restored, PastScene, selection
<1> QED BY <1>10, <1>11, <1>12, <1>13, <1>14, <1>15 DEF SavedInv, Restored

(* A part changes load alone, and keeps what the type asks of it.          *)
LEMMA OnlyLoad ==
  ASSUME SavedInv, UNCHANGED <<slotVars, objects, globals, saving>>, load' \in Load,
         load'.part # "none" => load'.game \in Games
  PROVE  TypeOK' /\ WindowOK'
<1>1. UNCHANGED <<selection, actorRoom, things, crashed, doings, objects, globals, file, thumbnail,
                  restarts>>
  BY DEF slotVars, saving
<1>2. SlotsTypeOK'
  BY <1>1 DEF SavedInv, TypeOK, SlotsTypeOK, selection, things
<1>3. WindowOK'
  BY <1>1, WindowSame DEF SavedInv, things
<1> QED BY <1>1, <1>2, <1>3 DEF SavedInv, TypeOK, Loading

LEMMA EndActorsStep ==
  ASSUME SavedInv, EndActors
  PROVE  SavedInv'
<1>1. /\ load.part = "actors" /\ load.actors = {} /\ load.game \in Games /\ load \in Load
  BY DEF EndActors, At, SavedInv, TypeOK, Loading
<1>2. PICK d : d = [load EXCEPT !.part = "slot", !.script = FALSE, !.slot = 1]
  OBVIOUS
<1>3. load' = d /\ d \in Load
  <2>1. 1 \in 0..(NSlots + 1)
    BY SlotsAssumption
  <2> QED BY <1>1, <1>2, <2>1 DEF EndActors, Load
<1>4. d.part = "slot" /\ d.slot = 1 /\ d.game = load.game /\ d.script = FALSE
  BY <1>1, <1>2 DEF Load
<1>5. TypeOK' /\ WindowOK'
  BY <1>1, <1>3, <1>4, OnlyLoad DEF EndActors
<1>6. LoadOK'
  BY <1>3, <1>4 DEF LoadOK
<1>7. UNCHANGED <<slots, mode, actorRoom, globals, disturbed>>
  BY DEF EndActors, slotVars, selection
<1>8. ActorsRestored' /\ SceneRestored'
  BY <1>1, <1>3, <1>4, <1>7, ActorsKept, SceneKept DEF SavedInv, Restored, PastScene
<1>9. PseudoRestored' /\ ObjectsRestored' /\ CurrentRestored' /\ RoomRestored'
  BY <1>3, <1>4 DEF PseudoRestored, ObjectsRestored, CurrentRestored, RoomRestored,
       PastSlots, PastSelected
<1>10. SlotsDone' = {}
  BY <1>3, <1>4, SlotsAssumption DEF SlotsDone, PastSlots, PastSelected
<1>11. ThingsRestored'
  BY <1>3, <1>4, <1>10 DEF ThingsRestored
<1> QED BY <1>5, <1>6, <1>8, <1>9, <1>11 DEF SavedInv, Restored

(* An actor's inventory is cleared, his objects to be picked up again.     *)
LEMMA SlotStep ==
  ASSUME SavedInv, LoadSlot
  PROVE  SavedInv'
<1>1. /\ load.part = "slot" /\ load.slot \in 1..NSlots /\ load.game \in Games /\ load \in Load
  <2>1. load.part = "slot" /\ load.slot <= NSlots /\ load.game \in Games /\ load \in Load
    BY DEF LoadSlot, At, SavedInv, TypeOK, Loading
  <2>2. load.slot \in 0..(NSlots + 1) /\ load.slot # 0
    BY <2>1 DEF SavedInv, LoadOK, Load
  <2> QED BY <2>1, <2>2, SlotsAssumption
<1>2. PICK a : a = slots[load.slot].actor
  OBVIOUS
<1>3. PICK saved : saved = load.game.slots[load.slot].actor
  OBVIOUS
<1>4. a \in Actors \cup {None} /\ saved \in Actors \cup {None}
  BY <1>1, <1>2, <1>3 DEF SavedInv, TypeOK, SlotsTypeOK, Slot, Games
<1>5. UNCHANGED <<selection, actorRoom, crashed, doings, objects, globals, saving, disturbed>>
  BY DEF LoadSlot
<1>6. UNCHANGED <<slots, mode, pCurrentActor, pRoom, actorRoom, globals, disturbed, offset>>
  BY DEF LoadSlot, selection, things
<1>7. load.part \in PastActors /\ load.part \in PastScene
  BY <1>1 DEF PastActors, PastScene
<1>8. CASE a = None
  <2>1. PICK d : d = [load EXCEPT !.slot = load.slot + 1]
    OBVIOUS
  <2>2. load' = d /\ UNCHANGED things
    BY <1>2, <1>8, <2>1 DEF LoadSlot
  <2>3. d \in Load
    <3>1. load.slot + 1 \in 0..(NSlots + 1)
      BY <1>1, SlotsAssumption
    <3> QED BY <1>1, <2>1, <3>1 DEF Load
  <2>4. /\ d.part = "slot" /\ d.slot = load.slot + 1 /\ d.game = load.game
        /\ d.orphans = load.orphans /\ d.script = load.script
    BY <1>1, <2>1 DEF Load
  <2>5. TypeOK' /\ WindowOK'
    BY <1>1, <1>5, <2>2, <2>3, <2>4, OnlyLoad DEF slotVars
  <2>6. LoadOK'
    BY <1>1, <2>2, <2>4, SlotsAssumption DEF SavedInv, LoadOK, CallsScripts
  <2>7. ActorsRestored' /\ SceneRestored'
    BY <1>1, <1>6, <1>7, <2>2, <2>4, ActorsKept, SceneKept DEF SavedInv, Restored
  <2>8. PseudoRestored' /\ ObjectsRestored' /\ CurrentRestored' /\ RoomRestored'
    BY <2>2, <2>4 DEF PseudoRestored, ObjectsRestored, CurrentRestored, RoomRestored,
         PastSlots, PastSelected
  <2>9. ThingsRestored'
    <3>1. SlotsDone' = SlotsDone \cup {load.slot}
      BY <1>1, <2>2, <2>4, SlotsAssumption DEF SlotsDone, PastSlots, PastSelected
    <3>2. UNCHANGED <<slots, inventory, owner, offset, disturbed>>
      BY <1>6, <2>2 DEF things
    <3>3. SameSlots' /\ SameThings' => SameSlots /\ SameThings
      BY <2>2, <2>4, <3>2 DEF SameSlots, SameThings, Untouched
    <3>4. \A x : Owned(x) => Owned(x)'
      BY <2>2, <2>4, <3>2 DEF Owned, Holds
    <3>5. ThingsRestored
      BY DEF SavedInv, Restored
    <3> QED BY <1>1, <1>2, <1>7, <1>8, <2>2, <2>4, <3>1, <3>2, <3>3, <3>4, <3>5 DEF ThingsRestored
  <2> QED BY <2>5, <2>6, <2>7, <2>8, <2>9 DEF SavedInv, Restored
<1>9. CASE a # None
  <2> DEFINE orphans == load.orphans \cup
                   {o \in Objects : Holds(a, o) /\ \E b \in Actors \ {a} : Holds(b, o)}
  <2>0. PICK todo, scroll :
          /\ todo = IF saved = None THEN <<>> ELSE Found(load.game.inventory[saved])
          /\ scroll = IF saved = None THEN 0 ELSE load.game.offset[saved]
    OBVIOUS
  <2>1. PICK d : d = [load EXCEPT !.part = "inventory", !.actor = a, !.todo = todo,
                                  !.scroll = scroll, !.orphans = orphans]
    OBVIOUS
  <2>2. load' = d /\ ClearInventory(a)
    BY <1>2, <1>3, <1>9, <2>0, <2>1 DEF LoadSlot
  <2>3. a \in Actors
    BY <1>4, <1>9
  <2>4. todo \in Seq(Objects)
    <3>1. CASE saved = None
      BY <2>0, <3>1, EmptySeq
    <3>2. CASE saved # None
      <4>1. load.game.inventory[saved] \in Seq(Objects)
        BY <1>1, <1>4, <3>2 DEF Games
      <4> QED BY <2>0, <3>2, <4>1, KeptOf DEF Found
    <3> QED BY <3>1, <3>2
  <2>5. scroll \in Nat
    BY <1>1, <1>4, <2>0 DEF Games
  <2>6. orphans \in SUBSET Objects
    BY <1>1 DEF Load
  <2>7. d \in Load
    BY <1>1, <2>1, <2>3, <2>4, <2>5, <2>6 DEF Load
  <2>8. /\ d.part = "inventory" /\ d.slot = load.slot /\ d.game = load.game /\ d.actor = a
        /\ d.todo = todo /\ d.scroll = scroll /\ d.orphans = orphans
    BY <1>1, <2>1 DEF Load
  <2>9. /\ inventory' \in [Actors -> Seq(Objects)] /\ owner' \in [Objects -> Actors \cup {None}]
        /\ taken' \subseteq Actors /\ a \in taken' /\ taken \subseteq taken'
        /\ inventory'[a] = <<>>
        /\ \A c \in Actors \ {a} : inventory'[c] = inventory[c]
    BY <2>2, <2>3, ClearStep DEF SavedInv, TypeOK
  <2>10. SlotsTypeOK'
    BY <1>5, <1>6, <2>9 DEF SavedInv, TypeOK, SlotsTypeOK, selection
  <2>11. TypeOK'
    BY <1>1, <1>5, <2>2, <2>7, <2>8, <2>10 DEF SavedInv, TypeOK, Loading, saving
  <2>12. WindowOK'
    BY <1>6, <2>2, <2>3, <2>10, ClearWindow DEF SavedInv, TypeOK
  <2>13. LoadOK'
    BY <1>1, <2>2, <2>3, <2>8, <2>9, SlotsAssumption DEF LoadOK, CallsScripts
  <2>14. ActorsRestored' /\ SceneRestored'
    BY <1>1, <1>6, <1>7, <2>2, <2>8, ActorsKept, SceneKept DEF SavedInv, Restored
  <2>15. PseudoRestored' /\ ObjectsRestored' /\ CurrentRestored' /\ RoomRestored'
    BY <2>2, <2>8 DEF PseudoRestored, ObjectsRestored, CurrentRestored, RoomRestored,
         PastSlots, PastSelected
  <2>16. owner' = [o \in Objects |-> IF Holds(a, o) THEN None ELSE owner[o]]
    BY <2>2 DEF ClearInventory
  <2>17. ASSUME NEW b \in Actors \ {a}, Owned(b) PROVE Owned(b)'
    <3>1. ASSUME NEW o \in Objects, Holds(b, o)
          PROVE  \/ owner'[o] # None /\ \E i \in DOMAIN inventory'[owner'[o]] : inventory'[owner'[o]][i] = o
                 \/ owner'[o] = None /\ o \in orphans
      <4>1. CASE Holds(a, o)
        BY <2>16, <2>17, <3>1, <4>1
      <4>2. CASE ~Holds(a, o)
        <5>1. owner'[o] = owner[o]
          BY <2>16, <4>2
        <5>2. \/ owner[o] # None /\ Holds(owner[o], o)
              \/ owner[o] = None /\ o \in load.orphans
          BY <2>17, <3>1 DEF Owned
        <5>3. owner[o] # None => owner[o] \in Actors \ {a}
          BY <4>2, <5>2 DEF SavedInv, TypeOK, SlotsTypeOK
        <5> QED BY <2>9, <5>1, <5>2, <5>3 DEF Holds
      <4> QED BY <4>1, <4>2
    <3>2. \A o \in Objects : Holds(b, o)' => Holds(b, o)
      BY <2>9 DEF Holds
    <3> QED BY <2>2, <2>8, <3>1, <3>2 DEF Owned, Holds
  <2>18. Owned(a)'
    BY <2>9 DEF Owned, Holds
  <2>19. ThingsRestored'
    <3> SUFFICES ASSUME SameSlots', SameThings' PROVE ThingsRestored'
      BY DEF ThingsRestored
    <3>1. SameSlots /\ SameThings
      BY <1>6, <2>2, <2>8 DEF SameSlots, SameThings, Untouched
    <3>2. \A i \in SlotsDone : slots[i].actor # None =>
             /\ inventory[slots[i].actor] = Found(load.game.inventory[slots[i].actor])
             /\ offset[slots[i].actor] = load.game.offset[slots[i].actor]
             /\ Owned(slots[i].actor)
      BY <1>1, <1>7, <3>1 DEF SavedInv, Restored, ThingsRestored
    <3>3. SlotsDone' = SlotsDone /\ SlotsDone \subseteq 1..NSlots
      BY <1>1, <2>2, <2>8 DEF SlotsDone, PastSlots, PastSelected
    <3>4. saved = a
      BY <1>1, <1>2, <1>3, <3>1 DEF SameSlots
    <3>5. d.todo = Found(load.game.inventory[a]) /\ d.scroll = load.game.offset[a]
      BY <1>9, <2>0, <2>8, <3>4
    <3>6. inventory'[a] \o d.todo = d.todo
      BY <2>7, <2>9, ConcatEmptySeq DEF Load
    <3>7. \A i \in 1..NSlots : slots[i].actor \in Actors \cup {None}
      BY DEF SavedInv, TypeOK, SlotsTypeOK, Slot
    <3>8. ASSUME NEW i \in SlotsDone, slots[i].actor # None, slots[i].actor # a
          PROVE  /\ inventory'[slots[i].actor] = Found(load.game.inventory[slots[i].actor])
                 /\ offset'[slots[i].actor] = load.game.offset[slots[i].actor]
                 /\ Owned(slots[i].actor)'
      BY <1>6, <2>9, <2>17, <3>2, <3>3, <3>7, <3>8
    <3> QED BY <1>2, <1>6, <2>2, <2>8, <2>18, <3>3, <3>5, <3>6, <3>8 DEF ThingsRestored
  <2> QED BY <2>11, <2>12, <2>13, <2>14, <2>15, <2>19 DEF SavedInv, Restored
<1> QED BY <1>8, <1>9


(* The next of those that are left becomes the last of those that are held. *)
LEMMA NextIsHeld ==
  ASSUME NEW s \in Seq(Objects), NEW t \in Seq(Objects), t # <<>>
  PROVE  Append(s, Head(t)) \o Tail(t) = s \o t
<1>1. PICK o, u, p : o = Head(t) /\ u = Tail(t) /\ p = Append(s, o)
  OBVIOUS
<1>2. /\ o \in Objects /\ u \in Seq(Objects) /\ Len(u) = Len(t) - 1
      /\ \A i \in 1..Len(u) : u[i] = t[i + 1]
  BY <1>1, HeadTailProperties
<1>3. o = t[1] /\ Len(t) \in Nat \ {0} /\ Len(s) \in Nat
  BY <1>1, LenProperties, EmptySeq
<1>4. /\ p \in Seq(Objects) /\ Len(p) = Len(s) + 1 /\ p[Len(s) + 1] = o
      /\ \A i \in 1..Len(s) : p[i] = s[i]
  BY <1>1, <1>2, MoreOf
<1>5. /\ p \o u \in Seq(Objects) /\ Len(p \o u) = Len(p) + Len(u)
      /\ \A i \in 1..(Len(p) + Len(u)) : (p \o u)[i] = IF i <= Len(p) THEN p[i] ELSE u[i - Len(p)]
  BY <1>2, <1>4, ConcatProperties
<1>6. /\ s \o t \in Seq(Objects) /\ Len(s \o t) = Len(s) + Len(t)
      /\ \A i \in 1..(Len(s) + Len(t)) : (s \o t)[i] = IF i <= Len(s) THEN s[i] ELSE t[i - Len(s)]
  BY ConcatProperties
<1>7. Len(p \o u) = Len(s \o t)
  BY <1>2, <1>3, <1>4, <1>5, <1>6
<1>8. ASSUME NEW i \in 1..(Len(s) + Len(t)) PROVE (p \o u)[i] = (s \o t)[i]
  <2>1. CASE i <= Len(s)
    BY <1>2, <1>3, <1>4, <1>5, <1>6, <2>1
  <2>2. CASE i = Len(s) + 1
    BY <1>2, <1>3, <1>4, <1>5, <1>6, <2>2
  <2>3. CASE i > Len(s) + 1
    <3>1. i - Len(p) \in 1..Len(u) /\ (i - Len(p)) + 1 = i - Len(s)
      BY <1>2, <1>3, <1>4, <2>3
    <3>2. u[i - Len(p)] = t[i - Len(s)]
      BY <1>2, <3>1
    <3> QED BY <1>2, <1>3, <1>4, <1>5, <1>6, <2>3, <3>2
  <2>4. i \in Int /\ Len(s) \in Int
    BY <1>3
  <2>5. i <= Len(s) \/ i = Len(s) + 1 \/ i > Len(s) + 1
    BY <2>4
  <2> QED BY <2>1, <2>2, <2>3, <2>5
<1> QED BY <1>1, <1>5, <1>6, <1>7, <1>8, SeqEqual

(* An object is picked up again: nobody loses his, and it has an owner.    *)
LEMMA LoadPickupStep ==
  ASSUME SavedInv, LoadPickup
  PROVE  SavedInv'
<1>1. /\ load.part = "inventory" /\ load.todo # <<>> /\ load.game \in Games /\ load \in Load
      /\ load.todo \in Seq(Objects)
  BY DEF LoadPickup, At, SavedInv, TypeOK, Loading, Load
<1>2. PICK a, t, s : a = load.actor /\ t = load.todo /\ s = inventory[a]
  OBVIOUS
<1>3. a \in Actors /\ a \in taken /\ load.slot \in 1..NSlots
  BY <1>1, <1>2 DEF SavedInv, LoadOK
<1>4. s \in Seq(Objects) /\ t \in Seq(Objects) /\ t # <<>>
  BY <1>1, <1>2, <1>3 DEF SavedInv, TypeOK, SlotsTypeOK
<1>5. PICK o, u, p : o = Head(t) /\ u = Tail(t) /\ p = Append(s, o)
  OBVIOUS
<1>6. o \in Objects /\ u \in Seq(Objects)
  BY <1>4, <1>5, HeadTailProperties
<1>7. /\ p \in Seq(Objects) /\ Len(p) = Len(s) + 1 /\ Len(s) \in Nat /\ p[Len(s) + 1] = o
      /\ \A i \in 1..Len(s) : p[i] = s[i]
  BY <1>4, <1>5, <1>6, MoreOf
<1>8. /\ inventory' = [inventory EXCEPT ![a] = p] /\ owner' = [owner EXCEPT ![o] = a]
      /\ load' = [load EXCEPT !.todo = u, !.script = TRUE, !.orphans = load.orphans \ {o}]
  BY <1>2, <1>5 DEF LoadPickup
<1>9. PICK d : d = [load EXCEPT !.todo = u, !.script = TRUE, !.orphans = load.orphans \ {o}]
  OBVIOUS
<1>10. d \in Load
  <2>1. load.orphans \ {o} \in SUBSET Objects
    BY <1>1 DEF Load
  <2> QED BY <1>1, <1>6, <1>9, <2>1 DEF Load
<1>11. /\ d.part = "inventory" /\ d.slot = load.slot /\ d.game = load.game /\ d.actor = a
       /\ d.todo = u /\ d.scroll = load.scroll /\ d.orphans = load.orphans \ {o} /\ load' = d
  BY <1>1, <1>2, <1>8, <1>9 DEF Load
<1>12. /\ inventory' \in [Actors -> Seq(Objects)] /\ inventory'[a] = p
       /\ \A c \in Actors \ {a} : inventory'[c] = inventory[c]
  BY <1>3, <1>7, <1>8 DEF SavedInv, TypeOK, SlotsTypeOK
<1>13. /\ owner' \in [Objects -> Actors \cup {None}] /\ owner'[o] = a
       /\ \A x \in Objects \ {o} : owner'[x] = owner[x]
  BY <1>3, <1>6, <1>8 DEF SavedInv, TypeOK, SlotsTypeOK
<1>14. UNCHANGED <<selection, actorRoom, offset, taken, crashed, doings, objects, globals, saving,
                   disturbed>>
  BY DEF LoadPickup
<1>15. TypeOK'
  <2>1. SlotsTypeOK'
    BY <1>12, <1>13, <1>14 DEF SavedInv, TypeOK, SlotsTypeOK, selection
  <2> QED BY <1>1, <1>10, <1>11, <1>14, <2>1 DEF SavedInv, TypeOK, Loading, saving
<1>16. WindowOK'
  <2> SUFFICES ASSUME NEW c \in Actors PROVE c \in taken' \/ offset'[c] = 0 \/ offset'[c] * Row < Len(inventory'[c])
    BY DEF WindowOK
  <2>1. CASE c = a
    BY <1>3, <1>14, <2>1
  <2>2. CASE c # a
    BY <1>12, <1>14, <2>2 DEF SavedInv, WindowOK
  <2> QED BY <2>1, <2>2
<1>17. LoadOK'
  BY <1>1, <1>3, <1>11, <1>14, SlotsAssumption DEF LoadOK, CallsScripts
<1>18. PseudoRestored' /\ ObjectsRestored' /\ CurrentRestored' /\ RoomRestored'
  BY <1>11 DEF PseudoRestored, ObjectsRestored, CurrentRestored, RoomRestored,
       PastSlots, PastSelected
<1>19. ActorsRestored' /\ SceneRestored'
  <2>1. UNCHANGED <<slots, mode, actorRoom, globals, disturbed>>
    BY <1>14 DEF selection
  <2>2. load.part \in PastScene
    BY <1>1 DEF PastScene, PastActors
  <2> QED BY <1>1, <1>11, <2>1, <2>2, ActorsKept, SceneKept DEF SavedInv, Restored
<1>20. ASSUME NEW c \in Actors, NEW x \in Objects
       PROVE  /\ Holds(c, x) => \E i \in DOMAIN inventory'[c] : inventory'[c][i] = x
              /\ Holds(c, x)' => Holds(c, x) \/ (c = a /\ x = o)
  <2>1. CASE c = a
    <3>1. DOMAIN s = 1..Len(s) /\ DOMAIN p = 1..(Len(s) + 1)
      BY <1>4, <1>7, LenProperties
    <3>2. Holds(c, x) => \E i \in 1..Len(s) : s[i] = x
      BY <1>2, <2>1, <3>1 DEF Holds
    <3>3. (\E i \in 1..Len(s) : s[i] = x) => \E i \in 1..(Len(s) + 1) : p[i] = x
      BY <1>7
    <3>4. (\E i \in 1..(Len(s) + 1) : p[i] = x) => (\E i \in 1..Len(s) : s[i] = x) \/ x = o
      BY <1>7
    <3> QED BY <1>2, <1>12, <2>1, <3>1, <3>2, <3>3, <3>4 DEF Holds
  <2>2. CASE c # a
    BY <1>12, <2>2 DEF Holds
  <2> QED BY <2>1, <2>2
<1>21. ASSUME NEW c \in Actors, Owned(c) PROVE Owned(c)'
  <2>1. ASSUME NEW x \in Objects, Holds(c, x) \/ x = o
        PROVE  \/ owner'[x] # None /\ \E i \in DOMAIN inventory'[owner'[x]] : inventory'[owner'[x]][i] = x
               \/ owner'[x] = None /\ x \in load'.orphans
    <3>1. CASE x = o
      <4>1. DOMAIN p = 1..(Len(s) + 1)
        BY <1>7, LenProperties
      <4>2. Len(s) + 1 \in DOMAIN p
        BY <1>7, <4>1
      <4>3. owner'[x] = a /\ inventory'[a] = p /\ p[Len(s) + 1] = x
        BY <1>7, <1>12, <1>13, <3>1
      <4>4. a # None
        BY <1>3, SlotsAssumption
      <4> QED BY <4>2, <4>3, <4>4
    <3>2. CASE x # o
      <4>1. \/ owner[x] # None /\ Holds(owner[x], x)
            \/ owner[x] = None /\ x \in load.orphans
        BY <1>21, <2>1, <3>2 DEF Owned
      <4>2. owner[x] # None => owner[x] \in Actors
        BY DEF SavedInv, TypeOK, SlotsTypeOK
      <4> QED BY <1>11, <1>13, <1>20, <3>2, <4>1, <4>2
    <3> QED BY <3>1, <3>2
  <2>2. \A x \in Objects : Holds(c, x)' => Holds(c, x) \/ x = o
    BY <1>20
  <2> QED BY <2>1, <2>2 DEF Owned, Holds
<1>22. ThingsRestored'
  <2> SUFFICES ASSUME SameSlots', SameThings' PROVE ThingsRestored'
    BY DEF ThingsRestored
  <2>1. UNCHANGED <<slots, offset, disturbed>>
    BY <1>14 DEF selection
  <2>2. SameSlots /\ SameThings /\ load.part \in PastActors
    BY <1>1, <1>11, <2>1 DEF SameSlots, SameThings, Untouched, PastActors
  <2>3. /\ \A i \in SlotsDone : slots[i].actor # None /\ slots[i].actor # a =>
             /\ inventory[slots[i].actor] = Found(load.game.inventory[slots[i].actor])
             /\ offset[slots[i].actor] = load.game.offset[slots[i].actor]
             /\ Owned(slots[i].actor)
        /\ a = slots[load.slot].actor /\ load.scroll = load.game.offset[a]
        /\ s \o t = Found(load.game.inventory[a])
        /\ Owned(a)
    BY <1>1, <1>2, <2>2 DEF SavedInv, Restored, ThingsRestored
  <2>4. SlotsDone' = SlotsDone /\ SlotsDone \subseteq 1..NSlots
    BY <1>1, <1>11 DEF SlotsDone
  <2>5. \A i \in 1..NSlots : slots[i].actor \in Actors \cup {None}
    BY DEF SavedInv, TypeOK, SlotsTypeOK, Slot
  <2>6. p \o u = Found(load.game.inventory[a])
    BY <1>4, <1>5, <2>3, NextIsHeld
  <2>7. ASSUME NEW i \in SlotsDone, slots[i].actor # None, slots[i].actor # a
        PROVE  /\ inventory'[slots[i].actor] = Found(load.game.inventory[slots[i].actor])
               /\ offset'[slots[i].actor] = load.game.offset[slots[i].actor]
               /\ Owned(slots[i].actor)'
    BY <1>12, <1>21, <2>1, <2>3, <2>4, <2>5, <2>7
  <2>8. Owned(a)'
    BY <1>3, <1>21, <2>3
  <2> QED BY <1>11, <1>12, <2>1, <2>3, <2>4, <2>6, <2>7, <2>8 DEF ThingsRestored
<1> QED BY <1>15, <1>16, <1>17, <1>18, <1>19, <1>22 DEF SavedInv, Restored

LEMMA EndSlotStep ==
  ASSUME SavedInv, EndSlot
  PROVE  SavedInv'
<1>1. /\ load.part = "inventory" /\ load.todo = <<>> /\ load.game \in Games /\ load \in Load
      /\ load.scroll \in Nat
  BY DEF EndSlot, At, SavedInv, TypeOK, Loading, Load
<1>2. PICK a : a = load.actor
  OBVIOUS
<1>3. a \in Actors /\ a \in taken /\ load.slot \in 1..NSlots
  BY <1>1, <1>2 DEF SavedInv, LoadOK
<1>4. PICK d : d = [load EXCEPT !.part = "slot", !.script = FALSE, !.slot = load.slot + 1,
                                !.actor = None, !.scroll = 0]
  OBVIOUS
<1>5. d \in Load
  <2>1. load.slot + 1 \in 0..(NSlots + 1)
    BY <1>3, SlotsAssumption
  <2> QED BY <1>1, <1>4, <2>1 DEF Load
<1>6. /\ d.part = "slot" /\ d.slot = load.slot + 1 /\ d.game = load.game
      /\ d.orphans = load.orphans /\ d.script = FALSE
  BY <1>1, <1>4 DEF Load
<1>7. load' = d /\ offset' = [offset EXCEPT ![a] = load.scroll]
  BY <1>2, <1>4 DEF EndSlot
<1>8. /\ offset' \in [Actors -> Nat] /\ offset'[a] = load.scroll
      /\ \A c \in Actors \ {a} : offset'[c] = offset[c]
  BY <1>1, <1>3, <1>7 DEF SavedInv, TypeOK, SlotsTypeOK
<1>9. UNCHANGED <<selection, actorRoom, inventory, owner, taken, crashed, doings, objects,
                  globals, saving, disturbed>>
  BY DEF EndSlot
<1>10. TypeOK'
  <2>1. SlotsTypeOK'
    BY <1>8, <1>9 DEF SavedInv, TypeOK, SlotsTypeOK, selection
  <2> QED BY <1>1, <1>5, <1>6, <1>7, <1>9, <2>1 DEF SavedInv, TypeOK, Loading, saving
<1>11. WindowOK'
  BY <1>3, <1>8, <1>9 DEF SavedInv, WindowOK
<1>12. LoadOK'
  BY <1>3, <1>6, <1>7, SlotsAssumption DEF LoadOK
<1>13. PseudoRestored' /\ ObjectsRestored' /\ CurrentRestored' /\ RoomRestored'
  BY <1>6, <1>7 DEF PseudoRestored, ObjectsRestored, CurrentRestored, RoomRestored,
       PastSlots, PastSelected
<1>14. ActorsRestored' /\ SceneRestored'
  <2>1. UNCHANGED <<slots, mode, actorRoom, globals, disturbed>>
    BY <1>9 DEF selection
  <2>2. load.part \in PastScene
    BY <1>1 DEF PastScene, PastActors
  <2> QED BY <1>1, <1>6, <1>7, <2>1, <2>2, ActorsKept, SceneKept DEF SavedInv, Restored
<1>15. ThingsRestored'
  <2> SUFFICES ASSUME SameSlots', SameThings' PROVE ThingsRestored'
    BY DEF ThingsRestored
  <2>1. UNCHANGED <<slots, inventory, owner, disturbed>>
    BY <1>9 DEF selection
  <2>2. SameSlots /\ SameThings /\ load.part \in PastActors
    BY <1>1, <1>6, <1>7, <2>1 DEF SameSlots, SameThings, Untouched, PastActors
  <2>3. /\ \A i \in SlotsDone : slots[i].actor # None /\ slots[i].actor # a =>
             /\ inventory[slots[i].actor] = Found(load.game.inventory[slots[i].actor])
             /\ offset[slots[i].actor] = load.game.offset[slots[i].actor]
             /\ Owned(slots[i].actor)
        /\ a = slots[load.slot].actor /\ load.scroll = load.game.offset[a]
        /\ inventory[a] \o load.todo = Found(load.game.inventory[a])
        /\ Owned(a)
    BY <1>1, <1>2, <2>2 DEF SavedInv, Restored, ThingsRestored
  <2>4. inventory[a] \in Seq(Objects)
    BY <1>3 DEF SavedInv, TypeOK, SlotsTypeOK
  <2>5. inventory[a] = Found(load.game.inventory[a])
    BY <1>1, <2>3, <2>4, ConcatEmptySeq
  <2>6. SlotsDone' = SlotsDone \cup {load.slot} /\ SlotsDone \subseteq 1..NSlots
    BY <1>1, <1>3, <1>6, <1>7, SlotsAssumption DEF SlotsDone, PastSlots, PastSelected
  <2>7. \A x : Owned(x) => Owned(x)'
    BY <1>6, <1>7, <2>1 DEF Owned, Holds
  <2>8. \A i \in 1..NSlots : slots[i].actor \in Actors \cup {None}
    BY DEF SavedInv, TypeOK, SlotsTypeOK, Slot
  <2>9. ASSUME NEW i \in SlotsDone', slots[i].actor # None
        PROVE  /\ inventory'[slots[i].actor] = Found(load.game.inventory[slots[i].actor])
               /\ offset'[slots[i].actor] = load.game.offset[slots[i].actor]
               /\ Owned(slots[i].actor)'
    <3>1. CASE slots[i].actor = a
      BY <1>8, <2>1, <2>3, <2>5, <2>7, <3>1
    <3>2. CASE slots[i].actor # a
      <4>1. i \in SlotsDone /\ slots[i].actor \in Actors \ {a}
        BY <2>3, <2>6, <2>8, <2>9, <3>2
      <4> QED BY <1>8, <2>1, <2>3, <2>7, <2>9, <3>2, <4>1
    <3> QED BY <3>1, <3>2
  <2> QED BY <1>6, <1>7, <2>1, <2>9 DEF ThingsRestored
<1> QED BY <1>10, <1>11, <1>12, <1>13, <1>14, <1>15 DEF SavedInv, Restored


(* What a load makes of an object has the type of one.                     *)
LEMMA LoadedObject ==
  ASSUME NEW o \in Objects, load.game \in Games
  PROVE  AsLoaded(o) \in Object
<1>1. load.game.objects[o] \in Object
  BY DEF Games
<1> QED BY <1>1, SavedGamesAssumption DEF AsLoaded, LoadObject, SaveObject, Object

LEMMA LoadTheStep ==
  ASSUME TypeOK, NEW some, LoadThe(some), load.game \in Games
  PROVE  /\ objects' \in [Objects -> Object]
         /\ \A o \in Objects : objects'[o] = IF o \in some THEN AsLoaded(o) ELSE objects[o]
<1>1. objects' = [o \in Objects |-> IF o \in some THEN AsLoaded(o) ELSE objects[o]]
  BY DEF LoadThe, AsLoaded
<1>2. objects \in [Objects -> Object]
  BY DEF TypeOK
<1> QED BY <1>1, <1>2, LoadedObject

LEMMA LoadRoomsStep ==
  ASSUME SavedInv, LoadRooms
  PROVE  SavedInv'
<1>1. /\ load.part = "slot" /\ load.slot > NSlots /\ load.game \in Games /\ load \in Load
  BY DEF LoadRooms, At, SavedInv, TypeOK, Loading
<1>2. PICK d : d = [load EXCEPT !.part = "rooms", !.script = TRUE, !.slot = 0]
  OBVIOUS
<1>3. d \in Load
  <2>1. 0 \in 0..(NSlots + 1)
    BY SlotsAssumption
  <2> QED BY <1>1, <1>2, <2>1 DEF Load
<1>4. /\ load' = d /\ d.part = "rooms" /\ d.game = load.game /\ d.orphans = load.orphans
  BY <1>1, <1>2 DEF LoadRooms, Load
<1>5. UNCHANGED <<selection, actorRoom, things, crashed, doings, globals, saving, disturbed>>
  BY DEF LoadRooms, slotVars
<1>6. /\ objects' \in [Objects -> Object]
      /\ \A o \in PseudoObjects : objects'[o] = AsLoaded(o)
  BY <1>1, LoadTheStep, SavedGamesAssumption DEF LoadRooms, SavedInv
<1>7. TypeOK'
  <2>1. SlotsTypeOK'
    BY <1>5 DEF SavedInv, TypeOK, SlotsTypeOK, selection, things
  <2> QED BY <1>1, <1>3, <1>4, <1>5, <1>6, <2>1 DEF SavedInv, TypeOK, Loading, saving
<1>8. WindowOK'
  BY <1>5, WindowSame DEF SavedInv, things
<1>9. LoadOK'
  BY <1>4 DEF LoadOK, CallsScripts
<1>10. PseudoRestored'
  BY <1>4, <1>6 DEF PseudoRestored, AsLoaded
<1>11. ObjectsRestored' /\ CurrentRestored' /\ RoomRestored'
  BY <1>4 DEF ObjectsRestored, CurrentRestored, RoomRestored, PastSelected
<1>12. UNCHANGED <<slots, mode, actorRoom, globals, disturbed>>
  BY <1>5 DEF selection
<1>13. ActorsRestored' /\ SceneRestored'
  <2>1. load.part \in PastScene
    BY <1>1 DEF PastScene, PastActors
  <2> QED BY <1>1, <1>4, <1>12, <2>1, ActorsKept, SceneKept DEF SavedInv, Restored
<1>14. ThingsRestored'
  <2>1. load.part \in PastActors
    BY <1>1 DEF PastActors
  <2>2. load.slot \in Nat
    BY <1>1, SlotsAssumption DEF Load
  <2>3. SlotsDone' \subseteq SlotsDone
    BY <1>1, <2>2, SlotsAssumption DEF SlotsDone
  <2> QED BY <1>1, <1>4, <1>5, <1>12, <2>1, <2>3, ThingsKept DEF SavedInv, Restored
<1> QED BY <1>7, <1>8, <1>9, <1>10, <1>11, <1>13, <1>14 DEF SavedInv, Restored

LEMMA LoadCurrentActorStep ==
  ASSUME SavedInv, LoadCurrentActor
  PROVE  SavedInv'
<1>1. load.part = "rooms" /\ load.game \in Games /\ load \in Load
  BY DEF LoadCurrentActor, At, SavedInv, TypeOK, Loading
<1>2. PICK d : d = [load EXCEPT !.part = "selected", !.script = TRUE]
  OBVIOUS
<1>3. d \in Load
  BY <1>1, <1>2 DEF Load
<1>4. load' = d /\ d.part = "selected" /\ d.game = load.game /\ d.orphans = load.orphans
  BY <1>1, <1>2 DEF LoadCurrentActor, Goes, Load
<1>5. PICK a : a = load.game.actor
  OBVIOUS
<1>6. a \in Actors /\ pCurrentActor' = a /\ hudIndex' = IndexOf(a) /\ crashed' = (IndexOf(a) = 0)
  BY <1>1, <1>5 DEF LoadCurrentActor, BecomesCurrent, Games
<1>7. UNCHANGED <<slots, mode, pRoom, actorRoom, things, doings, objects, globals, saving, disturbed>>
  BY DEF LoadCurrentActor
<1>8. TypeOK'
  <2>1. hudIndex' \in 0..NSlots
    BY <1>6, IndexFound
  <2>2. crashed' \in BOOLEAN
    BY <1>6
  <2>3. SlotsTypeOK'
    BY <1>6, <1>7, <2>1, <2>2 DEF SavedInv, TypeOK, SlotsTypeOK, things
  <2> QED BY <1>1, <1>3, <1>4, <1>7, <2>3 DEF SavedInv, TypeOK, Loading, saving
<1>9. WindowOK'
  BY <1>7, WindowSame DEF SavedInv, things
<1>10. LoadOK'
  BY <1>4 DEF LoadOK, CallsScripts
<1>11. ActorsRestored' /\ SceneRestored' /\ ThingsRestored'
  BY <1>1, <1>4, <1>7, LaterPart DEF SavedInv, PastSlots, PastSelected
<1>12. PseudoRestored'
  BY <1>1, <1>4, <1>7, PseudoKept DEF SavedInv, Restored, PastSlots
<1>13. ObjectsRestored' /\ CurrentRestored' /\ RoomRestored'
  BY <1>4, <1>5, <1>6 DEF ObjectsRestored, CurrentRestored, RoomRestored
<1> QED BY <1>8, <1>9, <1>10, <1>11, <1>12, <1>13 DEF SavedInv, Restored

(* A room to go to is on screen already, or its change begins.             *)
LEMMA ChangeStep ==
  ASSUME SavedInv, NEW r \in Rooms \cup {StartScreen, None}, NEW next \in {"room", "objects"},
         load.part \in {"selected", "room"}, next = "objects" => r = load.game.room,
         Change(r, next), UNCHANGED <<slotVars, objects, globals, saving, disturbed>>
  PROVE  SavedInv'
<1>1. load.game \in Games /\ load \in Load
  BY DEF SavedInv, TypeOK, Loading
<1>2. PICK d : d = IF Stays(r) THEN [load EXCEPT !.part = next, !.script = FALSE]
                   ELSE [load EXCEPT !.part = "exit", !.script = TRUE, !.to = r, !.next = next]
  OBVIOUS
<1>3. load' = d
  BY <1>2 DEF Change, Goes
<1>4. d \in Load
  <2>1. CASE Stays(r)
    BY <1>1, <1>2, <2>1 DEF Load
  <2>2. CASE ~Stays(r)
    BY <1>1, <1>2, <2>2 DEF Load
  <2> QED BY <2>1, <2>2
<1>5. d.game = load.game /\ d.orphans = load.orphans
  BY <1>1, <1>2 DEF Load
<1>6. /\ Stays(r) => d.part = next /\ d.script = FALSE
      /\ ~Stays(r) => d.part = "exit" /\ d.to = r /\ d.next = next
  BY <1>1, <1>2 DEF Load
<1>7. TypeOK' /\ WindowOK'
  BY <1>1, <1>3, <1>4, <1>5, OnlyLoad
<1>8. LoadOK'
  <2>1. CASE Stays(r)
    BY <1>3, <1>6, <2>1 DEF LoadOK
  <2>2. CASE ~Stays(r)
    <3>1. r \in Rooms \cup {StartScreen}
      BY <2>2 DEF Stays
    <3> QED BY <1>3, <1>5, <1>6, <2>2, <3>1 DEF LoadOK, CallsScripts
  <2> QED BY <2>1, <2>2
<1>9. UNCHANGED <<slots, mode, pCurrentActor, pRoom, actorRoom, things, objects, globals, disturbed>>
  BY DEF slotVars, selection
<1>10. /\ load.part \in PastSlots /\ load.part \in PastSelected
       /\ load'.part \in PastSlots /\ load'.part \in PastSelected
  BY <1>3, <1>6 DEF PastSlots, PastSelected
<1>11. ActorsRestored' /\ SceneRestored' /\ ThingsRestored'
  BY <1>3, <1>5, <1>9, <1>10, LaterPart DEF SavedInv
<1>12. PseudoRestored' /\ CurrentRestored'
  BY <1>3, <1>5, <1>9, <1>10, PseudoKept, CurrentKept DEF SavedInv, Restored
<1>13. ObjectsRestored'
  BY <1>3, <1>6 DEF ObjectsRestored
<1>14. RoomRestored'
  <2>1. CASE Stays(r) /\ next = "objects"
    <3>1. load.game.room \in Rooms \cup {StartScreen}
      BY <1>1 DEF Games
    <3>2. pRoom = load.game.room
      BY <2>1, <3>1, SlotsAssumption DEF Stays
    <3> QED BY <1>3, <1>5, <1>9, <3>2 DEF RoomRestored
  <2>2. CASE ~(Stays(r) /\ next = "objects")
    <3>1. load'.part \in {"room", "exit"}
      BY <1>3, <1>6, <2>2
    <3> QED BY <3>1 DEF RoomRestored
  <2> QED BY <2>1, <2>2
<1> QED BY <1>7, <1>8, <1>11, <1>12, <1>13, <1>14 DEF SavedInv, Restored

LEMMA RoomsStep ==
  ASSUME SavedInv, Follow \/ LoadCurrentRoom
  PROVE  SavedInv'
<1>1. CASE Follow
  <2>1. RoomOf(pCurrentActor) \in Rooms \cup {StartScreen, None}
    BY DEF RoomOf, SavedInv, TypeOK, SlotsTypeOK
  <2> QED BY <1>1, <2>1, ChangeStep DEF Follow, At
<1>2. CASE LoadCurrentRoom
  <2>1. load.game.room \in Rooms \cup {StartScreen, None}
    BY <1>2 DEF LoadCurrentRoom, At, SavedInv, TypeOK, Loading, Games
  <2> QED BY <1>2, <2>1, ChangeStep DEF LoadCurrentRoom, At
<1> QED BY <1>1, <1>2

LEMMA EnterRoomStep ==
  ASSUME SavedInv, EnterRoom
  PROVE  SavedInv'
<1>1. load.part = "exit" /\ load.game \in Games /\ load \in Load
  BY DEF EnterRoom, At, SavedInv, TypeOK, Loading
<1>2. PICK d : d = [load EXCEPT !.part = "enter", !.to = None]
  OBVIOUS
<1>3. d \in Load
  BY <1>1, <1>2 DEF Load
<1>4. /\ load' = d /\ d.part = "enter" /\ d.game = load.game /\ d.orphans = load.orphans
      /\ d.next = load.next
  BY <1>1, <1>2 DEF EnterRoom, Load
<1>5. /\ load.to \in Rooms \cup {StartScreen} /\ load.next \in {"room", "objects"}
      /\ load.next = "objects" => load.to = load.game.room
  BY <1>1 DEF SavedInv, LoadOK
<1>6. UNCHANGED <<slots, mode, pCurrentActor, hudIndex, actorRoom, things, crashed, doings, objects,
                  globals, saving, disturbed>>
  BY DEF EnterRoom
<1>7. pRoom' = load.to
  BY DEF EnterRoom
<1>8. TypeOK'
  <2>1. SlotsTypeOK'
    BY <1>5, <1>6, <1>7 DEF SavedInv, TypeOK, SlotsTypeOK, things
  <2> QED BY <1>1, <1>3, <1>4, <1>6, <2>1 DEF SavedInv, TypeOK, Loading, saving
<1>9. WindowOK'
  BY <1>6, WindowSame DEF SavedInv, things
<1>10. LoadOK'
  BY <1>4, <1>5 DEF LoadOK, CallsScripts
<1>11. /\ load.part \in PastSlots /\ load.part \in PastSelected
       /\ load'.part \in PastSlots /\ load'.part \in PastSelected
  BY <1>1, <1>4 DEF PastSlots, PastSelected
<1>12. ActorsRestored' /\ SceneRestored' /\ ThingsRestored'
  BY <1>4, <1>6, <1>11, LaterPart DEF SavedInv
<1>13. PseudoRestored' /\ CurrentRestored'
  BY <1>4, <1>6, <1>11, PseudoKept, CurrentKept DEF SavedInv, Restored
<1>14. ObjectsRestored' /\ RoomRestored'
  BY <1>4, <1>5, <1>7 DEF ObjectsRestored, RoomRestored
<1> QED BY <1>8, <1>9, <1>10, <1>12, <1>13, <1>14 DEF SavedInv, Restored

LEMMA EnteredRoomStep ==
  ASSUME SavedInv, EnteredRoom
  PROVE  SavedInv'
<1>1. load.part = "enter" /\ load.game \in Games /\ load \in Load
  BY DEF EnteredRoom, At, SavedInv, TypeOK, Loading
<1>2. load.next \in {"room", "objects"}
  BY <1>1 DEF SavedInv, LoadOK
<1>3. PICK d : d = [load EXCEPT !.part = load.next, !.script = FALSE, !.next = "none"]
  OBVIOUS
<1>4. d \in Load
  BY <1>1, <1>2, <1>3 DEF Load
<1>5. /\ load' = d /\ d.part = load.next /\ d.game = load.game /\ d.orphans = load.orphans
      /\ d.script = FALSE
  BY <1>1, <1>3 DEF EnteredRoom, Load
<1>6. TypeOK' /\ WindowOK'
  BY <1>1, <1>4, <1>5, OnlyLoad DEF EnteredRoom
<1>7. LoadOK'
  BY <1>2, <1>5 DEF LoadOK
<1>8. UNCHANGED <<slots, mode, pCurrentActor, pRoom, actorRoom, things, objects, globals, disturbed>>
  BY DEF EnteredRoom, slotVars, selection
<1>9. /\ load.part \in PastSlots /\ load.part \in PastSelected
      /\ load'.part \in PastSlots /\ load'.part \in PastSelected
  BY <1>1, <1>2, <1>5 DEF PastSlots, PastSelected
<1>10. ActorsRestored' /\ SceneRestored' /\ ThingsRestored'
  BY <1>5, <1>8, <1>9, LaterPart DEF SavedInv
<1>11. PseudoRestored' /\ CurrentRestored'
  BY <1>5, <1>8, <1>9, PseudoKept, CurrentKept DEF SavedInv, Restored
<1>12. ObjectsRestored'
  BY <1>2, <1>5 DEF ObjectsRestored
<1>13. RoomRestored'
  BY <1>1, <1>2, <1>5, <1>8 DEF SavedInv, Restored, RoomRestored, Untouched
<1> QED BY <1>6, <1>7, <1>10, <1>11, <1>12, <1>13 DEF SavedInv, Restored

LEMMA LoadObjectsStep ==
  ASSUME SavedInv, LoadObjects
  PROVE  SavedInv'
<1>1. load.part = "objects" /\ load.game \in Games /\ load \in Load
  BY DEF LoadObjects, At, SavedInv, TypeOK, Loading
<1>2. PICK d : d = [load EXCEPT !.part = "postLoad", !.script = TRUE]
  OBVIOUS
<1>3. d \in Load
  BY <1>1, <1>2 DEF Load
<1>4. load' = d /\ d.part = "postLoad" /\ d.game = load.game /\ d.orphans = load.orphans
  BY <1>1, <1>2 DEF LoadObjects, Goes, Load
<1>5. UNCHANGED <<selection, actorRoom, things, crashed, doings, globals, saving, disturbed>>
  BY DEF LoadObjects, slotVars
<1>6. /\ objects' \in [Objects -> Object]
      /\ \A o \in Objects \ PseudoObjects : objects'[o] = AsLoaded(o)
      /\ \A o \in PseudoObjects : objects'[o] = objects[o]
  BY <1>1, LoadTheStep, SavedGamesAssumption DEF LoadObjects, SavedInv
<1>7. TypeOK'
  <2>1. SlotsTypeOK'
    BY <1>5 DEF SavedInv, TypeOK, SlotsTypeOK, selection, things
  <2> QED BY <1>1, <1>3, <1>4, <1>5, <1>6, <2>1 DEF SavedInv, TypeOK, Loading, saving
<1>8. WindowOK'
  BY <1>5, WindowSame DEF SavedInv, things
<1>9. LoadOK'
  BY <1>4 DEF LoadOK, CallsScripts
<1>10. UNCHANGED <<slots, mode, pCurrentActor, pRoom, actorRoom, globals, disturbed>>
  BY <1>5 DEF selection
<1>11. /\ load.part \in PastSlots /\ load.part \in PastSelected
       /\ load'.part \in PastSlots /\ load'.part \in PastSelected
  BY <1>1, <1>4 DEF PastSlots, PastSelected
<1>12. ActorsRestored' /\ SceneRestored' /\ ThingsRestored'
  BY <1>4, <1>5, <1>10, <1>11, LaterPart DEF SavedInv
<1>13. PseudoRestored' /\ CurrentRestored'
  BY <1>4, <1>6, <1>10, <1>11, PseudoKept, CurrentKept DEF SavedInv, Restored
<1>14. ObjectsRestored'
  BY <1>4, <1>6 DEF ObjectsRestored, AsLoaded
<1>15. RoomRestored'
  BY <1>1, <1>4, <1>10 DEF SavedInv, Restored, RoomRestored, Untouched
<1> QED BY <1>7, <1>8, <1>9, <1>12, <1>13, <1>14, <1>15 DEF SavedInv, Restored

-----------------------------------------------------------------------------
(* The rest                                                                *)

LEMMA NoLoadIs ==
  /\ NoLoad \in Load /\ NoLoad.part = "none" /\ NoLoad.script = FALSE
<1>1. <<>> \in Seq(Objects) /\ 0 \in 0..(NSlots + 1)
  BY EmptySeq, SlotsAssumption
<1> QED BY <1>1 DEF NoLoad, Load

LEMMA FirstOnes ==
  [o \in Objects |-> [state |-> InitState[o], touchable |-> InitTouchable[o],
                      visible |-> InitState[o] # Gone]] \in [Objects -> Object]
BY SavedGamesAssumption DEF Object

LEMMA NoGameIs == [part |-> "missing", game |-> NoGame] \in File
BY DEF File

(* A load that begins, or ends.                                            *)
LEMMA LoadGameStep ==
  ASSUME SavedInv, LoadGame \/ EndLoad
  PROVE  SavedInv'
<1>1. CASE LoadGame
  <2>1. file \in File /\ file.part = "whole" /\ load.part = "none"
    BY <1>1 DEF LoadGame, MayLoad, Loading, SavedInv, TypeOK
  <2>2. file.game \in Games
    BY <2>1 DEF File
  <2>3. PICK d : d = [NoLoad EXCEPT !.part = "preLoad", !.script = TRUE, !.game = file.game]
    OBVIOUS
  <2>4. /\ d \in Load /\ d.part = "preLoad" /\ d.game = file.game /\ load' = d
    BY <1>1, <2>2, <2>3, NoLoadIs DEF LoadGame, Load
  <2>5. TypeOK' /\ WindowOK'
    BY <1>1, <2>2, <2>4, OnlyLoad DEF LoadGame
  <2>6. LoadOK'
    BY <2>4 DEF LoadOK, CallsScripts
  <2> QED BY <2>4, <2>5, <2>6, NotRestoring DEF SavedInv
<1>2. CASE EndLoad
  <2>1. load' = NoLoad /\ disturbed' = {}
    BY <1>2 DEF EndLoad
  <2>2. TypeOK' /\ WindowOK'
    BY <1>2, <2>1, NoLoadIs, OnlyLoad DEF EndLoad
  <2>3. LoadOK'
    BY <2>1, NoLoadIs DEF LoadOK
  <2> QED BY <2>1, <2>2, <2>3, NoLoadIs, NotRestoring DEF SavedInv
<1> QED BY <1>1, <1>2

LEMMA BootsStep ==
  ASSUME SavedInv, Boots, file' \in File, thumbnail' \in BOOLEAN
  PROVE  SavedInv'
<1>1. restarts' \in 0..MaxRestarts
  BY SavedGamesAssumption DEF Boots, SavedInv, TypeOK
<1>2. inventory' \in [Actors -> Seq(Objects)]
  BY EmptySeq DEF Boots
<1>3. slots' \in [1..NSlots -> Slot]
  BY SlotsAssumption DEF Boots, Slot
<1>4. /\ actorRoom' \in [Actors -> Rooms \cup {None}] /\ owner' \in [Objects -> Actors \cup {None}]
      /\ offset' \in [Actors -> Nat] /\ taken' \subseteq Actors /\ \A a \in Actors : offset'[a] = 0
  BY DEF Boots
<1>5. /\ mode' \subseteq {"on", "temporary"} /\ pCurrentActor' \in Actors \cup {None}
      /\ hudIndex' \in 0..NSlots /\ pRoom' \in Rooms \cup {StartScreen} /\ crashed' \in BOOLEAN
      /\ doings' = doings
  <2>1. 0 \in 0..NSlots
    BY SlotsAssumption
  <2>2. {"on"} \subseteq {"on", "temporary"}
    OBVIOUS
  <2> QED BY <2>1, <2>2 DEF Boots
<1>6. SlotsTypeOK'
  BY <1>2, <1>3, <1>4, <1>5 DEF SavedInv, TypeOK, SlotsTypeOK
<1>7. objects' \in [Objects -> Object] /\ globals' \in Globals
  BY FirstOnes, SavedGamesAssumption DEF Boots
<1>8. load' = NoLoad /\ disturbed' = {}
  BY DEF Boots
<1>9. TypeOK' /\ WindowOK' /\ LoadOK'
  BY <1>1, <1>4, <1>6, <1>7, <1>8, NoLoadIs DEF TypeOK, Loading, WindowOK, LoadOK
<1> QED BY <1>8, <1>9, NoLoadIs, NotRestoring DEF SavedInv

LEMMA RestartStep ==
  ASSUME SavedInv, Restart \/ CrashWhileSaving
  PROVE  SavedInv'
<1>1. file \in File /\ thumbnail \in BOOLEAN
  BY DEF SavedInv, TypeOK
<1>2. \A part \in {"empty", "torn"} : [part |-> part, game |-> NoGame] \in File
  BY DEF File
<1> QED BY <1>1, <1>2, BootsStep DEF Restart, CrashWhileSaving

(* Nothing that is put back changes.                                       *)
LEMMA OutsideStep ==
  ASSUME SavedInv, UNCHANGED <<selection, actorRoom, things, objects, globals, load, restarts, disturbed>>,
         crashed' \in BOOLEAN, doings' \in 0..MaxDoings, file' \in File, thumbnail' \in BOOLEAN
  PROVE  SavedInv'
<1>1. SlotsTypeOK'
  BY DEF SavedInv, TypeOK, SlotsTypeOK, selection, things
<1>2. TypeOK'
  BY <1>1 DEF SavedInv, TypeOK, Loading
<1>3. WindowOK'
  BY WindowSame DEF SavedInv, things
<1>4. LoadOK'
  BY DEF SavedInv, LoadOK, things
<1> QED BY <1>2, <1>3, <1>4, AllTheSame DEF SavedInv

(* What is saved is a game.                                                *)
LEMMA SaveGameStep ==
  ASSUME SavedInv, SaveGame
  PROVE  SavedInv'
<1>1. doings' \in 0..MaxDoings
  BY MayStep DEF SaveGame, SavedInv, TypeOK
<1>2. crashed' \in BOOLEAN /\ file' \in File
  <2>1. CASE pCurrentActor = None
    BY <2>1 DEF SaveGame, SavedInv, TypeOK
  <2>2. CASE pCurrentActor # None
    <3>1. pCurrentActor \in Actors
      BY <2>2 DEF SavedInv, TypeOK, SlotsTypeOK
    <3>2. PICK f : f = [a \in Actors |-> Offset(a)]
      OBVIOUS
    <3>3. f \in [Actors -> Nat]
      BY <3>2 DEF Offset, SavedInv, TypeOK, SlotsTypeOK
    <3>4. Game \in Games
      BY <3>1, <3>2, <3>3 DEF Game, Games, SavedInv, TypeOK, SlotsTypeOK
    <3>5. [part |-> "whole", game |-> Game] \in File
      BY <3>4 DEF File
    <3> QED BY <2>2, <3>5 DEF SaveGame, SavedInv, TypeOK, SlotsTypeOK
  <2> QED BY <2>1, <2>2
<1>3. UNCHANGED <<selection, actorRoom, things, objects, globals, load, restarts, disturbed>>
  BY DEF SaveGame
<1> QED BY <1>1, <1>2, <1>3, OutsideStep DEF SaveGame

LEMMA RefusesFileStep ==
  ASSUME SavedInv, RefusesFile
  PROVE  SavedInv'
<1>1. file \in File /\ file.part \in {"missing", "empty", "torn"}
  BY DEF RefusesFile, SavedInv, TypeOK, File
<1>2. crashed' \in BOOLEAN
  BY <1>1 DEF RefusesFile
<1> QED BY <1>1, <1>2, OutsideStep DEF RefusesFile, saving, SavedInv, TypeOK, SlotsTypeOK

LEMMA PlaysStep ==
  ASSUME SavedInv, Plays
  PROVE  SavedInv'
<1>1. SlotsTypeOK' /\ WindowOK'
  BY PlayerStep DEF Plays, SavedInv, TypeOK
<1>2. load' = load /\ disturbed' = disturbed /\ load.part = "none"
  BY DEF Plays, Loading
<1>3. TypeOK'
  BY <1>1, <1>2 DEF Plays, SavedInv, TypeOK, Loading, saving
<1>4. LoadOK'
  BY <1>2, NoLoadIs DEF SavedInv, LoadOK
<1> QED BY <1>1, <1>2, <1>3, <1>4, NotRestoring DEF SavedInv

(* Whatever scripts do, an inventory that was cleared is known to have been. *)
LEMMA ScriptsLoadOK ==
  ASSUME SavedInv, Scripts
  PROVE  LoadOK'
<1>1. load' = load
  BY DEF Scripts, saving
<1>2. load.part = "none" => disturbed' = disturbed
  BY DEF Scripts, Loading
<1>3. taken \subseteq taken'
  <2>1. CASE ObjectScripts
    BY <2>1, ObjectScriptsStep DEF SavedInv, things
  <2>2. CASE SlotScripts
    BY <2>2 DEF SlotScripts, AddSelectableActor, ActorSlotSelectable, SetsSlots, SetMode, SelectActor,
         Selects, ActorAt, SetRoom, PickupObject, GiveTo, RemoveInventory, RemoveWholeInventory,
         ClearInventory, things
  <2> QED BY <2>1, <2>2 DEF Scripts
<1> QED BY <1>1, <1>2, <1>3 DEF SavedInv, LoadOK

LEMMA AllScriptsStep ==
  ASSUME SavedInv, Scripts
  PROVE  SavedInv'
<1>1. TypeOK' /\ WindowOK' /\ LoadOK'
  BY ScriptsStep, ScriptsLoadOK DEF SavedInv
<1>2. Restored'
  <2>1. CASE Loading
    BY <2>1, ScriptsRestored
  <2>2. CASE ~Loading
    BY <2>2, NotRestoring DEF Scripts, Loading, saving
  <2> QED BY <2>1, <2>2
<1> QED BY <1>1, <1>2 DEF SavedInv

LEMMA Stutters ==
  ASSUME SavedInv, UNCHANGED vars
  PROVE  SavedInv'
BY OutsideStep DEF vars, slotVars, saving, SavedInv, TypeOK, SlotsTypeOK

LEMMA Initially ==
  ASSUME Init
  PROVE  SavedInv
<1>1. /\ FirstSlots \in [1..NSlots -> Slot] /\ 1 \in 1..NSlots
      /\ FirstHeld \in [Actors -> Seq(Objects)]
  BY SlotsAssumption DEF Slot
<1>2. \A o : HolderIn(FirstHeld, o) \in Actors \cup {None}
  BY DEF HolderIn
<1>3. /\ slots \in [1..NSlots -> Slot] /\ pCurrentActor \in Actors \cup {None}
  BY <1>1 DEF Init, InitSlots, Slot
<1>4. actorRoom \in [Actors -> Rooms \cup {None}] /\ pRoom \in Rooms \cup {StartScreen}
  BY SlotsAssumption DEF Init, InitSlots
<1>5. owner \in [Objects -> Actors \cup {None}]
  BY <1>2 DEF Init, InitSlots
<1>6. offset \in [Actors -> Nat] /\ \A a \in Actors : offset[a] = 0
  BY DEF Init, InitSlots
<1>7. hudIndex \in 0..NSlots /\ doings \in 0..MaxDoings
  BY SlotsAssumption DEF Init, InitSlots
<1>8. SlotsTypeOK
  BY <1>1, <1>3, <1>4, <1>5, <1>6, <1>7 DEF Init, InitSlots, SlotsTypeOK
<1>9. objects \in [Objects -> Object] /\ restarts \in 0..MaxRestarts
  BY FirstOnes, SavedGamesAssumption DEF Init
<1>10. load = NoLoad /\ disturbed = {}
  BY DEF Init
<1>11. TypeOK /\ WindowOK /\ LoadOK
  BY <1>6, <1>8, <1>9, <1>10, NoLoadIs, NoGameIs DEF Init, TypeOK, Loading, WindowOK, LoadOK
<1>12. Restored
  BY <1>10, NoLoadIs DEF Restored, PseudoRestored, ObjectsRestored, ActorsRestored, CurrentRestored,
       RoomRestored, SceneRestored, ThingsRestored, PastScene, PastActors, PastSlots, PastSelected
<1> QED BY <1>11, <1>12 DEF SavedInv

LEMMA SavedInvariant == Spec => []SavedInv
<1>1. ASSUME SavedInv, Next PROVE SavedInv'
  BY <1>1, PlaysStep, AllScriptsStep, SaveGameStep, RestartStep, RefusesFileStep, LoadGameStep,
     SceneStep, ActorStep, EndActorsStep, SlotStep, LoadPickupStep, EndSlotStep, LoadRoomsStep,
     LoadCurrentActorStep, RoomsStep, EnterRoomStep, EnteredRoomStep, LoadObjectsStep
     DEF Next, Loads
<1>2. SavedInv /\ [Next]_vars => SavedInv'
  BY <1>1, Stutters
<1> QED BY Initially, <1>2, PTL DEF Spec


-----------------------------------------------------------------------------
(* The theorems                                                            *)

(* Slots, actors, inventories, objects, what a file holds and what a load  *)
(* is at keep their types.                                                 *)
THEOREM SavedGamesKeepTheirType == Spec => []TypeOK
<1>1. SavedInv => TypeOK
  BY DEF SavedInv
<1> QED BY SavedInvariant, <1>1, PTL

(* However many slots there are and whatever scripts make of them: if they *)
(* are in order, the keys for the next and the previous actor lead from    *)
(* the slot of the current one to every selectable slot, with no more      *)
(* presses than there are slots; but for the last one, which "previous"    *)
(* steps over.                                                             *)
THEOREM KeysLeadToEveryone == Spec => []KeysReachEveryone
<1>1. SavedInv => KeysReachEveryone
  BY KeysLead DEF SavedInv, TypeOK
<1> QED BY SavedInvariant, <1>1, PTL

(* For a window of any size: an actor who holds something sees some of it, *)
(* however the player scrolls, scripts give and take, and loads clear and  *)
(* pick up again; unless something was taken from him since he scrolled.   *)
THEOREM WindowsShowWhatIsHeld == Spec => []WindowShowsHeld
<1>1. SavedInv => WindowShowsHeld
  <2> SUFFICES ASSUME SavedInv, NEW a \in Actors, inventory[a] # <<>>, a \notin taken
               PROVE  Offset(a) * Row < Len(inventory[a])
    BY DEF WindowShowsHeld
  <2>1. inventory[a] \in Seq(Objects) /\ offset[a] \in Nat
    BY DEF SavedInv, TypeOK, SlotsTypeOK
  <2>2. Len(inventory[a]) \in Nat \ {0}
    BY <2>1, LenProperties, EmptySeq
  <2>3. offset[a] = 0 \/ offset[a] * Row < Len(inventory[a])
    BY DEF SavedInv, WindowOK
  <2>4. 0 * Row = 0
    BY SlotsAssumption
  <2>5. Offset(a) = 0 \/ Offset(a) = offset[a]
    BY DEF Offset
  <2> QED BY <2>2, <2>3, <2>4, <2>5
<1> QED BY SavedInvariant, <1>1, PTL

(* What is put back of an object is what was saved of it.                  *)
LEMMA AsLoadedIsAsSaved ==
  ASSUME NEW o \in Objects, load.game \in Games, objects[o] = AsLoaded(o),
         load.game.objects[o].state # 0 \/ InitState[o] = 0
  PROVE  LET was == load.game.objects[o] IN
         /\ objects[o].state = was.state
         /\ was.visible => (IsVisible(objects[o]) <=> IsVisible(was))
         /\ IsVisible(was) /\ (was.touchable => InitTouchable[o]) =>
              (objects[o].touchable <=> was.touchable)
<1>1. PICK was : was = load.game.objects[o]
  OBVIOUS
<1>2. was \in Object
  BY <1>1 DEF Games
<1>3. objects[o].state = IF was.state = 0 THEN InitState[o] ELSE was.state
  BY <1>1 DEF AsLoaded, LoadObject, SaveObject
<1>4. objects[o].state = was.state
  BY <1>1, <1>3
<1>5. objects[o].visible
  BY DEF AsLoaded, LoadObject
<1>6. objects[o].touchable <=> IsTouchable(was) /\ InitTouchable[o]
  <2>1. PICK b : b = SaveObject(was)
    OBVIOUS
  <2>2. b.untouchable <=> ~IsTouchable(was)
    BY <2>1 DEF SaveObject
  <2>3. objects[o] = LoadObject(o, b)
    BY <1>1, <2>1 DEF AsLoaded
  <2> QED BY <2>2, <2>3, SavedGamesAssumption DEF LoadObject
<1>7. was.visible => (IsVisible(objects[o]) <=> IsVisible(was))
  BY <1>4, <1>5 DEF IsVisible
<1>8. IsVisible(was) /\ (was.touchable => InitTouchable[o]) =>
        (objects[o].touchable <=> was.touchable)
  BY <1>2, <1>6, SavedGamesAssumption DEF IsTouchable, Object
<1> QED BY <1>1, <1>4, <1>7, <1>8

(* A load puts back the game that was saved, over any game, with scripts   *)
(* called between its parts that may do anything: what they have not       *)
(* changed after it was put back, and what the file holds, is as it was.   *)
THEOREM LoadsRestoreTheGame == Spec => []LoadRestores
<1>1. SavedInv => LoadRestores
  <2> SUFFICES ASSUME SavedInv, load.part = "postLoad"
               PROVE  ObjectsAreAsSaved /\ ActorsAreAsSaved /\ SceneIsAsSaved
    BY DEF LoadRestores, Loaded
  <2>1. /\ load.part \in PastSelected /\ load.part \in PastSlots /\ load.part \in PastScene
        /\ load.game \in Games
    BY DEF PastSelected, PastSlots, PastActors, PastScene, SavedInv, TypeOK, Loading
  <2>2. ObjectsAreAsSaved
    <3>1. ASSUME NEW o \in Objects,
                 Untouched(<<"object", o>>, IF o \in PseudoObjects THEN AfterRooms ELSE {"postLoad"})
          PROVE  objects[o] = AsLoaded(o)
      <4>1. CASE o \in PseudoObjects
        BY <2>1, <3>1, <4>1 DEF SavedInv, Restored, PseudoRestored
      <4>2. CASE o \notin PseudoObjects
        BY <3>1, <4>2 DEF SavedInv, Restored, ObjectsRestored
      <4> QED BY <4>1, <4>2
    <3> QED BY <2>1, <3>1, AsLoadedIsAsSaved DEF ObjectsAreAsSaved
  <2>3. ActorsAreAsSaved
    BY <2>1 DEF ActorsAreAsSaved, SavedInv, Restored, ActorsRestored, CurrentRestored, RoomRestored
  <2>4. SceneIsAsSaved
    BY <2>1 DEF SavedInv, Restored, SceneRestored
  <2> QED BY <2>2, <2>3, <2>4
<1> QED BY SavedInvariant, <1>1, PTL

(* So it does with inventories: each actor of a slot has, after a load,    *)
(* what he had, in its order, but for objects of pseudo-rooms, scrolled as *)
(* it was; and what anybody has, its owner has, unless it lost its owner   *)
(* to a slot that was cleared later.                                       *)
THEOREM LoadsRestoreInventories == Spec => []InventoriesAreAsSaved
<1>1. SavedInv => InventoriesAreAsSaved
  <2> SUFFICES ASSUME SavedInv, load.part = "postLoad", SameSlots, SameThings,
                      NEW i \in 1..NSlots, slots[i].actor # None
               PROVE  /\ inventory[slots[i].actor] = Found(load.game.inventory[slots[i].actor])
                      /\ offset[slots[i].actor] = load.game.offset[slots[i].actor]
                      /\ Owned(slots[i].actor)
    BY DEF InventoriesAreAsSaved, Loaded, SameSlots, SameThings, Owned
  <2>1. load.part \in PastSlots /\ load.part \in PastActors
    BY DEF PastSelected, PastSlots, PastActors
  <2>2. i \in SlotsDone
    BY <2>1 DEF SlotsDone
  <2> QED BY <2>1, <2>2 DEF SavedInv, Restored, ThingsRestored
<1> QED BY SavedInvariant, <1>1, PTL

=============================================================================
