--------------------------- MODULE TalkingProofs ---------------------------
(***************************************************************************)
(* Proofs about Talking and the sounds it plays, for any entities, slots,  *)
(* sounds and loops, any number of lines and presses of the pause key.     *)
(***************************************************************************)
EXTENDS Talking, SequenceTheorems, WellFoundedInduction, TLAPS

(* What is left to play of a sound is what was asked for, less what has    *)
(* been played; a loop is lost when a sound is found paused by update.     *)
RecordOK(r, menu) ==
  /\ r.asked = -1 => r.fate \notin {"over", "evicted"}
  /\ r.asked # -1 => r.plays <= r.asked + r.again
  /\ r.asked # -1 /\ r.loops > 0 => r.plays + r.loops <= r.asked + r.again + 1
  /\ r.asked # -1 /\ r.loops > 0 /\ r.fate = "held" =>
       r.plays + r.loops = r.asked + r.again + 1 \/ menu
  /\ r.fate = "over" /\ r.loops > 0 => r.plays = r.asked + r.again \/ menu
  /\ r.fate # "held" => r.status = "Stopped"

RecordsOK == \A s \in Sids : RecordOK(sound[s], menuInPause)

PauseOK ==
  /\ engine = "Paused" => nPauses > 0
  /\ engine # "Paused" /\ ~menuInPause => \A s \in Held : sound[s].status # "Paused"

(* The inductive invariant of the sounds.                                  *)
SoundInv == SoundsTypeOK /\ RecordsOK /\ PauseOK

-----------------------------------------------------------------------------
(* What becomes of a sound                                                 *)

Statuses == {"Playing", "Paused", "Stopped"}
Fates == {"held", "over", "stopped", "evicted", "refused"}

LEMMA RecordFields ==
  ASSUME NEW r \in SoundRecord
  PROVE  /\ r.asked \in Int /\ r.loops \in Int /\ r.plays \in Nat /\ r.again \in Nat
         /\ r.status \in Statuses /\ r.fate \in Fates
BY DEF SoundRecord, Statuses, Fates

LEMMA NewRecord ==
  ASSUME NEW loops \in {-1} \cup (Nat \ {0}), NEW fate \in {"held", "refused"},
         NEW menu \in BOOLEAN
  PROVE  LET q == NewSound(loops, fate) IN
         /\ q \in SoundRecord /\ RecordOK(q, menu)
         /\ q.fate = fate /\ q.asked = loops /\ q.loops = loops /\ q.status # "Paused"
BY DEF NewSound, SoundRecord, RecordOK

(* A sound is removed: by update after its last loop, by a script, or by a *)
(* sound that takes its slot.                                              *)
Gone(r, fate) == [r EXCEPT !.status = "Stopped", !.fate = fate]

LEMMA GoneRecord ==
  ASSUME NEW r \in SoundRecord, NEW menu \in BOOLEAN, RecordOK(r, menu), r.fate = "held",
         NEW fate \in {"over", "stopped", "evicted"},
         fate \in {"over", "evicted"} => r.asked # -1,
         fate = "over" => r.loops <= 1
  PROVE  /\ Gone(r, fate) \in SoundRecord /\ RecordOK(Gone(r, fate), menu)
         /\ Gone(r, fate).fate = fate /\ Gone(r, fate).asked = r.asked
         /\ Gone(r, fate).loops = r.loops /\ Gone(r, fate).status = "Stopped"
<1> DEFINE q == Gone(r, fate)
<1>1. /\ q \in SoundRecord /\ q.fate = fate /\ q.status = "Stopped" /\ q.asked = r.asked
      /\ q.loops = r.loops /\ q.plays = r.plays /\ q.again = r.again
  BY DEF SoundRecord, Gone
<1>2. /\ r.asked \in Int /\ r.loops \in Int /\ r.plays \in Nat /\ r.again \in Nat
  BY RecordFields
<1> HIDE DEF q
<1>3. RecordOK(q, menu)
  BY <1>1, <1>2 DEF RecordOK
<1> QED
  BY <1>1, <1>3 DEF q

(* Its status changes, and no more.                                        *)
LEMMA StatusRecord ==
  ASSUME NEW r \in SoundRecord, NEW menu \in BOOLEAN, RecordOK(r, menu), r.fate = "held",
         NEW status \in Statuses
  PROVE  LET q == [r EXCEPT !.status = status] IN
         /\ q \in SoundRecord /\ RecordOK(q, menu)
         /\ q.fate = "held" /\ q.asked = r.asked /\ q.loops = r.loops /\ q.status = status
<1> DEFINE q == [r EXCEPT !.status = status]
<1>1. /\ q \in SoundRecord /\ q.fate = "held" /\ q.status = status /\ q.asked = r.asked
      /\ q.loops = r.loops /\ q.plays = r.plays /\ q.again = r.again
  BY DEF SoundRecord, Statuses
<1> HIDE DEF q
<1>3. RecordOK(q, menu)
  BY <1>1 DEF RecordOK
<1> QED
  BY <1>1, <1>3 DEF q

LEMMA SilentRecord ==
  ASSUME NEW r \in SoundRecord, NEW menu \in BOOLEAN, RecordOK(r, menu), r.fate = "held"
  PROVE  LET q == [r EXCEPT !.loops = 0, !.status = "Stopped"] IN
         /\ q \in SoundRecord /\ RecordOK(q, menu)
         /\ q.fate = "held" /\ q.asked = r.asked /\ q.loops = 0 /\ q.status = "Stopped"
<1>l. PICK l \in Int : l = 0
  OBVIOUS
<1> DEFINE q == [r EXCEPT !.loops = l, !.status = "Stopped"]
<1>1. /\ q \in SoundRecord /\ q.fate = "held" /\ q.status = "Stopped" /\ q.asked = r.asked
      /\ q.loops = l /\ q.plays = r.plays /\ q.again = r.again
  BY DEF SoundRecord
<1> HIDE DEF q
<1>3. RecordOK(q, menu)
  BY <1>l, <1>1 DEF RecordOK
<1> QED
  BY <1>l, <1>1, <1>3 DEF q

(* The next loop starts; a paused sound only goes on with the one before.  *)
Looped(r) ==
  [r EXCEPT !.status = "Playing", !.loops = @ - 1,
            !.plays = @ + (IF r.status = "Paused" THEN 0 ELSE 1)]

LEMMA LoopRecord ==
  ASSUME NEW r \in SoundRecord, NEW menu \in BOOLEAN, RecordOK(r, menu), r.fate = "held",
         r.loops > 1, r.status = "Paused" => menu
  PROVE  /\ Looped(r) \in SoundRecord /\ RecordOK(Looped(r), menu)
         /\ Looped(r).fate = "held" /\ Looped(r).asked = r.asked
         /\ Looped(r).status = "Playing"
<1> DEFINE n == IF r.status = "Paused" THEN 0 ELSE 1
           left == r.loops - 1
           plays == r.plays + n
           q == [r EXCEPT !.status = "Playing", !.loops = left, !.plays = plays]
<1>2. /\ r.asked \in Int /\ r.loops \in Int /\ r.plays \in Nat /\ r.again \in Nat
      /\ n \in {0, 1} /\ left \in Int /\ plays \in Nat
  BY RecordFields
<1> HIDE DEF n, left, plays
<1>1. /\ q \in SoundRecord /\ q.fate = "held" /\ q.status = "Playing" /\ q.asked = r.asked
      /\ q.loops = left /\ q.plays = plays /\ q.again = r.again
  BY <1>2 DEF SoundRecord
<1> HIDE DEF q
<1>3. RecordOK(q, menu)
  BY <1>1, <1>2 DEF RecordOK, n, left, plays
<1>4. Looped(r) = q
  BY DEF Looped, q, n, left, plays
<1> QED
  BY <1>1, <1>3, <1>4

(* resumeAllSounds plays it again, from its beginning unless it is paused. *)
LEMMA ResumedRecord ==
  ASSUME NEW r \in SoundRecord, NEW menu \in BOOLEAN, RecordOK(r, menu), r.fate = "held"
  PROVE  LET n == IF r.status = "Paused" THEN 0 ELSE 1
             q == [r EXCEPT !.status = "Playing", !.plays = @ + n, !.again = @ + n] IN
         /\ q \in SoundRecord /\ RecordOK(q, menu)
         /\ q.fate = "held" /\ q.asked = r.asked /\ q.loops = r.loops
         /\ q.status = "Playing"
<1> DEFINE n == IF r.status = "Paused" THEN 0 ELSE 1
           plays == r.plays + n
           again == r.again + n
           q == [r EXCEPT !.status = "Playing", !.plays = plays, !.again = again]
<1>2. /\ r.asked \in Int /\ r.loops \in Int /\ r.plays \in Nat /\ r.again \in Nat
      /\ n \in Nat /\ plays \in Nat /\ again \in Nat
  BY RecordFields
<1> HIDE DEF n, plays, again
<1>1. /\ q \in SoundRecord /\ q.fate = "held" /\ q.status = "Playing" /\ q.asked = r.asked
      /\ q.loops = r.loops /\ q.plays = plays /\ q.again = again
  BY <1>2 DEF SoundRecord
<1> HIDE DEF q
<1>3. RecordOK(q, menu)
  BY <1>1, <1>2 DEF RecordOK, plays, again
<1> QED
  BY <1>1, <1>3 DEF q, n, plays, again

-----------------------------------------------------------------------------
(* The steps of the sounds                                                 *)

LEMMA Least ==
  ASSUME NEW S \in SUBSET Nat, S # {}
  PROVE  \E n \in S : \A k \in S : n <= k
<1>1. PICK n \in S : \A k \in S : ~(<<k, n>> \in OpToRel(<, Nat))
  BY NatLessThanWellFounded, WFMin, Zenon
<1>2. ASSUME NEW k \in S, k < n
      PROVE  <<k, n>> \in OpToRel(<, Nat)
  <2> DEFINE p == <<k, n>>
  <2>1. p \in Nat \X Nat /\ p[1] = k /\ p[2] = n
    OBVIOUS
  <2> HIDE DEF p
  <2>2. p \in {q \in Nat \X Nat : q[1] < q[2]}
    BY <1>2, <2>1
  <2> QED
    BY <2>2 DEF p, OpToRel
<1>3. \A k \in S : ~(k < n)
  BY <1>1, <1>2, Zenon
<1> QED
  BY <1>3

LEMMA SoundFacts ==
  ASSUME SoundInv
  PROVE  /\ nSounds \in Nat /\ Held \subseteq Sids
         /\ \A s \in Sids : /\ sound[s] \in SoundRecord /\ RecordOK(sound[s], menuInPause)
                            /\ sound[s].fate = "held" <=> s \in Held
         /\ \A s \in Held : sound[s].fate = "held"
         /\ \A s \in Sids \ Held : sound[s].status = "Stopped"
BY SoundsAssumption DEF SoundInv, SoundsTypeOK, RecordsOK, RecordOK, Held, Sids, Slots

(* A sound that plays its last loop does not start again, unless the game  *)
(* is resumed.                                                             *)
Fading ==
  \A s \in Sids :
    /\ sound'[s].asked = sound[s].asked
    /\ sound[s].loops <= 1 =>
         /\ sound'[s].loops <= 1
         /\ sound'[s].status = "Playing" => sound[s].status = "Playing" \/ nPauses' > 0

(* The slots do not change.                                                *)
LEMMA SlotsKept ==
  ASSUME SoundInv, UNCHANGED <<slot, nSounds>>,
         engine' \in {"Game", "Paused", "Menu"}, nPauses' \in 0..MaxPauses,
         menuInPause' \in BOOLEAN, PauseOK', DOMAIN sound' = Sids,
         sound' = [s \in DOMAIN sound' |-> sound'[s]],
         \A s \in Sids : /\ sound'[s] \in SoundRecord
                         /\ RecordOK(sound'[s], menuInPause')
                         /\ sound'[s].fate = sound[s].fate
  PROVE  SoundInv'
<1>1. Sids' = Sids /\ Held' = Held
  BY DEF Sids, Held
<1>2. sound' \in [Sids -> SoundRecord]
  OBVIOUS
<1>3. SoundsTypeOK'
  BY <1>1, <1>2 DEF SoundInv, SoundsTypeOK
<1> QED
  BY <1>1, <1>3 DEF SoundInv, RecordsOK

LEMMA SoundEndsStep ==
  ASSUME SoundInv, NEW s \in Sids, SoundEnds(s)
  PROVE  SoundInv' /\ Fading
<1>1. /\ UNCHANGED <<engine, slot, nSounds, nPauses, menuInPause>>
      /\ s \in Held /\ sound[s].status = "Playing"
      /\ sound \in [Sids -> SoundRecord]
      /\ menuInPause \in BOOLEAN
  BY DEF SoundEnds, SoundInv, SoundsTypeOK
<1> DEFINE q == [sound[s] EXCEPT !.status = "Stopped"]
<1>2. /\ q \in SoundRecord /\ RecordOK(q, menuInPause)
      /\ q.fate = "held" /\ q.asked = sound[s].asked /\ q.loops = sound[s].loops
      /\ q.status = "Stopped"
  BY <1>1, SoundFacts, StatusRecord DEF Statuses
<1>3. sound' = [sound EXCEPT ![s] = q]
  BY DEF SoundEnds
<1> HIDE DEF q
<1>4. /\ sound'[s] = q /\ DOMAIN sound' = Sids
      /\ sound' = [u \in DOMAIN sound' |-> sound'[u]]
      /\ \A u \in Sids \ {s} : sound'[u] = sound[u]
  BY <1>1, <1>3
<1>5. \A u \in Sids : /\ sound'[u] \in SoundRecord
                      /\ RecordOK(sound'[u], menuInPause')
                      /\ sound'[u].fate = sound[u].fate
  BY <1>1, <1>2, <1>4, SoundFacts
<1>6. PauseOK'
  <2>1. Held' = Held /\ Held \subseteq Sids /\ PauseOK
    BY <1>1, SoundFacts DEF Held, SoundInv
  <2>2. \A u \in Held : sound'[u].status = "Paused" => sound[u].status = "Paused"
    BY <1>2, <1>4, <2>1
  <2> QED
    BY <1>1, <2>1, <2>2 DEF PauseOK
<1>7. Fading
  BY <1>2, <1>4 DEF Fading
<1> QED
  BY <1>1, <1>4, <1>5, <1>6, <1>7, SlotsKept DEF SoundInv, SoundsTypeOK

LEMMA SilencedStep ==
  ASSUME SoundInv, NEW E, sound' = Silenced(E),
         UNCHANGED <<engine, slot, nSounds, nPauses, menuInPause>>
  PROVE  /\ SoundInv' /\ Fading
         /\ \A s \in Voices(E) : sound'[s].status = "Stopped"
<1> DEFINE q(s) == [sound[s] EXCEPT !.loops = 0, !.status = "Stopped"]
<1>1. Voices(E) \subseteq Held /\ Held \subseteq Sids /\ menuInPause \in BOOLEAN
  BY SoundFacts DEF Voices, SoundInv, SoundsTypeOK
<1>2. ASSUME NEW s \in Voices(E)
      PROVE  /\ q(s) \in SoundRecord /\ RecordOK(q(s), menuInPause)
             /\ q(s).fate = "held" /\ sound[s].fate = "held"
             /\ q(s).asked = sound[s].asked /\ q(s).loops = 0
             /\ q(s).status = "Stopped"
  BY <1>1, SoundFacts, SilentRecord
<1>3. sound' = [s \in Sids |-> IF s \in Voices(E) THEN q(s) ELSE sound[s]]
  BY DEF Silenced
<1> HIDE DEF q
<1>4. /\ DOMAIN sound' = Sids /\ sound' = [u \in DOMAIN sound' |-> sound'[u]]
      /\ \A s \in Voices(E) : sound'[s] = q(s)
      /\ \A s \in Sids \ Voices(E) : sound'[s] = sound[s]
  BY <1>1, <1>3
<1>5. \A u \in Sids : /\ sound'[u] \in SoundRecord
                      /\ RecordOK(sound'[u], menuInPause')
                      /\ sound'[u].fate = sound[u].fate
  BY <1>2, <1>4, SoundFacts
<1>6. PauseOK'
  BY <1>1, <1>2, <1>4 DEF SoundInv, PauseOK, Held
<1>7. Fading
  BY <1>1, <1>2, <1>4 DEF Fading
<1>8. \A s \in Voices(E) : sound'[s].status = "Stopped"
  BY <1>2, <1>4
<1> QED
  BY <1>1, <1>4, <1>5, <1>6, <1>7, <1>8, SlotsKept DEF SoundInv, SoundsTypeOK

LEMMA PauseStep ==
  ASSUME SoundInv, PauseGame
  PROVE  SoundInv' /\ Fading
<1>1. /\ UNCHANGED <<slot, nSounds, menuInPause>>
      /\ engine \in {"Game", "Paused", "Menu"} /\ nPauses \in 0..MaxPauses
      /\ Held \subseteq Sids /\ menuInPause \in BOOLEAN /\ MaxPauses \in Nat
  BY SoundFacts, SoundsAssumption DEF PauseGame, SoundInv, SoundsTypeOK
<1>2. /\ engine' \in {"Game", "Paused"} /\ nPauses' \in 0..MaxPauses /\ nPauses' > 0
  BY <1>1 DEF PauseGame, SoundInv, PauseOK
<1>3. ASSUME NEW s \in Held
      PROVE  /\ Paused(s) \in SoundRecord /\ RecordOK(Paused(s), menuInPause)
             /\ Paused(s).fate = "held" /\ sound[s].fate = "held"
             /\ Paused(s).asked = sound[s].asked /\ Paused(s).loops = sound[s].loops
  <2> DEFINE w == IF sound[s].status = "Playing" THEN "Paused" ELSE sound[s].status
  <2>1. w \in Statuses /\ sound[s] \in SoundRecord /\ RecordOK(sound[s], menuInPause)
        /\ sound[s].fate = "held"
    BY <1>1, SoundFacts, RecordFields DEF Statuses
  <2>2. Paused(s) = [sound[s] EXCEPT !.status = w]
    BY DEF Paused
  <2> HIDE DEF w
  <2> QED
    BY <1>1, <2>1, <2>2, StatusRecord
<1>4. ASSUME NEW s \in Held
      PROVE  /\ Resumed(s) \in SoundRecord /\ RecordOK(Resumed(s), menuInPause)
             /\ Resumed(s).fate = "held" /\ sound[s].fate = "held"
             /\ Resumed(s).asked = sound[s].asked /\ Resumed(s).loops = sound[s].loops
             /\ Resumed(s).status = "Playing"
  <2>1. sound[s] \in SoundRecord /\ RecordOK(sound[s], menuInPause) /\ sound[s].fate = "held"
    BY <1>1, SoundFacts
  <2> QED
    BY <1>1, <2>1, ResumedRecord DEF Resumed, Restarts
<1>5. /\ DOMAIN sound' = Sids /\ sound' = [u \in DOMAIN sound' |-> sound'[u]]
      /\ \A s \in Sids \ Held : sound'[s] = sound[s]
      /\ \A s \in Held : sound'[s] = IF engine' = "Paused" THEN Paused(s) ELSE Resumed(s)
  BY <1>1 DEF PauseGame
<1>6. \A u \in Sids : /\ sound'[u] \in SoundRecord
                      /\ RecordOK(sound'[u], menuInPause')
                      /\ sound'[u].fate = sound[u].fate
  BY <1>1, <1>3, <1>4, <1>5, SoundFacts
<1>7. PauseOK'
  BY <1>1, <1>2, <1>4, <1>5 DEF PauseOK, Held
<1>8. Fading
  BY <1>2, <1>3, <1>4, <1>5 DEF Fading
<1> QED
  BY <1>1, <1>2, <1>5, <1>6, <1>7, <1>8, SlotsKept

(* A sound is played: it takes a slot, and the sound in it is destroyed,   *)
(* or it is given up.                                                      *)
LEMMA PlayStep ==
  ASSUME SoundInv, NEW loops \in Loops \cup {1}, Play(loops)
  PROVE  /\ SoundInv' /\ Fading
         /\ nSounds' = nSounds + 1 /\ nSounds' \in Sids'
         /\ sound'[nSounds'].asked = loops /\ sound'[nSounds'].loops = loops
         /\ nPauses' = nPauses /\ engine' = engine
         /\ Free = {} => sound'[nSounds'].status = "Stopped"
<1>1. /\ UNCHANGED <<engine, nPauses, menuInPause>>
      /\ nSounds' = nSounds + 1 /\ nSounds' \in 0..MaxSounds
      /\ nSounds \in Nat /\ Sids' = Sids \cup {nSounds'} /\ nSounds' \notin Sids
      /\ menuInPause \in BOOLEAN /\ loops \in {-1} \cup (Nat \ {0})
  <2>0. loops \in {-1} \cup (Nat \ {0})
    BY SoundsAssumption
  <2>1. nSounds \in Nat /\ MaxSounds \in Nat /\ nSounds < MaxSounds
    <3>1. nSounds < MaxSounds
      BY Zenon DEF Play
    <3> QED
      BY <3>1, SoundFacts, SoundsAssumption
  <2>2. nSounds' = nSounds + 1 /\ UNCHANGED <<engine, nPauses, menuInPause>>
    BY DEF Play
  <2> QED
    BY <2>0, <2>1, <2>2 DEF SoundInv, SoundsTypeOK, Sids
<1>2. CASE Free = {}
  <2>1. UNCHANGED slot /\ Held' = Held
    BY <1>2 DEF Play, Held
  <2> DEFINE g(s) == IF s = nSounds' THEN NewSound(loops, "refused") ELSE sound[s]
  <2>2. /\ sound' = [s \in Sids' |-> g(s)]
        /\ g(nSounds') = NewSound(loops, "refused")
        /\ \A s \in Sids : g(s) = sound[s]
    BY <1>1, <1>2 DEF Play, Sids
  <2>3. /\ NewSound(loops, "refused") \in SoundRecord
        /\ RecordOK(NewSound(loops, "refused"), menuInPause)
        /\ NewSound(loops, "refused").fate = "refused"
        /\ NewSound(loops, "refused").asked = loops
        /\ NewSound(loops, "refused").loops = loops
    BY <1>1, NewRecord
  <2>3a. NewSound(loops, "refused").status = "Stopped"
    BY DEF NewSound
  <2> HIDE DEF g
  <2>4. /\ sound'[nSounds'] = NewSound(loops, "refused")
        /\ \A s \in Sids : sound'[s] = sound[s]
    BY <1>1, <2>2
  <2>5. sound' \in [Sids' -> SoundRecord]
    BY <1>1, <2>2, <2>3, SoundFacts
  <2>6. /\ slot' \in [Slots' -> 0..nSounds']
        /\ \A i, j \in Slots' : slot'[i] = slot'[j] /\ slot'[i] # 0 => i = j
    BY <1>1, <2>1 DEF SoundInv, SoundsTypeOK, Slots
  <2>7. nSounds' \notin Held'
    BY <1>1, <2>1, SoundFacts
  <2>8. SoundsTypeOK'
    BY <1>1, <2>1, <2>3, <2>4, <2>5, <2>6, <2>7, SoundFacts DEF SoundsTypeOK, SoundInv
  <2>9. RecordsOK'
    BY <1>1, <2>3, <2>4, SoundFacts DEF RecordsOK
  <2>10. PauseOK'
    BY <1>1, <2>1, <2>4, SoundFacts DEF PauseOK, SoundInv
  <2>11. Fading
    BY <2>4 DEF Fading
  <2> QED
    BY <1>1, <2>3, <2>3a, <2>4, <2>8, <2>9, <2>10, <2>11 DEF SoundInv
<1>3. CASE Free # {}
  <2> DEFINE i == CHOOSE j \in Free : \A k \in Free : j <= k
  <2>1. i \in Free
    <3>1. Free \subseteq Nat
      BY DEF Free, Slots
    <3>2. \E j \in Free : \A k \in Free : j <= k
      BY <1>3, <3>1, Least
    <3> QED
      BY <3>2
  <2> DEFINE old == slot[i]
             gone == [sound[old] EXCEPT !.status = "Stopped", !.fate = "evicted"]
             new == NewSound(loops, "held")
             g(s) == CASE s = nSounds' -> new
                       [] s = old      -> gone
                       [] OTHER        -> sound[s]
  <2>2. slot' = [slot EXCEPT ![i] = nSounds'] /\ sound' = [s \in Sids' |-> g(s)]
    BY <1>3 DEF Play, Sids
  <2> HIDE DEF i
  <2>3. /\ i \in Slots /\ Slots' = Slots /\ slot \in [Slots -> 0..nSounds]
        /\ old # 0 => old \in Held /\ old \in Sids /\ ~IsPlaying(old)
    BY <2>1 DEF Free, SoundInv, SoundsTypeOK, Held, Sids, Slots
  <2>4. /\ new \in SoundRecord /\ RecordOK(new, menuInPause) /\ new.fate = "held"
        /\ new.asked = loops /\ new.loops = loops /\ new.status # "Paused"
    BY <1>1, NewRecord
  <2>5. ASSUME old # 0
        PROVE  /\ gone \in SoundRecord /\ RecordOK(gone, menuInPause)
               /\ gone.fate = "evicted" /\ gone.asked = sound[old].asked
               /\ gone.loops = sound[old].loops /\ gone.status = "Stopped"
    <3>1. /\ sound[old] \in SoundRecord /\ RecordOK(sound[old], menuInPause)
          /\ sound[old].fate = "held" /\ sound[old].asked # -1
      BY <2>3, <2>5, SoundFacts DEF IsPlaying
    <3>2. gone = Gone(sound[old], "evicted")
      BY DEF Gone
    <3> HIDE DEF old, gone
    <3> QED
      BY <1>1, <3>1, <3>2, GoneRecord
  <2>6. /\ g(nSounds') = new
        /\ old # 0 => g(old) = gone
        /\ \A s \in Sids \ {old} : g(s) = sound[s]
    BY <1>1, <2>3
  <2> HIDE DEF old, gone, new, g
  <2>7. /\ sound'[nSounds'] = new
        /\ old # 0 => sound'[old] = gone
        /\ \A s \in Sids \ {old} : sound'[s] = sound[s]
    BY <1>1, <2>2, <2>3, <2>6
  <2>8. \A s \in Sids' : sound'[s] \in SoundRecord /\ RecordOK(sound'[s], menuInPause')
    <3>1. \A s \in Sids \ {old} : sound'[s] \in SoundRecord /\ RecordOK(sound'[s], menuInPause')
      BY <1>1, <2>7, SoundFacts
    <3>2. old # 0 => sound'[old] \in SoundRecord /\ RecordOK(sound'[old], menuInPause')
      BY <1>1, <2>5, <2>7
    <3>3. 0 \notin Sids'
      BY <1>1 DEF Sids
    <3> QED
      BY <1>1, <2>4, <2>7, <3>1, <3>2, <3>3
  <2>9. sound' \in [Sids' -> SoundRecord]
    BY <2>2, <2>8
  <2>10. /\ slot'[i] = nSounds'
         /\ \A j \in Slots \ {i} : slot'[j] = slot[j] /\ slot[j] # nSounds'
         /\ slot' \in [Slots -> 0..nSounds']
    BY <1>1, <2>2, <2>3
  <2>11. \A j, k \in Slots : slot'[j] = slot'[k] /\ slot'[j] # 0 => j = k
    BY <1>1, <2>3, <2>10 DEF SoundInv, SoundsTypeOK
  <2>12. Held' = (Held \ {old}) \cup {nSounds'}
    <3>1. \A j \in Slots \ {i} : slot[j] # 0 => slot[j] # old
      BY <2>3 DEF SoundInv, SoundsTypeOK, old
    <3> QED
      BY <1>1, <2>3, <2>10, <3>1 DEF Held, old
  <2>13. \A s \in Sids' : sound'[s].fate = "held" <=> s \in Held'
    <3>1. nSounds' \in Held' /\ sound'[nSounds'].fate = "held"
      BY <2>4, <2>7, <2>12
    <3>2. old # 0 => old \notin Held' /\ sound'[old].fate # "held"
      BY <1>1, <2>3, <2>5, <2>7, <2>12
    <3>3. \A s \in Sids \ {old} : s \in Held' <=> s \in Held
      BY <1>1, <2>12
    <3>4. \A s \in Sids \ {old} : sound'[s].fate = "held" <=> s \in Held'
      BY <2>7, <3>3, SoundFacts
    <3>5. 0 \notin Sids'
      BY <1>1 DEF Sids
    <3> QED
      BY <1>1, <3>1, <3>2, <3>4, <3>5
  <2>14. SoundsTypeOK'
    BY <1>1, <2>3, <2>9, <2>10, <2>11, <2>13 DEF SoundsTypeOK, SoundInv
  <2>15. PauseOK'
    BY <1>1, <2>4, <2>7, <2>12, SoundFacts DEF PauseOK, SoundInv
  <2>16. Fading
    BY <2>3, <2>5, <2>7 DEF Fading, Sids
  <2> QED
    BY <1>1, <1>3, <2>4, <2>7, <2>8, <2>14, <2>15, <2>16 DEF SoundInv, RecordsOK
<1> QED
  BY <1>2, <1>3

(* Some of the sounds held leave their slots, and the others may change.   *)
LEMMA SomeGone ==
  ASSUME SoundInv, NEW S \in SUBSET Held,
         slot' = [i \in Slots |-> IF slot[i] \in S THEN 0 ELSE slot[i]],
         UNCHANGED <<engine, nSounds, nPauses, menuInPause>>,
         sound' = [s \in Sids |-> sound'[s]],
         \A s \in Sids : /\ sound'[s] \in SoundRecord
                         /\ RecordOK(sound'[s], menuInPause),
         \A s \in S : sound'[s].fate # "held",
         \A s \in Sids \ S : sound'[s].fate = sound[s].fate,
         \A s \in Held \ S : sound'[s].status = "Paused" => sound[s].status = "Paused"
  PROVE  SoundInv'
<1>1. Sids' = Sids /\ Slots' = Slots /\ nSounds \in Nat /\ Held \subseteq Sids
  BY SoundFacts DEF Sids, Slots
<1>2. /\ slot \in [Slots -> 0..nSounds]
      /\ \A i, j \in Slots : slot[i] = slot[j] /\ slot[i] # 0 => i = j
  BY DEF SoundInv, SoundsTypeOK
<1>3. /\ \A i \in Slots : slot'[i] = IF slot[i] \in S THEN 0 ELSE slot[i]
      /\ slot' \in [Slots -> 0..nSounds]
  BY <1>1, <1>2
<1>4. \A i, j \in Slots : slot'[i] = slot'[j] /\ slot'[i] # 0 => i = j
  BY <1>2, <1>3
<1>5. Held' = Held \ S
  <2>1. \A i \in Slots : slot'[i] # 0 => slot'[i] \in Held \ S
    BY <1>3 DEF Held
  <2>2. \A i \in Slots : slot[i] \notin S => slot'[i] = slot[i]
    BY <1>3
  <2> QED
    BY <1>1, <2>1, <2>2 DEF Held
<1>6. \A s \in Sids : sound'[s].fate = "held" <=> s \in Held'
  BY <1>5, SoundFacts
<1>7. sound' \in [Sids -> SoundRecord]
  OBVIOUS
<1>8. SoundsTypeOK'
  BY <1>1, <1>3, <1>4, <1>6, <1>7 DEF SoundInv, SoundsTypeOK
<1>9. PauseOK'
  BY <1>5 DEF SoundInv, PauseOK
<1> QED
  BY <1>1, <1>8, <1>9 DEF SoundInv, RecordsOK

LEMMA DestroyStep ==
  ASSUME SoundInv, NEW S \in SUBSET Held, Destroy(S, "stopped"),
         UNCHANGED <<engine, nSounds, nPauses, menuInPause>>
  PROVE  SoundInv' /\ Fading
<1> DEFINE q(s) == Gone(sound[s], "stopped")
<1>1. Held \subseteq Sids /\ menuInPause \in BOOLEAN
  BY SoundFacts DEF SoundInv, SoundsTypeOK
<1>2. ASSUME NEW s \in S
      PROVE  /\ q(s) \in SoundRecord /\ RecordOK(q(s), menuInPause)
             /\ q(s).fate = "stopped" /\ q(s).asked = sound[s].asked
             /\ q(s).loops = sound[s].loops /\ q(s).status = "Stopped"
  <2>1. /\ sound[s] \in SoundRecord /\ RecordOK(sound[s], menuInPause)
        /\ sound[s].fate = "held"
    BY <1>1, SoundFacts
  <2> QED
    BY <1>1, <2>1, GoneRecord
<1>3. sound' = [s \in Sids |-> IF s \in S THEN q(s) ELSE sound[s]]
  BY DEF Destroy, Gone
<1> HIDE DEF q
<1>4. /\ sound' = [s \in Sids |-> sound'[s]]
      /\ \A s \in S : sound'[s] = q(s)
      /\ \A s \in Sids \ S : sound'[s] = sound[s]
  BY <1>1, <1>3
<1>5. slot' = [i \in Slots |-> IF slot[i] \in S THEN 0 ELSE slot[i]]
  BY DEF Destroy
<1>6. \A s \in Sids : sound'[s] \in SoundRecord /\ RecordOK(sound'[s], menuInPause)
  BY <1>1, <1>2, <1>4, SoundFacts
<1>7. Fading
  BY <1>1, <1>2, <1>4 DEF Fading
<1>8. /\ \A s \in S : sound'[s].fate # "held"
      /\ \A s \in Sids \ S : sound'[s].fate = sound[s].fate
      /\ \A s \in Held \ S : sound'[s].status = "Paused" => sound[s].status = "Paused"
  BY <1>1, <1>2, <1>4
<1> QED
  BY <1>4, <1>5, <1>6, <1>7, <1>8, SomeGone

LEMMA StopSoundStep ==
  ASSUME SoundInv, NEW s \in Sids, StopSound(s)
  PROVE  SoundInv' /\ Fading
BY DestroyStep DEF StopSound

LEMMA StopAllSoundsStep ==
  ASSUME SoundInv, StopAllSounds
  PROVE  SoundInv' /\ Fading
BY DestroyStep DEF StopAllSounds

(* The next loop of a sound that has ended, if it has one. As the game is  *)
(* not paused, a sound that is can only have been left so by a menu.       *)
LEMMA UpdateSoundsStep ==
  ASSUME SoundInv, UpdateSounds
  PROVE  SoundInv' /\ Fading
<1> DEFINE over == {s \in Held : ~IsPlaying(s) /\ sound[s].loops <= 1}
           next == {s \in Held : ~IsPlaying(s) /\ sound[s].loops > 1}
           gone(s) == Gone(sound[s], "over")
           loop(s) == Looped(sound[s])
           g(s) == CASE s \in over -> gone(s)
                     [] s \in next -> loop(s)
                     [] OTHER      -> sound[s]
<1>1. /\ Held \subseteq Sids /\ menuInPause \in BOOLEAN
      /\ UNCHANGED <<engine, nSounds, nPauses, menuInPause>> /\ engine # "Paused"
  <2> HIDE DEF over, next, gone, loop, g
  <2>1. Held \subseteq Sids /\ menuInPause \in BOOLEAN
    BY SoundFacts DEF SoundInv, SoundsTypeOK
  <2>2. UNCHANGED <<engine, nSounds, nPauses, menuInPause>> /\ engine # "Paused"
    BY Zenon DEF UpdateSounds
  <2> QED
    BY <2>1, <2>2
<1>2. slot' = [i \in Slots |-> IF slot[i] \in over THEN 0 ELSE slot[i]]
  BY Zenon DEF UpdateSounds
<1>3. sound' = [s \in Sids |-> g(s)]
  BY DEF UpdateSounds, Gone, Looped, Restarts
<1>4. /\ over \subseteq Held /\ next \subseteq Held /\ over \cap next = {}
  <2>1. \A s \in Held : sound[s].loops \in Int
    BY <1>1, SoundFacts, RecordFields
  <2> QED
    BY <2>1
<1>5. /\ \A s \in over : g(s) = gone(s)
      /\ \A s \in next : g(s) = loop(s)
      /\ \A s \in Sids \ (over \cup next) : g(s) = sound[s]
  <2> HIDE DEF over, next, gone, loop
  <2> QED
    BY <1>4
<1>6. ASSUME NEW s \in over
      PROVE  /\ gone(s) \in SoundRecord /\ RecordOK(gone(s), menuInPause)
             /\ gone(s).fate = "over" /\ gone(s).asked = sound[s].asked
             /\ gone(s).loops = sound[s].loops /\ gone(s).status = "Stopped"
  <2>1. s \in Held /\ sound[s].loops <= 1 /\ sound[s].asked # -1
    BY <1>6 DEF IsPlaying
  <2> HIDE DEF over, next, gone, loop, g
  <2>2. /\ sound[s] \in SoundRecord /\ RecordOK(sound[s], menuInPause)
        /\ sound[s].fate = "held"
    BY <1>1, <2>1, SoundFacts
  <2> QED
    BY <1>1, <2>1, <2>2, GoneRecord DEF gone
<1>7. ASSUME NEW s \in next
      PROVE  /\ loop(s) \in SoundRecord /\ RecordOK(loop(s), menuInPause)
             /\ loop(s).fate = "held" /\ loop(s).asked = sound[s].asked
             /\ loop(s).status = "Playing" /\ sound[s].fate = "held" /\ ~(sound[s].loops <= 1)
  <2>1. s \in Held /\ sound[s].loops > 1
    BY <1>7
  <2> HIDE DEF over, next, gone, loop, g
  <2>2. /\ sound[s] \in SoundRecord /\ RecordOK(sound[s], menuInPause)
        /\ sound[s].fate = "held"
    BY <1>1, <2>1, SoundFacts
  <2>3. sound[s].status = "Paused" => menuInPause
    BY <1>1, <2>1 DEF SoundInv, PauseOK
  <2>4. ~(sound[s].loops <= 1)
    BY <2>1, <2>2, RecordFields
  <2> QED
    BY <1>1, <2>1, <2>2, <2>3, <2>4, LoopRecord DEF loop
<1>8. \A s \in over : sound[s].loops <= 1
  OBVIOUS
<1> HIDE DEF over, next, gone, loop, g
<1>9. /\ sound' = [s \in Sids |-> sound'[s]]
      /\ \A s \in over : sound'[s] = gone(s)
      /\ \A s \in next : sound'[s] = loop(s)
      /\ \A s \in Sids \ (over \cup next) : sound'[s] = sound[s]
  BY <1>1, <1>3, <1>4, <1>5
<1>10. \A s \in Sids : sound'[s] \in SoundRecord /\ RecordOK(sound'[s], menuInPause)
  BY <1>6, <1>7, <1>9, SoundFacts
<1>11. /\ \A s \in over : sound'[s].fate # "held"
       /\ \A s \in Sids \ over : sound'[s].fate = sound[s].fate
       /\ \A s \in Held \ over : sound'[s].status = "Paused" => sound[s].status = "Paused"
  BY <1>1, <1>4, <1>6, <1>7, <1>9
<1>12. Fading
  BY <1>6, <1>7, <1>8, <1>9 DEF Fading
<1> QED
  BY <1>1, <1>2, <1>4, <1>9, <1>10, <1>11, <1>12, SomeGone

(* The menus leave the sounds alone: one opened over a pause closes on a   *)
(* game whose sounds are still paused.                                     *)
LEMMA ShowOptionsStep ==
  ASSUME SoundInv, NEW visible \in BOOLEAN, ShowOptions(visible)
  PROVE  SoundInv' /\ Fading
<1>1. /\ UNCHANGED <<slot, nSounds, sound, nPauses>>
      /\ engine' \in {"Menu", "Game"} /\ menuInPause' \in BOOLEAN
      /\ menuInPause => menuInPause'
      /\ engine = "Paused" => menuInPause'
  BY DEF ShowOptions, SoundInv, SoundsTypeOK
<1>2. Sids' = Sids /\ Held' = Held /\ Slots' = Slots
  BY <1>1 DEF Sids, Held, Slots
<1>3. SoundsTypeOK'
  BY <1>1, <1>2 DEF SoundInv, SoundsTypeOK
<1>4. RecordsOK'
  BY <1>1, <1>2 DEF SoundInv, RecordsOK, RecordOK
<1>5. PauseOK'
  BY <1>1, <1>2 DEF SoundInv, PauseOK
<1>6. Fading
  BY <1>1 DEF Fading
<1> QED
  BY <1>3, <1>4, <1>5, <1>6 DEF SoundInv

LEMMA NoSoundStep ==
  ASSUME SoundInv, UNCHANGED soundVars
  PROVE  SoundInv' /\ Fading
BY DEF soundVars, SoundInv, SoundsTypeOK, RecordsOK, PauseOK, Held, Sids, Slots, Fading

-----------------------------------------------------------------------------
(* The sounds, whatever the entities say                                   *)

LEMMA SoundStart == Init => SoundInv
<1> SUFFICES ASSUME SoundsInit PROVE SoundInv
  BY DEF Init
<1>1. Sids = {} /\ 0..nSounds = {0}
  BY DEF SoundsInit, Sids
<1>2. Held = {}
  BY DEF SoundsInit, Held
<1>3. slot \in [Slots -> 0..nSounds] /\ \A i \in Slots : slot[i] = 0
  BY DEF SoundsInit
<1>4. sound \in [Sids -> SoundRecord]
  BY <1>1 DEF SoundsInit, Sids
<1>5. /\ engine = "Game" /\ nSounds \in 0..MaxSounds /\ nPauses \in 0..MaxPauses
      /\ menuInPause \in BOOLEAN
  <2>1. 0 \in 0..MaxSounds /\ 0 \in 0..MaxPauses
    BY SoundsAssumption
  <2> QED
    BY <2>1, Zenon DEF SoundsInit
<1> QED
  BY <1>1, <1>2, <1>3, <1>4, <1>5 DEF SoundInv, SoundsTypeOK, RecordsOK, PauseOK

LEMMA ScriptSound ==
  ASSUME SoundInv, Script
  PROVE  SoundInv' /\ Fading
<1>1. ASSUME NEW E, StopTalking(E)
      PROVE  SoundInv' /\ Fading
  BY <1>1, SilencedStep DEF StopTalking
<1>2. ASSUME NEW e \in Entities, NEW E, Say(e, E)
      PROVE  SoundInv' /\ Fading
  BY <1>2, SilencedStep DEF Say
<1>3. ASSUME NEW loops \in Loops, Play(loops)
      PROVE  SoundInv' /\ Fading
  BY <1>3, PlayStep
<1> QED
  BY <1>1, <1>2, <1>3, StopSoundStep, StopAllSoundsStep DEF Script

LEMMA SoundNext ==
  ASSUME SoundInv, Next
  PROVE  SoundInv' /\ Fading
<1>1. CASE Script
  BY <1>1, ScriptSound
<1>2. CASE Loads
  <2>1. ASSUME NEW time \in 0..MaxTime, BeginLine(time)
        PROVE  SoundInv' /\ Fading
    BY <2>1, NoSoundStep DEF BeginLine
  <2>2. ASSUME BeginVoice
        PROVE  SoundInv' /\ Fading
    BY <2>2, PlayStep DEF BeginVoice
  <2>3. ASSUME NoVoice
        PROVE  SoundInv' /\ Fading
    BY <2>3, NoSoundStep DEF NoVoice
  <2> QED
    BY <1>2, <2>1, <2>2, <2>3 DEF Loads
<1>3. CASE Talks
  BY <1>3, NoSoundStep DEF Talks, UpdateTalk
<1>4. CASE BeginTalk \/ InVoid \/ EndFrame
  BY <1>4, NoSoundStep DEF BeginTalk, InVoid, EndFrame
<1> QED
  BY <1>1, <1>2, <1>3, <1>4, SoundEndsStep, UpdateSoundsStep, PauseStep, ShowOptionsStep
     DEF Next, FrameSounds, PressPause, OpenOptions, CloseOptions

(* The sounds are what SoundsTypeOK says, and SoundInv is inductive.       *)
THEOREM SoundsKeepTheirType == Spec => []SoundInv
<1>1. Init => SoundInv
  BY SoundStart
<1>2. SoundInv /\ [Next]_vars => SoundInv'
  BY SoundNext, NoSoundStep DEF vars
<1> QED
  BY <1>1, <1>2, PTL DEF Spec

(* SoundManager::play and update: an endless sound plays until it is       *)
(* stopped, one asked for n times is started n times.                      *)
THEOREM SoundsPlayAsAsked == Spec => []PlaysAsAsked
<1>1. SoundInv => PlaysAsAsked
  <2>1. ASSUME SoundInv, NEW s \in Sids
        PROVE  /\ sound[s].asked = -1 => sound[s].fate \notin {"over", "evicted"}
               /\ sound[s].asked # -1 => sound[s].plays <= sound[s].asked + sound[s].again
               /\ sound[s].fate = "over" /\ sound[s].loops > 0 =>
                    sound[s].plays = sound[s].asked + sound[s].again \/ menuInPause
    BY <2>1, SoundFacts DEF RecordOK
  <2> QED
    BY <2>1 DEF PlaysAsAsked
<1> QED
  BY <1>1, SoundsKeepTheirType, PTL

(* pauseAllSounds and resumeAllSounds: no sound stays paused in a game     *)
(* that goes on, unless a menu has been opened over the pause.             *)
THEOREM SoundsPausedWithTheGame == Spec => []PausedWithTheGame
<1>1. SoundInv => PausedWithTheGame
  BY DEF SoundInv, PauseOK, PausedWithTheGame
<1> QED
  BY <1>1, SoundsKeepTheirType, PTL

-----------------------------------------------------------------------------
(* What the entities say                                                   *)

(* An entity no script has disturbed has one line being set up at most; as *)
(* long as it has, and whenever it does not talk, none of its voices is    *)
(* heard. The line that update begins stays at the head of the queue.      *)
EntityOK(e) ==
  e \notin disturbed =>
    /\ ~talk[e].broken
    /\ \A i, j \in 1..Len(calls) : calls[i].who = e /\ calls[j].who = e => i = j
    /\ \A i \in 1..Len(calls) : calls[i].who = e =>
         /\ calls[i].in = "sayingLine" => talk[e].talking
         /\ calls[i].next => talk[e].queue # <<>>
    /\ nPauses = 0 => \A s \in voices[e] : sound[s].status = "Playing" =>
         talk[e].talking /\ talk[e].voice = s /\ ~Loading(e)

TalkOK ==
  /\ nLines \in Nat
  /\ talk \in [Entities -> TalkingState]
  /\ calls \in Seq(Call)
  /\ voices \in [Entities -> SUBSET Sids]

(* The voices are played once.                                             *)
VoicesOK ==
  \A e \in Entities : \A s \in voices[e] : sound[s].asked = 1 /\ sound[s].loops <= 1

(* The inductive invariant of what the entities say.                       *)
VoiceInv == SoundInv /\ TalkOK /\ VoicesOK /\ \A e \in Entities : EntityOK(e)

LEMMA Popped ==
  ASSUME NEW S, NEW s \in Seq(S), s # <<>>
  PROVE  LET t == SubSeq(s, 1, Len(s) - 1) IN
         /\ t \in Seq(S) /\ Len(t) = Len(s) - 1 /\ Len(s) \in Nat \ {0}
         /\ \A i \in 1..Len(t) : t[i] = s[i] /\ i \in 1..Len(s) /\ i # Len(s)
<1> DEFINE n == Len(s) - 1
           t == SubSeq(s, 1, n)
<1>1. Len(s) \in Nat \ {0} /\ n \in Nat /\ n <= Len(s) /\ \A i \in 1..Len(s) : s[i] \in S
  OBVIOUS
<1>2. /\ t \in Seq(S) /\ Len(t) = IF 1 <= n THEN n - 1 + 1 ELSE 0
      /\ \A i \in 1..(n - 1 + 1) : t[i] = s[1 + i - 1]
  <2>1. \A i \in 1..n : s[i] \in S
    BY <1>1
  <2> HIDE DEF n
  <2> QED
    BY <1>1, <2>1, SubSeqProperties
<1> HIDE DEF n, t
<1>3. n - 1 + 1 = n /\ \A i \in 1..n : 1 + i - 1 = i
  BY <1>1
<1>4. Len(t) = n
  BY <1>1, <1>2, <1>3
<1>5. \A i \in 1..n : t[i] = s[i]
  BY <1>2, <1>3
<1> QED
  BY <1>1, <1>2, <1>4, <1>5 DEF n, t

LEMMA TopFacts ==
  ASSUME VoiceInv, calls # <<>>
  PROVE  /\ Len(calls) \in Nat \ {0} /\ Len(calls) \in 1..Len(calls)
         /\ Top \in Call /\ Top = calls[Len(calls)]
         /\ Top.who \in Entities /\ Top.line \in Nat /\ Top.next \in BOOLEAN
         /\ Loading(Top.who)
         /\ talk[Top.who] \in TalkingState
<1>1. Len(calls) \in Nat \ {0} /\ Len(calls) \in 1..Len(calls) /\ calls[Len(calls)] \in Call
  BY DEF VoiceInv, TalkOK
<1> QED
  BY <1>1 DEF Top, Call, Loading, VoiceInv, TalkOK

(* The voice of an entity that is heard is in a slot.                      *)
LEMMA HeardIsHeld ==
  ASSUME SoundInv, NEW s \in Sids, sound[s].status = "Playing"
  PROVE  s \in Held /\ IsPlaying(s)
BY SoundFacts DEF IsPlaying

LEMMA VoicesKept ==
  ASSUME VoiceInv, SoundInv', Fading, nSounds' >= nSounds,
         NEW e \in Entities, voices'[e] = voices[e]
  PROVE  /\ voices'[e] \in SUBSET Sids'
         /\ \A s \in voices'[e] : sound'[s].asked = 1 /\ sound'[s].loops <= 1
<1>1. voices[e] \subseteq Sids /\ Sids \subseteq Sids'
  BY SoundFacts DEF VoiceInv, TalkOK, Sids, SoundInv, SoundsTypeOK
<1> QED
  BY <1>1 DEF VoiceInv, VoicesOK, Fading

(* What is not heard is not heard later, as long as the game has never     *)
(* been paused.                                                            *)
LEMMA HeardBefore ==
  ASSUME VoiceInv, Fading, nPauses' = 0, NEW e \in Entities, NEW s \in voices[e],
         sound'[s].status = "Playing"
  PROVE  sound[s].status = "Playing" /\ s \in Held /\ IsPlaying(s)
<1>1. s \in Sids /\ sound[s].loops <= 1
  BY DEF VoiceInv, TalkOK, VoicesOK
<1>2. sound[s].status = "Playing"
  BY <1>1 DEF Fading
<1> QED
  BY <1>1, <1>2, HeardIsHeld DEF VoiceInv

(* An entity that the step does not stop, and for which it begins no line. *)
LEMMA EntityKept ==
  ASSUME VoiceInv, Fading, nPauses' = 0 => nPauses = 0, disturbed \subseteq disturbed',
         NEW e \in Entities, voices'[e] = voices[e],
         talk'[e].broken <=> talk[e].broken,
         talk[e].talking => talk'[e].talking,
         talk'[e].voice = talk[e].voice,
         talk[e].queue # <<>> => talk'[e].queue # <<>>,
         \A i \in 1..Len(calls') : calls'[i].who = e =>
           /\ i \in 1..Len(calls) /\ calls[i].who = e
           /\ calls'[i].in = calls[i].in
           /\ calls'[i].next <=> calls[i].next
  PROVE  EntityOK(e)'
<1> SUFFICES ASSUME e \notin disturbed' PROVE EntityOK(e)'
  BY DEF EntityOK
<1>1. EntityOK(e) /\ e \notin disturbed
  BY DEF VoiceInv
<1>2. \A i, j \in 1..Len(calls') : calls'[i].who = e /\ calls'[j].who = e => i = j
  BY <1>1 DEF EntityOK
<1>3. \A i \in 1..Len(calls') : calls'[i].who = e =>
        /\ calls'[i].in = "sayingLine" => talk'[e].talking
        /\ calls'[i].next => talk'[e].queue # <<>>
  BY <1>1 DEF EntityOK
<1>4. Loading(e)' => Loading(e)
  BY DEF Loading
<1>5. ASSUME nPauses' = 0, NEW s \in voices'[e], sound'[s].status = "Playing"
      PROVE  talk'[e].talking /\ talk'[e].voice = s /\ ~Loading(e)'
  BY <1>1, <1>4, <1>5, HeardBefore DEF EntityOK
<1> QED
  BY <1>1, <1>2, <1>3, <1>5 DEF EntityOK

LEMMA StoppedState ==
  ASSUME NEW t \in TalkingState
  PROVE  /\ Stopped(t) \in TalkingState
         /\ ~Stopped(t).talking /\ Stopped(t).queue = <<>> /\ Stopped(t).voice = 0
         /\ Stopped(t).broken <=> t.broken
         /\ Stopped(t).left = t.left
<1>0. <<>> \in Seq(Nat)
  OBVIOUS
<1>1. PICK q \in Seq(Nat) : q = <<>>
  BY <1>0, Zenon
<1>2. PICK no \in BOOLEAN : no <=> FALSE
  OBVIOUS
<1>3. PICK v \in Nat : v = 0
  OBVIOUS
<1> DEFINE u == [t EXCEPT !.queue = q, !.talking = no, !.voice = v]
<1>4. /\ u \in TalkingState /\ u.talking = no /\ u.queue = q /\ u.voice = v
      /\ u.broken = t.broken /\ u.left = t.left
  BY DEF TalkingState
<1>5. no = FALSE
  BY <1>2
<1>6. u = Stopped(t)
  BY <1>1, <1>3, <1>5 DEF Stopped
<1> HIDE DEF u
<1> QED
  BY <1>1, <1>2, <1>3, <1>4, <1>6

(* An entity that is stopped, unless a call for it is under way.           *)
LEMMA EntityStopped ==
  ASSUME VoiceInv, Fading, nPauses' = 0 => nPauses = 0,
         NEW E \in SUBSET Entities, NEW e \in E, voices'[e] = voices[e],
         disturbed \cup {x \in E : Loading(x)} \subseteq disturbed',
         talk'[e].broken <=> talk[e].broken,
         \A s \in Voices(E) : sound'[s].status = "Stopped",
         \A i \in 1..Len(calls') : calls'[i].who = e =>
           i \in 1..Len(calls) /\ calls[i].who = e
  PROVE  EntityOK(e)'
<1> SUFFICES ASSUME e \notin disturbed' PROVE EntityOK(e)'
  BY DEF EntityOK
<1>1. EntityOK(e) /\ e \notin disturbed /\ ~Loading(e)
  BY DEF VoiceInv
<1>2. \A i \in 1..Len(calls') : calls'[i].who # e
  BY <1>1 DEF Loading
<1>3. ASSUME nPauses' = 0, NEW s \in voices'[e], sound'[s].status = "Playing"
      PROVE  FALSE
  <2>1. sound[s].status = "Playing" /\ s \in Held
    BY <1>3, HeardBefore
  <2>2. talk[e].voice = s
    BY <1>1, <1>3, <2>1 DEF EntityOK
  <2>3. s \in Voices(E)
    BY <2>1, <2>2 DEF Voices
  <2> QED
    BY <1>3, <2>3
<1> QED
  BY <1>1, <1>2, <1>3 DEF EntityOK

(* No entity begins, ends or changes its line.                             *)
LEMMA QuietStep ==
  ASSUME VoiceInv, SoundInv', Fading, nPauses' = 0 => nPauses = 0, nSounds' >= nSounds,
         UNCHANGED <<nLines, talk, calls, voices, disturbed>>
  PROVE  VoiceInv'
<1>1. \A e \in Entities : EntityOK(e)'
  BY EntityKept
<1>2. TalkOK' /\ VoicesOK'
  BY VoicesKept DEF VoiceInv, TalkOK, VoicesOK
<1> QED
  BY <1>1, <1>2 DEF VoiceInv

LEMMA StopTalkingStep ==
  ASSUME VoiceInv, SoundInv', Fading, NEW E \in SUBSET Entities, StopTalking(E)
  PROVE  VoiceInv'
<1>1. /\ talk' = [e \in Entities |-> IF e \in E THEN Stopped(talk[e]) ELSE talk[e]]
      /\ UNCHANGED <<nSounds, nPauses, nLines, calls, voices>>
      /\ disturbed' = disturbed \cup {e \in E : Loading(e)}
  BY DEF StopTalking
<1>2. nSounds \in Nat /\ \A e \in Entities : talk[e] \in TalkingState
  BY SoundFacts DEF VoiceInv, TalkOK
<1>3. talk' \in [Entities -> TalkingState]
  BY <1>1, <1>2, StoppedState
<1>4. \A s \in Voices(E) : sound'[s].status = "Stopped"
  BY SilencedStep DEF StopTalking, VoiceInv
<1>5. ASSUME NEW e \in E
      PROVE  EntityOK(e)'
  <2>1. talk'[e].broken <=> talk[e].broken
    BY <1>1, <1>2, StoppedState
  <2> QED
    BY <1>1, <1>4, <2>1, EntityStopped
<1>6. ASSUME NEW e \in Entities \ E
      PROVE  EntityOK(e)'
  <2>1. talk'[e] = talk[e]
    BY <1>1
  <2> QED
    BY <1>1, <2>1, EntityKept
<1>7. TalkOK' /\ VoicesOK'
  BY <1>1, <1>2, <1>3, VoicesKept DEF VoiceInv, TalkOK, VoicesOK
<1> QED
  BY <1>5, <1>6, <1>7 DEF VoiceInv

(* A line is said: it is queued, or the call of loadId begins it.          *)
LEMMA SayFacts ==
  ASSUME VoiceInv, NEW e \in Entities, NEW others \in SUBSET (Entities \ {e}),
         Say(e, others)
  PROVE  /\ nLines \in Nat /\ nLines' = nLines + 1
         /\ UNCHANGED <<nSounds, nPauses, voices>>
         /\ disturbed' = disturbed \cup {x \in others : Loading(x)}
                         \cup {x \in {e} : ~talk[e].talking /\ Loading(e)}
         /\ talk' \in [Entities -> TalkingState]
         /\ \A x \in others : talk'[x] = Stopped(talk[x])
         /\ \A x \in Entities \ (others \cup {e}) : talk'[x] = talk[x]
         /\ talk[e].talking =>
              /\ calls' = calls
              /\ talk'[e].queue = Append(talk[e].queue, nLines')
              /\ talk'[e].queue # <<>>
              /\ talk'[e].broken <=> talk[e].broken
              /\ talk'[e].talking
              /\ talk'[e].voice = talk[e].voice
         /\ ~talk[e].talking =>
              /\ talk'[e] = talk[e]
              /\ Len(calls') = Len(calls) + 1
         /\ calls' \in Seq(Call)
         /\ \A i \in 1..Len(calls) : i \in 1..Len(calls') /\ calls'[i] = calls[i]
         /\ \A i \in 1..Len(calls') : i \notin 1..Len(calls) =>
              /\ ~talk[e].talking /\ i = Len(calls) + 1
              /\ calls'[i].who = e /\ calls'[i].line = nLines'
              /\ calls'[i].in = "onTalkieID" /\ ~calls'[i].next
<1> DEFINE waits == talk[e].talking
           queued == [talk[e] EXCEPT !.queue = Append(@, nLines')]
           call == [who |-> e, line |-> nLines', in |-> "onTalkieID", next |-> FALSE]
           g(x) == CASE x \in others   -> Stopped(talk[x])
                     [] x = e /\ waits -> [talk[x] EXCEPT !.queue = Append(@, nLines')]
                     [] OTHER          -> talk[x]
<1>0. nLines' = nLines + 1 /\ nLines' \in Nat
  <2>1. nLines \in Nat /\ nLines' = nLines + 1
    BY DEF Say, VoiceInv, TalkOK
  <2> QED
    BY <2>1
<1>1. /\ talk' = [x \in Entities |-> g(x)]
      /\ nLines \in Nat
      /\ calls' = IF waits THEN calls ELSE Append(calls, call)
      /\ disturbed' = disturbed \cup {x \in others : Loading(x)}
                      \cup {x \in {e} : ~waits /\ Loading(e)}
      /\ UNCHANGED <<nSounds, nPauses, voices>>
  BY DEF Say, VoiceInv, TalkOK
<1>2. /\ nSounds \in Nat /\ \A x \in Entities : talk[x] \in TalkingState
      /\ calls \in Seq(Call) /\ talk[e].queue \in Seq(Nat)
  BY SoundFacts DEF VoiceInv, TalkOK, TalkingState
<1>3. /\ queued \in TalkingState /\ queued.queue # <<>>
      /\ queued.broken <=> talk[e].broken
      /\ queued.talking <=> talk[e].talking
      /\ queued.voice = talk[e].voice
      /\ queued.queue = Append(talk[e].queue, nLines')
  <2>0. Append(talk[e].queue, nLines') \in Seq(Nat) /\ Append(talk[e].queue, nLines') # <<>>
    BY <1>0, <1>2
  <2>1. PICK q \in Seq(Nat) : q = Append(talk[e].queue, nLines') /\ q # <<>>
    BY <2>0, Zenon
  <2>2. PICK t \in TalkingState : t = talk[e]
    BY <1>2
  <2>3. [t EXCEPT !.queue = q] \in TalkingState
    BY DEF TalkingState
  <2> QED
    BY <2>1, <2>2, <2>3 DEF TalkingState
<1>4. /\ \A x \in others : g(x) = Stopped(talk[x])
      /\ g(e) = IF waits THEN queued ELSE talk[e]
      /\ \A x \in Entities \ (others \cup {e}) : g(x) = talk[x]
  <2> HIDE DEF waits
  <2> QED
    OBVIOUS
<1>5. /\ call \in Call /\ call.who = e /\ call.in = "onTalkieID" /\ ~call.next
      /\ call.line = nLines'
  BY <1>0 DEF Call
<1> HIDE DEF queued, call, g
<1>6. /\ \A x \in others : talk'[x] = Stopped(talk[x])
      /\ talk'[e] = IF waits THEN queued ELSE talk[e]
      /\ \A x \in Entities \ (others \cup {e}) : talk'[x] = talk[x]
      /\ talk' \in [Entities -> TalkingState]
  <2> HIDE DEF waits
  <2>1. talk' = [x \in Entities |-> g(x)]
    BY <1>1
  <2>2. \A x \in Entities : g(x) \in TalkingState
    BY <1>2, <1>3, <1>4, StoppedState
  <2> QED
    BY <1>4, <2>1, <2>2
<1>7. CASE waits
  BY <1>0, <1>1, <1>2, <1>3, <1>6, <1>7
<1>8. CASE ~waits
  <2>1. /\ calls' \in Seq(Call) /\ Len(calls') = Len(calls) + 1 /\ Len(calls) \in Nat
        /\ \A i \in 1..Len(calls) : i \in 1..Len(calls') /\ calls'[i] = calls[i]
        /\ calls'[Len(calls) + 1] = call
    BY <1>1, <1>2, <1>5, <1>8
  <2>2. \A i \in 1..Len(calls') : i \notin 1..Len(calls) => i = Len(calls) + 1
    BY <2>1
  <2> QED
    BY <1>0, <1>1, <1>5, <1>6, <1>8, <2>1, <2>2
<1> QED
  BY <1>7, <1>8

LEMMA SayStep ==
  ASSUME VoiceInv, SoundInv', Fading, NEW e \in Entities,
         NEW others \in SUBSET (Entities \ {e}), Say(e, others)
  PROVE  VoiceInv'
<1>1. /\ nSounds \in Nat /\ \A x \in Entities : talk[x] \in TalkingState
      /\ others \subseteq Entities
  BY SoundFacts DEF VoiceInv, TalkOK
<1>2. \A s \in Voices(others) : sound'[s].status = "Stopped"
  BY SilencedStep DEF Say, VoiceInv
<1>3. \A x \in Entities \ {e} : \A i \in 1..Len(calls') : calls'[i].who = x =>
        i \in 1..Len(calls) /\ calls'[i] = calls[i]
  BY SayFacts
<1>4. ASSUME NEW x \in others
      PROVE  EntityOK(x)'
  <2>1. talk'[x].broken <=> talk[x].broken
    BY <1>1, SayFacts, StoppedState
  <2>2. \A i \in 1..Len(calls') : calls'[i].who = x => i \in 1..Len(calls) /\ calls[i].who = x
    BY <1>3
  <2>3. disturbed \cup {y \in others : Loading(y)} \subseteq disturbed'
    BY SayFacts
  <2>4. (nPauses' = 0 => nPauses = 0) /\ voices'[x] = voices[x]
    BY SayFacts
  <2> QED
    BY <1>1, <1>2, <2>1, <2>2, <2>3, <2>4, EntityStopped
<1>5. ASSUME NEW x \in Entities \ (others \cup {e})
      PROVE  EntityOK(x)'
  <2>1. talk'[x] = talk[x] /\ voices' = voices /\ nPauses' = nPauses
        /\ disturbed \subseteq disturbed'
    BY SayFacts
  <2> QED
    BY <1>3, <2>1, EntityKept
<1>6. EntityOK(e)'
  <2>0. voices' = voices /\ nPauses' = nPauses /\ disturbed \subseteq disturbed'
    BY SayFacts
  <2>1. CASE talk[e].talking
    <3>1. /\ calls' = calls /\ talk'[e].queue # <<>> /\ talk'[e].talking
          /\ talk'[e].broken <=> talk[e].broken
          /\ talk'[e].voice = talk[e].voice
      BY <2>1, SayFacts
    <3> QED
      BY <2>0, <2>1, <3>1, EntityKept
  <2>2. CASE ~talk[e].talking
    <3> SUFFICES ASSUME e \notin disturbed' PROVE EntityOK(e)'
      BY DEF EntityOK
    <3>1. EntityOK(e) /\ e \notin disturbed /\ ~Loading(e)
      BY <2>2, SayFacts DEF VoiceInv
    <3>2. \A i \in 1..Len(calls') : calls'[i].who = e =>
            i = Len(calls) + 1 /\ calls'[i].in = "onTalkieID" /\ ~calls'[i].next
      BY <3>1, SayFacts DEF Loading
    <3>3. ASSUME nPauses' = 0, NEW s \in voices'[e], sound'[s].status = "Playing"
          PROVE  FALSE
      BY <2>0, <2>2, <3>1, <3>3, HeardBefore DEF EntityOK
    <3>4. talk'[e] = talk[e]
      BY <2>2, SayFacts
    <3> QED
      BY <3>1, <3>2, <3>3, <3>4 DEF EntityOK
  <2> QED
    BY <2>1, <2>2
<1>7. TalkOK' /\ VoicesOK'
  <2>1. /\ talk' \in [Entities -> TalkingState] /\ calls' \in Seq(Call) /\ voices' = voices
        /\ nSounds' = nSounds /\ nLines' \in Nat
    BY SayFacts
  <2> QED
    BY <1>1, <2>1, VoicesKept DEF VoiceInv, TalkOK, VoicesOK
<1> QED
  BY <1>4, <1>5, <1>6, <1>7 DEF VoiceInv

LEMMA BegunCall ==
  ASSUME NEW c \in Call
  PROVE  \E d \in Call : /\ d = [c EXCEPT !.in = "sayingLine"]
                         /\ d.who = c.who /\ d.in = "sayingLine" /\ d.next = c.next
                         /\ d.line = c.line
<1>1. PICK in \in {"onTalkieID", "sayingLine"} : in = "sayingLine"
  OBVIOUS
<1> DEFINE d == [c EXCEPT !.in = in]
<1>2. /\ d \in Call /\ d.who = c.who /\ d.in = in /\ d.next = c.next /\ d.line = c.line
  BY DEF Call
<1>3. d = [c EXCEPT !.in = "sayingLine"]
  BY <1>1
<1> HIDE DEF d
<1> QED
  BY <1>1, <1>2, <1>3

LEMMA BegunState ==
  ASSUME NEW t \in TalkingState, NEW time \in Nat
  PROVE  \E u \in TalkingState : /\ u = [[t EXCEPT !.talking = TRUE] EXCEPT !.left = time]
                                 /\ u.talking /\ u.voice = t.voice
                                 /\ u.queue = t.queue /\ u.broken = t.broken
<1>1. PICK yes \in BOOLEAN : yes = TRUE
  OBVIOUS
<1> DEFINE u == [[t EXCEPT !.talking = yes] EXCEPT !.left = time]
<1>2. /\ u \in TalkingState /\ u.talking = yes /\ u.voice = t.voice
      /\ u.queue = t.queue /\ u.broken = t.broken
  BY DEF TalkingState
<1>3. u = [[t EXCEPT !.talking = TRUE] EXCEPT !.left = time]
  BY <1>1
<1> HIDE DEF u
<1> QED
  BY <1>1, <1>2, <1>3

(* onTalkieID of call n has returned: the line of e begins.                *)
Begins(n, e) ==
  /\ n \in 1..Len(calls) /\ e \in Entities /\ calls[n].who = e
  /\ calls[n].in = "onTalkieID" /\ Loading(e)
  /\ line' = [line EXCEPT ![calls[n].line].fate = "begun"]
  /\ UNCHANGED <<nSounds, nPauses, nLines, voices, disturbed>>
  /\ talk' \in [Entities -> TalkingState]
  /\ talk'[e].talking /\ talk'[e].voice = talk[e].voice
  /\ talk'[e].queue = talk[e].queue /\ talk'[e].broken = talk[e].broken
  /\ \A x \in Entities \ {e} : talk'[x] = talk[x]
  /\ calls' \in Seq(Call) /\ Len(calls') = Len(calls)
  /\ calls'[n].in = "sayingLine"
  /\ calls'[n].who = e /\ calls'[n].line = calls[n].line /\ calls'[n].next = calls[n].next
  /\ \A i \in 1..Len(calls) : i # n => calls'[i] = calls[i]

LEMMA BeginLineFacts ==
  ASSUME VoiceInv, NEW time \in Nat, BeginLine(time)
  PROVE  \E n \in 1..Len(calls), e \in Entities : Begins(n, e)
<1>0. calls # <<>>
  BY DEF BeginLine
<1>n. PICK n \in 1..Len(calls), e \in Entities : n = Len(calls) /\ e = Top.who
  BY <1>0, TopFacts
<1>1. /\ calls # <<>> /\ calls' = [calls EXCEPT ![n].in = "sayingLine"]
      /\ talk' = [talk EXCEPT ![e].talking = TRUE, ![e].left = time]
      /\ UNCHANGED <<nSounds, nPauses, nLines, voices, disturbed>>
      /\ line' = [line EXCEPT ![calls[n].line].fate = "begun"]
      /\ calls[n].in = "onTalkieID"
  BY <1>n DEF BeginLine, soundVars, Top
<1>2. /\ n \in 1..Len(calls) /\ calls \in Seq(Call) /\ calls[n] \in Call /\ e \in Entities
      /\ e = calls[n].who /\ Loading(e) /\ talk[e] \in TalkingState
      /\ talk \in [Entities -> TalkingState] /\ nSounds \in Nat
  BY <1>1, <1>n, TopFacts, SoundFacts DEF VoiceInv, TalkOK
<1>3. PICK c \in Call : /\ c = [calls[n] EXCEPT !.in = "sayingLine"]
                        /\ c.who = e /\ c.in = "sayingLine" /\ c.next = calls[n].next
                        /\ c.line = calls[n].line
  BY <1>2, BegunCall
<1>4. PICK t \in TalkingState : /\ t = [[talk[e] EXCEPT !.talking = TRUE] EXCEPT !.left = time]
                                /\ t.talking /\ t.voice = talk[e].voice
                                /\ t.queue = talk[e].queue /\ t.broken = talk[e].broken
  BY <1>2, BegunState
<1>5. /\ calls' = [calls EXCEPT ![n] = c] /\ calls' \in Seq(Call) /\ Len(calls') = Len(calls)
      /\ calls'[n] = c /\ \A i \in 1..Len(calls) : i # n => calls'[i] = calls[i]
  <2>1. calls' = [calls EXCEPT ![n] = c]
    BY <1>1, <1>3
  <2>2. n \in 1..Len(calls) /\ calls \in Seq(Call) /\ c \in Call
    BY <1>2
  <2> QED
    BY <2>1, <2>2, ExceptSeq
<1>6. /\ talk' \in [Entities -> TalkingState] /\ talk'[e] = t
      /\ \A x \in Entities \ {e} : talk'[x] = talk[x]
  BY <1>1, <1>2, <1>4
<1>7. calls'[n].who = e /\ calls'[n].line = calls[n].line /\ calls'[n].next = calls[n].next
      /\ calls'[n].in = "sayingLine"
  BY <1>3, <1>5
<1>8. talk'[e].talking /\ talk'[e].voice = talk[e].voice
      /\ talk'[e].queue = talk[e].queue /\ talk'[e].broken = talk[e].broken
  BY <1>4, <1>6
<1>9. Begins(n, e)
  BY <1>1, <1>2, <1>5, <1>6, <1>7, <1>8 DEF Begins
<1> QED
  BY <1>9

LEMMA BeginLineStep ==
  ASSUME VoiceInv, SoundInv', Fading, NEW time \in Nat, BeginLine(time)
  PROVE  VoiceInv'
<1>1. PICK n \in 1..Len(calls), e \in Entities : Begins(n, e)
  BY BeginLineFacts
<1>7. \A i \in 1..Len(calls') : /\ i \in 1..Len(calls)
                                /\ calls'[i].who = calls[i].who
                                /\ calls'[i].next = calls[i].next
                                /\ calls[i].who # e => calls'[i].in = calls[i].in
  BY <1>1 DEF Begins
<1>8. ASSUME NEW x \in Entities \ {e}
      PROVE  EntityOK(x)'
  BY <1>1, <1>7, EntityKept DEF Begins
<1>9. EntityOK(e)'
  <2> SUFFICES ASSUME e \notin disturbed' PROVE EntityOK(e)'
    BY DEF EntityOK
  <2>1. EntityOK(e) /\ e \notin disturbed
    BY <1>1 DEF VoiceInv, Begins
  <2>2. ASSUME nPauses' = 0, NEW s \in voices'[e], sound'[s].status = "Playing"
        PROVE  FALSE
    BY <1>1, <2>1, <2>2, HeardBefore DEF EntityOK, Begins
  <2>3. \A i, j \in 1..Len(calls') : calls'[i].who = e /\ calls'[j].who = e => i = j
    BY <1>7, <2>1 DEF EntityOK
  <2>4. \A i \in 1..Len(calls') : calls'[i].who = e /\ calls'[i].next => talk'[e].queue # <<>>
    BY <1>1, <1>7, <2>1 DEF EntityOK, Begins
  <2> QED
    BY <1>1, <2>1, <2>2, <2>3, <2>4 DEF EntityOK, Begins
<1>10. TalkOK' /\ VoicesOK'
  <2>1. nSounds \in Nat
    BY SoundFacts DEF VoiceInv
  <2> QED
    BY <1>1, <2>1, VoicesKept DEF VoiceInv, TalkOK, VoicesOK, Begins
<1> QED
  BY <1>8, <1>9, <1>10 DEF VoiceInv

(* What becomes of the state of an entity when loadId returns.             *)
LEMMA FinishedState ==
  ASSUME NEW t \in TalkingState, NEW voice \in Nat, NEW next \in BOOLEAN
  PROVE  LET u == [t EXCEPT !.voice = voice]
             w == IF ~next           THEN u
                  ELSE IF u.queue # <<>> THEN [u EXCEPT !.queue = Tail(@)]
                  ELSE                        [u EXCEPT !.broken = TRUE]
         IN  /\ w \in TalkingState /\ w.voice = voice
             /\ w.talking <=> t.talking
             /\ (next => t.queue # <<>>) => (w.broken <=> t.broken)
             /\ next /\ t.queue # <<>> => w.queue = Tail(t.queue)
             /\ ~next \/ t.queue = <<>> => w.queue = t.queue
<1> DEFINE u == [t EXCEPT !.voice = voice]
           w == IF ~next           THEN u
                ELSE IF u.queue # <<>> THEN [u EXCEPT !.queue = Tail(@)]
                ELSE                        [u EXCEPT !.broken = TRUE]
           Good == /\ w \in TalkingState /\ w.voice = voice
                   /\ w.talking <=> t.talking
                   /\ (next => t.queue # <<>>) => (w.broken <=> t.broken)
                   /\ next /\ t.queue # <<>> => w.queue = Tail(t.queue)
                   /\ ~next \/ t.queue = <<>> => w.queue = t.queue
<1>1. /\ u \in TalkingState /\ u.voice = voice /\ u.talking = t.talking
      /\ u.queue = t.queue /\ u.broken = t.broken /\ u.queue \in Seq(Nat)
  BY DEF TalkingState
<1> HIDE DEF u
<1>2. ASSUME ~next PROVE Good
  <2>1. w = u
    BY <1>2
  <2> HIDE DEF w
  <2> QED
    BY <1>1, <1>2, <2>1
<1>3. ASSUME next, u.queue # <<>> PROVE Good
  <2>1. PICK q \in Seq(Nat) : q = Tail(u.queue)
    BY <1>1, <1>3, HeadTailProperties
  <2>2. w = [u EXCEPT !.queue = q]
    BY <1>3, <2>1
  <2>3. /\ [u EXCEPT !.queue = q] \in TalkingState
        /\ [u EXCEPT !.queue = q].voice = voice /\ [u EXCEPT !.queue = q].queue = q
        /\ [u EXCEPT !.queue = q].talking = t.talking
        /\ [u EXCEPT !.queue = q].broken = t.broken
    BY <1>1 DEF TalkingState
  <2> HIDE DEF w
  <2> QED
    BY <1>1, <1>3, <2>1, <2>2, <2>3
<1>4. ASSUME next, u.queue = <<>> PROVE Good
  <2>1. PICK yes \in BOOLEAN : yes = TRUE
    OBVIOUS
  <2>2. w = [u EXCEPT !.broken = yes]
    BY <1>4, <2>1
  <2>3. /\ [u EXCEPT !.broken = yes] \in TalkingState
        /\ [u EXCEPT !.broken = yes].voice = voice
        /\ [u EXCEPT !.broken = yes].talking = t.talking
    BY <1>1 DEF TalkingState
  <2> HIDE DEF w
  <2> QED
    BY <1>1, <1>4, <2>2, <2>3
<1>5. Good
  <2> HIDE DEF Good
  <2> QED
    BY <1>2, <1>3, <1>4
<1> HIDE DEF w
<1> QED
  BY <1>5 DEF u, w

(* loadId, call n, returns; update erases the head of the queue.           *)
Returns(n, e, voice) ==
  /\ n \in 1..Len(calls) /\ e \in Entities /\ e = Top.who /\ calls[n].who = e
  /\ calls[n].in = "sayingLine" /\ Loading(e)
  /\ talk' \in [Entities -> TalkingState]
  /\ talk'[e].talking <=> talk[e].talking
  /\ talk'[e].voice = voice
  /\ (calls[n].next => talk[e].queue # <<>>) => (talk'[e].broken <=> talk[e].broken)
  /\ calls[n].next /\ talk[e].queue # <<>> => talk'[e].queue = Tail(talk[e].queue)
  /\ ~calls[n].next \/ talk[e].queue = <<>> => talk'[e].queue = talk[e].queue
  /\ \A x \in Entities \ {e} : talk'[x] = talk[x]
  /\ calls' \in Seq(Call)
  /\ \A i \in 1..Len(calls') : calls'[i] = calls[i] /\ i \in 1..Len(calls) /\ i # n
  /\ \A i \in 1..Len(calls) : i # n => i \in 1..Len(calls')

LEMMA FinishedFacts ==
  ASSUME VoiceInv, calls # <<>>, Top.in = "sayingLine", NEW voice \in Nat, Finished(voice)
  PROVE  \E n \in 1..Len(calls), e \in Entities : Returns(n, e, voice)
<1>1. PICK n \in 1..Len(calls), e \in Entities : n = Len(calls) /\ e = Top.who
  BY TopFacts
<1>2. PICK next \in BOOLEAN : next = Top.next
  BY TopFacts
<1>3. PICK t \in TalkingState : t = talk[e]
  BY DEF VoiceInv, TalkOK
<1> DEFINE u == [t EXCEPT !.voice = voice]
           w == IF ~next           THEN u
                ELSE IF u.queue # <<>> THEN [u EXCEPT !.queue = Tail(@)]
                ELSE                        [u EXCEPT !.broken = TRUE]
<1>4. /\ talk' = [talk EXCEPT ![e] = w]
      /\ calls' = SubSeq(calls, 1, Len(calls) - 1)
  BY <1>1, <1>2, <1>3 DEF Finished
<1>5. /\ w \in TalkingState /\ w.voice = voice
      /\ w.talking <=> t.talking
      /\ (next => t.queue # <<>>) => (w.broken <=> t.broken)
      /\ next /\ t.queue # <<>> => w.queue = Tail(t.queue)
      /\ ~next \/ t.queue = <<>> => w.queue = t.queue
  BY FinishedState
<1> HIDE DEF w
<1>6. /\ talk' \in [Entities -> TalkingState] /\ talk'[e] = w
      /\ \A x \in Entities \ {e} : talk'[x] = talk[x]
  BY <1>4, <1>5 DEF VoiceInv, TalkOK
<1>7. /\ calls' \in Seq(Call) /\ Len(calls') = Len(calls) - 1 /\ Len(calls) \in Nat
      /\ \A i \in 1..Len(calls') : calls'[i] = calls[i] /\ i \in 1..Len(calls) /\ i # n
  BY <1>1, <1>4, Popped DEF VoiceInv, TalkOK
<1>8. calls[n].who = e /\ calls[n].in = "sayingLine" /\ calls[n].next = next /\ Loading(e)
  BY <1>1, <1>2, TopFacts DEF Top
<1>9. \A i \in 1..Len(calls) : i # n => i \in 1..Len(calls')
  BY <1>1, <1>7
<1>10. Returns(n, e, voice)
  BY <1>1, <1>3, <1>5, <1>6, <1>7, <1>8, <1>9 DEF Returns
<1> QED
  BY <1>10

(* The call was the only one of an undisturbed entity, and its voice is    *)
(* the one it has just been given.                                         *)
LEMMA FinishedStep ==
  ASSUME VoiceInv, SoundInv', Fading, nPauses' = nPauses, nSounds' >= nSounds,
         UNCHANGED <<nLines, disturbed>>,
         calls # <<>>, Top.in = "sayingLine", NEW voice \in Nat, Finished(voice),
         voices' \in [Entities -> SUBSET Sids'], VoicesOK',
         \A x \in Entities \ {Top.who} : voices'[x] = voices[x],
         voices'[Top.who] \subseteq voices[Top.who] \cup {voice}
  PROVE  VoiceInv'
<1>1. PICK n \in 1..Len(calls), e \in Entities : Returns(n, e, voice)
  BY FinishedFacts
<1>2. /\ \A x \in Entities \ {e} : voices'[x] = voices[x]
      /\ voices'[e] \subseteq voices[e] \cup {voice}
  BY <1>1 DEF Returns
<1>9. ASSUME NEW x \in Entities \ {e}
      PROVE  EntityOK(x)'
  <2>1. /\ talk'[x] = talk[x]
        /\ \A i \in 1..Len(calls') : calls'[i] = calls[i] /\ i \in 1..Len(calls)
    BY <1>1 DEF Returns
  <2> QED
    BY <1>2, <2>1, EntityKept
<1>10. EntityOK(e)'
  <2> SUFFICES ASSUME e \notin disturbed' PROVE EntityOK(e)'
    BY DEF EntityOK
  <2>1. EntityOK(e) /\ e \notin disturbed
    BY DEF VoiceInv
  <2>2. talk[e].talking /\ (calls[n].next => talk[e].queue # <<>>) /\ ~talk[e].broken
    BY <1>1, <2>1 DEF EntityOK, Returns
  <2>3. \A i \in 1..Len(calls') : calls'[i].who # e
    BY <1>1, <2>1 DEF EntityOK, Returns
  <2>4. ~Loading(e)'
    BY <2>3 DEF Loading
  <2>5. ASSUME nPauses' = 0, NEW s \in voices'[e], sound'[s].status = "Playing"
        PROVE  s = voice
    <3>1. Loading(e)
      BY <1>1 DEF Returns
    <3> QED
      BY <1>2, <2>1, <2>5, <3>1, HeardBefore DEF EntityOK
  <2>6. talk'[e].talking /\ talk'[e].voice = voice /\ ~talk'[e].broken
    BY <1>1, <2>2 DEF Returns
  <2> QED
    BY <2>3, <2>4, <2>5, <2>6 DEF EntityOK
<1>11. TalkOK'
  BY <1>1 DEF VoiceInv, TalkOK, Returns
<1> QED
  BY <1>9, <1>10, <1>11 DEF VoiceInv

LEMMA NoVoiceStep ==
  ASSUME VoiceInv, SoundInv', Fading, NoVoice
  PROVE  VoiceInv'
<1>1. /\ calls # <<>> /\ Top.in = "sayingLine" /\ Finished(talk[Top.who].voice)
      /\ UNCHANGED <<nSounds, nPauses, nLines, voices, disturbed>> /\ nSounds \in Nat
  BY SoundFacts DEF NoVoice, soundVars, VoiceInv
<1>2. talk[Top.who].voice \in Nat
  BY <1>1, TopFacts DEF TalkingState
<1>3. voices' \in [Entities -> SUBSET Sids'] /\ VoicesOK'
  BY <1>1, VoicesKept DEF VoiceInv, TalkOK, VoicesOK
<1> QED
  BY <1>1, <1>2, <1>3, FinishedStep

LEMMA BeginVoiceStep ==
  ASSUME VoiceInv, BeginVoice
  PROVE  VoiceInv'
<1>1. /\ calls # <<>> /\ Top.in = "sayingLine" /\ Play(1)
      /\ UNCHANGED <<nLines, disturbed>> /\ nSounds \in Nat
  BY SoundFacts DEF BeginVoice, VoiceInv
<1>2. /\ SoundInv' /\ Fading /\ nSounds' = nSounds + 1 /\ nSounds' \in Sids'
      /\ sound'[nSounds'].asked = 1 /\ sound'[nSounds'].loops = 1 /\ nPauses' = nPauses
  BY <1>1, PlayStep DEF VoiceInv
<1>3. PICK e \in Entities : e = Top.who
  BY <1>1, TopFacts
<1>4. \A x \in Entities : /\ voices[x] \in SUBSET Sids'
                          /\ \A s \in voices[x] : sound'[s].asked = 1 /\ sound'[s].loops <= 1
  <2>1. /\ voices \in [Entities -> SUBSET Sids] /\ Sids \subseteq Sids'
        /\ VoicesOK
    BY <1>1, <1>2 DEF VoiceInv, TalkOK, Sids
  <2> QED
    BY <1>2, <2>1 DEF VoicesOK, Fading
<1>5. CASE Free = {}
  <2>1. Finished(talk[Top.who].voice) /\ voices' = voices
    BY <1>5 DEF BeginVoice
  <2>2. voices' \in [Entities -> SUBSET Sids'] /\ VoicesOK'
    BY <1>4, <2>1 DEF VoiceInv, TalkOK, VoicesOK
  <2>3. talk[Top.who].voice \in Nat
    BY <1>1, TopFacts DEF TalkingState
  <2> QED
    BY <1>1, <1>2, <2>1, <2>2, <2>3, FinishedStep
<1>6. CASE Free # {}
  <2>1. Finished(nSounds') /\ voices' = [voices EXCEPT ![e] = @ \cup {nSounds'}]
    BY <1>3, <1>6 DEF BeginVoice
  <2>2. /\ voices'[e] = voices[e] \cup {nSounds'}
        /\ \A x \in Entities \ {e} : voices'[x] = voices[x]
        /\ voices' \in [Entities -> SUBSET Sids']
    BY <1>2, <1>4, <2>1 DEF VoiceInv, TalkOK
  <2>3. VoicesOK'
    BY <1>2, <1>4, <2>2 DEF VoicesOK
  <2> QED
    BY <1>1, <1>2, <1>3, <2>1, <2>2, <2>3, FinishedStep
<1> QED
  BY <1>5, <1>6

(* The state of an entity after its update.                                *)
Updated(t, ends) ==
  [[t EXCEPT !.left = IF t.talking /\ @ > 0 THEN @ - 1 ELSE @]
     EXCEPT !.talking = @ /\ ~ends]

LEMMA UpdatedState ==
  ASSUME NEW t \in TalkingState, NEW ends \in BOOLEAN
  PROVE  /\ Updated(t, ends) \in TalkingState
         /\ Updated(t, ends).talking <=> t.talking /\ ~ends
         /\ Updated(t, ends).voice = t.voice /\ Updated(t, ends).queue = t.queue
         /\ Updated(t, ends).broken = t.broken
<1>1. t.left \in Nat /\ t.talking \in BOOLEAN
  BY DEF TalkingState
<1>2. PICK left \in Nat : left = IF t.talking /\ t.left > 0 THEN t.left - 1 ELSE t.left
  BY <1>1
<1>3. PICK talking \in BOOLEAN : talking = (t.talking /\ ~ends)
  BY <1>1
<1> DEFINE v == [t EXCEPT !.left = left]
           u == [v EXCEPT !.talking = talking]
<1>4. v \in TalkingState /\ v.talking = t.talking /\ v.voice = t.voice
      /\ v.queue = t.queue /\ v.broken = t.broken
  BY DEF TalkingState
<1>5. v = [t EXCEPT !.left = IF t.talking /\ @ > 0 THEN @ - 1 ELSE @]
  BY <1>2
<1> HIDE DEF v
<1>6. /\ u \in TalkingState /\ u.talking = talking /\ u.voice = t.voice
      /\ u.queue = t.queue /\ u.broken = t.broken
  BY <1>4 DEF TalkingState
<1>7. u = Updated(t, ends)
  BY <1>3, <1>4, <1>5 DEF Updated
<1> HIDE DEF u
<1> QED
  BY <1>3, <1>6, <1>7

(* update of e: its line goes on, the next one begins, or the talk ends.   *)
Updates(e, over, next, ends) ==
  /\ calls = <<>> /\ UNCHANGED <<nSounds, nPauses, nLines, line, voices, disturbed>>
  /\ over <=> talk[e].talking /\ LineIsOver(talk[e])
  /\ next <=> over /\ ~talk[e].broken /\ talk[e].queue # <<>>
  /\ ends => talk[e].broken \/ (over /\ talk[e].queue = <<>>)
  /\ talk' \in [Entities -> TalkingState]
  /\ talk'[e].talking <=> talk[e].talking /\ ~ends
  /\ talk'[e].voice = talk[e].voice /\ talk'[e].queue = talk[e].queue
  /\ talk'[e].broken = talk[e].broken
  /\ \A x \in Entities \ {e} : talk'[x] = talk[x]
  /\ calls' \in Seq(Call)
  /\ \A i \in 1..Len(calls') :
       /\ next /\ i = 1 /\ calls'[i].who = e /\ calls'[i].line = Head(talk[e].queue)
       /\ calls'[i].in = "onTalkieID" /\ calls'[i].next
  /\ next => Len(calls') = 1

LEMMA UpdateTalkFacts ==
  ASSUME VoiceInv, NEW e \in Entities, UpdateTalk(e)
  PROVE  \E over, next, ends \in BOOLEAN : Updates(e, over, next, ends)
<1>1. PICK t \in TalkingState : t = talk[e]
  BY DEF VoiceInv, TalkOK
<1> DEFINE over == t.talking /\ LineIsOver(t)
           next == over /\ ~t.broken /\ t.queue # <<>>
           c == [who |-> e, line |-> Head(t.queue), in |-> "onTalkieID", next |-> TRUE]
<1>2. /\ calls = <<>> /\ calls' = IF next THEN <<c>> ELSE <<>>
      /\ UNCHANGED <<nSounds, nPauses, nLines, line, voices, disturbed>>
  BY <1>1 DEF UpdateTalk, soundVars
<1>3. PICK ends \in BOOLEAN :
        /\ ends => t.broken \/ (over /\ t.queue = <<>>)
        /\ talk' = [talk EXCEPT ![e].left = IF t.talking /\ @ > 0 THEN @ - 1 ELSE @,
                                ![e].talking = @ /\ ~ends]
  <2>1. PICK ends \in (IF t.broken THEN BOOLEAN ELSE {over /\ t.queue = <<>>}) :
          talk' = [talk EXCEPT ![e].left = IF t.talking /\ @ > 0 THEN @ - 1 ELSE @,
                               ![e].talking = @ /\ ~ends]
    BY <1>1 DEF UpdateTalk
  <2>2. t.broken \in BOOLEAN
    BY DEF TalkingState
  <2>3. ends \in BOOLEAN /\ (ends => t.broken \/ (over /\ t.queue = <<>>))
    <3> HIDE DEF over
    <3>1. CASE t.broken
      BY <2>1, <3>1
    <3>2. CASE ~t.broken
      <4>1. ends = (over /\ t.queue = <<>>)
        BY <2>1, <3>2
      <4> QED
        BY <4>1
    <3> QED
      BY <3>1, <3>2
  <2> QED
    BY <2>1, <2>3
<1> DEFINE u == Updated(t, ends)
<1>4. talk' = [talk EXCEPT ![e] = u]
  BY <1>1, <1>3 DEF VoiceInv, TalkOK, Updated
<1>5. /\ u \in TalkingState
      /\ u.talking <=> t.talking /\ ~ends
      /\ u.voice = t.voice /\ u.queue = t.queue /\ u.broken = t.broken
  BY UpdatedState
<1> HIDE DEF u
<1>6. /\ talk' \in [Entities -> TalkingState] /\ talk'[e] = u
      /\ \A x \in Entities \ {e} : talk'[x] = talk[x]
  BY <1>4, <1>5 DEF VoiceInv, TalkOK
<1>7. /\ c.who = e /\ c.in = "onTalkieID" /\ c.line = Head(t.queue) /\ c.next
      /\ next => c \in Call
  <2>1. next => Head(t.queue) \in Nat
    BY HeadTailProperties DEF TalkingState
  <2> HIDE DEF next
  <2> QED
    BY <2>1 DEF Call
<1> HIDE DEF c
<1>8. /\ calls' \in Seq(Call)
      /\ \A i \in 1..Len(calls') : next /\ i = 1 /\ calls'[i] = c
      /\ next => Len(calls') = 1
  <2> HIDE DEF next
  <2> QED
    BY <1>2, <1>7
<1>9. PICK isOver, isNext \in BOOLEAN : isOver = over /\ isNext = next
  BY DEF TalkingState
<1>10. Updates(e, isOver, isNext, ends)
  <2>1. /\ isOver <=> talk[e].talking /\ LineIsOver(talk[e])
        /\ isNext <=> isOver /\ ~talk[e].broken /\ talk[e].queue # <<>>
        /\ ends => talk[e].broken \/ (isOver /\ talk[e].queue = <<>>)
    BY <1>1, <1>3, <1>9
  <2> HIDE DEF over, next
  <2> QED
    BY <1>1, <1>2, <1>5, <1>6, <1>7, <1>8, <1>9, <2>1 DEF Updates
<1> QED
  BY <1>9, <1>10

LEMMA UpdateTalkStep ==
  ASSUME VoiceInv, SoundInv', Fading, NEW e \in Entities, UpdateTalk(e)
  PROVE  VoiceInv'
<1>1. PICK over, next, ends \in BOOLEAN : Updates(e, over, next, ends)
  BY UpdateTalkFacts
<1>2. ASSUME NEW x \in Entities \ {e}
      PROVE  EntityOK(x)'
  <2>1. /\ talk'[x] = talk[x] /\ UNCHANGED <<nPauses, voices, disturbed>>
        /\ \A i \in 1..Len(calls') : calls'[i].who = e
    BY <1>1 DEF Updates
  <2> QED
    BY <2>1, EntityKept
<1>3. EntityOK(e)'
  <2> SUFFICES ASSUME e \notin disturbed' PROVE EntityOK(e)'
    BY DEF EntityOK
  <2>1. EntityOK(e) /\ e \notin disturbed /\ voices' = voices /\ nPauses' = nPauses
    BY <1>1 DEF VoiceInv, Updates
  <2>2. ASSUME nPauses' = 0, NEW s \in voices'[e], sound'[s].status = "Playing"
        PROVE  talk'[e].talking /\ talk'[e].voice = s /\ ~Loading(e)'
    <3>1. s \in voices[e]
      BY <2>1
    <3>2. sound[s].status = "Playing" /\ s \in Held /\ IsPlaying(s)
      BY <2>2, <3>1, HeardBefore
    <3>3. talk[e].talking /\ talk[e].voice = s /\ ~talk[e].broken
      BY <2>1, <2>2, <3>1, <3>2 DEF EntityOK
    <3>4. ~over
      BY <1>1, <3>2, <3>3 DEF LineIsOver, Updates
    <3>5. ~Loading(e)'
      BY <1>1, <3>4 DEF Loading, Updates
    <3> QED
      BY <1>1, <3>3, <3>4, <3>5 DEF Updates
  <2>3. /\ \A i, j \in 1..Len(calls') : i = j
        /\ \A i \in 1..Len(calls') : calls'[i].in = "onTalkieID" /\ talk'[e].queue # <<>>
        /\ ~talk'[e].broken
    BY <1>1, <2>1 DEF EntityOK, Updates
  <2> QED
    BY <2>2, <2>3 DEF EntityOK
<1>4. TalkOK' /\ VoicesOK'
  <2>1. /\ UNCHANGED <<nSounds, nLines, voices>> /\ nSounds \in Nat
        /\ talk' \in [Entities -> TalkingState] /\ calls' \in Seq(Call)
    BY <1>1, SoundFacts DEF Updates, VoiceInv
  <2> QED
    BY <2>1, VoicesKept DEF VoiceInv, TalkOK, VoicesOK
<1> QED
  BY <1>2, <1>3, <1>4 DEF VoiceInv

LEMMA VoiceStart == Init => VoiceInv
<1> SUFFICES ASSUME Init PROVE VoiceInv
  OBVIOUS
<1>1. SoundInv
  BY SoundStart
<1>2. calls = <<>> /\ voices = [e \in Entities |-> {}] /\ nLines = 0
  BY DEF Init
<1>3. [talking |-> FALSE, voice |-> 0, queue |-> <<>>, left |-> 0, broken |-> FALSE]
        \in TalkingState
  <2>1. <<>> \in Seq(Nat)
    OBVIOUS
  <2> QED
    BY <2>1 DEF TalkingState
<1>4. talk \in [Entities -> TalkingState] /\ \A e \in Entities : ~talk[e].broken
  BY <1>3 DEF Init
<1>5. TalkOK /\ VoicesOK
  BY <1>2, <1>4 DEF TalkOK, VoicesOK
<1>6. \A e \in Entities : EntityOK(e)
  BY <1>2, <1>4 DEF EntityOK
<1> QED
  BY <1>1, <1>5, <1>6 DEF VoiceInv

LEMMA VoiceNext ==
  ASSUME VoiceInv, Next
  PROVE  VoiceInv'
<1>1. SoundInv' /\ Fading
  BY SoundNext DEF VoiceInv
<1>2. nPauses \in Nat /\ nSounds \in Nat
  BY SoundsAssumption, SoundFacts DEF VoiceInv, SoundInv, SoundsTypeOK
<1>3. ASSUME NEW E \in SUBSET Entities, StopTalking(E)
      PROVE  VoiceInv'
  BY <1>1, <1>3, StopTalkingStep
<1>4. ASSUME NEW e \in Entities, NEW E \in SUBSET (Entities \ {e}), Say(e, E)
      PROVE  VoiceInv'
  BY <1>1, <1>4, SayStep
<1>5. CASE Script
  <2>1. ASSUME NEW loops \in Loops, Play(loops), UNCHANGED talkVars
        PROVE  VoiceInv'
    <3>1. nSounds' >= nSounds /\ nPauses' = nPauses
      <4>1. nSounds' = nSounds + 1 /\ nPauses' = nPauses
        BY <2>1, Zenon DEF Play
      <4> QED
        BY <1>2, <4>1
    <3> QED
      BY <1>1, <2>1, <3>1, QuietStep DEF talkVars
  <2>2. ASSUME NEW s \in Sids, StopSound(s), UNCHANGED talkVars
        PROVE  VoiceInv'
    BY <1>1, <1>2, <2>2, QuietStep DEF talkVars, StopSound
  <2>3. ASSUME StopAllSounds, UNCHANGED talkVars
        PROVE  VoiceInv'
    BY <1>1, <1>2, <2>3, QuietStep DEF talkVars, StopAllSounds
  <2> QED
    BY <1>3, <1>4, <1>5, <2>1, <2>2, <2>3 DEF Script
<1>6. CASE Loads
  <2>1. \A time \in 0..MaxTime : time \in Nat
    BY TalkingAssumption
  <2> QED
    BY <1>1, <1>6, <2>1, BeginLineStep, BeginVoiceStep, NoVoiceStep DEF Loads
<1>7. ASSUME NEW s \in Sids, SoundEnds(s), UNCHANGED talkVars
      PROVE  VoiceInv'
  BY <1>1, <1>2, <1>7, QuietStep DEF talkVars, SoundEnds
<1>8. CASE FrameSounds
  <2>1. UNCHANGED <<nSounds, nPauses, nLines, talk, calls, voices, disturbed>>
    BY <1>8, Zenon DEF FrameSounds, UpdateSounds
  <2> QED
    BY <1>1, <1>2, <2>1, QuietStep
<1>9. CASE PressPause
  <2>1. (nPauses' = 0 => nPauses = 0) /\ nSounds' = nSounds
    BY <1>2, <1>9 DEF PressPause, PauseGame
  <2> QED
    BY <1>1, <1>2, <1>9, <2>1, QuietStep DEF PressPause, talkVars
<1>10. CASE OpenOptions \/ CloseOptions
  BY <1>1, <1>2, <1>10, QuietStep DEF OpenOptions, CloseOptions, ShowOptions, talkVars
<1>11. CASE BeginTalk \/ InVoid \/ EndFrame
  BY <1>1, <1>2, <1>11, QuietStep DEF BeginTalk, InVoid, EndFrame, soundVars
<1>12. CASE Talks
  BY <1>1, <1>12, UpdateTalkStep DEF Talks
<1> QED
  BY <1>5, <1>6, <1>7, <1>8, <1>9, <1>10, <1>11, <1>12 DEF Next

(* The types of what the entities say, and what keeps a voice to its line: *)
(* VoiceInv holds whatever the scripts called by loadId say or stop.       *)
THEOREM VoicesKeepTheirLines == Spec => []VoiceInv
<1>1. Init => VoiceInv
  BY VoiceStart
<1>2. VoiceInv /\ [Next]_vars => VoiceInv'
  <2>1. ASSUME VoiceInv, UNCHANGED vars
        PROVE  VoiceInv'
    <3>1. nSounds \in Nat
      BY <2>1, SoundFacts DEF VoiceInv
    <3>2. SoundInv' /\ Fading
      BY <2>1, NoSoundStep DEF vars, VoiceInv
    <3> QED
      BY <2>1, <3>1, <3>2, QuietStep DEF vars, soundVars, talkVars
  <2> QED
    BY <2>1, VoiceNext
<1> QED
  BY <1>1, <1>2, PTL DEF Spec

(* TalkingState::loadId, update and stop: a voice is heard only for the    *)
(* line its entity is saying, and never two of them at a time.             *)
THEOREM TalkingHasOneVoice == Spec => []OneVoice
<1>1. VoiceInv => OneVoice
  BY DEF VoiceInv, EntityOK, OneVoice, Sound
<1> QED
  BY <1>1, VoicesKeepTheirLines, PTL

-----------------------------------------------------------------------------
(* The order of the lines                                                  *)

(* A queue holds lines of its entity, and so does a call.                  *)
LinesTyped ==
  /\ line \in [Lines -> LineRecord]
  /\ \A e \in Entities : \A i \in 1..Len(talk[e].queue) :
       talk[e].queue[i] \in Lines /\ line[talk[e].queue[i]].who = e
  /\ \A i \in 1..Len(calls) :
       calls[i].line \in Lines /\ line[calls[i].line].who = calls[i].who

(* A line is in the queue, and not being begun, or about to be.            *)
Saying(l) == \E i \in 1..Len(calls) : calls[i].line = l /\ calls[i].in = "sayingLine"
Opening(l) == \E i \in 1..Len(calls) : calls[i].line = l /\ calls[i].in = "onTalkieID"
Awaited(e, l) == (l \in Queued(e) /\ ~Saying(l)) \/ Opening(l)

InOrder(e, l) ==
  /\ line[l].fate = "waiting" <=> Awaited(e, l)
  /\ line[l].fate = "begun" =>
       \A k \in 1..(l - 1) : line[k].who = e => line[k].fate # "waiting"

CallInOrder(e, i) ==
  /\ calls[i].in = "onTalkieID" => line[calls[i].line].fate = "waiting"
  /\ calls[i].in = "sayingLine" => line[calls[i].line].fate = "begun"
  /\ calls[i].next => talk[e].queue[1] = calls[i].line
  /\ ~calls[i].next /\ calls[i].in = "onTalkieID" => ~talk[e].talking

(* The queue is sorted, and only its head may have begun: it is erased     *)
(* when the call that begins it returns.                                   *)
BeginsHead(e) ==
  \E k \in 1..Len(calls) : calls[k].who = e /\ calls[k].next /\ calls[k].in = "sayingLine"

Sorted(q) == \A i, j \in 1..Len(q) : i < j => q[i] < q[j]

QueueInOrder(e) ==
  /\ ~talk[e].talking => talk[e].queue = <<>>
  /\ Sorted(talk[e].queue)
  /\ \A i \in 1..Len(talk[e].queue) :
       line[talk[e].queue[i]].fate = "waiting" \/ (i = 1 /\ BeginsHead(e))

OrderOK(e) ==
  e \notin disturbed =>
    /\ QueueInOrder(e)
    /\ \A i \in 1..Len(calls) : calls[i].who = e => CallInOrder(e, i)
    /\ \A l \in Lines : line[l].who = e => InOrder(e, l)

(* The inductive invariant of the lines, with VoiceInv.                    *)
LineInv == LinesTyped /\ \A e \in Entities : OrderOK(e)

LEMMA LineFacts ==
  ASSUME VoiceInv, LineInv
  PROVE  /\ nLines \in Nat /\ Lines \subseteq Nat
         /\ \A l \in Lines : line[l] \in LineRecord /\ line[l].who \in Entities
         /\ \A e \in Entities : talk[e].queue \in Seq(Nat)
         /\ \A i \in 1..Len(calls) : calls[i] \in Call
BY DEF VoiceInv, TalkOK, LineInv, LinesTyped, LineRecord, TalkingState, Lines

(* An entity that the step leaves alone, with its calls and its lines.     *)
LEMMA OrderKept ==
  ASSUME VoiceInv, LineInv, LinesTyped', disturbed \subseteq disturbed',
         NEW e \in Entities,
         talk'[e].queue = talk[e].queue, talk'[e].talking <=> talk[e].talking,
         Lines \subseteq Lines', Lines' \subseteq Nat,
         \A l \in Lines : line'[l].who = line[l].who,
         \A l \in Lines : line[l].who = e => line'[l].fate = line[l].fate,
         \A l \in Lines' \ Lines : line'[l].who # e,
         \A i \in 1..Len(calls') : calls'[i].who = e =>
           i \in 1..Len(calls) /\ calls'[i] = calls[i],
         \A i \in 1..Len(calls) : calls[i].who = e =>
           i \in 1..Len(calls') /\ calls'[i] = calls[i]
  PROVE  OrderOK(e)'
<1> SUFFICES ASSUME e \notin disturbed' PROVE OrderOK(e)'
  BY DEF OrderOK
<1>1. /\ QueueInOrder(e)
      /\ \A i \in 1..Len(calls) : calls[i].who = e => CallInOrder(e, i)
      /\ \A l \in Lines : line[l].who = e => InOrder(e, l)
  BY DEF LineInv, OrderOK
<1>2. \A i \in 1..Len(talk[e].queue) : talk[e].queue[i] \in Lines /\ line[talk[e].queue[i]].who = e
  BY DEF LineInv, LinesTyped
<1>3. QueueInOrder(e)'
  <2>1. \A i \in 1..Len(talk[e].queue) :
          line'[talk[e].queue[i]].fate = line[talk[e].queue[i]].fate
    BY <1>2
  <2>2. BeginsHead(e) => BeginsHead(e)'
    BY DEF BeginsHead
  <2> QED
    BY <1>1, <2>1, <2>2 DEF QueueInOrder
<1>4. ASSUME NEW i \in 1..Len(calls'), calls'[i].who = e
      PROVE  CallInOrder(e, i)'
  <2>1. i \in 1..Len(calls) /\ calls'[i] = calls[i] /\ calls[i].who = e
    BY <1>4
  <2>2. calls[i].line \in Lines /\ line[calls[i].line].who = e
    BY <2>1 DEF LineInv, LinesTyped
  <2>3. CallInOrder(e, i) /\ line'[calls[i].line].fate = line[calls[i].line].fate
    BY <1>1, <2>1, <2>2
  <2> QED
    BY <2>1, <2>3 DEF CallInOrder
<1>5. ASSUME NEW l \in Lines', line'[l].who = e
      PROVE  InOrder(e, l)'
  <2>1. l \in Lines /\ line[l].who = e /\ line'[l].fate = line[l].fate /\ InOrder(e, l)
    BY <1>1, <1>5
  <2>2. /\ Saying(l)' <=> Saying(l)
        /\ Opening(l)' <=> Opening(l)
        /\ Queued(e)' = Queued(e)
    <3>1. \A i \in 1..Len(calls) : calls[i].line = l => calls[i].who = e
      BY <2>1 DEF LineInv, LinesTyped
    <3>2. \A i \in 1..Len(calls') : calls'[i].line = l => calls'[i].who = e
      BY <1>5 DEF LinesTyped
    <3> QED
      BY <3>1, <3>2 DEF Saying, Opening, Queued
  <2>3. \A k \in 1..(l - 1) : k \in Lines /\ line'[k].who = line[k].who
    BY <2>1, LineFacts DEF Lines
  <2> QED
    BY <2>1, <2>2, <2>3 DEF InOrder, Awaited
<1> QED
  BY <1>3, <1>4, <1>5 DEF OrderOK

LEMMA OrderQuiet ==
  ASSUME VoiceInv, LineInv, UNCHANGED <<nLines, line, talk, calls, disturbed>>
  PROVE  LineInv'
<1>1. LinesTyped'
  BY DEF LineInv, LinesTyped, Lines
<1>2. Lines' = Lines /\ Lines \subseteq Nat
  BY LineFacts DEF Lines
<1> QED
  BY <1>1, <1>2, OrderKept DEF LineInv

(* The lines of those who are stopped are cut.                             *)
LEMMA CutLines ==
  ASSUME VoiceInv, LineInv, NEW E \in SUBSET Entities
  PROVE  /\ Cut(E) \in [Lines -> LineRecord]
         /\ \A l \in Lines : Cut(E)[l].who = line[l].who
         /\ \A l \in Lines : line[l].who \notin E => Cut(E)[l].fate = line[l].fate
         /\ \A l \in Lines : line[l].who \in E /\ l \in Queued(line[l].who) =>
              Cut(E)[l].fate = "cut"
         /\ \A l \in Lines : Cut(E)[l].fate = line[l].fate \/ Cut(E)[l].fate = "cut"
<1> DEFINE cut(l) == [line[l] EXCEPT !.fate = "cut"]
           goes(l) == line[l].who \in E /\ l \in Queued(line[l].who)
<1>1. \A l \in Lines : cut(l) \in LineRecord /\ cut(l).who = line[l].who /\ cut(l).fate = "cut"
  BY LineFacts DEF LineRecord
<1>2. Cut(E) = [l \in Lines |-> IF goes(l) THEN cut(l) ELSE line[l]]
  BY DEF Cut, Queued
<1>3. \A l \in Lines : line[l] \in LineRecord
  BY LineFacts
<1> HIDE DEF cut
<1>4. \A l \in Lines : Cut(E)[l] = IF goes(l) THEN cut(l) ELSE line[l]
  BY <1>2
<1>5. Cut(E) \in [Lines -> LineRecord]
  <2> HIDE DEF goes
  <2> QED
    BY <1>1, <1>2, <1>3
<1> QED
  BY <1>1, <1>4, <1>5

LEMMA OrderStopTalking ==
  ASSUME VoiceInv, LineInv, NEW E \in SUBSET Entities, StopTalking(E)
  PROVE  LineInv'
<1>1. /\ talk' = [e \in Entities |-> IF e \in E THEN Stopped(talk[e]) ELSE talk[e]]
      /\ line' = Cut(E)
      /\ UNCHANGED <<nLines, calls>>
      /\ disturbed' = disturbed \cup {e \in E : Loading(e)}
  BY DEF StopTalking
<1>2. Lines' = Lines /\ Lines \subseteq Nat /\ \A e \in Entities : talk[e] \in TalkingState
  BY <1>1, LineFacts DEF Lines, VoiceInv, TalkOK
<1>3. /\ \A e \in E : talk'[e].queue = <<>> /\ ~talk'[e].talking
      /\ \A e \in Entities \ E : talk'[e] = talk[e]
  BY <1>1, <1>2, StoppedState
<1>4. LinesTyped'
  <2>1. /\ line' \in [Lines -> LineRecord]
        /\ \A l \in Lines : line'[l].who = line[l].who
    BY <1>1, CutLines
  <2>2. ASSUME NEW e \in Entities, NEW i \in 1..Len(talk'[e].queue)
        PROVE  talk'[e].queue[i] \in Lines /\ line'[talk'[e].queue[i]].who = e
    <3>1. e \notin E
      BY <1>3, <2>2
    <3> QED
      BY <1>3, <2>1, <2>2, <3>1 DEF LineInv, LinesTyped
  <2>3. \A i \in 1..Len(calls') :
          calls'[i].line \in Lines /\ line'[calls'[i].line].who = calls'[i].who
    BY <1>1, <2>1 DEF LineInv, LinesTyped
  <2> QED
    BY <1>2, <2>1, <2>2, <2>3 DEF LinesTyped
<1>5. ASSUME NEW e \in Entities \ E
      PROVE  OrderOK(e)'
  BY <1>1, <1>2, <1>3, <1>4, CutLines, OrderKept
<1>6. ASSUME NEW e \in E
      PROVE  OrderOK(e)'
  <2> SUFFICES ASSUME e \notin disturbed' PROVE OrderOK(e)'
    BY DEF OrderOK
  <2>1. /\ \A i \in 1..Len(calls) : calls[i].who # e
        /\ \A l \in Lines : line[l].who = e => InOrder(e, l)
    BY <1>1 DEF LineInv, OrderOK, Loading
  <2>2. QueueInOrder(e)'
    BY <1>3 DEF QueueInOrder, Sorted
  <2>3. ASSUME NEW l \in Lines, line[l].who = e
        PROVE  line'[l].fate # "waiting"
    <3>1. ~Opening(l)
      BY <2>1, <2>3 DEF Opening, LineInv, LinesTyped
    <3>2. line[l].fate = "waiting" => l \in Queued(e)
      BY <2>1, <2>3, <3>1 DEF InOrder, Awaited
    <3> QED
      BY <1>1, <2>3, <3>2, CutLines
  <2>4. ASSUME NEW l \in Lines', line'[l].who = e
        PROVE  InOrder(e, l)'
    <3>1. l \in Lines /\ line[l].who = e /\ line'[l].fate # "waiting"
      BY <1>1, <1>2, <2>3, <2>4, CutLines
    <3>2. ~Awaited(e, l)'
      <4>1. Queued(e)' = {}
        BY <1>3 DEF Queued
      <4>2. ~Opening(l)'
        BY <1>1, <2>1, <3>1 DEF Opening, LineInv, LinesTyped
      <4> QED
        BY <4>1, <4>2 DEF Awaited
    <3>3. \A k \in 1..(l - 1) : line'[k].who = e => line'[k].fate # "waiting"
      <4>1. \A k \in 1..(l - 1) : k \in Lines
        BY <3>1, LineFacts DEF Lines
      <4> QED
        BY <1>1, <2>3, <4>1, CutLines
    <3> QED
      BY <3>1, <3>2, <3>3 DEF InOrder
  <2> QED
    BY <1>1, <2>1, <2>2, <2>4 DEF OrderOK
<1> QED
  BY <1>4, <1>5, <1>6 DEF LineInv

LEMMA AppendFacts ==
  ASSUME NEW q \in Seq(Nat), NEW n \in Nat, NEW r, r = Append(q, n)
  PROVE  /\ Len(q) \in Nat /\ Len(r) = Len(q) + 1 /\ r[Len(q) + 1] = n
         /\ \A i \in 1..Len(q) : i \in 1..Len(r) /\ r[i] = q[i]
         /\ \A i \in 1..Len(r) : i \in 1..Len(q) \/ i = Len(q) + 1
OBVIOUS

LEMMA OrderSay ==
  ASSUME VoiceInv, LineInv, NEW e \in Entities,
         NEW others \in SUBSET (Entities \ {e}), Say(e, others)
  PROVE  LineInv'
<1>1. PICK n \in Nat : n = nLines'
  BY SayFacts
<1>2. /\ nLines \in Nat /\ n = nLines + 1 /\ Lines' = Lines \cup {n} /\ n \notin Lines
      /\ Lines = 1..nLines /\ Lines' \subseteq Nat
  BY <1>1, SayFacts DEF Lines
<1> DEFINE new == [who |-> e, fate |-> "waiting"]
<1>3. line' = [l \in 1..n |-> IF l = n THEN new ELSE Cut(others)[l]]
  BY <1>1, Zenon DEF Say
<1>4. new \in LineRecord /\ new.who = e /\ new.fate = "waiting"
  BY DEF LineRecord
<1> HIDE DEF new
<1>5. /\ line' \in [Lines' -> LineRecord]
      /\ line'[n].who = e /\ line'[n].fate = "waiting"
      /\ \A l \in Lines : line'[l].who = line[l].who
      /\ \A l \in Lines : line[l].who \notin others => line'[l].fate = line[l].fate
      /\ \A l \in Lines : line[l].who \in others /\ l \in Queued(line[l].who) =>
           line'[l].fate = "cut"
      /\ \A l \in Lines : line'[l].fate = line[l].fate \/ line'[l].fate = "cut"
  <2>1. 1..n = Lines'
    BY <1>1 DEF Lines
  <2>2. /\ others \in SUBSET Entities
        /\ line'[n] = new
        /\ \A l \in Lines : line'[l] = Cut(others)[l]
    BY <1>2, <1>3, <2>1
  <2>3. \A l \in Lines' : line'[l] \in LineRecord
    BY <1>2, <1>4, <2>2, CutLines
  <2>4. line' \in [Lines' -> LineRecord]
    BY <1>3, <2>1, <2>3
  <2> QED
    BY <1>4, <2>2, <2>4, CutLines
<1>6. /\ \A x \in others : talk'[x].queue = <<>> /\ ~talk'[x].talking
      /\ \A x \in Entities \ (others \cup {e}) : talk'[x] = talk[x]
      /\ \A x \in Entities : talk[x] \in TalkingState /\ talk[x].queue \in Seq(Nat)
  <2>1. \A x \in Entities : talk[x] \in TalkingState /\ talk[x].queue \in Seq(Nat)
    BY DEF VoiceInv, TalkOK, TalkingState
  <2>2. /\ \A x \in others : talk'[x] = Stopped(talk[x])
        /\ \A x \in Entities \ (others \cup {e}) : talk'[x] = talk[x]
    BY SayFacts
  <2> QED
    BY <2>1, <2>2, StoppedState
<1>q. PICK q \in Seq(Nat) : q = talk[e].queue
  BY <1>6
<1>7. \/ /\ talk[e].talking /\ talk'[e].talking /\ calls' = calls
         /\ talk'[e].queue = Append(q, n)
      \/ ~talk[e].talking /\ talk'[e] = talk[e]
  BY <1>1, <1>q, SayFacts
<1>a. talk'[e].queue = Append(q, n) =>
        /\ Len(q) \in Nat /\ Len(talk'[e].queue) = Len(q) + 1
        /\ talk'[e].queue[Len(q) + 1] = n
        /\ \A i \in 1..Len(q) : i \in 1..Len(talk'[e].queue) /\ talk'[e].queue[i] = q[i]
        /\ \A i \in 1..Len(talk'[e].queue) : i \in 1..Len(q) \/ i = Len(q) + 1
  BY AppendFacts
<1>8. /\ \A i \in 1..Len(calls) : i \in 1..Len(calls') /\ calls'[i] = calls[i]
      /\ \A i \in 1..Len(calls') : i \notin 1..Len(calls) =>
           /\ ~talk[e].talking
           /\ calls'[i].who = e /\ calls'[i].line = n
           /\ calls'[i].in = "onTalkieID" /\ ~calls'[i].next
  BY <1>1, SayFacts
<1>9. LinesTyped'
  <2>1. ASSUME NEW x \in Entities, NEW i \in 1..Len(talk'[x].queue)
        PROVE  talk'[x].queue[i] \in Lines' /\ line'[talk'[x].queue[i]].who = x
    <3>1. CASE x \in others
      BY <1>6, <2>1, <3>1
    <3>2. CASE talk'[x] = talk[x]
      <4>1. talk'[x].queue[i] \in Lines /\ line[talk'[x].queue[i]].who = x
        BY <2>1, <3>2 DEF LineInv, LinesTyped
      <4> QED
        BY <1>2, <1>5, <4>1
    <3>3. CASE x = e /\ talk'[e].queue = Append(q, n)
      <4>1. \A j \in 1..Len(q) : q[j] \in Lines /\ line[q[j]].who = e
        BY <1>q DEF LineInv, LinesTyped
      <4>2. CASE i \in 1..Len(q)
        <5>1. talk'[x].queue[i] = q[i]
          BY <1>a, <3>3, <4>2
        <5> QED
          BY <1>2, <1>5, <3>3, <4>1, <4>2, <5>1
      <4>3. CASE i = Len(q) + 1
        <5>1. talk'[x].queue[i] = n
          BY <1>a, <3>3, <4>3
        <5> QED
          BY <1>2, <1>5, <3>3, <5>1
      <4> QED
        BY <1>a, <2>1, <3>3, <4>2, <4>3
    <3> QED
      BY <1>6, <1>7, <3>1, <3>2, <3>3
  <2>2. \A i \in 1..Len(calls') :
          calls'[i].line \in Lines' /\ line'[calls'[i].line].who = calls'[i].who
    <3> SUFFICES ASSUME NEW i \in 1..Len(calls')
                 PROVE  calls'[i].line \in Lines' /\ line'[calls'[i].line].who = calls'[i].who
      OBVIOUS
    <3>1. CASE i \in 1..Len(calls)
      <4>1. calls'[i] = calls[i] /\ calls[i].line \in Lines
            /\ line[calls[i].line].who = calls[i].who
        BY <1>8, <3>1 DEF LineInv, LinesTyped
      <4> QED
        BY <1>2, <1>5, <4>1
    <3>2. CASE i \notin 1..Len(calls)
      BY <1>2, <1>5, <1>8, <3>2
    <3> QED
      BY <3>1, <3>2
  <2>3. line' \in [Lines' -> LineRecord]
    BY <1>5
  <2> QED
    BY <2>1, <2>2, <2>3, Zenon DEF LinesTyped
<1>10. disturbed \subseteq disturbed' /\ \A x \in others : x \notin disturbed' => ~Loading(x)
  BY SayFacts
<1>11. ASSUME NEW x \in Entities \ (others \cup {e})
       PROVE  OrderOK(x)'
  <2>1. /\ \A l \in Lines : line[l].who = x => line'[l].fate = line[l].fate
        /\ \A l \in Lines' \ Lines : line'[l].who # x
        /\ Lines \subseteq Lines'
    BY <1>2, <1>5
  <2>2. /\ talk'[x] = talk[x]
        /\ \A i \in 1..Len(calls') : calls'[i].who = x => i \in 1..Len(calls) /\ calls'[i] = calls[i]
        /\ \A i \in 1..Len(calls) : i \in 1..Len(calls') /\ calls'[i] = calls[i]
    BY <1>6, <1>8
  <2> QED
    BY <1>2, <1>5, <1>9, <1>10, <2>1, <2>2, OrderKept
<1>12. ASSUME NEW x \in others
       PROVE  OrderOK(x)'
  <2> SUFFICES ASSUME x \notin disturbed' PROVE OrderOK(x)'
    BY DEF OrderOK
  <2>1. /\ \A i \in 1..Len(calls) : calls[i].who # x
        /\ \A l \in Lines : line[l].who = x => InOrder(x, l)
    BY <1>10 DEF LineInv, OrderOK, Loading
  <2>2. \A i \in 1..Len(calls') : calls'[i].who # x
    BY <1>8, <2>1
  <2>3. QueueInOrder(x)'
    BY <1>6 DEF QueueInOrder, Sorted
  <2>4. ASSUME NEW l \in Lines, line[l].who = x
        PROVE  line'[l].fate # "waiting"
    <3>1. ~Opening(l)
      BY <2>1, <2>4 DEF Opening, LineInv, LinesTyped
    <3>2. line[l].fate = "waiting" => l \in Queued(x)
      BY <2>1, <2>4, <3>1 DEF InOrder, Awaited
    <3> QED
      BY <1>5, <2>4, <3>2
  <2>5. ASSUME NEW l \in Lines', line'[l].who = x
        PROVE  InOrder(x, l)'
    <3>1. l \in Lines /\ line[l].who = x /\ line'[l].fate # "waiting"
      BY <1>2, <1>5, <2>4, <2>5
    <3>2. ~Awaited(x, l)'
      <4>1. Queued(x)' = {}
        BY <1>6 DEF Queued
      <4>2. ~Opening(l)'
        BY <1>9, <2>2, <2>5 DEF Opening, LinesTyped
      <4> QED
        BY <4>1, <4>2 DEF Awaited
    <3>3. \A k \in 1..(l - 1) : line'[k].who = x => line'[k].fate # "waiting"
      <4>1. \A k \in 1..(l - 1) : k \in Lines
        BY <1>2, <3>1
      <4> QED
        BY <1>5, <2>4, <4>1
    <3> QED
      BY <3>1, <3>2, <3>3 DEF InOrder
  <2> QED
    BY <2>2, <2>3, <2>5 DEF OrderOK
<1>13. OrderOK(e)'
  <2> SUFFICES ASSUME e \notin disturbed' PROVE OrderOK(e)'
    BY DEF OrderOK
  <2>1. /\ QueueInOrder(e)
        /\ \A i \in 1..Len(calls) : calls[i].who = e => CallInOrder(e, i)
        /\ \A l \in Lines : line[l].who = e => InOrder(e, l)
    BY <1>10 DEF LineInv, OrderOK
  <2>2. /\ \A i \in 1..Len(talk[e].queue) : talk[e].queue[i] \in Lines /\ line[talk[e].queue[i]].who = e
        /\ \A i \in 1..Len(calls) : calls[i].line \in Lines /\ line[calls[i].line].who = calls[i].who
    BY DEF LineInv, LinesTyped
  <2>3. \A l \in Lines : line[l].who = e => line'[l].fate = line[l].fate
    BY <1>5
  <2>4. QueueInOrder(e)'
    <3>1. BeginsHead(e) => BeginsHead(e)'
      BY <1>8 DEF BeginsHead
    <3>2. \A i \in 1..Len(q) : line'[q[i]].fate = "waiting" \/ (i = 1 /\ BeginsHead(e)')
      BY <1>q, <2>1, <2>2, <2>3, <3>1 DEF QueueInOrder
    <3>3. CASE talk'[e] = talk[e]
      BY <1>q, <2>1, <3>2, <3>3 DEF QueueInOrder
    <3>4. CASE talk[e].talking /\ talk'[e].talking /\ calls' = calls
               /\ talk'[e].queue = Append(q, n)
      <4> DEFINE r == talk'[e].queue
      <4>1. (\A i \in 1..Len(q) : q[i] < n) /\ Sorted(q)
        BY <1>2, <1>q, <2>1, <2>2 DEF QueueInOrder
      <4>2. Sorted(r)
        <5> HIDE DEF r
        <5> QED
          BY <1>a, <3>4, <4>1 DEF r, Sorted
      <4>3. \A i \in 1..Len(r) : line'[r[i]].fate = "waiting" \/ (i = 1 /\ BeginsHead(e)')
        BY <1>5, <1>a, <3>2, <3>4
      <4> QED
        BY <3>4, <4>2, <4>3 DEF QueueInOrder
    <3> QED
      BY <1>7, <3>3, <3>4
  <2>5. ASSUME NEW i \in 1..Len(calls'), calls'[i].who = e
        PROVE  CallInOrder(e, i)'
    <3>1. CASE i \in 1..Len(calls)
      <4>1. CallInOrder(e, i) /\ calls'[i] = calls[i]
        BY <1>8, <2>1, <2>5, <3>1
      <4>2. line'[calls[i].line].fate = line[calls[i].line].fate
        BY <2>2, <2>3, <2>5, <3>1, <4>1
      <4>3. calls[i].next => talk'[e].queue[1] = talk[e].queue[1]
        <5>1. calls[i].next => talk[e].queue # <<>>
          BY <1>10, <2>5, <3>1, <4>1 DEF VoiceInv, EntityOK
        <5> QED
          BY <1>7, <1>q, <1>a, <5>1
      <4>4. talk'[e].talking => talk[e].talking
        BY <1>7
      <4> QED
        BY <4>1, <4>2, <4>3, <4>4 DEF CallInOrder
    <3>2. CASE i \notin 1..Len(calls)
      <4>1. /\ calls'[i].line = n /\ calls'[i].in = "onTalkieID" /\ ~calls'[i].next
            /\ ~talk[e].talking
        BY <1>8, <3>2
      <4> QED
        BY <1>5, <1>7, <4>1 DEF CallInOrder
    <3> QED
      BY <3>1, <3>2
  <2>6. ASSUME NEW l \in Lines', line'[l].who = e
        PROVE  InOrder(e, l)'
    <3>1. CASE l \in Lines
      <4>1. InOrder(e, l) /\ line[l].who = e /\ line'[l].fate = line[l].fate
        BY <1>5, <2>1, <2>3, <2>6, <3>1
      <4>2. /\ Saying(l)' <=> Saying(l)
            /\ Opening(l)' <=> Opening(l)
        BY <1>2, <1>8, <3>1 DEF Saying, Opening
      <4>3. l \in Queued(e)' <=> l \in Queued(e)
        <5>1. CASE talk'[e] = talk[e]
          BY <5>1 DEF Queued
        <5>2. CASE talk'[e].queue = Append(q, n)
          BY <1>2, <1>q, <1>a, <3>1, <5>2 DEF Queued
        <5> QED
          BY <1>7, <5>1, <5>2
      <4>4. \A k \in 1..(l - 1) : k \in Lines /\ line'[k].who = line[k].who
        BY <1>2, <1>5, <3>1
      <4> QED
        BY <2>3, <4>1, <4>2, <4>3, <4>4 DEF InOrder, Awaited
    <3>2. CASE l = n
      <4>1. ~Saying(n)'
        BY <1>2, <1>8, <2>2 DEF Saying
      <4>2. n \in Queued(e)' \/ Opening(n)'
        <5>1. CASE talk'[e].queue = Append(q, n)
          <6>1. Len(q) + 1 \in 1..Len(talk'[e].queue)
            BY <1>a, <5>1
          <6> QED
            BY <1>a, <5>1, <6>1 DEF Queued
        <5>2. CASE ~talk[e].talking
          <6>1. Len(calls') = Len(calls) + 1 /\ Len(calls) \in Nat
            BY <5>2, SayFacts DEF VoiceInv, TalkOK
          <6>2. Len(calls) + 1 \in 1..Len(calls') /\ Len(calls) + 1 \notin 1..Len(calls)
            BY <6>1
          <6> QED
            BY <1>8, <6>2 DEF Opening
        <5> QED
          BY <1>7, <5>1, <5>2
      <4> QED
        BY <1>5, <3>2, <4>1, <4>2 DEF InOrder, Awaited
    <3> QED
      BY <1>2, <3>1, <3>2
  <2> QED
    BY <2>4, <2>5, <2>6 DEF OrderOK
<1> QED
  BY <1>9, <1>11, <1>12, <1>13 DEF LineInv

(* The line of call n begins: none said before it by e still waits.        *)
LEMMA OrderBeginLine ==
  ASSUME VoiceInv, LineInv, NEW time \in Nat, BeginLine(time)
  PROVE  LineInv'
<1>1. PICK n \in 1..Len(calls), e \in Entities : Begins(n, e)
  BY BeginLineFacts
<1>2. PICK l \in Lines : l = calls[n].line /\ line[l].who = e
  BY <1>1 DEF LineInv, LinesTyped, Begins
<1>3. /\ Lines' = Lines /\ Lines \subseteq Nat /\ Lines = 1..nLines /\ nLines \in Nat
      /\ disturbed' = disturbed
  BY <1>1, LineFacts DEF Begins, Lines
<1>4. /\ line' \in [Lines -> LineRecord] /\ line'[l].fate = "begun"
      /\ \A k \in Lines : line'[k].who = line[k].who
      /\ \A k \in Lines \ {l} : line'[k] = line[k]
  <2>1. PICK r \in LineRecord : /\ r = [line[l] EXCEPT !.fate = "begun"]
                                /\ r.who = line[l].who /\ r.fate = "begun"
    <3>1. PICK fate \in {"waiting", "begun", "cut"} : fate = "begun"
      OBVIOUS
    <3>2. line[l] \in LineRecord
      BY LineFacts
    <3>3. /\ [line[l] EXCEPT !.fate = fate] \in LineRecord
          /\ [line[l] EXCEPT !.fate = fate].who = line[l].who
          /\ [line[l] EXCEPT !.fate = fate].fate = fate
      BY <3>2 DEF LineRecord
    <3> QED
      BY <3>1, <3>3
  <2>2. line' = [line EXCEPT ![l] = r] /\ line \in [Lines -> LineRecord]
    BY <1>1, <1>2, <2>1 DEF Begins, LineInv, LinesTyped
  <2> QED
    BY <1>2, <2>1, <2>2
<1>5. /\ \A i \in 1..Len(calls') : i \in 1..Len(calls) /\ calls'[i].who = calls[i].who
                                   /\ calls'[i].line = calls[i].line
                                   /\ calls'[i].next = calls[i].next
      /\ \A i \in 1..Len(calls) : i # n => calls'[i] = calls[i]
      /\ \A x \in Entities \ {e} : talk'[x] = talk[x]
      /\ talk'[e].talking /\ talk'[e].queue = talk[e].queue
      /\ 1..Len(calls') = 1..Len(calls) /\ calls'[n].in = "sayingLine" /\ calls'[n].who = e
      /\ calls[n].in = "onTalkieID" /\ calls[n].who = e
  BY <1>1 DEF Begins
<1>6. /\ \A x \in Entities : \A i \in 1..Len(talk[x].queue) :
           talk[x].queue[i] \in Lines /\ line[talk[x].queue[i]].who = x
      /\ \A i \in 1..Len(calls) :
           calls[i].line \in Lines /\ line[calls[i].line].who = calls[i].who
  BY DEF LineInv, LinesTyped
<1>7. LinesTyped'
  <2>1. \A x \in Entities : talk'[x].queue = talk[x].queue
    BY <1>5
  <2>2. \A i \in 1..Len(calls') :
          calls'[i].line \in Lines /\ line'[calls'[i].line].who = calls'[i].who
    BY <1>4, <1>5, <1>6
  <2>3. \A x \in Entities : \A i \in 1..Len(talk'[x].queue) :
          talk'[x].queue[i] \in Lines /\ line'[talk'[x].queue[i]].who = x
    BY <1>4, <1>6, <2>1
  <2> QED
    BY <1>3, <1>4, <2>2, <2>3 DEF LinesTyped
<1>8. ASSUME NEW x \in Entities \ {e}
      PROVE  OrderOK(x)'
  <2>1. /\ \A k \in Lines : line[k].who = x => line'[k].fate = line[k].fate
        /\ \A i \in 1..Len(calls') : calls'[i].who = x => i \in 1..Len(calls) /\ calls'[i] = calls[i]
        /\ \A i \in 1..Len(calls) : calls[i].who = x => i \in 1..Len(calls') /\ calls'[i] = calls[i]
    BY <1>2, <1>4, <1>5
  <2> QED
    BY <1>3, <1>4, <1>5, <1>7, <2>1, OrderKept
<1>9. OrderOK(e)'
  <2> SUFFICES ASSUME e \notin disturbed' PROVE OrderOK(e)'
    BY DEF OrderOK
  <2>1. /\ QueueInOrder(e) /\ CallInOrder(e, n)
        /\ \A k \in Lines : line[k].who = e => InOrder(e, k)
        /\ \A i \in 1..Len(calls) : calls[i].who = e => i = n
        /\ calls[n].next => talk[e].queue # <<>>
    BY <1>3, <1>5 DEF LineInv, OrderOK, VoiceInv, EntityOK
  <2>2. /\ calls[n].next => talk[e].queue[1] = l
        /\ ~calls[n].next => talk[e].queue = <<>>
    BY <1>2, <1>5, <2>1 DEF CallInOrder, QueueInOrder
  <2>3. talk[e].queue \in Seq(Nat)
    BY LineFacts
  <2>4. \A i \in 1..Len(talk[e].queue) :
          (i = 1 /\ calls[n].next) \/ (talk[e].queue[i] > l /\ line[talk[e].queue[i]].fate = "waiting")
    <3>1. ASSUME NEW i \in 1..Len(talk[e].queue), i # 1
          PROVE  talk[e].queue[i] > l /\ line[talk[e].queue[i]].fate = "waiting"
      <4>1. calls[n].next /\ 1 \in 1..Len(talk[e].queue) /\ 1 < i
        BY <2>2, <2>3, <3>1
      <4>2. talk[e].queue[1] < talk[e].queue[i]
        BY <2>1, <3>1, <4>1 DEF QueueInOrder, Sorted
      <4>3. talk[e].queue[i] \in Lines /\ line[talk[e].queue[i]].fate = "waiting"
        BY <1>6, <2>1, <3>1 DEF QueueInOrder
      <4> QED
        BY <1>3, <2>2, <4>1, <4>2, <4>3
    <3>2. \A i \in 1..Len(talk[e].queue) : calls[n].next
      BY <2>2
    <3> QED
      BY <3>1, <3>2
  <2>5. ASSUME NEW k \in Lines, line[k].who = e
        PROVE  /\ Saying(k)' <=> k = l
               /\ ~Opening(k)'
               /\ ~Saying(k)
               /\ Opening(k) <=> k = l
               /\ Queued(e)' = Queued(e)
    <3>1. \A i \in 1..Len(calls) : calls[i].line = k => i = n
      BY <1>6, <2>1, <2>5
    <3> QED
      BY <1>2, <1>5, <3>1 DEF Saying, Opening, Queued
  <2>6. QueueInOrder(e)'
    <3>1. ASSUME NEW i \in 1..Len(talk[e].queue)
          PROVE  line'[talk[e].queue[i]].fate = "waiting" \/ (i = 1 /\ calls[n].next)
      <4>1. talk[e].queue[i] \in Lines
        BY <1>6
      <4> QED
        BY <1>3, <1>4, <2>4, <4>1
    <3>2. calls[n].next => BeginsHead(e)'
      BY <1>5 DEF BeginsHead
    <3> QED
      BY <1>5, <2>1, <3>1, <3>2 DEF QueueInOrder
  <2>7. ASSUME NEW i \in 1..Len(calls'), calls'[i].who = e
        PROVE  CallInOrder(e, i)'
    <3>1. i = n /\ calls'[n].line = l
      BY <1>2, <1>5, <2>1, <2>7
    <3> QED
      BY <1>4, <1>5, <2>2, <3>1 DEF CallInOrder
  <2>8. ASSUME NEW k \in Lines', line'[k].who = e
        PROVE  InOrder(e, k)'
    <3>1. k \in Lines /\ line[k].who = e /\ InOrder(e, k)
      BY <1>3, <1>4, <2>1, <2>8
    <3>2. ASSUME NEW j \in 1..(l - 1), line[j].who = e
          PROVE  line[j].fate # "waiting"
      <4>1. j \in Lines /\ j # l /\ ~(j > l)
        BY <1>3, <3>2
      <4>2. InOrder(e, j) /\ ~Opening(j)
        BY <2>1, <2>5, <3>2, <4>1
      <4>3. j \notin Queued(e)
        <5>1. \A i \in 1..Len(talk[e].queue) : talk[e].queue[i] # j
          BY <2>2, <2>4, <4>1
        <5> QED
          BY <5>1 DEF Queued
      <4> QED
        BY <4>2, <4>3 DEF InOrder, Awaited
    <3>3. CASE k = l
      <4>1. \A j \in 1..(l - 1) : line'[j].who = e => line'[j].fate # "waiting"
        <5>1. \A j \in 1..(l - 1) : j \in Lines /\ j # l
          BY <1>3
        <5> QED
          BY <1>4, <3>2, <5>1
      <4> QED
        BY <1>2, <1>4, <2>5, <3>3, <4>1 DEF InOrder, Awaited
    <3>4. CASE k # l
      <4>1. line'[k].fate = line[k].fate /\ (Awaited(e, k)' <=> Awaited(e, k))
        BY <1>4, <2>5, <3>1, <3>4 DEF Awaited
      <4>2. \A j \in 1..(k - 1) : line'[j].fate = "waiting" => line[j].fate = "waiting"
        <5>1. \A j \in 1..(k - 1) : j \in Lines
          BY <1>3, <3>1
        <5> QED
          BY <1>4, <5>1
      <4>3. \A j \in 1..(k - 1) : line'[j].who = line[j].who
        <5>1. \A j \in 1..(k - 1) : j \in Lines
          BY <1>3, <3>1
        <5> QED
          BY <1>4, <5>1
      <4> QED
        BY <3>1, <4>1, <4>2, <4>3 DEF InOrder
    <3> QED
      BY <3>3, <3>4
  <2> QED
    BY <2>6, <2>7, <2>8 DEF OrderOK
<1> QED
  BY <1>7, <1>8, <1>9 DEF LineInv

LEMMA TailFacts ==
  ASSUME NEW q \in Seq(Nat), q # <<>>, NEW r, r = Tail(q)
  PROVE  /\ Len(q) \in Nat \ {0} /\ Len(r) = Len(q) - 1
         /\ \A i \in 1..Len(r) : i + 1 \in 1..Len(q) /\ r[i] = q[i + 1]
         /\ \A i \in 1..Len(q) : i # 1 => i - 1 \in 1..Len(r) /\ r[i - 1] = q[i]
OBVIOUS

LEMMA SortedTail ==
  ASSUME NEW q \in Seq(Nat), q # <<>>, Sorted(q)
  PROVE  Sorted(Tail(q))
<1> DEFINE r == Tail(q)
<1>1. /\ Len(q) \in Nat \ {0} /\ Len(r) = Len(q) - 1
      /\ \A i \in 1..Len(r) : i + 1 \in 1..Len(q) /\ r[i] = q[i + 1]
  BY TailFacts
<1> HIDE DEF r
<1> SUFFICES ASSUME NEW i \in 1..Len(r), NEW j \in 1..Len(r), i < j
             PROVE  r[i] < r[j]
  BY DEF Sorted, r
<1>2. q[i + 1] < q[j + 1]
  <2>1. i + 1 \in 1..Len(q) /\ j + 1 \in 1..Len(q) /\ i + 1 < j + 1
    BY <1>1
  <2> QED
    BY <2>1, Zenon DEF Sorted
<1> QED
  BY <1>1, <1>2

(* loadId returns: of the line it has begun nothing is left in the queue.  *)
LEMMA OrderReturns ==
  ASSUME VoiceInv, LineInv, UNCHANGED <<nLines, line, disturbed>>,
         NEW n \in 1..Len(calls), NEW e \in Entities, NEW voice \in Nat, Returns(n, e, voice)
  PROVE  LineInv'
<1>1. PICK l \in Lines : l = calls[n].line /\ line[l].who = e
  BY DEF LineInv, LinesTyped, Returns
<1>2. /\ Lines' = Lines /\ Lines \subseteq Nat /\ line' = line /\ disturbed' = disturbed
      /\ line \in [Lines -> LineRecord]
  BY LineFacts DEF Lines, LineInv, LinesTyped
<1>3. /\ \A i \in 1..Len(calls') : calls'[i] = calls[i] /\ i \in 1..Len(calls) /\ i # n
      /\ \A i \in 1..Len(calls) : i # n => i \in 1..Len(calls') /\ calls'[i] = calls[i]
      /\ \A x \in Entities \ {e} : talk'[x] = talk[x]
      /\ talk'[e].talking <=> talk[e].talking
      /\ calls[n].in = "sayingLine" /\ calls[n].who = e
  BY DEF Returns
<1>4. /\ \A x \in Entities : \A i \in 1..Len(talk[x].queue) :
           talk[x].queue[i] \in Lines /\ line[talk[x].queue[i]].who = x
      /\ \A i \in 1..Len(calls) :
           calls[i].line \in Lines /\ line[calls[i].line].who = calls[i].who
  BY DEF LineInv, LinesTyped
<1>q. PICK q \in Seq(Nat) : q = talk[e].queue
  BY LineFacts
<1>p. PICK r \in Seq(Nat) : r = talk'[e].queue
  BY DEF Returns, TalkingState
<1>5. /\ calls[n].next /\ q # <<>> => r = Tail(q)
      /\ ~calls[n].next \/ q = <<>> => r = q
  BY <1>q, <1>p DEF Returns
<1>6. calls[n].next /\ q # <<>> =>
        /\ Len(q) \in Nat \ {0} /\ Len(r) = Len(q) - 1
        /\ \A i \in 1..Len(r) : i + 1 \in 1..Len(q) /\ r[i] = q[i + 1]
        /\ \A i \in 1..Len(q) : i # 1 => i - 1 \in 1..Len(r) /\ r[i - 1] = q[i]
  BY <1>5, TailFacts
<1>7. LinesTyped'
  <2>1. \A i \in 1..Len(r) : r[i] \in Lines /\ line[r[i]].who = e
    <3>1. ASSUME NEW i \in 1..Len(q) PROVE q[i] \in Lines /\ line[q[i]].who = e
      <4>1. i \in 1..Len(talk[e].queue) /\ q[i] = talk[e].queue[i]
        BY <1>q
      <4>2. talk[e].queue[i] \in Lines /\ line[talk[e].queue[i]].who = e
        BY <1>4, <4>1
      <4> QED
        BY <4>1, <4>2
    <3>2. CASE calls[n].next /\ q # <<>>
      <4>1. \A i \in 1..Len(r) : i + 1 \in 1..Len(q) /\ r[i] = q[i + 1]
        BY <1>6, <3>2
      <4> QED
        BY <3>1, <4>1
    <3>3. CASE ~calls[n].next \/ q = <<>>
      BY <1>5, <3>1, <3>3
    <3> QED
      BY <3>2, <3>3
  <2>2. ASSUME NEW x \in Entities, NEW i \in 1..Len(talk'[x].queue)
        PROVE  talk'[x].queue[i] \in Lines /\ line'[talk'[x].queue[i]].who = x
    <3>1. CASE x = e
      <4>1. i \in 1..Len(r) /\ talk'[x].queue[i] = r[i]
        BY <1>p, <2>2, <3>1
      <4> QED
        BY <1>2, <2>1, <3>1, <4>1
    <3>2. CASE x # e
      <4>1. talk'[x] = talk[x]
        BY <1>3, <3>2
      <4> QED
        BY <1>2, <1>4, <2>2, <4>1
    <3> QED
      BY <3>1, <3>2
  <2>3. ASSUME NEW i \in 1..Len(calls')
        PROVE  calls'[i].line \in Lines /\ line'[calls'[i].line].who = calls'[i].who
    <3>1. i \in 1..Len(calls) /\ calls'[i] = calls[i]
      BY <1>3
    <3>2. calls[i].line \in Lines /\ line[calls[i].line].who = calls[i].who
      BY <1>4, <3>1
    <3> QED
      BY <1>2, <3>1, <3>2
  <2> QED
    <3>1. line' \in [Lines' -> LineRecord]
      BY <1>2
    <3>2. \A x \in Entities : \A i \in 1..Len(talk'[x].queue) :
            talk'[x].queue[i] \in Lines' /\ line'[talk'[x].queue[i]].who = x
      BY <1>2, <2>2
    <3>3. \A i \in 1..Len(calls') :
            calls'[i].line \in Lines' /\ line'[calls'[i].line].who = calls'[i].who
      BY <1>2, <2>3
    <3> QED
      BY <3>1, <3>2, <3>3, Zenon DEF LinesTyped
<1>8. ASSUME NEW x \in Entities \ {e}
      PROVE  OrderOK(x)'
  <2>1. \A i \in 1..Len(calls) : calls[i].who = x => i \in 1..Len(calls') /\ calls'[i] = calls[i]
    BY <1>3
  <2> QED
    BY <1>2, <1>3, <1>7, <2>1, OrderKept
<1>9. OrderOK(e)'
  <2> SUFFICES ASSUME e \notin disturbed' PROVE OrderOK(e)'
    BY DEF OrderOK
  <2>1. /\ QueueInOrder(e) /\ CallInOrder(e, n)
        /\ \A k \in Lines : line[k].who = e => InOrder(e, k)
        /\ \A i \in 1..Len(calls) : calls[i].who = e => i = n
        /\ calls[n].next => q # <<>>
    BY <1>2, <1>3, <1>q DEF LineInv, OrderOK, VoiceInv, EntityOK
  <2>2. /\ calls[n].next => q[1] = l
        /\ line[l].fate = "begun"
    BY <1>1, <1>3, <1>q, <2>1 DEF CallInOrder
  <2>3. /\ \A i, j \in 1..Len(q) : i < j => q[i] < q[j]
        /\ \A i \in 1..Len(q) : line[q[i]].fate = "waiting" \/ (i = 1 /\ calls[n].next)
        /\ \A i \in 1..Len(q) : q[i] \in Nat
        /\ ~talk[e].talking => q = <<>>
    <3>1. BeginsHead(e) => calls[n].next
      BY <2>1 DEF BeginsHead
    <3>2. \A i \in 1..Len(q) : q[i] \in Nat
      BY <1>q
    <3>3. \A i, j \in 1..Len(q) : i < j => q[i] < q[j]
      BY <1>q, <2>1 DEF QueueInOrder, Sorted
    <3>4. \A i \in 1..Len(q) : line[q[i]].fate = "waiting" \/ (i = 1 /\ calls[n].next)
      BY <1>q, <2>1, <3>1 DEF QueueInOrder
    <3>5. ~talk[e].talking => q = <<>>
      BY <1>q, <2>1 DEF QueueInOrder
    <3> QED
      BY <3>2, <3>3, <3>4, <3>5, Zenon
  <2>4. QueueInOrder(e)'
    <3>1. Sorted(r)
      <4>1. Sorted(q)
        BY <1>q, <2>1, Zenon DEF QueueInOrder
      <4>2. CASE calls[n].next /\ q # <<>>
        BY <1>5, <4>1, <4>2, SortedTail
      <4>3. CASE ~calls[n].next \/ q = <<>>
        BY <1>5, <4>1, <4>3, Zenon
      <4> QED
        BY <4>2, <4>3
    <3>2. \A i \in 1..Len(r) : line'[r[i]].fate = "waiting"
      <4>1. CASE calls[n].next
        <5>1. \A i \in 1..Len(r) : i + 1 \in 1..Len(q) /\ r[i] = q[i + 1] /\ i + 1 # 1
          BY <1>6, <2>1, <4>1
        <5> QED
          BY <1>2, <2>3, <5>1
      <4>2. CASE ~calls[n].next
        BY <1>2, <1>5, <2>3, <4>2
      <4> QED
        BY <4>1, <4>2
    <3>3. ~talk'[e].talking => r = <<>>
      BY <1>3, <1>5, <2>1, <2>3
    <3> QED
      BY <1>p, <3>1, <3>2, <3>3 DEF QueueInOrder
  <2>5. \A i \in 1..Len(calls') : calls'[i].who # e
    BY <1>3, <2>1
  <2>6. ASSUME NEW k \in Lines', line'[k].who = e
        PROVE  InOrder(e, k)'
    <3>1. k \in Lines /\ line[k].who = e /\ InOrder(e, k)
      BY <1>2, <2>1, <2>6
    <3>2. /\ ~Saying(k)' /\ ~Opening(k)'
          /\ ~Opening(k) /\ (Saying(k) <=> k = l)
      <4>1. ASSUME NEW i \in 1..Len(calls), calls[i].line = k
            PROVE  i = n
        <5>1. calls[i].who = e
          BY <1>4, <3>1, <4>1
        <5> QED
          BY <2>1, <5>1
      <4>2. \A i \in 1..Len(calls') : calls'[i].line # k
        BY <1>3, <4>1
      <4>3. ~Opening(k)
        BY <1>3, <4>1 DEF Opening
      <4>4. Saying(k) <=> k = l
        <5>1. Saying(k) => k = l
          BY <1>1, <4>1 DEF Saying
        <5> QED
          BY <1>1, <1>3, <5>1 DEF Saying
      <4> QED
        BY <4>2, <4>3, <4>4 DEF Saying, Opening
    <3>3. k \in Queued(e)' <=> k \in Queued(e) /\ k # l
      <4>1. Queued(e) = {q[i] : i \in 1..Len(q)} /\ Queued(e)' = {r[i] : i \in 1..Len(r)}
        BY <1>q, <1>p DEF Queued
      <4>2. CASE calls[n].next
        <5>1. \A i \in 1..Len(q) : i # 1 => q[i] # l
          <6>1. \A i \in 1..Len(q) : i # 1 => 1 \in 1..Len(q) /\ 1 < i
            OBVIOUS
          <6>2. \A i \in 1..Len(q) : i # 1 => q[1] < q[i] /\ q[1] \in Nat
            BY <2>3, <6>1
          <6> QED
            BY <2>2, <2>3, <4>2, <6>2
        <5>2. /\ \A i \in 1..Len(r) : i + 1 \in 1..Len(q) /\ r[i] = q[i + 1] /\ i + 1 # 1
              /\ \A i \in 1..Len(q) : i # 1 => i - 1 \in 1..Len(r) /\ r[i - 1] = q[i]
          BY <1>6, <2>1, <4>2
        <5>3. q[1] = l
          BY <2>2, <4>2
        <5>4. \A i \in 1..Len(r) : \E j \in 1..Len(q) : r[i] = q[j] /\ r[i] # l
          BY <5>1, <5>2
        <5>5. \A j \in 1..Len(q) : q[j] # l => \E i \in 1..Len(r) : r[i] = q[j]
          BY <5>2, <5>3
        <5>6. ASSUME k \in Queued(e)'
              PROVE  k \in Queued(e) /\ k # l
          <6>1. PICK i \in 1..Len(r) : k = r[i]
            BY <4>1, <5>6
          <6> QED
            BY <4>1, <5>4, <6>1
        <5>7. ASSUME k \in Queued(e), k # l
              PROVE  k \in Queued(e)'
          <6>1. PICK j \in 1..Len(q) : k = q[j]
            BY <4>1, <5>7
          <6>2. PICK i \in 1..Len(r) : r[i] = q[j]
            BY <5>5, <5>7, <6>1
          <6> QED
            BY <4>1, <6>1, <6>2
        <5> QED
          BY <5>6, <5>7
      <4>3. CASE ~calls[n].next
        <5>1. \A i \in 1..Len(q) : q[i] # l
          BY <2>2, <2>3, <4>3
        <5> QED
          BY <1>5, <4>1, <4>3, <5>1
      <4> QED
        BY <4>2, <4>3
    <3> QED
      BY <1>2, <3>1, <3>2, <3>3 DEF InOrder, Awaited
  <2> QED
    BY <2>4, <2>5, <2>6 DEF OrderOK
<1> QED
  BY <1>7, <1>8, <1>9 DEF LineInv

LEMMA OrderUpdateTalk ==
  ASSUME VoiceInv, LineInv, NEW e \in Entities, UpdateTalk(e)
  PROVE  LineInv'
<1>1. PICK over, next, ends \in BOOLEAN : Updates(e, over, next, ends)
  BY UpdateTalkFacts
<1>2. /\ UNCHANGED <<line, disturbed>> /\ Lines' = Lines /\ Lines \subseteq Nat
      /\ calls = <<>> /\ Len(calls) = 0
      /\ \A x \in Entities \ {e} : talk'[x] = talk[x]
      /\ talk'[e].queue = talk[e].queue
  BY <1>1, LineFacts DEF Updates, Lines
<1>3. /\ line \in [Lines -> LineRecord]
      /\ \A x \in Entities : \A i \in 1..Len(talk[x].queue) :
           talk[x].queue[i] \in Lines /\ line[talk[x].queue[i]].who = x
  BY DEF LineInv, LinesTyped
<1>q. PICK q \in Seq(Nat) : q = talk[e].queue /\ q = talk'[e].queue
  BY <1>2, LineFacts
<1>4. /\ \A i \in 1..Len(calls') : /\ i = 1 /\ calls'[i].who = e /\ calls'[i].line = q[1]
                                   /\ 1 \in 1..Len(q)
                                   /\ calls'[i].in = "onTalkieID" /\ calls'[i].next
      /\ next => 1 \in 1..Len(calls')
  <2>1. q # <<>> => Head(q) = q[1] /\ 1 \in 1..Len(q)
    OBVIOUS
  <2>2. /\ next => q # <<>> /\ Len(calls') = 1
        /\ \A i \in 1..Len(calls') :
             /\ next /\ i = 1 /\ calls'[i].who = e /\ calls'[i].line = Head(q)
             /\ calls'[i].in = "onTalkieID" /\ calls'[i].next
    BY <1>1, <1>q DEF Updates
  <2> QED
    BY <2>1, <2>2
<1>5. LinesTyped'
  <2>1. \A i \in 1..Len(calls') :
          calls'[i].line \in Lines' /\ line'[calls'[i].line].who = calls'[i].who
    BY <1>2, <1>3, <1>4, <1>q
  <2>2. ASSUME NEW x \in Entities, NEW i \in 1..Len(talk'[x].queue)
        PROVE  talk'[x].queue[i] \in Lines' /\ line'[talk'[x].queue[i]].who = x
    <3>1. talk'[x].queue = talk[x].queue
      BY <1>2
    <3> QED
      BY <1>2, <1>3, <2>2, <3>1
  <2> QED
    BY <1>2, <1>3, <2>1, <2>2 DEF LinesTyped
<1>6. ASSUME NEW x \in Entities \ {e}
      PROVE  OrderOK(x)'
  BY <1>2, <1>4, <1>5, OrderKept
<1>7. OrderOK(e)'
  <2> SUFFICES ASSUME e \notin disturbed' PROVE OrderOK(e)'
    BY DEF OrderOK
  <2>1. /\ QueueInOrder(e) /\ ~talk[e].broken
        /\ \A k \in Lines : line[k].who = e => InOrder(e, k)
    BY <1>2 DEF LineInv, OrderOK, VoiceInv, EntityOK
  <2>2. \A i \in 1..Len(q) : line[q[i]].fate = "waiting"
    <3>1. ~BeginsHead(e)
      BY <1>2 DEF BeginsHead
    <3> QED
      BY <1>q, <2>1, <3>1 DEF QueueInOrder
  <2>3. QueueInOrder(e)'
    <3>1. ~talk'[e].talking => q = <<>>
      BY <1>1, <1>q, <2>1 DEF Updates, QueueInOrder
    <3> QED
      BY <1>2, <1>q, <2>1, <2>2, <3>1 DEF QueueInOrder
  <2>4. ASSUME NEW i \in 1..Len(calls')
        PROVE  CallInOrder(e, i)'
    BY <1>2, <1>4, <1>q, <2>2 DEF CallInOrder
  <2>5. ASSUME NEW k \in Lines', line'[k].who = e
        PROVE  InOrder(e, k)'
    <3>1. k \in Lines /\ line[k].who = e /\ InOrder(e, k)
      BY <1>2, <2>1, <2>5
    <3>2. Queued(e)' = Queued(e)
      BY <1>2 DEF Queued
    <3>3. ~Saying(k) /\ ~Opening(k) /\ ~Saying(k)'
      BY <1>2, <1>4 DEF Saying, Opening
    <3>4. Opening(k)' => k \in Queued(e)
      BY <1>4, <1>q DEF Opening, Queued
    <3> QED
      BY <1>2, <3>1, <3>2, <3>3, <3>4 DEF InOrder, Awaited
  <2> QED
    BY <2>3, <2>4, <2>5 DEF OrderOK
<1> QED
  BY <1>5, <1>6, <1>7 DEF LineInv

LEMMA OrderStart == Init => LineInv
BY DEF Init, LineInv, LinesTyped, OrderOK, QueueInOrder, Sorted, Lines

LEMMA OrderNext ==
  ASSUME VoiceInv, LineInv, Next
  PROVE  LineInv'
<1>1. ASSUME NEW E \in SUBSET Entities, StopTalking(E)
      PROVE  LineInv'
  BY <1>1, OrderStopTalking
<1>2. ASSUME NEW e \in Entities, NEW E \in SUBSET (Entities \ {e}), Say(e, E)
      PROVE  LineInv'
  BY <1>2, OrderSay
<1>3. CASE Script
  BY <1>1, <1>2, <1>3, OrderQuiet DEF Script, talkVars
<1>4. CASE Loads
  <2>1. \A time \in 0..MaxTime : time \in Nat
    BY TalkingAssumption
  <2>2. ASSUME calls # <<>>, Top.in = "sayingLine", NEW voice \in Nat, Finished(voice),
               UNCHANGED <<nLines, line, disturbed>>
        PROVE  LineInv'
    <3>1. PICK n \in 1..Len(calls), e \in Entities : Returns(n, e, voice)
      BY <2>2, FinishedFacts
    <3> QED
      BY <2>2, <3>1, OrderReturns
  <2>3. calls # <<>> => talk[Top.who].voice \in Nat
    BY TopFacts DEF TalkingState
  <2>4. CASE BeginVoice
    <3>1. /\ calls # <<>> /\ Top.in = "sayingLine" /\ Play(1)
          /\ UNCHANGED <<nLines, line, disturbed>>
          /\ Finished(talk[Top.who].voice) \/ Finished(nSounds')
      BY <2>4 DEF BeginVoice
    <3>2. nSounds' \in Nat
      <4>1. nSounds' = nSounds + 1 /\ nSounds \in Nat
        BY <3>1, PlayStep, SoundFacts DEF VoiceInv
      <4> QED
        BY <4>1
    <3> QED
      BY <2>2, <2>3, <3>1, <3>2
  <2>5. CASE NoVoice
    BY <2>2, <2>3, <2>5 DEF NoVoice
  <2> QED
    BY <1>4, <2>1, <2>4, <2>5, OrderBeginLine DEF Loads
<1>5. CASE Talks
  BY <1>5, OrderUpdateTalk DEF Talks
<1>6. CASE FrameSounds \/ BeginTalk \/ InVoid \/ EndFrame
  BY <1>6, OrderQuiet DEF FrameSounds, BeginTalk, InVoid, EndFrame
<1>7. CASE UNCHANGED talkVars
  BY <1>7, OrderQuiet DEF talkVars
<1> QED
  BY <1>3, <1>4, <1>5, <1>6, <1>7 DEF Next, PressPause, OpenOptions, CloseOptions

(* TalkingState::say, loadId and update: the lines of an entity begin in   *)
(* the order they were said, each once, and none is forgotten.             *)
THEOREM TalkingInOrder == Spec => []LinesInOrder
<1>1. Init => LineInv
  BY OrderStart
<1>2. VoiceInv /\ LineInv /\ [Next]_vars => LineInv'
  <2>1. ASSUME VoiceInv, LineInv, UNCHANGED vars
        PROVE  LineInv'
    BY <2>1, OrderQuiet DEF vars, talkVars
  <2> QED
    BY <2>1, OrderNext
<1>3. VoiceInv /\ LineInv => LinesInOrder
  <2> SUFFICES ASSUME VoiceInv, LineInv, NEW l \in Lines, Sound(line[l].who)
               PROVE  InOrder(line[l].who, l)
    BY DEF LinesInOrder, InOrder, Awaited, Saying, Opening
  <2> QED
    BY LineFacts DEF LineInv, OrderOK, Sound
<1> QED
  BY <1>1, <1>2, <1>3, VoicesKeepTheirLines, PTL DEF Spec

=============================================================================
