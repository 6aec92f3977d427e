------------------------------- MODULE Dialog -------------------------------
(***************************************************************************)
(* Dialogs: DialogPlayer goes through the statements of a .byack file, and *)
(* DialogManager shows the choices it comes to and tells the engine, once  *)
(* a frame, whether a dialog is on.                                        *)
(*                                                                         *)
(* A dialog is a sequence of labels, a label a sequence of statements. One *)
(* call of DialogPlayer::running goes through statements, on to the next   *)
(* label and along gotos, until it comes to something that waits: a line   *)
(* being said, or choices. A condition on a statement may let it through   *)
(* once: once and onceever until it is chosen, showonce and temponce until *)
(* it is shown. What was chosen and shown is in _states, part of saved     *)
(* games.                                                                  *)
(***************************************************************************)
EXTENDS DialogFiles

CONSTANTS
  Dialogs,        (* the names of the dialogs: letters, and what comes     *)
                  (* from the first digit on                               *)
  Library,        (* a sequence of what the file of a dialog may hold      *)
  Actors,         (* whom the player may be playing                        *)
  MaxSlots,       (* length of _choices: 9                                 *)
  DefaultLimit,   (* choices shown unless a limit statement says so: 6     *)
  MaxStarts       (* bound on the dialogs started                          *)

(* A name after its letters: a digit is its value, another character more. *)
Digit == 0..9

DialogNames == [letters : STRING, tail : Seq(Nat)]

(* strtol, of the numbers that files hold                                  *)
Number(arg) ==
  CASE arg = "1" -> 1 [] arg = "2" -> 2 [] OTHER -> 0

(* What throws, or hangs the parser, is in no file: unknown instructions,  *)
(* and what begins no statement. Choices have numbers that there are.      *)
Playable(labels) ==
  /\ labels \in Seq(Label)
  /\ \A l \in DOMAIN labels : \A i \in DOMAIN labels[l].body :
       labels[l].body[i].kind = "choice" => Number(labels[l].body[i].arg) \in 1..MaxSlots

ASSUME DialogAssumption ==
  /\ Dialogs \subseteq DialogNames
  /\ \A d \in Dialogs : d.tail # <<>> => d.tail[1] \in Digit
  /\ \A f \in DOMAIN Library : Written(Library[f]) /\ Playable(Parse(Stream(Library[f])))
  /\ MaxSlots \in Nat \ {0}
  /\ DefaultLimit \in Nat
  /\ MaxStarts \in Nat

VARIABLES
  file,      (* the file of each dialog, a place in the library            *)
  text,      (* what start reads of it                                     *)
  player,    (* DialogPlayer                                               *)
  states,    (* its _states                                                *)
  call,      (* the call of the player under way, if any                   *)
  line,      (* the line the dialog waits for: is it being said?           *)
  mState,    (* DialogManager::_state                                      *)
  slots,     (* DialogManager::_slots                                      *)
  saveFile,  (* the dialog part of the last saved game                     *)
  misread,   (* history: has a load taken a record for another dialog's?   *)
  nStarts,   (* dialogs started                                            *)
  chosen,    (* history: what has been chosen                              *)
  seen       (* history: what has been shown as a choice                   *)

vars == <<file, text, player, states, call, line, mState, slots, saveFile, misread,
          nStarts, chosen, seen>>

-----------------------------------------------------------------------------
(* The statements                                                          *)

NoChoice == <<>>
NoChoices == [n \in 1..MaxSlots |-> NoChoice]

(* The compilation unit that start makes of the file.                      *)
Labels(d) == text[d]

(* A statement is known by its dialog, label and position.                 *)
StatementAt(s) == Labels(s[1])[s[2]].body[s[3]]

Here == <<player.dialog, player.label, player.current>>

AtEnd == player.current > Len(Labels(player.dialog)[player.label].body)

Offered == {player.choices[n] : n \in 1..MaxSlots} \ {NoChoice}

(* A record of _states: mode, actor, and the condition's dialog and line.  *)
StateOf(s) == <<StatementAt(s).cond, player.actor, s[1], StatementAt(s).line>>

(* isOnce, isShowOnce, isTempOnce and isOnceEver: the last one looks at no *)
(* actor. A script answers for a condition in code.                        *)
MayAccept(s) ==
  CASE StatementAt(s).cond = "onceever" ->
         ~\E r \in states : r[1] = "onceever" /\ r[3] = s[1] /\ r[4] = StatementAt(s).line
    [] StatementAt(s).cond \in {"once", "showonce", "temponce"} ->
         StateOf(s) \notin states
    [] OTHER -> TRUE

MustAccept(s) == StatementAt(s).cond # "code" /\ MayAccept(s)

(* What acceptConditions records of a statement it lets through, and what  *)
(* choose records of the statement chosen.                                 *)
OnceShown(s) == StatementAt(s).cond \in {"showonce", "temponce"}
OnceChosen(s) == StatementAt(s).cond \in {"once", "onceever"}

Shown(s) == IF OnceShown(s) THEN {StateOf(s)} ELSE {}
Chosen(s) == IF OnceChosen(s) THEN {StateOf(s)} ELSE {}

(* What the history holds of a statement, which it knows by its place.     *)
Mark(s) == <<StatementAt(s).cond, player.actor, s>>

-----------------------------------------------------------------------------
(* The player                                                              *)

PlayerStates == {"None", "Start", "Running", "WaitingForChoice",
                 "WaitingEndAnimation", "WaitingForSayingChoice"}

ManagerState(s) ==
  CASE s = "None" -> "None"
    [] s = "WaitingForChoice" -> "WaitingForChoice"
    [] OTHER -> "Active"

(* A call is under way from DialogManager's update, start or choose; nested *)
(* says that a statement called back into the player; stepping, that       *)
(* running goes through statements.                                        *)
NoCall == [by |-> "none", stepping |-> FALSE, nested |-> FALSE]
Calling(by) == [by |-> by, stepping |-> TRUE, nested |-> FALSE]
Idle == call.by = "none"

(* The last label of that name, 0 if there is none.                        *)
LabelOf(d, name) ==
  LET named == {l \in DOMAIN Labels(d) : Labels(d)[l].name = name}
  IN  IF named = {} THEN 0 ELSE CHOOSE l \in named : \A k \in named : k <= l

(* The player p after selectLabel(name), before it updates itself.         *)
SelectLabel(p, name) ==
  LET l == LabelOf(p.dialog, name)
  IN  [p EXCEPT !.label = l,
                !.current = 1,
                !.choices = NoChoices,
                !.stale = FALSE,
                !.state = IF l # 0 THEN "Start" ELSE "None"]

(* The player after resetState and selectLabel: start.                     *)
Started(d, a, name) ==
  SelectLabel([player EXCEPT !.dialog = d, !.actor = a, !.parrot = TRUE,
                             !.limit = DefaultLimit], name)

(* Mutant: a new dialog forgets all that has been shown.                   *)
ResetShown == {s \in states : s[1] \notin {"showonce", "temponce"}}

ResetState == {s \in states : s[1] # "temponce"}

Begin(d, a, name, nested) ==
  /\ nStarts < MaxStarts
  /\ nStarts' = nStarts + 1
  /\ player' = Started(d, a, name)
  /\ states' = ResetState
  /\ call' = [by |-> "start", stepping |-> TRUE, nested |-> nested]
  /\ line' = "over"
  /\ seen' = {s \in seen : s[1] # "temponce"}
  /\ UNCHANGED <<file, text, mState, slots, saveFile, misread, chosen>>

(* startDialog, called by a script at any time                             *)
StartDialog(d, a, name) == Idle /\ Begin(d, a, name, FALSE)

Stepping == call.stepping /\ player.state \in {"Start", "Running"}

(* gotoNextLabel, or endDialog after the last label                        *)
NextLabel ==
  IF player.label < Len(Labels(player.dialog))
  THEN SelectLabel(player, Labels(player.dialog)[player.label + 1].name)
  ELSE [player EXCEPT !.state = "None", !.label = 0]

EndOfLabel ==
  /\ Stepping /\ AtEnd
  /\ player' = IF Offered # {} THEN [player EXCEPT !.state = "WaitingForChoice"]
                               ELSE NextLabel
  /\ UNCHANGED <<file, text, states, call, line, mState, slots, saveFile, misread,
                 nStarts, chosen, seen>>

Advance == [player EXCEPT !.state = "Running", !.current = @ + 1]

RefuseStatement ==
  /\ Stepping /\ ~AtEnd
  /\ ~MustAccept(Here)
  /\ player' = Advance
  /\ UNCHANGED <<file, text, states, call, line, mState, slots, saveFile, misread,
                 nStarts, chosen, seen>>

(* Mutant: one choice more than the limit.                                 *)
AddChoiceOverLimit ==
  /\ Stepping /\ ~AtEnd
  /\ MayAccept(Here) /\ StatementAt(Here).kind = "choice"
  /\ states' = states \cup Shown(Here)
  /\ LET n == Number(StatementAt(Here).arg)
         room == player.choices[n] = NoChoice /\ Cardinality(Offered) <= player.limit
     IN  player' = IF room THEN [Advance EXCEPT !.choices[n] = Here] ELSE Advance
  /\ UNCHANGED <<file, text, call, line, mState, slots, saveFile, misread, nStarts,
                 chosen, seen>>

(* A choice takes the place of its number, unless it is taken, or there    *)
(* are as many as the limit.                                               *)
AddChoice ==
  /\ Stepping /\ ~AtEnd
  /\ MayAccept(Here) /\ StatementAt(Here).kind = "choice"
  /\ states' = states \cup Shown(Here)
  /\ LET n == Number(StatementAt(Here).arg)
         room == player.choices[n] = NoChoice /\ Cardinality(Offered) < player.limit
     IN  player' = IF room THEN [Advance EXCEPT !.choices[n] = Here] ELSE Advance
  /\ UNCHANGED <<file, text, call, line, mState, slots, saveFile, misread, nStarts,
                 chosen, seen>>

(* A statement after choices stops the player, its conditions recorded.    *)
StopAtChoices ==
  /\ Stepping /\ ~AtEnd
  /\ MayAccept(Here) /\ StatementAt(Here).kind # "choice"
  /\ Offered # {}
  /\ states' = states \cup Shown(Here)
  /\ player' = [player EXCEPT !.state = "WaitingForChoice"]
  /\ UNCHANGED <<file, text, call, line, mState, slots, saveFile, misread, nStarts,
                 chosen, seen>>

(* run asks acceptConditions again: what is shown once has been by now.    *)
Runs(kinds) ==
  /\ Stepping /\ ~AtEnd
  /\ StatementAt(Here).kind \in kinds
  /\ MayAccept(Here) /\ Shown(Here) = {} /\ Offered = {}
  /\ UNCHANGED <<file, text, states, mState, slots, saveFile, misread, chosen>>

RunRefused ==
  /\ Stepping /\ ~AtEnd
  /\ StatementAt(Here).kind # "choice"
  /\ MayAccept(Here) /\ Offered = {}
  /\ Shown(Here) # {} \/ StatementAt(Here).cond = "code"
  /\ states' = states \cup Shown(Here)
  /\ player' = Advance
  /\ UNCHANGED <<file, text, call, line, mState, slots, saveFile, misread, nStarts,
                 chosen, seen>>

(* Say, pause, waitwhile: the wait may be over at once. That of waitfor is. *)
Say ==
  /\ \/ /\ Runs({"say", "pause", "waitwhile"})
        /\ line' \in {"over", IF call.nested THEN "unheard" ELSE "said"}
     \/ /\ Runs({"waitfor"})
        /\ line' = "over"
  /\ player' = [player EXCEPT !.state = "WaitingEndAnimation", !.waits = TRUE]
  /\ UNCHANGED <<call, nStarts, seen>>

(* Code calls a script, which may stop the line or start a dialog; shutup  *)
(* stops it.                                                               *)
Code ==
  /\ \/ Runs({"code"}) /\ line' \in {line, "over"}
     \/ Runs({"shutup"}) /\ line' = "over"
  /\ player' = Advance
  /\ UNCHANGED <<call, nStarts, seen>>

CodeStartsDialog(d, a, name) ==
  /\ Stepping /\ ~AtEnd
  /\ StatementAt(Here).kind = "code"
  /\ MayAccept(Here) /\ Shown(Here) = {} /\ Offered = {}
  /\ Begin(d, a, name, TRUE)

Goto ==
  /\ Runs({"goto"})
  /\ player' = SelectLabel(player, StatementAt(Here).to)
  /\ call' = [call EXCEPT !.nested = TRUE]
  /\ UNCHANGED <<line, nStarts, seen>>

(* The rest is stored: parrot without an argument means yes, limit none,   *)
(* dialog nobody. Nothing reads the override label and allowobjects.       *)
Set ==
  /\ \/ /\ Runs({"limit"})
        /\ player' = [Advance EXCEPT !.limit = Number(StatementAt(Here).arg)]
     \/ /\ Runs({"parrot"})
        /\ player' = [Advance EXCEPT !.parrot = StatementAt(Here).arg \in {"", "yes"}]
     \/ /\ Runs({"dialog"})
        /\ player' = [Advance EXCEPT !.actor = StatementAt(Here).arg]
     \/ /\ Runs({"override", "allowobjects"})
        /\ player' = Advance
  /\ UNCHANGED <<call, line, nStarts, seen>>

(* The call returns. A statement that called back into the player then     *)
(* overwrites _pWaitAction with its own, which is empty.                   *)
Returned == [player EXCEPT !.waits = @ /\ ~call.nested]

(* Mutant: only start tells the manager what the player's state is.        *)
ReturnTellsNothing ==
  /\ ~Idle /\ ~Stepping
  /\ call' = NoCall
  /\ player' = Returned
  /\ IF call.by = "start"
     THEN mState' = ManagerState(player.state)
     ELSE UNCHANGED mState
  /\ seen' = IF player.state = "WaitingForChoice" /\ ~player.stale
             THEN seen \cup {Mark(c) : c \in {o \in Offered : OnceShown(o)}} ELSE seen
  /\ UNCHANGED <<file, text, slots, states, line, saveFile, misread, nStarts,
                 chosen>>

Return ==
  /\ ~Idle /\ ~Stepping
  /\ call' = NoCall
  /\ player' = Returned
  /\ LET s == ManagerState(player.state)
         shows == mState # s /\ s = "WaitingForChoice"
     IN  IF call.by = "choose"
         THEN UNCHANGED <<mState, slots>>
         ELSE /\ mState' = s
              /\ slots' = IF shows THEN player.choices ELSE slots
  /\ seen' = IF player.state = "WaitingForChoice" /\ ~player.stale
             THEN seen \cup {Mark(c) : c \in {o \in Offered : OnceShown(o)}} ELSE seen
  /\ UNCHANGED <<file, text, states, line, saveFile, misread, nStarts, chosen>>

-----------------------------------------------------------------------------
(* What the frame and the player do                                        *)

(* DialogPlayer::update: a line that is over lets the dialog go on, from   *)
(* the next frame; the choice said, at once.                               *)
Waited == ~player.waits \/ line = "over"

(* Mutant: the line is not waited for.                                     *)
UpdateDoesNotWait ==
  /\ Idle
  /\ LET goes == player.state \in {"Start", "Running"}
         said == player.state = "WaitingForSayingChoice"
         ended == player.state = "WaitingEndAnimation"
     IN  /\ player' = CASE said  -> SelectLabel([player EXCEPT !.waits = FALSE],
                                                player.next)
                        [] ended -> [Advance EXCEPT !.waits = FALSE]
                        [] OTHER -> player
         /\ call' = [by |-> "update", stepping |-> goes \/ said, nested |-> FALSE]
  /\ UNCHANGED <<file, text, states, line, mState, slots, saveFile, misread,
                 nStarts, chosen, seen>>

UpdateDialog ==
  /\ Idle
  /\ LET goes == player.state \in {"Start", "Running"}
         said == player.state = "WaitingForSayingChoice" /\ Waited
         ended == player.state = "WaitingEndAnimation" /\ Waited
     IN  /\ player' = CASE said  -> SelectLabel([player EXCEPT !.waits = FALSE],
                                                player.next)
                        [] ended -> [Advance EXCEPT !.waits = FALSE]
                        [] OTHER -> player
         /\ call' = [by |-> "update", stepping |-> goes \/ said, nested |-> FALSE]
  /\ UNCHANGED <<file, text, states, line, mState, slots, saveFile, misread,
                 nStarts, chosen, seen>>

(* Mutant: what is chosen is not recorded.                                 *)
ChooseForgets(n) ==
  /\ Idle
  /\ player.state = "WaitingForChoice"
  /\ player.choices[n] # NoChoice
  /\ LET c == player.choices[n]
     IN  /\ chosen' = IF OnceChosen(c) THEN chosen \cup {Mark(c)} ELSE chosen
         /\ IF player.parrot
            THEN /\ player' = [player EXCEPT !.state = "WaitingForSayingChoice",
                                             !.waits = TRUE,
                                             !.next = StatementAt(c).to]
                 /\ line' \in {"over", "said"}
                 /\ call' = NoCall
            ELSE /\ player' = SelectLabel(player, StatementAt(c).to)
                 /\ call' = Calling("choose")
                 /\ UNCHANGED line
  /\ UNCHANGED <<file, text, states, mState, slots, saveFile, misread, nStarts,
                 seen>>

(* choose, by the mouse, a key or pushSentence: the i-th choice that there *)
(* is. It is said first, unless the dialog says parrot no.                 *)
Choose(n) ==
  /\ Idle
  /\ player.state = "WaitingForChoice"
  /\ player.choices[n] # NoChoice
  /\ LET c == player.choices[n]
     IN  /\ states' = states \cup Chosen(c)
         /\ chosen' = IF OnceChosen(c) THEN chosen \cup {Mark(c)} ELSE chosen
         /\ IF player.parrot
            THEN /\ player' = [player EXCEPT !.state = "WaitingForSayingChoice",
                                             !.waits = TRUE,
                                             !.next = StatementAt(c).to]
                 /\ line' \in {"over", "said"}
                 /\ call' = NoCall
            ELSE /\ player' = SelectLabel(player, StatementAt(c).to)
                 /\ call' = Calling("choose")
                 /\ UNCHANGED line
  /\ UNCHANGED <<file, text, mState, slots, saveFile, misread, nStarts, seen>>

(* The actor has finished, or the text is skipped.                         *)
LineEnds ==
  /\ Idle
  /\ line # "over"
  /\ line' = "over"
  /\ UNCHANGED <<file, text, player, states, call, mState, slots, saveFile, misread,
                 nStarts, chosen, seen>>

(* saveDialogs leaves out what is temporary. It writes a record as one     *)
(* word: mode, dialog, line and actor, with nothing between them.          *)
SaveDialogs ==
  /\ Idle
  /\ saveFile' = [states |-> ResetState, chosen |-> chosen,
                  seen |-> {s \in seen : s[1] # "temponce"}]
  /\ UNCHANGED <<file, text, player, states, call, line, mState, slots, misread,
                 nStarts, chosen, seen>>

(* parseState reads the letters of the name, and then what follows until   *)
(* there is a dialog of that name: the shortest that the name begins with. *)
NameRead(d) ==
  LET begins == {e \in Dialogs : e.letters = d.letters /\ IsPrefix(e.tail, d.tail)}
  IN  CHOOSE e \in begins : \A f \in begins : Len(e.tail) <= Len(f.tail)

(* The number that characters begin with, and that number with the digits  *)
(* of n after it: lines have less than five.                               *)
NumberOf(cs) ==
  LET v[i \in 0..Len(cs)] ==
        IF i = 0 THEN 0
        ELSE IF \A j \in 1..i : cs[j] \in Digit THEN 10 * v[i - 1] + cs[i] ELSE v[i - 1]
  IN  v[Len(cs)]

Followed(cs, n) ==
  n + NumberOf(cs) * (CASE n < 10 -> 10 [] n \in 10..99 -> 100 [] n \in 100..999 -> 1000
                        [] OTHER -> 10000)

(* Mutant: what was read of the name is read again for the line.           *)
ParseStateAgain(r) == <<r[1], r[2], NameRead(r[3]), Followed(r[3].tail, r[4])>>

(* What is left of the name goes to the line, as far as it is digits; from *)
(* a letter on, to the key of the actor, which then is nobody's. (Keys are *)
(* names: they begin with no digit.)                                       *)
Nobody == "nobody"

ParseState(r) ==
  LET e == NameRead(r[3])
      left == SubSeq(r[3].tail, Len(e.tail) + 1, Len(r[3].tail))
  IN  IF \A i \in DOMAIN left : left[i] \in Digit
      THEN <<r[1], r[2], e, Followed(left, r[4])>>
      ELSE <<r[1], Nobody, e, NumberOf(left)>>

(* A dialog that is on stays, with the choices of the game before (which   *)
(* the history field stale records) under the record of the game loaded.   *)
LoadDialog ==
  /\ Idle
  /\ player' = [player EXCEPT !.stale = Offered # {}]
  /\ states' = {ParseState(r) : r \in saveFile.states}
  /\ misread' = (misread \/ \E r \in saveFile.states : NameRead(r[3]) # r[3])
  /\ chosen' = saveFile.chosen
  /\ seen' = saveFile.seen
  /\ UNCHANGED <<file, text, call, line, mState, slots, saveFile, nStarts>>

-----------------------------------------------------------------------------
Init ==
  /\ file \in [Dialogs -> DOMAIN Library]
  /\ text = [d \in Dialogs |-> Parse(Stream(Library[file[d]]))]
  /\ player \in [dialog : Dialogs, actor : Actors, label : {0}, current : {1},
                 state : {"None"}, choices : {NoChoices}, limit : {DefaultLimit},
                 parrot : {TRUE}, waits : {FALSE}, next : {""},
                 stale : {FALSE}]
  /\ states = {}
  /\ call = NoCall
  /\ line = "over"
  /\ mState = "None"
  /\ slots = NoChoices
  /\ saveFile = [states |-> {}, chosen |-> {}, seen |-> {}]
  /\ misread = FALSE
  /\ nStarts = 0
  /\ chosen = {}
  /\ seen = {}

Step ==
  \/ EndOfLabel \/ RefuseStatement \/ AddChoice \/ StopAtChoices \/ RunRefused
  \/ Say \/ Code \/ Goto \/ Set \/ Return

Starts ==
  \E d \in Dialogs, a \in Actors :
    \E name \in {"nowhere"} \cup {Labels(d)[l].name : l \in DOMAIN Labels(d)} :
      StartDialog(d, a, name) \/ CodeStartsDialog(d, a, name)

Next ==
  \/ Step \/ UpdateDialog \/ LineEnds \/ SaveDialogs \/ LoadDialog \/ Starts
  \/ \E n \in 1..MaxSlots : Choose(n)

Spec == Init /\ [][Next]_vars

-----------------------------------------------------------------------------
(* Correctness                                                             *)

Spots == Dialogs \X Nat \X Nat

Who == Actors \cup STRING \cup {Nobody}

LabelNames == STRING \cup {""}

Player ==
  [dialog : Dialogs, actor : Who, label : Nat, current : Nat \ {0}, state : PlayerStates,
   choices : [1..MaxSlots -> Spots \cup {NoChoice}], limit : Nat, parrot : BOOLEAN,
   waits : BOOLEAN, next : LabelNames, stale : BOOLEAN]

Game ==
  [states : SUBSET (Conditions \X Who \X Dialogs \X Nat),
   chosen : SUBSET ({"once", "onceever"} \X Who \X Spots),
   seen   : SUBSET ({"showonce", "temponce"} \X Who \X Spots)]

TypeOK ==
  /\ text \in [Dialogs -> Seq(Label)]
  /\ player \in Player /\ player.label <= Len(Labels(player.dialog))
  /\ [states |-> states, chosen |-> chosen, seen |-> seen] \in Game
  /\ saveFile \in Game /\ misread \in BOOLEAN
  /\ call \in [by : {"none", "update", "start", "choose"}, stepping : BOOLEAN,
                nested : BOOLEAN]
  /\ line \in {"over", "said", "unheard"}
  /\ mState \in {"None", "Active", "WaitingForChoice"}
  /\ slots \in [1..MaxSlots -> Spots \cup {NoChoice}]
  /\ nStarts \in 0..MaxStarts

(* Choices on offer are there to choose, no more than the limit, and of    *)
(* the label being played; a dialog that plays has a label, and only the   *)
(* choices it stopped at.                                                  *)
ChoicesAreOffered ==
  /\ player.state = "WaitingForChoice" =>
       /\ Offered # {} /\ Cardinality(Offered) <= player.limit
       /\ \A c \in Offered : c[1] = player.dialog /\ c[2] = player.label
  /\ player.state \in {"Running", "WaitingEndAnimation"} => player.label # 0
  /\ player.state \in {"None", "WaitingEndAnimation"} => Offered = {}

(* No other dialog's records are read as d's, nor d's as another's.        *)
ToldApart(d) == \A e \in Dialogs : NameRead(e) = d <=> e = d

(* What a record says of the dialog d is so, unless its name is another's  *)
(* with something after it, or begins one, and such a record was loaded.   *)
Trusted(d) == misread => ToldApart(d)

(* [once], [onceever]: a choice is offered no more once this actor, or any *)
(* actor, has chosen it, in whatever visit or saved game, and no other is  *)
(* taken for it. [showonce], [temponce]: a choice is shown once, in all or *)
(* since the dialog was started. So it is of every dialog until a load has *)
(* read the record of a dialog under the name of another, and of those     *)
(* with names told apart after that.                                       *)
ChosenBefore(s) ==
  \E a \in {m[2] : m \in chosen} :
    /\ <<StatementAt(s).cond, a, s>> \in chosen
    /\ StatementAt(s).cond = "once" => a = player.actor

ComesToChoices ==
  player'.state = "WaitingForChoice" /\ player.state # "WaitingForChoice"

OnceMeansOnce ==
  [][ Trusted(player.dialog) =>
        /\ ComesToChoices => \A c \in Offered' : ~ChosenBefore(c)' /\ Mark(c)' \notin seen
        /\ RefuseStatement /\ OnceChosen(Here) => ChosenBefore(Here) ]_vars

(* The dialog that starts is the one its file spells, line by line; unless *)
(* an instruction without its argument takes the word after it.            *)
ReadAsWritten ==
  call.by = "start" /\ Clear(Library[file[player.dialog]]) =>
    Labels(player.dialog) = Meaning(Library[file[player.dialog]])

(* A line is heard to its end before the next statement that waits, unless *)
(* a goto, or code that started the dialog, led to it: then the call       *)
(* returning through run loses its wait.                                   *)
LineIsHeard ==
  [][ /\ player'.state = "WaitingEndAnimation"
      /\ player.state # "WaitingEndAnimation"
      => line # "said" ]_vars

-----------------------------------------------------------------------------
(* Liveness: frames follow each other, calls return and lines end.         *)

Fairness == WF_vars(Step) /\ WF_vars(UpdateDialog) /\ SF_vars(LineEnds)

FairSpec == Spec /\ Fairness

(* The gotos of every dialog lead forward, or to no label.                 *)
LeadsForward ==
  \A d \in Dialogs : \A l \in DOMAIN Labels(d) : \A i \in DOMAIN Labels(d)[l].body :
    Labels(d)[l].body[i].kind = "goto" =>
      LabelOf(d, Labels(d)[l].body[i].to) \notin 1..l

(* The engine hides the verbs while a dialog is active: it ends, or comes  *)
(* to a choice, unless a goto leads back.                                  *)
ActiveEnds == mState = "Active" /\ LeadsForward ~> mState # "Active"

=============================================================================
