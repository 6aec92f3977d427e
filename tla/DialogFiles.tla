---------------------------- MODULE DialogFiles ----------------------------
(***************************************************************************)
(* How a .byack file becomes a dialog: YackTokenReader cuts it into        *)
(* tokens, YackParser makes labels and statements of them.                 *)
(*                                                                         *)
(* Ends of lines are no tokens for the parser, which tells where a         *)
(* statement ends by what comes next: an instruction written without its   *)
(* argument takes the first word of the line after it. The reader counts   *)
(* the ends of lines it has come by, for a condition is known in saved     *)
(* games by its line.                                                      *)
(*                                                                         *)
(* The characters of words, texts and code are left out, and comments and  *)
(* empty lines. The loops of the parser are written as functions of the    *)
(* number of turns, which proofs can go along.                             *)
(***************************************************************************)
EXTENDS Naturals, SequencesExt

Instructions == {"waitfor", "pause", "shutup", "parrot", "dialog", "override",
                 "allowobjects", "limit"}

Kinds == Instructions \cup {"say", "waitwhile", "code", "goto", "choice"}

Conditions == {"none", "code", "once", "onceever", "showonce", "temponce"}

Statement == [kind : Kinds, arg : STRING, to : STRING, cond : Conditions, line : Nat]

Label == [name : STRING, body : Seq(Statement)]

-----------------------------------------------------------------------------
(* What authors write, line by line: a label, whose name is arg, or a      *)
(* statement with its argument or without (""), the label it leads to, and *)
(* a condition.                                                            *)

Lines == [kind : Kinds \cup {"label"}, arg : STRING, to : STRING, cond : Conditions]

(* A file begins with a label. Only choices and gotos lead somewhere, and  *)
(* some statements have no argument.                                       *)
Written(file) ==
  /\ file \in Seq(Lines)
  /\ file # <<>> => file[1].kind = "label"
  /\ \A n \in DOMAIN file :
       /\ file[n].kind \notin {"goto", "choice"} => file[n].to = ""
       /\ file[n].kind \in {"goto", "code", "waitwhile", "shutup"} => file[n].arg = ""
       /\ file[n].kind = "label" => file[n].cond = "none"

Token(id, text) == [id |-> id, text |-> text]

Argument(w) ==
  Token(IF w.kind \in {"limit", "pause"} THEN "Number" ELSE "Identifier", w.arg)

Words(w) ==
  CASE w.kind = "label"     -> <<Token("Colon", ":"), Token("Identifier", w.arg)>>
    [] w.kind = "say"       -> <<Token("Identifier", w.arg), Token("Colon", ":"),
                                 Token("String", "text")>>
    [] w.kind = "choice"    -> <<Token("Number", w.arg), Token("String", "text"),
                                 Token("Goto", "->"), Token("Identifier", w.to)>>
    [] w.kind = "goto"      -> <<Token("Goto", "->"), Token("Identifier", w.to)>>
    [] w.kind = "code"      -> <<Token("Code", "!")>>
    [] w.kind = "waitwhile" -> <<Token("WaitWhile", "waitwhile")>>
    [] w.kind \in Instructions /\ w.arg = ""
                            -> <<Token("Identifier", w.kind)>>
    [] w.kind \in Instructions /\ w.arg # ""
                            -> <<Token("Identifier", w.kind), Argument(w)>>

Line(w) ==
  IF w.cond = "none" THEN Words(w) ELSE Append(Words(w), Token("Condition", w.cond))

(* The tokens of the file, each line ended.                                *)
Stream(file) == [n \in DOMAIN file |-> Line(file[n])]

-----------------------------------------------------------------------------
(* The reader: a place is a line and a word of it, or the end.             *)

Place(line, word) == [line |-> line, word |-> word]

(* What the iterator points to.                                            *)
At(stream, p) ==
  IF p.line <= Len(stream) THEN stream[p.line][p.word] ELSE Token("End", "")

(* readToken goes by the end of a line as by white space.                  *)
Following(stream, p) ==
  CASE p.line > Len(stream) -> p
    [] p.line <= Len(stream) /\ p.word < Len(stream[p.line]) -> Place(p.line, p.word + 1)
    [] OTHER -> Place(p.line + 1, 1)

(* Mutant: the line that ends is taken for the one before.                 *)
LineOfAbove(stream, p) ==
  IF Following(stream, p).line = p.line THEN p.line ELSE p.line - 1

(* getLine: the ends of lines known are those before the token after the   *)
(* condition, which match has read; where there is none the line is 0.     *)
LineOf(stream, p) == IF Following(stream, p).line = 1 THEN 0 ELSE p.line

-----------------------------------------------------------------------------
(* The parser: what it reads from a place, and the place after it.         *)

Expression(kind, arg, to, next) ==
  [kind |-> kind, arg |-> arg, to |-> to, next |-> next]

(* An instruction takes what comes next for its argument, if it may be.    *)
TakesArgument(stream, p) ==
  LET next == At(stream, Following(stream, p)).id
  IN  CASE At(stream, p).text = "shutup" -> FALSE
        [] At(stream, p).text = "pause"  -> TRUE
        [] At(stream, p).text = "limit"  -> next = "Number"
        [] OTHER                         -> next = "Identifier"

ParseInstruction(stream, p) ==
  LET p1 == Following(stream, p)
  IN  IF TakesArgument(stream, p)
      THEN Expression(At(stream, p).text, At(stream, p1).text, "", Following(stream, p1))
      ELSE Expression(At(stream, p).text, "", "", p1)

(* A word, a colon and a string.                                           *)
SomeoneSays(stream, p) ==
  LET p1 == Following(stream, p)
  IN  /\ At(stream, p).id = "Identifier"
      /\ At(stream, p1).id = "Colon"
      /\ At(stream, Following(stream, p1)).id = "String"

(* Where no expression begins, none is read and nothing is passed over.    *)
ParseExpression(stream, p) ==
  LET id == At(stream, p).id
      p1 == Following(stream, p)
      p2 == Following(stream, p1)
      p3 == Following(stream, p2)
  IN  CASE SomeoneSays(stream, p) -> Expression("say", At(stream, p).text, "", p3)
        [] id = "Identifier" /\ ~SomeoneSays(stream, p) -> ParseInstruction(stream, p)
        [] id = "WaitWhile"  -> Expression("waitwhile", "", "", p1)
        [] id = "Goto"       -> Expression("goto", "", At(stream, p1).text, p2)
        [] id = "Number"     -> Expression("choice", At(stream, p).text,
                                           At(stream, p3).text, Following(stream, p3))
        [] id = "Code"       -> Expression("code", "", "", p1)
        [] OTHER             -> Expression("none", "", "", p)

(* One condition stands for all that may follow a statement.               *)
ParseStatement(stream, p) ==
  LET e == ParseExpression(stream, p)
      conditioned == At(stream, e.next).id = "Condition"
  IN  [statement |->
         [kind |-> e.kind, arg |-> e.arg, to |-> e.to,
          cond |-> IF conditioned THEN At(stream, e.next).text ELSE "none",
          line |-> IF conditioned THEN LineOf(stream, e.next) ELSE 0],
       next |-> IF conditioned THEN Following(stream, e.next) ELSE e.next]

WithLabel(labels, name) == Append(labels, [name |-> name, body |-> <<>>])

(* A statement goes to the label opened last.                              *)
WithStatement(labels, statement) ==
  [labels EXCEPT ![Len(labels)].body = Append(@, statement)]

(* One turn of the loops of parse and parseLabel: a label begins with what *)
(* should be a colon, statements go on up to the next colon or the end.    *)
Turn(stream, s) ==
  LET p1 == Following(stream, s.at)
      t == ParseStatement(stream, s.at)
  IN  CASE At(stream, s.at).id = "End" -> s
        [] At(stream, s.at).id # "End"
             /\ (s.labels = <<>> \/ At(stream, s.at).id = "Colon") ->
             [at |-> Following(stream, p1), labels |-> WithLabel(s.labels, At(stream, p1).text)]
        [] OTHER -> [at |-> t.next, labels |-> WithStatement(s.labels, t.statement)]

(* No line has more words.                                                 *)
LongestLine == 5

(* The parser after so many turns. A statement that passes over nothing is *)
(* read for ever: the last turns all add it.                               *)
Turns(stream) ==
  LET after[n \in 0..(LongestLine * Len(stream))] ==
        IF n = 0 THEN [at |-> Place(1, 1), labels |-> <<>>]
        ELSE Turn(stream, after[n - 1])
  IN  after

Parse(stream) == Turns(stream)[LongestLine * Len(stream)].labels

-----------------------------------------------------------------------------
(* What the author meant: a line that is no label is the next statement of *)
(* the label above, and its condition is known by its line.                *)

StatementOn(file, n) ==
  [kind |-> file[n].kind, arg |-> file[n].arg, to |-> file[n].to, cond |-> file[n].cond,
   line |-> IF file[n].cond = "none" THEN 0 ELSE n]

WithLine(file, labels, n) ==
  IF file[n].kind = "label"
  THEN WithLabel(labels, file[n].arg)
  ELSE WithStatement(labels, StatementOn(file, n))

LabelsUpTo(file) ==
  LET upTo[n \in 0..Len(file)] ==
        IF n = 0 THEN <<>> ELSE WithLine(file, upTo[n - 1], n)
  IN  upTo

Meaning(file) == LabelsUpTo(file)[Len(file)]

(* What an instruction without argument or condition would take for its    *)
(* argument, if the next line begins with it.                              *)
Taken(w) ==
  CASE w.kind = "limit"  -> {"choice"}
    [] w.kind = "shutup" -> {}
    [] OTHER             -> Instructions \cup {"say"}

(* No instruction takes what was not meant for it; pause takes anything.   *)
Clear(file) ==
  \A n \in DOMAIN file :
    file[n].kind \in Instructions /\ file[n].arg = "" =>
      /\ file[n].kind # "pause"
      /\ file[n].cond = "none" /\ n < Len(file) => file[n + 1].kind \notin Taken(file[n])

=============================================================================
