------------------------------ MODULE MCDialog ------------------------------
(* Small instances of Dialog for TLC: every dialog of two short labels     *)
(* over the statements that matter to a run.                               *)
EXTENDS Dialog

Named(letters, tail) == [letters |-> letters, tail |-> tail]

Bridge == Named("Bridge", <<>>)

(* Bridge0 is read as Bridge, the lines as they are; Quay3 is told apart.  *)
Names == {Bridge, Named("Bridge", <<0>>), Named("Quay", <<3>>)}

Plain(kind) == [kind |-> kind, arg |-> "", to |-> "", cond |-> "none"]
With(kind, arg) == [Plain(kind) EXCEPT !.arg = arg]
GotoLabel(name) == [Plain("goto") EXCEPT !.to = name]
If(cond, s) == [s EXCEPT !.cond = cond]
ChoiceTo(n, name) == [With("choice", n) EXCEPT !.to = name]

Says == With("say", "ray")

Under(name, body) == <<With("label", name)>> \o body

TwoLabels(body1, body2) == Under("one", body1) \o Under("two", body2)

(* All ways to take one of a and one of b, in pairs.                       *)
Pairs(a, b) ==
  [n \in 1..(Len(a) * Len(b)) |->
     <<a[((n - 1) % Len(a)) + 1], b[((n - 1) \div Len(a)) + 1]>>]

(* Two choices under any conditions, that lead back or to a short answer.  *)
ChoicesOf(n) ==
  <<ChoiceTo(n, "one"), If("once", ChoiceTo(n, "one")), If("onceever", ChoiceTo(n, "one")),
    If("showonce", ChoiceTo(n, "one")), If("temponce", ChoiceTo(n, "one")),
    ChoiceTo(n, "two"), If("once", ChoiceTo(n, "two")), If("onceever", ChoiceTo(n, "two")),
    If("showonce", ChoiceTo(n, "two")), If("temponce", ChoiceTo(n, "two"))>>

ConditionFiles ==
  LET all == Pairs(Pairs(ChoicesOf("1"), Tail(ChoicesOf("2"))), <<Says, GotoLabel("one")>>)
  IN  [n \in DOMAIN all |-> TwoLabels(all[n][1], <<all[n][2]>>)]

(* Any statements, choices of one number among them.                       *)
Statements ==
  <<Says, GotoLabel("two"), With("limit", "1"), ChoiceTo("1", "two"), ChoiceTo("2", "one")>>

FirstStatements ==
  Statements \o <<Plain("code"), With("parrot", "no"), With("dialog", "reyes"),
                  If("code", Says), If("temponce", Says),
                  If("showonce", ChoiceTo("2", "nowhere"))>>

(* The last of a label is one that something may come after.               *)
LastStatements ==
  <<Says, GotoLabel("two"), ChoiceTo("1", "two"), If("showonce", ChoiceTo("2", "nowhere"))>>

StatementFiles ==
  LET all == Pairs(Pairs(FirstStatements, Statements),
                   Pairs(LastStatements, <<Says, ChoiceTo("1", "nowhere")>>))
  IN  [n \in DOMAIN all |-> TwoLabels(Append(all[n][1], all[n][2][1]), <<all[n][2][2]>>)]

(* No label leads back to itself but by a choice.                          *)
Forward ==
  <<Says, If("code", Says), Plain("code"), With("parrot", "yes"), GotoLabel("two"),
    GotoLabel("nowhere"), ChoiceTo("1", "one"), ChoiceTo("2", "two")>>

ForwardFiles ==
  LET all == Pairs(Pairs(Forward, Forward),
                   <<Says, Plain("code"), ChoiceTo("1", "one"), ChoiceTo("2", "nowhere")>>)
  IN  [n \in DOMAIN all |-> TwoLabels(all[n][1], <<all[n][2]>>)]

(* Instructions without arguments, under a condition or not, before what   *)
(* may come after them; and two labels of one name.                        *)
Bare ==
  <<Plain("waitfor"), Plain("shutup"), Plain("parrot"), Plain("dialog"), Plain("override"),
    Plain("allowobjects"), Plain("limit"), If("code", Plain("waitfor"))>>

After ==
  <<Says, Plain("waitwhile"), Plain("code"), GotoLabel("two"),
    Plain("shutup"), Plain("waitfor")>>

BareFiles ==
  LET all == Pairs(Bare, After)
  IN  [n \in DOMAIN all |->
         TwoLabels(all[n] \o <<If("once", ChoiceTo("1", "two"))>>,
                   <<Says>>)]

TwinFiles ==
  LET all == Pairs(Pairs(<<Says, GotoLabel("two")>>, <<Says, ChoiceTo("1", "two")>>),
                   <<Says, If("onceever", ChoiceTo("2", "one"))>>)
  IN  [n \in DOMAIN all |->
         TwoLabels(<<all[n][1][1]>>, <<all[n][1][2]>>) \o Under("two", <<all[n][2]>>)]

(* Choices in lines that the digits of a name leave as they are, or not.   *)
NamedFile ==
  Under("one", <<If("onceever", ChoiceTo("1", "nowhere")), If("once", ChoiceTo("2", "nowhere"))>>)

AllFiles ==
  <<NamedFile>> \o ConditionFiles \o ForwardFiles \o StatementFiles \o BareFiles \o TwinFiles

(* Either every dialog has the one file, and any of them is played, or     *)
(* Bridge has another, and only it is.                                     *)
MCInit ==
  /\ file \in {[d \in Names |-> IF d = Bridge THEN f ELSE 1] : f \in DOMAIN AllFiles}
  /\ Init
  /\ file[Bridge] # 1 => player.dialog = Bridge

MCNext == Next /\ (file[Bridge] # 1 => player'.dialog = Bridge)

MCSpec == MCInit /\ [][MCNext]_vars /\ Fairness

=============================================================================
