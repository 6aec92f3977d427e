---------------------------- MODULE DialogProofs ----------------------------
(***************************************************************************)
(* Proofs about DialogFiles and Dialog, for any dialogs and any files that *)
(* the parser reads to the end: how a file is read; then the types, the    *)
(* choices on offer, conditions that let a choice through once, and lines  *)
(* heard to their end.                                                     *)
(*                                                                         *)
(* The parser is a recursive function of the number of turns. What holds   *)
(* of it after every turn is shown by Induct, from the least number after  *)
(* which it would not hold.                                                *)
(***************************************************************************)
EXTENDS Dialog, SequenceTheorems, FiniteSetTheorems, WellFoundedInduction, TLAPS

-----------------------------------------------------------------------------
(* Files                                                                   *)

(* Whatever 0 has, and n + 1 has that n has, every number has.             *)
LEMMA Induct ==
  ASSUME NEW T \in SUBSET Nat, 0 \in T, \A n \in T : n + 1 \in T PROVE T = Nat
<1> SUFFICES ASSUME T # Nat PROVE FALSE
  OBVIOUS
<1> DEFINE S == Nat \ T
<1>1. S \subseteq Nat /\ S # {}
  OBVIOUS
<1> HIDE DEF S
<1>2. PICK n \in S : \A k \in S : ~(<<k, n>> \in OpToRel(<, Nat))
  BY <1>1, NatLessThanWellFounded, WFMin, Zenon
<1>3. n \in Nat \ T /\ n # 0
  BY DEF S
<1>4. n - 1 \in Nat /\ (n - 1) + 1 = n
  BY <1>3
<1>5. n - 1 \in S
  BY <1>3, <1>4 DEF S
<1>6. <<n - 1, n>> \in OpToRel(<, Nat)
  <2> DEFINE p == <<n - 1, n>>
  <2>1. p \in Nat \X Nat /\ p[1] = n - 1 /\ p[2] = n
    BY <1>3, <1>4
  <2> HIDE DEF p
  <2>2. p \in {q \in Nat \X Nat : q[1] < q[2]}
    BY <1>3, <2>1
  <2> QED
    BY <2>2 DEF p, OpToRel
<1> QED
  BY <1>2, <1>5, <1>6

-----------------------------------------------------------------------------
(* The loops: the parser, turn by turn, and the author, line by line       *)

Begins == [at |-> Place(1, 1), labels |-> <<>>]

LEMMA TurnByTurn ==
  ASSUME NEW stream, Len(stream) \in Nat
  PROVE  /\ Turns(stream)[0] = Begins
         /\ \A n \in 1..(LongestLine * Len(stream)) :
              Turns(stream)[n] = Turn(stream, Turns(stream)[n - 1])
<1> DEFINE Upto(N, f) ==
             f = [n \in 0..N |-> IF n = 0 THEN Begins ELSE Turn(stream, f[n - 1])]
           T == {N \in Nat : \E f : Upto(N, f)}
<1>1. 0 \in T
  <2> DEFINE f == [n \in 0..0 |-> Begins]
  <2>1. Upto(0, f)
    OBVIOUS
  <2> QED
    BY <2>1
<1>2. ASSUME NEW N \in T PROVE N + 1 \in T
  <2>1. N \in Nat
    OBVIOUS
  <2>2. PICK f : Upto(N, f)
    OBVIOUS
  <2> DEFINE g == [n \in 0..(N + 1) |-> IF n <= N THEN f[n] ELSE Turn(stream, f[N])]
  <2>3. ASSUME NEW n \in 0..(N + 1)
        PROVE  g[n] = IF n = 0 THEN Begins ELSE Turn(stream, g[n - 1])
    <3>1. CASE n = 0
      BY <2>1, <2>2, <3>1
    <3>2. CASE n \in 1..N
      <4>1. f[n] = Turn(stream, f[n - 1])
        BY <2>1, <2>2, <3>2
      <4>2. g[n] = f[n] /\ g[n - 1] = f[n - 1]
        BY <2>1, <3>2
      <4> QED
        BY <3>2, <4>1, <4>2
    <3>3. CASE n = N + 1
      <4>1. g[n] = Turn(stream, f[N]) /\ g[n - 1] = f[N] /\ n # 0
        BY <2>1, <3>3
      <4> QED
        BY <4>1
    <3> QED
      BY <2>1, <3>1, <3>2, <3>3
  <2>4. Upto(N + 1, g)
    <3> HIDE DEF g
    <3>1. g = [n \in 0..(N + 1) |-> g[n]]
      BY DEF g
    <3> QED
      BY <2>3, <3>1, Zenon
  <2>5. \E h : Upto(N + 1, h)
    <3> HIDE DEF g, Upto
    <3> QED
      BY <2>4
  <2>6. N + 1 \in Nat
    BY <2>1
  <2> QED
    BY <2>5, <2>6
<1>3. T = Nat
  <2> HIDE DEF T
  <2>1. T \in SUBSET Nat
    BY DEF T
  <2> QED
    BY <1>1, <1>2, <2>1, Induct
<1> DEFINE L == LongestLine * Len(stream)
<1>4. L \in Nat
  BY DEF LongestLine
<1>5. \E f : Upto(L, f)
  BY <1>3, <1>4
<1>6. Turns(stream) = CHOOSE f : Upto(L, f)
  BY DEF Turns, Begins
<1>7. Upto(L, Turns(stream))
  BY <1>5, <1>6, Zenon
<1> QED
  <2> HIDE DEF L
  <2>1. \A n \in 0..L : Turns(stream)[n] =
          IF n = 0 THEN Begins ELSE Turn(stream, Turns(stream)[n - 1])
    BY <1>7
  <2> QED
    BY <1>4, <2>1 DEF L

LEMMA LineByLine ==
  ASSUME NEW yack, Len(yack) \in Nat
  PROVE  /\ LabelsUpTo(yack)[0] = <<>>
         /\ \A n \in 1..Len(yack) :
              LabelsUpTo(yack)[n] = WithLine(yack, LabelsUpTo(yack)[n - 1], n)
<1> DEFINE Upto(N, f) ==
             f = [n \in 0..N |-> IF n = 0 THEN <<>> ELSE WithLine(yack, f[n - 1], n)]
           T == {N \in Nat : \E f : Upto(N, f)}
<1>1. 0 \in T
  <2> DEFINE f == [n \in 0..0 |-> <<>>]
  <2>1. Upto(0, f)
    OBVIOUS
  <2> QED
    BY <2>1
<1>2. ASSUME NEW N \in T PROVE N + 1 \in T
  <2>1. N \in Nat
    OBVIOUS
  <2>2. PICK f : Upto(N, f)
    OBVIOUS
  <2> DEFINE g == [n \in 0..(N + 1) |-> IF n <= N THEN f[n] ELSE WithLine(yack, f[N], N + 1)]
  <2>3. ASSUME NEW n \in 0..(N + 1)
        PROVE  g[n] = IF n = 0 THEN <<>> ELSE WithLine(yack, g[n - 1], n)
    <3>1. CASE n = 0
      BY <2>1, <2>2, <3>1
    <3>2. CASE n \in 1..N
      <4>1. f[n] = WithLine(yack, f[n - 1], n)
        BY <2>1, <2>2, <3>2
      <4>2. g[n] = f[n] /\ g[n - 1] = f[n - 1]
        BY <2>1, <3>2
      <4> QED
        BY <3>2, <4>1, <4>2
    <3>3. CASE n = N + 1
      <4>1. g[n] = WithLine(yack, f[N], n) /\ g[n - 1] = f[N] /\ n # 0
        BY <2>1, <3>3
      <4> QED
        BY <4>1
    <3> QED
      BY <2>1, <3>1, <3>2, <3>3
  <2>4. Upto(N + 1, g)
    <3> HIDE DEF g
    <3>1. g = [n \in 0..(N + 1) |-> g[n]]
      BY DEF g
    <3> QED
      BY <2>3, <3>1, Zenon
  <2>5. \E h : Upto(N + 1, h)
    <3> HIDE DEF g, Upto
    <3> QED
      BY <2>4
  <2>6. N + 1 \in Nat
    BY <2>1
  <2> QED
    BY <2>5, <2>6
<1>3. T = Nat
  <2> HIDE DEF T
  <2>1. T \in SUBSET Nat
    BY DEF T
  <2> QED
    BY <1>1, <1>2, <2>1, Induct
<1> DEFINE L == Len(yack)
<1>4. L \in Nat
  OBVIOUS
<1>5. \E f : Upto(L, f)
  BY <1>3, <1>4
<1>6. LabelsUpTo(yack) = CHOOSE f : Upto(L, f)
  BY DEF LabelsUpTo
<1>7. Upto(L, LabelsUpTo(yack))
  BY <1>5, <1>6, Zenon
<1> QED
  <2> HIDE DEF L
  <2>1. \A n \in 0..L : LabelsUpTo(yack)[n] =
          IF n = 0 THEN <<>> ELSE WithLine(yack, LabelsUpTo(yack)[n - 1], n)
    BY <1>7
  <2> QED
    BY <1>4, <2>1 DEF L

-----------------------------------------------------------------------------
(* Words of lines                                                          *)

LEMMA WordsAre ==
  ASSUME NEW w
  PROVE  /\ w.kind = "label" => Words(w) = <<Token("Colon", ":"), Token("Identifier", w.arg)>>
         /\ w.kind = "say" => Words(w) = <<Token("Identifier", w.arg), Token("Colon", ":"),
                                           Token("String", "text")>>
         /\ w.kind = "choice" => Words(w) = <<Token("Number", w.arg), Token("String", "text"),
                                              Token("Goto", "->"), Token("Identifier", w.to)>>
         /\ w.kind = "goto" => Words(w) = <<Token("Goto", "->"), Token("Identifier", w.to)>>
         /\ w.kind = "code" => Words(w) = <<Token("Code", "!")>>
         /\ w.kind = "waitwhile" => Words(w) = <<Token("WaitWhile", "waitwhile")>>
         /\ w.kind \in Instructions =>
              Words(w) = IF w.arg = "" THEN <<Token("Identifier", w.kind)>>
                         ELSE <<Token("Identifier", w.kind), Argument(w)>>
BY DEF Words, Instructions

LEMMA WordByWord ==
  ASSUME NEW w
  PROVE  /\ w.kind = "label" =>
              /\ Len(Words(w)) = 2
              /\ Words(w)[1] = Token("Colon", ":")
              /\ Words(w)[2] = Token("Identifier", w.arg)
         /\ w.kind = "say" =>
              /\ Len(Words(w)) = 3
              /\ Words(w)[1] = Token("Identifier", w.arg)
              /\ Words(w)[2] = Token("Colon", ":")
              /\ Words(w)[3] = Token("String", "text")
         /\ w.kind = "choice" =>
              /\ Len(Words(w)) = 4
              /\ Words(w)[1] = Token("Number", w.arg)
              /\ Words(w)[2] = Token("String", "text")
              /\ Words(w)[3] = Token("Goto", "->")
              /\ Words(w)[4] = Token("Identifier", w.to)
         /\ w.kind = "goto" =>
              /\ Len(Words(w)) = 2
              /\ Words(w)[1] = Token("Goto", "->")
              /\ Words(w)[2] = Token("Identifier", w.to)
         /\ w.kind = "code" =>
              /\ Len(Words(w)) = 1
              /\ Words(w)[1] = Token("Code", "!")
         /\ w.kind = "waitwhile" =>
              /\ Len(Words(w)) = 1
              /\ Words(w)[1] = Token("WaitWhile", "waitwhile")
         /\ w.kind \in Instructions =>
              /\ Len(Words(w)) = IF w.arg = "" THEN 1 ELSE 2
              /\ Words(w)[1] = Token("Identifier", w.kind)
              /\ w.arg # "" => Words(w)[2] = Argument(w)
<1>1. ASSUME w.kind = "label"
      PROVE  /\ Len(Words(w)) = 2
             /\ Words(w)[1] = Token("Colon", ":")
             /\ Words(w)[2] = Token("Identifier", w.arg)
  <2>1. Words(w) = <<Token("Colon", ":"), Token("Identifier", w.arg)>>
    BY <1>1, WordsAre
  <2> QED
    BY <2>1
<1>2. ASSUME w.kind = "say"
      PROVE  /\ Len(Words(w)) = 3
             /\ Words(w)[1] = Token("Identifier", w.arg)
             /\ Words(w)[2] = Token("Colon", ":")
             /\ Words(w)[3] = Token("String", "text")
  <2>1. Words(w) = <<Token("Identifier", w.arg), Token("Colon", ":"),
                    Token("String", "text")>>
    BY <1>2, WordsAre
  <2> QED
    BY <2>1
<1>3. ASSUME w.kind = "choice"
      PROVE  /\ Len(Words(w)) = 4
             /\ Words(w)[1] = Token("Number", w.arg)
             /\ Words(w)[2] = Token("String", "text")
             /\ Words(w)[3] = Token("Goto", "->")
             /\ Words(w)[4] = Token("Identifier", w.to)
  <2>1. Words(w) = <<Token("Number", w.arg), Token("String", "text"),
                    Token("Goto", "->"), Token("Identifier", w.to)>>
    BY <1>3, WordsAre
  <2> QED
    BY <2>1
<1>4. ASSUME w.kind = "goto"
      PROVE  /\ Len(Words(w)) = 2
             /\ Words(w)[1] = Token("Goto", "->")
             /\ Words(w)[2] = Token("Identifier", w.to)
  <2>1. Words(w) = <<Token("Goto", "->"), Token("Identifier", w.to)>>
    BY <1>4, WordsAre
  <2> QED
    BY <2>1
<1>5. ASSUME w.kind = "code"
      PROVE  /\ Len(Words(w)) = 1
             /\ Words(w)[1] = Token("Code", "!")
  <2>1. Words(w) = <<Token("Code", "!")>>
    BY <1>5, WordsAre
  <2> QED
    BY <2>1
<1>6. ASSUME w.kind = "waitwhile"
      PROVE  /\ Len(Words(w)) = 1
             /\ Words(w)[1] = Token("WaitWhile", "waitwhile")
  <2>1. Words(w) = <<Token("WaitWhile", "waitwhile")>>
    BY <1>6, WordsAre
  <2> QED
    BY <2>1
<1>7. ASSUME w.kind \in Instructions
      PROVE  /\ Len(Words(w)) = IF w.arg = "" THEN 1 ELSE 2
             /\ Words(w)[1] = Token("Identifier", w.kind)
             /\ w.arg # "" => Words(w)[2] = Argument(w)
  <2>1. CASE w.arg = ""
    <3>1. Words(w) = <<Token("Identifier", w.kind)>>
      BY <1>7, <2>1, WordsAre
    <3>2. Len(Words(w)) = 1 /\ Words(w)[1] = Token("Identifier", w.kind)
      BY <3>1
    <3> QED
      BY <2>1, <3>2
  <2>2. CASE w.arg # ""
    <3>1. Words(w) = <<Token("Identifier", w.kind), Argument(w)>>
      BY <1>7, <2>2, WordsAre
    <3>2. /\ Len(Words(w)) = 2 /\ Words(w)[1] = Token("Identifier", w.kind)
          /\ Words(w)[2] = Argument(w)
      BY <3>1
    <3> QED
      BY <2>2, <3>2
  <2> QED
    BY <2>1, <2>2
<1> QED
  BY <1>1, <1>2, <1>3, <1>4, <1>5, <1>6, <1>7, Zenon

LEMMA WordsOfLine ==
  ASSUME NEW w \in Lines
  PROVE  /\ \E S : Words(w) \in Seq(S)
         /\ Len(Words(w)) \in 1..4
         /\ \A k \in 1..Len(Words(w)) : Words(w)[k].id \notin {"Condition", "End"}
<1> DEFINE Fine(s) == /\ \E S : s \in Seq(S)
                      /\ Len(s) \in 1..4
                      /\ \A k \in 1..Len(s) : s[k].id \notin {"Condition", "End"}
<1>1. \A id, t : Token(id, t).id = id
  BY DEF Token
<1>2. ASSUME NEW a,
             \A e \in {a} : e.id \notin {"Condition", "End"}
      PROVE  Fine(<<a>>)
  <2> DEFINE s == <<a>>
  <2>1. s \in Seq({a}) /\ Len(s) = 1
    OBVIOUS
  <2>2. s[1] = a
    OBVIOUS
  <2> HIDE DEF s
  <2>3. \A k \in 1..Len(s) : s[k] \in {a}
    BY <2>1, <2>2
  <2>4. \E S : s \in Seq(S)
    BY <2>1, Zenon
  <2>5. Fine(s)
    BY <1>2, <2>1, <2>3, <2>4
  <2> QED
    BY <2>5 DEF s
<1>3. ASSUME NEW a, NEW b,
             \A e \in {a, b} : e.id \notin {"Condition", "End"}
      PROVE  Fine(<<a, b>>)
  <2> DEFINE s == <<a, b>>
  <2>1. s \in Seq({a, b}) /\ Len(s) = 2
    OBVIOUS
  <2>2. s[1] = a /\ s[2] = b
    OBVIOUS
  <2> HIDE DEF s
  <2>3. \A k \in 1..Len(s) : s[k] \in {a, b}
    BY <2>1, <2>2
  <2>4. \E S : s \in Seq(S)
    BY <2>1, Zenon
  <2>5. Fine(s)
    BY <1>3, <2>1, <2>3, <2>4
  <2> QED
    BY <2>5 DEF s
<1>4. ASSUME NEW a, NEW b, NEW c,
             \A e \in {a, b, c} : e.id \notin {"Condition", "End"}
      PROVE  Fine(<<a, b, c>>)
  <2> DEFINE s == <<a, b, c>>
  <2>1. s \in Seq({a, b, c}) /\ Len(s) = 3
    OBVIOUS
  <2>2. s[1] = a /\ s[2] = b /\ s[3] = c
    OBVIOUS
  <2> HIDE DEF s
  <2>3. \A k \in 1..Len(s) : s[k] \in {a, b, c}
    BY <2>1, <2>2
  <2>4. \E S : s \in Seq(S)
    BY <2>1, Zenon
  <2>5. Fine(s)
    BY <1>4, <2>1, <2>3, <2>4
  <2> QED
    BY <2>5 DEF s
<1>5. ASSUME NEW a, NEW b, NEW c, NEW d,
             \A e \in {a, b, c, d} : e.id \notin {"Condition", "End"}
      PROVE  Fine(<<a, b, c, d>>)
  <2> DEFINE s == <<a, b, c, d>>
  <2>1. s \in Seq({a, b, c, d}) /\ Len(s) = 4
    OBVIOUS
  <2>2. s[1] = a /\ s[2] = b /\ s[3] = c /\ s[4] = d
    OBVIOUS
  <2> HIDE DEF s
  <2>3. \A k \in 1..Len(s) : s[k] \in {a, b, c, d}
    BY <2>1, <2>2
  <2>4. \E S : s \in Seq(S)
    BY <2>1, Zenon
  <2>5. Fine(s)
    BY <1>5, <2>1, <2>3, <2>4
  <2> QED
    BY <2>5 DEF s
<1> SUFFICES Fine(Words(w))
  OBVIOUS
<1> HIDE DEF Fine
<1>6. CASE w.kind = "label"
  <2>1. Words(w) = <<Token("Colon", ":"), Token("Identifier", w.arg)>>
    BY <1>6, WordsAre
  <2> QED
    BY <1>1, <1>3, <2>1
<1>7. CASE w.kind = "goto"
  <2>1. Words(w) = <<Token("Goto", "->"), Token("Identifier", w.to)>>
    BY <1>7, WordsAre
  <2> QED
    BY <1>1, <1>3, <2>1
<1>8. CASE w.kind \in {"say", "choice"}
  <2>1. \/ Words(w) = <<Token("Identifier", w.arg), Token("Colon", ":"),
                        Token("String", "text")>>
        \/ Words(w) = <<Token("Number", w.arg), Token("String", "text"),
                        Token("Goto", "->"), Token("Identifier", w.to)>>
    BY <1>8, WordsAre
  <2> QED
    BY <1>1, <1>4, <1>5, <2>1
<1>9. CASE w.kind \in {"code", "waitwhile"}
  <2>1. Words(w) = <<Token("Code", "!")>> \/ Words(w) = <<Token("WaitWhile", "waitwhile")>>
    BY <1>9, WordsAre
  <2> QED
    BY <1>1, <1>2, <2>1
<1>10. CASE w.kind \in Instructions /\ w.arg = ""
  <2>1. Words(w) = <<Token("Identifier", w.kind)>>
    BY <1>10, WordsAre
  <2> QED
    BY <1>1, <1>2, <2>1
<1>11. CASE w.kind \in Instructions /\ w.arg # ""
  <2>1. Words(w) = <<Token("Identifier", w.kind), Argument(w)>>
    BY <1>11, WordsAre
  <2>2. Argument(w).id \in {"Identifier", "Number"}
    BY <1>1 DEF Argument
  <2> QED
    BY <1>1, <1>3, <2>1, <2>2
<1>12. w.kind \in {"label", "say", "choice", "goto", "code", "waitwhile"} \cup Instructions
  BY DEF Lines, Kinds
<1> QED
  BY <1>6, <1>7, <1>8, <1>9, <1>10, <1>11, <1>12

(* The words of a line, and its condition after them.                      *)
LEMMA TokensOfLine ==
  ASSUME NEW w \in Lines
  PROVE  /\ Len(Line(w)) = Len(Words(w)) + IF w.cond = "none" THEN 0 ELSE 1
         /\ Len(Line(w)) \in 1..LongestLine
         /\ \A k \in 1..Len(Words(w)) : Line(w)[k] = Words(w)[k]
         /\ w.cond # "none" => Line(w)[Len(Words(w)) + 1] = Token("Condition", w.cond)
<1> DEFINE s == Words(w)
           c == Token("Condition", w.cond)
<1>1. Len(s) \in 1..4 /\ \E S : s \in Seq(S)
  BY WordsOfLine
<1>2. Line(w) = IF w.cond = "none" THEN s ELSE Append(s, c)
  BY DEF Line
<1> HIDE DEF c, s
<1>3. CASE w.cond = "none"
  BY <1>1, <1>2, <1>3 DEF s, LongestLine
<1>4. CASE w.cond # "none"
  <2>1. PICK S : s \in Seq(S)
    BY <1>1
  <2>2. s \in Seq(S \cup {c}) /\ c \in S \cup {c}
    BY <2>1
  <2>3. /\ Len(Append(s, c)) = Len(s) + 1
        /\ \A k \in 1..Len(s) : Append(s, c)[k] = s[k]
        /\ Append(s, c)[Len(s) + 1] = c
    BY <2>2, AppendProperties
  <2> QED
    BY <1>1, <1>2, <1>4, <2>3 DEF s, c, LongestLine
<1> QED
  BY <1>3, <1>4

-----------------------------------------------------------------------------
(* Going along a line                                                      *)

AfterWords(yack, n) ==
  IF yack[n].cond = "none" THEN Place(n + 1, 1) ELSE Place(n, Len(Words(yack[n])) + 1)

LEMMA StreamOf ==
  ASSUME NEW yack, Written(yack)
  PROVE  /\ Len(yack) \in Nat /\ Len(Stream(yack)) = Len(yack) /\ DOMAIN yack = 1..Len(yack)
         /\ \A n \in 1..Len(yack) : yack[n] \in Lines /\ Stream(yack)[n] = Line(yack[n])
<1>1. yack \in Seq(Lines)
  BY DEF Written
<1>2. DOMAIN yack = 1..Len(yack) /\ Len(yack) \in Nat
  BY <1>1
<1>3. Stream(yack) = [n \in 1..Len(yack) |-> Line(yack[n])]
  BY <1>2 DEF Stream
<1>4. Len(Stream(yack)) = Len(yack)
  BY <1>2, <1>3
<1> QED
  BY <1>1, <1>2, <1>3, <1>4

LEMMA AtWords ==
  ASSUME NEW yack, Written(yack), NEW n \in 1..Len(yack), NEW k \in 1..Len(Words(yack[n]))
  PROVE  /\ At(Stream(yack), Place(n, k)) = Words(yack[n])[k]
         /\ Following(Stream(yack), Place(n, k)) =
              IF k < Len(Words(yack[n])) THEN Place(n, k + 1) ELSE AfterWords(yack, n)
<1> DEFINE w == yack[n]
           S == Stream(yack)
           len == Len(Words(w))
<1>1. w \in Lines /\ S[n] = Line(w) /\ n <= Len(S) /\ Len(S) \in Nat /\ n \in Nat
  BY StreamOf
<1>2. len \in 1..4
  BY <1>1, WordsOfLine
<1>3. /\ Len(Line(w)) = len + IF w.cond = "none" THEN 0 ELSE 1
      /\ Line(w)[k] = Words(w)[k]
  BY <1>1, TokensOfLine
<1>4. Place(n, k).line = n /\ Place(n, k).word = k
  BY DEF Place
<1>5. At(S, Place(n, k)) = Words(w)[k]
  BY <1>1, <1>3, <1>4 DEF At
<1> HIDE DEF w, S, len
<1>6. Following(S, Place(n, k)) = IF k < Len(Line(w)) THEN Place(n, k + 1) ELSE Place(n + 1, 1)
  BY <1>1, <1>4 DEF Following
<1>7. k \in 1..len
  BY DEF len, w
<1>8. Following(S, Place(n, k)) =
        IF k < len THEN Place(n, k + 1)
        ELSE IF w.cond = "none" THEN Place(n + 1, 1) ELSE Place(n, len + 1)
  BY <1>2, <1>3, <1>6, <1>7
<1> QED
  BY <1>5, <1>8 DEF AfterWords, S, w, len

LEMMA AtCondition ==
  ASSUME NEW yack, Written(yack), NEW n \in 1..Len(yack), yack[n].cond # "none"
  PROVE  /\ At(Stream(yack), AfterWords(yack, n)) = Token("Condition", yack[n].cond)
         /\ Following(Stream(yack), AfterWords(yack, n)) = Place(n + 1, 1)
         /\ AfterWords(yack, n).line = n
<1> DEFINE w == yack[n]
           S == Stream(yack)
           k == Len(Words(w)) + 1
<1>1. w \in Lines /\ S[n] = Line(w) /\ n <= Len(S) /\ Len(S) \in Nat /\ n \in Nat
  BY StreamOf
<1>2. k \in 2..5
  <2>1. Len(Words(w)) \in 1..4
    BY <1>1, WordsOfLine
  <2>2. \A len \in 1..4 : len + 1 \in 2..5
    OBVIOUS
  <2> QED
    BY <2>1, <2>2
<1>3. Len(Line(w)) = k /\ Line(w)[k] = Token("Condition", w.cond)
  <2>1. Len(Line(w)) = Len(Words(w)) + 1
    BY <1>1, TokensOfLine
  <2>2. Line(w)[Len(Words(w)) + 1] = Token("Condition", w.cond)
    BY <1>1, TokensOfLine
  <2> QED
    BY <2>1, <2>2
<1>4. AfterWords(yack, n) = Place(n, k)
  BY DEF AfterWords
<1>5. Place(n, k).line = n /\ Place(n, k).word = k
  BY DEF Place
<1>6. At(S, Place(n, k)) = Token("Condition", w.cond)
  BY <1>1, <1>3, <1>5 DEF At
<1> HIDE DEF w, S, k
<1>7. Following(S, Place(n, k)) = Place(n + 1, 1)
  BY <1>1, <1>2, <1>3, <1>5 DEF Following
<1> QED
  BY <1>4, <1>5, <1>6, <1>7 DEF S, w

(* What a line begins with.                                                *)
HeadOf(kind) ==
  CASE kind = "label"     -> "Colon"
    [] kind = "choice"    -> "Number"
    [] kind = "goto"      -> "Goto"
    [] kind = "code"      -> "Code"
    [] kind = "waitwhile" -> "WaitWhile"
    [] OTHER              -> "Identifier"

LEMMA LineBegins ==
  ASSUME NEW yack, Written(yack), NEW n \in 1..(Len(yack) + 1)
  PROVE  At(Stream(yack), Place(n, 1)).id =
           IF n <= Len(yack) THEN HeadOf(yack[n].kind) ELSE "End"
<1>1. Len(yack) \in Nat /\ Len(Stream(yack)) = Len(yack)
  BY StreamOf
<1>2. \A id, t : Token(id, t).id = id
  BY DEF Token
<1>3. CASE n \in 1..Len(yack)
  <2> DEFINE w == yack[n]
             s == Words(w)
  <2>1. w \in Lines
    BY <1>3, StreamOf
  <2>2. Len(s) \in 1..4
    BY <2>1, WordsOfLine
  <2>3. At(Stream(yack), Place(n, 1)) = s[1]
    BY <1>3, <2>2, AtWords
  <2>4. w.kind \in {"label", "say", "choice", "goto", "code", "waitwhile"} \cup Instructions
    BY <2>1 DEF Lines, Kinds
  <2> HIDE DEF w, s
  <2>5. s[1].id = HeadOf(w.kind)
    <3>1. CASE w.kind = "label"
      <4>1. HeadOf(w.kind) = "Colon"
        BY <3>1 DEF HeadOf
      <4>2. s[1] = Token("Colon", ":")
        BY <3>1, WordByWord DEF s
      <4> QED
        BY <1>2, <4>1, <4>2
    <3>2. CASE w.kind = "say"
      <4>1. HeadOf(w.kind) = "Identifier"
        BY <3>2 DEF HeadOf
      <4>2. s[1] = Token("Identifier", w.arg)
        BY <3>2, WordByWord DEF s
      <4> QED
        BY <1>2, <4>1, <4>2
    <3>3. CASE w.kind = "choice"
      <4>1. HeadOf(w.kind) = "Number"
        BY <3>3 DEF HeadOf
      <4>2. s[1] = Token("Number", w.arg)
        BY <3>3, WordByWord DEF s
      <4> QED
        BY <1>2, <4>1, <4>2
    <3>4. CASE w.kind = "goto"
      <4>1. HeadOf(w.kind) = "Goto"
        BY <3>4 DEF HeadOf
      <4>2. s[1] = Token("Goto", "->")
        BY <3>4, WordByWord DEF s
      <4> QED
        BY <1>2, <4>1, <4>2
    <3>5. CASE w.kind = "code"
      <4>1. HeadOf(w.kind) = "Code"
        BY <3>5 DEF HeadOf
      <4>2. s[1] = Token("Code", "!")
        BY <3>5, WordByWord DEF s
      <4> QED
        BY <1>2, <4>1, <4>2
    <3>6. CASE w.kind = "waitwhile"
      <4>1. HeadOf(w.kind) = "WaitWhile"
        BY <3>6 DEF HeadOf
      <4>2. s[1] = Token("WaitWhile", "waitwhile")
        BY <3>6, WordByWord DEF s
      <4> QED
        BY <1>2, <4>1, <4>2
    <3>7. CASE w.kind \in Instructions
      <4>1. HeadOf(w.kind) = "Identifier"
        BY <3>7 DEF HeadOf, Instructions
      <4>2. s[1] = Token("Identifier", w.kind)
        BY <3>7, WordByWord DEF s
      <4> QED
        BY <1>2, <4>1, <4>2
    <3> QED
      BY <2>4, <3>1, <3>2, <3>3, <3>4, <3>5, <3>6, <3>7
  <2>6. n <= Len(yack)
    BY <1>1, <1>3
  <2> QED
    BY <2>3, <2>5, <2>6 DEF w
<1>4. CASE n = Len(yack) + 1
  <2>1. Place(n, 1).line = n
    BY DEF Place
  <2>2. ~(n <= Len(yack))
    BY <1>1, <1>4
  <2>3. At(Stream(yack), Place(n, 1)) = Token("End", "")
    BY <1>1, <2>1, <2>2 DEF At
  <2> QED
    BY <1>2, <2>2, <2>3
<1> QED
  BY <1>1, <1>3, <1>4

LEMMA AtAfterWords ==
  ASSUME NEW yack, Written(yack), NEW n \in 1..Len(yack)
  PROVE  At(Stream(yack), AfterWords(yack, n)).id =
           IF yack[n].cond # "none" THEN "Condition"
           ELSE IF n < Len(yack) THEN HeadOf(yack[n + 1].kind) ELSE "End"
<1>1. Len(yack) \in Nat
  BY StreamOf
<1>2. CASE yack[n].cond # "none"
  <2>1. At(Stream(yack), AfterWords(yack, n)) = Token("Condition", yack[n].cond)
    BY <1>2, AtCondition
  <2> QED
    BY <1>2, <2>1 DEF Token
<1>3. CASE yack[n].cond = "none"
  <2>1. AfterWords(yack, n) = Place(n + 1, 1)
    BY <1>3 DEF AfterWords
  <2>2. n + 1 \in 1..(Len(yack) + 1) /\ (n + 1 <= Len(yack) <=> n < Len(yack))
    BY <1>1
  <2>3. At(Stream(yack), Place(n + 1, 1)).id =
          IF n + 1 <= Len(yack) THEN HeadOf(yack[n + 1].kind) ELSE "End"
    BY <2>2, LineBegins
  <2> QED
    BY <1>3, <2>1, <2>2, <2>3
<1> QED
  BY <1>2, <1>3

LEMMA HeadsAre ==
  ASSUME NEW kind \in Kinds \cup {"label"}
  PROVE  /\ HeadOf(kind) \in {"Colon", "Number", "Goto", "Code", "WaitWhile", "Identifier"}
         /\ HeadOf(kind) = "Colon" <=> kind = "label"
         /\ HeadOf(kind) = "Number" <=> kind = "choice"
         /\ HeadOf(kind) = "Identifier" <=> kind \in Instructions \cup {"say"}
BY DEF HeadOf, Kinds, Instructions

LEMMA ReadsOne ==
  ASSUME NEW S, NEW p
  PROVE  /\ SomeoneSays(S, p) =>
              ParseExpression(S, p) =
                Expression("say", At(S, p).text, "",
                           Following(S, Following(S, Following(S, p))))
         /\ At(S, p).id = "Code" =>
              ParseExpression(S, p) = Expression("code", "", "", Following(S, p))
         /\ At(S, p).id = "WaitWhile" =>
              ParseExpression(S, p) = Expression("waitwhile", "", "", Following(S, p))
         /\ At(S, p).id = "Goto" =>
              ParseExpression(S, p) =
                Expression("goto", "", At(S, Following(S, p)).text,
                           Following(S, Following(S, p)))
         /\ At(S, p).id = "Number" =>
              LET p3 == Following(S, Following(S, Following(S, p)))
              IN  ParseExpression(S, p) =
                    Expression("choice", At(S, p).text, At(S, p3).text, Following(S, p3))
         /\ At(S, p).id = "Identifier" /\ ~SomeoneSays(S, p) =>
              ParseExpression(S, p) = ParseInstruction(S, p)
<1>1. At(S, p).id # "Identifier" => ~SomeoneSays(S, p)
  BY DEF SomeoneSays
<1>2. ASSUME At(S, p).id = "Code"
      PROVE  ParseExpression(S, p) = Expression("code", "", "", Following(S, p))
  BY <1>1, <1>2 DEF ParseExpression
<1>3. ASSUME At(S, p).id = "WaitWhile"
      PROVE  ParseExpression(S, p) = Expression("waitwhile", "", "", Following(S, p))
  BY <1>1, <1>3 DEF ParseExpression
<1>4. ASSUME At(S, p).id = "Goto"
      PROVE  ParseExpression(S, p) =
               Expression("goto", "", At(S, Following(S, p)).text,
                          Following(S, Following(S, p)))
  BY <1>1, <1>4 DEF ParseExpression
<1>5. ASSUME At(S, p).id = "Number"
      PROVE  LET p3 == Following(S, Following(S, Following(S, p)))
             IN  ParseExpression(S, p) =
                   Expression("choice", At(S, p).text, At(S, p3).text, Following(S, p3))
  BY <1>1, <1>5 DEF ParseExpression
<1>6. ASSUME At(S, p).id = "Identifier", ~SomeoneSays(S, p)
      PROVE  ParseExpression(S, p) = ParseInstruction(S, p)
  BY <1>6 DEF ParseExpression
<1>7. ASSUME SomeoneSays(S, p)
      PROVE  ParseExpression(S, p) =
               Expression("say", At(S, p).text, "",
                          Following(S, Following(S, Following(S, p))))
  <2>1. SomeoneSays(S, p) = TRUE /\ At(S, p).id = "Identifier"
    BY <1>7 DEF SomeoneSays
  <2> QED
    BY <2>1 DEF ParseExpression
<1> QED
  BY <1>2, <1>3, <1>4, <1>5, <1>6, <1>7

(* An instruction takes the argument written for it, and nothing else.     *)
LEMMA ReadsInstruction ==
  ASSUME NEW yack, Written(yack), Clear(yack), NEW n \in 1..Len(yack),
         yack[n].kind \in Instructions
  PROVE  ParseExpression(Stream(yack), Place(n, 1)) =
           Expression(yack[n].kind, yack[n].arg, "", AfterWords(yack, n))
<1> DEFINE w == yack[n]
           S == Stream(yack)
           p == Place(n, 1)
           q == AfterWords(yack, n)
<1>1. w \in Lines /\ Len(yack) \in Nat
  BY StreamOf
<1>2. Len(Words(w)) \in 1..4 /\ Words(w)[1] = Token("Identifier", w.kind)
  BY <1>1, WordsOfLine, WordByWord
<1>3. At(S, p) = Token("Identifier", w.kind)
  <2>1. 1 \in 1..Len(Words(w))
    BY <1>2
  <2> QED
    BY <1>2, <2>1, AtWords
<1>4. At(S, p).id = "Identifier" /\ At(S, p).text = w.kind
  BY <1>3 DEF Token
<1>5. ASSUME w.arg = ""
      PROVE  Following(S, p) = q
  <2>1. Len(Words(w)) = 1
    BY <1>5, WordByWord
  <2>2. 1 \in 1..Len(Words(w)) /\ ~(1 < Len(Words(w)))
    BY <2>1
  <2> QED
    BY <2>2, AtWords
<1>6. ASSUME w.arg # ""
      PROVE  /\ Following(S, p) = Place(n, 2)
             /\ At(S, Place(n, 2)) = Argument(w)
             /\ Following(S, Place(n, 2)) = q
  <2>1. Len(Words(w)) = 2 /\ Words(w)[2] = Argument(w)
    BY <1>6, WordByWord
  <2>2. /\ 1 \in 1..Len(Words(w)) /\ 1 < Len(Words(w))
        /\ 2 \in 1..Len(Words(w)) /\ ~(2 < Len(Words(w)))
    BY <2>1
  <2>3. Following(S, p) = Place(n, 1 + 1)
    BY <2>2, AtWords
  <2>4. At(S, Place(n, 2)) = Words(w)[2] /\ Following(S, Place(n, 2)) = q
    BY <2>2, AtWords
  <2> QED
    BY <2>1, <2>3, <2>4
<1>7. DOMAIN yack = 1..Len(yack)
  BY StreamOf
<1> HIDE DEF S, p, q
<1>8. CASE w.arg # ""
  <2>1. Argument(w).text = w.arg
        /\ Argument(w).id = IF w.kind \in {"limit", "pause"} THEN "Number" ELSE "Identifier"
    BY DEF Argument, Token
  <2>2. At(S, Following(S, p)) = Argument(w) /\ Following(S, Following(S, p)) = q
    BY <1>6, <1>8
  <2>3. ~SomeoneSays(S, p)
    BY <2>1, <2>2 DEF SomeoneSays
  <2>4. w.kind # "shutup"
    BY <1>7, <1>8 DEF Written
  <2>5. TakesArgument(S, p)
    BY <1>4, <2>1, <2>2, <2>4 DEF TakesArgument
  <2>6. ParseInstruction(S, p) = Expression(w.kind, w.arg, "", q)
    BY <1>4, <2>1, <2>2, <2>5 DEF ParseInstruction
  <2> QED
    BY <1>4, <2>3, <2>6, ReadsOne DEF S, p, q, w
<1>9. CASE w.arg = ""
  <2>1. Following(S, p) = q
    BY <1>5, <1>9
  <2>2. /\ w.kind # "pause"
        /\ w.cond = "none" /\ n < Len(yack) => yack[n + 1].kind \notin Taken(w)
    BY <1>7, <1>9 DEF Clear
  <2>3. At(S, q).id = IF w.cond # "none" THEN "Condition"
                      ELSE IF n < Len(yack) THEN HeadOf(yack[n + 1].kind) ELSE "End"
    BY AtAfterWords DEF S, q
  <2>4. n < Len(yack) => n + 1 \in 1..Len(yack) /\ yack[n + 1] \in Lines
    BY <1>1, StreamOf
  <2>5. n < Len(yack) => yack[n + 1].kind \in Kinds \cup {"label"}
    BY <2>4 DEF Lines
  <2>6. ~SomeoneSays(S, p)
    <3>1. CASE At(S, q).id # "Colon"
      BY <2>1, <3>1 DEF SomeoneSays
    <3>2. CASE At(S, q).id = "Colon"
      <4>1. w.cond = "none" /\ n < Len(yack) /\ yack[n + 1].kind = "label"
        BY <2>3, <2>5, <3>2, HeadsAre
      <4>2. q = Place(n + 1, 1)
        BY <4>1 DEF q, AfterWords
      <4>3. /\ Len(Words(yack[n + 1])) = 2
            /\ Words(yack[n + 1])[2] = Token("Identifier", yack[n + 1].arg)
        BY <4>1, WordByWord
      <4>4. /\ n + 1 \in 1..Len(yack) /\ 1 \in 1..Len(Words(yack[n + 1]))
            /\ 1 < Len(Words(yack[n + 1])) /\ 2 \in 1..Len(Words(yack[n + 1]))
        BY <2>4, <4>1, <4>3
      <4>5. Following(S, q) = Place(n + 1, 1 + 1)
        BY <4>2, <4>4, AtWords DEF S
      <4>6. At(S, Place(n + 1, 2)) = Token("Identifier", yack[n + 1].arg)
        BY <4>3, <4>4, AtWords DEF S
      <4>7. At(S, Following(S, q)).id = "Identifier"
        BY <4>5, <4>6 DEF Token
      <4> QED
        BY <2>1, <4>7 DEF SomeoneSays
    <3> QED
      BY <3>1, <3>2
  <2>7. ~TakesArgument(S, p)
    <3>1. CASE w.kind = "shutup"
      BY <1>4, <3>1 DEF TakesArgument
    <3>2. CASE w.kind = "limit"
      <4>1. At(S, q).id # "Number"
        BY <2>2, <2>3, <2>5, <3>2, HeadsAre DEF Taken
      <4> QED
        BY <1>4, <2>1, <3>2, <4>1 DEF TakesArgument
    <3>3. CASE w.kind \notin {"shutup", "limit"}
      <4>1. At(S, q).id # "Identifier"
        BY <2>2, <2>3, <2>5, <3>3, HeadsAre DEF Taken
      <4> QED
        BY <1>4, <2>1, <2>2, <3>3, <4>1 DEF TakesArgument
    <3> QED
      BY <3>1, <3>2, <3>3
  <2>8. ParseInstruction(S, p) = Expression(w.kind, "", "", q)
    BY <1>4, <2>1, <2>7 DEF ParseInstruction
  <2> QED
    BY <1>4, <1>9, <2>6, <2>8, ReadsOne DEF S, p, q, w
<1> QED
  BY <1>8, <1>9

LEMMA ReadsExpression ==
  ASSUME NEW yack, Written(yack), Clear(yack), NEW n \in 1..Len(yack), yack[n].kind # "label"
  PROVE  ParseExpression(Stream(yack), Place(n, 1)) =
           Expression(yack[n].kind, yack[n].arg, yack[n].to, AfterWords(yack, n))
<1> DEFINE w == yack[n]
           S == Stream(yack)
           q == AfterWords(yack, n)
           len == Len(Words(w))
<1>1. w \in Lines /\ DOMAIN yack = 1..Len(yack)
  BY StreamOf
<1>2. \A k \in 1..len : /\ At(S, Place(n, k)) = Words(w)[k]
                        /\ Following(S, Place(n, k)) = IF k < len THEN Place(n, k + 1) ELSE q
  BY AtWords
<1>3. /\ w.kind \notin {"goto", "choice"} => w.to = ""
      /\ w.kind \in {"goto", "code", "waitwhile", "shutup"} => w.arg = ""
  BY <1>1 DEF Written
<1>4. \A id, t : Token(id, t).id = id /\ Token(id, t).text = t
  BY DEF Token
<1> HIDE DEF S, q
<1>5. CASE w.kind = "say"
  <2>1. /\ len = 3 /\ Words(w)[1] = Token("Identifier", w.arg)
        /\ Words(w)[2] = Token("Colon", ":") /\ Words(w)[3] = Token("String", "text")
    BY <1>5, WordByWord
  <2> HIDE DEF len
  <2>2. /\ At(S, Place(n, 1)) = Words(w)[1] /\ Following(S, Place(n, 1)) = Place(n, 2)
        /\ At(S, Place(n, 2)) = Words(w)[2] /\ Following(S, Place(n, 2)) = Place(n, 3)
        /\ At(S, Place(n, 3)) = Words(w)[3] /\ Following(S, Place(n, 3)) = q
    BY <1>2, <2>1
  <2>3. At(S, Place(n, 2)).id = "Colon" /\ At(S, Place(n, 3)).id = "String"
    BY <1>4, <2>1, <2>2
  <2> DEFINE p == Place(n, 1)
             p1 == Place(n, 2)
             p2 == Place(n, 3)
             p3 == Following(S, Following(S, Following(S, p)))
  <2> HIDE DEF p, p1, p2, p3
  <2>4. /\ At(S, p).id = "Identifier" /\ At(S, p).text = w.arg
        /\ Following(S, p) = p1
        /\ At(S, p1).id = "Colon" /\ Following(S, p1) = p2
        /\ At(S, p2).id = "String" /\ Following(S, p2) = q
    BY <1>4, <2>1, <2>2, <2>3 DEF p, p1, p2
  <2>5. SomeoneSays(S, p)
    BY <2>4 DEF SomeoneSays
  <2>6. ParseExpression(S, p) = Expression("say", At(S, p).text, "", p3)
    BY <2>5, ReadsOne DEF p3
  <2>7. p3 = q
    BY <2>4 DEF p3
  <2>8. ParseExpression(S, p) = Expression("say", w.arg, "", q)
    BY <2>4, <2>6, <2>7
  <2> QED
    BY <1>3, <1>5, <2>8 DEF S, q, p
<1>6. CASE w.kind = "choice"
  <2>1. /\ len = 4 /\ Words(w)[1] = Token("Number", w.arg)
        /\ Words(w)[4] = Token("Identifier", w.to)
    BY <1>6, WordByWord
  <2> HIDE DEF len
  <2>2. /\ At(S, Place(n, 1)) = Words(w)[1] /\ Following(S, Place(n, 1)) = Place(n, 2)
        /\ Following(S, Place(n, 2)) = Place(n, 3)
        /\ Following(S, Place(n, 3)) = Place(n, 4)
        /\ At(S, Place(n, 4)) = Words(w)[4] /\ Following(S, Place(n, 4)) = q
    BY <1>2, <2>1
  <2>3. /\ At(S, Place(n, 1)).id = "Number" /\ At(S, Place(n, 1)).text = w.arg
        /\ At(S, Place(n, 4)).text = w.to
    BY <1>4, <2>1, <2>2
  <2> DEFINE p == Place(n, 1)
             p1 == Place(n, 2)
             p2 == Place(n, 3)
             p3 == Place(n, 4)
             p0 == Following(S, Following(S, Following(S, p)))
  <2> HIDE DEF p, p1, p2, p3, p0
  <2>4. ParseExpression(S, p) = Expression("choice", At(S, p).text, At(S, p0).text,
                                           Following(S, p0))
    BY <2>3, ReadsOne DEF p, p0
  <2>5. Following(S, p) = p1 /\ Following(S, p1) = p2 /\ Following(S, p2) = p3
    BY <2>2 DEF p, p1, p2, p3
  <2>6. p0 = p3
    BY <2>5 DEF p0
  <2>7. Following(S, p3) = q /\ At(S, p3).text = w.to /\ At(S, p).text = w.arg
    BY <2>2, <2>3 DEF p, p3
  <2>8. ParseExpression(S, p) = Expression("choice", w.arg, w.to, q)
    BY <2>4, <2>6, <2>7
  <2> QED
    BY <1>6, <2>8 DEF S, q, p
<1>7. CASE w.kind = "goto"
  <2>1. /\ len = 2 /\ Words(w)[1] = Token("Goto", "->")
        /\ Words(w)[2] = Token("Identifier", w.to)
    BY <1>7, WordByWord
  <2> HIDE DEF len
  <2>2. /\ At(S, Place(n, 1)) = Words(w)[1] /\ Following(S, Place(n, 1)) = Place(n, 2)
        /\ At(S, Place(n, 2)) = Words(w)[2] /\ Following(S, Place(n, 2)) = q
    BY <1>2, <2>1
  <2>3. At(S, Place(n, 1)).id = "Goto" /\ At(S, Place(n, 2)).text = w.to
    BY <1>4, <2>1, <2>2
  <2> DEFINE p == Place(n, 1)
             p1 == Place(n, 2)
  <2> HIDE DEF p, p1
  <2>4. ParseExpression(S, p) = Expression("goto", "", At(S, Following(S, p)).text,
                                           Following(S, Following(S, p)))
    BY <2>3, ReadsOne DEF p
  <2>5. Following(S, p) = p1 /\ Following(S, p1) = q /\ At(S, p1).text = w.to
    BY <2>2, <2>3 DEF p, p1
  <2>6. ParseExpression(S, p) = Expression("goto", "", w.to, q)
    BY <2>4, <2>5
  <2> QED
    BY <1>3, <1>7, <2>6 DEF S, q, p
<1>8. CASE w.kind \in {"code", "waitwhile"}
  <2>1. /\ len = 1
        /\ w.kind = "code" => Words(w)[1] = Token("Code", "!")
        /\ w.kind = "waitwhile" => Words(w)[1] = Token("WaitWhile", "waitwhile")
    BY <1>8, WordByWord
  <2> HIDE DEF len
  <2>2. At(S, Place(n, 1)) = Words(w)[1] /\ Following(S, Place(n, 1)) = q
    BY <1>2, <2>1
  <2>3. At(S, Place(n, 1)).id = IF w.kind = "code" THEN "Code" ELSE "WaitWhile"
    BY <1>4, <1>8, <2>1, <2>2
  <2>4. ParseExpression(S, Place(n, 1)) = Expression(w.kind, "", "", q)
    BY <1>8, <2>2, <2>3, ReadsOne
  <2> QED
    BY <1>3, <1>8, <2>4 DEF S, q
<1>9. CASE w.kind \in Instructions
  <2>1. ParseExpression(S, Place(n, 1)) = Expression(w.kind, w.arg, "", q)
    BY <1>9, ReadsInstruction DEF S, q
  <2>2. w.to = ""
    BY <1>3, <1>9 DEF Instructions
  <2> QED
    BY <2>1, <2>2 DEF S, q
<1> QED
  BY <1>1, <1>5, <1>6, <1>7, <1>8, <1>9 DEF Lines, Kinds

LEMMA ReadsStatement ==
  ASSUME NEW yack, Written(yack), Clear(yack), NEW n \in 1..Len(yack), yack[n].kind # "label"
  PROVE  ParseStatement(Stream(yack), Place(n, 1)) =
           [statement |-> StatementOn(yack, n), next |-> Place(n + 1, 1)]
<1> DEFINE w == yack[n]
           S == Stream(yack)
           p == Place(n, 1)
           q == AfterWords(yack, n)
           e == ParseExpression(S, p)
<1>1. e = Expression(w.kind, w.arg, w.to, q)
  BY ReadsExpression
<1>2. e.kind = w.kind /\ e.arg = w.arg /\ e.to = w.to /\ e.next = q
  BY <1>1 DEF Expression
<1>3. Len(yack) \in Nat /\ \A k \in 1..Len(yack) : yack[k] \in Lines
  BY StreamOf
<1>4. At(S, q).id = "Condition" <=> w.cond # "none"
  <2>1. At(S, q).id = IF w.cond # "none" THEN "Condition"
                      ELSE IF n < Len(yack) THEN HeadOf(yack[n + 1].kind) ELSE "End"
    BY AtAfterWords
  <2>2. n < Len(yack) => yack[n + 1] \in Lines
    BY <1>3
  <2>3. n < Len(yack) => HeadOf(yack[n + 1].kind) # "Condition"
    BY <2>2, HeadsAre DEF Lines
  <2> QED
    BY <2>1, <2>3
<1> HIDE DEF S, p, q, e
<1>5. CASE w.cond = "none"
  <2>1. ParseStatement(S, p) =
          [statement |-> [kind |-> e.kind, arg |-> e.arg, to |-> e.to, cond |-> "none",
                          line |-> 0],
           next |-> e.next]
    BY <1>2, <1>4, <1>5 DEF ParseStatement, e
  <2>2. q = Place(n + 1, 1)
    BY <1>5 DEF q, AfterWords
  <2>3. StatementOn(yack, n) = [kind |-> w.kind, arg |-> w.arg, to |-> w.to, cond |-> "none",
                                line |-> 0]
    BY <1>5 DEF StatementOn
  <2>4. ParseStatement(S, p) = [statement |-> StatementOn(yack, n), next |-> q]
    BY <1>2, <2>1, <2>3
  <2> QED
    BY <2>2, <2>4 DEF S, p
<1>6. CASE w.cond # "none"
  <2>1. /\ At(S, q) = Token("Condition", w.cond) /\ Following(S, q) = Place(n + 1, 1)
        /\ q.line = n
    BY <1>6, AtCondition DEF S, q
  <2>2. At(S, q).text = w.cond
    BY <2>1 DEF Token
  <2>3. n # 0 /\ n + 1 # 1 /\ Place(n + 1, 1).line = n + 1
    BY <1>3 DEF Place
  <2>4. LineOf(S, q) = n
    BY <2>1, <2>3 DEF LineOf
  <2>5. ParseStatement(S, p) =
          [statement |-> [kind |-> e.kind, arg |-> e.arg, to |-> e.to,
                          cond |-> At(S, e.next).text, line |-> LineOf(S, e.next)],
           next |-> Following(S, e.next)]
    BY <1>2, <1>4, <1>6 DEF ParseStatement, e
  <2>6. StatementOn(yack, n) = [kind |-> w.kind, arg |-> w.arg, to |-> w.to,
                                cond |-> w.cond, line |-> n]
    BY <1>6 DEF StatementOn
  <2>7. ParseStatement(S, p) = [statement |-> StatementOn(yack, n), next |-> Following(S, q)]
    BY <1>2, <2>2, <2>4, <2>5, <2>6
  <2> QED
    BY <2>1, <2>7 DEF S, p
<1> QED
  BY <1>5, <1>6

(* One turn of the parser for a line.                                      *)
LEMMA TurnReadsLine ==
  ASSUME NEW yack, Written(yack), Clear(yack), NEW n \in 1..Len(yack), NEW labels,
         labels = <<>> => yack[n].kind = "label"
  PROVE  Turn(Stream(yack), [at |-> Place(n, 1), labels |-> labels]) =
           [at |-> Place(n + 1, 1), labels |-> WithLine(yack, labels, n)]
<1> DEFINE w == yack[n]
           S == Stream(yack)
           p == Place(n, 1)
           s == [at |-> p, labels |-> labels]
<1>1. w \in Lines
  BY StreamOf
<1>2. s.at = p /\ s.labels = labels
  OBVIOUS
<1>3. At(S, p).id = HeadOf(w.kind)
  <2>1. n \in 1..(Len(yack) + 1) /\ n <= Len(yack)
    BY StreamOf
  <2> QED
    BY <2>1, LineBegins
<1>4. /\ HeadOf(w.kind) = "Colon" <=> w.kind = "label"
      /\ HeadOf(w.kind) # "End"
  BY <1>1, HeadsAre DEF Lines
<1>5. CASE w.kind = "label"
  <2>1. Len(Words(w)) = 2 /\ Words(w)[2] = Token("Identifier", w.arg)
    BY <1>5, WordByWord
  <2>2. /\ 1 \in 1..Len(Words(w)) /\ 1 < Len(Words(w)) /\ 2 \in 1..Len(Words(w))
        /\ ~(2 < Len(Words(w)))
    BY <2>1
  <2>3. Following(S, p) = Place(n, 1 + 1)
    BY <2>2, AtWords
  <2>4. At(S, Place(n, 2)) = Words(w)[2]
        /\ Following(S, Place(n, 2)) = AfterWords(yack, n)
    BY <2>2, AtWords
  <2>5. AfterWords(yack, n) = Place(n + 1, 1)
    BY <1>5, StreamOf DEF Written, AfterWords
  <2> HIDE DEF S, p, s
  <2>6. /\ At(S, Following(S, p)).text = w.arg
        /\ Following(S, Following(S, p)) = Place(n + 1, 1)
    BY <2>1, <2>3, <2>4, <2>5 DEF Token
  <2>7. Turn(S, s) = [at |-> Following(S, Following(S, p)),
                      labels |-> WithLabel(labels, At(S, Following(S, p)).text)]
    BY <1>2, <1>3, <1>4, <1>5 DEF Turn
  <2>8. WithLine(yack, labels, n) = WithLabel(labels, w.arg)
    BY <1>5 DEF WithLine
  <2> QED
    BY <2>6, <2>7, <2>8 DEF S, s, p
<1>6. CASE w.kind # "label"
  <2>1. ParseStatement(S, p) = [statement |-> StatementOn(yack, n), next |-> Place(n + 1, 1)]
    BY <1>6, ReadsStatement
  <2>2. WithLine(yack, labels, n) = WithStatement(labels, StatementOn(yack, n))
    BY <1>6 DEF WithLine
  <2> HIDE DEF S, p, s
  <2>3. Turn(S, s) = [at |-> ParseStatement(S, p).next,
                      labels |-> WithStatement(labels, ParseStatement(S, p).statement)]
    BY <1>2, <1>3, <1>4, <1>6 DEF Turn
  <2>4. Turn(S, s) = [at |-> Place(n + 1, 1),
                      labels |-> WithStatement(labels, StatementOn(yack, n))]
    BY <2>1, <2>3
  <2> QED
    BY <2>2, <2>4 DEF S, s, p
<1> QED
  BY <1>5, <1>6

-----------------------------------------------------------------------------
(* The file read, to its end                                               *)

(* Labels with names and statements of any kind.                           *)
LabelsOf(N, F) == Seq([name : N, body : Seq(F)])

LEMMA LabelAdded ==
  ASSUME NEW N, NEW F, NEW labels \in LabelsOf(N, F), NEW name \in N
  PROVE  /\ WithLabel(labels, name) \in LabelsOf(N, F)
         /\ Len(WithLabel(labels, name)) = Len(labels) + 1
<1>1. [name |-> name, body |-> <<>>] \in [name : N, body : Seq(F)]
  OBVIOUS
<1> QED
  BY <1>1, AppendProperties DEF WithLabel, LabelsOf

LEMMA StatementAdded ==
  ASSUME NEW S, NEW N, NEW labels \in Seq([name : N, body : Seq(S)]), NEW st \in S,
         labels # <<>>
  PROVE  /\ WithStatement(labels, st) \in Seq([name : N, body : Seq(S)])
         /\ Len(WithStatement(labels, st)) = Len(labels)
<1> DEFINE L == Len(labels)
           R == [name : N, body : Seq(S)]
           last == [labels[L] EXCEPT !.body = Append(@, st)]
<1>1. L \in 1..L /\ L \in Nat
  BY EmptySeq, LenProperties
<1>2. labels[L] \in R
  BY <1>1, ElementOfSeq
<1>3. Append(labels[L].body, st) \in Seq(S)
  BY <1>2, AppendProperties
<1>4. last \in R
  <2>1. last = [labels[L] EXCEPT !.body = Append(labels[L].body, st)]
    OBVIOUS
  <2> QED
    BY <1>2, <1>3, <2>1
<1>5. WithStatement(labels, st) = [labels EXCEPT ![L] = last]
  BY DEF WithStatement
<1> HIDE DEF last, R
<1>6. labels \in Seq(R)
  BY DEF R
<1>7. [labels EXCEPT ![L] = last] \in Seq(R) /\ Len([labels EXCEPT ![L] = last]) = L
  BY <1>1, <1>4, <1>6, ExceptSeq
<1> QED
  BY <1>5, <1>7 DEF R

LEMMA FirstLine ==
  ASSUME NEW yack, Written(yack), Len(yack) >= 1 PROVE yack[1].kind = "label"
<1>1. yack \in Seq(Lines)
  BY DEF Written
<1>2. yack # <<>>
  BY <1>1
<1> QED
  BY <1>2 DEF Written

LEMMA StatementsTyped ==
  ASSUME NEW yack, Written(yack), NEW k \in 1..Len(yack), yack[k].kind # "label"
  PROVE  StatementOn(yack, k) \in Statement
<1>1. yack[k] \in Lines /\ k \in Nat
  BY StreamOf
<1>2. yack[k].kind \in Kinds
  BY <1>1 DEF Lines
<1> QED
  BY <1>1, <1>2 DEF StatementOn, Statement, Lines

(* The labels that lines make hold the statements of the lines, and the    *)
(* first line makes one.                                                   *)
LEMMA LabelsHold ==
  ASSUME NEW yack, Written(yack), NEW F,
         \A k \in 1..Len(yack) : yack[k].kind # "label" => StatementOn(yack, k) \in F,
         NEW n \in 0..Len(yack)
  PROVE  /\ LabelsUpTo(yack)[n] \in LabelsOf(STRING, F)
         /\ n # 0 => LabelsUpTo(yack)[n] # <<>>
<1> DEFINE up == LabelsUpTo(yack)
           L == LabelsOf(STRING, F)
           Good(k) == up[k] \in L /\ (k # 0 => up[k] # <<>>)
           T == {k \in Nat : k <= Len(yack) => Good(k)}
<1>1. Len(yack) \in Nat /\ \A k \in 1..Len(yack) : yack[k] \in Lines
  BY StreamOf
<1>2. up[0] = <<>> /\ \A k \in 1..Len(yack) : up[k] = WithLine(yack, up[k - 1], k)
  BY <1>1, LineByLine
<1> HIDE DEF up
<1>3. 0 \in T
  <2>1. <<>> \in L
    BY DEF LabelsOf
  <2>2. Good(0)
    BY <1>2, <2>1
  <2> QED
    BY <2>2
<1>4. ASSUME NEW k \in T PROVE k + 1 \in T
  <2> SUFFICES ASSUME k + 1 <= Len(yack) PROVE Good(k + 1)
    OBVIOUS
  <2>1. k \in Nat /\ Good(k) /\ k + 1 \in 1..Len(yack) /\ (k + 1) - 1 = k
    BY <1>1
  <2>2. up[k + 1] = WithLine(yack, up[k], k + 1)
    BY <1>2, <2>1
  <2>3. yack[k + 1] \in Lines
    BY <1>1, <2>1
  <2>4. CASE yack[k + 1].kind = "label"
    <3>1. up[k + 1] = WithLabel(up[k], yack[k + 1].arg)
      BY <2>2, <2>4 DEF WithLine
    <3>2. up[k + 1] \in L /\ Len(up[k + 1]) = Len(up[k]) + 1
      BY <2>1, <2>3, <3>1, LabelAdded DEF Lines
    <3>3. Len(up[k]) \in Nat
      BY <2>1 DEF LabelsOf
    <3> QED
      BY <3>2, <3>3, EmptySeq
  <2>5. CASE yack[k + 1].kind # "label"
    <3>1. up[k] # <<>>
      <4>1. CASE k = 0
        <5>1. yack[1].kind = "label"
          BY <1>1, <2>1, FirstLine
        <5> QED
          BY <2>5, <4>1, <5>1
      <4> QED
        BY <2>1, <4>1
    <3>2. StatementOn(yack, k + 1) \in F
      BY <2>1, <2>5
    <3>3. up[k + 1] = WithStatement(up[k], StatementOn(yack, k + 1))
      BY <2>2, <2>5 DEF WithLine
    <3>4. up[k + 1] \in L /\ Len(up[k + 1]) = Len(up[k])
      <4> DEFINE R == [name : STRING, body : Seq(F)]
                 st == StatementOn(yack, k + 1)
      <4>1. up[k] \in Seq(R)
        BY <2>1 DEF LabelsOf
      <4> HIDE DEF st
      <4>2. st \in F
        BY <3>2 DEF st
      <4>3. WithStatement(up[k], st) \in Seq(R) /\ Len(WithStatement(up[k], st)) = Len(up[k])
        BY <3>1, <4>1, <4>2, StatementAdded
      <4> HIDE DEF R
      <4>4. up[k + 1] = WithStatement(up[k], st)
        BY <3>3 DEF st
      <4>5. L = Seq(R)
        BY DEF LabelsOf, R
      <4> HIDE DEF L
      <4> QED
        BY <4>3, <4>4, <4>5
    <3>5. Len(up[k]) \in Nat
      BY <2>1 DEF LabelsOf
    <3>6. up[k] # <<>> => Len(up[k]) # 0
      BY <2>1, EmptySeq DEF LabelsOf
    <3>7. Len(<<>>) = 0
      OBVIOUS
    <3> QED
      BY <3>1, <3>4, <3>6, <3>7
  <2> QED
    BY <2>4, <2>5
<1>5. T = Nat
  <2> HIDE DEF T
  <2>1. T \in SUBSET Nat
    BY DEF T
  <2> QED
    BY <1>3, <1>4, <2>1, Induct
<1> QED
  BY <1>1, <1>5 DEF up

(* After a turn for each line, the parser has the labels of the lines.     *)
LEMMA TurnsReadLines ==
  ASSUME NEW yack, Written(yack), Clear(yack), NEW n \in 0..Len(yack)
  PROVE  Turns(Stream(yack))[n] = [at |-> Place(n + 1, 1), labels |-> LabelsUpTo(yack)[n]]
<1> DEFINE S == Stream(yack)
           up == LabelsUpTo(yack)
           turns == Turns(S)
           Good(k) == turns[k] = [at |-> Place(k + 1, 1), labels |-> up[k]]
           T == {k \in Nat : k <= Len(yack) => Good(k)}
<1>1. Len(yack) \in Nat /\ Len(S) = Len(yack)
  BY StreamOf
<1>2. /\ turns[0] = Begins
      /\ \A k \in 1..(LongestLine * Len(S)) : turns[k] = Turn(S, turns[k - 1])
  BY <1>1, TurnByTurn
<1>3. up[0] = <<>> /\ \A k \in 1..Len(yack) : up[k] = WithLine(yack, up[k - 1], k)
  BY <1>1, LineByLine
<1>4. \A k \in 0..Len(yack) : k # 0 => up[k] # <<>>
  <2>1. \A k \in 1..Len(yack) : yack[k].kind # "label" => StatementOn(yack, k) \in Statement
    BY StatementsTyped
  <2> QED
    BY <2>1, LabelsHold
<1>5. 1..Len(yack) \subseteq 1..(LongestLine * Len(S))
  BY <1>1 DEF LongestLine
<1> HIDE DEF up, turns, S
<1>6. 0 \in T
  BY <1>2, <1>3 DEF Begins
<1>7. ASSUME NEW k \in T PROVE k + 1 \in T
  <2> SUFFICES ASSUME k + 1 <= Len(yack) PROVE Good(k + 1)
    OBVIOUS
  <2>1. k \in Nat /\ Good(k) /\ k + 1 \in 1..Len(yack) /\ (k + 1) - 1 = k
    BY <1>1
  <2>2. turns[k + 1] = Turn(S, turns[k])
    BY <1>2, <1>5, <2>1
  <2>3. up[k + 1] = WithLine(yack, up[k], k + 1)
    BY <1>3, <2>1
  <2>4. up[k] = <<>> => yack[k + 1].kind = "label"
    <3>1. up[k] = <<>> => k = 0
      BY <1>1, <1>4, <2>1
    <3>2. yack[1].kind = "label"
      BY <1>1, <2>1, FirstLine
    <3> QED
      BY <3>1, <3>2
  <2>5. Turn(S, [at |-> Place(k + 1, 1), labels |-> up[k]]) =
          [at |-> Place((k + 1) + 1, 1), labels |-> WithLine(yack, up[k], k + 1)]
    BY <2>1, <2>4, TurnReadsLine DEF S
  <2> QED
    BY <2>1, <2>2, <2>3, <2>5
<1>8. T = Nat
  <2> HIDE DEF T
  <2>1. T \in SUBSET Nat
    BY DEF T
  <2> QED
    BY <1>6, <1>7, <2>1, Induct
<1>9. Good(n)
  <2>1. n \in T /\ n <= Len(yack)
    BY <1>1, <1>8
  <2> QED
    BY <2>1
<1> QED
  BY <1>9, Zenon DEF S, up, turns

(* What YackParser makes of a file in which no instruction takes what was  *)
(* not meant for it is what its author meant, label by label and line by   *)
(* line, with the line of every condition.                                 *)
THEOREM ParsedAsWritten ==
  ASSUME NEW yack, Written(yack), Clear(yack)
  PROVE  Parse(Stream(yack)) = Meaning(yack)
<1> DEFINE S == Stream(yack)
           turns == Turns(S)
           L == Len(yack)
           T == {k \in Nat : L + k <= LongestLine * L => turns[L + k] = turns[L]}
<1>1. L \in Nat /\ Len(S) = L
  BY StreamOf
<1>2. \A k \in 1..(LongestLine * L) : turns[k] = Turn(S, turns[k - 1])
  BY <1>1, TurnByTurn
<1>3. turns[L] = [at |-> Place(L + 1, 1), labels |-> LabelsUpTo(yack)[L]]
  BY <1>1, TurnsReadLines
<1>4. At(S, Place(L + 1, 1)).id = "End"
  <2>1. L + 1 \in 1..(L + 1) /\ ~(L + 1 <= L)
    BY <1>1
  <2> QED
    BY <2>1, LineBegins
<1> HIDE DEF turns, S, L
<1>5. Turn(S, turns[L]) = turns[L]
  BY <1>3, <1>4 DEF Turn
<1>6. 0 \in T
  BY <1>1
<1>7. ASSUME NEW k \in T PROVE k + 1 \in T
  <2> SUFFICES ASSUME L + (k + 1) <= LongestLine * L PROVE turns[L + (k + 1)] = turns[L]
    OBVIOUS
  <2>1. /\ k \in Nat /\ L + (k + 1) \in 1..(LongestLine * L) /\ (L + (k + 1)) - 1 = L + k
        /\ L + k <= LongestLine * L
    BY <1>1 DEF LongestLine
  <2>2. turns[L + k] = turns[L]
    BY <2>1
  <2>3. turns[L + (k + 1)] = Turn(S, turns[L + k])
    BY <1>2, <2>1
  <2> QED
    BY <1>5, <2>2, <2>3
<1>8. T = Nat
  <2> HIDE DEF T
  <2>1. T \in SUBSET Nat
    BY DEF T
  <2> QED
    BY <1>6, <1>7, <2>1, Induct
<1>9. turns[LongestLine * L] = turns[L]
  <2> DEFINE m == 4 * L
  <2>1. m \in Nat /\ L + m = LongestLine * L
    BY <1>1 DEF LongestLine
  <2> HIDE DEF m
  <2>2. m \in T
    BY <1>8, <2>1
  <2>3. L + m <= LongestLine * L
    BY <1>1, <2>1
  <2>4. turns[L + m] = turns[L]
    BY <2>2, <2>3
  <2> QED
    BY <2>1, <2>4
<1>10. Parse(S) = turns[LongestLine * L].labels
  BY <1>1 DEF Parse, turns
<1> QED
  BY <1>3, <1>9, <1>10 DEF Meaning, S, L

(* DialogAssumption asks no more of a file than that its author left out   *)
(* no argument that the parser would look for on the next line, and gave   *)
(* choices numbers that there are.                                         *)
THEOREM ClearFilesPlay ==
  ASSUME NEW yack, Written(yack), Clear(yack),
         \A n \in DOMAIN yack :
           yack[n].kind = "choice" => Number(yack[n].arg) \in 1..MaxSlots
  PROVE  Playable(Parse(Stream(yack)))
<1> DEFINE F == {st \in Statement : st.kind = "choice" => Number(st.arg) \in 1..MaxSlots}
           labels == Parse(Stream(yack))
<1>1. Len(yack) \in Nat /\ DOMAIN yack = 1..Len(yack)
  BY StreamOf
<1>2. ASSUME NEW k \in 1..Len(yack), yack[k].kind # "label"
      PROVE  StatementOn(yack, k) \in F
  <2>1. StatementOn(yack, k) \in Statement
    BY <1>2, StatementsTyped
  <2>2. StatementOn(yack, k).kind = yack[k].kind /\ StatementOn(yack, k).arg = yack[k].arg
    BY DEF StatementOn
  <2> QED
    BY <1>1, <2>1, <2>2
<1>3. F \subseteq Statement
      /\ \A st \in F : st.kind = "choice" => Number(st.arg) \in 1..MaxSlots
  OBVIOUS
<1> HIDE DEF F
<1>4. labels \in LabelsOf(STRING, F)
  <2>1. labels = LabelsUpTo(yack)[Len(yack)]
    BY ParsedAsWritten DEF Meaning
  <2>2. Len(yack) \in 0..Len(yack)
    BY <1>1
  <2> HIDE DEF labels
  <2> QED
    BY <1>2, <2>1, <2>2, LabelsHold
<1> HIDE DEF labels
<1>5. labels \in Seq(Label)
  <2>1. [name : STRING, body : Seq(F)] \subseteq Label
    <3>1. Seq(F) \subseteq Seq(Statement)
      BY <1>3
    <3> QED
      BY <3>1 DEF Label
  <2> DEFINE R == [name : STRING, body : Seq(F)]
  <2>2. labels \in Seq(R)
    BY <1>4 DEF LabelsOf
  <2> HIDE DEF R
  <2>3. R \subseteq Label
    BY <2>1 DEF R
  <2> QED
    BY <2>2, <2>3
<1>6. ASSUME NEW l \in DOMAIN labels, NEW i \in DOMAIN labels[l].body
      PROVE  labels[l].body[i] \in F
  <2> DEFINE R == [name : STRING, body : Seq(F)]
  <2>1. labels[l] \in R
    <3>1. labels \in Seq(R)
      BY <1>4 DEF LabelsOf
    <3> HIDE DEF R
    <3> QED
      BY <1>6, <3>1
  <2> DEFINE body == labels[l].body
  <2>2. body \in Seq(F)
    BY <2>1
  <2> HIDE DEF body
  <2>3. \A j \in DOMAIN body : body[j] \in F
    BY <2>2
  <2> QED
    BY <2>3 DEF body
<1>7. Playable(labels)
  BY <1>3, <1>5, <1>6 DEF Playable
<1> QED
  BY <1>7 DEF labels

-----------------------------------------------------------------------------
(* The lines of conditions                                                 *)

(* A condition has a line, and no other statement has that line and that   *)
(* condition.                                                              *)
LinesTellApart(labels) ==
  \A l \in DOMAIN labels : \A i \in DOMAIN labels[l].body :
    labels[l].body[i].cond # "none" =>
      /\ labels[l].body[i].line # 0
      /\ \A k \in DOMAIN labels : \A j \in DOMAIN labels[k].body :
           /\ labels[k].body[j].cond = labels[l].body[i].cond
           /\ labels[k].body[j].line = labels[l].body[i].line
           => k = l /\ j = i

(* Where the reader may be: at a word of a line, or past the last line.    *)
AllPlaces == [line : Nat \ {0}, word : Nat]

OnFile(S, p) ==
  p \in AllPlaces /\ (p.line <= Len(S) => p.word \in 1..Len(S[p.line]))

LEMMA FollowingOnFile ==
  ASSUME NEW yack, Written(yack), NEW p, OnFile(Stream(yack), p)
  PROVE  /\ OnFile(Stream(yack), Following(Stream(yack), p))
         /\ Following(Stream(yack), p).line >= p.line
<1> DEFINE S == Stream(yack)
           q == Following(S, p)
<1>1. Len(S) \in Nat /\ \A n \in 1..Len(S) : Len(S[n]) \in 1..LongestLine
  BY StreamOf, TokensOfLine
<1>2. p.line \in Nat \ {0} /\ p.word \in Nat
  BY DEF OnFile, AllPlaces
<1>3. \A l \in Nat \ {0}, k \in Nat :
        Place(l, k) \in AllPlaces /\ Place(l, k).line = l /\ Place(l, k).word = k
  BY DEF Place, AllPlaces
<1>4. p.line <= Len(S) => p.word \in 1..Len(S[p.line])
  BY DEF OnFile
<1> HIDE DEF S, q
<1>5. CASE p.line > Len(S)
  <2>1. q = p
    BY <1>1, <1>2, <1>5 DEF q, Following
  <2> QED
    BY <1>2, <2>1 DEF S, q
<1>6. CASE p.line <= Len(S) /\ p.word < Len(S[p.line])
  <2>1. q = Place(p.line, p.word + 1)
    BY <1>1, <1>2, <1>6 DEF q, Following
  <2>2. p.word + 1 \in 1..Len(S[p.line]) /\ p.word + 1 \in Nat
    BY <1>1, <1>2, <1>6
  <2>3. q \in AllPlaces /\ q.line = p.line /\ q.word = p.word + 1
    BY <1>2, <1>3, <2>1, <2>2
  <2>4. OnFile(S, q) /\ q.line >= p.line
    BY <1>2, <2>2, <2>3 DEF OnFile
  <2> QED
    BY <2>4 DEF S, q
<1>7. CASE p.line <= Len(S) /\ ~(p.word < Len(S[p.line]))
  <2>1. q = Place(p.line + 1, 1)
    BY <1>1, <1>2, <1>7 DEF q, Following
  <2>2. q \in AllPlaces /\ q.line = p.line + 1 /\ q.word = 1
    BY <1>2, <1>3, <2>1
  <2>3. q.line <= Len(S) => 1 \in 1..Len(S[q.line])
    <3>1. q.line <= Len(S) => Len(S[q.line]) \in 1..LongestLine
      BY <1>1, <1>2, <2>2
    <3>2. \A n \in 1..LongestLine : 1 \in 1..n
      BY DEF LongestLine
    <3> QED
      BY <3>1, <3>2
  <2>4. OnFile(S, q) /\ q.line >= p.line
    BY <1>2, <2>2, <2>3 DEF OnFile
  <2> QED
    BY <2>4 DEF S, q
<1> QED
  BY <1>1, <1>2, <1>5, <1>6, <1>7

(* Nothing follows a condition on its line.                                *)
LEMMA ConditionEndsLine ==
  ASSUME NEW yack, Written(yack), NEW p, OnFile(Stream(yack), p),
         At(Stream(yack), p).id = "Condition"
  PROVE  /\ Following(Stream(yack), p).line = p.line + 1
         /\ LineOf(Stream(yack), p) = p.line
<1> DEFINE S == Stream(yack)
           w == yack[p.line]
<1>1. Len(S) \in Nat /\ Len(yack) = Len(S)
  BY StreamOf
<1>2. p.line \in Nat \ {0} /\ p.word \in Nat
  BY DEF OnFile, AllPlaces
<1>3. p.line \in 1..Len(yack)
  <2> SUFFICES p.line <= Len(S)
    BY <1>1, <1>2
  <2> SUFFICES ASSUME ~(p.line <= Len(S)) PROVE FALSE
    OBVIOUS
  <2>1. At(S, p) = Token("End", "")
    BY DEF At
  <2>2. Token("End", "").id = "End"
    BY DEF Token
  <2> QED
    BY <2>1, <2>2
<1>4. w \in Lines /\ S[p.line] = Line(w) /\ p.word \in 1..Len(S[p.line])
  BY <1>1, <1>3, StreamOf DEF OnFile
<1>5. /\ Len(Line(w)) = Len(Words(w)) + IF w.cond = "none" THEN 0 ELSE 1
      /\ Len(Words(w)) \in 1..4
      /\ \A k \in 1..Len(Words(w)) : Line(w)[k] = Words(w)[k]
      /\ \A k \in 1..Len(Words(w)) : Words(w)[k].id # "Condition"
  BY <1>4, WordsOfLine, TokensOfLine
<1>6. At(S, p) = Line(w)[p.word]
  <2> HIDE DEF S
  <2>1. p.line <= Len(S)
    BY <1>1, <1>2, <1>3
  <2>2. At(S, p) = S[p.line][p.word]
    BY <2>1, Zenon DEF At
  <2> QED
    BY <1>4, <2>2
<1> HIDE DEF S, w
<1>7. p.word \notin 1..Len(Words(w))
  BY <1>5, <1>6 DEF S
<1>8. p.word = Len(S[p.line])
  BY <1>2, <1>4, <1>5, <1>7
<1>9. Following(S, p) = Place(p.line + 1, 1)
  BY <1>1, <1>2, <1>3, <1>8 DEF Following
<1>10. Following(S, p).line = p.line + 1
  BY <1>9 DEF Place
<1>11. LineOf(S, p) = p.line
  BY <1>2, <1>10 DEF LineOf
<1> QED
  BY <1>10, <1>11 DEF S

(* What is read is passed over, and nothing that was passed is read again. *)
LEMMA ExpressionGoesOn ==
  ASSUME NEW yack, Written(yack), NEW p, OnFile(Stream(yack), p)
  PROVE  LET next == ParseExpression(Stream(yack), p).next
         IN  OnFile(Stream(yack), next) /\ next.line >= p.line
<1> DEFINE S == Stream(yack)
           p1 == Following(S, p)
           p2 == Following(S, p1)
           p3 == Following(S, p2)
           p4 == Following(S, p3)
           next == ParseExpression(S, p).next
<1>1. \A q \in AllPlaces : q.line \in Nat
  BY DEF AllPlaces
<1>2. OnFile(S, p1) /\ p1.line >= p.line
  BY FollowingOnFile
<1>3. OnFile(S, p2) /\ p2.line >= p1.line
  BY <1>2, FollowingOnFile
<1>4. OnFile(S, p3) /\ p3.line >= p2.line
  BY <1>3, FollowingOnFile
<1>5. OnFile(S, p4) /\ p4.line >= p3.line
  BY <1>4, FollowingOnFile
<1>6. /\ p.line \in Nat /\ p1.line \in Nat /\ p2.line \in Nat /\ p3.line \in Nat
      /\ p4.line \in Nat
  BY <1>1, <1>2, <1>3, <1>4, <1>5 DEF OnFile
<1>7. next \in {p, p1, p2, p3, p4}
  <2> DEFINE e == ParseExpression(S, p)
  <2> SUFFICES e.next \in {p, p1, p2, p3, p4}
    OBVIOUS
  <2> HIDE DEF S, p1, p2, p3, p4, e
  <2>9. /\ Following(S, p) = p1 /\ Following(S, p1) = p2 /\ Following(S, p2) = p3
        /\ Following(S, p3) = p4
    BY DEF p1, p2, p3, p4
  <2>2. CASE SomeoneSays(S, p)
    <3>1. e = Expression("say", At(S, p).text, "",
                         Following(S, Following(S, Following(S, p))))
      BY <2>2, ReadsOne DEF e
    <3> QED
      BY <2>9, <3>1 DEF Expression
  <2>3. CASE At(S, p).id = "Code"
    <3>1. e = Expression("code", "", "", p1)
      BY <2>3, ReadsOne DEF e, p1
    <3> QED
      BY <3>1 DEF Expression
  <2>4. CASE At(S, p).id = "WaitWhile"
    <3>1. e = Expression("waitwhile", "", "", p1)
      BY <2>4, ReadsOne DEF e, p1
    <3> QED
      BY <3>1 DEF Expression
  <2>5. CASE At(S, p).id = "Goto"
    <3>1. e = Expression("goto", "", At(S, Following(S, p)).text,
                         Following(S, Following(S, p)))
      BY <2>5, ReadsOne DEF e
    <3> QED
      BY <2>9, <3>1 DEF Expression
  <2>6. CASE At(S, p).id = "Number"
    <3> DEFINE p0 == Following(S, Following(S, Following(S, p)))
    <3>1. e = Expression("choice", At(S, p).text, At(S, p0).text, Following(S, p0))
      BY <2>6, ReadsOne DEF e
    <3>2. p0 = p3
      BY <2>9
    <3> HIDE DEF p0
    <3> QED
      BY <2>9, <3>1, <3>2 DEF Expression
  <2>7. CASE At(S, p).id = "Identifier" /\ ~SomeoneSays(S, p)
    <3>1. e = ParseInstruction(S, p)
      BY <2>7, ReadsOne DEF e
    <3>2. \/ e = Expression(At(S, p).text, At(S, p1).text, "", p2)
          \/ e = Expression(At(S, p).text, "", "", p1)
      BY <2>9, <3>1 DEF ParseInstruction
    <3>3. CASE e = Expression(At(S, p).text, At(S, p1).text, "", p2)
      BY <3>3 DEF Expression
    <3>4. CASE e = Expression(At(S, p).text, "", "", p1)
      BY <3>4 DEF Expression
    <3> QED
      BY <3>2, <3>3, <3>4
  <2>8. CASE /\ ~SomeoneSays(S, p)
             /\ At(S, p).id \notin {"Code", "WaitWhile", "Goto", "Number", "Identifier"}
    <3>1. e = Expression("none", "", "", p)
      BY <2>8 DEF e, ParseExpression
    <3> QED
      BY <3>1 DEF Expression
  <2> QED
    BY <2>2, <2>3, <2>4, <2>5, <2>6, <2>7, <2>8
<1> HIDE DEF p1, p2, p3, p4, next, S
<1>8. OnFile(S, next) /\ next.line >= p.line
  BY <1>2, <1>3, <1>4, <1>5, <1>6, <1>7 DEF S
<1> QED
  BY <1>8 DEF next, S

(* The same of a statement; and a condition has the line where it is read, *)
(* which is passed over with it.                                           *)
LEMMA StatementGoesOn ==
  ASSUME NEW yack, Written(yack), NEW p, OnFile(Stream(yack), p)
  PROVE  LET t == ParseStatement(Stream(yack), p)
         IN  /\ OnFile(Stream(yack), t.next) /\ t.next.line >= p.line
             /\ t.statement.cond # "none" =>
                  /\ t.statement.line \in Nat \ {0}
                  /\ t.statement.line >= p.line
                  /\ t.next.line > t.statement.line
<1> DEFINE S == Stream(yack)
           e == ParseExpression(S, p)
           t == ParseStatement(S, p)
<1>1. OnFile(S, e.next) /\ e.next.line >= p.line
  BY ExpressionGoesOn
<1>2. p.line \in Nat \ {0} /\ e.next.line \in Nat \ {0}
  BY <1>1 DEF OnFile, AllPlaces
<1>3. CASE At(S, e.next).id = "Condition"
  <2>1. /\ Following(S, e.next).line = e.next.line + 1
        /\ LineOf(S, e.next) = e.next.line
    BY <1>1, <1>3, ConditionEndsLine
  <2>2. OnFile(S, Following(S, e.next))
    BY <1>1, FollowingOnFile
  <2> HIDE DEF S, e
  <2>3. t.next = Following(S, e.next) /\ t.statement.line = LineOf(S, e.next)
    BY <1>3 DEF ParseStatement, e
  <2> HIDE DEF t
  <2>4. /\ OnFile(S, t.next) /\ t.next.line = e.next.line + 1
        /\ t.statement.line = e.next.line
    BY <2>1, <2>2, <2>3
  <2>5. t.next.line >= p.line /\ t.next.line > t.statement.line
    BY <1>1, <1>2, <2>4
  <2> QED
    BY <1>1, <1>2, <2>4, <2>5 DEF S, t
<1>4. CASE At(S, e.next).id # "Condition"
  <2> HIDE DEF S, e
  <2>1. t.next = e.next /\ t.statement.cond = "none"
    BY <1>4 DEF ParseStatement, e
  <2> HIDE DEF t
  <2> QED
    BY <1>1, <2>1 DEF S, t
<1> QED
  BY <1>3, <1>4

(* What is in the labels after one more, or after one more statement.      *)
LEMMA InWithLabel ==
  ASSUME NEW R, NEW labels \in Seq(R), NEW name,
         NEW l \in DOMAIN WithLabel(labels, name),
         NEW i \in DOMAIN WithLabel(labels, name)[l].body
  PROVE  /\ l \in DOMAIN labels /\ i \in DOMAIN labels[l].body
         /\ WithLabel(labels, name)[l].body[i] = labels[l].body[i]
<1> DEFINE new == [name |-> name, body |-> <<>>]
<1>1. WithLabel(labels, name) = Append(labels, new)
  BY DEF WithLabel
<1>2. new.body = <<>> /\ DOMAIN <<>> = {}
  OBVIOUS
<1> HIDE DEF new
<1>3. labels \in Seq(R \cup {new}) /\ new \in R \cup {new}
  OBVIOUS
<1>4. /\ DOMAIN Append(labels, new) = 1..(Len(labels) + 1)
      /\ \A k \in 1..Len(labels) : Append(labels, new)[k] = labels[k]
      /\ Append(labels, new)[Len(labels) + 1] = new
  BY <1>3, AppendProperties
<1>5. Len(labels) \in Nat /\ DOMAIN labels = 1..Len(labels)
  OBVIOUS
<1>6. l # Len(labels) + 1
  BY <1>1, <1>2, <1>4
<1>7. l \in 1..Len(labels)
  BY <1>1, <1>4, <1>5, <1>6
<1> QED
  BY <1>1, <1>4, <1>5, <1>7

LEMMA InWithStatement ==
  ASSUME NEW N, NEW F, NEW labels \in LabelsOf(N, F), labels # <<>>, NEW st \in F
  PROVE  \A l \in DOMAIN WithStatement(labels, st) :
           \A i \in DOMAIN WithStatement(labels, st)[l].body :
             \/ /\ l \in DOMAIN labels /\ i \in DOMAIN labels[l].body
                /\ WithStatement(labels, st)[l].body[i] = labels[l].body[i]
             \/ /\ l = Len(labels) /\ i = Len(labels[l].body) + 1
                /\ WithStatement(labels, st)[l].body[i] = st
<1> SUFFICES ASSUME NEW l \in DOMAIN WithStatement(labels, st),
                    NEW i \in DOMAIN WithStatement(labels, st)[l].body
             PROVE  \/ /\ l \in DOMAIN labels /\ i \in DOMAIN labels[l].body
                       /\ WithStatement(labels, st)[l].body[i] = labels[l].body[i]
                    \/ /\ l = Len(labels) /\ i = Len(labels[l].body) + 1
                       /\ WithStatement(labels, st)[l].body[i] = st
  OBVIOUS
<1> DEFINE L == Len(labels)
           last == [labels[L] EXCEPT !.body = Append(@, st)]
           R == [name : N, body : Seq(F)]
<1>1. L \in 1..L /\ L \in Nat /\ DOMAIN labels = 1..L
  BY EmptySeq, LenProperties
<1>2. labels[L] \in R
  BY <1>1, ElementOfSeq DEF LabelsOf
<1>3. labels[L].body \in Seq(F)
  BY <1>2
<1>4. last.body = Append(labels[L].body, st)
  BY <1>2
<1>5. WithStatement(labels, st) = [labels EXCEPT ![L] = last]
  BY DEF WithStatement
<1> HIDE DEF last, R, L
<1>6. DOMAIN WithStatement(labels, st) = DOMAIN labels
  BY <1>5
<1>7. CASE l # L
  <2>1. WithStatement(labels, st)[l] = labels[l]
    BY <1>5, <1>6, <1>7
  <2> QED
    BY <1>6, <2>1
<1>8. CASE l = L
  <2>1. WithStatement(labels, st)[l] = last
    BY <1>5, <1>6, <1>8
  <2> DEFINE b == labels[L].body
  <2>2. WithStatement(labels, st)[l].body = Append(b, st)
    BY <1>4, <2>1
  <2>3. b \in Seq(F)
    BY <1>3
  <2> HIDE DEF b
  <2>4. /\ DOMAIN Append(b, st) = 1..(Len(b) + 1) /\ DOMAIN b = 1..Len(b) /\ Len(b) \in Nat
        /\ \A k \in 1..Len(b) : Append(b, st)[k] = b[k]
        /\ Append(b, st)[Len(b) + 1] = st
    BY <2>3, AppendProperties
  <2>5. i \in 1..(Len(b) + 1)
    BY <2>2, <2>4
  <2>6. CASE i = Len(b) + 1
    BY <1>8, <2>2, <2>4, <2>6 DEF b, L
  <2>7. CASE i # Len(b) + 1
    <3>1. i \in 1..Len(b)
      BY <2>4, <2>5, <2>7
    <3> QED
      BY <1>6, <1>8, <2>2, <2>4, <3>1 DEF b
  <2> QED
    BY <2>6, <2>7
<1> QED
  BY <1>7, <1>8

(* What the parser has found in labels: statements and names read anywhere *)
(* in the file.                                                            *)
Found(S) == {ParseStatement(S, p).statement : p \in AllPlaces}
Named(S) == {At(S, p).text : p \in AllPlaces}

(* Conditions are above a line, and each on a line of its own.             *)
Above(labels, n) ==
  \A l \in DOMAIN labels : \A i \in DOMAIN labels[l].body :
    labels[l].body[i].cond # "none" =>
      labels[l].body[i].line \in Nat \ {0} /\ labels[l].body[i].line < n

OwnLines(labels) ==
  \A l, k \in DOMAIN labels : \A i \in DOMAIN labels[l].body, j \in DOMAIN labels[k].body :
    /\ labels[l].body[i].cond # "none" /\ labels[k].body[j].cond # "none"
    /\ labels[k].body[j].line = labels[l].body[i].line
    => k = l /\ j = i

(* So the conditions are that have been read.                              *)
Apart(S, s) ==
  /\ OnFile(S, s.at)
  /\ s.labels \in LabelsOf(Named(S), Found(S))
  /\ Above(s.labels, s.at.line)
  /\ OwnLines(s.labels)

LEMMA LabelKeepsApart ==
  ASSUME NEW S, NEW s, Apart(S, s), NEW at, OnFile(S, at), at.line >= s.at.line,
         NEW p \in AllPlaces
  PROVE  Apart(S, [at |-> at, labels |-> WithLabel(s.labels, At(S, p).text)])
<1> DEFINE R == [name : Named(S), body : Seq(Found(S))]
           old == s.labels
           new == WithLabel(old, At(S, p).text)
<1>1. old \in Seq(R)
  BY DEF Apart, LabelsOf
<1>2. s.at.line \in Nat /\ at.line \in Nat
  BY DEF Apart, OnFile, AllPlaces
<1>3. Above(old, s.at.line) /\ OwnLines(old)
  BY DEF Apart
<1>4. new \in Seq(R)
  <2>1. At(S, p).text \in Named(S)
    BY DEF Named
  <2>2. <<>> \in Seq(Found(S))
    OBVIOUS
  <2>3. [name |-> At(S, p).text, body |-> <<>>] \in R
    BY <2>1, <2>2
  <2> HIDE DEF R
  <2> QED
    BY <1>1, <2>3, AppendProperties DEF WithLabel
<1>5. ASSUME NEW l \in DOMAIN new, NEW i \in DOMAIN new[l].body
      PROVE  /\ l \in DOMAIN old /\ i \in DOMAIN old[l].body
             /\ new[l].body[i] = old[l].body[i]
  <2> HIDE DEF R
  <2> QED
    BY <1>1, InWithLabel
<1> HIDE DEF new, old
<1>6. Above(new, at.line)
  <2> SUFFICES ASSUME NEW l \in DOMAIN new, NEW i \in DOMAIN new[l].body,
                      new[l].body[i].cond # "none"
               PROVE  new[l].body[i].line \in Nat \ {0} /\ new[l].body[i].line < at.line
    BY DEF Above
  <2>1. new[l].body[i].line \in Nat \ {0} /\ new[l].body[i].line < s.at.line
    BY <1>3, <1>5 DEF Above
  <2> QED
    BY <1>2, <2>1
<1>7. OwnLines(new)
  BY <1>3, <1>5 DEF OwnLines
<1>8. new \in LabelsOf(Named(S), Found(S))
  BY <1>4 DEF LabelsOf
<1> QED
  BY <1>6, <1>7, <1>8 DEF Apart, new, old

LEMMA StatementKeepsApart ==
  ASSUME NEW S, NEW s, Apart(S, s), s.labels # <<>>,
         NEW st, st = ParseStatement(S, s.at).statement,
         NEW at, OnFile(S, at), at.line >= s.at.line,
         st.cond # "none" =>
           st.line \in Nat \ {0} /\ st.line >= s.at.line /\ at.line > st.line
  PROVE  Apart(S, [at |-> at, labels |-> WithStatement(s.labels, st)])
<1> DEFINE N == Named(S)
           F == Found(S)
           old == s.labels
           new == WithStatement(old, st)
<1>1. old \in LabelsOf(N, F) /\ old # <<>>
  BY DEF Apart
<1>2. s.at.line \in Nat /\ at.line \in Nat
  BY DEF Apart, OnFile, AllPlaces
<1>3. Above(old, s.at.line) /\ OwnLines(old)
  BY DEF Apart
<1>4. st \in F
  BY DEF Apart, OnFile, Found
<1> HIDE DEF N, F, old
<1>5. new \in LabelsOf(N, F)
  <2>1. \A labels \in LabelsOf(N, F) : labels # <<>> => WithStatement(labels, st) \in LabelsOf(N, F)
    BY <1>4, StatementAdded DEF LabelsOf
  <2> QED
    BY <1>1, <2>1
<1>6. \A l \in DOMAIN new : \A i \in DOMAIN new[l].body :
        \/ /\ l \in DOMAIN old /\ i \in DOMAIN old[l].body
           /\ new[l].body[i] = old[l].body[i]
        \/ /\ l = Len(old) /\ i = Len(old[l].body) + 1
           /\ new[l].body[i] = st
  BY <1>1, <1>4, InWithStatement
<1> HIDE DEF new
<1>7. Above(new, at.line)
  <2> SUFFICES ASSUME NEW l \in DOMAIN new, NEW i \in DOMAIN new[l].body,
                      new[l].body[i].cond # "none"
               PROVE  new[l].body[i].line \in Nat \ {0} /\ new[l].body[i].line < at.line
    BY DEF Above
  <2>1. CASE new[l].body[i] = st
    BY <1>2, <2>1
  <2>2. CASE /\ l \in DOMAIN old /\ i \in DOMAIN old[l].body
             /\ new[l].body[i] = old[l].body[i]
    <3>1. new[l].body[i].line \in Nat \ {0} /\ new[l].body[i].line < s.at.line
      BY <1>3, <2>2 DEF Above
    <3> QED
      BY <1>2, <3>1
  <2> QED
    BY <1>6, <2>1, <2>2
<1>8. OwnLines(new)
  <2>1. ASSUME NEW k \in DOMAIN old, NEW j \in DOMAIN old[k].body,
               old[k].body[j].cond # "none", st.cond # "none"
        PROVE  old[k].body[j].line # st.line
    <3>1. old[k].body[j].line \in Nat /\ old[k].body[j].line < s.at.line
      BY <1>3, <2>1 DEF Above
    <3> QED
      BY <1>2, <2>1, <3>1
  <2> SUFFICES ASSUME NEW l \in DOMAIN new, NEW k \in DOMAIN new,
                      NEW i \in DOMAIN new[l].body, NEW j \in DOMAIN new[k].body,
                      new[l].body[i].cond # "none", new[k].body[j].cond # "none",
                      new[k].body[j].line = new[l].body[i].line
               PROVE  k = l /\ j = i
    BY DEF OwnLines
  <2>2. CASE /\ l \in DOMAIN old /\ i \in DOMAIN old[l].body
             /\ new[l].body[i] = old[l].body[i]
    <3>1. new[k].body[j] # st
      BY <2>1, <2>2
    <3>2. /\ k \in DOMAIN old /\ j \in DOMAIN old[k].body
          /\ new[k].body[j] = old[k].body[j]
      BY <1>6, <3>1
    <3> QED
      BY <1>3, <2>2, <3>2 DEF OwnLines
  <2>3. CASE /\ l = Len(old) /\ i = Len(old[l].body) + 1
             /\ new[l].body[i] = st
    <3>1. ~(/\ k \in DOMAIN old /\ j \in DOMAIN old[k].body
            /\ new[k].body[j] = old[k].body[j])
      BY <2>1, <2>3
    <3>2. k = Len(old) /\ j = Len(old[k].body) + 1
      BY <1>6, <3>1
    <3> QED
      BY <2>3, <3>2
  <2> QED
    BY <1>6, <2>2, <2>3
<1> QED
  BY <1>5, <1>7, <1>8 DEF Apart, N, F, old, new

LEMMA TurnKeepsApart ==
  ASSUME NEW yack, Written(yack), NEW s, Apart(Stream(yack), s)
  PROVE  Apart(Stream(yack), Turn(Stream(yack), s))
<1> DEFINE S == Stream(yack)
           p1 == Following(S, s.at)
           p2 == Following(S, p1)
           t == ParseStatement(S, s.at)
           after == Turn(S, s)
<1>1. OnFile(S, s.at)
  BY DEF Apart
<1>2. OnFile(S, p1) /\ p1.line >= s.at.line
  BY <1>1, FollowingOnFile
<1>3. OnFile(S, p2) /\ p2.line >= p1.line
  BY <1>2, FollowingOnFile
<1>4. p2.line >= s.at.line
  <2>1. \A p \in AllPlaces : p.line \in Nat
    BY DEF AllPlaces
  <2>2. s.at.line \in Nat /\ p1.line \in Nat /\ p2.line \in Nat
    BY <1>1, <1>2, <1>3, <2>1 DEF OnFile
  <2> QED
    BY <1>2, <1>3, <2>2
<1>5. /\ OnFile(S, t.next) /\ t.next.line >= s.at.line
      /\ t.statement.cond # "none" =>
           /\ t.statement.line \in Nat \ {0}
           /\ t.statement.line >= s.at.line
           /\ t.next.line > t.statement.line
  BY <1>1, StatementGoesOn
<1>6. Apart(S, s)
  OBVIOUS
<1> HIDE DEF S, p1, p2, t
<1>7. CASE At(S, s.at).id = "End"
  <2>1. after = s
    BY <1>7 DEF Turn
  <2> QED
    BY <2>1 DEF S
<1>8. CASE At(S, s.at).id # "End" /\ (s.labels = <<>> \/ At(S, s.at).id = "Colon")
  <2>1. after = [at |-> p2, labels |-> WithLabel(s.labels, At(S, p1).text)]
    BY <1>8 DEF Turn, p1, p2
  <2>2. p1 \in AllPlaces
    BY <1>2 DEF OnFile
  <2>3. Apart(S, [at |-> p2, labels |-> WithLabel(s.labels, At(S, p1).text)])
    BY <1>3, <1>4, <1>6, <2>2, LabelKeepsApart
  <2> QED
    BY <2>1, <2>3 DEF S
<1>9. CASE At(S, s.at).id \notin {"End", "Colon"} /\ s.labels # <<>>
  <2>1. after = [at |-> t.next, labels |-> WithStatement(s.labels, t.statement)]
    BY <1>9 DEF Turn, t
  <2>2. t.statement = ParseStatement(S, s.at).statement
    BY DEF t
  <2>3. Apart(S, [at |-> t.next, labels |-> WithStatement(s.labels, t.statement)])
    BY <1>5, <1>6, <1>9, <2>2, StatementKeepsApart
  <2> QED
    BY <2>1, <2>3 DEF S
<1> QED
  BY <1>7, <1>8, <1>9

(* Whatever file is read, words taken for arguments included, getLine      *)
(* gives every condition a line, and no two conditions the same: what is   *)
(* saved of one (_states) is never taken for another's.                    *)
THEOREM ConditionsKeepApart ==
  ASSUME NEW yack, Written(yack)
  PROVE  LinesTellApart(Parse(Stream(yack)))
<1> DEFINE S == Stream(yack)
           turns == Turns(S)
           L == LongestLine * Len(S)
           T == {k \in Nat : k <= L => Apart(S, turns[k])}
<1>1. L \in Nat /\ \A n \in 1..Len(S) : Len(S[n]) \in 1..LongestLine
  BY StreamOf, TokensOfLine DEF LongestLine
<1>2. /\ turns[0] = Begins
      /\ \A k \in 1..L : turns[k] = Turn(S, turns[k - 1])
  BY StreamOf, TurnByTurn
<1>3. Apart(S, Begins)
  <2>1. Begins.at = Place(1, 1) /\ Begins.labels = <<>>
    BY DEF Begins
  <2>2. Place(1, 1) \in AllPlaces /\ Place(1, 1).line = 1 /\ Place(1, 1).word = 1
    BY DEF Place, AllPlaces
  <2>3. 1 <= Len(S) => 1 \in 1..Len(S[1])
    <3>1. \A n \in 1..LongestLine : 1 \in 1..n
      BY DEF LongestLine
    <3>2. 1 <= Len(S) => 1 \in 1..Len(S)
      BY StreamOf
    <3> QED
      BY <1>1, <3>1, <3>2
  <2>4. OnFile(S, Begins.at)
    BY <2>1, <2>2, <2>3 DEF OnFile
  <2> HIDE DEF S
  <2>5. <<>> \in LabelsOf(Named(S), Found(S)) /\ DOMAIN <<>> = {}
    BY DEF LabelsOf
  <2> QED
    BY <2>1, <2>4, <2>5 DEF Apart, Above, OwnLines
<1>4. \A s : Apart(S, s) => Apart(S, Turn(S, s))
  BY TurnKeepsApart
<1> HIDE DEF turns, S, L
<1>5. 0 \in T
  BY <1>2, <1>3
<1>6. ASSUME NEW k \in T PROVE k + 1 \in T
  <2> SUFFICES ASSUME k + 1 <= L PROVE Apart(S, turns[k + 1])
    OBVIOUS
  <2>1. k \in Nat /\ k <= L /\ k + 1 \in 1..L /\ (k + 1) - 1 = k
    BY <1>1
  <2>2. Apart(S, turns[k])
    BY <2>1
  <2>3. turns[k + 1] = Turn(S, turns[k])
    BY <1>2, <2>1
  <2> QED
    BY <1>4, <2>2, <2>3
<1>7. T = Nat
  <2> HIDE DEF T
  <2>1. T \in SUBSET Nat
    BY DEF T
  <2> QED
    BY <1>5, <1>6, <2>1, Induct
<1>8. Apart(S, turns[L])
  <2>1. L \in T
    BY <1>1, <1>7
  <2> QED
    BY <1>1, <2>1
<1>9. Parse(S) = turns[L].labels
  BY DEF Parse, turns, L
<1>10. LinesTellApart(Parse(S))
  <2> DEFINE labels == Parse(S)
  <2>1. Above(labels, turns[L].at.line) /\ OwnLines(labels)
    BY <1>8, <1>9 DEF Apart
  <2> HIDE DEF labels
  <2>2. ASSUME NEW l \in DOMAIN labels, NEW i \in DOMAIN labels[l].body,
               labels[l].body[i].cond # "none"
        PROVE  labels[l].body[i].line # 0
    BY <2>1, <2>2 DEF Above
  <2>3. LinesTellApart(labels)
    BY <2>1, <2>2 DEF LinesTellApart, OwnLines
  <2> QED
    BY <2>3 DEF labels
<1> QED
  BY <1>10 DEF S

-----------------------------------------------------------------------------
(* The inductive invariant                                                 *)

(* What has been read can be played, statement by statement.               *)
FilesOK == \A d \in Dialogs : Playable(Labels(d)) /\ LinesTellApart(Labels(d))

(* ChoicesAreOffered, and what makes it inductive: choices are collected   *)
(* from the label being played, and only while a call goes through it.     *)
OfferOK ==
  /\ player.state \in {"Start", "Running", "WaitingForChoice", "WaitingEndAnimation"} =>
       player.label # 0
  /\ player.state \in {"Start", "Running", "WaitingForChoice"} =>
       /\ Cardinality(Offered) <= player.limit
       /\ \A c \in Offered :
            /\ c[1] = player.dialog /\ c[2] = player.label
            /\ c[3] \in DOMAIN Labels(c[1])[c[2]].body
  /\ player.state = "WaitingForChoice" => Offered # {}
  /\ player.state \in {"None", "WaitingEndAnimation"} => Offered = {}
  /\ player.state \in {"Start", "Running"} /\ ~call.stepping => Offered = {}
  /\ Idle => ~call.stepping

(* A line being said is waited for, by the player that no call goes on     *)
(* with, and no statement that called back will forget it.                 *)
LineOK ==
  line = "said" =>
    /\ player.state \in {"WaitingEndAnimation", "WaitingForSayingChoice"}
    /\ player.waits /\ ~call.nested

(* The records by line and the history by place say the same of a dialog   *)
(* whose records are trusted.                                              *)
RecordOf(m) == <<m[1], m[2], m[3][1], StatementAt(m[3]).line>>

OfStatement(m) ==
  /\ m[3][2] \in DOMAIN Labels(m[3][1])
  /\ m[3][3] \in DOMAIN Labels(m[3][1])[m[3][2]].body
  /\ StatementAt(m[3]).cond = m[1]

SameHistory(st, ch, sn) ==
  /\ \A m \in ch \cup sn : OfStatement(m) /\ (Trusted(m[3][1]) => RecordOf(m) \in st)
  /\ \A d \in Dialogs : \A l \in DOMAIN Labels(d) : \A i \in DOMAIN Labels(d)[l].body :
       \A r \in st :
         /\ Trusted(d)
         /\ r[1] \in {"once", "onceever"} /\ r[1] = Labels(d)[l].body[i].cond
         /\ r[3] = d /\ r[4] = Labels(d)[l].body[i].line
         => <<r[1], r[2], <<d, l, i>>>> \in ch

HistoryOK ==
  /\ SameHistory(states, chosen, seen)
  /\ SameHistory(saveFile.states, saveFile.chosen, saveFile.seen)

(* The choices collected were let through by their conditions, and those   *)
(* shown once are recorded, but in a game loaded under them.               *)
OnceOK ==
  /\ player.stale => player.state \in {"WaitingForChoice", "WaitingForSayingChoice"}
  /\ player.state \in {"Start", "Running"} /\ Trusted(player.dialog) =>
       \A c \in Offered : ~ChosenBefore(c) /\ Mark(c) \notin seen
  /\ player.state \in {"Start", "Running", "WaitingForChoice"} /\ ~player.stale =>
       \A c \in Offered : OnceShown(c) => StateOf(c) \in states

(* The inductive invariant.                                                *)
DialogInv == TypeOK /\ FilesOK /\ OfferOK /\ LineOK /\ HistoryOK /\ OnceOK

-----------------------------------------------------------------------------
(* The labels                                                              *)

LEMMA Least ==
  ASSUME NEW S \in SUBSET Nat, S # {}
  PROVE  \E n \in S : \A k \in S : n <= k
<1>1. PICK n \in S : \A k \in S : ~(<<k, n>> \in OpToRel(<, Nat))
  BY NatLessThanWellFounded, WFMin, Zenon
<1>2. ASSUME NEW k \in S PROVE n <= k
  <2> SUFFICES ASSUME k < n PROVE FALSE
    OBVIOUS
  <2> DEFINE p == <<k, n>>
  <2>1. p \in Nat \X Nat /\ p[1] = k /\ p[2] = n
    OBVIOUS
  <2> HIDE DEF p
  <2>2. p \in {q \in Nat \X Nat : q[1] < q[2]}
    BY <2>1
  <2> QED
    BY <1>1, <2>2 DEF p, OpToRel
<1> QED
  BY <1>2

LEMMA Greatest ==
  ASSUME NEW n \in Nat, NEW S \in SUBSET (1..n), S # {}
  PROVE  \E m \in S : \A k \in S : k <= m
<1> DEFINE T == {n - m : m \in S}
<1>1. T \in SUBSET Nat /\ T # {}
  <2>1. \A m \in S : n - m \in Nat
    OBVIOUS
  <2> QED
    BY <2>1, Zenon
<1> HIDE DEF T
<1>4. PICK t \in T : \A k \in T : t <= k
  BY <1>1, Least
<1>5. PICK m \in S : t = n - m
  BY DEF T
<1>6. ASSUME NEW k \in S PROVE k <= m
  <2>1. n - k \in T
    BY DEF T
  <2>2. n - m <= n - k
    BY <1>4, <1>5, <2>1
  <2> QED
    BY <2>2
<1> QED
  BY <1>6

(* The label that a name leads to is one of the dialog, or none.           *)
LEMMA LabelFound ==
  ASSUME text \in [Dialogs -> Seq(Label)], NEW d \in Dialogs, NEW name
  PROVE  LabelOf(d, name) \in Nat /\ LabelOf(d, name) <= Len(Labels(d))
<1> DEFINE named == {l \in DOMAIN Labels(d) : Labels(d)[l].name = name}
           last == CHOOSE l \in named : \A k \in named : k <= l
<1>1. Labels(d) \in Seq(Label)
  BY DEF Labels
<1>2. Len(Labels(d)) \in Nat /\ named \in SUBSET (1..Len(Labels(d)))
  BY <1>1
<1>3. CASE named = {}
  BY <1>2, <1>3 DEF LabelOf
<1>4. CASE named # {}
  <2>1. \E m \in named : \A k \in named : k <= m
    <3> HIDE DEF named
    <3> QED
      BY <1>2, <1>4, Greatest, Zenon
  <2>2. last \in named
    BY <2>1, Zenon
  <2>3. LabelOf(d, name) = last
    BY <1>4, Zenon DEF LabelOf
  <2> QED
    BY <1>2, <2>2, <2>3
<1> QED
  BY <1>3, <1>4

(* The player after selectLabel has no choices, and a label if it starts.  *)
LEMMA Selected ==
  ASSUME text \in [Dialogs -> Seq(Label)], NEW p \in Player, NEW name, MaxSlots \in Nat,
         NEW q, q = SelectLabel(p, name)
  PROVE  /\ q \in Player /\ q.label <= Len(Labels(q.dialog))
         /\ q.choices = NoChoices /\ q.stale = FALSE
         /\ q.dialog = p.dialog /\ q.actor = p.actor /\ q.limit = p.limit
         /\ q.waits = p.waits /\ q.parrot = p.parrot
         /\ q.state = "None" \/ (q.state = "Start" /\ q.label # 0)
<1> DEFINE l == LabelOf(p.dialog, name)
<1>1. p.dialog \in Dialogs
  BY DEF Player
<1>2. l \in Nat /\ l <= Len(Labels(p.dialog))
  BY <1>1, LabelFound
<1>3. q = [p EXCEPT !.label = l, !.current = 1, !.choices = NoChoices, !.stale = FALSE,
                    !.state = IF l # 0 THEN "Start" ELSE "None"]
  BY DEF SelectLabel
<1>4. NoChoices \in [1..MaxSlots -> Spots \cup {NoChoice}]
  BY DEF NoChoices
<1> HIDE DEF l
<1>5. (IF l # 0 THEN "Start" ELSE "None") \in PlayerStates
  BY DEF PlayerStates
<1> DEFINE st == IF l # 0 THEN "Start" ELSE "None"
<1>6. st = "None" \/ (st = "Start" /\ l # 0)
  OBVIOUS
<1> HIDE DEF st
<1>7. q = [p EXCEPT !.label = l, !.current = 1, !.choices = NoChoices, !.stale = FALSE,
                    !.state = st]
  BY <1>3 DEF st
<1>8. /\ q.label = l /\ q.choices = NoChoices /\ q.stale = FALSE /\ q.state = st
      /\ q.dialog = p.dialog /\ q.actor = p.actor /\ q.limit = p.limit
      /\ q.waits = p.waits /\ q.parrot = p.parrot
  BY <1>7 DEF Player
<1>9. st \in PlayerStates
  BY <1>5 DEF st
<1>10. q \in Player
  <2> DEFINE p1 == [p EXCEPT !.label = l, !.current = 1]
             p2 == [p1 EXCEPT !.choices = NoChoices]
             p3 == [p2 EXCEPT !.stale = FALSE, !.state = st]
  <2>0. l \in Nat /\ 1 \in Nat \ {0}
    BY <1>2
  <2>1. p1 \in Player
    BY <2>0 DEF Player
  <2>2. p2 \in Player
    <3> HIDE DEF p1
    <3> QED
      BY <1>4, <2>1 DEF Player
  <2>3. p3 \in Player
    <3> HIDE DEF p2
    <3> QED
      BY <1>9, <2>2 DEF Player
  <2>4. q = p3
    BY <1>7 DEF Player
  <2> QED
    BY <2>3, <2>4
<1> QED
  BY <1>2, <1>6, <1>8, <1>10

LEMMA LabelSelected ==
  ASSUME text \in [Dialogs -> Seq(Label)], MaxSlots \in Nat, NEW p \in Player, NEW name,
         player' = SelectLabel(p, name)
  PROVE  /\ player' \in Player /\ player'.label <= Len(Labels(player'.dialog))
         /\ player'.choices = NoChoices /\ player'.stale = FALSE
         /\ player'.state = "None" \/ (player'.state = "Start" /\ player'.label # 0)
<1>1. PICK q : q = SelectLabel(p, name)
  OBVIOUS
<1>2. /\ q \in Player /\ q.label <= Len(Labels(q.dialog))
      /\ q.choices = NoChoices /\ q.stale = FALSE
      /\ q.state = "None" \/ (q.state = "Start" /\ q.label # 0)
  BY <1>1, Selected
<1> QED
  BY <1>1, <1>2

LEMMA NothingOffered ==
  ASSUME player'.choices = NoChoices PROVE Offered' = {}
BY DEF Offered, NoChoices

LEMMA SameOffered ==
  ASSUME player'.choices = player.choices PROVE Offered' = Offered
BY DEF Offered

(* The player that goes on to the next statement.                          *)
LEMMA Advanced ==
  ASSUME player \in Player, NEW q, q = Advance
  PROVE  /\ q \in Player /\ q.state = "Running" /\ q.current = player.current + 1
         /\ q.dialog = player.dialog /\ q.label = player.label /\ q.actor = player.actor
         /\ q.choices = player.choices /\ q.limit = player.limit
         /\ q.stale = player.stale /\ q.waits = player.waits
<1>1. q = [player EXCEPT !.state = "Running", !.current = player.current + 1]
  BY DEF Advance
<1>2. "Running" \in PlayerStates /\ player.current + 1 \in Nat \ {0}
  BY DEF PlayerStates, Player
<1>3. q \in Player
  BY <1>1, <1>2 DEF Player
<1> QED
  BY <1>1, <1>3 DEF Player

(* The statement that a stepping player has come to.                       *)
LEMMA StatementHere ==
  ASSUME TypeOK, OfferOK, Stepping, ~AtEnd
  PROVE  /\ player.label \in DOMAIN Labels(player.dialog)
         /\ player.current \in DOMAIN Labels(player.dialog)[player.label].body
         /\ StatementAt(Here) \in Statement
         /\ StatementAt(Here) = Labels(player.dialog)[player.label].body[player.current]
         /\ Here = <<player.dialog, player.label, player.current>> /\ Here \in Spots
<1>1. player \in Player /\ player.label # 0 /\ player.label <= Len(Labels(player.dialog))
  BY DEF TypeOK, OfferOK, Stepping
<1>2. Labels(player.dialog) \in Seq(Label)
  BY <1>1 DEF TypeOK, Labels, Player
<1>3. player.label \in 1..Len(Labels(player.dialog))
  BY <1>1, <1>2 DEF Player
<1> DEFINE body == Labels(player.dialog)[player.label].body
<1>4. body \in Seq(Statement)
  <2>1. Labels(player.dialog)[player.label] \in Label
    BY <1>2, <1>3
  <2> QED
    BY <2>1 DEF Label
<1>5. player.current \in 1..Len(body)
  BY <1>1, <1>4 DEF AtEnd, Player
<1>6. StatementAt(Here) = body[player.current]
  BY DEF StatementAt, Here
<1>7. body[player.current] \in Statement
  <2> HIDE DEF body
  <2> QED
    BY <1>4, <1>5
<1>8. player.dialog \in Dialogs /\ player.label \in Nat /\ player.current \in Nat
  BY <1>1 DEF Player
<1> QED
  BY <1>2, <1>3, <1>4, <1>5, <1>6, <1>7, <1>8 DEF Here, Spots

LEMMA NumberIsNat == \A arg : Number(arg) \in Nat
BY DEF Number

LEMMA HereIsAChoice == Here # NoChoice
BY DEF Here, NoChoice

LEMMA OfferedIsFinite ==
  ASSUME player \in Player, MaxSlots \in Nat
  PROVE  IsFiniteSet(Offered) /\ Cardinality(Offered) \in Nat
<1> DEFINE all == {player.choices[n] : n \in 1..MaxSlots}
<1>1. player.choices \in [1..MaxSlots -> Spots \cup {NoChoice}]
  BY DEF Player
<1>2. player.choices \in [1..MaxSlots -> all]
  <2>1. \A n \in 1..MaxSlots : player.choices[n] \in all
    OBVIOUS
  <2> HIDE DEF all
  <2> QED
    BY <1>1, <2>1
<1>3. \A c \in all : \E n \in 1..MaxSlots : player.choices[n] = c
  OBVIOUS
<1> HIDE DEF all
<1>4. player.choices \in Surjection(1..MaxSlots, all)
  BY <1>2, <1>3, Zenon DEF Surjection
<1>5. IsFiniteSet(1..MaxSlots)
  <2>1. 1 \in Int /\ MaxSlots \in Int
    OBVIOUS
  <2> QED
    BY <2>1, FS_Interval, Zenon
<1>6. IsFiniteSet(all)
  BY <1>4, <1>5, FS_Surjection, Zenon
<1>7. Offered \in SUBSET all
  BY DEF Offered, all
<1>8. IsFiniteSet(Offered)
  BY <1>6, <1>7, FS_Subset, Zenon
<1> QED
  BY <1>8, FS_CardinalityType, Zenon

(* A choice that takes an empty place is on offer beside the others.       *)
LEMMA OneMoreOffered ==
  ASSUME player \in Player, NEW n \in 1..MaxSlots, player.choices[n] = NoChoice,
         player'.choices = [player.choices EXCEPT ![n] = Here]
  PROVE  Offered' = Offered \cup {Here}
<1>1. player.choices \in [1..MaxSlots -> Spots \cup {NoChoice}]
  BY DEF Player
<1> DEFINE h == Here
           new == player'.choices
<1>2. h # NoChoice
  BY HereIsAChoice
<1>3. new = [player.choices EXCEPT ![n] = h]
  OBVIOUS
<1> HIDE DEF h, new
<1>4. \A k \in 1..MaxSlots : new[k] = IF k = n THEN h ELSE player.choices[k]
  BY <1>1, <1>3
<1>5. {new[k] : k \in 1..MaxSlots} \ {NoChoice}
      = ({player.choices[k] : k \in 1..MaxSlots} \ {NoChoice}) \cup {h}
  BY <1>2, <1>4
<1> QED
  BY <1>5 DEF Offered, h, new

-----------------------------------------------------------------------------
(* The types                                                               *)

LEMMA ShownTyped ==
  ASSUME TypeOK, OfferOK, Stepping, ~AtEnd
  PROVE  Shown(Here) \in SUBSET ({"showonce", "temponce"} \X Who \X Dialogs \X Nat)
<1>1. StatementAt(Here) \in Statement /\ Here[1] \in Dialogs /\ player.actor \in Who
  BY StatementHere DEF Spots, TypeOK, Player
<1>2. StatementAt(Here).line \in Nat
  BY <1>1 DEF Statement
<1> DEFINE c == StatementAt(Here).cond
<1>3. c \in {"showonce", "temponce"} =>
        StateOf(Here) \in {"showonce", "temponce"} \X Who \X Dialogs \X Nat
  BY <1>1, <1>2 DEF StateOf
<1> QED
  BY <1>3 DEF Shown, OnceShown

LEMMA SameStatements ==
  ASSUME UNCHANGED text
  PROVE  /\ \A d : Labels(d)' = Labels(d)
         /\ \A s : StatementAt(s)' = StatementAt(s)
BY DEF Labels, StatementAt

(* The game is typed.                                                      *)
GameTyped(st, ch, sn) ==
  /\ st \in SUBSET (Conditions \X Who \X Dialogs \X Nat)
  /\ ch \in SUBSET ({"once", "onceever"} \X Who \X Spots)
  /\ sn \in SUBSET ({"showonce", "temponce"} \X Who \X Spots)

PlayerOK == player \in Player /\ player.label <= Len(Labels(player.dialog))

CallOK == call \in [by : {"none", "update", "start", "choose"}, stepping : BOOLEAN,
                    nested : BOOLEAN]

LEMMA GameIsTyped ==
  TypeOK <=> /\ text \in [Dialogs -> Seq(Label)]
             /\ PlayerOK /\ CallOK
             /\ GameTyped(states, chosen, seen)
             /\ GameTyped(saveFile.states, saveFile.chosen, saveFile.seen)
             /\ saveFile = [states |-> saveFile.states, chosen |-> saveFile.chosen,
                            seen |-> saveFile.seen]
             /\ line \in {"over", "said", "unheard"} /\ misread \in BOOLEAN
             /\ mState \in {"None", "Active", "WaitingForChoice"}
             /\ slots \in [1..MaxSlots -> Spots \cup {NoChoice}]
             /\ nStarts \in 0..MaxStarts
<1> DEFINE g == [states |-> states, chosen |-> chosen, seen |-> seen]
<1>1. g \in Game <=> GameTyped(states, chosen, seen)
  BY DEF Game, GameTyped
<1>2. saveFile \in Game
      <=> /\ GameTyped(saveFile.states, saveFile.chosen, saveFile.seen)
          /\ saveFile = [states |-> saveFile.states, chosen |-> saveFile.chosen,
                         seen |-> saveFile.seen]
  BY DEF Game, GameTyped
<1> QED
  BY <1>1, <1>2, Zenon DEF TypeOK, PlayerOK, CallOK, g

LEMMA TrustStays ==
  ASSUME UNCHANGED misread
  PROVE  /\ \A d : Trusted(d)' <=> Trusted(d)
         /\ player'.dialog = player.dialog =>
              (Trusted(player.dialog)' <=> Trusted(player.dialog))
BY DEF Trusted

(* A player that goes on with the next statement of its label.             *)
LEMMA StillCollecting ==
  ASSUME TypeOK, OfferOK, OnceOK, Stepping, MaxSlots \in Nat,
         player'.state = "Running", player'.dialog = player.dialog,
         player'.label = player.label, player'.choices = player.choices,
         player'.stale = player.stale, player'.limit \in Nat,
         Offered # {} => player'.limit = player.limit /\ player'.actor = player.actor,
         UNCHANGED <<text, call, misread, chosen, seen>>, states \subseteq states'
  PROVE  OfferOK' /\ OnceOK'
<1>1. Offered' = Offered
  BY SameOffered
<1>2. \A d : Labels(d)' = Labels(d)
  BY SameStatements
<1>3. player.state \in {"Start", "Running"} /\ call.stepping /\ call'.stepping
  BY DEF Stepping
<1>4. Cardinality(Offered) <= player'.limit
  <2>1. CASE Offered = {}
    <3>1. Cardinality({}) = 0
      BY FS_EmptySet
    <3> QED
      BY <2>1, <3>1
  <2>2. CASE Offered # {}
    BY <1>3, <2>2 DEF OfferOK
  <2> QED
    BY <2>1, <2>2
<1>5. OfferOK'
  <2>1. ~Idle'
    BY <1>3 DEF OfferOK, Idle
  <2>2. \A c \in Offered' :
          /\ c[1] = player'.dialog /\ c[2] = player'.label
          /\ c[3] \in DOMAIN Labels(c[1])'[c[2]].body
    BY <1>1, <1>2, <1>3, Zenon DEF OfferOK
  <2> QED
    BY <1>1, <1>3, <1>4, <2>1, <2>2 DEF OfferOK
<1>6. OnceOK'
  <2>1. player'.stale = FALSE
    BY <1>3 DEF OnceOK, TypeOK, Player
  <2>2. ASSUME NEW c \in Offered
        PROVE  /\ Trusted(player.dialog) => ~ChosenBefore(c)' /\ Mark(c)' \notin seen'
               /\ OnceShown(c)' => StateOf(c)' \in states'
    <3>1. player'.actor = player.actor
      BY <2>2
    <3>2. StatementAt(c)' = StatementAt(c)
      BY SameStatements
    <3>3. /\ Trusted(player.dialog) => ~ChosenBefore(c) /\ Mark(c) \notin seen
          /\ OnceShown(c) => StateOf(c) \in states
      BY <1>3, <2>1, <2>2 DEF OnceOK
    <3>4. ChosenBefore(c)' = ChosenBefore(c)
      BY <3>1, <3>2 DEF ChosenBefore
    <3>5. Mark(c)' = Mark(c) /\ StateOf(c)' = StateOf(c) /\ OnceShown(c)' = OnceShown(c)
      BY <3>1, <3>2 DEF Mark, StateOf, OnceShown
    <3> QED
      BY <3>3, <3>4, <3>5
  <2> QED
    BY <1>1, <2>1, <2>2, TrustStays DEF OnceOK
<1> QED
  BY <1>5, <1>6

(* A player that begins a label, or finds none.                            *)
LEMMA BeginsLabel ==
  ASSUME player'.choices = NoChoices, player'.stale = FALSE, player'.limit \in Nat,
         player'.state = "None" \/ (player'.state = "Start" /\ player'.label # 0),
         call'.stepping, call'.by # "none"
  PROVE  OfferOK' /\ OnceOK'
<1>1. Offered' = {} /\ Cardinality(Offered') = 0
  <2>1. Offered' = {}
    BY NothingOffered
  <2> QED
    BY <2>1, FS_EmptySet
<1> QED
  BY <1>1 DEF OfferOK, OnceOK, Idle

(* A player that stops at the choices collected.                           *)
LEMMA StopsToChoose ==
  ASSUME TypeOK, OfferOK, OnceOK, Stepping, Offered # {},
         player' = [player EXCEPT !.state = "WaitingForChoice"],
         UNCHANGED <<text, call, misread, chosen, seen>>, states \subseteq states'
  PROVE  /\ OfferOK' /\ OnceOK'
         /\ Trusted(player.dialog) =>
              \A c \in Offered' : ~ChosenBefore(c)' /\ Mark(c)' \notin seen
<1>1. /\ player'.state = "WaitingForChoice" /\ player'.dialog = player.dialog
      /\ player'.label = player.label /\ player'.choices = player.choices
      /\ player'.stale = player.stale /\ player'.limit = player.limit
      /\ player'.actor = player.actor
  BY DEF TypeOK, Player
<1>2. Offered' = Offered
  BY <1>1, SameOffered
<1>3. player.state \in {"Start", "Running"} /\ call.stepping /\ call'.stepping
  BY DEF Stepping
<1>4. \A d : Labels(d)' = Labels(d)
  BY SameStatements
<1>5. OfferOK'
  <2>1. ~Idle'
    BY <1>3 DEF OfferOK, Idle
  <2>2. \A c \in Offered' :
          /\ c[1] = player'.dialog /\ c[2] = player'.label
          /\ c[3] \in DOMAIN Labels(c[1])'[c[2]].body
    BY <1>1, <1>2, <1>3, <1>4, Zenon DEF OfferOK
  <2> QED
    BY <1>1, <1>2, <1>3, <2>1, <2>2 DEF OfferOK
<1>6. ASSUME NEW c \in Offered
      PROVE  /\ Trusted(player.dialog) => ~ChosenBefore(c)' /\ Mark(c)' \notin seen
             /\ OnceShown(c)' => StateOf(c)' \in states'
  <2>1. StatementAt(c)' = StatementAt(c)
    BY SameStatements
  <2>2. player.stale = FALSE
    BY <1>3 DEF OnceOK, TypeOK, Player
  <2>3. /\ Trusted(player.dialog) => ~ChosenBefore(c) /\ Mark(c) \notin seen
        /\ OnceShown(c) => StateOf(c) \in states
    BY <1>3, <1>6, <2>2 DEF OnceOK
  <2>4. ChosenBefore(c)' = ChosenBefore(c)
    BY <1>1, <2>1 DEF ChosenBefore
  <2>5. Mark(c)' = Mark(c) /\ StateOf(c)' = StateOf(c) /\ OnceShown(c)' = OnceShown(c)
    BY <1>1, <2>1 DEF Mark, StateOf, OnceShown
  <2> QED
    BY <2>3, <2>4, <2>5
<1>7. OnceOK'
  BY <1>1, <1>2, <1>6 DEF OnceOK
<1> QED
  BY <1>2, <1>5, <1>6, <1>7

-----------------------------------------------------------------------------
(* The records that a load reads                                           *)

(* There is a shortest name: the dialog's own is one that it begins with.  *)
LEMMA NameIsRead ==
  ASSUME NEW d \in Dialogs
  PROVE  NameRead(d) \in Dialogs
<1> DEFINE begins == {e \in Dialogs : e.letters = d.letters /\ IsPrefix(e.tail, d.tail)}
           lengths == {Len(e.tail) : e \in begins}
<1>1. \A e \in Dialogs : e.tail \in Seq(Nat) /\ Len(e.tail) \in Nat
  <2>1. Dialogs \subseteq DialogNames
    BY DialogAssumption
  <2>2. \A e \in DialogNames : e.tail \in Seq(Nat)
    BY DEF DialogNames
  <2>3. \A cs \in Seq(Nat) : Len(cs) \in Nat
    OBVIOUS
  <2> QED
    BY <2>1, <2>2, <2>3
<1>2. d \in begins
  <2>1. IsPrefix(d.tail, d.tail)
    BY <1>1 DEF IsPrefix
  <2> QED
    BY <2>1
<1>3. begins \subseteq Dialogs
  OBVIOUS
<1>4. NameRead(d) = CHOOSE e \in begins : \A f \in begins : Len(e.tail) <= Len(f.tail)
  BY DEF NameRead
<1> HIDE DEF begins
<1>5. lengths \in SUBSET Nat /\ lengths # {}
  BY <1>1, <1>2, <1>3
<1>6. PICK n \in lengths : \A k \in lengths : n <= k
  <2> HIDE DEF lengths
  <2> QED
    BY <1>5, Least
<1>7. PICK e \in begins : n = Len(e.tail)
  OBVIOUS
<1>8. \A f \in begins : Len(e.tail) <= Len(f.tail)
  BY <1>6, <1>7
<1> QED
  BY <1>3, <1>4, <1>7, <1>8, Zenon

(* The digits that characters begin with spell a number, no digits none.   *)
LEMMA NumberIsRead ==
  ASSUME NEW cs \in Seq(Nat)
  PROVE  NumberOf(cs) \in Nat /\ (cs = <<>> => NumberOf(cs) = 0)
<1> DEFINE With(i, n) == IF \A j \in 1..i : cs[j] \in Digit THEN 10 * n + cs[i] ELSE n
           Upto(N, f) == f = [i \in 0..N |-> IF i = 0 THEN 0 ELSE With(i, f[i - 1])]
           L == Len(cs)
           v == CHOOSE h : Upto(L, h)
           Good == {N \in Nat : \E f : Upto(N, f)}
           Read == {i \in Nat : i <= L => v[i] \in Nat}
<1>1. L \in Nat
  OBVIOUS
<1>2. \A i \in 1..L, n \in Nat : With(i, n) \in Nat
  <2>1. \A i \in 1..L : cs[i] \in Nat
    OBVIOUS
  <2> HIDE DEF L
  <2> QED
    BY <2>1
<1>3. NumberOf(cs) = v[L]
  BY DEF NumberOf
<1> HIDE DEF With, L
<1>4. 0 \in Good
  <2> DEFINE f == [i \in 0..0 |-> 0]
  <2>1. Upto(0, f)
    OBVIOUS
  <2> HIDE DEF f, Upto
  <2> QED
    BY <2>1
<1>5. ASSUME NEW N \in Good PROVE N + 1 \in Good
  <2>1. PICK f : Upto(N, f)
    OBVIOUS
  <2>2. N \in Nat
    OBVIOUS
  <2> DEFINE g == [i \in 0..(N + 1) |-> IF i <= N THEN f[i] ELSE With(N + 1, f[N])]
  <2>3. ASSUME NEW i \in 0..(N + 1)
        PROVE  g[i] = IF i = 0 THEN 0 ELSE With(i, g[i - 1])
    <3>1. CASE i = 0
      BY <2>1, <2>2, <3>1
    <3>2. CASE i \in 1..N
      <4>1. f[i] = With(i, f[i - 1])
        BY <2>1, <2>2, <3>2
      <4>2. g[i] = f[i] /\ g[i - 1] = f[i - 1]
        BY <2>2, <3>2
      <4> QED
        BY <3>2, <4>1, <4>2
    <3>3. CASE i = N + 1
      <4>1. g[i] = With(i, f[N]) /\ g[i - 1] = f[N] /\ i # 0
        BY <2>2, <3>3
      <4> QED
        BY <4>1
    <3> QED
      BY <2>2, <3>1, <3>2, <3>3
  <2>4. Upto(N + 1, g)
    <3>1. g = [i \in 0..(N + 1) |-> g[i]]
      OBVIOUS
    <3> HIDE DEF g
    <3> QED
      BY <2>3, <3>1, Zenon
  <2> HIDE DEF g, Upto
  <2> QED
    BY <2>2, <2>4
<1>6. Upto(L, v)
  <2>1. Good = Nat
    <3> HIDE DEF Good
    <3>1. Good \in SUBSET Nat
      BY DEF Good
    <3> QED
      BY <1>4, <1>5, <3>1, Induct
  <2>2. \E h : Upto(L, h)
    <3> HIDE DEF Upto
    <3> QED
      BY <1>1, <2>1
  <2> QED
    BY <2>2, Zenon
<1> HIDE DEF v
<1>7. v[0] = 0 /\ \A i \in 1..L : v[i] = With(i, v[i - 1])
  BY <1>1, <1>6
<1>8. 0 \in Read
  BY <1>7
<1>9. ASSUME NEW i \in Read PROVE i + 1 \in Read
  <2> SUFFICES ASSUME i + 1 <= L PROVE v[i + 1] \in Nat
    OBVIOUS
  <2>1. i \in Nat /\ i + 1 \in 1..L /\ v[i] \in Nat
    BY <1>1
  <2>2. v[i + 1] = With(i + 1, v[i])
    BY <1>7, <2>1
  <2>3. With(i + 1, v[i]) \in Nat
    BY <1>2, <2>1, Zenon
  <2> QED
    BY <2>2, <2>3
<1>10. v[L] \in Nat
  <2>1. Read = Nat
    <3> HIDE DEF Read
    <3>1. Read \in SUBSET Nat
      BY DEF Read
    <3> QED
      BY <1>8, <1>9, <3>1, Induct
  <2> QED
    BY <1>1, <2>1
<1> QED
  BY <1>3, <1>7, <1>10 DEF L

(* A record is read as one of a dialog; under its own name, as it was.     *)
LEMMA RecordIsRead ==
  ASSUME NEW r \in Conditions \X Who \X Dialogs \X Nat
  PROVE  /\ ParseState(r) \in Conditions \X Who \X Dialogs \X Nat
         /\ ParseState(r)[3] = NameRead(r[3])
         /\ NameRead(r[3]) = r[3] => ParseState(r) = r
<1> DEFINE e == NameRead(r[3])
           left == SubSeq(r[3].tail, Len(e.tail) + 1, Len(r[3].tail))
<1>1. /\ r = <<r[1], r[2], r[3], r[4]>> /\ r[1] \in Conditions /\ r[2] \in Who
      /\ r[3] \in Dialogs /\ r[4] \in Nat
  OBVIOUS
<1>2. e \in Dialogs
  BY <1>1, NameIsRead
<1>3. \A d \in Dialogs : d.tail \in Seq(Nat) /\ Len(d.tail) \in Nat
  <2>1. Dialogs \subseteq DialogNames
    BY DialogAssumption
  <2>2. \A d \in DialogNames : d.tail \in Seq(Nat)
    BY DEF DialogNames
  <2>3. \A cs \in Seq(Nat) : Len(cs) \in Nat
    OBVIOUS
  <2> QED
    BY <2>1, <2>2, <2>3
<1> HIDE DEF e
<1>4. left \in Seq(Nat) /\ (e = r[3] => left = <<>>)
  <2> DEFINE t == r[3].tail
             n == Len(e.tail)
  <2>1. t \in Seq(Nat) /\ n \in Nat /\ Len(t) \in Nat
    BY <1>1, <1>2, <1>3
  <2>2. e = r[3] => n = Len(t)
    OBVIOUS
  <2> HIDE DEF t, n
  <2>3. \A i \in (n + 1)..Len(t) : t[i] \in Nat
    BY <2>1
  <2>4. SubSeq(t, n + 1, Len(t)) \in Seq(Nat)
    BY <2>1, <2>3
  <2>5. n = Len(t) => SubSeq(t, n + 1, Len(t)) = <<>>
    BY <2>1
  <2> QED
    BY <2>2, <2>4, <2>5 DEF t, n
<1>5. ParseState(r) = IF \A i \in DOMAIN left : left[i] \in Digit
                      THEN <<r[1], r[2], e, Followed(left, r[4])>>
                      ELSE <<r[1], Nobody, e, NumberOf(left)>>
  BY DEF ParseState, e
<1> HIDE DEF left
<1>6. NumberOf(left) \in Nat /\ (left = <<>> => NumberOf(left) = 0)
  BY <1>4, NumberIsRead
<1>7. Followed(left, r[4]) \in Nat /\ (left = <<>> => Followed(left, r[4]) = r[4])
  <2> DEFINE n == r[4]
             k == NumberOf(left)
             p == CASE n < 10 -> 10 [] n \in 10..99 -> 100 [] n \in 100..999 -> 1000
                    [] OTHER -> 10000
  <2>1. n \in Nat /\ k \in Nat
    BY <1>1, <1>6
  <2>2. Followed(left, n) = n + k * p
    BY DEF Followed
  <2>3. p \in Nat
    BY <2>1
  <2> HIDE DEF n, k, p
  <2>4. n + k * p \in Nat /\ (k = 0 => n + k * p = n)
    BY <2>1, <2>3
  <2> QED
    BY <1>6, <2>2, <2>4 DEF n, k
<1>8. Nobody \in Who
  BY DEF Who
<1>9. left = <<>> => \A i \in DOMAIN left : left[i] \in Digit
  OBVIOUS
<1> QED
  BY <1>1, <1>2, <1>4, <1>5, <1>6, <1>7, <1>8, <1>9 DEF e

-----------------------------------------------------------------------------
(* The records and the history                                             *)

SavedHistory == SameHistory(saveFile.states, saveFile.chosen, saveFile.seen)

GameHistory == SameHistory(states, chosen, seen)

LEMMA StatementsStay ==
  ASSUME text' = text
  PROVE  /\ \A d : Labels(d)' = Labels(d)
         /\ \A m : OfStatement(m)' <=> OfStatement(m)
         /\ \A m : RecordOf(m)' = RecordOf(m)
<1>1. \A d : Labels(d)' = Labels(d)
  BY DEF Labels
<1>2. \A c : StatementAt(c)' = StatementAt(c)
  BY <1>1 DEF StatementAt
<1> QED
  BY <1>1, <1>2 DEF OfStatement, RecordOf

LEMMA SavedHistoryStays ==
  ASSUME SavedHistory, UNCHANGED <<text, saveFile, misread>> PROVE SavedHistory'
<1>1. \A m \in saveFile.chosen \cup saveFile.seen :
        OfStatement(m)' /\ (Trusted(m[3][1])' => RecordOf(m)' \in saveFile.states)
  BY StatementsStay, TrustStays, Zenon DEF SavedHistory, SameHistory
<1>2. \A d \in Dialogs : \A l \in DOMAIN Labels(d)' : \A i \in DOMAIN Labels(d)'[l].body :
       \A r \in saveFile.states :
         /\ Trusted(d)'
         /\ r[1] \in {"once", "onceever"} /\ r[1] = Labels(d)'[l].body[i].cond
         /\ r[3] = d /\ r[4] = Labels(d)'[l].body[i].line
         => <<r[1], r[2], <<d, l, i>>>> \in saveFile.chosen
  BY StatementsStay, TrustStays, Zenon DEF SavedHistory, SameHistory
<1> QED
  BY <1>1, <1>2, Zenon DEF SavedHistory, SameHistory

LEMMA GameHistoryStays ==
  ASSUME GameHistory, UNCHANGED <<text, states, misread, chosen, seen>> PROVE GameHistory'
<1>1. \A m \in chosen \cup seen :
        OfStatement(m)' /\ (Trusted(m[3][1])' => RecordOf(m)' \in states)
  BY StatementsStay, TrustStays, Zenon DEF GameHistory, SameHistory
<1>2. \A d \in Dialogs : \A l \in DOMAIN Labels(d)' : \A i \in DOMAIN Labels(d)'[l].body :
       \A r \in states :
         /\ Trusted(d)'
         /\ r[1] \in {"once", "onceever"} /\ r[1] = Labels(d)'[l].body[i].cond
         /\ r[3] = d /\ r[4] = Labels(d)'[l].body[i].line
         => <<r[1], r[2], <<d, l, i>>>> \in chosen
  BY StatementsStay, TrustStays, Zenon DEF GameHistory, SameHistory
<1> QED
  BY <1>1, <1>2, Zenon DEF GameHistory, SameHistory

(* What is shown once is recorded and does not touch what is chosen once.  *)
LEMMA GameHistoryShown ==
  ASSUME GameHistory, TypeOK, OfferOK, Stepping, ~AtEnd,
         states' = states \cup Shown(Here), UNCHANGED <<text, misread, chosen, seen>>
  PROVE  GameHistory'
<1>1. \A m \in chosen \cup seen :
        OfStatement(m)' /\ (Trusted(m[3][1])' => RecordOf(m)' \in states')
  BY StatementsStay, TrustStays DEF GameHistory, SameHistory
<1>2. \A r \in states' : r[1] \in {"once", "onceever"} => r \in states
  BY ShownTyped
<1>3. ASSUME NEW d \in Dialogs, NEW l \in DOMAIN Labels(d)', NEW i \in DOMAIN Labels(d)'[l].body,
             NEW r \in states', Trusted(d)',
             r[1] \in {"once", "onceever"}, r[1] = Labels(d)'[l].body[i].cond,
             r[3] = d, r[4] = Labels(d)'[l].body[i].line
      PROVE  <<r[1], r[2], <<d, l, i>>>> \in chosen
  <2>1. Labels(d)' = Labels(d) /\ Trusted(d)
    BY <1>3, StatementsStay, TrustStays
  <2>2. r \in states
    BY <1>2, <1>3
  <2> QED
    BY <1>3, <2>1, <2>2, Zenon DEF GameHistory, SameHistory
<1> QED
  BY <1>1, <1>3 DEF GameHistory, SameHistory

(* A dialog that starts forgets what holds for one dialog only.            *)
LEMMA HistoryReset ==
  ASSUME GameHistory, TypeOK
  PROVE  SameHistory(ResetState, chosen, {s \in seen : s[1] # "temponce"})
<1>1. ASSUME NEW m \in chosen \cup {s \in seen : s[1] # "temponce"}
      PROVE  OfStatement(m) /\ (Trusted(m[3][1]) => RecordOf(m) \in ResetState)
  <2>1. OfStatement(m) /\ (Trusted(m[3][1]) => RecordOf(m) \in states)
    BY <1>1 DEF GameHistory, SameHistory
  <2>2. m[1] # "temponce"
    BY <1>1, GameIsTyped DEF GameTyped
  <2>3. RecordOf(m)[1] = m[1]
    BY DEF RecordOf
  <2> QED
    BY <2>1, <2>2, <2>3 DEF ResetState
<1>2. ResetState \subseteq states
  BY DEF ResetState
<1> QED
  BY <1>1, <1>2, Zenon DEF GameHistory, SameHistory

LEMMA BeginHistory ==
  ASSUME HistoryOK, TypeOK, states' = ResetState, seen' = {s \in seen : s[1] # "temponce"},
         UNCHANGED <<text, chosen, saveFile, misread>>
  PROVE  HistoryOK'
<1>1. SameHistory(ResetState, chosen, {s \in seen : s[1] # "temponce"})
  BY HistoryReset DEF HistoryOK, GameHistory
<1> DEFINE st == ResetState
           sn == {s \in seen : s[1] # "temponce"}
<1> HIDE DEF st, sn
<1>2. GameHistory'
  <2>1. SameHistory(st, chosen, sn) /\ states' = st /\ seen' = sn
    BY <1>1 DEF st, sn
  <2> QED
    BY <2>1, StatementsStay, TrustStays, Zenon DEF GameHistory, SameHistory
<1>3. SavedHistory'
  BY SavedHistoryStays DEF HistoryOK, SavedHistory
<1> QED
  BY <1>2, <1>3 DEF HistoryOK, GameHistory, SavedHistory

LEMMA SaveHistory ==
  ASSUME HistoryOK, TypeOK, SaveDialogs
  PROVE  HistoryOK'
<1>1. SameHistory(ResetState, chosen, {s \in seen : s[1] # "temponce"})
  BY HistoryReset DEF HistoryOK, GameHistory
<1> DEFINE st == ResetState
           sn == {s \in seen : s[1] # "temponce"}
<1>2. saveFile'.states = st /\ saveFile'.chosen = chosen /\ saveFile'.seen = sn
  BY DEF SaveDialogs
<1> HIDE DEF st, sn
<1>3. SavedHistory'
  <2>1. SameHistory(st, chosen, sn)
    BY <1>1 DEF st, sn
  <2>2. UNCHANGED <<text, misread>>
    BY DEF SaveDialogs
  <2> QED
    BY <1>2, <2>1, <2>2, StatementsStay, TrustStays, Zenon DEF SavedHistory, SameHistory
<1>4. GameHistory'
  BY GameHistoryStays DEF HistoryOK, GameHistory, SaveDialogs
<1> QED
  BY <1>3, <1>4 DEF HistoryOK, GameHistory, SavedHistory

(* What is loaded of a dialog that is trusted after it is what was saved.  *)
LEMMA LoadedAsSaved ==
  ASSUME TypeOK, LoadDialog, NEW q \in saveFile.states,
         Trusted(q[3])' \/ Trusted(NameRead(q[3]))'
  PROVE  ParseState(q) = q
<1> DEFINE d == q[3]
<1>1. q \in Conditions \X Who \X Dialogs \X Nat
  BY GameIsTyped DEF GameTyped
<1>2. d \in Dialogs
  BY <1>1
<1> HIDE DEF d
<1>3. misread' = (misread \/ \E r \in saveFile.states : NameRead(r[3]) # r[3])
  BY DEF LoadDialog
<1>4. NameRead(d) = d
  <2>1. CASE ~misread'
    BY <1>3, <2>1 DEF d
  <2>2. CASE misread'
    <3>1. ToldApart(d) \/ ToldApart(NameRead(d))
      BY <2>2 DEF Trusted, d
    <3> QED
      BY <1>2, <3>1 DEF ToldApart
  <2> QED
    BY <2>1, <2>2
<1> QED
  BY <1>1, <1>4, RecordIsRead DEF d

LEMMA LoadHistory ==
  ASSUME HistoryOK, TypeOK, LoadDialog
  PROVE  HistoryOK'
<1> DEFINE st == saveFile.states
           ch == saveFile.chosen
           sn == saveFile.seen
           read == {ParseState(r) : r \in st}
<1>1. /\ states' = read /\ chosen' = ch /\ seen' = sn /\ UNCHANGED <<text, saveFile>>
      /\ SameHistory(st, ch, sn) /\ GameTyped(st, ch, sn)
  BY GameIsTyped DEF HistoryOK, LoadDialog
<1>2. \A d : Trusted(d)' => Trusted(d)
  BY DEF LoadDialog, Trusted
<1>3. SavedHistory'
  BY <1>1, <1>2, StatementsStay, Zenon DEF SavedHistory, SameHistory
<1>4. ASSUME NEW q \in st PROVE ParseState(q)[3] = NameRead(q[3])
  BY <1>1, RecordIsRead DEF GameTyped
<1> HIDE DEF st, ch, sn
<1>5. ASSUME NEW m \in ch \cup sn
      PROVE  OfStatement(m) /\ (Trusted(m[3][1])' => RecordOf(m) \in read)
  <2>1. OfStatement(m) /\ (Trusted(m[3][1]) => RecordOf(m) \in st)
    BY <1>1, <1>5 DEF SameHistory
  <2>2. ASSUME Trusted(m[3][1])' PROVE RecordOf(m) \in read
    <3>1. PICK q \in st : q = RecordOf(m) /\ q[3] = m[3][1]
      BY <1>2, <2>1, <2>2 DEF RecordOf
    <3>2. Trusted(q[3])'
      BY <2>2, <3>1
    <3>3. q \in saveFile.states
      BY <3>1 DEF st
    <3>4. ParseState(q) = q
      BY <3>2, <3>3, LoadedAsSaved
    <3> QED
      BY <3>1, <3>4
  <2> QED
    BY <2>1, <2>2
<1>6. ASSUME NEW d \in Dialogs, NEW l \in DOMAIN Labels(d), NEW i \in DOMAIN Labels(d)[l].body,
             NEW r \in read, Trusted(d)',
             r[1] \in {"once", "onceever"}, r[1] = Labels(d)[l].body[i].cond,
             r[3] = d, r[4] = Labels(d)[l].body[i].line
      PROVE  <<r[1], r[2], <<d, l, i>>>> \in ch
  <2>1. PICK q \in st : r = ParseState(q)
    OBVIOUS
  <2>2. NameRead(q[3]) = d
    BY <1>4, <1>6, <2>1
  <2>3. Trusted(NameRead(q[3]))'
    BY <1>6, <2>2
  <2>4. r = q
    BY <2>1, <2>3, LoadedAsSaved DEF st
  <2>5. r \in st /\ Trusted(d)
    BY <1>2, <1>6, <2>4
  <2> HIDE DEF read
  <2> QED
    BY <1>1, <1>6, <2>5, Zenon DEF SameHistory
<1> HIDE DEF read
<1>7. GameHistory'
  <2>1. \A m \in ch \cup sn :
          OfStatement(m)' /\ (Trusted(m[3][1])' => RecordOf(m)' \in read)
    BY <1>1, <1>5, StatementsStay, Zenon
  <2>2. \A d \in Dialogs : \A l \in DOMAIN Labels(d)' : \A i \in DOMAIN Labels(d)'[l].body :
         \A r \in read :
           /\ Trusted(d)'
           /\ r[1] \in {"once", "onceever"} /\ r[1] = Labels(d)'[l].body[i].cond
           /\ r[3] = d /\ r[4] = Labels(d)'[l].body[i].line
           => <<r[1], r[2], <<d, l, i>>>> \in ch
    BY <1>1, <1>6, StatementsStay, Zenon
  <2> QED
    BY <1>1, <2>1, <2>2, Zenon DEF GameHistory, SameHistory
<1> QED
  BY <1>3, <1>7 DEF HistoryOK, GameHistory, SavedHistory

(* A choice on offer is a statement of the dialog.                         *)
LEMMA OfferedStatement ==
  ASSUME TypeOK, OfferOK, player.state = "WaitingForChoice", NEW c \in Offered
  PROVE  /\ c \in Spots /\ c = <<c[1], c[2], c[3]>> /\ c[1] \in Dialogs
         /\ c[2] \in DOMAIN Labels(c[1])
         /\ c[3] \in DOMAIN Labels(c[1])[c[2]].body
         /\ StatementAt(c) = Labels(c[1])[c[2]].body[c[3]] /\ StatementAt(c) \in Statement
<1>1. player \in Player /\ player.label <= Len(Labels(player.dialog)) /\ player.label # 0
  BY DEF TypeOK, OfferOK
<1>2. player.choices \in [1..MaxSlots -> Spots \cup {NoChoice}]
  BY <1>1 DEF Player
<1>3. c \in Spots
  BY <1>2 DEF Offered
<1>4. c = <<c[1], c[2], c[3]>> /\ c[1] \in Dialogs /\ c[2] \in Nat /\ c[3] \in Nat
  BY <1>3 DEF Spots
<1>5. c[1] = player.dialog /\ c[2] = player.label /\ c[3] \in DOMAIN Labels(c[1])[c[2]].body
  BY DEF OfferOK
<1>6. Labels(c[1]) \in Seq(Label)
  BY <1>4 DEF TypeOK, Labels
<1>7. c[2] \in 1..Len(Labels(c[1]))
  BY <1>1, <1>4, <1>5
<1>8. c[2] \in DOMAIN Labels(c[1]) /\ Labels(c[1])[c[2]] \in Label
  BY <1>6, <1>7
<1>9. Labels(c[1])[c[2]].body \in Seq(Statement)
  BY <1>8 DEF Label
<1>10. Labels(c[1])[c[2]].body[c[3]] \in Statement
  BY <1>5, <1>9
<1> QED
  BY <1>3, <1>4, <1>5, <1>8, <1>10 DEF StatementAt

LEMMA LinesAreApart ==
  ASSUME NEW labels, LinesTellApart(labels), NEW l \in DOMAIN labels,
         NEW i \in DOMAIN labels[l].body, labels[l].body[i].cond # "none",
         NEW k \in DOMAIN labels, NEW j \in DOMAIN labels[k].body,
         labels[k].body[j].cond = labels[l].body[i].cond,
         labels[k].body[j].line = labels[l].body[i].line
  PROVE  k = l /\ j = i
BY DEF LinesTellApart

LEMMA ReturnHistory ==
  ASSUME HistoryOK, TypeOK, OfferOK, OnceOK, Return
  PROVE  HistoryOK'
<1>1. SavedHistory'
  BY SavedHistoryStays DEF HistoryOK, SavedHistory, Return
<1>2. CASE player.state = "WaitingForChoice" /\ ~player.stale
  <2> DEFINE shown == {Mark(c) : c \in {o \in Offered : OnceShown(o)}}
  <2>1. seen' = seen \cup shown /\ UNCHANGED <<text, states, misread, chosen>>
    BY <1>2 DEF Return
  <2>2. ASSUME NEW m \in shown PROVE OfStatement(m) /\ RecordOf(m) \in states
    <3>1. PICK c \in Offered : OnceShown(c) /\ m = Mark(c)
      BY <2>2
    <3>2. m[1] = StatementAt(c).cond /\ m[2] = player.actor /\ m[3] = c
      BY <3>1 DEF Mark
    <3>3. StateOf(c) \in states
      BY <1>2, <3>1 DEF OnceOK
    <3>4. RecordOf(m) = StateOf(c)
      BY <3>2 DEF RecordOf, StateOf
    <3> QED
      BY <1>2, <3>2, <3>3, <3>4, OfferedStatement DEF OfStatement
  <2> HIDE DEF shown
  <2>3. SameHistory(states, chosen, seen \cup shown)
    BY <2>2, Zenon DEF HistoryOK, SameHistory
  <2>4. GameHistory'
    BY <2>1, <2>3, StatementsStay, TrustStays, Zenon DEF GameHistory, SameHistory
  <2> QED
    BY <1>1, <2>4 DEF HistoryOK, GameHistory, SavedHistory
<1>3. CASE ~(player.state = "WaitingForChoice" /\ ~player.stale)
  <2>1. UNCHANGED <<text, states, misread, chosen, seen>>
    BY <1>3 DEF Return
  <2>2. GameHistory'
    BY <2>1, GameHistoryStays DEF HistoryOK, GameHistory
  <2> QED
    BY <1>1, <2>2 DEF HistoryOK, GameHistory, SavedHistory
<1> QED
  BY <1>2, <1>3

(* The choice made is recorded by its line, which is of no other statement *)
(* under its condition.                                                    *)
LEMMA ChooseHistory ==
  ASSUME HistoryOK, TypeOK, FilesOK, OfferOK, NEW n \in 1..MaxSlots, Choose(n)
  PROVE  HistoryOK'
<1> DEFINE c == player.choices[n]
<1>1. player.state = "WaitingForChoice" /\ c \in Offered
  BY DEF Choose, Offered
<1>2. /\ states' = states \cup Chosen(c)
      /\ chosen' = IF OnceChosen(c) THEN chosen \cup {Mark(c)} ELSE chosen
      /\ UNCHANGED <<text, seen, saveFile, misread>>
  BY DEF Choose
<1> HIDE DEF c
<1>3. SavedHistory'
  BY <1>2, SavedHistoryStays DEF HistoryOK, SavedHistory
<1>4. CASE OnceChosen(c)
  <2> DEFINE r0 == StateOf(c)
             m0 == Mark(c)
             st == states \cup {r0}
             ch == chosen \cup {m0}
  <2>1. states' = st /\ chosen' = ch
    BY <1>2, <1>4 DEF Chosen
  <2>2. /\ m0[1] = StatementAt(c).cond /\ m0[2] = player.actor /\ m0[3] = c
        /\ r0[1] = StatementAt(c).cond /\ r0[2] = player.actor /\ r0[3] = c[1]
        /\ r0[4] = StatementAt(c).line
        /\ m0 = <<r0[1], r0[2], c>> /\ RecordOf(m0) = r0
    BY DEF Mark, StateOf, RecordOf
  <2>3. /\ c = <<c[1], c[2], c[3]>> /\ c[1] \in Dialogs
        /\ c[2] \in DOMAIN Labels(c[1])
        /\ c[3] \in DOMAIN Labels(c[1])[c[2]].body
        /\ StatementAt(c) = Labels(c[1])[c[2]].body[c[3]]
    BY <1>1, OfferedStatement
  <2>4. OfStatement(m0)
    BY <2>2, <2>3 DEF OfStatement
  <2>5. ASSUME NEW l \in DOMAIN Labels(c[1]), NEW i \in DOMAIN Labels(c[1])[l].body,
               r0[1] = Labels(c[1])[l].body[i].cond, r0[4] = Labels(c[1])[l].body[i].line
        PROVE  <<c[1], l, i>> = c
    <3>1. LinesTellApart(Labels(c[1]))
      BY <2>3 DEF FilesOK
    <3>2. StatementAt(c).cond # "none"
      BY <1>4 DEF OnceChosen
    <3>3. l = c[2] /\ i = c[3]
      <4>1. /\ Labels(c[1])[l].body[i].cond = Labels(c[1])[c[2]].body[c[3]].cond
            /\ Labels(c[1])[l].body[i].line = Labels(c[1])[c[2]].body[c[3]].line
            /\ Labels(c[1])[c[2]].body[c[3]].cond # "none"
        BY <2>2, <2>3, <2>5, <3>2, Zenon
      <4> DEFINE labels == Labels(c[1])
                 k == c[2]
                 j == c[3]
      <4>2. /\ LinesTellApart(labels) /\ k \in DOMAIN labels /\ j \in DOMAIN labels[k].body
            /\ l \in DOMAIN labels /\ i \in DOMAIN labels[l].body
            /\ labels[k].body[j].cond # "none"
            /\ labels[l].body[i].cond = labels[k].body[j].cond
            /\ labels[l].body[i].line = labels[k].body[j].line
        BY <2>3, <3>1, <4>1
      <4> HIDE DEF labels, k, j
      <4>3. l = k /\ i = j
        BY <4>2, LinesAreApart, Zenon
      <4> QED
        BY <4>3 DEF k, j
    <3> QED
      BY <2>3, <3>3
  <2> HIDE DEF r0, m0
  <2>6. \A m \in ch \cup seen : OfStatement(m) /\ (Trusted(m[3][1]) => RecordOf(m) \in st)
    BY <2>2, <2>4 DEF HistoryOK, SameHistory
  <2>7. ASSUME NEW d \in Dialogs, NEW l \in DOMAIN Labels(d),
               NEW i \in DOMAIN Labels(d)[l].body, NEW r \in st, Trusted(d),
               r[1] \in {"once", "onceever"}, r[1] = Labels(d)[l].body[i].cond,
               r[3] = d, r[4] = Labels(d)[l].body[i].line
        PROVE  <<r[1], r[2], <<d, l, i>>>> \in ch
    <3>1. CASE r \in states
      BY <2>7, <3>1, Zenon DEF HistoryOK, SameHistory
    <3>2. CASE r = r0
      <4>1. d = c[1]
        BY <2>2, <2>7, <3>2
      <4>2. <<d, l, i>> = c
        BY <2>5, <2>7, <3>2, <4>1
      <4> QED
        BY <2>2, <3>2, <4>2
    <3> QED
      BY <3>1, <3>2
  <2> HIDE DEF st, ch
  <2>8. SameHistory(st, ch, seen)
    BY <2>6, <2>7, Zenon DEF SameHistory
  <2>9. GameHistory'
    BY <1>2, <2>1, <2>8, StatementsStay, TrustStays, Zenon DEF GameHistory, SameHistory
  <2> QED
    BY <1>3, <2>9 DEF HistoryOK, GameHistory, SavedHistory
<1>5. CASE ~OnceChosen(c)
  <2>1. UNCHANGED <<text, states, misread, chosen, seen>>
    BY <1>2, <1>5 DEF Chosen
  <2>2. GameHistory'
    BY <2>1, GameHistoryStays DEF HistoryOK, GameHistory
  <2> QED
    BY <1>3, <2>2 DEF HistoryOK, GameHistory, SavedHistory
<1> QED
  BY <1>4, <1>5

-----------------------------------------------------------------------------
(* The steps                                                               *)

(* Each action keeps what it does to lines and choices here; the types and *)
(* the history follow from what it leaves alone.                           *)
LEMMA StepTyped ==
  ASSUME TypeOK, PlayerOK', CallOK', line' \in {"over", "said", "unheard"},
         states' \in SUBSET (Conditions \X Who \X Dialogs \X Nat),
         UNCHANGED <<text, mState, slots, saveFile, misread, chosen, seen, nStarts>>
  PROVE  TypeOK'
<1>1. [states |-> states', chosen |-> chosen', seen |-> seen'] \in Game
  BY DEF TypeOK, Game
<1> QED
  BY <1>1 DEF TypeOK, PlayerOK, CallOK, Labels

LEMMA FilesStay ==
  ASSUME FilesOK, UNCHANGED text PROVE FilesOK'
BY DEF FilesOK, Labels

LEMMA SteppingIsOn ==
  ASSUME TypeOK, OfferOK, LineOK, Stepping
  PROVE  /\ call.stepping /\ call.by # "none" /\ line # "said"
         /\ player.state \in {"Start", "Running"} /\ player.label # 0
         /\ MaxSlots \in Nat /\ PlayerOK /\ CallOK
BY DialogAssumption DEF Stepping, OfferOK, LineOK, Idle, TypeOK, PlayerOK, CallOK

LEMMA HistoryStays ==
  ASSUME HistoryOK, UNCHANGED <<text, states, saveFile, misread, chosen, seen>> PROVE HistoryOK'
BY SavedHistoryStays, GameHistoryStays DEF HistoryOK, SavedHistory, GameHistory

LEMMA HistoryShown ==
  ASSUME HistoryOK, TypeOK, OfferOK, Stepping, ~AtEnd,
         states' = states \cup Shown(Here), UNCHANGED <<text, saveFile, misread, chosen, seen>>
  PROVE  /\ HistoryOK' /\ states \subseteq states'
         /\ states' \in SUBSET (Conditions \X Who \X Dialogs \X Nat)
<1>1. HistoryOK'
  BY SavedHistoryStays, GameHistoryShown DEF HistoryOK, SavedHistory, GameHistory
<1>2. states \in SUBSET (Conditions \X Who \X Dialogs \X Nat)
  BY DEF TypeOK, Game
<1>3. Shown(Here) \in SUBSET (Conditions \X Who \X Dialogs \X Nat)
  BY ShownTyped DEF Conditions
<1> QED
  BY <1>1, <1>2, <1>3

(* Advancing within the label.                                             *)
LEMMA AdvancedKeeps ==
  ASSUME DialogInv, Stepping, ~AtEnd, player' = Advance,
         states' = states \/ states' = states \cup Shown(Here),
         line' = line \/ line' = "over",
         UNCHANGED <<text, call, mState, slots, saveFile, misread, nStarts, chosen, seen>>
  PROVE  DialogInv'
<1> USE DEF DialogInv
<1>1. /\ call.stepping /\ call.by # "none" /\ line # "said" /\ MaxSlots \in Nat
      /\ PlayerOK /\ CallOK
  BY SteppingIsOn
<1>2. /\ player' \in Player /\ player'.state = "Running"
      /\ player'.dialog = player.dialog /\ player'.label = player.label
      /\ player'.actor = player.actor /\ player'.choices = player.choices
      /\ player'.limit = player.limit /\ player'.stale = player.stale
  BY <1>1, Advanced DEF PlayerOK
<1>3. PlayerOK'
  BY <1>1, <1>2 DEF PlayerOK, Labels
<1>4. /\ HistoryOK' /\ states \subseteq states'
      /\ states' \in SUBSET (Conditions \X Who \X Dialogs \X Nat)
  <2>1. CASE states' = states
    BY <2>1, HistoryStays DEF TypeOK, Game
  <2>2. CASE states' = states \cup Shown(Here)
    BY <2>2, HistoryShown
  <2> QED
    BY <2>1, <2>2
<1>5. TypeOK'
  <2>1. CallOK' /\ line' \in {"over", "said", "unheard"}
    BY <1>1 DEF CallOK, TypeOK
  <2> QED
    BY <1>3, <1>4, <2>1, StepTyped
<1>6. OfferOK' /\ OnceOK'
  <2>1. player'.limit \in Nat
    BY <1>2 DEF Player
  <2> QED
    BY <1>1, <1>2, <1>4, <2>1, StillCollecting
<1>7. LineOK'
  BY <1>1 DEF LineOK
<1> QED
  BY <1>4, <1>5, <1>6, <1>7, FilesStay

(* Going to a label, within a call.                                        *)
LEMMA SelectedKeeps ==
  ASSUME DialogInv, NEW p \in Player, NEW name, player' = SelectLabel(p, name),
         CallOK', call'.stepping, call'.by # "none", line # "said",
         UNCHANGED <<text, states, line, mState, slots, saveFile, misread, nStarts, chosen, seen>>
  PROVE  DialogInv'
<1> USE DEF DialogInv
<1>1. MaxSlots \in Nat /\ text \in [Dialogs -> Seq(Label)]
  BY DialogAssumption DEF TypeOK
<1>2. /\ player' \in Player /\ player'.label <= Len(Labels(player'.dialog))
      /\ player'.choices = NoChoices /\ player'.stale = FALSE
      /\ player'.state = "None" \/ (player'.state = "Start" /\ player'.label # 0)
  BY <1>1, LabelSelected DEF DialogInv
<1>3. TypeOK'
  <2>1. PlayerOK'
    BY <1>2 DEF PlayerOK, Labels
  <2>2. line' \in {"over", "said", "unheard"}
        /\ states' \in SUBSET (Conditions \X Who \X Dialogs \X Nat)
    BY DEF TypeOK, Game
  <2> QED
    BY <2>1, <2>2, StepTyped
<1>4. OfferOK' /\ OnceOK'
  <2>1. player'.limit \in Nat
    BY <1>2 DEF Player
  <2> QED
    BY <1>2, <2>1, BeginsLabel
<1>5. LineOK'
  BY DEF LineOK
<1> QED
  BY <1>3, <1>4, <1>5, FilesStay, HistoryStays

LEMMA RefuseKeeps ==
  ASSUME DialogInv, RefuseStatement PROVE DialogInv'
BY AdvancedKeeps DEF RefuseStatement

LEMMA RunRefusedKeeps ==
  ASSUME DialogInv, RunRefused PROVE DialogInv'
BY AdvancedKeeps DEF RunRefused

LEMMA CodeKeeps ==
  ASSUME DialogInv, Code PROVE DialogInv'
BY AdvancedKeeps DEF Code, Runs

LEMMA GotoKeeps ==
  ASSUME DialogInv, Goto PROVE DialogInv'
<1>1. Stepping
  BY DEF Goto, Runs
<1>2. call.stepping /\ call.by # "none" /\ line # "said" /\ PlayerOK /\ CallOK
  BY <1>1, SteppingIsOn DEF DialogInv
<1>3. CallOK' /\ call'.stepping /\ call'.by # "none"
  BY <1>2 DEF CallOK, Goto
<1> QED
  BY <1>2, <1>3, SelectedKeeps DEF Goto, Runs, PlayerOK

(* What a statement sets, with no choices on offer.                        *)
LEMMA SetKeeps ==
  ASSUME DialogInv, Set PROVE DialogInv'
<1> USE DEF DialogInv
<1>1. /\ Stepping /\ ~AtEnd /\ Offered = {}
      /\ UNCHANGED <<text, states, mState, slots, saveFile, misread, chosen, seen, call, line, nStarts>>
  BY DEF Set, Runs
<1>2. /\ call.stepping /\ call.by # "none" /\ line # "said" /\ MaxSlots \in Nat
      /\ PlayerOK /\ CallOK
  BY <1>1, SteppingIsOn
<1> DEFINE p == Advance
<1>3. /\ p \in Player /\ p.state = "Running"
      /\ p.dialog = player.dialog /\ p.label = player.label
      /\ p.choices = player.choices /\ p.stale = player.stale
  BY <1>2, Advanced DEF PlayerOK
<1>4. StatementAt(Here).arg \in STRING
  BY <1>1, StatementHere DEF Statement
<1>5. \/ player' = [p EXCEPT !.limit = Number(StatementAt(Here).arg)]
      \/ player' = [p EXCEPT !.parrot = StatementAt(Here).arg \in {"", "yes"}]
      \/ player' = [p EXCEPT !.actor = StatementAt(Here).arg]
      \/ player' = p
  BY DEF Set
<1> HIDE DEF p
<1>6. /\ player' \in Player /\ player'.state = "Running"
      /\ player'.dialog = player.dialog /\ player'.label = player.label
      /\ player'.choices = player.choices /\ player'.stale = player.stale
  <2>1. CASE player' = [p EXCEPT !.limit = Number(StatementAt(Here).arg)]
    BY <1>3, <2>1, NumberIsNat DEF Player
  <2>2. CASE player' = [p EXCEPT !.parrot = StatementAt(Here).arg \in {"", "yes"}]
    <3> DEFINE yes == StatementAt(Here).arg \in {"", "yes"}
    <3>1. yes \in BOOLEAN
      OBVIOUS
    <3> HIDE DEF yes
    <3>2. player' = [p EXCEPT !.parrot = yes]
      BY <2>2 DEF yes
    <3> QED
      BY <1>3, <3>1, <3>2 DEF Player
  <2>3. CASE player' = [p EXCEPT !.actor = StatementAt(Here).arg]
    <3> DEFINE who == StatementAt(Here).arg
    <3>1. who \in Who
      BY <1>4 DEF Who
    <3> HIDE DEF who
    <3>2. player' = [p EXCEPT !.actor = who]
      BY <2>3 DEF who
    <3> QED
      BY <1>3, <3>1, <3>2 DEF Player
  <2>4. CASE player' = p
    BY <1>3, <2>4
  <2> QED
    BY <1>5, <2>1, <2>2, <2>3, <2>4
<1>7. PlayerOK'
  BY <1>1, <1>2, <1>6 DEF PlayerOK, Labels
<1>8. TypeOK'
  <2>1. CallOK' /\ line' \in {"over", "said", "unheard"}
        /\ states' \in SUBSET (Conditions \X Who \X Dialogs \X Nat)
    BY <1>1, <1>2 DEF CallOK, TypeOK, Game
  <2> QED
    BY <1>1, <1>7, <2>1, StepTyped
<1>9. OfferOK' /\ OnceOK'
  <2>1. player'.limit \in Nat
    BY <1>6 DEF Player
  <2>2. states \subseteq states'
    BY <1>1
  <2> QED
    BY <1>1, <1>2, <1>6, <2>1, <2>2, StillCollecting
<1>10. LineOK'
  BY <1>1, <1>2 DEF LineOK
<1> QED
  BY <1>1, <1>8, <1>9, <1>10, FilesStay, HistoryStays

(* A line may be said: from then on it is waited for.                      *)
LEMMA SayKeeps ==
  ASSUME DialogInv, Say PROVE DialogInv' /\ line # "said"
<1> USE DEF DialogInv
<1>1. /\ Stepping /\ ~AtEnd /\ Offered = {}
      /\ UNCHANGED <<text, states, mState, slots, saveFile, misread, chosen, seen, call, nStarts>>
      /\ line' \in {"over", IF call.nested THEN "unheard" ELSE "said"}
  BY DEF Say, Runs
<1>2. /\ call.stepping /\ call.by # "none" /\ line # "said" /\ MaxSlots \in Nat
      /\ PlayerOK /\ CallOK /\ player.label # 0 /\ player.state \in {"Start", "Running"}
  BY <1>1, SteppingIsOn
<1>3. player' = [player EXCEPT !.state = "WaitingEndAnimation", !.waits = TRUE]
  BY DEF Say
<1>4. /\ player' \in Player /\ player'.state = "WaitingEndAnimation" /\ player'.waits
      /\ player'.dialog = player.dialog /\ player'.label = player.label
      /\ player'.choices = player.choices /\ player'.stale = player.stale
  BY <1>2, <1>3 DEF Player, PlayerStates, PlayerOK
<1>5. PlayerOK'
  BY <1>1, <1>2, <1>4 DEF PlayerOK, Labels
<1>6. TypeOK'
  <2>1. CallOK' /\ line' \in {"over", "said", "unheard"}
        /\ states' \in SUBSET (Conditions \X Who \X Dialogs \X Nat)
    BY <1>1, <1>2 DEF CallOK, TypeOK, Game
  <2> QED
    BY <1>1, <1>5, <2>1, StepTyped
<1>7. OfferOK'
  <2>1. Offered' = {}
    BY <1>1, <1>4, SameOffered
  <2> QED
    BY <1>1, <1>2, <1>4, <2>1 DEF OfferOK, Idle
<1>8. LineOK'
  BY <1>1, <1>4 DEF LineOK
<1>9. OnceOK'
  <2>1. ~player.stale
    BY <1>2 DEF OnceOK
  <2> QED
    BY <1>4, <2>1 DEF OnceOK
<1> QED
  BY <1>1, <1>2, <1>6, <1>7, <1>8, <1>9, FilesStay, HistoryStays

(* The player stops at its choices, that all may be made.                  *)
LEMMA StopsKeeps ==
  ASSUME DialogInv, Stepping, Offered # {},
         player' = [player EXCEPT !.state = "WaitingForChoice"],
         states' = states \/ (~AtEnd /\ states' = states \cup Shown(Here)),
         UNCHANGED <<text, call, line, mState, slots, saveFile, misread, nStarts, chosen, seen>>
  PROVE  /\ DialogInv'
         /\ Trusted(player.dialog) =>
              \A c \in Offered' : ~ChosenBefore(c)' /\ Mark(c)' \notin seen
<1> USE DEF DialogInv
<1>1. /\ call.stepping /\ call.by # "none" /\ line # "said" /\ PlayerOK /\ CallOK
  BY SteppingIsOn
<1>2. /\ HistoryOK' /\ states \subseteq states'
      /\ states' \in SUBSET (Conditions \X Who \X Dialogs \X Nat)
  <2>1. CASE states' = states
    BY <2>1, HistoryStays DEF TypeOK, Game
  <2>2. CASE ~AtEnd /\ states' = states \cup Shown(Here)
    BY <2>2, HistoryShown
  <2> QED
    BY <2>1, <2>2
<1>3. /\ OfferOK' /\ OnceOK'
      /\ Trusted(player.dialog) =>
           \A c \in Offered' : ~ChosenBefore(c)' /\ Mark(c)' \notin seen
  BY <1>2, StopsToChoose
<1>4. TypeOK'
  <2>1. PlayerOK'
    BY <1>1 DEF PlayerOK, Player, PlayerStates, Labels
  <2>2. CallOK' /\ line' \in {"over", "said", "unheard"}
    BY <1>1 DEF CallOK, TypeOK
  <2> QED
    BY <1>2, <2>1, <2>2, StepTyped
<1>5. LineOK'
  BY <1>1 DEF LineOK
<1> QED
  BY <1>2, <1>3, <1>4, <1>5, FilesStay

LEMMA EndAtChoices ==
  ASSUME DialogInv, EndOfLabel, Offered # {} PROVE DialogInv'
<1>1. /\ Stepping
      /\ states' = states \/ (~AtEnd /\ states' = states \cup Shown(Here))
      /\ player' = [player EXCEPT !.state = "WaitingForChoice"]
      /\ UNCHANGED <<text, call, line, mState, slots, saveFile, misread, nStarts, chosen, seen>>
  BY DEF EndOfLabel
<1> QED
  BY <1>1, StopsKeeps, Zenon

(* Once the last label is over, the dialog is.                             *)
LEMMA EndKeeps ==
  ASSUME DialogInv, EndOfLabel PROVE DialogInv'
<1> USE DEF DialogInv
<1>1. /\ Stepping /\ AtEnd
      /\ UNCHANGED <<text, states, call, line, mState, slots, saveFile, misread, nStarts, chosen, seen>>
  BY DEF EndOfLabel
<1>2. /\ call.stepping /\ call.by # "none" /\ line # "said" /\ PlayerOK /\ CallOK
      /\ player.state \in {"Start", "Running"}
  BY <1>1, SteppingIsOn
<1>3. CallOK'
  BY <1>1, <1>2 DEF CallOK
<1>4. CASE Offered # {}
  BY <1>4, EndAtChoices
<1>5. CASE Offered = {} /\ player.label < Len(Labels(player.dialog))
  <2> DEFINE name == Labels(player.dialog)[player.label + 1].name
  <2>1. player' = SelectLabel(player, name)
    BY <1>5 DEF EndOfLabel, NextLabel
  <2> HIDE DEF name
  <2> QED
    BY <1>1, <1>2, <1>3, <2>1, SelectedKeeps DEF PlayerOK
<1>6. CASE Offered = {} /\ ~(player.label < Len(Labels(player.dialog)))
  <2>1. player' = [player EXCEPT !.state = "None", !.label = 0]
    BY <1>6 DEF EndOfLabel, NextLabel
  <2>2. /\ player' \in Player /\ player'.state = "None" /\ player'.label = 0
        /\ player'.dialog = player.dialog
        /\ player'.choices = player.choices /\ player'.stale = player.stale
    BY <1>2, <2>1 DEF Player, PlayerStates, PlayerOK
  <2>3. player'.dialog \in Dialogs
    BY <2>2 DEF Player
  <2>4. text'[player'.dialog] \in Seq(Label)
    BY <1>1, <2>3 DEF TypeOK
  <2>5. PlayerOK'
    BY <2>2, <2>4 DEF PlayerOK, Labels
  <2>6. TypeOK'
    <3>1. line' \in {"over", "said", "unheard"}
          /\ states' \in SUBSET (Conditions \X Who \X Dialogs \X Nat)
      BY <1>1 DEF TypeOK, Game
    <3> QED
      BY <1>1, <1>3, <2>5, <3>1, StepTyped
  <2>7. OfferOK' /\ OnceOK'
    <3>1. Offered' = {}
      BY <1>6, <2>2, SameOffered
    <3>2. ~player.stale
      BY <1>2 DEF OnceOK
    <3> QED
      BY <1>1, <1>2, <2>2, <3>1, <3>2 DEF OfferOK, OnceOK, Idle
  <2>8. LineOK'
    BY <1>1, <1>2 DEF LineOK
  <2> QED
    BY <1>1, <2>6, <2>7, <2>8, FilesStay, HistoryStays
<1> QED
  BY <1>4, <1>5, <1>6

LEMMA StopAtChoicesKeeps ==
  ASSUME DialogInv, StopAtChoices PROVE DialogInv'
<1>1. /\ Stepping /\ Offered # {} /\ ~AtEnd /\ states' = states \cup Shown(Here)
      /\ player' = [player EXCEPT !.state = "WaitingForChoice"]
      /\ UNCHANGED <<text, call, line, mState, slots, saveFile, misread, nStarts, chosen, seen>>
  BY DEF StopAtChoices
<1> QED
  BY <1>1, StopsKeeps, Zenon

(* What is let through has not been chosen before, nor shown.              *)
LEMMA LetThrough ==
  ASSUME DialogInv, Stepping, ~AtEnd, MayAccept(Here), Trusted(player.dialog)
  PROVE  ~ChosenBefore(Here) /\ Mark(Here) \notin seen
<1> DEFINE s == Here
           cond == StatementAt(Here).cond
<1>1. \A m \in chosen \cup seen :
        OfStatement(m) /\ (Trusted(m[3][1]) => RecordOf(m) \in states)
  BY DEF DialogInv, HistoryOK, SameHistory
<1>2. \A m \in chosen : m[1] \in {"once", "onceever"}
  BY DEF DialogInv, TypeOK, Game
<1>3. \A m \in seen : m[1] \in {"showonce", "temponce"}
  BY DEF DialogInv, TypeOK, Game
<1>4. ASSUME NEW a, <<cond, a, s>> \in chosen \cup seen
      PROVE  <<cond, a, s[1], StatementAt(s).line>> \in states
  <2> DEFINE m == <<cond, a, s>>
  <2>1. m[1] = cond /\ m[2] = a /\ m[3] = s /\ s[1] = player.dialog
    BY DEF Here
  <2>2. RecordOf(m) \in states
    BY <1>1, <1>4, <2>1
  <2> HIDE DEF m, s, cond
  <2>3. RecordOf(m) = <<cond, a, s[1], StatementAt(s).line>>
    BY <2>1 DEF RecordOf
  <2> QED
    BY <2>2, <2>3
<1>5. ASSUME ChosenBefore(s) PROVE FALSE
  <2>1. PICK a : <<cond, a, s>> \in chosen /\ (cond = "once" => a = player.actor)
    BY <1>5 DEF ChosenBefore
  <2>2. cond \in {"once", "onceever"}
    <3> HIDE DEF s, cond
    <3> QED
      BY <1>2, <2>1
  <2>3. <<cond, a, s[1], StatementAt(s).line>> \in states
    BY <1>4, <2>1
  <2>4. CASE cond = "once"
    BY <2>1, <2>3, <2>4 DEF MayAccept, StateOf
  <2>5. CASE cond = "onceever"
    BY <2>3, <2>5 DEF MayAccept
  <2> QED
    BY <2>2, <2>4, <2>5
<1>6. ASSUME Mark(s) \in seen PROVE FALSE
  <2>1. <<cond, player.actor, s>> \in seen
    BY <1>6 DEF Mark
  <2>2. cond \in {"showonce", "temponce"}
    <3> HIDE DEF s, cond
    <3> QED
      BY <1>3, <2>1
  <2>3. <<cond, player.actor, s[1], StatementAt(s).line>> \in states
    BY <1>4, <2>1
  <2> QED
    BY <2>2, <2>3 DEF MayAccept, StateOf
<1> QED
  BY <1>5, <1>6

(* A choice that takes its place has been let through, and recorded.       *)
LEMMA AddKeeps ==
  ASSUME DialogInv, AddChoice PROVE DialogInv'
<1> USE DEF DialogInv
<1> DEFINE n == Number(StatementAt(Here).arg)
           room == player.choices[n] = NoChoice /\ Cardinality(Offered) < player.limit
<1>1. /\ Stepping /\ ~AtEnd /\ MayAccept(Here) /\ StatementAt(Here).kind = "choice"
      /\ states' = states \cup Shown(Here)
      /\ player' = IF room THEN [Advance EXCEPT !.choices[n] = Here] ELSE Advance
      /\ UNCHANGED <<text, call, line, mState, slots, saveFile, misread, nStarts, chosen, seen>>
  BY DEF AddChoice
<1>2. /\ call.stepping /\ call.by # "none" /\ line # "said" /\ PlayerOK /\ CallOK
      /\ MaxSlots \in Nat /\ player.state \in {"Start", "Running"} /\ player.label # 0
  BY <1>1, SteppingIsOn
<1>3. n \in 1..MaxSlots
  BY <1>1, StatementHere DEF FilesOK, Playable, Spots
<1>4. CASE ~room
  BY <1>1, <1>4, AdvancedKeeps
<1>5. CASE room
  <2> DEFINE p == Advance
  <2>1. /\ p \in Player /\ p.state = "Running"
        /\ p.dialog = player.dialog /\ p.label = player.label /\ p.actor = player.actor
        /\ p.choices = player.choices /\ p.limit = player.limit /\ p.stale = player.stale
    BY <1>2, Advanced DEF PlayerOK
  <2>2. player' = [p EXCEPT !.choices[n] = Here]
    BY <1>1, <1>5
  <2>3. Here \in Spots
    BY <1>1, StatementHere
  <2> DEFINE cs == [player.choices EXCEPT ![n] = Here]
  <2>4. cs \in [1..MaxSlots -> Spots \cup {NoChoice}]
    BY <1>2, <1>3, <2>3 DEF Player, PlayerOK
  <2>5. player' = [p EXCEPT !.choices = cs]
    BY <2>1, <2>2
  <2> HIDE DEF p, cs
  <2>6. /\ player' \in Player /\ player'.state = "Running"
        /\ player'.dialog = player.dialog /\ player'.label = player.label
        /\ player'.actor = player.actor /\ player'.limit = player.limit
        /\ player'.stale = player.stale /\ player'.choices = cs
    BY <2>1, <2>4, <2>5 DEF Player
  <2>7. Offered' = Offered \cup {Here}
    BY <1>2, <1>3, <1>5, <2>6, OneMoreOffered DEF cs, PlayerOK
  <2>8. Cardinality(Offered') <= player.limit
    <3>1. IsFiniteSet(Offered) /\ Cardinality(Offered) \in Nat
      BY <1>2, OfferedIsFinite DEF PlayerOK
    <3>2. Cardinality(Offered \cup {Here})
          = IF Here \in Offered THEN Cardinality(Offered) ELSE Cardinality(Offered) + 1
      BY <3>1, FS_AddElement, Zenon
    <3>3. player.limit \in Nat
      BY <1>2 DEF PlayerOK, Player
    <3> QED
      BY <1>5, <2>7, <3>1, <3>2, <3>3
  <2>9. \A d : Labels(d)' = Labels(d)
    BY <1>1, SameStatements
  <2>10. PlayerOK'
    BY <1>1, <1>2, <2>6 DEF PlayerOK, Labels
  <2>11. /\ HistoryOK' /\ states \subseteq states'
         /\ states' \in SUBSET (Conditions \X Who \X Dialogs \X Nat)
    BY <1>1, HistoryShown
  <2>12. TypeOK'
    <3>1. CallOK' /\ line' \in {"over", "said", "unheard"}
      BY <1>1, <1>2 DEF CallOK, TypeOK
    <3> QED
      BY <1>1, <2>10, <2>11, <3>1, StepTyped
  <2>13. OfferOK'
    <3>1. ASSUME NEW c \in Offered'
          PROVE  /\ c[1] = player.dialog /\ c[2] = player.label
                 /\ c[3] \in DOMAIN Labels(c[1])[c[2]].body
      <4>1. CASE c \in Offered
        BY <1>2, <4>1 DEF OfferOK
      <4>2. CASE c = Here
        BY <1>1, <4>2, StatementHere
      <4> QED
        BY <2>7, <4>1, <4>2
    <3>2. \A c \in Offered' :
            /\ c[1] = player'.dialog /\ c[2] = player'.label
            /\ c[3] \in DOMAIN Labels(c[1])'[c[2]].body
      BY <2>6, <2>9, <3>1, Zenon
    <3> QED
      BY <1>1, <1>2, <2>6, <2>8, <3>2 DEF OfferOK, Idle
  <2>14. OnceOK'
    <3>1. ~player.stale
      BY <1>2 DEF OnceOK
    <3>2. ASSUME NEW c \in Offered'
          PROVE  /\ Trusted(player.dialog) => ~ChosenBefore(c)' /\ Mark(c)' \notin seen'
                 /\ OnceShown(c)' => StateOf(c)' \in states'
      <4>1. Trusted(player.dialog) => ~ChosenBefore(c) /\ Mark(c) \notin seen
        <5>1. CASE c \in Offered
          BY <1>2, <5>1 DEF OnceOK
        <5>2. CASE c = Here
          BY <1>1, <5>2, LetThrough
        <5> QED
          BY <2>7, <5>1, <5>2
      <4>2. OnceShown(c) => StateOf(c) \in states'
        <5>1. CASE c \in Offered
          BY <1>2, <2>11, <3>1, <5>1 DEF OnceOK
        <5>2. CASE c = Here
          BY <1>1, <5>2 DEF Shown
        <5> QED
          BY <2>7, <5>1, <5>2
      <4>3. StatementAt(c)' = StatementAt(c)
        BY <1>1, SameStatements
      <4>4. ChosenBefore(c)' = ChosenBefore(c)
        BY <1>1, <2>6, <4>3 DEF ChosenBefore
      <4>5. Mark(c)' = Mark(c) /\ StateOf(c)' = StateOf(c) /\ OnceShown(c)' = OnceShown(c)
        BY <2>6, <4>3 DEF Mark, StateOf, OnceShown
      <4> QED
        BY <1>1, <4>1, <4>2, <4>4, <4>5
    <3>3. Trusted(player.dialog)' => Trusted(player.dialog)
      BY <1>1, <2>6, TrustStays
    <3> QED
      BY <2>6, <3>1, <3>2, <3>3 DEF OnceOK
  <2>15. LineOK'
    BY <1>1, <1>2 DEF LineOK
  <2> QED
    BY <1>1, <2>11, <2>12, <2>13, <2>14, <2>15, FilesStay
<1> QED
  BY <1>4, <1>5

(* A dialog starts, whatever the one before was doing.                     *)
LEMMA BeginKeeps ==
  ASSUME DialogInv, NEW d \in Dialogs, NEW a \in Actors, NEW name, NEW nested \in BOOLEAN,
         Begin(d, a, name, nested)
  PROVE  DialogInv'
<1> USE DEF DialogInv
<1>1. /\ states' = ResetState /\ call' = [by |-> "start", stepping |-> TRUE, nested |-> nested]
      /\ line' = "over" /\ seen' = {s \in seen : s[1] # "temponce"}
      /\ nStarts < MaxStarts /\ nStarts' = nStarts + 1
      /\ UNCHANGED <<text, mState, slots, saveFile, misread, chosen>>
  BY DEF Begin
<1> DEFINE p == [player EXCEPT !.dialog = d, !.actor = a, !.parrot = TRUE,
                               !.limit = DefaultLimit]
<1>2. player' = SelectLabel(p, name)
  BY DEF Begin, Started
<1>3. p \in Player
  <2>1. player \in Player /\ a \in Who /\ DefaultLimit \in Nat
    BY DialogAssumption DEF TypeOK, Who
  <2> QED
    BY <2>1 DEF Player
<1> HIDE DEF p
<1>4. MaxSlots \in Nat /\ text \in [Dialogs -> Seq(Label)]
  BY DialogAssumption DEF TypeOK
<1>5. /\ player' \in Player /\ player'.label <= Len(Labels(player'.dialog))
      /\ player'.choices = NoChoices /\ player'.stale = FALSE
      /\ player'.state = "None" \/ (player'.state = "Start" /\ player'.label # 0)
  BY <1>2, <1>3, <1>4, LabelSelected
<1>6. TypeOK'
  <2>1. [states |-> states', chosen |-> chosen', seen |-> seen'] \in Game
    BY <1>1 DEF TypeOK, Game, ResetState
  <2>2. nStarts' \in 0..MaxStarts
    BY <1>1, DialogAssumption DEF TypeOK
  <2> QED
    BY <1>1, <1>5, <2>1, <2>2 DEF TypeOK, Labels
<1>7. OfferOK' /\ OnceOK'
  <2>1. player'.limit \in Nat /\ call'.stepping /\ call'.by # "none"
    BY <1>1, <1>5 DEF Player
  <2> QED
    BY <1>5, <2>1, BeginsLabel
<1>8. LineOK'
  BY <1>1 DEF LineOK
<1>9. HistoryOK'
  BY <1>1, BeginHistory
<1> QED
  BY <1>1, <1>6, <1>7, <1>8, <1>9, FilesStay

LEMMA StartsKeeps ==
  ASSUME DialogInv, Starts PROVE DialogInv'
<1>1. PICK d \in Dialogs, a \in Actors :
        \E name \in {"nowhere"} \cup {Labels(d)[l].name : l \in DOMAIN Labels(d)} :
          StartDialog(d, a, name) \/ CodeStartsDialog(d, a, name)
  BY DEF Starts
<1>2. PICK name : StartDialog(d, a, name) \/ CodeStartsDialog(d, a, name)
  BY <1>1
<1>3. Begin(d, a, name, TRUE) \/ Begin(d, a, name, FALSE)
  BY <1>2 DEF StartDialog, CodeStartsDialog
<1> QED
  BY <1>3, BeginKeeps

(* The call returns, and the manager looks at where the player is.         *)
LEMMA ReturnKeeps ==
  ASSUME DialogInv, Return PROVE DialogInv'
<1> USE DEF DialogInv
<1>1. /\ ~Idle /\ ~Stepping /\ call' = NoCall
      /\ player' = [player EXCEPT !.waits = player.waits /\ ~call.nested]
      /\ UNCHANGED <<text, states, line, saveFile, misread, nStarts, chosen>>
  BY DEF Return, Returned
<1>2. PlayerOK /\ CallOK /\ call.nested \in BOOLEAN
  BY DEF TypeOK, PlayerOK, CallOK
<1> DEFINE w == player.waits /\ ~call.nested
<1>3. w \in BOOLEAN
  OBVIOUS
<1>4. player' = [player EXCEPT !.waits = w]
  BY <1>1
<1> HIDE DEF w
<1>5. /\ player' \in Player /\ player'.state = player.state /\ player'.waits = w
      /\ player'.dialog = player.dialog /\ player'.label = player.label
      /\ player'.actor = player.actor /\ player'.limit = player.limit
      /\ player'.stale = player.stale /\ player'.choices = player.choices
  BY <1>2, <1>3, <1>4 DEF Player, PlayerOK
<1>6. Offered' = Offered
  BY <1>5, SameOffered
<1>7. \A e : Labels(e)' = Labels(e)
  BY <1>1, SameStatements
<1>8. player.state \in {"Start", "Running"} => Offered = {}
  BY <1>1 DEF Stepping, OfferOK
<1>9. TypeOK'
  <2>1. mState' \in {"None", "Active", "WaitingForChoice"}
    BY DEF Return, TypeOK, ManagerState
  <2>2. slots' \in [1..MaxSlots -> Spots \cup {NoChoice}]
    <3>1. slots' = slots \/ slots' = player.choices
      BY DEF Return
    <3> QED
      BY <1>2, <3>1 DEF TypeOK, PlayerOK, Player
  <2>3. [states |-> states', chosen |-> chosen', seen |-> seen'] \in Game
    <3> DEFINE shown == {Mark(c) : c \in {o \in Offered : OnceShown(o)}}
    <3>1. /\ states \in SUBSET (Conditions \X Who \X Dialogs \X Nat)
          /\ chosen \in SUBSET ({"once", "onceever"} \X Who \X Spots)
          /\ seen \in SUBSET ({"showonce", "temponce"} \X Who \X Spots)
      BY DEF TypeOK, Game
    <3>2. seen' = seen \/ (player.state = "WaitingForChoice" /\ seen' = seen \cup shown)
      BY DEF Return
    <3>3. ASSUME player.state = "WaitingForChoice", NEW c \in Offered, OnceShown(c)
          PROVE  Mark(c) \in {"showonce", "temponce"} \X Who \X Spots
      <4>1. c \in Spots
        BY <3>3, OfferedStatement
      <4>2. StatementAt(c).cond \in {"showonce", "temponce"} /\ player.actor \in Who
        BY <1>2, <3>3 DEF OnceShown, PlayerOK, Player
      <4> QED
        BY <4>1, <4>2 DEF Mark
    <3>4. player.state = "WaitingForChoice"
          => shown \in SUBSET ({"showonce", "temponce"} \X Who \X Spots)
      BY <3>3
    <3> HIDE DEF shown
    <3>5. seen' \in SUBSET ({"showonce", "temponce"} \X Who \X Spots)
      BY <3>1, <3>2, <3>4
    <3> QED
      BY <1>1, <3>1, <3>5 DEF Game
  <2> QED
    BY <1>1, <1>2, <1>5, <1>7, <2>1, <2>2, <2>3 DEF TypeOK, PlayerOK, NoCall, Labels
<1>10. OfferOK'
  <2>1. \A c \in Offered' : player.state = "WaitingForChoice" =>
          /\ c[1] = player'.dialog /\ c[2] = player'.label
          /\ c[3] \in DOMAIN Labels(c[1])'[c[2]].body
    BY <1>5, <1>6, <1>7, Zenon DEF OfferOK
  <2>2. player.state \in {"Start", "Running", "WaitingForChoice"} =>
          Cardinality(Offered) <= player.limit
    BY DEF OfferOK
  <2>3. call'.by = "none" /\ ~call'.stepping
    BY <1>1 DEF NoCall
  <2> QED
    BY <1>5, <1>6, <1>8, <2>1, <2>2, <2>3 DEF OfferOK, Idle
<1>11. LineOK'
  <2>1. line = "said" => w
    BY DEF LineOK, w
  <2>2. ~call'.nested
    BY <1>1 DEF NoCall
  <2> QED
    BY <1>1, <1>5, <2>1, <2>2 DEF LineOK
<1>12. OnceOK'
  <2>1. ASSUME NEW c
        PROVE  StateOf(c)' = StateOf(c) /\ OnceShown(c)' = OnceShown(c)
    <3>1. StatementAt(c)' = StatementAt(c)
      BY <1>1, SameStatements
    <3> QED
      BY <1>5, <3>1 DEF StateOf, OnceShown
  <2> QED
    BY <1>1, <1>5, <1>6, <1>8, <2>1 DEF OnceOK
<1> QED
  BY <1>1, <1>9, <1>10, <1>11, <1>12, FilesStay, ReturnHistory

(* A frame: the player goes on if what it waits for is over.               *)
LEMMA UpdateKeeps ==
  ASSUME DialogInv, UpdateDialog PROVE DialogInv'
<1> DEFINE goes == player.state \in {"Start", "Running"}
           said == player.state = "WaitingForSayingChoice" /\ Waited
           ended == player.state = "WaitingEndAnimation" /\ Waited
<1>1. /\ Idle
      /\ player' = CASE said  -> SelectLabel([player EXCEPT !.waits = FALSE], player.next)
                     [] ended -> [Advance EXCEPT !.waits = FALSE]
                     [] OTHER -> player
      /\ call' = [by |-> "update", stepping |-> goes \/ said, nested |-> FALSE]
      /\ UNCHANGED <<text, states, line, mState, slots, saveFile, misread, nStarts, chosen, seen>>
  BY DEF UpdateDialog
<1>2. PlayerOK /\ ~call.stepping
  BY <1>1 DEF DialogInv, TypeOK, PlayerOK, OfferOK
<1>3. CallOK' /\ call'.stepping = (goes \/ said) /\ call'.by # "none" /\ call'.nested = FALSE
  BY <1>1 DEF CallOK
<1>4. Waited /\ player.state \in {"WaitingForSayingChoice", "WaitingEndAnimation"} => line # "said"
  BY DEF DialogInv, LineOK, Waited
<1>5. CASE said
  <2> DEFINE p == [player EXCEPT !.waits = FALSE]
  <2>1. p \in Player
    BY <1>2 DEF PlayerOK, Player
  <2>2. player' = SelectLabel(p, player.next)
    BY <1>1, <1>5
  <2> HIDE DEF p
  <2>3. call'.stepping /\ line # "said"
    BY <1>3, <1>4, <1>5
  <2> QED
    BY <1>1, <1>3, <2>1, <2>2, <2>3, SelectedKeeps
<1>6. CASE ~said
  <2>1. /\ player' \in Player
        /\ player'.dialog = player.dialog /\ player'.label = player.label
        /\ player'.actor = player.actor /\ player'.limit = player.limit
        /\ player'.stale = player.stale /\ player'.choices = player.choices
        /\ \/ ended /\ player'.state = "Running"
           \/ ~ended /\ player'.state = player.state /\ player'.waits = player.waits
    <3>1. CASE ended
      <4> DEFINE p == Advance
      <4>1. /\ p \in Player /\ p.state = "Running"
            /\ p.dialog = player.dialog /\ p.label = player.label
            /\ p.actor = player.actor /\ p.limit = player.limit
            /\ p.stale = player.stale /\ p.choices = player.choices
        BY <1>2, Advanced DEF PlayerOK
      <4>2. player' = [p EXCEPT !.waits = FALSE]
        BY <1>1, <1>6, <3>1
      <4> HIDE DEF p
      <4> QED
        BY <3>1, <4>1, <4>2 DEF Player
    <3>2. CASE ~ended
      BY <1>1, <1>2, <1>6, <3>2 DEF PlayerOK
    <3> QED
      BY <3>1, <3>2
  <2>2. Offered' = Offered
    BY <2>1, SameOffered
  <2>3. \A d : Labels(d)' = Labels(d)
    BY <1>1, SameStatements
  <2>4. PlayerOK'
    BY <1>1, <1>2, <2>1 DEF PlayerOK, Labels
  <2>5. TypeOK'
    <3>1. line' \in {"over", "said", "unheard"}
          /\ states' \in SUBSET (Conditions \X Who \X Dialogs \X Nat)
      BY <1>1 DEF DialogInv, TypeOK, Game
    <3> QED
      BY <1>1, <1>3, <2>4, <3>1, StepTyped DEF DialogInv
  <2>6. OfferOK'
    <3>1. player'.state \in {"Start", "Running"} => Offered = {}
      BY <1>2, <2>1 DEF DialogInv, OfferOK
    <3>2. Cardinality({}) <= player.limit
      <4>1. Cardinality({}) = 0
        BY FS_EmptySet
      <4>2. player.limit \in Nat
        BY <1>2 DEF PlayerOK, Player
      <4> QED
        BY <4>1, <4>2
    <3>3. player'.state \in {"Start", "Running", "WaitingForChoice"} =>
            Cardinality(Offered) <= player.limit
      BY <2>1, <3>1, <3>2 DEF DialogInv, OfferOK
    <3>4. \A c \in Offered' : player'.state = "WaitingForChoice" =>
            /\ c[1] = player'.dialog /\ c[2] = player'.label
            /\ c[3] \in DOMAIN Labels(c[1])'[c[2]].body
      <4>1. player'.state = "WaitingForChoice" => player.state = "WaitingForChoice"
        BY <2>1
      <4> QED
        BY <2>1, <2>2, <2>3, <4>1, Zenon DEF DialogInv, OfferOK
    <3>5. player'.state \in {"Start", "Running", "WaitingForChoice", "WaitingEndAnimation"} =>
            player'.label # 0
      BY <2>1 DEF DialogInv, OfferOK
    <3>6. /\ player'.state = "WaitingForChoice" => Offered # {}
          /\ player'.state \in {"None", "WaitingEndAnimation"} => Offered = {}
      BY <2>1 DEF DialogInv, OfferOK
    <3> QED
      BY <1>3, <2>1, <2>2, <3>1, <3>3, <3>4, <3>5, <3>6 DEF OfferOK, Idle
  <2>7. LineOK'
    BY <1>1, <1>3, <1>4, <2>1 DEF DialogInv, LineOK
  <2>8. OnceOK'
    <3>1. player'.state \in {"Start", "Running"} => Offered = {}
      BY <1>2, <2>1 DEF DialogInv, OfferOK
    <3>2. ASSUME NEW c
          PROVE  StateOf(c)' = StateOf(c) /\ OnceShown(c)' = OnceShown(c)
      <4>1. StatementAt(c)' = StatementAt(c)
        BY <1>1, SameStatements
      <4> QED
        BY <2>1, <4>1 DEF StateOf, OnceShown
    <3> QED
      BY <1>1, <2>1, <2>2, <3>1, <3>2 DEF DialogInv, OnceOK
  <2> QED
    BY <1>1, <2>5, <2>6, <2>7, <2>8, FilesStay, HistoryStays DEF DialogInv
<1> QED
  BY <1>5, <1>6

(* The player of the game chooses.                                         *)
LEMMA ChooseKeeps ==
  ASSUME DialogInv, NEW n \in 1..MaxSlots, Choose(n) PROVE DialogInv'
<1> USE DEF DialogInv
<1> DEFINE c == player.choices[n]
<1>1. /\ Idle /\ player.state = "WaitingForChoice" /\ c # NoChoice
      /\ states' = states \cup Chosen(c)
      /\ chosen' = IF OnceChosen(c) THEN chosen \cup {Mark(c)} ELSE chosen
      /\ \/ /\ player' = [player EXCEPT !.state = "WaitingForSayingChoice", !.waits = TRUE,
                                        !.next = StatementAt(c).to]
            /\ line' \in {"over", "said"} /\ call' = NoCall
         \/ /\ player' = SelectLabel(player, StatementAt(c).to)
            /\ call' = Calling("choose") /\ line' = line
      /\ UNCHANGED <<text, mState, slots, saveFile, misread, nStarts, seen>>
  BY DEF Choose
<1>2. c \in Offered
  BY <1>1 DEF Offered
<1>3. PlayerOK /\ ~call.stepping /\ line # "said" /\ player.actor \in Who
  BY <1>1 DEF TypeOK, PlayerOK, OfferOK, LineOK, Player
<1> HIDE DEF c
<1>4. c \in Spots /\ c[1] \in Dialogs /\ StatementAt(c) \in Statement
  BY <1>1, <1>2, OfferedStatement
<1>5. StatementAt(c).to \in STRING /\ StatementAt(c).line \in Nat
  BY <1>4 DEF Statement
<1>6. [states |-> states', chosen |-> chosen', seen |-> seen'] \in Game
  <2>1. /\ states \in SUBSET (Conditions \X Who \X Dialogs \X Nat)
        /\ chosen \in SUBSET ({"once", "onceever"} \X Who \X Spots)
        /\ seen \in SUBSET ({"showonce", "temponce"} \X Who \X Spots)
    BY DEF TypeOK, Game
  <2>2. OnceChosen(c) =>
          /\ StateOf(c) \in Conditions \X Who \X Dialogs \X Nat
          /\ Mark(c) \in {"once", "onceever"} \X Who \X Spots
    BY <1>3, <1>4, <1>5 DEF OnceChosen, StateOf, Mark, Conditions
  <2>3. states' \in SUBSET (Conditions \X Who \X Dialogs \X Nat)
    BY <1>1, <2>1, <2>2 DEF Chosen
  <2>4. chosen' \in SUBSET ({"once", "onceever"} \X Who \X Spots)
    BY <1>1, <2>1, <2>2
  <2> QED
    BY <1>1, <2>1, <2>3, <2>4 DEF Game
<1>7. HistoryOK'
  BY ChooseHistory
<1>8. CASE /\ player' = [player EXCEPT !.state = "WaitingForSayingChoice", !.waits = TRUE,
                                       !.next = StatementAt(c).to]
           /\ line' \in {"over", "said"} /\ call' = NoCall
  <2> DEFINE to == StatementAt(c).to
  <2>1. to \in LabelNames
    BY <1>5 DEF LabelNames
  <2>2. player' = [player EXCEPT !.state = "WaitingForSayingChoice", !.waits = TRUE, !.next = to]
    BY <1>8
  <2> HIDE DEF to
  <2>3. /\ player' \in Player /\ player'.state = "WaitingForSayingChoice" /\ player'.waits
        /\ player'.dialog = player.dialog /\ player'.label = player.label
    BY <1>3, <2>1, <2>2 DEF Player, PlayerStates, PlayerOK
  <2>4. TypeOK'
    <3>1. PlayerOK'
      BY <1>1, <1>3, <2>3 DEF PlayerOK, Labels
    <3> QED
      BY <1>1, <1>6, <1>8, <3>1 DEF TypeOK, PlayerOK, NoCall, Labels
  <2>5. OfferOK' /\ LineOK' /\ OnceOK'
    BY <1>8, <2>3 DEF OfferOK, LineOK, OnceOK, NoCall, Idle
  <2> QED
    BY <1>1, <1>7, <2>4, <2>5, FilesStay
<1>9. CASE /\ player' = SelectLabel(player, StatementAt(c).to)
           /\ call' = Calling("choose") /\ line' = line
  <2>1. MaxSlots \in Nat /\ text \in [Dialogs -> Seq(Label)]
    BY DialogAssumption DEF TypeOK
  <2>2. /\ player' \in Player /\ player'.label <= Len(Labels(player'.dialog))
        /\ player'.choices = NoChoices /\ player'.stale = FALSE
        /\ player'.state = "None" \/ (player'.state = "Start" /\ player'.label # 0)
    <3>1. player \in Player
      BY <1>3 DEF PlayerOK
    <3> QED
      BY <1>9, <2>1, <3>1, LabelSelected
  <2>3. call' = [by |-> "choose", stepping |-> TRUE, nested |-> FALSE]
    BY <1>9 DEF Calling
  <2>4. TypeOK'
    <3>1. line' \in {"over", "said", "unheard"} /\ CallOK'
      <4>1. line' = line
        BY <1>9
      <4> QED
        BY <2>3, <4>1 DEF TypeOK, CallOK
    <3>2. PlayerOK'
      BY <1>1, <2>2 DEF PlayerOK, Labels
    <3> QED
      BY <1>1, <1>6, <3>1, <3>2 DEF TypeOK, PlayerOK, CallOK, Labels
  <2>5. OfferOK' /\ OnceOK'
    <3>1. player'.limit \in Nat /\ call'.stepping /\ call'.by # "none"
      BY <2>2, <2>3 DEF Player
    <3> QED
      BY <2>2, <3>1, BeginsLabel
  <2>6. LineOK'
    BY <1>3, <1>9 DEF LineOK
  <2> QED
    BY <1>1, <1>7, <2>4, <2>5, <2>6, FilesStay
<1> QED
  BY <1>1, <1>8, <1>9

(* What leaves the player where it is.                                     *)
LEMMA QuietKeeps ==
  ASSUME DialogInv,
         UNCHANGED <<text, player, states, call, mState, slots, misread, nStarts, chosen, seen>>
  PROVE  FilesOK' /\ OfferOK' /\ OnceOK'
<1>1. Offered' = Offered
  BY SameOffered
<1>2. \A d : Labels(d)' = Labels(d)
  BY SameStatements
<1>3. OfferOK'
  BY <1>1, <1>2 DEF DialogInv, OfferOK, Idle
<1>4. OnceOK'
  BY <1>1, TrustStays DEF DialogInv, OnceOK, ChosenBefore, Mark, OnceShown, StateOf,
     StatementAt, Labels
<1> QED
  BY <1>3, <1>4, FilesStay DEF DialogInv

LEMMA LineEndsKeeps ==
  ASSUME DialogInv, LineEnds PROVE DialogInv'
<1>1. FilesOK' /\ OfferOK' /\ OnceOK' /\ HistoryOK'
  BY QuietKeeps, HistoryStays DEF LineEnds, DialogInv
<1>2. TypeOK' /\ LineOK'
  BY DEF LineEnds, DialogInv, TypeOK, LineOK, Labels
<1> QED
  BY <1>1, <1>2 DEF DialogInv

LEMMA SaveKeeps ==
  ASSUME DialogInv, SaveDialogs PROVE DialogInv'
<1>1. FilesOK' /\ OfferOK' /\ OnceOK'
  BY QuietKeeps DEF SaveDialogs
<1>2. HistoryOK'
  BY SaveHistory DEF DialogInv
<1>3. saveFile' \in Game
  BY DEF SaveDialogs, DialogInv, TypeOK, Game, ResetState
<1>4. TypeOK' /\ LineOK'
  BY <1>3 DEF SaveDialogs, DialogInv, TypeOK, LineOK, Labels
<1> QED
  BY <1>1, <1>2, <1>4 DEF DialogInv

(* A game is loaded under the choices on offer, which may not be new in it. *)
LEMMA LoadKeeps ==
  ASSUME DialogInv, LoadDialog PROVE DialogInv'
<1> USE DEF DialogInv
<1>1. /\ Idle /\ states' = {ParseState(r) : r \in saveFile.states}
      /\ chosen' = saveFile.chosen /\ seen' = saveFile.seen /\ misread' \in BOOLEAN
      /\ UNCHANGED <<text, call, line, mState, slots, saveFile, nStarts>>
  BY DEF LoadDialog
<1> DEFINE st == Offered # {}
<1>2. st \in BOOLEAN
  OBVIOUS
<1>3. player' = [player EXCEPT !.stale = st]
  BY DEF LoadDialog
<1> HIDE DEF st
<1>4. /\ player' \in Player /\ player'.state = player.state /\ player'.waits = player.waits
      /\ player'.dialog = player.dialog /\ player'.label = player.label
      /\ player'.actor = player.actor /\ player'.limit = player.limit
      /\ player'.stale = st /\ player'.choices = player.choices
  BY <1>2, <1>3 DEF TypeOK, Player
<1>5. Offered' = Offered
  BY <1>4, SameOffered
<1>6. \A d : Labels(d)' = Labels(d)
  BY <1>1, SameStatements
<1>7. player.state \in {"Start", "Running"} => Offered = {}
  BY <1>1 DEF OfferOK
<1>8. TypeOK'
  <2>1. /\ GameTyped(saveFile.states, saveFile.chosen, saveFile.seen)
        /\ saveFile \in Game
    BY GameIsTyped DEF TypeOK
  <2>2. states' \in SUBSET (Conditions \X Who \X Dialogs \X Nat)
    BY <1>1, <2>1, RecordIsRead DEF GameTyped
  <2>3. [states |-> states', chosen |-> chosen', seen |-> seen'] \in Game
    BY <1>1, <2>1, <2>2 DEF Game, GameTyped
  <2> QED
    BY <1>1, <1>4, <2>3 DEF TypeOK, Labels
<1>9. OfferOK'
  <2>1. \A c \in Offered' : player'.state \in {"Start", "Running", "WaitingForChoice"} =>
          /\ c[1] = player'.dialog /\ c[2] = player'.label
          /\ c[3] \in DOMAIN Labels(c[1])'[c[2]].body
    BY <1>4, <1>5, <1>6, Zenon DEF OfferOK
  <2> QED
    BY <1>1, <1>4, <1>5, <2>1 DEF OfferOK, Idle
<1>10. LineOK'
  BY <1>1, <1>4 DEF LineOK
<1>11. OnceOK'
  <2>1. st => player.state \in {"WaitingForChoice", "WaitingForSayingChoice"}
    BY <1>7 DEF st, OfferOK, TypeOK, Player, PlayerStates
  <2>2. ~st => Offered = {}
    BY DEF st
  <2> QED
    BY <1>4, <1>5, <1>7, <2>1, <2>2 DEF OnceOK
<1> QED
  BY <1>1, <1>8, <1>9, <1>10, <1>11, FilesStay, LoadHistory

-----------------------------------------------------------------------------
(* The specification                                                       *)

LEMMA InitInv == Init => DialogInv
<1> SUFFICES ASSUME Init PROVE DialogInv
  OBVIOUS
<1>1. MaxSlots \in Nat /\ DefaultLimit \in Nat /\ MaxStarts \in Nat
  BY DialogAssumption
<1>2. ASSUME NEW d \in Dialogs
      PROVE  Playable(text[d]) /\ LinesTellApart(text[d]) /\ text[d] \in Seq(Label)
  <2>1. file[d] \in DOMAIN Library /\ text[d] = Parse(Stream(Library[file[d]]))
    BY DEF Init
  <2>2. Playable(text[d]) /\ Written(Library[file[d]])
    BY <2>1, DialogAssumption
  <2>3. LinesTellApart(text[d])
    BY <2>1, <2>2, ConditionsKeepApart
  <2> QED
    BY <2>2, <2>3 DEF Playable
<1>3. text \in [Dialogs -> Seq(Label)]
  <2>1. text = [d \in Dialogs |-> text[d]]
    BY DEF Init
  <2> QED
    BY <1>2, <2>1, Zenon
<1>4. FilesOK
  BY <1>2 DEF FilesOK, Labels
<1>5. NoChoices \in [1..MaxSlots -> Spots \cup {NoChoice}]
  BY DEF NoChoices
<1>6. /\ player.dialog \in Dialogs /\ player.label = 0 /\ player.choices = NoChoices
      /\ player.state = "None" /\ player.stale = FALSE
  BY DEF Init
<1>7. player \in Player
  <2> DEFINE none == NoChoices
             first == [dialog : Dialogs, actor : Actors, label : {0}, current : {1},
                       state : {"None"}, choices : {none}, limit : {DefaultLimit},
                       parrot : {TRUE}, waits : {FALSE}, next : {""}, stale : {FALSE}]
  <2>1. player \in first
    BY DEF Init
  <2>2. none \in [1..MaxSlots -> Spots \cup {NoChoice}]
    BY <1>5
  <2>3. "None" \in PlayerStates /\ Actors \subseteq Who
    BY DEF PlayerStates, Who
  <2> HIDE DEF none
  <2>4. /\ player.dialog \in Dialogs /\ player.actor \in Actors /\ player.label = 0
        /\ player.current = 1 /\ player.state = "None" /\ player.choices = none
        /\ player.limit = DefaultLimit /\ player.parrot = TRUE /\ player.waits = FALSE
        /\ player.next = "" /\ player.stale = FALSE
    BY <2>1
  <2>5. player = [dialog |-> player.dialog, actor |-> player.actor, label |-> player.label,
                  current |-> player.current, state |-> player.state,
                  choices |-> player.choices, limit |-> player.limit,
                  parrot |-> player.parrot, waits |-> player.waits, next |-> player.next,
                  stale |-> player.stale]
    BY <2>1
  <2>6. /\ player.dialog \in Dialogs /\ player.actor \in Who /\ player.label \in Nat
        /\ player.current \in Nat \ {0} /\ player.state \in PlayerStates
        /\ player.choices \in [1..MaxSlots -> Spots \cup {NoChoice}]
        /\ player.limit \in Nat /\ player.next \in LabelNames
    <3>1. /\ player.dialog \in Dialogs /\ player.actor \in Actors
          /\ player.label = 0 /\ player.current = 1 /\ player.state = "None"
          /\ player.choices = none /\ player.limit = DefaultLimit /\ player.next = ""
      BY <2>4, Zenon
    <3>2. player.label \in Nat /\ player.current \in Nat \ {0}
      <4>1. player.label = 0 /\ player.current = 1
        BY <3>1
      <4> QED
        BY <4>1
    <3>3. "" \in LabelNames
      BY DEF LabelNames
    <3>4. player.dialog \in Dialogs /\ player.actor \in Who /\ player.state \in PlayerStates
      BY <2>3, <3>1
    <3>5. player.choices \in [1..MaxSlots -> Spots \cup {NoChoice}]
      BY <2>2, <3>1, Zenon
    <3>6. player.limit \in Nat /\ player.next \in LabelNames
      BY <1>1, <3>1, <3>3, Zenon
    <3> QED
      BY <3>2, <3>4, <3>5, <3>6, Zenon
  <2>7. player.parrot \in BOOLEAN /\ player.waits \in BOOLEAN /\ player.stale \in BOOLEAN
    BY <2>4, Zenon
  <2> QED
    BY <2>5, <2>6, <2>7 DEF Player
<1>8. TypeOK
  <2>1. text[player.dialog] \in Seq(Label)
    BY <1>2, <1>6
  <2>2. player.label <= Len(Labels(player.dialog))
    BY <1>6, <2>1 DEF Labels
  <2>3. /\ [states |-> states, chosen |-> chosen, seen |-> seen] \in Game
        /\ saveFile \in Game /\ misread \in BOOLEAN
    BY DEF Init, Game
  <2>4. slots \in [1..MaxSlots -> Spots \cup {NoChoice}]
    BY <1>5 DEF Init
  <2>5. call = NoCall /\ line = "over" /\ mState = "None" /\ nStarts \in 0..MaxStarts
    <3>1. call = NoCall /\ line = "over" /\ mState = "None" /\ nStarts = 0
      BY DEF Init
    <3> QED
      BY <1>1, <3>1
  <2> QED
    BY <1>3, <1>7, <2>2, <2>3, <2>4, <2>5 DEF TypeOK, NoCall
<1>9. OfferOK /\ OnceOK
  <2>1. Offered = {}
    BY <1>6 DEF Offered, NoChoices
  <2>2. ~call.stepping
    BY DEF Init, NoCall
  <2> QED
    BY <1>6, <2>1, <2>2 DEF OfferOK, OnceOK
<1>10. LineOK /\ HistoryOK
  BY DEF Init, LineOK, HistoryOK, SameHistory
<1> QED
  BY <1>4, <1>8, <1>9, <1>10 DEF DialogInv

LEMMA StutterKeeps ==
  ASSUME DialogInv, UNCHANGED vars PROVE DialogInv'
<1>1. FilesOK' /\ OfferOK' /\ OnceOK' /\ HistoryOK'
  BY QuietKeeps, HistoryStays DEF vars, DialogInv
<1>2. TypeOK' /\ LineOK'
  BY DEF vars, DialogInv, TypeOK, LineOK, Labels
<1> QED
  BY <1>1, <1>2 DEF DialogInv

LEMMA NextInv == DialogInv /\ [Next]_vars => DialogInv'
<1> SUFFICES ASSUME DialogInv, [Next]_vars PROVE DialogInv'
  OBVIOUS
<1>1. CASE Step
  BY <1>1, EndKeeps, RefuseKeeps, AddKeeps, StopAtChoicesKeeps, RunRefusedKeeps, SayKeeps,
     CodeKeeps, GotoKeeps, SetKeeps, ReturnKeeps, Zenon DEF Step
<1>2. CASE UpdateDialog \/ LineEnds \/ SaveDialogs \/ LoadDialog \/ Starts
  BY <1>2, UpdateKeeps, LineEndsKeeps, SaveKeeps, LoadKeeps, StartsKeeps, Zenon
<1>3. ASSUME NEW n \in 1..MaxSlots, Choose(n)
      PROVE  DialogInv'
  BY <1>3, ChooseKeeps
<1>4. CASE UNCHANGED vars
  BY <1>4, StutterKeeps
<1> QED
  BY <1>1, <1>2, <1>3, <1>4 DEF Next

THEOREM DialogInvariant == Spec => []DialogInv
BY InitInv, NextInv, PTL DEF Spec

(* The variables keep their types, and what has been read is played within *)
(* its labels and statements.                                              *)
THEOREM DialogsKeepTheirType == Spec => []TypeOK
<1>1. DialogInv => TypeOK
  BY DEF DialogInv
<1> QED
  BY <1>1, DialogInvariant, PTL

(* Where the player waits for a choice there is one, within the limit and  *)
(* of the label it plays, whatever scripts, saved games and gotos did      *)
(* before: DialogPlayer's running, addChoice and choose.                   *)
THEOREM ChoicesStayOffered == Spec => []ChoicesAreOffered
<1>1. DialogInv => ChoicesAreOffered
  BY DEF DialogInv, OfferOK, ChoicesAreOffered
<1> QED
  BY <1>1, DialogInvariant, PTL

(* What a step leads the player to.                                        *)
LEMMA StateAfter ==
  ASSUME DialogInv, Next
  PROVE  \/ Say
         \/ StopAtChoices
         \/ EndOfLabel /\ Offered # {}
         \/ player'.state \in {"Start", "Running", "None", "WaitingForSayingChoice"}
         \/ player'.state = player.state
<1>1. player \in Player /\ MaxSlots \in Nat /\ text \in [Dialogs -> Seq(Label)]
  BY DialogAssumption DEF DialogInv, TypeOK
<1>2. ASSUME NEW p \in Player, NEW name, player' = SelectLabel(p, name)
      PROVE  player'.state \in {"Start", "None"}
  <2>1. player'.state = "None" \/ (player'.state = "Start" /\ player'.label # 0)
    BY <1>1, <1>2, LabelSelected
  <2> QED
    BY <2>1
<1>3. ASSUME player' = Advance PROVE player'.state = "Running"
  BY <1>1, <1>3, Advanced
<1>4. CASE EndOfLabel /\ Offered = {}
  <2>1. player' = NextLabel
    BY <1>4 DEF EndOfLabel
  <2>2. CASE player.label < Len(Labels(player.dialog))
    <3> DEFINE name == Labels(player.dialog)[player.label + 1].name
    <3>1. player' = SelectLabel(player, name)
      BY <2>1, <2>2 DEF NextLabel
    <3> HIDE DEF name
    <3> QED
      BY <1>1, <1>2, <3>1
  <2>3. CASE ~(player.label < Len(Labels(player.dialog)))
    BY <1>1, <2>1, <2>3 DEF NextLabel, Player
  <2> QED
    BY <2>2, <2>3
<1>5. CASE RefuseStatement \/ RunRefused \/ Code
  BY <1>3, <1>5 DEF RefuseStatement, RunRefused, Code
<1>6. CASE AddChoice
  <2> DEFINE p == Advance
             n == Number(StatementAt(Here).arg)
  <2>1. p \in Player /\ p.state = "Running"
    BY <1>1, Advanced
  <2>2. player' = [p EXCEPT !.choices[n] = Here] \/ player' = p
    BY <1>6 DEF AddChoice
  <2> HIDE DEF p
  <2> QED
    BY <2>1, <2>2 DEF Player
<1>7. CASE Set
  <2> DEFINE p == Advance
  <2>1. p \in Player /\ p.state = "Running"
    BY <1>1, Advanced
  <2>2. \/ player' = [p EXCEPT !.limit = Number(StatementAt(Here).arg)]
        \/ player' = [p EXCEPT !.parrot = StatementAt(Here).arg \in {"", "yes"}]
        \/ player' = [p EXCEPT !.actor = StatementAt(Here).arg]
        \/ player' = p
    BY <1>7 DEF Set
  <2> HIDE DEF p
  <2> QED
    BY <2>1, <2>2 DEF Player
<1>8. CASE Goto
  BY <1>1, <1>2, <1>8 DEF Goto
<1>9. CASE Return
  BY <1>1, <1>9 DEF Return, Returned, Player
<1>10. CASE UpdateDialog
  <2> DEFINE p == [player EXCEPT !.waits = FALSE]
             q == [Advance EXCEPT !.waits = FALSE]
  <2>1. player' = SelectLabel(p, player.next) \/ player' = q \/ player' = player
    BY <1>10 DEF UpdateDialog
  <2>2. p \in Player
    BY <1>1 DEF Player
  <2>3. q.state = "Running"
    BY <1>1, Advanced DEF Player
  <2> HIDE DEF p, q
  <2> QED
    BY <1>2, <2>1, <2>2, <2>3
<1>11. CASE LineEnds \/ SaveDialogs \/ LoadDialog
  BY <1>1, <1>11 DEF LineEnds, SaveDialogs, LoadDialog, Player
<1>12. CASE Starts
  <2>1. PICK d \in Dialogs, a \in Actors :
          \E name \in {"nowhere"} \cup {Labels(d)[l].name : l \in DOMAIN Labels(d)} :
            StartDialog(d, a, name) \/ CodeStartsDialog(d, a, name)
    BY <1>12 DEF Starts
  <2>2. PICK name : StartDialog(d, a, name) \/ CodeStartsDialog(d, a, name)
    BY <2>1
  <2> DEFINE p == [player EXCEPT !.dialog = d, !.actor = a, !.parrot = TRUE,
                                 !.limit = DefaultLimit]
  <2>3. player' = SelectLabel(p, name)
    BY <2>2 DEF StartDialog, CodeStartsDialog, Begin, Started
  <2>4. p \in Player
    <3>1. a \in Who /\ DefaultLimit \in Nat
      BY DialogAssumption DEF Who
    <3> QED
      BY <1>1, <3>1 DEF Player
  <2> HIDE DEF p
  <2> QED
    BY <1>2, <2>3, <2>4
<1>13. ASSUME NEW n \in 1..MaxSlots, Choose(n)
       PROVE  player'.state \in {"Start", "None", "WaitingForSayingChoice"}
  <2> DEFINE to == StatementAt(player.choices[n]).to
  <2>1. \/ player' = [player EXCEPT !.state = "WaitingForSayingChoice", !.waits = TRUE,
                                    !.next = to]
        \/ player' = SelectLabel(player, to)
    BY <1>13 DEF Choose
  <2> HIDE DEF to
  <2> QED
    BY <1>1, <1>2, <2>1 DEF Player
<1>14. CASE Step
  BY <1>4, <1>5, <1>6, <1>7, <1>8, <1>9, <1>14 DEF Step
<1> QED
  BY <1>10, <1>11, <1>12, <1>13, <1>14 DEF Next

(* A statement that its condition refuses for having been chosen has been. *)
LEMMA RefusedWasChosen ==
  ASSUME DialogInv, RefuseStatement, OnceChosen(Here), Trusted(player.dialog)
  PROVE  ChosenBefore(Here)
<1>1. Stepping /\ ~AtEnd /\ ~MustAccept(Here)
  BY DEF RefuseStatement
<1> DEFINE d == player.dialog
           l == player.label
           i == player.current
           st == StatementAt(Here)
<1>2. /\ Here = <<d, l, i>> /\ d \in Dialogs /\ l \in DOMAIN Labels(d)
      /\ i \in DOMAIN Labels(d)[l].body /\ st = Labels(d)[l].body[i]
  BY <1>1, StatementHere DEF DialogInv, TypeOK, Player
<1>3. st.cond \in {"once", "onceever"}
  BY DEF OnceChosen
<1>4. ASSUME NEW r \in states, r[1] = st.cond, r[3] = d, r[4] = st.line
      PROVE  <<r[1], r[2], Here>> \in chosen
  <2>1. Trusted(d) /\ SameHistory(states, chosen, seen)
    BY DEF DialogInv, HistoryOK
  <2> HIDE DEF d, l, i, st
  <2>2. <<r[1], r[2], <<d, l, i>>>> \in chosen
    BY <1>2, <1>3, <1>4, <2>1, Zenon DEF SameHistory
  <2> QED
    BY <1>2, <2>2
<1>5. ASSUME NEW a, <<st.cond, a, Here>> \in chosen, st.cond = "once" => a = player.actor
      PROVE  ChosenBefore(Here)
  <2>1. a \in {m[2] : m \in chosen}
    <3> DEFINE m == <<st.cond, a, Here>>
    <3>1. m \in chosen /\ m[2] = a
      BY <1>5
    <3> HIDE DEF m
    <3> QED
      BY <3>1
  <2> QED
    BY <1>5, <2>1 DEF ChosenBefore
<1>6. CASE st.cond = "once"
  <2> DEFINE r == StateOf(Here)
  <2>1. r \in states
    BY <1>1, <1>6 DEF MustAccept, MayAccept
  <2>2. r[1] = st.cond /\ r[2] = player.actor /\ r[3] = d /\ r[4] = st.line
    BY <1>2 DEF StateOf
  <2> HIDE DEF r
  <2>3. <<r[1], r[2], Here>> \in chosen
    BY <1>4, <2>1, <2>2
  <2> QED
    BY <1>5, <2>2, <2>3
<1>7. CASE st.cond = "onceever"
  <2>1. PICK r \in states : r[1] = "onceever" /\ r[3] = Here[1] /\ r[4] = st.line
    BY <1>1, <1>7 DEF MustAccept, MayAccept
  <2>2. <<r[1], r[2], Here>> \in chosen
    BY <1>2, <1>4, <1>7, <2>1
  <2> QED
    BY <1>5, <1>7, <2>1, <2>2
<1> QED
  BY <1>3, <1>6, <1>7

LEMMA ComesToNewChoices ==
  ASSUME DialogInv, Next, ComesToChoices, Trusted(player.dialog)
  PROVE  \A c \in Offered' : ~ChosenBefore(c)' /\ Mark(c)' \notin seen
<1>1. StopAtChoices \/ (EndOfLabel /\ Offered # {})
  <2>1. ~Say
    BY DEF Say, ComesToChoices, DialogInv, TypeOK, Player
  <2> QED
    BY <2>1, StateAfter DEF ComesToChoices
<1>2. /\ Stepping /\ Offered # {}
      /\ states' = states \/ (~AtEnd /\ states' = states \cup Shown(Here))
      /\ player' = [player EXCEPT !.state = "WaitingForChoice"]
      /\ UNCHANGED <<text, call, line, mState, slots, saveFile, misread, nStarts, chosen, seen>>
  BY <1>1 DEF StopAtChoices, EndOfLabel
<1> QED
  BY <1>2, StopsKeeps, Zenon

(* Every choice that the player comes to is new: this actor, or for        *)
(* [onceever] any actor, has not chosen it under [once], whatever was      *)
(* saved, loaded or started since, and it was not shown under [showonce]   *)
(* or [temponce]; and none is withheld as chosen that was not. This is     *)
(* what isOnce and its like read of _states, which knows lines only, and   *)
(* of what parseState makes of it: of every dialog until a load has read a *)
(* record under the name of another, then of those that are told apart.    *)
THEOREM ChoicesOnce == Spec => OnceMeansOnce
<1> DEFINE New == Trusted(player.dialog) =>
                    /\ ComesToChoices =>
                         \A c \in Offered' : ~ChosenBefore(c)' /\ Mark(c)' \notin seen
                    /\ RefuseStatement /\ OnceChosen(Here) => ChosenBefore(Here)
<1>1. DialogInv /\ [Next]_vars => [New]_vars
  BY ComesToNewChoices, RefusedWasChosen, Zenon
<1> QED
  BY <1>1, DialogInvariant, PTL DEF Spec, OnceMeansOnce

(* A line being said is not cut short by the next statement that waits, of *)
(* any call, but for calls that a goto or a script led into.               *)
THEOREM LinesAreHeard == Spec => LineIsHeard
<1> DEFINE Heard == /\ player'.state = "WaitingEndAnimation"
                    /\ player.state # "WaitingEndAnimation"
                    => line # "said"
<1>1. ASSUME DialogInv, Next PROVE Heard
  <2>1. Say => line # "said"
    BY <1>1, SayKeeps
  <2>2. StopAtChoices \/ (EndOfLabel /\ Offered # {}) => player'.state = "WaitingForChoice"
    BY <1>1 DEF StopAtChoices, EndOfLabel, DialogInv, TypeOK, Player
  <2> QED
    BY <1>1, <2>1, <2>2, StateAfter
<1>2. DialogInv /\ [Next]_vars => [Heard]_vars
  BY <1>1
<1> QED
  BY <1>2, DialogInvariant, PTL DEF Spec, LineIsHeard

(* The text of a dialog is what the parser makes of its file, from the     *)
(* first state on.                                                         *)
TextRead ==
  \A d \in Dialogs :
    file[d] \in DOMAIN Library /\ text[d] = Parse(Stream(Library[file[d]]))

LEMMA FilesKept == Next => UNCHANGED <<file, text>>
<1> SUFFICES ASSUME Next PROVE UNCHANGED <<file, text>>
  OBVIOUS
<1>1. CASE Step
  <2>1. EndOfLabel \/ RefuseStatement \/ AddChoice \/ StopAtChoices \/ RunRefused
        => UNCHANGED <<file, text>>
    BY DEF EndOfLabel, RefuseStatement, AddChoice, StopAtChoices, RunRefused
  <2>2. Say \/ Code \/ Goto \/ Set => UNCHANGED <<file, text>>
    BY DEF Say, Code, Goto, Set, Runs
  <2>3. Return => UNCHANGED <<file, text>>
    BY DEF Return
  <2> QED
    BY <1>1, <2>1, <2>2, <2>3 DEF Step
<1>2. CASE UpdateDialog \/ LineEnds \/ SaveDialogs \/ LoadDialog
  BY <1>2 DEF UpdateDialog, LineEnds, SaveDialogs, LoadDialog
<1>3. CASE Starts
  BY <1>3 DEF Starts, StartDialog, CodeStartsDialog, Begin
<1>4. ASSUME NEW n \in 1..MaxSlots, Choose(n) PROVE UNCHANGED <<file, text>>
  BY <1>4 DEF Choose
<1> QED
  BY <1>1, <1>2, <1>3, <1>4 DEF Next

(* A dialog that starts is the one that its author wrote, label by label   *)
(* and line by line, whatever file it has; unless an instruction in it     *)
(* takes what follows for the argument it lacks.                           *)
THEOREM DialogsAreReadAsWritten == Spec => []ReadAsWritten
<1>1. Init => TextRead
  BY DEF Init, TextRead
<1>2. TextRead /\ [Next]_vars => TextRead'
  BY FilesKept DEF TextRead, vars
<1>3. DialogInv /\ TextRead => ReadAsWritten
  <2> SUFFICES ASSUME DialogInv, TextRead, Clear(Library[file[player.dialog]])
               PROVE  Labels(player.dialog) = Meaning(Library[file[player.dialog]])
    BY DEF ReadAsWritten
  <2> DEFINE d == player.dialog
  <2>1. d \in Dialogs
    BY DEF DialogInv, TypeOK, Player
  <2>2. file[d] \in DOMAIN Library /\ text[d] = Parse(Stream(Library[file[d]]))
    BY <2>1 DEF TextRead
  <2>3. Written(Library[file[d]])
    BY <2>2, DialogAssumption
  <2>4. Parse(Stream(Library[file[d]])) = Meaning(Library[file[d]])
    BY <2>3, ParsedAsWritten
  <2> QED
    BY <2>2, <2>4 DEF Labels
<1> QED
  BY <1>1, <1>2, <1>3, DialogInvariant, PTL DEF Spec

=============================================================================
