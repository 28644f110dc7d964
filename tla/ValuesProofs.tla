----------------------------- MODULE ValuesProofs -----------------------------
(***************************************************************************)
(* Proofs about Values for texts, numbers and paths of any length and any  *)
(* number of rounds, by the lemmas on folds of FoldingProofs.              *)
(***************************************************************************)
EXTENDS Values, FoldingProofs

-----------------------------------------------------------------------------
(* Texts.                                                                  *)

EscapeStep == [x \in Seq(Characters) \X Characters |-> x[1] \o Escape(x[2])]
ReadStep == [x \in Reading \X Characters |-> ReadCharacter(x[1], x[2])]
Unescaping == [escaped : BOOLEAN, text : Seq(Characters)]
TakeAwayStep == [x \in Unescaping \X Characters |-> TakeAway(x[1], x[2])]

LEMMA MarksAreCharacters ==
    {"\\", "'", "\"", "[", "]", ","} \subseteq Characters
BY ValuesAssumption DEF Marks

LEMMA EscapeKinds ==
    ASSUME NEW c \in Characters
    PROVE  /\ c = "\\" => Escape(c) = <<c, c>>
           /\ c = "'" => Escape(c) = <<c, c>>
           /\ c = "\"" => Escape(c) = <<"\\", c>>
           /\ c \notin {"\\", "'", "\""} => Escape(c) = <<c>>
           /\ Escape(c) \in Seq(Characters)
<1>1. c = "\\" => Escape(c) = <<c, c>>
  BY DEF Escape
<1>2. c = "'" => Escape(c) = <<c, c>>
  BY DEF Escape
<1>3. c = "\"" => Escape(c) = <<"\\", c>>
  BY DEF Escape
<1>4. c \notin {"\\", "'", "\""} => Escape(c) = <<c>>
  BY DEF Escape
<1>5. \A a \in Characters : <<a, c>> \in Seq(Characters) /\ <<c>> \in Seq(Characters)
  OBVIOUS
<1>6. QED
  BY <1>1, <1>2, <1>3, <1>4, <1>5, MarksAreCharacters

LEMMA Sanitized ==
    /\ sql_sanitize(<<>>) = <<>>
    /\ \A t \in Seq(Characters) : sql_sanitize(t) \in Seq(Characters)
    /\ \A t \in Seq(Characters), c \in Characters :
           sql_sanitize(Append(t, c)) = sql_sanitize(t) \o Escape(c)
<1>1. \A t : sql_sanitize(t) = Fold(EscapeStep, <<>>, t)
  BY DEF sql_sanitize, EscapeStep
<1>2. \A r \in Seq(Characters), c \in Characters :
        EscapeStep[<<r, c>>] = r \o Escape(c) /\ EscapeStep[<<r, c>>] \in Seq(Characters)
  <2>1. \A r \in Seq(Characters), c \in Characters : EscapeStep[<<r, c>>] = r \o Escape(c)
    BY DEF EscapeStep
  <2>2. \A r \in Seq(Characters), c \in Characters : r \o Escape(c) \in Seq(Characters)
    BY EscapeKinds, ConcatProperties
  <2>3. QED
    BY <2>1, <2>2
<1>3. \A t \in Seq(Characters) : sql_sanitize(t) \in Seq(Characters)
  <2>1. <<>> \in Seq(Characters)
    OBVIOUS
  <2>2. \A t \in Seq(Characters) : Fold(EscapeStep, <<>>, t) \in Seq(Characters)
    BY <1>2, <2>1, FoldInvariant DEF Taking
  <2>3. QED
    BY <1>1, <2>2
<1>4. ASSUME NEW t \in Seq(Characters), NEW c \in Characters
      PROVE  sql_sanitize(Append(t, c)) = sql_sanitize(t) \o Escape(c)
  <2>1. Fold(EscapeStep, <<>>, Append(t, c)) = Taking(EscapeStep, Fold(EscapeStep, <<>>, t), c)
    BY FoldAppend
  <2>2. QED
    BY <1>1, <1>2, <1>3, <2>1 DEF Taking
<1>5. QED
  BY <1>1, <1>3, <1>4, FoldEmpty

LEMMA ReadCharacterType ==
    ASSUME NEW r \in Reading, NEW c \in Characters
    PROVE  ReadCharacter(r, c) \in Reading
<1>1. \A t \in Seq(Characters), m \in {"in", "mark", "out"} :
        /\ [r EXCEPT !.mode = m] \in Reading
        /\ [r EXCEPT !.text = t] \in Reading
        /\ [r EXCEPT !.mode = m, !.text = t] \in Reading
        /\ [r EXCEPT !.mode = m, !.rest = t] \in Reading
  BY DEF Reading
<1>2. Append(r.text, c) \in Seq(Characters) /\ Append(r.rest, c) \in Seq(Characters)
  BY DEF Reading
<1>3. QED
  BY <1>1, <1>2 DEF ReadCharacter

LEMMA Read ==
    /\ ReadLiteral(<<>>) = [mode |-> "in", text |-> <<>>, rest |-> <<>>]
    /\ \A t \in Seq(Characters) : ReadLiteral(t) \in Reading
    /\ \A t \in Seq(Characters), c \in Characters :
           ReadLiteral(Append(t, c)) = ReadCharacter(ReadLiteral(t), c)
<1> DEFINE start == [mode |-> "in", text |-> <<>>, rest |-> <<>>]
<1>1. \A t : ReadLiteral(t) = Fold(ReadStep, start, t)
  BY DEF ReadLiteral, ReadStep
<1>2. start \in Reading
  BY DEF Reading
<1> HIDE DEF start
<1>3. \A r \in Reading, c \in Characters :
        ReadStep[<<r, c>>] = ReadCharacter(r, c) /\ ReadStep[<<r, c>>] \in Reading
  <2>1. \A r \in Reading, c \in Characters : ReadStep[<<r, c>>] = ReadCharacter(r, c)
    BY DEF ReadStep
  <2>2. QED
    BY <2>1, ReadCharacterType
<1>4. \A t \in Seq(Characters) : ReadLiteral(t) \in Reading
  BY <1>1, <1>2, <1>3, FoldInvariant DEF Taking
<1>5. ASSUME NEW t \in Seq(Characters), NEW c \in Characters
      PROVE  ReadLiteral(Append(t, c)) = ReadCharacter(ReadLiteral(t), c)
  <2>1. Fold(ReadStep, start, Append(t, c)) = Taking(ReadStep, Fold(ReadStep, start, t), c)
    BY FoldAppend
  <2>2. QED
    BY <1>1, <1>3, <1>4, <2>1 DEF Taking
<1>6. ReadLiteral(<<>>) = start
  BY <1>1, FoldEmpty
<1>7. QED
  BY <1>4, <1>5, <1>6 DEF start

LEMMA Unescapes ==
    /\ Unescape(<<>>) = [escaped |-> FALSE, text |-> <<>>]
    /\ \A t \in Seq(Characters) : Unescape(t) \in Unescaping
    /\ \A t \in Seq(Characters), c \in Characters :
           Unescape(Append(t, c)) = TakeAway(Unescape(t), c)
<1> DEFINE start == [escaped |-> FALSE, text |-> <<>>]
<1>1. \A t : Unescape(t) = Fold(TakeAwayStep, start, t)
  BY DEF Unescape, TakeAwayStep, Unescaping
<1>2. start \in Unescaping
  BY DEF Unescaping
<1> HIDE DEF start
<1>3. \A r \in Unescaping, c \in Characters :
        TakeAwayStep[<<r, c>>] = TakeAway(r, c) /\ TakeAwayStep[<<r, c>>] \in Unescaping
  <2>1. \A r \in Unescaping, c \in Characters : TakeAwayStep[<<r, c>>] = TakeAway(r, c)
    BY DEF TakeAwayStep
  <2>2. ASSUME NEW r \in Unescaping, NEW c \in Characters PROVE TakeAway(r, c) \in Unescaping
    <3>1. Append(r.text, c) \in Seq(Characters)
      BY DEF Unescaping
    <3>2. /\ [r EXCEPT !.escaped = TRUE] \in Unescaping
          /\ [escaped |-> FALSE, text |-> Append(r.text, c)] \in Unescaping
      BY <3>1 DEF Unescaping
    <3>3. QED
      BY <3>2 DEF TakeAway
  <2>3. QED
    BY <2>1, <2>2
<1>4. \A t \in Seq(Characters) : Unescape(t) \in Unescaping
  BY <1>1, <1>2, <1>3, FoldInvariant DEF Taking
<1>5. ASSUME NEW t \in Seq(Characters), NEW c \in Characters
      PROVE  Unescape(Append(t, c)) = TakeAway(Unescape(t), c)
  <2>1. Fold(TakeAwayStep, start, Append(t, c)) = Taking(TakeAwayStep, Fold(TakeAwayStep, start, t), c)
    BY FoldAppend
  <2>2. QED
    BY <1>1, <1>3, <1>4, <2>1 DEF Taking
<1>6. Unescape(<<>>) = start
  BY <1>1, FoldEmpty
<1>7. QED
  BY <1>4, <1>5, <1>6 DEF start

\* Two characters at the end are read one after the other.
LEMMA TwoCharacters ==
    ASSUME NEW s \in Seq(Characters), NEW a \in Characters, NEW b \in Characters
    PROVE  /\ ReadLiteral(s \o <<a>>) = ReadCharacter(ReadLiteral(s), a)
           /\ ReadLiteral(s \o <<a, b>>) = ReadCharacter(ReadCharacter(ReadLiteral(s), a), b)
<1>1. s \o <<a>> = Append(s, a) /\ s \o <<a, b>> = Append(Append(s, a), b)
  OBVIOUS
<1>2. Append(s, a) \in Seq(Characters)
  OBVIOUS
<1>3. QED
  BY <1>1, <1>2, Read

\* The text is read up to here, with nothing pending.
Inside(r) == r \in Reading /\ r.mode = "in" /\ r.rest = <<>>

\* A text without backslash and quotation mark.
Plain(t) == ~ \E i \in DOMAIN t : t[i] \in {"\\", "\""}

LEMMA PlainAppend ==
    ASSUME NEW t \in Seq(Characters), NEW c \in Characters, Plain(Append(t, c))
    PROVE  Plain(t) /\ c \notin {"\\", "\""}
<1> DEFINE u == Append(t, c)
<1>1. /\ DOMAIN u = 1..(Len(t) + 1) /\ DOMAIN t = 1..Len(t) /\ Len(t) \in Nat
      /\ \A i \in 1..Len(t) : u[i] = t[i]
      /\ u[Len(t) + 1] = c
  OBVIOUS
<1>2. Plain(u)
  OBVIOUS
<1> HIDE DEF u
<1>3. c \notin {"\\", "\""}
  <2>1. Len(t) + 1 \in DOMAIN u
    BY <1>1
  <2>2. QED
    BY <1>1, <1>2, <2>1 DEF Plain
<1>4. ASSUME NEW i \in DOMAIN t PROVE t[i] \notin {"\\", "\""}
  <2>1. i \in DOMAIN u /\ u[i] = t[i]
    BY <1>1
  <2>2. QED
    BY <1>2, <2>1 DEF Plain
<1>5. QED
  BY <1>3, <1>4 DEF Plain

\* One character of a text, escaped and read: what was read before grows by the
\* character, or by it and a backslash, which TakeAway takes away again.
LEMMA EscapeIsRead ==
    ASSUME NEW s \in Seq(Characters), Inside(ReadLiteral(s)), NEW c \in Characters,
           NEW t \in Seq(Characters),
           Unescape(ReadLiteral(s).text) = [escaped |-> FALSE, text |-> t]
    PROVE  /\ Inside(ReadLiteral(s \o Escape(c)))
           /\ Unescape(ReadLiteral(s \o Escape(c)).text)
                = [escaped |-> FALSE, text |-> Append(t, c)]
           /\ c \notin {"\\", "\""} =>
                ReadLiteral(s \o Escape(c)).text = Append(ReadLiteral(s).text, c)
<1> DEFINE r == ReadLiteral(s)
<1>0. /\ r \in Reading /\ r.mode = "in" /\ r.rest = <<>> /\ r.text \in Seq(Characters)
      /\ Unescape(r.text) = [escaped |-> FALSE, text |-> t]
  BY DEF Inside, Reading
<1> HIDE DEF r
<1>1. \A a \in Characters : Append(r.text, a) \in Seq(Characters)
  BY <1>0
<1>2. \A a \in Characters : Unescape(Append(r.text, a)) = TakeAway([escaped |-> FALSE, text |-> t], a)
  BY <1>0, Unescapes
<1>3. \A u \in Seq(Characters) : [r EXCEPT !.text = u] \in Reading /\ [r EXCEPT !.text = u].mode = "in"
                             /\ [r EXCEPT !.text = u].rest = <<>> /\ [r EXCEPT !.text = u].text = u
  BY <1>0 DEF Reading
<1> DEFINE q == ReadLiteral(s \o Escape(c))
<1>4. ASSUME NEW u \in Seq(Characters), q = [r EXCEPT !.text = u],
             Unescape(u) = [escaped |-> FALSE, text |-> Append(t, c)],
             c \in {"\\", "\""} \/ u = Append(r.text, c)
      PROVE  /\ Inside(q)
             /\ Unescape(q.text) = [escaped |-> FALSE, text |-> Append(t, c)]
             /\ c \notin {"\\", "\""} => q.text = Append(r.text, c)
  <2> HIDE DEF q
  <2>1. Inside(q) /\ q.text = u
    BY <1>3, <1>4 DEF Inside
  <2>2. QED
    BY <1>4, <2>1
<1> HIDE DEF q
<1>5. CASE c \notin {"\\", "'", "\""}
  <2>1. Escape(c) = <<c>>
    BY <1>5, EscapeKinds
  <2>2. q = ReadCharacter(r, c)
    BY <2>1, TwoCharacters DEF r, q
  <2>3. ReadCharacter(r, c) = [r EXCEPT !.text = Append(r.text, c)]
    BY <1>0, <1>5 DEF ReadCharacter
  <2>4. TakeAway([escaped |-> FALSE, text |-> t], c) = [escaped |-> FALSE, text |-> Append(t, c)]
    BY <1>5 DEF TakeAway
  <2>5. QED
    BY <1>1, <1>2, <1>4, <2>2, <2>3, <2>4 DEF r, q
<1>6. CASE c = "'"
  <2>1. Escape(c) = <<c, c>>
    BY <1>6, EscapeKinds
  <2>2. q = ReadCharacter(ReadCharacter(r, c), c)
    BY <2>1, TwoCharacters DEF r, q
  <2>3. ReadCharacter(r, c) = [r EXCEPT !.mode = "mark"]
    BY <1>0, <1>6 DEF ReadCharacter
  <2>4. ReadCharacter([r EXCEPT !.mode = "mark"], c) = [r EXCEPT !.text = Append(r.text, c)]
    <3>1. /\ [r EXCEPT !.mode = "mark"].mode = "mark"
          /\ [r EXCEPT !.mode = "mark"].text = r.text
          /\ \A u : [[r EXCEPT !.mode = "mark"] EXCEPT !.mode = "in", !.text = u] = [r EXCEPT !.text = u]
      BY <1>0 DEF Reading
    <3>2. QED
      BY <1>6, <3>1 DEF ReadCharacter
  <2>5. TakeAway([escaped |-> FALSE, text |-> t], c) = [escaped |-> FALSE, text |-> Append(t, c)]
    BY <1>6 DEF TakeAway
  <2>6. QED
    BY <1>1, <1>2, <1>4, <2>2, <2>3, <2>4, <2>5 DEF r, q
<1>7. CASE c \in {"\\", "\""}
  <2>1. "\\" \in Characters
    BY MarksAreCharacters
  <2> DEFINE u == Append(r.text, "\\")
  <2>2. Escape(c) = <<"\\", c>>
    BY <1>7, EscapeKinds
  <2>3. q = ReadCharacter(ReadCharacter(r, "\\"), c)
    BY <2>1, <2>2, TwoCharacters DEF r, q
  <2>4. ReadCharacter(r, "\\") = [r EXCEPT !.text = u]
    BY <1>0 DEF ReadCharacter
  <2>5. u \in Seq(Characters)
    BY <1>1, <2>1
  <2>6. Unescape(u) = [escaped |-> TRUE, text |-> t]
    <3>1. TakeAway([escaped |-> FALSE, text |-> t], "\\") = [escaped |-> TRUE, text |-> t]
      BY DEF TakeAway
    <3>2. QED
      BY <1>2, <2>1, <3>1
  <2> HIDE DEF u
  <2>7. ReadCharacter([r EXCEPT !.text = u], c) = [r EXCEPT !.text = Append(u, c)]
    <3>1. /\ [r EXCEPT !.text = u].mode = "in" /\ [r EXCEPT !.text = u].text = u
          /\ \A v : [[r EXCEPT !.text = u] EXCEPT !.text = v] = [r EXCEPT !.text = v]
      BY <1>0 DEF Reading
    <3>2. QED
      BY <1>7, <3>1 DEF ReadCharacter
  <2>8. Append(u, c) \in Seq(Characters)
    BY <2>5
  <2>9. Unescape(Append(u, c)) = [escaped |-> FALSE, text |-> Append(t, c)]
    <3>1. Unescape(Append(u, c)) = TakeAway([escaped |-> TRUE, text |-> t], c)
      BY <2>5, <2>6, Unescapes
    <3>2. TakeAway([escaped |-> TRUE, text |-> t], c) = [escaped |-> FALSE, text |-> Append(t, c)]
      BY DEF TakeAway
    <3>3. QED
      BY <3>1, <3>2
  <2>10. q = [r EXCEPT !.text = Append(u, c)]
    BY <2>3, <2>4, <2>7
  <2>11. QED
    BY <1>4, <1>7, <2>8, <2>9, <2>10 DEF r, q
<1>8. QED
  BY <1>5, <1>6, <1>7

\* What PostgreSQL reads of a sanitized text: all of it, and no text is lost.
LEMMA SanitizedIsRead ==
    ASSUME NEW t \in Seq(Characters)
    PROVE  /\ Inside(ReadLiteral(sql_sanitize(t)))
           /\ Unescape(ReadLiteral(sql_sanitize(t)).text) = [escaped |-> FALSE, text |-> t]
           /\ Plain(t) => ReadLiteral(sql_sanitize(t)).text = t
<1> DEFINE Right(s) == /\ Inside(ReadLiteral(sql_sanitize(s)))
                       /\ Unescape(ReadLiteral(sql_sanitize(s)).text) = [escaped |-> FALSE, text |-> s]
                       /\ Plain(s) => ReadLiteral(sql_sanitize(s)).text = s
           T == {s \in Seq(Characters) : Right(s)}
<1>1. <<>> \in T
  <2>1. <<>> \in Seq(Characters)
    OBVIOUS
  <2>2. [mode |-> "in", text |-> <<>>, rest |-> <<>>] \in Reading
    BY <2>1 DEF Reading
  <2>3. ReadLiteral(sql_sanitize(<<>>)) = [mode |-> "in", text |-> <<>>, rest |-> <<>>]
    BY Sanitized, Read
  <2>4. /\ Inside(ReadLiteral(sql_sanitize(<<>>)))
        /\ ReadLiteral(sql_sanitize(<<>>)).text = <<>>
    BY <2>2, <2>3 DEF Inside
  <2>5. QED
    BY <2>1, <2>4, Unescapes
<1>2. ASSUME NEW s \in T, NEW c \in Characters PROVE Append(s, c) \in T
  <2>1. s \in Seq(Characters) /\ Right(s) /\ Append(s, c) \in Seq(Characters)
    OBVIOUS
  <2>2. /\ sql_sanitize(s) \in Seq(Characters)
        /\ sql_sanitize(Append(s, c)) = sql_sanitize(s) \o Escape(c)
    BY <2>1, Sanitized
  <2>3. /\ Inside(ReadLiteral(sql_sanitize(Append(s, c))))
        /\ Unescape(ReadLiteral(sql_sanitize(Append(s, c))).text)
             = [escaped |-> FALSE, text |-> Append(s, c)]
        /\ c \notin {"\\", "\""} =>
             ReadLiteral(sql_sanitize(Append(s, c))).text = Append(ReadLiteral(sql_sanitize(s)).text, c)
    BY <2>1, <2>2, EscapeIsRead
  <2>4. QED
    BY <2>1, <2>3, PlainAppend
<1>3. T \in SUBSET Seq(Characters)
  OBVIOUS
<1> HIDE DEF T
<1>4. T = Seq(Characters)
  BY <1>1, <1>2, <1>3, SequenceInduction
<1>5. QED
  BY <1>4 DEF T

LEMMA StoredText ==
    ASSUME NEW t \in Seq(Characters)
    PROVE  /\ Stored(t) \in Seq(Characters)
           /\ Unescaped(Stored(t)) = t
           /\ Plain(t) => Stored(t) = t
           /\ ReadLiteral(sql_sanitize(t) \o <<"'", ",">>)
                = [mode |-> "out", text |-> Stored(t), rest |-> <<",">>]
<1> DEFINE s == sql_sanitize(t)
           r == ReadLiteral(s)
<1>1. s \in Seq(Characters) /\ "'" \in Characters /\ "," \in Characters
  BY Sanitized, MarksAreCharacters
<1>2. /\ Inside(r)
      /\ Unescape(r.text) = [escaped |-> FALSE, text |-> t]
      /\ Plain(t) => r.text = t
  BY SanitizedIsRead
<1> HIDE DEF s, r
<1>3. r \in Reading /\ r.mode = "in" /\ r.text \in Seq(Characters) /\ r.rest = <<>>
  BY <1>2 DEF Inside, Reading
<1>4. \A a, b \in Characters :
        /\ Append(s, a) = s \o <<a>>
        /\ ReadLiteral(s \o <<a>>) = ReadCharacter(r, a)
        /\ ReadLiteral(s \o <<a, b>>) = ReadCharacter(ReadCharacter(r, a), b)
        /\ Append(<<>>, a) = <<a>>
  <2>1. \A a \in Characters : Append(s, a) = s \o <<a>>
    BY <1>1, AppendIsConcat
  <2>2. \A a : Append(<<>>, a) = <<a>>
    OBVIOUS
  <2>3. QED
    BY <1>1, <2>1, <2>2, TwoCharacters DEF r
<1>5. PICK mark \in Characters, comma \in Characters : mark = "'" /\ comma = ","
  BY <1>1
<1> DEFINE q == ReadCharacter(r, mark)
<1>6. q \in Reading /\ q.mode = "mark" /\ q.text = r.text /\ q.rest = <<>>
  <2>1. q = [r EXCEPT !.mode = "mark"]
    BY <1>3, <1>5 DEF ReadCharacter
  <2>2. QED
    BY <1>3, <2>1 DEF Reading
<1> HIDE DEF q
<1>7. ReadCharacter(q, comma) = [mode |-> "out", text |-> r.text, rest |-> <<comma>>]
  <2>1. ReadCharacter(q, comma) = [q EXCEPT !.mode = "out", !.rest = Append(q.rest, comma)]
    BY <1>5, <1>6 DEF ReadCharacter
  <2>2. Append(q.rest, comma) = <<comma>>
    BY <1>4, <1>6
  <2>3. ASSUME NEW rest \in Seq(Characters)
        PROVE  [q EXCEPT !.mode = "out", !.rest = rest]
                 = [mode |-> "out", text |-> q.text, rest |-> rest]
    <3> DEFINE u == [q EXCEPT !.mode = "out", !.rest = rest]
    <3>1. u \in Reading /\ u.mode = "out" /\ u.text = q.text /\ u.rest = rest
      BY <1>6 DEF Reading
    <3> HIDE DEF u
    <3>2. u = [mode |-> u.mode, text |-> u.text, rest |-> u.rest]
      BY <3>1 DEF Reading
    <3>3. QED
      BY <3>1, <3>2 DEF u
  <2>4. <<comma>> \in Seq(Characters)
    OBVIOUS
  <2>5. QED
    BY <1>6, <2>1, <2>2, <2>3, <2>4
<1>8. /\ ReadLiteral(s \o <<mark>>) = q
      /\ ReadLiteral(s \o <<mark, comma>>) = [mode |-> "out", text |-> r.text, rest |-> <<comma>>]
  BY <1>4, <1>7 DEF q
<1>9. Stored(t) = ReadLiteral(Append(s, mark)).text
  BY <1>5 DEF Stored, s
<1>10. Stored(t) = r.text
  BY <1>4, <1>6, <1>8, <1>9
<1>11. ReadLiteral(s \o <<"'", ",">>) = [mode |-> "out", text |-> r.text, rest |-> <<",">>]
  BY <1>5, <1>8
<1>12. Unescaped(Stored(t)) = t
  BY <1>2, <1>10 DEF Unescaped
<1>13. QED
  BY <1>2, <1>3, <1>10, <1>11, <1>12 DEF s

UndoStep == [x \in Seq(Characters) \X Nat |-> Unescaped(x[1])]

\* Undoing n rounds is undoing one and then the others.
LEMMA Undoing ==
    /\ \A t \in Seq(Characters) : Undone(t, 0) = t
    /\ \A t \in Seq(Characters), n \in Nat : Undone(t, n + 1) = Undone(Unescaped(t), n)
<1> DEFINE Count(n) == [i \in 1..n |-> i]
<1>1. ASSUME NEW n \in Nat
      PROVE  Count(n) \in Seq(Nat) /\ Count(n + 1) = Append(Count(n), n + 1)
  <2>1. Count(n) \in Seq(Nat) /\ Len(Count(n)) = n
    OBVIOUS
  <2>2. Count(n + 1) \in Seq(Nat) /\ Len(Count(n + 1)) = n + 1
    OBVIOUS
  <2>3. /\ Append(Count(n), n + 1) \in Seq(Nat)
        /\ Len(Append(Count(n), n + 1)) = n + 1
        /\ \A i \in 1..n : Append(Count(n), n + 1)[i] = i
        /\ Append(Count(n), n + 1)[n + 1] = n + 1
    BY <2>1, AppendProperties
  <2>4. \A i \in 1..(n + 1) : Count(n + 1)[i] = Append(Count(n), n + 1)[i]
    BY <2>3
  <2> HIDE DEF Count
  <2>5. QED
    BY <2>1, <2>2, <2>3, <2>4, SeqEqual
<1>2. Count(0) = <<>>
  OBVIOUS
<1>3. \A t : \A n \in Nat : Undone(t, n) = Fold(UndoStep, t, Count(n))
  BY DEF Undone, UndoStep
<1> HIDE DEF Count
<1>4. \A t \in Seq(Characters) : Unescaped(t) \in Seq(Characters)
  BY Unescapes DEF Unescaped, Unescaping
<1>5. \A t \in Seq(Characters), n \in Nat :
        UndoStep[<<t, n>>] = Unescaped(t) /\ UndoStep[<<t, n>>] \in Seq(Characters)
  BY <1>4 DEF UndoStep
<1>6. \A t : Undone(t, 0) = t
  BY <1>2, <1>3, FoldEmpty
<1>7. ASSUME NEW t \in Seq(Characters), NEW n \in Nat
      PROVE  /\ Undone(t, n) \in Seq(Characters)
             /\ Undone(t, n + 1) = Unescaped(Undone(t, n))
  <2>1. Fold(UndoStep, t, Count(n)) \in Seq(Characters)
    BY <1>1, <1>5, FoldInvariant DEF Taking
  <2>2. Fold(UndoStep, t, Append(Count(n), n + 1)) = Taking(UndoStep, Fold(UndoStep, t, Count(n)), n + 1)
    <3> DEFINE S == Nat
               next == n + 1
    <3>1. Count(n) \in Seq(S) /\ next \in S
      BY <1>1
    <3> HIDE DEF S, next
    <3>2. Fold(UndoStep, t, Append(Count(n), next)) = Taking(UndoStep, Fold(UndoStep, t, Count(n)), next)
      BY <3>1, FoldAppend
    <3>3. QED
      BY <3>2 DEF next
  <2>3. n + 1 \in Nat /\ Undone(t, n + 1) = Fold(UndoStep, t, Append(Count(n), n + 1))
    <3>1. n + 1 \in Nat
      OBVIOUS
    <3>2. Undone(t, n + 1) = Fold(UndoStep, t, Count(n + 1))
      BY <1>3, <3>1
    <3>3. QED
      BY <1>1, <3>1, <3>2
  <2>4. UndoStep[<<Fold(UndoStep, t, Count(n)), n + 1>>] = Unescaped(Fold(UndoStep, t, Count(n)))
    BY <1>5, <2>1, <2>3
  <2>5. QED
    BY <1>3, <2>1, <2>2, <2>3, <2>4 DEF Taking
<1>8. ASSUME NEW t \in Seq(Characters)
      PROVE  \A n \in Nat : Undone(t, n + 1) = Undone(Unescaped(t), n)
  <2> DEFINE N == {n \in Nat : Undone(t, n + 1) = Undone(Unescaped(t), n)}
  <2>1. 0 \in N
    BY <1>4, <1>6, <1>7
  <2>2. ASSUME NEW n \in N PROVE n + 1 \in N
    <3>1. n \in Nat /\ n + 1 \in Nat
      OBVIOUS
    <3>2. Undone(t, (n + 1) + 1) = Unescaped(Undone(t, n + 1))
      BY <1>7, <3>1
    <3>3. Undone(Unescaped(t), n + 1) = Unescaped(Undone(Unescaped(t), n))
      BY <1>4, <1>7, <3>1
    <3>4. QED
      BY <3>1, <3>2, <3>3
  <2>3. N \in SUBSET Nat
    OBVIOUS
  <2> HIDE DEF N
  <2>4. N = Nat
    BY <2>1, <2>2, <2>3, Induction
  <2>5. QED
    BY <2>4 DEF N
<1>9. QED
  BY <1>6, <1>8

-----------------------------------------------------------------------------
(* Numbers.                                                                *)

LEMMA Division ==
    ASSUME NEW M \in Nat \ {0}, NEW n \in Int
    PROVE  n = (M * (n \div M)) + (n % M) /\ n \div M \in Int
<1>1. n = (M * (n \div M)) + (n % M)
  OBVIOUS
<1>2. n \div M \in Int
  OBVIOUS
<1>3. QED
  BY <1>1, <1>2

\* An int is what it is; any other number is the int with the same low bits.
LEMMA Narrowed ==
    ASSUME NEW n \in Int
    PROVE  /\ narrow(n) \in -Half .. Half - 1
           /\ (narrow(n) - n) % (2 * Half) = 0
           /\ n \in -Half .. Half - 1 => narrow(n) = n
<1> DEFINE M == 2 * Half
<1>1. Half \in Nat \ {0} /\ M \in Nat \ {0} /\ M = Half + Half
  BY ValuesAssumption
<1>2. narrow(n) = ((n + Half) % M) - Half
  BY DEF narrow
<1> HIDE DEF M
<1>3. (n + Half) % M \in 0..(M - 1)
  BY <1>1
<1>4. PICK k \in Int : n + Half = (M * k) + ((n + Half) % M)
  <2> DEFINE m == n + Half
  <2>1. m \in Int
    BY <1>1
  <2> HIDE DEF m
  <2>2. m = (M * (m \div M)) + (m % M) /\ m \div M \in Int
    BY <1>1, <2>1, Division
  <2>3. \E k \in Int : m = (M * k) + (m % M)
    BY <2>2
  <2>4. QED
    BY <2>3 DEF m
<1>5. narrow(n) - n = M * (-k)
  BY <1>1, <1>2, <1>3, <1>4
<1>6. (M * (-k)) % M = 0
  BY <1>1
<1>7. n \in -Half .. Half - 1 => (n + Half) % M = n + Half
  BY <1>1
<1>8. QED
  BY <1>1, <1>2, <1>3, <1>5, <1>6, <1>7 DEF M

-----------------------------------------------------------------------------
(* Paths.  That a JSON value can be told from its text is shown with a      *)
(* reader that gets it back, token by token.                                *)

JoinStep ==
    [x \in Seq(Characters) \X Seq(Characters) |->
        IF x[1] = <<>> THEN x[2] ELSE x[1] \o <<",">> \o x[2]]

LEMMA OneCharacter ==
    \A c \in Characters : <<c>> \in Seq(Characters) /\ <<c>> = Append(<<>>, c)
OBVIOUS

LEMMA Joined ==
    /\ WithCommas(<<>>) = <<>>
    /\ \A ts \in Seq(Seq(Characters)) : WithCommas(ts) \in Seq(Characters)
    /\ \A ts \in Seq(Seq(Characters)), t \in Seq(Characters) :
          WithCommas(Append(ts, t)) =
            IF WithCommas(ts) = <<>> THEN t ELSE WithCommas(ts) \o <<",">> \o t
<1>1. \A ts : WithCommas(ts) = Fold(JoinStep, <<>>, ts)
  BY DEF WithCommas, JoinStep
<1> DEFINE S == Seq(Characters)
<1>2. <<>> \in S /\ <<",">> \in S
  <2>1. <<>> \in S
    OBVIOUS
  <2>2. "," \in Characters
    BY MarksAreCharacters
  <2>3. QED
    BY <2>1, <2>2, OneCharacter
<1>3. \A a, b \in S :
        /\ JoinStep[<<a, b>>] = IF a = <<>> THEN b ELSE a \o <<",">> \o b
        /\ JoinStep[<<a, b>>] \in S
  <2>1. \A a, b \in S : JoinStep[<<a, b>>] = IF a = <<>> THEN b ELSE a \o <<",">> \o b
    BY DEF JoinStep
  <2>2. \A a, b \in S : a \o <<",">> \o b \in S
    BY <1>2, ConcatProperties
  <2>3. QED
    BY <2>1, <2>2
<1> HIDE DEF S
<1>4. \A ts \in Seq(S) : WithCommas(ts) \in S
  BY <1>1, <1>2, <1>3, FoldInvariant DEF Taking
<1>5. ASSUME NEW ts \in Seq(S), NEW t \in S
      PROVE  WithCommas(Append(ts, t)) =
               IF WithCommas(ts) = <<>> THEN t ELSE WithCommas(ts) \o <<",">> \o t
  <2>1. Fold(JoinStep, <<>>, Append(ts, t)) = Taking(JoinStep, Fold(JoinStep, <<>>, ts), t)
    BY FoldAppend
  <2>2. QED
    BY <1>1, <1>3, <1>4, <2>1 DEF Taking
<1>6. WithCommas(<<>>) = <<>>
  BY <1>1, FoldEmpty
<1>7. QED
  BY <1>4, <1>5, <1>6 DEF S

JsonValues == Scalars \union Lists(Flats)

\* A reader inside depth brackets: the values it has read at each depth.
Reader ==
    [quote : {"no", "open", "close"}, depth : 0..2,
     inner : Seq(Scalars), outer : Seq(Flats), top : Seq(JsonValues)]

At(depth, inner, outer, top) ==
    [quote |-> "no", depth |-> depth, inner |-> inner, outer |-> outer, top |-> top]

ListOf(items) == [t |-> "List", l |-> items]

Push(r, x) ==
    CASE r.depth = 2 -> [r EXCEPT !.inner = Append(r.inner, x)]
      [] r.depth = 1 -> [r EXCEPT !.outer = Append(r.outer, x)]
      [] r.depth = 0 -> [r EXCEPT !.top = Append(r.top, x)]

Unquoted(r, c) ==
    CASE c = "\"" -> [r EXCEPT !.quote = "open"]
      [] c = "[" -> [r EXCEPT !.depth = r.depth + 1]
      [] c = "]" -> IF r.depth = 2
                    THEN At(1, <<>>, Append(r.outer, ListOf(r.inner)), r.top)
                    ELSE At(0, <<>>, <<>>, Append(r.top, ListOf(r.outer)))
      [] c = "," -> r
      [] OTHER -> Push(r, [t |-> "Number", n |-> c])

ReadToken(r, c) ==
    CASE r.quote = "no" -> Unquoted(r, c)
      [] r.quote = "open" -> [Push(r, [t |-> "String", s |-> c]) EXCEPT !.quote = "close"]
      [] r.quote = "close" -> [r EXCEPT !.quote = "no"]

TokenStep == [x \in Reader \X Characters |-> ReadToken(x[1], x[2])]

Run(r, s) == Fold(TokenStep, r, s)

LEMMA Running ==
    ASSUME NEW r
    PROVE  /\ Run(r, <<>>) = r
           /\ \A s, u \in Seq(Characters) : Run(r, s \o u) = Run(Run(r, s), u)
           /\ \A c \in Characters : r \in Reader => Run(r, <<c>>) = ReadToken(r, c)
<1>1. Run(r, <<>>) = r
  BY FoldEmpty DEF Run
<1>2. \A s, u \in Seq(Characters) : Run(r, s \o u) = Run(Run(r, s), u)
  BY FoldConcat DEF Run
<1>3. ASSUME NEW c \in Characters, r \in Reader PROVE Run(r, <<c>>) = ReadToken(r, c)
  <2> DEFINE none == <<>>
  <2>1. none \in Seq(Characters)
    OBVIOUS
  <2> HIDE DEF none
  <2>2. Fold(TokenStep, r, Append(none, c)) = Taking(TokenStep, Fold(TokenStep, r, none), c)
    BY <2>1, FoldAppend
  <2>3. TokenStep[<<r, c>>] = ReadToken(r, c)
    BY <1>3 DEF TokenStep
  <2>4. QED
    BY <1>1, <2>2, <2>3, OneCharacter DEF Run, none, Taking
<1>4. QED
  BY <1>1, <1>2, <1>3

\* Items written each by itself.
Mapped(D, l) == [i \in DOMAIN l |-> D[l[i]]]

LEMMA MapAppend ==
    ASSUME NEW S, NEW D, NEW R, \A x \in S : D[x] \in R
    PROVE  /\ Mapped(D, <<>>) = <<>>
           /\ \A l \in Seq(S) : Mapped(D, l) \in Seq(R)
           /\ \A l \in Seq(S), x \in S : Mapped(D, Append(l, x)) = Append(Mapped(D, l), D[x])
<1>1. Mapped(D, <<>>) = <<>>
  BY DEF Mapped
<1>2. ASSUME NEW l \in Seq(S)
      PROVE  /\ Mapped(D, l) \in Seq(R) /\ Len(Mapped(D, l)) = Len(l)
             /\ \A i \in 1..Len(l) : Mapped(D, l)[i] = D[l[i]]
  <2>1. DOMAIN l = 1..Len(l) /\ Len(l) \in Nat /\ \A i \in 1..Len(l) : l[i] \in S
    OBVIOUS
  <2>2. Mapped(D, l) = [i \in 1..Len(l) |-> D[l[i]]]
    BY <2>1 DEF Mapped
  <2>3. QED
    BY <2>1, <2>2
<1>3. ASSUME NEW l \in Seq(S), NEW x \in S
      PROVE  Mapped(D, Append(l, x)) = Append(Mapped(D, l), D[x])
  <2>1. /\ Append(l, x) \in Seq(S) /\ Len(Append(l, x)) = Len(l) + 1 /\ Len(l) \in Nat
        /\ \A i \in 1..Len(l) : Append(l, x)[i] = l[i]
        /\ Append(l, x)[Len(l) + 1] = x
    BY AppendProperties, LenProperties
  <2> DEFINE m == Mapped(D, Append(l, x))
             a == Append(Mapped(D, l), D[x])
  <2>2. /\ m \in Seq(R) /\ Len(m) = Len(l) + 1
        /\ \A i \in 1..(Len(l) + 1) : m[i] = D[Append(l, x)[i]]
    BY <1>2, <2>1
  <2>3. /\ a \in Seq(R) /\ Len(a) = Len(l) + 1
        /\ \A i \in 1..Len(l) : a[i] = D[l[i]]
        /\ a[Len(l) + 1] = D[x]
    BY <1>2, AppendProperties
  <2> HIDE DEF m, a
  <2>4. \A i \in 1..(Len(l) + 1) : m[i] = a[i]
    BY <2>1, <2>2, <2>3
  <2>5. m = a
    BY <2>2, <2>3, <2>4, SeqEqual
  <2>6. QED
    BY <2>5 DEF m, a
<1>4. QED
  BY <1>1, <1>2, <1>3

LEMMA RunThrough ==
    ASSUME NEW r, NEW w \in Seq(Characters), NEW comma \in Seq(Characters),
           NEW item \in Seq(Characters)
    PROVE  Run(r, w \o comma \o item) = Run(Run(Run(r, w), comma), item)
<1> DEFINE v == w \o comma
           Through(s) == \A u \in Seq(Characters) : Run(r, s \o u) = Run(Run(r, s), u)
<1>1. v \in Seq(Characters)
  BY ConcatProperties
<1>2. \A s \in Seq(Characters) : Through(s)
  BY Running
<1>3. Through(w)
  BY <1>2
<1>4. Run(r, v) = Run(Run(r, w), comma)
  BY <1>3
<1> HIDE DEF v
<1>5. Through(v)
  BY <1>1, <1>2
<1>6. Run(r, v \o item) = Run(Run(r, v), item)
  BY <1>5
<1>7. QED
  BY <1>4, <1>6 DEF v

\* The reader gets each item by itself; G[a] is the reader with the items a.
Gets(S, D, G) ==
    /\ \A x \in S : D[x] \in Seq(Characters)
    /\ \A a \in Seq(S), x \in S : Run(G[a], D[x]) = G[Append(a, x)]
    /\ \A a \in Seq(S) : Run(G[a], <<",">>) = G[a]

\* Then it gets the items with commas between them.
LEMMA ListRead ==
    ASSUME NEW S, NEW D, NEW G, Gets(S, D, G)
    PROVE  \A l \in Seq(S) :
             /\ WithCommas(Mapped(D, l)) \in Seq(Characters)
             /\ Run(G[<<>>], WithCommas(Mapped(D, l))) = G[l]
<1> DEFINE R == Seq(Characters)
           start == G[<<>>]
<1>1. /\ Mapped(D, <<>>) = <<>>
      /\ \A l \in Seq(S) : Mapped(D, l) \in Seq(R)
      /\ \A l \in Seq(S), x \in S : Mapped(D, Append(l, x)) = Append(Mapped(D, l), D[x])
  <2>1. \A x \in S : D[x] \in R
    BY DEF Gets
  <2> HIDE DEF R
  <2>2. QED
    BY <2>1, MapAppend
<1>2. \A l \in Seq(S) : WithCommas(Mapped(D, l)) \in R
  BY <1>1, Joined
<1>3. Run(start, WithCommas(Mapped(D, <<>>))) = start
  BY <1>1, Joined, Running
<1> HIDE DEF start
<1>4. ASSUME NEW l \in Seq(S), NEW x \in S, Run(start, WithCommas(Mapped(D, l))) = G[l]
      PROVE  Run(start, WithCommas(Mapped(D, Append(l, x)))) = G[Append(l, x)]
  <2> DEFINE w == WithCommas(Mapped(D, l))
             comma == <<",">>
             item == D[x]
  <2>1. w \in R /\ item \in R /\ comma \in R
    BY <1>2, OneCharacter, MarksAreCharacters DEF Gets
  <2>2. WithCommas(Mapped(D, Append(l, x))) = IF w = <<>> THEN item ELSE w \o comma \o item
    BY <1>1, <2>1, Joined
  <2>3. Run(start, w) = G[l] /\ Run(G[l], comma) = G[l] /\ Run(G[l], item) = G[Append(l, x)]
    BY <1>4 DEF Gets
  <2> HIDE DEF w, comma, item
  <2>4. CASE w = <<>>
    <3>1. start = G[l]
      BY <2>3, <2>4, Running
    <3>2. QED
      BY <2>2, <2>3, <2>4, <3>1
  <2>5. CASE w # <<>>
    <3>1. Run(start, w \o comma \o item) = Run(Run(Run(start, w), comma), item)
      BY <2>1, RunThrough
    <3>2. QED
      BY <2>2, <2>3, <2>5, <3>1
  <2>6. QED
    BY <2>4, <2>5
<1> DEFINE T == {l \in Seq(S) : Run(start, WithCommas(Mapped(D, l))) = G[l]}
<1>5. <<>> \in T
  BY <1>3 DEF start
<1>6. ASSUME NEW l \in T, NEW x \in S PROVE Append(l, x) \in T
  <2>1. l \in Seq(S) /\ Run(start, WithCommas(Mapped(D, l))) = G[l]
    OBVIOUS
  <2>2. Append(l, x) \in Seq(S)
    BY <2>1, AppendProperties
  <2>3. QED
    BY <1>4, <2>1, <2>2
<1>7. T \in SUBSET Seq(S)
  OBVIOUS
<1>8. T = Seq(S)
  <2> HIDE DEF T
  <2>1. QED
    BY <1>5, <1>6, <1>7, SequenceInduction
<1>9. QED
  BY <1>2, <1>8 DEF start

-----------------------------------------------------------------------------
(* The reader and what was dumped.                                          *)

LEMMA AtIsReader ==
    ASSUME NEW depth \in 0..2, NEW inner \in Seq(Scalars), NEW outer \in Seq(Flats),
           NEW top \in Seq(JsonValues)
    PROVE  /\ At(depth, inner, outer, top) \in Reader
           /\ At(depth, inner, outer, top).quote = "no"
           /\ At(depth, inner, outer, top).depth = depth
BY DEF At, Reader

LEMMA Kinds ==
    /\ Scalars \subseteq Flats /\ Flats \subseteq JsonValues /\ Scalars \subseteq JsonValues
    /\ \A l \in Seq(Scalars) : ListOf(l) \in Flats /\ ListOf(l) \in JsonValues
    /\ \A l \in Seq(Flats) : ListOf(l) \in JsonValues
<1>1. Scalars \subseteq Flats /\ \A l \in Seq(Scalars) : ListOf(l) \in Flats
  BY DEF Flats, Lists, ListOf
<1>2. \A l \in Seq(Flats) : ListOf(l) \in JsonValues
  BY DEF JsonValues, Lists, ListOf
<1>3. \A l \in Seq(Scalars) : l \in Seq(Flats)
  BY <1>1
<1>4. Lists(Scalars) \subseteq Lists(Flats)
  BY <1>3 DEF Lists
<1>5. Flats \subseteq JsonValues /\ Scalars \subseteq JsonValues
  BY <1>4 DEF Flats, JsonValues
<1>6. QED
  BY <1>1, <1>2, <1>5

LEMMA Pushed ==
    ASSUME NEW r \in Reader, NEW x \in Scalars
    PROVE  /\ Push(r, x) \in Reader /\ Push(r, x).quote = r.quote
           /\ \A q \in {"no", "open", "close"} :
                  Push([r EXCEPT !.quote = q], x) = [Push(r, x) EXCEPT !.quote = q]
<1>1. /\ r.depth \in {0, 1, 2}
      /\ Append(r.inner, x) \in Seq(Scalars) /\ Append(r.outer, x) \in Seq(Flats)
      /\ Append(r.top, x) \in Seq(JsonValues)
  BY Kinds DEF Reader
<1>2. /\ r.depth = 2 => Push(r, x) = [r EXCEPT !.inner = Append(r.inner, x)]
      /\ r.depth = 1 => Push(r, x) = [r EXCEPT !.outer = Append(r.outer, x)]
      /\ r.depth = 0 => Push(r, x) = [r EXCEPT !.top = Append(r.top, x)]
  BY DEF Push
<1>3. \A i \in Seq(Scalars), o \in Seq(Flats), u \in Seq(JsonValues) :
        /\ [r EXCEPT !.inner = i] \in Reader /\ [r EXCEPT !.inner = i].quote = r.quote
        /\ [r EXCEPT !.outer = o] \in Reader /\ [r EXCEPT !.outer = o].quote = r.quote
        /\ [r EXCEPT !.top = u] \in Reader /\ [r EXCEPT !.top = u].quote = r.quote
  BY DEF Reader
<1>4. Push(r, x) \in Reader /\ Push(r, x).quote = r.quote
  BY <1>1, <1>2, <1>3
<1>5. ASSUME NEW q \in {"no", "open", "close"}
      PROVE  Push([r EXCEPT !.quote = q], x) = [Push(r, x) EXCEPT !.quote = q]
  <2> DEFINE p == [r EXCEPT !.quote = q]
  <2>1. p.depth = r.depth /\ p.inner = r.inner /\ p.outer = r.outer /\ p.top = r.top
    BY DEF Reader
  <2>2. /\ \A i : [p EXCEPT !.inner = i] = [[r EXCEPT !.inner = i] EXCEPT !.quote = q]
        /\ \A o : [p EXCEPT !.outer = o] = [[r EXCEPT !.outer = o] EXCEPT !.quote = q]
        /\ \A u : [p EXCEPT !.top = u] = [[r EXCEPT !.top = u] EXCEPT !.quote = q]
    BY DEF Reader
  <2> HIDE DEF p
  <2>3. /\ p.depth = 2 => Push(p, x) = [p EXCEPT !.inner = Append(p.inner, x)]
        /\ p.depth = 1 => Push(p, x) = [p EXCEPT !.outer = Append(p.outer, x)]
        /\ p.depth = 0 => Push(p, x) = [p EXCEPT !.top = Append(p.top, x)]
    BY DEF Push
  <2>4. CASE r.depth = 2
    <3>1. Push(p, x) = [p EXCEPT !.inner = Append(r.inner, x)]
      BY <2>1, <2>3, <2>4
    <3>2. Push(r, x) = [r EXCEPT !.inner = Append(r.inner, x)]
      BY <1>2, <2>4
    <3>3. QED
      BY <2>2, <3>1, <3>2 DEF p
  <2>5. CASE r.depth = 1
    <3>1. Push(p, x) = [p EXCEPT !.outer = Append(r.outer, x)]
      BY <2>1, <2>3, <2>5
    <3>2. Push(r, x) = [r EXCEPT !.outer = Append(r.outer, x)]
      BY <1>2, <2>5
    <3>3. QED
      BY <2>2, <3>1, <3>2 DEF p
  <2>6. CASE r.depth = 0
    <3>1. Push(p, x) = [p EXCEPT !.top = Append(r.top, x)]
      BY <2>1, <2>3, <2>6
    <3>2. Push(r, x) = [r EXCEPT !.top = Append(r.top, x)]
      BY <1>2, <2>6
    <3>3. QED
      BY <2>2, <3>1, <3>2 DEF p
  <2>7. QED
    BY <1>1, <2>4, <2>5, <2>6
<1>6. QED
  BY <1>4, <1>5

\* A number or a string is read where the reader stands.
LEMMA ScalarRead ==
    ASSUME NEW r \in Reader, r.quote = "no", NEW x \in Scalars
    PROVE  Dumped(x) \in Seq(Characters) /\ Run(r, Dumped(x)) = Push(r, x)
<1>1. CASE x.t = "Number"
  <2>1. x.n \in Numeral /\ x = [t |-> "Number", n |-> x.n]
    BY <1>1 DEF Scalars
  <2> DEFINE c == x.n
  <2>2. Dumped(x) = <<c>> /\ c \in Characters /\ c \notin {"\"", "[", "]", ","}
    BY <1>1, <2>1, ValuesAssumption DEF Dumped, Marks
  <2>3. ReadToken(r, c) = Unquoted(r, c)
    BY DEF ReadToken
  <2>4. Unquoted(r, c) = Push(r, [t |-> "Number", n |-> c])
    BY <2>2 DEF Unquoted
  <2>5. Run(r, <<c>>) = ReadToken(r, c)
    BY <2>2, Running
  <2>6. QED
    BY <2>1, <2>2, <2>3, <2>4, <2>5, OneCharacter
<1>2. CASE x.t # "Number"
  <2>1. x.s \in Characters /\ x = [t |-> "String", s |-> x.s]
    BY <1>2 DEF Scalars
  <2> DEFINE c == x.s
  <2>2. PICK q \in Characters : q = "\""
    BY MarksAreCharacters
  <2>3. Dumped(x) = <<q, c, q>>
    BY <1>2, <2>2 DEF Dumped
  <2> DEFINE open == [r EXCEPT !.quote = "open"]
             close == [Push(r, x) EXCEPT !.quote = "close"]
  <2>4. open \in Reader /\ open.quote = "open"
    BY DEF Reader
  <2>5. close \in Reader /\ close.quote = "close"
    BY Pushed DEF Reader
  <2>6. ReadToken(r, q) = open
    BY <2>2 DEF ReadToken, Unquoted
  <2>7. ReadToken(open, c) = close
    <3>1. ReadToken(open, c) = [Push(open, x) EXCEPT !.quote = "close"]
      BY <2>1, <2>4 DEF ReadToken
    <3>2. Push(open, x) = [Push(r, x) EXCEPT !.quote = "open"]
      BY Pushed
    <3>3. \A u \in Reader : [[u EXCEPT !.quote = "open"] EXCEPT !.quote = "close"]
                              = [u EXCEPT !.quote = "close"]
      BY DEF Reader
    <3> HIDE DEF open
    <3>4. QED
      BY <3>1, <3>2, <3>3, Pushed
  <2>8. ReadToken(close, q) = Push(r, x)
    <3>1. ReadToken(close, q) = [close EXCEPT !.quote = "no"]
      BY <2>5 DEF ReadToken
    <3>2. \A u \in Reader : u.quote = "no" =>
              [[u EXCEPT !.quote = "close"] EXCEPT !.quote = "no"] = u
      BY DEF Reader
    <3>3. Push(r, x) \in Reader /\ Push(r, x).quote = "no"
      BY Pushed
    <3>4. [close EXCEPT !.quote = "no"] = Push(r, x)
      BY <3>2, <3>3
    <3>5. QED
      BY <3>1, <3>4
  <2> HIDE DEF open, close, c
  <2>9. /\ <<q>> \in Seq(Characters) /\ <<c>> \in Seq(Characters)
        /\ <<q, c, q>> = <<q>> \o <<c>> \o <<q>> /\ <<q, c, q>> \in Seq(Characters)
    <3>1. \A a, b \in Characters :
             /\ <<a>> \in Seq(Characters) /\ <<a, b, a>> \in Seq(Characters)
             /\ <<a, b, a>> = <<a>> \o <<b>> \o <<a>>
      OBVIOUS
    <3>2. c \in Characters
      BY <2>1 DEF c
    <3>3. QED
      BY <3>1, <3>2
  <2>10. Run(r, <<q>> \o <<c>> \o <<q>>) = Run(Run(Run(r, <<q>>), <<c>>), <<q>>)
    <3> DEFINE quote == <<q>>
               char == <<c>>
    <3>1. quote \in Seq(Characters) /\ char \in Seq(Characters)
      BY <2>9
    <3> HIDE DEF quote, char
    <3>2. Run(r, quote \o char \o quote) = Run(Run(Run(r, quote), char), quote)
      BY <3>1, RunThrough
    <3>3. QED
      BY <3>2 DEF quote, char
  <2>11. Run(r, <<q>>) = open /\ Run(open, <<c>>) = close /\ Run(close, <<q>>) = Push(r, x)
    <3>1. c \in Characters
      BY <2>1 DEF c
    <3>2. Run(r, <<q>>) = ReadToken(r, q)
      BY Running
    <3>3. Run(open, <<c>>) = ReadToken(open, c)
      BY <2>4, <3>1, Running
    <3>4. Run(close, <<q>>) = ReadToken(close, q)
      BY <2>5, Running
    <3>5. QED
      BY <2>6, <2>7, <2>8, <3>2, <3>3, <3>4
  <2>12. QED
    BY <2>3, <2>9, <2>10, <2>11 DEF c
<1>3. QED
  BY <1>1, <1>2

LEMMA BracketsAndCommas ==
    ASSUME NEW inner \in Seq(Scalars), NEW outer \in Seq(Flats), NEW top \in Seq(JsonValues)
    PROVE  /\ Run(At(1, <<>>, outer, top), <<"[">>) = At(2, <<>>, outer, top)
           /\ Run(At(0, <<>>, <<>>, top), <<"[">>) = At(1, <<>>, <<>>, top)
           /\ Run(At(2, inner, outer, top), <<"]">>)
                = At(1, <<>>, Append(outer, ListOf(inner)), top)
           /\ Run(At(1, <<>>, outer, top), <<"]">>)
                = At(0, <<>>, <<>>, Append(top, ListOf(outer)))
           /\ Run(At(2, inner, outer, top), <<",">>) = At(2, inner, outer, top)
           /\ Run(At(1, <<>>, outer, top), <<",">>) = At(1, <<>>, outer, top)
<1> DEFINE r2 == At(2, inner, outer, top)
           r1 == At(1, <<>>, outer, top)
           r0 == At(0, <<>>, <<>>, top)
<1>1. <<>> \in Seq(Scalars) /\ <<>> \in Seq(Flats)
  OBVIOUS
<1>2. /\ r2 \in Reader /\ r2.quote = "no" /\ r2.depth = 2
      /\ r1 \in Reader /\ r1.quote = "no" /\ r1.depth = 1
      /\ r0 \in Reader /\ r0.quote = "no" /\ r0.depth = 0
  <2>1. \A n \in 0..2, i \in Seq(Scalars), o \in Seq(Flats) :
          /\ At(n, i, o, top) \in Reader /\ At(n, i, o, top).quote = "no"
          /\ At(n, i, o, top).depth = n
    BY AtIsReader
  <2>2. 2 \in 0..2 /\ 1 \in 0..2 /\ 0 \in 0..2
    OBVIOUS
  <2>3. r2 \in Reader /\ r2.quote = "no" /\ r2.depth = 2
    BY <2>1, <2>2
  <2>4. r1 \in Reader /\ r1.quote = "no" /\ r1.depth = 1
    BY <1>1, <2>1, <2>2
  <2>5. r0 \in Reader /\ r0.quote = "no" /\ r0.depth = 0
    BY <1>1, <2>1, <2>2
  <2>6. QED
    BY <2>3, <2>4, <2>5
<1>3. \A r \in {r0, r1, r2}, c \in Characters : Run(r, <<c>>) = Unquoted(r, c)
  <2>1. \A r \in {r0, r1, r2}, c \in Characters : ReadToken(r, c) = Unquoted(r, c)
    BY <1>2 DEF ReadToken
  <2>2. \A r \in Reader, c \in Characters : Run(r, <<c>>) = ReadToken(r, c)
    BY Running
  <2>3. QED
    BY <1>2, <2>1, <2>2
<1>4. /\ Run(r1, <<"[">>) = Unquoted(r1, "[") /\ Run(r0, <<"[">>) = Unquoted(r0, "[")
      /\ Run(r2, <<"]">>) = Unquoted(r2, "]") /\ Run(r1, <<"]">>) = Unquoted(r1, "]")
      /\ Run(r2, <<",">>) = Unquoted(r2, ",") /\ Run(r1, <<",">>) = Unquoted(r1, ",")
  <2> HIDE DEF r0, r1, r2
  <2>1. QED
    BY <1>3, MarksAreCharacters
<1>5. /\ \A r : Unquoted(r, "[") = [r EXCEPT !.depth = r.depth + 1]
      /\ \A r : Unquoted(r, "]") = IF r.depth = 2
                                   THEN At(1, <<>>, Append(r.outer, ListOf(r.inner)), r.top)
                                   ELSE At(0, <<>>, <<>>, Append(r.top, ListOf(r.outer)))
      /\ \A r : Unquoted(r, ",") = r
  BY DEF Unquoted
<1>6. /\ [r1 EXCEPT !.depth = r1.depth + 1] = At(2, <<>>, outer, top)
      /\ [r0 EXCEPT !.depth = r0.depth + 1] = At(1, <<>>, <<>>, top)
  BY DEF At
<1>7. /\ r2.outer = outer /\ r2.inner = inner /\ r2.top = top /\ r1.top = top /\ r1.outer = outer
  BY DEF At
<1> HIDE DEF r0, r1, r2
<1>8. /\ Run(r2, <<"]">>) = At(1, <<>>, Append(outer, ListOf(inner)), top)
      /\ Run(r1, <<"]">>) = At(0, <<>>, <<>>, Append(top, ListOf(outer)))
  <2>1. Unquoted(r2, "]") = At(1, <<>>, Append(r2.outer, ListOf(r2.inner)), r2.top)
    BY <1>2, <1>5
  <2>2. Unquoted(r1, "]") = At(0, <<>>, <<>>, Append(r1.top, ListOf(r1.outer)))
    <3>1. r1.depth # 2
      BY <1>2
    <3>2. QED
      BY <1>5, <3>1
  <2>3. QED
    BY <1>4, <1>7, <2>1, <2>2
<1>9. /\ Run(r1, <<"[">>) = At(2, <<>>, outer, top)
      /\ Run(r0, <<"[">>) = At(1, <<>>, <<>>, top)
      /\ Run(r2, <<",">>) = r2 /\ Run(r1, <<",">>) = r1
  BY <1>4, <1>5, <1>6
<1>10. QED
  BY <1>8, <1>9 DEF r0, r1, r2

LEMMA PushedAt ==
    ASSUME NEW inner, NEW outer, NEW top, NEW x
    PROVE  /\ Push(At(2, inner, outer, top), x) = At(2, Append(inner, x), outer, top)
           /\ Push(At(1, inner, outer, top), x) = At(1, inner, Append(outer, x), top)
           /\ Push(At(0, inner, outer, top), x) = At(0, inner, outer, Append(top, x))
<1>1. ASSUME NEW r
      PROVE  /\ r.depth = 2 => Push(r, x) = [r EXCEPT !.inner = Append(r.inner, x)]
             /\ r.depth = 1 => Push(r, x) = [r EXCEPT !.outer = Append(r.outer, x)]
             /\ r.depth = 0 => Push(r, x) = [r EXCEPT !.top = Append(r.top, x)]
  BY DEF Push
<1>2. Push(At(2, inner, outer, top), x) = At(2, Append(inner, x), outer, top)
  <2> DEFINE r == At(2, inner, outer, top)
  <2>1. r.depth = 2
    BY DEF At
  <2>2. [r EXCEPT !.inner = Append(r.inner, x)] = At(2, Append(inner, x), outer, top)
    BY DEF At
  <2> HIDE DEF r
  <2>3. Push(r, x) = [r EXCEPT !.inner = Append(r.inner, x)]
    BY <1>1, <2>1
  <2>4. QED
    BY <2>2, <2>3 DEF r
<1>3. Push(At(1, inner, outer, top), x) = At(1, inner, Append(outer, x), top)
  <2> DEFINE r == At(1, inner, outer, top)
  <2>1. r.depth = 1
    BY DEF At
  <2>2. [r EXCEPT !.outer = Append(r.outer, x)] = At(1, inner, Append(outer, x), top)
    BY DEF At
  <2> HIDE DEF r
  <2>3. Push(r, x) = [r EXCEPT !.outer = Append(r.outer, x)]
    BY <1>1, <2>1
  <2>4. QED
    BY <2>2, <2>3 DEF r
<1>4. Push(At(0, inner, outer, top), x) = At(0, inner, outer, Append(top, x))
  <2> DEFINE r == At(0, inner, outer, top)
  <2>1. r.depth = 0
    BY DEF At
  <2>2. [r EXCEPT !.top = Append(r.top, x)] = At(0, inner, outer, Append(top, x))
    BY DEF At
  <2> HIDE DEF r
  <2>3. Push(r, x) = [r EXCEPT !.top = Append(r.top, x)]
    BY <1>1, <2>1
  <2>4. QED
    BY <2>2, <2>3 DEF r
<1>5. QED
  BY <1>2, <1>3, <1>4

LEMMA BracketsRun ==
    ASSUME NEW r, NEW texts, WithCommas(texts) \in Seq(Characters)
    PROVE  /\ Bracketed(texts) \in Seq(Characters)
           /\ Run(r, Bracketed(texts)) = Run(Run(Run(r, <<"[">>), WithCommas(texts)), <<"]">>)
<1> DEFINE w == WithCommas(texts)
           open == <<"[">>
           close == <<"]">>
<1>1. open \in Seq(Characters) /\ close \in Seq(Characters)
  BY MarksAreCharacters, OneCharacter
<1>2. Bracketed(texts) = open \o w \o close
  BY DEF Bracketed
<1> HIDE DEF open, close, w
<1>3. w \in Seq(Characters)
  BY DEF w
<1>4. open \o w \o close \in Seq(Characters)
  BY <1>1, <1>3, ConcatProperties
<1>5. Run(r, open \o w \o close) = Run(Run(Run(r, open), w), close)
  BY <1>1, <1>3, RunThrough
<1>6. QED
  BY <1>2, <1>4, <1>5 DEF open, close, w

LEMMA FlatRead ==
    ASSUME NEW outer \in Seq(Flats), NEW top \in Seq(JsonValues), NEW x \in Flats
    PROVE  /\ DumpItem(x) \in Seq(Characters)
           /\ Run(At(1, <<>>, outer, top), DumpItem(x)) = At(1, <<>>, Append(outer, x), top)
<1>1. CASE x \in Scalars
  <2>1. DumpItem(x) = Dumped(x)
    BY <1>1 DEF DumpItem, Scalars
  <2>2. At(1, <<>>, outer, top) \in Reader /\ At(1, <<>>, outer, top).quote = "no"
    <3>1. 1 \in 0..2 /\ <<>> \in Seq(Scalars)
      OBVIOUS
    <3>2. QED
      BY <3>1, AtIsReader
  <2>3. QED
    BY <1>1, <2>1, <2>2, ScalarRead, PushedAt
<1>2. CASE x \notin Scalars
  <2>1. PICK l \in Seq(Scalars) : x = ListOf(l)
    BY <1>2 DEF Flats, Lists, ListOf
  <2> DEFINE D == [y \in Scalars |-> Dumped(y)]
             G == [a \in Seq(Scalars) |-> At(2, a, outer, top)]
             w == WithCommas(Mapped(D, l))
  <2>2. DumpItem(x) = Bracketed(Mapped(D, l))
    <3>1. DOMAIN l = 1..Len(l) /\ \A i \in 1..Len(l) : l[i] \in Scalars
      OBVIOUS
    <3>2. [i \in DOMAIN l |-> Dumped(l[i])] = Mapped(D, l)
      BY <3>1 DEF Mapped
    <3>3. DumpItem(x) = Bracketed([i \in DOMAIN l |-> Dumped(l[i])])
      BY <2>1 DEF DumpItem, ListOf
    <3>4. QED
      BY <3>2, <3>3
  <2>3. Gets(Scalars, D, G)
    <3>1. \A a \in Seq(Scalars) :
            At(2, a, outer, top) \in Reader /\ At(2, a, outer, top).quote = "no"
      <4>1. 2 \in 0..2
        OBVIOUS
      <4>2. QED
        BY <4>1, AtIsReader
    <3>2. \A y \in Scalars : D[y] = Dumped(y) /\ D[y] \in Seq(Characters)
      <4>1. \A y \in Scalars : Dumped(y) \in Seq(Characters)
        <5>1. <<>> \in Seq(Scalars)
          OBVIOUS
        <5>2. QED
          BY <3>1, <5>1, ScalarRead
      <4>2. QED
        BY <4>1
    <3>3. ASSUME NEW a \in Seq(Scalars), NEW y \in Scalars
          PROVE  Run(G[a], D[y]) = G[Append(a, y)]
      <4>1. G[a] = At(2, a, outer, top) /\ G[Append(a, y)] = At(2, Append(a, y), outer, top)
        OBVIOUS
      <4> HIDE DEF G, D
      <4>2. Run(At(2, a, outer, top), Dumped(y)) = Push(At(2, a, outer, top), y)
        BY <3>1, ScalarRead
      <4>3. QED
        BY <3>2, <4>1, <4>2, PushedAt
    <3>4. ASSUME NEW a \in Seq(Scalars) PROVE Run(G[a], <<",">>) = G[a]
      <4>1. G[a] = At(2, a, outer, top)
        OBVIOUS
      <4>2. QED
        BY <4>1, BracketsAndCommas
    <3> HIDE DEF G, D
    <3>5. QED
      BY <3>2, <3>3, <3>4 DEF Gets
  <2>4. G[<<>>] = At(2, <<>>, outer, top) /\ G[l] = At(2, l, outer, top)
    <3>1. <<>> \in Seq(Scalars)
      OBVIOUS
    <3>2. QED
      BY <3>1
  <2> HIDE DEF D, G
  <2>5. w \in Seq(Characters) /\ Run(At(2, <<>>, outer, top), w) = At(2, l, outer, top)
    BY <2>3, <2>4, ListRead
  <2>6. /\ Bracketed(Mapped(D, l)) \in Seq(Characters)
        /\ Run(At(1, <<>>, outer, top), Bracketed(Mapped(D, l)))
             = Run(Run(Run(At(1, <<>>, outer, top), <<"[">>), w), <<"]">>)
    BY <2>5, BracketsRun
  <2>7. /\ Run(At(1, <<>>, outer, top), <<"[">>) = At(2, <<>>, outer, top)
        /\ Run(At(2, l, outer, top), <<"]">>) = At(1, <<>>, Append(outer, ListOf(l)), top)
    BY BracketsAndCommas
  <2> HIDE DEF w
  <2>8. QED
    BY <2>1, <2>2, <2>5, <2>6, <2>7
<1>3. QED
  BY <1>1, <1>2

LEMMA DumpRead ==
    ASSUME NEW v \in JsonValues
    PROVE  /\ Dump(v) \in Seq(Characters)
           /\ Run(At(0, <<>>, <<>>, <<>>), Dump(v)) = At(0, <<>>, <<>>, <<v>>)
<1> DEFINE start == At(0, <<>>, <<>>, <<>>)
<1>0. /\ <<>> \in Seq(Scalars) /\ <<>> \in Seq(Flats) /\ <<>> \in Seq(JsonValues)
      /\ \A y : Append(<<>>, y) = <<y>>
  OBVIOUS
<1>1. CASE v \in Scalars
  <2>1. Dump(v) = Dumped(v)
    BY <1>1 DEF Dump, Scalars
  <2>2. start \in Reader /\ start.quote = "no"
    <3>1. 0 \in 0..2
      OBVIOUS
    <3>2. QED
      BY <1>0, <3>1, AtIsReader
  <2>3. Push(start, v) = At(0, <<>>, <<>>, <<v>>)
    <3> DEFINE none == <<>>
    <3> HIDE DEF none
    <3>1. Push(At(0, none, none, none), v) = At(0, none, none, Append(none, v))
      BY PushedAt
    <3>2. QED
      BY <1>0, <3>1 DEF none
  <2> HIDE DEF start
  <2>4. QED
    BY <1>1, <2>1, <2>2, <2>3, ScalarRead DEF start
<1>2. CASE v \notin Scalars
  <2>1. PICK l \in Seq(Flats) : v = ListOf(l)
    BY <1>2 DEF JsonValues, Lists, ListOf
  <2> DEFINE D == [y \in Flats |-> DumpItem(y)]
             G == [a \in Seq(Flats) |-> At(1, <<>>, a, <<>>)]
             w == WithCommas(Mapped(D, l))
  <2>2. Dump(v) = Bracketed(Mapped(D, l))
    <3>1. DOMAIN l = 1..Len(l) /\ \A i \in 1..Len(l) : l[i] \in Flats
      OBVIOUS
    <3>2. [i \in DOMAIN l |-> DumpItem(l[i])] = Mapped(D, l)
      BY <3>1 DEF Mapped
    <3>3. Dump(v) = Bracketed([i \in DOMAIN l |-> DumpItem(l[i])])
      BY <2>1 DEF Dump, ListOf
    <3>4. QED
      BY <3>2, <3>3
  <2>3. Gets(Flats, D, G)
    <3>1. \A y \in Flats : D[y] = DumpItem(y) /\ D[y] \in Seq(Characters)
      BY <1>0, FlatRead
    <3>2. ASSUME NEW a \in Seq(Flats), NEW y \in Flats
          PROVE  Run(G[a], D[y]) = G[Append(a, y)]
      <4>1. /\ G[a] = At(1, <<>>, a, <<>>)
            /\ G[Append(a, y)] = At(1, <<>>, Append(a, y), <<>>)
        OBVIOUS
      <4> HIDE DEF G, D
      <4>2. Run(At(1, <<>>, a, <<>>), DumpItem(y)) = At(1, <<>>, Append(a, y), <<>>)
        BY <1>0, FlatRead
      <4>3. QED
        BY <3>1, <4>1, <4>2
    <3>3. ASSUME NEW a \in Seq(Flats) PROVE Run(G[a], <<",">>) = G[a]
      <4>1. G[a] = At(1, <<>>, a, <<>>)
        OBVIOUS
      <4>2. QED
        BY <1>0, <4>1, BracketsAndCommas
    <3> HIDE DEF G, D
    <3>4. QED
      BY <3>1, <3>2, <3>3 DEF Gets
  <2>4. G[<<>>] = At(1, <<>>, <<>>, <<>>) /\ G[l] = At(1, <<>>, l, <<>>)
    BY <1>0
  <2> HIDE DEF D, G
  <2>5. w \in Seq(Characters) /\ Run(At(1, <<>>, <<>>, <<>>), w) = At(1, <<>>, l, <<>>)
    BY <2>3, <2>4, ListRead
  <2>6. /\ Bracketed(Mapped(D, l)) \in Seq(Characters)
        /\ Run(start, Bracketed(Mapped(D, l))) = Run(Run(Run(start, <<"[">>), w), <<"]">>)
    BY <2>5, BracketsRun
  <2>7. /\ Run(start, <<"[">>) = At(1, <<>>, <<>>, <<>>)
        /\ Run(At(1, <<>>, l, <<>>), <<"]">>) = At(0, <<>>, <<>>, Append(<<>>, ListOf(l)))
    BY <1>0, BracketsAndCommas
  <2> HIDE DEF w
  <2>8. QED
    BY <1>0, <2>1, <2>2, <2>5, <2>6, <2>7
<1>3. QED
  BY <1>1, <1>2

\* Two JSON values with the same text are the same.
LEMMA DumpInjective ==
    ASSUME NEW v \in JsonValues, NEW w \in JsonValues, Dump(v) = Dump(w)
    PROVE  v = w
<1>1. At(0, <<>>, <<>>, <<v>>) = At(0, <<>>, <<>>, <<w>>)
  BY DumpRead
<1>2. <<v>> = <<w>>
  BY <1>1 DEF At
<1>3. QED
  BY <1>2

-----------------------------------------------------------------------------
(* Paths hold nothing that is escaped.                                      *)

Quiet == Characters \ {"\\", "\""}
Numbers == [t : {"Number"}, n : Numeral]

LEMMA QuietIsPlain ==
    /\ Seq(Quiet) \subseteq Seq(Characters)
    /\ \A t \in Seq(Quiet) : Plain(t)
<1>1. \A t \in Seq(Quiet) : \A i \in DOMAIN t : t[i] \in Quiet
  OBVIOUS
<1>2. \A t \in Seq(Quiet) : Plain(t)
  BY <1>1 DEF Plain, Quiet
<1>3. Quiet \subseteq Characters
  BY DEF Quiet
<1>4. Seq(Quiet) \subseteq Seq(Characters)
  BY <1>3
<1>5. QED
  BY <1>2, <1>4

LEMMA QuietMarks ==
    "[" \in Quiet /\ "]" \in Quiet /\ "," \in Quiet
BY MarksAreCharacters DEF Quiet

LEMMA OneQuiet ==
    \A c \in Quiet : <<c>> \in Seq(Quiet)
OBVIOUS

LEMMA QuietList ==
    ASSUME NEW texts \in Seq(Seq(Quiet))
    PROVE  Bracketed(texts) \in Seq(Quiet)
<1> DEFINE S == Seq(Quiet)
           comma == <<",">>
           open == <<"[">>
           close == <<"]">>
<1>1. open \in S /\ close \in S /\ comma \in S
  BY QuietMarks, OneQuiet
<1>2. \A a, b \in S : JoinStep[<<a, b>>] = IF a = <<>> THEN b ELSE a \o comma \o b
  BY QuietIsPlain DEF JoinStep
<1>3. Bracketed(texts) = open \o WithCommas(texts) \o close
  BY DEF Bracketed
<1> HIDE DEF comma, open, close
<1>4. \A a, b \in S : a \o comma \o b \in S
  BY <1>1, ConcatProperties
<1>5. \A a, b \in S : JoinStep[<<a, b>>] \in S
  BY <1>2, <1>4
<1>6. <<>> \in S
  OBVIOUS
<1> HIDE DEF S
<1>7. \A ts \in Seq(S) : Fold(JoinStep, <<>>, ts) \in S
  BY <1>5, <1>6, FoldInvariant DEF Taking
<1>8. WithCommas(texts) = Fold(JoinStep, <<>>, texts)
  BY DEF WithCommas, JoinStep
<1>9. WithCommas(texts) \in S
  BY <1>7, <1>8 DEF S
<1>10. open \o WithCommas(texts) \o close \in Seq(Quiet)
  BY <1>1, <1>9, ConcatProperties DEF S
<1>11. QED
  BY <1>3, <1>10

LEMMA QuietPoint ==
    ASSUME NEW x \in Flats, x.t = "List", \A j \in DOMAIN x.l : x.l[j].t = "Number"
    PROVE  DumpItem(x) \in Seq(Quiet)
<1>1. PICK l \in Seq(Scalars) : x = ListOf(l)
  BY DEF Flats, Scalars, Lists, ListOf
<1>2. x.l = l
  BY <1>1 DEF ListOf
<1>3. ASSUME NEW i \in DOMAIN l PROVE Dumped(l[i]) \in Seq(Quiet)
  <2>1. l[i] \in Scalars /\ l[i].t = "Number"
    BY <1>2
  <2>2. l[i].n \in Numeral
    BY <2>1 DEF Scalars
  <2>3. l[i].n \in Quiet
    BY <2>2, ValuesAssumption DEF Marks, Quiet
  <2>4. Dumped(l[i]) = <<l[i].n>>
    BY <2>1 DEF Dumped
  <2>5. QED
    BY <2>3, <2>4, OneQuiet
<1> DEFINE texts == [i \in DOMAIN l |-> Dumped(l[i])]
<1>4. texts \in Seq(Seq(Quiet))
  <2> DEFINE S == Seq(Quiet)
  <2>1. \A i \in DOMAIN l : Dumped(l[i]) \in S
    BY <1>3
  <2> HIDE DEF S
  <2>2. DOMAIN l = 1..Len(l) /\ Len(l) \in Nat
    OBVIOUS
  <2>3. texts \in Seq(S)
    BY <2>1, <2>2
  <2>4. QED
    BY <2>3 DEF S
<1>5. DumpItem(x) = Bracketed(texts)
  BY <1>2 DEF DumpItem
<1> HIDE DEF texts
<1>6. QED
  BY <1>4, <1>5, QuietList

LEMMA PathIsQuiet ==
    ASSUME NEW v \in JsonValues, path_ok(v)
    PROVE  Dump(v) \in Seq(Quiet)
<1>1. v.t = "List"
  BY DEF path_ok
<1>2. PICK l \in Seq(Flats) : v = ListOf(l)
  BY <1>1 DEF JsonValues, Scalars, Lists, ListOf
<1>3. v.l = l
  BY <1>2 DEF ListOf
<1>4. ASSUME NEW i \in DOMAIN l PROVE DumpItem(l[i]) \in Seq(Quiet)
  <2>1. l[i] \in Flats /\ l[i].t = "List" /\ \A j \in DOMAIN l[i].l : l[i].l[j].t = "Number"
    BY <1>3 DEF path_ok
  <2>2. QED
    BY <2>1, QuietPoint
<1> DEFINE texts == [i \in DOMAIN l |-> DumpItem(l[i])]
<1>5. texts \in Seq(Seq(Quiet))
  <2> DEFINE S == Seq(Quiet)
  <2>1. \A i \in DOMAIN l : DumpItem(l[i]) \in S
    BY <1>4
  <2> HIDE DEF S
  <2>2. DOMAIN l = 1..Len(l) /\ Len(l) \in Nat
    OBVIOUS
  <2>3. texts \in Seq(S)
    BY <2>1, <2>2
  <2>4. QED
    BY <2>3 DEF S
<1>6. Dump(v) = Bracketed(texts)
  BY <1>1, <1>3 DEF Dump
<1> HIDE DEF texts
<1>7. QED
  BY <1>5, <1>6, QuietList

LEMMA PathStored ==
    ASSUME NEW v \in Json, path_ok(v)
    PROVE  Stored(Dump(v)) = Dump(v) /\ load(Dump(v)) = v
<1>1. Json \subseteq JsonValues
  BY ValuesAssumption DEF JsonValues
<1>2. Stored(Dump(v)) = Dump(v)
  BY <1>1, PathIsQuiet, QuietIsPlain, StoredText
<1>3. load(Dump(v)) \in Json /\ Dump(load(Dump(v))) = Dump(v)
  BY DEF load
<1>4. load(Dump(v)) = v
  BY <1>1, <1>3, DumpInjective
<1>5. QED
  BY <1>2, <1>4

-----------------------------------------------------------------------------
(* The numbers of a path, rounded when they are shown.                      *)

LEMMA Nearest ==
    ASSUME NEW n \in Int
    PROVE  /\ to_double(n) \in Doubles /\ to_double(n) \in Int
           /\ \A d \in Doubles : Distance(n, to_double(n)) <= Distance(n, d)
<1> DEFINE T == {Distance(n, d) : d \in Doubles}
<1>1. Doubles \subseteq Int /\ Doubles # {}
  BY NumbersAssumption
<1>2. T \in SUBSET Nat /\ T # {}
  <2>1. \A d \in Doubles : Distance(n, d) \in Nat
    BY <1>1 DEF Distance
  <2>2. QED
    BY <1>1, <2>1
<1>3. PICK t \in T : \A u \in T : t <= u
  BY <1>2, LeastNumber
<1>4. PICK d \in Doubles : \A e \in Doubles : Distance(n, d) <= Distance(n, e)
  BY <1>3
<1> HIDE DEF T
<1>5. QED
  BY <1>1, <1>4 DEF to_double

LEMMA DoubleNear ==
    ASSUME NEW n \in -Precise..Precise
    PROVE  to_double(n) \in Int /\ 4 * Distance(n, to_double(n)) < Printed
<1>1. n \in Int /\ Printed \in Nat /\ Doubles \subseteq Int
  BY NumbersAssumption
<1>2. PICK d \in Doubles : 4 * Distance(n, d) < Printed
  BY NumbersAssumption
<1> DEFINE e == to_double(n)
<1>3. d \in Int /\ e \in Int /\ Distance(n, e) <= Distance(n, d)
  BY <1>1, <1>2, Nearest
<1> HIDE DEF e
<1>4. 4 * Distance(n, e) < Printed
  BY <1>1, <1>2, <1>3 DEF Distance
<1>5. QED
  BY <1>3, <1>4 DEF e

LEMMA PrintedNear ==
    ASSUME NEW d \in Int
    PROVE  /\ printed(d) \in Int /\ printed(d) % Printed = 0
           /\ 2 * Distance(d, printed(d)) <= Printed
<1> DEFINE q == d \div Printed
           r == d % Printed
<1>1. Printed \in Nat \ {0}
  BY NumbersAssumption
<1>2. d = (Printed * q) + r /\ q \in Int /\ r \in 0..(Printed - 1)
  BY <1>1, Division
<1>3. printed(d) = IF 2 * r < Printed \/ (2 * r = Printed /\ q % 2 = 0)
                   THEN q * Printed ELSE (q + 1) * Printed
  BY DEF printed
<1> HIDE DEF q, r
<1>4. \A k \in Int : k * Printed = Printed * k /\ (Printed * k) \in Int /\ (Printed * k) % Printed = 0
  BY <1>1
<1>5. (q + 1) * Printed = (Printed * q) + Printed
  BY <1>1, <1>2
<1>6. CASE 2 * r < Printed \/ (2 * r = Printed /\ q % 2 = 0)
  <2>1. printed(d) = Printed * q
    BY <1>2, <1>3, <1>4, <1>6
  <2>2. 2 * Distance(d, Printed * q) <= Printed
    <3> DEFINE p == Printed * q
    <3>1. p \in Int /\ d = p + r /\ 2 * r <= Printed
      BY <1>1, <1>2, <1>4, <1>6
    <3> HIDE DEF p
    <3>2. 2 * Distance(d, p) <= Printed
      BY <1>1, <1>2, <3>1 DEF Distance
    <3>3. QED
      BY <3>2 DEF p
  <2>3. QED
    BY <1>2, <1>4, <2>1, <2>2
<1>7. CASE ~ (2 * r < Printed \/ (2 * r = Printed /\ q % 2 = 0))
  <2>1. printed(d) = (q + 1) * Printed
    BY <1>3, <1>7
  <2>2. 2 * Distance(d, (Printed * q) + Printed) <= Printed
    <3> DEFINE p == Printed * q
    <3>1. p \in Int /\ d = p + r /\ 2 * r >= Printed
      BY <1>1, <1>2, <1>4, <1>7
    <3> HIDE DEF p
    <3>2. 2 * Distance(d, p + Printed) <= Printed
      BY <1>1, <1>2, <3>1 DEF Distance
    <3>3. QED
      BY <3>2 DEF p
  <2>3. (q + 1) * Printed \in Int /\ ((q + 1) * Printed) % Printed = 0
    <3>1. q + 1 \in Int
      BY <1>2
    <3>2. QED
      BY <1>4, <3>1
  <2>4. QED
    BY <1>5, <2>1, <2>2, <2>3
<1>8. QED
  BY <1>6, <1>7

\* Two multiples closer than the last decimal printed are the same.
LEMMA MultiplesApart ==
    ASSUME NEW a \in Int, NEW b \in Int, a % Printed = 0, b % Printed = 0, Distance(a, b) < Printed
    PROVE  a = b
<1> DEFINE i == a \div Printed
           j == b \div Printed
<1>1. Printed \in Nat \ {0}
  BY NumbersAssumption
<1>2. a = Printed * i /\ b = Printed * j /\ i \in Int /\ j \in Int
  <2>1. a = (Printed * i) + (a % Printed) /\ i \in Int
    BY <1>1, Division
  <2>2. b = (Printed * j) + (b % Printed) /\ j \in Int
    BY <1>1, Division
  <2> HIDE DEF i, j
  <2>3. Printed * i \in Int /\ Printed * j \in Int
    BY <1>1, <2>1, <2>2
  <2>4. QED
    BY <2>1, <2>2, <2>3
<1> HIDE DEF i, j
<1>3. \A k \in Int : k >= 1 => Printed * k >= Printed
  BY <1>1
<1>4. a - b = Printed * (i - j) /\ b - a = Printed * (j - i)
  BY <1>1, <1>2
<1>5. CASE i >= j + 1
  <2>1. i - j \in Int /\ i - j >= 1
    BY <1>2, <1>5
  <2>2. a - b >= Printed
    BY <1>3, <1>4, <2>1
  <2>3. QED
    BY <1>1, <2>2 DEF Distance
<1>6. CASE j >= i + 1
  <2>1. j - i \in Int /\ j - i >= 1
    BY <1>2, <1>6
  <2>2. b - a >= Printed
    BY <1>3, <1>4, <2>1
  <2>3. QED
    BY <1>1, <2>2 DEF Distance
<1>7. CASE i = j
  BY <1>2, <1>7
<1>8. QED
  BY <1>2, <1>5, <1>6, <1>7

\* A multiple close to a number that is not too large is not too large.
LEMMA StaysPrecise ==
    ASSUME NEW n \in -Precise..Precise, NEW m \in Int, m % Printed = 0, Distance(n, m) < Printed
    PROVE  m \in -Precise..Precise
<1>1. Printed \in Nat \ {0} /\ Precise \in Nat /\ Precise % Printed = 0
  BY NumbersAssumption
<1>2. (-Precise) % Printed = 0
  <2> DEFINE k == Precise \div Printed
  <2>1. Precise = (Printed * k) + (Precise % Printed) /\ k \in Int
    BY <1>1, Division
  <2> HIDE DEF k
  <2>2. -Precise = Printed * (-k)
    BY <1>1, <2>1
  <2>3. \A j \in Int : (Printed * j) % Printed = 0
    BY <1>1
  <2>4. -k \in Int
    BY <2>1
  <2>5. QED
    BY <2>2, <2>3, <2>4
<1>3. CASE m > Precise
  <2>1. Distance(m, Precise) < Printed
    BY <1>1, <1>3 DEF Distance
  <2>2. m = Precise
    BY <1>1, <2>1, MultiplesApart
  <2>3. QED
    BY <1>1, <1>3, <2>2
<1>4. CASE m < -Precise
  <2>1. Distance(m, -Precise) < Printed
    BY <1>1, <1>4 DEF Distance
  <2>2. m = -Precise
    BY <1>1, <1>2, <2>1, MultiplesApart
  <2>3. QED
    BY <1>1, <1>4, <2>2
<1>5. QED
  BY <1>1, <1>3, <1>4

\* A decimal is printed as a multiple of the last decimal next to it, and such a
\* multiple as itself.
LEMMA PrintedOnce ==
    ASSUME NEW n \in -Precise..Precise
    PROVE  LET m == printed(to_double(n))
           IN  /\ m \in -Precise..Precise /\ m % Printed = 0
               /\ Distance(n, m) < Printed
               /\ n % Printed = 0 => m = n
<1> DEFINE d == to_double(n)
           m == printed(d)
<1>1. n \in Int /\ Printed \in Nat \ {0}
  BY NumbersAssumption
<1>2. d \in Int /\ 4 * Distance(n, d) < Printed
  BY DoubleNear
<1> HIDE DEF d
<1>3. m \in Int /\ m % Printed = 0 /\ 2 * Distance(d, m) <= Printed
  BY <1>2, PrintedNear
<1> HIDE DEF m
<1>4. Distance(n, m) < Printed
  BY <1>1, <1>2, <1>3 DEF Distance
<1>5. m \in -Precise..Precise
  BY <1>3, <1>4, StaysPrecise
<1>6. n % Printed = 0 => m = n
  BY <1>1, <1>3, <1>4, MultiplesApart
<1>7. QED
  BY <1>3, <1>4, <1>5, <1>6 DEF m, d

\* Such a number is nowhere near the end of outbuf.
LEMMA HasRoom ==
    ASSUME NEW m \in -Precise..Precise
    PROVE  in_outbuf(m) = [decimal |-> TRUE, value |-> m]
<1>1. /\ Precise \in Nat /\ One \in Nat \ {0} /\ Full \in Nat /\ Full >= 10
      /\ Precise < (Full \div 10) * One
  BY NumbersAssumption
<1> DEFINE tenth == Full \div 10
<1>2. tenth \in Int /\ tenth <= Full
  BY <1>1
<1>3. Precise < tenth * One
  BY <1>1
<1> HIDE DEF tenth
<1>4. tenth * One <= Full * One
  BY <1>1, <1>2
<1>5. tenth * One \in Int /\ Full * One \in Int
  BY <1>1, <1>2
<1>6. m \in Int /\ m < Full * One /\ -m < tenth * One
  BY <1>1, <1>3, <1>4, <1>5
<1>7. CASE m >= 0
  <2>1. in_outbuf(m) = Truncated(m, Full)
    BY <1>7 DEF in_outbuf
  <2>2. QED
    BY <1>6, <2>1 DEF Truncated
<1>8. CASE ~ (m >= 0)
  <2> DEFINE digits == Truncated(-m, tenth)
  <2>1. digits = [decimal |-> TRUE, value |-> -m]
    BY <1>6 DEF Truncated
  <2>2. digits.decimal = TRUE /\ digits.value = -m
    BY <2>1
  <2>3. in_outbuf(m) = [decimal |-> digits.decimal, value |-> -digits.value]
    BY <1>8 DEF in_outbuf, tenth
  <2> HIDE DEF digits
  <2>4. -digits.value = m
    BY <1>6, <2>2
  <2>5. QED
    BY <2>2, <2>3, <2>4
<1>9. QED
  BY <1>7, <1>8

NumberValues == [decimal : BOOLEAN, value : Int]

\* What a number of the client has become by being shown and written back.
Tracks(number, other) ==
  IF number.decimal
  THEN number.value \in -Precise..Precise =>
         /\ other.decimal /\ other.value \in -Precise..Precise
         /\ Distance(number.value, other.value) < Printed
         /\ other = number \/ other.value % Printed = 0
  ELSE number.value \in Least..Greatest => other = number

LEMMA TracksItself ==
    ASSUME NEW a \in NumberValues
    PROVE  Tracks(a, a)
<1>1. a.value \in Int /\ Printed \in Nat \ {0}
  BY NumbersAssumption DEF NumberValues
<1>2. Distance(a.value, a.value) < Printed
  BY <1>1 DEF Distance
<1>3. QED
  BY <1>2 DEF Tracks

LEMMA TracksOn ==
    ASSUME NEW a \in NumberValues, NEW b \in NumberValues, Tracks(a, b)
    PROVE  Tracks(a, Reprinted(b))
<1> DEFINE n == a.value
           k == b.value
           m == printed(to_double(k))
<1>1. n \in Int /\ k \in Int /\ a.decimal \in BOOLEAN /\ b.decimal \in BOOLEAN
  BY DEF NumberValues
<1>2. CASE a.decimal /\ n \in -Precise..Precise
  <2>1. /\ b.decimal /\ k \in -Precise..Precise /\ Distance(n, k) < Printed
        /\ b = a \/ k % Printed = 0
    BY <1>2 DEF Tracks
  <2>2. /\ m \in -Precise..Precise /\ m % Printed = 0 /\ Distance(k, m) < Printed
        /\ k % Printed = 0 => m = k
    BY <2>1, PrintedOnce
  <2>3. Reprinted(b) = [decimal |-> TRUE, value |-> m]
    BY <2>1, <2>2, HasRoom DEF Reprinted
  <2>4. Distance(n, m) < Printed
    BY <2>1, <2>2
  <2> HIDE DEF m
  <2>5. QED
    BY <1>2, <2>2, <2>3, <2>4 DEF Tracks
<1>3. CASE ~ a.decimal /\ n \in Least..Greatest
  <2>1. b = a
    BY <1>3 DEF Tracks
  <2>2. to_integer(n) = n
    BY <1>1, <1>3, NumbersAssumption DEF to_integer
  <2>3. Reprinted(a) = [a EXCEPT !.value = n]
    BY <1>3, <2>2 DEF Reprinted
  <2>4. [a EXCEPT !.value = n] = a
    BY DEF NumberValues
  <2>5. QED
    BY <1>3, <2>1, <2>3, <2>4 DEF Tracks
<1>4. CASE ~ (a.decimal /\ n \in -Precise..Precise) /\ ~ (~ a.decimal /\ n \in Least..Greatest)
  BY <1>1, <1>4 DEF Tracks
<1>5. QED
  BY <1>2, <1>3, <1>4

LEMMA TracksNear ==
    ASSUME NEW a, NEW b, Tracks(a, b)
    PROVE  Near(a, b)
BY DEF Tracks, Near

LEMMA TracksExact ==
    ASSUME NEW a \in NumberValues, NEW b \in NumberValues, Tracks(a, b), Exact(a)
    PROVE  b = a
<1>1. a.value \in Int /\ b.value \in Int
  BY DEF NumberValues
<1>2. CASE a.decimal
  <2>1. /\ b.decimal /\ Distance(a.value, b.value) < Printed
        /\ b = a \/ b.value % Printed = 0
        /\ a.value % Printed = 0
    BY <1>2 DEF Tracks, Exact
  <2>2. b.value = a.value
    BY <1>1, <2>1, MultiplesApart
  <2>3. b.decimal = a.decimal
    BY <1>2, <2>1 DEF NumberValues
  <2>4. QED
    BY <2>2, <2>3 DEF NumberValues
<1>3. CASE ~ a.decimal
  BY <1>3 DEF Tracks, Exact
<1>4. QED
  BY <1>2, <1>3

\* The numbers at the same place of two paths.
Place(v, i, j) == Meaning[v.l[i].l[j].n]
Follows(v, w) ==
  /\ DOMAIN w.l = DOMAIN v.l
  /\ \A i \in DOMAIN v.l : /\ DOMAIN w.l[i].l = DOMAIN v.l[i].l
                           /\ \A j \in DOMAIN v.l[i].l : Tracks(Place(v, i, j), Place(w, i, j))

LEMMA PathParts ==
    ASSUME NEW v \in Json, path_ok(v)
    PROVE  /\ v.t = "List" /\ v.l \in Seq(Flats) /\ v = [t |-> "List", l |-> v.l]
           /\ \A i \in DOMAIN v.l :
                /\ v.l[i].t = "List" /\ v.l[i].l \in Seq(Scalars)
                /\ v.l[i] = [t |-> "List", l |-> v.l[i].l]
                /\ \A j \in DOMAIN v.l[i].l :
                     /\ v.l[i].l[j] \in Numbers
                     /\ Place(v, i, j) \in NumberValues
<1>1. v \in JsonValues
  BY ValuesAssumption DEF JsonValues
<1>2. v.t = "List"
  BY DEF path_ok
<1>3. v.l \in Seq(Flats) /\ v = [t |-> "List", l |-> v.l]
  BY <1>1, <1>2 DEF JsonValues, Scalars, Lists
<1>4. ASSUME NEW i \in DOMAIN v.l
      PROVE  /\ v.l[i].t = "List" /\ v.l[i].l \in Seq(Scalars)
             /\ v.l[i] = [t |-> "List", l |-> v.l[i].l]
             /\ \A j \in DOMAIN v.l[i].l : v.l[i].l[j] \in Numbers /\ Place(v, i, j) \in NumberValues
  <2>1. v.l[i] \in Flats
    BY <1>3
  <2>2. v.l[i].t = "List"
    BY DEF path_ok
  <2>3. v.l[i].l \in Seq(Scalars) /\ v.l[i] = [t |-> "List", l |-> v.l[i].l]
    BY <2>1, <2>2 DEF Flats, Scalars, Lists
  <2>4. ASSUME NEW j \in DOMAIN v.l[i].l
        PROVE  v.l[i].l[j] \in Numbers /\ Place(v, i, j) \in NumberValues
    <3>1. v.l[i].l[j] \in Scalars /\ v.l[i].l[j].t = "Number"
      BY <2>3 DEF path_ok
    <3>2. v.l[i].l[j] \in Numbers
      BY <3>1 DEF Scalars, Numbers
    <3>3. v.l[i].l[j].n \in Numeral
      BY <3>2 DEF Numbers
    <3>4. Meaning[v.l[i].l[j].n] \in NumberValues
      BY <3>3, NumbersAssumption DEF NumberValues
    <3>5. QED
      BY <3>2, <3>4 DEF Place
  <2>5. QED
    BY <2>2, <2>3, <2>4
<1>5. QED
  BY <1>2, <1>3, <1>4

LEMMA NumberShown ==
    ASSUME NEW v \in Numbers
    PROVE  /\ ScalarShown(v).t = "Number"
           /\ Meaning[ScalarShown(v).n] = Reprinted(Meaning[v.n])
<1> DEFINE c == CHOOSE e \in Numeral : Meaning[e] = Reprinted(Meaning[v.n])
<1>1. v.t = "Number" /\ v.n \in Numeral /\ DOMAIN v = {"t", "n"}
  BY DEF Numbers
<1>2. c \in Numeral /\ Meaning[c] = Reprinted(Meaning[v.n])
  BY <1>1, NumbersAssumption
<1>3. ScalarShown(v) = [v EXCEPT !.n = c]
  BY <1>1 DEF ScalarShown
<1> HIDE DEF c
<1>4. ScalarShown(v).t = "Number" /\ ScalarShown(v).n = c
  BY <1>1, <1>3
<1>5. QED
  BY <1>2, <1>4

\* Shown, a path is a path of as many points, with its numbers reprinted.
LEMMA PathShown ==
    ASSUME NEW v \in Json, path_ok(v)
    PROVE  /\ AsShown(v) \in Json /\ path_ok(AsShown(v))
           /\ DOMAIN AsShown(v).l = DOMAIN v.l
           /\ \A i \in DOMAIN v.l :
                /\ DOMAIN AsShown(v).l[i].l = DOMAIN v.l[i].l
                /\ \A j \in DOMAIN v.l[i].l : Place(AsShown(v), i, j) = Reprinted(Place(v, i, j))
<1> DEFINE w == AsShown(v)
           points == [i \in DOMAIN v.l |-> ItemShown(v.l[i])]
<1>1. w \in Json
  BY NumbersAssumption
<1>2. w = [t |-> "List", l |-> points]
  BY PathParts DEF AsShown
<1>3. ASSUME NEW i \in DOMAIN v.l
      PROVE  points[i] = [t |-> "List", l |-> [j \in DOMAIN v.l[i].l |-> ScalarShown(v.l[i].l[j])]]
  <2>1. points[i] = ItemShown(v.l[i])
    OBVIOUS
  <2>2. v.l[i] = [t |-> "List", l |-> v.l[i].l]
    BY PathParts
  <2> HIDE DEF points
  <2>3. QED
    BY <2>1, <2>2 DEF ItemShown
<1>4. w.t = "List" /\ w.l = points /\ DOMAIN w.l = DOMAIN v.l
  BY <1>2
<1> HIDE DEF w, points
<1>5. ASSUME NEW i \in DOMAIN v.l
      PROVE  /\ w.l[i].t = "List" /\ DOMAIN w.l[i].l = DOMAIN v.l[i].l
             /\ w.l[i].l = [j \in DOMAIN v.l[i].l |-> ScalarShown(v.l[i].l[j])]
             /\ \A j \in DOMAIN v.l[i].l : w.l[i].l[j] = ScalarShown(v.l[i].l[j])
  <2> DEFINE f == [j \in DOMAIN v.l[i].l |-> ScalarShown(v.l[i].l[j])]
  <2>1. w.l[i] = [t |-> "List", l |-> f]
    BY <1>3, <1>4
  <2>2. DOMAIN f = DOMAIN v.l[i].l /\ \A j \in DOMAIN v.l[i].l : f[j] = ScalarShown(v.l[i].l[j])
    OBVIOUS
  <2> HIDE DEF f
  <2>3. w.l[i].t = "List" /\ w.l[i].l = f
    BY <2>1
  <2>4. QED
    BY <2>2, <2>3 DEF f
<1>6. ASSUME NEW i \in DOMAIN v.l, NEW j \in DOMAIN v.l[i].l
      PROVE  w.l[i].l[j].t = "Number" /\ Place(w, i, j) = Reprinted(Place(v, i, j))
  <2>1. v.l[i].l[j] \in Numbers /\ w.l[i].l[j] = ScalarShown(v.l[i].l[j])
    BY <1>5, PathParts
  <2>2. QED
    BY <2>1, NumberShown DEF Place
<1>7. path_ok(w)
  <2>1. v.l \in Seq(Flats) /\ Len(v.l) >= 2 /\ Len(v.l) \in Nat /\ DOMAIN v.l = 1..Len(v.l)
    BY PathParts DEF path_ok
  <2>2. w.l = [i \in 1..Len(v.l) |-> w.l[i]]
    BY <1>2, <1>4, <2>1 DEF points
  <2>3. Len(w.l) = Len(v.l)
    BY <2>1, <2>2
  <2>4. ASSUME NEW i \in DOMAIN v.l PROVE Len(w.l[i].l) = 2
    <3>1. v.l[i].l \in Seq(Scalars) /\ Len(v.l[i].l) = 2
      BY PathParts DEF path_ok
    <3>2. DOMAIN v.l[i].l = 1..2
      BY <3>1
    <3>3. w.l[i].l = [j \in 1..2 |-> ScalarShown(v.l[i].l[j])]
      BY <1>5, <3>2
    <3> DEFINE f == [j \in 1..2 |-> ScalarShown(v.l[i].l[j])]
    <3>4. Len(f) = 2
      OBVIOUS
    <3>5. QED
      BY <3>3, <3>4
  <2>5. QED
    BY <1>4, <1>5, <1>6, <2>1, <2>3, <2>4 DEF path_ok
<1>8. QED
  BY <1>1, <1>4, <1>5, <1>6, <1>7 DEF w

LEMMA FollowsOn ==
    ASSUME NEW u \in Json, path_ok(u), NEW v \in Json, path_ok(v), Follows(u, v)
    PROVE  Follows(u, AsShown(v))
<1>1. DOMAIN AsShown(v).l = DOMAIN u.l
  BY PathShown DEF Follows
<1>2. ASSUME NEW i \in DOMAIN u.l
      PROVE  /\ DOMAIN AsShown(v).l[i].l = DOMAIN u.l[i].l
             /\ \A j \in DOMAIN u.l[i].l : Tracks(Place(u, i, j), Place(AsShown(v), i, j))
  <2>1. i \in DOMAIN v.l /\ DOMAIN v.l[i].l = DOMAIN u.l[i].l
    BY DEF Follows
  <2>2. DOMAIN AsShown(v).l[i].l = DOMAIN u.l[i].l
    BY <2>1, PathShown
  <2>3. ASSUME NEW j \in DOMAIN u.l[i].l PROVE Tracks(Place(u, i, j), Place(AsShown(v), i, j))
    <3>1. Place(u, i, j) \in NumberValues /\ Place(v, i, j) \in NumberValues
      BY <2>1, PathParts
    <3>2. Tracks(Place(u, i, j), Place(v, i, j))
      BY DEF Follows
    <3>3. Place(AsShown(v), i, j) = Reprinted(Place(v, i, j))
      BY <2>1, PathShown
    <3>4. QED
      BY <3>1, <3>2, <3>3, TracksOn
  <2>4. QED
    BY <2>2, <2>3
<1>3. QED
  BY <1>1, <1>2 DEF Follows

LEMMA FollowsItself ==
    ASSUME NEW v \in Json, path_ok(v)
    PROVE  Follows(v, v)
BY PathParts, TracksItself DEF Follows

LEMMA CoordinatesAre ==
    ASSUME NEW v, NEW i \in DOMAIN v.l
    PROVE  /\ DOMAIN Coordinates(v) = DOMAIN v.l
           /\ DOMAIN Coordinates(v)[i] = DOMAIN v.l[i].l
           /\ \A j \in DOMAIN v.l[i].l : Coordinates(v)[i][j] = Place(v, i, j)
BY DEF Coordinates, Place

-----------------------------------------------------------------------------
(* The column.                                                              *)

TextHeld ==
    /\ given \in Texts /\ column \in Seq(Characters) /\ shown \in {Nothing, column}
    /\ Undone(column, rounds + 1) = given
    /\ Plain(given) => column = given

NumberHeld ==
    /\ given \in Integers64 /\ column \in -Half .. Half - 1 /\ shown \in {Nothing, column}
    /\ (column - given) % (2 * Half) = 0
    /\ given \in -Half .. Half - 1 => column = given

PathHeld ==
    /\ given \in Json /\ path_ok(given)
    /\ \E p \in Json : path_ok(p) /\ Follows(given, p) /\ column = Dump(p)
    /\ shown # Nothing => shown \in Json /\ path_ok(shown) /\ Follows(given, shown)

Untouched == given = Nothing /\ column = Nothing /\ shown = Nothing /\ rounds = 0

Held ==
    /\ kind \in {"text", "number", "path"} /\ rounds \in Nat
    /\ \/ Untouched
       \/ kind = "text" /\ TextHeld
       \/ kind = "number" /\ NumberHeld
       \/ kind = "path" /\ PathHeld

LEMMA HeldInit == Init => Held
BY DEF Init, Held, Untouched

LEMMA ToColumnText ==
    ASSUME kind = "text", NEW t \in Seq(Characters)
    PROVE  /\ ToColumn(t) \in Seq(Characters)
           /\ \A n \in Nat : Undone(ToColumn(t), n + 1) = Undone(t, n)
           /\ Plain(t) => ToColumn(t) = t
<1>1. ToColumn(t) = Stored(t)
  BY DEF ToColumn
<1> DEFINE s == Stored(t)
<1>2. s \in Seq(Characters) /\ Unescaped(s) = t /\ (Plain(t) => s = t)
  BY StoredText
<1> HIDE DEF s
<1>3. \A n \in Nat : Undone(s, n + 1) = Undone(t, n)
  BY <1>2, Undoing
<1>4. QED
  BY <1>1, <1>2, <1>3 DEF s

LEMMA WriteHolds ==
    ASSUME Held, NEW v \in Values, Write(v)
    PROVE  Held'
<1>1. /\ given = Nothing /\ Accepted(v)
      /\ given' = v /\ column' = ToColumn(v)
      /\ kind' = kind /\ shown' = shown /\ rounds' = rounds
  BY DEF Write
<1>2. Untouched
  BY <1>1, ValuesAssumption DEF Held, TextHeld, NumberHeld, PathHeld
<1>3. CASE kind = "text"
  <2>1. v \in Texts /\ v \in Seq(Characters)
    BY <1>3, ValuesAssumption DEF Values
  <2>2. /\ ToColumn(v) \in Seq(Characters)
        /\ Undone(ToColumn(v), 0 + 1) = Undone(v, 0)
        /\ Plain(v) => ToColumn(v) = v
    BY <1>3, <2>1, ToColumnText
  <2>3. Undone(v, 0) = v
    BY <2>1, Undoing
  <2>4. TextHeld'
    BY <1>1, <1>2, <2>1, <2>2, <2>3 DEF TextHeld, Untouched
  <2>5. QED
    BY <1>1, <1>2, <1>3, <2>4 DEF Held, Untouched
<1>4. CASE kind = "number"
  <2>1. v \in Integers64 /\ v \in Int
    BY <1>4, ValuesAssumption DEF Values
  <2>2. ToColumn(v) = narrow(v)
    BY <1>4 DEF ToColumn
  <2>3. NumberHeld'
    BY <1>1, <1>2, <2>1, <2>2, Narrowed DEF NumberHeld, Untouched
  <2>4. QED
    BY <1>1, <1>2, <1>4, <2>3 DEF Held, Untouched
<1>5. CASE kind = "path"
  <2>1. v \in Json /\ path_ok(v)
    BY <1>1, <1>5 DEF Values, Accepted
  <2>2. ToColumn(v) = Stored(Dump(v))
    BY <1>5 DEF ToColumn
  <2>3. PathHeld'
    BY <1>1, <1>2, <2>1, <2>2, PathStored, FollowsItself DEF PathHeld, Untouched
  <2>4. QED
    BY <1>1, <1>2, <1>5, <2>3 DEF Held, Untouched
<1>6. QED
  BY <1>3, <1>4, <1>5 DEF Held

LEMMA ShowHolds ==
    ASSUME Held, Show
    PROVE  Held'
<1>1. /\ column # Nothing
      /\ shown' = IF kind = "path" THEN AsShown(load(column)) ELSE column
      /\ kind' = kind /\ given' = given /\ column' = column /\ rounds' = rounds
  BY DEF Show
<1>2. CASE kind = "text" /\ TextHeld
  <2>1. TextHeld'
    BY <1>1, <1>2 DEF TextHeld
  <2>2. QED
    BY <1>1, <1>2, <2>1 DEF Held
<1>3. CASE kind = "number" /\ NumberHeld
  <2>1. NumberHeld'
    BY <1>1, <1>3 DEF NumberHeld
  <2>2. QED
    BY <1>1, <1>3, <2>1 DEF Held
<1>4. CASE kind = "path" /\ PathHeld
  <2>1. PICK p \in Json : path_ok(p) /\ Follows(given, p) /\ column = Dump(p)
    BY <1>4 DEF PathHeld
  <2>2. shown' = AsShown(p) /\ shown' \in Json /\ path_ok(shown')
    BY <1>1, <1>4, <2>1, PathStored, PathShown
  <2>3. given \in Json /\ path_ok(given)
    BY <1>4 DEF PathHeld
  <2>4. Follows(given, shown')
    BY <2>1, <2>2, <2>3, FollowsOn
  <2>5. PathHeld'
    BY <1>1, <2>1, <2>2, <2>3, <2>4 DEF PathHeld
  <2>6. QED
    BY <1>1, <1>4, <2>5 DEF Held
<1>5. QED
  BY <1>1, <1>2, <1>3, <1>4 DEF Held, Untouched

LEMMA WriteBackHolds ==
    ASSUME Held, WriteBack
    PROVE  Held'
<1>1. /\ shown # Nothing /\ column' = ToColumn(shown)
      /\ rounds' = rounds + 1 /\ shown' = Nothing
      /\ kind' = kind /\ given' = given
  BY DEF WriteBack
<1>2. rounds \in Nat /\ rounds + 1 \in Nat
  BY DEF Held
<1>3. CASE kind = "text" /\ TextHeld
  <2>1. shown = column /\ column \in Seq(Characters)
    BY <1>1, <1>3 DEF TextHeld
  <2>2. /\ ToColumn(column) \in Seq(Characters)
        /\ Undone(ToColumn(column), (rounds + 1) + 1) = Undone(column, rounds + 1)
        /\ Plain(column) => ToColumn(column) = column
    BY <1>2, <1>3, <2>1, ToColumnText
  <2>3. TextHeld'
    BY <1>1, <1>3, <2>1, <2>2 DEF TextHeld
  <2>4. QED
    BY <1>1, <1>2, <1>3, <2>3 DEF Held
<1>4. CASE kind = "number" /\ NumberHeld
  <2>1. shown = column /\ column \in Int /\ column \in -Half .. Half - 1
    BY <1>1, <1>4, ValuesAssumption DEF NumberHeld
  <2>2. ToColumn(column) = column
    BY <1>4, <2>1, Narrowed DEF ToColumn
  <2>3. NumberHeld'
    BY <1>1, <1>4, <2>1, <2>2 DEF NumberHeld
  <2>4. QED
    BY <1>1, <1>2, <1>4, <2>3 DEF Held
<1>5. CASE kind = "path" /\ PathHeld
  <2>1. given \in Json /\ path_ok(given)
        /\ shown \in Json /\ path_ok(shown) /\ Follows(given, shown)
    BY <1>1, <1>5 DEF PathHeld
  <2>2. column' = Dump(shown)
    BY <1>1, <1>5, <2>1, PathStored DEF ToColumn
  <2>3. PathHeld'
    BY <1>1, <2>1, <2>2 DEF PathHeld
  <2>4. QED
    BY <1>1, <1>2, <1>5, <2>3 DEF Held
<1>6. QED
  BY <1>1, <1>3, <1>4, <1>5 DEF Held, Untouched

LEMMA HeldAlways == Spec => []Held
<1>1. Held /\ [Next]_vars => Held'
  <2> SUFFICES ASSUME Held, [Next]_vars PROVE Held'
    OBVIOUS
  <2>1. CASE Show
    BY <2>1, ShowHolds
  <2>2. CASE WriteBack
    BY <2>2, WriteBackHolds
  <2>3. ASSUME NEW v \in Values, Write(v) PROVE Held'
    BY <2>3, WriteHolds
  <2>4. ASSUME NEW v \in Values, Rejected(v) PROVE UNCHANGED vars
    BY <2>4 DEF Rejected
  <2>5. CASE UNCHANGED vars
    BY <2>5 DEF vars, Held, Untouched, TextHeld, NumberHeld, PathHeld
  <2>6. QED
    BY <2>1, <2>2, <2>3, <2>4, <2>5 DEF Next
<1>2. QED
  BY <1>1, HeldInit, PTL DEF Spec

(* Whatever characters a name or description holds, the literal that the DAO *)
(* makes of it with sql_sanitize ends where the DAO ends it.                 *)
THEOREM Closing == Spec => []LiteralsClose
<1>1. Held => LiteralsClose
  <2>1. ASSUME Held, Given("text") PROVE given \in Seq(Characters)
    BY <2>1, ValuesAssumption DEF Held, Given, Untouched, TextHeld
  <2>2. QED
    BY <2>1, StoredText DEF LiteralsClose
<1>2. QED
  BY <1>1, HeldAlways, PTL

(* However often a client writes back the text it read, taking away as many  *)
(* rounds of backslashes as sql_sanitize has added gives what it first wrote.*)
THEOREM Keeping == Spec => []NothingIsLost
<1>1. Held => NothingIsLost
  BY DEF Held, Untouched, TextHeld, NothingIsLost, Given
<1>2. QED
  BY <1>1, HeldAlways, PTL

(* A 64-bit integer of a request becomes the int with its low bits, for ints *)
(* of any width, and stays that int when it is written back.                 *)
THEOREM Fitting == Spec => []NumbersFit
<1>1. Held => NumbersFit
  BY DEF Held, Untouched, NumberHeld, NumbersFit, Given
<1>2. QED
  BY <1>1, HeldAlways, PTL

(* Texts without backslash and quotation mark, numbers that are ints and     *)
(* paths of integers of 64 bits and of decimals that "%f" prints in full are *)
(* read as they were written, by meaning, whatever doubles there are.        *)
THEOREM Showing == Spec => []WrittenIsShown
<1>1. Held => WrittenIsShown
  <2> SUFFICES ASSUME Held, given # Nothing, Faithful, shown # Nothing
               PROVE  Meant(shown) = Meant(given)
    BY DEF WrittenIsShown
  <2>1. CASE kind = "text" /\ TextHeld
    BY <2>1 DEF TextHeld, Faithful, Plain
  <2>2. CASE kind = "number" /\ NumberHeld
    BY <2>2 DEF NumberHeld, Faithful
  <2>3. CASE kind = "path" /\ PathHeld
    <3>1. given \in Json /\ path_ok(given) /\ shown \in Json /\ path_ok(shown)
          /\ Follows(given, shown)
      BY <2>3 DEF PathHeld
    <3>2. ASSUME NEW i \in DOMAIN given.l, NEW j \in DOMAIN given.l[i].l
          PROVE  Place(shown, i, j) = Place(given, i, j)
      <4>1. /\ i \in DOMAIN shown.l /\ j \in DOMAIN shown.l[i].l
            /\ Tracks(Place(given, i, j), Place(shown, i, j))
        BY <3>1 DEF Follows
      <4>2. Place(given, i, j) \in NumberValues /\ Place(shown, i, j) \in NumberValues
        BY <3>1, <4>1, PathParts
      <4>3. Exact(Place(given, i, j))
        BY <2>3, CoordinatesAre DEF Faithful
      <4>4. QED
        BY <4>1, <4>2, <4>3, TracksExact
    <3>3. DOMAIN shown.l = DOMAIN given.l
          /\ \A i \in DOMAIN given.l : DOMAIN shown.l[i].l = DOMAIN given.l[i].l
      BY <3>1 DEF Follows
    <3>4. Coordinates(shown) = Coordinates(given)
      BY <3>2, <3>3 DEF Coordinates, Place
    <3>5. QED
      BY <2>3, <3>4 DEF Meant
  <2>4. QED
    BY <2>1, <2>2, <2>3 DEF Held, Untouched
<1>2. QED
  BY <1>1, HeldAlways, PTL

(* The text that POST /wire stores for a path it has accepted is one that    *)
(* GET /wire can read, whatever the points, and what it shows of it keeps    *)
(* next to what the client wrote, however often it is written back.          *)
THEOREM Reloading == Spec => []PathsAreReadable
<1>1. Held => PathsAreReadable
  <2> SUFFICES ASSUME Held, Given("path")
               PROVE  /\ load(column) # Nothing
                      /\ shown # Nothing =>
                           LET before == Coordinates(given)
                               after == Coordinates(shown)
                           IN  /\ path_ok(shown) /\ DOMAIN after = DOMAIN before
                               /\ \A i \in DOMAIN before :
                                    /\ DOMAIN after[i] = DOMAIN before[i]
                                    /\ \A j \in DOMAIN before[i] : Near(before[i][j], after[i][j])
    BY DEF PathsAreReadable
  <2>1. PathHeld
    BY DEF Held, Given, Untouched
  <2>2. load(column) # Nothing
    <3>1. PICK p \in Json : path_ok(p) /\ column = Dump(p)
      BY <2>1 DEF PathHeld
    <3>2. load(column) = p
      BY <3>1, PathStored
    <3>3. QED
      BY <3>2, ValuesAssumption
  <2>3. ASSUME shown # Nothing
        PROVE  LET before == Coordinates(given)
                   after == Coordinates(shown)
               IN  /\ path_ok(shown) /\ DOMAIN after = DOMAIN before
                   /\ \A i \in DOMAIN before :
                        /\ DOMAIN after[i] = DOMAIN before[i]
                        /\ \A j \in DOMAIN before[i] : Near(before[i][j], after[i][j])
    <3>1. path_ok(shown) /\ Follows(given, shown)
      BY <2>1, <2>3 DEF PathHeld
    <3>2. DOMAIN Coordinates(given) = DOMAIN given.l /\ DOMAIN Coordinates(shown) = DOMAIN given.l
      BY <3>1 DEF Coordinates, Follows
    <3>3. ASSUME NEW i \in DOMAIN given.l
          PROVE  /\ DOMAIN Coordinates(given)[i] = DOMAIN given.l[i].l
                 /\ DOMAIN Coordinates(shown)[i] = DOMAIN given.l[i].l
                 /\ \A j \in DOMAIN given.l[i].l :
                      Near(Coordinates(given)[i][j], Coordinates(shown)[i][j])
      <4>1. i \in DOMAIN shown.l /\ DOMAIN shown.l[i].l = DOMAIN given.l[i].l
            /\ \A j \in DOMAIN given.l[i].l : Tracks(Place(given, i, j), Place(shown, i, j))
        BY <3>1 DEF Follows
      <4>2. QED
        BY <4>1, CoordinatesAre, TracksNear
    <3>4. QED
      BY <3>1, <3>2, <3>3
  <2>4. QED
    BY <2>2, <2>3
<1>2. QED
  BY <1>1, HeldAlways, PTL
===============================================================================
