--------------------------------- MODULE Values ---------------------------------
(***************************************************************************)
(* What becomes of a value on its way from a request into a column and     *)
(* back into a response: the conversions of MalphasApi (src/src/Api.cpp),  *)
(* xto_string and sql_sanitize (src/include/dao_preamble.h), and for paths *)
(* crow::json (src/vendor/crow/crow_all.h).                                *)
(*                                                                         *)
(* One column of one row, and a client that writes values into it, reads   *)
(* it and writes back what it has read. The column is a text (a scene's    *)
(* name or description), a number (a coordinate) or the path of a wire,    *)
(* a text that holds JSON. Texts hold no NUL: PQexec is given a C string,  *)
(* so a NUL cuts the statement inside its literal and PostgreSQL refuses   *)
(* it, a failing statement.                                                *)
(***************************************************************************)
EXTENDS Integers, Sequences, Folding

CONSTANTS Characters,\* those of texts, and the tokens of JSON
          Texts,     \* sequences of characters
          Integers64,\* the integers a client sends
          Json,      \* JSON values, among them those that are no path
          Half,      \* an int is at least -Half and less than Half
          Nothing,   \* no value
          MaxRounds  \* bound on how often the client writes back what it read

\* The numbers in a path are fractions. They are written here as integers, in units
\* small enough for all of them.
CONSTANTS Meaning,   \* of each numeral: whether Crow takes it for a double, the number
          One,       \* units in 1
          Printed,   \* units in the last decimal that "%f" prints, 10^-6
          Doubles,   \* the finite doubles
          Least,     \* int64_t and uint64_t range from here
          Greatest,  \* to here
          Full,      \* 10^126, whose digits leave no room for a point in outbuf[128]
          Precise    \* up to here doubles are closer to each other than half of Printed

\* The tokens of a number are none of the marks, and JSON values nest as deep as
\* paths do.
Marks == {"[", "]", ",", "\\", "'", "\""}
Numeral == DOMAIN Meaning
Scalars == [t : {"Number"}, n : Numeral] \union [t : {"String"}, s : Characters]
Lists(items) == [t : {"List"}, l : Seq(items)]
Flats == Scalars \union Lists(Scalars)

ASSUME ValuesAssumption ==
  /\ Marks \subseteq Characters /\ Texts \subseteq Seq(Characters) /\ Integers64 \subseteq Int
  /\ Json \subseteq Scalars \union Lists(Flats)
  /\ Nothing \notin Texts /\ Nothing \notin Integers64 /\ Nothing \notin Json
  /\ Half \in Nat \ {0} /\ MaxRounds \in Nat
  /\ Numeral \subseteq Characters \ Marks

VARIABLES kind,     \* of the column: "text", "number", "path"
          given,    \* the value the client made up
          column,   \* the value PostgreSQL holds
          shown,    \* what the last response showed of it
          rounds    \* how often the client has written back what it was shown

vars == <<kind, given, column, shown, rounds>>

-------------------------------------------------------------------------------
(* Text. PostgreSQL reads a literal up to a quotation mark that is not       *)
(* doubled; a backslash is a character like others.                          *)

\* Faulty variants: an apostrophe is left alone; a backslash is left alone.
EscapeNoApostrophe(c) == CASE c = "\\" -> <<c, c>> [] c = "\"" -> <<"\\", c>> [] OTHER -> <<c>>
EscapeNoBackslash(c) == CASE c = "'" -> <<c, c>> [] c = "\"" -> <<"\\", c>> [] OTHER -> <<c>>

Escape(c) ==
  CASE c = "\\" -> <<c, c>> [] c = "'" -> <<c, c>> [] c = "\"" -> <<"\\", c>> [] OTHER -> <<c>>

sql_sanitize(str) ==
  Fold([x \in Seq(Characters) \X Characters |-> x[1] \o Escape(x[2])], <<>>, str)

\* PostgreSQL, from the character after the mark that opens a literal.
ReadCharacter(r, c) ==
  CASE r.mode = "in" /\ c = "'" -> [r EXCEPT !.mode = "mark"]
    [] r.mode = "in" /\ c # "'" -> [r EXCEPT !.text = Append(@, c)]
    [] r.mode = "mark" /\ c = "'" -> [r EXCEPT !.mode = "in", !.text = Append(@, c)]
    [] OTHER -> [r EXCEPT !.mode = "out", !.rest = Append(@, c)]
Reading == [mode : {"in", "mark", "out"}, text : Seq(Characters), rest : Seq(Characters)]
ReadLiteral(chars) ==
  Fold([x \in Reading \X Characters |-> ReadCharacter(x[1], x[2])],
       [mode |-> "in", text |-> <<>>, rest |-> <<>>], chars)

Stored(text) == ReadLiteral(Append(sql_sanitize(text), "'")).text

-------------------------------------------------------------------------------
(* Numbers. A JSON integer has 64 bits, the parameter of the DAO is an int.  *)

\* Faulty variant: nothing is narrowed.
narrow_not(n) == n

narrow(n) == ((n + Half) % (2 * Half)) - Half

-------------------------------------------------------------------------------
(* Paths.                                                                    *)

Dumped(v) == IF v.t = "Number" THEN <<v.n>> ELSE <<"\"", v.s, "\"">>

WithCommas(texts) ==
  Fold([x \in Seq(Characters) \X Seq(Characters) |->
          IF x[1] = <<>> THEN x[2] ELSE x[1] \o <<",">> \o x[2]], <<>>, texts)
Bracketed(texts) == <<"[">> \o WithCommas(texts) \o <<"]">>

DumpItem(v) ==
  IF v.t = "List" THEN Bracketed([i \in DOMAIN v.l |-> Dumped(v.l[i])]) ELSE Dumped(v)
Dump(v) ==
  IF v.t = "List" THEN Bracketed([i \in DOMAIN v.l |-> DumpItem(v.l[i])]) ELSE Dumped(v)

\* What is no JSON is read as Nothing.
load(text) ==
  IF \E v \in Json : Dump(v) = text THEN CHOOSE v \in Json : Dump(v) = text ELSE Nothing

\* Faulty variant: the coordinates may be of any type.
path_ok_untyped(v) ==
  v.t = "List" /\ Len(v.l) >= 2
  /\ \A i \in DOMAIN v.l : v.l[i].t = "List" /\ Len(v.l[i].l) = 2

\* At least two points, each of two coordinates, each a number.
path_ok(v) ==
  v.t = "List" /\ Len(v.l) >= 2
  /\ \A i \in DOMAIN v.l :
       /\ v.l[i].t = "List" /\ Len(v.l[i].l) = 2
       /\ \A j \in DOMAIN v.l[i].l : v.l[i].l[j].t = "Number"

-------------------------------------------------------------------------------
(* Numbers in a path. A response holds what becomes of them as a wvalue: a   *)
(* numeral with a point or an exponent is read as a double and printed with  *)
(* "%f", any other is read as an integer of 64 bits.                         *)

Distance(a, b) == IF a < b THEN b - a ELSE a - b

\* The nearest double, which for a number beyond all of them is the last.
to_double(n) == CHOOSE d \in Doubles : \A e \in Doubles : Distance(n, d) <= Distance(n, e)

\* An integer out of range is read as the end of the range.
to_integer(n) == IF n < Least THEN Least ELSE IF n > Greatest THEN Greatest ELSE n

\* Faulty variant: further decimals are cut off instead of rounded.
printed_down(d) == (d \div Printed) * Printed

\* "%f": the nearest multiple of Printed, of two the even one.
printed(d) ==
  LET q == d \div Printed
      r == d % Printed
  IN  IF 2 * r < Printed \/ (2 * r = Printed /\ q % 2 = 0) THEN q * Printed ELSE (q + 1) * Printed

\* The leading digits that fit before outbuf ends: from full on, no point is among
\* them, and the number that is left is an integer.
Truncated(n, full) ==
  LET leading[k \in Nat] == IF k < 10 * full THEN k ELSE leading[k \div 10]
  IN  IF n < full * One
      THEN [decimal |-> TRUE, value |-> n]
      ELSE [decimal |-> FALSE, value |-> leading[n \div One] * One]

\* A minus sign takes the room of a digit.
in_outbuf(n) ==
  LET digits == Truncated(-n, Full \div 10)
  IN  IF n >= 0 THEN Truncated(n, Full)
      ELSE [decimal |-> digits.decimal, value |-> -digits.value]

Reprinted(number) ==
  IF number.decimal THEN in_outbuf(printed(to_double(number.value)))
  ELSE [number EXCEPT !.value = to_integer(@)]

\* A JSON value as a response shows it.
ScalarShown(v) ==
  IF v.t = "Number"
  THEN [v EXCEPT !.n = CHOOSE c \in Numeral : Meaning[c] = Reprinted(Meaning[v.n])]
  ELSE v
ItemShown(v) ==
  IF v.t = "List" THEN [v EXCEPT !.l = [i \in DOMAIN v.l |-> ScalarShown(v.l[i])]]
  ELSE ScalarShown(v)
AsShown(v) ==
  IF v.t = "List" THEN [v EXCEPT !.l = [i \in DOMAIN v.l |-> ItemShown(v.l[i])]]
  ELSE ScalarShown(v)

ASSUME NumbersAssumption ==
  /\ One \in Nat \ {0} /\ Printed \in Nat \ {0} /\ Full \in Nat /\ Full >= 10
  /\ Least \in Int /\ Greatest \in Int
  /\ Doubles \subseteq Int
  /\ Precise \in Nat /\ Precise % Printed = 0 /\ Precise < (Full \div 10) * One
  /\ \A n \in -Precise..Precise : \E d \in Doubles : 4 * Distance(n, d) < Printed
  /\ Meaning \in [Numeral -> [decimal : BOOLEAN, value : Int]]
  /\ \A c \in Numeral : \E d \in Numeral : Meaning[d] = Reprinted(Meaning[c])
  /\ \A v \in Json : AsShown(v) \in Json

-------------------------------------------------------------------------------
(* The client and its column.                                                *)

Values == CASE kind = "text" -> Texts [] kind = "number" -> Integers64 [] kind = "path" -> Json

Init ==
  /\ kind \in {"text", "number", "path"}
  /\ given = Nothing /\ column = Nothing /\ shown = Nothing /\ rounds = 0

\* What a POST or PUT of v leaves in the column.
ToColumn(v) ==
  CASE kind = "text" -> Stored(v)
    [] kind = "number" -> narrow(v)
    [] kind = "path" -> Stored(Dump(v))

Accepted(v) == kind = "path" => path_ok(v)

Write(v) ==
  /\ given = Nothing /\ Accepted(v)
  /\ given' = v /\ column' = ToColumn(v)
  /\ UNCHANGED <<kind, shown, rounds>>

Rejected(v) == given = Nothing /\ ~ Accepted(v) /\ UNCHANGED vars

Show ==
  /\ column # Nothing
  /\ kind = "path" => load(column) # Nothing
  /\ shown' = IF kind = "path" THEN AsShown(load(column)) ELSE column
  /\ UNCHANGED <<kind, given, column, rounds>>

WriteBack ==
  /\ shown # Nothing /\ Accepted(shown) /\ rounds < MaxRounds
  /\ column' = ToColumn(shown) /\ rounds' = rounds + 1
  /\ shown' = Nothing
  /\ UNCHANGED <<kind, given>>

Next == Show \/ WriteBack \/ \E v \in Values : Write(v) \/ Rejected(v)

Spec == Init /\ [][Next]_vars

-------------------------------------------------------------------------------
(* Properties.                                                               *)

Given(k) == kind = k /\ given # Nothing

(* A literal of a statement ends where the DAO ends it, whatever characters  *)
(* the text has (no NUL is among them, see above):                            *)
(* what follows it in the statement is read as the DAO meant it.             *)
LiteralsClose ==
  Given("text") =>
    ReadLiteral(sql_sanitize(given) \o <<"'", ",">>) = [mode |-> "out", text |-> Stored(given),
                                                        rest |-> <<",">>]

\* Every backslash that sql_sanitize has added taken away again, once and n times.
TakeAway(r, c) ==
  IF c = "\\" /\ ~ r.escaped THEN [r EXCEPT !.escaped = TRUE]
  ELSE [escaped |-> FALSE, text |-> Append(r.text, c)]
Unescape(text) ==
  Fold([x \in [escaped : BOOLEAN, text : Seq(Characters)] \X Characters |-> TakeAway(x[1], x[2])],
       [escaped |-> FALSE, text |-> <<>>], text)
Unescaped(text) == Unescape(text).text
Undone(text, n) ==
  Fold([x \in Seq(Characters) \X Nat |-> Unescaped(x[1])], text, [i \in 1..n |-> i])

(* Backslashes and quotation marks pile up with every round of reading and   *)
(* writing back, but no text is lost: from the column and the number of      *)
(* rounds it can be told what the client wrote, so that two texts that       *)
(* differ, and two names that differ, differ in the database as well.        *)
NothingIsLost == Given("text") => Undone(column, rounds + 1) = given

(* A number is stored as the int that has its low bits. So PostgreSQL and    *)
(* the std::stoi of the mapper always accept it, and writing it back changes *)
(* nothing any more.                                                         *)
NumbersFit ==
  Given("number") =>
    /\ column \in -Half .. Half - 1
    /\ (column - given) % (2 * Half) = 0

\* The numbers a path holds, by point and coordinate.
Coordinates(path) ==
  [i \in DOMAIN path.l |-> [j \in DOMAIN path.l[i].l |-> Meaning[path.l[i].l[j].n]]]

\* Numbers that a response can show as they are, and as nearly as it can.
Exact(number) ==
  IF number.decimal THEN number.value \in -Precise..Precise /\ number.value % Printed = 0
  ELSE number.value \in Least..Greatest
Near(number, other) ==
  IF number.decimal
  THEN number.value \in -Precise..Precise =>
         other.decimal /\ Distance(number.value, other.value) < Printed
  ELSE number.value \in Least..Greatest => other = number

(* What a client reads means what it wrote, after any number of rounds:      *)
(* texts without backslash and quotation mark, numbers that are ints, and    *)
(* paths of integers of 64 bits and decimals of six places that are not too  *)
(* large. A number in a path may be written in another way, as 5e-1 and 0.5. *)
Faithful ==
  CASE kind = "text" -> ~ \E i \in DOMAIN given : given[i] \in {"\\", "\""}
    [] kind = "number" -> given \in -Half .. Half - 1
    [] kind = "path" -> LET numbers == Coordinates(given)
                        IN  \A i \in DOMAIN numbers : \A j \in DOMAIN numbers[i] : Exact(numbers[i][j])
Meant(v) == IF kind = "path" THEN Coordinates(v) ELSE v
WrittenIsShown == given # Nothing /\ Faithful => shown = Nothing \/ Meant(shown) = Meant(given)

(* A path that POST /wire accepts is stored as a text that GET /wire can     *)
(* read again, since it holds nothing that sql_sanitize changes. It shows a  *)
(* path with as many points, none of them further from the one the client    *)
(* wrote than the last decimal printed, however often it is written back:    *)
(* rounding does not add up.                                                 *)
PathsAreReadable ==
  Given("path") =>
    /\ load(column) # Nothing
    /\ shown # Nothing =>
         LET before == Coordinates(given)
             after == Coordinates(shown)
         IN  /\ path_ok(shown) /\ DOMAIN after = DOMAIN before
             /\ \A i \in DOMAIN before : /\ DOMAIN after[i] = DOMAIN before[i]
                                         /\ \A j \in DOMAIN before[i] : Near(before[i][j], after[i][j])
===============================================================================
