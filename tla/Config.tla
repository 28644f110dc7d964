-------------------------------- MODULE Config --------------------------------
(***************************************************************************)
(* The reader of configuration files: Config::parse, the scanner that      *)
(* turns the text of a file into properties (src/src/cfg/Config.cpp,       *)
(* src/src/parser.cpp), and Config::validate, which compares them with the *)
(* properties a program requires.                                          *)
(*                                                                         *)
(* A file is a sequence of symbols: the characters the scanner tells       *)
(* apart, and names, each standing for a run of characters of one class.   *)
(* A step of the specification is one iteration of the scanner's loop.     *)
(***************************************************************************)
EXTENDS Naturals, Sequences

CONSTANTS Symbols,   \* what a text is made of
          Iden,      \* the symbols made of letters and '_'
          Numbers,   \* the symbols that are the text of an int
          Blanks,    \* spaces and tabs
          Spaces,    \* what std::isspace says is one, carriage returns among them
          Files,     \* the texts config files may have, and perhaps NoFile
          NoFile,    \* there is no file that can be opened
          Required,  \* the paths, pairs of section and key, a program requires
          Ports      \* those of them that std::stoi has to read to the end

NL  == "newline"
NUL == "nul"         \* the byte read_file puts after the text

ASSUME SymbolsAssumption ==
  /\ Files \ {NoFile} \subseteq Seq(Symbols)
  /\ {NL, NUL, "#", "[", "]", "="} \cap (Iden \cup Numbers \cup Blanks) = {}
  /\ Iden \cap Blanks = {} /\ Numbers \cap Spaces = {}
  /\ Ports \subseteq Required

VARIABLES text,      \* the text in _buffer
          buffer,    \* the position the scanner has reached
          section,   \* the name of the current section
          props,     \* the properties found so far, in the order of the file
          outcome,   \* of parse, then of validate
          settings   \* what the validation functions have assigned: path -> value

vars == <<text, buffer, section, props, outcome, settings>>

At(i) == IF i \in 1 .. Len(text) THEN text[i] ELSE NUL
Terminator == Len(text) + 1

Init ==
  /\ text = <<>> /\ buffer = 1 /\ props = <<>> /\ settings = <<>>
  /\ section = <<"default">> /\ outcome = "opening"

-------------------------------------------------------------------------------
(* The helpers of parser.cpp move the position from i to j.                  *)

skip_spaces(i, j) ==
  /\ j \in i .. Terminator /\ At(j) \notin Blanks
  /\ \A k \in i .. (j - 1) : At(k) \in Blanks

parse_identifier(i, j) ==
  /\ j \in i .. Terminator /\ At(j) \notin Iden
  /\ \A k \in i .. (j - 1) : At(k) \in Iden

parse_until(i, j, delim) ==
  /\ j \in i .. Terminator /\ At(j) \in {NL, NUL, delim}
  /\ \A k \in i .. (j - 1) : At(k) \notin {NL, NUL, delim}

\* Faulty variant: a value ends where a comment begins.
parse_value_to_comment(i, j) == parse_until(i, j, "#")

parse_value(i, j) == parse_until(i, j, NUL)

-------------------------------------------------------------------------------
(* Config::parse, an action per branch of its loop.                          *)

read_file ==
  /\ outcome = "opening"
  /\ \E f \in Files :
       IF f = NoFile THEN outcome' = "refused" /\ UNCHANGED text
                     ELSE outcome' = "reading" /\ text' = f
  /\ UNCHANGED <<buffer, section, props, settings>>

\* Faulty variant: the position stays at the end of the line.
EmptyLineInPlace(i) == At(i) = NL /\ buffer' = i /\ UNCHANGED <<section, props, outcome>>

EmptyLine(i) ==
  /\ At(i) = NL
  /\ buffer' = i + 1
  /\ UNCHANGED <<section, props, outcome>>

\* Faulty variant: the loop over a comment ignores the terminator.
CommentToLineEnd(i) ==
  /\ At(i) = "#"
  /\ \E j \in i .. (Terminator + 1) :
       /\ At(j) = NL \/ j = Terminator + 1
       /\ \A k \in i .. (j - 1) : At(k) # NL
       /\ buffer' = j
  /\ UNCHANGED <<section, props, outcome>>

Comment(i) ==
  /\ At(i) = "#"
  /\ \E j \in i .. Terminator : parse_until(i, j, NUL) /\ buffer' = j
  /\ UNCHANGED <<section, props, outcome>>

EndOfFile(i) ==
  /\ At(i) = NUL
  /\ outcome' = "parsed"
  /\ buffer' = i
  /\ UNCHANGED <<section, props>>

Refuse(i) == buffer' = i /\ outcome' = "refused"
Continue(i) == buffer' = i /\ UNCHANGED outcome

SectionName(i) ==
  /\ At(i) = "["
  /\ \E j \in (i + 1) .. Terminator :
       /\ parse_until(i + 1, j, "]")
       /\ section' = SubSeq(text, i + 1, j - 1)
       /\ IF j > i + 1 /\ At(j) = "]" THEN Continue(j + 1) ELSE Refuse(j)
  /\ UNCHANGED props

\* The rest of a property's line after its key, which is text[i] .. text[j - 1].
Assignment(i, j) ==
  \E equals \in j .. Terminator :
    /\ skip_spaces(j, equals)
    /\ \/ At(equals) # "=" /\ Refuse(equals) /\ UNCHANGED props
       \/ /\ At(equals) = "="
          /\ \E first, last \in equals .. Terminator :
               /\ skip_spaces(equals + 1, first) /\ parse_value(first, last)
               /\ \/ last = first /\ Refuse(last) /\ UNCHANGED props
                  \/ /\ last > first
                     /\ props' = Append(props, [section |-> section,
                                                key |-> SubSeq(text, i, j - 1),
                                                value |-> SubSeq(text, first, last - 1)])
                     /\ Continue(IF At(last) = NL THEN last + 1 ELSE last)

\* Faulty variant: the length of the identifier is not looked at.
PropertyUnchecked(i) ==
  /\ At(i) \notin {NL, "#", NUL, "["}
  /\ \E j \in i .. Terminator : parse_identifier(i, j) /\ Assignment(i, j)
  /\ UNCHANGED section

Property(i) ==
  /\ At(i) \notin {NL, "#", NUL, "["}
  /\ \E j \in i .. Terminator :
       /\ parse_identifier(i, j)
       /\ \/ j = i /\ Refuse(i) /\ UNCHANGED props
          \/ j > i /\ Assignment(i, j)
  /\ UNCHANGED section

parse ==
  /\ outcome = "reading"
  /\ \E i \in buffer .. Terminator :
       /\ skip_spaces(buffer, i)
       /\ \/ EmptyLine(i) \/ Comment(i) \/ EndOfFile(i) \/ SectionName(i) \/ Property(i)
  /\ UNCHANGED <<text, settings>>

-------------------------------------------------------------------------------
(* Config::operator[] and Config::validate.                                  *)

Path(prop) == <<prop.section, prop.key>>
Assigns(path) == {n \in DOMAIN props : Path(props[n]) = path}

\* Faulty variant: the last line of a path wins.
LastValue(path) ==
  IF Assigns(path) = {} THEN <<>>
  ELSE props[CHOOSE n \in Assigns(path) : \A m \in Assigns(path) : n >= m].value

\* The value of a path: that of the first property of the file that has it.
Value(path) ==
  IF Assigns(path) = {} THEN <<>>
  ELSE props[CHOOSE n \in Assigns(path) : \A m \in Assigns(path) : n <= m].value

Set == {path \in Required : Assigns(path) # {}}

\* The int that std::stoi reads is the symbol at i: it skips the spaces before it.
stoi(value, i) ==
  i \in DOMAIN value /\ value[i] \in Numbers /\ \A j \in 1 .. (i - 1) : value[j] \in Spaces

\* The validation functions assign what they are given, a port even when
\* something follows the number: std::stoi reads what it can.
Passes(path) == path \in Ports => stoi(Value(path), Len(Value(path)))
Assigned == {path \in Set : path \in Ports => \E i \in DOMAIN Value(path) : stoi(Value(path), i)}
Port(value) == value[CHOOSE i \in DOMAIN value : stoi(value, i)]

validate ==
  /\ outcome = "parsed"
  /\ settings' = [path \in Assigned |-> IF path \in Ports THEN <<Port(Value(path))>> ELSE Value(path)]
  /\ outcome' = IF /\ \A n \in DOMAIN props : Path(props[n]) \in Required
                   /\ \A path \in Required : path \in Set /\ Passes(path)
                  THEN "valid" ELSE "invalid"
  /\ UNCHANGED <<text, buffer, section, props>>

Done == outcome \in {"refused", "valid", "invalid"} /\ UNCHANGED vars

Next == read_file \/ parse \/ validate \/ Done

Spec == Init /\ [][Next]_vars

-------------------------------------------------------------------------------
(* The state: a position of the text or its terminator, and properties whose *)
(* keys and values are never empty.                                          *)
TypeOK ==
  /\ text \in Seq(Symbols) /\ buffer \in 1 .. Terminator
  /\ section \in Seq(Symbols \cup {"default"})
  /\ outcome \in {"opening", "reading", "parsed", "refused", "valid", "invalid"}
  /\ \A n \in DOMAIN props :
       /\ props[n].key \in Seq(Iden) \ {<<>>}
       /\ props[n].value \in Seq(Symbols) \ {<<>>}
       /\ props[n].section \in Seq(Symbols \cup {"default"}) \ {<<>>}

(* However its loops nest, the scanner never moves past a NUL, the one that  *)
(* ends the buffer or one inside the text.                                   *)
NeverPassesNul == \A i \in 1 .. (buffer - 1) : At(i) # NUL
===============================================================================
