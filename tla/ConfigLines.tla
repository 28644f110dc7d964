------------------------------ MODULE ConfigLines ------------------------------
(***************************************************************************)
(* What the text of a configuration file means: its lines, each of them    *)
(* looked at as a whole, and what they say. Nothing moves along the text   *)
(* here; the scanner of Config, which does, has to agree with it.          *)
(***************************************************************************)
EXTENDS Config, FiniteSets

\* The first position from i on that holds one of the symbols, or none of them.
Seek(i, symbols) ==
  CHOOSE j \in i .. Terminator : At(j) \in symbols /\ \A k \in i .. (j - 1) : At(k) \notin symbols
Skip(i, symbols) ==
  CHOOSE j \in i .. Terminator : At(j) \notin symbols /\ \A k \in i .. (j - 1) : At(k) \in symbols

Greatest(numbers) == CHOOSE n \in numbers : \A m \in numbers : m <= n

\* The text ends at the first NUL. A line is named by the position it starts at.
End == Seek(1, {NUL})
Lines == {1} \cup {k + 1 : k \in {k \in 1 .. (End - 1) : At(k) = NL}}
Stop(l) == Seek(l, {NL, NUL})

-------------------------------------------------------------------------------
(* Heads of sections. A line may begin with several.                         *)

\* The symbols of its line before the ']' at k, but for those up to another ']'.
Opening(k) == Skip(1 + Greatest({0} \cup {j \in 1 .. (k - 1) : At(j) \in {NL, "]"}}), Blanks)
EndsName(k) == At(Opening(k)) = "[" /\ Opening(k) + 1 < k
Name(k) == SubSeq(text, Opening(k) + 1, k - 1)

\* The positions of those ']' that end a head: all before it in the line do.
SameLine(j, k) == \A m \in j .. k : At(m) # NL
Heads ==
  {k \in 1 .. (End - 1) :
      At(k) = "]" /\ \A j \in 1 .. k : At(j) = "]" /\ SameLine(j, k) => EndsName(j)}

\* The section that the position i belongs to.
SectionOf(i) ==
  LET before == {k \in Heads : k < i}
  IN  IF before = {} THEN <<"default">> ELSE Name(Greatest(before))

-------------------------------------------------------------------------------
(* What a line says behind the heads.                                        *)

Body(l) == Skip(1 + Greatest({l - 1} \cup {k \in Heads : k \in l .. Stop(l)}), Blanks)

\* Of a line whose body begins at b.
Equals(b) == Seek(b, {"=", NL, NUL})
KeyEnd(b) == Seek(b, Blanks \cup {"=", NL, NUL})
ValueOf(b) == SubSeq(text, Skip(Equals(b) + 1, Blanks), Stop(b) - 1)
IsAssignment(b) ==
  /\ At(Equals(b)) = "="
  /\ KeyEnd(b) > b /\ \A k \in b .. (KeyEnd(b) - 1) : At(k) \in Iden
  /\ \A k \in KeyEnd(b) .. (Equals(b) - 1) : At(k) \in Blanks
  /\ \E k \in (Equals(b) + 1) .. (Stop(b) - 1) : At(k) \notin Blanks
Says(b) == [section |-> SectionOf(b), key |-> SubSeq(text, b, KeyEnd(b) - 1), value |-> ValueOf(b)]

\* Nothing, a comment, or the assignment of a value.
IsWellFormed(b) == At(b) \in {NL, NUL, "#"} \/ IsAssignment(b)
WellFormed(l) == IsWellFormed(Body(l))

-------------------------------------------------------------------------------
(* Properties.                                                               *)

\* The bodies that are assignments.
Assignments == {b \in {Body(l) : l \in Lines} : IsAssignment(b)}

\* The properties are what the lines say, one by one.
Lists(bodies) ==
  /\ Len(props) = Cardinality(bodies)
  /\ \A b \in bodies : props[Cardinality({c \in bodies : c <= b})] = Says(b)

(* The scanner finds the properties that the lines of the file state one by  *)
(* one, each under the section named last, up to a first NUL if there is one;*)
(* it refuses the file exactly when one of the lines is not well formed, and *)
(* has then found what the lines before it say.                              *)
MeansItsLines ==
  /\ outcome \in {"parsed", "valid", "invalid"} =>
       (\A l \in Lines : WellFormed(l)) /\ Lists(Assignments)
  /\ outcome = "refused" /\ text # <<>> =>
       \E l \in Lines : /\ ~ WellFormed(l) /\ \A m \in Lines : m < l => WellFormed(m)
                        /\ Lists({b \in Assignments : b < l})

(* A program starts only with a file whose every property is one it requires *)
(* and whose settings are, for every path, the text of the first line that   *)
(* states it, of a port the number in it, with nothing but spaces before it: *)
(* later lines for the same path have no effect, and no blank or carriage    *)
(* return after the number of a port is overlooked.                          *)
PathOf(b) == <<Says(b).section, Says(b).key>>
States(value, path, setting) ==
  IF path \in Ports
  THEN /\ \E n \in Numbers : setting = <<n>> /\ value[Len(value)] = n
       /\ \A i \in 1 .. (Len(value) - 1) : value[i] \in Spaces
  ELSE setting = value
StartsAsWritten ==
  outcome = "valid" =>
    /\ DOMAIN settings = Required
    /\ \A path \in Required :
         \E b \in Assignments : /\ PathOf(b) = path /\ States(ValueOf(b), path, settings[path])
                               /\ \A c \in Assignments : PathOf(c) = path => b <= c
    /\ \A b \in Assignments : PathOf(b) \in Required
===============================================================================
