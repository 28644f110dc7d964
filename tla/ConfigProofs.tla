----------------------------- MODULE ConfigProofs -----------------------------
(***************************************************************************)
(* Proofs about Config and DaoConfig, for files of any length: what the    *)
(* scanner finds is well formed, no loop moves it past a NUL, it finds     *)
(* what the lines of ConfigLines say, a program starts with what its file  *)
(* says first, and a description of functions becomes those functions.     *)
(***************************************************************************)
EXTENDS DaoLines, FoldingProofs, FiniteSetTheorems

Names == Seq(Symbols \union {"default"}) \ {<<>>}
Prop == [section : Names, key : Seq(Iden) \ {<<>>}, value : Seq(Symbols) \ {<<>>}]

\* No NUL before the position i.
Clear(i) == \A k \in 1..(i - 1) : At(k) # NUL

\* While the scanner reads, its section has a name; before, it is at the beginning.
Scanning ==
    /\ text \in Seq(Symbols)
    /\ buffer \in 1..Terminator
    /\ section \in Seq(Symbols \union {"default"})
    /\ outcome \in {"opening", "reading", "parsed", "refused", "valid", "invalid"}
    /\ props \in Seq(Prop)
    /\ Clear(buffer)
    /\ outcome = "opening" => buffer = 1
    /\ outcome \in {"opening", "reading"} => section # <<>>

-----------------------------------------------------------------------------
(* The text.                                                               *)

\* The symbols that the scanner tells apart from names and blanks.
LEMMA SymbolFacts ==
    /\ NL # NUL /\ "#" # NUL /\ "[" # NUL /\ "]" # NUL /\ "=" # NUL
    /\ NUL \notin Iden /\ NUL \notin Blanks
BY SymbolsAssumption DEF NL, NUL

LEMMA TextFacts ==
    ASSUME text \in Seq(Symbols)
    PROVE  /\ Len(text) \in Nat /\ Terminator = Len(text) + 1
           /\ \A k \in 1..Terminator : At(k) # NUL => k \in 1..Len(text)
           /\ \A k \in 1..Len(text) : At(k) = text[k] /\ text[k] \in Symbols
BY DEF Terminator, At

\* A part of the text between two positions.
LEMMA PartFacts ==
    ASSUME text \in Seq(Symbols), NEW i \in 1..Terminator, NEW j \in i..Terminator
    PROVE  /\ SubSeq(text, i, j - 1) \in Seq(Symbols)
           /\ (\A k \in i..(j - 1) : At(k) \in Iden) => SubSeq(text, i, j - 1) \in Seq(Iden)
           /\ j > i => SubSeq(text, i, j - 1) # <<>>
<1>1. i \in Int /\ j - 1 \in Int /\ \A k \in i..(j - 1) : k \in 1..Len(text)
  BY TextFacts
<1>2. \A k \in i..(j - 1) : text[k] \in Symbols /\ At(k) = text[k]
  BY <1>1, TextFacts
<1>3. /\ SubSeq(text, i, j - 1) \in Seq(Symbols)
      /\ Len(SubSeq(text, i, j - 1)) = IF i <= j - 1 THEN (j - 1) - i + 1 ELSE 0
  BY <1>1, <1>2, SubSeqProperties
<1>4. ASSUME \A k \in i..(j - 1) : At(k) \in Iden
      PROVE  SubSeq(text, i, j - 1) \in Seq(Iden)
  <2>1. \A k \in i..(j - 1) : text[k] \in Iden
    BY <1>2, <1>4
  <2>2. QED
    BY <1>1, <2>1, SubSeqProperties
<1>5. ASSUME j > i PROVE SubSeq(text, i, j - 1) # <<>>
  <2> DEFINE s == SubSeq(text, i, j - 1)
  <2>1. Len(s) # 0
    BY <1>3, <1>5, TextFacts
  <2> HIDE DEF s
  <2>2. s # <<>>
    BY <2>1
  <2>3. QED
    BY <2>2 DEF s
<1>6. QED
  BY <1>3, <1>4, <1>5

\* A loop that stops at a NUL does not move past one.
LEMMA LoopStaysClear ==
    ASSUME text \in Seq(Symbols), NEW i \in 1..Terminator, Clear(i), NEW j \in i..Terminator,
           \A k \in i..(j - 1) : At(k) # NUL
    PROVE  Clear(j)
BY TextFacts DEF Clear

LEMMA StepStaysClear ==
    ASSUME text \in Seq(Symbols), NEW i \in 1..Terminator, Clear(i), At(i) # NUL
    PROVE  i + 1 \in 1..Terminator /\ Clear(i + 1)
BY TextFacts DEF Clear

LEMMA HelpersStayClear ==
    ASSUME text \in Seq(Symbols), NEW i \in 1..Terminator, Clear(i)
    PROVE  /\ \A j : skip_spaces(i, j) => j \in i..Terminator /\ j \in 1..Terminator /\ Clear(j)
           /\ \A j : parse_identifier(i, j) =>
                  j \in i..Terminator /\ j \in 1..Terminator /\ Clear(j)
           /\ \A j, delim : parse_until(i, j, delim) =>
                  j \in i..Terminator /\ j \in 1..Terminator /\ Clear(j)
<1>1. \A j \in i..Terminator : j \in 1..Terminator
  BY TextFacts
<1>2. \A j : skip_spaces(i, j) => j \in i..Terminator /\ \A k \in i..(j - 1) : At(k) # NUL
  BY SymbolFacts DEF skip_spaces
<1>3. \A j : parse_identifier(i, j) => j \in i..Terminator /\ \A k \in i..(j - 1) : At(k) # NUL
  BY SymbolFacts DEF parse_identifier
<1>4. \A j, delim : parse_until(i, j, delim) =>
          j \in i..Terminator /\ \A k \in i..(j - 1) : At(k) # NUL
  BY DEF parse_until
<1>5. QED
  BY <1>1, <1>2, <1>3, <1>4, LoopStaysClear

-----------------------------------------------------------------------------
(* The branches of parse, from a position before which there is no NUL.    *)

Reads(i) ==
    /\ Scanning /\ outcome = "reading" /\ i \in 1..Terminator /\ Clear(i)
    /\ text' = text

\* What a branch leaves.
Leaves ==
    /\ buffer' \in 1..Terminator /\ Clear(buffer')
    /\ section' \in Seq(Symbols \union {"default"})
    /\ outcome' \in {"reading", "parsed", "refused"}
    /\ outcome' = "reading" => section' # <<>>
    /\ props' \in Seq(Prop)

LEMMA LineBranches ==
    ASSUME NEW i, Reads(i), EmptyLine(i) \/ Comment(i) \/ EndOfFile(i)
    PROVE  Leaves
<1> USE DEF Reads, Scanning
<1>1. CASE EmptyLine(i)
  <2>1. At(i) # NUL /\ buffer' = i + 1 /\ UNCHANGED <<section, props, outcome>>
    BY <1>1, SymbolFacts DEF EmptyLine
  <2>2. QED
    BY <2>1, StepStaysClear DEF Leaves
<1>2. CASE Comment(i)
  <2>1. PICK j \in i..Terminator : parse_until(i, j, NUL) /\ buffer' = j
    BY <1>2 DEF Comment
  <2>2. j \in 1..Terminator /\ Clear(j)
    BY <2>1, HelpersStayClear
  <2>3. QED
    BY <1>2, <2>1, <2>2 DEF Comment, Leaves
<1>3. CASE EndOfFile(i)
  BY <1>3 DEF EndOfFile, Leaves
<1>4. QED
  BY <1>1, <1>2, <1>3

LEMMA SectionBranch ==
    ASSUME NEW i, Reads(i), SectionName(i)
    PROVE  Leaves
<1> USE DEF Reads, Scanning
<1>1. PICK j \in (i + 1)..Terminator :
        /\ parse_until(i + 1, j, "]")
        /\ section' = SubSeq(text, i + 1, j - 1)
        /\ IF j > i + 1 /\ At(j) = "]" THEN Continue(j + 1) ELSE Refuse(j)
  BY DEF SectionName
<1>2. i + 1 \in 1..Terminator /\ Clear(i + 1)
  BY SymbolFacts, StepStaysClear DEF SectionName
<1>3. j \in 1..Terminator /\ Clear(j)
  BY <1>1, <1>2, HelpersStayClear
<1>4. /\ section' \in Seq(Symbols \union {"default"})
      /\ j > i + 1 => section' # <<>>
  <2>1. section' \in Seq(Symbols) /\ (j > i + 1 => section' # <<>>)
    BY <1>1, <1>2, PartFacts
  <2>2. Seq(Symbols) \subseteq Seq(Symbols \union {"default"})
    OBVIOUS
  <2>3. QED
    BY <2>1, <2>2
<1>5. CASE j > i + 1 /\ At(j) = "]"
  <2>1. buffer' = j + 1 /\ outcome' = "reading" /\ At(j) # NUL
    BY <1>1, <1>5, SymbolFacts DEF Continue
  <2>2. j + 1 \in 1..Terminator /\ Clear(j + 1)
    BY <1>3, <2>1, StepStaysClear
  <2>3. QED
    BY <1>4, <1>5, <2>1, <2>2 DEF SectionName, Leaves
<1>6. CASE ~(j > i + 1 /\ At(j) = "]")
  BY <1>1, <1>3, <1>4, <1>6 DEF SectionName, Refuse, Leaves
<1>7. QED
  BY <1>5, <1>6

LEMMA PropertyBranch ==
    ASSUME NEW i, Reads(i), Property(i)
    PROVE  Leaves
<1> USE DEF Reads, Scanning
<1>0. section' = section
  BY DEF Property
<1>1. ASSUME NEW k \in 1..Terminator, Clear(k), Refuse(k), props' = props
      PROVE  Leaves
  BY <1>0, <1>1 DEF Refuse, Leaves
<1>2. PICK j \in i..Terminator :
        /\ parse_identifier(i, j)
        /\ \/ j = i /\ Refuse(i) /\ UNCHANGED props
           \/ j > i /\ Assignment(i, j)
  BY DEF Property
<1>3. j \in 1..Terminator /\ Clear(j)
  BY <1>2, HelpersStayClear
<1>4. CASE j = i /\ Refuse(i) /\ UNCHANGED props
  BY <1>1, <1>4
<1>5. CASE j > i /\ Assignment(i, j)
  <2>1. PICK equals \in j..Terminator :
          /\ skip_spaces(j, equals)
          /\ \/ At(equals) # "=" /\ Refuse(equals) /\ UNCHANGED props
             \/ /\ At(equals) = "="
                /\ \E first, last \in equals .. Terminator :
                     /\ skip_spaces(equals + 1, first) /\ parse_value(first, last)
                     /\ \/ last = first /\ Refuse(last) /\ UNCHANGED props
                        \/ /\ last > first
                           /\ props' = Append(props, [section |-> section,
                                                      key |-> SubSeq(text, i, j - 1),
                                                      value |-> SubSeq(text, first, last - 1)])
                           /\ Continue(IF At(last) = NL THEN last + 1 ELSE last)
    BY <1>5 DEF Assignment
  <2>2. equals \in 1..Terminator /\ Clear(equals)
    BY <1>3, <2>1, HelpersStayClear
  <2>3. CASE At(equals) # "=" /\ Refuse(equals) /\ UNCHANGED props
    BY <1>1, <2>2, <2>3
  <2>4. CASE At(equals) = "="
    <3>1. PICK first \in equals .. Terminator, last \in equals .. Terminator :
             /\ skip_spaces(equals + 1, first) /\ parse_value(first, last)
             /\ \/ last = first /\ Refuse(last) /\ UNCHANGED props
                \/ /\ last > first
                   /\ props' = Append(props, [section |-> section,
                                              key |-> SubSeq(text, i, j - 1),
                                              value |-> SubSeq(text, first, last - 1)])
                   /\ Continue(IF At(last) = NL THEN last + 1 ELSE last)
      BY <2>1, <2>4
    <3>2. equals + 1 \in 1..Terminator /\ Clear(equals + 1)
      BY <2>2, <2>4, SymbolFacts, StepStaysClear
    <3>3. first \in 1..Terminator /\ Clear(first)
      BY <3>1, <3>2, HelpersStayClear
    <3>4. last \in first..Terminator /\ last \in 1..Terminator /\ Clear(last)
      BY <3>1, <3>3, HelpersStayClear DEF parse_value
    <3>5. CASE last = first /\ Refuse(last) /\ UNCHANGED props
      BY <1>1, <3>4, <3>5
    <3>6. CASE last > first /\ Continue(IF At(last) = NL THEN last + 1 ELSE last)
               /\ props' = Append(props, [section |-> section,
                                          key |-> SubSeq(text, i, j - 1),
                                          value |-> SubSeq(text, first, last - 1)])
      <4> DEFINE key == SubSeq(text, i, j - 1)
                 value == SubSeq(text, first, last - 1)
      <4>1. key \in Seq(Iden) \ {<<>>}
        <5>1. \A k \in i..(j - 1) : At(k) \in Iden
          BY <1>2 DEF parse_identifier
        <5>2. QED
          BY <1>5, <5>1, PartFacts
      <4>2. value \in Seq(Symbols) \ {<<>>}
        BY <3>3, <3>4, <3>6, PartFacts
      <4>3. section \in Names
        BY DEF Names
      <4> HIDE DEF key, value
      <4>4. [section |-> section, key |-> key, value |-> value] \in Prop
        BY <4>1, <4>2, <4>3 DEF Prop
      <4>5. props' \in Seq(Prop)
        BY <3>6, <4>4, AppendProperties DEF key, value
      <4>6. buffer' \in 1..Terminator /\ Clear(buffer')
        <5>1. CASE At(last) = NL
          BY <3>4, <3>6, <5>1, SymbolFacts, StepStaysClear DEF Continue
        <5>2. CASE At(last) # NL
          BY <3>4, <3>6, <5>2 DEF Continue
        <5>3. QED
          BY <5>1, <5>2
      <4>7. QED
        BY <1>0, <3>6, <4>5, <4>6 DEF Continue, Leaves
    <3>7. QED
      BY <3>1, <3>5, <3>6
  <2>5. QED
    BY <2>1, <2>3, <2>4
<1>6. QED
  BY <1>2, <1>4, <1>5

-----------------------------------------------------------------------------
(* The program.                                                            *)

LEMMA ScanningStep == Scanning /\ [Next]_vars => Scanning'
<1> SUFFICES ASSUME Scanning, [Next]_vars PROVE Scanning'
  OBVIOUS
<1>1. CASE read_file
  <2>1. buffer' = 1 /\ section' = section /\ props' = props /\ section # <<>> /\ outcome = "opening"
    BY <1>1 DEF read_file, Scanning
  <2>2. text' \in Seq(Symbols) /\ outcome' \in {"refused", "reading"}
    BY <1>1, SymbolsAssumption DEF read_file, Scanning
  <2>3. buffer' \in 1..Terminator' /\ Clear(buffer)'
    BY <2>1, <2>2 DEF Terminator, Clear
  <2>4. QED
    BY <2>1, <2>2, <2>3 DEF Scanning, Clear
<1>2. CASE parse
  <2>1. PICK i \in buffer..Terminator :
          /\ skip_spaces(buffer, i)
          /\ EmptyLine(i) \/ Comment(i) \/ EndOfFile(i) \/ SectionName(i) \/ Property(i)
    BY <1>2 DEF parse
  <2>2. text' = text /\ outcome = "reading"
    BY <1>2 DEF parse
  <2>3. i \in 1..Terminator /\ Clear(i)
    BY <2>1, HelpersStayClear DEF Scanning
  <2>4. Reads(i)
    BY <2>2, <2>3 DEF Reads
  <2>5. Leaves
    BY <2>1, <2>4, LineBranches, SectionBranch, PropertyBranch
  <2>6. Clear(buffer)' /\ Terminator' = Terminator
    <3>1. Clear(buffer')
      BY <2>5 DEF Leaves
    <3>2. QED
      BY <2>2, <3>1 DEF Terminator, Clear, At
  <2>7. QED
    BY <2>2, <2>5, <2>6 DEF Scanning, Leaves
<1>3. CASE validate
  <2>1. UNCHANGED <<text, buffer, section, props>> /\ outcome' \in {"valid", "invalid"}
    BY <1>3 DEF validate
  <2>2. QED
    BY <2>1 DEF Scanning, Terminator, Clear, At
<1>4. CASE UNCHANGED vars
  BY <1>4 DEF vars, Scanning, Terminator, Clear, At
<1>5. QED
  BY <1>1, <1>2, <1>3, <1>4 DEF Next, Done

LEMMA ScanningInit == Init => Scanning
BY DEF Init, Scanning, Terminator, Clear

LEMMA ScanningAlways == Spec => []Scanning
BY ScanningInit, ScanningStep, PTL DEF Spec

\* For texts of any length: the position is one of the text or its terminator,
\* and no property has an empty section, key or value.
THEOREM ScannerTypes == Spec => []TypeOK
<1>1. Scanning => TypeOK
  <2> SUFFICES ASSUME Scanning PROVE TypeOK
    OBVIOUS
  <2>1. \A n \in DOMAIN props : props[n] \in Prop
    BY DEF Scanning
  <2>2. QED
    BY <2>1 DEF Scanning, TypeOK, Prop, Names
<1>2. QED
  BY <1>1, ScanningAlways, PTL

\* None of the loops of Config::parse and parser.cpp runs over the NUL that ends
\* the buffer, or over one that the file holds itself.
THEOREM StaysInBuffer == Spec => []NeverPassesNul
<1>1. Scanning => NeverPassesNul
  BY DEF Scanning, Clear, NeverPassesNul
<1>2. QED
  BY <1>1, ScanningAlways, PTL

-----------------------------------------------------------------------------
(* Positions.                                                              *)

\* The first position from i on in a set that the terminator is in.
LEMMA FirstPosition ==
    ASSUME text \in Seq(Symbols), NEW i \in 1..Terminator, NEW S, Terminator \in S
    PROVE  \E j \in i..Terminator : j \in S /\ \A k \in i..(j - 1) : k \notin S
<1> DEFINE T == {j \in i..Terminator : j \in S}
<1>1. T \in SUBSET Nat /\ T # {}
  BY TextFacts
<1>2. PICK j \in T : \A m \in T : j <= m
  BY <1>1, LeastNumber
<1>3. \A k \in i..(j - 1) : k \notin S
  BY <1>2, TextFacts
<1>4. QED
  BY <1>2, <1>3

LEMMA AtTerminator == text \in Seq(Symbols) => At(Terminator) = NUL
BY TextFacts DEF At

LEMMA SeekFacts ==
    ASSUME text \in Seq(Symbols), NEW i \in 1..Terminator, NEW S, NUL \in S
    PROVE  /\ Seek(i, S) \in i..Terminator /\ Seek(i, S) \in 1..Terminator
           /\ At(Seek(i, S)) \in S
           /\ \A k \in i..(Seek(i, S) - 1) : At(k) \notin S
<1> DEFINE In == {j \in 1..Terminator : At(j) \in S}
<1>1. Terminator \in In
  BY AtTerminator, TextFacts
<1> HIDE DEF In
<1>2. \E j \in i..Terminator : j \in In /\ \A k \in i..(j - 1) : k \notin In
  BY <1>1, FirstPosition
<1>3. \E j \in i..Terminator : At(j) \in S /\ \A k \in i..(j - 1) : At(k) \notin S
  BY <1>2, TextFacts DEF In
<1>4. QED
  BY <1>3, TextFacts DEF Seek

LEMMA SkipFacts ==
    ASSUME text \in Seq(Symbols), NEW i \in 1..Terminator, NEW S, NUL \notin S
    PROVE  /\ Skip(i, S) \in i..Terminator /\ Skip(i, S) \in 1..Terminator
           /\ At(Skip(i, S)) \notin S
           /\ \A k \in i..(Skip(i, S) - 1) : At(k) \in S
<1> DEFINE Out == {j \in 1..Terminator : At(j) \notin S}
<1>1. Terminator \in Out
  BY AtTerminator, TextFacts
<1> HIDE DEF Out
<1>2. \E j \in i..Terminator : j \in Out /\ \A k \in i..(j - 1) : k \notin Out
  BY <1>1, FirstPosition
<1>3. \E j \in i..Terminator : At(j) \notin S /\ \A k \in i..(j - 1) : At(k) \in S
  BY <1>2, TextFacts DEF Out
<1>4. QED
  BY <1>3, TextFacts DEF Skip

\* There is only one such position.
LEMMA SeekIs ==
    ASSUME text \in Seq(Symbols), NEW i \in 1..Terminator, NEW S, NUL \in S,
           NEW j \in i..Terminator, At(j) \in S, \A k \in i..(j - 1) : At(k) \notin S
    PROVE  Seek(i, S) = j
BY SeekFacts, TextFacts

LEMMA SkipIs ==
    ASSUME text \in Seq(Symbols), NEW i \in 1..Terminator, NEW S, NUL \notin S,
           NEW j \in i..Terminator, At(j) \notin S, \A k \in i..(j - 1) : At(k) \in S
    PROVE  Skip(i, S) = j
BY SkipFacts, TextFacts

LEMMA GreatestFacts ==
    ASSUME NEW b \in Nat, NEW T \in SUBSET (0..b), T # {}
    PROVE  Greatest(T) \in T /\ \A n \in T : n <= Greatest(T)
<1> DEFINE U == {b - n : n \in T}
<1>1. U \in SUBSET Nat /\ U # {}
  <2>1. \A n \in T : b - n \in Nat
    OBVIOUS
  <2>2. QED
    BY <2>1
<1>2. PICK u \in U : \A m \in U : u <= m
  BY <1>1, LeastNumber
<1>3. PICK n \in T : u = b - n
  BY <1>2
<1>4. \A m \in T : m <= n
  BY <1>2, <1>3
<1>5. QED
  BY <1>4 DEF Greatest

LEMMA GreatestIs ==
    ASSUME NEW b \in Nat, NEW T \in SUBSET (0..b), NEW n \in T, \A m \in T : m <= n
    PROVE  Greatest(T) = n
<1> DEFINE g == Greatest(T)
<1>1. g \in T /\ \A m \in T : m <= g
  BY GreatestFacts
<1> HIDE DEF g
<1>2. \A m \in T : m \in Nat
  OBVIOUS
<1>3. g = n
  BY <1>1, <1>2
<1>4. QED
  BY <1>3 DEF g

\* The scanner's helpers find these positions.
LEMMA HelpersFind ==
    ASSUME text \in Seq(Symbols), NEW i \in 1..Terminator, NEW j
    PROVE  /\ skip_spaces(i, j) => j = Skip(i, Blanks)
           /\ parse_identifier(i, j) => j = Skip(i, Iden)
           /\ \A delim : parse_until(i, j, delim) => j = Seek(i, {NL, NUL, delim})
<1>1. skip_spaces(i, j) => j = Skip(i, Blanks)
  BY SkipIs, SymbolFacts DEF skip_spaces
<1>2. parse_identifier(i, j) => j = Skip(i, Iden)
  BY SkipIs, SymbolFacts DEF parse_identifier
<1>3. ASSUME NEW delim, parse_until(i, j, delim) PROVE j = Seek(i, {NL, NUL, delim})
  BY <1>3, SeekIs DEF parse_until
<1>4. QED
  BY <1>1, <1>2, <1>3

-----------------------------------------------------------------------------
(* Lines.                                                                  *)

\* The symbols apart that the scanner takes decisions on.
LEMMA Apart ==
    /\ NL # NUL /\ NL # "#" /\ NL # "[" /\ NL # "]" /\ NL # "="
    /\ NUL # "#" /\ NUL # "[" /\ NUL # "]" /\ NUL # "="
    /\ {NL, NUL, "#", "[", "]", "="} \cap (Iden \cup Blanks) = {}
    /\ Iden \cap Blanks = {}
BY SymbolsAssumption DEF NL, NUL

LEMMA EndFacts ==
    ASSUME text \in Seq(Symbols)
    PROVE  /\ End \in 1..Terminator /\ At(End) = NUL
           /\ \A k \in 1..(End - 1) : At(k) # NUL
           /\ \A i \in 1..Terminator : Clear(i) => i <= End
<1>1. 1 \in 1..Terminator
  BY TextFacts
<1>2. /\ End \in 1..Terminator /\ At(End) = NUL
      /\ \A k \in 1..(End - 1) : At(k) # NUL
  BY <1>1, SeekFacts DEF End
<1>3. QED
  BY <1>2, TextFacts DEF Clear

LEMMA StopFacts ==
    ASSUME text \in Seq(Symbols), NEW l \in 1..Terminator
    PROVE  /\ Stop(l) \in l..Terminator /\ Stop(l) \in 1..Terminator
           /\ At(Stop(l)) \in {NL, NUL}
           /\ \A k \in l..(Stop(l) - 1) : At(k) \notin {NL, NUL}
           /\ l <= End => Stop(l) <= End
<1>1. /\ Stop(l) \in l..Terminator /\ Stop(l) \in 1..Terminator
      /\ At(Stop(l)) \in {NL, NUL}
      /\ \A k \in l..(Stop(l) - 1) : At(k) \notin {NL, NUL}
  BY SeekFacts DEF Stop
<1>2. QED
  BY <1>1, EndFacts, TextFacts

LEMMA LineFacts ==
    ASSUME text \in Seq(Symbols), NEW l \in Lines
    PROVE  /\ l \in 1..End /\ l \in 1..Terminator
           /\ l # 1 => l - 1 \in 1..(End - 1) /\ At(l - 1) = NL
           /\ Stop(l) \in l..End
<1>1. l \in 1..End /\ (l # 1 => l - 1 \in 1..(End - 1) /\ At(l - 1) = NL)
  BY EndFacts, TextFacts DEF Lines
<1>2. l \in 1..Terminator
  BY <1>1, EndFacts, TextFacts
<1>3. QED
  BY <1>1, <1>2, StopFacts, EndFacts, TextFacts

LEMMA LinesApart ==
    ASSUME text \in Seq(Symbols), NEW l \in Lines, NEW m \in Lines, l < m
    PROVE  Stop(l) < m
<1>1. m # 1 /\ At(m - 1) = NL /\ m - 1 >= l
  BY LineFacts, EndFacts, TextFacts
<1>2. QED
  BY <1>1, LineFacts, StopFacts, EndFacts, TextFacts

\* Where a line ends, another begins, unless the text ends.
LEMMA NextLine ==
    ASSUME text \in Seq(Symbols), NEW l \in Lines
    PROVE  /\ At(Stop(l)) = NL => /\ Stop(l) + 1 \in Lines
                                  /\ \A m \in Lines : m < Stop(l) + 1 => m <= l
           /\ At(Stop(l)) = NUL => \A m \in Lines : m <= l
<1>1. Stop(l) \in 1..End /\ \A m \in Lines : m > l => Stop(l) < m
  BY LinesApart, LineFacts, EndFacts, TextFacts
<1>2. \A m \in Lines : m \in 1..End
  BY LineFacts
<1>3. l \in 1..End
  BY LineFacts
<1>4. ASSUME At(Stop(l)) = NL PROVE Stop(l) + 1 \in Lines
  <2>1. Stop(l) # End
    BY <1>4, EndFacts, Apart
  <2>2. Stop(l) \in 1..(End - 1)
    BY <1>1, <2>1, EndFacts, TextFacts
  <2>3. QED
    BY <1>4, <2>2 DEF Lines
<1>5. ASSUME At(Stop(l)) = NUL PROVE Stop(l) = End
  BY <1>1, <1>5, EndFacts, TextFacts
<1>6. QED
  BY <1>1, <1>2, <1>3, <1>4, <1>5, EndFacts, TextFacts

-----------------------------------------------------------------------------
(* Heads.                                                                  *)

\* A position where a line begins or one of its heads has ended.
Seam(l, p) == l \in Lines /\ p \in l..Stop(l) /\ (p = l \/ p - 1 \in Heads)

LEMMA SeamFacts ==
    ASSUME text \in Seq(Symbols), NEW l, NEW p, Seam(l, p)
    PROVE  /\ p \in 1..Terminator /\ p \in 1..End /\ p \in l..Stop(l) /\ l \in 1..End
           /\ p - 1 \in 0..End /\ (p # 1 => At(p - 1) \in {NL, "]"})
           /\ \A k \in Heads : k \in 1..(End - 1) /\ At(k) = "]"
<1>1. l \in 1..End /\ Stop(l) \in l..End /\ p \in l..Stop(l) /\ (l # 1 => At(l - 1) = NL)
  BY LineFacts DEF Seam
<1>2. \A k \in Heads : k \in 1..(End - 1) /\ At(k) = "]"
  BY DEF Heads
<1>3. QED
  BY <1>1, <1>2, EndFacts, TextFacts DEF Seam

LEMMA SeamStops ==
    ASSUME text \in Seq(Symbols), NEW l, NEW p, Seam(l, p)
    PROVE  /\ Stop(l) \in 1..End /\ At(Stop(l)) \in {NL, NUL}
           /\ \A k \in l..(Stop(l) - 1) : At(k) \notin {NL, NUL}
<1>1. l \in 1..Terminator /\ l \in 1..End /\ Stop(l) \in l..End
  BY LineFacts DEF Seam
<1>2. QED
  BY <1>1, StopFacts, EndFacts, TextFacts

LEMMA OpeningIs ==
    ASSUME text \in Seq(Symbols), NEW l, NEW p, Seam(l, p), NEW j \in p..End,
           \A k \in p..(j - 1) : At(k) \notin {NL, "]"}
    PROVE  Opening(j) = Skip(p, Blanks)
<1> DEFINE marks == {0} \cup {k \in 1 .. (j - 1) : At(k) \in {NL, "]"}}
<1>1. p - 1 \in marks
  BY SeamFacts, EndFacts, TextFacts
<1>2. \A k \in marks : k <= p - 1
  BY SeamFacts, EndFacts, TextFacts
<1>3. marks \in SUBSET (0..End) /\ End \in Nat
  BY SeamFacts, EndFacts, TextFacts
<1> HIDE DEF marks
<1>4. Greatest(marks) = p - 1
  BY <1>1, <1>2, <1>3, GreatestIs
<1>5. 1 + (p - 1) = p
  BY SeamFacts
<1>6. QED
  BY <1>4, <1>5 DEF Opening, marks

\* Where the blanks behind a seam end.
LEMMA Indent ==
    ASSUME text \in Seq(Symbols), NEW l, NEW p, Seam(l, p)
    PROVE  /\ Skip(p, Blanks) \in p..Stop(l) /\ Skip(p, Blanks) \in 1..Terminator
           /\ At(Skip(p, Blanks)) \notin Blanks
           /\ \A k \in p..(Skip(p, Blanks) - 1) :
                  At(k) \in Blanks /\ At(k) \notin {NL, NUL, "[", "]", "=", "#"}
<1>1. p \in 1..Terminator /\ NUL \notin Blanks
  BY SeamFacts, Apart
<1>2. /\ Skip(p, Blanks) \in p..Terminator /\ Skip(p, Blanks) \in 1..Terminator
      /\ At(Skip(p, Blanks)) \notin Blanks
      /\ \A k \in p..(Skip(p, Blanks) - 1) : At(k) \in Blanks
  BY <1>1, SkipFacts
<1>3. At(Stop(l)) \notin Blanks /\ Stop(l) \in p..End
  BY SeamFacts, StopFacts, LineFacts, Apart, EndFacts DEF Seam
<1>4. QED
  BY <1>2, <1>3, SeamFacts, EndFacts, TextFacts, Apart

\* The symbol that ends what '[' has begun, or the line before that.
Closing(i) == Seek(i + 1, {NL, NUL, "]"})
BeginsHead(i) == At(i) = "[" /\ At(Closing(i)) = "]" /\ Closing(i) > i + 1

LEMMA ClosingFacts ==
    ASSUME text \in Seq(Symbols), NEW l, NEW p, Seam(l, p), NEW i, i = Skip(p, Blanks), At(i) = "["
    PROVE  /\ i + 1 \in 1..Terminator /\ Closing(i) \in (i + 1)..Stop(l)
           /\ At(Closing(i)) \in {NL, NUL, "]"}
           /\ \A k \in (i + 1)..(Closing(i) - 1) : At(k) \notin {NL, NUL, "]"}
           /\ \A k \in p..(Closing(i) - 1) : At(k) \notin {NL, NUL, "]"}
<1>1. i \in p..Stop(l) /\ Stop(l) \in 1..End /\ p \in 1..End
  BY Indent, SeamFacts, LineFacts, EndFacts, TextFacts DEF Seam
<1>2. At(Stop(l)) \in {NL, NUL}
  BY StopFacts, LineFacts DEF Seam
<1>3. i + 1 \in 1..Terminator /\ i + 1 \in 1..Stop(l)
  BY <1>1, <1>2, EndFacts, TextFacts, Apart
<1>4. /\ Closing(i) \in (i + 1)..Terminator /\ At(Closing(i)) \in {NL, NUL, "]"}
      /\ \A k \in (i + 1)..(Closing(i) - 1) : At(k) \notin {NL, NUL, "]"}
  BY <1>3, SeekFacts DEF Closing
<1>5. Closing(i) \in (i + 1)..Stop(l)
  BY <1>1, <1>2, <1>3, <1>4, EndFacts, TextFacts
<1>6. \A k \in p..(i - 1) : At(k) \notin {NL, NUL, "]"}
  BY Indent
<1>7. At(i) \notin {NL, NUL, "]"}
  BY Apart
<1>8. \A k \in p..(Closing(i) - 1) : k \in p..(i - 1) \/ k = i \/ k \in (i + 1)..(Closing(i) - 1)
  BY <1>1, <1>5, EndFacts, TextFacts
<1>9. QED
  BY <1>3, <1>4, <1>5, <1>6, <1>7, <1>8

LEMMA HeadEnds ==
    ASSUME text \in Seq(Symbols), NEW l, NEW p, Seam(l, p), NEW i, i = Skip(p, Blanks), BeginsHead(i)
    PROVE  /\ Seam(l, Closing(i) + 1) /\ Closing(i) \in Heads /\ Opening(Closing(i)) = i
           /\ SectionOf(Closing(i) + 1) = SubSeq(text, i + 1, Closing(i) - 1)
<1> DEFINE j == Closing(i)
<1>1. /\ i \in p..Stop(l) /\ j \in (i + 1)..Stop(l) /\ Stop(l) \in 1..End
      /\ \A k \in p..(j - 1) : At(k) \notin {NL, NUL, "]"}
      /\ At(j) = "]" /\ j > i + 1
  <2>1. At(i) = "[" /\ At(j) = "]" /\ j > i + 1
    BY DEF BeginsHead
  <2>2. /\ j \in (i + 1)..Stop(l)
        /\ \A k \in p..(j - 1) : At(k) \notin {NL, NUL, "]"}
    BY <2>1, ClosingFacts
  <2>3. i \in p..Stop(l)
    BY Indent
  <2>4. Stop(l) \in 1..End
    BY SeamStops
  <2>5. QED
    BY <2>1, <2>2, <2>3, <2>4
<1>2. j # Stop(l)
  BY <1>1, StopFacts, LineFacts, Apart DEF Seam
<1> HIDE DEF j
<1>3. p \in 1..End /\ l \in 1..p /\ End \in Nat
  BY SeamFacts, EndFacts, TextFacts
<1>4. j \in p..End /\ j \in 1..(End - 1) /\ j + 1 \in l..Stop(l)
  BY <1>1, <1>2, <1>3
<1>5. Opening(j) = i
  BY <1>1, <1>4, OpeningIs
<1>6. EndsName(j)
  BY <1>1, <1>5 DEF EndsName, BeginsHead
<1>7. ASSUME NEW m \in 1..j, At(m) = "]", SameLine(m, j) PROVE EndsName(m)
  <2>1. CASE m = j
    BY <1>6, <2>1
  <2>2. CASE m < j
    <3>1. m <= p - 1
      BY <1>1, <1>3, <1>4, <1>7, <2>2
    <3>2. m >= l
      <4>1. SUFFICES ASSUME m < l PROVE FALSE
        BY <1>3, <3>1
      <4>2. At(l - 1) = NL /\ l - 1 \in m..j
        BY <1>3, <1>4, <4>1, LineFacts DEF Seam
      <4>3. QED
        BY <1>7, <4>2 DEF SameLine
    <3>3. p - 1 \in Heads /\ m \in 1..(p - 1)
      BY <1>3, <3>1, <3>2 DEF Seam
    <3>4. SameLine(m, p - 1)
      BY <1>3, <1>4, <1>7, <3>1 DEF SameLine
    <3>5. QED
      BY <1>7, <3>3, <3>4 DEF Heads
  <2>3. QED
    BY <1>4, <2>1, <2>2
<1>8. j \in Heads
  BY <1>1, <1>4, <1>7 DEF Heads
<1>9. Seam(l, j + 1)
  BY <1>4, <1>8 DEF Seam
<1>10. SectionOf(j + 1) = SubSeq(text, i + 1, j - 1)
  <2> DEFINE before == {k \in Heads : k < j + 1}
  <2>1. j \in before /\ \A k \in before : k <= j
    BY <1>4, <1>8, SeamFacts
  <2>2. before \in SUBSET (0..End)
    <3>1. \A k \in Heads : k \in 0..End
      BY <1>3, SeamFacts
    <3>2. QED
      BY <3>1
  <2>3. SectionOf(j + 1) = IF before = {} THEN <<"default">> ELSE Name(Greatest(before))
    BY DEF SectionOf
  <2> HIDE DEF before
  <2>4. Greatest(before) = j
    BY <1>3, <2>1, <2>2, GreatestIs
  <2>5. QED
    BY <1>5, <2>1, <2>3, <2>4 DEF Name
<1>11. QED
  BY <1>5, <1>8, <1>9, <1>10 DEF j

LEMMA BodyIs ==
    ASSUME text \in Seq(Symbols), NEW l, NEW p, Seam(l, p), NEW i, i = Skip(p, Blanks), ~BeginsHead(i)
    PROVE  Body(l) = i /\ \A k \in Heads : k \in l..Stop(l) => k < p
<1>1. /\ p \in 1..End /\ p \in l..Stop(l) /\ l \in 1..p /\ End \in Nat /\ Stop(l) \in 1..End
      /\ i \in p..Stop(l) /\ At(Stop(l)) \in {NL, NUL}
      /\ \A k \in l..(Stop(l) - 1) : At(k) \notin {NL, NUL}
  <2>1. i \in p..Stop(l)
    BY Indent
  <2>2. p \in 1..End /\ p \in l..Stop(l) /\ l \in 1..End
    BY SeamFacts
  <2>3. End \in Nat
    BY EndFacts, TextFacts
  <2>4. QED
    BY <2>1, <2>2, <2>3, SeamStops
<1>2. ASSUME NEW k \in Heads, k \in l..Stop(l) PROVE k < p
  <2> SUFFICES ASSUME k >= p PROVE FALSE
    BY <1>1, SeamFacts
  <2>1. At(k) = "]" /\ k # Stop(l) /\ k \in p..(Stop(l) - 1)
    BY <1>1, <1>2, SeamFacts, Apart
  <2> DEFINE T == {m \in p..k : At(m) = "]"}
  <2>2. T \in SUBSET Nat /\ T # {}
    BY <1>1, <2>1
  <2>3. PICK j \in T : \A m \in T : j <= m
    BY <2>2, LeastNumber
  <2>4. j \in p..k /\ At(j) = "]" /\ \A m \in p..(j - 1) : At(m) # "]"
    BY <1>1, <2>1, <2>3
  <2> HIDE DEF T
  <2>5. \A m \in p..k : At(m) \notin {NL, NUL}
    BY <1>1, <2>1
  <2>6. EndsName(j)
    <3>1. SameLine(j, k) /\ j \in 1..k
      BY <1>1, <2>1, <2>4, <2>5 DEF SameLine
    <3>2. QED
      BY <2>4, <3>1 DEF Heads
  <2>7. Opening(j) = i
    <3>1. j \in p..End /\ \A m \in p..(j - 1) : At(m) \notin {NL, "]"}
      BY <1>1, <2>1, <2>4, <2>5
    <3>2. QED
      BY <3>1, OpeningIs
  <2>8. At(i) = "[" /\ i + 1 < j
    BY <2>6, <2>7 DEF EndsName
  <2>9. Closing(i) = j
    <3>1. i + 1 \in 1..Terminator /\ j \in (i + 1)..Terminator
      BY <1>1, <2>1, <2>4, <2>8, EndFacts, TextFacts
    <3>2. \A m \in (i + 1)..(j - 1) : At(m) \notin {NL, NUL, "]"}
      BY <1>1, <2>1, <2>4, <2>5
    <3>3. QED
      BY <2>4, <3>1, <3>2, SeekIs DEF Closing
  <2>10. QED
    BY <2>4, <2>8, <2>9 DEF BeginsHead
<1>3. Greatest({l - 1} \cup {k \in Heads : k \in l .. Stop(l)}) = p - 1
  <2> DEFINE T == {l - 1} \cup {k \in Heads : k \in l .. Stop(l)}
  <2>1. p - 1 \in T
    BY <1>1 DEF Seam
  <2>2. \A k \in T : k <= p - 1
    BY <1>1, <1>2, SeamFacts
  <2>3. T \in SUBSET (0..End)
    BY <1>1, SeamFacts
  <2> HIDE DEF T
  <2>4. Greatest(T) = p - 1
    BY <1>1, <2>1, <2>2, <2>3, GreatestIs
  <2>5. QED
    BY <2>4 DEF T
<1>4. 1 + (p - 1) = p
  BY <1>1
<1>5. QED
  BY <1>2, <1>3, <1>4 DEF Body

-----------------------------------------------------------------------------
(* Bodies.                                                                 *)

LEMMA BodyFacts ==
    ASSUME text \in Seq(Symbols), NEW l \in Lines
    PROVE  /\ Body(l) \in l..Stop(l) /\ Body(l) \in 1..Terminator
           /\ At(Body(l)) \notin Blanks
<1> DEFINE T == {l - 1} \cup {k \in Heads : k \in l .. Stop(l)}
<1>1. /\ Seam(l, l) /\ l \in 1..End /\ Stop(l) \in 1..End /\ At(Stop(l)) \in {NL, NUL}
      /\ \A k \in Heads : k \in 1..(End - 1) /\ At(k) = "]"
  <2>1. Seam(l, l)
    BY LineFacts, EndFacts, TextFacts DEF Seam
  <2>2. QED
    BY <2>1, SeamFacts, SeamStops
<1>2. T \in SUBSET (0..End) /\ T # {} /\ End \in Nat
  <2>1. End \in Nat /\ l - 1 \in 0..End /\ \A k \in Heads : k \in 0..End
    BY <1>1, EndFacts, TextFacts
  <2>2. QED
    BY <2>1
<1>3. Greatest(T) \in T
  BY <1>2, GreatestFacts
<1>4. \A k \in T : Seam(l, k + 1)
  <2>1. (l - 1) + 1 = l
    BY <1>1
  <2>2. ASSUME NEW k \in Heads, k \in l..Stop(l) PROVE Seam(l, k + 1)
    <3>1. k # Stop(l) /\ k + 1 \in l..Stop(l) /\ (k + 1) - 1 = k
      BY <1>1, <2>2, Apart
    <3>2. QED
      BY <2>2, <3>1 DEF Seam
  <2>3. QED
    BY <1>1, <2>1, <2>2
<1> HIDE DEF T
<1>5. Body(l) = Skip(Greatest(T) + 1, Blanks)
  <2>1. \A k \in T : 1 + k = k + 1
    BY <1>2
  <2>2. QED
    BY <1>3, <2>1 DEF Body, T
<1> DEFINE p == Greatest(T) + 1
<1>6. Seam(l, p)
  BY <1>3, <1>4
<1> HIDE DEF p
<1>7. /\ Skip(p, Blanks) \in p..Stop(l) /\ Skip(p, Blanks) \in 1..Terminator
      /\ At(Skip(p, Blanks)) \notin Blanks /\ p \in l..Stop(l)
  BY <1>6, Indent, SeamFacts
<1>8. QED
  BY <1>1, <1>5, <1>7 DEF p

LEMMA BodiesApart ==
    ASSUME text \in Seq(Symbols), NEW l \in Lines, NEW m \in Lines, l < m
    PROVE  Body(l) < m /\ m <= Body(m)
BY BodyFacts, LinesApart, LineFacts, EndFacts, TextFacts

\* What the scanner's loops find is what there has to be in an assignment, ...
LEMMA AssignmentIs ==
    ASSUME text \in Seq(Symbols), NEW b \in 1..Terminator, IsAssignment(b)
    PROVE  /\ Skip(b, Iden) = KeyEnd(b) /\ KeyEnd(b) \in 1..Terminator /\ KeyEnd(b) > b
           /\ Skip(KeyEnd(b), Blanks) = Equals(b) /\ At(Equals(b)) = "="
           /\ At(b) \in Iden
<1>1. /\ KeyEnd(b) \in b..Terminator /\ KeyEnd(b) \in 1..Terminator
      /\ At(KeyEnd(b)) \in Blanks \cup {"=", NL, NUL}
      /\ \A k \in b..(KeyEnd(b) - 1) : At(k) \notin Blanks \cup {"=", NL, NUL}
  BY SeekFacts DEF KeyEnd
<1>2. /\ Equals(b) \in b..Terminator /\ \A k \in b..(Equals(b) - 1) : At(k) \notin {"=", NL, NUL}
  BY SeekFacts DEF Equals
<1>3. /\ At(Equals(b)) = "=" /\ KeyEnd(b) > b
      /\ \A k \in b..(KeyEnd(b) - 1) : At(k) \in Iden
      /\ \A k \in KeyEnd(b)..(Equals(b) - 1) : At(k) \in Blanks
  BY DEF IsAssignment
<1>4. At(KeyEnd(b)) \notin Iden
  BY <1>1, Apart
<1>5. Skip(b, Iden) = KeyEnd(b)
  BY <1>1, <1>3, <1>4, SkipIs, SymbolFacts
<1>6. Equals(b) >= KeyEnd(b)
  BY <1>1, <1>2, <1>3, TextFacts
<1>7. Skip(KeyEnd(b), Blanks) = Equals(b)
  <2>1. Equals(b) \in KeyEnd(b)..Terminator /\ At(Equals(b)) \notin Blanks
    BY <1>1, <1>2, <1>3, <1>6, Apart, TextFacts
  <2>2. QED
    BY <1>1, <1>3, <2>1, SkipIs, SymbolFacts
<1>8. b \in b..(KeyEnd(b) - 1)
  BY <1>1, <1>3, TextFacts
<1>9. QED
  BY <1>1, <1>3, <1>5, <1>7, <1>8

\* ... and the other way round.
LEMMA KeyIs ==
    ASSUME text \in Seq(Symbols), NEW b \in 1..Terminator, NEW j, NEW e,
           j = Skip(b, Iden), j > b, e = Skip(j, Blanks), At(e) = "="
    PROVE  /\ j \in 1..Terminator /\ j \in b..e /\ e \in b..Terminator /\ e + 1 \in 1..Terminator
           /\ Equals(b) = e /\ KeyEnd(b) = j
           /\ \A k \in b..(j - 1) : At(k) \in Iden
           /\ \A k \in j..(e - 1) : At(k) \in Blanks
           /\ \A k \in b..e : At(k) \notin {NL, NUL}
<1>1. /\ j \in b..Terminator /\ j \in 1..Terminator
      /\ \A k \in b..(j - 1) : At(k) \in Iden
  BY SkipFacts, SymbolFacts
<1>2. /\ e \in j..Terminator /\ e \in 1..Terminator
      /\ \A k \in j..(e - 1) : At(k) \in Blanks
  BY <1>1, SkipFacts, SymbolFacts
<1>3. \A k \in b..e : k \in b..(j - 1) \/ k \in j..(e - 1) \/ k = e
  BY <1>1, <1>2, TextFacts
<1>4. \A k \in b..e : At(k) \notin {NL, NUL}
  BY <1>1, <1>2, <1>3, Apart
<1>5. Equals(b) = e
  <2>1. e \in b..Terminator /\ \A k \in b..(e - 1) : k \in b..e /\ k # e
    BY <1>1, <1>2, TextFacts
  <2>2. \A k \in b..(e - 1) : At(k) \notin {"=", NL, NUL}
    BY <1>1, <1>2, <1>3, <2>1, Apart
  <2>3. QED
    BY <2>1, <2>2, SeekIs DEF Equals
<1>6. KeyEnd(b) = j
  <2>1. At(j) \in Blanks \cup {"=", NL, NUL}
    BY <1>1, <1>2, TextFacts
  <2>2. \A k \in b..(j - 1) : At(k) \notin Blanks \cup {"=", NL, NUL}
    BY <1>1, Apart
  <2>3. QED
    BY <1>1, <2>1, <2>2, SeekIs DEF KeyEnd
<1>7. e # Terminator
  BY AtTerminator, Apart
<1>8. j \in b..e /\ e \in b..Terminator /\ e + 1 \in 1..Terminator
  <2>1. Terminator \in Nat /\ b \in Nat
    BY TextFacts
  <2>2. /\ j \in Nat /\ b <= j /\ e \in Nat /\ j <= e /\ e <= Terminator
    BY <1>1, <1>2, <2>1
  <2>3. e < Terminator
    BY <1>7, <2>1, <2>2
  <2>4. QED
    BY <2>1, <2>2, <2>3
<1>9. QED
  BY <1>1, <1>2, <1>4, <1>5, <1>6, <1>8

LEMMA ValueFacts ==
    ASSUME text \in Seq(Symbols), NEW b \in 1..Terminator, NEW j, NEW e, NEW first, NEW last,
           j = Skip(b, Iden), j > b, e = Skip(j, Blanks), At(e) = "=",
           first = Skip(e + 1, Blanks), last = Seek(first, {NL, NUL})
    PROVE  /\ last = Stop(b) /\ first \in b..last /\ last \in b..Terminator
           /\ last > first => IsAssignment(b)
           /\ last = first => ~IsAssignment(b)
           /\ Equals(b) = e /\ KeyEnd(b) = j
<1>1. /\ j \in 1..Terminator /\ j \in b..e /\ e \in b..Terminator /\ e + 1 \in 1..Terminator
      /\ Equals(b) = e /\ KeyEnd(b) = j
      /\ \A k \in b..(j - 1) : At(k) \in Iden
      /\ \A k \in j..(e - 1) : At(k) \in Blanks
      /\ \A k \in b..e : At(k) \notin {NL, NUL}
  BY KeyIs
<1>2. /\ first \in (e + 1)..Terminator /\ first \in 1..Terminator /\ At(first) \notin Blanks
      /\ \A k \in (e + 1)..(first - 1) : At(k) \in Blanks
  BY <1>1, SkipFacts, SymbolFacts
<1>3. /\ last \in first..Terminator /\ At(last) \in {NL, NUL}
      /\ \A k \in first..(last - 1) : At(k) \notin {NL, NUL}
  BY <1>2, SeekFacts
<1>4. last = Stop(b)
  <2>1. last \in b..Terminator
    BY <1>1, <1>2, <1>3, TextFacts
  <2>2. \A k \in b..(last - 1) : k \in b..e \/ k \in (e + 1)..(first - 1) \/ k \in first..(last - 1)
    BY <1>1, <1>2, <1>3, TextFacts
  <2>3. \A k \in b..(last - 1) : At(k) \notin {NL, NUL}
    BY <1>1, <1>2, <1>3, <2>2, Apart
  <2>4. QED
    BY <1>3, <2>1, <2>3, SeekIs DEF Stop
<1>5. first \in b..last /\ last \in b..Terminator
  BY <1>1, <1>2, <1>3, TextFacts
<1>6. ASSUME last > first PROVE IsAssignment(b)
  <2>1. first \in (Equals(b) + 1)..(Stop(b) - 1)
    BY <1>1, <1>2, <1>3, <1>4, <1>6, TextFacts
  <2>2. QED
    BY <1>1, <1>2, <2>1 DEF IsAssignment
<1>7. ASSUME IsAssignment(b) PROVE last > first
  <2>1. PICK k \in (e + 1)..(last - 1) : At(k) \notin Blanks
    BY <1>1, <1>4, <1>7 DEF IsAssignment
  <2>2. QED
    BY <1>1, <1>2, <1>3, <2>1, TextFacts
<1>8. first \in Nat
  BY <1>2, TextFacts
<1>9. last = first => ~IsAssignment(b)
  BY <1>7, <1>8
<1>10. last > first => IsAssignment(b)
  BY <1>6
<1>11. QED
  BY <1>1, <1>4, <1>5, <1>9, <1>10

LEMMA ValueIs ==
    ASSUME text \in Seq(Symbols), NEW b \in 1..Terminator, NEW j, NEW e, NEW first, NEW last,
           j = Skip(b, Iden), j > b, e = Skip(j, Blanks), At(e) = "=",
           first = Skip(e + 1, Blanks), last = Seek(first, {NL, NUL})
    PROVE  last = Stop(b) /\ Equals(b) = e /\ KeyEnd(b) = j
BY ValueFacts

LEMMA ValueThere ==
    ASSUME text \in Seq(Symbols), NEW b \in 1..Terminator, NEW j, NEW e, NEW first, NEW last,
           j = Skip(b, Iden), j > b, e = Skip(j, Blanks), At(e) = "=",
           first = Skip(e + 1, Blanks), last = Seek(first, {NL, NUL})
    PROVE  last > first => IsAssignment(b)
BY ValueFacts

LEMMA ValueMissing ==
    ASSUME text \in Seq(Symbols), NEW b \in 1..Terminator, NEW j, NEW e, NEW first, NEW last,
           j = Skip(b, Iden), j > b, e = Skip(j, Blanks), At(e) = "=",
           first = Skip(e + 1, Blanks), last = Seek(first, {NL, NUL})
    PROVE  last = first => ~IsAssignment(b)
BY ValueFacts

-----------------------------------------------------------------------------
(* Listings. What is said at the positions q[1], q[2], ... is listed.      *)

Ordered(q, list, positions, said) ==
    /\ q \in [1..Len(list) -> Nat] /\ positions = {q[n] : n \in 1..Len(list)}
    /\ \A m, n \in 1..Len(list) : m < n => q[m] < q[n]
    /\ \A n \in 1..Len(list) : list[n] = said[q[n]]

Listed(list, positions, said) == \E q : Ordered(q, list, positions, said)

LEMMA NothingListed == \A said : Listed(<<>>, {}, said)
<1> SUFFICES ASSUME NEW said PROVE Listed(<<>>, {}, said)
  OBVIOUS
<1> DEFINE q == [n \in 1..0 |-> 0]
<1>1. Len(<<>>) = 0 /\ 1..0 = {}
  OBVIOUS
<1>2. Ordered(q, <<>>, {}, said)
  BY <1>1 DEF Ordered
<1>3. QED
  BY <1>2 DEF Listed

LEMMA OneMoreListed ==
    ASSUME NEW S, NEW list \in Seq(S), NEW positions, NEW said, Listed(list, positions, said),
           NEW b \in Nat, NEW x \in S, said[b] = x, \A c \in positions : c < b
    PROVE  Listed(Append(list, x), positions \union {b}, said)
<1>1. PICK q : Ordered(q, list, positions, said)
  BY DEF Listed
<1> DEFINE len == Len(list)
           longer == Append(list, x)
           r == [n \in 1..(len + 1) |-> IF n = len + 1 THEN b ELSE q[n]]
<1>2. /\ len \in Nat /\ Len(longer) = len + 1 /\ longer[len + 1] = x
      /\ \A n \in 1..len : longer[n] = list[n]
  BY AppendProperties
<1>3. /\ q \in [1..len -> Nat] /\ positions = {q[n] : n \in 1..len}
      /\ \A m, n \in 1..len : m < n => q[m] < q[n]
      /\ \A n \in 1..len : list[n] = said[q[n]]
  BY <1>1 DEF Ordered
<1> HIDE DEF len, longer
<1>4. /\ \A n \in 1..(len + 1) : n = len + 1 \/ n \in 1..len
      /\ \A n \in 1..len : n \in 1..(len + 1) /\ n # len + 1
      /\ len + 1 \in 1..(len + 1)
  BY <1>2
<1>5. r[len + 1] = b /\ \A n \in 1..len : r[n] = q[n]
  BY <1>4
<1>6. r \in [1..(len + 1) -> Nat]
  BY <1>3, <1>4
<1> HIDE DEF r
<1>7. positions \union {b} = {r[n] : n \in 1..(len + 1)}
  BY <1>3, <1>4, <1>5
<1>8. \A m, n \in 1..(len + 1) : m < n => r[m] < r[n]
  <2> SUFFICES ASSUME NEW m \in 1..(len + 1), NEW n \in 1..(len + 1), m < n PROVE r[m] < r[n]
    OBVIOUS
  <2>1. m \in 1..len
    BY <1>2
  <2>2. q[m] \in positions /\ r[m] = q[m]
    BY <1>3, <1>5, <2>1
  <2>3. CASE n = len + 1
    BY <1>5, <2>2, <2>3
  <2>4. CASE n \in 1..len
    BY <1>3, <1>5, <2>1, <2>4
  <2>5. QED
    BY <1>4, <2>3, <2>4
<1>9. \A n \in 1..(len + 1) : longer[n] = said[r[n]]
  BY <1>2, <1>3, <1>4, <1>5
<1>10. Ordered(r, longer, positions \union {b}, said)
  BY <1>2, <1>6, <1>7, <1>8, <1>9 DEF Ordered
<1>11. QED
  BY <1>10 DEF Listed, longer

\* So a listing can be told by counting.
LEMMA ListedCounts ==
    ASSUME NEW S, NEW list \in Seq(S), NEW positions, NEW said, Listed(list, positions, said)
    PROVE  /\ Len(list) = Cardinality(positions)
           /\ \A b \in positions : list[Cardinality({c \in positions : c <= b})] = said[b]
<1>1. PICK q : Ordered(q, list, positions, said)
  BY DEF Listed
<1> DEFINE len == Len(list)
<1>2. /\ len \in Nat /\ q \in [1..len -> Nat] /\ positions = {q[n] : n \in 1..len}
      /\ \A m, n \in 1..len : m < n => q[m] < q[n]
      /\ \A n \in 1..len : list[n] = said[q[n]]
  BY <1>1 DEF Ordered
<1> HIDE DEF len
<1>3. \A m, n \in 1..len : q[m] \in Nat /\ (q[m] <= q[n] <=> m <= n) /\ (q[m] = q[n] => m = n)
  BY <1>2
<1>4. ASSUME NEW n \in 0..len
      PROVE  Cardinality({q[m] : m \in 1..n}) = n
  <2> DEFINE T == {q[m] : m \in 1..n}
             f == [m \in 1..n |-> q[m]]
  <2>1. \A m \in 1..n : m \in 1..len
    BY <1>2
  <2>2. f \in [1..n -> T] /\ \A t \in T : \E m \in 1..n : f[m] = t
    OBVIOUS
  <2>3. IsInjective(f)
    BY <1>3, <2>1 DEF IsInjective
  <2>4. f \in Bijection(1..n, T)
    BY <2>2, <2>3 DEF Bijection, Injection, Surjection
  <2> HIDE DEF f, T
  <2>5. Cardinality(T) = n
    BY <2>4, FS_CountingElements DEF ExistsBijection
  <2>6. QED
    BY <2>5 DEF T
<1>5. Cardinality(positions) = len
  <2>1. len \in 0..len
    BY <1>2
  <2>2. QED
    BY <1>2, <1>4, <2>1
<1>6. ASSUME NEW n \in 1..len PROVE Cardinality({c \in positions : c <= q[n]}) = n
  <2>1. {c \in positions : c <= q[n]} = {q[m] : m \in 1..n}
    <3>1. \A m \in 1..n : m \in 1..len /\ m <= n
      BY <1>2
    <3>2. \A m \in 1..len : m <= n => m \in 1..n
      BY <1>2
    <3>3. QED
      BY <1>2, <1>3, <3>1, <3>2
  <2>2. n \in 0..len
    BY <1>2
  <2>3. QED
    BY <1>4, <2>1, <2>2
<1>7. ASSUME NEW b \in positions PROVE list[Cardinality({c \in positions : c <= b})] = said[b]
  BY <1>2, <1>6
<1>8. QED
  BY <1>5, <1>7 DEF len

\* What the lines at the bodies say.
Said == [b \in Nat |-> Says(b)]
Listing(q, ps, bodies) == Ordered(q, ps, bodies, Said)
FoundIn(ps, bodies) == Listed(ps, bodies, Said)

LEMMA NothingFound == FoundIn(<<>>, {})
BY NothingListed DEF FoundIn

LEMMA OneMoreFound ==
    ASSUME NEW ps \in Seq(Prop), NEW bodies, FoundIn(ps, bodies), NEW b \in Nat, Says(b) \in Prop,
           \A c \in bodies : c < b
    PROVE  FoundIn(Append(ps, Says(b)), bodies \union {b})
<1>1. Said[b] = Says(b)
  BY DEF Said
<1>2. QED
  BY <1>1, OneMoreListed DEF FoundIn

LEMMA ListingFacts ==
    ASSUME props \in Seq(Prop), NEW q, NEW bodies, Listing(q, props, bodies)
    PROVE  /\ q \in [1..Len(props) -> Nat] /\ bodies = {q[n] : n \in 1..Len(props)}
           /\ \A m, n \in 1..Len(props) : m < n => q[m] < q[n]
           /\ \A n \in 1..Len(props) : props[n] = Says(q[n])
BY DEF Listing, Ordered, Said

LEMMA ListingCounts ==
    ASSUME props \in Seq(Prop), NEW bodies, FoundIn(props, bodies)
    PROVE  Lists(bodies)
<1>1. PICK q : Listing(q, props, bodies)
  BY DEF FoundIn, Listed, Listing
<1>2. \A b \in bodies : b \in Nat
  BY <1>1, ListingFacts
<1>3. \A b \in bodies : Said[b] = Says(b)
  BY <1>2 DEF Said
<1>4. /\ Len(props) = Cardinality(bodies)
      /\ \A b \in bodies : props[Cardinality({c \in bodies : c <= b})] = Said[b]
  BY ListedCounts DEF FoundIn
<1>5. QED
  BY <1>3, <1>4 DEF Lists

-----------------------------------------------------------------------------
(* What has been read when the scanner has come to the position p.         *)

Before(p) == {b \in Assignments : b < p}

\* It is at a seam of a line, or at the end of one that is well formed.
Place(p) ==
    \E l \in Lines :
        /\ \A m \in Lines : m < l => WellFormed(m)
        /\ Seam(l, p) \/ (p = Stop(l) /\ WellFormed(l))

Goes(p, name, ps) == Place(p) /\ name = SectionOf(p) /\ FoundIn(ps, Before(p))
Ends(ps) == (\A l \in Lines : WellFormed(l)) /\ FoundIn(ps, Assignments)
Fails(ps) ==
    \E l \in Lines : /\ ~WellFormed(l) /\ \A m \in Lines : m < l => WellFormed(m)
                     /\ FoundIn(ps, Before(l))

LEMMA SameSection ==
    ASSUME NEW p \in Nat, NEW r \in Nat, p <= r, \A k \in Heads : k \in p..(r - 1) => FALSE
    PROVE  SectionOf(r) = SectionOf(p)
<1>1. \A k \in Heads : k \in Nat
  BY DEF Heads
<1>2. {k \in Heads : k < p} = {k \in Heads : k < r}
  BY <1>1
<1>3. QED
  BY <1>2 DEF SectionOf

\* The bodies of assignments in a part of a line.
LEMMA LinePart ==
    ASSUME text \in Seq(Symbols), NEW l \in Lines, NEW p \in l..(Stop(l) + 1), NEW b \in Assignments
    PROVE  /\ b \in Nat /\ l \in Nat /\ p \in Nat /\ Stop(l) \in Nat /\ Body(l) \in l..Stop(l)
           /\ b < l \/ b > Stop(l) \/ (b = Body(l) /\ IsAssignment(Body(l)))
<1>1. PICK m \in Lines : b = Body(m) /\ IsAssignment(Body(m))
  BY DEF Assignments
<1>2. /\ l \in Nat /\ m \in Nat /\ Stop(l) \in Nat /\ Body(m) \in Nat /\ p \in Nat
      /\ Body(l) \in l..Stop(l)
  BY BodyFacts, LineFacts, EndFacts, TextFacts
<1>3. CASE m < l
  BY <1>1, <1>2, <1>3, BodiesApart
<1>4. CASE m > l
  <2>1. Stop(l) < m /\ m <= Body(m)
    BY <1>2, <1>4, LinesApart, BodiesApart
  <2>2. QED
    BY <1>1, <1>2, <2>1
<1>5. CASE m = l
  BY <1>1, <1>2, <1>5
<1>6. QED
  BY <1>2, <1>3, <1>4, <1>5

LEMMA SameFound ==
    ASSUME text \in Seq(Symbols), NEW l \in Lines,
           NEW p \in l..(Stop(l) + 1), NEW r \in p..(Stop(l) + 1),
           Body(l) \in p..(r - 1) => ~IsAssignment(Body(l))
    PROVE  Before(r) = Before(p)
<1>1. \A b \in Assignments : b < r <=> b < p
  BY LinePart
<1>2. QED
  BY <1>1 DEF Before

LEMMA OneMore ==
    ASSUME text \in Seq(Symbols), NEW l \in Lines,
           NEW p \in l..Body(l), NEW r \in (Body(l) + 1)..(Stop(l) + 1), IsAssignment(Body(l))
    PROVE  /\ Before(r) = Before(p) \union {Body(l)}
           /\ \A c \in Before(p) : c < Body(l)
<1>1. Body(l) \in l..Stop(l) /\ l \in Nat /\ Stop(l) \in Nat
  BY BodyFacts, LineFacts, EndFacts, TextFacts
<1>2. p \in l..(Stop(l) + 1) /\ r \in l..(Stop(l) + 1)
  BY <1>1
<1>3. \A b \in Assignments : (b < r <=> b < p \/ b = Body(l)) /\ (b < p => b < Body(l))
  BY <1>1, <1>2, LinePart
<1>4. Body(l) \in Assignments
  BY DEF Assignments
<1>5. QED
  BY <1>3, <1>4 DEF Before

\* The text behind a line that is well formed.
LEMMA LineEnds ==
    ASSUME text \in Seq(Symbols), NEW l \in Lines, \A m \in Lines : m <= l => WellFormed(m),
           NEW p \in l..Stop(l), \A k \in Heads : k \in p..Stop(l) => FALSE,
           Body(l) \in p..Stop(l) => ~IsAssignment(Body(l)),
           FoundIn(props, Before(p)), section = SectionOf(p)
    PROVE  /\ At(Stop(l)) = NL => Goes(Stop(l) + 1, section, props)
           /\ At(Stop(l)) = NUL => Ends(props)
<1>1. p \in Nat /\ Stop(l) \in Nat /\ l \in Nat /\ p <= Stop(l) + 1
  BY LineFacts, EndFacts, TextFacts
<1>2. Before(Stop(l) + 1) = Before(p)
  <2>1. (Stop(l) + 1) - 1 = Stop(l) /\ p \in l..(Stop(l) + 1) /\ Stop(l) + 1 \in p..(Stop(l) + 1)
    BY <1>1
  <2>2. QED
    BY <2>1, SameFound
<1>3. SectionOf(Stop(l) + 1) = SectionOf(p)
  <2>1. (Stop(l) + 1) - 1 = Stop(l) /\ Stop(l) + 1 \in Nat
    BY <1>1
  <2>2. QED
    BY <1>1, <2>1, SameSection
<1>4. ASSUME At(Stop(l)) = NL PROVE Goes(Stop(l) + 1, section, props)
  <2>1. Stop(l) + 1 \in Lines /\ \A m \in Lines : m < Stop(l) + 1 => m <= l
    BY <1>4, NextLine
  <2>2. Seam(Stop(l) + 1, Stop(l) + 1)
    BY <2>1, LineFacts, EndFacts, TextFacts DEF Seam
  <2>3. Place(Stop(l) + 1)
    BY <2>1, <2>2 DEF Place
  <2>4. QED
    BY <1>2, <1>3, <2>3 DEF Goes
<1>5. ASSUME At(Stop(l)) = NUL PROVE Ends(props)
  <2>1. \A m \in Lines : m <= l
    BY <1>5, NextLine
  <2>2. Before(Stop(l) + 1) = Assignments
    <3>1. \A b \in Assignments : b < Stop(l) + 1
      <4> SUFFICES ASSUME NEW b \in Assignments PROVE b < Stop(l) + 1
        OBVIOUS
      <4>1. PICK m \in Lines : b = Body(m)
        BY DEF Assignments
      <4>2. m = l \/ m < l
        BY <2>1, <1>1, LineFacts, EndFacts, TextFacts
      <4>3. Body(m) <= Stop(l)
        BY <1>1, <4>2, BodyFacts, BodiesApart, LineFacts, EndFacts, TextFacts
      <4>4. QED
        BY <1>1, <4>1, <4>3, BodyFacts, TextFacts
    <3>2. QED
      BY <3>1 DEF Before
  <2>3. QED
    BY <1>2, <2>1, <2>2 DEF Ends
<1>6. QED
  BY <1>4, <1>5

-----------------------------------------------------------------------------
(* The branches of parse, from a position whose text has been understood.  *)

\* The lines before l are well formed, and what is before the position is known.
Knows(l) ==
    /\ Scanning /\ outcome = "reading" /\ text' = text
    /\ l \in Lines /\ \A m \in Lines : m < l => WellFormed(m)
    /\ section = SectionOf(buffer) /\ FoundIn(props, Before(buffer))

Learns ==
    /\ outcome' \in {"reading", "parsed", "refused"}
    /\ outcome' = "reading" => Goes(buffer', section', props')
    /\ outcome' = "parsed" => Ends(props')
    /\ outcome' = "refused" => Fails(props')

LEMMA KnowsFacts ==
    ASSUME NEW l, Knows(l)
    PROVE  /\ text \in Seq(Symbols) /\ l \in Lines /\ buffer \in 1..Terminator
           /\ l \in 1..End /\ l \in 1..Terminator /\ Stop(l) \in l..End /\ Stop(l) \in 1..Terminator
           /\ At(Stop(l)) \in {NL, NUL} /\ \A k \in l..(Stop(l) - 1) : At(k) \notin {NL, NUL}
           /\ End \in Nat /\ l \in Nat /\ Stop(l) \in Nat /\ buffer \in Nat /\ Terminator \in Nat
           /\ props \in Seq(Prop)
<1>1. text \in Seq(Symbols) /\ l \in Lines /\ buffer \in 1..Terminator /\ props \in Seq(Prop)
  BY DEF Knows, Scanning
<1>2. l \in 1..End /\ l \in 1..Terminator /\ Stop(l) \in l..End
  BY <1>1, LineFacts
<1>3. /\ At(Stop(l)) \in {NL, NUL} /\ \A k \in l..(Stop(l) - 1) : At(k) \notin {NL, NUL}
      /\ Stop(l) \in 1..Terminator
  BY <1>1, <1>2, StopFacts
<1>4. Terminator \in Nat /\ End \in Nat
  BY <1>1, EndFacts, TextFacts
<1>5. QED
  BY <1>1, <1>2, <1>3, <1>4

\* Without letters there is no assignment.
LEMMA NoAssignment ==
    ASSUME text \in Seq(Symbols), NEW b \in 1..Terminator, At(b) \in {NL, NUL, "#", "[", "]", "="}
    PROVE  ~IsAssignment(b)
BY AssignmentIs, Apart

LEMMA KeysHaveLetters ==
    ASSUME text \in Seq(Symbols), NEW b \in 1..Terminator, Skip(b, Iden) = b
    PROVE  ~IsAssignment(b)
<1>1. ASSUME IsAssignment(b) PROVE KeyEnd(b) = b /\ KeyEnd(b) > b /\ b \in Nat
  BY <1>1, AssignmentIs, TextFacts
<1>2. QED
  BY <1>1

LEMMA BodyBehind ==
    ASSUME text \in Seq(Symbols), NEW l, NEW p, Seam(l, p)
    PROVE  Body(l) >= p
<1> DEFINE T == {l - 1} \cup {k \in Heads : k \in l .. Stop(l)}
<1>1. /\ l \in 1..End /\ End \in Nat /\ p \in l..Stop(l) /\ p \in 1..End /\ Stop(l) \in 1..End
      /\ \A k \in Heads : k \in 1..(End - 1) /\ k \in 0..End
      /\ End \in 1..Terminator /\ Terminator \in Nat
  BY SeamFacts, SeamStops, EndFacts, TextFacts
<1>2. p - 1 \in T /\ l - 1 \in 0..(End - 1)
  BY <1>1 DEF Seam
<1>3. \A k \in T : k \in 0..(End - 1) /\ k \in 0..End
  BY <1>1, <1>2
<1> HIDE DEF T
<1>4. Greatest(T) \in T /\ p - 1 <= Greatest(T)
  BY <1>1, <1>2, <1>3, GreatestFacts
<1> DEFINE g == Greatest(T)
<1>5. g \in 0..(End - 1) /\ p - 1 <= g
  BY <1>3, <1>4
<1>6. Body(l) = Skip(1 + g, Blanks)
  BY DEF Body, T
<1> HIDE DEF g
<1>7. 1 + g \in 1..Terminator /\ p <= 1 + g
  BY <1>1, <1>5
<1>8. Skip(1 + g, Blanks) \in (1 + g)..Terminator
  BY <1>7, SkipFacts, SymbolFacts
<1>9. QED
  BY <1>1, <1>6, <1>7, <1>8

\* At the end of a line that has been read.
LEMMA Past ==
    ASSUME NEW l, Knows(l), buffer = Stop(l), WellFormed(l), NEW i, skip_spaces(buffer, i),
           EmptyLine(i) \/ Comment(i) \/ EndOfFile(i) \/ SectionName(i) \/ Property(i)
    PROVE  Learns
<1> USE KnowsFacts
<1>1. i = Stop(l)
  <2>1. Stop(l) \in Stop(l)..Terminator /\ At(Stop(l)) \notin Blanks
    BY Apart
  <2>2. Skip(Stop(l), Blanks) = Stop(l)
    BY <2>1, SkipIs, SymbolFacts
  <2>3. QED
    BY <2>2, HelpersFind
<1>2. /\ \A m \in Lines : m <= l => WellFormed(m)
      /\ section = SectionOf(Stop(l)) /\ FoundIn(props, Before(Stop(l)))
  <2>1. \A m \in Lines : m <= l => m < l \/ m = l
    BY LineFacts
  <2>2. QED
    BY <2>1 DEF Knows
<1>3. \A k \in Heads : k \in Stop(l)..Stop(l) => FALSE
  BY Apart DEF Heads
<1>4. Body(l) \in Stop(l)..Stop(l) => ~IsAssignment(Body(l))
  BY NoAssignment
<1>5. Stop(l) \in l..Stop(l)
  OBVIOUS
<1>6. /\ At(Stop(l)) = NL => Goes(Stop(l) + 1, section, props)
      /\ At(Stop(l)) = NUL => Ends(props)
  BY <1>2, <1>3, <1>4, <1>5, LineEnds
<1>7. CASE EmptyLine(i)
  BY <1>1, <1>6, <1>7 DEF EmptyLine, Learns, Knows
<1>8. CASE EndOfFile(i)
  BY <1>1, <1>6, <1>8 DEF EndOfFile, Learns
<1>9. ~Comment(i) /\ ~SectionName(i) /\ ~Property(i)
  BY <1>1, Apart DEF Comment, SectionName, Property
<1>10. QED
  BY <1>7, <1>8, <1>9

\* At a seam, with the body of the line before it.
LEMMA SeamBody ==
    ASSUME NEW l, Knows(l), Seam(l, buffer), NEW i, i = Skip(buffer, Blanks), ~BeginsHead(i)
    PROVE  /\ Body(l) = i /\ i \in buffer..Stop(l) /\ buffer \in l..Stop(l) /\ i \in 1..Terminator
           /\ \A k \in Heads : k \in buffer..Stop(l) => FALSE
           /\ ~IsAssignment(i) => FoundIn(props, Before(l))
<1> USE KnowsFacts
<1>1. i \in buffer..Stop(l) /\ buffer \in l..Stop(l)
  BY Indent DEF Seam
<1>2. Body(l) = i /\ \A k \in Heads : k \in l..Stop(l) => k < buffer
  BY BodyIs
<1>3. \A k \in Heads : k \in buffer..Stop(l) => FALSE
  BY <1>1, <1>2
<1>4. Before(buffer) = Before(l)
  <2>1. l \in l..(Stop(l) + 1) /\ buffer \in l..(Stop(l) + 1) /\ i \notin l..(buffer - 1)
    BY <1>1
  <2>2. QED
    BY <1>2, <2>1, SameFound
<1>5. QED
  BY <1>1, <1>2, <1>3, <1>4 DEF Knows

LEMMA SeamLine ==
    ASSUME NEW l, Knows(l), Seam(l, buffer), NEW i, i = Skip(buffer, Blanks),
           EmptyLine(i) \/ EndOfFile(i)
    PROVE  Learns
<1> USE KnowsFacts
<1>1. At(i) \in {NL, NUL}
  BY DEF EmptyLine, EndOfFile
<1>2. ~BeginsHead(i)
  BY <1>1, Apart DEF BeginsHead
<1>3. /\ Body(l) = i /\ i \in buffer..Stop(l) /\ buffer \in l..Stop(l) /\ i \in 1..Terminator
      /\ \A k \in Heads : k \in buffer..Stop(l) => FALSE
  BY <1>2, SeamBody
<1>4. i = Stop(l)
  BY <1>1, <1>3
<1>5. ~IsAssignment(Body(l))
  BY <1>1, <1>3, NoAssignment
<1>6. \A m \in Lines : m <= l => WellFormed(m)
  <2>1. \A m \in Lines : m <= l => m < l \/ m = l
    BY LineFacts
  <2>2. WellFormed(l)
    BY <1>1, <1>3 DEF WellFormed, IsWellFormed
  <2>3. QED
    BY <2>1, <2>2 DEF Knows
<1>7. /\ At(Stop(l)) = NL => Goes(Stop(l) + 1, section, props)
      /\ At(Stop(l)) = NUL => Ends(props)
  BY <1>3, <1>5, <1>6, LineEnds DEF Knows
<1>8. CASE EmptyLine(i)
  BY <1>4, <1>7, <1>8 DEF EmptyLine, Learns, Knows
<1>9. CASE EndOfFile(i)
  BY <1>4, <1>7, <1>9 DEF EndOfFile, Learns
<1>10. QED
  BY <1>8, <1>9

LEMMA SeamComment ==
    ASSUME NEW l, Knows(l), Seam(l, buffer), NEW i, i = Skip(buffer, Blanks), Comment(i)
    PROVE  Learns
<1> USE KnowsFacts
<1>1. At(i) = "#"
  BY DEF Comment
<1>2. ~BeginsHead(i)
  BY <1>1 DEF BeginsHead
<1>3. /\ Body(l) = i /\ i \in buffer..Stop(l) /\ buffer \in l..Stop(l) /\ i \in 1..Terminator
      /\ \A k \in Heads : k \in buffer..Stop(l) => FALSE
  BY <1>2, SeamBody
<1>4. WellFormed(l) /\ ~IsAssignment(Body(l))
  BY <1>1, <1>3, NoAssignment DEF WellFormed, IsWellFormed
<1>5. buffer' = Stop(l)
  <2>1. PICK j \in i..Terminator : parse_until(i, j, NUL) /\ buffer' = j
    BY DEF Comment
  <2>2. j = Seek(i, {NL, NUL})
    <3>1. {NL, NUL, NUL} = {NL, NUL}
      OBVIOUS
    <3>2. QED
      BY <1>3, <2>1, <3>1, HelpersFind
  <2>3. Stop(l) \in i..Terminator /\ \A k \in i..(Stop(l) - 1) : At(k) \notin {NL, NUL}
    BY <1>3
  <2>4. Seek(i, {NL, NUL}) = Stop(l)
    BY <1>3, <2>3, SeekIs
  <2>5. QED
    BY <2>1, <2>2, <2>4
<1>6. SectionOf(Stop(l)) = SectionOf(buffer)
  BY <1>3, SameSection
<1>7. Before(Stop(l)) = Before(buffer)
  <2>1. buffer \in l..(Stop(l) + 1) /\ Stop(l) \in buffer..(Stop(l) + 1)
    BY <1>3
  <2>2. QED
    BY <1>4, <2>1, SameFound
<1>8. Place(Stop(l))
  BY <1>4 DEF Place, Knows
<1>9. UNCHANGED <<section, props, outcome>>
  BY DEF Comment
<1>10. QED
  BY <1>5, <1>6, <1>7, <1>8, <1>9 DEF Learns, Goes, Knows

LEMMA SeamSection ==
    ASSUME NEW l, Knows(l), Seam(l, buffer), NEW i, i = Skip(buffer, Blanks), SectionName(i)
    PROVE  Learns
<1> USE KnowsFacts
<1>1. PICK j \in (i + 1)..Terminator :
        /\ parse_until(i + 1, j, "]")
        /\ section' = SubSeq(text, i + 1, j - 1)
        /\ IF j > i + 1 /\ At(j) = "]" THEN Continue(j + 1) ELSE Refuse(j)
  BY DEF SectionName
<1>2. At(i) = "[" /\ props' = props
  BY DEF SectionName
<1>3. /\ i + 1 \in 1..Terminator /\ Closing(i) \in (i + 1)..Stop(l)
      /\ i \in buffer..Stop(l) /\ i \in 1..Terminator
  BY <1>2, ClosingFacts, Indent
<1>4. j = Closing(i)
  BY <1>1, <1>3, HelpersFind DEF Closing
<1>5. CASE j > i + 1 /\ At(j) = "]"
  <2>1. BeginsHead(i)
    BY <1>2, <1>4, <1>5 DEF BeginsHead
  <2>2. Seam(l, j + 1) /\ SectionOf(j + 1) = section'
    BY <1>1, <1>4, <2>1, HeadEnds
  <2>3. Before(j + 1) = Before(buffer)
    <3>1. Body(l) >= j + 1 /\ Body(l) \in l..Stop(l)
      BY <2>2, BodyBehind, BodyFacts
    <3>2. /\ buffer \in l..(Stop(l) + 1) /\ j + 1 \in buffer..(Stop(l) + 1)
          /\ Body(l) \notin buffer..((j + 1) - 1)
      BY <1>3, <1>4, <3>1 DEF Seam
    <3>3. QED
      BY <3>2, SameFound
  <2>4. Place(j + 1)
    BY <2>2 DEF Place, Knows
  <2>5. outcome' = "reading" /\ buffer' = j + 1
    BY <1>1, <1>5 DEF Continue, Knows
  <2>6. QED
    BY <1>2, <2>2, <2>3, <2>4, <2>5 DEF Learns, Goes, Knows
<1>6. CASE ~(j > i + 1 /\ At(j) = "]")
  <2>1. ~BeginsHead(i)
    BY <1>4, <1>6 DEF BeginsHead
  <2>2. ~IsAssignment(i)
    BY <1>2, <1>3, NoAssignment
  <2>3. Body(l) = i /\ FoundIn(props, Before(l))
    BY <2>1, <2>2, SeamBody
  <2>4. ~WellFormed(l)
    BY <1>2, <2>2, <2>3, Apart DEF WellFormed, IsWellFormed
  <2>5. outcome' = "refused"
    BY <1>1, <1>6 DEF Refuse
  <2>6. QED
    BY <1>2, <2>3, <2>4, <2>5 DEF Learns, Fails, Knows
<1>7. QED
  BY <1>5, <1>6

LEMMA SeamProperty ==
    ASSUME NEW l, Knows(l), Seam(l, buffer), NEW i, i = Skip(buffer, Blanks), Property(i), Leaves
    PROVE  Learns
<1> USE KnowsFacts
<1>1. At(i) \notin {NL, "#", NUL, "["} /\ section' = section
  BY DEF Property
<1>2. ~BeginsHead(i)
  BY <1>1 DEF BeginsHead
<1>3. /\ Body(l) = i /\ i \in buffer..Stop(l) /\ buffer \in l..Stop(l) /\ i \in 1..Terminator
      /\ \A k \in Heads : k \in buffer..Stop(l) => FALSE
      /\ ~IsAssignment(i) => FoundIn(props, Before(l))
  BY <1>2, SeamBody
<1>4. ASSUME ~IsAssignment(i), props' = props, NEW k, Refuse(k) PROVE Learns
  <2>1. ~WellFormed(l)
    BY <1>1, <1>3, <1>4 DEF WellFormed, IsWellFormed
  <2>2. QED
    BY <1>3, <1>4, <2>1 DEF Refuse, Learns, Fails, Knows
<1>5. PICK j \in i..Terminator :
        /\ parse_identifier(i, j)
        /\ \/ j = i /\ Refuse(i) /\ UNCHANGED props
           \/ j > i /\ Assignment(i, j)
  BY DEF Property
<1>6. j = Skip(i, Iden) /\ j \in 1..Terminator
  BY <1>3, <1>5, HelpersFind
<1>7. CASE j = i /\ Refuse(i) /\ UNCHANGED props
  <2>1. i \in 1..Terminator /\ Skip(i, Iden) = i
    BY <1>3, <1>6, <1>7
  <2>2. ~IsAssignment(i)
    BY <2>1, KeysHaveLetters
  <2>3. QED
    BY <1>4, <1>7, <2>2
<1>8. CASE j > i /\ Assignment(i, j)
  <2>1. PICK equals \in j..Terminator :
          /\ skip_spaces(j, equals)
          /\ \/ At(equals) # "=" /\ Refuse(equals) /\ UNCHANGED props
             \/ /\ At(equals) = "="
                /\ \E first, last \in equals .. Terminator :
                     /\ skip_spaces(equals + 1, first) /\ parse_value(first, last)
                     /\ \/ last = first /\ Refuse(last) /\ UNCHANGED props
                        \/ /\ last > first
                           /\ props' = Append(props, [section |-> section,
                                                      key |-> SubSeq(text, i, j - 1),
                                                      value |-> SubSeq(text, first, last - 1)])
                           /\ Continue(IF At(last) = NL THEN last + 1 ELSE last)
    BY <1>8 DEF Assignment
  <2>2. equals = Skip(j, Blanks) /\ equals \in 1..Terminator
    BY <1>6, <2>1, HelpersFind
  <2>3. CASE At(equals) # "=" /\ Refuse(equals) /\ UNCHANGED props
    BY <1>3, <1>4, <1>6, <2>2, <2>3, AssignmentIs
  <2>4. CASE At(equals) = "="
    <3>1. PICK first \in equals .. Terminator, last \in equals .. Terminator :
             /\ skip_spaces(equals + 1, first) /\ parse_value(first, last)
             /\ \/ last = first /\ Refuse(last) /\ UNCHANGED props
                \/ /\ last > first
                   /\ props' = Append(props, [section |-> section,
                                              key |-> SubSeq(text, i, j - 1),
                                              value |-> SubSeq(text, first, last - 1)])
                   /\ Continue(IF At(last) = NL THEN last + 1 ELSE last)
      BY <2>1, <2>4
    <3>2. equals + 1 \in 1..Terminator
      BY <1>3, <1>6, <1>8, <2>2, <2>4, KeyIs
    <3>3. first = Skip(equals + 1, Blanks) /\ first \in 1..Terminator
      <4>1. first \in 1..Terminator
        BY <2>2, <3>1
      <4>2. QED
        BY <3>1, <3>2, <4>1, HelpersFind
    <3>4. last = Seek(first, {NL, NUL})
      <4>1. {NL, NUL, NUL} = {NL, NUL}
        OBVIOUS
      <4>2. QED
        BY <3>1, <3>3, <4>1, HelpersFind DEF parse_value
    <3>5. /\ last = Stop(i)
          /\ last = first => ~IsAssignment(i)
          /\ last > first => IsAssignment(i)
          /\ SubSeq(text, first, last - 1) = ValueOf(i)
          /\ SubSeq(text, i, j - 1) = SubSeq(text, i, KeyEnd(i) - 1)
      <4>1. /\ i \in 1..Terminator /\ j = Skip(i, Iden) /\ j > i
            /\ equals = Skip(j, Blanks) /\ At(equals) = "="
            /\ first = Skip(equals + 1, Blanks) /\ last = Seek(first, {NL, NUL})
        BY <1>3, <1>6, <1>8, <2>2, <2>4, <3>3, <3>4
      <4> HIDE KnowsFacts
      <4>2. text \in Seq(Symbols)
        BY KnowsFacts
      <4>3. last > first => IsAssignment(i)
        BY <4>1, <4>2, ValueThere
      <4>4. last = first => ~IsAssignment(i)
        BY <4>1, <4>2, ValueMissing
      <4>5. last = Stop(i) /\ Equals(i) = equals /\ KeyEnd(i) = j
        BY <4>1, <4>2, ValueIs
      <4>6. QED
        BY <4>1, <4>3, <4>4, <4>5 DEF ValueOf
    <3>6. last = Stop(l)
      <4>1. Stop(l) \in i..Terminator /\ \A k \in i..(Stop(l) - 1) : At(k) \notin {NL, NUL}
        BY <1>3
      <4>2. Seek(i, {NL, NUL}) = Stop(l)
        BY <1>3, <4>1, SeekIs
      <4>3. QED
        BY <3>5, <4>2 DEF Stop
    <3>7. CASE last = first /\ Refuse(last) /\ UNCHANGED props
      <4>1. ~IsAssignment(i)
        BY <1>3, <3>3, <3>5, <3>7
      <4>2. QED
        BY <1>4, <3>7, <4>1
    <3>8. CASE last > first /\ Continue(IF At(last) = NL THEN last + 1 ELSE last)
               /\ props' = Append(props, [section |-> section,
                                          key |-> SubSeq(text, i, j - 1),
                                          value |-> SubSeq(text, first, last - 1)])
      <4>1. SectionOf(i) = section
        <5>1. i \in Nat /\ buffer <= i /\ \A k \in Heads : k \in buffer..(i - 1) => FALSE
          BY <1>3
        <5>2. QED
          BY <5>1, SameSection DEF Knows
      <4>2. props' = Append(props, Says(i))
        BY <3>5, <3>8, <4>1 DEF Says
      <4>3. Says(i) \in Prop
        <5>1. props' \in Seq(Prop) /\ props \in Seq(Prop)
          BY DEF Leaves
        <5>2. Len(props') = Len(props) + 1 /\ props'[Len(props) + 1] = Says(i)
          BY <4>2, AppendProperties
        <5>3. QED
          BY <5>1, <5>2, ElementOfSeq
      <4>4. IsAssignment(Body(l))
        BY <1>3, <3>5, <3>8
      <4> DEFINE r == IF At(last) = NL THEN last + 1 ELSE last
      <4>5. r \in (i + 1)..(Stop(l) + 1) /\ r \in Nat /\ buffer \in l..i /\ i \in Nat
        <5>1. i < Stop(l)
          BY <1>1, <1>3
        <5>2. QED
          BY <1>3, <3>6, <5>1
      <4>6. buffer' = r /\ outcome' = "reading"
        BY <3>8 DEF Continue, Knows
      <4>7. Before(r) = Before(buffer) \union {i} /\ \A c \in Before(buffer) : c < i
        BY <1>3, <4>4, <4>5, OneMore
      <4>8. FoundIn(props', Before(r))
        <5>1. FoundIn(props, Before(buffer))
          BY DEF Knows
        <5>2. FoundIn(Append(props, Says(i)), Before(buffer) \union {i})
          BY <4>3, <4>5, <4>7, <5>1, OneMoreFound
        <5>3. QED
          BY <4>2, <4>7, <5>2
      <4>9. SectionOf(r) = section
        <5>1. buffer <= r /\ \A k \in Heads : k \in buffer..(r - 1) => FALSE
          BY <1>3, <4>5
        <5>2. QED
          BY <4>5, <5>1, SameSection DEF Knows
      <4>10. WellFormed(l)
        BY <4>4 DEF WellFormed, IsWellFormed
      <4>11. Place(r)
        <5>1. CASE At(last) = NL
          <6>1. r = Stop(l) + 1 /\ At(Stop(l)) = NL
            BY <3>6, <5>1
          <6>2. r \in Lines /\ \A m \in Lines : m < r => m <= l
            BY <6>1, NextLine
          <6>3. Seam(r, r)
            BY <6>2, LineFacts, EndFacts, TextFacts DEF Seam
          <6>4. \A m \in Lines : m < r => m < l \/ m = l
            BY <6>2, LineFacts
          <6>5. QED
            BY <4>10, <6>2, <6>3, <6>4 DEF Place, Knows
        <5>2. CASE At(last) # NL
          BY <3>6, <4>10, <5>2 DEF Place, Knows
        <5>3. QED
          BY <5>1, <5>2
      <4> HIDE DEF r
      <4>12. QED
        BY <1>1, <4>6, <4>8, <4>9, <4>11 DEF Learns, Goes
    <3>9. QED
      BY <3>1, <3>7, <3>8
  <2>5. QED
    BY <2>1, <2>3, <2>4
<1>9. QED
  BY <1>5, <1>7, <1>8

-----------------------------------------------------------------------------
(* The invariant.                                                          *)

Understood ==
    /\ outcome = "opening" => text = <<>> /\ buffer = 1 /\ props = <<>> /\ section = <<"default">>
    /\ outcome = "reading" => Goes(buffer, section, props)
    /\ outcome \in {"parsed", "valid", "invalid"} => Ends(props)
    /\ outcome = "refused" /\ text # <<>> => Fails(props)

LEMMA ParseUnderstands ==
    ASSUME Scanning, Understood, parse
    PROVE  Learns
<1>1. PICK i \in buffer..Terminator :
        /\ skip_spaces(buffer, i)
        /\ EmptyLine(i) \/ Comment(i) \/ EndOfFile(i) \/ SectionName(i) \/ Property(i)
  BY DEF parse
<1>2. outcome = "reading" /\ text' = text
  BY DEF parse
<1>3. PICK l \in Lines :
        /\ \A m \in Lines : m < l => WellFormed(m)
        /\ Seam(l, buffer) \/ (buffer = Stop(l) /\ WellFormed(l))
  BY <1>2 DEF Understood, Goes, Place
<1>4. Knows(l)
  BY <1>2, <1>3 DEF Understood, Goes, Knows
<1>5. CASE buffer = Stop(l) /\ WellFormed(l)
  BY <1>1, <1>4, <1>5, Past
<1>6. CASE Seam(l, buffer)
  <2>1. text \in Seq(Symbols) /\ buffer \in 1..Terminator /\ Clear(buffer)
    BY DEF Scanning
  <2>2. i = Skip(buffer, Blanks)
    BY <1>1, <2>1, HelpersFind
  <2>3. ASSUME Property(i) PROVE Leaves
    <3>1. i \in 1..Terminator /\ Clear(i)
      BY <1>1, <2>1, HelpersStayClear
    <3>2. QED
      BY <1>2, <2>3, <3>1, PropertyBranch DEF Reads
  <2>4. QED
    BY <1>1, <1>4, <1>6, <2>2, <2>3, SeamLine, SeamComment, SeamSection, SeamProperty
<1>7. QED
  BY <1>3, <1>5, <1>6

\* What a text means does not change while it is read.
LEMMA SameMeaning ==
    ASSUME text' = text
    PROVE  /\ Lines' = Lines /\ Heads' = Heads /\ Assignments' = Assignments
           /\ \A l : Stop(l)' = Stop(l)
           /\ \A l : WellFormed(l)' <=> WellFormed(l)
           /\ \A b : Says(b)' = Says(b)
           /\ \A p : SectionOf(p)' = SectionOf(p)
<1>1. Lines' = Lines
  BY DEF Lines, End, Seek, At, Terminator
<1>2. Heads' = Heads
  BY DEF Heads, EndsName, Opening, SameLine, End, Seek, Skip, Greatest, At, Terminator
<1>3. \A l : Stop(l)' = Stop(l)
  BY DEF Stop, Seek, At, Terminator
<1>4. Assignments' = Assignments
  BY DEF Assignments, IsAssignment, Body, KeyEnd, Equals, Stop, Lines, Heads, EndsName, Opening,
         SameLine, End, Seek, Skip, Greatest, At, Terminator
<1>5. ASSUME NEW l PROVE WellFormed(l)' <=> WellFormed(l)
  <2>1. Body(l)' = Body(l)
    BY <1>2, <1>3 DEF Body, Skip, Greatest, At, Terminator
  <2>2. \A b : IsAssignment(b)' <=> IsAssignment(b)
    BY DEF IsAssignment, KeyEnd, Equals, Stop, Seek, At, Terminator
  <2>3. \A b : IsWellFormed(b)' <=> IsWellFormed(b)
    BY <2>2 DEF IsWellFormed, At
  <2>4. QED
    BY <2>1, <2>3 DEF WellFormed
<1>6. \A b : Says(b)' = Says(b)
  BY DEF Says, SectionOf, Name, ValueOf, KeyEnd, Equals, Stop, Heads, EndsName, Opening, SameLine,
         End, Seek, Skip, Greatest, At, Terminator
<1>7. \A p : SectionOf(p)' = SectionOf(p)
  BY DEF SectionOf, Name, Heads, EndsName, Opening, SameLine, End, Seek, Skip, Greatest, At, Terminator
<1>8. QED
  BY <1>1, <1>2, <1>3, <1>4, <1>5, <1>6, <1>7

\* So what is learnt of the text holds of it in the next state.
LEMMA LearntMeaning ==
    ASSUME text' = text
    PROVE  /\ Goes(buffer, section, props)' <=> Goes(buffer', section', props')
           /\ Ends(props)' <=> Ends(props')
           /\ Fails(props)' <=> Fails(props')
<1>1. \A ps, bodies : FoundIn(ps, bodies)' <=> FoundIn(ps, bodies)
  BY SameMeaning DEF FoundIn, Listed, Ordered, Said
<1>2. \A p : Before(p)' = Before(p)
  BY SameMeaning DEF Before
<1>3. \A p : Place(p)' <=> Place(p)
  BY SameMeaning DEF Place, Seam
<1>4. Goes(buffer, section, props)' <=> Goes(buffer', section', props')
  BY <1>1, <1>2, <1>3, SameMeaning DEF Goes
<1>5. Ends(props)' <=> Ends(props')
  BY <1>1, SameMeaning DEF Ends
<1>6. Fails(props)' <=> Fails(props')
  BY <1>1, <1>2, SameMeaning DEF Fails
<1>7. QED
  BY <1>4, <1>5, <1>6

-----------------------------------------------------------------------------
(* Config::validate.                                                       *)

\* The settings of a program that starts.
Accepted ==
    outcome = "valid" =>
      /\ DOMAIN settings = Required
      /\ \A n \in 1..Len(props) : Path(props[n]) \in Required
      /\ \A path \in Required :
           \E n \in 1..Len(props) :
             /\ Path(props[n]) = path /\ States(props[n].value, path, settings[path])
             /\ \A m \in 1..Len(props) : Path(props[m]) = path => n <= m

LEMMA FirstOfPath ==
    ASSUME props \in Seq(Prop), NEW path, Assigns(path) # {}
    PROVE  /\ Value(path) \in Seq(Symbols)
           /\ \E n \in 1..Len(props) :
                /\ Path(props[n]) = path /\ Value(path) = props[n].value
                /\ \A m \in 1..Len(props) : Path(props[m]) = path => n <= m
<1>1. Len(props) \in Nat /\ DOMAIN props = 1..Len(props) /\ \A n \in 1..Len(props) : props[n] \in Prop
  OBVIOUS
<1>2. Assigns(path) \in SUBSET Nat /\ Assigns(path) # {}
  BY <1>1 DEF Assigns
<1>3. \E n \in Assigns(path) : \A m \in Assigns(path) : n <= m
  BY <1>2, LeastNumber
<1> DEFINE n == CHOOSE n \in Assigns(path) : \A m \in Assigns(path) : n <= m
<1>4. n \in Assigns(path) /\ \A m \in Assigns(path) : n <= m
  BY <1>3
<1>5. Value(path) = props[n].value
  BY <1>2 DEF Value
<1> HIDE DEF n
<1>6. n \in 1..Len(props) /\ Path(props[n]) = path
  BY <1>1, <1>4 DEF Assigns
<1>7. \A m \in 1..Len(props) : Path(props[m]) = path => n <= m
  BY <1>1, <1>4 DEF Assigns
<1>8. Value(path) \in Seq(Symbols)
  BY <1>1, <1>5, <1>6 DEF Prop
<1>9. QED
  BY <1>5, <1>6, <1>7, <1>8

LEMMA ValidateAccepts ==
    ASSUME Scanning, validate
    PROVE  Accepted'
<1> SUFFICES ASSUME outcome' = "valid"
             PROVE  Accepted'
  BY DEF Accepted
<1>1. /\ props \in Seq(Prop) /\ props' = props /\ Ports \subseteq Required
      /\ DOMAIN props = 1..Len(props)
  BY SymbolsAssumption DEF Scanning, validate
<1>2. /\ \A n \in DOMAIN props : Path(props[n]) \in Required
      /\ \A path \in Required : path \in Set /\ Passes(path)
  BY DEF validate
<1>3. ASSUME NEW path \in Ports
      PROVE  /\ stoi(Value(path), Len(Value(path))) /\ Len(Value(path)) \in DOMAIN Value(path)
             /\ States(Value(path), path, <<Port(Value(path))>>)
  <2> DEFINE value == Value(path)
  <2>1. value \in Seq(Symbols) /\ stoi(value, Len(value))
    BY <1>1, <1>2, <1>3, FirstOfPath DEF Passes, Set
  <2> HIDE DEF value
  <2>2. Len(value) \in DOMAIN value /\ DOMAIN value = 1..Len(value) /\ Len(value) \in Nat
    BY <2>1 DEF stoi
  <2>3. ASSUME NEW i \in DOMAIN value, stoi(value, i) PROVE i = Len(value)
    <3>1. i \in 1..Len(value) /\ value[i] \in Numbers /\ value[i] \notin Spaces
      BY <2>2, <2>3, SymbolsAssumption DEF stoi
    <3>2. \A j \in 1..(Len(value) - 1) : value[j] \in Spaces
      BY <2>1 DEF stoi
    <3>3. QED
      BY <2>2, <3>1, <3>2
  <2>4. Port(value) = value[Len(value)]
    BY <2>1, <2>2, <2>3 DEF Port
  <2>5. States(value, path, <<Port(value)>>)
    BY <1>3, <2>1, <2>4 DEF States, stoi
  <2>6. QED
    BY <2>1, <2>2, <2>5 DEF value
<1>4. Assigned = Required
  BY <1>2, <1>3 DEF Assigned, Set
<1>5. settings' = [path \in Required |-> IF path \in Ports THEN <<Port(Value(path))>> ELSE Value(path)]
  BY <1>4 DEF validate
<1>6. DOMAIN settings' = Required
      /\ \A path \in Required : States(Value(path), path, settings'[path])
  <2>1. \A path \in Required \ Ports : States(Value(path), path, Value(path))
    BY DEF States
  <2>2. QED
    BY <1>3, <1>5, <2>1
<1>7. ASSUME NEW path \in Required
      PROVE  \E n \in 1..Len(props) :
               /\ Path(props[n]) = path /\ States(props[n].value, path, settings'[path])
               /\ \A m \in 1..Len(props) : Path(props[m]) = path => n <= m
  BY <1>1, <1>2, <1>6, <1>7, FirstOfPath DEF Set
<1>8. QED
  BY <1>1, <1>2, <1>6, <1>7 DEF Accepted, Path, States

-----------------------------------------------------------------------------
(* Every step understands the text.                                        *)

Reading == Scanning /\ Understood /\ Accepted

LEMMA ReadingInit == Init => Reading
BY ScanningInit DEF Init, Reading, Understood, Accepted

LEMMA FirstLine ==
    text \in Seq(Symbols) => Goes(1, <<"default">>, <<>>)
<1> SUFFICES ASSUME text \in Seq(Symbols)
             PROVE  Goes(1, <<"default">>, <<>>)
  OBVIOUS
<1>1. \A k \in Heads : k \in 1..(End - 1)
  BY DEF Heads
<1>2. SectionOf(1) = <<"default">>
  <2>1. {k \in Heads : k < 1} = {}
    BY <1>1
  <2>2. QED
    BY <2>1 DEF SectionOf
<1>3. 1 \in Lines
  BY DEF Lines
<1>4. Seam(1, 1) /\ \A m \in Lines : m < 1 => WellFormed(m)
  BY <1>3, LineFacts, EndFacts, TextFacts DEF Seam
<1>5. Before(1) = {}
  <2>1. \A l \in Lines : Body(l) \in Nat /\ ~(Body(l) < 1)
    BY BodyFacts, LineFacts, EndFacts, TextFacts
  <2>2. QED
    BY <2>1 DEF Before, Assignments
<1>6. QED
  BY <1>2, <1>3, <1>4, <1>5, NothingFound DEF Goes, Place

LEMMA UnderstoodStep == Reading /\ [Next]_vars => Understood'
<1> SUFFICES ASSUME Reading, [Next]_vars
             PROVE  Understood'
  OBVIOUS
<1> USE DEF Reading
<1>1. Scanning'
  BY ScanningStep
<1>2. CASE read_file
  <2>1. outcome = "opening" /\ UNCHANGED <<buffer, section, props, settings>>
    BY <1>2 DEF read_file
  <2>2. buffer' = 1 /\ section' = <<"default">> /\ props' = <<>> /\ text = <<>>
    BY <2>1 DEF Understood
  <2>3. CASE outcome' = "refused" /\ UNCHANGED text
    BY <2>2, <2>3 DEF Understood
  <2>4. CASE outcome' = "reading"
    <3>1. (text \in Seq(Symbols))'
      BY <1>1 DEF Scanning
    <3>2. Goes(1, <<"default">>, <<>>)'
      BY <3>1, FirstLine, PTL
    <3>3. QED
      BY <2>2, <2>4, <3>2 DEF Understood
  <2>5. QED
    BY <1>2, <2>3, <2>4 DEF read_file
<1>3. CASE parse
  <2>1. Learns /\ text' = text
    BY <1>3, ParseUnderstands DEF parse
  <2>2. QED
    BY <2>1, LearntMeaning DEF Learns, Understood
<1>4. CASE validate
  <2>1. /\ outcome = "parsed" /\ outcome' \in {"valid", "invalid"}
        /\ UNCHANGED <<text, buffer, section, props>>
    BY <1>4 DEF validate
  <2>2. QED
    BY <2>1, LearntMeaning DEF Understood
<1>5. CASE UNCHANGED vars
  BY <1>5, LearntMeaning DEF Understood, vars
<1>6. QED
  BY <1>2, <1>3, <1>4, <1>5 DEF Next, Done

LEMMA AcceptedStep == Reading /\ [Next]_vars => Accepted'
<1> SUFFICES ASSUME Reading, [Next]_vars
             PROVE  Accepted'
  OBVIOUS
<1>1. CASE read_file
  BY <1>1 DEF read_file, Accepted
<1>2. CASE parse
  BY <1>2, ParseUnderstands DEF Reading, Learns, Accepted
<1>3. CASE validate
  BY <1>3, ValidateAccepts DEF Reading
<1>4. CASE UNCHANGED vars
  BY <1>4 DEF vars, Reading, Accepted, Path, States
<1>5. QED
  BY <1>1, <1>2, <1>3, <1>4 DEF Next, Done

LEMMA ReadingAlways == Spec => []Reading
<1>1. Reading /\ [Next]_vars => Reading'
  BY ScanningStep, UnderstoodStep, AcceptedStep DEF Reading
<1>2. QED
  BY <1>1, ReadingInit, PTL DEF Spec

\* For every text, of any length and any symbols: what the scanner finds while it
\* moves along is what the lines say, each looked at as a whole, and it refuses a
\* file exactly for its first line that is neither empty, nor a comment, nor the
\* assignment of a value.
THEOREM LinesCorrect == Spec => []MeansItsLines
<1>1. Reading => MeansItsLines
  <2> SUFFICES ASSUME Reading
               PROVE  MeansItsLines
    OBVIOUS
  <2>1. props \in Seq(Prop) /\ Understood
    BY DEF Reading, Scanning
  <2>2. ASSUME outcome \in {"parsed", "valid", "invalid"}
        PROVE  (\A l \in Lines : WellFormed(l)) /\ Lists(Assignments)
    BY <2>1, <2>2, ListingCounts DEF Understood, Ends
  <2>3. ASSUME outcome = "refused", text # <<>>
        PROVE  \E l \in Lines : /\ ~ WellFormed(l) /\ \A m \in Lines : m < l => WellFormed(m)
                                /\ Lists({b \in Assignments : b < l})
    BY <2>1, <2>3, ListingCounts DEF Understood, Fails, Before
  <2>4. QED
    BY <2>2, <2>3 DEF MeansItsLines
<1>2. QED
  BY <1>1, ReadingAlways, PTL

\* For every text and every set of required paths: a program that starts has, for
\* each of them, the text that the first line for it gives, and nothing that a line
\* says goes unread.
THEOREM StartCorrect == Spec => []StartsAsWritten
<1>1. Reading => StartsAsWritten
  <2> SUFFICES ASSUME Reading, outcome = "valid"
               PROVE  /\ DOMAIN settings = Required
                      /\ \A path \in Required :
                           \E b \in Assignments :
                             /\ PathOf(b) = path /\ States(ValueOf(b), path, settings[path])
                             /\ \A c \in Assignments : PathOf(c) = path => b <= c
                      /\ \A b \in Assignments : PathOf(b) \in Required
    BY DEF StartsAsWritten
  <2>1. PICK q : Listing(q, props, Assignments)
    BY DEF Reading, Understood, Ends, FoundIn, Listed, Listing
  <2> DEFINE len == Len(props)
  <2>2. /\ q \in [1..len -> Nat] /\ Assignments = {q[n] : n \in 1..len}
        /\ \A m, n \in 1..len : m < n => q[m] < q[n]
        /\ \A n \in 1..len : props[n] = Says(q[n])
    BY <2>1, ListingFacts DEF Reading, Scanning
  <2>3. /\ DOMAIN settings = Required
        /\ \A n \in 1..len : Path(props[n]) \in Required
        /\ \A path \in Required :
             \E n \in 1..len :
               /\ Path(props[n]) = path /\ States(props[n].value, path, settings[path])
               /\ \A m \in 1..len : Path(props[m]) = path => n <= m
    BY DEF Reading, Accepted
  <2>4. len \in Nat
    BY DEF Reading, Scanning
  <2> HIDE DEF len
  <2>5. \A n \in 1..len : PathOf(q[n]) = Path(props[n]) /\ ValueOf(q[n]) = props[n].value
    <3>1. \A b : PathOf(b) = Path(Says(b)) /\ ValueOf(b) = Says(b).value
      BY DEF PathOf, Path, Says
    <3>2. QED
      BY <2>2, <3>1
  <2>6. ASSUME NEW path \in Required
        PROVE  \E b \in Assignments :
                 /\ PathOf(b) = path /\ States(ValueOf(b), path, settings[path])
                 /\ \A c \in Assignments : PathOf(c) = path => b <= c
    <3>1. PICK n \in 1..len :
            /\ Path(props[n]) = path /\ States(props[n].value, path, settings[path])
            /\ \A m \in 1..len : Path(props[m]) = path => n <= m
      BY <2>3
    <3>2. q[n] \in Assignments /\ PathOf(q[n]) = path /\ States(ValueOf(q[n]), path, settings[path])
      BY <2>2, <2>5, <3>1
    <3>3. ASSUME NEW c \in Assignments, PathOf(c) = path PROVE q[n] <= c
      <4>1. PICK m \in 1..len : c = q[m]
        BY <2>2
      <4>2. n <= m
        BY <2>5, <3>1, <3>3, <4>1
      <4>3. q[n] \in Nat /\ q[m] \in Nat /\ (n < m => q[n] < q[m])
        BY <2>2
      <4>4. QED
        BY <2>4, <4>1, <4>2, <4>3
    <3>4. QED
      BY <3>2, <3>3
  <2>7. \A b \in Assignments : PathOf(b) \in Required
    BY <2>2, <2>3, <2>5
  <2>8. QED
    BY <2>3, <2>6, <2>7
<1>2. QED
  BY <1>1, ReadingAlways, PTL

-----------------------------------------------------------------------------
(* parse_params. A text of parameters is followed symbol by symbol.        *)

Pair == [key : Seq(Symbols), value : Seq(Symbols)]

LEMMA Emplaces ==
    ASSUME NEW map \in Seq(Pair), NEW key, NEW value
    PROVE  /\ (\E i \in 1..Len(map) : map[i].key = key) => emplace(map, key, value) = map
           /\ ~(\E i \in 1..Len(map) : map[i].key = key) =>
                emplace(map, key, value) = Append(map, [key |-> key, value |-> value])
<1>1. DOMAIN map = 1..Len(map)
  OBVIOUS
<1>2. key \in Keys(map) <=> \E i \in 1..Len(map) : map[i].key = key
  BY <1>1 DEF Keys
<1>3. QED
  BY <1>2 DEF emplace

LEMMA ReadParamCases ==
    ASSUME NEW r \in ParamState, NEW c \in Symbols
    PROVE  /\ ReadParam(r, c) \in ParamState
           /\ r.part = "name" /\ c = "=" => ReadParam(r, c) = [r EXCEPT !.part = "type"]
           /\ r.part = "name" /\ c # "=" => ReadParam(r, c) = [r EXCEPT !.name = Append(r.name, c)]
           /\ r.part = "type" /\ c = ";" =>
                ReadParam(r, c) = [part |-> "name", name |-> <<>>, type |-> <<>>,
                                   dst |-> emplace(r.dst, r.name, r.type)]
           /\ r.part = "type" /\ c # ";" => ReadParam(r, c) = [r EXCEPT !.type = Append(r.type, c)]
<1>1. /\ r.part \in {"name", "type"} /\ r.name \in Seq(Symbols) /\ r.type \in Seq(Symbols)
      /\ r.dst \in Seq(Pair)
  BY DEF ParamState, Pair
<1>2. Append(r.name, c) \in Seq(Symbols) /\ Append(r.type, c) \in Seq(Symbols)
  BY <1>1
<1>3. emplace(r.dst, r.name, r.type) \in Seq(Pair)
  <2>1. [key |-> r.name, value |-> r.type] \in Pair
    BY <1>1 DEF Pair
  <2>2. Append(r.dst, [key |-> r.name, value |-> r.type]) \in Seq(Pair)
    BY <1>1, <2>1
  <2>3. \/ emplace(r.dst, r.name, r.type) = r.dst
        \/ emplace(r.dst, r.name, r.type) = Append(r.dst, [key |-> r.name, value |-> r.type])
    BY DEF emplace
  <2>4. QED
    BY <1>1, <2>2, <2>3
<1>4. CASE r.part = "name" /\ c = "="
  <2>1. ReadParam(r, c) = [r EXCEPT !.part = "type"]
    BY <1>4 DEF ReadParam
  <2>2. [r EXCEPT !.part = "type"] \in ParamState
    BY DEF ParamState
  <2>3. QED
    BY <1>4, <2>1, <2>2
<1>5. CASE r.part = "name" /\ c # "="
  <2>1. ReadParam(r, c) = [r EXCEPT !.name = Append(r.name, c)]
    BY <1>5 DEF ReadParam
  <2>2. [r EXCEPT !.name = Append(r.name, c)] \in ParamState
    BY <1>2 DEF ParamState
  <2>3. QED
    BY <1>5, <2>1, <2>2
<1>6. CASE r.part = "type" /\ c = ";"
  <2> DEFINE next == [part |-> "name", name |-> <<>>, type |-> <<>>,
                      dst |-> emplace(r.dst, r.name, r.type)]
  <2>1. ReadParam(r, c) = next
    BY <1>6 DEF ReadParam
  <2>2. next \in ParamState
    BY <1>3 DEF ParamState, Pair
  <2>3. QED
    BY <1>6, <2>1, <2>2
<1>7. CASE r.part = "type" /\ c # ";"
  <2>1. ReadParam(r, c) = [r EXCEPT !.type = Append(r.type, c)]
    BY <1>7 DEF ReadParam
  <2>2. [r EXCEPT !.type = Append(r.type, c)] \in ParamState
    BY <1>2 DEF ParamState
  <2>3. QED
    BY <1>7, <2>1, <2>2
<1>8. QED
  BY <1>1, <1>4, <1>5, <1>6, <1>7

\* Of the text: which symbols belong to a type, and where its parameters are.
LEMMA TypeBegins ==
    \A t : ~InType(t, 1)
BY DEF InType

LEMMA TypeGoesOn ==
    ASSUME NEW t, NEW k \in Nat, k > 0
    PROVE  /\ t[k] = "=" => InType(t, k + 1)
           /\ t[k] = ";" => ~InType(t, k + 1)
           /\ t[k] \notin {"=", ";"} => (InType(t, k + 1) <=> InType(t, k))
           /\ t[k] # ";" /\ InType(t, k) => InType(t, k + 1)
           /\ t[k] # "=" /\ InType(t, k + 1) => InType(t, k)
<1>1. /\ (k + 1) - 1 = k
      /\ \A j \in 1..(k - 1) : j \in 1..k /\ j < k
      /\ \A j \in 1..k : j = k \/ j \in 1..(k - 1)
      /\ k \in 1..k /\ (k + 1)..k = {}
  OBVIOUS
<1>2. \A j \in 1..(k - 1) : /\ k \in (j + 1)..k
                            /\ \A m \in (j + 1)..(k - 1) : m \in (j + 1)..k
                            /\ \A m \in (j + 1)..k : m = k \/ m \in (j + 1)..(k - 1)
  OBVIOUS
<1>3. InType(t, k + 1) <=> \E j \in 1..k : t[j] = "=" /\ \A m \in (j + 1)..k : t[m] # ";"
  BY <1>1 DEF InType
<1>4. InType(t, k) <=> \E j \in 1..(k - 1) : t[j] = "=" /\ \A m \in (j + 1)..(k - 1) : t[m] # ";"
  BY DEF InType
<1>5. t[k] = "=" => InType(t, k + 1)
  BY <1>1, <1>3
<1>6. t[k] = ";" => ~InType(t, k + 1)
  BY <1>1, <1>2, <1>3
<1>7. t[k] # ";" /\ InType(t, k) => InType(t, k + 1)
  BY <1>1, <1>2, <1>3, <1>4
<1>8. t[k] # "=" /\ InType(t, k + 1) => InType(t, k)
  BY <1>1, <1>2, <1>3, <1>4
<1>9. QED
  BY <1>5, <1>6, <1>7, <1>8

LEMMA ParameterFacts ==
    ASSUME NEW t \in Seq(Symbols)
    PROVE  \A e : e \in Parameters(t) => e \in 1..Len(t) /\ e \in Nat /\ t[e] = ";" /\ InType(t, e)
<1>1. \A e \in Parameters(t) : e \in 1..Len(t) /\ t[e] = ";" /\ InType(t, e)
  BY DEF Parameters
<1>2. \A e \in 1..Len(t) : e \in Nat
  OBVIOUS
<1>3. QED
  BY <1>1, <1>2

LEMMA BeginFacts ==
    ASSUME NEW t \in Seq(Symbols), NEW k \in 1..(Len(t) + 1)
    PROVE  /\ Begin(t, k) \in 1..k
           /\ k <= Len(t) /\ k \in Parameters(t) => Begin(t, k + 1) = k + 1
           /\ k <= Len(t) /\ k \notin Parameters(t) => Begin(t, k + 1) = Begin(t, k)
           /\ k = 1 => Begin(t, k) = 1
<1> DEFINE T(n) == {0} \cup {d \in Parameters(t) : d < n}
<1>0. Len(t) \in Nat
  OBVIOUS
<1>1. Len(t) \in Nat /\ \A d \in Parameters(t) : d \in 1..Len(t)
  BY <1>0, ParameterFacts
<1>2. \A n \in 1..(Len(t) + 1) : T(n) \in SUBSET (0..(n - 1)) /\ 0 \in T(n)
  BY <1>1
<1>3. /\ T(k) \in SUBSET (0..(k - 1)) /\ T(k) # {} /\ k - 1 \in Nat
  BY <1>1, <1>2
<1>4. Greatest(T(k)) \in T(k) /\ Greatest(T(k)) \in 0..(k - 1)
  BY <1>3, GreatestFacts
<1>5. \A n : Begin(t, n) = 1 + Greatest(T(n))
  BY DEF Begin
<1>6. Begin(t, k) \in 1..k
  BY <1>3, <1>4, <1>5
<1>7. ASSUME k <= Len(t), k \in Parameters(t) PROVE Begin(t, k + 1) = k + 1
  <2>0. k \in Nat /\ k + 1 \in 1..(Len(t) + 1) /\ k < k + 1 /\ (k + 1) - 1 = k
    BY <1>1, <1>7
  <2>1. T(k + 1) \in SUBSET (0..k) /\ k \in T(k + 1) /\ k \in Nat
    <3>1. T(k + 1) \in SUBSET (0..((k + 1) - 1))
      BY <1>2, <2>0
    <3>2. k \in T(k + 1)
      BY <1>7, <2>0
    <3>3. QED
      BY <2>0, <3>1, <3>2
  <2>2. \A n \in T(k + 1) : n <= k
    BY <2>1
  <2> HIDE DEF T
  <2>3. Greatest(T(k + 1)) = k
    BY <2>1, <2>2, GreatestIs
  <2>4. QED
    BY <1>5, <2>1, <2>3
<1>8. ASSUME k <= Len(t), k \notin Parameters(t) PROVE Begin(t, k + 1) = Begin(t, k)
  <2>1. T(k + 1) = T(k)
    BY <1>1, <1>8
  <2>2. QED
    BY <1>5, <2>1
<1>9. ASSUME k = 1 PROVE Begin(t, k) = 1
  BY <1>6, <1>9
<1>10. QED
  BY <1>6, <1>7, <1>8, <1>9

\* A part of the text, one symbol longer.
LEMMA PartGrows ==
    ASSUME NEW t \in Seq(Symbols), NEW b \in 1..(Len(t) + 1), NEW n \in 1..Len(t), b <= n
    PROVE  Append(SubSeq(t, b, n - 1), t[n]) = SubSeq(t, b, n)
<1> DEFINE p == SubSeq(t, b, n - 1)
           r == SubSeq(t, b, n)
<1>1. Len(t) \in Nat /\ b \in Nat /\ n \in Nat
  OBVIOUS
<1>2. p \in Seq(Symbols) /\ Len(p) = n - b /\ \A i \in 1..(n - b) : p[i] = t[b + i - 1]
  BY <1>1, SubSeqProperties
<1>3. r \in Seq(Symbols) /\ Len(r) = n - b + 1 /\ \A i \in 1..(n - b + 1) : r[i] = t[b + i - 1]
  BY <1>1, SubSeqProperties
<1>4. t[n] \in Symbols
  OBVIOUS
<1> HIDE DEF p, r
<1>5. /\ Append(p, t[n]) \in Seq(Symbols) /\ Len(Append(p, t[n])) = n - b + 1
      /\ Append(p, t[n])[n - b + 1] = t[n] /\ \A i \in 1..(n - b) : Append(p, t[n])[i] = p[i]
  <2> DEFINE x == t[n]
  <2>1. x \in Symbols
    BY <1>4
  <2> HIDE DEF x
  <2>2. p \in Seq(Symbols)
    BY <1>2
  <2>3. /\ Append(p, x) \in Seq(Symbols) /\ Len(Append(p, x)) = Len(p) + 1
        /\ Append(p, x)[Len(p) + 1] = x /\ \A i \in 1..Len(p) : Append(p, x)[i] = p[i]
    BY <2>1, <2>2, AppendProperties
  <2>4. QED
    BY <1>2, <2>3 DEF x
<1>6. \A i \in 1..(n - b + 1) : Append(p, t[n])[i] = r[i]
  BY <1>1, <1>2, <1>3, <1>5
<1>7. Append(p, t[n]) = r
  BY <1>3, <1>5, <1>6, SeqEqual
<1>8. QED
  BY <1>7 DEF p, r

LEMMA PartIsEmpty ==
    ASSUME NEW t \in Seq(Symbols), NEW n \in Nat
    PROVE  SubSeq(t, n + 1, n) = <<>>
<1>1. n + 1 \in Int /\ n \in Int /\ n < n + 1
  OBVIOUS
<1>2. QED
  BY <1>1, SubSeqEmpty

\* What the loop has made of the text before the position k.
ParamStep == [x \in ParamState \X Symbols |-> ReadParam(x[1], x[2])]
ParamStart == [part |-> "name", name |-> <<>>, type |-> <<>>, dst |-> <<>>]
Stated(t) == [e \in Nat |-> [key |-> ParamName(t, e), value |-> ParamType(t, e)]]
InName(t, k, r) ==
    /\ r.name = SubSeq(t, Begin(t, k), k - 1) /\ r.type = <<>>
    /\ \A j \in Begin(t, k)..(k - 1) : t[j] # "="
BehindName(t, k, r, m) ==
    /\ t[m] = "=" /\ \A j \in Begin(t, k)..(m - 1) : t[j] # "="
    /\ r.name = SubSeq(t, Begin(t, k), m - 1) /\ r.type = SubSeq(t, m + 1, k - 1)
ReadUpTo(t, k, r) ==
    /\ r \in ParamState
    /\ r.part = "type" <=> InType(t, k)
    /\ r.part = "name" => InName(t, k, r)
    /\ r.part = "type" => \E m \in Begin(t, k)..(k - 1) : BehindName(t, k, r, m)
    /\ Listed(r.dst, {e \in Counted(t) : e < k}, Stated(t))

LEMMA StartsReading ==
    ASSUME NEW t \in Seq(Symbols)
    PROVE  ReadUpTo(t, 1, ParamStart)
<1>1. ParamStart \in ParamState /\ ParamStart.part = "name" /\ ParamStart.name = <<>>
      /\ ParamStart.type = <<>> /\ ParamStart.dst = <<>>
  BY DEF ParamStart, ParamState
<1>2. ~InType(t, 1)
  BY TypeBegins
<1>3. Begin(t, 1) = 1
  <2>1. Len(t) \in Nat /\ 1 \in 1..(Len(t) + 1)
    OBVIOUS
  <2>2. QED
    BY <2>1, BeginFacts
<1>4. SubSeq(t, 1, 1 - 1) = <<>> /\ \A j \in 1..(1 - 1) : t[j] # "="
  <2>1. SubSeq(t, 0 + 1, 0) = <<>>
    BY PartIsEmpty
  <2>2. QED
    BY <2>1
<1>5. {e \in Counted(t) : e < 1} = {}
  <2>1. \A e \in Counted(t) : e \in 1..Len(t)
    BY ParameterFacts DEF Counted
  <2>2. QED
    BY <2>1
<1>6. Listed(ParamStart.dst, {e \in Counted(t) : e < 1}, Stated(t))
  BY <1>1, <1>5, NothingListed
<1>7. InName(t, 1, ParamStart)
  BY <1>1, <1>3, <1>4 DEF InName
<1>8. QED
  BY <1>1, <1>2, <1>6, <1>7 DEF ReadUpTo

\* Of every name there is a parameter that counts.
LEMMA OneCounts ==
    ASSUME NEW t \in Seq(Symbols), NEW d \in Parameters(t)
    PROVE  \E e \in Counted(t) : e <= d /\ ParamName(t, e) = ParamName(t, d)
<1> DEFINE T == {e \in Parameters(t) : ParamName(t, e) = ParamName(t, d)}
<1>1. \A e \in Parameters(t) : e \in Nat
  BY ParameterFacts
<1>2. T \in SUBSET Nat /\ d \in T
  BY <1>1
<1>3. PICK e \in T : \A c \in T : e <= c
  BY <1>2, LeastNumber
<1>4. \A c \in Parameters(t) : c < e => ParamName(t, c) # ParamName(t, e)
  <2> SUFFICES ASSUME NEW c \in Parameters(t), c < e, ParamName(t, c) = ParamName(t, e)
               PROVE  FALSE
    OBVIOUS
  <2>1. c \in T
    BY <1>3
  <2>2. QED
    BY <1>1, <1>3, <2>1
<1>5. e \in Counted(t)
  BY <1>3, <1>4 DEF Counted
<1>6. QED
  BY <1>2, <1>3, <1>5

\* A parameter that has been read to its end.
LEMMA ParameterIs ==
    ASSUME NEW t \in Seq(Symbols), NEW e \in 1..Len(t), NEW m \in Begin(t, e)..(e - 1),
           t[m] = "=", \A j \in Begin(t, e)..(m - 1) : t[j] # "="
    PROVE  Middle(t, e) = m
<1>1. Begin(t, e) \in 1..e
  <2>1. e \in 1..(Len(t) + 1)
    OBVIOUS
  <2>2. QED
    BY <2>1, BeginFacts
<1> DEFINE b == Begin(t, e)
           P(i) == t[i] = "=" /\ \A k \in b..(i - 1) : t[k] # "="
<1>2. b \in Nat /\ m \in b..e /\ P(m)
  BY <1>1
<1> HIDE DEF b
<1>3. \A i \in b..e : P(i) => i = m
  <2> SUFFICES ASSUME NEW i \in b..e, P(i), i # m PROVE FALSE
    OBVIOUS
  <2>1. i < m \/ m < i
    BY <1>2
  <2>2. CASE i < m
    <3>1. i \in b..(m - 1)
      BY <1>2, <2>2
    <3>2. QED
      BY <1>2, <3>1
  <2>3. CASE m < i
    <3>1. m \in b..(i - 1)
      BY <1>2, <2>3
    <3>2. QED
      BY <1>2, <3>1
  <2>4. QED
    BY <2>1, <2>2, <2>3
<1>4. Middle(t, e) = CHOOSE i \in b..e : P(i)
  BY DEF Middle, b
<1> HIDE DEF P
<1>5. QED
  BY <1>2, <1>3, <1>4

\* One symbol more.
LEMMA ReadsOn ==
    ASSUME NEW t \in Seq(Symbols), NEW k \in 1..Len(t), NEW r, ReadUpTo(t, k, r)
    PROVE  ReadUpTo(t, k + 1, ReadParam(r, t[k]))
<1> DEFINE c == t[k]
           b == Begin(t, k)
           next == ReadParam(r, c)
           counted(n) == {e \in Counted(t) : e < n}
<1>1. /\ Len(t) \in Nat /\ k \in Nat /\ k > 0 /\ k <= Len(t) /\ k \in 1..(Len(t) + 1)
      /\ (k + 1) - 1 = k /\ c \in Symbols
  OBVIOUS
<1>2. /\ r \in ParamState /\ r.part \in {"name", "type"}
      /\ r.part = "type" <=> InType(t, k)
      /\ r.part = "name" => InName(t, k, r)
      /\ r.part = "type" => \E m \in b..(k - 1) : BehindName(t, k, r, m)
      /\ Listed(r.dst, counted(k), Stated(t))
  BY DEF ReadUpTo, ParamState
<1>3. /\ b \in 1..k
      /\ k \in Parameters(t) => Begin(t, k + 1) = k + 1
      /\ k \notin Parameters(t) => Begin(t, k + 1) = b
  BY <1>1, BeginFacts
<1>4. k \in Parameters(t) <=> c = ";" /\ r.part = "type"
  BY <1>2 DEF Parameters
<1>5. /\ c = "=" => InType(t, k + 1)
      /\ c = ";" => ~InType(t, k + 1)
      /\ c # ";" /\ InType(t, k) => InType(t, k + 1)
      /\ c # "=" /\ InType(t, k + 1) => InType(t, k)
  BY <1>1, TypeGoesOn
<1>6. /\ next \in ParamState
      /\ r.part = "name" /\ c = "=" => next = [r EXCEPT !.part = "type"]
      /\ r.part = "name" /\ c # "=" => next = [r EXCEPT !.name = Append(r.name, c)]
      /\ r.part = "type" /\ c = ";" =>
           next = [part |-> "name", name |-> <<>>, type |-> <<>>,
                   dst |-> emplace(r.dst, r.name, r.type)]
      /\ r.part = "type" /\ c # ";" => next = [r EXCEPT !.type = Append(r.type, c)]
  BY <1>1, <1>2, ReadParamCases
<1>7. /\ r.dst \in Seq(Pair) /\ r.name \in Seq(Symbols) /\ r.type \in Seq(Symbols)
      /\ DOMAIN r = {"part", "name", "type", "dst"}
  BY <1>2 DEF ParamState, Pair
<1>8. k \notin Parameters(t) => counted(k + 1) = counted(k)
  <2>1. \A e \in Counted(t) : e \in Parameters(t) /\ e \in Nat
    BY ParameterFacts DEF Counted
  <2>2. QED
    BY <1>1, <2>1
<1> HIDE DEF c, b, next, counted
<1>9. ASSUME r.part = "name", c = "=" PROVE ReadUpTo(t, k + 1, next)
  <2>1. /\ next.part = "type" /\ next.name = r.name /\ next.type = r.type /\ next.dst = r.dst
        /\ InType(t, k + 1) /\ Begin(t, k + 1) = b /\ counted(k + 1) = counted(k)
        /\ InName(t, k, r)
    BY <1>2, <1>3, <1>4, <1>5, <1>6, <1>7, <1>8, <1>9
  <2>2. SubSeq(t, k + 1, k) = <<>>
    BY <1>1, PartIsEmpty
  <2>3. BehindName(t, k + 1, next, k)
    BY <1>1, <1>9, <2>1, <2>2 DEF InName, BehindName, b, c
  <2>4. k \in b..k
    BY <1>1, <1>3
  <2>5. QED
    BY <1>1, <1>2, <1>6, <2>1, <2>3, <2>4 DEF ReadUpTo, counted
<1>10. ASSUME r.part = "name", c # "=" PROVE ReadUpTo(t, k + 1, next)
  <2>1. /\ next.part = "name" /\ next.name = Append(r.name, c) /\ next.type = r.type /\ next.dst = r.dst
        /\ ~InType(t, k + 1) /\ Begin(t, k + 1) = b /\ counted(k + 1) = counted(k)
        /\ InName(t, k, r)
    BY <1>2, <1>3, <1>4, <1>5, <1>6, <1>7, <1>8, <1>10
  <2>2. b \in 1..(Len(t) + 1) /\ b <= k
    BY <1>1, <1>3
  <2>3. Append(SubSeq(t, b, k - 1), c) = SubSeq(t, b, k)
    BY <2>2, PartGrows DEF c
  <2>4. \A j \in b..k : j \in b..(k - 1) \/ j = k
    BY <1>1, <1>3
  <2>5. InName(t, k + 1, next)
    BY <1>1, <1>10, <2>1, <2>3, <2>4 DEF InName, b, c
  <2>6. QED
    BY <1>1, <1>2, <1>6, <2>1, <2>5 DEF ReadUpTo, counted
<1>11. ASSUME r.part = "type", c # ";" PROVE ReadUpTo(t, k + 1, next)
  <2>1. /\ next.part = "type" /\ next.name = r.name /\ next.type = Append(r.type, c) /\ next.dst = r.dst
        /\ InType(t, k + 1) /\ Begin(t, k + 1) = b /\ counted(k + 1) = counted(k)
    BY <1>2, <1>3, <1>4, <1>5, <1>6, <1>7, <1>8, <1>11
  <2>2. PICK m \in b..(k - 1) : BehindName(t, k, r, m)
    BY <1>2, <1>11
  <2>3. m + 1 \in 1..(Len(t) + 1) /\ m + 1 <= k /\ m \in b..k
    BY <1>1, <1>3, <2>2
  <2>4. Append(SubSeq(t, m + 1, k - 1), c) = SubSeq(t, m + 1, k)
    BY <2>3, PartGrows DEF c
  <2>5. BehindName(t, k + 1, next, m)
    BY <1>1, <2>1, <2>2, <2>4 DEF BehindName, b
  <2>6. QED
    BY <1>1, <1>2, <1>6, <2>1, <2>3, <2>5 DEF ReadUpTo, counted
<1>12. ASSUME r.part = "type", c = ";" PROVE ReadUpTo(t, k + 1, next)
  <2>1. /\ next.part = "name" /\ next.name = <<>> /\ next.type = <<>>
        /\ next.dst = emplace(r.dst, r.name, r.type)
        /\ ~InType(t, k + 1) /\ Begin(t, k + 1) = k + 1 /\ k \in Parameters(t)
    <3> DEFINE dst == emplace(r.dst, r.name, r.type)
    <3>1. next = [part |-> "name", name |-> <<>>, type |-> <<>>, dst |-> dst]
      BY <1>6, <1>12
    <3>2. k \in Parameters(t) /\ ~InType(t, k + 1) /\ Begin(t, k + 1) = k + 1
      BY <1>3, <1>4, <1>5, <1>12
    <3> HIDE DEF dst
    <3>3. next.part = "name" /\ next.name = <<>> /\ next.type = <<>> /\ next.dst = dst
      BY <3>1
    <3>4. QED
      BY <3>2, <3>3 DEF dst
  <2>2. PICK m \in b..(k - 1) : BehindName(t, k, r, m)
    BY <1>2, <1>12
  <2>3. Middle(t, k) = m
    BY <2>2, ParameterIs DEF BehindName, b
  <2>4. r.name = ParamName(t, k) /\ r.type = ParamType(t, k)
    BY <2>2, <2>3 DEF BehindName, b, ParamName, ParamType
  <2> DEFINE pair == [key |-> r.name, value |-> r.type]
  <2>5. Stated(t)[k] = pair /\ pair \in Pair
    BY <1>1, <1>7, <2>4 DEF Stated, Pair
  <2> HIDE DEF pair
  <2>6. PICK q : Ordered(q, r.dst, counted(k), Stated(t))
    BY <1>2 DEF Listed
  <2>7. /\ \A i \in 1..Len(r.dst) : q[i] \in counted(k) /\ r.dst[i].key = ParamName(t, q[i])
        /\ \A e \in counted(k) : \E i \in 1..Len(r.dst) : r.dst[i].key = ParamName(t, e)
    <3>1. \A i \in 1..Len(r.dst) : q[i] \in Nat /\ r.dst[i] = Stated(t)[q[i]]
      BY <2>6 DEF Ordered
    <3>2. \A e \in Nat : Stated(t)[e].key = ParamName(t, e)
      BY DEF Stated
    <3>3. counted(k) = {q[i] : i \in 1..Len(r.dst)}
      BY <2>6 DEF Ordered
    <3>4. QED
      BY <3>1, <3>2, <3>3
  <2>8. \A e \in Counted(t) : /\ e \in Nat /\ e \in Parameters(t)
                              /\ \A d \in Parameters(t) : d < e => ParamName(t, d) # ParamName(t, e)
    BY ParameterFacts DEF Counted
  <2>9. /\ \A e : e \in counted(k) => e \in Counted(t) /\ e < k
        /\ \A e \in Counted(t) : e < k => e \in counted(k)
        /\ \A e : e \in counted(k + 1) => e \in Counted(t) /\ (e \in counted(k) \/ e = k)
        /\ counted(k) \subseteq counted(k + 1)
        /\ k \in Counted(t) => k \in counted(k + 1)
    <3>1. \A e \in Counted(t) : /\ (e < k + 1 => e < k \/ e = k) /\ (e < k => e < k + 1)
      BY <1>1, <2>8
    <3>2. k < k + 1
      BY <1>1
    <3>3. QED
      BY <3>1, <3>2 DEF counted
  <2>10. ASSUME \E i \in 1..Len(r.dst) : r.dst[i].key = r.name
         PROVE  Listed(next.dst, counted(k + 1), Stated(t))
    <3>1. next.dst = r.dst
      BY <1>7, <2>1, <2>10, Emplaces
    <3>2. k \notin Counted(t)
      <4>1. PICK i \in 1..Len(r.dst) : r.dst[i].key = r.name
        BY <2>10
      <4>2. q[i] \in Parameters(t) /\ q[i] < k /\ ParamName(t, q[i]) = ParamName(t, k)
        BY <2>4, <2>7, <2>8, <2>9, <4>1
      <4>3. QED
        BY <2>8, <4>2
    <3>3. counted(k + 1) = counted(k)
      BY <2>9, <3>2
    <3>4. QED
      BY <1>2, <3>1, <3>3
  <2>11. ASSUME ~ \E i \in 1..Len(r.dst) : r.dst[i].key = r.name
         PROVE  Listed(next.dst, counted(k + 1), Stated(t))
    <3>1. next.dst = Append(r.dst, pair)
      BY <1>7, <2>1, <2>11, Emplaces DEF pair
    <3>2. k \in Counted(t)
      <4>1. PICK e \in Counted(t) : e <= k /\ ParamName(t, e) = ParamName(t, k)
        BY <2>1, OneCounts
      <4>2. e # k => e < k
        BY <1>1, <2>8, <4>1
      <4>3. e < k => FALSE
        BY <2>4, <2>7, <2>9, <2>11, <4>1
      <4>4. QED
        BY <4>1, <4>2, <4>3
    <3>3. counted(k + 1) = counted(k) \union {k}
      BY <2>9, <3>2
    <3>4. \A e \in counted(k) : e < k
      BY <2>9
    <3>5. Listed(Append(r.dst, pair), counted(k) \union {k}, Stated(t))
      BY <1>1, <1>2, <1>7, <2>5, <3>4, OneMoreListed
    <3>6. QED
      BY <3>1, <3>3, <3>5
  <2>12. Listed(next.dst, counted(k + 1), Stated(t))
    BY <2>10, <2>11
  <2>13. InName(t, k + 1, next)
    <3>1. SubSeq(t, k + 1, k) = <<>> /\ (k + 1)..k = {}
      BY <1>1, PartIsEmpty
    <3>2. QED
      BY <1>1, <2>1, <3>1 DEF InName
  <2>14. QED
    BY <1>1, <1>6, <2>1, <2>12, <2>13 DEF ReadUpTo, counted
<1>13. QED
  BY <1>2, <1>9, <1>10, <1>11, <1>12 DEF next, c

\* The whole of it.
LEMMA ReadsAll ==
    ASSUME NEW t \in Seq(Symbols)
    PROVE  ReadUpTo(t, Len(t) + 1, Fold(ParamStep, ParamStart, t))
<1>1. PICK f : IsFold(f, ParamStep, ParamStart, t) /\ Fold(ParamStep, ParamStart, t) = f[Len(t)]
  BY FoldUnfolds
<1>2. f[0] = ParamStart /\ \A n \in 1..Len(t) : f[n] = Taking(ParamStep, f[n - 1], t[n])
  BY <1>1, FoldSteps
<1>3. Len(t) \in Nat /\ \A n \in 1..Len(t) : t[n] \in Symbols
  OBVIOUS
<1> DEFINE T == {n \in 0..Len(t) : ReadUpTo(t, n + 1, f[n])}
<1>4. 0 \in T
  BY <1>2, <1>3, StartsReading
<1>5. ASSUME NEW n \in 0..Len(t), n \in T, n < Len(t) PROVE n + 1 \in T
  <2>1. n + 1 \in 1..Len(t) /\ n + 1 \in 0..Len(t) /\ (n + 1) - 1 = n
    BY <1>3, <1>5
  <2>2. ReadUpTo(t, n + 1, f[n])
    BY <1>5
  <2>3. ReadUpTo(t, (n + 1) + 1, ReadParam(f[n], t[n + 1]))
    BY <2>1, <2>2, ReadsOn
  <2>4. f[n + 1] = ReadParam(f[n], t[n + 1])
    <3>1. f[n + 1] = Taking(ParamStep, f[n], t[n + 1])
      BY <1>2, <2>1
    <3>2. f[n] \in ParamState /\ t[n + 1] \in Symbols
      BY <1>3, <2>1, <2>2 DEF ReadUpTo
    <3>3. Taking(ParamStep, f[n], t[n + 1]) = ReadParam(f[n], t[n + 1])
      BY <3>2 DEF Taking, ParamStep
    <3>4. QED
      BY <3>1, <3>3
  <2>5. QED
    BY <2>1, <2>3, <2>4
<1> HIDE DEF T
<1>6. \A n \in 0..Len(t) : n \in T
  BY <1>3, <1>4, <1>5, InductionUpTo
<1>7. Len(t) \in T
  BY <1>3, <1>6
<1>8. QED
  BY <1>1, <1>7 DEF T

\* parse_params finds the parameters that the text states, and fails exactly if
\* something follows the last.
LEMMA ParametersFound ==
    ASSUME NEW t \in Seq(Symbols), NEW r, r = Fold(ParamStep, ParamStart, t)
    PROVE  /\ ListsParameters(r.dst, t)
           /\ (r.part # "name" \/ r.name # <<>>) <=> ~Complete(t)
<1> DEFINE k == Len(t) + 1
           b == Begin(t, k)
<1>1. /\ r \in ParamState /\ r.part \in {"name", "type"} /\ r.dst \in Seq(Pair)
      /\ r.part = "type" <=> InType(t, k)
      /\ r.part = "name" => r.name = SubSeq(t, b, k - 1)
      /\ Listed(r.dst, {e \in Counted(t) : e < k}, Stated(t))
  BY ReadsAll DEF ReadUpTo, InName, ParamState, Pair
<1>2. Len(t) \in Nat /\ k - 1 = Len(t)
  OBVIOUS
<1> HIDE DEF k, b
<1>3. {e \in Counted(t) : e < k} = Counted(t) /\ \A e \in Counted(t) : e \in Nat
  <2>1. \A e \in Counted(t) : e \in 1..Len(t)
    BY ParameterFacts DEF Counted
  <2>2. QED
    BY <1>2, <2>1 DEF k
<1>4. ListsParameters(r.dst, t)
  <2>1. /\ Len(r.dst) = Cardinality(Counted(t))
        /\ \A e \in Counted(t) : r.dst[Cardinality({d \in Counted(t) : d <= e})] = Stated(t)[e]
    <3> DEFINE dst == r.dst
               positions == Counted(t)
               said == Stated(t)
    <3>1. dst \in Seq(Pair) /\ Listed(dst, positions, said)
      BY <1>1, <1>3
    <3> HIDE DEF dst, positions, said
    <3>2. /\ Len(dst) = Cardinality(positions)
          /\ \A e \in positions : dst[Cardinality({d \in positions : d <= e})] = said[e]
      BY <3>1, ListedCounts
    <3>3. QED
      BY <3>2 DEF dst, positions, said
  <2>2. \A e \in Counted(t) : Stated(t)[e] = [key |-> ParamName(t, e), value |-> ParamType(t, e)]
    BY <1>3 DEF Stated
  <2>3. QED
    BY <2>1, <2>2 DEF ListsParameters
<1>5. (r.part # "name" \/ r.name # <<>>) <=> ~Complete(t)
  <2>1. CASE Len(t) = 0
    <3>1. t = <<>>
      BY <2>1
    <3>2. ~InType(t, k)
      BY <2>1, TypeBegins DEF k
    <3>3. b = 1
      <4>1. 1 \in 1..(Len(t) + 1) /\ k = 1
        BY <2>1 DEF k
      <4>2. QED
        BY <4>1, BeginFacts DEF b
    <3>4. SubSeq(t, b, k - 1) = <<>>
      <4>1. SubSeq(t, 0 + 1, 0) = <<>>
        BY PartIsEmpty
      <4>2. QED
        BY <1>2, <2>1, <3>3, <4>1
    <3>5. QED
      BY <1>1, <3>1, <3>2, <3>4 DEF Complete
  <2>2. CASE Len(t) # 0 /\ Len(t) \in Parameters(t)
    <3>1. Len(t) \in 1..(Len(t) + 1) /\ Len(t) > 0 /\ Len(t) <= Len(t)
      BY <1>2, <2>2
    <3>2. t[Len(t)] = ";"
      BY ParameterFacts, <2>2
    <3>3. ~InType(t, k)
      BY <1>2, <3>1, <3>2, TypeGoesOn DEF k
    <3>4. b = Len(t) + 1
      BY <2>2, <3>1, BeginFacts DEF b, k
    <3>5. SubSeq(t, b, k - 1) = <<>>
      BY <1>2, <3>4, PartIsEmpty
    <3>6. QED
      BY <1>1, <2>2, <3>3, <3>5 DEF Complete
  <2>3. CASE Len(t) # 0 /\ Len(t) \notin Parameters(t)
    <3>1. Len(t) \in 1..(Len(t) + 1) /\ Len(t) <= Len(t) /\ t # <<>>
      BY <1>2, <2>3
    <3>2. b \in 1..Len(t)
      BY <2>3, <3>1, BeginFacts DEF b, k
    <3>3. \A i \in b..Len(t) : t[i] \in Symbols
      BY <1>2, <3>2
    <3>4. Len(SubSeq(t, b, Len(t))) = Len(t) - b + 1
      BY <1>2, <3>2, <3>3, SubSeqProperties
    <3>5. SubSeq(t, b, Len(t)) # <<>>
      <4>1. Len(<<>>) = 0 /\ Len(t) - b + 1 # 0
        BY <1>2, <3>2
      <4>2. QED
        BY <3>4, <4>1
    <3>6. QED
      BY <1>1, <1>2, <2>3, <3>1, <3>5 DEF Complete
  <2>4. QED
    BY <2>1, <2>2, <2>3
<1>6. QED
  BY <1>4, <1>5

-----------------------------------------------------------------------------
(* What parse_dao_config asks of the reader.                               *)

\* When the whole text has been read, the properties are what its lines say.
Parsed == Scanning /\ Ends(props)

LEMMA ValueIsLine ==
    ASSUME Parsed
    PROVE  /\ \A name, key : Of(name, key) = Line(name, key) /\ Of(name, key) \in Seq(Symbols)
           /\ {props[n].section : n \in DOMAIN props} = Described
<1>1. PICK q : Listing(q, props, Assignments)
  BY DEF Parsed, Ends, FoundIn, Listed, Listing
<1> DEFINE len == Len(props)
<1>2. props \in Seq(Prop) /\ len \in Nat /\ DOMAIN props = 1..len
  BY DEF Parsed, Scanning
<1>3. /\ q \in [1..len -> Nat] /\ Assignments = {q[n] : n \in 1..len}
      /\ \A m, n \in 1..len : m < n => q[m] < q[n]
      /\ \A n \in 1..len : props[n] = Says(q[n])
  BY <1>1, <1>2, ListingFacts
<1> HIDE DEF len
<1>4. \A n \in 1..len : /\ PathOf(q[n]) = Path(props[n]) /\ ValueOf(q[n]) = props[n].value
                        /\ SectionOf(q[n]) = props[n].section
  <2>1. \A b : /\ PathOf(b) = Path(Says(b)) /\ ValueOf(b) = Says(b).value
               /\ SectionOf(b) = Says(b).section
    BY DEF PathOf, Path, Says
  <2>2. QED
    BY <1>3, <2>1
<1>5. ASSUME NEW path
      PROVE  LET stating == {b \in Assignments : PathOf(b) = path}
             IN  /\ Value(path) \in Seq(Symbols)
                 /\ Value(path) = IF stating = {} THEN <<>>
                                  ELSE ValueOf(CHOOSE b \in stating : \A c \in stating : b <= c)
  <2> DEFINE stating == {b \in Assignments : PathOf(b) = path}
  <2>1. CASE Assigns(path) = {}
    <3>1. stating = {}
      BY <1>2, <1>3, <1>4, <2>1 DEF Assigns
    <3>2. Value(path) = <<>>
      BY <2>1 DEF Value
    <3>3. QED
      BY <3>1, <3>2
  <2>2. CASE Assigns(path) # {}
    <3>0. Value(path) \in Seq(Symbols)
      BY <1>2, <2>2, FirstOfPath
    <3>1. PICK n \in 1..len :
            /\ Path(props[n]) = path /\ Value(path) = props[n].value
            /\ \A m \in 1..len : Path(props[m]) = path => n <= m
      BY <1>2, <2>2, FirstOfPath DEF len
    <3>2. q[n] \in stating /\ ValueOf(q[n]) = Value(path) /\ q[n] \in Nat
      BY <1>3, <1>4, <3>1
    <3>3. \A c \in stating : c \in Nat /\ q[n] <= c
      <4> SUFFICES ASSUME NEW c \in stating PROVE c \in Nat /\ q[n] <= c
        OBVIOUS
      <4>1. PICK m \in 1..len : c = q[m]
        BY <1>3
      <4>2. n <= m
        BY <1>4, <3>1, <4>1
      <4>3. q[m] \in Nat /\ (n < m => q[n] < q[m])
        BY <1>3
      <4>4. QED
        BY <1>2, <3>2, <4>1, <4>2, <4>3
    <3> HIDE DEF stating
    <3>4. \A b \in stating : (\A c \in stating : b <= c) => b = q[n]
      BY <3>2, <3>3
    <3>5. (CHOOSE b \in stating : \A c \in stating : b <= c) = q[n]
      BY <3>2, <3>3, <3>4
    <3>6. stating # {}
      BY <3>2
    <3>7. QED
      BY <3>0, <3>2, <3>5, <3>6 DEF stating
  <2>3. QED
    BY <2>1, <2>2
<1>6. \A name, key : Of(name, key) = Line(name, key) /\ Of(name, key) \in Seq(Symbols)
  BY <1>5 DEF Of, Line
<1>7. {props[n].section : n \in DOMAIN props} = Described
  BY <1>2, <1>3, <1>4 DEF Described
<1>8. QED
  BY <1>6, <1>7

LEMMA ParamsAre ==
    \A name : ParamsOf(name) = Fold(ParamStep, ParamStart, Of(name, "params"))
BY DEF ParamsOf, ParamStep, ParamStart

\* A section is refused exactly if it describes no function, and otherwise the
\* function is the one that it describes.
LEMMA FunctionIsDescribed ==
    ASSUME Parsed, NEW name
    PROVE  /\ Refuses(name) <=> ~Usable(name)
           /\ Describes(name, Function(name))
<1> DEFINE t == Of(name, "params")
           r == ParamsOf(name)
<1>1. /\ t \in Seq(Symbols) /\ t = Line(name, "params")
      /\ Of(name, "query") = Line(name, "query") /\ Of(name, "type") = Line(name, "type")
      /\ Of(name, "mapping") = Line(name, "mapping")
  BY ValueIsLine
<1>2. r = Fold(ParamStep, ParamStart, t)
  BY ParamsAre
<1> HIDE DEF t, r
<1>3. ListsParameters(r.dst, t) /\ ((r.part # "name" \/ r.name # <<>>) <=> ~Complete(t))
  BY <1>1, <1>2, ParametersFound
<1>4. ParamsCut(name) <=> ~Complete(Line(name, "params"))
  BY <1>1, <1>3 DEF ParamsCut, r
<1>5. Refuses(name) <=> ~Usable(name)
  <2>1. <<"command">> # <<"single">> /\ <<"command">> # <<"multiple">>
    OBVIOUS
  <2>2. QED
    BY <1>1, <1>4, <2>1 DEF Refuses, Usable
<1>6. Describes(name, Function(name))
  <2>1. /\ Function(name).identifier = name /\ Function(name).query = Of(name, "query")
        /\ Function(name).type = Of(name, "type") /\ Function(name).type_mapping = Of(name, "mapping")
        /\ Function(name).params = r.dst
    BY DEF Function, r
  <2>2. QED
    BY <1>1, <1>3, <2>1 DEF Describes
<1>7. QED
  BY <1>5, <1>6

-----------------------------------------------------------------------------
(* The loop over the sections.                                             *)

Sections == {props[n].section : n \in DOMAIN props}

\* Every section is pending or has become one function.
Converted ==
    /\ pending \subseteq Sections
    /\ functions \in Seq({Function(name) : name \in Sections})
    /\ \A n \in 1..Len(functions) : /\ functions[n] = Function(functions[n].identifier)
                                    /\ ~Refuses(functions[n].identifier)
    /\ {functions[n].identifier : n \in 1..Len(functions)} = Sections \ pending
    /\ \A m, n \in 1..Len(functions) : functions[m].identifier = functions[n].identifier => m = n

DaoReading ==
    /\ daos \in {"unread", "reading", "read", "refused"}
    /\ daos = "unread" => functions = <<>>
    /\ daos # "unread" => outcome = "parsed" /\ Converted
    /\ daos = "refused" => \E name \in Sections : Refuses(name)
    /\ daos = "read" => pending = {}

LEMMA DaoStepReads ==
    DaoNext => Next \/ UNCHANGED vars
BY DEF DaoNext, Work, Next, get_sections, AllAdded, AddFunction, RefuseFunction, daoVars

\* While the reader of configuration files rests, a section describes what it did.
LEMMA SameFunctions ==
    ASSUME UNCHANGED vars
    PROVE  /\ Sections' = Sections
           /\ \A name : Function(name)' = Function(name)
           /\ \A name : Refuses(name)' <=> Refuses(name)
<1>0. UNCHANGED props
  BY DEF vars
<1>1. \A name, key : Of(name, key)' = Of(name, key)
  BY <1>0 DEF Of, Value, Assigns, Path
<1>2. \A name : ParamsOf(name)' = ParamsOf(name)
  BY <1>1 DEF ParamsOf
<1>3. \A name : Function(name)' = Function(name)
  BY <1>1, <1>2 DEF Function
<1>4. \A name : Refuses(name)' <=> Refuses(name)
  BY <1>1, <1>2 DEF Refuses, ParamsCut
<1>5. Sections' = Sections
  BY <1>0 DEF Sections
<1>6. QED
  BY <1>3, <1>4, <1>5

LEMMA FunctionAdded ==
    ASSUME DaoReading, NEW name \in pending, AddFunction(name)
    PROVE  DaoReading'
<1> DEFINE S == {Function(other) : other \in Sections}
           f == Function(name)
           len == Len(functions)
<1>1. /\ daos = "reading" /\ ~Refuses(name) /\ functions' = Append(functions, f)
      /\ pending' = pending \ {name} /\ UNCHANGED vars /\ daos' = daos
  BY DEF AddFunction
<1>2. Converted /\ outcome = "parsed"
  BY <1>1 DEF DaoReading
<1>3. /\ name \in Sections /\ f \in S /\ functions \in Seq(S) /\ len \in Nat
      /\ f.identifier = name
  BY <1>2 DEF Converted, Function
<1>4. /\ {functions[n].identifier : n \in 1..len} = Sections \ pending
      /\ \A n \in 1..len : /\ functions[n] = Function(functions[n].identifier)
                           /\ ~Refuses(functions[n].identifier)
      /\ \A m, n \in 1..len : functions[m].identifier = functions[n].identifier => m = n
  BY <1>2 DEF Converted
<1> HIDE DEF S, len, f
<1>5. /\ functions' \in Seq(S) /\ Len(functions') = len + 1 /\ functions'[len + 1] = f
      /\ \A n \in 1..len : functions'[n] = functions[n]
  BY <1>1, <1>3, AppendProperties DEF len
<1>6. /\ \A n \in 1..(len + 1) : n \in 1..len \/ n = len + 1
      /\ \A n \in 1..len : n \in 1..(len + 1)
      /\ len + 1 \in 1..(len + 1)
  BY <1>3
<1>7. /\ Sections' = Sections /\ \A other : Function(other)' = Function(other)
      /\ \A other : Refuses(other)' <=> Refuses(other)
  BY <1>1, SameFunctions
<1>8. (pending \subseteq Sections)'
  BY <1>1, <1>2, <1>7 DEF Converted
<1>9. (functions \in Seq({Function(other) : other \in Sections}))'
  BY <1>5, <1>7 DEF S
<1>10. ASSUME NEW n \in 1..(len + 1)
       PROVE  /\ functions'[n] = Function(functions'[n].identifier)
              /\ ~Refuses(functions'[n].identifier)
  BY <1>1, <1>3, <1>4, <1>5, <1>6, <1>10 DEF f
<1>11. {functions'[n].identifier : n \in 1..(len + 1)} = Sections \ (pending \ {name})
  <2>1. {functions'[n].identifier : n \in 1..(len + 1)}
          = {functions[n].identifier : n \in 1..len} \union {name}
    BY <1>3, <1>5, <1>6
  <2>2. QED
    BY <1>3, <1>4, <2>1
<1>12. \A n \in 1..len : functions[n].identifier # name
  BY <1>4
<1>13. \A m, n \in 1..(len + 1) : functions'[m].identifier = functions'[n].identifier => m = n
  BY <1>3, <1>4, <1>5, <1>6, <1>12
<1>14. Converted'
  BY <1>1, <1>5, <1>7, <1>8, <1>9, <1>10, <1>11, <1>13 DEF Converted
<1>15. outcome' = "parsed" /\ daos' = "reading"
  BY <1>1, <1>2 DEF vars
<1>16. QED
  BY <1>14, <1>15 DEF DaoReading

LEMMA DaoReadingStep ==
    ASSUME Reading, DaoReading, [DaoNext]_daoVars
    PROVE  DaoReading'
<1>1. ASSUME daos = "unread", UNCHANGED <<daos, pending, functions>> PROVE DaoReading'
  BY <1>1 DEF DaoReading
<1>2. ASSUME UNCHANGED vars, UNCHANGED <<pending, functions>>, Converted PROVE Converted'
  BY <1>2, SameFunctions DEF Converted
<1>3. ASSUME UNCHANGED daoVars PROVE DaoReading'
  <2>1. UNCHANGED vars /\ UNCHANGED <<daos, pending, functions>> /\ outcome' = outcome
    BY <1>3 DEF daoVars, vars
  <2>2. QED
    BY <1>2, <2>1, SameFunctions DEF DaoReading
<1>4. CASE (read_file \/ parse) /\ UNCHANGED <<daos, pending, functions>>
  <2>1. outcome \in {"opening", "reading"}
    BY <1>4 DEF read_file, parse
  <2>2. QED
    BY <1>1, <1>4, <2>1 DEF DaoReading
<1>5. CASE validate /\ daos = "unread" /\ UNCHANGED <<daos, pending, functions>>
  BY <1>1, <1>5
<1>6. CASE get_sections
  <2>1. /\ outcome' = "parsed" /\ daos' = "reading" /\ UNCHANGED vars
        /\ pending' = Sections /\ functions' = <<>>
    BY <1>6 DEF get_sections, vars, Sections, DaoReading
  <2>2. Converted'
    <3>1. Sections' = Sections
      BY <2>1, SameFunctions
    <3>2. /\ \A S : functions' \in Seq(S)
          /\ Len(functions') = 0 /\ 1..0 = {}
      BY <2>1
    <3>3. {functions'[n].identifier : n \in 1..0} = {}
      BY <3>2
    <3>4. QED
      BY <2>1, <3>1, <3>2, <3>3 DEF Converted
  <2>3. QED
    BY <2>1, <2>2 DEF DaoReading
<1>7. CASE AllAdded
  <2>1. /\ daos = "reading" /\ pending = {} /\ daos' = "read" /\ UNCHANGED vars
        /\ UNCHANGED <<pending, functions>> /\ outcome' = outcome
    BY <1>7 DEF AllAdded, vars
  <2>2. QED
    BY <1>2, <2>1 DEF DaoReading
<1>8. ASSUME NEW name \in pending, AddFunction(name) PROVE DaoReading'
  BY <1>8, FunctionAdded
<1>9. ASSUME NEW name \in pending, RefuseFunction(name) PROVE DaoReading'
  <2>1. /\ daos = "reading" /\ Refuses(name) /\ daos' = "refused" /\ UNCHANGED vars
        /\ UNCHANGED <<pending, functions>> /\ outcome' = outcome
    BY <1>9 DEF RefuseFunction, vars
  <2>2. name \in Sections
    BY <1>9, <2>1 DEF DaoReading, Converted
  <2>3. QED
    BY <1>2, <2>1, <2>2, SameFunctions DEF DaoReading
<1>10. QED
  BY <1>3, <1>4, <1>5, <1>6, <1>7, <1>8, <1>9 DEF DaoNext, Work

\* parse_dao_config reads with the reader of all configuration files, so what is
\* proved of that one holds of it too.
THEOREM DaoReaderIsReader == DaoSpec => Spec
<1>1. DaoInit => Init
  BY DEF DaoInit
<1>2. [DaoNext]_daoVars => [Next]_vars
  BY DaoStepReads DEF daoVars
<1>3. QED
  BY <1>1, <1>2, PTL DEF DaoSpec, Spec

\* For every text of config/daos.cfg and every order of its sections: an accepted
\* file has become one function for every section, with what the first lines say
\* and the parameters that count, and a file is refused only for a section that
\* describes no function.
THEOREM FunctionsCorrect == DaoSpec => []FunctionsMeanTheirSections
<1>1. DaoInit => DaoReading
  BY DEF DaoInit, DaoReading
<1>2. Reading /\ DaoReading /\ [DaoNext]_daoVars => DaoReading'
  BY DaoReadingStep
<1>3. Reading /\ DaoReading => FunctionsMeanTheirSections
  <2> SUFFICES ASSUME Reading, DaoReading, daos \in {"refused", "read"}
               PROVE  FunctionsMeanTheirSections
    BY DEF FunctionsMeanTheirSections
  <2>1. Parsed /\ Converted
    BY DEF Parsed, Reading, Understood, DaoReading
  <2>2. Sections = Described
    BY <2>1, ValueIsLine DEF Sections
  <2>3. CASE daos = "refused"
    <3>1. PICK name \in Sections : Refuses(name)
      BY <2>3 DEF DaoReading
    <3>2. ~Usable(name)
      BY <2>1, <3>1, FunctionIsDescribed
    <3>3. QED
      BY <2>2, <2>3, <3>1, <3>2 DEF FunctionsMeanTheirSections
  <2>4. CASE daos = "read"
    <3> DEFINE len == Len(functions)
               f == [n \in 1..len |-> functions[n].identifier]
    <3>1. /\ {functions[n].identifier : n \in 1..len} = Described
          /\ \A n \in 1..len : /\ functions[n] = Function(functions[n].identifier)
                               /\ ~Refuses(functions[n].identifier)
          /\ \A m, n \in 1..len : functions[m].identifier = functions[n].identifier => m = n
          /\ len \in Nat
      BY <2>1, <2>2, <2>4 DEF Converted, DaoReading
    <3>2. Len(functions) = Cardinality(Described)
      <4> DEFINE D == Described
      <4> HIDE DEF len, D
      <4>1. f \in [1..len -> D] /\ \A t \in D : \E n \in 1..len : f[n] = t
        BY <3>1 DEF D
      <4>2. IsInjective(f)
        BY <3>1 DEF IsInjective
      <4>3. f \in Bijection(1..len, D)
        BY <4>1, <4>2 DEF Bijection, Injection, Surjection
      <4> HIDE DEF f
      <4>4. Cardinality(D) = len
        BY <3>1, <4>3, FS_CountingElements DEF ExistsBijection
      <4>5. QED
        BY <4>4 DEF D, len
    <3>3. ASSUME NEW name \in Described
          PROVE  Usable(name) /\ \E n \in 1..Len(functions) : Describes(name, functions[n])
      <4>1. PICK n \in 1..len : functions[n].identifier = name
        BY <3>1
      <4>2. functions[n] = Function(name) /\ ~Refuses(name)
        BY <3>1, <4>1
      <4>3. QED
        BY <2>1, <4>2, FunctionIsDescribed
    <3>4. QED
      BY <2>4, <3>2, <3>3 DEF FunctionsMeanTheirSections
  <2>5. QED
    BY <2>3, <2>4
<1>4. QED
  BY <1>1, <1>2, <1>3, DaoReaderIsReader, ReadingAlways, PTL DEF DaoSpec
===============================================================================
