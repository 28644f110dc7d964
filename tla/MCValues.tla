------------------------------- MODULE MCValues -------------------------------
(* An instance of Values: texts of up to four characters, integers with two    *)
(* bits more than an int, JSON values that miss a path in every way, and paths *)
(* of every kind of number: halves are printed, sixteenths are written,        *)
(* doubles are three sixteenths apart, integers range from -2 to 20, and a     *)
(* number has room for its point up to 30, a negative one up to -3.            *)
EXTENDS Values, SequencesExt

Whole ==
  "0" :> 0 @@ "1" :> 16 @@ "-1" :> -16 @@ "-2" :> -32 @@ "-3" :> -48 @@ "-9" :> -144
  @@ "20" :> 320 @@ "30" :> 480 @@ "40" :> 640 @@ "99" :> 1584
Decimal ==
  "0.0" :> 0 @@ "0.2" :> 4 @@ "0.3" :> 5 @@ "0.5" :> 8 @@ "5e-1" :> 8 @@ "0.8" :> 12
  @@ "1.0" :> 16 @@ "1.5" :> 24 @@ "1.9" :> 31 @@ "2.0" :> 32 @@ "2.2" :> 36 @@ "29.5" :> 472
  @@ "3e1" :> 480 @@ "4e2" :> 6400 @@ "9e9" :> 9999 @@ "-0.2" :> -4 @@ "-0.3" :> -5 @@ "-0.5" :> -8
  @@ "-1.0" :> -16 @@ "-1.2" :> -20 @@ "-1.5" :> -24 @@ "-3e0" :> -48
MCMeaning ==
  [n \in DOMAIN Whole \cup DOMAIN Decimal |->
     IF n \in DOMAIN Whole THEN [decimal |-> FALSE, value |-> Whole[n]]
     ELSE [decimal |-> TRUE, value |-> Decimal[n]]]
MCDoubles == {3 * n : n \in -13..13} \cup {-48, 472, 480, 6400}
MCLeast == -32

MCCharacters == Marks \cup {"a"} \cup DOMAIN MCMeaning
MCTexts == BoundedSeq({"\\", "'", "\"", "a"}, 4)
MCIntegers == -32 .. 31

Number(n) == [t |-> "Number", n |-> n]
Text == [t |-> "String", s |-> "1"]
List(s) == [t |-> "List", l |-> s]
Zero == Number("0")
Points == {List(s) : s \in BoundedSeq({Number("1"), Text}, 3)} \cup {Number("1"), Text}
MCJson == {Number("1"), Text} \cup {List(s) : s \in BoundedSeq(Points, 2)}
          \cup {List(<<List(<<Zero, Number(n)>>), List(<<Number(n), Zero>>), List(<<Number(n), Number(n)>>)>>) :
                  n \in DOMAIN MCMeaning}
===============================================================================
