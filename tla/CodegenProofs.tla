----------------------------- MODULE CodegenProofs -----------------------------
(***************************************************************************)
(* Proofs about the generator of dao.h, for any schema, in whatever order  *)
(* its tables come, and any list of functions: status 0 means a complete   *)
(* header, such a header compiles exactly if the schema and the            *)
(* configuration are supported, and what compiles sends the right SQL.     *)
(*                                                                         *)
(* The compiler is a fold over the tokens of a query, and a query is a     *)
(* concatenation of concatenations.  Gives(m, s, n, a) says what reading   *)
(* the tokens s does: it leads from the mode m to the mode n and adds the  *)
(* SQL a, whatever was read before.  Two such facts compose, so that each  *)
(* query of the generator is taken apart into the pieces it is made of.    *)
(***************************************************************************)
EXTENDS DaoHeader, FoldingProofs, FiniteSetTheorems

\* A sequence, of whatever it holds.
IsSeq(s) == s \in Seq({s[i] : i \in DOMAIN s})

\* The elements of s are elements of u.
Has(u, s) == \A j \in DOMAIN s : \E k \in DOMAIN u : u[k] = s[j]

InHeader(function) == \E j \in DOMAIN header : header[j] = function

TableDone(table) ==
    \A i \in DOMAIN Emitted(table, tables[table]) : InHeader(Emitted(table, tables[table])[i])

Generated == DOMAIN tables \ {"db_migration"}

\* The first functions are done, the others are left.
FunctionDone(function) == InHeader(Custom(function)) /\ Substituted(function).ok
FunctionsDone ==
    \E n \in 0..Len(config) :
        /\ functions = SubSeq(config, n + 1, Len(config))
        /\ \A i \in 1..n : FunctionDone(config[i])

Progress ==
    /\ IsSeq(config) /\ IsSeq(header)
    /\ FunctionsDone
    /\ phase \in {"starting", "listing", "tables", "functions", "exited"}
    /\ phase = "tables" => \A table \in Generated \ todo : TableDone(table)
    /\ phase \in {"functions", "exited"} /\ status = 0 => \A table \in Generated : TableDone(table)
    /\ phase = "exited" /\ status = 0 => functions = <<>>

-----------------------------------------------------------------------------
(* The header grows.                                                       *)

LEMMA IsSeqFacts ==
    ASSUME NEW S, NEW s \in Seq(S)
    PROVE  IsSeq(s)
<1> DEFINE R == {s[i] : i \in DOMAIN s}
<1>1. DOMAIN s = 1..Len(s) /\ Len(s) \in Nat /\ s = [i \in 1..Len(s) |-> s[i]]
  OBVIOUS
<1>2. \A i \in 1..Len(s) : s[i] \in R
  BY <1>1
<1> HIDE DEF R
<1>3. [i \in 1..Len(s) |-> s[i]] \in Seq(R)
  BY <1>1, <1>2
<1>4. s \in Seq(R)
  BY <1>1, <1>3
<1>5. QED
  BY <1>4 DEF IsSeq, R

LEMMA ConcatFacts ==
    ASSUME NEW s, IsSeq(s), NEW t, IsSeq(t)
    PROVE  IsSeq(s \o t) /\ Has(s \o t, s) /\ Has(s \o t, t)
<1> DEFINE S == {s[i] : i \in DOMAIN s}
           T == {t[i] : i \in DOMAIN t}
           B == S \union T
           u == s \o t
<1>1. s \in Seq(S) /\ t \in Seq(T)
  BY DEF IsSeq
<1> HIDE DEF S, T
<1>2. s \in Seq(B) /\ t \in Seq(B)
  BY <1>1
<1> HIDE DEF B
<1>3. /\ u \in Seq(B) /\ Len(u) = Len(s) + Len(t) /\ Len(s) \in Nat /\ Len(t) \in Nat
      /\ \A i \in 1..Len(s) + Len(t) : u[i] = IF i <= Len(s) THEN s[i] ELSE t[i - Len(s)]
  BY <1>2, ConcatProperties
<1> HIDE DEF u
<1>4. DOMAIN s = 1..Len(s) /\ DOMAIN t = 1..Len(t) /\ DOMAIN u = 1..Len(u)
  BY <1>2, <1>3
<1>5. \A j \in DOMAIN s : j \in DOMAIN u /\ u[j] = s[j]
  BY <1>3, <1>4
<1>6. \A j \in DOMAIN t : j + Len(s) \in DOMAIN u /\ u[j + Len(s)] = t[j]
  BY <1>3, <1>4
<1>7. IsSeq(u)
  BY <1>3, IsSeqFacts
<1>8. QED
  BY <1>5, <1>6, <1>7 DEF u, Has

LEMMA AppendFacts ==
    ASSUME NEW s, IsSeq(s), NEW x
    PROVE  IsSeq(Append(s, x)) /\ Has(Append(s, x), s) /\ Has(Append(s, x), <<x>>)
<1>1. s \in Seq({s[i] : i \in DOMAIN s})
  BY DEF IsSeq
<1> DEFINE one == <<x>>
<1>2. one \in Seq({x})
  OBVIOUS
<1>3. Append(s, x) = s \o one
  BY <1>1
<1> HIDE DEF one
<1>4. IsSeq(one)
  BY <1>2, IsSeqFacts
<1>5. IsSeq(s \o one) /\ Has(s \o one, s) /\ Has(s \o one, one)
  BY <1>4, ConcatFacts
<1>6. QED
  BY <1>3, <1>5 DEF one

\* What is emitted for a table is a sequence.
LEMMA EmittedFacts ==
    ASSUME NEW table, NEW layout
    PROVE  IsSeq(Emitted(table, layout))
<1> DEFINE head == <<emit_struct(table, layout), emit_dao_mapper(table, layout),
                     emit_insert(table, layout)>>
           update == IF Others(layout) = <<>> THEN <<>> ELSE <<emit_update(table, layout)>>
           select == IF PrimaryKeys(layout) = <<>> THEN <<>> ELSE emit_select(table, layout)
           save == <<emit_save(table, layout)>>
<1>1. IsSeq(head)
  <2>1. \A a, b, c : <<a, b, c>> \in Seq({a, b, c})
    OBVIOUS
  <2>2. QED
    BY <2>1, IsSeqFacts
<1>2. \A a : IsSeq(<<a>>)
  <2>1. \A a : <<a>> \in Seq({a})
    OBVIOUS
  <2>2. QED
    BY <2>1, IsSeqFacts
<1>3. IsSeq(<<>>)
  <2>1. <<>> \in Seq({})
    OBVIOUS
  <2>2. QED
    BY <2>1, IsSeqFacts
<1>4. IsSeq(update) /\ IsSeq(save)
  BY <1>2, <1>3
<1>5. IsSeq(select)
  <2>1. \A a, b : IsSeq(<<a, b>>)
    <3>1. \A a, b : <<a, b>> \in Seq({a, b})
      OBVIOUS
    <3>2. QED
      BY <3>1, IsSeqFacts
  <2>2. IsSeq(emit_select(table, layout))
    BY <2>1 DEF emit_select
  <2>3. QED
    BY <1>3, <2>2
<1>6. Emitted(table, layout) = ((head \o update) \o select) \o save
  BY DEF Emitted
<1> HIDE DEF head, update, select, save
<1>7. IsSeq((head \o update) \o select)
  <2>1. IsSeq(head \o update)
    BY <1>1, <1>4, ConcatFacts
  <2>2. QED
    BY <1>5, <2>1, ConcatFacts
<1>8. QED
  BY <1>4, <1>6, <1>7, ConcatFacts

\* The first function that is left is the next of the configuration.
LEMMA NextFunction ==
    ASSUME IsSeq(config), NEW n \in 0..Len(config),
           functions = SubSeq(config, n + 1, Len(config)), functions # <<>>
    PROVE  /\ n + 1 \in 0..Len(config)
           /\ Head(functions) = config[n + 1]
           /\ Tail(functions) = SubSeq(config, (n + 1) + 1, Len(config))
<1> DEFINE S == {config[i] : i \in DOMAIN config}
<1>1. config \in Seq(S) /\ Len(config) \in Nat
  BY DEF IsSeq
<1> HIDE DEF S
<1>2. n < Len(config)
  <2>1. SUFFICES ASSUME n = Len(config) PROVE FALSE
    BY <1>1
  <2>2. SubSeq(config, n + 1, Len(config)) = <<>>
    BY <1>1, <2>1, SubSeqEmpty
  <2>3. QED
    BY <2>2
<1>3. n + 1 \in 1..Len(config) /\ Len(config) \in (n + 1)..Len(config)
  BY <1>1, <1>2
<1>4. QED
  BY <1>1, <1>3, HeadTailOfSubSeq

-----------------------------------------------------------------------------
(* The program.                                                            *)

\* What stays when the header grows.
LEMMA HeaderGrows ==
    ASSUME tables' = tables, config' = config,
           Has(header', header)
    PROVE  /\ \A function : InHeader(function) => InHeader(function)'
           /\ \A function : FunctionDone(function) => FunctionDone(function)'
           /\ \A table : TableDone(table) => TableDone(table)'
           /\ Generated' = Generated
           /\ FunctionsDone /\ functions' = functions => FunctionsDone'
<1>1. \A function : InHeader(function) => InHeader(function)'
  BY DEF InHeader, Has
<1>2. \A table : TableDone(table) => TableDone(table)'
  BY <1>1 DEF TableDone
<1>3. Generated' = Generated
  BY DEF Generated
<1>4. \A function : FunctionDone(function) => FunctionDone(function)'
  BY <1>1 DEF FunctionDone
<1>5. FunctionsDone /\ functions' = functions => FunctionsDone'
  BY <1>4 DEF FunctionsDone
<1>6. QED
  BY <1>1, <1>2, <1>3, <1>4, <1>5

LEMMA ProgressStep == Progress /\ [Next]_vars => Progress'
<1> SUFFICES ASSUME Progress, [Next]_vars PROVE Progress'
  OBVIOUS
<1> USE DEF Progress
<1>1. ASSUME tables' = tables, config' = config, header' = header, functions' = functions
      PROVE  /\ IsSeq(config)' /\ IsSeq(header)' /\ FunctionsDone'
             /\ \A table : TableDone(table)' <=> TableDone(table)
             /\ Generated' = Generated
  BY <1>1 DEF FunctionsDone, FunctionDone, TableDone, InHeader, Generated
<1>2. CASE NotStarted \/ Started
  BY <1>1, <1>2 DEF NotStarted, Started
<1>3. CASE ListTables
  BY <1>1, <1>3 DEF ListTables, Generated
<1>4. CASE TablesFail \/ NullableFails
  BY <1>1, <1>4 DEF TablesFail, NullableFails
<1>5. CASE AllTables
  BY <1>1, <1>5 DEF AllTables
<1>6. ASSUME NEW table \in todo, serialise_table(table)
      PROVE  Progress'
  <2>1. /\ phase = "tables" /\ phase' = phase /\ todo' = todo \ {table}
        /\ header' = header \o Emitted(table, tables[table])
        /\ UNCHANGED <<tables, config, functions, status>>
    BY <1>6 DEF serialise_table
  <2> DEFINE new == Emitted(table, tables[table])
  <2>2. IsSeq(header') /\ Has(header', header) /\ Has(header', new)
    <3>1. IsSeq(header) /\ IsSeq(new)
      BY EmittedFacts
    <3>2. header' = header \o new
      BY <2>1
    <3> HIDE DEF new
    <3>3. QED
      BY <3>1, <3>2, ConcatFacts
  <2>3. TableDone(table)'
    BY <2>1, <2>2 DEF TableDone, InHeader, Has
  <2>4. \A other : TableDone(other) => TableDone(other)'
    BY <2>1, <2>2, HeaderGrows
  <2>5. FunctionsDone' /\ Generated' = Generated
    BY <2>1, <2>2, HeaderGrows
  <2>6. IsSeq(config)' /\ IsSeq(header)'
    BY <2>1, <2>2 DEF IsSeq
  <2>7. QED
    BY <2>1, <2>3, <2>4, <2>5, <2>6
<1>7. CASE generate_custom_dao_function
  <2>1. /\ phase = "functions" /\ functions # <<>> /\ Substituted(Head(functions)).ok
        /\ header' = Append(header, Custom(Head(functions)))
        /\ functions' = Tail(functions)
        /\ UNCHANGED <<tables, config, todo, phase, status>>
    BY <1>7 DEF generate_custom_dao_function
  <2>2. PICK n \in 0..Len(config) :
          /\ functions = SubSeq(config, n + 1, Len(config))
          /\ \A i \in 1..n : FunctionDone(config[i])
    BY DEF FunctionsDone
  <2>3. /\ n + 1 \in 0..Len(config)
        /\ Head(functions) = config[n + 1]
        /\ Tail(functions) = SubSeq(config, (n + 1) + 1, Len(config))
    BY <2>1, <2>2, NextFunction
  <2>4. IsSeq(header') /\ Has(header', header) /\ Has(header', <<Custom(config[n + 1])>>)
    <3> DEFINE new == Custom(config[n + 1])
    <3>1. header' = Append(header, new)
      BY <2>1, <2>3
    <3> HIDE DEF new
    <3>2. QED
      BY <3>1, AppendFacts DEF new
  <2>5. \A i \in 1..(n + 1) : FunctionDone(config[i])'
    <3>1. FunctionDone(config[n + 1])'
      <4> DEFINE new == Custom(config[n + 1])
      <4>1. Has(header', <<new>>)
        BY <2>4
      <4> HIDE DEF new
      <4>2. \E k \in DOMAIN header' : header'[k] = new
        BY <4>1 DEF Has
      <4>3. config' = config
        BY <2>1
      <4>4. Substituted(config[n + 1]).ok
        BY <2>1, <2>3
      <4>5. QED
        BY <4>2, <4>3, <4>4 DEF FunctionDone, InHeader, new
    <3>2. \A i \in 1..n : FunctionDone(config[i])'
      BY <2>1, <2>2, <2>4, HeaderGrows
    <3>3. \A i \in 1..(n + 1) : i \in 1..n \/ i = n + 1
      OBVIOUS
    <3>4. QED
      BY <3>1, <3>2, <3>3
  <2>6. FunctionsDone'
    BY <2>1, <2>3, <2>5 DEF FunctionsDone
  <2>7. (\A table : TableDone(table) => TableDone(table)') /\ Generated' = Generated
    BY <2>1, <2>4, HeaderGrows
  <2>8. IsSeq(config)' /\ IsSeq(header)'
    BY <2>1, <2>4 DEF IsSeq
  <2>9. QED
    BY <2>1, <2>6, <2>7, <2>8
<1>8. CASE FunctionFails
  <2>1. /\ phase' = "exited" /\ status' = -1
        /\ header' = Append(header, Broken(Head(functions)))
        /\ UNCHANGED <<tables, config, functions>>
    BY <1>8 DEF FunctionFails
  <2>2. IsSeq(header') /\ Has(header', header)
    BY <2>1, AppendFacts
  <2>3. FunctionsDone'
    BY <2>1, <2>2, HeaderGrows
  <2>4. IsSeq(config)' /\ IsSeq(header)'
    BY <2>1, <2>2 DEF IsSeq
  <2>5. QED
    BY <2>1, <2>3, <2>4
<1>9. CASE AllFunctions
  BY <1>1, <1>9 DEF AllFunctions
<1>10. CASE UNCHANGED vars
  BY <1>1, <1>10 DEF vars
<1>11. QED
  BY <1>2, <1>3, <1>4, <1>5, <1>6, <1>7, <1>8, <1>9, <1>10 DEF Next, Exited

LEMMA ProgressInit == Init => Progress
<1> SUFFICES ASSUME Init PROVE Progress
  OBVIOUS
<1>1. /\ IsSeq(config) /\ functions = config
      /\ header = <<>> /\ phase = "starting"
  <2>1. PICK input \in Inputs : tables = input.tables /\ config = input.config
    BY DEF Init
  <2>2. config \in Seq(FunctionType)
    BY <2>1, InputsAssumption
  <2> HIDE DEF FunctionType
  <2>3. IsSeq(config)
    BY <2>2, IsSeqFacts
  <2>4. QED
    BY <2>3 DEF Init
<1>2. IsSeq(header)
  <2>1. <<>> \in Seq({})
    OBVIOUS
  <2>2. QED
    BY <1>1, <2>1, IsSeqFacts
<1>3. FunctionsDone
  <2> DEFINE S == {config[i] : i \in DOMAIN config}
  <2>1. config \in Seq(S)
    BY <1>1 DEF IsSeq
  <2> HIDE DEF S
  <2>2. Len(config) \in Nat /\ config = SubSeq(config, 0 + 1, Len(config))
    BY <2>1
  <2>3. QED
    BY <1>1, <2>2 DEF FunctionsDone
<1>4. QED
  BY <1>1, <1>2, <1>3 DEF Progress

\* No function is left: all are done.
LEMMA AllFunctionsDone ==
    ASSUME IsSeq(config), FunctionsDone, functions = <<>>
    PROVE  \A i \in DOMAIN config : FunctionDone(config[i])
<1>1. PICK n \in 0..Len(config) :
        /\ functions = SubSeq(config, n + 1, Len(config))
        /\ \A i \in 1..n : FunctionDone(config[i])
  BY DEF FunctionsDone
<1> DEFINE S == {config[i] : i \in DOMAIN config}
<1>2. config \in Seq(S)
  BY DEF IsSeq
<1>3. \A i \in (n + 1)..Len(config) : config[i] \in S
  BY <1>2
<1> HIDE DEF S
<1>4. Len(config) \in Nat /\ DOMAIN config = 1..Len(config)
  BY <1>2
<1> DEFINE left == SubSeq(config, n + 1, Len(config))
<1>5. Len(left) = IF n + 1 <= Len(config) THEN Len(config) - (n + 1) + 1 ELSE 0
  BY <1>3, <1>4, SubSeqProperties
<1>6. n = Len(config)
  <2> DEFINE m == Len(config)
             l == Len(left)
  <2>1. n \in 0..m /\ m \in Nat /\ l = 0
        /\ l = IF n + 1 <= m THEN m - (n + 1) + 1 ELSE 0
    <3>1. left = <<>>
      BY <1>1
    <3> HIDE DEF left
    <3>2. Len(left) = 0
      BY <3>1
    <3>3. QED
      BY <1>4, <1>5, <3>2
  <2> HIDE DEF m, l
  <2>2. n = m
    BY <2>1
  <2>3. QED
    BY <2>2 DEF m
<1>7. QED
  BY <1>1, <1>4, <1>6

\* Status 0 means a complete header: all functions of every table that is not
\* db_migration, whatever the schema, and all functions of config/daos.cfg.
THEOREM HeaderComplete == Spec => []NothingMissing
<1>1. Progress => NothingMissing
  <2> SUFFICES ASSUME Progress, phase = "exited", status = 0
               PROVE  /\ \A table \in Generated : TableDone(table)
                      /\ \A i \in DOMAIN config : InHeader(Custom(config[i]))
    BY DEF NothingMissing, Generated, TableDone, InHeader
  <2>1. \A i \in DOMAIN config : FunctionDone(config[i])
    BY AllFunctionsDone DEF Progress
  <2>2. QED
    BY <2>1 DEF Progress, FunctionDone
<1>2. QED
  BY <1>1, ProgressInit, ProgressStep, PTL DEF Spec

-----------------------------------------------------------------------------
(* Joined sequences.                                                     *)

\* Sequences that each end with a separator, or the last one otherwise, are
\* joined by the separator.
LEMMA Separated ==
    ASSUME NEW S, NEW seqs \in Seq(Seq(S)), seqs # <<>>, NEW sep \in Seq(S), NEW fin \in Seq(S),
           NEW pieces \in Seq(Seq(S)), Len(pieces) = Len(seqs),
           \A i \in 1..Len(seqs) :
               pieces[i] = Longer(seqs[i], IF i = Len(seqs) THEN fin ELSE sep)
    PROVE  Flat(pieces) = Longer(Join(seqs, sep), fin) /\ Join(seqs, sep) \in Seq(S)
<1> DEFINE k == Len(seqs)
           joined == [i \in 1..k |-> IF i = 1 THEN seqs[i] ELSE Longer(sep, seqs[i])]
<1>1. k \in Nat /\ 1 <= k /\ DOMAIN seqs = 1..k /\ \A i \in 1..k : seqs[i] \in Seq(S)
  BY LenProperties, ElementOfSeq
<1>2. \A i \in 1..k : joined[i] = IF i = 1 THEN seqs[i] ELSE Longer(sep, seqs[i])
  OBVIOUS
<1>3. joined = [i \in 1..k |-> joined[i]]
  OBVIOUS
<1>4. Join(seqs, sep) = Flat(joined)
  BY <1>1 DEF Join, Longer
<1> HIDE DEF joined
<1>5. \A i \in 1..k : joined[i] \in Seq(S)
  <2>1. \A i \in 1..k : Longer(sep, seqs[i]) \in Seq(S)
    BY <1>1, LongerFacts
  <2>2. QED
    BY <1>1, <1>2, <2>1
<1>6. joined \in Seq(Seq(S)) /\ Len(joined) = k
  BY <1>1, <1>3, <1>5, TableIsSeq
<1> DEFINE last(n) == IF n = k THEN fin ELSE sep
<1>7. \A i \in 1..k : last(i) \in Seq(S) /\ pieces[i] = Longer(seqs[i], last(i))
  BY <1>1
<1>8. pieces \in Seq(Seq(S)) /\ Len(pieces) = k
  OBVIOUS
<1> HIDE DEF k
<1>9. PICK p \in [0..Len(pieces) -> Seq(S)] : Parts(p, pieces)
  BY <1>8, FlatParts
<1>10. PICK j \in [0..Len(joined) -> Seq(S)] : Parts(j, joined)
  BY <1>6, FlatParts
<1>11. /\ p[0] = <<>> /\ \A n \in 1..k : p[n] = Longer(p[n - 1], pieces[n])
       /\ Flat(pieces) = p[k]
  BY <1>8, <1>9 DEF Parts
<1>12. /\ j[0] = <<>> /\ \A n \in 1..k : j[n] = Longer(j[n - 1], joined[n])
       /\ Flat(joined) = j[k] /\ \A n \in 0..k : j[n] \in Seq(S)
  BY <1>6, <1>10 DEF Parts
<1> DEFINE T == {n \in 0..k : n = 0 \/ p[n] = Longer(j[n], last(n))}
<1>13. 0 \in T
  BY <1>1
<1>14. ASSUME NEW n \in 0..k, n \in T, n < k PROVE n + 1 \in T
  <2>1. n + 1 \in 1..k /\ n + 1 - 1 = n /\ n + 1 \in 0..k /\ n # k
    BY <1>1, <1>14
  <2> DEFINE l == last(n + 1)
             s == seqs[n + 1]
             a == j[n]
  <2>2. p[n + 1] = Longer(p[n], Longer(s, l)) /\ j[n + 1] = Longer(a, joined[n + 1])
    <3> HIDE DEF last
    <3>1. p[n + 1] = Longer(p[n], pieces[n + 1]) /\ j[n + 1] = Longer(j[n], joined[n + 1])
      <4> DEFINE m == n + 1
      <4>1. m \in 1..k /\ m - 1 = n
        BY <2>1
      <4> HIDE DEF m
      <4>2. p[m] = Longer(p[m - 1], pieces[m]) /\ j[m] = Longer(j[m - 1], joined[m])
        BY <1>11, <1>12, <4>1
      <4>3. p[m] = Longer(p[n], pieces[m]) /\ j[m] = Longer(j[n], joined[m])
        BY <4>1, <4>2
      <4>4. QED
        BY <4>3 DEF m
    <3>2. pieces[n + 1] = Longer(seqs[n + 1], last(n + 1))
      BY <1>7, <2>1
    <3>3. QED
      BY <2>1, <3>1, <3>2
  <2>3. a \in Seq(S) /\ s \in Seq(S) /\ l \in Seq(S)
    BY <1>1, <1>12, <2>1
  <2>4. CASE n = 0
    <3>1. p[n] = <<>> /\ a = <<>> /\ joined[n + 1] = s
      <4>1. n + 1 = 1
        BY <2>4
      <4>2. QED
        BY <1>2, <1>11, <1>12, <2>1, <2>4, <4>1
    <3> HIDE DEF l, s, a
    <3>2. Longer(s, l) \in Seq(S)
      BY <2>3, LongerFacts
    <3>3. Longer(<<>>, Longer(s, l)) = Longer(s, l) /\ Longer(<<>>, s) = s
      BY <2>3, <3>2, LongerFacts
    <3>4. p[n + 1] = Longer(j[n + 1], l)
      BY <2>2, <3>1, <3>3
    <3>5. QED
      BY <2>1, <3>4 DEF l
  <2>5. CASE n # 0
    <3>1. p[n] = Longer(a, sep)
      BY <1>14, <2>1, <2>5
    <3>2. joined[n + 1] = Longer(sep, s)
      <4>1. n + 1 # 1
        BY <2>5
      <4>2. QED
        BY <1>2, <2>1, <4>1
    <3>3. p[n + 1] = Longer(Longer(a, sep), Longer(s, l)) /\ j[n + 1] = Longer(a, Longer(sep, s))
      BY <2>2, <3>1, <3>2
    <3> HIDE DEF a, s, l
    <3>4. Longer(Longer(a, sep), Longer(s, l)) = Longer(Longer(a, Longer(sep, s)), l)
      <4>1. Longer(a, sep) \in Seq(S) /\ Longer(sep, s) \in Seq(S)
        BY <2>3, LongerFacts
      <4>2. Longer(Longer(a, sep), Longer(s, l)) = Longer(Longer(Longer(a, sep), s), l)
        BY <2>3, <4>1, LongerFacts
      <4>3. Longer(Longer(a, sep), s) = Longer(a, Longer(sep, s))
        BY <2>3, LongerFacts
      <4>4. QED
        BY <4>2, <4>3
    <3>5. p[n + 1] = Longer(j[n + 1], l)
      BY <3>3, <3>4
    <3>6. QED
      BY <2>1, <3>5 DEF l
  <2>6. QED
    BY <2>4, <2>5
<1> HIDE DEF T
<1>15. \A n \in 0..k : n \in T
  BY <1>1, <1>13, <1>14, InductionUpTo
<1>16. k \in 0..k /\ k # 0
  BY <1>1
<1>17. p[k] = Longer(j[k], fin) /\ j[k] \in Seq(S)
  BY <1>12, <1>15, <1>16 DEF T
<1>18. QED
  BY <1>4, <1>11, <1>12, <1>17

-----------------------------------------------------------------------------
(* The compiler.                                                           *)

Modes == {"operand", "literal", "after literal", "after term", "complete", "malformed"}
State(mode, sql) == [mode |-> mode, sql |-> sql]
Reading == [x \in ReadState \X Tokens |-> ReadToken(x[1], x[2])]
Read(r, s) == Fold(Reading, r, s)

\* In the mode m, s adds the given SQL and leads to the mode n.
Gives(m, s, n, added) ==
    /\ m \in Modes /\ n \in Modes /\ s \in Seq(Tokens) /\ added \in Seq(Tokens)
    /\ \A sql \in Seq(Tokens) : Read(State(m, sql), s) = State(n, Longer(sql, added))

Breaks(m, s) == \E added : Gives(m, s, "malformed", added)
Stays(s) == \E added : Gives("literal", s, "literal", added)

LEMMA StateFacts ==
    ASSUME NEW m \in Modes, NEW sql \in Seq(Tokens)
    PROVE  State(m, sql) \in ReadState /\ State(m, sql).mode = m /\ State(m, sql).sql = sql
BY DEF State, ReadState, Modes

LEMMA TokenGives ==
    ASSUME NEW m \in Modes, NEW token \in Tokens, NEW n \in Modes, NEW added \in Seq(Tokens),
           \A sql \in Seq(Tokens) :
               ReadToken(State(m, sql), token) = State(n, Longer(sql, added))
    PROVE  Gives(m, <<token>>, n, added)
<1>1. <<token>> \in Seq(Tokens) /\ <<>> \in Seq(Tokens) /\ <<token>> = Append(<<>>, token)
  OBVIOUS
<1>2. ASSUME NEW sql \in Seq(Tokens)
      PROVE  Read(State(m, sql), <<token>>) = State(n, Longer(sql, added))
  <2> DEFINE r == State(m, sql)
  <2>1. r \in ReadState
    BY StateFacts
  <2>2. ReadToken(r, token) = State(n, Longer(sql, added))
    OBVIOUS
  <2> HIDE DEF r
  <2>3. Fold(Reading, r, <<>>) = r
    BY FoldEmpty
  <2>4. Fold(Reading, r, Append(<<>>, token)) = Taking(Reading, Fold(Reading, r, <<>>), token)
    <3> DEFINE none == <<>>
    <3>1. none \in Seq(Tokens)
      BY <1>1
    <3> HIDE DEF none
    <3>2. Fold(Reading, r, Append(none, token)) = Taking(Reading, Fold(Reading, r, none), token)
      BY <3>1, FoldAppend
    <3>3. QED
      BY <3>2 DEF none
  <2>5. <<r, token>> \in ReadState \X Tokens
    BY <2>1
  <2>6. Reading[<<r, token>>] = ReadToken(r, token)
    BY <2>5 DEF Reading
  <2>7. Fold(Reading, r, <<token>>) = ReadToken(r, token)
    BY <1>1, <2>3, <2>4, <2>6 DEF Taking
  <2>8. QED
    BY <2>2, <2>7 DEF Read, r
<1>3. QED
  BY <1>1, <1>2 DEF Gives

LEMMA GivesNothing ==
    ASSUME NEW m \in Modes
    PROVE  Gives(m, <<>>, m, <<>>)
<1>1. <<>> \in Seq(Tokens)
  OBVIOUS
<1>2. ASSUME NEW sql \in Seq(Tokens) PROVE Read(State(m, sql), <<>>) = State(m, Longer(sql, <<>>))
  <2>1. Longer(sql, <<>>) = sql
    BY LongerFacts
  <2>2. QED
    BY <2>1, FoldEmpty DEF Read
<1>3. QED
  BY <1>1, <1>2 DEF Gives

LEMMA GivesThen ==
    ASSUME NEW l, NEW s, NEW m, NEW a, Gives(l, s, m, a), NEW t, NEW n, NEW b, Gives(m, t, n, b)
    PROVE  Gives(l, Longer(s, t), n, Longer(a, b))
<1>1. /\ l \in Modes /\ m \in Modes /\ n \in Modes
      /\ s \in Seq(Tokens) /\ t \in Seq(Tokens) /\ a \in Seq(Tokens) /\ b \in Seq(Tokens)
  BY DEF Gives
<1>2. Longer(s, t) \in Seq(Tokens) /\ Longer(a, b) \in Seq(Tokens)
  BY <1>1, LongerFacts
<1>3. ASSUME NEW sql \in Seq(Tokens)
      PROVE  Read(State(l, sql), Longer(s, t)) = State(n, Longer(sql, Longer(a, b)))
  <2>1. Read(State(l, sql), s) = State(m, Longer(sql, a))
    BY DEF Gives
  <2>2. Longer(sql, a) \in Seq(Tokens)
    BY <1>1, LongerFacts
  <2>3. Read(State(m, Longer(sql, a)), t) = State(n, Longer(Longer(sql, a), b))
    BY <2>2 DEF Gives
  <2>4. Longer(Longer(sql, a), b) = Longer(sql, Longer(a, b))
    BY <1>1, LongerFacts
  <2> DEFINE r == State(l, sql)
  <2>5. Fold(Reading, r, s \o t) = Fold(Reading, Fold(Reading, r, s), t)
    <3> HIDE DEF r
    <3>1. QED
      BY <1>1, FoldConcat
  <2>6. QED
    BY <2>1, <2>3, <2>4, <2>5 DEF Read, Longer, r
<1>4. QED
  BY <1>1, <1>2, <1>3 DEF Gives

\* The tokens.
Text == Tokens \ {Mark, <<"\\\"">>}

LEMMA TokenFacts ==
    /\ \A word \in Words : <<word>> \in Tokens
    /\ \A name \in Names : <<name>> \in Text
    /\ \A kind \in Kinds, name \in Names : <<kind, name>> \in Text
    /\ \A word \in Words \ {"\"", "\\\""} : <<word>> \in Text
    /\ Text \subseteq Tokens
<1>1. /\ \A word \in Words : <<word>> \in Tokens
      /\ \A name \in Names : <<name>> \in Tokens
      /\ \A kind \in Kinds, name \in Names : <<kind, name>> \in Tokens
  BY DEF Tokens
<1>2. \A kind, name, word : <<kind, name>> # <<word>>
  OBVIOUS
<1>3. \A a, b : <<a>> = <<b>> => a = b
  OBVIOUS
<1>4. Mark = <<"\"">>
  BY DEF Mark
<1>5. \A name \in Names : name # "\"" /\ name # "\\\""
  BY InputsAssumption
<1>6. \A name \in Names : <<name>> \in Text
  BY <1>1, <1>3, <1>4, <1>5 DEF Text
<1>7. \A kind \in Kinds, name \in Names : <<kind, name>> \in Text
  BY <1>1, <1>2, <1>4 DEF Text
<1>8. \A word \in Words \ {"\"", "\\\""} : <<word>> \in Text
  BY <1>1, <1>3, <1>4 DEF Text
<1>9. QED
  BY <1>1, <1>6, <1>7, <1>8 DEF Text

LEMMA TextGives ==
    ASSUME NEW token \in Text
    PROVE  Gives("literal", <<token>>, "literal", <<token>>)
<1>1. token \in Tokens /\ token # Mark /\ token # <<"\\\"">>
  BY DEF Text
<1>2. ASSUME NEW sql \in Seq(Tokens)
      PROVE  ReadToken(State("literal", sql), token) = State("literal", Longer(sql, <<token>>))
  <2>1. ReadToken(State("literal", sql), token) = [State("literal", sql) EXCEPT !.sql = Append(@, token)]
    BY <1>1 DEF ReadToken, InLiteral, State
  <2>2. Append(sql, token) = Longer(sql, <<token>>)
    BY <1>1, OneFacts
  <2>3. QED
    BY <2>1, <2>2 DEF State
<1>3. <<token>> \in Seq(Tokens) /\ "literal" \in Modes
  BY <1>1, OneFacts, EmptySeq DEF Modes
<1>4. QED
  BY <1>1, <1>2, <1>3, TokenGives

LEMMA EscapeGives ==
    Gives("literal", <<<<"\\\"">>>>, "literal", <<Mark>>)
<1> DEFINE token == <<"\\\"">>
<1>1. token \in Tokens /\ Mark \in Tokens
  BY TokenFacts DEF Words, Mark
<1>2. token # Mark
  BY DEF Mark
<1>3. ASSUME NEW sql \in Seq(Tokens)
      PROVE  ReadToken(State("literal", sql), token) = State("literal", Longer(sql, <<Mark>>))
  <2>1. ReadToken(State("literal", sql), token) = [State("literal", sql) EXCEPT !.sql = Append(@, Mark)]
    BY <1>2 DEF ReadToken, InLiteral, State
  <2>2. Append(sql, Mark) = Longer(sql, <<Mark>>)
    BY <1>1, OneFacts
  <2>3. QED
    BY <2>1, <2>2 DEF State
<1>4. <<Mark>> \in Seq(Tokens) /\ "literal" \in Modes
  BY <1>1, OneFacts, EmptySeq DEF Modes
<1> HIDE DEF token
<1>5. Gives("literal", <<token>>, "literal", <<Mark>>)
  BY <1>1, <1>3, <1>4, TokenGives
<1>6. QED
  BY <1>5 DEF token

\* What leads from one mode to another and adds nothing.
LEMMA TurnGives ==
    ASSUME NEW m \in Modes, NEW token \in Tokens, NEW n \in Modes,
           \A sql \in Seq(Tokens) : ReadToken(State(m, sql), token) = State(n, sql)
    PROVE  Gives(m, <<token>>, n, <<>>)
<1>1. <<>> \in Seq(Tokens)
  OBVIOUS
<1>2. \A sql \in Seq(Tokens) : ReadToken(State(m, sql), token) = State(n, Longer(sql, <<>>))
  BY LongerFacts
<1> DEFINE none == <<>>
<1> HIDE DEF none
<1>3. none \in Seq(Tokens) /\ \A sql \in Seq(Tokens) : ReadToken(State(m, sql), token) = State(n, Longer(sql, none))
  BY <1>1, <1>2 DEF none
<1>4. Gives(m, <<token>>, n, none)
  BY <1>3, TokenGives
<1>5. QED
  BY <1>4 DEF none

LEMMA PunctuationGives ==
    /\ Gives("operand", <<Mark>>, "literal", <<>>)
    /\ Gives("after literal", <<Mark>>, "literal", <<>>)
    /\ Gives("literal", <<Mark>>, "after literal", <<>>)
    /\ Gives("after literal", <<Plus>>, "operand", <<>>)
    /\ Gives("after term", <<Plus>>, "operand", <<>>)
    /\ Gives("after literal", <<Semi>>, "complete", <<>>)
    /\ Gives("after term", <<Semi>>, "complete", <<>>)
    /\ Gives("after term", <<Mark>>, "malformed", <<>>)
    /\ Gives("complete", <<Mark>>, "malformed", <<>>)
    /\ \A name \in Names : Gives("operand", <<<<"any", name>>>>, "malformed", <<>>)
    /\ \A token \in Tokens : Gives("malformed", <<token>>, "malformed", <<>>)
<1>1. Mark \in Tokens /\ Plus \in Tokens /\ Semi \in Tokens
  BY TokenFacts DEF Mark, Plus, Semi, Words
<1>2. Mark # Plus /\ Mark # Semi /\ Plus # Semi /\ Mark[1] = "\"" /\ Plus[1] = "+" /\ Semi[1] = ";"
  BY DEF Mark, Plus, Semi
<1>3. \A name \in Names : <<"any", name>> \in Tokens /\ <<"any", name>> # Mark /\ <<"any", name>>[1] = "any"
  BY TokenFacts DEF Kinds, Text
<1>4. {"operand", "literal", "after literal", "after term", "complete", "malformed"} \subseteq Modes
  BY DEF Modes
<1> HIDE DEF Mark, Plus, Semi
<1>5. ASSUME NEW sql \in Seq(Tokens)
      PROVE  /\ ReadToken(State("operand", sql), Mark) = State("literal", sql)
             /\ ReadToken(State("after literal", sql), Mark) = State("literal", sql)
             /\ ReadToken(State("literal", sql), Mark) = State("after literal", sql)
             /\ ReadToken(State("after literal", sql), Plus) = State("operand", sql)
             /\ ReadToken(State("after term", sql), Plus) = State("operand", sql)
             /\ ReadToken(State("after literal", sql), Semi) = State("complete", sql)
             /\ ReadToken(State("after term", sql), Semi) = State("complete", sql)
             /\ ReadToken(State("after term", sql), Mark) = State("malformed", sql)
             /\ ReadToken(State("complete", sql), Mark) = State("malformed", sql)
             /\ \A name \in Names : ReadToken(State("operand", sql), <<"any", name>>) = State("malformed", sql)
             /\ \A token \in Tokens : ReadToken(State("malformed", sql), token) = State("malformed", sql)
  BY <1>2, <1>3 DEF ReadToken, State, InLiteral, TermKinds
<1>6. QED
  BY <1>1, <1>3, <1>4, <1>5, TurnGives

\* A tuple is its first element and the others.
LEMMA TupleFacts ==
    /\ \A a, b : <<a, b>> = Longer(<<a>>, <<b>>)
    /\ \A a, b, c : <<a, b, c>> = Longer(<<a>>, <<b, c>>)
    /\ \A a, b, c, d : <<a, b, c, d>> = Longer(<<a>>, <<b, c, d>>)
    /\ \A a, b, c, d, e : <<a, b, c, d, e>> = Longer(<<a>>, <<b, c, d, e>>)
<1>1. ASSUME NEW a, NEW b PROVE <<a, b>> = <<a>> \o <<b>>
  <2>1. <<a>> \in Seq({a, b}) /\ <<a, b>> = Append(<<a>>, b)
    OBVIOUS
  <2> DEFINE one == <<a>>
  <2>2. one \in Seq({a, b}) /\ <<a, b>> = Append(one, b)
    BY <2>1
  <2> HIDE DEF one
  <2>3. <<a, b>> = Longer(one, <<b>>)
    BY <2>2, OneFacts
  <2>4. QED
    BY <2>3 DEF Longer, one
<1>2. ASSUME NEW a, NEW b, NEW c PROVE <<a, b, c>> = <<a>> \o <<b, c>>
  OBVIOUS
<1>3. ASSUME NEW a, NEW b, NEW c, NEW d PROVE <<a, b, c, d>> = <<a>> \o <<b, c, d>>
  OBVIOUS
<1>4. ASSUME NEW a, NEW b, NEW c, NEW d, NEW e PROVE <<a, b, c, d, e>> = <<a>> \o <<b, c, d, e>>
  OBVIOUS
<1>5. QED
  BY <1>1, <1>2, <1>3, <1>4 DEF Longer

LEMMA MalformedStays ==
    \A s \in Seq(Tokens) : Gives("malformed", s, "malformed", <<>>)
<1> DEFINE T == {s \in Seq(Tokens) : Gives("malformed", s, "malformed", <<>>)}
<1>1. <<>> \in T
  BY GivesNothing, EmptySeq DEF Modes
<1>2. ASSUME NEW s \in T, NEW x \in Tokens PROVE Append(s, x) \in T
  <2>1. s \in Seq(Tokens) /\ Gives("malformed", s, "malformed", <<>>)
    OBVIOUS
  <2>2. Gives("malformed", <<x>>, "malformed", <<>>)
    BY PunctuationGives
  <2> DEFINE none == <<>>
             one == <<x>>
  <2>3. Gives("malformed", s, "malformed", none) /\ Gives("malformed", one, "malformed", none)
    BY <2>1, <2>2
  <2>4. none \in Seq(Tokens) /\ none = <<>>
    BY EmptySeq
  <2>5. Append(s, x) = Longer(s, one) /\ Append(s, x) \in Seq(Tokens)
    BY <2>1, OneFacts
  <2> HIDE DEF none, one
  <2>6. Gives("malformed", Longer(s, one), "malformed", Longer(none, none))
    BY <2>3, GivesThen
  <2>7. Longer(none, none) = none
    BY <2>4, LongerFacts
  <2>8. QED
    BY <2>4, <2>5, <2>6, <2>7
<1>3. T \in SUBSET Seq(Tokens)
  OBVIOUS
<1> HIDE DEF T
<1>4. T = Seq(Tokens)
  BY <1>1, <1>2, <1>3, SequenceInduction
<1>5. QED
  BY <1>4 DEF T

LEMMA BreaksThen ==
    ASSUME NEW m, NEW s, Breaks(m, s), NEW t \in Seq(Tokens)
    PROVE  Breaks(m, Longer(s, t))
<1>1. PICK a : Gives(m, s, "malformed", a)
  BY DEF Breaks
<1>2. Gives("malformed", t, "malformed", <<>>)
  BY MalformedStays
<1> DEFINE none == <<>>
<1>3. Gives("malformed", t, "malformed", none)
  BY <1>2
<1> HIDE DEF none
<1>4. Gives(m, Longer(s, t), "malformed", Longer(a, none))
  BY <1>1, <1>3, GivesThen
<1>5. QED
  BY <1>4 DEF Breaks

LEMMA ThenBreaks ==
    ASSUME NEW l, NEW s, NEW m, NEW a, Gives(l, s, m, a), NEW t, Breaks(m, t)
    PROVE  Breaks(l, Longer(s, t))
<1>1. PICK b : Gives(m, t, "malformed", b)
  BY DEF Breaks
<1>2. Gives(l, Longer(s, t), "malformed", Longer(a, b))
  BY <1>1, GivesThen
<1>3. QED
  BY <1>2 DEF Breaks

\* What adds nothing first, or last.
LEMMA TurnThen ==
    ASSUME NEW l, NEW s, NEW m, Gives(l, s, m, <<>>), NEW t, NEW n, NEW b, Gives(m, t, n, b)
    PROVE  Gives(l, Longer(s, t), n, b)
<1> DEFINE none == <<>>
<1>1. Gives(l, s, m, none) /\ b \in Seq(Tokens) /\ none = <<>>
  BY DEF Gives
<1> HIDE DEF none
<1>2. Gives(l, Longer(s, t), n, Longer(none, b))
  BY <1>1, GivesThen
<1>3. Longer(none, b) = b
  BY <1>1, LongerFacts
<1>4. QED
  BY <1>2, <1>3

LEMMA ThenTurn ==
    ASSUME NEW l, NEW s, NEW m, NEW a, Gives(l, s, m, a), NEW t, NEW n, Gives(m, t, n, <<>>)
    PROVE  Gives(l, Longer(s, t), n, a)
<1> DEFINE none == <<>>
<1>1. Gives(m, t, n, none) /\ a \in Seq(Tokens) /\ none = <<>>
  BY DEF Gives
<1> HIDE DEF none
<1>2. Gives(l, Longer(s, t), n, Longer(a, none))
  BY <1>1, GivesThen
<1>3. Longer(a, none) = a
  BY <1>1, LongerFacts
<1>4. QED
  BY <1>2, <1>3

LEMMA TextsGive ==
    \A s \in Seq(Text) : Gives("literal", s, "literal", s)
<1> DEFINE T == {s \in Seq(Text) : Gives("literal", s, "literal", s)}
<1>1. <<>> \in T
  BY GivesNothing, EmptySeq DEF Modes
<1>2. ASSUME NEW s \in T, NEW x \in Text PROVE Append(s, x) \in T
  <2>1. s \in Seq(Text) /\ Gives("literal", s, "literal", s)
    OBVIOUS
  <2>2. Gives("literal", <<x>>, "literal", <<x>>)
    BY TextGives
  <2> DEFINE one == <<x>>
  <2>3. Append(s, x) = Longer(s, one) /\ Append(s, x) \in Seq(Text)
    BY <2>1, OneFacts
  <2>4. Gives("literal", one, "literal", one)
    BY <2>2
  <2> HIDE DEF one
  <2>5. Gives("literal", Longer(s, one), "literal", Longer(s, one))
    BY <2>1, <2>4, GivesThen
  <2>6. QED
    BY <2>3, <2>5
<1>3. T \in SUBSET Seq(Text)
  OBVIOUS
<1> HIDE DEF T
<1>4. T = Seq(Text)
  BY <1>1, <1>2, <1>3, SequenceInduction
<1>5. QED
  BY <1>4 DEF T

LEMMA SqlOfFacts ==
    ASSUME NEW kind \in TermKinds \ {"any"}, NEW name \in Names
    PROVE  SqlOf(<<kind, name>>) \in Seq(Text)
<1>1. /\ Quote \in Text /\ <<"value", name>> \in Text /\ <<"value or null", name>> \in Text
      /\ <<"quoted value or null", name>> \in Text /\ <<kind, name>> \in Text
  BY TokenFacts DEF Quote, Words, Kinds, TermKinds
<1>2. /\ <<Quote, <<"value", name>>, Quote>> \in Seq(Text)
      /\ <<<<"value or null", name>>>> \in Seq(Text)
      /\ <<<<"quoted value or null", name>>>> \in Seq(Text)
      /\ <<<<kind, name>>>> \in Seq(Text)
  <2>1. \A a, b, c : a \in Text /\ b \in Text /\ c \in Text => <<a, b, c>> \in Seq(Text) /\ <<a>> \in Seq(Text)
    OBVIOUS
  <2>2. QED
    BY <1>1, <2>1
<1>3. QED
  BY <1>2 DEF SqlOf

LEMMA TermGives ==
    ASSUME NEW kind \in TermKinds \ {"any"}, NEW name \in Names
    PROVE  Gives("operand", <<<<kind, name>>>>, "after term", SqlOf(<<kind, name>>))
<1> DEFINE token == <<kind, name>>
           added == SqlOf(token)
<1>1. token \in Tokens /\ token # Mark /\ token[1] = kind
  BY TokenFacts DEF Text, TermKinds, Kinds
<1>2. added \in Seq(Tokens)
  <2>1. added \in Seq(Text) /\ Text \subseteq Tokens
    BY SqlOfFacts DEF Text
  <2> HIDE DEF added
  <2>2. QED
    BY <2>1, SeqMonotonic
<1> HIDE DEF token, added
<1>3. ASSUME NEW sql \in Seq(Tokens)
      PROVE  ReadToken(State("operand", sql), token) = State("after term", Longer(sql, added))
  BY <1>1 DEF ReadToken, State, TermKinds, Longer, added
<1>4. Gives("operand", <<token>>, "after term", added)
  BY <1>1, <1>2, <1>3, TokenGives DEF Modes
<1>5. QED
  BY <1>4 DEF token, added

\* A value between two literals.
LEMMA TermOpened ==
    ASSUME NEW kind \in TermKinds \ {"any"}, NEW name \in Names
    PROVE  /\ Gives("literal", <<Mark, Plus, <<kind, name>>>>, "after term", SqlOf(<<kind, name>>))
           /\ Gives("literal", Longer(<<Mark, Plus, <<kind, name>>>>, <<Plus, Mark>>), "literal",
                    SqlOf(<<kind, name>>))
<1> DEFINE token == <<kind, name>>
           added == SqlOf(token)
           one == <<token>>
<1>1. Gives("operand", one, "after term", added)
  BY TermGives
<1> HIDE DEF added, one, token
<1>2. Gives("after literal", Longer(<<Plus>>, one), "after term", added)
  BY <1>1, PunctuationGives, TurnThen
<1>3. Gives("literal", Longer(<<Mark>>, Longer(<<Plus>>, one)), "after term", added)
  BY <1>2, PunctuationGives, TurnThen
<1>4. Longer(<<Mark>>, Longer(<<Plus>>, one)) = <<Mark, Plus, token>>
  BY TupleFacts DEF one
<1>5. Gives("literal", <<Mark, Plus, token>>, "after term", added)
  BY <1>3, <1>4
<1>6. Gives("after term", Longer(<<Plus>>, <<Mark>>), "literal", <<>>)
  BY PunctuationGives, TurnThen
<1>7. Longer(<<Plus>>, <<Mark>>) = <<Plus, Mark>>
  BY TupleFacts
<1>8. Gives("after term", <<Plus, Mark>>, "literal", <<>>)
  BY <1>6, <1>7
<1>9. Gives("literal", Longer(<<Mark, Plus, token>>, <<Plus, Mark>>), "literal", added)
  BY <1>5, <1>8, ThenTurn
<1>10. QED
  BY <1>5, <1>9 DEF added, token

\* A std::any has no text.
LEMMA AnyBreaks ==
    ASSUME NEW name \in Names
    PROVE  Breaks("literal", <<Mark, Plus, <<"any", name>>>>)
<1> DEFINE token == <<"any", name>>
           one == <<token>>
<1>1. Gives("operand", one, "malformed", <<>>)
  BY PunctuationGives
<1> HIDE DEF one, token
<1>2. Gives("after literal", Longer(<<Plus>>, one), "malformed", <<>>)
  BY <1>1, PunctuationGives, TurnThen
<1>3. Gives("literal", Longer(<<Mark>>, Longer(<<Plus>>, one)), "malformed", <<>>)
  BY <1>2, PunctuationGives, TurnThen
<1>4. Longer(<<Mark>>, Longer(<<Plus>>, one)) = <<Mark, Plus, token>>
  BY TupleFacts DEF one
<1>5. QED
  BY <1>3, <1>4 DEF Breaks, token

LEMMA FlatGives ==
    ASSUME NEW seqs \in Seq(Seq(Tokens)), NEW adds \in Seq(Seq(Tokens)), Len(adds) = Len(seqs),
           \A i \in 1..Len(seqs) : Gives("literal", seqs[i], "literal", adds[i])
    PROVE  Gives("literal", Flat(seqs), "literal", Flat(adds))
<1> DEFINE k == Len(seqs)
<1>1. k \in Nat
  OBVIOUS
<1>2. PICK p \in [0..Len(seqs) -> Seq(Tokens)] : Parts(p, seqs)
  BY FlatParts
<1>3. PICK q \in [0..Len(adds) -> Seq(Tokens)] : Parts(q, adds)
  BY FlatParts
<1>4. /\ p[0] = <<>> /\ Flat(seqs) = p[k] /\ \A n \in 1..k : p[n] = Longer(p[n - 1], seqs[n])
      /\ q[0] = <<>> /\ Flat(adds) = q[k] /\ \A n \in 1..k : q[n] = Longer(q[n - 1], adds[n])
      /\ \A n \in 1..k : Gives("literal", seqs[n], "literal", adds[n])
  BY <1>2, <1>3 DEF Parts
<1> HIDE DEF k
<1> DEFINE T == {n \in 0..k : Gives("literal", p[n], "literal", q[n])}
<1>5. 0 \in T
  <2>1. Gives("literal", p[0], "literal", q[0])
    BY <1>4, GivesNothing DEF Modes
  <2>2. QED
    BY <1>1, <2>1
<1>6. ASSUME NEW n \in 0..k, n \in T, n < k PROVE n + 1 \in T
  <2> DEFINE m == n + 1
  <2>1. m \in 1..k /\ m - 1 = n /\ m \in 0..k
    BY <1>1, <1>6
  <2>2. Gives("literal", p[n], "literal", q[n])
    BY <1>6
  <2> HIDE DEF m
  <2>3. p[m] = Longer(p[m - 1], seqs[m]) /\ q[m] = Longer(q[m - 1], adds[m])
    BY <1>4, <2>1
  <2>4. p[m] = Longer(p[n], seqs[m]) /\ q[m] = Longer(q[n], adds[m])
    BY <2>1, <2>3
  <2>5. Gives("literal", p[m], "literal", q[m])
    BY <1>4, <2>1, <2>2, <2>4, GivesThen
  <2>6. m \in T
    BY <2>1, <2>5
  <2>7. QED
    BY <2>6 DEF m
<1> HIDE DEF T
<1>7. \A n \in 0..k : n \in T
  BY <1>1, <1>5, <1>6, InductionUpTo
<1>8. k \in 0..k
  BY <1>1
<1>9. QED
  BY <1>4, <1>7, <1>8 DEF T

\* If one part breaks and those before it break or stay in the literal, the whole breaks.
LEMMA FlatBreaks ==
    ASSUME NEW seqs \in Seq(Seq(Tokens)), NEW b \in 1..Len(seqs), Breaks("literal", seqs[b]),
           \A i \in 1..(b - 1) :
               Breaks("literal", seqs[i]) \/ Stays(seqs[i])
    PROVE  Breaks("literal", Flat(seqs))
<1> DEFINE k == Len(seqs)
<1>1. k \in Nat /\ \A n \in 1..k : seqs[n] \in Seq(Tokens)
  BY ElementOfSeq
<1>2. PICK p \in [0..Len(seqs) -> Seq(Tokens)] : Parts(p, seqs)
  BY FlatParts
<1>3. /\ p[0] = <<>> /\ Flat(seqs) = p[k] /\ \A n \in 1..k : p[n] = Longer(p[n - 1], seqs[n])
      /\ b \in 1..k
  BY <1>2 DEF Parts
<1> HIDE DEF k
<1> DEFINE T == {n \in 0..k : IF n < b THEN Breaks("literal", p[n]) \/ Stays(p[n])
                                       ELSE Breaks("literal", p[n])}
<1>4. 0 \in T
  <2>1. Stays(<<>>)
    BY GivesNothing DEF Modes, Stays
  <2>2. QED
    BY <1>1, <1>3, <2>1
<1>5. ASSUME NEW n \in 0..k, n \in T, n < k PROVE n + 1 \in T
  <2> DEFINE m == n + 1
  <2>1. m \in 1..k /\ m - 1 = n /\ m \in 0..k
    BY <1>1, <1>5
  <2> HIDE DEF m
  <2>2. p[m] = Longer(p[m - 1], seqs[m])
    BY <1>3, <2>1
  <2>3. p[m] = Longer(p[n], seqs[m]) /\ seqs[m] \in Seq(Tokens)
    BY <1>1, <2>1, <2>2
  <2> DEFINE s == p[n]
             t == seqs[m]
  <2>4. ASSUME Breaks("literal", s) PROVE Breaks("literal", p[m])
    <3> HIDE DEF s, t
    <3>1. p[m] = Longer(s, t) /\ t \in Seq(Tokens)
      BY <2>3 DEF s, t
    <3>2. QED
      BY <2>4, <3>1, BreaksThen
  <2>5. ASSUME Stays(s), Breaks("literal", t) PROVE Breaks("literal", p[m])
    <3> HIDE DEF s, t
    <3>1. p[m] = Longer(s, t)
      BY <2>3 DEF s, t
    <3>2. PICK a : Gives("literal", s, "literal", a)
      BY <2>5 DEF Stays
    <3>3. QED
      BY <2>5, <3>1, <3>2, ThenBreaks
  <2>6. ASSUME Stays(s), Stays(t) PROVE Stays(p[m])
    <3> HIDE DEF s, t
    <3>1. p[m] = Longer(s, t)
      BY <2>3 DEF s, t
    <3>2. PICK a : Gives("literal", s, "literal", a)
      BY <2>6 DEF Stays
    <3>3. PICK c : Gives("literal", t, "literal", c)
      BY <2>6 DEF Stays
    <3>4. Gives("literal", p[m], "literal", Longer(a, c))
      BY <3>1, <3>2, <3>3, GivesThen
    <3>5. QED
      BY <3>4 DEF Stays
  <2>7. Breaks("literal", s) \/ (Stays(s) /\ n < b)
    BY <1>5
  <2>8. /\ m < b => Breaks("literal", t) \/ Stays(t)
        /\ m = b => Breaks("literal", t)
    BY <1>1, <1>3, <2>1
  <2>9. n < b => m < b \/ m = b
    BY <1>3, <2>1
  <2>10. IF m < b THEN Breaks("literal", p[m]) \/ Stays(p[m]) ELSE Breaks("literal", p[m])
    BY <2>4, <2>5, <2>6, <2>7, <2>8, <2>9
  <2>11. m \in T
    BY <2>1, <2>10
  <2>12. QED
    BY <2>11 DEF m
<1> HIDE DEF T
<1>6. \A n \in 0..k : n \in T
  BY <1>1, <1>4, <1>5, InductionUpTo
<1>7. k \in 0..k /\ ~ (k < b)
  BY <1>1, <1>3
<1>8. QED
  BY <1>3, <1>6, <1>7 DEF T

\* What is joined.
Joined(seqs, sep) == [i \in 1..Len(seqs) |-> IF i = 1 THEN seqs[i] ELSE Longer(sep, seqs[i])]

LEMMA JoinedFacts ==
    ASSUME NEW S, NEW seqs \in Seq(Seq(S)), NEW sep \in Seq(S)
    PROVE  /\ Joined(seqs, sep) \in Seq(Seq(S)) /\ Len(Joined(seqs, sep)) = Len(seqs)
           /\ Join(seqs, sep) = Flat(Joined(seqs, sep))
           /\ \A i \in 1..Len(seqs) :
                  Joined(seqs, sep)[i] = IF i = 1 THEN seqs[i] ELSE Longer(sep, seqs[i])
<1> DEFINE k == Len(seqs)
           j == Joined(seqs, sep)
<1>1. k \in Nat /\ DOMAIN seqs = 1..k /\ \A i \in 1..k : seqs[i] \in Seq(S)
  BY LenProperties, ElementOfSeq
<1>2. Join(seqs, sep) = Flat(j)
  BY <1>1 DEF Join, Longer, Joined
<1>3. /\ \A i \in 1..k : j[i] = IF i = 1 THEN seqs[i] ELSE Longer(sep, seqs[i])
      /\ j = [i \in 1..k |-> j[i]]
  BY DEF Joined
<1> HIDE DEF j, k
<1>4. \A i \in 1..k : j[i] \in Seq(S)
  <2>1. \A i \in 1..k : Longer(sep, seqs[i]) \in Seq(S)
    BY <1>1, LongerFacts
  <2>2. QED
    BY <1>1, <1>3, <2>1
<1>5. j \in Seq(Seq(S)) /\ Len(j) = k
  BY <1>1, <1>3, <1>4, TableIsSeq
<1>6. QED
  BY <1>2, <1>3, <1>5 DEF j, k

LEMMA JoinGives ==
    ASSUME NEW seqs \in Seq(Seq(Tokens)), NEW adds \in Seq(Seq(Tokens)), Len(adds) = Len(seqs),
           \A i \in 1..Len(seqs) : Gives("literal", seqs[i], "literal", adds[i]),
           NEW sep \in Seq(Text)
    PROVE  Gives("literal", Join(seqs, sep), "literal", Join(adds, sep))
<1> DEFINE k == Len(seqs)
           s == Joined(seqs, sep)
           a == Joined(adds, sep)
<1>1. Gives("literal", sep, "literal", sep) /\ sep \in Seq(Tokens)
  BY TextsGive DEF Gives
<1>facts. \A sequences \in Seq(Seq(Tokens)) :
          /\ Joined(sequences, sep) \in Seq(Seq(Tokens))
          /\ Len(Joined(sequences, sep)) = Len(sequences)
          /\ Join(sequences, sep) = Flat(Joined(sequences, sep))
          /\ \A i \in 1..Len(sequences) :
               Joined(sequences, sep)[i] = IF i = 1 THEN sequences[i] ELSE Longer(sep, sequences[i])
  BY <1>1, JoinedFacts
<1>2. /\ s \in Seq(Seq(Tokens)) /\ Len(s) = k /\ Join(seqs, sep) = Flat(s)
      /\ \A i \in 1..k : s[i] = IF i = 1 THEN seqs[i] ELSE Longer(sep, seqs[i])
  BY <1>facts
<1>3. /\ a \in Seq(Seq(Tokens)) /\ Len(a) = k /\ Join(adds, sep) = Flat(a)
      /\ \A i \in 1..k : a[i] = IF i = 1 THEN adds[i] ELSE Longer(sep, adds[i])
  BY <1>facts
<1>4. \A i \in 1..k : Gives("literal", seqs[i], "literal", adds[i])
  OBVIOUS
<1> HIDE DEF s, a, k
<1>5. \A i \in 1..k : Gives("literal", Longer(sep, seqs[i]), "literal", Longer(sep, adds[i]))
  BY <1>1, <1>4, GivesThen
<1>6. \A i \in 1..k : Gives("literal", s[i], "literal", a[i])
  BY <1>2, <1>3, <1>4, <1>5
<1>7. Gives("literal", Flat(s), "literal", Flat(a))
  BY <1>2, <1>3, <1>6, FlatGives
<1>8. QED
  BY <1>2, <1>3, <1>7

LEMMA JoinBreaks ==
    ASSUME NEW seqs \in Seq(Seq(Tokens)), NEW b \in 1..Len(seqs), Breaks("literal", seqs[b]),
           \A i \in 1..Len(seqs) :
               Breaks("literal", seqs[i]) \/ Stays(seqs[i]),
           NEW sep \in Seq(Text)
    PROVE  Breaks("literal", Join(seqs, sep))
<1> DEFINE k == Len(seqs)
           s == Joined(seqs, sep)
<1>1. Gives("literal", sep, "literal", sep) /\ sep \in Seq(Tokens)
  BY TextsGive DEF Gives
<1>2. /\ s \in Seq(Seq(Tokens)) /\ Len(s) = k /\ Join(seqs, sep) = Flat(s)
      /\ \A i \in 1..k : s[i] = IF i = 1 THEN seqs[i] ELSE Longer(sep, seqs[i])
  BY <1>1, JoinedFacts
<1>3. /\ Breaks("literal", seqs[b]) /\ b \in 1..k /\ k \in Nat
      /\ \A i \in 1..k : Breaks("literal", seqs[i]) \/ Stays(seqs[i])
  OBVIOUS
<1> HIDE DEF s, k
<1>4. ASSUME NEW i \in 1..k, Breaks("literal", seqs[i]) PROVE Breaks("literal", s[i])
  <2>1. Breaks("literal", Longer(sep, seqs[i]))
    BY <1>1, <1>4, ThenBreaks
  <2>2. QED
    BY <1>2, <1>4, <2>1
<1>5. ASSUME NEW i \in 1..k, Stays(seqs[i]) PROVE Stays(s[i])
  <2>1. PICK a : Gives("literal", seqs[i], "literal", a)
    BY <1>5 DEF Stays
  <2>2. Gives("literal", Longer(sep, seqs[i]), "literal", Longer(sep, a))
    BY <1>1, <2>1, GivesThen
  <2>3. QED
    BY <1>2, <2>1, <2>2 DEF Stays
<1>6. \A i \in 1..(b - 1) : i \in 1..k
  BY <1>3
<1>7. Breaks("literal", s[b]) /\ b \in 1..Len(s)
  BY <1>2, <1>3, <1>4
<1>8. \A i \in 1..(b - 1) : Breaks("literal", s[i]) \/ Stays(s[i])
  BY <1>3, <1>4, <1>5, <1>6
<1>9. Breaks("literal", Flat(s))
  BY <1>2, <1>7, <1>8, FlatBreaks
<1>10. QED
  BY <1>2, <1>9

-----------------------------------------------------------------------------
(* Types and values.                                                       *)

Pair == [key : Names, value : FieldType]
Cpp(field) == field.type \in DOMAIN CppTypes

LEMMA FieldFacts ==
    ASSUME NEW field \in FieldType
    PROVE  /\ field.is_primary \in BOOLEAN /\ field.is_nullable \in BOOLEAN
           /\ field.is_primary => ~ field.is_nullable
           /\ Cpp(field) <=> map_types(field) # "std::any"
           /\ Cpp(field) => (needs_quotes(field.type) <=> field.type \in {"text", "uuid"})
<1>1. DOMAIN CppTypes = {"text", "integer", "uuid", "boolean", "float"}
  BY DEF CppTypes
<1>2. \A type \in DOMAIN CppTypes : CppTypes[type] # "std::any"
  BY DEF CppTypes
<1>3. /\ field.is_primary \in BOOLEAN /\ field.is_nullable \in BOOLEAN
      /\ field.is_primary => ~ field.is_nullable
  BY DEF FieldType
<1>4. Cpp(field) <=> map_types(field) # "std::any"
  BY <1>2 DEF Cpp, map_types
<1>5. Cpp(field) => (needs_quotes(field.type) <=> field.type \in {"text", "uuid"})
  BY <1>1 DEF Cpp, needs_quotes
<1>6. QED
  BY <1>3, <1>4, <1>5

TermKind(field) ==
    IF ~ Cpp(field) THEN "any"
    ELSE IF field.is_nullable
      THEN IF needs_quotes(field.type) THEN "optional quoted" ELSE "optional"
      ELSE IF needs_quotes(field.type) THEN "quoted" ELSE "value"

LEMMA TermFacts ==
    ASSUME NEW pair \in Pair
    PROVE  /\ pair.key \in Names /\ pair.value \in FieldType
           /\ Term(pair.value, pair.key) = <<TermKind(pair.value), pair.key>>
           /\ TermKind(pair.value) \in TermKinds
           /\ Cpp(pair.value) =>
                  /\ TermKind(pair.value) \in TermKinds \ {"any"}
                  /\ InSql(pair) = SqlOf(<<TermKind(pair.value), pair.key>>)
           /\ ~ Cpp(pair.value) => TermKind(pair.value) = "any"
           /\ Cpp(pair.value) /\ pair.value.is_primary /\ needs_quotes(pair.value.type) =>
                  InSql(pair) = <<Quote, <<"value", pair.key>>, Quote>>
<1> DEFINE field == pair.value
<1>1. pair.key \in Names /\ field \in FieldType
  BY DEF Pair
<1> HIDE DEF field
<1>2. Term(field, pair.key) = <<TermKind(field), pair.key>>
  BY <1>1, FieldFacts DEF Term, TermKind
<1>3. TermKind(field) \in TermKinds /\ (Cpp(field) => TermKind(field) # "any") /\ (~ Cpp(field) => TermKind(field) = "any")
  BY DEF TermKind, TermKinds
<1>4. ASSUME Cpp(field) PROVE InSql(pair) = SqlOf(<<TermKind(field), pair.key>>)
  <2>1. needs_quotes(field.type) <=> field.type \in {"text", "uuid"}
    BY <1>1, <1>4, FieldFacts
  <2>2. TermKind(field) = IF field.is_nullable
                          THEN IF field.type \in {"text", "uuid"} THEN "optional quoted" ELSE "optional"
                          ELSE IF field.type \in {"text", "uuid"} THEN "quoted" ELSE "value"
    BY <1>4, <2>1 DEF TermKind
  <2>3. QED
    BY <2>2 DEF InSql, field
<1>5. ASSUME Cpp(field), field.is_primary, needs_quotes(field.type)
      PROVE  InSql(pair) = <<Quote, <<"value", pair.key>>, Quote>>
  <2>1. TermKind(field) = "quoted"
    BY <1>1, <1>5, FieldFacts DEF TermKind
  <2>2. SqlOf(<<"quoted", pair.key>>) = <<Quote, <<"value", pair.key>>, Quote>>
    BY DEF SqlOf
  <2>3. QED
    BY <1>4, <1>5, <2>1, <2>2
<1>6. QED
  BY <1>1, <1>2, <1>3, <1>4, <1>5 DEF field

-----------------------------------------------------------------------------
(* The functions of a table.                                               *)

LEMMA FilterFacts ==
    ASSUME NEW S, NEW map \in Seq(S), NEW values
    PROVE  /\ filter(map, values) \in Seq(S)
           /\ \A i \in 1..Len(filter(map, values)) :
                  /\ filter(map, values)[i].value \in values
                  /\ \E j \in 1..Len(map) : map[j] = filter(map, values)[i]
<1> DEFINE T == {x \in S : x.value \in values /\ \E j \in 1..Len(map) : map[j] = x}
           seqs == [i \in 1..Len(map) |-> IF map[i].value \in values THEN <<map[i]>> ELSE <<>>]
<1>1. Len(map) \in Nat /\ DOMAIN map = 1..Len(map) /\ \A i \in 1..Len(map) : map[i] \in S
  BY LenProperties, ElementOfSeq
<1>2. filter(map, values) = Flat(seqs)
  BY <1>1 DEF filter
<1>3. \A i \in 1..Len(map) : seqs[i] \in Seq(T)
  <2>1. \A x \in T : <<x>> \in Seq(T)
    OBVIOUS
  <2>2. <<>> \in Seq(T)
    OBVIOUS
  <2>3. \A i \in 1..Len(map) : map[i].value \in values => map[i] \in T
    BY <1>1
  <2> HIDE DEF T
  <2>4. QED
    BY <2>1, <2>2, <2>3
<1>4. seqs = [i \in 1..Len(map) |-> seqs[i]]
  OBVIOUS
<1>5. T \subseteq S
  OBVIOUS
<1>6. \A x \in T : x.value \in values /\ \E j \in 1..Len(map) : map[j] = x
  OBVIOUS
<1> HIDE DEF T, seqs
<1>7. seqs \in Seq(Seq(T))
  BY <1>1, <1>3, <1>4, TableIsSeq
<1>8. Flat(seqs) \in Seq(T)
  BY <1>7, FlatInSeq
<1> DEFINE out == Flat(seqs)
<1>9. out \in Seq(T) /\ filter(map, values) = out
  BY <1>2, <1>8
<1> HIDE DEF out
<1>10. out \in Seq(S)
  BY <1>5, <1>9, SeqMonotonic
<1>11. \A i \in 1..Len(out) : out[i] \in T
  BY <1>9, ElementOfSeq
<1>12. QED
  BY <1>6, <1>9, <1>10, <1>11

LEMMA LayoutFacts ==
    ASSUME NEW layout \in LayoutType
    PROVE  /\ layout \in Seq(Pair) /\ PrimaryKeys(layout) \in Seq(Pair) /\ Others(layout) \in Seq(Pair)
           /\ \A i \in 1..Len(PrimaryKeys(layout)) :
                  /\ PrimaryKeys(layout)[i].value.is_primary
                  /\ \E j \in 1..Len(layout) : layout[j] = PrimaryKeys(layout)[i]
           /\ \A i \in 1..Len(Others(layout)) :
                  /\ ~ Others(layout)[i].value.is_primary
                  /\ \E j \in 1..Len(layout) : layout[j] = Others(layout)[i]
           /\ PrimaryKeys(layout) # <<>> => Others(layout) # layout
<1>1. layout \in Seq(Pair)
  BY DEF LayoutType, Pair
<1> DEFINE P == PrimaryKeys(layout)
           O == Others(layout)
<1>2. /\ P \in Seq(Pair)
      /\ \A i \in 1..Len(P) : P[i].value \in Fields(layout, TRUE) /\ \E j \in 1..Len(layout) : layout[j] = P[i]
  <2> DEFINE values == Fields(layout, TRUE)
  <2>1. P = filter(layout, values)
    BY DEF PrimaryKeys
  <2> HIDE DEF values, P
  <2>2. /\ P \in Seq(Pair)
        /\ \A i \in 1..Len(P) : P[i].value \in values /\ \E j \in 1..Len(layout) : layout[j] = P[i]
    BY <1>1, <2>1, FilterFacts
  <2>3. QED
    BY <2>2 DEF values
<1>3. /\ O \in Seq(Pair)
      /\ \A i \in 1..Len(O) : O[i].value \in Fields(layout, FALSE) /\ \E j \in 1..Len(layout) : layout[j] = O[i]
  <2> DEFINE values == Fields(layout, FALSE)
  <2>1. O = filter(layout, values)
    BY DEF Others
  <2> HIDE DEF values, O
  <2>2. /\ O \in Seq(Pair)
        /\ \A i \in 1..Len(O) : O[i].value \in values /\ \E j \in 1..Len(layout) : layout[j] = O[i]
    BY <1>1, <2>1, FilterFacts
  <2>3. QED
    BY <2>2 DEF values
<1>4. \A field : /\ field \in Fields(layout, TRUE) => field.is_primary = TRUE
                 /\ field \in Fields(layout, FALSE) => field.is_primary = FALSE
  BY DEF Fields
<1> HIDE DEF P, O
<1>5. ASSUME P # <<>>, O = layout PROVE FALSE
  <2>1. Len(P) \in Nat /\ Len(P) # 0
    BY <1>2, <1>5, EmptySeq
  <2>2. 1 \in 1..Len(P)
    BY <2>1
  <2>3. PICK j \in 1..Len(layout) : layout[j] = P[1]
    BY <1>2, <2>2
  <2>4. P[1].value.is_primary = TRUE /\ O[j].value.is_primary = FALSE
    BY <1>2, <1>3, <1>4, <1>5, <2>2
  <2>5. QED
    BY <1>5, <2>3, <2>4
<1>6. QED
  BY <1>1, <1>2, <1>3, <1>4, <1>5 DEF P, O

Opened(pair) == <<Mark, Plus, Term(pair.value, pair.key)>>

LEMMA PrepFacts ==
    ASSUME NEW pair \in Pair, NEW last \in BOOLEAN
    PROVE  prep_value(pair.value, pair.key, last)
             = Longer(Opened(pair), IF last /\ ~ needs_quotes(pair.value.type) THEN <<>> ELSE <<Plus, Mark>>)
BY DEF prep_value, Longer, Opened

LEMMA OpenedFacts ==
    ASSUME NEW pair \in Pair
    PROVE  /\ Opened(pair) \in Seq(Tokens) /\ <<Plus, Mark>> \in Seq(Tokens)
           /\ Longer(Opened(pair), <<Plus, Mark>>) \in Seq(Tokens)
           /\ Cpp(pair.value) =>
                  /\ Gives("literal", Opened(pair), "after term", InSql(pair))
                  /\ Gives("literal", Longer(Opened(pair), <<Plus, Mark>>), "literal", InSql(pair))
                  /\ InSql(pair) \in Seq(Text)
           /\ ~ Cpp(pair.value) =>
                  /\ Breaks("literal", Opened(pair))
                  /\ Breaks("literal", Longer(Opened(pair), <<Plus, Mark>>))
<1>1. pair.key \in Names /\ Term(pair.value, pair.key) = <<TermKind(pair.value), pair.key>>
  BY TermFacts
<1> DEFINE kind == TermKind(pair.value)
<1>2. Mark \in Tokens /\ Plus \in Tokens /\ <<kind, pair.key>> \in Tokens
  <2>1. kind \in Kinds
    BY TermFacts DEF TermKinds, Kinds
  <2>2. QED
    BY <1>1, <2>1, TokenFacts DEF Mark, Plus, Words, Text
<1>3. Opened(pair) = <<Mark, Plus, <<kind, pair.key>>>>
  BY <1>1 DEF Opened
<1>4. <<Mark, Plus, <<kind, pair.key>>>> \in Seq(Tokens) /\ <<Plus, Mark>> \in Seq(Tokens)
  <2>1. \A a, b, c : a \in Tokens /\ b \in Tokens /\ c \in Tokens => <<a, b, c>> \in Seq(Tokens) /\ <<a, b>> \in Seq(Tokens)
    OBVIOUS
  <2>2. QED
    BY <1>2, <2>1
<1>5. Longer(Opened(pair), <<Plus, Mark>>) \in Seq(Tokens)
  BY <1>3, <1>4, LongerFacts
<1>6. ASSUME Cpp(pair.value)
      PROVE  /\ Gives("literal", Opened(pair), "after term", InSql(pair))
             /\ Gives("literal", Longer(Opened(pair), <<Plus, Mark>>), "literal", InSql(pair))
             /\ InSql(pair) \in Seq(Text)
  <2>1. kind \in TermKinds \ {"any"} /\ InSql(pair) = SqlOf(<<kind, pair.key>>)
    BY <1>6, TermFacts
  <2> HIDE DEF kind
  <2>2. QED
    BY <1>1, <1>3, <2>1, TermOpened, SqlOfFacts
<1>7. ASSUME ~ Cpp(pair.value)
      PROVE  /\ Breaks("literal", Opened(pair))
             /\ Breaks("literal", Longer(Opened(pair), <<Plus, Mark>>))
  <2>1. kind = "any"
    BY <1>7, TermFacts
  <2>2. Breaks("literal", Opened(pair))
    BY <1>1, <1>3, <2>1, AnyBreaks
  <2>3. QED
    BY <1>4, <2>2, BreaksThen
<1>8. QED
  BY <1>3, <1>4, <1>5, <1>6, <1>7

\* What comes between and after the columns and the values of an insert.
Comma == <<<<",">>>>
And == <<<<"AND">>>>
InsertHead(table) == <<Mark, <<"INSERT INTO", table>>, <<"(">>>>
InsertMiddle == <<<<")">>, <<"VALUES">>, <<"(">>>>
InsertEnd == <<<<")">>, Mark, Semi>>
KeyTexts(layout) == [i \in 1..Len(layout) |-> <<<<layout[i].key>>>>]
Values(layout) == [i \in 1..Len(layout) |-> Longer(Opened(layout[i]), <<Plus, Mark>>)]

LEMMA SeparatorFacts ==
    /\ Comma \in Seq(Text) /\ And \in Seq(Text) /\ InsertMiddle \in Seq(Text)
    /\ InsertEnd \in Seq(Tokens) /\ <<Plus, Mark>> \in Seq(Tokens) /\ <<>> \in Seq(Text)
    /\ \A s \in Seq(Text) : s \in Seq(Tokens)
<1>1. /\ <<",">> \in Text /\ <<"AND">> \in Text /\ <<")">> \in Text /\ <<"VALUES">> \in Text /\ <<"(">> \in Text
      /\ Mark \in Tokens /\ Semi \in Tokens /\ Plus \in Tokens /\ Text \subseteq Tokens
  BY TokenFacts DEF Words, Mark, Semi, Plus
<1>2. \A S : /\ \A a \in S : <<a>> \in Seq(S)
             /\ \A a, b \in S : <<a, b>> \in Seq(S)
             /\ \A a, b, c \in S : <<a, b, c>> \in Seq(S)
             /\ <<>> \in Seq(S)
  OBVIOUS
<1>3. Comma \in Seq(Text) /\ And \in Seq(Text) /\ InsertMiddle \in Seq(Text)
  BY <1>1, <1>2 DEF Comma, And, InsertMiddle
<1>4. InsertEnd \in Seq(Tokens) /\ <<Plus, Mark>> \in Seq(Tokens) /\ <<>> \in Seq(Text)
  <2>1. <<")">> \in Tokens
    BY <1>1
  <2>2. QED
    BY <1>1, <1>2, <2>1 DEF InsertEnd
<1>5. \A s \in Seq(Text) : s \in Seq(Tokens)
  BY <1>1, SeqMonotonic
<1>6. QED
  BY <1>3, <1>4, <1>5

LEMMA ElementFacts ==
    ASSUME NEW layout \in Seq(Pair)
    PROVE  /\ Len(layout) \in Nat /\ DOMAIN layout = 1..Len(layout)
           /\ \A i \in 1..Len(layout) : layout[i] \in Pair
BY LenProperties, ElementOfSeq

LEMMA KeyTextFacts ==
    ASSUME NEW layout \in Seq(Pair)
    PROVE  KeyTexts(layout) \in Seq(Seq(Text)) /\ Len(KeyTexts(layout)) = Len(layout)
<1> DEFINE f == KeyTexts(layout)
<1>1. f = [i \in 1..Len(layout) |-> f[i]] /\ \A i \in 1..Len(layout) : f[i] = <<<<layout[i].key>>>>
  BY DEF KeyTexts
<1>2. \A name \in Names : <<<<name>>>> \in Seq(Text)
  <2>1. \A name \in Names : <<name>> \in Text
    BY TokenFacts
  <2>2. \A a \in Text : <<a>> \in Seq(Text)
    OBVIOUS
  <2>3. QED
    BY <2>1, <2>2
<1>3. Len(layout) \in Nat /\ \A i \in 1..Len(layout) : layout[i].key \in Names
  BY ElementFacts, TermFacts
<1> HIDE DEF f
<1>4. \A i \in 1..Len(layout) : f[i] \in Seq(Text)
  BY <1>1, <1>2, <1>3
<1>5. f \in Seq(Seq(Text)) /\ Len(f) = Len(layout)
  BY <1>1, <1>3, <1>4, TableIsSeq
<1>6. QED
  BY <1>5 DEF f

LEMMA ValueFacts ==
    ASSUME NEW layout \in Seq(Pair)
    PROVE  /\ Values(layout) \in Seq(Seq(Tokens)) /\ Len(Values(layout)) = Len(layout)
           /\ \A i \in 1..Len(layout) : Values(layout)[i] = Longer(Opened(layout[i]), <<Plus, Mark>>)
<1> DEFINE f == Values(layout)
<1>1. f = [i \in 1..Len(layout) |-> f[i]] /\ \A i \in 1..Len(layout) : f[i] = Longer(Opened(layout[i]), <<Plus, Mark>>)
  BY DEF Values
<1>2. Len(layout) \in Nat /\ \A i \in 1..Len(layout) : Longer(Opened(layout[i]), <<Plus, Mark>>) \in Seq(Tokens)
  BY ElementFacts, OpenedFacts
<1> HIDE DEF f
<1>3. \A i \in 1..Len(layout) : f[i] \in Seq(Tokens)
  BY <1>1, <1>2
<1>4. f \in Seq(Seq(Tokens)) /\ Len(f) = Len(layout)
  BY <1>1, <1>2, <1>3, TableIsSeq
<1>5. QED
  BY <1>1, <1>4 DEF f

\* The values of a layout whose types all have a counterpart in C++, and otherwise.
LEMMA ValuesGive ==
    ASSUME NEW layout \in Seq(Pair), \A i \in 1..Len(layout) : Cpp(layout[i].value)
    PROVE  /\ Each(layout, InSql) \in Seq(Seq(Text))
           /\ Gives("literal", Join(Values(layout), Comma), "literal", Join(Each(layout, InSql), Comma))
<1> DEFINE f == Each(layout, InSql)
           v == Values(layout)
<1>1. /\ Len(layout) \in Nat /\ DOMAIN layout = 1..Len(layout)
      /\ \A i \in 1..Len(layout) : layout[i] \in Pair /\ Cpp(layout[i].value)
  BY ElementFacts
<1>2. f = [i \in 1..Len(layout) |-> f[i]] /\ \A i \in 1..Len(layout) : f[i] = InSql(layout[i])
  BY <1>1 DEF Each
<1>3. /\ v \in Seq(Seq(Tokens)) /\ Len(v) = Len(layout)
      /\ \A i \in 1..Len(layout) : v[i] = Longer(Opened(layout[i]), <<Plus, Mark>>)
  BY ValueFacts
<1> HIDE DEF f, v
<1>4. \A i \in 1..Len(layout) : f[i] \in Seq(Text) /\ Gives("literal", v[i], "literal", f[i])
  BY <1>1, <1>2, <1>3, OpenedFacts
<1>5. f \in Seq(Seq(Text)) /\ Len(f) = Len(layout)
  BY <1>1, <1>2, <1>4, TableIsSeq
<1>6. f \in Seq(Seq(Tokens))
  <2>1. \A i \in 1..Len(layout) : f[i] \in Seq(Tokens)
    BY <1>4, SeparatorFacts
  <2>2. QED
    BY <1>1, <1>2, <2>1, TableIsSeq
<1>7. Gives("literal", Join(v, Comma), "literal", Join(f, Comma))
  BY <1>3, <1>4, <1>5, <1>6, SeparatorFacts, JoinGives
<1>8. QED
  BY <1>5, <1>7 DEF f, v

LEMMA ValuesBreak ==
    ASSUME NEW layout \in Seq(Pair), NEW b \in 1..Len(layout), ~ Cpp(layout[b].value)
    PROVE  Breaks("literal", Join(Values(layout), Comma))
<1> DEFINE v == Values(layout)
<1>1. \A i \in 1..Len(layout) : layout[i] \in Pair
  BY ElementFacts
<1>2. /\ v \in Seq(Seq(Tokens)) /\ Len(v) = Len(layout)
      /\ \A i \in 1..Len(layout) : v[i] = Longer(Opened(layout[i]), <<Plus, Mark>>)
  BY ValueFacts
<1> HIDE DEF v
<1>3. \A i \in 1..Len(layout) :
        IF Cpp(layout[i].value) THEN Stays(v[i]) ELSE Breaks("literal", v[i])
  BY <1>1, <1>2, OpenedFacts DEF Stays
<1>4. Breaks("literal", v[b]) /\ b \in 1..Len(v)
  BY <1>2, <1>3
<1>5. \A i \in 1..Len(v) : Breaks("literal", v[i]) \/ Stays(v[i])
  BY <1>2, <1>3
<1>6. Breaks("literal", Join(v, Comma))
  BY <1>2, <1>4, <1>5, SeparatorFacts, JoinBreaks
<1>7. QED
  BY <1>6 DEF v

LEMMA InsertText ==
    ASSUME NEW layout \in LayoutType, layout # <<>>, NEW table
    PROVE  emit_insert(table, layout).query
             = Longer(Longer(InsertHead(table), Longer(Join(KeyTexts(layout), Comma), InsertMiddle)),
                      Longer(Join(Values(layout), Comma), InsertEnd))
<1> DEFINE n == Len(layout)
           ks == KeyTexts(layout)
           vs == Values(layout)
           kp == [i \in 1..n |-> <<<<layout[i].key>>>> \o IF i = n THEN InsertMiddle ELSE Comma]
           vp == [i \in 1..n |->
                   prep_value(layout[i].value, layout[i].key, i = n)
                   \o IF i # n THEN Comma
                      ELSE (IF needs_quotes(layout[i].value.type) THEN <<>> ELSE <<Plus, Mark>>) \o InsertEnd]
<1>1. /\ layout \in Seq(Pair) /\ n \in Nat /\ n # 0 /\ DOMAIN layout = 1..n
      /\ \A i \in 1..n : layout[i] \in Pair
  BY LayoutFacts, ElementFacts, EmptySeq
<1>2. emit_insert(table, layout).query = (InsertHead(table) \o Flat(kp)) \o Flat(vp)
  BY <1>1 DEF emit_insert, for_each, InsertHead, InsertMiddle, InsertEnd, Comma
<1>3. /\ kp = [i \in 1..n |-> kp[i]] /\ vp = [i \in 1..n |-> vp[i]]
      /\ \A i \in 1..n : kp[i] = Longer(<<<<layout[i].key>>>>, IF i = n THEN InsertMiddle ELSE Comma)
      /\ \A i \in 1..n : vp[i] =
           Longer(prep_value(layout[i].value, layout[i].key, i = n),
                  IF i # n THEN Comma
                  ELSE Longer(IF needs_quotes(layout[i].value.type) THEN <<>> ELSE <<Plus, Mark>>, InsertEnd))
  BY DEF Longer
<1>4. /\ ks \in Seq(Seq(Tokens)) /\ Len(ks) = n /\ \A i \in 1..n : ks[i] = <<<<layout[i].key>>>>
  <2>1. ks \in Seq(Seq(Text)) /\ Len(ks) = n
    BY <1>1, KeyTextFacts
  <2>2. Seq(Text) \subseteq Seq(Tokens)
    BY SeparatorFacts
  <2>3. ks \in Seq(Seq(Tokens))
    <3> HIDE DEF ks
    <3>1. QED
      BY <2>1, <2>2, SeqMonotonic
  <2>4. \A i \in 1..n : ks[i] = <<<<layout[i].key>>>>
    BY DEF KeyTexts
  <2>5. QED
    BY <2>1, <2>3, <2>4
<1>5. /\ vs \in Seq(Seq(Tokens)) /\ Len(vs) = n
      /\ \A i \in 1..n : vs[i] = Longer(Opened(layout[i]), <<Plus, Mark>>)
  BY <1>1, ValueFacts
<1> HIDE DEF n, ks, vs, kp, vp
<1>6. \A i \in 1..n : kp[i] = Longer(ks[i], IF i = Len(ks) THEN InsertMiddle ELSE Comma)
  BY <1>3, <1>4
<1>7. ASSUME NEW i \in 1..n
      PROVE  vp[i] = Longer(vs[i], IF i = Len(vs) THEN InsertEnd ELSE Comma)
  <2> DEFINE pair == layout[i]
             o == Opened(pair)
             pm == <<Plus, Mark>>
             none == <<>>
             quotes == needs_quotes(pair.value.type)
  <2>1. prep_value(pair.value, pair.key, i = n) = Longer(o, IF i = n /\ ~ quotes THEN none ELSE pm)
    BY <1>1, PrepFacts
  <2>2. vp[i] = Longer(Longer(o, IF i = n /\ ~ quotes THEN none ELSE pm),
                       IF i # n THEN Comma ELSE Longer(IF quotes THEN none ELSE pm, InsertEnd))
    BY <1>3, <2>1
  <2>3. vs[i] = Longer(o, pm)
    BY <1>5
  <2>4. o \in Seq(Tokens) /\ pm \in Seq(Tokens) /\ InsertEnd \in Seq(Tokens) /\ none = <<>>
    BY <1>1, OpenedFacts, SeparatorFacts
  <2> HIDE DEF pair, o, pm, none, quotes
  <2>5. Longer(none, InsertEnd) = InsertEnd /\ Longer(o, none) = o
    BY <2>4, LongerFacts
  <2>6. Longer(o, Longer(pm, InsertEnd)) = Longer(Longer(o, pm), InsertEnd)
    BY <2>4, LongerFacts
  <2>7. vp[i] = Longer(Longer(o, pm), IF i = n THEN InsertEnd ELSE Comma)
    BY <2>2, <2>5, <2>6
  <2>8. QED
    BY <1>5, <2>3, <2>7
<1>8. ks # <<>> /\ vs # <<>> /\ DOMAIN ks = 1..n /\ DOMAIN vs = 1..n
  BY <1>1, <1>4, <1>5, EmptySeq, LenProperties
<1>9. Comma \in Seq(Tokens) /\ InsertMiddle \in Seq(Tokens) /\ InsertEnd \in Seq(Tokens)
  BY SeparatorFacts
<1>10. Flat(kp) = Longer(Join(ks, Comma), InsertMiddle)
  <2>1. \A i \in 1..n : kp[i] \in Seq(Tokens)
    <3>1. \A i \in 1..n : ks[i] \in Seq(Tokens)
      BY <1>4, <1>5, ElementOfSeq
    <3>2. \A i \in 1..n : Longer(ks[i], Comma) \in Seq(Tokens) /\ Longer(ks[i], InsertMiddle) \in Seq(Tokens)
      BY <1>9, <3>1, LongerFacts
    <3>3. QED
      BY <1>6, <1>7, <3>2
  <2>2. /\ kp \in Seq(Seq(Tokens)) /\ Len(kp) = Len(ks)
        /\ \A i \in 1..Len(ks) : kp[i] = Longer(ks[i], IF i = Len(ks) THEN InsertMiddle ELSE Comma)
    <3>1. kp \in Seq(Seq(Tokens)) /\ Len(kp) = n
      BY <1>1, <1>3, <2>1, TableIsSeq
    <3>2. QED
      BY <1>4, <1>5, <1>6, <1>7, <3>1
  <2>3. ks \in Seq(Seq(Tokens)) /\ ks # <<>>
    BY <1>4, <1>5, <1>8
  <2>4. Comma \in Seq(Tokens) /\ InsertMiddle \in Seq(Tokens)
    BY <1>9
  <2>5. QED
    BY <2>2, <2>3, <2>4, Separated
<1>11. Flat(vp) = Longer(Join(vs, Comma), InsertEnd)
  <2>1. \A i \in 1..n : vp[i] \in Seq(Tokens)
    <3>1. \A i \in 1..n : vs[i] \in Seq(Tokens)
      BY <1>4, <1>5, ElementOfSeq
    <3>2. \A i \in 1..n : Longer(vs[i], Comma) \in Seq(Tokens) /\ Longer(vs[i], InsertEnd) \in Seq(Tokens)
      BY <1>9, <3>1, LongerFacts
    <3>3. QED
      BY <1>6, <1>7, <3>2
  <2>2. /\ vp \in Seq(Seq(Tokens)) /\ Len(vp) = Len(vs)
        /\ \A i \in 1..Len(vs) : vp[i] = Longer(vs[i], IF i = Len(vs) THEN InsertEnd ELSE Comma)
    <3>1. vp \in Seq(Seq(Tokens)) /\ Len(vp) = n
      BY <1>1, <1>3, <2>1, TableIsSeq
    <3>2. QED
      BY <1>4, <1>5, <1>6, <1>7, <3>1
  <2>3. vs \in Seq(Seq(Tokens)) /\ vs # <<>>
    BY <1>4, <1>5, <1>8
  <2>4. Comma \in Seq(Tokens) /\ InsertEnd \in Seq(Tokens)
    BY <1>9
  <2>5. QED
    BY <2>2, <2>3, <2>4, Separated
<1>12. QED
  BY <1>2, <1>10, <1>11 DEF Longer, ks, vs

\* How a literal begins and ends.
LEMMA HeadGives ==
    ASSUME NEW s \in Seq(Text)
    PROVE  Gives("operand", Longer(<<Mark>>, s), "literal", s)
<1>1. Gives("literal", s, "literal", s)
  BY TextsGive
<1>2. QED
  BY <1>1, PunctuationGives, TurnThen

LEMMA HeadOfTwo ==
    ASSUME NEW a \in Text, NEW b \in Text
    PROVE  Gives("operand", <<Mark, a, b>>, "literal", <<a, b>>) /\ <<a, b>> \in Seq(Text)
<1> DEFINE s == <<a, b>>
<1>1. s \in Seq(Text)
  OBVIOUS
<1>2. <<Mark, a, b>> = Longer(<<Mark>>, s)
  BY TupleFacts
<1> HIDE DEF s
<1>3. Gives("operand", Longer(<<Mark>>, s), "literal", s)
  BY <1>1, HeadGives
<1>4. QED
  BY <1>1, <1>2, <1>3 DEF s

LEMMA EndGives ==
    Gives("literal", <<Mark, Semi>>, "complete", <<>>)
<1>1. <<Mark, Semi>> = Longer(<<Mark>>, <<Semi>>)
  BY TupleFacts
<1>2. QED
  BY <1>1, PunctuationGives, TurnThen

InsertSql(table, layout) ==
    <<<<"INSERT INTO", table>>, <<"(">>>>
    \o Join([i \in DOMAIN layout |-> <<<<layout[i].key>>>>], <<<<",">>>>)
    \o <<<<")">>, <<"VALUES">>, <<"(">>>>
    \o Join(Each(layout, InSql), <<<<",">>>>) \o <<<<")">>>>

\* The literal opens with INSERT INTO and the table.
LEMMA InsertOpens ==
    ASSUME NEW table \in Names
    PROVE  /\ <<<<"INSERT INTO", table>>, <<"(">>>> \in Seq(Text)
           /\ Gives("operand", InsertHead(table), "literal", <<<<"INSERT INTO", table>>, <<"(">>>>)
<1>1. <<"INSERT INTO", table>> \in Text /\ <<"(">> \in Text
  BY TokenFacts DEF Kinds, Words
<1>2. QED
  BY <1>1, HeadOfTwo DEF InsertHead

LEMMA KeysGive ==
    ASSUME NEW layout \in Seq(Pair)
    PROVE  /\ Join(KeyTexts(layout), Comma) \in Seq(Text)
           /\ Gives("literal", Longer(Join(KeyTexts(layout), Comma), InsertMiddle), "literal",
                    Longer(Join(KeyTexts(layout), Comma), InsertMiddle))
<1> DEFINE keys == Join(KeyTexts(layout), Comma)
           ks == KeyTexts(layout)
<1>1. keys \in Seq(Text)
  <2>1. ks \in Seq(Seq(Text)) /\ keys = Join(ks, Comma)
    BY KeyTextFacts
  <2> HIDE DEF ks, keys
  <2>2. Join(ks, Comma) = Flat(Joined(ks, Comma)) /\ Joined(ks, Comma) \in Seq(Seq(Text))
    BY <2>1, SeparatorFacts, JoinedFacts
  <2> DEFINE j == Joined(ks, Comma)
  <2>3. j \in Seq(Seq(Text)) /\ keys = Flat(j)
    BY <2>1, <2>2
  <2> HIDE DEF j
  <2>4. QED
    BY <2>3, FlatInSeq
<1> HIDE DEF keys
<1>2. Longer(keys, InsertMiddle) \in Seq(Text)
  BY <1>1, SeparatorFacts, LongerFacts
<1>3. QED
  BY <1>1, <1>2, TextsGive DEF keys

\* The insert of a table, if all of its types have a counterpart in C++.
LEMMA InsertGives ==
    ASSUME NEW layout \in LayoutType, layout # <<>>, NEW table \in Names,
           \A i \in 1..Len(layout) : Cpp(layout[i].value)
    PROVE  Gives("operand", emit_insert(table, layout).query, "complete", InsertSql(table, layout))
<1> DEFINE head == <<<<"INSERT INTO", table>>, <<"(">>>>
           keys == Join(KeyTexts(layout), Comma)
           values == Join(Values(layout), Comma)
           sql == Join(Each(layout, InSql), Comma)
           end == <<<<")">>>>
<1>1. layout \in Seq(Pair)
  BY LayoutFacts
<1>2. /\ head \in Seq(Text) /\ Gives("operand", InsertHead(table), "literal", head)
      /\ keys \in Seq(Text)
      /\ Gives("literal", Longer(keys, InsertMiddle), "literal", Longer(keys, InsertMiddle))
  BY <1>1, InsertOpens, KeysGive
<1>3. Gives("literal", values, "literal", sql)
  BY <1>1, ValuesGive
<1>4. Gives("literal", InsertEnd, "complete", end) /\ end \in Seq(Text)
  <2>1. InsertEnd = Longer(end, <<Mark, Semi>>)
    BY TupleFacts DEF InsertEnd
  <2>2. end \in Seq(Text)
    <3>1. <<")">> \in Text
      BY TokenFacts DEF Words
    <3>2. QED
      BY <3>1
  <2> HIDE DEF end
  <2>3. Gives("literal", end, "literal", end)
    BY <2>2, TextsGive
  <2>4. QED
    BY <2>1, <2>2, <2>3, EndGives, ThenTurn
<1>5. emit_insert(table, layout).query
        = Longer(Longer(InsertHead(table), Longer(keys, InsertMiddle)), Longer(values, InsertEnd))
  BY InsertText
<1>6. InsertSql(table, layout) = Longer(Longer(Longer(Longer(head, keys), InsertMiddle), sql), end)
  <2>1. DOMAIN layout = 1..Len(layout)
    BY <1>1, ElementFacts
  <2>2. QED
    BY <2>1 DEF InsertSql, Longer, KeyTexts, Comma, InsertMiddle
<1> HIDE DEF head, keys, values, sql, end
<1>7. Gives("operand", Longer(InsertHead(table), Longer(keys, InsertMiddle)), "literal",
            Longer(head, Longer(keys, InsertMiddle)))
  BY <1>2, GivesThen
<1>8. Gives("literal", Longer(values, InsertEnd), "complete", Longer(sql, end))
  BY <1>3, <1>4, GivesThen
<1>9. Gives("operand", emit_insert(table, layout).query, "complete",
            Longer(Longer(head, Longer(keys, InsertMiddle)), Longer(sql, end)))
  BY <1>5, <1>7, <1>8, GivesThen
<1>10. Longer(Longer(head, Longer(keys, InsertMiddle)), Longer(sql, end))
         = Longer(Longer(Longer(Longer(head, keys), InsertMiddle), sql), end)
  <2> DEFINE middle == InsertMiddle
  <2>1. /\ head \in Seq(Tokens) /\ keys \in Seq(Tokens) /\ middle \in Seq(Tokens)
        /\ sql \in Seq(Tokens) /\ end \in Seq(Tokens)
    BY <1>2, <1>3, <1>4, SeparatorFacts DEF Gives
  <2> HIDE DEF middle
  <2>2. Longer(head, Longer(keys, middle)) = Longer(Longer(head, keys), middle)
    BY <2>1, LongerFacts
  <2> DEFINE a == Longer(Longer(head, keys), middle)
  <2>3. a \in Seq(Tokens)
    BY <2>1, LongerFacts
  <2> HIDE DEF a
  <2>4. Longer(a, Longer(sql, end)) = Longer(Longer(a, sql), end)
    BY <2>1, <2>3, LongerFacts
  <2>5. QED
    BY <2>2, <2>4 DEF a, middle
<1>11. QED
  BY <1>6, <1>9, <1>10

LEMMA InsertBreaks ==
    ASSUME NEW layout \in LayoutType, NEW table \in Names,
           NEW b \in 1..Len(layout), ~ Cpp(layout[b].value)
    PROVE  Breaks("operand", emit_insert(table, layout).query)
<1> DEFINE keys == Join(KeyTexts(layout), Comma)
           values == Join(Values(layout), Comma)
           head == <<<<"INSERT INTO", table>>, <<"(">>>>
<1>1. layout \in Seq(Pair) /\ layout # <<>>
  <2>1. layout \in Seq(Pair)
    BY LayoutFacts
  <2>2. QED
    BY <2>1, EmptySeq
<1>2. /\ Gives("operand", InsertHead(table), "literal", head)
      /\ Gives("literal", Longer(keys, InsertMiddle), "literal", Longer(keys, InsertMiddle))
  BY <1>1, InsertOpens, KeysGive
<1>3. Breaks("literal", values)
  BY <1>1, ValuesBreak
<1>4. emit_insert(table, layout).query
        = Longer(Longer(InsertHead(table), Longer(keys, InsertMiddle)), Longer(values, InsertEnd))
  BY <1>1, InsertText
<1> HIDE DEF keys, values, head
<1>5. Gives("operand", Longer(InsertHead(table), Longer(keys, InsertMiddle)), "literal",
            Longer(head, Longer(keys, InsertMiddle)))
  BY <1>2, GivesThen
<1>6. Breaks("literal", Longer(values, InsertEnd))
  BY <1>3, SeparatorFacts, BreaksThen
<1>7. QED
  BY <1>4, <1>5, <1>6, ThenBreaks

LEMMA JoinOne ==
    ASSUME NEW S, NEW seqs \in Seq(Seq(S)), Len(seqs) = 1, NEW sep \in Seq(S)
    PROVE  Join(seqs, sep) = seqs[1]
<1> DEFINE j == Joined(seqs, sep)
<1>1. /\ j \in Seq(Seq(S)) /\ Len(j) = Len(seqs) /\ Join(seqs, sep) = Flat(j)
      /\ \A i \in 1..Len(seqs) : j[i] = IF i = 1 THEN seqs[i] ELSE Longer(sep, seqs[i])
  BY JoinedFacts
<1> HIDE DEF j
<1>2. j[1] = seqs[1] /\ Flat(j) = j[1]
  BY <1>1, FlatOne
<1>3. QED
  BY <1>1, <1>2

\* A column and its value, as update and select name them.
KeyIs(pair) == <<<<pair.key>>, <<"=">>>>
NamedValues(layout) == [i \in 1..Len(layout) |-> Longer(KeyIs(layout[i]), Longer(Opened(layout[i]), <<Plus, Mark>>))]

LEMMA KeyIsFacts ==
    ASSUME NEW pair \in Pair
    PROVE  /\ KeyIs(pair) \in Seq(Text) /\ KeyIs(pair) \in Seq(Tokens)
           /\ Gives("literal", KeyIs(pair), "literal", KeyIs(pair))
           /\ Named(pair) = Longer(KeyIs(pair), InSql(pair))
<1>1. KeyIs(pair) \in Seq(Text)
  <2>1. <<pair.key>> \in Text /\ <<"=">> \in Text
    BY TermFacts, TokenFacts DEF Words
  <2>2. \A a, b \in Text : <<a, b>> \in Seq(Text)
    OBVIOUS
  <2>3. QED
    BY <2>1, <2>2 DEF KeyIs
<1>2. QED
  BY <1>1, SeparatorFacts, TextsGive DEF Named, Longer, KeyIs

LEMMA NamedValueFacts ==
    ASSUME NEW layout \in Seq(Pair), \A i \in 1..Len(layout) : Cpp(layout[i].value)
    PROVE  /\ NamedValues(layout) \in Seq(Seq(Tokens)) /\ Len(NamedValues(layout)) = Len(layout)
           /\ Each(layout, Named) \in Seq(Seq(Tokens)) /\ Len(Each(layout, Named)) = Len(layout)
           /\ \A i \in 1..Len(layout) : Each(layout, Named)[i] = Named(layout[i])
           /\ Gives("literal", Join(NamedValues(layout), Comma), "literal", Join(Each(layout, Named), Comma))
<1> DEFINE n == Len(layout)
           f == Each(layout, Named)
           v == NamedValues(layout)
<1>1. /\ n \in Nat /\ DOMAIN layout = 1..n
      /\ \A i \in 1..n : layout[i] \in Pair /\ Cpp(layout[i].value)
  BY ElementFacts
<1>2. /\ f = [i \in 1..n |-> f[i]] /\ \A i \in 1..n : f[i] = Named(layout[i])
      /\ v = [i \in 1..n |-> v[i]]
      /\ \A i \in 1..n : v[i] = Longer(KeyIs(layout[i]), Longer(Opened(layout[i]), <<Plus, Mark>>))
  BY <1>1 DEF Each, NamedValues
<1> HIDE DEF f, v, n
<1>3. ASSUME NEW i \in 1..n
      PROVE  f[i] \in Seq(Tokens) /\ v[i] \in Seq(Tokens) /\ Gives("literal", v[i], "literal", f[i])
  <2> DEFINE pair == layout[i]
             open == Longer(Opened(pair), <<Plus, Mark>>)
  <2>1. pair \in Pair /\ Cpp(pair.value)
    BY <1>1
  <2> HIDE DEF pair
  <2>2. Gives("literal", open, "literal", InSql(pair))
    BY <2>1, OpenedFacts
  <2>3. /\ Gives("literal", KeyIs(pair), "literal", KeyIs(pair))
        /\ Named(pair) = Longer(KeyIs(pair), InSql(pair))
    BY <2>1, KeyIsFacts
  <2> HIDE DEF open
  <2>4. Gives("literal", Longer(KeyIs(pair), open), "literal", Named(pair))
    BY <2>2, <2>3, GivesThen
  <2>5. v[i] = Longer(KeyIs(pair), open) /\ f[i] = Named(pair)
    BY <1>2 DEF pair, open
  <2>6. QED
    BY <2>4, <2>5 DEF Gives
<1>4. f \in Seq(Seq(Tokens)) /\ Len(f) = n
  <2>1. \A i \in 1..n : f[i] \in Seq(Tokens)
    BY <1>3
  <2>2. QED
    BY <1>1, <1>2, <2>1, TableIsSeq
<1>5. v \in Seq(Seq(Tokens)) /\ Len(v) = n
  <2>1. \A i \in 1..n : v[i] \in Seq(Tokens)
    BY <1>3
  <2>2. QED
    BY <1>1, <1>2, <2>1, TableIsSeq
<1>6. Gives("literal", Join(v, Comma), "literal", Join(f, Comma))
  BY <1>3, <1>4, <1>5, SeparatorFacts, JoinGives
<1>7. QED
  BY <1>2, <1>4, <1>5, <1>6 DEF f, v, n

UpdateEnd == <<Semi, Mark, Semi>>

LEMMA UpdateText ==
    ASSUME NEW layout \in LayoutType, NEW table, Len(PrimaryKeys(layout)) = 1, Others(layout) # <<>>
    PROVE  LET key == PrimaryKeys(layout)[1]
           IN  emit_update(table, layout).query
                 = Longer(Longer(Longer(Longer(<<Mark, <<"UPDATE", table>>, <<"SET">>>>,
                                               Join(NamedValues(Others(layout)), Comma)),
                                        <<<<"WHERE">>>>),
                                 Longer(KeyIs(key), prep_value(key.value, key.key, TRUE))),
                          UpdateEnd)
<1> DEFINE O == Others(layout)
           P == PrimaryKeys(layout)
           n == Len(O)
           ov == NamedValues(O)
           op == [i \in 1..n |->
                   (<<<<O[i].key>>, <<"=">>>> \o prep_value(O[i].value, O[i].key, i = n /\ O = layout))
                   \o IF i = n THEN <<>> ELSE Comma]
           pp == [i \in 1..1 |->
                   (<<<<P[i].key>>, <<"=">>>> \o prep_value(P[i].value, P[i].key, i = 1))
                   \o IF i = 1 THEN <<>> ELSE And]
<1>1. /\ O \in Seq(Pair) /\ n \in Nat /\ n # 0 /\ DOMAIN O = 1..n /\ O # layout
      /\ P \in Seq(Pair) /\ DOMAIN P = 1..1 /\ Len(P) = 1 /\ P[1] \in Pair
      /\ \A i \in 1..n : O[i] \in Pair
  <2>1. O \in Seq(Pair) /\ P \in Seq(Pair) /\ (P # <<>> => O # layout)
    BY LayoutFacts
  <2>2. P # <<>>
    BY EmptySeq
  <2> HIDE DEF O, P
  <2>3. Len(P) = 1 /\ O # <<>>
    BY DEF O, P
  <2>4. QED
    BY <2>1, <2>2, <2>3, ElementFacts, EmptySeq
<1>2. emit_update(table, layout).query
        = (((<<Mark, <<"UPDATE", table>>, <<"SET">>>> \o Flat(op)) \o <<<<"WHERE">>>>) \o Flat(pp)) \o UpdateEnd
  BY <1>1 DEF emit_update, for_each, Comma, And, UpdateEnd
<1>3. /\ op = [i \in 1..n |-> op[i]] /\ pp = [i \in 1..1 |-> pp[i]]
      /\ \A i \in 1..n : op[i] = Longer(Longer(KeyIs(O[i]), prep_value(O[i].value, O[i].key, i = n /\ O = layout)),
                                         IF i = n THEN <<>> ELSE Comma)
      /\ pp[1] = Longer(Longer(KeyIs(P[1]), prep_value(P[1].value, P[1].key, TRUE)), <<>>)
  <2>1. op = [i \in 1..n |-> op[i]] /\ pp = [i \in 1..1 |-> pp[i]]
    OBVIOUS
  <2>2. \A i \in 1..n : op[i] = Longer(Longer(KeyIs(O[i]), prep_value(O[i].value, O[i].key, i = n /\ O = layout)),
                                       IF i = n THEN <<>> ELSE Comma)
    BY DEF Longer, KeyIs
  <2>3. pp[1] = Longer(Longer(KeyIs(P[1]), prep_value(P[1].value, P[1].key, TRUE)), <<>>)
    <3>1. 1 \in 1..1 /\ (1 = 1) = TRUE
      OBVIOUS
    <3>2. pp[1] = (<<<<P[1].key>>, <<"=">>>> \o prep_value(P[1].value, P[1].key, 1 = 1)) \o <<>>
      BY <3>1
    <3>3. QED
      BY <3>1, <3>2 DEF Longer, KeyIs
  <2>4. QED
    BY <2>1, <2>2, <2>3
<1> HIDE DEF O, P, n, op, pp
<1>4. \A i \in 1..n : ov[i] = Longer(KeyIs(O[i]), Longer(Opened(O[i]), <<Plus, Mark>>))
  BY DEF NamedValues, n
<1>5. /\ ov = [i \in 1..n |-> ov[i]]
      /\ \A i \in 1..n : ov[i] \in Seq(Tokens)
  <2>1. \A i \in 1..n : Longer(Opened(O[i]), <<Plus, Mark>>) \in Seq(Tokens) /\ KeyIs(O[i]) \in Seq(Tokens)
    BY <1>1, OpenedFacts, KeyIsFacts
  <2>2. \A i \in 1..n : Longer(KeyIs(O[i]), Longer(Opened(O[i]), <<Plus, Mark>>)) \in Seq(Tokens)
    BY <2>1, LongerFacts
  <2>3. ov = [i \in 1..n |-> ov[i]]
    BY DEF NamedValues, n
  <2>4. QED
    BY <1>4, <2>2, <2>3
<1> HIDE DEF ov
<1>6. ov \in Seq(Seq(Tokens)) /\ Len(ov) = n
  BY <1>1, <1>5, TableIsSeq
<1>7. ov # <<>>
  BY <1>1, <1>6, EmptySeq
<1>8. \A i \in 1..n : op[i] = Longer(ov[i], IF i = n THEN <<>> ELSE Comma)
  <2>1. \A i \in 1..n : prep_value(O[i].value, O[i].key, FALSE) = Longer(Opened(O[i]), <<Plus, Mark>>)
    BY <1>1, PrepFacts
  <2>2. \A i \in 1..n : (i = n /\ O = layout) = FALSE
    BY <1>1
  <2>3. \A i \in 1..n : op[i] = Longer(Longer(KeyIs(O[i]), prep_value(O[i].value, O[i].key, FALSE)),
                                       IF i = n THEN <<>> ELSE Comma)
    BY <1>3, <2>2
  <2>4. QED
    BY <1>4, <2>1, <2>3
<1>9. Flat(op) = Join(ov, Comma)
  <2> DEFINE none == <<>>
  <2>1. none \in Seq(Tokens) /\ Comma \in Seq(Tokens)
    BY SeparatorFacts
  <2>2. \A i \in 1..n : op[i] = Longer(ov[i], IF i = n THEN none ELSE Comma)
    BY <1>8
  <2> HIDE DEF none
  <2>3. \A i \in 1..n : op[i] \in Seq(Tokens)
    <3>1. \A i \in 1..n : Longer(ov[i], none) \in Seq(Tokens) /\ Longer(ov[i], Comma) \in Seq(Tokens)
      BY <1>5, <2>1, LongerFacts
    <3>2. QED
      BY <2>2, <3>1
  <2>4. op \in Seq(Seq(Tokens)) /\ Len(op) = Len(ov)
    BY <1>1, <1>3, <1>6, <2>3, TableIsSeq
  <2>5. \A i \in 1..Len(ov) : op[i] = Longer(ov[i], IF i = Len(ov) THEN none ELSE Comma)
    BY <1>6, <2>2
  <2>6. ov \in Seq(Seq(Tokens))
    BY <1>6
  <2>7. Flat(op) = Longer(Join(ov, Comma), none) /\ Join(ov, Comma) \in Seq(Tokens)
    BY <1>7, <2>1, <2>4, <2>5, <2>6, Separated
  <2>8. QED
    BY <2>7, LongerFacts DEF none
<1>10. Flat(pp) = Longer(KeyIs(P[1]), prep_value(P[1].value, P[1].key, TRUE))
  <2> DEFINE p == P[1]
             o == Opened(p)
             rest == IF TRUE /\ ~ needs_quotes(p.value.type) THEN <<>> ELSE <<Plus, Mark>>
             piece == Longer(KeyIs(p), prep_value(p.value, p.key, TRUE))
  <2>1. prep_value(p.value, p.key, TRUE) = Longer(o, rest)
    BY <1>1, PrepFacts
  <2>2. o \in Seq(Tokens) /\ rest \in Seq(Tokens) /\ KeyIs(p) \in Seq(Tokens)
    BY <1>1, OpenedFacts, KeyIsFacts, SeparatorFacts
  <2> HIDE DEF p, o, rest
  <2>3. piece \in Seq(Tokens)
    BY <2>1, <2>2, LongerFacts
  <2>4. pp[1] = Longer(piece, <<>>)
    BY <1>3 DEF p
  <2> HIDE DEF piece
  <2>5. pp[1] = piece
    BY <2>3, <2>4, LongerFacts
  <2>6. pp \in Seq(Seq(Tokens)) /\ Len(pp) = 1
    <3>1. \A i \in 1..1 : pp[i] \in Seq(Tokens)
      BY <2>3, <2>5
    <3> DEFINE one == 1
    <3>2. one \in Nat /\ pp = [i \in 1..one |-> pp[i]] /\ \A i \in 1..one : pp[i] \in Seq(Tokens)
      BY <1>3, <3>1
    <3> HIDE DEF one
    <3>3. pp \in Seq(Seq(Tokens)) /\ Len(pp) = one
      BY <3>2, TableIsSeq
    <3>4. QED
      BY <3>3 DEF one
  <2>7. Flat(pp) = pp[1]
    BY <2>6, FlatOne
  <2>8. QED
    BY <2>5, <2>7 DEF piece, p
<1>11. QED
  BY <1>2, <1>9, <1>10 DEF Longer, O, P, ov

UpdateSql(table, layout) ==
    <<<<"UPDATE", table>>, <<"SET">>>>
    \o Join(Each(Others(layout), Named), <<<<",">>>>) \o <<<<"WHERE">>>>
    \o Join(Each(PrimaryKeys(layout), Named), <<<<"AND">>>>) \o <<Semi>>

\* One key.
LEMMA OneKey ==
    ASSUME NEW layout \in LayoutType, Len(PrimaryKeys(layout)) = 1
    PROVE  /\ PrimaryKeys(layout)[1] \in Pair /\ PrimaryKeys(layout)[1].value.is_primary
           /\ \E j \in 1..Len(layout) : layout[j] = PrimaryKeys(layout)[1]
           /\ (\A i \in 1..Len(layout) : Cpp(layout[i].value)) =>
                  Join(Each(PrimaryKeys(layout), Named), And) = Named(PrimaryKeys(layout)[1])
<1> DEFINE P == PrimaryKeys(layout)
           f == Each(P, Named)
<1>1. /\ P \in Seq(Pair) /\ Len(P) = 1
      /\ \A i \in 1..Len(P) : P[i].value.is_primary /\ \E j \in 1..Len(layout) : layout[j] = P[i]
  BY LayoutFacts
<1> HIDE DEF P, f
<1>2. 1 \in 1..Len(P) /\ P[1] \in Pair
  <2>1. P \in Seq(Pair) /\ 1 \in 1..Len(P)
    BY <1>1
  <2>2. QED
    BY <2>1, ElementOfSeq
<1>3. P[1].value.is_primary /\ \E j \in 1..Len(layout) : layout[j] = P[1]
  BY <1>1, <1>2
<1>4. ASSUME \A i \in 1..Len(layout) : Cpp(layout[i].value)
      PROVE  Join(f, And) = Named(P[1])
  <2>1. \A i \in 1..Len(P) : Cpp(P[i].value)
    BY <1>1, <1>4
  <2>2. f \in Seq(Seq(Tokens)) /\ Len(f) = 1 /\ f[1] = Named(P[1])
    BY <1>1, <1>2, <2>1, NamedValueFacts DEF f
  <2>3. And \in Seq(Tokens)
    BY SeparatorFacts
  <2>4. Join(f, And) = f[1]
    BY <2>2, <2>3, JoinOne
  <2>5. QED
    BY <2>2, <2>4
<1>5. QED
  BY <1>2, <1>3, <1>4 DEF P, f

\* Up to the value of the key.
LEMMA UpdateOpens ==
    ASSUME NEW layout \in LayoutType, NEW table \in Names, Len(PrimaryKeys(layout)) = 1,
           \A i \in 1..Len(layout) : Cpp(layout[i].value)
    PROVE  Gives("operand", Longer(Longer(<<Mark, <<"UPDATE", table>>, <<"SET">>>>,
                                          Join(NamedValues(Others(layout)), Comma)), <<<<"WHERE">>>>),
                 "literal", Longer(Longer(<<<<"UPDATE", table>>, <<"SET">>>>,
                                          Join(Each(Others(layout), Named), Comma)), <<<<"WHERE">>>>))
<1> DEFINE O == Others(layout)
           head == <<Mark, <<"UPDATE", table>>, <<"SET">>>>
           sql == <<<<"UPDATE", table>>, <<"SET">>>>
           values == Join(NamedValues(O), Comma)
           names == Join(Each(O, Named), Comma)
           where == <<<<"WHERE">>>>
<1>1. /\ O \in Seq(Pair)
      /\ \A i \in 1..Len(O) : \E j \in 1..Len(layout) : layout[j] = O[i]
  BY LayoutFacts
<1>2. \A i \in 1..Len(O) : Cpp(O[i].value)
  BY <1>1
<1>3. Gives("literal", values, "literal", names)
  <2> HIDE DEF O
  <2>1. QED
    BY <1>1, <1>2, NamedValueFacts
<1>4. Gives("operand", head, "literal", sql)
  <2>1. <<"UPDATE", table>> \in Text /\ <<"SET">> \in Text
    BY TokenFacts DEF Kinds, Words
  <2>2. QED
    BY <2>1, HeadOfTwo
<1>5. Gives("literal", where, "literal", where)
  <2>1. <<"WHERE">> \in Text
    BY TokenFacts DEF Words
  <2>2. QED
    BY <2>1, TextGives
<1> HIDE DEF head, sql, values, names, where, O
<1>6. Gives("operand", Longer(head, values), "literal", Longer(sql, names))
  BY <1>3, <1>4, GivesThen
<1>7. Gives("operand", Longer(Longer(head, values), where), "literal", Longer(Longer(sql, names), where))
  BY <1>5, <1>6, GivesThen
<1>8. QED
  BY <1>7 DEF head, sql, values, names, where, O

LEMMA UpdateGives ==
    ASSUME NEW layout \in LayoutType, NEW table \in Names, Len(PrimaryKeys(layout)) = 1, Others(layout) # <<>>,
           \A i \in 1..Len(layout) : Cpp(layout[i].value),
           needs_quotes(PrimaryKeys(layout)[1].value.type)
    PROVE  Gives("operand", emit_update(table, layout).query, "complete", UpdateSql(table, layout))
<1> DEFINE key == PrimaryKeys(layout)[1]
           open == Longer(Longer(<<Mark, <<"UPDATE", table>>, <<"SET">>>>,
                                 Join(NamedValues(Others(layout)), Comma)), <<<<"WHERE">>>>)
           sql == Longer(Longer(<<<<"UPDATE", table>>, <<"SET">>>>,
                                Join(Each(Others(layout), Named), Comma)), <<<<"WHERE">>>>)
           value == Longer(Opened(key), <<Plus, Mark>>)
<1>1. Gives("operand", open, "literal", sql)
  BY UpdateOpens
<1>2. key \in Pair /\ Cpp(key.value) /\ Join(Each(PrimaryKeys(layout), Named), And) = Named(key)
  BY OneKey
<1>3. prep_value(key.value, key.key, TRUE) = value
  BY <1>2, PrepFacts
<1>4. emit_update(table, layout).query = Longer(Longer(open, Longer(KeyIs(key), value)), UpdateEnd)
  BY <1>3, UpdateText
<1>5. UpdateSql(table, layout) = Longer(Longer(sql, Named(key)), <<Semi>>)
  BY <1>2 DEF UpdateSql, Longer, Comma, And
<1>6. Gives("literal", value, "literal", InSql(key))
  BY <1>2, OpenedFacts
<1>7. /\ Gives("literal", KeyIs(key), "literal", KeyIs(key))
      /\ Named(key) = Longer(KeyIs(key), InSql(key))
  BY <1>2, KeyIsFacts
<1> HIDE DEF key, open, sql, value
<1>8. Gives("literal", Longer(KeyIs(key), value), "literal", Named(key))
  BY <1>6, <1>7, GivesThen
<1>9. Gives("literal", UpdateEnd, "complete", <<Semi>>)
  <2>1. Semi \in Text
    BY TokenFacts DEF Semi, Words
  <2>2. Gives("literal", <<Semi>>, "literal", <<Semi>>)
    BY <2>1, TextGives
  <2>3. UpdateEnd = Longer(<<Semi>>, <<Mark, Semi>>)
    BY TupleFacts DEF UpdateEnd
  <2>4. QED
    BY <2>2, <2>3, EndGives, ThenTurn
<1>10. Gives("operand", Longer(open, Longer(KeyIs(key), value)), "literal", Longer(sql, Named(key)))
  BY <1>1, <1>8, GivesThen
<1> DEFINE all == Longer(open, Longer(KeyIs(key), value))
           meant == Longer(sql, Named(key))
<1>11. Gives("operand", all, "literal", meant)
  BY <1>10
<1> HIDE DEF all, meant
<1>12. Gives("operand", Longer(all, UpdateEnd), "complete", Longer(meant, <<Semi>>))
  BY <1>9, <1>11, GivesThen
<1>13. QED
  BY <1>4, <1>5, <1>12 DEF all, meant

\* The value of a key that is not a text ends the expression too early.
LEMMA UpdateBreaks ==
    ASSUME NEW layout \in LayoutType, NEW table \in Names, Len(PrimaryKeys(layout)) = 1, Others(layout) # <<>>,
           \A i \in 1..Len(layout) : Cpp(layout[i].value),
           ~ needs_quotes(PrimaryKeys(layout)[1].value.type)
    PROVE  Breaks("operand", emit_update(table, layout).query)
<1> DEFINE key == PrimaryKeys(layout)[1]
           open == Longer(Longer(<<Mark, <<"UPDATE", table>>, <<"SET">>>>,
                                 Join(NamedValues(Others(layout)), Comma)), <<<<"WHERE">>>>)
           sql == Longer(Longer(<<<<"UPDATE", table>>, <<"SET">>>>,
                                Join(Each(Others(layout), Named), Comma)), <<<<"WHERE">>>>)
           value == Opened(key)
<1>1. Gives("operand", open, "literal", sql)
  BY UpdateOpens
<1>2. key \in Pair /\ Cpp(key.value)
  BY OneKey
<1>3. prep_value(key.value, key.key, TRUE) = value
  <2>1. prep_value(key.value, key.key, TRUE) = Longer(value, <<>>)
    BY <1>2, PrepFacts
  <2>2. value \in Seq(Tokens)
    BY <1>2, OpenedFacts
  <2> HIDE DEF value
  <2>3. QED
    BY <2>1, <2>2, LongerFacts
<1>4. emit_update(table, layout).query = Longer(Longer(open, Longer(KeyIs(key), value)), UpdateEnd)
  BY <1>3, UpdateText
<1>5. Gives("literal", value, "after term", InSql(key))
  BY <1>2, OpenedFacts
<1>6. Gives("literal", KeyIs(key), "literal", KeyIs(key))
  BY <1>2, KeyIsFacts
<1> HIDE DEF key, open, sql, value
<1>7. Gives("literal", Longer(KeyIs(key), value), "after term", Longer(KeyIs(key), InSql(key)))
  BY <1>5, <1>6, GivesThen
<1>8. Gives("operand", Longer(open, Longer(KeyIs(key), value)), "after term",
            Longer(sql, Longer(KeyIs(key), InSql(key))))
  BY <1>1, <1>7, GivesThen
<1>9. Breaks("after term", UpdateEnd)
  <2>1. Gives("after term", <<Semi>>, "complete", <<>>) /\ Breaks("complete", <<Mark>>)
    BY PunctuationGives DEF Breaks
  <2>2. Breaks("complete", Longer(<<Mark>>, <<Semi>>))
    <3>1. <<Semi>> \in Seq(Tokens)
      BY <2>1 DEF Gives
    <3>2. QED
      BY <2>1, <3>1, BreaksThen
  <2>3. Breaks("after term", Longer(<<Semi>>, Longer(<<Mark>>, <<Semi>>)))
    BY <2>1, <2>2, ThenBreaks
  <2>4. UpdateEnd = Longer(<<Semi>>, Longer(<<Mark>>, <<Semi>>))
    BY TupleFacts DEF UpdateEnd
  <2>5. QED
    BY <2>3, <2>4
<1>10. QED
  BY <1>4, <1>8, <1>9, ThenBreaks

SelectSql(table, layout) ==
    <<<<"SELECT", table>>, <<"WHERE">>>> \o Join(Each(PrimaryKeys(layout), Named), <<<<"AND">>>>)

SelectHead(table) == <<Mark, <<"SELECT", table>>, <<"WHERE">>>>

\* A column, and its value up to what follows it.
KeyValue(pair) == Longer(Longer(KeyIs(pair), Quotes(pair.value)), <<Mark, Plus, <<"value", pair.key>>>>)

LEMMA KeyValueFacts ==
    ASSUME NEW pair \in Pair
    PROVE  /\ Quotes(pair.value) \in Seq(Text)
           /\ Gives("literal", KeyValue(pair), "after term",
                    Longer(Longer(KeyIs(pair), Quotes(pair.value)), <<<<"value", pair.key>>>>))
<1> DEFINE quotes == Quotes(pair.value)
           value == <<Mark, Plus, <<"value", pair.key>>>>
           sql == <<<<"value", pair.key>>>>
<1>1. quotes \in Seq(Text)
  <2>1. Quote \in Text
    BY TokenFacts DEF Quote, Words
  <2>2. <<Quote>> \in Seq(Text) /\ <<>> \in Seq(Text)
    BY <2>1, SeparatorFacts, OneFacts
  <2>3. QED
    BY <2>2 DEF Quotes
<1>2. Gives("literal", quotes, "literal", quotes)
  BY <1>1, TextsGive
<1>3. Gives("literal", KeyIs(pair), "literal", KeyIs(pair))
  BY KeyIsFacts
<1>4. Gives("literal", value, "after term", sql)
  <2>1. pair.key \in Names /\ "value" \in TermKinds \ {"any"}
    BY TermFacts DEF TermKinds
  <2>2. SqlOf(<<"value", pair.key>>) = sql
    BY DEF SqlOf
  <2>3. QED
    BY <2>1, <2>2, TermOpened
<1> HIDE DEF quotes, value, sql
<1>5. Gives("literal", Longer(KeyIs(pair), quotes), "literal", Longer(KeyIs(pair), quotes))
  BY <1>2, <1>3, GivesThen
<1>6. Gives("literal", Longer(Longer(KeyIs(pair), quotes), value), "after term",
            Longer(Longer(KeyIs(pair), quotes), sql))
  BY <1>4, <1>5, GivesThen
<1>7. QED
  BY <1>1, <1>6 DEF KeyValue, quotes, value, sql

SelectRest(pair, last) ==
    IF ~ last THEN Longer(Longer(<<Mark>>, Quotes(pair.value)), And)
    ELSE IF needs_quotes(pair.value.type) THEN <<Plus, Mark, Quote, Mark, Semi>> ELSE <<Semi>>

SelectParts(layout) ==
    [i \in 1..Len(layout) |-> Longer(KeyValue(layout[i]), SelectRest(layout[i], i = Len(layout)))]

LEMMA SelectText ==
    ASSUME NEW layout \in LayoutType, NEW table
    PROVE  LET parts == SelectParts(PrimaryKeys(layout))
           IN  /\ emit_select(table, layout)[1].query = Longer(SelectHead(table), Flat(parts))
               /\ parts \in Seq(Seq(Tokens)) /\ Len(parts) = Len(PrimaryKeys(layout))
<1> DEFINE P == PrimaryKeys(layout)
           n == Len(P)
           parts == SelectParts(P)
           written == [i \in 1..n |->
              ((<<<<P[i].key>>, <<"=">>>> \o Quotes(P[i].value)) \o <<Mark, Plus, <<"value", P[i].key>>>>)
              \o IF ~ (i = n) THEN (<<Mark>> \o Quotes(P[i].value)) \o <<<<"AND">>>>
                 ELSE IF needs_quotes(P[i].value.type) THEN <<Plus, Mark, Quote, Mark, Semi>>
                 ELSE <<Semi>>]
<1>1. P \in Seq(Pair) /\ n \in Nat /\ DOMAIN P = 1..n /\ \A i \in 1..n : P[i] \in Pair
  BY LayoutFacts, ElementFacts
<1>2. emit_select(table, layout)[1].query = SelectHead(table) \o Flat(written)
  BY <1>1 DEF emit_select, for_each, SelectHead
<1>3. written = parts
  BY DEF SelectParts, SelectRest, KeyValue, KeyIs, Longer, And
<1>4. parts = [i \in 1..n |-> parts[i]] /\ \A i \in 1..n : parts[i] = Longer(KeyValue(P[i]), SelectRest(P[i], i = n))
  BY DEF SelectParts
<1>5. Mark \in Tokens /\ Plus \in Tokens /\ Semi \in Tokens /\ Quote \in Tokens
  BY TokenFacts DEF Mark, Plus, Semi, Quote, Words
<1> HIDE DEF P, n, parts, written
<1>6. \A i \in 1..n : SelectRest(P[i], i = n) \in Seq(Tokens)
  <2>1. <<Plus, Mark, Quote, Mark, Semi>> \in Seq(Tokens) /\ <<Semi>> \in Seq(Tokens) /\ <<Mark>> \in Seq(Tokens)
    BY <1>5
  <2>2. ASSUME NEW i \in 1..n
        PROVE  Longer(Longer(<<Mark>>, Quotes(P[i].value)), And) \in Seq(Tokens)
    <3> DEFINE quotes == Quotes(P[i].value)
               mark == <<Mark>>
    <3>1. quotes \in Seq(Tokens) /\ And \in Seq(Tokens) /\ mark \in Seq(Tokens)
      BY <1>1, <2>1, KeyValueFacts, SeparatorFacts
    <3> HIDE DEF quotes, mark
    <3>2. Longer(mark, quotes) \in Seq(Tokens)
      BY <3>1, LongerFacts
    <3> DEFINE both == Longer(mark, quotes)
    <3>3. both \in Seq(Tokens)
      BY <3>2
    <3> HIDE DEF both
    <3>4. Longer(both, And) \in Seq(Tokens)
      BY <3>1, <3>3, LongerFacts
    <3>5. QED
      BY <3>4 DEF both, mark, quotes
  <2>3. QED
    BY <2>1, <2>2 DEF SelectRest
<1>7. \A i \in 1..n : parts[i] \in Seq(Tokens)
  <2>1. \A i \in 1..n : KeyValue(P[i]) \in Seq(Tokens)
    BY <1>1, KeyValueFacts DEF Gives
  <2>2. QED
    BY <1>4, <1>6, <2>1, LongerFacts
<1>8. parts \in Seq(Seq(Tokens)) /\ Len(parts) = n
  BY <1>1, <1>4, <1>7, TableIsSeq
<1>9. QED
  BY <1>2, <1>3, <1>8 DEF Longer, parts, P, n

LEMMA SelectOpens ==
    ASSUME NEW table \in Names
    PROVE  Gives("operand", SelectHead(table), "literal", <<<<"SELECT", table>>, <<"WHERE">>>>)
<1>1. <<"SELECT", table>> \in Text /\ <<"WHERE">> \in Text
  BY TokenFacts DEF Kinds, Words
<1>2. QED
  BY <1>1, HeadOfTwo DEF SelectHead

LEMMA SelectGives ==
    ASSUME NEW layout \in LayoutType, NEW table \in Names, Len(PrimaryKeys(layout)) = 1,
           \A i \in 1..Len(layout) : Cpp(layout[i].value),
           needs_quotes(PrimaryKeys(layout)[1].value.type)
    PROVE  Gives("operand", emit_select(table, layout)[1].query, "complete", SelectSql(table, layout))
<1> DEFINE P == PrimaryKeys(layout)
           key == P[1]
           parts == SelectParts(P)
           head == SelectHead(table)
           sql == <<<<"SELECT", table>>, <<"WHERE">>>>
           end == <<Plus, Mark, Quote, Mark, Semi>>
           quote == <<Quote>>
           value == <<<<"value", key.key>>>>
<1>1. /\ key \in Pair /\ key.value.is_primary /\ Cpp(key.value) /\ needs_quotes(key.value.type)
      /\ Join(Each(P, Named), And) = Named(key)
  BY OneKey
<1>2. /\ emit_select(table, layout)[1].query = Longer(head, Flat(parts))
      /\ parts \in Seq(Seq(Tokens)) /\ Len(parts) = 1
  BY SelectText
<1>3. parts[1] = Longer(KeyValue(key), end)
  <2>1. Len(P) = 1
    OBVIOUS
  <2> HIDE DEF P
  <2>2. parts[1] = Longer(KeyValue(P[1]), SelectRest(P[1], TRUE))
    <3>1. 1 \in 1..Len(P) /\ (1 = Len(P)) = TRUE
      BY <2>1
    <3>2. parts[1] = Longer(KeyValue(P[1]), SelectRest(P[1], 1 = Len(P)))
      BY <3>1 DEF SelectParts
    <3>3. QED
      BY <3>1, <3>2
  <2>3. SelectRest(P[1], TRUE) = end
    BY <1>1 DEF SelectRest
  <2>4. QED
    BY <2>2, <2>3
<1>4. Gives("operand", head, "literal", sql)
  BY SelectOpens
<1>5. Quotes(key.value) = quote
  BY <1>1 DEF Quotes
<1>6. Gives("literal", KeyValue(key), "after term", Longer(Longer(KeyIs(key), quote), value))
  BY <1>1, <1>5, KeyValueFacts
<1>7. Gives("after term", end, "complete", quote)
  <2>1. Quote \in Text
    BY TokenFacts DEF Quote, Words
  <2>2. Gives("literal", quote, "literal", quote)
    BY <2>1, TextGives
  <2> DEFINE rest == <<Mark, Semi>>
  <2>3. Gives("literal", rest, "complete", <<>>)
    BY EndGives
  <2> HIDE DEF rest, quote
  <2>4. Gives("literal", Longer(quote, rest), "complete", quote)
    BY <2>2, <2>3, ThenTurn
  <2>5. Gives("operand", Longer(<<Mark>>, Longer(quote, rest)), "complete", quote)
    BY <2>4, PunctuationGives, TurnThen
  <2>6. Gives("after term", Longer(<<Plus>>, Longer(<<Mark>>, Longer(quote, rest))), "complete", quote)
    BY <2>5, PunctuationGives, TurnThen
  <2>7. Longer(quote, rest) = <<Quote, Mark, Semi>>
    BY TupleFacts DEF quote, rest
  <2>8. Longer(<<Mark>>, <<Quote, Mark, Semi>>) = <<Mark, Quote, Mark, Semi>>
    BY TupleFacts
  <2>9. Longer(<<Plus>>, <<Mark, Quote, Mark, Semi>>) = end
    BY TupleFacts
  <2>10. QED
    BY <2>6, <2>7, <2>8, <2>9
<1>8. Named(key) = Longer(Longer(Longer(KeyIs(key), quote), value), quote) /\ KeyIs(key) \in Seq(Tokens)
  <2>1. InSql(key) = <<Quote, <<"value", key.key>>, Quote>>
    BY <1>1, TermFacts
  <2>2. InSql(key) = Longer(quote, Longer(value, quote))
    BY <2>1, TupleFacts
  <2>3. Named(key) = Longer(KeyIs(key), InSql(key)) /\ KeyIs(key) \in Seq(Tokens)
    BY <1>1, KeyIsFacts
  <2>4. quote \in Seq(Tokens) /\ value \in Seq(Tokens)
    <3>1. Quote \in Tokens /\ <<"value", key.key>> \in Tokens
      BY <1>1, TermFacts, TokenFacts DEF Quote, Words, Kinds, Text
    <3>2. QED
      BY <3>1
  <2> DEFINE k == KeyIs(key)
  <2> HIDE DEF quote, value, key, k
  <2>5. k \in Seq(Tokens) /\ Longer(value, quote) \in Seq(Tokens) /\ Longer(k, quote) \in Seq(Tokens)
    BY <2>3, <2>4, LongerFacts DEF k
  <2>6. Longer(k, Longer(quote, Longer(value, quote))) = Longer(Longer(k, quote), Longer(value, quote))
    BY <2>4, <2>5, LongerFacts
  <2>7. Longer(Longer(k, quote), Longer(value, quote)) = Longer(Longer(Longer(k, quote), value), quote)
    BY <2>4, <2>5, LongerFacts
  <2>8. QED
    BY <2>2, <2>3, <2>6, <2>7 DEF k
<1>9. SelectSql(table, layout) = Longer(sql, Named(key))
  BY <1>1 DEF SelectSql, Longer, And
<1> HIDE DEF P, key, parts, head, sql, end, quote, value
<1>10. Gives("literal", Longer(KeyValue(key), end), "complete", Named(key))
  BY <1>6, <1>7, <1>8, GivesThen
<1>11. Flat(parts) = Longer(KeyValue(key), end)
  BY <1>2, <1>3, FlatOne
<1>12. Gives("operand", Longer(head, Flat(parts)), "complete", Longer(sql, Named(key)))
  BY <1>4, <1>10, <1>11, GivesThen
<1>13. QED
  BY <1>2, <1>9, <1>12

\* Two values of keys are not joined by a '+'.
LEMMA SelectBreaks ==
    ASSUME NEW layout \in LayoutType, NEW table \in Names, Len(PrimaryKeys(layout)) > 1
    PROVE  Breaks("operand", emit_select(table, layout)[1].query)
<1> DEFINE P == PrimaryKeys(layout)
           n == Len(P)
           key == P[1]
           parts == SelectParts(P)
           head == SelectHead(table)
           rest == Longer(Longer(<<Mark>>, Quotes(key.value)), And)
<1>1. P \in Seq(Pair) /\ n \in Nat /\ n > 1 /\ \A i \in 1..n : P[i] \in Pair
  BY LayoutFacts, ElementFacts
<1>2. /\ emit_select(table, layout)[1].query = Longer(head, Flat(parts))
      /\ parts \in Seq(Seq(Tokens)) /\ Len(parts) = n
  BY SelectText
<1>3. parts[1] = Longer(KeyValue(key), rest)
  <2> HIDE DEF P
  <2>1. 1 \in 1..n /\ 1 # n
    BY <1>1
  <2>2. parts[1] = Longer(KeyValue(P[1]), SelectRest(P[1], FALSE))
    BY <2>1 DEF SelectParts
  <2>3. QED
    BY <2>2 DEF SelectRest
<1>4. key \in Pair
  <2> HIDE DEF P
  <2>1. QED
    BY <1>1
<1> DEFINE sql == Longer(Longer(KeyIs(key), Quotes(key.value)), <<<<"value", key.key>>>>)
<1>5. Gives("literal", KeyValue(key), "after term", sql) /\ Quotes(key.value) \in Seq(Tokens)
  BY <1>4, KeyValueFacts, SeparatorFacts
<1> HIDE DEF P, n, key, parts, head, sql
<1>6. Breaks("after term", rest)
  <2> DEFINE mark == <<Mark>>
             quotes == Quotes(key.value)
  <2>1. Breaks("after term", mark) /\ quotes \in Seq(Tokens) /\ And \in Seq(Tokens)
    BY <1>5, PunctuationGives, SeparatorFacts DEF Breaks
  <2> HIDE DEF mark, quotes
  <2>2. Breaks("after term", Longer(mark, quotes))
    BY <2>1, BreaksThen
  <2>3. Breaks("after term", Longer(Longer(mark, quotes), And))
    BY <2>1, <2>2, BreaksThen
  <2>4. QED
    BY <2>3 DEF mark, quotes
<1> HIDE DEF rest
<1>7. Breaks("literal", parts[1])
  BY <1>3, <1>5, <1>6, ThenBreaks
<1>8. Breaks("literal", Flat(parts))
  <2>1. 1 \in 1..Len(parts) /\ \A i \in 1..(1 - 1) : FALSE
    BY <1>1, <1>2
  <2>2. QED
    BY <1>2, <1>7, <2>1, FlatBreaks
<1>9. Breaks("operand", Longer(head, Flat(parts)))
  BY <1>8, SelectOpens, ThenBreaks DEF head
<1>10. QED
  BY <1>2, <1>9

LEMMA SelectAllGives ==
    ASSUME NEW layout, NEW table \in Names
    PROVE  Gives("operand", emit_select(table, layout)[2].query, "complete", <<<<"SELECT", table>>>>)
<1> DEFINE sql == <<<<"SELECT", table>>>>
<1>1. sql \in Seq(Text)
  BY TokenFacts, SeparatorFacts, OneFacts DEF Kinds
<1>2. emit_select(table, layout)[2].query = <<Mark, <<"SELECT", table>>, Mark, Semi>>
  BY DEF emit_select
<1>3. <<Mark, <<"SELECT", table>>, Mark, Semi>> = Longer(<<Mark>>, Longer(sql, <<Mark, Semi>>))
  <2>1. ASSUME NEW a, NEW b, NEW c, NEW d PROVE <<a, b, c, d>> = Longer(<<a>>, Longer(<<b>>, <<c, d>>))
    <3>1. <<a, b, c, d>> = Longer(<<a>>, <<b, c, d>>) /\ <<b, c, d>> = Longer(<<b>>, <<c, d>>)
      BY TupleFacts
    <3>2. QED
      BY <3>1
  <2>2. QED
    BY <2>1
<1> HIDE DEF sql
<1>4. Gives("literal", Longer(sql, <<Mark, Semi>>), "complete", sql)
  BY <1>1, TextsGive, EndGives, ThenTurn
<1>5. Gives("operand", Longer(<<Mark>>, Longer(sql, <<Mark, Semi>>)), "complete", sql)
  BY <1>4, PunctuationGives, TurnThen
<1>6. QED
  BY <1>2, <1>3, <1>5 DEF sql

-----------------------------------------------------------------------------
(* The functions of config/daos.cfg.                                       *)

Param == [key : Names, value : Types \ {"text", "varchar", "uuid"}]
Escape == <<"\\\"">>
Number == <<"?">>

LEMMA FunctionFacts ==
    ASSUME NEW f \in FunctionType
    PROVE  /\ f.query \in Seq(Pieces) /\ Len(f.query) \in Nat /\ DOMAIN f.query = 1..Len(f.query)
           /\ \A i \in 1..Len(f.query) : f.query[i] \in Pieces
           /\ f.params \in Seq(Param) /\ Len(f.params) \in Nat
           /\ \A i \in 1..Len(f.params) : f.params[i] \in Param
           /\ f.identifier \in Names /\ f.type_mapping \in Names \cup {""}
<1>1. /\ f.query \in Seq(Pieces) /\ f.params \in Seq(Param)
      /\ f.identifier \in Names /\ f.type_mapping \in Names \cup {""}
  BY DEF FunctionType, Param
<1>2. Len(f.query) \in Nat /\ DOMAIN f.query = 1..Len(f.query) /\ \A i \in 1..Len(f.query) : f.query[i] \in Pieces
  BY <1>1, LenProperties, ElementOfSeq
<1>3. Len(f.params) \in Nat /\ \A i \in 1..Len(f.params) : f.params[i] \in Param
  BY <1>1, LenProperties, ElementOfSeq
<1>4. QED
  BY <1>1, <1>2, <1>3

LEMMA RawFacts ==
    ASSUME NEW f \in FunctionType
    PROVE  /\ Raw(f.query) \in Seq(Tokens) /\ Len(Raw(f.query)) = Len(f.query) + 2
           /\ DOMAIN Raw(f.query) = 1..(Len(f.query) + 2)
           /\ Raw(f.query)[1] = Mark /\ Raw(f.query)[Len(f.query) + 2] = Mark
           /\ \A i \in 1..Len(f.query) :
                  Raw(f.query)[i + 1] = IF f.query[i] = Mark THEN Escape ELSE f.query[i]
<1> DEFINE q == f.query
           k == Len(q)
           c == Sanitized(q)
           mark == <<Mark>>
           left == Longer(mark, c)
           raw == Longer(left, mark)
<1>1. k \in Nat /\ DOMAIN q = 1..k /\ \A i \in 1..k : q[i] \in Pieces
  BY FunctionFacts
<1> HIDE DEF q, k
<1>2. c = [i \in 1..k |-> c[i]] /\ \A i \in 1..k : c[i] = IF q[i] = Mark THEN Escape ELSE q[i]
  BY <1>1 DEF Sanitized, Escape
<1>3. Mark \in Tokens /\ Escape \in Tokens /\ Pieces \subseteq Tokens
  <2>1. Mark \in Tokens /\ Escape \in Tokens
    BY TokenFacts DEF Mark, Escape, Words
  <2>2. QED
    BY <2>1 DEF Tokens
<1>4. c \in Seq(Tokens) /\ Len(c) = k
  <2>1. \A i \in 1..k : c[i] \in Tokens
    BY <1>1, <1>2, <1>3
  <2>2. QED
    BY <1>1, <1>2, <2>1, TableIsSeq
<1>5. mark \in Seq(Tokens) /\ Len(mark) = 1 /\ mark[1] = Mark
  BY <1>3
<1>6. Raw(q) = raw
  BY DEF Raw, Longer
<1> HIDE DEF c, mark
<1>7. left \in Seq(Tokens) /\ Len(left) = k + 1 /\ left[1] = Mark /\ \A i \in 1..k : left[i + 1] = c[i]
  <2>1. /\ left \in Seq(Tokens) /\ Len(left) = 1 + k
        /\ \A i \in 1..(1 + k) : left[i] = IF i <= 1 THEN mark[i] ELSE c[i - 1]
    <3> DEFINE one == 1
    <3>1. one = Len(mark) /\ k = Len(c) /\ mark \in Seq(Tokens) /\ c \in Seq(Tokens)
      BY <1>4, <1>5
    <3> HIDE DEF one
    <3>2. /\ Longer(mark, c) \in Seq(Tokens) /\ Len(Longer(mark, c)) = Len(mark) + Len(c)
          /\ \A i \in 1..(Len(mark) + Len(c)) :
                 Longer(mark, c)[i] = IF i <= Len(mark) THEN mark[i] ELSE c[i - Len(mark)]
      BY <3>1, LongerElements
    <3>3. QED
      BY <3>1, <3>2 DEF one
  <2> HIDE DEF left
  <2>2. 1 \in 1..(1 + k) /\ \A i \in 1..k : i + 1 \in 1..(1 + k) /\ ~ (i + 1 <= 1) /\ i + 1 - 1 = i
    BY <1>1
  <2>3. left[1] = mark[1]
    BY <2>1, <2>2
  <2>4. \A i \in 1..k : left[i + 1] = c[i]
    <3>1. ASSUME NEW i \in 1..k PROVE left[i + 1] = c[i]
      <4> DEFINE j == i + 1
      <4>1. j \in 1..(1 + k) /\ ~ (j <= 1) /\ j - 1 = i
        BY <2>2
      <4> HIDE DEF j
      <4>2. left[j] = c[j - 1]
        BY <2>1, <4>1
      <4>3. left[j] = c[i]
        BY <4>1, <4>2
      <4>4. QED
        BY <4>3 DEF j
    <3>2. QED
      BY <3>1
  <2>5. QED
    BY <1>1, <1>5, <2>1, <2>3, <2>4
<1> HIDE DEF left
<1>8. /\ raw \in Seq(Tokens) /\ Len(raw) = k + 2
      /\ \A i \in 1..(k + 1) : raw[i] = left[i]
      /\ raw[k + 2] = Mark
  <2>1. /\ raw \in Seq(Tokens) /\ Len(raw) = (k + 1) + 1
        /\ \A i \in 1..((k + 1) + 1) : raw[i] = IF i <= k + 1 THEN left[i] ELSE mark[i - (k + 1)]
    <3> DEFINE one == 1
               m == k + 1
    <3>1. one = Len(mark) /\ m = Len(left) /\ mark \in Seq(Tokens) /\ left \in Seq(Tokens)
      BY <1>5, <1>7
    <3> HIDE DEF one, m
    <3>2. /\ Longer(left, mark) \in Seq(Tokens) /\ Len(Longer(left, mark)) = Len(left) + Len(mark)
          /\ \A i \in 1..(Len(left) + Len(mark)) :
                 Longer(left, mark)[i] = IF i <= Len(left) THEN left[i] ELSE mark[i - Len(left)]
      BY <3>1, LongerElements
    <3>3. QED
      BY <3>1, <3>2 DEF one, m
  <2> HIDE DEF raw
  <2> DEFINE e == k + 2
  <2>2. e \in 1..((k + 1) + 1) /\ ~ (e <= k + 1) /\ e - (k + 1) = 1
    BY <1>1
  <2> HIDE DEF e
  <2>3. raw[e] = mark[e - (k + 1)]
    BY <2>1, <2>2
  <2>4. raw[e] = Mark
    BY <1>5, <2>2, <2>3
  <2>5. \A i \in 1..(k + 1) : i \in 1..((k + 1) + 1) /\ i <= k + 1
    BY <1>1
  <2>6. \A i \in 1..(k + 1) : raw[i] = left[i]
    BY <2>1, <2>5
  <2>7. Len(raw) = k + 2
    BY <1>1, <2>1
  <2>8. QED
    BY <2>1, <2>4, <2>6, <2>7 DEF e
<1> HIDE DEF raw
<1>9. DOMAIN raw = 1..(k + 2)
  BY <1>8, LenProperties
<1>10. raw[1] = Mark
  BY <1>1, <1>7, <1>8
<1>11. ASSUME NEW i \in 1..k PROVE raw[i + 1] = IF q[i] = Mark THEN Escape ELSE q[i]
  <2>1. i + 1 \in 1..(k + 1)
    BY <1>1
  <2>2. raw[i + 1] = left[i + 1]
    BY <1>8, <2>1
  <2>3. QED
    BY <1>2, <1>7, <2>2
<1>12. QED
  BY <1>6, <1>8, <1>9, <1>10, <1>11 DEF q, k

LEMMA NumberedFacts ==
    ASSUME NEW query
    PROVE  /\ Numbered(query, 0) = 0
           /\ \A n \in Nat : Numbered(query, n) \in Nat
           /\ \A n \in Nat : Numbered(query, n + 1)
                                = Numbered(query, n) + IF query[n + 1] = Number THEN 1 ELSE 0
           /\ \A m, n \in Nat : m <= n => Numbered(query, m) <= Numbered(query, n)
<1> DEFINE Numbers1(n) == {j \in 1..n : query[j] = Number}
<1>1. \A n \in Nat : IsFiniteSet(Numbers1(n))
  <2>1. ASSUME NEW n \in Nat PROVE IsFiniteSet(Numbers1(n))
    <3>1. IsFiniteSet(1..n)
      BY FS_Interval
    <3>2. Numbers1(n) \subseteq 1..n
      OBVIOUS
    <3> HIDE DEF Numbers1
    <3>3. QED
      BY <3>1, <3>2, FS_Subset
  <2>2. QED
    BY <2>1
<1>2. \A n \in Nat : Numbered(query, n) = Cardinality(Numbers1(n))
  BY DEF Numbered, Number
<1>3. Numbers1(0) = {}
  OBVIOUS
<1>4. \A n \in Nat : Numbers1(n + 1) = IF query[n + 1] = Number THEN Numbers1(n) \cup {n + 1} ELSE Numbers1(n)
  OBVIOUS
<1>5. \A n \in Nat : n + 1 \notin Numbers1(n)
  OBVIOUS
<1>6. \A m, n \in Nat : m <= n => Numbers1(m) \subseteq Numbers1(n)
  OBVIOUS
<1> HIDE DEF Numbers1
<1>7. Numbered(query, 0) = 0
  BY <1>2, <1>3, FS_EmptySet
<1>8. \A n \in Nat : Numbered(query, n) \in Nat
  BY <1>1, <1>2, FS_CardinalityType
<1>9. ASSUME NEW n \in Nat
      PROVE  Numbered(query, n + 1) = Numbered(query, n) + IF query[n + 1] = Number THEN 1 ELSE 0
  <2>1. Cardinality(Numbers1(n) \cup {n + 1}) = Cardinality(Numbers1(n)) + 1
    <3> DEFINE s == Numbers1(n)
               x == n + 1
    <3>1. IsFiniteSet(s) /\ x \notin s
      BY <1>1, <1>5
    <3> HIDE DEF s, x
    <3>2. Cardinality(s \cup {x}) = Cardinality(s) + 1
      BY <3>1, FS_AddElement
    <3>3. QED
      BY <3>2 DEF s, x
  <2>2. Numbered(query, n + 1) = Cardinality(Numbers1(n + 1)) /\ Numbered(query, n) = Cardinality(Numbers1(n))
    BY <1>2
  <2>3. Numbered(query, n) \in Nat
    BY <1>8
  <2>4. QED
    BY <1>4, <2>1, <2>2, <2>3
<1>10. ASSUME NEW m \in Nat, NEW n \in Nat, m <= n PROVE Numbered(query, m) <= Numbered(query, n)
  <2> DEFINE a == Numbers1(m)
             b == Numbers1(n)
  <2>1. IsFiniteSet(b) /\ a \subseteq b
    BY <1>1, <1>6, <1>10
  <2> HIDE DEF a, b
  <2>2. Cardinality(a) <= Cardinality(b)
    BY <2>1, FS_Subset
  <2>3. QED
    BY <1>2, <2>2 DEF a, b
<1>11. QED
  BY <1>7, <1>8, <1>9, <1>10

ParamQuotes(param) == IF needs_quotes(param.value) THEN <<Quote>> ELSE <<>>
ParamValue(param) == <<Mark, Plus, <<"value", param.key>>>>
NewOut(out, param, reopens) ==
    Longer(Longer(Longer(Longer(out, ParamQuotes(param)), ParamValue(param)),
                  IF reopens THEN <<Plus, Mark>> ELSE <<>>), ParamQuotes(param))

LEMMA SubstituteCases ==
    ASSUME NEW r \in SubstituteState, NEW raw, NEW i, NEW params
    PROVE  /\ ~ r.ok => Substitute(r, raw, i, params) = r
           /\ r.ok /\ raw[i] # Number =>
                Substitute(r, raw, i, params) = [ok |-> TRUE, nParam |-> r.nParam, at |-> r.at, out |-> Append(r.out, raw[i])]
           /\ r.ok /\ raw[i] = Number /\ r.nParam >= Len(params) =>
                Substitute(r, raw, i, params) = [ok |-> FALSE, nParam |-> r.nParam, at |-> r.at, out |-> r.out]
           /\ r.ok /\ raw[i] = Number /\ ~ (r.nParam >= Len(params)) =>
                Substitute(r, raw, i, params) =
                  [ok |-> TRUE, nParam |-> r.nParam + 1, at |-> i,
                   out |-> NewOut(r.out, params[r.nParam + 1],
                                  Reopens(i - r.at - 1, raw, ParamQuotes(params[r.nParam + 1])))]
<1>1. r = [ok |-> r.ok, nParam |-> r.nParam, at |-> r.at, out |-> r.out] /\ r.ok \in BOOLEAN
  BY DEF SubstituteState
<1>2. ~ r.ok => Substitute(r, raw, i, params) = r
  BY DEF Substitute
<1>3. ASSUME r.ok, raw[i] # Number
      PROVE  Substitute(r, raw, i, params) = [ok |-> TRUE, nParam |-> r.nParam, at |-> r.at, out |-> Append(r.out, raw[i])]
  <2>1. Substitute(r, raw, i, params) = [r EXCEPT !.out = Append(@, raw[i])]
    BY <1>3 DEF Substitute, Number
  <2>2. QED
    BY <1>1, <1>3, <2>1
<1>4. ASSUME r.ok, raw[i] = Number, r.nParam >= Len(params)
      PROVE  Substitute(r, raw, i, params) = [ok |-> FALSE, nParam |-> r.nParam, at |-> r.at, out |-> r.out]
  <2>1. Substitute(r, raw, i, params) = [r EXCEPT !.ok = FALSE]
    BY <1>4 DEF Substitute, Number
  <2>2. QED
    BY <1>1, <1>4, <2>1
<1>5. ASSUME r.ok, raw[i] = Number, ~ (r.nParam >= Len(params))
      PROVE  Substitute(r, raw, i, params) =
               [ok |-> TRUE, nParam |-> r.nParam + 1, at |-> i,
                out |-> NewOut(r.out, params[r.nParam + 1],
                               Reopens(i - r.at - 1, raw, ParamQuotes(params[r.nParam + 1])))]
  BY <1>5 DEF Substitute, Number, NewOut, ParamQuotes, ParamValue, Longer
<1>6. QED
  BY <1>2, <1>3, <1>4, <1>5

\* What a parameter becomes.
ParamSql(param) == SqlOf(<<IF param.value = "std::string" THEN "quoted" ELSE "value", param.key>>)

LEMMA ParamFacts ==
    ASSUME NEW param \in Param
    PROVE  /\ ParamQuotes(param) \in Seq(Text) /\ ParamValue(param) \in Seq(Tokens)
           /\ (ParamQuotes(param) # <<>>) <=> (param.value = "std::string")
           /\ ParamSql(param) \in Seq(Tokens)
           /\ \A out \in Seq(Tokens), reopens \in BOOLEAN : NewOut(out, param, reopens) \in Seq(Tokens)
<1>1. param.key \in Names /\ param.value \notin {"text", "varchar", "uuid"}
  BY DEF Param
<1>2. Quote \in Text /\ Mark \in Tokens /\ Plus \in Tokens /\ <<"value", param.key>> \in Tokens
  BY <1>1, TokenFacts DEF Quote, Mark, Plus, Words, Kinds, Text
<1>3. ParamQuotes(param) \in Seq(Text)
  <2>1. <<Quote>> \in Seq(Text) /\ <<>> \in Seq(Text)
    BY <1>2
  <2>2. QED
    BY <2>1 DEF ParamQuotes
<1>4. ParamValue(param) \in Seq(Tokens)
  <2>1. \A a, b, c \in Tokens : <<a, b, c>> \in Seq(Tokens)
    OBVIOUS
  <2>2. QED
    BY <1>2, <2>1 DEF ParamValue
<1>5. (ParamQuotes(param) # <<>>) <=> (param.value = "std::string")
  <2>1. needs_quotes(param.value) <=> param.value = "std::string"
    BY <1>1 DEF needs_quotes
  <2>2. QED
    BY <2>1 DEF ParamQuotes
<1>6. ParamSql(param) \in Seq(Tokens)
  <2>1. {"quoted", "value"} \subseteq TermKinds \ {"any"}
    BY DEF TermKinds
  <2>2. ParamSql(param) \in Seq(Text)
    BY <1>1, <2>1, SqlOfFacts DEF ParamSql
  <2>3. QED
    BY <2>2, SeparatorFacts
<1>7. ASSUME NEW out \in Seq(Tokens), NEW reopens \in BOOLEAN
      PROVE  NewOut(out, param, reopens) \in Seq(Tokens)
  <2> DEFINE quotes == ParamQuotes(param)
             value == ParamValue(param)
             open == IF reopens THEN <<Plus, Mark>> ELSE <<>>
             a == Longer(out, quotes)
             b == Longer(a, value)
             c == Longer(b, open)
  <2>1. quotes \in Seq(Tokens) /\ value \in Seq(Tokens) /\ open \in Seq(Tokens)
    BY <1>3, <1>4, SeparatorFacts
  <2>2. NewOut(out, param, reopens) = Longer(c, quotes)
    BY DEF NewOut
  <2> HIDE DEF quotes, value, open
  <2>3. a \in Seq(Tokens)
    BY <2>1, LongerFacts
  <2> HIDE DEF a
  <2>4. b \in Seq(Tokens)
    BY <2>1, <2>3, LongerFacts
  <2> HIDE DEF b
  <2>5. c \in Seq(Tokens)
    BY <2>1, <2>4, LongerFacts
  <2> HIDE DEF c
  <2>6. QED
    BY <2>1, <2>2, <2>5, LongerFacts
<1>8. QED
  BY <1>3, <1>4, <1>5, <1>6, <1>7

LEMMA ParamGives ==
    ASSUME NEW param \in Param, NEW out, NEW sql, Gives("operand", out, "literal", sql)
    PROVE  /\ Gives("operand", NewOut(out, param, TRUE), "literal", Longer(sql, ParamSql(param)))
           /\ param.value # "std::string" =>
                 Gives("operand", NewOut(out, param, FALSE), "after term", Longer(sql, ParamSql(param)))
<1> DEFINE quotes == ParamQuotes(param)
           value == ParamValue(param)
           text == <<<<"value", param.key>>>>
           open == <<Plus, Mark>>
           none == <<>>
           a == Longer(out, quotes)
           b == Longer(a, value)
           c == Longer(b, open)
           sa == Longer(sql, quotes)
           sb == Longer(sa, text)
<1>1. /\ quotes \in Seq(Tokens) /\ sql \in Seq(Tokens) /\ out \in Seq(Tokens) /\ none = <<>>
      /\ none \in Seq(Tokens)
  BY ParamFacts, SeparatorFacts DEF Gives
<1>2. Gives("literal", quotes, "literal", quotes)
  BY ParamFacts, TextsGive
<1>3. Gives("literal", value, "after term", text)
  <2>1. param.key \in Names /\ "value" \in TermKinds \ {"any"}
    BY DEF TermKinds, Param
  <2>2. SqlOf(<<"value", param.key>>) = text
    BY DEF SqlOf
  <2>3. QED
    BY <2>1, <2>2, TermOpened DEF ParamValue
<1>4. Gives("after term", open, "literal", none)
  <2>1. Gives("after term", Longer(<<Plus>>, <<Mark>>), "literal", <<>>)
    BY PunctuationGives, TurnThen
  <2>2. Longer(<<Plus>>, <<Mark>>) = open
    BY TupleFacts
  <2>3. QED
    BY <2>1, <2>2
<1>5. /\ NewOut(out, param, TRUE) = Longer(c, quotes)
      /\ NewOut(out, param, FALSE) = Longer(Longer(b, none), quotes)
  BY DEF NewOut
<1>6. IF quotes = none THEN ParamSql(param) = text ELSE quotes = <<Quote>> /\ ParamSql(param) = <<Quote, <<"value", param.key>>, Quote>>
  <2>1. quotes = none <=> param.value # "std::string"
    BY ParamFacts
  <2>2. quotes # none => quotes = <<Quote>>
    BY DEF ParamQuotes
  <2>3. /\ SqlOf(<<"value", param.key>>) = text
        /\ SqlOf(<<"quoted", param.key>>) = <<Quote, <<"value", param.key>>, Quote>>
    BY DEF SqlOf
  <2> HIDE DEF quotes, none, text
  <2>4. QED
    BY <2>1, <2>2, <2>3 DEF ParamSql
<1>7. text \in Seq(Tokens)
  BY <1>3 DEF Gives
<1>8. Longer(sb, quotes) = Longer(sql, ParamSql(param))
  <2> HIDE DEF text, quotes, sa, sb
  <2>1. CASE quotes = none
    <3> HIDE DEF none
    <3>1. sa = sql
      BY <1>1, <2>1, LongerFacts DEF sa
    <3>2. sb = Longer(sql, text)
      BY <3>1 DEF sb
    <3>3. Longer(sql, text) \in Seq(Tokens)
      BY <1>1, <1>7, LongerFacts
    <3>4. Longer(sb, none) = sb
      BY <1>1, <3>2, <3>3, LongerFacts
    <3>5. QED
      BY <1>6, <2>1, <3>2, <3>4
  <2>2. CASE quotes # none
    <3>1. ParamSql(param) = Longer(quotes, Longer(text, quotes))
      <4>1. quotes = <<Quote>> /\ ParamSql(param) = <<Quote, <<"value", param.key>>, Quote>>
        BY <1>6, <2>2
      <4>2. ASSUME NEW x, NEW y, NEW z PROVE <<x, y, z>> = Longer(<<x>>, Longer(<<y>>, <<z>>))
        <5>1. <<x, y, z>> = Longer(<<x>>, <<y, z>>) /\ <<y, z>> = Longer(<<y>>, <<z>>)
          BY TupleFacts
        <5>2. QED
          BY <5>1
      <4>3. QED
        BY <4>1, <4>2 DEF text
    <3>2. Longer(text, quotes) \in Seq(Tokens) /\ sa \in Seq(Tokens)
      BY <1>1, <1>7, LongerFacts DEF sa
    <3> DEFINE rest == Longer(text, quotes)
    <3>3. Longer(sb, quotes) = Longer(sa, rest)
      BY <1>1, <1>7, <3>2, LongerFacts DEF sb
    <3> HIDE DEF rest
    <3>4. rest \in Seq(Tokens)
      BY <3>2 DEF rest
    <3>5. Longer(sa, rest) = Longer(sql, Longer(quotes, rest))
      BY <1>1, <3>4, LongerFacts DEF sa
    <3>6. QED
      BY <3>1, <3>3, <3>5 DEF rest
  <2>3. QED
    BY <2>1, <2>2
<1> HIDE DEF quotes, value, text, open, none
<1>9. Gives("operand", a, "literal", sa)
  BY <1>2, GivesThen
<1> HIDE DEF a, sa
<1>10. Gives("operand", b, "after term", sb)
  BY <1>3, <1>9, GivesThen
<1> HIDE DEF b, sb
<1>11. Gives("operand", c, "literal", sb)
  BY <1>1, <1>4, <1>10, ThenTurn
<1> HIDE DEF c
<1>12. Gives("operand", Longer(c, quotes), "literal", Longer(sb, quotes))
  BY <1>2, <1>11, GivesThen
<1>13. ASSUME param.value # "std::string"
       PROVE  Gives("operand", NewOut(out, param, FALSE), "after term", Longer(sql, ParamSql(param)))
  <2>1. quotes = none
    BY <1>1, <1>13, ParamFacts DEF quotes
  <2>2. b \in Seq(Tokens) /\ sb \in Seq(Tokens)
    BY <1>10 DEF Gives
  <2>3. Longer(b, none) = b /\ Longer(sb, none) = sb
    BY <1>1, <2>2, LongerFacts
  <2>4. QED
    BY <1>5, <1>8, <1>10, <2>1, <2>3
<1>14. QED
  BY <1>5, <1>8, <1>12, <1>13

\* What is made of a query, character by character.
Substituting(f) ==
    [x \in SubstituteState \X DOMAIN Raw(f.query) |-> Substitute(x[1], Raw(f.query), x[2], f.params)]
NothingSubstituted == [ok |-> TRUE, nParam |-> 0, at |-> 0, out |-> <<>>]

LEMMA SubstituteType ==
    ASSUME NEW f \in FunctionType, NEW r \in SubstituteState, NEW i \in DOMAIN Raw(f.query)
    PROVE  Substitute(r, Raw(f.query), i, f.params) \in SubstituteState
<1> DEFINE raw == Raw(f.query)
           params == f.params
           k == Len(params)
           x == raw[i]
           m == r.nParam
           p == m + 1
<1>1. i \in Nat /\ x \in Tokens
  <2>1. raw \in Seq(Tokens) /\ i \in DOMAIN raw
    BY RawFacts
  <2> HIDE DEF raw
  <2>2. DOMAIN raw = 1..Len(raw) /\ Len(raw) \in Nat
    BY <2>1, LenProperties
  <2>3. i \in 1..Len(raw)
    BY <2>1, <2>2
  <2>4. raw[i] \in Tokens
    BY <2>1, <2>3, ElementOfSeq
  <2>5. QED
    BY <2>2, <2>3, <2>4
<1>2. r.ok \in BOOLEAN /\ m \in Nat /\ r.at \in Nat /\ r.out \in Seq(Tokens)
  BY DEF SubstituteState
<1>3. k \in Nat /\ \A j \in 1..k : params[j] \in Param
  BY FunctionFacts
<1> HIDE DEF raw, x, m, params, k, p
<1>4. CASE ~ r.ok
  BY <1>4, SubstituteCases
<1>5. CASE r.ok /\ raw[i] # Number
  <2>1. Substitute(r, raw, i, params)
          = [ok |-> TRUE, nParam |-> m, at |-> r.at, out |-> Append(r.out, x)]
    BY <1>5, SubstituteCases DEF m, x
  <2>2. Append(r.out, x) \in Seq(Tokens)
    BY <1>1, <1>2
  <2>3. QED
    BY <1>2, <2>1, <2>2 DEF SubstituteState, raw, params
<1>6. CASE r.ok /\ raw[i] = Number /\ m >= k
  <2>1. Substitute(r, raw, i, params) = [ok |-> FALSE, nParam |-> m, at |-> r.at, out |-> r.out]
    BY <1>6, SubstituteCases DEF m, k
  <2>2. QED
    BY <1>2, <2>1 DEF SubstituteState, raw, params
<1>7. CASE r.ok /\ raw[i] = Number /\ ~ (m >= k)
  <2> DEFINE param == params[p]
             reopens == Reopens(i - r.at - 1, raw, ParamQuotes(param))
             out == NewOut(r.out, param, reopens)
  <2>1. Substitute(r, raw, i, params) = [ok |-> TRUE, nParam |-> p, at |-> i, out |-> out]
    BY <1>7, SubstituteCases DEF m, k, p
  <2>2. param \in Param /\ p \in Nat
    BY <1>2, <1>3, <1>7 DEF p
  <2>3. reopens \in BOOLEAN
    BY DEF Reopens
  <2> HIDE DEF param, reopens
  <2>4. out \in Seq(Tokens)
    BY <1>2, <2>2, <2>3, ParamFacts
  <2> HIDE DEF out
  <2>5. QED
    BY <1>1, <2>1, <2>2, <2>4 DEF SubstituteState, raw, params
<1>8. QED
  BY <1>2, <1>4, <1>5, <1>6, <1>7

\* From each state of the loop to the next.
Steps(made, f) ==
    /\ made[0] = NothingSubstituted
    /\ \A n \in 1..(Len(f.query) + 2) :
           made[n] = Substitute(made[n - 1], Raw(f.query), n, f.params)
    /\ \A n \in 0..(Len(f.query) + 2) : made[n] \in SubstituteState
    /\ Substituted(f) = made[Len(f.query) + 2]

LEMMA SubstitutedSteps ==
    ASSUME NEW f \in FunctionType
    PROVE  \E made : Steps(made, f)
<1> DEFINE raw == Raw(f.query)
           params == f.params
           k == Len(f.query) + 2
           idx == [i \in DOMAIN raw |-> i]
           step == Substituting(f)
           base == NothingSubstituted
<1>1. DOMAIN raw = 1..k /\ k \in Nat
  <2>1. DOMAIN raw = 1..(Len(f.query) + 2)
    BY RawFacts
  <2>2. Len(f.query) \in Nat
    BY FunctionFacts
  <2> HIDE DEF raw
  <2>3. QED
    BY <2>1, <2>2
<1>2. base \in SubstituteState
  <2>1. <<>> \in Seq(Tokens)
    OBVIOUS
  <2>2. QED
    BY <2>1 DEF NothingSubstituted, SubstituteState
<1>3. Substituted(f) = Fold(step, base, idx)
  BY DEF Substituted, Substituting, NothingSubstituted
<1>4. \A r \in SubstituteState, i \in DOMAIN raw :
        /\ Substitute(r, raw, i, params) \in SubstituteState
        /\ Taking(step, r, i) = Substitute(r, raw, i, params)
  <2>1. ASSUME NEW r \in SubstituteState, NEW i \in DOMAIN raw
        PROVE  /\ Substitute(r, raw, i, params) \in SubstituteState
               /\ Taking(step, r, i) = Substitute(r, raw, i, params)
    <3>1. Substitute(r, raw, i, params) \in SubstituteState
      BY SubstituteType
    <3>2. <<r, i>> \in SubstituteState \X DOMAIN raw
      OBVIOUS
    <3>3. Substituting(f)[<<r, i>>] = Substitute(r, raw, i, params)
      BY <3>2 DEF Substituting
    <3>4. QED
      BY <3>1, <3>3 DEF Taking
  <2>2. QED
    BY <2>1
<1>5. idx = [i \in 1..k |-> idx[i]] /\ \A i \in 1..k : idx[i] = i
  BY <1>1
<1> HIDE DEF raw, params, idx, step, base
<1>6. \A i \in 1..k : idx[i] \in 1..k
  BY <1>5
<1> HIDE DEF k
<1>7. idx \in Seq(1..k) /\ Len(idx) = k
  BY <1>1, <1>5, <1>6, TableIsSeq
<1>8. PICK made : IsFold(made, step, base, idx) /\ Fold(step, base, idx) = made[Len(idx)]
  BY <1>7, FoldUnfolds
<1>9. made[0] = base /\ \A n \in 1..k : made[n] = Taking(step, made[n - 1], idx[n])
  BY <1>7, <1>8, FoldSteps
<1> DEFINE T == {n \in 0..k : made[n] \in SubstituteState}
<1>10. \A n \in 0..k : n \in T
  <2>1. 0 \in T
    BY <1>1, <1>2, <1>9
  <2>2. ASSUME NEW n \in 0..k, n \in T, n < k PROVE n + 1 \in T
    <3> DEFINE m == n + 1
    <3>1. m \in 1..k /\ m - 1 = n /\ m \in 0..k
      BY <1>1, <2>2
    <3> HIDE DEF m
    <3>2. made[m] = Taking(step, made[m - 1], idx[m]) /\ idx[m] = m
      BY <1>5, <1>9, <3>1
    <3>3. made[m] \in SubstituteState
      BY <1>1, <1>4, <2>2, <3>1, <3>2
    <3>4. QED
      BY <3>1, <3>3 DEF m
  <2> HIDE DEF T
  <2>3. QED
    BY <1>1, <2>1, <2>2, InductionUpTo
<1>11. \A n \in 0..k : made[n] \in SubstituteState
  BY <1>10
<1>12. ASSUME NEW n \in 1..k PROVE made[n] = Substitute(made[n - 1], raw, n, params)
  <2>1. made[n] = Taking(step, made[n - 1], n) /\ n - 1 \in 0..k
    BY <1>1, <1>5, <1>9
  <2>2. QED
    BY <1>1, <1>4, <1>11, <2>1
<1>13. QED
  BY <1>3, <1>7, <1>8, <1>9, <1>11, <1>12 DEF Steps, raw, params, base, k

\* The character of the query that a step of the loop is about.
LEMMA RawNumbers ==
    ASSUME NEW f \in FunctionType
    PROVE  /\ Mark # Number /\ Escape # Number /\ Mark # Escape
           /\ \A n \in 1..Len(f.query) : (Raw(f.query)[n + 1] = Number) <=> (f.query[n] = Number)
<1>1. Mark # Number /\ Escape # Number /\ Mark # Escape
  <2>1. \A a, b : <<a>> = <<b>> => a = b
    OBVIOUS
  <2>2. QED
    BY <2>1 DEF Mark, Escape, Number
<1>2. QED
  BY <1>1, RawFacts

\* The n-th parameter is used at the n-th question mark, if there is one.
Counted(r, c, last, params) ==
    /\ r.ok <=> c <= Len(params)
    /\ r.ok => r.nParam = c /\ (r.at = 0 <=> c = 0) /\ r.at <= last

LEMMA CountingStep ==
    ASSUME NEW r \in SubstituteState, NEW raw, NEW i \in Nat \ {0}, NEW params, Len(params) \in Nat,
           NEW c \in Nat, NEW last \in Nat, last <= i, Counted(r, c, last, params),
           NEW d \in Nat, d = c + IF raw[i] = Number THEN 1 ELSE 0
    PROVE  Counted(Substitute(r, raw, i, params), d, i, params)
<1> DEFINE u == Substitute(r, raw, i, params)
           k == Len(params)
<1>1. r.ok \in BOOLEAN /\ r.nParam \in Nat /\ r.at \in Nat
  BY DEF SubstituteState
<1>2. (r.ok <=> c <= k) /\ (r.ok => r.nParam = c /\ (r.at = 0 <=> c = 0) /\ r.at <= last)
  BY DEF Counted
<1> SUFFICES (u.ok <=> d <= k) /\ (u.ok => u.nParam = d /\ (u.at = 0 <=> d = 0) /\ u.at <= i)
  BY DEF Counted
<1>3. CASE ~ r.ok
  <2>1. u = r
    BY <1>3, SubstituteCases
  <2> HIDE DEF u
  <2>2. ~ (c <= k)
    BY <1>2, <1>3
  <2> HIDE DEF k
  <2>3. ~ (d <= Len(params))
    BY <2>2 DEF k
  <2>4. QED
    BY <1>3, <2>1, <2>3 DEF k
<1>4. CASE r.ok /\ raw[i] # Number
  <2>1. u = [ok |-> TRUE, nParam |-> r.nParam, at |-> r.at, out |-> Append(r.out, raw[i])]
    BY <1>4, SubstituteCases
  <2> HIDE DEF u
  <2>2. u.ok = TRUE /\ u.nParam = r.nParam /\ u.at = r.at
    BY <2>1
  <2>3. c <= k /\ d = c
    BY <1>2, <1>4
  <2> HIDE DEF k
  <2>4. QED
    BY <1>1, <1>2, <1>4, <2>2, <2>3
<1>5. CASE r.ok /\ raw[i] = Number /\ r.nParam >= k
  <2>1. u = [ok |-> FALSE, nParam |-> r.nParam, at |-> r.at, out |-> r.out]
    BY <1>5, SubstituteCases
  <2> HIDE DEF u
  <2>2. u.ok = FALSE
    BY <2>1
  <2>3. d = c + 1 /\ r.nParam = c /\ c >= k
    BY <1>2, <1>5
  <2> HIDE DEF k
  <2>4. ~ (d <= k)
    BY <2>3 DEF k
  <2>5. QED
    BY <2>2, <2>4
<1>6. CASE r.ok /\ raw[i] = Number /\ ~ (r.nParam >= k)
  <2> DEFINE out == NewOut(r.out, params[r.nParam + 1],
                           Reopens(i - r.at - 1, raw, ParamQuotes(params[r.nParam + 1])))
  <2>1. u = [ok |-> TRUE, nParam |-> r.nParam + 1, at |-> i, out |-> out]
    BY <1>6, SubstituteCases
  <2> HIDE DEF u, out
  <2>2. u.ok = TRUE /\ u.nParam = r.nParam + 1 /\ u.at = i
    BY <2>1
  <2>3. d = c + 1 /\ r.nParam = c /\ ~ (c >= k)
    BY <1>2, <1>6
  <2>4. k \in Nat
    OBVIOUS
  <2> HIDE DEF k
  <2>5. d <= k /\ d # 0 /\ i # 0 /\ i <= i
    BY <2>3, <2>4
  <2>6. QED
    BY <2>2, <2>3, <2>5
<1>7. QED
  BY <1>1, <1>3, <1>4, <1>5, <1>6

LEMMA CountingHolds ==
    ASSUME NEW f \in FunctionType, NEW made, Steps(made, f)
    PROVE  \A n \in 0..Len(f.query) : Counted(made[n + 1], Numbered(f.query, n), n + 1, f.params)
<1> DEFINE q == f.query
           k == Len(q)
           raw == Raw(q)
           params == f.params
           T == {n \in 0..k : Counted(made[n + 1], Numbered(q, n), n + 1, params)}
<1>1. k \in Nat /\ Len(params) \in Nat
  BY FunctionFacts
<1>2. /\ made[0] = NothingSubstituted
      /\ \A n \in 1..(k + 2) : made[n] = Substitute(made[n - 1], raw, n, params)
      /\ \A n \in 0..(k + 2) : made[n] \in SubstituteState
  BY DEF Steps
<1>3. raw[1] # Number
  <2>1. raw[1] = Mark
    BY RawFacts
  <2> HIDE DEF raw
  <2>2. QED
    BY <2>1, RawNumbers
<1>4. Numbered(q, 0) = 0
  BY NumberedFacts
<1>5. 0 \in T
  <2> DEFINE base == made[0]
             one == made[1]
             none == 0
  <2>1. one = Substitute(base, raw, 1, params) /\ base = NothingSubstituted /\ base \in SubstituteState
    <3>1. 1 \in 1..(k + 2) /\ 0 \in 0..(k + 2) /\ 1 - 1 = 0
      BY <1>1
    <3> HIDE DEF k, raw, params
    <3>2. made[1] = Substitute(made[1 - 1], raw, 1, params)
      BY <1>2, <3>1
    <3>3. QED
      BY <1>2, <3>1, <3>2
  <2>2. Counted(base, none, none, params)
    <3>1. base.ok = TRUE /\ base.nParam = 0 /\ base.at = 0
      BY <2>1 DEF NothingSubstituted
    <3> HIDE DEF base, params
    <3>2. QED
      BY <1>1, <3>1 DEF Counted
  <2>3. none = none + IF raw[1] = Number THEN 1 ELSE 0
    <3> HIDE DEF raw
    <3>1. QED
      BY <1>3
  <2>4. none \in Nat /\ 1 \in Nat \ {0} /\ none <= 1
    OBVIOUS
  <2> HIDE DEF base, one, none, raw, params
  <2>5. Counted(Substitute(base, raw, 1, params), none, 1, params)
    BY <1>1, <2>1, <2>2, <2>3, <2>4, CountingStep
  <2>6. Counted(made[1], 0, 1, params)
    BY <2>1, <2>5 DEF one, none
  <2>7. 0 + 1 = 1 /\ 0 \in 0..k
    BY <1>1
  <2> HIDE DEF q, k
  <2>8. QED
    BY <1>4, <2>6, <2>7
<1>6. ASSUME NEW n \in 0..k, n \in T, n < k PROVE n + 1 \in T
  <2> DEFINE m == n + 1
             i == n + 2
             r == made[m]
             u == made[i]
             c == Numbered(q, n)
             d == Numbered(q, m)
  <2>1. m \in 1..k /\ m \in 0..k /\ i \in 1..(k + 2) /\ i - 1 = m /\ i = m + 1 /\ m \in 0..(k + 2)
        /\ i \in Nat \ {0} /\ m \in Nat /\ m <= i /\ n \in Nat
    BY <1>1, <1>6
  <2>2. c \in Nat /\ d \in Nat /\ d = c + IF q[m] = Number THEN 1 ELSE 0
    BY <2>1, NumberedFacts
  <2>3. Counted(r, c, m, params)
    BY <1>6
  <2> HIDE DEF c, d
  <2>4. (raw[i] = Number) <=> (q[m] = Number)
    <3>1. (raw[m + 1] = Number) <=> (q[m] = Number)
      BY <2>1, RawNumbers
    <3> HIDE DEF raw, q, m, i
    <3>2. QED
      BY <2>1, <3>1
  <2> HIDE DEF raw, q, k, params, m, i
  <2>5. u = Substitute(r, raw, i, params) /\ r \in SubstituteState
    <3>1. made[i] = Substitute(made[i - 1], raw, i, params)
      BY <1>2, <2>1
    <3>2. QED
      BY <1>2, <2>1, <3>1
  <2>6. d = c + IF raw[i] = Number THEN 1 ELSE 0
    BY <2>2, <2>4
  <2> HIDE DEF r, u
  <2>7. Counted(Substitute(r, raw, i, params), d, i, params)
    BY <1>1, <2>1, <2>2, <2>3, <2>5, <2>6, CountingStep
  <2>8. Counted(made[m + 1], Numbered(q, m), m + 1, params)
    BY <2>1, <2>5, <2>7 DEF u, d
  <2>9. m \in T
    BY <2>1, <2>8
  <2>10. QED
    BY <2>9 DEF m
<1> HIDE DEF T
<1>7. \A n \in 0..k : n \in T
  BY <1>1, <1>5, <1>6, InductionUpTo
<1>8. QED
  BY <1>7 DEF T

LEMMA SubstitutedOk ==
    ASSUME NEW f \in FunctionType
    PROVE  Substituted(f).ok <=> Numbers(f) <= Len(f.params)
<1> DEFINE q == f.query
           k == Len(q)
           raw == Raw(q)
           params == f.params
           j == k + 1
           i == k + 2
<1>1. PICK made : Steps(made, f)
  BY SubstitutedSteps
<1>2. k \in Nat
  BY FunctionFacts
<1>3. Counted(made[j], Numbered(q, k), j, params)
  <2>1. k \in 0..k
    BY <1>2
  <2>2. \A n \in 0..k : Counted(made[n + 1], Numbered(q, n), n + 1, params)
    BY <1>1, CountingHolds
  <2> HIDE DEF q, k, params
  <2>3. QED
    BY <2>1, <2>2
<1>4. raw[i] = Mark
  BY RawFacts
<1>5. /\ made[i] = Substitute(made[j], raw, i, params)
      /\ made[j] \in SubstituteState
      /\ Substituted(f) = made[i]
  <2>1. i \in 1..i /\ i - 1 = j /\ j \in 0..i
    BY <1>2
  <2>2. /\ \A n \in 1..i : made[n] = Substitute(made[n - 1], raw, n, params)
        /\ \A n \in 0..i : made[n] \in SubstituteState
        /\ Substituted(f) = made[i]
    BY <1>1 DEF Steps
  <2> HIDE DEF q, k, params, raw, i, j
  <2>3. made[i] = Substitute(made[i - 1], raw, i, params)
    BY <2>1, <2>2
  <2>4. QED
    BY <2>1, <2>2, <2>3
<1> HIDE DEF raw, params, i, j
<1>6. Substituted(f).ok = made[j].ok
  <2> DEFINE r == made[j]
  <2>1. raw[i] # Number
    BY <1>4, RawNumbers
  <2>2. r \in SubstituteState /\ r.ok \in BOOLEAN
    BY <1>5 DEF SubstituteState
  <2>3. Substituted(f) = Substitute(r, raw, i, params)
    BY <1>5
  <2> HIDE DEF r
  <2>4. CASE ~ r.ok
    <3>1. Substituted(f) = r
      BY <2>2, <2>3, <2>4, SubstituteCases
    <3>2. QED
      BY <3>1 DEF r
  <2>5. CASE r.ok
    <3>1. Substitute(r, raw, i, params)
            = [ok |-> TRUE, nParam |-> r.nParam, at |-> r.at, out |-> Append(r.out, raw[i])]
      BY <2>1, <2>2, <2>5, SubstituteCases
    <3>2. Substituted(f).ok = TRUE
      BY <2>3, <3>1
    <3>3. QED
      BY <2>2, <2>5, <3>2 DEF r
  <2>6. QED
    BY <2>2, <2>4, <2>5
<1>7. made[j].ok <=> Numbered(q, k) <= Len(params)
  BY <1>3 DEF Counted
<1>8. QED
  BY <1>6, <1>7 DEF Numbers, params

-----------------------------------------------------------------------------
(* The SQL of a query from config/daos.cfg.                                *)

SqlPieces(f) ==
    [i \in 1..Len(f.query) |-> IF f.query[i] # Number THEN <<f.query[i]>>
                               ELSE ParamSql(f.params[Numbered(f.query, i)])]

LEMMA NumberedParam ==
    ASSUME NEW f \in FunctionType, Numbers(f) <= Len(f.params),
           NEW i \in 1..Len(f.query), f.query[i] = Number
    PROVE  /\ Numbered(f.query, i) \in 1..Len(f.params)
           /\ f.params[Numbered(f.query, i)] \in Param
           /\ Numbered(f.query, i - 1) + 1 = Numbered(f.query, i)
<1> DEFINE q == f.query
           k == Len(q)
           params == f.params
           l == Len(params)
           n == i - 1
           c == Numbered(q, n)
           d == Numbered(q, i)
           e == Numbered(q, k)
<1>1. k \in Nat /\ l \in Nat /\ \A j \in 1..l : params[j] \in Param
  BY FunctionFacts
<1>2. e <= l
  BY DEF Numbers
<1>3. n \in Nat /\ n + 1 = i /\ i \in Nat /\ i <= k
  BY <1>1
<1>4. c \in Nat /\ d = c + 1 /\ d <= e /\ e \in Nat
  <2>1. Numbered(q, n + 1) = Numbered(q, n) + IF q[n + 1] = Number THEN 1 ELSE 0
    BY <1>3, NumberedFacts
  <2>2. q[i] = Number
    OBVIOUS
  <2>3. c \in Nat /\ e \in Nat /\ d <= e
    BY <1>1, <1>3, NumberedFacts
  <2> HIDE DEF q, k, n
  <2>4. d = c + 1
    BY <1>3, <2>1, <2>2
  <2>5. QED
    BY <2>3, <2>4
<1> HIDE DEF c, d, e, l, params, q, k
<1>5. d \in 1..l
  BY <1>1, <1>2, <1>4
<1>6. params[d] \in Param
  BY <1>1, <1>5
<1>7. QED
  BY <1>4, <1>5, <1>6 DEF c, d, l, params, q, n

LEMMA SqlPiecesFacts ==
    ASSUME NEW f \in FunctionType, Numbers(f) <= Len(f.params)
    PROVE  /\ SqlPieces(f) \in Seq(Seq(Tokens)) /\ Len(SqlPieces(f)) = Len(f.query)
           /\ CustomMeaning(f) = Flat(SqlPieces(f))
           /\ \A i \in 1..Len(f.query) :
                SqlPieces(f)[i] = IF f.query[i] # Number THEN <<f.query[i]>>
                                  ELSE ParamSql(f.params[Numbered(f.query, i)])
<1> DEFINE q == f.query
           k == Len(q)
           sql == SqlPieces(f)
<1>1. k \in Nat /\ DOMAIN q = 1..k /\ \A i \in 1..k : q[i] \in Pieces
  BY FunctionFacts
<1>2. \A i \in 1..k : sql[i] = IF q[i] # Number THEN <<q[i]>> ELSE ParamSql(f.params[Numbered(q, i)])
  BY DEF SqlPieces
<1>3. sql = [i \in 1..k |-> sql[i]]
  BY DEF SqlPieces
<1>4. CustomMeaning(f) = Flat(sql)
  <2>1. CustomMeaning(f)
          = Flat([i \in DOMAIN q |-> IF q[i] # Number THEN <<q[i]>> ELSE ParamSql(f.params[Numbered(q, i)])])
    BY DEF CustomMeaning, Number, ParamSql
  <2>2. sql = [i \in DOMAIN q |-> IF q[i] # Number THEN <<q[i]>> ELSE ParamSql(f.params[Numbered(q, i)])]
    <3> HIDE DEF q, k
    <3>1. sql = [i \in 1..k |-> IF q[i] # Number THEN <<q[i]>> ELSE ParamSql(f.params[Numbered(q, i)])]
      BY DEF SqlPieces, q, k
    <3>2. QED
      BY <1>1, <3>1
  <2>3. QED
    BY <2>1, <2>2
<1>5. \A i \in 1..k : sql[i] \in Seq(Tokens)
  <2>1. ASSUME NEW i \in 1..k, q[i] = Number PROVE ParamSql(f.params[Numbered(q, i)]) \in Seq(Tokens)
    <3>1. f.params[Numbered(q, i)] \in Param
      BY <2>1, NumberedParam
    <3>2. QED
      BY <3>1, ParamFacts
  <2>2. Pieces \subseteq Tokens
    BY DEF Tokens
  <2>3. ASSUME NEW i \in 1..k PROVE <<q[i]>> \in Seq(Tokens)
    <3> DEFINE x == q[i]
    <3>1. x \in Tokens
      BY <1>1, <2>2
    <3> HIDE DEF x
    <3>2. <<x>> \in Seq(Tokens)
      BY <3>1
    <3>3. QED
      BY <3>2 DEF x
  <2> HIDE DEF q, k, sql
  <2>4. QED
    BY <1>2, <2>1, <2>3
<1> HIDE DEF sql, k
<1>6. sql \in Seq(Seq(Tokens)) /\ Len(sql) = k
  BY <1>1, <1>3, <1>5, TableIsSeq
<1>7. QED
  BY <1>2, <1>4, <1>6 DEF sql, k

LEMMA PieceGives ==
    ASSUME NEW token \in Pieces, NEW raw, raw = IF token = Mark THEN Escape ELSE token,
           NEW out, NEW sql, Gives("operand", out, "literal", sql)
    PROVE  Gives("operand", Append(out, raw), "literal", Longer(sql, <<token>>))
<1>1. token \in Tokens /\ token # Escape /\ Escape \in Tokens
  <2>1. token # Escape
    BY InputsAssumption DEF Escape
  <2>2. Escape \in Tokens
    BY TokenFacts DEF Escape, Words
  <2>3. QED
    BY <2>1, <2>2 DEF Tokens
<1>2. Gives("literal", <<raw>>, "literal", <<token>>)
  <2>1. CASE token = Mark
    BY <2>1, EscapeGives DEF Escape
  <2>2. CASE token # Mark
    <3>1. token \in Text /\ raw = token
      BY <1>1, <2>2 DEF Text, Escape
    <3>2. QED
      BY <3>1, TextGives
  <2>3. QED
    BY <2>1, <2>2
<1>3. out \in Seq(Tokens) /\ raw \in Tokens
  BY <1>1 DEF Gives
<1>4. Append(out, raw) = Longer(out, <<raw>>)
  BY <1>3, OneFacts
<1>5. Gives("operand", Longer(out, <<raw>>), "literal", Longer(sql, <<token>>))
  BY <1>2, GivesThen
<1>6. QED
  BY <1>4, <1>5

\* The one query that the substitution makes malformed.
Exceptional(f) ==
    /\ Numbers(f) = 1 /\ f.query[Len(f.query)] = Number
    /\ f.params[1].value # "std::string"

\* A step of the loop at a question mark.
LEMMA ParamStep ==
    ASSUME NEW f \in FunctionType, Numbers(f) <= Len(f.params),
           NEW i \in 1..Len(f.query), f.query[i] = Number,
           NEW r \in SubstituteState, r.ok, Counted(r, Numbered(f.query, i - 1), i, f.params),
           NEW sql, Gives("operand", r.out, "literal", sql)
    PROVE  LET u == Substitute(r, Raw(f.query), i + 1, f.params)
               new == Longer(sql, ParamSql(f.params[Numbered(f.query, i)]))
           IN  IF i = Len(f.query) /\ Exceptional(f) THEN Gives("operand", u.out, "after term", new)
                                                     ELSE Gives("operand", u.out, "literal", new)
<1> DEFINE q == f.query
           k == Len(q)
           raw == Raw(q)
           params == f.params
           c == Numbered(q, i - 1)
           d == Numbered(q, i)
           j == i + 1
           param == params[d]
           at == r.at
           reopens == Reopens(j - at - 1, raw, ParamQuotes(param))
           u == Substitute(r, raw, j, params)
           new == Longer(sql, ParamSql(param))
<1> SUFFICES IF i = k /\ Exceptional(f) THEN Gives("operand", u.out, "after term", new)
                                        ELSE Gives("operand", u.out, "literal", new)
  OBVIOUS
<1>1. param \in Param /\ d = c + 1 /\ d \in 1..Len(params) /\ Len(params) \in Nat
  BY NumberedParam, FunctionFacts
<1>2. c \in Nat /\ k \in Nat /\ i \in 1..k
  <2>1. k \in Nat
    BY FunctionFacts
  <2>2. i - 1 \in Nat
    BY <2>1
  <2> HIDE DEF q
  <2>3. c \in Nat
    BY <2>2, NumberedFacts
  <2>4. QED
    BY <2>1, <2>3 DEF q
<1>3. r.nParam = c /\ (at = 0 <=> c = 0) /\ at \in Nat
  BY DEF Counted, SubstituteState
<1>4. raw[j] = Number
  BY RawNumbers
<1>5. Len(raw) = k + 2
  BY RawFacts
<1> HIDE DEF raw
<1>6. reopens = (i - at < k \/ ParamQuotes(param) # <<>>)
  <2> DEFINE pos == j - at - 1
             end == Len(raw) - 2
             quotes == ParamQuotes(param)
  <2>1. end = k /\ pos = i - at
    <3> HIDE DEF k, at, q
    <3>1. Len(raw) - 2 = k
      BY <1>2, <1>5
    <3>2. QED
      BY <1>2, <1>3, <3>1
  <2>2. reopens = (pos < end \/ quotes # <<>>)
    BY DEF Reopens
  <2> HIDE DEF pos, end, quotes, reopens, at, k
  <2>3. reopens = (i - at < k \/ quotes # <<>>)
    BY <2>1, <2>2
  <2>4. QED
    BY <2>3 DEF quotes
<1>7. u.out = NewOut(r.out, param, reopens)
  <2>1. ~ (r.nParam >= Len(params)) /\ r.nParam + 1 = d
    <3> HIDE DEF c, d, params
    <3>1. QED
      BY <1>1, <1>2, <1>3
  <2>2. u = [ok |-> TRUE, nParam |-> r.nParam + 1, at |-> j,
             out |-> NewOut(r.out, params[r.nParam + 1],
                            Reopens(j - r.at - 1, raw, ParamQuotes(params[r.nParam + 1])))]
    <3> HIDE DEF params, j
    <3>1. QED
      BY <1>4, <2>1, SubstituteCases
  <2>3. u.out = NewOut(r.out, params[r.nParam + 1],
                       Reopens(j - r.at - 1, raw, ParamQuotes(params[r.nParam + 1])))
    BY <2>2
  <2> HIDE DEF u, d, j, params
  <2>4. QED
    BY <2>1, <2>3 DEF params
<1>8. ParamQuotes(param) # <<>> <=> param.value = "std::string"
  <2> HIDE DEF param
  <2>1. QED
    BY <1>1, ParamFacts
<1>9. /\ Gives("operand", NewOut(r.out, param, TRUE), "literal", new)
      /\ param.value # "std::string" => Gives("operand", NewOut(r.out, param, FALSE), "after term", new)
  <2> HIDE DEF param
  <2>1. QED
    BY <1>1, ParamGives
<1>10. i = k => d = Numbers(f)
  BY DEF Numbers
<1>11. reopens \in BOOLEAN
  <2> HIDE DEF k, at, param
  <2>1. QED
    BY <1>6
<1> HIDE DEF reopens, new, u, at
<1>12. CASE reopens
  <2>1. ASSUME i = k, Exceptional(f) PROVE FALSE
    <3>1. d = 1 /\ params[1].value # "std::string"
      BY <1>10, <2>1 DEF Exceptional
    <3>2. param.value # "std::string"
      BY <3>1
    <3>3. ~ (ParamQuotes(param) # <<>>)
      BY <1>8, <3>2
    <3> HIDE DEF d, k, param, params, c
    <3>4. c = 0
      BY <1>1, <1>2, <3>1
    <3>5. at = 0
      BY <1>3, <3>4
    <3>6. ~ (i - at < k)
      BY <1>2, <2>1, <3>5
    <3>7. QED
      BY <1>6, <1>12, <3>3, <3>6
  <2>2. Gives("operand", u.out, "literal", new)
    BY <1>7, <1>9, <1>12
  <2>3. QED
    BY <2>1, <2>2
<1>13. CASE ~ reopens
  <2>1. ~ (i - at < k) /\ ~ (ParamQuotes(param) # <<>>)
    <3> HIDE DEF k, param
    <3>1. QED
      BY <1>6, <1>13
  <2>2. i = k /\ at = 0
    <3> HIDE DEF k
    <3>1. QED
      BY <1>2, <1>3, <2>1
  <2>3. d = 1
    <3> HIDE DEF c, d
    <3>1. QED
      BY <1>1, <1>3, <2>2
  <2>4. param.value # "std::string"
    BY <1>8, <2>1
  <2>5. Exceptional(f)
    <3>1. Numbers(f) = 1
      BY <1>10, <2>2, <2>3
    <3>2. params[1].value # "std::string"
      BY <2>3, <2>4
    <3>3. q[k] = Number
      BY <2>2
    <3>4. QED
      BY <3>1, <3>2, <3>3 DEF Exceptional
  <2>6. Gives("operand", u.out, "after term", new)
    <3>1. reopens = FALSE
      BY <1>11, <1>13
    <3> HIDE DEF param
    <3>2. QED
      BY <1>7, <1>9, <2>4, <3>1
  <2>7. QED
    BY <2>2, <2>5, <2>6
<1>14. QED
  BY <1>12, <1>13

ReadsTo(f, made, sql, n) ==
    IF n = Len(f.query) /\ Exceptional(f) THEN Gives("operand", made[n + 1].out, "after term", sql[n])
                                          ELSE Gives("operand", made[n + 1].out, "literal", sql[n])

\* The first step of the loop, at the quotation mark that opens the literal.
LEMMA FirstStep ==
    ASSUME NEW f \in FunctionType, NEW made, Steps(made, f)
    PROVE  Gives("operand", made[1].out, "literal", <<>>)
<1> DEFINE raw == Raw(f.query)
           k == Len(f.query) + 2
           base == NothingSubstituted
           params == f.params
<1>1. /\ made[0] = base /\ base.ok = TRUE /\ base.out = <<>>
      /\ \A n \in 1..k : made[n] = Substitute(made[n - 1], raw, n, params)
      /\ base \in SubstituteState
  <2>1. made[0] = base /\ \A n \in 1..k : made[n] = Substitute(made[n - 1], raw, n, params)
    BY DEF Steps
  <2>2. base.ok = TRUE /\ base.out = <<>>
    BY DEF NothingSubstituted
  <2>3. made[0] \in SubstituteState
    <3>1. Len(f.query) \in Nat
      BY FunctionFacts
    <3>2. 0 \in 0..k
      BY <3>1
    <3>3. QED
      BY <3>2 DEF Steps
  <2>4. QED
    BY <2>1, <2>2, <2>3
<1>2. 1 \in 1..k /\ 1 - 1 = 0
  <2>1. Len(f.query) \in Nat
    BY FunctionFacts
  <2>2. QED
    BY <2>1
<1>3. raw[1] = Mark
  BY RawFacts
<1> HIDE DEF raw, k, base, params
<1>4. raw[1] # Number
  BY <1>3, RawNumbers
<1>5. made[1] = Substitute(base, raw, 1, params)
  <2>1. made[1] = Substitute(made[1 - 1], raw, 1, params)
    BY <1>1, <1>2
  <2>2. QED
    BY <1>1, <1>2, <2>1
<1>6. Substitute(base, raw, 1, params)
        = [ok |-> TRUE, nParam |-> base.nParam, at |-> base.at, out |-> Append(base.out, raw[1])]
  <2> DEFINE one == 1
  <2>1. base \in SubstituteState /\ base.ok /\ raw[one] # Number
    BY <1>1, <1>4
  <2> HIDE DEF one
  <2>2. Substitute(base, raw, one, params)
          = [ok |-> TRUE, nParam |-> base.nParam, at |-> base.at, out |-> Append(base.out, raw[one])]
    BY <2>1, SubstituteCases
  <2>3. QED
    BY <2>2 DEF one
<1>7. made[1].out = Append(<<>>, Mark)
  BY <1>1, <1>3, <1>5, <1>6
<1>8. Append(<<>>, Mark) = <<Mark>>
  OBVIOUS
<1>9. QED
  BY <1>7, <1>8, PunctuationGives

LEMMA QueryReads ==
    ASSUME NEW f \in FunctionType, Numbers(f) <= Len(f.params), NEW made, Steps(made, f),
           NEW sql \in [0..Len(f.query) -> Seq(Tokens)], sql[0] = <<>>,
           \A n \in 1..Len(f.query) : sql[n] = Longer(sql[n - 1], SqlPieces(f)[n])
    PROVE  \A n \in 0..Len(f.query) : ReadsTo(f, made, sql, n)
<1> DEFINE q == f.query
           k == Len(q)
           raw == Raw(q)
           params == f.params
           T == {n \in 0..k : ReadsTo(f, made, sql, n)}
<1>1. k \in Nat /\ Len(params) \in Nat /\ \A i \in 1..k : q[i] \in Pieces
  BY FunctionFacts
<1>2. 0 \in T
  <2>1. ~ (0 = k /\ Exceptional(f))
    <3>1. SUFFICES ASSUME 0 = k, Numbers(f) = 1 PROVE FALSE
      BY DEF Exceptional
    <3>2. Numbered(q, 0) = 0
      BY NumberedFacts
    <3>3. QED
      BY <3>1, <3>2 DEF Numbers
  <2>2. Gives("operand", made[1].out, "literal", sql[0])
    BY FirstStep
  <2>3. 0 + 1 = 1 /\ 0 \in 0..k
    BY <1>1
  <2>4. Gives("operand", made[0 + 1].out, "literal", sql[0])
    BY <2>2, <2>3
  <2>5. QED
    BY <2>1, <2>3, <2>4 DEF ReadsTo
<1>3. ASSUME NEW n \in 0..k, n \in T, n < k PROVE n + 1 \in T
  <2> DEFINE i == n + 1
             j == n + 2
             r == made[i]
             u == made[j]
             piece == SqlPieces(f)[i]
             x == q[i]
             y == raw[j]
  <2>1. /\ i \in 1..k /\ i - 1 = n /\ j = i + 1 /\ j \in 1..(k + 2) /\ j - 1 = i /\ n # k /\ i \in 0..(k + 2)
        /\ i \in 0..k /\ i \in Nat /\ n \in Nat
    BY <1>1, <1>3
  <2>2. Gives("operand", r.out, "literal", sql[n])
    BY <1>3, <2>1 DEF ReadsTo
  <2>3. Counted(r, Numbered(q, n), i, params)
    BY CountingHolds
  <2>4. r.ok
    <3>1. Numbered(q, n) \in Nat /\ Numbered(q, k) \in Nat /\ Numbered(q, n) <= Numbered(q, k)
      <4>1. n \in Nat /\ k \in Nat /\ n <= k
        BY <1>1, <2>1
      <4> HIDE DEF q, k
      <4>2. QED
        BY <4>1, NumberedFacts
    <3>2. Numbered(q, k) <= Len(params)
      BY DEF Numbers
    <3> DEFINE c == Numbered(q, n)
               e == Numbered(q, k)
               l == Len(params)
    <3>3. c \in Nat /\ e \in Nat /\ c <= e /\ e <= l /\ l \in Nat
      BY <1>1, <3>1, <3>2
    <3> HIDE DEF c, e, l
    <3>4. c <= l
      BY <3>3
    <3>5. QED
      BY <2>3, <3>4 DEF Counted, c, l
  <2>5. u = Substitute(r, raw, j, params) /\ r \in SubstituteState
    <3>1. /\ \A m \in 1..(k + 2) : made[m] = Substitute(made[m - 1], raw, m, params)
          /\ \A m \in 0..(k + 2) : made[m] \in SubstituteState
      BY DEF Steps
    <3> HIDE DEF k, q, raw, params, i, j
    <3>2. made[j] = Substitute(made[j - 1], raw, j, params)
      BY <2>1, <3>1
    <3>3. QED
      BY <2>1, <3>1, <3>2
  <2>6. sql[i] = Longer(sql[n], piece)
    <3> HIDE DEF i
    <3>1. sql[i] = Longer(sql[i - 1], SqlPieces(f)[i])
      BY <2>1
    <3>2. QED
      BY <2>1, <3>1
  <2>7. /\ piece = IF x # Number THEN <<x>> ELSE ParamSql(params[Numbered(q, i)])
        /\ x \in Pieces
    BY <1>1, <2>1, SqlPiecesFacts
  <2>8. (y = Number <=> x = Number) /\ y = IF x = Mark THEN Escape ELSE x
    <3>1. /\ raw[i + 1] = Number <=> q[i] = Number
          /\ raw[i + 1] = IF q[i] = Mark THEN Escape ELSE q[i]
      BY <2>1, RawNumbers, RawFacts
    <3> HIDE DEF raw, i, j, q
    <3>2. QED
      BY <2>1, <3>1
  <2>9. CASE x # Number
    <3>1. ~ (i = k /\ Exceptional(f))
      BY <2>9 DEF Exceptional
    <3> HIDE DEF raw, params, i, j, r, q, k
    <3>2. u = [ok |-> TRUE, nParam |-> r.nParam, at |-> r.at, out |-> Append(r.out, y)]
      BY <2>4, <2>5, <2>8, <2>9, SubstituteCases
    <3>3. u.out = Append(r.out, y)
      BY <3>2
    <3> HIDE DEF u, piece, x, y
    <3>4. Gives("operand", Append(r.out, y), "literal", Longer(sql[n], <<x>>))
      BY <2>2, <2>7, <2>8, PieceGives
    <3>5. Gives("operand", u.out, "literal", sql[i])
      BY <2>6, <2>7, <2>9, <3>3, <3>4
    <3>6. Gives("operand", made[i + 1].out, "literal", sql[i])
      BY <2>1, <3>5 DEF u
    <3>7. ReadsTo(f, made, sql, i)
      BY <3>1, <3>6 DEF ReadsTo, k, q
    <3>8. i \in T
      BY <2>1, <3>7
    <3>9. QED
      BY <3>8 DEF i
  <2>10. CASE x = Number
    <3> DEFINE s == sql[n]
               new == Longer(s, ParamSql(params[Numbered(q, i)]))
    <3>1. Counted(r, Numbered(q, i - 1), i, params) /\ q[i] = Number /\ Gives("operand", r.out, "literal", s)
      <4> HIDE DEF i
      <4>1. QED
        BY <2>1, <2>2, <2>3, <2>10
    <3>2. sql[i] = new
      BY <2>6, <2>7, <2>10
    <3> HIDE DEF i, r, s
    <3>3. IF i = k /\ Exceptional(f) THEN Gives("operand", Substitute(r, raw, i + 1, params).out, "after term", new)
                                     ELSE Gives("operand", Substitute(r, raw, i + 1, params).out, "literal", new)
      BY <2>1, <2>4, <2>5, <3>1, ParamStep
    <3>4. Substitute(r, raw, i + 1, params) = made[i + 1]
      <4> HIDE DEF j, raw, params
      <4>1. QED
        BY <2>1, <2>5
    <3> HIDE DEF new, raw, params
    <3>5. ReadsTo(f, made, sql, i)
      BY <3>2, <3>3, <3>4 DEF ReadsTo
    <3>6. i \in T
      BY <2>1, <3>5
    <3>7. QED
      BY <3>6 DEF i
  <2>11. QED
    BY <2>9, <2>10
<1> HIDE DEF T
<1>4. \A n \in 0..k : n \in T
  BY <1>1, <1>2, <1>3, InductionUpTo
<1>5. QED
  BY <1>4 DEF T

\* What is left when the loop is over: the quotation mark that closes the
\* literal, and a semicolon.
LEMMA CustomQuery ==
    ASSUME NEW f \in FunctionType, Numbers(f) <= Len(f.params)
    PROVE  \E out : /\ Custom(f).query = Longer(Longer(out, <<Mark>>), <<Semi>>)
                    /\ IF Exceptional(f) THEN Gives("operand", out, "after term", CustomMeaning(f))
                                         ELSE Gives("operand", out, "literal", CustomMeaning(f))
<1> DEFINE q == f.query
           k == Len(q)
           raw == Raw(q)
           params == f.params
           j == k + 1
           i == k + 2
           pieces == SqlPieces(f)
<1>1. PICK made : Steps(made, f)
  BY SubstitutedSteps
<1>2. k \in Nat
  BY FunctionFacts
<1>3. pieces \in Seq(Seq(Tokens)) /\ Len(pieces) = k /\ CustomMeaning(f) = Flat(pieces)
  BY SqlPiecesFacts
<1>4. PICK sql \in [0..Len(pieces) -> Seq(Tokens)] : Parts(sql, pieces)
  <2> HIDE DEF pieces
  <2>1. QED
    BY <1>3, FlatParts
<1>5. /\ sql[0] = <<>> /\ \A n \in 1..k : sql[n] = Longer(sql[n - 1], pieces[n])
      /\ Flat(pieces) = sql[k]
  <2> HIDE DEF pieces, k
  <2>1. QED
    BY <1>3, <1>4 DEF Parts
<1>6. sql \in [0..k -> Seq(Tokens)]
  <2> HIDE DEF pieces, k
  <2>1. QED
    BY <1>3, <1>4
<1>7. \A n \in 0..k : ReadsTo(f, made, sql, n)
  BY <1>1, <1>5, <1>6, QueryReads
<1>8. k \in 0..k
  BY <1>2
<1>9. ReadsTo(f, made, sql, k)
  BY <1>7, <1>8
<1> DEFINE out == made[j].out
<1>10. IF Exceptional(f) THEN Gives("operand", out, "after term", CustomMeaning(f))
                         ELSE Gives("operand", out, "literal", CustomMeaning(f))
  BY <1>3, <1>5, <1>9 DEF ReadsTo
<1>11. Counted(made[j], Numbered(q, k), j, params)
  <2>1. \A n \in 0..k : Counted(made[n + 1], Numbered(q, n), n + 1, params)
    BY <1>1, CountingHolds
  <2> HIDE DEF q, k, params
  <2>2. QED
    BY <1>8, <2>1
<1>12. made[j].ok
  BY <1>11 DEF Counted, Numbers
<1>13. raw[i] = Mark
  BY RawFacts
<1>14. /\ made[i] = Substitute(made[j], raw, i, params)
       /\ made[j] \in SubstituteState
       /\ Substituted(f) = made[i]
  <2>1. i \in 1..i /\ i - 1 = j /\ j \in 0..i
    BY <1>2
  <2>2. /\ \A n \in 1..i : made[n] = Substitute(made[n - 1], raw, n, params)
        /\ \A n \in 0..i : made[n] \in SubstituteState
        /\ Substituted(f) = made[i]
    BY <1>1 DEF Steps
  <2> HIDE DEF q, k, params, raw, i, j
  <2>3. made[i] = Substitute(made[i - 1], raw, i, params)
    BY <2>1, <2>2
  <2>4. QED
    BY <2>1, <2>2, <2>3
<1> HIDE DEF raw, params, i
<1>15. Substituted(f).out = Append(out, Mark)
  <2> DEFINE r == made[j]
  <2>1. raw[i] # Number
    BY <1>13, RawNumbers
  <2>2. r \in SubstituteState /\ r.ok
    BY <1>12, <1>14
  <2>3. Substituted(f) = Substitute(r, raw, i, params)
    BY <1>14
  <2> HIDE DEF r
  <2>4. Substitute(r, raw, i, params)
          = [ok |-> TRUE, nParam |-> r.nParam, at |-> r.at, out |-> Append(r.out, raw[i])]
    BY <2>1, <2>2, SubstituteCases
  <2>5. Substituted(f).out = Append(r.out, Mark)
    BY <1>13, <2>3, <2>4
  <2>6. QED
    BY <2>5 DEF r
<1>16. out \in Seq(Tokens)
  <2> DEFINE r == made[j]
  <2>1. r \in SubstituteState
    BY <1>14
  <2> HIDE DEF r
  <2>2. r.out \in Seq(Tokens)
    BY <2>1 DEF SubstituteState
  <2>3. QED
    BY <2>2 DEF r
<1> HIDE DEF out
<1>17. Custom(f).query = Longer(Longer(out, <<Mark>>), <<Semi>>)
  <2>1. Mark \in Tokens
    BY TokenFacts DEF Mark, Words
  <2>2. Append(out, Mark) = Longer(out, <<Mark>>)
    BY <1>16, <2>1, OneFacts
  <2>3. Custom(f).query = Substituted(f).out \o <<Semi>>
    BY DEF Custom
  <2>4. Custom(f).query = Longer(Substituted(f).out, <<Semi>>)
    BY <2>3 DEF Longer
  <2>5. QED
    BY <1>15, <2>2, <2>4
<1>18. QED
  BY <1>10, <1>17

LEMMA CustomGives ==
    ASSUME NEW f \in FunctionType, Numbers(f) <= Len(f.params), ~ Exceptional(f)
    PROVE  Gives("operand", Custom(f).query, "complete", CustomMeaning(f))
<1> DEFINE sql == CustomMeaning(f)
<1>1. PICK out : /\ Custom(f).query = Longer(Longer(out, <<Mark>>), <<Semi>>)
                 /\ Gives("operand", out, "literal", sql)
  BY CustomQuery
<1> HIDE DEF sql
<1>2. Gives("operand", Longer(out, <<Mark>>), "after literal", sql)
  BY <1>1, PunctuationGives, ThenTurn
<1>3. Gives("operand", Longer(Longer(out, <<Mark>>), <<Semi>>), "complete", sql)
  BY <1>2, PunctuationGives, ThenTurn
<1>4. QED
  BY <1>1, <1>3 DEF sql

LEMMA CustomBreaks ==
    ASSUME NEW f \in FunctionType, Numbers(f) <= Len(f.params), Exceptional(f)
    PROVE  Breaks("operand", Custom(f).query)
<1> DEFINE sql == CustomMeaning(f)
<1>1. PICK out : /\ Custom(f).query = Longer(Longer(out, <<Mark>>), <<Semi>>)
                 /\ Gives("operand", out, "after term", sql)
  BY CustomQuery
<1> HIDE DEF sql
<1>2. Gives("operand", Longer(out, <<Mark>>), "malformed", sql)
  BY <1>1, PunctuationGives, ThenTurn
<1>3. Breaks("operand", Longer(out, <<Mark>>))
  BY <1>2 DEF Breaks
<1>4. <<Semi>> \in Seq(Tokens)
  BY PunctuationGives DEF Gives
<1>5. QED
  BY <1>1, <1>3, <1>4, BreaksThen

-----------------------------------------------------------------------------
(* Complete expressions.                                                   *)

LEMMA Completed ==
    ASSUME NEW q, NEW n, NEW a, Gives("operand", q, n, a)
    PROVE  /\ Evaluated(q).mode = n /\ Evaluated(q).sql = a
           /\ n # "operand" => q # <<>>
<1> DEFINE none == <<>>
<1>1. none \in Seq(Tokens) /\ n \in Modes /\ a \in Seq(Tokens)
  <2>1. <<>> \in Seq(Tokens)
    OBVIOUS
  <2>2. QED
    BY <2>1 DEF Gives
<1>2. \A s : Evaluated(s) = Read(State("operand", none), s)
  BY DEF Evaluated, Read, State, Reading
<1>3. Read(State("operand", none), q) = State(n, Longer(none, a))
  BY <1>1 DEF Gives
<1>4. Longer(none, a) = a
  BY <1>1, LongerFacts
<1>5. Evaluated(q) = State(n, a)
  BY <1>2, <1>3, <1>4
<1>6. ASSUME q = <<>> PROVE n = "operand"
  <2> DEFINE r == State("operand", none)
  <2>1. Read(r, <<>>) = r
    <3> HIDE DEF r
    <3>1. QED
      BY FoldEmpty DEF Read
  <2>2. Evaluated(q) = State("operand", none)
    BY <1>2, <1>6, <2>1
  <2>3. State("operand", none).mode = "operand" /\ State(n, a).mode = n
    BY DEF State
  <2>4. QED
    BY <1>5, <2>2, <2>3
<1>7. Evaluated(q).mode = n /\ Evaluated(q).sql = a
  BY <1>5 DEF State
<1>8. QED
  BY <1>6, <1>7

\* A query in the header that is not complete.
Incomplete(q) == q # <<>> /\ Evaluated(q).mode # "complete"

LEMMA BreaksIncomplete ==
    ASSUME NEW q, Breaks("operand", q)
    PROVE  Incomplete(q)
<1>1. PICK a : Gives("operand", q, "malformed", a)
  BY DEF Breaks
<1>2. Evaluated(q).mode = "malformed" /\ ("malformed" # "operand" => q # <<>>)
  BY <1>1, Completed
<1>3. QED
  BY <1>2 DEF Incomplete

-----------------------------------------------------------------------------
(* What is emitted for a table.                                            *)

LEMMA ConcatOnly ==
    ASSUME NEW s, IsSeq(s), NEW t, IsSeq(t)
    PROVE  \A k \in DOMAIN (s \o t) : \/ \E j \in DOMAIN s : s[j] = (s \o t)[k]
                                      \/ \E j \in DOMAIN t : t[j] = (s \o t)[k]
<1> DEFINE S == {s[i] : i \in DOMAIN s}
           T == {t[i] : i \in DOMAIN t}
           B == S \union T
           u == s \o t
<1>1. s \in Seq(S) /\ t \in Seq(T)
  BY DEF IsSeq
<1> HIDE DEF S, T
<1>2. s \in Seq(B) /\ t \in Seq(B)
  BY <1>1
<1> HIDE DEF B
<1>3. /\ u \in Seq(B) /\ Len(u) = Len(s) + Len(t) /\ Len(s) \in Nat /\ Len(t) \in Nat
      /\ \A i \in 1..Len(s) + Len(t) : u[i] = IF i <= Len(s) THEN s[i] ELSE t[i - Len(s)]
  BY <1>2, ConcatProperties
<1> HIDE DEF u
<1>4. DOMAIN s = 1..Len(s) /\ DOMAIN t = 1..Len(t) /\ DOMAIN u = 1..Len(u)
  BY <1>2, <1>3
<1>5. ASSUME NEW k \in DOMAIN u
      PROVE  \/ \E j \in DOMAIN s : s[j] = u[k]
             \/ \E j \in DOMAIN t : t[j] = u[k]
  <2>1. k \in 1..Len(s) + Len(t)
    BY <1>3, <1>4
  <2>2. CASE k <= Len(s)
    BY <1>3, <1>4, <2>1, <2>2
  <2>3. CASE ~ (k <= Len(s))
    <3>1. k - Len(s) \in DOMAIN t /\ u[k] = t[k - Len(s)]
      BY <1>3, <1>4, <2>1, <2>3
    <3>2. QED
      BY <3>1
  <2>4. QED
    BY <2>2, <2>3
<1>6. QED
  BY <1>5 DEF u

\* The values of a sequence.
In(s, x) == \E i \in DOMAIN s : s[i] = x

LEMMA InConcat ==
    ASSUME NEW s, IsSeq(s), NEW t, IsSeq(t)
    PROVE  IsSeq(s \o t) /\ \A x : In(s \o t, x) <=> In(s, x) \/ In(t, x)
<1>1. IsSeq(s \o t) /\ Has(s \o t, s) /\ Has(s \o t, t)
  BY ConcatFacts
<1> DEFINE u == s \o t
<1>2. \A k \in DOMAIN u : (\E j \in DOMAIN s : s[j] = u[k]) \/ (\E j \in DOMAIN t : t[j] = u[k])
  BY ConcatOnly
<1>3. Has(u, s) /\ Has(u, t)
  BY <1>1
<1> HIDE DEF u
<1>4. \A x : In(u, x) <=> In(s, x) \/ In(t, x)
  BY <1>2, <1>3 DEF In, Has
<1>5. QED
  BY <1>1, <1>4 DEF u

LEMMA InTuples ==
    /\ \A x : ~ In(<<>>, x)
    /\ \A a, x : In(<<a>>, x) <=> x = a
    /\ \A a, b, x : In(<<a, b>>, x) <=> x \in {a, b}
    /\ \A a, b, c, x : In(<<a, b, c>>, x) <=> x \in {a, b, c}
    /\ IsSeq(<<>>) /\ \A a : IsSeq(<<a>>)
    /\ \A a, b : IsSeq(<<a, b>>)
    /\ \A a, b, c : IsSeq(<<a, b, c>>)
<1>1. \A x : ~ In(<<>>, x)
  BY DEF In
<1>2. \A a, x : In(<<a>>, x) <=> x = a
  <2>1. \A a : DOMAIN <<a>> = {1} /\ <<a>>[1] = a
    OBVIOUS
  <2>2. QED
    BY <2>1 DEF In
<1>3. \A a, b, x : In(<<a, b>>, x) <=> x \in {a, b}
  <2>1. \A a, b : DOMAIN <<a, b>> = {1, 2} /\ <<a, b>>[1] = a /\ <<a, b>>[2] = b
    OBVIOUS
  <2>2. QED
    BY <2>1 DEF In
<1>4. \A a, b, c, x : In(<<a, b, c>>, x) <=> x \in {a, b, c}
  <2>1. \A a, b, c : DOMAIN <<a, b, c>> = {1, 2, 3} /\ <<a, b, c>>[1] = a
                     /\ <<a, b, c>>[2] = b /\ <<a, b, c>>[3] = c
    OBVIOUS
  <2>2. QED
    BY <2>1 DEF In
<1>5. IsSeq(<<>>)
  <2>1. <<>> \in Seq({})
    OBVIOUS
  <2>2. QED
    BY <2>1, IsSeqFacts
<1>6. \A a : IsSeq(<<a>>)
  <2>1. \A a : <<a>> \in Seq({a})
    OBVIOUS
  <2>2. QED
    BY <2>1, IsSeqFacts
<1>7. \A a, b : IsSeq(<<a, b>>)
  <2>1. \A a, b : <<a, b>> \in Seq({a, b})
    OBVIOUS
  <2>2. QED
    BY <2>1, IsSeqFacts
<1>8. \A a, b, c : IsSeq(<<a, b, c>>)
  <2>1. \A a, b, c : <<a, b, c>> \in Seq({a, b, c})
    OBVIOUS
  <2>2. QED
    BY <2>1, IsSeqFacts
<1>9. QED
  BY <1>1, <1>2, <1>3, <1>4, <1>5, <1>6, <1>7, <1>8

\* The two functions of emit_select.
GetOne(table, layout) == emit_select(table, layout)[1]
GetAll(table, layout) == emit_select(table, layout)[2]

LEMMA EmittedElements ==
    ASSUME NEW table, NEW layout
    PROVE  \A e : In(Emitted(table, layout), e) <=>
                    \/ e \in {emit_struct(table, layout), emit_dao_mapper(table, layout),
                              emit_insert(table, layout), emit_save(table, layout)}
                    \/ Others(layout) # <<>> /\ e = emit_update(table, layout)
                    \/ PrimaryKeys(layout) # <<>> /\ e \in {GetOne(table, layout), GetAll(table, layout)}
<1> DEFINE a == emit_struct(table, layout)
           b == emit_dao_mapper(table, layout)
           c == emit_insert(table, layout)
           d == emit_update(table, layout)
           f == GetOne(table, layout)
           g == GetAll(table, layout)
           h == emit_save(table, layout)
           head == <<a, b, c>>
           update == IF Others(layout) = <<>> THEN <<>> ELSE <<d>>
           select == IF PrimaryKeys(layout) = <<>> THEN <<>> ELSE emit_select(table, layout)
           save == <<h>>
<1>1. Emitted(table, layout) = ((head \o update) \o select) \o save
  BY DEF Emitted
<1>2. emit_select(table, layout) = <<f, g>>
  <2>1. \A x, y : <<x, y>>[1] = x /\ <<x, y>>[2] = y
    OBVIOUS
  <2>2. QED
    BY <2>1 DEF emit_select, GetOne, GetAll
<1> HIDE DEF a, b, c, d, f, g, h
<1>3. IsSeq(head) /\ \A x : In(head, x) <=> x \in {a, b, c}
  BY InTuples
<1>4. IsSeq(update) /\ \A x : In(update, x) <=> Others(layout) # <<>> /\ x = d
  BY InTuples
<1>5. IsSeq(select) /\ \A x : In(select, x) <=> PrimaryKeys(layout) # <<>> /\ x \in {f, g}
  BY <1>2, InTuples
<1>6. IsSeq(save) /\ \A x : In(save, x) <=> x = h
  BY InTuples
<1> HIDE DEF head, update, select, save
<1>7. IsSeq(head \o update) /\ \A x : In(head \o update, x) <=> In(head, x) \/ In(update, x)
  BY <1>3, <1>4, InConcat
<1> DEFINE u == head \o update
<1>8. IsSeq(u) /\ \A x : In(u, x) <=> In(head, x) \/ In(update, x)
  BY <1>7
<1>9. Emitted(table, layout) = (u \o select) \o save
  BY <1>1
<1> HIDE DEF u
<1>10. IsSeq(u \o select) /\ \A x : In(u \o select, x) <=> In(u, x) \/ In(select, x)
  BY <1>5, <1>8, InConcat
<1> DEFINE v == u \o select
<1>11. IsSeq(v) /\ \A x : In(v, x) <=> In(u, x) \/ In(select, x)
  BY <1>10
<1>12. Emitted(table, layout) = v \o save
  BY <1>9
<1> HIDE DEF v
<1>13. \A x : In(v \o save, x) <=> In(v, x) \/ In(save, x)
  BY <1>6, <1>11, InConcat
<1>14. \A x : In(Emitted(table, layout), x) <=>
                \/ x \in {a, b, c} \/ x = h
                \/ Others(layout) # <<>> /\ x = d
                \/ PrimaryKeys(layout) # <<>> /\ x \in {f, g}
  BY <1>3, <1>4, <1>5, <1>6, <1>8, <1>11, <1>12, <1>13
<1>15. QED
  BY <1>14 DEF a, b, c, d, f, g, h

\* What a function calls comes before it.
Resolves(function, call) == function.name = call.name /\ function.params = call.args
Callable(s, k) == \A call \in s[k].calls : \E l \in 1..(k - 1) : Resolves(s[l], call)

LEMMA CallableConcat ==
    ASSUME NEW s, IsSeq(s), NEW t, IsSeq(t),
           \A k \in DOMAIN s : Callable(s, k),
           \A j \in DOMAIN t : \A call \in t[j].calls : \E x : In(s, x) /\ Resolves(x, call)
    PROVE  IsSeq(s \o t) /\ \A k \in DOMAIN (s \o t) : Callable(s \o t, k)
<1> DEFINE S == {s[i] : i \in DOMAIN s}
           T == {t[i] : i \in DOMAIN t}
           B == S \union T
           u == s \o t
<1>1. s \in Seq(S) /\ t \in Seq(T)
  BY DEF IsSeq
<1>2. IsSeq(u)
  BY InConcat
<1> HIDE DEF S, T
<1>3. s \in Seq(B) /\ t \in Seq(B)
  BY <1>1
<1> HIDE DEF B
<1>4. /\ u \in Seq(B) /\ Len(u) = Len(s) + Len(t) /\ Len(s) \in Nat /\ Len(t) \in Nat
      /\ \A i \in 1..Len(s) + Len(t) : u[i] = IF i <= Len(s) THEN s[i] ELSE t[i - Len(s)]
  BY <1>3, ConcatProperties
<1> HIDE DEF u
<1>5. DOMAIN s = 1..Len(s) /\ DOMAIN t = 1..Len(t) /\ DOMAIN u = 1..Len(u)
  BY <1>3, <1>4
<1> DEFINE n == Len(s)
           m == Len(t)
<1>6. n \in Nat /\ m \in Nat /\ DOMAIN s = 1..n /\ DOMAIN t = 1..m /\ DOMAIN u = 1..(n + m)
      /\ \A i \in 1..(n + m) : u[i] = IF i <= n THEN s[i] ELSE t[i - n]
  BY <1>4, <1>5
<1> HIDE DEF n, m
<1>7. \A l \in 1..n : u[l] = s[l]
  BY <1>6
<1>8. ASSUME NEW k \in DOMAIN u, NEW call \in u[k].calls
      PROVE  \E l \in 1..(k - 1) : Resolves(u[l], call)
  <2>1. CASE k <= n
    <3>1. k \in DOMAIN s /\ u[k] = s[k] /\ k \in 1..n
      BY <1>6, <1>7, <2>1
    <3>2. call \in s[k].calls /\ Callable(s, k)
      BY <1>8, <3>1
    <3>3. PICK l \in 1..(k - 1) : Resolves(s[l], call)
      BY <3>2 DEF Callable
    <3>4. u[l] = s[l]
      <4>1. l \in 1..n
        BY <1>6, <3>1
      <4>2. QED
        BY <1>7, <4>1
    <3>5. QED
      BY <3>3, <3>4
  <2>2. CASE ~ (k <= n)
    <3> DEFINE j == k - n
    <3>1. j \in DOMAIN t /\ u[k] = t[j]
      BY <1>6, <2>2
    <3> HIDE DEF j
    <3>2. call \in t[j].calls
      BY <1>8, <3>1
    <3>3. PICK x : In(s, x) /\ Resolves(x, call)
      BY <3>1, <3>2
    <3>4. PICK l \in 1..n : s[l] = x
      BY <1>6, <3>3 DEF In
    <3>5. l \in 1..(k - 1)
      BY <1>6, <2>2
    <3>6. Resolves(u[l], call)
      BY <1>7, <3>3, <3>4
    <3>7. QED
      BY <3>5, <3>6
  <2>3. QED
    BY <2>1, <2>2
<1>9. QED
  BY <1>2, <1>8 DEF Callable, u

\* Of a table with a key and other columns.
LEMMA EmittedCallable ==
    ASSUME NEW table, NEW layout, Others(layout) # <<>>, PrimaryKeys(layout) # <<>>
    PROVE  \A k \in DOMAIN Emitted(table, layout) : Callable(Emitted(table, layout), k)
<1> DEFINE a == emit_struct(table, layout)
           b == emit_dao_mapper(table, layout)
           c == emit_insert(table, layout)
           d == emit_update(table, layout)
           f == GetOne(table, layout)
           g == GetAll(table, layout)
           h == emit_save(table, layout)
           head == <<a, b, c>>
           update == <<d>>
           select == <<f, g>>
           save == <<h>>
<1>1. emit_select(table, layout) = <<f, g>>
  <2>1. \A x, y : <<x, y>>[1] = x /\ <<x, y>>[2] = y
    OBVIOUS
  <2>2. QED
    BY <2>1 DEF emit_select, GetOne, GetAll
<1>2. Emitted(table, layout) = ((head \o update) \o select) \o save
  BY <1>1 DEF Emitted
<1>3. a.calls = {} /\ c.calls = {} /\ d.calls = {}
  BY DEF emit_struct, emit_insert, emit_update
<1>4. \A call \in b.calls : Resolves(a, call)
  BY DEF emit_dao_mapper, emit_struct, Resolves
<1>5. /\ f.calls = {[name |-> <<"dao_map", table>>, args |-> <<>>]}
      /\ g.calls = {[name |-> <<"dao_map", table>>, args |-> <<>>]}
      /\ f.name = <<"get_one", table>> /\ f.params = Columns(PrimaryKeys(layout))
  BY DEF GetOne, GetAll, emit_select
<1>6. \A call \in f.calls \cup g.calls : Resolves(b, call)
  BY <1>5 DEF emit_dao_mapper, Resolves
<1>7. \A call \in h.calls : Resolves(f, call) \/ Resolves(c, call) \/ Resolves(d, call)
  <2> HIDE DEF f
  <2>1. h.calls = {[name |-> <<"get_one", table>>, args |-> Columns(PrimaryKeys(layout))],
                   [name |-> <<"insert", table>>, args |-> Columns(layout)],
                   [name |-> <<"update", table>>, args |-> Columns(layout)]}
    BY DEF emit_save
  <2>2. /\ c.name = <<"insert", table>> /\ c.params = Columns(layout)
        /\ d.name = <<"update", table>> /\ d.params = Columns(layout)
    BY DEF emit_insert, emit_update
  <2> HIDE DEF c, d, h
  <2>3. QED
    BY <1>5, <2>1, <2>2 DEF Resolves
<1> HIDE DEF a, b, c, d, f, g, h
<1>8. IsSeq(head) /\ \A x : In(head, x) <=> x \in {a, b, c}
  BY InTuples
<1>9. \A k \in DOMAIN head : Callable(head, k)
  <2>1. DOMAIN head = {1, 2, 3} /\ head[1] = a /\ head[2] = b /\ head[3] = c
    OBVIOUS
  <2> HIDE DEF head
  <2>2. Callable(head, 1) /\ Callable(head, 3)
    BY <1>3, <2>1 DEF Callable
  <2>3. 1 \in 1..(2 - 1)
    OBVIOUS
  <2>4. Callable(head, 2)
    BY <1>4, <2>1, <2>3 DEF Callable
  <2>5. QED
    BY <2>1, <2>2, <2>4
<1>10. IsSeq(update) /\ \A x : In(update, x) <=> x = d
  BY InTuples
<1>11. IsSeq(select) /\ \A x : In(select, x) <=> x \in {f, g}
  BY InTuples
<1>12. IsSeq(save) /\ \A x : In(save, x) <=> x = h
  BY InTuples
<1> HIDE DEF head, update, select, save
<1> DEFINE u == head \o update
<1>13. IsSeq(u) /\ (\A k \in DOMAIN u : Callable(u, k)) /\ \A x : In(u, x) <=> In(head, x) \/ In(update, x)
  <2>1. \A j \in DOMAIN update : \A call \in update[j].calls : \E x : In(head, x) /\ Resolves(x, call)
    <3>1. \A j \in DOMAIN update : update[j] = d
      BY <1>10 DEF In
    <3>2. QED
      BY <1>3, <3>1
  <2>2. QED
    BY <1>8, <1>9, <1>10, <2>1, CallableConcat, InConcat
<1>14. Emitted(table, layout) = (u \o select) \o save
  BY <1>2
<1> HIDE DEF u
<1> DEFINE v == u \o select
<1>15. IsSeq(v) /\ (\A k \in DOMAIN v : Callable(v, k)) /\ \A x : In(v, x) <=> In(u, x) \/ In(select, x)
  <2>1. \A j \in DOMAIN select : \A call \in select[j].calls : \E x : In(u, x) /\ Resolves(x, call)
    <3>1. \A j \in DOMAIN select : select[j] \in {f, g}
      BY <1>11 DEF In
    <3>2. In(u, b)
      BY <1>8, <1>13
    <3>3. QED
      BY <1>6, <3>1, <3>2
  <2>2. QED
    BY <1>11, <1>13, <2>1, CallableConcat, InConcat
<1>16. Emitted(table, layout) = v \o save
  BY <1>14
<1> HIDE DEF v
<1>17. \A j \in DOMAIN save : \A call \in save[j].calls : \E x : In(v, x) /\ Resolves(x, call)
  <2>1. \A j \in DOMAIN save : save[j] = h
    BY <1>12 DEF In
  <2>2. In(v, f) /\ In(v, c) /\ In(v, d)
    BY <1>8, <1>10, <1>11, <1>13, <1>15
  <2>3. QED
    BY <1>7, <2>1, <2>2
<1>18. \A k \in DOMAIN (v \o save) : Callable(v \o save, k)
  BY <1>12, <1>15, <1>17, CallableConcat
<1>19. QED
  BY <1>16, <1>18

-----------------------------------------------------------------------------
(* The tables that a header compiles for.                                  *)

LEMMA SupportedFacts ==
    ASSUME NEW layout \in LayoutType, SupportedTable(layout)
    PROVE  /\ Len(PrimaryKeys(layout)) = 1 /\ PrimaryKeys(layout) # <<>> /\ Others(layout) # <<>>
           /\ needs_quotes(PrimaryKeys(layout)[1].value.type)
           /\ layout # <<>> /\ \A i \in 1..Len(layout) : Cpp(layout[i].value)
<1>1. layout \in Seq(Pair) /\ PrimaryKeys(layout) \in Seq(Pair)
  BY LayoutFacts
<1>2. DOMAIN layout = 1..Len(layout)
  BY <1>1, ElementFacts
<1>3. \A i \in 1..Len(layout) : Cpp(layout[i].value)
  BY <1>2 DEF SupportedTable, Cpp
<1> DEFINE keys == PrimaryKeys(layout)
<1>4. Len(keys) = 1 /\ needs_quotes(keys[1].value.type) /\ Others(layout) # <<>>
  BY DEF SupportedTable
<1>5. \E j \in 1..Len(layout) : layout[j] = keys[1]
  BY <1>4, OneKey
<1> HIDE DEF keys
<1>6. keys # <<>>
  <2>1. Len(<<>>) = 0
    OBVIOUS
  <2>2. QED
    BY <1>4, <2>1
<1>7. layout # <<>>
  <2>1. Len(<<>>) = 0
    OBVIOUS
  <2>2. SUFFICES ASSUME Len(layout) = 0 PROVE FALSE
    BY <2>1
  <2>3. QED
    BY <1>5, <2>2
<1>8. QED
  BY <1>3, <1>4, <1>6, <1>7 DEF keys

LEMMA MeaningFacts ==
    ASSUME NEW table, NEW layout, NEW e, tables[table] = layout
    PROVE  /\ e.name = <<"insert", table>> => Meaning(e) = InsertSql(table, layout)
           /\ e.name = <<"update", table>> => Meaning(e) = UpdateSql(table, layout)
           /\ e.name = <<"get_one", table>> => Meaning(e) = SelectSql(table, layout)
           /\ e.name = <<"get_all", table>> => Meaning(e) = <<<<"SELECT", table>>>>
<1> DEFINE kind == e.name[1]
           name == e.name[2]
           a == InsertSql(name, tables[name])
           b == UpdateSql(name, tables[name])
           c == SelectSql(name, tables[name])
           d == <<<<"SELECT", name>>>>
<1>1. Meaning(e) = CASE kind = "insert" -> a [] kind = "update" -> b
                     [] kind = "get_one" -> c [] kind = "get_all" -> d
  BY DEF Meaning, InsertSql, UpdateSql, SelectSql
<1>2. \A x, y : <<x, y>>[1] = x /\ <<x, y>>[2] = y
  OBVIOUS
<1> DEFINE m == Meaning(e)
<1> HIDE DEF a, b, c, d, m, kind, name
<1>3. /\ kind = "insert" => m = a
      /\ kind = "update" => m = b
      /\ kind = "get_one" => m = c
      /\ kind = "get_all" => m = d
  BY <1>1 DEF m
<1>4. \A x : e.name = <<x, table>> => kind = x /\ name = table
  BY <1>2 DEF kind, name
<1>5. name = table =>
        /\ a = InsertSql(table, layout) /\ b = UpdateSql(table, layout)
        /\ c = SelectSql(table, layout) /\ d = <<<<"SELECT", table>>>>
  BY DEF a, b, c, d
<1>6. QED
  BY <1>3, <1>4, <1>5 DEF m

\* What the elements are called and what they call.
LEMMA ElementNames ==
    ASSUME NEW table, NEW layout
    PROVE  /\ emit_struct(table, layout).name = <<table>> /\ emit_struct(table, layout).query = <<>>
           /\ emit_dao_mapper(table, layout).name = <<"dao_map", table>>
           /\ emit_dao_mapper(table, layout).query = <<>> /\ emit_dao_mapper(table, layout).params = <<>>
           /\ emit_insert(table, layout).name = <<"insert", table>>
           /\ emit_update(table, layout).name = <<"update", table>>
           /\ GetOne(table, layout).name = <<"get_one", table>>
           /\ GetAll(table, layout).name = <<"get_all", table>>
           /\ emit_save(table, layout).name = <<"save", table>> /\ emit_save(table, layout).query = <<>>
           /\ [name |-> <<"get_one", table>>, args |-> Columns(PrimaryKeys(layout))]
                  \in emit_save(table, layout).calls
           /\ [name |-> <<"update", table>>, args |-> Columns(layout)] \in emit_save(table, layout).calls
<1>1. GetOne(table, layout).name = <<"get_one", table>> /\ GetAll(table, layout).name = <<"get_all", table>>
  BY DEF GetOne, GetAll, emit_select
<1>2. QED
  BY <1>1 DEF emit_struct, emit_dao_mapper, emit_insert, emit_update, emit_save

LEMMA NameFacts ==
    /\ \A x, y : Len(<<x>>) = 1 /\ Len(<<x, y>>) = 2
    /\ \A x, y, v, w : <<x, y>> = <<v, w>> => x = v /\ y = w
    /\ \A x, v, w : <<x>> # <<v, w>>
<1>1. \A x, y : Len(<<x>>) = 1 /\ Len(<<x, y>>) = 2
  OBVIOUS
<1>2. \A x, y, v, w : <<x, y>> = <<v, w>> => x = v /\ y = w
  OBVIOUS
<1>3. \A x, v, w : <<x>> # <<v, w>>
  BY <1>1
<1>4. QED
  BY <1>1, <1>2, <1>3

\* A query is complete and means what it has to, if its table is supported.
RightQuery(e) == e.query # <<>> => Len(e.name) = 2 /\ Evaluated(e.query).mode = "complete"
                                   /\ Evaluated(e.query).sql = Meaning(e)

LEMMA TableRight ==
    ASSUME NEW table \in Names, NEW layout \in LayoutType, SupportedTable(layout), tables[table] = layout,
           NEW e, In(Emitted(table, layout), e)
    PROVE  RightQuery(e)
<1>1. /\ Len(PrimaryKeys(layout)) = 1 /\ PrimaryKeys(layout) # <<>> /\ Others(layout) # <<>>
      /\ needs_quotes(PrimaryKeys(layout)[1].value.type)
      /\ layout # <<>> /\ \A i \in 1..Len(layout) : Cpp(layout[i].value)
  BY SupportedFacts
<1>2. \/ e \in {emit_struct(table, layout), emit_dao_mapper(table, layout), emit_save(table, layout)}
      \/ e = emit_insert(table, layout) \/ e = emit_update(table, layout)
      \/ e = GetOne(table, layout) \/ e = GetAll(table, layout)
  BY EmittedElements
<1>3. ASSUME NEW kind, e.name = <<kind, table>>, NEW sql, Gives("operand", e.query, "complete", sql),
             Meaning(e) = sql
      PROVE  RightQuery(e)
  <2>1. Evaluated(e.query).mode = "complete" /\ Evaluated(e.query).sql = sql
    BY <1>3, Completed
  <2>2. Len(e.name) = 2
    BY <1>3, NameFacts
  <2>3. QED
    BY <1>3, <2>1, <2>2 DEF RightQuery
<1>4. CASE e \in {emit_struct(table, layout), emit_dao_mapper(table, layout), emit_save(table, layout)}
  <2>1. \/ e = emit_struct(table, layout)
        \/ e = emit_dao_mapper(table, layout)
        \/ e = emit_save(table, layout)
    BY <1>4
  <2>2. /\ emit_struct(table, layout).query = <<>>
        /\ emit_dao_mapper(table, layout).query = <<>>
        /\ emit_save(table, layout).query = <<>>
    BY DEF emit_struct, emit_dao_mapper, emit_save
  <2>3. e.query = <<>>
    BY <2>1, <2>2, Zenon
  <2>4. QED
    BY <2>3 DEF RightQuery
<1>5. CASE e = emit_insert(table, layout)
  <2>1. e.name = <<"insert", table>>
    BY <1>5, ElementNames
  <2>2. Gives("operand", e.query, "complete", InsertSql(table, layout))
    BY <1>1, <1>5, InsertGives
  <2>3. Meaning(e) = InsertSql(table, layout)
    BY <2>1, MeaningFacts
  <2>4. QED
    BY <1>3, <2>1, <2>2, <2>3
<1>6. CASE e = emit_update(table, layout)
  <2>1. e.name = <<"update", table>>
    BY <1>6, ElementNames
  <2>2. Gives("operand", e.query, "complete", UpdateSql(table, layout))
    BY <1>1, <1>6, UpdateGives
  <2>3. Meaning(e) = UpdateSql(table, layout)
    BY <2>1, MeaningFacts
  <2>4. QED
    BY <1>3, <2>1, <2>2, <2>3
<1>7. CASE e = GetOne(table, layout)
  <2>1. e.name = <<"get_one", table>>
    BY <1>7, ElementNames
  <2>2. Gives("operand", e.query, "complete", SelectSql(table, layout))
    BY <1>1, <1>7, SelectGives DEF GetOne
  <2>3. Meaning(e) = SelectSql(table, layout)
    BY <2>1, MeaningFacts
  <2>4. QED
    BY <1>3, <2>1, <2>2, <2>3
<1>8. CASE e = GetAll(table, layout)
  <2>1. e.name = <<"get_all", table>>
    BY <1>8, ElementNames
  <2> DEFINE all == <<<<"SELECT", table>>>>
  <2>2. Gives("operand", e.query, "complete", all)
    BY <1>8, SelectAllGives DEF GetAll
  <2>3. Meaning(e) = all
    BY <2>1, MeaningFacts
  <2> HIDE DEF all
  <2>4. QED
    BY <1>3, <2>1, <2>2, <2>3
<1>9. QED
  BY <1>2, <1>4, <1>5, <1>6, <1>7, <1>8

\* The converse: what the queries of a table say of it when they are complete.
LEMMA TableNeeded ==
    ASSUME NEW table \in Names, NEW layout \in LayoutType,
           Others(layout) # <<>>, PrimaryKeys(layout) # <<>>,
           ~ Incomplete(emit_insert(table, layout).query),
           ~ Incomplete(emit_update(table, layout).query),
           ~ Incomplete(GetOne(table, layout).query)
    PROVE  SupportedTable(layout)
<1>1. layout \in Seq(Pair) /\ PrimaryKeys(layout) \in Seq(Pair)
  BY LayoutFacts
<1>2. Len(layout) \in Nat /\ DOMAIN layout = 1..Len(layout)
  BY <1>1, ElementFacts
<1>3. \A i \in 1..Len(layout) : Cpp(layout[i].value)
  <2>1. ASSUME NEW b \in 1..Len(layout), ~ Cpp(layout[b].value) PROVE FALSE
    <3>1. Breaks("operand", emit_insert(table, layout).query)
      BY <2>1, InsertBreaks
    <3>2. QED
      BY <3>1, BreaksIncomplete
  <2>2. QED
    BY <2>1
<1> DEFINE keys == PrimaryKeys(layout)
<1>4. Len(keys) = 1
  <2>1. ~ (Len(keys) > 1)
    <3>1. SUFFICES ASSUME Len(keys) > 1 PROVE FALSE
      OBVIOUS
    <3>2. Breaks("operand", emit_select(table, layout)[1].query)
      BY <3>1, SelectBreaks
    <3>3. QED
      BY <3>2, BreaksIncomplete DEF GetOne
  <2>2. keys \in Seq(Pair) /\ keys # <<>>
    BY <1>1
  <2> HIDE DEF keys
  <2>3. Len(keys) \in Nat /\ Len(keys) # 0
    BY <2>2, EmptySeq
  <2> DEFINE l == Len(keys)
  <2>4. l \in Nat /\ l # 0 /\ ~ (l > 1)
    BY <2>1, <2>3
  <2> HIDE DEF l
  <2>5. l = 1
    BY <2>4
  <2>6. QED
    BY <2>5 DEF l
<1>5. needs_quotes(keys[1].value.type)
  <2>1. SUFFICES ASSUME ~ needs_quotes(keys[1].value.type) PROVE FALSE
    OBVIOUS
  <2>2. Breaks("operand", emit_update(table, layout).query)
    BY <1>3, <1>4, <2>1, UpdateBreaks
  <2>3. QED
    BY <2>2, BreaksIncomplete
<1>6. \A i \in DOMAIN layout : layout[i].value.type \in DOMAIN CppTypes
  BY <1>2, <1>3 DEF Cpp
<1>7. QED
  BY <1>4, <1>5, <1>6 DEF SupportedTable

-----------------------------------------------------------------------------
(* Where each function of the header comes from.                           *)

Given == \E input \in Inputs : tables = input.tables /\ config = input.config

Earlier(e, j) == \E l \in 1..(j - 1) : header[l] = e

FromTable(j) ==
    \E table \in Generated : \E k \in DOMAIN Emitted(table, tables[table]) :
        /\ header[j] = Emitted(table, tables[table])[k]
        /\ \A l \in 1..(k - 1) : Earlier(Emitted(table, tables[table])[l], j)

FromConfig(j) ==
    \E n \in DOMAIN config :
        /\ header[j] = Custom(config[n]) /\ Substituted(config[n]).ok
        /\ \A table \in Generated : \A e : In(Emitted(table, tables[table]), e) => Earlier(e, j)

Sources ==
    /\ Given /\ todo \subseteq Generated
    /\ status = 0 => \A j \in DOMAIN header : FromTable(j) \/ FromConfig(j)

LEMMA GivenFacts ==
    ASSUME Given
    PROVE  /\ config \in Seq(FunctionType) /\ Len(config) \in Nat /\ DOMAIN config = 1..Len(config)
           /\ \A n \in DOMAIN config : config[n] \in FunctionType
           /\ \A table \in Generated : table \in Names /\ tables[table] \in LayoutType
<1>1. PICK input \in Inputs : tables = input.tables /\ config = input.config
  BY DEF Given
<1>2. /\ DOMAIN input.tables \subseteq Names
      /\ \A table \in DOMAIN input.tables : input.tables[table] \in LayoutType
      /\ input.config \in Seq(FunctionType)
  BY InputsAssumption
<1> HIDE DEF FunctionType, LayoutType
<1>3. config \in Seq(FunctionType)
  BY <1>1, <1>2
<1>4. Len(config) \in Nat /\ DOMAIN config = 1..Len(config)
  BY <1>3, LenProperties
<1>5. \A n \in DOMAIN config : config[n] \in FunctionType
  BY <1>3, <1>4, ElementOfSeq
<1>6. \A table \in Generated : table \in Names /\ tables[table] \in LayoutType
  BY <1>1, <1>2 DEF Generated
<1>7. QED
  BY <1>3, <1>4, <1>5, <1>6

\* What a longer header begins with and what it ends with.
LEMMA LongerHeader ==
    ASSUME IsSeq(header), NEW new, IsSeq(new), header' = header \o new
    PROVE  /\ Len(header) \in Nat /\ DOMAIN header = 1..Len(header)
           /\ Len(new) \in Nat /\ DOMAIN new = 1..Len(new)
           /\ DOMAIN header' = 1..(Len(header) + Len(new))
           /\ \A l \in 1..Len(header) : header'[l] = header[l]
           /\ \A i \in 1..Len(new) : header'[Len(header) + i] = new[i]
<1> DEFINE s == header
           S == {s[i] : i \in DOMAIN s}
           T == {new[i] : i \in DOMAIN new}
           B == S \union T
           n == Len(s)
           m == Len(new)
           u == s \o new
<1>1. s \in Seq(S) /\ new \in Seq(T)
  BY DEF IsSeq
<1> HIDE DEF S, T
<1>2. s \in Seq(B) /\ new \in Seq(B)
  BY <1>1
<1> HIDE DEF B
<1>3. /\ u \in Seq(B) /\ Len(u) = n + m /\ n \in Nat /\ m \in Nat
      /\ \A i \in 1..n + m : u[i] = IF i <= n THEN s[i] ELSE new[i - n]
  BY <1>2, ConcatProperties
<1>4. header' = u
  OBVIOUS
<1> HIDE DEF u
<1>5. DOMAIN s = 1..n /\ DOMAIN new = 1..m /\ DOMAIN u = 1..(n + m)
  BY <1>2, <1>3
<1> HIDE DEF n, m, s
<1>6. \A l \in 1..n : u[l] = s[l]
  BY <1>3
<1>7. ASSUME NEW i \in 1..m PROVE u[n + i] = new[i]
  <2> DEFINE j == n + i
  <2>1. j \in 1..n + m /\ ~ (j <= n) /\ j - n = i
    BY <1>3
  <2> HIDE DEF j
  <2>2. u[j] = new[j - n]
    BY <1>3, <2>1
  <2>3. u[j] = new[i]
    BY <2>1, <2>2
  <2>4. QED
    BY <2>3 DEF j
<1>8. QED
  BY <1>3, <1>4, <1>5, <1>6, <1>7 DEF n, m, s

\* The functions that are in the header stay where they are.
LEMMA SourcesStay ==
    ASSUME tables' = tables, config' = config, NEW n \in Nat,
           \A l \in 1..n : header'[l] = header[l], NEW j \in 1..n
    PROVE  /\ \A e : Earlier(e, j) => Earlier(e, j)'
           /\ FromTable(j) \/ FromConfig(j) => (FromTable(j) \/ FromConfig(j))'
<1>1. \A l \in 1..(j - 1) : header'[l] = header[l]
  OBVIOUS
<1>2. \A e : Earlier(e, j) => Earlier(e, j)'
  BY <1>1 DEF Earlier
<1>3. Generated' = Generated
  BY DEF Generated
<1>4. ASSUME FromTable(j) PROVE FromTable(j)'
  <2>1. PICK table \in Generated : \E k \in DOMAIN Emitted(table, tables[table]) :
          /\ header[j] = Emitted(table, tables[table])[k]
          /\ \A l \in 1..(k - 1) : Earlier(Emitted(table, tables[table])[l], j)
    BY <1>4 DEF FromTable
  <2> DEFINE E == Emitted(table, tables[table])
  <2>2. PICK k \in DOMAIN E : header[j] = E[k] /\ \A l \in 1..(k - 1) : Earlier(E[l], j)
    BY <2>1
  <2>3. E' = E
    OBVIOUS
  <2> HIDE DEF E
  <2>4. \A l \in 1..(k - 1) : \E i \in 1..(j - 1) : header'[i] = E[l]
    BY <1>1, <2>2 DEF Earlier
  <2>5. header'[j] = E[k]
    BY <2>2
  <2>6. QED
    BY <1>3, <2>3, <2>4, <2>5 DEF FromTable, Earlier, E
<1>5. ASSUME FromConfig(j) PROVE FromConfig(j)'
  <2>1. PICK n1 \in DOMAIN config :
          /\ header[j] = Custom(config[n1]) /\ Substituted(config[n1]).ok
          /\ \A table \in Generated : \A e : In(Emitted(table, tables[table]), e) => Earlier(e, j)
    BY <1>5 DEF FromConfig
  <2>2. header'[j] = Custom(config[n1])
    BY <2>1
  <2>3. \A table \in Generated : \A e : In(Emitted(table, tables[table]), e) => Earlier(e, j)'
    BY <1>2, <2>1
  <2>4. QED
    BY <1>3, <2>1, <2>2, <2>3 DEF FromConfig
<1>6. QED
  BY <1>2, <1>4, <1>5

\* Everything that is emitted for a table comes after all that was there.
LEMMA TableSources ==
    ASSUME Progress, Sources, status = 0, NEW table \in todo, serialise_table(table)
    PROVE  \A j \in DOMAIN header' : (FromTable(j) \/ FromConfig(j))'
<1> DEFINE new == Emitted(table, tables[table])
<1>1. header' = header \o new /\ tables' = tables /\ config' = config
  BY DEF serialise_table
<1>2. IsSeq(header) /\ IsSeq(new) /\ table \in Generated
  BY EmittedFacts DEF Progress, Sources
<1>3. Generated' = Generated /\ new' = new
  BY <1>1 DEF Generated
<1> HIDE DEF new
<1>4. PICK n \in Nat, m \in Nat :
        /\ DOMAIN header = 1..n /\ DOMAIN new = 1..m
        /\ DOMAIN header' = 1..(n + m)
        /\ \A l \in 1..n : header'[l] = header[l]
        /\ \A i \in 1..m : header'[n + i] = new[i]
  BY <1>1, <1>2, LongerHeader
<1>5. ASSUME NEW j \in 1..n PROVE (FromTable(j) \/ FromConfig(j))'
  <2>1. FromTable(j) \/ FromConfig(j)
    BY <1>4 DEF Sources
  <2>2. QED
    BY <1>1, <1>4, <2>1, SourcesStay
<1>6. ASSUME NEW i \in 1..m PROVE FromTable(n + i)'
  <2> DEFINE j == n + i
  <2>1. header'[j] = new[i]
    BY <1>4
  <2>2. ASSUME NEW l \in 1..(i - 1) PROVE \E k \in 1..(j - 1) : header'[k] = new[l]
    <3>1. l \in 1..m /\ n + l \in 1..(j - 1)
      BY <1>4
    <3>2. header'[n + l] = new[l]
      BY <1>4, <3>1
    <3>3. QED
      BY <3>1, <3>2
  <2> HIDE DEF j
  <2>3. \A l \in 1..(i - 1) : Earlier(new[l], j)'
    BY <1>3, <2>2 DEF Earlier
  <2>4. FromTable(j)'
    BY <1>2, <1>3, <1>4, <2>1, <2>3 DEF FromTable, new
  <2>5. QED
    BY <2>4 DEF j
<1>7. ASSUME NEW j \in 1..(n + m) PROVE (FromTable(j) \/ FromConfig(j))'
  <2>1. CASE j <= n
    <3>1. j \in 1..n
      BY <1>4, <2>1
    <3>2. QED
      BY <1>5, <3>1
  <2>2. CASE ~ (j <= n)
    <3>1. j - n \in 1..m /\ n + (j - n) = j
      BY <1>4, <2>2
    <3> DEFINE i == j - n
    <3>2. i \in 1..m /\ n + i = j
      BY <3>1
    <3> HIDE DEF i
    <3>3. FromTable(n + i)'
      BY <1>6, <3>2
    <3>4. FromTable(j)'
      BY <3>2, <3>3
    <3>5. QED
      BY <3>4
  <2>3. QED
    BY <2>1, <2>2
<1>8. QED
  BY <1>4, <1>7

\* A function of the configuration comes after everything of every table.
LEMMA FunctionSources ==
    ASSUME Progress, Sources, status = 0, generate_custom_dao_function
    PROVE  \A j \in DOMAIN header' : (FromTable(j) \/ FromConfig(j))'
<1> DEFINE f == Head(functions)
           x == Custom(f)
           one == 1
           new == <<x>>
<1>1. /\ phase = "functions" /\ functions # <<>> /\ Substituted(f).ok
      /\ header' = Append(header, x) /\ tables' = tables /\ config' = config
  BY DEF generate_custom_dao_function
<1>2. PICK k \in 0..Len(config) : functions = SubSeq(config, k + 1, Len(config))
  BY DEF Progress, FunctionsDone
<1>3. k + 1 \in 0..Len(config) /\ f = config[k + 1]
  BY <1>1, <1>2, NextFunction DEF Progress
<1>4. IsSeq(header) /\ Given
  BY DEF Progress, Sources
<1>5. k + 1 \in DOMAIN config
  BY <1>2, <1>3, <1>4, GivenFacts
<1>6. \A table \in Generated : TableDone(table)
  BY <1>1 DEF Progress
<1>7. Generated' = Generated
  BY <1>1 DEF Generated
<1> HIDE DEF f, x
<1>8. IsSeq(new) /\ header' = header \o new /\ Len(new) = one /\ new[1] = x
  <2>1. IsSeq(new)
    BY InTuples
  <2>2. header \in Seq({header[i] : i \in DOMAIN header})
    BY <1>4 DEF IsSeq
  <2>3. Append(header, x) = header \o <<x>>
    BY <2>2
  <2>4. Len(new) = one /\ new[1] = x
    OBVIOUS
  <2>5. QED
    BY <1>1, <2>1, <2>3, <2>4
<1> HIDE DEF new
<1>9. PICK n \in Nat :
        /\ DOMAIN header = 1..n
        /\ DOMAIN header' = 1..(n + Len(new))
        /\ \A l \in 1..n : header'[l] = header[l]
        /\ \A i \in 1..Len(new) : header'[n + i] = new[i]
  BY <1>4, <1>8, LongerHeader
<1>10. DOMAIN header' = 1..(n + 1) /\ header'[n + 1] = x
  BY <1>8, <1>9
<1>11. ASSUME NEW j \in 1..n PROVE (FromTable(j) \/ FromConfig(j))'
  <2>1. FromTable(j) \/ FromConfig(j)
    BY <1>9 DEF Sources
  <2>2. QED
    BY <1>1, <1>9, <2>1, SourcesStay
<1>12. FromConfig(n + 1)'
  <2> DEFINE j == n + 1
  <2>1. ASSUME NEW table \in Generated, NEW e, In(Emitted(table, tables[table]), e)
        PROVE  \E l \in 1..(j - 1) : header'[l] = e
    <3>1. PICK l \in DOMAIN header : header[l] = e
      BY <1>6, <2>1 DEF TableDone, InHeader, In
    <3>2. l \in 1..n /\ l \in 1..(j - 1)
      BY <1>9
    <3>3. QED
      BY <1>9, <3>1, <3>2
  <2>2. j = n + 1
    OBVIOUS
  <2> HIDE DEF j
  <2>3. \A table \in Generated : \A e : In(Emitted(table, tables[table]), e) => Earlier(e, j)'
    BY <2>1 DEF Earlier
  <2>4. config' = config /\ tables' = tables
    BY <1>1
  <2> DEFINE i == k + 1
  <2>5. i \in DOMAIN config /\ header'[j] = Custom(config[i]) /\ Substituted(config[i]).ok
    BY <1>1, <1>3, <1>5, <1>10, <2>2 DEF x
  <2> HIDE DEF i
  <2>6. FromConfig(j)'
    BY <1>7, <2>3, <2>4, <2>5 DEF FromConfig
  <2>7. QED
    BY <2>6 DEF j
<1>13. \A j \in 1..(n + 1) : j \in 1..n \/ j = n + 1
  BY <1>9
<1>14. QED
  BY <1>10, <1>11, <1>12, <1>13

LEMMA SourcesInit == Init => Sources
<1> SUFFICES ASSUME Init PROVE Sources
  OBVIOUS
<1>1. Given /\ todo \subseteq Generated /\ header = <<>>
  BY DEF Init, Given
<1>2. DOMAIN header = {}
  BY <1>1
<1>3. QED
  BY <1>1, <1>2 DEF Sources

LEMMA SourcesStep == Progress /\ Sources /\ [Next]_vars => Sources'
<1> SUFFICES ASSUME Progress, Sources, [Next]_vars PROVE Sources'
  OBVIOUS
<1>1. ASSUME tables' = tables, config' = config
      PROVE  Given' /\ Generated' = Generated
  BY <1>1 DEF Sources, Given, Generated
<1>2. ASSUME tables' = tables, config' = config, header' = header, todo' \subseteq Generated,
             status' = 0 => status = 0
      PROVE  Sources'
  <2>1. \A j \in DOMAIN header : FromTable(j) => FromTable(j)'
    BY <1>1, <1>2 DEF FromTable, Earlier
  <2>2. \A j \in DOMAIN header : FromConfig(j) => FromConfig(j)'
    BY <1>1, <1>2 DEF FromConfig, Earlier
  <2>3. QED
    BY <1>1, <1>2, <2>1, <2>2 DEF Sources
<1>3. CASE NotStarted \/ Started \/ TablesFail \/ NullableFails \/ AllTables \/ AllFunctions
  BY <1>2, <1>3 DEF NotStarted, Started, TablesFail, NullableFails, AllTables, AllFunctions, Sources
<1>4. CASE ListTables
  BY <1>2, <1>4 DEF ListTables, Generated
<1>5. ASSUME NEW table \in todo, serialise_table(table) PROVE Sources'
  <2>1. /\ tables' = tables /\ config' = config /\ status' = status /\ todo' \subseteq todo
    BY <1>5 DEF serialise_table
  <2>2. status = 0 => \A j \in DOMAIN header' : (FromTable(j) \/ FromConfig(j))'
    BY <1>5, TableSources
  <2>3. QED
    BY <1>1, <2>1, <2>2 DEF Sources
<1>6. CASE generate_custom_dao_function
  <2>1. /\ tables' = tables /\ config' = config /\ status' = status /\ todo' = todo
    BY <1>6 DEF generate_custom_dao_function
  <2>2. status = 0 => \A j \in DOMAIN header' : (FromTable(j) \/ FromConfig(j))'
    BY <1>6, FunctionSources
  <2>3. QED
    BY <1>1, <2>1, <2>2 DEF Sources
<1>7. CASE FunctionFails
  <2>1. tables' = tables /\ config' = config /\ status' = -1 /\ todo' = todo
    BY <1>7 DEF FunctionFails
  <2>2. QED
    BY <1>1, <2>1 DEF Sources
<1>8. CASE UNCHANGED vars
  BY <1>2, <1>8 DEF vars, Sources
<1>9. QED
  BY <1>3, <1>4, <1>5, <1>6, <1>7, <1>8 DEF Next, Exited, vars

-----------------------------------------------------------------------------
(* The header of a run without failures.                                   *)

Supported ==
    /\ \A table \in Generated : SupportedTable(tables[table])
    /\ \A n \in DOMAIN config : SupportedFunction(config[n], tables)

Done == Progress /\ Sources /\ phase = "exited" /\ status = 0

\* What a run without failures has done.
LEMMA DoneFacts ==
    ASSUME Done
    PROVE  /\ Given
           /\ \A j \in DOMAIN header : FromTable(j) \/ FromConfig(j)
           /\ \A table \in Generated : \A e : In(Emitted(table, tables[table]), e) =>
                  \E j \in DOMAIN header : header[j] = e
           /\ \A n \in DOMAIN config :
                  /\ \E j \in DOMAIN header : header[j] = Custom(config[n])
                  /\ Numbers(config[n]) <= Len(config[n].params)
<1>1. Given /\ \A j \in DOMAIN header : FromTable(j) \/ FromConfig(j)
  BY DEF Done, Sources
<1>2. \A table \in Generated : TableDone(table)
  BY DEF Done, Progress
<1>3. \A table \in Generated : \A e : In(Emitted(table, tables[table]), e) =>
        \E j \in DOMAIN header : header[j] = e
  BY <1>2 DEF TableDone, InHeader, In
<1>4. \A n \in DOMAIN config : FunctionDone(config[n])
  BY AllFunctionsDone DEF Done, Progress
<1>5. ASSUME NEW n \in DOMAIN config
      PROVE  /\ \E j \in DOMAIN header : header[j] = Custom(config[n])
             /\ Numbers(config[n]) <= Len(config[n].params)
  <2> DEFINE f == config[n]
  <2>1. f \in FunctionType
    BY <1>1, GivenFacts
  <2>2. InHeader(Custom(f)) /\ Substituted(f).ok
    BY <1>4 DEF FunctionDone
  <2> HIDE DEF f
  <2>3. Numbers(f) <= Len(f.params)
    BY <2>1, <2>2, SubstitutedOk
  <2>4. \E j \in DOMAIN header : header[j] = Custom(f)
    BY <2>2 DEF InHeader
  <2>5. QED
    BY <2>3, <2>4 DEF f
<1>6. QED
  BY <1>1, <1>3, <1>5

\* A function of the header whose query is complete and right, and whose calls
\* are resolved.
LEMMA TableElementRight ==
    ASSUME Done, Supported, NEW j \in DOMAIN header, FromTable(j)
    PROVE  RightQuery(header[j]) /\ Callable(header, j)
<1>1. PICK table \in Generated : \E k \in DOMAIN Emitted(table, tables[table]) :
        /\ header[j] = Emitted(table, tables[table])[k]
        /\ \A l \in 1..(k - 1) : Earlier(Emitted(table, tables[table])[l], j)
  BY DEF FromTable
<1> DEFINE layout == tables[table]
           E == Emitted(table, layout)
<1>2. PICK k \in DOMAIN E : header[j] = E[k] /\ \A l \in 1..(k - 1) : Earlier(E[l], j)
  BY <1>1
<1>3. table \in Names /\ layout \in LayoutType /\ SupportedTable(layout)
  BY DoneFacts, GivenFacts DEF Supported
<1>4. Others(layout) # <<>> /\ PrimaryKeys(layout) # <<>>
  <2> HIDE DEF layout
  <2>1. QED
    BY <1>3, SupportedFacts
<1>5. Callable(E, k)
  BY <1>4, EmittedCallable
<1>6. RightQuery(header[j])
  <2>1. In(E, header[j])
    BY <1>2 DEF In
  <2>2. tables[table] = layout
    OBVIOUS
  <2> HIDE DEF layout
  <2>3. QED
    BY <1>3, <2>1, <2>2, TableRight
<1> HIDE DEF E
<1>7. ASSUME NEW call \in header[j].calls
      PROVE  \E l \in 1..(j - 1) : Resolves(header[l], call)
  <2>1. PICK l \in 1..(k - 1) : Resolves(E[l], call)
    BY <1>2, <1>5, <1>7 DEF Callable
  <2>2. PICK i \in 1..(j - 1) : header[i] = E[l]
    BY <1>2 DEF Earlier
  <2>3. QED
    BY <2>1, <2>2
<1>8. QED
  BY <1>6, <1>7 DEF Callable

\* The mapper of a table is among what is emitted for it.
LEMMA MapperFacts ==
    ASSUME NEW table, NEW layout
    PROVE  \E e : /\ In(Emitted(table, layout), e)
                  /\ e.name = <<"dao_map", table>> /\ e.params = <<>>
<1>1. In(Emitted(table, layout), emit_dao_mapper(table, layout))
  BY EmittedElements
<1>2. /\ emit_dao_mapper(table, layout).name = <<"dao_map", table>>
      /\ emit_dao_mapper(table, layout).params = <<>>
  BY DEF emit_dao_mapper
<1>3. QED
  BY <1>1, <1>2

LEMMA SupportedFunctionFacts ==
    ASSUME NEW f, NEW schema, Numbers(f) <= Len(f.params)
    PROVE  SupportedFunction(f, schema) <=>
             /\ f.type_mapping \in {""} \cup (DOMAIN schema \ {"db_migration"})
             /\ ~ Exceptional(f)
BY DEF SupportedFunction, Exceptional, Number

LEMMA CustomElementRight ==
    ASSUME Done, Supported, NEW j \in DOMAIN header, FromConfig(j)
    PROVE  /\ Callable(header, j) /\ header[j].query # <<>>
           /\ Evaluated(header[j].query).mode = "complete"
           /\ Len(header[j].name) # 2
           /\ \E n \in DOMAIN config : LET f == config[n] IN
                /\ header[j].name = <<f.identifier>> /\ header[j].params = Columns(f.params)
                /\ Evaluated(header[j].query).sql = CustomMeaning(f)
<1>1. PICK n \in DOMAIN config :
        /\ header[j] = Custom(config[n]) /\ Substituted(config[n]).ok
        /\ \A table \in Generated : \A e : In(Emitted(table, tables[table]), e) => Earlier(e, j)
  BY DEF FromConfig
<1> DEFINE f == config[n]
           x == Custom(f)
<1>2. f \in FunctionType
  BY DoneFacts, GivenFacts
<1>3. Numbers(f) <= Len(f.params)
  BY DoneFacts
<1>4. SupportedFunction(f, tables)
  BY DEF Supported
<1>5. header[j] = x
  BY <1>1
<1> HIDE DEF f
<1>6. f.type_mapping \in {""} \cup Generated /\ ~ Exceptional(f)
  BY <1>3, <1>4, SupportedFunctionFacts DEF Generated
<1>7. Gives("operand", x.query, "complete", CustomMeaning(f))
  BY <1>2, <1>3, <1>6, CustomGives
<1>8. /\ x.name = <<f.identifier>> /\ x.params = Columns(f.params)
      /\ x.calls = IF f.type_mapping = "" THEN {}
                   ELSE {[name |-> <<"dao_map", f.type_mapping>>, args |-> <<>>]}
  BY DEF Custom
<1> HIDE DEF x
<1>9. /\ Evaluated(x.query).mode = "complete" /\ Evaluated(x.query).sql = CustomMeaning(f)
      /\ "complete" # "operand" => x.query # <<>>
  BY <1>7, Completed
<1>10. Len(x.name) # 2
  <2>1. \A y : Len(<<y>>) = 1
    BY NameFacts
  <2>2. x.name = <<f.identifier>>
    BY <1>8
  <2>3. Len(x.name) = 1
    BY <2>1, <2>2
  <2>4. QED
    BY <2>3
<1>11. ASSUME NEW call \in x.calls
       PROVE  \E l \in 1..(j - 1) : Resolves(header[l], call)
  <2>1. /\ f.type_mapping \in Generated
        /\ call = [name |-> <<"dao_map", f.type_mapping>>, args |-> <<>>]
    BY <1>6, <1>8, <1>11
  <2> DEFINE table == f.type_mapping
             name == <<"dao_map", table>>
  <2>2. call.name = name /\ call.args = <<>>
    BY <2>1
  <2>3. PICK e : In(Emitted(table, tables[table]), e) /\ e.name = name /\ e.params = <<>>
    BY MapperFacts
  <2>4. Earlier(e, j)
    BY <1>1, <2>1, <2>3
  <2> HIDE DEF name
  <2>5. Resolves(e, call)
    BY <2>2, <2>3 DEF Resolves
  <2>6. QED
    BY <2>4, <2>5 DEF Earlier
<1>12. Callable(header, j)
  BY <1>5, <1>11 DEF Callable
<1>13. QED
  BY <1>5, <1>8, <1>9, <1>10, <1>12 DEF f

LEMMA CompilesWhenSupported ==
    ASSUME Done, Supported
    PROVE  Compiles
<1>1. \A j \in DOMAIN header : FromTable(j) \/ FromConfig(j)
  BY DoneFacts
<1>2. ASSUME NEW j \in DOMAIN header
      PROVE  /\ header[j].query # <<>> => Evaluated(header[j].query).mode = "complete"
             /\ Callable(header, j)
  <2>1. CASE FromTable(j)
    BY <2>1, TableElementRight DEF RightQuery
  <2>2. CASE FromConfig(j)
    BY <2>2, CustomElementRight
  <2>3. QED
    BY <1>1, <2>1, <2>2
<1>3. QED
  BY <1>2 DEF Compiles, Callable, Resolves

\* Which table a function of the header belongs to.
LEMMA NameTells ==
    ASSUME Done, NEW j \in DOMAIN header, NEW table
    PROVE  /\ header[j].name = <<"dao_map", table>> => table \in Generated
           /\ header[j].name = <<"get_one", table>> => PrimaryKeys(tables[table]) # <<>>
           /\ header[j].name = <<"update", table>> => Others(tables[table]) # <<>>
<1> SUFFICES ASSUME NEW kind \in {"dao_map", "get_one", "update"}, header[j].name = <<kind, table>>
             PROVE  /\ table \in Generated
                    /\ kind = "get_one" => PrimaryKeys(tables[table]) # <<>>
                    /\ kind = "update" => Others(tables[table]) # <<>>
  OBVIOUS
<1>1. ~ FromConfig(j)
  <2>1. \A n : Custom(config[n]).name = <<config[n].identifier>>
    BY DEF Custom
  <2>2. SUFFICES ASSUME FromConfig(j) PROVE FALSE
    OBVIOUS
  <2>3. PICK n \in DOMAIN config : header[j] = Custom(config[n])
    BY <2>2 DEF FromConfig
  <2>4. header[j].name = <<config[n].identifier>>
    BY <2>1, <2>3
  <2> DEFINE x == config[n].identifier
  <2>5. <<x>> = <<kind, table>>
    BY <2>4
  <2> HIDE DEF x
  <2>6. QED
    BY <2>5, NameFacts
<1>2. PICK other \in Generated : \E k \in DOMAIN Emitted(other, tables[other]) :
        header[j] = Emitted(other, tables[other])[k]
  BY <1>1, DoneFacts DEF FromTable
<1> DEFINE layout == tables[other]
           e == header[j]
<1>3. In(Emitted(other, layout), e)
  BY <1>2 DEF In
<1>4. e.name = <<kind, table>>
  OBVIOUS
<1> HIDE DEF layout, e
<1>5. \/ e \in {emit_struct(other, layout), emit_dao_mapper(other, layout),
                emit_insert(other, layout), emit_save(other, layout)}
      \/ Others(layout) # <<>> /\ e = emit_update(other, layout)
      \/ PrimaryKeys(layout) # <<>> /\ e \in {GetOne(other, layout), GetAll(other, layout)}
  BY <1>3, EmittedElements
<1>6. /\ emit_struct(other, layout).name = <<other>>
      /\ emit_dao_mapper(other, layout).name = <<"dao_map", other>>
      /\ emit_insert(other, layout).name = <<"insert", other>>
      /\ emit_update(other, layout).name = <<"update", other>>
      /\ GetOne(other, layout).name = <<"get_one", other>>
      /\ GetAll(other, layout).name = <<"get_all", other>>
      /\ emit_save(other, layout).name = <<"save", other>>
  BY ElementNames
<1> DEFINE a == emit_struct(other, layout)
           b == emit_dao_mapper(other, layout)
           c == emit_insert(other, layout)
           d == emit_update(other, layout)
           f == GetOne(other, layout)
           g == GetAll(other, layout)
           h == emit_save(other, layout)
<1>7. \/ e \in {a, b, c, h}
      \/ Others(layout) # <<>> /\ e = d
      \/ PrimaryKeys(layout) # <<>> /\ e \in {f, g}
  BY <1>5
<1>8. /\ a.name = <<other>> /\ b.name = <<"dao_map", other>> /\ c.name = <<"insert", other>>
      /\ d.name = <<"update", other>> /\ f.name = <<"get_one", other>>
      /\ g.name = <<"get_all", other>> /\ h.name = <<"save", other>>
  BY <1>6
<1> HIDE DEF a, b, c, d, f, g, h
<1>9. /\ table = other
      /\ kind = "get_one" => PrimaryKeys(layout) # <<>>
      /\ kind = "update" => Others(layout) # <<>>
  BY <1>4, <1>7, <1>8, NameFacts
<1>10. QED
  BY <1>9 DEF layout

LEMMA SupportedWhenCompiles ==
    ASSUME Done, Compiles
    PROVE  Supported
<1>1. \A j \in DOMAIN header :
        /\ ~ Incomplete(header[j].query)
        /\ \A call \in header[j].calls : \E l \in 1..(j - 1) : Resolves(header[l], call)
  BY DEF Compiles, Incomplete, Resolves
<1>2. \A j \in DOMAIN header : \A l \in 1..(j - 1) : l \in DOMAIN header
  <2>1. IsSeq(header)
    BY DEF Done, Progress
  <2>2. header \in Seq({header[i] : i \in DOMAIN header})
    BY <2>1 DEF IsSeq
  <2>3. DOMAIN header = 1..Len(header) /\ Len(header) \in Nat
    BY <2>2, LenProperties
  <2>4. QED
    BY <2>3
<1>3. ASSUME NEW table \in Generated PROVE SupportedTable(tables[table])
  <2> DEFINE layout == tables[table]
             E == Emitted(table, layout)
             first == emit_insert(table, layout)
             second == emit_update(table, layout)
             third == GetOne(table, layout)
             last == emit_save(table, layout)
  <2>1. table \in Names /\ layout \in LayoutType
    BY DoneFacts, GivenFacts
  <2>2. \A e : In(E, e) => \E j \in DOMAIN header : header[j] = e
    BY DoneFacts
  <2>3. /\ In(E, first) /\ In(E, last)
        /\ Others(layout) # <<>> => In(E, second)
        /\ PrimaryKeys(layout) # <<>> => In(E, third)
    BY EmittedElements
  <2>4. /\ [name |-> <<"get_one", table>>, args |-> Columns(PrimaryKeys(layout))] \in last.calls
        /\ [name |-> <<"update", table>>, args |-> Columns(layout)] \in last.calls
    BY ElementNames
  <2> HIDE DEF E, first, second, third, last
  <2>5. PICK j \in DOMAIN header : header[j] = last
    BY <2>2, <2>3
  <2>6. PrimaryKeys(layout) # <<>>
    <3>1. PICK l \in 1..(j - 1) : header[l].name = <<"get_one", table>>
      BY <1>1, <2>4, <2>5 DEF Resolves
    <3>2. QED
      BY <1>2, <3>1, NameTells
  <2>7. Others(layout) # <<>>
    <3>1. PICK l \in 1..(j - 1) : header[l].name = <<"update", table>>
      BY <1>1, <2>4, <2>5 DEF Resolves
    <3>2. QED
      BY <1>2, <3>1, NameTells
  <2>8. ~ Incomplete(first.query) /\ ~ Incomplete(second.query) /\ ~ Incomplete(third.query)
    BY <1>1, <2>2, <2>3, <2>6, <2>7
  <2> HIDE DEF layout
  <2>9. SupportedTable(layout)
    BY <2>1, <2>6, <2>7, <2>8, TableNeeded DEF first, second, third
  <2>10. QED
    BY <2>9 DEF layout
<1>4. ASSUME NEW n \in DOMAIN config PROVE SupportedFunction(config[n], tables)
  <2> DEFINE f == config[n]
             x == Custom(f)
             name == <<"dao_map", f.type_mapping>>
  <2>1. f \in FunctionType /\ Numbers(f) <= Len(f.params)
    BY DoneFacts, GivenFacts
  <2>2. PICK j \in DOMAIN header : header[j] = x
    BY DoneFacts
  <2> HIDE DEF f
  <2>3. ~ Exceptional(f)
    <3>1. SUFFICES ASSUME Exceptional(f) PROVE FALSE
      OBVIOUS
    <3>2. Incomplete(x.query)
      BY <2>1, <3>1, CustomBreaks, BreaksIncomplete
    <3> HIDE DEF x
    <3>3. QED
      BY <1>1, <2>2, <3>2
  <2>4. f.type_mapping # "" => x.calls = {[name |-> name, args |-> <<>>]}
    BY DEF Custom
  <2> HIDE DEF x
  <2>5. f.type_mapping \in {""} \cup Generated
    <3>1. SUFFICES ASSUME f.type_mapping # "" PROVE f.type_mapping \in Generated
      OBVIOUS
    <3> DEFINE call == [name |-> name, args |-> <<>>]
    <3>2. call \in header[j].calls /\ call.name = name
      BY <2>2, <2>4, <3>1
    <3> HIDE DEF call
    <3>3. PICK l \in 1..(j - 1) : header[l].name = name
      BY <1>1, <3>2 DEF Resolves
    <3>4. QED
      BY <1>2, <3>3, NameTells
  <2>6. SupportedFunction(f, tables)
    BY <2>1, <2>3, <2>5, SupportedFunctionFacts DEF Generated
  <2>7. QED
    BY <2>6 DEF f
<1>5. QED
  BY <1>3, <1>4 DEF Supported

LEMMA RightWhenDone ==
    ASSUME Done, Compiles
    PROVE  \A i \in DOMAIN header :
             IF OfTable(header[i]) THEN Evaluated(header[i].query).sql = Meaning(header[i])
             ELSE header[i].query # <<>> =>
               \E n \in DOMAIN config : LET f == config[n] IN
                 /\ header[i].name = <<f.identifier>> /\ header[i].params = Columns(f.params)
                 /\ Evaluated(header[i].query).sql = CustomMeaning(f)
<1>1. Supported
  BY SupportedWhenCompiles
<1>2. \A j \in DOMAIN header : FromTable(j) \/ FromConfig(j)
  BY DoneFacts
<1> SUFFICES ASSUME NEW i \in DOMAIN header
             PROVE  /\ OfTable(header[i]) => Evaluated(header[i].query).sql = Meaning(header[i])
                    /\ ~ OfTable(header[i]) /\ header[i].query # <<>> =>
                         \E n \in DOMAIN config : LET f == config[n] IN
                           /\ header[i].name = <<f.identifier>> /\ header[i].params = Columns(f.params)
                           /\ Evaluated(header[i].query).sql = CustomMeaning(f)
  OBVIOUS
<1>3. CASE FromTable(i)
  <2>1. RightQuery(header[i])
    BY <1>1, <1>3, TableElementRight
  <2>2. QED
    BY <2>1 DEF RightQuery, OfTable
<1>4. CASE FromConfig(i)
  <2>1. /\ Len(header[i].name) # 2
        /\ \E n \in DOMAIN config : LET f == config[n] IN
             /\ header[i].name = <<f.identifier>> /\ header[i].params = Columns(f.params)
             /\ Evaluated(header[i].query).sql = CustomMeaning(f)
    BY <1>1, <1>4, CustomElementRight
  <2>2. QED
    BY <2>1 DEF OfTable
<1>5. QED
  BY <1>2, <1>3, <1>4

LEMMA SourcesAlways == Spec => [](Progress /\ Sources)
<1>1. Init => Progress /\ Sources
  BY ProgressInit, SourcesInit
<1>2. Progress /\ Sources /\ [Next]_vars => (Progress /\ Sources)'
  BY ProgressStep, SourcesStep
<1>3. QED
  BY <1>1, <1>2, PTL DEF Spec

\* The header of a run without failures compiles exactly if every table and
\* every function is of the kind that the generator can deal with, whatever
\* the schema and the configuration.
THEOREM CompilesCorrect == Spec => []CompilesIfSupported
<1>1. Progress /\ Sources => CompilesIfSupported
  <2>1. Done => (Compiles <=> Supported)
    BY CompilesWhenSupported, SupportedWhenCompiles
  <2>2. QED
    BY <2>1 DEF CompilesIfSupported, Done, Supported, Generated
<1>2. QED
  BY <1>1, SourcesAlways, PTL

\* The functions of a header that compiles send what the layouts of the tables
\* and the queries of config/daos.cfg ask for, with every value in its place.
THEOREM StatementsCorrect == Spec => []CompiledIsRight
<1>1. Progress /\ Sources => CompiledIsRight
  <2>1. SUFFICES ASSUME Done, Compiles
                 PROVE  \A i \in DOMAIN header :
                          IF OfTable(header[i]) THEN Evaluated(header[i].query).sql = Meaning(header[i])
                          ELSE header[i].query # <<>> =>
                            \E n \in DOMAIN config : LET f == config[n] IN
                              /\ header[i].name = <<f.identifier>> /\ header[i].params = Columns(f.params)
                              /\ Evaluated(header[i].query).sql = CustomMeaning(f)
    BY DEF Done, CompiledIsRight
  <2>2. QED
    BY <2>1, RightWhenDone
<1>2. QED
  BY <1>1, SourcesAlways, PTL
================================================================================
