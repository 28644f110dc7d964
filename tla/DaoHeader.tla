------------------------------- MODULE DaoHeader -------------------------------
(***************************************************************************)
(* What include/dao/dao.h has to be: what a C++ compiler makes of the      *)
(* header, and what the generated functions have to send to the database.  *)
(***************************************************************************)
EXTENDS Codegen, FiniteSets

-------------------------------------------------------------------------------
(* The compiler. An expression is literals and terms joined by '+' up to a   *)
(* ';'; two literals may follow each other, a term and a literal may not.    *)

TermKinds == {"value", "quoted", "optional", "optional quoted", "any"}
SqlOf(term) ==
  CASE term[1] = "quoted" -> <<Quote, <<"value", term[2]>>, Quote>>
    [] term[1] = "optional" -> <<<<"value or null", term[2]>>>>
    [] term[1] = "optional quoted" -> <<<<"quoted value or null", term[2]>>>>
    [] OTHER -> <<term>>

InLiteral(r, token) ==
  IF token = Mark THEN [r EXCEPT !.mode = "after literal"]
  ELSE [r EXCEPT !.sql = Append(@, IF token = <<"\\\"">> THEN Mark ELSE token)]

ReadToken(r, token) ==
  CASE r.mode = "literal" -> InLiteral(r, token)
    [] r.mode \in {"operand", "after literal"} /\ token = Mark -> [r EXCEPT !.mode = "literal"]
    [] r.mode = "operand" /\ token[1] \in TermKinds \ {"any"} ->
         [mode |-> "after term", sql |-> r.sql \o SqlOf(token)]
    [] r.mode \in {"after literal", "after term"} /\ token = Plus -> [r EXCEPT !.mode = "operand"]
    [] r.mode \in {"after literal", "after term"} /\ token = Semi -> [r EXCEPT !.mode = "complete"]
    [] OTHER -> [r EXCEPT !.mode = "malformed"]

ReadState ==
  [mode : {"operand", "literal", "after literal", "after term", "complete", "malformed"},
   sql : Seq(Tokens)]

Evaluated(query) ==
  Fold([x \in ReadState \X Tokens |-> ReadToken(x[1], x[2])],
       [mode |-> "operand", sql |-> <<>>], query)

Compiles ==
  \A i \in DOMAIN header :
    /\ header[i].query # <<>> => Evaluated(header[i].query).mode = "complete"
    /\ \A call \in header[i].calls : \E j \in 1 .. (i - 1) :
         header[j].name = call.name /\ header[j].params = call.args

-------------------------------------------------------------------------------
(* The statements, from the layout of a table.                               *)

Join(seqs, separator) ==
  Flat([i \in DOMAIN seqs |-> IF i = 1 THEN seqs[i] ELSE separator \o seqs[i]])

InSql(pair) ==
  LET text == pair.value.type \in {"text", "uuid"}
  IN  SqlOf(<<IF pair.value.is_nullable THEN IF text THEN "optional quoted" ELSE "optional"
                                        ELSE IF text THEN "quoted" ELSE "value", pair.key>>)
Named(pair) == <<<<pair.key>>, <<"=">>>> \o InSql(pair)
Each(map, Op(_)) == [i \in DOMAIN map |-> Op(map[i])]

Meaning(function) ==
  LET kind == function.name[1]
      layout == tables[function.name[2]]
      where == Join(Each(PrimaryKeys(layout), Named), <<<<"AND">>>>)
  IN CASE kind = "insert" ->
            <<<<"INSERT INTO", function.name[2]>>, <<"(">>>>
            \o Join([i \in DOMAIN layout |-> <<<<layout[i].key>>>>], <<<<",">>>>)
            \o <<<<")">>, <<"VALUES">>, <<"(">>>>
            \o Join(Each(layout, InSql), <<<<",">>>>) \o <<<<")">>>>
       [] kind = "update" ->
            <<<<"UPDATE", function.name[2]>>, <<"SET">>>>
            \o Join(Each(Others(layout), Named), <<<<",">>>>) \o <<<<"WHERE">>>> \o where \o <<Semi>>
       [] kind = "get_one" -> <<<<"SELECT", function.name[2]>>, <<"WHERE">>>> \o where
       [] kind = "get_all" -> <<<<"SELECT", function.name[2]>>>>

OfTable(function) == Len(function.name) = 2 /\ function.query # <<>>

\* The n-th question mark is the n-th parameter, in quotation marks if it is text.
Numbered(query, i) == Cardinality({j \in 1 .. i : query[j] = <<"?">>})
CustomMeaning(function) ==
  Flat([i \in DOMAIN function.query |->
          IF function.query[i] # <<"?">> THEN <<function.query[i]>>
          ELSE LET param == function.params[Numbered(function.query, i)]
               IN SqlOf(<<IF param.value = "std::string" THEN "quoted" ELSE "value", param.key>>)])

(* A header that compiles has no wrong statement in it: each function sends  *)
(* what its table's layout or its query in config/daos.cfg asks for, with    *)
(* every value in its place, in quotation marks where it is text and null    *)
(* where it is missing. A layout or query the generator cannot deal with     *)
(* shows when the server is built, never when it runs.                       *)
CompiledIsRight ==
  phase = "exited" /\ status = 0 /\ Compiles =>
    \A i \in DOMAIN header :
      IF OfTable(header[i]) THEN Evaluated(header[i].query).sql = Meaning(header[i])
      ELSE header[i].query # <<>> =>
        \E n \in DOMAIN config : LET f == config[n] IN
          /\ header[i].name = <<f.identifier>> /\ header[i].params = Columns(f.params)
          /\ Evaluated(header[i].query).sql = CustomMeaning(f)

(* The header of a run without failures compiles exactly when every table is *)
(* like those of the repository - one primary key, of a text type, and other *)
(* columns, all of types with a C++ counterpart - and every function names a *)
(* table, has a parameter for each question mark of its query, and a query   *)
(* that does not consist in one number at its end.                           *)
SupportedTable(layout) ==
  /\ Len(PrimaryKeys(layout)) = 1 /\ needs_quotes(PrimaryKeys(layout)[1].value.type)
  /\ Others(layout) # <<>>
  /\ \A i \in DOMAIN layout : layout[i].value.type \in DOMAIN CppTypes
Numbers(f) == Numbered(f.query, Len(f.query))
SupportedFunction(f, schema) ==
  /\ Numbers(f) <= Len(f.params)
  /\ f.type_mapping \in {""} \cup (DOMAIN schema \ {"db_migration"})
  /\ Numbers(f) = 1 /\ f.query[Len(f.query)] = <<"?">> => f.params[1].value = "std::string"

CompilesIfSupported ==
  phase = "exited" /\ status = 0 =>
    (Compiles <=> /\ \A table \in DOMAIN tables \ {"db_migration"} : SupportedTable(tables[table])
                  /\ \A n \in DOMAIN config : SupportedFunction(config[n], tables))
===============================================================================
