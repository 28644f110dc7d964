-------------------------------- MODULE Codegen --------------------------------
(***************************************************************************)
(* The generator of include/dao/dao.h (src/codegen/gen.cpp): it inspects   *)
(* the database, and emits for every table a struct, a mapper and the      *)
(* insert, update, select and save functions, then the functions of        *)
(* config/daos.cfg.                                                        *)
(*                                                                         *)
(* A generated function is a record of its name, its parameters, the calls *)
(* it makes and the C++ expression of its query, a sequence of tokens. A   *)
(* token is a tuple of strings: a mark of C++ or a piece of SQL, or a      *)
(* parameter that xto_string turns into text.                              *)
(***************************************************************************)
EXTENDS Integers, Sequences, OrderedMap

CONSTANTS Inputs,   \* what the program may find: the tables of the database, a function
                    \* to layouts, and the functions of config/daos.cfg, a sequence
          Names,    \* what tables, columns, functions and their parameters are called
          Types,    \* what the types of columns and parameters are called
          Pieces    \* what the queries of config/daos.cfg are made of

\* A key is never null; a parameter has a type of C++. No name and no query has
\* a backslash and a quotation mark.
FieldType == {field \in [type : Types, is_primary : BOOLEAN, is_nullable : BOOLEAN] :
                field.is_primary => ~ field.is_nullable}
LayoutType == Seq([key : Names, value : FieldType])
FunctionType ==
  [identifier : Names, type_mapping : Names \cup {""}, query : Seq(Pieces),
   params : Seq([key : Names, value : Types \ {"text", "varchar", "uuid"}])]

ASSUME InputsAssumption ==
  /\ {"\"", "\\\""} \cap Names = {} /\ "" \notin Names /\ <<"\\\"">> \notin Pieces
  /\ \A input \in Inputs :
       /\ DOMAIN input.tables \subseteq Names
       /\ \A table \in DOMAIN input.tables : input.tables[table] \in LayoutType
       /\ input.config \in Seq(FunctionType)

VARIABLES tables,     \* the tables of the schema 'public' and their layouts
          config,     \* the functions that config/daos.cfg describes
          functions,  \* those generate_custom_dao_functions has not come to
          todo,       \* the tables generate_tables has not come to
          header,     \* the functions emitted
          phase,      \* what main is doing
          status      \* the value main returns

vars == <<tables, config, functions, todo, header, phase, status>>

-------------------------------------------------------------------------------
(* Types and values.                                                         *)

needs_quotes(type) == type \in {"text", "varchar", "uuid", "std::string"}

CppTypes == [text |-> "std::string", integer |-> "int", uuid |-> "std::string",
             boolean |-> "bool", float |-> "float"]
map_types(field) == IF field.type \in DOMAIN CppTypes THEN CppTypes[field.type] ELSE "std::any"

Mark  == <<"\"">>    \* the quotation mark that opens and closes a C++ literal
Plus  == <<"+">>
Semi  == <<";">>
Quote == <<"'">>     \* the quotation mark of SQL

Words == {"\"", "\\\"", "+", ";", "'", "(", ")", ",", "=", "SET", "VALUES", "WHERE", "AND"}
Kinds == {"INSERT INTO", "UPDATE", "SELECT", "value", "quoted", "optional", "optional quoted", "any",
          "value or null", "quoted value or null"}
Tokens == {<<word>> : word \in Words \cup Names} \cup {<<kind, name>> : kind \in Kinds, name \in Names}
          \cup Pieces

\* xto_string of a parameter, with the quotes and the null that go around it.
\* There is no xto_string of a std::any.
Term(field, param) ==
  <<IF map_types(field) = "std::any" THEN "any"
    ELSE IF field.is_nullable
      THEN IF needs_quotes(field.type) THEN "optional quoted" ELSE "optional"
      ELSE IF needs_quotes(field.type) THEN "quoted" ELSE "value", param>>

prep_value(field, param, last) ==
  <<Mark, Plus, Term(field, param)>>
  \o IF last /\ ~ needs_quotes(field.type) THEN <<>> ELSE <<Plus, Mark>>

-------------------------------------------------------------------------------
(* The functions of a table.                                                 *)

Columns(layout) == [i \in DOMAIN layout |-> layout[i].key]
Fields(layout, primary) == {field \in {layout[i].value : i \in DOMAIN layout} : field.is_primary = primary}
PrimaryKeys(layout) == filter(layout, Fields(layout, TRUE))
Others(layout) == filter(layout, Fields(layout, FALSE))

emit_struct(table, layout) ==
  [name |-> <<table>>, params |-> Columns(layout), calls |-> {}, query |-> <<>>]

emit_dao_mapper(table, layout) ==
  [name |-> <<"dao_map", table>>, params |-> <<>>, query |-> <<>>,
   calls |-> {[name |-> <<table>>, args |-> Columns(layout)]}]

\* Faulty variant: the columns are named with the keys first, the values are not.
emit_insert_keys_first(table, layout) ==
  [name |-> <<"insert", table>>, params |-> Columns(layout), calls |-> {},
   query |->
     <<Mark, <<"INSERT INTO", table>>, <<"(">>>>
     \o for_each(PrimaryKeys(layout) \o Others(layout), LAMBDA pair, last :
                   <<<<pair.key>>>> \o IF last THEN <<<<")">>, <<"VALUES">>, <<"(">>>> ELSE <<<<",">>>>)
     \o for_each(layout, LAMBDA pair, last :
                   prep_value(pair.value, pair.key, last)
                   \o IF ~ last THEN <<<<",">>>>
                      ELSE (IF needs_quotes(pair.value.type) THEN <<>> ELSE <<Plus, Mark>>)
                           \o <<<<")">>, Mark, Semi>>)]

emit_insert(table, layout) ==
  [name |-> <<"insert", table>>, params |-> Columns(layout), calls |-> {},
   query |->
     <<Mark, <<"INSERT INTO", table>>, <<"(">>>>
     \o for_each(layout, LAMBDA pair, last :
                   <<<<pair.key>>>> \o IF last THEN <<<<")">>, <<"VALUES">>, <<"(">>>> ELSE <<<<",">>>>)
     \o for_each(layout, LAMBDA pair, last :
                   prep_value(pair.value, pair.key, last)
                   \o IF ~ last THEN <<<<",">>>>
                      ELSE (IF needs_quotes(pair.value.type) THEN <<>> ELSE <<Plus, Mark>>)
                           \o <<<<")">>, Mark, Semi>>)]

emit_update(table, layout) ==
  [name |-> <<"update", table>>, params |-> Columns(layout), calls |-> {},
   query |->
     <<Mark, <<"UPDATE", table>>, <<"SET">>>>
     \o for_each(Others(layout), LAMBDA pair, last :
                   <<<<pair.key>>, <<"=">>>>
                   \o prep_value(pair.value, pair.key, last /\ Others(layout) = layout)
                   \o IF last THEN <<>> ELSE <<<<",">>>>)
     \o <<<<"WHERE">>>>
     \o for_each(PrimaryKeys(layout), LAMBDA pair, last :
                   <<<<pair.key>>, <<"=">>>> \o prep_value(pair.value, pair.key, last)
                   \o IF last THEN <<>> ELSE <<<<"AND">>>>)
     \o <<Semi, Mark, Semi>>]

Quotes(field) == IF needs_quotes(field.type) THEN <<Quote>> ELSE <<>>

emit_select(table, layout) ==
  << [name |-> <<"get_one", table>>, params |-> Columns(PrimaryKeys(layout)),
      calls |-> {[name |-> <<"dao_map", table>>, args |-> <<>>]},
      query |->
        <<Mark, <<"SELECT", table>>, <<"WHERE">>>>
        \o for_each(PrimaryKeys(layout), LAMBDA pair, last :
             <<<<pair.key>>, <<"=">>>> \o Quotes(pair.value) \o <<Mark, Plus, <<"value", pair.key>>>>
             \o IF ~ last THEN <<Mark>> \o Quotes(pair.value) \o <<<<"AND">>>>
                ELSE IF needs_quotes(pair.value.type) THEN <<Plus, Mark, Quote, Mark, Semi>>
                ELSE <<Semi>>)],
     [name |-> <<"get_all", table>>, params |-> <<>>,
      calls |-> {[name |-> <<"dao_map", table>>, args |-> <<>>]},
      query |-> <<Mark, <<"SELECT", table>>, Mark, Semi>>] >>

emit_save(table, layout) ==
  [name |-> <<"save", table>>, params |-> Columns(layout), query |-> <<>>,
   calls |-> {[name |-> <<"get_one", table>>, args |-> Columns(PrimaryKeys(layout))],
              [name |-> <<"insert", table>>, args |-> Columns(layout)],
              [name |-> <<"update", table>>, args |-> Columns(layout)]}]

\* Everything serialise_table emits, in its order.
Emitted(table, layout) ==
  <<emit_struct(table, layout), emit_dao_mapper(table, layout), emit_insert(table, layout)>>
  \o (IF Others(layout) = <<>> THEN <<>> ELSE <<emit_update(table, layout)>>)
  \o (IF PrimaryKeys(layout) = <<>> THEN <<>> ELSE emit_select(table, layout))
  \o <<emit_save(table, layout)>>

-------------------------------------------------------------------------------
(* A function of config/daos.cfg. Its query is a sequence of pieces of SQL,  *)
(* in which the piece <<"?">> stands for the next parameter.                 *)

Sanitized(query) == [i \in DOMAIN query |-> IF query[i] = Mark THEN <<"\\\"">> ELSE query[i]]
Raw(query) == <<Mark>> \o Sanitized(query) \o <<Mark>>

\* After a parameter that ends at the position pos of the text, a literal is
\* opened again. Faulty variant: only if there is more to come.
ReopensBefore(pos, raw, quotes) == pos < Len(raw) - 2
Reopens(pos, raw, quotes) == pos < Len(raw) - 2 \/ quotes # <<>>

\* The loop over the question marks: q.at is the piece of the last one, so that
\* the position that find('?') returns is i - q.at - 1.
Substitute(q, raw, i, params) ==
  IF ~ q.ok THEN q
  ELSE IF raw[i] # <<"?">> THEN [q EXCEPT !.out = Append(@, raw[i])]
  ELSE IF q.nParam >= Len(params) THEN [q EXCEPT !.ok = FALSE]
  ELSE LET param  == params[q.nParam + 1]
           quotes == IF needs_quotes(param.value) THEN <<Quote>> ELSE <<>>
       IN [ok |-> TRUE, nParam |-> q.nParam + 1, at |-> i,
           out |-> q.out \o quotes \o <<Mark, Plus, <<"value", param.key>>>>
                   \o (IF Reopens(i - q.at - 1, raw, quotes) THEN <<Plus, Mark>> ELSE <<>>)
                   \o quotes]

SubstituteState == [ok : BOOLEAN, nParam : Nat, at : Nat, out : Seq(Tokens)]

Substituted(function) ==
  LET raw == Raw(function.query)
  IN Fold([x \in SubstituteState \X DOMAIN raw |-> Substitute(x[1], raw, x[2], function.params)],
          [ok |-> TRUE, nParam |-> 0, at |-> 0, out |-> <<>>], [i \in DOMAIN raw |-> i])

Custom(function) ==
  [name |-> <<function.identifier>>, params |-> Columns(function.params),
   calls |-> IF function.type_mapping = "" THEN {}
             ELSE {[name |-> <<"dao_map", function.type_mapping>>, args |-> <<>>]},
   query |-> Substituted(function).out \o <<Semi>>]

\* What has been emitted of a function when the parameters run out: its head.
Broken(function) == [Custom(function) EXCEPT !.query = <<Plus>>]

-------------------------------------------------------------------------------
(* The program.                                                              *)

Init ==
  /\ \E input \in Inputs : tables = input.tables /\ config = input.config
  /\ functions = config
  /\ todo = {} /\ header = <<>> /\ phase = "starting" /\ status = 0

\* A configuration file is not accepted, or there is no database.
NotStarted ==
  /\ phase = "starting"
  /\ phase' = "exited" /\ status' = 1
  /\ UNCHANGED <<tables, config, functions, todo, header>>

Started ==
  /\ phase = "starting" /\ phase' = "listing"
  /\ UNCHANGED <<tables, config, functions, todo, header, status>>

ListTables ==
  /\ phase = "listing" /\ phase' = "tables"
  /\ todo' = DOMAIN tables \ {"db_migration"}
  /\ UNCHANGED <<tables, config, functions, header, status>>

\* Faulty variant: the status does not tell of it.
TablesFailSilently ==
  /\ phase = "listing" \/ (phase = "tables" /\ todo # {})
  /\ phase' = "functions"
  /\ UNCHANGED <<tables, config, functions, todo, header, status>>

\* The query for the tables, for the columns or for the keys of one fails.
TablesFail ==
  /\ phase = "listing" \/ (phase = "tables" /\ todo # {})
  /\ phase' = "functions" /\ status' = -1
  /\ UNCHANGED <<tables, config, functions, todo, header>>

\* The query for the nullable columns fails: the wrong result is tested, and
\* strcmp is called with no text.
NullableFails ==
  /\ phase = "tables" /\ todo # {}
  /\ phase' = "exited" /\ status' = 139
  /\ UNCHANGED <<tables, config, functions, todo, header>>

\* The tables come in the order of a query without ORDER BY.
serialise_table(table) ==
  /\ phase = "tables" /\ table \in todo
  /\ header' = header \o Emitted(table, tables[table])
  /\ todo' = todo \ {table}
  /\ UNCHANGED <<tables, config, functions, phase, status>>

AllTables ==
  /\ phase = "tables" /\ todo = {}
  /\ phase' = "functions"
  /\ UNCHANGED <<tables, config, functions, todo, header, status>>

generate_custom_dao_function ==
  /\ phase = "functions" /\ functions # <<>> /\ Substituted(Head(functions)).ok
  /\ header' = Append(header, Custom(Head(functions)))
  /\ functions' = Tail(functions)
  /\ UNCHANGED <<tables, config, todo, phase, status>>

FunctionFails ==
  /\ phase = "functions" /\ functions # <<>> /\ ~ Substituted(Head(functions)).ok
  /\ header' = Append(header, Broken(Head(functions)))
  /\ phase' = "exited" /\ status' = -1
  /\ UNCHANGED <<tables, config, functions, todo>>

AllFunctions ==
  /\ phase = "functions" /\ functions = <<>>
  /\ phase' = "exited"
  /\ UNCHANGED <<tables, config, functions, todo, header, status>>

Exited == phase = "exited" /\ UNCHANGED vars

Next ==
  \/ NotStarted \/ Started \/ ListTables \/ TablesFail \/ NullableFails \/ AllTables
  \/ generate_custom_dao_function \/ FunctionFails \/ AllFunctions \/ Exited
  \/ \E table \in todo : serialise_table(table)

Spec == Init /\ [][Next]_vars

-------------------------------------------------------------------------------
(* When the program exits with status 0, everything that is to be generated  *)
(* is in the header, in whatever order the tables came: no query failed, and *)
(* no function ran out of parameters.                                        *)
NothingMissing ==
  phase = "exited" /\ status = 0 =>
    /\ \A table \in DOMAIN tables \ {"db_migration"} :
         \A i \in DOMAIN Emitted(table, tables[table]) :
           \E j \in DOMAIN header : header[j] = Emitted(table, tables[table])[i]
    /\ \A i \in DOMAIN config : \E j \in DOMAIN header : header[j] = Custom(config[i])
===============================================================================
