------------------------------- MODULE MCCodegen -------------------------------
(* Instances of DaoHeader: schemas and configurations.                       *)
EXTENDS DaoHeader, SequencesExt

Field(type, pk, nullable) == [type |-> type, is_primary |-> pk, is_nullable |-> nullable]
MCFields == [type : {"text", "integer"}, is_primary : BOOLEAN, is_nullable : {FALSE}]
          \cup [type : {"text", "integer"}, is_primary : {FALSE}, is_nullable : {TRUE}]
          \cup {Field("character varying", FALSE, FALSE)}
Layout(names, fields) == [i \in DOMAIN fields |-> [key |-> names[i], value |-> fields[i]]]
Layouts == {Layout(<<"a", "b", "c">>, fields) :
              fields \in UNION {[1 .. n -> MCFields] : n \in 1 .. 3}}
OneTable == {[tables |-> [t |-> layout], config |-> <<>>] : layout \in Layouts}

Function(identifier, mapping, query, types) ==
  [identifier |-> identifier, type_mapping |-> mapping, query |-> query,
   params |-> [i \in DOMAIN types |-> [key |-> <<"x", "y", "z">>[i], value |-> types[i]]]]
FewTables == [t |-> Layout(<<"a", "b">>, <<Field("text", TRUE, FALSE), Field("text", FALSE, FALSE)>>)]
QueryPieces == {<<"?">>, <<"s">>, Mark, Quote}
Functions(mappings, queries) ==
  {[tables |-> FewTables, config |-> <<Function("f", mapping, query, types)>>] :
     mapping \in mappings, query \in queries \ {<<>>},
     types \in BoundedSeq({"std::string", "int"}, 2)}
OneFunction == Functions({""}, BoundedSeq(QueryPieces, 4)) \cup Functions({"t", "none"}, BoundedSeq(QueryPieces, 2))

Id == Field("text", TRUE, FALSE)
N(type) == Field(type, FALSE, FALSE)
Table(names, fields) == Layout(names, <<Id>> \o fields)
RepositorySchema ==
  [ user |-> Table(<<"id", "nickname">>, <<N("text")>>),
    scene |-> Table(<<"id", "author", "scene_name", "description">>,
                    <<N("text"), N("text"), N("text")>>),
    circuit |-> Table(<<"id", "parent_scene", "location_x", "location_y", "parent_circuit", "gate_type">>,
                      <<N("uuid"), N("integer"), N("integer"), Field("uuid", FALSE, TRUE), N("text")>>),
    wire |-> Table(<<"id", "source_circuit", "target_circuit", "init_signal", "amount_input",
                     "amount_output", "location">>,
                   <<N("uuid"), N("uuid"), N("boolean"), N("integer"), N("integer"), N("text")>>),
    db_migration |-> Layout(<<"number">>, <<Field("integer", TRUE, FALSE)>>) ]

Sql(n) == <<"sql", n>>
RepositoryDaos ==
  << Function("delete_wire", "", <<Sql("1"), <<"?">>, Semi>>, <<"std::string">>),
     Function("update_circuit_location", "",
              <<Sql("1"), <<"?">>, Sql("2"), <<"?">>, Sql("3"), <<"?">>, Semi>>, <<"int", "int", "std::string">>),
     Function("wire_update_init_signal", "", <<Sql("1"), <<"?">>, Sql("2"), <<"?">>, Semi>>,
              <<"bool", "std::string">>),
     Function("get_wires_in_scene", "wire", <<Sql("1"), <<"?">>, Sql("2"), <<"?">>, Semi>>,
              <<"std::string", "std::string">>) >>

MCNames == {"t", "none", "f", "a", "b", "c", "x", "y", "z", "db_migration"}
           \cup DOMAIN RepositorySchema
           \cup UNION {ToSet(Columns(RepositorySchema[table])) : table \in DOMAIN RepositorySchema}
           \cup {RepositoryDaos[i].identifier : i \in DOMAIN RepositoryDaos}
MCTypes == DOMAIN CppTypes \cup {"std::string", "int", "bool", "character varying"}
MCPieces == QueryPieces \cup {Semi, Sql("1"), Sql("2"), Sql("3")}
MCInputs == OneTable \cup OneFunction
            \cup {[tables |-> RepositorySchema, config |-> RepositoryDaos]}
===============================================================================
