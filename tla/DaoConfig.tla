------------------------------- MODULE DaoConfig -------------------------------
(***************************************************************************)
(* parse_dao_config (src/src/cfg/Config.cpp): the reader of config/daos.cfg*)
(* turns every section into the description of a function that the code    *)
(* generator emits. The sections are kept in a hash map, so the functions  *)
(* are made in an order the text does not determine.                       *)
(***************************************************************************)
EXTENDS Config, OrderedMap

VARIABLES daos,       \* "unread", "reading", "read" or "refused"
          pending,    \* the sections the loop has not come to
          functions   \* dst->functions

daoVars == <<vars, daos, pending, functions>>

DaoInit == Init /\ daos = "unread" /\ pending = {} /\ functions = <<>>

Of(name, key) == Value(<<name, <<key>>>>)

\* parse_params, symbol by symbol: a name up to the first '=', then a type up to
\* the first ';' behind that; of two parameters with one name the first stays.
ReadParam(r, c) ==
  CASE r.part = "name" /\ c = "=" -> [r EXCEPT !.part = "type"]
    [] r.part = "name" /\ c # "=" -> [r EXCEPT !.name = Append(@, c)]
    [] r.part = "type" /\ c = ";" ->
         [part |-> "name", name |-> <<>>, type |-> <<>>, dst |-> emplace(r.dst, r.name, r.type)]
    [] OTHER -> [r EXCEPT !.type = Append(@, c)]

ParamState ==
  [part : {"name", "type"}, name : Seq(Symbols), type : Seq(Symbols),
   dst : Seq([key : Seq(Symbols), value : Seq(Symbols)])]

ParamsOf(name) ==
  Fold([x \in ParamState \X Symbols |-> ReadParam(x[1], x[2])],
       [part |-> "name", name |-> <<>>, type |-> <<>>, dst |-> <<>>], Of(name, "params"))

\* Something follows the last ';'.
ParamsCut(name) == ParamsOf(name).part # "name" \/ ParamsOf(name).name # <<>>

Refuses(name) ==
  \/ Of(name, "query") = <<>>
  \/ Of(name, "type") \notin {<<"single">>, <<"multiple">>, <<"command">>}
  \/ (Of(name, "mapping") = <<>>) # (Of(name, "type") = <<"command">>)
  \/ ParamsCut(name)

get_sections ==
  /\ outcome = "parsed" /\ daos = "unread"
  /\ daos' = "reading"
  /\ pending' = {props[n].section : n \in DOMAIN props}
  /\ UNCHANGED <<vars, functions>>

Function(name) ==
  [identifier |-> name, type |-> Of(name, "type"), query |-> Of(name, "query"),
   type_mapping |-> Of(name, "mapping"), params |-> ParamsOf(name).dst]

AddFunction(name) ==
  /\ daos = "reading" /\ name \in pending /\ ~ Refuses(name)
  /\ functions' = Append(functions, Function(name))
  /\ pending' = pending \ {name}
  /\ UNCHANGED <<vars, daos>>

RefuseFunction(name) ==
  /\ daos = "reading" /\ name \in pending /\ Refuses(name)
  /\ daos' = "refused"
  /\ UNCHANGED <<vars, pending, functions>>

AllAdded ==
  /\ daos = "reading" /\ pending = {}
  /\ daos' = "read"
  /\ UNCHANGED <<vars, pending, functions>>

\* A parsed file is either validated or turned into functions.
Work ==
  \/ (parse \/ (validate /\ daos = "unread")) /\ UNCHANGED <<daos, pending, functions>>
  \/ get_sections \/ AllAdded
  \/ \E name \in pending : AddFunction(name) \/ RefuseFunction(name)

Ended == outcome \in {"refused", "valid", "invalid"} \/ daos \in {"read", "refused"}

DaoNext ==
  \/ read_file /\ UNCHANGED <<daos, pending, functions>>
  \/ Work
  \/ Ended /\ UNCHANGED daoVars

\* A program reads its configuration before it does anything else, so the
\* thread that runs the loops keeps running once it has the text.
DaoSpec == DaoInit /\ [][DaoNext]_daoVars /\ WF_daoVars(Work)

-------------------------------------------------------------------------------
(* Whatever the text, reading it comes to an end: no iteration of the        *)
(* scanner's loop, of the loop over parameters or of that over sections      *)
(* leaves everything as it was.                                              *)
Decides == outcome = "reading" ~> Ended
===============================================================================
