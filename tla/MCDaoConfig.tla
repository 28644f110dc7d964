------------------------------ MODULE MCDaoConfig ------------------------------
(* Instances of DaoLines: files that describe functions.                     *)
EXTENDS DaoLines, MCConfig

DaoSymbols == {"f", "g", "query", "type", "mapping", "params", "single", "multiple", "command",
               "row", "x", "y", "int", ";", "#", "[", "]", "=", NL}
DaoIden == {"f", "g", "query", "type", "mapping", "params", "single", "multiple", "command",
            "row", "x", "y", "int"}

Entry(key, values) == {<<>>} \cup {<<key, "=">> \o v \o <<NL>> : v \in values}
Bodies(types, params) ==
  {t \o q \o m \o p : t \in Entry("type", types), q \in Entry("query", {<<"row">>}),
                      m \in Entry("mapping", {<<"row">>}), p \in Entry("params", params)}
Types == {<<"single">>, <<"multiple">>, <<"command">>, <<"row">>}
ParamTexts == {<<"x", "=", "int", ";">>, <<"x", "=", "int", ";", "y", "=", ";">>,
               <<"x", "=", "int", ";", "x", "=", ";">>, <<"x", ";", "=", "=", "int", ";">>,
               <<"x", "=", "int">>, <<"x", ";">>, <<"x", "=", ";", "y">>}
Command == <<"type", "=", "command", NL, "query", "=", "row", NL>>
Second == {Command, Command \o <<"params", "=", "x", "=", "int", ";", NL>>, <<"query", "=", "x", NL>>,
           <<"type", "=", "multiple", NL, "mapping", "=", "f", NL>>,
           <<"mapping", "=", "f", NL, "type", "=", "multiple", NL, "query", "=", "f", NL>>}
DaoTexts ==
  {<<"[", "f", "]", NL>> \o a \o <<"[", name, "]", NL>> \o b :
      a \in Bodies(Types, ParamTexts), b \in Second, name \in {"f", "g"}}

AllSymbols == MCSymbols \cup DaoSymbols
AllIden == MCIden \cup DaoIden
AllTexts == SymbolTexts \cup LineTexts \cup PortTexts \cup DaoTexts
===============================================================================
