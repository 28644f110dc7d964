------------------------------- MODULE MCConfig -------------------------------
(* Instances of ConfigLines: all short texts, and files made of whole lines.   *)
EXTENDS ConfigLines, SequencesExt

-------------------------------------------------------------------------------
(* Texts.                                                                    *)

MCSymbols == {"user", "port", "k", "1", "1234", "\r", " ", "#", "[", "]", "=", NL, NUL}
MCIden == {"user", "port", "k"}
MCSpaces == {" ", "\r", NL}
MCRequired == {<<<<"k">>, <<"user">>>>, <<<<"k">>, <<"port">>>>}
MCPorts == {<<<<"k">>, <<"port">>>>}

SymbolTexts == {NoFile} \cup BoundedSeq({"k", "1", " ", "#", "[", "]", "=", NL, NUL}, 5)

Blocks ==
  { <<"[", "k", "]">>, <<" ", "[", " ", "]", " ">>, <<"[", "]">>, <<"[", "k">>,
    <<"#", "[", "k", "]">>, <<>>, <<" ">>,
    <<"user", "=", "k">>, <<" ", "user", " ", "=", " ", "1", " ", "#", "1">>, <<"user", "=">>,
    <<"port", " ", "=", " ", "1234">>, <<"port", "=", "1234", " ">>, <<"port", "=", "1234", "\r">>,
    <<"port", "=", "\r", " ", "1234">>, <<"k", "1", " ", "=", " ", "k">>,
    <<"[", "k", "]", " ", "user", "=", "1">>, <<"k", "=", "=", "k">> }
LineTexts == {FlattenSeq([i \in DOMAIN b |-> b[i] \o <<NL>>]) : b \in BoundedSeq(Blocks, 3)}
PortTexts == {<<"[", "k", "]", NL>> \o FlattenSeq([i \in DOMAIN b |-> <<NL>> \o b[i]]) :
                b \in BoundedSeq({<<"user", "=", "k">>, <<"user", "=", "1", " ">>, <<"[", "k", "]">>,
                     <<"[", "1", "]">>, <<"#", "user">>, <<"k", "=", "k">>, <<"port", "=", "1234">>,
                     <<"port", "=", "1234", "\r">>, <<"port", "=", "\r", " ", "1234">>,
                     <<"port", "=", "k">>}, 3)}
===============================================================================
