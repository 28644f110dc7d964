-------------------------------- MODULE DaoLines --------------------------------
(***************************************************************************)
(* What config/daos.cfg means: the function that the lines of a section    *)
(* describe. As in ConfigLines nothing moves along a text here, not even   *)
(* along that of the parameters, which the loop of parse_params takes      *)
(* apart from the front.                                                   *)
(***************************************************************************)
EXTENDS DaoConfig, ConfigLines

-------------------------------------------------------------------------------
(* A text t of parameters.                                                   *)

\* The symbol at k belongs to a type: it is behind an '=' with no ';' between.
InType(t, k) == \E j \in 1 .. (k - 1) : t[j] = "=" /\ \A m \in (j + 1) .. (k - 1) : t[m] # ";"

\* A parameter is named by the position of the ';' that ends it.
Parameters(t) == {e \in 1 .. Len(t) : t[e] = ";" /\ InType(t, e)}
Begin(t, e) == 1 + Greatest({0} \cup {d \in Parameters(t) : d < e})
Middle(t, e) ==
  CHOOSE m \in Begin(t, e) .. e : t[m] = "=" /\ \A k \in Begin(t, e) .. (m - 1) : t[k] # "="
ParamName(t, e) == SubSeq(t, Begin(t, e), Middle(t, e) - 1)
ParamType(t, e) == SubSeq(t, Middle(t, e) + 1, e - 1)

\* Nothing follows the last parameter.
Complete(t) == t = <<>> \/ Len(t) \in Parameters(t)

\* Of several parameters with one name the first counts.
Counted(t) == {e \in Parameters(t) : \A d \in Parameters(t) : d < e => ParamName(t, d) # ParamName(t, e)}

\* The map lists the parameters that count, one by one.
ListsParameters(map, t) ==
  /\ Len(map) = Cardinality(Counted(t))
  /\ \A e \in Counted(t) : map[Cardinality({d \in Counted(t) : d <= e})]
                             = [key |-> ParamName(t, e), value |-> ParamType(t, e)]

-------------------------------------------------------------------------------
(* Sections.                                                                 *)

\* What is said of a section under a key: the first line that does counts.
Line(name, key) ==
  LET stating == {b \in Assignments : PathOf(b) = <<name, <<key>>>>}
  IN  IF stating = {} THEN <<>> ELSE ValueOf(CHOOSE b \in stating : \A c \in stating : b <= c)

\* The sections with an assignment.
Described == {SectionOf(b) : b \in Assignments}

Usable(name) ==
  /\ Line(name, "query") # <<>>
  /\ \/ Line(name, "type") = <<"command">> /\ Line(name, "mapping") = <<>>
     \/ Line(name, "type") \in {<<"single">>, <<"multiple">>} /\ Line(name, "mapping") # <<>>
  /\ Complete(Line(name, "params"))

Describes(name, function) ==
  /\ function.identifier = name
  /\ function.query = Line(name, "query") /\ function.type = Line(name, "type")
  /\ function.type_mapping = Line(name, "mapping")
  /\ ListsParameters(function.params, Line(name, "params"))

(* When config/daos.cfg is accepted, every section with a property has been  *)
(* turned into one function, a section opened twice into one as well, with   *)
(* what its lines say first; the parameters are those of the text, in its    *)
(* order, and of two with one name the first. It is refused only if one of   *)
(* its sections describes no function. Whatever order the hash map of        *)
(* sections has, nothing is left out, and the answer is the same.            *)
FunctionsMeanTheirSections ==
  /\ daos = "refused" => \E name \in Described : ~ Usable(name)
  /\ daos = "read" =>
       /\ Len(functions) = Cardinality(Described)
       /\ \A name \in Described :
            Usable(name) /\ \E n \in 1 .. Len(functions) : Describes(name, functions[n])
===============================================================================
