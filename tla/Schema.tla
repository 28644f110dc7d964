------------------------------- MODULE Schema -------------------------------
(***************************************************************************)
(* The backend's tables and the SQL statements it sends about them: the    *)
(* schema the migrations leave behind (src/migrations) and the DAO         *)
(* functions the API and the filter call (src/include/dao/dao.h).          *)
(*                                                                         *)
(* A statement is an operator on a database d.  Its value is a record: ok  *)
(* says whether PostgreSQL accepted the statement, db is the database it   *)
(* leaves, d itself when it was refused.  An UPDATE or DELETE that matches *)
(* no row is accepted, and the DAO cannot tell it from one that did.       *)
(*                                                                         *)
(* Names and texts are opaque values: of the columns, the model keeps the  *)
(* ones that statements match, constrain or update separately.             *)
(***************************************************************************)
EXTENDS Integers

CONSTANTS
    UserId, Nickname,             \* what the X-User-ID and X-User-Name headers hold
    SceneId, CircuitId, WireId,   \* the UUIDs that a behaviour may use
    Text,                         \* scene_name and description, written together
    Coord, GateType,
    Absent,      \* stands for the row of an id that has none
    Null,        \* SQL null, std::nullopt
    Malformed    \* a text that is not a UUID, or a JSON value of the wrong type

SceneRow == [author : UserId, text : Text]
CircuitRow ==
    [parent_scene : SceneId, location_x : Coord, location_y : Coord,
     parent_circuit : CircuitId \union {Null}, gate_type : GateType]
WireRow ==
    [source_circuit : CircuitId, target_circuit : CircuitId, init_signal : BOOLEAN]

ASSUME AbsentAssumption ==
    Absent \notin Nickname \union SceneRow \union CircuitRow \union WireRow
ASSUME NullAssumption == Null \notin CircuitId
ASSUME MalformedAssumption ==
    Malformed \notin SceneId \union CircuitId \union WireId \union Coord
                     \union GateType \union {Null}

Database ==
    [user    : [UserId    -> Nickname   \union {Absent}],
     scene   : [SceneId   -> SceneRow   \union {Absent}],
     circuit : [CircuitId -> CircuitRow \union {Absent}],
     wire    : [WireId    -> WireRow    \union {Absent}]]

Users(d)    == {u \in UserId    : d.user[u] # Absent}
Scenes(d)   == {s \in SceneId   : d.scene[s] # Absent}
Circuits(d) == {c \in CircuitId : d.circuit[c] # Absent}
Wires(d)    == {w \in WireId    : d.wire[w] # Absent}

\* The constraints of the migrations: a unique nickname, and foreign keys that
\* always find their row.
Integrity(d) ==
    /\ \A u, v \in Users(d) : d.user[u] = d.user[v] => u = v
    /\ \A s \in Scenes(d) : d.scene[s].author \in Users(d)
    /\ \A c \in Circuits(d) :
        /\ d.circuit[c].parent_scene \in Scenes(d)
        /\ d.circuit[c].parent_circuit \in Circuits(d) \union {Null}
    /\ \A w \in Wires(d) :
        /\ d.wire[w].source_circuit \in Circuits(d)
        /\ d.wire[w].target_circuit \in Circuits(d)

\* A single statement is a transaction: refused means without effect.
Result(ok, after, before) == [ok |-> ok, db |-> IF ok THEN after ELSE before]

-----------------------------------------------------------------------------
(* Users and scenes.                                                       *)

\* Faulty variant: the nickname column is not unique.
user_insert_duplicate(d, id, nickname) ==
    Result(id \notin Users(d), [d EXCEPT !.user[id] = nickname], d)

user_insert(d, id, nickname) ==
    Result(id \notin Users(d) /\ \A u \in Users(d) : d.user[u] # nickname,
           [d EXCEPT !.user[id] = nickname], d)

\* scene_save on an id that is fresh: its SELECT finds nothing, so it inserts.
scene_save(d, id, author, text) ==
    Result(id \notin Scenes(d) /\ author \in Users(d),
           [d EXCEPT !.scene[id] = [author |-> author, text |-> text]], d)

\* Faulty variant: the WHERE clause does not ask for the author.
AnyScenes(d, id, user_id) == {s \in Scenes(d) : s = id}

\* The WHERE clause of scene_update_basic and scene_delete.
OwnScenes(d, id, user_id) == {s \in Scenes(d) : s = id /\ d.scene[s].author = user_id}

scene_update_basic(d, id, user_id, text) ==
    Result(id # Malformed,
           [d EXCEPT !.scene = [s \in SceneId |->
                IF s \in OwnScenes(d, id, user_id)
                THEN [d.scene[s] EXCEPT !.text = text] ELSE d.scene[s]]], d)

get_scenes_of_user(d, user_id) == {s \in Scenes(d) : d.scene[s].author = user_id}

-----------------------------------------------------------------------------
(* "on delete cascade": the circuits of a scene, the circuits whose         *)
(* parent_circuit goes, of whatever scene, and the wires that end at either.*)

\* Faulty variant of ChildClosed: the cascade runs from a circuit to its parent.
ParentClosed(d, S) ==
    \A c \in Circuits(d) : c \in S /\ d.circuit[c].parent_circuit # Null
        => d.circuit[c].parent_circuit \in S

ChildClosed(d, S) ==
    \A c \in Circuits(d) : d.circuit[c].parent_circuit \in S => c \in S

\* Faulty variant: only the children of the roots go with them.
CascadeOnce(d, roots) ==
    roots \union {c \in Circuits(d) : d.circuit[c].parent_circuit \in roots}

\* The least set with the roots that has every child of its members.
Cascade(d, roots) ==
    {c \in CircuitId :
        \A S \in SUBSET CircuitId : roots \subseteq S /\ ChildClosed(d, S) => c \in S}

Remove(d, scenes, circuits) ==
    [d EXCEPT
        !.scene = [s \in SceneId |-> IF s \in scenes THEN Absent ELSE d.scene[s]],
        !.circuit = [c \in CircuitId |-> IF c \in circuits THEN Absent ELSE d.circuit[c]],
        !.wire = [w \in WireId |->
            IF w \in Wires(d) /\ (\/ d.wire[w].source_circuit \in circuits
                                  \/ d.wire[w].target_circuit \in circuits)
            THEN Absent ELSE d.wire[w]]]

\* Faulty variant: the foreign key that cascades names no scene.
CircuitsOfAll(d, scenes) == {c \in Circuits(d) : scenes # {}}

CircuitsOf(d, scenes) == {c \in Circuits(d) : d.circuit[c].parent_scene \in scenes}

scene_delete(d, id, user_id) ==
    LET scenes == OwnScenes(d, id, user_id)
    IN  Result(id # Malformed, Remove(d, scenes, Cascade(d, CircuitsOf(d, scenes))), d)

delete_circuit(d, id) ==
    Result(id # Malformed, Remove(d, {}, Cascade(d, {id} \intersect Circuits(d))), d)

-----------------------------------------------------------------------------
(* Circuits and wires.                                                     *)

\* A malformed reference is no id of any row, so it is refused like a missing one.
circuit_save(d, id, row) ==
    Result(/\ id \notin Circuits(d)
           /\ row.parent_scene \in Scenes(d)
           /\ row.parent_circuit \in Circuits(d) \union {Null},
           [d EXCEPT !.circuit[id] = row], d)

\* Faulty variants: the value is stored unparsed; two ids are passed
\* in the wrong order.
update_circuit_location_x_unparsed(d, location_x, id) ==
    Result(id # Malformed,
           IF id \in Circuits(d)
           THEN [d EXCEPT !.circuit[id].location_x = location_x] ELSE d, d)

update_circuit_parent_circuit_swapped(d, parent_circuit, id) ==
    Result(/\ id # Malformed /\ parent_circuit # Malformed
           /\ parent_circuit \in Circuits(d) => id \in Circuits(d),
           IF parent_circuit \in Circuits(d)
           THEN [d EXCEPT !.circuit[parent_circuit].parent_circuit = id] ELSE d, d)

\* The four UPDATEs of put_circuit, each by the id alone.
update_circuit_location_x(d, location_x, id) ==
    Result(id # Malformed /\ location_x # Malformed,
           IF id \in Circuits(d)
           THEN [d EXCEPT !.circuit[id].location_x = location_x] ELSE d, d)

update_circuit_location_y(d, location_y, id) ==
    Result(id # Malformed /\ location_y # Malformed,
           IF id \in Circuits(d)
           THEN [d EXCEPT !.circuit[id].location_y = location_y] ELSE d, d)

\* The literal is parsed whether a row matches or not, the foreign key is
\* looked up only when one does.
update_circuit_parent_circuit(d, parent_circuit, id) ==
    Result(/\ id # Malformed /\ parent_circuit # Malformed
           /\ id \in Circuits(d) => parent_circuit \in Circuits(d),
           IF id \in Circuits(d)
           THEN [d EXCEPT !.circuit[id].parent_circuit = parent_circuit] ELSE d, d)

update_circuit_gate_type(d, gate_type, id) ==
    Result(id # Malformed /\ gate_type # Malformed,
           IF id \in Circuits(d)
           THEN [d EXCEPT !.circuit[id].gate_type = gate_type] ELSE d, d)

get_circuits_in_scene(d, scene) == CircuitsOf(d, {scene})

\* Faulty variant: the target column is not a foreign key.
wire_save_dangling(d, id, row) ==
    Result(/\ id \notin Wires(d)
           /\ row.source_circuit \in Circuits(d)
           /\ row.target_circuit \in CircuitId,
           [d EXCEPT !.wire[id] = row], d)

wire_save(d, id, row) ==
    Result(/\ id \notin Wires(d)
           /\ row.source_circuit \in Circuits(d)
           /\ row.target_circuit \in Circuits(d),
           [d EXCEPT !.wire[id] = row], d)

delete_wire(d, id) ==
    Result(id # Malformed,
           [d EXCEPT !.wire = [w \in WireId |-> IF w = id THEN Absent ELSE d.wire[w]]], d)

\* Joined with both of its circuits: a wire is listed in a scene only when both
\* of its ends are there.
get_wires_in_scene(d, scene) ==
    {w \in Wires(d) : /\ d.wire[w].source_circuit \in CircuitsOf(d, {scene})
                      /\ d.wire[w].target_circuit \in CircuitsOf(d, {scene})}

\* PostgreSQL sends a boolean as "t" or "f"; the mapper compares with "true".
PgText(b) == IF b THEN "t" ELSE "f"
cast_bool(text) == text = "true"

\* What dao_map_wire makes of a stored row.
dao_map_wire(row) == [row EXCEPT !.init_signal = cast_bool(PgText(row.init_signal))]
=============================================================================
