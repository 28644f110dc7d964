---------------------------- MODULE BackendProofs ----------------------------
(***************************************************************************)
(* Proofs about Backend for any processes, identities, requests, ids and   *)
(* seeds, and any number of faults.  They rest on this: every statement of *)
(* Schema keeps a database well typed and keeps its constraints, for any   *)
(* rows, ids and values.                                                   *)
(*                                                                         *)
(* Then, what a step of the backend may do to the tables.  A step that     *)
(* changes them is one statement of one process (StatementCases); what     *)
(* that statement may change is a fact about Schema alone.  The action     *)
(* properties of Backend follow from the two.                              *)
(*                                                                         *)
(* What stays true of a row for its lifetime, and of its id for ever needs *)
(* a second invariant: a UUID that was drawn for a row which is not stored *)
(* yet is nobody else's and never was a row's.  What clients knew of       *)
(* circuits when they sent a request then stays true of them, and keeps    *)
(* the scenes of tidy clients apart.                                       *)
(***************************************************************************)
EXTENDS Backend, TLAPS

-----------------------------------------------------------------------------
(* Statements.                                                             *)

Sound(d) == d \in Database /\ Integrity(d)

\* A row that is there has its columns.
LEMMA Rows ==
    ASSUME NEW d \in Database
    PROVE  /\ \A u \in Users(d) : d.user[u] \in Nickname
           /\ \A s \in Scenes(d) : d.scene[s] \in SceneRow
           /\ \A c \in Circuits(d) : d.circuit[c] \in CircuitRow
           /\ \A w \in Wires(d) : d.wire[w] \in WireRow
BY DEF Database, Users, Scenes, Circuits, Wires

\* A refused statement leaves a sound database alone.
LEMMA ResultSound ==
    ASSUME NEW d, Sound(d), NEW ok, NEW e, ok => Sound(e)
    PROVE  Sound(Result(ok, e, d).db)
BY DEF Result

-----------------------------------------------------------------------------
(* The statements about users and scenes.                                  *)

LEMMA UserInsertSound ==
    ASSUME NEW d, Sound(d), NEW id \in UserId, NEW n \in Nickname
    PROVE  Sound(user_insert(d, id, n).db)
<1> DEFINE e == [d EXCEPT !.user[id] = n]
<1>1. ASSUME id \notin Users(d), \A u \in Users(d) : d.user[u] # n
      PROVE  Sound(e)
  <2>1. /\ e \in Database
        /\ e.scene = d.scene /\ e.circuit = d.circuit /\ e.wire = d.wire
        /\ e.user[id] = n /\ \A u \in UserId \ {id} : e.user[u] = d.user[u]
    BY DEF Sound, Database
  <2> HIDE DEF e
  <2>2. Users(e) = Users(d) \union {id}
    BY <2>1, AbsentAssumption DEF Users
  <2>3. Scenes(e) = Scenes(d) /\ Circuits(e) = Circuits(d) /\ Wires(e) = Wires(d)
    BY <2>1 DEF Scenes, Circuits, Wires
  <2>4. \A u, v \in Users(e) : e.user[u] = e.user[v] => u = v
    BY <1>1, <2>1, <2>2 DEF Sound, Integrity, Users
  <2>5. QED
    BY <2>1, <2>2, <2>3, <2>4 DEF Sound, Integrity
<1>2. QED
  BY <1>1, ResultSound DEF user_insert

LEMMA SceneSaveSound ==
    ASSUME NEW d, Sound(d), NEW id \in SceneId, NEW author \in UserId, NEW text \in Text
    PROVE  Sound(scene_save(d, id, author, text).db)
<1> DEFINE row == [author |-> author, text |-> text]
           e == [d EXCEPT !.scene[id] = row]
<1>1. ASSUME id \notin Scenes(d), author \in Users(d)
      PROVE  Sound(e)
  <2>1. row \in SceneRow /\ row.author = author
    BY DEF SceneRow
  <2> HIDE DEF row
  <2>2. /\ e \in Database
        /\ e.user = d.user /\ e.circuit = d.circuit /\ e.wire = d.wire
        /\ e.scene[id] = row /\ \A s \in SceneId \ {id} : e.scene[s] = d.scene[s]
    BY <2>1 DEF Sound, Database
  <2> HIDE DEF e
  <2>3. Scenes(e) = Scenes(d) \union {id}
    BY <2>1, <2>2, AbsentAssumption DEF Scenes
  <2>4. Users(e) = Users(d) /\ Circuits(e) = Circuits(d) /\ Wires(e) = Wires(d)
    BY <2>2 DEF Users, Circuits, Wires
  <2>5. \A s \in Scenes(e) : e.scene[s].author \in Users(e)
    BY <1>1, <2>1, <2>2, <2>3, <2>4 DEF Sound, Integrity, Scenes
  <2>6. QED
    BY <2>2, <2>3, <2>4, <2>5 DEF Sound, Integrity
<1> HIDE DEF e
<1>2. QED
  BY <1>1, ResultSound DEF scene_save, e, row

LEMMA SceneUpdateSound ==
    ASSUME NEW d, Sound(d), NEW id, NEW user_id, NEW text \in Text
    PROVE  Sound(scene_update_basic(d, id, user_id, text).db)
<1> DEFINE mine == OwnScenes(d, id, user_id)
           f == [s \in SceneId |->
                    IF s \in mine THEN [d.scene[s] EXCEPT !.text = text] ELSE d.scene[s]]
           e == [d EXCEPT !.scene = f]
<1>1. mine \subseteq Scenes(d)
  BY DEF OwnScenes
<1> HIDE DEF mine
<1>2. \A s \in Scenes(d) : /\ [d.scene[s] EXCEPT !.text = text] \in SceneRow
                           /\ [d.scene[s] EXCEPT !.text = text].author = d.scene[s].author
  BY Rows DEF Sound, SceneRow
<1>3. /\ f \in [SceneId -> SceneRow \union {Absent}]
      /\ \A s \in SceneId : f[s] # Absent <=> s \in Scenes(d)
      /\ \A s \in Scenes(d) : f[s].author = d.scene[s].author
  BY <1>1, <1>2, AbsentAssumption DEF Sound, Database, Scenes
<1> HIDE DEF f
<1>4. /\ e \in Database /\ e.scene = f
      /\ e.user = d.user /\ e.circuit = d.circuit /\ e.wire = d.wire
  BY <1>3 DEF Sound, Database
<1> HIDE DEF e
<1>5. /\ Users(e) = Users(d) /\ Scenes(e) = Scenes(d)
      /\ Circuits(e) = Circuits(d) /\ Wires(e) = Wires(d)
  BY <1>3, <1>4 DEF Users, Scenes, Circuits, Wires
<1>6. Sound(e)
  BY <1>3, <1>4, <1>5 DEF Sound, Integrity
<1>7. QED
  BY <1>6, ResultSound DEF scene_update_basic, e, f, mine

-----------------------------------------------------------------------------
(* Deleting.                                                               *)

\* The cascade has its roots, and a circuit goes with its parent.
LEMMA CascadeClosed ==
    ASSUME NEW d, NEW roots, roots \subseteq CircuitId
    PROVE  /\ roots \subseteq Cascade(d, roots)
           /\ \A c \in Circuits(d) :
                d.circuit[c].parent_circuit \in Cascade(d, roots) => c \in Cascade(d, roots)
BY DEF Cascade, ChildClosed, Circuits

\* Rows may go together when no remaining circuit has lost its scene or parent.
LEMMA RemoveSound ==
    ASSUME NEW d, Sound(d), NEW scenes, NEW gone,
           \A c \in Circuits(d) : \/ d.circuit[c].parent_scene \in scenes
                                  \/ d.circuit[c].parent_circuit \in gone
                                  => c \in gone
    PROVE  Sound(Remove(d, scenes, gone))
<1> DEFINE e == Remove(d, scenes, gone)
           cut(w) == \/ d.wire[w].source_circuit \in gone
                     \/ d.wire[w].target_circuit \in gone
<1>1. /\ e \in Database
      /\ e.user = d.user
      /\ \A s \in SceneId : e.scene[s] = IF s \in scenes THEN Absent ELSE d.scene[s]
      /\ \A c \in CircuitId : e.circuit[c] = IF c \in gone THEN Absent ELSE d.circuit[c]
      /\ \A w \in WireId :
            e.wire[w] = IF w \in Wires(d) /\ cut(w) THEN Absent ELSE d.wire[w]
  BY DEF Remove, Sound, Database
<1> HIDE DEF e
<1>2. Users(e) = Users(d) /\ Scenes(e) = Scenes(d) \ scenes /\ Circuits(e) = Circuits(d) \ gone
  BY <1>1 DEF Users, Scenes, Circuits
<1>3. Wires(e) = {w \in Wires(d) : ~cut(w)}
  BY <1>1 DEF Wires
<1>4. \A s \in Scenes(e) : e.scene[s].author \in Users(e)
  BY <1>1, <1>2 DEF Sound, Integrity, Scenes
<1>5. \A c \in Circuits(e) : /\ e.circuit[c].parent_scene \in Scenes(e)
                             /\ e.circuit[c].parent_circuit \in Circuits(e) \union {Null}
  BY <1>1, <1>2 DEF Sound, Integrity, Circuits
<1>6. \A w \in Wires(e) : /\ e.wire[w].source_circuit \in Circuits(e)
                          /\ e.wire[w].target_circuit \in Circuits(e)
  BY <1>1, <1>2, <1>3 DEF Sound, Integrity, Wires
<1>7. QED
  BY <1>1, <1>2, <1>4, <1>5, <1>6 DEF Sound, Integrity, e

LEMMA SceneDeleteSound ==
    ASSUME NEW d, Sound(d), NEW id, NEW user_id
    PROVE  Sound(scene_delete(d, id, user_id).db)
<1> DEFINE scenes == OwnScenes(d, id, user_id)
           roots == CircuitsOf(d, scenes)
<1>1. roots \subseteq CircuitId
  BY DEF CircuitsOf, Circuits
<1>2. \A c \in Circuits(d) : d.circuit[c].parent_scene \in scenes => c \in roots
  BY DEF CircuitsOf
<1> HIDE DEF roots, scenes
<1>3. Sound(Remove(d, scenes, Cascade(d, roots)))
  BY <1>1, <1>2, CascadeClosed, RemoveSound
<1>4. QED
  BY <1>3, ResultSound DEF scene_delete, scenes, roots

LEMMA CircuitDeleteSound ==
    ASSUME NEW d, Sound(d), NEW id
    PROVE  Sound(delete_circuit(d, id).db)
<1> DEFINE roots == {id} \intersect Circuits(d)
<1>1. roots \subseteq CircuitId
  BY DEF Circuits
<1> HIDE DEF roots
<1>2. Sound(Remove(d, {}, Cascade(d, roots)))
  BY <1>1, CascadeClosed, RemoveSound
<1>3. QED
  BY <1>2, ResultSound DEF delete_circuit, roots

-----------------------------------------------------------------------------
(* Circuits and wires.                                                     *)

\* Storing or replacing a circuit whose references exist.
LEMMA PutCircuitSound ==
    ASSUME NEW d, Sound(d), NEW id \in CircuitId, NEW row \in CircuitRow,
           row.parent_scene \in Scenes(d),
           row.parent_circuit \in Circuits(d) \union {Null}
    PROVE  Sound([d EXCEPT !.circuit[id] = row])
<1> DEFINE e == [d EXCEPT !.circuit[id] = row]
<1>1. /\ e \in Database
      /\ e.user = d.user /\ e.scene = d.scene /\ e.wire = d.wire
      /\ e.circuit[id] = row /\ \A c \in CircuitId \ {id} : e.circuit[c] = d.circuit[c]
  BY DEF Sound, Database
<1> HIDE DEF e
<1>2. Circuits(e) = Circuits(d) \union {id}
  BY <1>1, AbsentAssumption DEF Circuits
<1>3. Users(e) = Users(d) /\ Scenes(e) = Scenes(d) /\ Wires(e) = Wires(d)
  BY <1>1 DEF Users, Scenes, Wires
<1>4. \A c \in Circuits(e) : /\ e.circuit[c].parent_scene \in Scenes(e)
                             /\ e.circuit[c].parent_circuit \in Circuits(e) \union {Null}
  BY <1>1, <1>2, <1>3 DEF Sound, Integrity, Circuits
<1>5. QED
  BY <1>1, <1>2, <1>3, <1>4 DEF Sound, Integrity, e

LEMMA CircuitSaveSound ==
    ASSUME NEW d, Sound(d), NEW id \in CircuitId,
           NEW row \in [parent_scene : SceneId \union {Malformed},
                        location_x : Coord, location_y : Coord,
                        parent_circuit : CircuitId \union {Malformed, Null},
                        gate_type : GateType]
    PROVE  Sound(circuit_save(d, id, row).db)
<1>1. ASSUME row.parent_scene \in Scenes(d),
             row.parent_circuit \in Circuits(d) \union {Null}
      PROVE  Sound([d EXCEPT !.circuit[id] = row])
  <2>1. row \in CircuitRow
    BY <1>1 DEF CircuitRow, Scenes, Circuits
  <2>2. QED
    BY <1>1, <2>1, PutCircuitSound
<1>2. QED
  BY <1>1, ResultSound DEF circuit_save

\* What the four UPDATEs have in common: one column of a circuit that is there.
LEMMA ColumnSound ==
    ASSUME NEW d, Sound(d), NEW id \in Circuits(d), NEW row \in CircuitRow,
           row.parent_scene = d.circuit[id].parent_scene,
           row.parent_circuit \in Circuits(d) \union {Null}
    PROVE  Sound([d EXCEPT !.circuit[id] = row])
<1>1. id \in CircuitId /\ row.parent_scene \in Scenes(d)
  BY DEF Sound, Integrity, Circuits
<1>2. QED
  BY <1>1, PutCircuitSound

LEMMA UpdateXSound ==
    ASSUME NEW d, Sound(d), NEW id, NEW v \in Coord \union {Malformed}
    PROVE  Sound(update_circuit_location_x(d, v, id).db)
<1>1. ASSUME v # Malformed, id \in Circuits(d)
      PROVE  Sound([d EXCEPT !.circuit[id].location_x = v])
  <2> DEFINE row == [d.circuit[id] EXCEPT !.location_x = v]
  <2>1. /\ row \in CircuitRow /\ row.parent_scene = d.circuit[id].parent_scene
        /\ row.parent_circuit \in Circuits(d) \union {Null}
    BY <1>1, Rows DEF Sound, Integrity, CircuitRow
  <2>2. [d EXCEPT !.circuit[id].location_x = v] = [d EXCEPT !.circuit[id] = row]
    BY DEF Sound, Database
  <2> HIDE DEF row
  <2>3. QED
    BY <1>1, <2>1, <2>2, ColumnSound
<1>2. QED
  BY <1>1, ResultSound DEF update_circuit_location_x

LEMMA UpdateYSound ==
    ASSUME NEW d, Sound(d), NEW id, NEW v \in Coord \union {Malformed}
    PROVE  Sound(update_circuit_location_y(d, v, id).db)
<1>1. ASSUME v # Malformed, id \in Circuits(d)
      PROVE  Sound([d EXCEPT !.circuit[id].location_y = v])
  <2> DEFINE row == [d.circuit[id] EXCEPT !.location_y = v]
  <2>1. /\ row \in CircuitRow /\ row.parent_scene = d.circuit[id].parent_scene
        /\ row.parent_circuit \in Circuits(d) \union {Null}
    BY <1>1, Rows DEF Sound, Integrity, CircuitRow
  <2>2. [d EXCEPT !.circuit[id].location_y = v] = [d EXCEPT !.circuit[id] = row]
    BY DEF Sound, Database
  <2> HIDE DEF row
  <2>3. QED
    BY <1>1, <2>1, <2>2, ColumnSound
<1>2. QED
  BY <1>1, ResultSound DEF update_circuit_location_y

LEMMA UpdateParentSound ==
    ASSUME NEW d, Sound(d), NEW id, NEW v \in CircuitId \union {Malformed}
    PROVE  Sound(update_circuit_parent_circuit(d, v, id).db)
<1>1. ASSUME id \in Circuits(d), v \in Circuits(d)
      PROVE  Sound([d EXCEPT !.circuit[id].parent_circuit = v])
  <2> DEFINE row == [d.circuit[id] EXCEPT !.parent_circuit = v]
  <2>1. /\ row \in CircuitRow /\ row.parent_scene = d.circuit[id].parent_scene
        /\ row.parent_circuit = v
    BY <1>1, Rows DEF Sound, CircuitRow, Circuits
  <2>2. [d EXCEPT !.circuit[id].parent_circuit = v] = [d EXCEPT !.circuit[id] = row]
    BY DEF Sound, Database
  <2> HIDE DEF row
  <2>3. QED
    BY <1>1, <2>1, <2>2, ColumnSound
<1>2. QED
  BY <1>1, ResultSound DEF update_circuit_parent_circuit

LEMMA UpdateGateSound ==
    ASSUME NEW d, Sound(d), NEW id, NEW v \in GateType \union {Malformed}
    PROVE  Sound(update_circuit_gate_type(d, v, id).db)
<1>1. ASSUME v # Malformed, id \in Circuits(d)
      PROVE  Sound([d EXCEPT !.circuit[id].gate_type = v])
  <2> DEFINE row == [d.circuit[id] EXCEPT !.gate_type = v]
  <2>1. /\ row \in CircuitRow /\ row.parent_scene = d.circuit[id].parent_scene
        /\ row.parent_circuit \in Circuits(d) \union {Null}
    BY <1>1, Rows DEF Sound, Integrity, CircuitRow
  <2>2. [d EXCEPT !.circuit[id].gate_type = v] = [d EXCEPT !.circuit[id] = row]
    BY DEF Sound, Database
  <2> HIDE DEF row
  <2>3. QED
    BY <1>1, <2>1, <2>2, ColumnSound
<1>2. QED
  BY <1>1, ResultSound DEF update_circuit_gate_type

LEMMA WireSaveSound ==
    ASSUME NEW d, Sound(d), NEW id \in WireId,
           NEW row \in [source_circuit : CircuitId \union {Malformed},
                        target_circuit : CircuitId \union {Malformed},
                        init_signal : BOOLEAN]
    PROVE  Sound(wire_save(d, id, row).db)
<1> DEFINE e == [d EXCEPT !.wire[id] = row]
<1>1. ASSUME row.source_circuit \in Circuits(d), row.target_circuit \in Circuits(d)
      PROVE  Sound(e)
  <2>1. row \in WireRow
    BY <1>1 DEF WireRow, Circuits
  <2>2. /\ e \in Database
        /\ e.user = d.user /\ e.scene = d.scene /\ e.circuit = d.circuit
        /\ e.wire[id] = row /\ \A w \in WireId \ {id} : e.wire[w] = d.wire[w]
    BY <2>1 DEF Sound, Database
  <2> HIDE DEF e
  <2>3. Wires(e) \subseteq Wires(d) \union {id}
    BY <2>2 DEF Wires
  <2>4. Users(e) = Users(d) /\ Scenes(e) = Scenes(d) /\ Circuits(e) = Circuits(d)
    BY <2>2 DEF Users, Scenes, Circuits
  <2>5. \A w \in Wires(e) : /\ e.wire[w].source_circuit \in Circuits(e)
                            /\ e.wire[w].target_circuit \in Circuits(e)
    BY <1>1, <2>2, <2>3, <2>4 DEF Sound, Integrity, Wires
  <2>6. QED
    BY <2>2, <2>4, <2>5 DEF Sound, Integrity
<1> HIDE DEF e
<1>2. QED
  BY <1>1, ResultSound DEF wire_save, e

LEMMA WireDeleteSound ==
    ASSUME NEW d, Sound(d), NEW id
    PROVE  Sound(delete_wire(d, id).db)
<1> DEFINE e == [d EXCEPT !.wire = [w \in WireId |-> IF w = id THEN Absent ELSE d.wire[w]]]
<1>1. /\ e \in Database
      /\ e.user = d.user /\ e.scene = d.scene /\ e.circuit = d.circuit
      /\ \A w \in WireId : e.wire[w] = Absent \/ e.wire[w] = d.wire[w]
  BY DEF Sound, Database
<1> HIDE DEF e
<1>2. Users(e) = Users(d) /\ Scenes(e) = Scenes(d) /\ Circuits(e) = Circuits(d)
  BY <1>1 DEF Users, Scenes, Circuits
<1>3. \A w \in Wires(e) : w \in Wires(d) /\ e.wire[w] = d.wire[w]
  BY <1>1 DEF Wires
<1>4. Sound(e)
  BY <1>1, <1>2, <1>3 DEF Sound, Integrity
<1>5. QED
  BY <1>4, ResultSound DEF delete_wire, e

-----------------------------------------------------------------------------
(* Which tables a statement leaves alone.                                  *)

\* Nothing but user_insert writes to the user table, and it only adds to it.
LEMMA UserTableKept ==
    ASSUME NEW d \in Database, NEW id, NEW a, NEW v
    PROVE  /\ scene_save(d, id, a, v).db.user = d.user
           /\ scene_update_basic(d, id, a, v).db.user = d.user
           /\ scene_delete(d, id, a).db.user = d.user
           /\ circuit_save(d, id, v).db.user = d.user
           /\ update_circuit_location_x(d, v, id).db.user = d.user
           /\ update_circuit_location_y(d, v, id).db.user = d.user
           /\ update_circuit_parent_circuit(d, v, id).db.user = d.user
           /\ update_circuit_gate_type(d, v, id).db.user = d.user
           /\ delete_circuit(d, id).db.user = d.user
           /\ wire_save(d, id, v).db.user = d.user
           /\ delete_wire(d, id).db.user = d.user
<1>1. scene_save(d, id, a, v).db.user = d.user
  BY DEF scene_save, Result, Database
<1>2. scene_update_basic(d, id, a, v).db.user = d.user
  BY DEF scene_update_basic, Result, Database
<1>3. /\ scene_delete(d, id, a).db.user = d.user
      /\ delete_circuit(d, id).db.user = d.user
  BY DEF scene_delete, delete_circuit, Remove, Result, Database
<1>4. /\ circuit_save(d, id, v).db.user = d.user
      /\ wire_save(d, id, v).db.user = d.user
      /\ delete_wire(d, id).db.user = d.user
  BY DEF circuit_save, wire_save, delete_wire, Result, Database
<1>5. /\ update_circuit_location_x(d, v, id).db.user = d.user
      /\ update_circuit_location_y(d, v, id).db.user = d.user
  BY DEF update_circuit_location_x, update_circuit_location_y, Result, Database
<1>6. /\ update_circuit_parent_circuit(d, v, id).db.user = d.user
      /\ update_circuit_gate_type(d, v, id).db.user = d.user
  BY DEF update_circuit_parent_circuit, update_circuit_gate_type, Result, Database
<1>7. QED
  BY <1>1, <1>2, <1>3, <1>4, <1>5, <1>6

LEMMA UserInsertAdds ==
    ASSUME NEW d \in Database, NEW id \in UserId, NEW n \in Nickname
    PROVE  /\ \A u \in Users(d) : user_insert(d, id, n).db.user[u] = d.user[u]
           /\ user_insert(d, id, n).ok => id \in Users(user_insert(d, id, n).db)
<1>1. CASE id \notin Users(d) /\ \A u \in Users(d) : d.user[u] # n
  BY <1>1, AbsentAssumption DEF user_insert, Result, Database, Users
<1>2. CASE ~(id \notin Users(d) /\ \A u \in Users(d) : d.user[u] # n)
  BY <1>2 DEF user_insert, Result
<1>3. QED
  BY <1>1, <1>2

-----------------------------------------------------------------------------
(* Requests.                                                               *)

InFlight == {"auth_lookup", "auth_insert", "handle"}

\* The UUID that was drawn is one of the table the request inserts into.
Fits(r, id) ==
    /\ r.op = "post_scene"   => id \in SceneId
    /\ r.op = "post_circuit" => id \in CircuitId
    /\ r.op = "post_wire"    => id \in WireId

\* What a process knows of the request it works on.
RequestKnown ==
    \A p \in Proc :
        /\ pc[p] \in InFlight =>
            req[p] \in Requests /\ Fits(req[p], made[p]) /\ todo[p] \subseteq Requested(req[p])
        /\ pc[p] \in {"auth_insert", "handle"} => who[p] \in Identities

IInv ==
    /\ TypeOK
    /\ IntegrityHolds
    /\ HandledAreRegistered
    /\ RequestKnown

-----------------------------------------------------------------------------
\* A request has the fields of its operation.
LEMMA RequestFields ==
    ASSUME NEW r \in Requests
    PROVE  /\ r.op \in {"post_scene", "put_scene"} => r.text \in Text
           /\ r.op = "post_circuit" => CircuitOf(r) \in
                [parent_scene : SceneId \union {Malformed},
                 location_x : Coord, location_y : Coord,
                 parent_circuit : CircuitId \union {Malformed, Null},
                 gate_type : GateType]
           /\ r.op = "post_wire" => WireOf(r) \in
                [source_circuit : CircuitId \union {Malformed},
                 target_circuit : CircuitId \union {Malformed},
                 init_signal : BOOLEAN]
           /\ r.op = "put_circuit" =>
                /\ r.location_x \in Coord \union {Omitted, Malformed}
                /\ r.location_y \in Coord \union {Omitted, Malformed}
                /\ r.parent_circuit \in CircuitId \union {Omitted, Malformed}
                /\ r.gate_type \in GateType \union {Omitted, Malformed}
<1>1. r \in Request
  BY RequestsAssumption
<1>2. r.op \in {"post_scene", "put_scene"} => r.text \in Text
  BY <1>1 DEF Request
<1>3. r.op = "post_circuit" =>
        /\ r.parent_scene \in SceneId \union {Malformed}
        /\ r.location_x \in Coord /\ r.location_y \in Coord
        /\ r.parent_circuit \in CircuitId \union {Malformed, Null}
        /\ r.gate_type \in GateType
  BY <1>1 DEF Request, SceneRef, CircuitRef
<1>4. r.op = "post_wire" =>
        /\ r.source_circuit \in CircuitId \union {Malformed}
        /\ r.target_circuit \in CircuitId \union {Malformed}
        /\ r.init_signal \in BOOLEAN
  BY <1>1 DEF Request, CircuitRef
<1>5. r.op = "put_circuit" =>
        /\ r.location_x \in Coord \union {Omitted, Malformed}
        /\ r.location_y \in Coord \union {Omitted, Malformed}
        /\ r.parent_circuit \in CircuitId \union {Omitted, Malformed}
        /\ r.gate_type \in GateType \union {Omitted, Malformed}
  BY <1>1 DEF Request, CircuitRef
<1>6. QED
  BY <1>2, <1>3, <1>4, <1>5 DEF CircuitOf, WireOf

\* What a process and the database know after a statement, fault or not.
LEMMA ExecutesFacts ==
    ASSUME TypeOK, NEW p \in Proc, NEW s, NEW ok \in BOOLEAN, Executes(p, s, ok)
    PROVE  /\ db' = db \/ db' = s.db
           /\ ok => s.ok /\ db' = s.db
           /\ connected' \in [Proc -> BOOLEAN]
           /\ faults' \in 0..MaxFaults
<1>1. Fault => faults' \in 0..MaxFaults
  BY MaxFaultsAssumption DEF TypeOK, Fault
<1>2. QED
  BY <1>1 DEF Executes, TypeOK, link

\* The next two lemmas are the common part of all handlers: one that writes
\* keeps the invariant when its statement does, one that reads always does.
LEMMA ModifiesStep ==
    ASSUME IInv, NEW p \in Proc, pc[p] = "handle",
           NEW s, Sound(s.db), s.db.user = db.user,
           Modifies(p, s), minted' \subseteq Ids
    PROVE  IInv'
<1> USE DEF IInv
<1>1. PICK ok \in BOOLEAN : Executes(p, s, ok) /\ Answer(p, Verdict(ok))
  BY DEF Modifies
<1>2. /\ db' = db \/ db' = s.db
      /\ connected' \in [Proc -> BOOLEAN]
      /\ faults' \in 0..MaxFaults
  BY <1>1, ExecutesFacts
<1>3. Sound(db') /\ Users(db') = Users(db)
  BY <1>2 DEF Sound, TypeOK, IntegrityHolds, Users
<1>4. /\ pc' = [pc EXCEPT ![p] = "reply"]
      /\ outcome' = [outcome EXCEPT ![p] = Verdict(ok)]
      /\ touched' = [touched EXCEPT ![p] = db' # db]
      /\ UNCHANGED <<who, req, made, todo, body>>
  BY <1>1 DEF Modifies, Answer, Go
<1>5. Verdict(ok) \in Outcomes /\ (db' # db) \in BOOLEAN
  BY DEF Verdict, Outcomes
<1>6. TypeOK'
  BY <1>2, <1>3, <1>4, <1>5 DEF TypeOK, Sound, Places
<1>7. HandledAreRegistered'
  BY <1>3, <1>4 DEF TypeOK, HandledAreRegistered
<1>8. RequestKnown'
  BY <1>4 DEF TypeOK, RequestKnown, InFlight
<1>9. QED
  BY <1>3, <1>6, <1>7, <1>8 DEF Sound, IntegrityHolds

LEMMA ReadsStep ==
    ASSUME IInv, NEW p \in Proc, pc[p] = "handle", NEW wellFormed, NEW rows,
           Reads(p, wellFormed, rows)
    PROVE  IInv'
<1> USE DEF IInv
<1>1. PICK ok \in BOOLEAN : Executes(p, Query(wellFormed), ok) /\ Answer(p, Verdict(ok))
  BY DEF Reads
<1>2. /\ db' = db
      /\ connected' \in [Proc -> BOOLEAN]
      /\ faults' \in 0..MaxFaults
  BY <1>1, ExecutesFacts DEF Query
<1>3. /\ pc' = [pc EXCEPT ![p] = "reply"]
      /\ outcome' = [outcome EXCEPT ![p] = Verdict(ok)]
      /\ UNCHANGED <<minted, who, req, made, todo, touched>>
  BY <1>1 DEF Reads, Answer, Go
<1>4. Verdict(ok) \in Outcomes
  BY DEF Verdict, Outcomes
<1>5. TypeOK'
  BY <1>2, <1>3, <1>4 DEF TypeOK, Places
<1>6. HandledAreRegistered' /\ RequestKnown'
  BY <1>2, <1>3 DEF TypeOK, HandledAreRegistered, RequestKnown, InFlight
<1>7. QED
  BY <1>2, <1>5, <1>6 DEF IntegrityHolds

-----------------------------------------------------------------------------
(* The request and the filter.                                             *)

LEMMA ReceiveStep ==
    ASSUME IInv, NEW p \in Proc, NEW i \in Identities \union {Anonymous}, NEW r \in Requests,
           Receive(p, i, r)
    PROVE  IInv'
<1> USE DEF IInv
<1>1. PICK id \in FreshIds(r) : made' = [made EXCEPT ![p] = id]
  BY DEF Receive
<1>2. id \in Ids \union {Absent} /\ Fits(r, id)
  BY <1>1 DEF FreshIds, Fits, Ids
<1>3. Requested(r) \subseteq ColumnSet
  BY DEF Requested
<1>4. /\ pc' = [pc EXCEPT ![p] = "auth_lookup"]
      /\ who' = [who EXCEPT ![p] = i]
      /\ req' = [req EXCEPT ![p] = r]
      /\ todo' = [todo EXCEPT ![p] = Requested(r)]
      /\ UNCHANGED <<db, minted, outcome, touched, connected, faults>>
  BY DEF Receive, Go, tables, link
<1>5. TypeOK'
  BY <1>1, <1>2, <1>3, <1>4 DEF TypeOK, Places
<1>6. HandledAreRegistered'
  BY <1>4 DEF TypeOK, HandledAreRegistered
<1>7. RequestKnown'
  BY <1>1, <1>2, <1>4 DEF TypeOK, RequestKnown, InFlight
<1>8. QED
  BY <1>4, <1>5, <1>6, <1>7 DEF IntegrityHolds

\* A step that ends the request without a statement.
LEMMA AnswerStep ==
    ASSUME IInv, NEW p \in Proc, NEW o \in Outcomes, Answer(p, o),
           UNCHANGED <<tables, who, req, made, todo, body, touched, link>>
    PROVE  IInv'
<1> USE DEF IInv
<1>1. /\ pc' = [pc EXCEPT ![p] = "reply"]
      /\ outcome' = [outcome EXCEPT ![p] = o]
      /\ UNCHANGED <<db, minted, who, req, made, todo, touched, connected, faults>>
  BY DEF Answer, Go, tables, link
<1>2. TypeOK'
  BY <1>1 DEF TypeOK, Places
<1>3. HandledAreRegistered' /\ RequestKnown'
  BY <1>1 DEF TypeOK, HandledAreRegistered, RequestKnown, InFlight
<1>4. QED
  BY <1>1, <1>2, <1>3 DEF IntegrityHolds

LEMMA AuthLookupStep ==
    ASSUME IInv, NEW p \in Proc, AuthLookup(p)
    PROVE  IInv'
<1> USE DEF IInv
<1>1. PICK ok \in BOOLEAN :
        /\ Executes(p, Query(TRUE), ok)
        /\ Go(p, IF ok /\ who[p].id \in Users(db) THEN "handle" ELSE "auth_insert")
  BY DEF AuthLookup
<1>2. /\ db' = db
      /\ connected' \in [Proc -> BOOLEAN]
      /\ faults' \in 0..MaxFaults
  BY <1>1, ExecutesFacts DEF Query
<1> DEFINE place == IF ok /\ who[p].id \in Users(db) THEN "handle" ELSE "auth_insert"
<1>3. /\ place \in {"handle", "auth_insert"}
      /\ place = "handle" => who[p].id \in Users(db)
      /\ pc' = [pc EXCEPT ![p] = place]
      /\ UNCHANGED <<minted, who, req, made, todo, outcome, touched>>
  BY <1>1 DEF AuthLookup, Go
<1> HIDE DEF place
<1>4. TypeOK'
  BY <1>2, <1>3 DEF TypeOK, Places
<1>5. pc[p] = "auth_lookup" /\ who[p] \in Identities
  BY DEF AuthLookup, TypeOK
<1>6. HandledAreRegistered'
  BY <1>2, <1>3 DEF TypeOK, HandledAreRegistered
<1>7. RequestKnown'
  BY <1>3, <1>5 DEF TypeOK, RequestKnown, InFlight
<1>8. QED
  BY <1>2, <1>4, <1>6, <1>7 DEF IntegrityHolds

LEMMA AuthInsertStep ==
    ASSUME IInv, NEW p \in Proc, AuthInsert(p)
    PROVE  IInv'
<1> USE DEF IInv
<1> DEFINE s == user_insert(db, who[p].id, who[p].nickname)
<1>1. PICK ok \in BOOLEAN :
        /\ Executes(p, s, ok)
        /\ IF ok THEN Go(p, "handle") /\ UNCHANGED outcome ELSE Answer(p, "refused")
  BY DEF AuthInsert
<1>2. pc[p] = "auth_insert" /\ who[p] \in Identities
  BY DEF AuthInsert, RequestKnown
<1>3. who[p].id \in UserId /\ who[p].nickname \in Nickname
  BY <1>2, IdentitiesAssumption DEF Identity
<1>4. Sound(db)
  BY DEF Sound, TypeOK, IntegrityHolds
<1>5. /\ Sound(s.db)
      /\ \A u \in Users(db) : s.db.user[u] = db.user[u]
      /\ s.ok => who[p].id \in Users(s.db)
  BY <1>3, <1>4, UserInsertSound, UserInsertAdds DEF Sound
<1> HIDE DEF s
<1>6. /\ db' = db \/ db' = s.db
      /\ ok => s.ok /\ db' = s.db
      /\ connected' \in [Proc -> BOOLEAN]
      /\ faults' \in 0..MaxFaults
  BY <1>1, ExecutesFacts
<1>7. Sound(db')
  BY <1>4, <1>5, <1>6
<1>8. /\ Users(db) \subseteq Users(db')
      /\ ok => who[p].id \in Users(db')
  BY <1>5, <1>6 DEF Users
<1>9. PICK place \in {"handle", "reply"} :
        /\ pc' = [pc EXCEPT ![p] = place]
        /\ place = "handle" => ok
  BY <1>1 DEF Answer, Go
<1>10. outcome' \in [Proc -> Outcomes]
  BY <1>1 DEF Answer, TypeOK, Outcomes
<1>11. UNCHANGED <<minted, who, req, made, todo, touched>>
  BY DEF AuthInsert
<1>12. TypeOK'
  BY <1>6, <1>7, <1>9, <1>10, <1>11 DEF TypeOK, Places, Sound
<1>13. HandledAreRegistered'
  BY <1>8, <1>9, <1>11 DEF TypeOK, HandledAreRegistered
<1>14. RequestKnown'
  BY <1>2, <1>9, <1>11 DEF TypeOK, RequestKnown, InFlight
<1>15. QED
  BY <1>7, <1>12, <1>13, <1>14 DEF Sound, IntegrityHolds

-----------------------------------------------------------------------------
(* The handlers.                                                           *)

\* A handler whose INSERT is sound, of a row with the UUID that was drawn.
LEMMA CreatesStep ==
    ASSUME IInv, NEW p \in Proc, pc[p] = "handle", made[p] \in Ids,
           NEW s, Sound(s.db), s.db.user = db.user, Creates(p, s)
    PROVE  IInv'
<1>1. minted' \subseteq Ids
  BY DEF IInv, TypeOK, Creates
<1>2. QED
  BY <1>1, ModifiesStep DEF Creates

LEMMA SceneHandlersStep ==
    ASSUME IInv, NEW p \in Proc,
           post_scene(p) \/ get_scene(p) \/ delete_scene(p) \/ put_scene(p)
    PROVE  IInv'
<1> USE DEF IInv, Handles
<1>1. pc[p] = "handle" /\ req[p] \in Requests /\ Fits(req[p], made[p]) /\ who[p] \in Identities
  BY DEF post_scene, get_scene, delete_scene, put_scene, RequestKnown, InFlight
<1>2. Sound(db) /\ who[p].id \in UserId /\ minted \subseteq Ids
  BY <1>1, IdentitiesAssumption DEF Sound, TypeOK, IntegrityHolds, Identity
<1>3. CASE post_scene(p)
  <2> DEFINE s == scene_save(db, made[p], who[p].id, req[p].text)
  <2>1. req[p].text \in Text /\ made[p] \in SceneId
    BY <1>1, <1>3, RequestFields DEF post_scene, Fits
  <2>2. Sound(s.db) /\ s.db.user = db.user
    BY <1>2, <2>1, SceneSaveSound, UserTableKept DEF Sound
  <2>3. made[p] \in Ids /\ Creates(p, s)
    BY <1>3, <2>1 DEF Ids, post_scene
  <2> HIDE DEF s
  <2>4. QED
    BY <1>1, <2>2, <2>3, CreatesStep
<1>4. CASE get_scene(p)
  BY <1>1, <1>4, ReadsStep DEF get_scene
<1>5. CASE delete_scene(p)
  <2> DEFINE s == scene_delete(db, req[p].id, who[p].id)
  <2>1. Sound(s.db) /\ s.db.user = db.user
    BY <1>2, SceneDeleteSound, UserTableKept DEF Sound
  <2>2. Modifies(p, s) /\ minted' \subseteq Ids
    BY <1>2, <1>5 DEF delete_scene
  <2> HIDE DEF s
  <2>3. QED
    BY <1>1, <2>1, <2>2, ModifiesStep
<1>6. CASE put_scene(p)
  <2> DEFINE s == scene_update_basic(db, req[p].id, who[p].id, req[p].text)
  <2>1. req[p].text \in Text
    BY <1>1, <1>6, RequestFields DEF put_scene
  <2>2. Sound(s.db) /\ s.db.user = db.user
    BY <1>2, <2>1, SceneUpdateSound, UserTableKept DEF Sound
  <2>3. Modifies(p, s) /\ minted' \subseteq Ids
    BY <1>2, <1>6 DEF put_scene
  <2> HIDE DEF s
  <2>4. QED
    BY <1>1, <2>2, <2>3, ModifiesStep
<1>7. QED
  BY <1>3, <1>4, <1>5, <1>6

LEMMA CircuitHandlersStep ==
    ASSUME IInv, NEW p \in Proc, post_circuit(p) \/ get_circuit(p) \/ circuit_delete(p)
    PROVE  IInv'
<1> USE DEF IInv, Handles
<1>1. pc[p] = "handle" /\ req[p] \in Requests /\ Fits(req[p], made[p])
  BY DEF post_circuit, get_circuit, circuit_delete, RequestKnown, InFlight
<1>2. Sound(db) /\ minted \subseteq Ids
  BY DEF Sound, TypeOK, IntegrityHolds
<1>3. CASE post_circuit(p)
  <2> DEFINE s == circuit_save(db, made[p], CircuitOf(req[p]))
  <2>1. /\ CircuitOf(req[p]) \in
             [parent_scene : SceneId \union {Malformed},
              location_x : Coord, location_y : Coord,
              parent_circuit : CircuitId \union {Malformed, Null},
              gate_type : GateType]
        /\ made[p] \in CircuitId
    BY <1>1, <1>3, RequestFields DEF post_circuit, Fits
  <2>2. Sound(s.db)
    BY <1>2, <2>1, CircuitSaveSound
  <2>3. s.db.user = db.user
    BY <1>2, UserTableKept DEF Sound
  <2>4. made[p] \in Ids /\ Creates(p, s)
    BY <1>3, <2>1 DEF Ids, post_circuit
  <2> HIDE DEF s
  <2>5. QED
    BY <1>1, <2>2, <2>3, <2>4, CreatesStep
<1>4. CASE get_circuit(p)
  BY <1>1, <1>4, ReadsStep DEF get_circuit
<1>5. CASE circuit_delete(p)
  <2> DEFINE s == delete_circuit(db, req[p].id)
  <2>1. Sound(s.db) /\ s.db.user = db.user
    BY <1>2, CircuitDeleteSound, UserTableKept DEF Sound
  <2>2. Modifies(p, s) /\ minted' \subseteq Ids
    BY <1>2, <1>5 DEF circuit_delete
  <2> HIDE DEF s
  <2>3. QED
    BY <1>1, <2>1, <2>2, ModifiesStep
<1>6. QED
  BY <1>3, <1>4, <1>5

LEMMA WireHandlersStep ==
    ASSUME IInv, NEW p \in Proc, post_wire(p) \/ get_wire(p) \/ wire_delete(p)
    PROVE  IInv'
<1> USE DEF IInv, Handles
<1>1. pc[p] = "handle" /\ req[p] \in Requests /\ Fits(req[p], made[p])
  BY DEF post_wire, get_wire, wire_delete, RequestKnown, InFlight
<1>2. Sound(db) /\ minted \subseteq Ids
  BY DEF Sound, TypeOK, IntegrityHolds
<1>3. CASE post_wire(p)
  <2> DEFINE s == wire_save(db, made[p], WireOf(req[p]))
  <2>1. /\ WireOf(req[p]) \in
             [source_circuit : CircuitId \union {Malformed},
              target_circuit : CircuitId \union {Malformed},
              init_signal : BOOLEAN]
        /\ made[p] \in WireId
    BY <1>1, <1>3, RequestFields DEF post_wire, Fits
  <2>2. Sound(s.db)
    BY <1>2, <2>1, WireSaveSound
  <2>3. s.db.user = db.user
    BY <1>2, UserTableKept DEF Sound
  <2>4. made[p] \in Ids /\ Creates(p, s)
    BY <1>3, <2>1 DEF Ids, post_wire
  <2> HIDE DEF s
  <2>5. QED
    BY <1>1, <2>2, <2>3, <2>4, CreatesStep
<1>4. CASE get_wire(p)
  BY <1>1, <1>4, ReadsStep DEF get_wire
<1>5. CASE wire_delete(p)
  <2> DEFINE s == delete_wire(db, req[p].id)
  <2>1. Sound(s.db) /\ s.db.user = db.user
    BY <1>2, WireDeleteSound, UserTableKept DEF Sound
  <2>2. Modifies(p, s) /\ minted' \subseteq Ids
    BY <1>2, <1>5 DEF wire_delete
  <2> HIDE DEF s
  <2>3. QED
    BY <1>1, <2>1, <2>2, ModifiesStep
<1>6. QED
  BY <1>3, <1>4, <1>5

LEMMA ColumnNames == ColumnSet = {"location_x", "location_y", "parent_circuit", "gate_type"}
<1>1. 1..4 = {1, 2, 3, 4}
  OBVIOUS
<1>2. ColumnSet = {Columns[1], Columns[2], Columns[3], Columns[4]}
  BY <1>1 DEF ColumnSet
<1>3. QED
  BY <1>2 DEF Columns

\* One UPDATE of put_circuit, of a column that the body names.
LEMMA UpdateSound ==
    ASSUME NEW d, Sound(d), NEW r \in Requests, r.op = "put_circuit", NEW f \in Requested(r)
    PROVE  Sound(Update(d, f, r[f], r.id).db) /\ Update(d, f, r[f], r.id).db.user = d.user
<1>1. f \in ColumnSet /\ r[f] # Omitted
  BY DEF Requested
<1>2. ColumnSet = {"location_x", "location_y", "parent_circuit", "gate_type"}
  BY ColumnNames
<1>3. CASE f = "location_x"
  <2>1. /\ Update(d, f, r[f], r.id) = update_circuit_location_x(d, r.location_x, r.id)
        /\ r.location_x \in Coord \union {Malformed}
    BY <1>1, <1>3, RequestFields DEF Update
  <2>2. Sound(Update(d, f, r[f], r.id).db)
    BY <2>1, UpdateXSound
  <2>3. QED
    BY <2>1, <2>2, UserTableKept DEF Sound
<1>4. CASE f = "location_y"
  <2>1. /\ Update(d, f, r[f], r.id) = update_circuit_location_y(d, r.location_y, r.id)
        /\ r.location_y \in Coord \union {Malformed}
    BY <1>1, <1>4, RequestFields DEF Update
  <2>2. Sound(Update(d, f, r[f], r.id).db)
    BY <2>1, UpdateYSound
  <2>3. QED
    BY <2>1, <2>2, UserTableKept DEF Sound
<1>5. CASE f = "parent_circuit"
  <2>1. /\ Update(d, f, r[f], r.id) =
             update_circuit_parent_circuit(d, r.parent_circuit, r.id)
        /\ r.parent_circuit \in CircuitId \union {Malformed}
    BY <1>1, <1>5, RequestFields DEF Update
  <2>2. Sound(Update(d, f, r[f], r.id).db)
    BY <2>1, UpdateParentSound
  <2>3. QED
    BY <2>1, <2>2, UserTableKept DEF Sound
<1>6. CASE f = "gate_type"
  <2>1. /\ Update(d, f, r[f], r.id) = update_circuit_gate_type(d, r.gate_type, r.id)
        /\ r.gate_type \in GateType \union {Malformed}
    BY <1>1, <1>6, RequestFields DEF Update
  <2>2. Sound(Update(d, f, r[f], r.id).db)
    BY <2>1, UpdateGateSound
  <2>3. QED
    BY <2>1, <2>2, UserTableKept DEF Sound
<1>7. QED
  BY <1>1, <1>2, <1>3, <1>4, <1>5, <1>6

LEMMA PutCircuitStep ==
    ASSUME IInv, NEW p \in Proc, put_circuit_column(p)
    PROVE  IInv'
<1> USE DEF IInv
<1>1. PICK f \in ColumnSet, ok \in BOOLEAN :
        /\ IsNext(p, f)
        /\ Executes(p, Update(db, f, req[p][f], req[p].id), ok)
        /\ IF ok
           THEN todo' = [todo EXCEPT ![p] = todo[p] \ {f}] /\ UNCHANGED <<pc, outcome>>
           ELSE Answer(p, "failed") /\ UNCHANGED todo
  BY DEF put_circuit_column
<1> DEFINE s == Update(db, f, req[p][f], req[p].id)
<1>2. /\ pc[p] = "handle" /\ req[p].op = "put_circuit"
      /\ req[p] \in Requests /\ f \in todo[p] /\ todo[p] \subseteq Requested(req[p])
  BY <1>1 DEF put_circuit_column, Handles, IsNext, RequestKnown, InFlight
<1>3. Sound(db)
  BY DEF Sound, TypeOK, IntegrityHolds
<1>4. Sound(s.db) /\ s.db.user = db.user
  BY <1>2, <1>3, UpdateSound
<1>5. Executes(p, s, ok)
  BY <1>1
<1> HIDE DEF s
<1>6. /\ db' = db \/ db' = s.db
      /\ connected' \in [Proc -> BOOLEAN]
      /\ faults' \in 0..MaxFaults
  BY <1>5, ExecutesFacts
<1>7. Sound(db') /\ Users(db') = Users(db)
  BY <1>3, <1>4, <1>6 DEF Users
<1>8. PICK place \in {"handle", "reply"} : pc' = [pc EXCEPT ![p] = place]
  BY <1>1, <1>2 DEF Answer, Go, TypeOK
<1>9. outcome' \in [Proc -> Outcomes]
  BY <1>1 DEF Answer, TypeOK, Outcomes
<1>10. PICK left \in SUBSET todo[p] : todo' = [todo EXCEPT ![p] = left]
  <2>1. CASE ok
    BY <1>1, <2>1
  <2>2. CASE ~ok
    BY <1>1, <2>2 DEF TypeOK
  <2>3. QED
    BY <2>1, <2>2
<1>11. touched' \in [Proc -> BOOLEAN] /\ UNCHANGED <<minted, who, req, made>>
  <2>1. touched' = [touched EXCEPT ![p] = touched[p] \/ db' # db]
    BY DEF put_circuit_column
  <2>2. (touched[p] \/ db' # db) \in BOOLEAN
    OBVIOUS
  <2>3. QED
    BY <2>1, <2>2 DEF put_circuit_column, TypeOK
<1>12. todo' \in [Proc -> SUBSET ColumnSet]
  BY <1>10 DEF TypeOK
<1>13. TypeOK'
  BY <1>6, <1>7, <1>8, <1>9, <1>11, <1>12 DEF TypeOK, Places, Sound
<1>14. HandledAreRegistered'
  BY <1>2, <1>7, <1>8, <1>11 DEF TypeOK, HandledAreRegistered
<1>15. RequestKnown'
  BY <1>2, <1>8, <1>10, <1>11 DEF TypeOK, RequestKnown, InFlight
<1>16. QED
  BY <1>7, <1>13, <1>14, <1>15 DEF Sound, IntegrityHolds

LEMMA HandleStep ==
    ASSUME IInv, NEW p \in Proc, Handle(p)
    PROVE  IInv'
<1>1. CASE Reject(p)
  BY <1>1, AnswerStep DEF Reject, Outcomes
<1>2. CASE put_circuit_done(p)
  BY <1>2, AnswerStep DEF put_circuit_done, Outcomes
<1>3. QED
  BY <1>1, <1>2, SceneHandlersStep, CircuitHandlersStep, WireHandlersStep, PutCircuitStep
  DEF Handle

-----------------------------------------------------------------------------
(* The end of a request, faults, and the whole next-state relation.        *)

\* The process goes where no request is, with an empty session.
LEMMA EndStep ==
    ASSUME IInv, NEW p \in Proc, NEW place \in {"idle", "down"}, Go(p, place), EndSession(p),
           UNCHANGED tables, connected' \in [Proc -> BOOLEAN], faults' \in 0..MaxFaults
    PROVE  IInv'
<1> USE DEF IInv
<1>1. /\ pc' = [pc EXCEPT ![p] = place]
      /\ who' = [who EXCEPT ![p] = Anonymous]
      /\ req' = [req EXCEPT ![p] = NoRequest]
      /\ made' = [made EXCEPT ![p] = Absent]
      /\ todo' = [todo EXCEPT ![p] = {}]
      /\ outcome' = [outcome EXCEPT ![p] = "none"]
      /\ touched' = [touched EXCEPT ![p] = FALSE]
      /\ db' = db /\ minted' = minted
  BY DEF Go, EndSession, tables
<1>2. TypeOK'
  BY <1>1 DEF TypeOK, Places, Outcomes
<1>3. HandledAreRegistered' /\ RequestKnown'
  BY <1>1 DEF TypeOK, HandledAreRegistered, RequestKnown, InFlight
<1>4. QED
  BY <1>1, <1>2, <1>3 DEF IntegrityHolds

LEMMA LinkStep ==
    ASSUME IInv, NEW p \in Proc, Reply(p) \/ LoseConnection(p) \/ Crash(p) \/ Restart(p)
    PROVE  IInv'
<1> USE DEF IInv
<1>1. Fault => faults' \in 0..MaxFaults
  BY MaxFaultsAssumption DEF TypeOK, Fault
<1>2. CASE Reply(p)
  <2>1. connected' \in [Proc -> BOOLEAN] /\ faults' \in 0..MaxFaults
    BY <1>2 DEF Reply, link, TypeOK
  <2>2. QED
    BY <1>2, <2>1, EndStep DEF Reply
<1>3. CASE LoseConnection(p)
  <2>1. /\ connected' \in [Proc -> BOOLEAN] /\ faults' \in 0..MaxFaults
        /\ UNCHANGED <<db, minted, pc, who, req, made, todo, outcome, touched>>
    BY <1>1, <1>3 DEF LoseConnection, TypeOK, tables, session
  <2>2. QED
    BY <2>1 DEF TypeOK, IntegrityHolds, HandledAreRegistered, RequestKnown
<1>4. CASE Crash(p)
  <2>1. connected' \in [Proc -> BOOLEAN] /\ faults' \in 0..MaxFaults
    BY <1>1, <1>4 DEF Crash, TypeOK
  <2>2. QED
    BY <1>4, <2>1, EndStep DEF Crash
<1>5. CASE Restart(p)
  <2>1. /\ connected' \in [Proc -> BOOLEAN]
        /\ pc' = [pc EXCEPT ![p] = "idle"]
        /\ UNCHANGED <<db, minted, who, req, made, todo, outcome, touched, faults>>
    BY <1>5 DEF Restart, Go, TypeOK, tables
  <2>2. TypeOK'
    BY <2>1 DEF TypeOK, Places
  <2>3. QED
    BY <2>1, <2>2 DEF TypeOK, IntegrityHolds, HandledAreRegistered, RequestKnown, InFlight
<1>6. QED
  BY <1>2, <1>3, <1>4, <1>5

LEMMA InitIInv == Init => IInv
<1> SUFFICES ASSUME Init PROVE IInv
  OBVIOUS
<1>1. db \in Database /\ Integrity(db)
  BY SeedsAssumption DEF Init
<1>2. minted \subseteq Ids
  BY DEF Init, Ids, Scenes, Circuits, Wires
<1>3. TypeOK
  BY <1>1, <1>2, MaxFaultsAssumption DEF TypeOK, Init, InitSession, Places, Outcomes
<1>4. HandledAreRegistered /\ RequestKnown
  BY DEF Init, HandledAreRegistered, RequestKnown, InFlight
<1>5. QED
  BY <1>1, <1>3, <1>4 DEF IInv, IntegrityHolds

LEMMA StepIInv == IInv /\ [Next]_vars => IInv'
<1> SUFFICES ASSUME IInv, [Next]_vars PROVE IInv'
  OBVIOUS
<1>1. CASE Next
  <2>1. PICK p \in Proc :
          \/ \E i \in Identities \union {Anonymous}, r \in Requests : Receive(p, i, r)
          \/ Work(p) \/ LoseConnection(p) \/ Crash(p) \/ Restart(p)
    BY <1>1 DEF Next
  <2>2. CASE \E i \in Identities \union {Anonymous}, r \in Requests : Receive(p, i, r)
    BY <2>2, ReceiveStep
  <2>3. CASE Unauthorized(p)
    BY <2>3, AnswerStep DEF Unauthorized, Outcomes
  <2>4. QED
    BY <2>1, <2>2, <2>3, AuthLookupStep, AuthInsertStep, HandleStep, LinkStep DEF Work
<1>2. CASE UNCHANGED vars
  BY <1>2 DEF vars, tables, session, link, IInv, TypeOK, IntegrityHolds,
              HandledAreRegistered, RequestKnown
<1>3. QED
  BY <1>1, <1>2

\* IInv holds in every state of every behaviour.
THEOREM Invariant == Spec => []IInv
<1>1. Init => IInv
  BY InitIInv
<1>2. IInv /\ [Next]_vars => IInv'
  BY StepIInv
<1>3. QED
  BY <1>1, <1>2, PTL DEF Spec

\* Every variable stays in its type: in particular no statement ever stores a
\* row with a column that is malformed or of another kind.
THEOREM TypeCorrect == Spec => []TypeOK
BY Invariant, PTL DEF IInv

\* No interleaving of any number of processes, and no fault, leaves a row whose
\* author, scene, parent or end is missing, or two users of one name.
THEOREM IntegrityCorrect == Spec => []IntegrityHolds
BY Invariant, PTL DEF IInv

\* The filter's two statements suffice: whoever reaches a handler is a row of
\* the user table, and stays one.
THEOREM RegistrationCorrect == Spec => []HandledAreRegistered
BY Invariant, PTL DEF IInv

-----------------------------------------------------------------------------
(* The statement behind a step.                                            *)

\* In the handler of a request op, which this step answers.
Answers(p, op) == pc[p] = "handle" /\ pc'[p] = "reply" /\ req[p].op = op

\* The statements a step of p may be, with the request it serves.
SceneStatement(p) ==
    \/ /\ Answers(p, "post_scene")
       /\ db' = scene_save(db, made[p], who[p].id, req[p].text).db
       /\ minted' = minted \union {made[p]}
    \/ /\ Answers(p, "put_scene")
       /\ db' = scene_update_basic(db, req[p].id, who[p].id, req[p].text).db
    \/ /\ Answers(p, "delete_scene")
       /\ db' = scene_delete(db, req[p].id, who[p].id).db

CircuitStatement(p) ==
    \/ /\ Answers(p, "post_circuit")
       /\ db' = circuit_save(db, made[p], CircuitOf(req[p])).db
       /\ minted' = minted \union {made[p]}
    \/ /\ Answers(p, "circuit_delete")
       /\ db' = delete_circuit(db, req[p].id).db
    \/ /\ Handles(p, "put_circuit")
       /\ \E f \in Requested(req[p]) : db' = Update(db, f, req[p][f], req[p].id).db

WireStatement(p) ==
    \/ /\ Answers(p, "post_wire")
       /\ db' = wire_save(db, made[p], WireOf(req[p])).db
       /\ minted' = minted \union {made[p]}
    \/ /\ Answers(p, "wire_delete")
       /\ db' = delete_wire(db, req[p].id).db

UserStatement(p) ==
    /\ pc[p] = "auth_insert"
    /\ db' = user_insert(db, who[p].id, who[p].nickname).db

\* A handler that changes the tables did so by its statement, and answers.
LEMMA ModifiesFacts ==
    ASSUME TypeOK, NEW p \in Proc, NEW s, NEW op, Handles(p, op), Modifies(p, s), db' # db
    PROVE  db' = s.db /\ Answers(p, op)
<1>1. PICK ok \in BOOLEAN : Executes(p, s, ok) /\ Answer(p, Verdict(ok))
  BY DEF Modifies
<1>2. db' = s.db
  BY <1>1, ExecutesFacts
<1>3. pc'[p] = "reply"
  BY <1>1 DEF Answer, Go, TypeOK
<1>4. QED
  BY <1>2, <1>3 DEF Handles, Answers

\* A handler that reads changes no table.
LEMMA ReadsFacts ==
    ASSUME TypeOK, NEW p \in Proc, NEW wellFormed, NEW rows, Reads(p, wellFormed, rows)
    PROVE  db' = db
BY ExecutesFacts DEF Reads, Query

\* Of all steps of p, these change the tables.
LEMMA StatementCases ==
    ASSUME IInv, Next, db' # db
    PROVE  \E p \in Proc : \/ UserStatement(p) \/ SceneStatement(p)
                           \/ CircuitStatement(p) \/ WireStatement(p)
<1> USE DEF IInv
<1>1. PICK p \in Proc :
        \/ \E i \in Identities \union {Anonymous}, r \in Requests : Receive(p, i, r)
        \/ Work(p) \/ LoseConnection(p) \/ Crash(p) \/ Restart(p)
  BY DEF Next
<1>2. Work(p)
  BY <1>1 DEF Receive, LoseConnection, Crash, Restart, tables
<1>3. CASE Unauthorized(p) \/ AuthLookup(p) \/ Reply(p)
  BY <1>3, ExecutesFacts DEF Unauthorized, AuthLookup, Reply, Query, tables
<1>4. CASE AuthInsert(p)
  <2>1. PICK ok \in BOOLEAN : Executes(p, user_insert(db, who[p].id, who[p].nickname), ok)
    BY <1>4 DEF AuthInsert
  <2>2. UserStatement(p)
    BY <1>4, <2>1, ExecutesFacts DEF AuthInsert, UserStatement
  <2>3. QED
    BY <2>2
<1>5. CASE Reject(p) \/ put_circuit_done(p)
  BY <1>5 DEF Reject, put_circuit_done, tables
<1>6. CASE get_scene(p) \/ get_circuit(p) \/ get_wire(p)
  BY <1>6, ReadsFacts DEF get_scene, get_circuit, get_wire
<1>7. CASE post_scene(p) \/ delete_scene(p) \/ put_scene(p)
  <2>1. SceneStatement(p)
    BY <1>7, ModifiesFacts DEF post_scene, delete_scene, put_scene, Creates, SceneStatement
  <2>2. QED
    BY <2>1
<1>8. CASE post_circuit(p) \/ circuit_delete(p)
  <2>1. CircuitStatement(p)
    BY <1>8, ModifiesFacts DEF post_circuit, circuit_delete, Creates, CircuitStatement
  <2>2. QED
    BY <2>1
<1>9. CASE put_circuit_column(p)
  <2>1. PICK f \in ColumnSet, ok \in BOOLEAN :
          IsNext(p, f) /\ Executes(p, Update(db, f, req[p][f], req[p].id), ok)
    BY <1>9 DEF put_circuit_column
  <2>2. Handles(p, "put_circuit") /\ f \in Requested(req[p])
    BY <1>9, <2>1 DEF put_circuit_column, IsNext, Handles, RequestKnown, InFlight
  <2>3. db' = Update(db, f, req[p][f], req[p].id).db
    BY <2>1, ExecutesFacts
  <2>4. QED
    BY <2>2, <2>3 DEF CircuitStatement
<1>10. CASE post_wire(p) \/ wire_delete(p)
  <2>1. WireStatement(p)
    BY <1>10, ModifiesFacts DEF post_wire, wire_delete, Creates, WireStatement
  <2>2. QED
    BY <2>1
<1>11. QED
  BY <1>2, <1>3, <1>4, <1>5, <1>6, <1>7, <1>8, <1>9, <1>10 DEF Work, Handle

-----------------------------------------------------------------------------
(* Scenes.                                                                 *)

\* Statements about users, circuits and wires leave the scenes alone.
LEMMA SceneTableKept ==
    ASSUME NEW d \in Database, NEW id, NEW v
    PROVE  /\ user_insert(d, id, v).db.scene = d.scene
           /\ circuit_save(d, id, v).db.scene = d.scene
           /\ delete_circuit(d, id).db.scene = d.scene
           /\ wire_save(d, id, v).db.scene = d.scene
           /\ delete_wire(d, id).db.scene = d.scene
<1>1. /\ user_insert(d, id, v).db.scene = d.scene
      /\ circuit_save(d, id, v).db.scene = d.scene
      /\ wire_save(d, id, v).db.scene = d.scene
      /\ delete_wire(d, id).db.scene = d.scene
  BY DEF user_insert, circuit_save, wire_save, delete_wire, Result, Database
<1>2. delete_circuit(d, id).db.scene = d.scene
  <2>1. [s \in SceneId |-> IF s \in {} THEN Absent ELSE d.scene[s]] = d.scene
    BY DEF Database
  <2>2. QED
    BY <2>1 DEF delete_circuit, Remove, Result, Database
<1>3. QED
  BY <1>1, <1>2

LEMMA UpdateKeepsScenes ==
    ASSUME NEW d \in Database, NEW f \in ColumnSet, NEW id, NEW v
    PROVE  Update(d, f, v, id).db.scene = d.scene
<1>1. f \in {"location_x", "location_y", "parent_circuit", "gate_type"}
  BY ColumnNames
<1>2. /\ update_circuit_location_x(d, v, id).db.scene = d.scene
      /\ update_circuit_location_y(d, v, id).db.scene = d.scene
  BY DEF update_circuit_location_x, update_circuit_location_y, Result, Database
<1>3. /\ update_circuit_parent_circuit(d, v, id).db.scene = d.scene
      /\ update_circuit_gate_type(d, v, id).db.scene = d.scene
  BY DEF update_circuit_parent_circuit, update_circuit_gate_type, Result, Database
<1>4. QED
  BY <1>1, <1>2, <1>3 DEF Update

\* Before and after, a scene is the user's or is not there.
BelongsTo(d, s, user) == s \in Scenes(d) => d.scene[s].author = user

\* The statements about scenes change only scenes of the user they name.
LEMMA SceneWrites ==
    ASSUME NEW d \in Database, NEW id, NEW user, NEW text, NEW s \in SceneId,
           NEW e, e.scene[s] # d.scene[s],
           \/ id \in SceneId /\ e = scene_save(d, id, user, text).db
           \/ e = scene_update_basic(d, id, user, text).db
           \/ e = scene_delete(d, id, user).db
    PROVE  BelongsTo(d, s, user) /\ BelongsTo(e, s, user)
<1>1. CASE id \in SceneId /\ e = scene_save(d, id, user, text).db
  <2>1. id \notin Scenes(d) /\ e = [d EXCEPT !.scene[id] = [author |-> user, text |-> text]]
    BY <1>1 DEF scene_save, Result
  <2>2. s = id /\ e.scene[s] = [author |-> user, text |-> text]
    BY <1>1, <2>1 DEF Database
  <2>3. QED
    BY <2>1, <2>2 DEF BelongsTo
<1>2. CASE e = scene_update_basic(d, id, user, text).db
  <2>1. e.scene[s] = IF s \in OwnScenes(d, id, user)
                     THEN [d.scene[s] EXCEPT !.text = text] ELSE d.scene[s]
    BY <1>2 DEF scene_update_basic, Result, Database
  <2>2. /\ s \in Scenes(d) /\ d.scene[s].author = user
        /\ e.scene[s] = [d.scene[s] EXCEPT !.text = text]
    BY <2>1 DEF OwnScenes
  <2>3. e.scene[s].author = user
    BY <2>2, Rows DEF SceneRow
  <2>4. QED
    BY <2>2, <2>3 DEF BelongsTo
<1>3. CASE e = scene_delete(d, id, user).db
  <2>1. e.scene[s] = IF s \in OwnScenes(d, id, user) THEN Absent ELSE d.scene[s]
    BY <1>3 DEF scene_delete, Remove, Result, Database
  <2>2. d.scene[s].author = user /\ s \notin Scenes(e)
    BY <2>1 DEF OwnScenes, Scenes
  <2>3. QED
    BY <2>2 DEF BelongsTo
<1>4. QED
  BY <1>1, <1>2, <1>3

\* Only the author's own requests ever touch a scene, for any number of
\* processes that race, fail and restart: the WHERE clauses are enough, and no
\* cascade reaches a scene.
THEOREM OwnershipCorrect == Spec => OnlyAuthorTouchesScene
<1> DEFINE Owned ==
      \A s \in SceneId : db'.scene[s] # db.scene[s] =>
        \E p \in Proc :
            /\ pc[p] = "handle" /\ pc'[p] = "reply"
            /\ req[p].op \in {"post_scene", "put_scene", "delete_scene"}
            /\ s \in Scenes(db) => db.scene[s].author = who[p].id
            /\ s \in Scenes(db') => db'.scene[s].author = who[p].id
<1>1. ASSUME IInv, Next, NEW s \in SceneId, db'.scene[s] # db.scene[s]
      PROVE  \E p \in Proc :
            /\ pc[p] = "handle" /\ pc'[p] = "reply"
            /\ req[p].op \in {"post_scene", "put_scene", "delete_scene"}
            /\ s \in Scenes(db) => db.scene[s].author = who[p].id
            /\ s \in Scenes(db') => db'.scene[s].author = who[p].id
  <2>1. db \in Database
    BY <1>1 DEF IInv, TypeOK
  <2>2. PICK p \in Proc : \/ UserStatement(p) \/ SceneStatement(p)
                          \/ CircuitStatement(p) \/ WireStatement(p)
    BY <1>1, StatementCases
  <2>3. SceneStatement(p)
    <3>1. ~UserStatement(p)
      BY <1>1, <2>1, SceneTableKept DEF UserStatement
    <3>2. ~CircuitStatement(p)
      <4>1. ASSUME NEW f \in Requested(req[p])
            PROVE  Update(db, f, req[p][f], req[p].id).db.scene = db.scene
        BY <2>1, UpdateKeepsScenes DEF Requested
      <4>2. /\ circuit_save(db, made[p], CircuitOf(req[p])).db.scene = db.scene
            /\ delete_circuit(db, req[p].id).db.scene = db.scene
        BY <2>1, SceneTableKept
      <4>3. QED
        BY <1>1, <4>1, <4>2 DEF CircuitStatement
    <3>3. ~WireStatement(p)
      BY <1>1, <2>1, SceneTableKept DEF WireStatement
    <3>4. QED
      BY <2>2, <3>1, <3>2, <3>3
  <2>4. Answers(p, "post_scene") => made[p] \in SceneId
    BY <1>1 DEF Answers, IInv, RequestKnown, InFlight, Fits
  <2>5. BelongsTo(db, s, who[p].id) /\ BelongsTo(db', s, who[p].id)
    BY <1>1, <2>1, <2>3, <2>4, SceneWrites DEF SceneStatement
  <2>6. QED
    BY <2>3, <2>5 DEF SceneStatement, Answers, BelongsTo
<1>2. IInv /\ [Next]_vars => [Owned]_vars
  BY <1>1
<1>3. QED
  BY <1>2, Invariant, PTL DEF Spec, OnlyAuthorTouchesScene

-----------------------------------------------------------------------------
(* What the UPDATEs of PUT /circuit write.                                 *)

\* e is d with row for the circuit id, and that row is d's but for columns that
\* have the values of r.
Rewrites(d, e, id, row, r) ==
    /\ id \in Circuits(d)
    /\ e = [d EXCEPT !.circuit[id] = row]
    /\ row \in CircuitRow
    /\ row.parent_scene = d.circuit[id].parent_scene
    /\ \A g \in ColumnSet : row[g] # d.circuit[id][g] => row[g] = r[g]

LEMMA UpdateRewrites ==
    ASSUME NEW d \in Database, NEW r \in Requests, r.op = "put_circuit",
           NEW f \in Requested(r), NEW e, e = Update(d, f, r[f], r.id).db, e # d
    PROVE  \E row : Rewrites(d, e, r.id, row, r)
<1>1. f \in {"location_x", "location_y", "parent_circuit", "gate_type"} /\ r[f] # Omitted
  BY ColumnNames DEF Requested
<1>2. CASE f = "location_x"
  <2> DEFINE v == r.location_x
             row == [d.circuit[r.id] EXCEPT !.location_x = v]
  <2>1. e = update_circuit_location_x(d, v, r.id).db
    BY <1>2 DEF Update
  <2>2. /\ r.id \in Circuits(d) /\ v # Malformed
        /\ e = [d EXCEPT !.circuit[r.id].location_x = v]
    BY <2>1 DEF update_circuit_location_x, Result
  <2>3. v \in Coord
    BY <1>1, <1>2, <2>2, RequestFields
  <2>4. d.circuit[r.id] \in CircuitRow
    BY <2>2, Rows
  <2>5. /\ row \in CircuitRow /\ row.parent_scene = d.circuit[r.id].parent_scene
        /\ row.location_x = v
        /\ \A g \in ColumnSet : row[g] # d.circuit[r.id][g] => g = "location_x"
    BY <2>3, <2>4, ColumnNames DEF CircuitRow
  <2>6. e = [d EXCEPT !.circuit[r.id] = row]
    BY <2>2 DEF Database
  <2> HIDE DEF row
  <2>7. Rewrites(d, e, r.id, row, r)
    BY <2>2, <2>5, <2>6 DEF Rewrites
  <2>8. QED
    BY <2>7
<1>3. CASE f = "location_y"
  <2> DEFINE v == r.location_y
             row == [d.circuit[r.id] EXCEPT !.location_y = v]
  <2>1. e = update_circuit_location_y(d, v, r.id).db
    BY <1>3 DEF Update
  <2>2. /\ r.id \in Circuits(d) /\ v # Malformed
        /\ e = [d EXCEPT !.circuit[r.id].location_y = v]
    BY <2>1 DEF update_circuit_location_y, Result
  <2>3. v \in Coord
    BY <1>1, <1>3, <2>2, RequestFields
  <2>4. d.circuit[r.id] \in CircuitRow
    BY <2>2, Rows
  <2>5. /\ row \in CircuitRow /\ row.parent_scene = d.circuit[r.id].parent_scene
        /\ row.location_y = v
        /\ \A g \in ColumnSet : row[g] # d.circuit[r.id][g] => g = "location_y"
    BY <2>3, <2>4, ColumnNames DEF CircuitRow
  <2>6. e = [d EXCEPT !.circuit[r.id] = row]
    BY <2>2 DEF Database
  <2> HIDE DEF row
  <2>7. Rewrites(d, e, r.id, row, r)
    BY <2>2, <2>5, <2>6 DEF Rewrites
  <2>8. QED
    BY <2>7
<1>4. CASE f = "parent_circuit"
  <2> DEFINE v == r.parent_circuit
             row == [d.circuit[r.id] EXCEPT !.parent_circuit = v]
  <2>1. e = update_circuit_parent_circuit(d, v, r.id).db
    BY <1>4 DEF Update
  <2>2. /\ r.id \in Circuits(d) /\ v \in Circuits(d)
        /\ e = [d EXCEPT !.circuit[r.id].parent_circuit = v]
    BY <2>1 DEF update_circuit_parent_circuit, Result
  <2>3. v \in CircuitId
    BY <2>2 DEF Circuits
  <2>4. d.circuit[r.id] \in CircuitRow
    BY <2>2, Rows
  <2>5. /\ row \in CircuitRow /\ row.parent_scene = d.circuit[r.id].parent_scene
        /\ row.parent_circuit = v
        /\ \A g \in ColumnSet : row[g] # d.circuit[r.id][g] => g = "parent_circuit"
    BY <2>3, <2>4, ColumnNames DEF CircuitRow
  <2>6. e = [d EXCEPT !.circuit[r.id] = row]
    BY <2>2 DEF Database
  <2> HIDE DEF row
  <2>7. Rewrites(d, e, r.id, row, r)
    BY <2>2, <2>5, <2>6 DEF Rewrites
  <2>8. QED
    BY <2>7
<1>5. CASE f = "gate_type"
  <2> DEFINE v == r.gate_type
             row == [d.circuit[r.id] EXCEPT !.gate_type = v]
  <2>1. e = update_circuit_gate_type(d, v, r.id).db
    BY <1>5 DEF Update
  <2>2. /\ r.id \in Circuits(d) /\ v # Malformed
        /\ e = [d EXCEPT !.circuit[r.id].gate_type = v]
    BY <2>1 DEF update_circuit_gate_type, Result
  <2>3. v \in GateType
    BY <1>1, <1>5, <2>2, RequestFields
  <2>4. d.circuit[r.id] \in CircuitRow
    BY <2>2, Rows
  <2>5. /\ row \in CircuitRow /\ row.parent_scene = d.circuit[r.id].parent_scene
        /\ row.gate_type = v
        /\ \A g \in ColumnSet : row[g] # d.circuit[r.id][g] => g = "gate_type"
    BY <2>3, <2>4, ColumnNames DEF CircuitRow
  <2>6. e = [d EXCEPT !.circuit[r.id] = row]
    BY <2>2 DEF Database
  <2> HIDE DEF row
  <2>7. Rewrites(d, e, r.id, row, r)
    BY <2>2, <2>5, <2>6 DEF Rewrites
  <2>8. QED
    BY <2>7
<1>6. QED
  BY <1>1, <1>2, <1>3, <1>4, <1>5

\* No row comes or goes, and one circuit has new values in some columns.
LEMMA UpdateWrites ==
    ASSUME NEW d \in Database, NEW r \in Requests, r.op = "put_circuit",
           NEW f \in Requested(r), NEW e, e = Update(d, f, r[f], r.id).db
    PROVE  /\ e.user = d.user /\ e.scene = d.scene /\ e.wire = d.wire
           /\ Circuits(e) = Circuits(d)
           /\ \A c \in Circuits(d) : e.circuit[c].parent_scene = d.circuit[c].parent_scene
           /\ \A c \in Circuits(d), g \in ColumnSet :
                e.circuit[c][g] # d.circuit[c][g] => c = r.id /\ e.circuit[c][g] = r[g]
<1>1. CASE e = d
  BY <1>1
<1>2. CASE e # d
  <2>1. PICK row : Rewrites(d, e, r.id, row, r)
    BY <1>2, UpdateRewrites
  <2>2. /\ e.user = d.user /\ e.scene = d.scene /\ e.wire = d.wire
        /\ e.circuit[r.id] = row
        /\ \A c \in CircuitId \ {r.id} : e.circuit[c] = d.circuit[c]
    BY <2>1 DEF Rewrites, Database, Circuits
  <2>3. row # Absent
    BY <2>1, AbsentAssumption DEF Rewrites
  <2>4. Circuits(e) = Circuits(d)
    BY <2>1, <2>2, <2>3 DEF Rewrites, Circuits
  <2>5. \A c \in Circuits(d) : e.circuit[c].parent_scene = d.circuit[c].parent_scene
    BY <2>1, <2>2 DEF Rewrites, Circuits
  <2>6. \A c \in Circuits(d), g \in ColumnSet :
          e.circuit[c][g] # d.circuit[c][g] => c = r.id /\ e.circuit[c][g] = r[g]
    BY <2>1, <2>2 DEF Rewrites, Circuits
  <2>7. QED
    BY <2>2, <2>4, <2>5, <2>6
<1>3. QED
  BY <1>1, <1>2

-----------------------------------------------------------------------------
(* What the other statements do to circuits and wires.                     *)

LEMMA CircuitsKept ==
    ASSUME NEW d \in Database, NEW id, NEW a, NEW v
    PROVE  /\ user_insert(d, id, v).db.circuit = d.circuit
           /\ scene_save(d, id, a, v).db.circuit = d.circuit
           /\ scene_update_basic(d, id, a, v).db.circuit = d.circuit
           /\ wire_save(d, id, v).db.circuit = d.circuit
           /\ delete_wire(d, id).db.circuit = d.circuit
<1>1. /\ user_insert(d, id, v).db.circuit = d.circuit
      /\ scene_save(d, id, a, v).db.circuit = d.circuit
      /\ scene_update_basic(d, id, a, v).db.circuit = d.circuit
  BY DEF user_insert, scene_save, scene_update_basic, Result, Database
<1>2. /\ wire_save(d, id, v).db.circuit = d.circuit
      /\ delete_wire(d, id).db.circuit = d.circuit
  BY DEF wire_save, delete_wire, Result, Database
<1>3. QED
  BY <1>1, <1>2

LEMMA WiresKept ==
    ASSUME NEW d \in Database, NEW id, NEW a, NEW v
    PROVE  /\ user_insert(d, id, v).db.wire = d.wire
           /\ scene_save(d, id, a, v).db.wire = d.wire
           /\ scene_update_basic(d, id, a, v).db.wire = d.wire
           /\ circuit_save(d, id, v).db.wire = d.wire
BY DEF user_insert, scene_save, scene_update_basic, circuit_save, Result, Database

\* An INSERT adds at most the row of the id it names.
LEMMA CircuitSaveWrites ==
    ASSUME NEW d \in Database, NEW id \in CircuitId, NEW row, NEW e,
           e = circuit_save(d, id, row).db
    PROVE  /\ \A c \in Circuits(d) : e.circuit[c] = d.circuit[c]
           /\ Circuits(d) \subseteq Circuits(e)
           /\ Circuits(e) \subseteq Circuits(d) \union {id}
<1>1. CASE e = d
  BY <1>1
<1>2. CASE e # d
  <2>1. id \notin Circuits(d) /\ e = [d EXCEPT !.circuit[id] = row]
    BY <1>2 DEF circuit_save, Result
  <2>2. \A c \in CircuitId \ {id} : e.circuit[c] = d.circuit[c]
    BY <2>1 DEF Database
  <2>3. QED
    BY <2>1, <2>2 DEF Circuits
<1>3. QED
  BY <1>1, <1>2

LEMMA WireSaveWrites ==
    ASSUME NEW d \in Database, NEW id \in WireId, NEW row, NEW e,
           e = wire_save(d, id, row).db
    PROVE  /\ \A w \in Wires(d) : e.wire[w] = d.wire[w]
           /\ Wires(d) \subseteq Wires(e)
           /\ Wires(e) \subseteq Wires(d) \union {id}
<1>1. CASE e = d
  BY <1>1
<1>2. CASE e # d
  <2>1. id \notin Wires(d) /\ e = [d EXCEPT !.wire[id] = row]
    BY <1>2 DEF wire_save, Result
  <2>2. \A w \in WireId \ {id} : e.wire[w] = d.wire[w]
    BY <2>1 DEF Database
  <2>3. QED
    BY <2>1, <2>2 DEF Wires
<1>3. QED
  BY <1>1, <1>2

LEMMA WireDeleteWrites ==
    ASSUME NEW d \in Database, NEW id, NEW e, e = delete_wire(d, id).db
    PROVE  \A w \in WireId : e.wire[w] = d.wire[w] \/ (w = id /\ e.wire[w] = Absent)
BY DEF delete_wire, Result, Database

\* The rows a deletion leaves are what they were.
LEMMA RemoveWrites ==
    ASSUME NEW d \in Database, NEW scenes, NEW gone
    PROVE  LET e == Remove(d, scenes, gone)
               cut(w) == \/ d.wire[w].source_circuit \in gone
                         \/ d.wire[w].target_circuit \in gone
           IN  /\ e.user = d.user
               /\ \A s \in SceneId : e.scene[s] = IF s \in scenes THEN Absent ELSE d.scene[s]
               /\ \A c \in CircuitId :
                    e.circuit[c] = IF c \in gone THEN Absent ELSE d.circuit[c]
               /\ \A w \in WireId :
                    e.wire[w] = IF w \in Wires(d) /\ cut(w) THEN Absent ELSE d.wire[w]
BY DEF Remove, Database

-----------------------------------------------------------------------------
(* The cascade.                                                            *)

\* The cascade is the least closed set: what is in it and no root has its
\* parent in it.
LEMMA CascadeMinimal ==
    ASSUME NEW d, NEW roots, roots \subseteq CircuitId,
           NEW c \in Cascade(d, roots), c \notin roots
    PROVE  c \in Circuits(d) /\ d.circuit[c].parent_circuit \in Cascade(d, roots)
<1> SUFFICES ASSUME ~(c \in Circuits(d) /\ d.circuit[c].parent_circuit \in Cascade(d, roots))
             PROVE  FALSE
  OBVIOUS
<1> DEFINE S == Cascade(d, roots) \ {c}
<1>1. Cascade(d, roots) \subseteq CircuitId
  BY DEF Cascade
<1>2. roots \subseteq S
  BY CascadeClosed
<1>3. ChildClosed(d, S)
  BY CascadeClosed DEF ChildClosed
<1>4. c \in S
  BY <1>1, <1>2, <1>3 DEF Cascade
<1>5. QED
  BY <1>4

\* What a deletion takes: the roots, and for every other circuit its parent
\* goes too, for every wire one of its ends.
LEMMA RemoveJustified ==
    ASSUME NEW d, Sound(d), NEW scenes, NEW roots, roots \subseteq Circuits(d),
           NEW e, e = Remove(d, scenes, Cascade(d, roots))
    PROVE  /\ \A c \in Circuits(d) \ Circuits(e) :
                c \in roots \/ d.circuit[c].parent_circuit \in Circuits(d) \ Circuits(e)
           /\ \A w \in Wires(d) \ Wires(e) :
                \/ d.wire[w].source_circuit \in Circuits(d) \ Circuits(e)
                \/ d.wire[w].target_circuit \in Circuits(d) \ Circuits(e)
<1> DEFINE gone == Cascade(d, roots)
<1>1. roots \subseteq CircuitId
  BY DEF Circuits
<1>2. gone \subseteq CircuitId
  BY DEF Cascade
<1>3. \A c \in gone \ roots : c \in Circuits(d) /\ d.circuit[c].parent_circuit \in gone
  BY <1>1, CascadeMinimal
<1>4. /\ \A c \in CircuitId : e.circuit[c] = IF c \in gone THEN Absent ELSE d.circuit[c]
      /\ \A w \in WireId :
            e.wire[w] = IF w \in Wires(d) /\ (\/ d.wire[w].source_circuit \in gone
                                              \/ d.wire[w].target_circuit \in gone)
                        THEN Absent ELSE d.wire[w]
  BY RemoveWrites DEF Sound
<1> HIDE DEF gone
<1>5. Circuits(d) \ Circuits(e) = Circuits(d) \intersect gone
  BY <1>4 DEF Circuits
<1>6. ASSUME NEW c \in Circuits(d) \ Circuits(e), c \notin roots
      PROVE  d.circuit[c].parent_circuit \in Circuits(d) \ Circuits(e)
  <2>1. d.circuit[c].parent_circuit \in gone
    BY <1>3, <1>5, <1>6
  <2>2. d.circuit[c].parent_circuit \in Circuits(d)
    BY <1>2, <2>1, NullAssumption DEF Sound, Integrity
  <2>3. QED
    BY <1>5, <2>1, <2>2
<1>7. ASSUME NEW w \in Wires(d) \ Wires(e)
      PROVE  \/ d.wire[w].source_circuit \in Circuits(d) \ Circuits(e)
             \/ d.wire[w].target_circuit \in Circuits(d) \ Circuits(e)
  <2>1. d.wire[w].source_circuit \in gone \/ d.wire[w].target_circuit \in gone
    BY <1>4 DEF Wires
  <2>2. d.wire[w].source_circuit \in Circuits(d) /\ d.wire[w].target_circuit \in Circuits(d)
    BY DEF Sound, Integrity
  <2>3. QED
    BY <1>5, <2>1, <2>2
<1>8. QED
  BY <1>6, <1>7

\* A deletion by DELETE /scene or DELETE /circuit is justified as
\* CascadeIsJustified says.
LEMMA SceneDeleteJustified ==
    ASSUME NEW d, Sound(d), NEW id, NEW user, NEW e, e = scene_delete(d, id, user).db
    PROVE  /\ \A c \in Circuits(d) \ Circuits(e) :
                \/ d.circuit[c].parent_scene \in Scenes(d) \ Scenes(e)
                \/ d.circuit[c].parent_circuit \in Circuits(d) \ Circuits(e)
           /\ \A w \in Wires(d) \ Wires(e) :
                \/ d.wire[w].source_circuit \in Circuits(d) \ Circuits(e)
                \/ d.wire[w].target_circuit \in Circuits(d) \ Circuits(e)
<1> DEFINE scenes == OwnScenes(d, id, user)
           roots == CircuitsOf(d, scenes)
<1>1. CASE e = d
  BY <1>1
<1>2. CASE e # d
  <2>1. e = Remove(d, scenes, Cascade(d, roots))
    BY <1>2 DEF scene_delete, Result
  <2>2. roots \subseteq Circuits(d)
    BY DEF CircuitsOf
  <2>3. scenes \subseteq Scenes(d) /\ scenes \subseteq SceneId
    BY DEF OwnScenes, Scenes
  <2>4. \A c \in roots : d.circuit[c].parent_scene \in scenes
    BY DEF CircuitsOf
  <2> HIDE DEF scenes, roots
  <2>5. scenes \subseteq Scenes(d) \ Scenes(e)
    BY <2>1, <2>3, RemoveWrites DEF Sound, Scenes
  <2>6. QED
    BY <2>1, <2>2, <2>4, <2>5, RemoveJustified
<1>3. QED
  BY <1>1, <1>2

LEMMA CircuitDeleteJustified ==
    ASSUME NEW d, Sound(d), NEW id, NEW e, e = delete_circuit(d, id).db
    PROVE  /\ \A c \in Circuits(d) \ Circuits(e) :
                c = id \/ d.circuit[c].parent_circuit \in Circuits(d) \ Circuits(e)
           /\ \A w \in Wires(d) \ Wires(e) :
                \/ d.wire[w].source_circuit \in Circuits(d) \ Circuits(e)
                \/ d.wire[w].target_circuit \in Circuits(d) \ Circuits(e)
<1> DEFINE roots == {id} \intersect Circuits(d)
<1>1. CASE e = d
  BY <1>1
<1>2. CASE e # d
  <2>1. e = Remove(d, {}, Cascade(d, roots))
    BY <1>2 DEF delete_circuit, Result
  <2>2. roots \subseteq Circuits(d) /\ \A c \in roots : c = id
    OBVIOUS
  <2> HIDE DEF roots
  <2>3. QED
    BY <2>1, <2>2, RemoveJustified
<1>3. QED
  BY <1>1, <1>2

\* Only one process takes a step.
LEMMA OneMoves ==
    ASSUME TypeOK, Next, NEW p \in Proc, NEW q \in Proc, pc'[p] # pc[p], pc'[q] # pc[q]
    PROVE  p = q
<1>1. PICK m \in Proc :
        \/ \E i \in Identities \union {Anonymous}, r \in Requests : Receive(m, i, r)
        \/ Work(m) \/ LoseConnection(m) \/ Crash(m) \/ Restart(m)
  BY DEF Next
<1>2. ASSUME NEW s, Modifies(m, s)
      PROVE  \E place : Go(m, place)
  BY <1>2 DEF Modifies, Answer
<1>3. ASSUME NEW wellFormed, NEW rows, Reads(m, wellFormed, rows)
      PROVE  \E place : Go(m, place)
  BY <1>3 DEF Reads, Answer
<1>4. CASE Handle(m)
  <2>1. CASE Reject(m) \/ put_circuit_done(m)
    BY <2>1 DEF Reject, put_circuit_done, Answer, Go, TypeOK
  <2>2. CASE put_circuit_column(m)
    BY <2>2 DEF put_circuit_column, Answer, Go, TypeOK
  <2>3. CASE get_scene(m) \/ get_circuit(m) \/ get_wire(m)
    <3>1. \E place : Go(m, place)
      BY <1>3, <2>3 DEF get_scene, get_circuit, get_wire
    <3>2. QED
      BY <3>1 DEF Go, TypeOK
  <2>4. CASE \/ post_scene(m) \/ delete_scene(m) \/ put_scene(m)
             \/ post_circuit(m) \/ circuit_delete(m) \/ post_wire(m) \/ wire_delete(m)
    <3>1. \E place : Go(m, place)
      BY <1>2, <2>4 DEF post_scene, delete_scene, put_scene, post_circuit, circuit_delete,
                        post_wire, wire_delete, Creates
    <3>2. QED
      BY <3>1 DEF Go, TypeOK
  <2>5. QED
    BY <1>4, <2>1, <2>2, <2>3, <2>4 DEF Handle
<1>5. CASE Unauthorized(m) \/ AuthLookup(m) \/ AuthInsert(m) \/ Reply(m)
  <2>1. \E place : Go(m, place)
    <3>1. CASE AuthLookup(m)
      BY <3>1 DEF AuthLookup
    <3>2. CASE AuthInsert(m)
      BY <3>2 DEF AuthInsert, Answer
    <3>3. QED
      BY <1>5, <3>1, <3>2 DEF Unauthorized, Reply, Answer
  <2>2. QED
    BY <2>1 DEF Go, TypeOK
<1>6. CASE \E i \in Identities \union {Anonymous}, r \in Requests : Receive(m, i, r)
  BY <1>6 DEF Receive, Go, TypeOK
<1>7. CASE LoseConnection(m) \/ Crash(m) \/ Restart(m)
  BY <1>7 DEF LoseConnection, Crash, Restart, session, Go, TypeOK
<1>8. QED
  BY <1>1, <1>4, <1>5, <1>6, <1>7 DEF Work

\* A scene's deletion and a circuit's take only what must go with them: rows
\* that lose their scene, their parent or an end in the same step.
THEOREM CascadeCorrect == Spec => CascadeIsJustified
<1> DEFINE Justified(p) ==
        /\ \A c \in Circuits(db) \ Circuits(db') :
            \/ req[p].op = "circuit_delete" /\ req[p].id = c
            \/ db.circuit[c].parent_scene \in Scenes(db) \ Scenes(db')
            \/ db.circuit[c].parent_circuit \in Circuits(db) \ Circuits(db')
        /\ \A w \in Wires(db) \ Wires(db') :
            \/ req[p].op = "wire_delete" /\ req[p].id = w
            \/ db.wire[w].source_circuit \in Circuits(db) \ Circuits(db')
            \/ db.wire[w].target_circuit \in Circuits(db) \ Circuits(db')
<1>1. ASSUME IInv, Next, NEW q \in Proc, pc[q] = "handle", pc'[q] = "reply"
      PROVE  Justified(q)
  <2>1. CASE db' = db
    BY <2>1
  <2>2. CASE db' # db
    <3>1. Sound(db) /\ db \in Database
      BY <1>1 DEF IInv, TypeOK, IntegrityHolds, Sound
    <3>2. PICK p \in Proc : \/ UserStatement(p) \/ SceneStatement(p)
                            \/ CircuitStatement(p) \/ WireStatement(p)
      BY <1>1, <2>2, StatementCases
    <3>3. ASSUME NEW op, Answers(p, op)
          PROVE  p = q
      BY <1>1, <3>3, OneMoves DEF Answers, IInv
    <3>4. pc[p] = "handle" =>
            req[p] \in Requests /\ Fits(req[p], made[p])
      BY <1>1 DEF IInv, RequestKnown, InFlight
    <3>5. CASE UserStatement(p)
      <4>1. db'.circuit = db.circuit
        BY <3>1, <3>5, CircuitsKept DEF UserStatement
      <4>2. db'.wire = db.wire
        BY <3>1, <3>5, WiresKept DEF UserStatement
      <4>3. QED
        BY <4>1, <4>2 DEF Circuits, Wires
    <3>6. CASE SceneStatement(p)
      <4>1. CASE db' = scene_delete(db, req[p].id, who[p].id).db
        BY <3>1, <4>1, SceneDeleteJustified
      <4>2. CASE \/ db' = scene_save(db, made[p], who[p].id, req[p].text).db
                 \/ db' = scene_update_basic(db, req[p].id, who[p].id, req[p].text).db
        BY <3>1, <4>2, CircuitsKept, WiresKept DEF Circuits, Wires
      <4>3. QED
        BY <3>6, <4>1, <4>2 DEF SceneStatement
    <3>7. CASE CircuitStatement(p)
      <4>1. CASE /\ Answers(p, "post_circuit")
                 /\ db' = circuit_save(db, made[p], CircuitOf(req[p])).db
        <5>1. Circuits(db) \subseteq Circuits(db')
          BY <3>1, <3>4, <4>1, CircuitSaveWrites DEF Answers, Fits
        <5>2. db'.wire = db.wire
          BY <3>1, <4>1, WiresKept
        <5>3. QED
          BY <5>1, <5>2 DEF Wires
      <4>2. CASE Answers(p, "circuit_delete") /\ db' = delete_circuit(db, req[p].id).db
        <5>1. p = q /\ req[p].op = "circuit_delete"
          BY <3>3, <4>2 DEF Answers
        <5>2. QED
          BY <3>1, <4>2, <5>1, CircuitDeleteJustified
      <4>3. CASE Handles(p, "put_circuit") /\
                 \E f \in Requested(req[p]) : db' = Update(db, f, req[p][f], req[p].id).db
        <5>1. db'.wire = db.wire /\ Circuits(db') = Circuits(db)
          BY <3>1, <3>4, <4>3, UpdateWrites DEF Handles
        <5>2. QED
          BY <5>1 DEF Wires
      <4>4. QED
        BY <3>7, <4>1, <4>2, <4>3 DEF CircuitStatement
    <3>8. CASE WireStatement(p)
      <4>1. CASE Answers(p, "post_wire") /\ db' = wire_save(db, made[p], WireOf(req[p])).db
        <5>1. Wires(db) \subseteq Wires(db')
          BY <3>1, <3>4, <4>1, WireSaveWrites DEF Answers, Fits
        <5>2. db'.circuit = db.circuit
          BY <3>1, <4>1, CircuitsKept
        <5>3. QED
          BY <5>1, <5>2 DEF Circuits
      <4>2. CASE Answers(p, "wire_delete") /\ db' = delete_wire(db, req[p].id).db
        <5>1. p = q /\ req[p].op = "wire_delete"
          BY <3>3, <4>2 DEF Answers
        <5>2. \A w \in Wires(db) \ Wires(db') : w = req[p].id
          BY <3>1, <4>2, WireDeleteWrites DEF Wires
        <5>3. db'.circuit = db.circuit
          BY <3>1, <4>2, CircuitsKept
        <5>4. QED
          BY <5>1, <5>2, <5>3 DEF Circuits
      <4>3. QED
        BY <3>8, <4>1, <4>2 DEF WireStatement
    <3>9. QED
      BY <3>2, <3>5, <3>6, <3>7, <3>8
  <2>3. QED
    BY <2>1, <2>2
<1> DEFINE AllJustified == \A p \in Proc : pc[p] = "handle" /\ pc'[p] = "reply" => Justified(p)
<1>2. IInv /\ [Next]_vars => [AllJustified]_vars
  BY <1>1
<1>3. QED
  BY <1>2, Invariant, PTL DEF Spec, CascadeIsJustified

\* A column changes in the UPDATE of a PUT /circuit that asks for it.
LEMMA ColumnsStep ==
    ASSUME IInv, Next, NEW c \in Circuits(db) \intersect Circuits(db'), NEW g \in ColumnSet,
           db'.circuit[c][g] # db.circuit[c][g]
    PROVE  \E p \in Proc : /\ Handles(p, "put_circuit")
                           /\ req[p].id = c
                           /\ db'.circuit[c][g] = req[p][g]
<1>1. Sound(db) /\ db \in Database /\ db' # db
  BY DEF IInv, TypeOK, IntegrityHolds, Sound
<1>2. PICK p \in Proc : \/ UserStatement(p) \/ SceneStatement(p)
                        \/ CircuitStatement(p) \/ WireStatement(p)
  BY <1>1, StatementCases
<1>3. pc[p] = "handle" => req[p] \in Requests /\ Fits(req[p], made[p])
  BY DEF IInv, RequestKnown, InFlight
<1>4. ASSUME NEW id, NEW user, db' = scene_delete(db, id, user).db
      PROVE  FALSE
  BY <1>1, <1>4, RemoveWrites DEF scene_delete, Result, Circuits
<1>5. ASSUME NEW id, db' = delete_circuit(db, id).db
      PROVE  FALSE
  BY <1>1, <1>5, RemoveWrites DEF delete_circuit, Result, Circuits
<1>6. ~UserStatement(p) /\ ~WireStatement(p) /\ ~SceneStatement(p)
  <2>1. db'.circuit # db.circuit
    OBVIOUS
  <2>2. ~UserStatement(p)
    BY <1>1, <2>1, CircuitsKept DEF UserStatement
  <2>3. ~WireStatement(p)
    BY <1>1, <2>1, CircuitsKept DEF WireStatement
  <2>4. ~SceneStatement(p)
    BY <1>1, <1>4, <2>1, CircuitsKept DEF SceneStatement
  <2>5. QED
    BY <2>2, <2>3, <2>4
<1>7. ~(/\ Answers(p, "post_circuit")
        /\ db' = circuit_save(db, made[p], CircuitOf(req[p])).db)
  BY <1>1, <1>3, CircuitSaveWrites DEF Answers, Fits
<1>8. PICK f \in Requested(req[p]) :
        Handles(p, "put_circuit") /\ db' = Update(db, f, req[p][f], req[p].id).db
  BY <1>2, <1>5, <1>6, <1>7 DEF CircuitStatement
<1>9. c = req[p].id /\ db'.circuit[c][g] = req[p][g]
  BY <1>1, <1>3, <1>8, UpdateWrites DEF Handles
<1>10. QED
  BY <1>8, <1>9

\* A column of a circuit only ever changes to the value that a PUT /circuit for
\* that circuit asks for.
THEOREM ColumnsCorrect == Spec => OnlyRequestedColumnsChange
<1> DEFINE AllAsked == \A c \in Circuits(db) \intersect Circuits(db'), f \in ColumnSet :
                          db'.circuit[c][f] # db.circuit[c][f] =>
                            \E p \in Proc : /\ Handles(p, "put_circuit")
                                            /\ req[p].id = c
                                            /\ db'.circuit[c][f] = req[p][f]
<1>1. IInv /\ Next => AllAsked
  BY ColumnsStep
<1>2. IInv /\ [Next]_vars => [AllAsked]_vars
  BY <1>1
<1>3. QED
  BY <1>2, Invariant, PTL DEF Spec, OnlyRequestedColumnsChange

-----------------------------------------------------------------------------
(* The lives of rows and ids.                                              *)

Creating(r) == r.op \in {"post_scene", "post_circuit", "post_wire"}

RowsMinted == Scenes(db) \union Circuits(db) \union Wires(db) \subseteq minted

DrawnAreFresh ==
    \A p \in Proc :
        /\ pc[p] \in {"idle", "down"} => made[p] = Absent
        /\ pc[p] \in InFlight /\ Creating(req[p]) =>
            /\ made[p] \notin minted \union {Absent}
            /\ \A q \in Proc \ {p} : made[q] # made[p]

Fresh == RowsMinted /\ DrawnAreFresh

-----------------------------------------------------------------------------
(* What the statements do to lives.                                        *)

\* The rows that are in both keep what never changes of them.
Continues(d, e) ==
    /\ \A u \in Users(d) : e.user[u] = d.user[u]
    /\ \A s \in Scenes(d) \intersect Scenes(e) : e.scene[s].author = d.scene[s].author
    /\ \A c \in Circuits(d) \intersect Circuits(e) :
            e.circuit[c].parent_scene = d.circuit[c].parent_scene
    /\ \A w \in Wires(d) \intersect Wires(e) : e.wire[w] = d.wire[w]

\* No row is in e that is not in d, save those of the ids.
AddsOnly(d, e, scenes, circuits, wires) ==
    /\ Scenes(e) \subseteq Scenes(d) \union scenes
    /\ Circuits(e) \subseteq Circuits(d) \union circuits
    /\ Wires(e) \subseteq Wires(d) \union wires

LEMMA SceneSaveLives ==
    ASSUME NEW d \in Database, NEW id \in SceneId, NEW a, NEW t, NEW e,
           e = scene_save(d, id, a, t).db
    PROVE  Continues(d, e) /\ AddsOnly(d, e, {id}, {}, {})
<1>1. e.user = d.user /\ e.circuit = d.circuit /\ e.wire = d.wire
  BY DEF scene_save, Result, Database
<1>2. /\ \A s \in Scenes(d) : e.scene[s] = d.scene[s]
      /\ Scenes(e) \subseteq Scenes(d) \union {id}
  <2>1. CASE e = d
    BY <2>1
  <2>2. CASE e # d
    <3>1. id \notin Scenes(d) /\ e = [d EXCEPT !.scene[id] = [author |-> a, text |-> t]]
      BY <2>2 DEF scene_save, Result
    <3>2. \A s \in SceneId \ {id} : e.scene[s] = d.scene[s]
      BY <3>1 DEF Database
    <3>3. QED
      BY <3>1, <3>2 DEF Scenes
  <2>3. QED
    BY <2>1, <2>2
<1>3. QED
  BY <1>1, <1>2 DEF Continues, AddsOnly, Users, Circuits, Wires

LEMMA SceneUpdateLives ==
    ASSUME NEW d \in Database, NEW id, NEW user, NEW t, NEW e,
           e = scene_update_basic(d, id, user, t).db
    PROVE  Continues(d, e) /\ AddsOnly(d, e, {}, {}, {})
<1>1. e.user = d.user /\ e.circuit = d.circuit /\ e.wire = d.wire
  BY DEF scene_update_basic, Result, Database
<1>2. \A s \in SceneId : e.scene[s] = d.scene[s] \/
        (s \in Scenes(d) /\ e.scene[s] = [d.scene[s] EXCEPT !.text = t])
  <2>1. OwnScenes(d, id, user) \subseteq Scenes(d)
    BY DEF OwnScenes
  <2>2. CASE e = d
    BY <2>2
  <2>3. CASE e # d
    <3>1. e.scene = [s \in SceneId |-> IF s \in OwnScenes(d, id, user)
                                      THEN [d.scene[s] EXCEPT !.text = t] ELSE d.scene[s]]
      BY <2>3 DEF scene_update_basic, Result, Database
    <3>2. QED
      BY <2>1, <3>1
  <2>4. QED
    BY <2>2, <2>3
<1>3. \A s \in Scenes(d) : [d.scene[s] EXCEPT !.text = t].author = d.scene[s].author
  BY Rows DEF SceneRow
<1>4. \A s \in Scenes(d) : e.scene[s].author = d.scene[s].author
  BY <1>2, <1>3 DEF Scenes
<1>5. Scenes(e) \subseteq Scenes(d)
  BY <1>2 DEF Scenes
<1>6. QED
  BY <1>1, <1>4, <1>5 DEF Continues, AddsOnly, Users, Circuits, Wires

LEMMA RemoveLives ==
    ASSUME NEW d \in Database, NEW scenes, NEW gone, NEW e, e = Remove(d, scenes, gone)
    PROVE  Continues(d, e) /\ AddsOnly(d, e, {}, {}, {})
<1>1. /\ e.user = d.user
      /\ \A s \in SceneId : e.scene[s] \in {Absent, d.scene[s]}
      /\ \A c \in CircuitId : e.circuit[c] \in {Absent, d.circuit[c]}
      /\ \A w \in WireId : e.wire[w] \in {Absent, d.wire[w]}
  BY RemoveWrites
<1>2. /\ \A s \in Scenes(e) : s \in Scenes(d) /\ e.scene[s] = d.scene[s]
      /\ \A c \in Circuits(e) : c \in Circuits(d) /\ e.circuit[c] = d.circuit[c]
      /\ \A w \in Wires(e) : w \in Wires(d) /\ e.wire[w] = d.wire[w]
  BY <1>1 DEF Scenes, Circuits, Wires
<1>3. QED
  BY <1>1, <1>2 DEF Continues, AddsOnly

\* Nothing is different, so nothing is lost or added.
LEMMA SameLives == \A d : Continues(d, d) /\ AddsOnly(d, d, {}, {}, {})
BY DEF Continues, AddsOnly

LEMMA DeletesLive ==
    ASSUME NEW d \in Database, NEW id, NEW user, NEW e,
           e = scene_delete(d, id, user).db \/ e = delete_circuit(d, id).db
    PROVE  Continues(d, e) /\ AddsOnly(d, e, {}, {}, {})
<1>1. CASE e = d
  BY <1>1, SameLives
<1>2. CASE e # d
  <2>1. \E scenes, gone : e = Remove(d, scenes, gone)
    BY <1>2 DEF scene_delete, delete_circuit, Result
  <2>2. QED
    BY <2>1, RemoveLives
<1>3. QED
  BY <1>1, <1>2

LEMMA UserInsertLives ==
    ASSUME NEW d \in Database, NEW id \in UserId, NEW n \in Nickname, NEW e,
           e = user_insert(d, id, n).db
    PROVE  Continues(d, e) /\ AddsOnly(d, e, {}, {}, {})
<1>1. e.scene = d.scene /\ e.circuit = d.circuit /\ e.wire = d.wire
  BY DEF user_insert, Result, Database
<1>2. \A u \in Users(d) : e.user[u] = d.user[u]
  BY UserInsertAdds
<1>3. QED
  BY <1>1, <1>2 DEF Continues, AddsOnly, Scenes, Circuits, Wires

LEMMA CircuitSaveLives ==
    ASSUME NEW d \in Database, NEW id \in CircuitId, NEW row, NEW e,
           e = circuit_save(d, id, row).db
    PROVE  Continues(d, e) /\ AddsOnly(d, e, {}, {id}, {})
<1>1. e.user = d.user /\ e.scene = d.scene /\ e.wire = d.wire
  BY DEF circuit_save, Result, Database
<1>2. /\ \A c \in Circuits(d) : e.circuit[c] = d.circuit[c]
      /\ Circuits(e) \subseteq Circuits(d) \union {id}
  BY CircuitSaveWrites
<1>3. QED
  BY <1>1, <1>2 DEF Continues, AddsOnly, Users, Scenes, Wires

LEMMA UpdateLives ==
    ASSUME NEW d \in Database, NEW r \in Requests, r.op = "put_circuit",
           NEW f \in Requested(r), NEW e, e = Update(d, f, r[f], r.id).db
    PROVE  Continues(d, e) /\ AddsOnly(d, e, {}, {}, {})
<1>1. /\ e.user = d.user /\ e.scene = d.scene /\ e.wire = d.wire
      /\ Circuits(e) = Circuits(d)
      /\ \A c \in Circuits(d) : e.circuit[c].parent_scene = d.circuit[c].parent_scene
  BY UpdateWrites
<1>2. QED
  BY <1>1 DEF Continues, AddsOnly, Users, Scenes, Wires

LEMMA WireSaveLives ==
    ASSUME NEW d \in Database, NEW id \in WireId, NEW row, NEW e,
           e = wire_save(d, id, row).db
    PROVE  Continues(d, e) /\ AddsOnly(d, e, {}, {}, {id})
<1>1. e.user = d.user /\ e.scene = d.scene /\ e.circuit = d.circuit
  BY DEF wire_save, Result, Database
<1>2. /\ \A w \in Wires(d) : e.wire[w] = d.wire[w]
      /\ Wires(e) \subseteq Wires(d) \union {id}
  BY WireSaveWrites
<1>3. QED
  BY <1>1, <1>2 DEF Continues, AddsOnly, Users, Scenes, Circuits

LEMMA WireDeleteLives ==
    ASSUME NEW d \in Database, NEW id, NEW e, e = delete_wire(d, id).db
    PROVE  Continues(d, e) /\ AddsOnly(d, e, {}, {}, {})
<1>1. e.user = d.user /\ e.scene = d.scene /\ e.circuit = d.circuit
  BY DEF delete_wire, Result, Database
<1>2. \A w \in Wires(e) : w \in Wires(d) /\ e.wire[w] = d.wire[w]
  BY WireDeleteWrites DEF Wires
<1>3. QED
  BY <1>1, <1>2 DEF Continues, AddsOnly, Users, Scenes, Circuits

-----------------------------------------------------------------------------
(* Drawn UUIDs.                                                            *)

\* What a step that changes the tables does to lives, and whose rows it adds.
LEMMA StepLives ==
    ASSUME IInv, Next, db' # db
    PROVE  /\ Continues(db, db')
           /\ \/ AddsOnly(db, db', {}, {}, {})
              \/ \E p \in Proc :
                    /\ pc[p] = "handle" /\ Creating(req[p]) /\ minted' = minted \union {made[p]}
                    /\ AddsOnly(db, db', {made[p]}, {made[p]}, {made[p]})
<1>1. db \in Database
  BY DEF IInv, TypeOK
<1>2. PICK p \in Proc : \/ UserStatement(p) \/ SceneStatement(p)
                        \/ CircuitStatement(p) \/ WireStatement(p)
  BY StatementCases
<1>3. /\ pc[p] = "handle" => req[p] \in Requests /\ Fits(req[p], made[p])
      /\ pc[p] = "auth_insert" => who[p].id \in UserId /\ who[p].nickname \in Nickname
  BY IdentitiesAssumption DEF IInv, RequestKnown, InFlight, Identity
<1>4. CASE UserStatement(p)
  BY <1>1, <1>3, <1>4, UserInsertLives DEF UserStatement
<1>5. CASE SceneStatement(p)
  <2>1. CASE /\ Answers(p, "post_scene")
             /\ db' = scene_save(db, made[p], who[p].id, req[p].text).db
             /\ minted' = minted \union {made[p]}
    <3>1. Continues(db, db') /\ AddsOnly(db, db', {made[p]}, {}, {})
      BY <1>1, <1>3, <2>1, SceneSaveLives DEF Answers, Fits
    <3>2. QED
      BY <2>1, <3>1 DEF Answers, Creating, AddsOnly
  <2>2. CASE db' = scene_update_basic(db, req[p].id, who[p].id, req[p].text).db
    BY <1>1, <2>2, SceneUpdateLives
  <2>3. CASE db' = scene_delete(db, req[p].id, who[p].id).db
    BY <1>1, <2>3, DeletesLive
  <2>4. QED
    BY <1>5, <2>1, <2>2, <2>3 DEF SceneStatement
<1>6. CASE CircuitStatement(p)
  <2>1. CASE /\ Answers(p, "post_circuit")
             /\ db' = circuit_save(db, made[p], CircuitOf(req[p])).db
             /\ minted' = minted \union {made[p]}
    <3>1. Continues(db, db') /\ AddsOnly(db, db', {}, {made[p]}, {})
      BY <1>1, <1>3, <2>1, CircuitSaveLives DEF Answers, Fits
    <3>2. QED
      BY <2>1, <3>1 DEF Answers, Creating, AddsOnly
  <2>2. CASE db' = delete_circuit(db, req[p].id).db
    BY <1>1, <2>2, DeletesLive
  <2>3. CASE /\ Handles(p, "put_circuit")
             /\ \E f \in Requested(req[p]) : db' = Update(db, f, req[p][f], req[p].id).db
    BY <1>1, <1>3, <2>3, UpdateLives DEF Handles
  <2>4. QED
    BY <1>6, <2>1, <2>2, <2>3 DEF CircuitStatement
<1>7. CASE WireStatement(p)
  <2>1. CASE /\ Answers(p, "post_wire")
             /\ db' = wire_save(db, made[p], WireOf(req[p])).db
             /\ minted' = minted \union {made[p]}
    <3>1. Continues(db, db') /\ AddsOnly(db, db', {}, {}, {made[p]})
      BY <1>1, <1>3, <2>1, WireSaveLives DEF Answers, Fits
    <3>2. QED
      BY <2>1, <3>1 DEF Answers, Creating, AddsOnly
  <2>2. CASE db' = delete_wire(db, req[p].id).db
    BY <1>1, <2>2, WireDeleteLives
  <2>3. QED
    BY <1>7, <2>1, <2>2 DEF WireStatement
<1>8. QED
  BY <1>2, <1>4, <1>5, <1>6, <1>7

\* The step of p keeps its request and the UUID it drew, and mints at most that
\* UUID, as it answers.
Keeps(p) ==
    /\ made' = made /\ req' = req
    /\ \/ minted' = minted
       \/ minted' = minted \union {made[p]} /\ pc'[p] = "reply"
    /\ \E place \in Places :
        /\ pc' = [pc EXCEPT ![p] = place]
        /\ place \in InFlight => pc[p] \in InFlight
        /\ place \in {"idle", "down"} => pc[p] \in {"idle", "down"}

Ends(p) ==
    /\ minted' = minted
    /\ made' = [made EXCEPT ![p] = Absent]
    /\ req' = [req EXCEPT ![p] = NoRequest]
    /\ \E place \in {"idle", "down"} : pc' = [pc EXCEPT ![p] = place]

LEMMA HandleKeeps ==
    ASSUME TypeOK, NEW p \in Proc, Handle(p)
    PROVE  Keeps(p)
<1>1. ASSUME made' = made, req' = req, minted' = minted, pc[p] = "handle",
             \E place \in {"handle", "reply"} : pc' = [pc EXCEPT ![p] = place]
      PROVE  Keeps(p)
  BY <1>1 DEF Keeps, Places, InFlight
<1>2. ASSUME NEW s, NEW op, Handles(p, op), Modifies(p, s), minted' = minted
      PROVE  Keeps(p)
  BY <1>1, <1>2 DEF Modifies, Answer, Go, Handles
<1>3. ASSUME NEW s, NEW op, Handles(p, op), Creates(p, s)
      PROVE  Keeps(p)
  <2>1. /\ made' = made /\ req' = req /\ pc[p] = "handle"
        /\ pc' = [pc EXCEPT ![p] = "reply"]
        /\ minted' \in {minted, minted \union {made[p]}}
    BY <1>3 DEF Creates, Modifies, Answer, Go, Handles
  <2>2. pc'[p] = "reply"
    BY <2>1 DEF TypeOK
  <2>3. QED
    BY <2>1, <2>2 DEF Keeps, Places, InFlight
<1>4. ASSUME NEW wellFormed, NEW rows, NEW op, Handles(p, op), Reads(p, wellFormed, rows)
      PROVE  Keeps(p)
  BY <1>1, <1>4 DEF Reads, Answer, Go, Handles
<1>5. CASE Reject(p) \/ put_circuit_done(p)
  BY <1>1, <1>5 DEF Reject, put_circuit_done, Answer, Go, Handles, tables
<1>6. CASE put_circuit_column(p)
  <2>1. \E place \in {"handle", "reply"} : pc' = [pc EXCEPT ![p] = place]
    BY <1>6 DEF put_circuit_column, Answer, Go, Handles, TypeOK
  <2>2. QED
    BY <1>1, <1>6, <2>1 DEF put_circuit_column, Handles
<1>7. CASE post_scene(p) \/ post_circuit(p) \/ post_wire(p)
  BY <1>3, <1>7 DEF post_scene, post_circuit, post_wire
<1>8. CASE delete_scene(p) \/ put_scene(p) \/ circuit_delete(p) \/ wire_delete(p)
  BY <1>2, <1>8 DEF delete_scene, put_scene, circuit_delete, wire_delete
<1>9. CASE get_scene(p) \/ get_circuit(p) \/ get_wire(p)
  BY <1>4, <1>9 DEF get_scene, get_circuit, get_wire
<1>10. QED
  BY <1>5, <1>6, <1>7, <1>8, <1>9 DEF Handle

\* Every step receives a request, keeps one or ends one.
LEMMA StepKinds ==
    ASSUME TypeOK, Next
    PROVE  \E p \in Proc :
              \/ \E i \in Identities \union {Anonymous}, r \in Requests : Receive(p, i, r)
              \/ Keeps(p)
              \/ Ends(p)
<1>1. PICK p \in Proc :
        \/ \E i \in Identities \union {Anonymous}, r \in Requests : Receive(p, i, r)
        \/ Work(p) \/ LoseConnection(p) \/ Crash(p) \/ Restart(p)
  BY DEF Next
<1>2. CASE Unauthorized(p)
  BY <1>2 DEF Unauthorized, Keeps, Answer, Go, tables, Places, InFlight
<1>3. CASE AuthLookup(p)
  <2>1. \E place \in {"handle", "auth_insert"} : pc' = [pc EXCEPT ![p] = place]
    BY <1>3 DEF AuthLookup, Go
  <2>2. QED
    BY <1>3, <2>1 DEF AuthLookup, Keeps, Places, InFlight
<1>4. CASE AuthInsert(p)
  <2>1. \E place \in {"handle", "reply"} : pc' = [pc EXCEPT ![p] = place]
    BY <1>4 DEF AuthInsert, Answer, Go
  <2>2. QED
    BY <1>4, <2>1 DEF AuthInsert, Keeps, Places, InFlight
<1>5. CASE Reply(p) \/ Crash(p)
  <2>1. Ends(p)
    BY <1>5 DEF Reply, Crash, Ends, EndSession, Go, tables
  <2>2. QED
    BY <2>1
<1>6. CASE LoseConnection(p)
  <2>1. pc' = [pc EXCEPT ![p] = pc[p]] /\ pc[p] \in Places
    BY <1>6 DEF LoseConnection, session, TypeOK
  <2>2. QED
    BY <1>6, <2>1 DEF LoseConnection, Keeps, session, tables
<1>7. CASE Restart(p)
  BY <1>7 DEF Restart, Keeps, Go, tables, Places, InFlight
<1>8. QED
  BY <1>1, <1>2, <1>3, <1>4, <1>5, <1>6, <1>7, HandleKeeps DEF Work

LEMMA RowsStep ==
    ASSUME IInv, RowsMinted, Next
    PROVE  RowsMinted'
<1>1. minted \subseteq minted'
  BY StepKinds DEF IInv, Receive, Keeps, Ends, tables
<1>2. CASE db' = db
  BY <1>1, <1>2 DEF RowsMinted
<1>3. CASE db' # db
  BY <1>1, <1>3, StepLives DEF RowsMinted, AddsOnly
<1>4. QED
  BY <1>2, <1>3

LEMMA DrawnStep ==
    ASSUME IInv, DrawnAreFresh, Next
    PROVE  DrawnAreFresh'
<1> USE DEF IInv
<1>1. PICK p \in Proc :
        \/ \E i \in Identities \union {Anonymous}, r \in Requests : Receive(p, i, r)
        \/ Keeps(p)
        \/ Ends(p)
  BY StepKinds
<1>2. ASSUME NEW i \in Identities \union {Anonymous}, NEW r \in Requests, Receive(p, i, r)
      PROVE  DrawnAreFresh'
  <2>1. PICK id \in FreshIds(r) : made' = [made EXCEPT ![p] = id]
    BY <1>2 DEF Receive
  <2>2. made[p] = Absent
    BY <1>2 DEF Receive, DrawnAreFresh
  <2>3. Creating(r) => id \notin minted /\ \A q \in Proc : id # made[q]
    BY <2>1 DEF Creating, FreshIds
  <2>4. ~Creating(r) => id = Absent
    BY <2>1 DEF Creating, FreshIds
  <2>5. /\ minted' = minted
        /\ pc' = [pc EXCEPT ![p] = "auth_lookup"]
        /\ req' = [req EXCEPT ![p] = r]
    BY <1>2 DEF Receive, Go, tables
  <2>6. /\ made'[p] = id /\ pc'[p] = "auth_lookup" /\ req'[p] = r
        /\ \A q \in Proc \ {p} : made'[q] = made[q] /\ pc'[q] = pc[q] /\ req'[q] = req[q]
    BY <2>1, <2>5 DEF TypeOK
  <2>7. Creating(r) => id # Absent
    BY <2>2, <2>3
  <2>8. ASSUME NEW q \in Proc
        PROVE  /\ pc'[q] \in {"idle", "down"} => made'[q] = Absent
               /\ pc'[q] \in InFlight /\ Creating(req'[q]) =>
                    /\ made'[q] \notin minted' \union {Absent}
                    /\ \A x \in Proc \ {q} : made'[x] # made'[q]
    <3>1. CASE q = p
      BY <2>3, <2>5, <2>6, <2>7, <3>1
    <3>2. CASE q # p
      BY <2>3, <2>4, <2>5, <2>6, <3>2 DEF DrawnAreFresh
    <3>3. QED
      BY <3>1, <3>2
  <2>9. QED
    BY <2>8 DEF DrawnAreFresh, Creating
<1>3. CASE Keeps(p)
  BY <1>3 DEF Keeps, DrawnAreFresh, Creating, InFlight, TypeOK
<1>4. CASE Ends(p)
  BY <1>4 DEF Ends, DrawnAreFresh, Creating, InFlight, TypeOK
<1>5. QED
  BY <1>1, <1>2, <1>3, <1>4

\* The second invariant.
THEOREM Freshness == Spec => [](IInv /\ Fresh)
<1>1. Init => Fresh
  BY DEF Init, InitSession, Fresh, RowsMinted, DrawnAreFresh, InFlight
<1>2. IInv /\ Fresh /\ [Next]_vars => Fresh'
  <2>1. CASE Next
    BY <2>1, RowsStep, DrawnStep DEF Fresh
  <2>2. CASE UNCHANGED vars
    BY <2>2 DEF vars, tables, session, link, Fresh, RowsMinted, DrawnAreFresh, Creating
  <2>3. QED
    BY <2>1, <2>2
<1>3. QED
  BY <1>1, <1>2, Invariant, PTL DEF Spec

LEMMA LivesStep ==
    ASSUME IInv, Fresh, Next
    PROVE  /\ \A u \in Users(db) : db'.user[u] = db.user[u]
           /\ \A s \in Scenes(db) \intersect Scenes(db') :
                 db'.scene[s].author = db.scene[s].author
           /\ \A c \in Circuits(db) \intersect Circuits(db') :
                 db'.circuit[c].parent_scene = db.circuit[c].parent_scene
           /\ \A w \in Wires(db) \intersect Wires(db') : db'.wire[w] = db.wire[w]
           /\ Scenes(db') \intersect minted \subseteq Scenes(db)
           /\ Circuits(db') \intersect minted \subseteq Circuits(db)
           /\ Wires(db') \intersect minted \subseteq Wires(db)
<1>1. CASE db' = db
  BY <1>1
<1>2. CASE db' # db
  <2>1. Continues(db, db')
    BY <1>2, StepLives
  <2>2. CASE AddsOnly(db, db', {}, {}, {})
    BY <2>1, <2>2 DEF Continues, AddsOnly
  <2>3. CASE ~AddsOnly(db, db', {}, {}, {})
    <3>1. PICK p \in Proc : /\ pc[p] = "handle" /\ Creating(req[p])
                            /\ AddsOnly(db, db', {made[p]}, {made[p]}, {made[p]})
      BY <1>2, <2>3, StepLives
    <3>2. made[p] \notin minted
      BY <3>1 DEF Fresh, DrawnAreFresh, InFlight
    <3>3. QED
      BY <2>1, <3>1, <3>2 DEF Continues, AddsOnly
  <2>4. QED
    BY <2>2, <2>3
<1>3. QED
  BY <1>1, <1>2

\* A user keeps the nickname, a scene its author, a circuit its scene and a wire
\* everything, and an id is never used for a second row.
THEOREM LivesCorrect == Spec => LifelongFacts
<1> DEFINE Lives ==
        /\ \A u \in Users(db) : db'.user[u] = db.user[u]
        /\ \A s \in Scenes(db) \intersect Scenes(db') :
              db'.scene[s].author = db.scene[s].author
        /\ \A c \in Circuits(db) \intersect Circuits(db') :
              db'.circuit[c].parent_scene = db.circuit[c].parent_scene
        /\ \A w \in Wires(db) \intersect Wires(db') : db'.wire[w] = db.wire[w]
        /\ Scenes(db') \intersect minted \subseteq Scenes(db)
        /\ Circuits(db') \intersect minted \subseteq Circuits(db)
        /\ Wires(db') \intersect minted \subseteq Wires(db)
<1>1. IInv /\ Fresh /\ [Next]_vars => [Lives]_vars
  BY LivesStep
<1>2. QED
  BY <1>1, Freshness, PTL DEF Spec, LifelongFacts

-----------------------------------------------------------------------------
(* Clients that keep references inside one scene.  What they knew when they *)
(* sent a request is still so when it is handled, as far as the circuits    *)
(* they named are still there: a circuit never changes its scene, and its   *)
(* id is never another's.                                                   *)

\* a and b exist or existed, and if they do, are in one scene.
Near(a, b) ==
    /\ {a, b} \subseteq minted
    /\ a \in Circuits(db) /\ b \in Circuits(db) =>
            db.circuit[a].parent_scene = db.circuit[b].parent_scene

\* The circuit c existed, and if it does, is in scene s.
Within(c, s) == c \in minted /\ (c \in Circuits(db) => db.circuit[c].parent_scene = s)

NearRequest(r) ==
    /\ r.op = "post_circuit" /\ r.parent_circuit # Null =>
            Within(r.parent_circuit, r.parent_scene)
    /\ r.op = "put_circuit" /\ r.parent_circuit # Omitted => Near(r.id, r.parent_circuit)
    /\ r.op = "post_wire" => Near(r.source_circuit, r.target_circuit)

NearRequests == \A p \in Proc : pc[p] \in InFlight => NearRequest(req[p])

\* In the tables, children are in their parents' scene, and so are both ends of a wire.
NearRows(d) ==
    /\ \A c \in Circuits(d) : d.circuit[c].parent_circuit \in Circuits(d) =>
            d.circuit[d.circuit[c].parent_circuit].parent_scene = d.circuit[c].parent_scene
    /\ \A w \in Wires(d) : d.circuit[d.wire[w].source_circuit].parent_scene
                            = d.circuit[d.wire[w].target_circuit].parent_scene

LEMMA NearStays ==
    ASSUME IInv, Fresh, Next
    PROVE  /\ \A a, b : Near(a, b) => Near(a, b)'
           /\ \A c, s : Within(c, s) => Within(c, s)'
<1>1. minted \subseteq minted'
  BY StepKinds DEF IInv, Receive, Keeps, Ends, tables
<1>2. \A c \in Circuits(db') : c \in minted =>
        c \in Circuits(db) /\ db'.circuit[c].parent_scene = db.circuit[c].parent_scene
  BY LivesStep
<1>3. \A a, b : Near(a, b) => Near(a, b)'
  BY <1>1, <1>2 DEF Near
<1>4. \A c, s : Within(c, s) => Within(c, s)'
  BY <1>1, <1>2 DEF Within
<1>5. QED
  BY <1>3, <1>4

\* What a tidy client knows when it sends.
LEMMA SentNear ==
    ASSUME IInv, Fresh, NEW r \in Requests, SameScene(db, r)
    PROVE  NearRequest(r)
<1>1. Circuits(db) \subseteq minted
  BY DEF Fresh, RowsMinted
<1>2. CASE r.op = "post_circuit"
  BY <1>1, <1>2 DEF SameScene, CircuitsOf, NearRequest, Within
<1>3. CASE r.op = "put_circuit"
  <2>1. r.parent_circuit # Omitted =>
            \E s \in Scenes(db) : {r.id, r.parent_circuit} \subseteq CircuitsOf(db, {s})
    BY <1>3 DEF SameScene
  <2>2. QED
    BY <1>1, <1>3, <2>1 DEF CircuitsOf, NearRequest, Near
<1>4. CASE r.op = "post_wire"
  <2>1. \E s \in Scenes(db) :
            {r.source_circuit, r.target_circuit} \subseteq CircuitsOf(db, {s})
    BY <1>4 DEF SameScene
  <2>2. QED
    BY <1>1, <1>4, <2>1 DEF CircuitsOf, NearRequest, Near
<1>5. CASE r.op \notin {"post_circuit", "put_circuit", "post_wire"}
  BY <1>5 DEF NearRequest
<1>6. QED
  BY <1>2, <1>3, <1>4, <1>5

LEMMA NearRequestsStep ==
    ASSUME IInv, Fresh, NearRequests, Next, TidyClients
    PROVE  NearRequests'
<1>1. \A r : NearRequest(r) => NearRequest(r)'
  BY NearStays DEF NearRequest
<1>2. PICK p \in Proc :
        \/ \E i \in Identities \union {Anonymous}, r \in Requests : Receive(p, i, r)
        \/ Keeps(p)
        \/ Ends(p)
  BY StepKinds DEF IInv
<1>3. ASSUME NEW i \in Identities \union {Anonymous}, NEW r \in Requests, Receive(p, i, r)
      PROVE  NearRequests'
  <2>1. /\ pc[p] = "idle" /\ pc'[p] = "auth_lookup" /\ req'[p] = r
        /\ \A q \in Proc \ {p} : pc'[q] = pc[q] /\ req'[q] = req[q]
    BY <1>3 DEF Receive, Go, IInv, TypeOK
  <2>2. NearRequest(r)
    BY <2>1, SentNear DEF TidyClients
  <2>3. QED
    BY <1>1, <2>1, <2>2 DEF NearRequests
<1>4. CASE Keeps(p)
  <2>1. /\ req' = req
        /\ \A q \in Proc : pc'[q] \in InFlight => pc[q] \in InFlight
    BY <1>4 DEF Keeps, IInv, TypeOK
  <2>2. QED
    BY <1>1, <2>1 DEF NearRequests
<1>5. CASE Ends(p)
  <2>1. /\ pc'[p] \notin InFlight
        /\ \A q \in Proc \ {p} : pc'[q] = pc[q] /\ req'[q] = req[q]
    BY <1>5 DEF Ends, IInv, TypeOK, InFlight
  <2>2. QED
    BY <1>1, <2>1 DEF NearRequests
<1>6. QED
  BY <1>2, <1>3, <1>4, <1>5

\* A circuit that is new comes from a POST /circuit, with the parent it named.
LEMMA NewCircuits ==
    ASSUME IInv, Next, NEW c \in Circuits(db') \ Circuits(db)
    PROVE  \E p \in Proc :
              /\ pc[p] = "handle" /\ req[p].op = "post_circuit"
              /\ req[p].parent_circuit \in Circuits(db) \union {Null}
              /\ db'.circuit[c] = CircuitOf(req[p])
              /\ \A k \in Circuits(db) : db'.circuit[k] = db.circuit[k]
<1>1. db \in Database /\ db' # db
  BY DEF IInv, TypeOK
<1>2. PICK p \in Proc : \/ UserStatement(p) \/ SceneStatement(p)
                        \/ CircuitStatement(p) \/ WireStatement(p)
  BY <1>1, StatementCases
<1>3. pc[p] = "handle" => req[p] \in Requests /\ Fits(req[p], made[p])
  BY DEF IInv, RequestKnown, InFlight
<1>4. db'.circuit # db.circuit
  BY DEF Circuits
<1>5. ~UserStatement(p)
  BY <1>1, <1>4, CircuitsKept DEF UserStatement
<1>6. ~WireStatement(p)
  BY <1>1, <1>4, CircuitsKept DEF WireStatement
<1>7. ASSUME NEW id, NEW user,
             db' = scene_delete(db, id, user).db \/ db' = delete_circuit(db, id).db
      PROVE  FALSE
  BY <1>1, <1>7, DeletesLive DEF AddsOnly
<1>8. ~SceneStatement(p)
  BY <1>1, <1>4, <1>7, CircuitsKept DEF SceneStatement
<1>9. ~(/\ Handles(p, "put_circuit")
        /\ \E f \in Requested(req[p]) : db' = Update(db, f, req[p][f], req[p].id).db)
  BY <1>1, <1>3, UpdateWrites DEF Handles
<1>10. /\ Answers(p, "post_circuit")
       /\ db' = circuit_save(db, made[p], CircuitOf(req[p])).db
  BY <1>2, <1>5, <1>6, <1>7, <1>8, <1>9 DEF CircuitStatement
<1>11. made[p] \in CircuitId
  BY <1>3, <1>10 DEF Answers, Fits
<1>12. /\ c = made[p]
       /\ \A k \in Circuits(db) : db'.circuit[k] = db.circuit[k]
  BY <1>1, <1>10, <1>11, CircuitSaveWrites
<1>13. /\ db' = [db EXCEPT !.circuit[made[p]] = CircuitOf(req[p])]
       /\ CircuitOf(req[p]).parent_circuit \in Circuits(db) \union {Null}
  BY <1>1, <1>10 DEF circuit_save, Result
<1>14. db'.circuit[c] = CircuitOf(req[p])
  BY <1>1, <1>11, <1>12, <1>13 DEF Database
<1>15. QED
  BY <1>10, <1>12, <1>13, <1>14 DEF Answers, CircuitOf

LEMMA NewWires ==
    ASSUME IInv, Next, NEW w \in Wires(db') \ Wires(db)
    PROVE  \E p \in Proc :
              /\ pc[p] = "handle" /\ req[p].op = "post_wire"
              /\ req[p].source_circuit \in Circuits(db)
              /\ req[p].target_circuit \in Circuits(db)
              /\ db'.wire[w] = WireOf(req[p])
              /\ db'.circuit = db.circuit
<1>1. db \in Database /\ db' # db
  BY DEF IInv, TypeOK
<1>2. PICK p \in Proc : \/ UserStatement(p) \/ SceneStatement(p)
                        \/ CircuitStatement(p) \/ WireStatement(p)
  BY <1>1, StatementCases
<1>3. pc[p] = "handle" => req[p] \in Requests /\ Fits(req[p], made[p])
  BY DEF IInv, RequestKnown, InFlight
<1>4. db'.wire # db.wire
  BY DEF Wires
<1>5. ~UserStatement(p)
  BY <1>1, <1>4, WiresKept DEF UserStatement
<1>6. ASSUME NEW id, NEW user,
             db' = scene_delete(db, id, user).db \/ db' = delete_circuit(db, id).db
      PROVE  FALSE
  BY <1>1, <1>6, DeletesLive DEF AddsOnly
<1>7. ~SceneStatement(p)
  BY <1>1, <1>4, <1>6, WiresKept DEF SceneStatement
<1>8. ~(/\ Handles(p, "put_circuit")
        /\ \E f \in Requested(req[p]) : db' = Update(db, f, req[p][f], req[p].id).db)
  BY <1>1, <1>3, <1>4, UpdateWrites DEF Handles
<1>9. ~CircuitStatement(p)
  BY <1>1, <1>4, <1>6, <1>8, WiresKept DEF CircuitStatement
<1>10. ~(db' = delete_wire(db, req[p].id).db)
  BY <1>1, WireDeleteWrites DEF Wires
<1>11. /\ Answers(p, "post_wire")
       /\ db' = wire_save(db, made[p], WireOf(req[p])).db
  BY <1>2, <1>5, <1>7, <1>9, <1>10 DEF WireStatement
<1>12. made[p] \in WireId
  BY <1>3, <1>11 DEF Answers, Fits
<1>13. w = made[p]
  BY <1>1, <1>11, <1>12, WireSaveWrites
<1>14. /\ db' = [db EXCEPT !.wire[made[p]] = WireOf(req[p])]
       /\ WireOf(req[p]).source_circuit \in Circuits(db)
       /\ WireOf(req[p]).target_circuit \in Circuits(db)
  BY <1>1, <1>11 DEF wire_save, Result
<1>15. db'.wire[w] = WireOf(req[p]) /\ db'.circuit = db.circuit
  BY <1>1, <1>12, <1>13, <1>14 DEF Database
<1>16. QED
  BY <1>11, <1>14, <1>15 DEF Answers, WireOf

LEMMA NearRowsStep ==
    ASSUME IInv, Fresh, NearRequests, NearRows(db), Next
    PROVE  NearRows(db')
<1>1. IInv'
  BY StepIInv
<1>2. /\ db \in Database /\ db' \in Database
      /\ Integrity(db) /\ Integrity(db')
  BY <1>1 DEF IInv, TypeOK, IntegrityHolds
<1>3. Circuits(db) \subseteq minted
  BY DEF Fresh, RowsMinted
<1>4. \A k \in Circuits(db) \intersect Circuits(db') :
        db'.circuit[k].parent_scene = db.circuit[k].parent_scene
  BY LivesStep
<1>5. ASSUME NEW c \in Circuits(db'), db'.circuit[c].parent_circuit \in Circuits(db')
      PROVE  db'.circuit[db'.circuit[c].parent_circuit].parent_scene
                = db'.circuit[c].parent_scene
  <2> DEFINE up == db'.circuit[c].parent_circuit
  <2>1. up \in Circuits(db') /\ up \in CircuitId
    BY <1>5 DEF Circuits
  <2>2. CASE c \notin Circuits(db)
    <3>1. PICK p \in Proc :
            /\ pc[p] = "handle" /\ req[p].op = "post_circuit"
            /\ req[p].parent_circuit \in Circuits(db) \union {Null}
            /\ db'.circuit[c] = CircuitOf(req[p])
            /\ \A k \in Circuits(db) : db'.circuit[k] = db.circuit[k]
      BY <2>2, NewCircuits
    <3>2. up = req[p].parent_circuit /\ db'.circuit[c].parent_scene = req[p].parent_scene
      BY <3>1 DEF CircuitOf
    <3>3. up \in Circuits(db) /\ up # Null
      BY <2>1, <3>1, <3>2, NullAssumption
    <3>4. db.circuit[up].parent_scene = req[p].parent_scene
      BY <3>1, <3>2, <3>3 DEF NearRequests, NearRequest, Within, InFlight
    <3>5. QED
      BY <3>1, <3>2, <3>3, <3>4
  <2>3. CASE c \in Circuits(db) /\ up = db.circuit[c].parent_circuit
    <3>1. up \in Circuits(db)
      BY <1>2, <2>1, <2>3, NullAssumption DEF Integrity
    <3>2. db.circuit[up].parent_scene = db.circuit[c].parent_scene
      BY <2>3, <3>1 DEF NearRows
    <3>3. QED
      BY <1>4, <1>5, <2>1, <2>3, <3>1, <3>2
  <2>4. CASE c \in Circuits(db) /\ up # db.circuit[c].parent_circuit
    <3>1. "parent_circuit" \in ColumnSet
      BY ColumnNames
    <3>2. PICK p \in Proc : /\ Handles(p, "put_circuit") /\ req[p].id = c
                            /\ up = req[p].parent_circuit
      BY <1>5, <2>4, <3>1, ColumnsStep
    <3>3. up # Omitted
      BY <2>1, OmittedAssumption
    <3>4. Near(c, up)
      BY <3>2, <3>3 DEF Handles, NearRequests, NearRequest, InFlight
    <3>5. up \in Circuits(db)
      BY <2>1, <3>4, LivesStep DEF Near
    <3>6. QED
      BY <1>4, <1>5, <2>1, <2>4, <3>4, <3>5 DEF Near
  <2>5. QED
    BY <2>2, <2>3, <2>4
<1>6. ASSUME NEW w \in Wires(db')
      PROVE  db'.circuit[db'.wire[w].source_circuit].parent_scene
                = db'.circuit[db'.wire[w].target_circuit].parent_scene
  <2>1. CASE w \in Wires(db)
    <3>1. db'.wire[w] = db.wire[w]
      BY <2>1, LivesStep
    <3>2. /\ db.wire[w].source_circuit \in Circuits(db) \intersect Circuits(db')
          /\ db.wire[w].target_circuit \in Circuits(db) \intersect Circuits(db')
      BY <1>2, <2>1, <3>1 DEF Integrity
    <3>3. QED
      BY <1>4, <2>1, <3>1, <3>2 DEF NearRows
  <2>2. CASE w \notin Wires(db)
    <3>1. PICK p \in Proc :
            /\ pc[p] = "handle" /\ req[p].op = "post_wire"
            /\ req[p].source_circuit \in Circuits(db)
            /\ req[p].target_circuit \in Circuits(db)
            /\ db'.wire[w] = WireOf(req[p])
            /\ db'.circuit = db.circuit
      BY <2>2, NewWires
    <3>2. Near(req[p].source_circuit, req[p].target_circuit)
      BY <3>1 DEF NearRequests, NearRequest, InFlight
    <3>3. QED
      BY <3>1, <3>2 DEF Near, WireOf
  <2>3. QED
    BY <2>1, <2>2
<1>7. QED
  BY <1>5, <1>6 DEF NearRows

\* The invariant of the tidy deployment.
Tidy == IInv /\ Fresh /\ NearRequests /\ NearRows(db)

LEMMA TidyInvariant ==
    ASSUME \A d \in Seeds : NearRows(d)
    PROVE  TidySpec => []Tidy
<1>1. Init => NearRequests /\ NearRows(db)
  BY DEF Init, InitSession, NearRequests, InFlight
<1>2. Tidy /\ [Next /\ TidyClients]_vars => NearRequests' /\ NearRows(db)'
  <2>1. CASE Tidy /\ Next /\ TidyClients
    BY <2>1, NearRequestsStep, NearRowsStep DEF Tidy
  <2>2. CASE Tidy /\ UNCHANGED vars
    <3>1. UNCHANGED <<db, minted, pc, req>>
      BY <2>2 DEF vars, tables, session
    <3>2. \A r : NearRequest(r) => NearRequest(r)'
      BY <3>1 DEF NearRequest, Near, Within
    <3>3. QED
      BY <2>2, <3>1, <3>2 DEF Tidy, NearRequests
  <2>3. QED
    BY <2>1, <2>2
<1>3. [Next /\ TidyClients]_vars => [Next]_vars
  OBVIOUS
<1>4. IInv /\ Fresh /\ NearRequests /\ NearRows(db) => Tidy
  BY DEF Tidy
<1>5. Tidy => IInv /\ Fresh
  BY DEF Tidy
<1>6. TidySpec => Spec
  BY <1>3, PTL DEF TidySpec, Spec
<1>7. QED
  BY <1>1, <1>2, <1>4, <1>5, <1>6, Freshness, PTL DEF TidySpec

\* With clients that keep references inside one scene, every stored wire is
\* listed by GET /wire of some scene, however their requests interleave with
\* moves and deletions: no wire is stored that nobody can see or name again.
THEOREM TidyWiresCorrect ==
    ASSUME \A d \in Seeds : NearRows(d)
    PROVE  TidySpec => []WiresAreListed
<1>1. Tidy => WiresAreListed
  <2> SUFFICES ASSUME Tidy, NEW w \in Wires(db)
               PROVE  \E s \in Scenes(db) : w \in get_wires_in_scene(db, s)
    BY DEF WiresAreListed
  <2> DEFINE s == db.circuit[db.wire[w].source_circuit].parent_scene
  <2>1. /\ db.wire[w].source_circuit \in Circuits(db)
        /\ db.wire[w].target_circuit \in Circuits(db)
    BY DEF Tidy, IInv, IntegrityHolds, Integrity
  <2>2. s \in Scenes(db)
    BY <2>1 DEF Tidy, IInv, IntegrityHolds, Integrity
  <2>3. db.circuit[db.wire[w].target_circuit].parent_scene = s
    BY DEF Tidy, NearRows
  <2>4. w \in get_wires_in_scene(db, s)
    BY <2>1, <2>3 DEF get_wires_in_scene, CircuitsOf
  <2>5. QED
    BY <2>2, <2>4
<1>2. QED
  BY <1>1, TidyInvariant, PTL

\* When children are in their parents' scene, the circuits that go with scenes
\* are those of the scenes.
LEMMA CascadeInside ==
    ASSUME NEW d \in Database, Integrity(d), NearRows(d), NEW scenes
    PROVE  Cascade(d, CircuitsOf(d, scenes)) \subseteq CircuitsOf(d, scenes)
<1> DEFINE S == CircuitsOf(d, scenes)
<1>1. S \in SUBSET CircuitId
  BY DEF CircuitsOf, Circuits
<1>2. ChildClosed(d, S)
  <2> SUFFICES ASSUME NEW c \in Circuits(d), d.circuit[c].parent_circuit \in S
               PROVE  c \in S
    BY DEF ChildClosed
  <2>1. /\ d.circuit[c].parent_circuit \in Circuits(d)
        /\ d.circuit[d.circuit[c].parent_circuit].parent_scene \in scenes
    BY DEF CircuitsOf
  <2>2. QED
    BY <2>1 DEF NearRows, CircuitsOf
<1> HIDE DEF S
<1>3. Cascade(d, S) \subseteq S
  BY <1>1, <1>2 DEF Cascade
<1>4. QED
  BY <1>3 DEF S

\* With such clients the deletion of a scene takes circuits of that scene only,
\* although the database cascades from parent to child across scenes.
THEOREM TidyDeletionCorrect ==
    ASSUME \A d \in Seeds : NearRows(d)
    PROVE  TidySpec => SceneDeletionStaysInside
<1> DEFINE Inside == \A c \in Circuits(db) \ Circuits(db') :
        Scenes(db') # Scenes(db) => db.circuit[c].parent_scene \notin Scenes(db')
<1>1. ASSUME Tidy, Next, NEW c \in Circuits(db) \ Circuits(db'), Scenes(db') # Scenes(db)
      PROVE  db.circuit[c].parent_scene \notin Scenes(db')
  <2>1. /\ db \in Database /\ Integrity(db) /\ NearRows(db)
        /\ db' # db /\ db'.scene # db.scene /\ db'.circuit # db.circuit
    BY <1>1 DEF Tidy, IInv, TypeOK, IntegrityHolds, Scenes, Circuits
  <2>2. PICK p \in Proc : \/ UserStatement(p) \/ SceneStatement(p)
                          \/ CircuitStatement(p) \/ WireStatement(p)
    BY <1>1, <2>1, StatementCases DEF Tidy
  <2>3. pc[p] = "handle" => req[p] \in Requests
    BY <1>1 DEF Tidy, IInv, RequestKnown, InFlight
  <2>4. ~UserStatement(p)
    BY <2>1, SceneTableKept DEF UserStatement
  <2>5. ~WireStatement(p)
    BY <2>1, SceneTableKept DEF WireStatement
  <2>6. ~CircuitStatement(p)
    BY <2>1, <2>3, SceneTableKept, UpdateWrites DEF CircuitStatement, Handles
  <2>7. db' = scene_delete(db, req[p].id, who[p].id).db
    BY <2>1, <2>2, <2>4, <2>5, <2>6, CircuitsKept DEF SceneStatement
  <2> DEFINE mine == OwnScenes(db, req[p].id, who[p].id)
             gone == Cascade(db, CircuitsOf(db, mine))
  <2>8. db' = Remove(db, mine, gone)
    BY <2>1, <2>7 DEF scene_delete, Result
  <2>9. gone \subseteq CircuitsOf(db, mine)
    BY <2>1, CascadeInside
  <2> HIDE DEF mine, gone
  <2>10. /\ c \in CircuitId
         /\ db'.circuit[c] = IF c \in gone THEN Absent ELSE db.circuit[c]
    BY <2>1, <2>8, RemoveWrites DEF Circuits
  <2>11. db.circuit[c].parent_scene \in mine
    BY <1>1, <2>9, <2>10 DEF Circuits, CircuitsOf
  <2>12. \A s \in SceneId : s \in mine => db'.scene[s] = Absent
    BY <2>1, <2>8, RemoveWrites
  <2>13. QED
    BY <2>11, <2>12 DEF Scenes
<1>2. Tidy /\ [Next]_vars => [Inside]_vars
  BY <1>1
<1>3. [Next /\ TidyClients]_vars => [Next]_vars
  OBVIOUS
<1>4. QED
  BY <1>2, <1>3, TidyInvariant, PTL DEF TidySpec, SceneDeletionStaysInside
=============================================================================
