------------------------------ MODULE MCBackend ------------------------------
(* Small instances of Backend: one set of requests for each question that a *)
(* run asks, over ids that are model values and two values of every column. *)
EXTENDS Backend, TLC

CONSTANTS u0, u1, u2, n0, n1, n2, s1, s2, c1, c2, w1, t1, t2, g1, g2

MCCoord == {0, 1}

Alice == [id |-> u1, nickname |-> n1]
Bob == [id |-> u2, nickname |-> n2]
\* The user of Bob's id under the name that Alice has, or will have.
Rival == [id |-> u2, nickname |-> n1]
AliceOnly == {Alice}
TwoUsers == {Alice, Bob}
RivalUsers == {Alice, Bob, Rival}

\* A database with the users and scenes of two partial functions, besides the
\* testing user that migration 7 inserts.
Seed(users, scenes) ==
    [user    |-> [u \in UserId |-> IF u = u0 THEN n0
                                  ELSE IF u \in DOMAIN users THEN users[u] ELSE Absent],
     scene   |-> [s \in SceneId |-> IF s \in DOMAIN scenes
                                    THEN [author |-> scenes[s], text |-> t1] ELSE Absent],
     circuit |-> [c \in CircuitId |-> Absent],
     wire    |-> [w \in WireId |-> Absent]]

\* What the migrations leave behind.
EmptySeeds == {Seed(<<>>, <<>>)}
\* All scenes belong to Alice.
AliceSeeds == {Seed(u1 :> n1, [s \in SceneId |-> u1])}

Invalid == [op : {"invalid"}]
PutRequest(ids, xs, ys, parents, gates) ==
    [op : {"put_circuit"}, id : ids, location_x : xs, location_y : ys,
     parent_circuit : parents, gate_type : gates]
NewCircuit(scenes, parents) ==
    [op : {"post_circuit"}, parent_scene : scenes, location_x : {0}, location_y : {0},
     parent_circuit : parents, gate_type : {g1}]
NewWire(ends, signals) ==
    [op : {"post_wire"}, source_circuit : ends, target_circuit : ends,
     init_signal : signals]

\* Scenes, with every way to name one.
SceneRequests ==
    Invalid
    \union [op : {"get_scene"}]
    \union [op : {"post_scene"}, text : {t1}]
    \union [op : {"put_scene"}, id : SceneRef, text : {t2}]
    \union [op : {"delete_scene"}, id : SceneRef]

\* Circuits of any scene below circuits of any scene, cycles included.
CascadeRequests ==
    NewCircuit(SceneId, CircuitId \union {Null})
    \union PutRequest(CircuitId, {Omitted}, {Omitted}, CircuitId, {Omitted})
    \union [op : {"circuit_delete"}, id : CircuitId]
    \union [op : {"delete_scene"}, id : SceneId]
    \union NewWire(CircuitId, {TRUE})
    \union [op : {"wire_delete"}, id : WireId]

\* Every operation, with every kind of reference and column subset, and a malformed
\* value behind, before and among the others.
AloneRequests ==
    SceneRequests
    \union NewCircuit({s1, Malformed}, {Null, c1, Malformed})
    \union PutRequest({c1}, {Omitted, 1}, {Omitted, 1}, {Omitted, c1}, {Omitted, g2})
    \union PutRequest({c1}, {Malformed}, {1}, {Omitted, c1}, {Omitted, g2})
    \union PutRequest({c1}, {Omitted}, {1}, {Malformed}, {Omitted, g2, Malformed})
    \union PutRequest({c1, Malformed}, {0}, {Omitted}, {Omitted}, {g1})
    \union [op : {"get_circuit", "get_wire"}, id : {s1, Malformed}]
    \union [op : {"circuit_delete"}, id : {c1, Malformed}]
    \union NewWire({c1, Malformed}, {TRUE})
    \union [op : {"wire_delete"}, id : {w1, Malformed}]

\* Two processes that build, rearrange and delete the same circuits.
TidyRequests ==
    NewCircuit(SceneId, CircuitId \union {Null})
    \union PutRequest(CircuitId, {Omitted}, {Omitted}, CircuitId, {Omitted})
    \union [op : {"circuit_delete"}, id : {c1}]
    \union [op : {"delete_scene"}, id : {s1}]
    \union NewWire(CircuitId, {TRUE})

SignalRequests ==
    NewCircuit({s1}, {Null})
    \union NewWire({c1}, BOOLEAN)
    \union [op : {"get_wire"}, id : {s1}]

ProcSymmetry == Permutations(Proc)
SceneCircuitSymmetry == Permutations(SceneId) \union Permutations(CircuitId)
=============================================================================
