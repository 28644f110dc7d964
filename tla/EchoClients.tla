----------------------------- MODULE EchoClients -----------------------------
(***************************************************************************)
(* Backend with clients that send back what they were shown: an editor     *)
(* reads the circuits of a scene (get_circuit) and moves or copies one of  *)
(* them, its other columns, the parent among them, as the response had     *)
(* them.  Others give circuits new parents or delete them, so that what    *)
(* was shown may no longer be so when the request is handled.              *)
(***************************************************************************)
EXTENDS Backend

VARIABLE seen   \* the circuits that some client was shown, with scene and parent

InitEcho == Init /\ seen = {}

\* The response to get_circuit reaches its client.
Shown ==
    LET part(dto) == [id |-> dto.id, parent_scene |-> dto.row.parent_scene,
                      parent_circuit |-> dto.row.parent_circuit]
    IN  {part(dto) : dto \in UNION {body[p] : p \in {q \in Proc :
            /\ pc[q] = "reply" /\ pc'[q] = "idle"
            /\ req[q].op = "get_circuit"}}}

Moves(r) == r.op = "put_circuit" /\ r.location_x # Omitted

\* The request takes its parent, or its parent and its scene, from a circuit seen;
\* what else a move sends has the types of a response.
Echoes(r) ==
    CASE Moves(r) ->
            /\ \E dto \in seen : r.id = dto.id /\ r.parent_circuit = dto.parent_circuit
            /\ Malformed \notin {r.location_x, r.location_y, r.gate_type}
      [] r.op = "post_circuit" ->
            \/ r.parent_circuit = Null
            \/ \E dto \in seen : /\ r.parent_scene = dto.parent_scene
                                 /\ r.parent_circuit = dto.parent_circuit
      [] OTHER -> TRUE

EchoNext ==
    /\ Next
    /\ \A p \in Proc : pc[p] = "idle" /\ pc'[p] = "auth_lookup" => Echoes(req'[p])
    /\ seen' = seen \union Shown

EchoSpec == InitEcho /\ [][EchoNext]_<<vars, seen>>

\* A client that moves a circuit as it was shown is refused for two reasons only:
\* the circuit was shown without a parent, which the response writes as a text
\* that is no reference, or it has been given another parent meanwhile.  That its
\* parent was deleted is no reason, since the circuit has then gone with it and
\* the statements match no row.
EchoRefusedForCause ==
    [][\A p \in Proc :
        pc[p] = "handle" /\ Moves(req[p]) /\ outcome'[p] = "failed" /\ faults' = 0 =>
        \/ req[p].parent_circuit = Malformed
        \/ /\ req[p].id \in Circuits(db)
           /\ db.circuit[req[p].id].parent_circuit # req[p].parent_circuit]_<<vars, seen>>
=============================================================================
